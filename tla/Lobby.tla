------------------------------- MODULE Lobby -------------------------------
(***************************************************************************)
(* A room and the menus of two clients: what MainMenu and its pages show and *)
(* what GameDataModel holds of the room, driven by the keys the users press, *)
(* the answers to the requests they send and the notifications of what the   *)
(* others did, all of which take their time.                                *)
(*                                                                         *)
(* Each client has a connection that loses and reorders nothing; a broken    *)
(* one is Connection's matter.  The server handles one request at a time     *)
(* (GameServer has the interleavings) and has one room, which Creator opens: *)
(* what follows when another is opened while it lasts is left out.           *)
(***************************************************************************)
EXTENDS Integers, Sequences, FiniteSets

CONSTANTS
    Users,
    Creator,        \* the user that opens the room
    MaxPending,     \* bound: requests under way
    MaxDown,        \* bound: messages on their way to a client
    Patient         \* users press nothing while a request is under way

Nobody == "nobody"
ASSUME LobbyAssumption ==
    /\ Creator \in Users /\ Nobody \notin Users
    /\ {MaxPending, MaxDown} \subseteq Nat \ {0} /\ Patient \in BOOLEAN

VARIABLES
    room,       \* of the server: status, mode, and of each seat the user and its ready flag
    client,     \* of each user: scene, page, panels and what it holds of the room
    up, down    \* what is under way from and to each client

vars == <<room, client, up, down>>

Seats == 0..1
Empty == [s \in Seats |-> Nobody]
UnReady == [s \in Seats |-> FALSE]
NoRoom == [status |-> "none", mode |-> "none", seat |-> Empty, ready |-> UnReady]
Modes == <<"common", "edit">>       \* what there is to choose, in the menu's order

(* The pages in the order of panelMenus.                                    *)
Pages == <<"MAIN", "ONLINE", "JOIN_ROOM", "ROOM", "START_CHOOSE">>
None == "none"

(* over: the game is complete, or a dialog says so and waits for a click.    *)
InMenu(page) ==
    [scene |-> "menu", page |-> page, shown |-> {page}, over |-> FALSE, cursor |-> 0]
InGame == [scene |-> "game", page |-> None, shown |-> {}, over |-> FALSE, cursor |-> 0]
\* A view of the menu or of the game, and what GameDataModel keeps of the room.
To(c, view) == [x \in DOMAIN c |-> IF x \in DOMAIN view THEN view[x] ELSE c[x]]

resetAllPlayerHallInfo(c) == [c EXCEPT !.seat = Empty, !.ready = UnReady]

InitClient == [
    scene |-> "menu", page |-> "MAIN", shown |-> {"MAIN"}, over |-> FALSE,
    room |-> FALSE, no |-> 0, seat |-> Empty, ready |-> UnReady, cursor |-> 0]

Init ==
    /\ room = NoRoom
    /\ client = [u \in Users |-> InitClient]
    /\ up = [u \in Users |-> <<>>] /\ down = [u \in Users |-> <<>>]

-----------------------------------------------------------------------------
(* The server's side: the handlers of game_server.cpp, each an answer to the *)
(* one who asks and notifications to the others in the room.                *)

Ntf(name, no) == [kind |-> "ntf", name |-> name, no |-> no, user |-> Nobody]
NtfUser(name, no, user) == [Ntf(name, no) EXCEPT !.user = user]
Rsp(m, ok, no) ==
    [kind |-> "rsp", name |-> m.name, ok |-> ok, no |-> no, from |-> m.from, item |-> m.item]

Takes(u, name) == up[u] # <<>> /\ Head(up[u]).name = name
Request(u) == Head(up[u])
Sits(u) == room.status # "none" /\ Request(u).room /\ room.seat[Request(u).no] = u
SeatedIn(r) == {r.seat[s] : s \in Seats} \ {Nobody}

(* The end of a handler that went well: r is the room it leaves behind, mine *)
(* what the user is sent and others what the others in r are.               *)
Done(u, r, mine, others) ==
    /\ \A v \in Users : Len(down[v]) < MaxDown
    /\ room' = r
    /\ up' = [up EXCEPT ![u] = Tail(@)]
    /\ down' = [v \in Users |->
                    IF v = u THEN down[v] \o mine
                    ELSE IF v \in SeatedIn(r) THEN down[v] \o others ELSE down[v]]
    /\ UNCHANGED client
Fail(u) == Done(u, room, <<Rsp(Request(u), FALSE, 0)>>, <<>>)
Ok(u) == Rsp(Request(u), TRUE, Request(u).no)

\* Bound: no other room is opened while there is this one.
OnCreateRoom(u) ==
    /\ Takes(u, "CREATE_ROOM")
    /\ u \in SeatedIn(room) \/ room.status = "none"
    /\ IF u \in SeatedIn(room) THEN Fail(u)
       ELSE Done(u, [NoRoom EXCEPT !.status = "ready", !.seat[0] = u],
                 <<Rsp(Request(u), TRUE, 0)>>, <<>>)

OnJoinRoom(u) ==
    /\ Takes(u, "JOIN_ROOM")
    /\ LET other == room.seat[0]
       IN  IF u \in SeatedIn(room) \/ other = Nobody \/ room.seat[1] # Nobody THEN Fail(u)
           ELSE Done(u, [room EXCEPT !.seat[1] = u],
                     <<Rsp(Request(u), TRUE, 1), NtfUser("PLAYER_INFO", 0, other)>>,
                     <<NtfUser("JOIN_ROOM", 1, u)>>)

\* Mutant: the others are told that the host left and not who is host now.
LeaveRoomUntold(u, no) ==
    LET other == room.seat[1]
        open == [room EXCEPT !.status = "ready", !.mode = "none"]
        rsp == Rsp(Request(u), TRUE, no)
    IN  CASE no = 1 -> Done(u, [open EXCEPT !.seat[1] = Nobody, !.ready = UnReady], <<rsp>>,
                            <<Ntf("LEAVE_ROOM", 1)>>)
          [] no = 0 /\ other = Nobody -> Done(u, NoRoom, <<rsp>>, <<>>)
          [] OTHER -> Done(u, [open EXCEPT !.seat = [Empty EXCEPT ![0] = other], !.ready = UnReady],
                           <<rsp>>, <<Ntf("LEAVE_ROOM", 0)>>)

(* The room waits for the players again, whatever it was doing; a guest      *)
(* whose host leaves moves to seat 0.                                       *)
LeaveRoom(u, no) ==
    LET other == room.seat[1]
        open == [room EXCEPT !.status = "ready", !.mode = "none"]
        rsp == Rsp(Request(u), TRUE, no)
    IN  CASE no = 1 -> Done(u, [open EXCEPT !.seat[1] = Nobody, !.ready = UnReady], <<rsp>>,
                            <<Ntf("LEAVE_ROOM", 1)>>)
          [] no = 0 /\ other = Nobody -> Done(u, NoRoom, <<rsp>>, <<>>)
          [] OTHER -> Done(u, [open EXCEPT !.seat = [Empty EXCEPT ![0] = other], !.ready = UnReady],
                           <<rsp>>, <<Ntf("LEAVE_ROOM", 0), NtfUser("HOST_CHANGE", 1, other)>>)
OnLeaveRoom(u) ==
    /\ Takes(u, "LEAVE_ROOM")
    /\ IF Sits(u) THEN LeaveRoom(u, Request(u).no) ELSE Fail(u)

OnRoomReady(u) ==
    /\ Takes(u, "ROOM_READY")
    /\ IF Sits(u) /\ room.status = "ready" /\ Request(u).no # 0 /\ ~room.ready[Request(u).no]
       THEN Done(u, [room EXCEPT !.ready[1] = TRUE], <<Ok(u)>>, <<Ntf("ROOM_READY", 1)>>)
       ELSE Fail(u)

OnRoomUnReady(u) ==
    /\ Takes(u, "ROOM_UNREADY")
    /\ IF Sits(u) /\ room.status = "ready" /\ Request(u).no # 0 /\ room.ready[Request(u).no]
       THEN Done(u, [room EXCEPT !.ready[1] = FALSE], <<Ok(u)>>, <<Ntf("ROOM_UNREADY", 1)>>)
       ELSE Fail(u)

OnRoomStart(u) ==
    /\ Takes(u, "ROOM_START")
    /\ IF /\ Sits(u) /\ room.status = "ready" /\ Request(u).no = 0
          /\ room.seat[1] # Nobody /\ room.ready[1]
       THEN Done(u, [room EXCEPT !.status = "start", !.ready[0] = TRUE],
                 <<Ok(u)>>, <<Ntf("ROOM_START", 0)>>)
       ELSE Fail(u)

MayChoose(u) == Sits(u) /\ room.status = "start" /\ Request(u).no = 0
OnMenuSwitch(u) ==
    /\ Takes(u, "MENU_SWITCH")
    /\ IF MayChoose(u) THEN Done(u, room, <<Ok(u)>>, <<Ntf("MENU_SWITCH", Request(u).item)>>)
       ELSE Fail(u)

OnMenuChoose(u) ==
    /\ Takes(u, "MENU_CHOOSE")
    /\ IF MayChoose(u)
       THEN Done(u, [room EXCEPT !.status = "game", !.mode = Modes[Request(u).item + 1]],
                 <<Ok(u), Ntf("GAME_START", 0)>>,
                 <<Ntf("MENU_CHOOSE", 0), Ntf("GAME_START", 0)>>)
       ELSE Fail(u)

OnMenuBack(u) ==
    /\ Takes(u, "MENU_BACK")
    /\ IF MayChoose(u)
       THEN Done(u, [room EXCEPT !.status = "ready", !.ready = UnReady],
                 <<Ok(u)>>, <<Ntf("MENU_BACK", 0)>>)
       ELSE Fail(u)

\* Not answered when it comes too late.
OnGameMapEditFinished(u) ==
    /\ Takes(u, "EDIT_FINISHED")
    /\ IF Sits(u) /\ room.status = "game" /\ room.mode = "edit" /\ Request(u).no = 0
       THEN Done(u, [room EXCEPT !.mode = "common"],
                 <<Ntf("GAME_START", 0)>>, <<Ntf("GAME_START", 0)>>)
       ELSE Done(u, room, <<>>, <<>>)

OnGameEnd(u) ==
    /\ Takes(u, "GAME_END")
    /\ IF Sits(u) /\ room.status = "game"
       THEN Done(u, [room EXCEPT !.status = "ready", !.mode = "none", !.ready = UnReady],
                 <<Ntf("GAME_END", Request(u).no)>>, <<Ntf("GAME_END", Request(u).no)>>)
       ELSE Done(u, room, <<>>, <<>>)

OnRequest(u) ==
    \/ OnCreateRoom(u) \/ OnJoinRoom(u) \/ OnLeaveRoom(u) \/ OnRoomReady(u) \/ OnRoomUnReady(u)
    \/ OnRoomStart(u) \/ OnMenuSwitch(u) \/ OnMenuChoose(u) \/ OnMenuBack(u)
    \/ OnGameMapEditFinished(u) \/ OnGameEnd(u)

-----------------------------------------------------------------------------
(* The client's pages. *)
Index(page) == CHOOSE i \in DOMAIN Pages : Pages[i] = page

onMenuHide(c, page) == IF page = "START_CHOOSE" THEN 0 ELSE c.cursor

(* The panel left fades out and is hidden 0.2 s later, which is not told     *)
(* apart from at once.                                                      *)
switchMenuPage(c, from, to) ==
    IF from = to \/ c.scene # "menu" THEN c
    ELSE [c EXCEPT !.shown = (@ \cup {to}) \ {from}, !.page = to,
                   !.cursor = onMenuHide(c, from)]

Pending(u) == Len(up[u]) + Cardinality({i \in DOMAIN down[u] : down[u][i].kind = "rsp"})

(* from is what the callback of the request keeps of where it was sent.      *)
SendItem(u, name, item, from) ==
    /\ up' = [up EXCEPT ![u] =
                Append(@, [name |-> name, room |-> client[u].room, no |-> client[u].no,
                           from |-> from, item |-> item])]
    /\ UNCHANGED <<room, client, down>>
Send(u, name, from) == SendItem(u, name, 0, from)
Switch(u, from, to) ==
    /\ client' = [client EXCEPT ![u] = switchMenuPage(@, from, to)]
    /\ UNCHANGED <<room, up, down>>

\* No more than MaxPending requests of all clients are under way.
MayRequest ==
    Cardinality({p \in Users \X (1..MaxPending) : p[2] <= Pending(p[1])}) < MaxPending
isOperateEnabled(u) == MayRequest /\ (Patient => Pending(u) = 0)

(* The key OK is for the first panel that is shown, which need not be that   *)
(* of the page; the callbacks keep the page.                                *)
FirstShown(c) == CHOOSE p \in c.shown : \A q \in c.shown : Index(p) <= Index(q)
RoomItem(u, c) ==
    \/ c.no = 0 /\ Send(u, "ROOM_START", c.page)
    \/ c.no # 0 /\ Send(u, IF c.ready[c.no] THEN "ROOM_UNREADY" ELSE "ROOM_READY", c.page)
sendMenuChoose(u, c) == SendItem(u, "MENU_CHOOSE", c.cursor, c.page)
ChoiceItem(u, c) == c.no = 0 /\ sendMenuChoose(u, c)

onMenuSelectItem(u) ==
    LET c == client[u]
        panel == FirstShown(c)
    IN  /\ c.scene = "menu" /\ c.shown # {} /\ isOperateEnabled(u)
        /\ \/ panel = "MAIN" /\ Switch(u, c.page, "ONLINE")
           \/ panel = "ONLINE" /\ Switch(u, c.page, "JOIN_ROOM")
           \/ /\ panel = "ONLINE" /\ u = Creator /\ room.status = "none"
              /\ Send(u, "CREATE_ROOM", c.page)
           \/ panel = "JOIN_ROOM" /\ Send(u, "JOIN_ROOM", c.page)
           \/ panel = "ROOM" /\ RoomItem(u, c)
           \/ panel = "START_CHOOSE" /\ ChoiceItem(u, c)

(* The cursor of the choice is the host's to move, by way of the server.  Up *)
(* and down are one: there are two items, of two.                           *)
sendMenuSwitch(u, item) == SendItem(u, "MENU_SWITCH", item, client[u].page)
onMove(u) ==
    LET c == client[u]
    IN  /\ c.scene = "menu" /\ c.shown # {} /\ isOperateEnabled(u)
        /\ FirstShown(c) = "START_CHOOSE" /\ c.no = 0
        /\ sendMenuSwitch(u, (c.cursor + 1) % Len(Modes))

\* Not taken from the main page, where there is nothing to go back to.
onKeyBack(u) ==
    LET c == client[u]
    IN  /\ c.scene = "menu" /\ isOperateEnabled(u)
        /\ \/ c.page = "ONLINE" /\ Switch(u, c.page, "MAIN")
           \/ c.page = "JOIN_ROOM" /\ Switch(u, c.page, "ONLINE")
           \/ c.page = "ROOM" /\ Send(u, "LEAVE_ROOM", c.page)
           \/ c.page = "START_CHOOSE" /\ c.no = 0 /\ Send(u, "MENU_BACK", c.page)
           \/ c.page = "START_CHOOSE" /\ c.no # 0 /\ Send(u, "LEAVE_ROOM", "the page then")

(* In the game: leave it by the key, end it, finish the map, or go back to   *)
(* the room once it is over.                                                *)
LeaveGame(u) ==
    /\ client[u].scene = "game" /\ ~client[u].over /\ isOperateEnabled(u)
    /\ Send(u, "LEAVE_ROOM", "the game")
onGameResultShowFinished(u) ==
    /\ client[u].scene = "game" /\ ~client[u].over /\ MayRequest
    /\ Send(u, "GAME_END", "the game")
sendMapEditFinished(u) ==
    /\ client[u].scene = "game" /\ ~client[u].over /\ client[u].no = 0 /\ MayRequest
    /\ Send(u, "EDIT_FINISHED", "the game")
goToMenuRoom(u) ==
    /\ client[u].scene = "game" /\ client[u].over
    /\ client' = [client EXCEPT ![u] = To(@, InMenu("ROOM"))]
    /\ UNCHANGED <<room, up, down>>

-----------------------------------------------------------------------------
(* What reaches a client: first the data, then who listens. *)
onRoomPlayerUpdate(c, u, no, user) ==
    [c EXCEPT !.seat[no] = user, !.no = IF user = u THEN no ELSE @]
onRoomPlayerLeave(c, no) ==
    [c EXCEPT !.seat[no] = Nobody, !.ready[no] = FALSE, !.ready[0] = FALSE]
onRoomReady(c, no) == [c EXCEPT !.ready[no] = TRUE]
onRoomUnReady(c, no) == [c EXCEPT !.ready[no] = FALSE]
onMenuBack(c) == [c EXCEPT !.ready = UnReady]

Enter(c, u, no) ==
    onRoomPlayerUpdate([resetAllPlayerHallInfo(c) EXCEPT !.room = TRUE, !.no = no], u, no, u)
Leave(c, no) == onRoomPlayerLeave([c EXCEPT !.room = FALSE], no)

(* Answers: the callback of a page that is gone with its scene does nothing, *)
(* that of the game goes to the main menu.                                  *)
RoomEntered(c, u, m) == switchMenuPage(Enter(c, u, m.no), m.from, "ROOM")
RoomLeft(c, m) ==
    IF m.from = "the game" THEN To(Leave(c, m.no), InMenu("MAIN"))
    ELSE LET from == IF m.from = "the page then" THEN c.page ELSE m.from
         IN  switchMenuPage(Leave(c, m.no), from, "ONLINE")
RoomStarted(c, m) == switchMenuPage(onRoomReady(c, m.no), m.from, "START_CHOOSE")
MenuLeft(c, m) == switchMenuPage(onMenuBack(c), m.from, "ROOM")

onMenuSwitch(c, item) == [c EXCEPT !.cursor = item]

onRespond(c, u, m) ==
    CASE ~m.ok -> c
      [] m.ok /\ m.name \in {"CREATE_ROOM", "JOIN_ROOM"} -> RoomEntered(c, u, m)
      [] m.ok /\ m.name = "LEAVE_ROOM" -> RoomLeft(c, m)
      [] m.ok /\ m.name = "ROOM_READY" -> onRoomReady(c, m.no)
      [] m.ok /\ m.name = "ROOM_UNREADY" -> onRoomUnReady(c, m.no)
      [] m.ok /\ m.name = "ROOM_START" -> RoomStarted(c, m)
      [] m.ok /\ m.name = "MENU_SWITCH" -> onMenuSwitch(c, m.item)
      [] m.ok /\ m.name = "MENU_BACK" -> MenuLeft(c, m)
      [] OTHER -> c

onMenuCustomEvent(c, data) ==
    switchMenuPage(c, c.page, IF data = "LeaveRoom" THEN "ROOM" ELSE "START_CHOOSE")

\* Mutant: a game does not listen for players that leave.
onNtfLeaveRoomPlayOn(c, no) ==
    IF c.scene = "menu" /\ "START_CHOOSE" \in c.shown
    THEN onMenuCustomEvent(onRoomPlayerLeave(c, no), "LeaveRoom") ELSE onRoomPlayerLeave(c, no)

(* The pages of the room and of the choice listen while they are shown.      *)
onNtfLeaveRoom(c, no) ==
    LET d == onRoomPlayerLeave(c, no)
    IN  CASE c.scene = "game" -> [d EXCEPT !.over = TRUE]
          [] c.scene = "menu" /\ "START_CHOOSE" \in c.shown -> onMenuCustomEvent(d, "LeaveRoom")
          [] OTHER -> d

\* Mutant: the new host's flag stays as it was and so does its old seat.
onNtfRoomHostChangedKeep(c, u, m) == onRoomPlayerUpdate(c, u, 0, m.user)

onNtfRoomHostChanged(c, u, m) ==
    [onRoomPlayerUpdate(onRoomPlayerLeave(c, m.no), u, 0, m.user) EXCEPT !.ready[0] = FALSE]

onNtfRoomStart(c, no) ==
    IF c.scene = "menu" /\ "ROOM" \in c.shown
    THEN onMenuCustomEvent(onRoomReady(c, no), "NtfRoomStart") ELSE onRoomReady(c, no)

onNtfMenuSwitch(c, item) == IF "START_CHOOSE" \in c.shown THEN onMenuSwitch(c, item) ELSE c

onNtfMenuBack(c) ==
    IF c.page = "START_CHOOSE" THEN switchMenuPage(onMenuBack(c), c.page, "ROOM") ELSE onMenuBack(c)

\* A page that tells of success keeps the game's scene until it closes.
onNtfGameEnd(c) ==
    IF c.scene # "game" THEN {onMenuBack(c)}
    ELSE {To(onMenuBack(c), InMenu("ROOM")), [onMenuBack(c) EXCEPT !.over = TRUE]}

onNotify(c, u, m) ==
    CASE m.name \in {"JOIN_ROOM", "PLAYER_INFO"} -> {onRoomPlayerUpdate(c, u, m.no, m.user)}
      [] m.name = "LEAVE_ROOM" -> {onNtfLeaveRoom(c, m.no)}
      [] m.name = "HOST_CHANGE" -> {onNtfRoomHostChanged(c, u, m)}
      [] m.name = "ROOM_READY" -> {onRoomReady(c, m.no)}
      [] m.name = "ROOM_UNREADY" -> {onRoomUnReady(c, m.no)}
      [] m.name = "ROOM_START" -> {onNtfRoomStart(c, m.no)}
      [] m.name = "MENU_SWITCH" -> {onNtfMenuSwitch(c, m.no)}
      [] m.name = "MENU_BACK" -> {onNtfMenuBack(c)}
      [] m.name = "GAME_START" -> {To(c, InGame)}
      [] m.name = "GAME_END" -> onNtfGameEnd(c)
      [] OTHER -> {c}

Receive(u) ==
    /\ down[u] # <<>>
    /\ down' = [down EXCEPT ![u] = Tail(@)]
    /\ LET m == Head(down[u])
           results == IF m.kind = "rsp" THEN {onRespond(client[u], u, m)}
                      ELSE onNotify(client[u], u, m)
       IN  \E c \in results : client' = [client EXCEPT ![u] = c]
    /\ UNCHANGED <<room, up>>

-----------------------------------------------------------------------------
Next ==
    \E u \in Users :
        \/ OnRequest(u) \/ Receive(u)
        \/ onMenuSelectItem(u) \/ onMove(u) \/ onKeyBack(u) \/ LeaveGame(u)
        \/ onGameResultShowFinished(u) \/ sendMapEditFinished(u) \/ goToMenuRoom(u)

\* The connections and the server go on; the users need do nothing.
Fairness == \A u \in Users : WF_vars(OnRequest(u)) /\ WF_vars(Receive(u))
Spec == Init /\ [][Next]_vars /\ Fairness

-----------------------------------------------------------------------------
(* Properties. *)
Quiet(u) == up[u] = <<>> /\ down[u] = <<>>

(* A client that has nothing under way holds of the room what the server     *)
(* does: whether it is in it, its own seat, who sits where and who is ready, *)
(* whatever both users did, in whatever order their requests were handled.  *)
ViewMatchesRoom ==
    \A u \in Users : Quiet(u) =>
        LET c == client[u]
        IN  /\ c.room <=> u \in SeatedIn(room)
            /\ c.room => room.seat[c.no] = u /\ c.seat = room.seat /\ c.ready = room.ready

(* A player in the room is in the game's scene while the server's game goes  *)
(* on, and one that plays on is in a game of the server.                    *)
GameTogether ==
    \A u \in SeatedIn(room) : Quiet(u) =>
        (room.status = "game" <=> client[u].scene = "game" /\ ~client[u].over)

(* Who is left in the room becomes its host, and knows, unless it leaves or  *)
(* another room takes its place: nobody waits for a host that is gone.      *)
HostKnows ==
    \A u \in Users : room.seat[0] = u ~> (client[u].room /\ client[u].no = 0) \/ room.seat[0] # u
=============================================================================
