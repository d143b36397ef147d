----------------------------- MODULE Connection -----------------------------
(***************************************************************************)
(* One client of the online game and the server it connects to: the        *)
(* WebSocket and the request queue of NetWork.ts, the login of             *)
(* GameConnectModel, the scenes that start it (MainMenu, Game) and the      *)
(* frames GameLogicModel plays.  A handler is a function of the client's    *)
(* record, so that a callback called inside a handler is the application    *)
(* of one operator to the result of another.                                *)
(*                                                                         *)
(* There is one game: frame n is the n-th entry of the server's record.     *)
(* Answers come in the order of the requests and at most one is waited for, *)
(* so the sequence numbers always match and are not modelled.               *)
(***************************************************************************)
EXTENDS Naturals, Sequences, FiniteSets

CONSTANTS
    MaxFrame,       \* bound: frames the server issues
    MaxOut,         \* bound: requests queued and under way when a new one starts
    MissedAtLeast,  \* frames issued between a loss of the connection and a login
    PatientUser,    \* the user reconnects when all received frames are played
                    \* and does not leave the game while a login is under way
    StartTimeout    \* frame 0 may be issued before every client is ready

ASSUME ConnectionAssumption ==
    /\ MaxFrame \in Nat /\ MaxOut \in Nat /\ MissedAtLeast \in Nat
    /\ PatientUser \in BOOLEAN /\ StartTimeout \in BOOLEAN

VARIABLES
    client,     \* the state of the client, a record (see InitClient)
    toClient,   \* messages on their way to the client
    account,    \* what the server's user map binds the user to: "none",
                \* "old" (a session that is gone) or "this" connection
    seat,       \* the user's place: "none", in a "room", in a "game"
    ready,      \* a frame of this user has reached the game
    logLen      \* length of the room's record of frames

server == <<account, seat, ready, logLen>>
vars == <<client, toClient, server>>

Frames(from, to) == [i \in 1..(IF to >= from THEN to - from + 1 ELSE 0) |-> from + i - 1]

-----------------------------------------------------------------------------
(* Requests.  "Login" carries what its answer calls back (cb) and whether    *)
(* the answer sets the login flags; "Leave" needs an answer, "Frame" and     *)
(* "Pluse" need none.                                                        *)
NoRequest == [id |-> "None"]
Login(cb, flags, sync) == [id |-> "Login", cb |-> cb, flags |-> flags, sync |-> sync]
Request(id) == [id |-> id]
NeedEcho(r) == r.id \in {"Login", "Leave"}

InitClient == [
    sock |-> "none", conHandler |-> "none",
    logining |-> FALSE, logined |-> FALSE,
    wait |-> FALSE, handler |-> NoRequest, queue |-> <<>>, out |-> <<>>,
    pluse |-> FALSE, timer |-> FALSE,
    scene |-> "menu", goTo |-> "none", tip |-> FALSE, dialogs |-> {},
    frameNO |-> 0, frameQueue |-> <<>>, dxxw |-> FALSE, playing |-> FALSE]
\* frameNO is _netFrameNO + 1, the number of the frame to play next; playing
\* says that the frame timer of GameLogicModel runs.

isConnecting(c) == c.sock = "connecting"
isConnected(c) == c.sock = "open"
connect(c, cb) == [c EXCEPT !.sock = "connecting", !.conHandler = cb]
sendData(c, requests) == [c EXCEPT !.out = @ \o requests]

(* The request queue of GameConnect. *)
Echoes(q) == {i \in DOMAIN q : NeedEcho(q[i])}
SendAll(c, q) ==
    LET k == IF Echoes(q) = {} THEN Len(q)
             ELSE CHOOSE i \in Echoes(q) : \A j \in Echoes(q) : i <= j
        asks == Echoes(q) # {}
    IN  [sendData(c, SubSeq(q, 1, k)) EXCEPT
            !.queue = SubSeq(q, k + 1, Len(q)),
            !.wait = asks, !.timer = asks,
            !.handler = IF asks THEN q[k] ELSE NoRequest]

sendRequest(c, r) ==
    IF ~isConnected(c) \/ c.wait
    THEN [c EXCEPT !.queue = Append(@, r)]
    ELSE SendAll(c, <<r>> \o c.queue)

sendRequestInQueue(c) ==
    IF c.queue = <<>> THEN c
    ELSE sendRequest([c EXCEPT !.queue = Tail(@)], Head(c.queue))

clearData(c) ==
    [c EXCEPT !.wait = FALSE, !.handler = NoRequest, !.queue = <<>>,
              !.pluse = FALSE, !.timer = FALSE]

clearSocket(c) == [c EXCEPT !.sock = "none", !.conHandler = "none", !.out = <<>>]

\* Mutant: the requests of the closed connection are not cleared.
disconnectKeepRequests(c) == clearSocket(c)

disconnect(c) == clearData(clearSocket(c))

(* disconnectServer of GameConnectModel, disconnect of GameConnect. *)
disconnectServer(c) ==
    LET d == [c EXCEPT !.logining = FALSE, !.logined = FALSE]
    IN  IF isConnected(c) THEN disconnect(d) ELSE d

-----------------------------------------------------------------------------
(* The callbacks of connectServer.  ret: 0 logged in, 1 not connected,       *)
(* 2 login failed, 3 was logged in, 4 connecting, 5 logging in.              *)
\* Mutant: the tip stays when the connection could not be made.
MenuConnectedTip(c, ret, ans) ==
    [c EXCEPT !.tip = (ret = 1),
              !.dialogs = IF ret = 0 /\ ans.inGame THEN @ \cup {"resume"} ELSE @]

MenuConnected(c, ret, ans) ==
    [c EXCEPT !.tip = FALSE,
              !.dialogs = IF ret = 0 /\ ans.inGame THEN @ \cup {"resume"} ELSE @]

GameConnected(c, ret, ans) ==
    CASE ret = 0 /\ ans.inGame  -> [c EXCEPT !.frameQueue = ans.record, !.dxxw = TRUE]
      [] ret = 0 /\ ~ans.inGame -> [c EXCEPT !.goTo = "menu"]
      [] OTHER -> c

Connected(c, cb, ret, ans) ==
    CASE cb = "menu" -> MenuConnected(c, ret, ans)
      [] cb = "game" -> GameConnected(c, ret, ans)
      [] OTHER -> IF ret \in {0, 3} THEN sendRequest(c, Request(cb)) ELSE c

NoAnswer == [ok |-> FALSE, inGame |-> FALSE, record |-> <<>>]

connectServer(c, cb) ==
    CASE isConnecting(c) -> Connected(c, cb, 4, NoAnswer)
      [] ~isConnecting(c) /\ c.logining -> Connected(c, cb, 5, NoAnswer)
      [] c.sock = "none" /\ ~c.logining -> connect(c, cb)
      [] isConnected(c) /\ ~c.logining /\ ~c.logined -> sendRequest(c, Login(cb, FALSE, c.frameNO))
      [] OTHER -> Connected(c, cb, 3, NoAnswer)

sendRequestWhenLogined(c, id) == connectServer(c, id)

(* The scenes' reaction to a socket error or a request timeout. *)
MenuNetError(c) ==
    IF c.tip THEN [c EXCEPT !.tip = FALSE]
             ELSE [c EXCEPT !.dialogs = @ \cup {"menuError"}]
GameNetError(c) == [c EXCEPT !.dialogs = @ \cup {"reconnect"}]
onNetError(c) == IF c.scene = "menu" THEN MenuNetError(c) ELSE GameNetError(c)

\* Mutant: the flags stay as they were when the socket failed.
onSocketErrorKeepFlags(c) == onNetError(c)

onSocketError(c) == onNetError([c EXCEPT !.logining = FALSE, !.logined = FALSE])

-----------------------------------------------------------------------------
(* Events of the socket.  The user's session at the server is "old" until    *)
(* the server notices the loss; a login still under way may yet be handled.  *)
Sessions(c) ==
    IF account = "this" THEN {"old", "none"}
    ELSE IF account = "none" /\ \E i \in DOMAIN c.out : c.out[i].id = "Login"
         THEN {"old", "none"} ELSE {account}

(* A session that closes outside a game takes its user out of the room. *)
Bind(sessions) ==
    /\ account' \in sessions
    /\ seat' = IF account' = "none" /\ seat = "room" THEN "none" ELSE seat
    /\ UNCHANGED <<ready, logLen>>

onConnectSuccess(c) ==
    LET d == sendRequest([c EXCEPT !.logining = TRUE], Login(c.conHandler, TRUE, c.frameNO))
    IN  [sendRequestInQueue(d) EXCEPT !.pluse = TRUE]

onopen ==
    /\ isConnecting(client)
    /\ PatientUser => client.frameQueue = <<>> \/ client.scene = "menu"
    /\ client' = onConnectSuccess([client EXCEPT !.sock = "open"])
    /\ UNCHANGED <<toClient, server>>

ConnectRefused(c) == clearData(Connected(c, c.conHandler, 1, NoAnswer))
onConnectFailed ==
    /\ isConnecting(client)
    /\ client' = clearSocket(ConnectRefused(client))
    /\ UNCHANGED <<toClient, server>>

socketErrorHandler(c) == clearData(onSocketError(c))
Lose(sessions) ==
    /\ client' = clearSocket(socketErrorHandler(client))
    /\ toClient' = <<>>
    /\ Bind(sessions)

(* The connection breaks, or the server closes it: no pluse came in time. *)
onclose == isConnected(client) /\ Lose(Sessions(client))

onRequestTimeOut ==
    /\ client.timer
    /\ client' = onNetError(disconnectServer([client EXCEPT !.timer = FALSE]))
    /\ toClient' = <<>>
    /\ Bind(Sessions(client))

sendPluse ==
    /\ client.pluse
    /\ Len(client.queue) + Len(client.out) < MaxOut
    /\ client' = sendRequest(client, Request("Pluse"))
    /\ UNCHANGED <<toClient, server>>

-----------------------------------------------------------------------------
(* Messages.  An exception in the handler of an answer leaves the request    *)
(* waiting: Game reads element 0 of an empty record.                         *)
Throws(ans) == ans.ok /\ ans.inGame /\ ans.record = <<>> /\ client.handler.cb = "game"

onLoginInSuccess(c, ans) == [c EXCEPT !.frameQueue = ans.record]

OnLoginAnswer(c, r, ans) ==
    LET d == IF ans.ok THEN onLoginInSuccess(c, ans) ELSE c
        e == IF r.flags THEN [d EXCEPT !.logining = FALSE, !.logined = ans.ok] ELSE d
    IN  Connected(e, r.cb, IF ans.ok THEN 0 ELSE 2, ans)

OnLeaveAnswer(c, ans) ==
    IF ans.ok /\ c.scene = "game" THEN [c EXCEPT !.goTo = "menu"] ELSE c

startFrameHandleTimer(c) == [c EXCEPT !.playing = TRUE]
stopFrameHandleTimer(c) == [c EXCEPT !.playing = FALSE]

\* Mutant: the frames of a resumed game are thrown away as well.
resetAll(c) == [c EXCEPT !.playing = FALSE, !.frameNO = 0, !.frameQueue = <<>>]

(* reset of GameLogicModel: the queue survives when a game is resumed. *)
reset(c) ==
    [stopFrameHandleTimer(c) EXCEPT !.frameNO = 0, !.frameQueue = IF c.dxxw THEN @ ELSE <<>>]

onResponse(ans) ==
    LET r == client.handler
        c == [client EXCEPT !.timer = FALSE]
        d == IF r.id = "Login" THEN OnLoginAnswer(c, r, ans) ELSE OnLeaveAnswer(c, ans)
    IN  IF r.id = "Login" /\ Throws(ans) THEN d
        ELSE sendRequestInQueue([d EXCEPT !.wait = FALSE, !.handler = NoRequest])

(* The notifications. *)
onNtfGameFrame(c, no) == IF c.logined THEN [c EXCEPT !.frameQueue = Append(@, no)] ELSE c
onNtfGameStart(c) == IF c.scene = "menu" THEN [c EXCEPT !.goTo = "game"] ELSE c
onNtfGameEnd(c) == IF c.scene = "game" THEN [reset(c) EXCEPT !.goTo = "menu"] ELSE c

NotifyHandler(c, m) ==
    CASE m.kind = "frame" -> onNtfGameFrame(c, m.no)
      [] m.kind = "start" -> onNtfGameStart(c)
      [] m.kind = "end" -> onNtfGameEnd(c)

onMessage ==
    /\ toClient # <<>>
    /\ toClient' = Tail(toClient)
    /\ LET m == Head(toClient) IN
       client' = IF m.kind = "answer" THEN onResponse(m.ans) ELSE NotifyHandler(client, m)
    /\ UNCHANGED server

-----------------------------------------------------------------------------
(* The user in the menu and in the game. *)
ChooseOnline ==
    /\ client.scene = "menu" /\ client.goTo = "none" /\ ~client.tip
    /\ Len(client.queue) + Len(client.out) < MaxOut
    /\ client' = connectServer([client EXCEPT !.tip = TRUE], "menu")
    /\ UNCHANGED <<toClient, server>>

Resume ==
    /\ client.scene = "menu" /\ client.goTo = "none" /\ "resume" \in client.dialogs
    /\ client' = LET c == [client EXCEPT !.dialogs = @ \ {"resume"}] IN
                 IF ~c.logined THEN c
                 ELSE [c EXCEPT !.dxxw = TRUE,
                                !.goTo = IF c.frameQueue = <<>> THEN "none" ELSE "game"]
    /\ UNCHANGED <<toClient, server>>

RefuseResume ==
    /\ client.scene = "menu" /\ client.goTo = "none" /\ "resume" \in client.dialogs
    /\ client' = sendRequestWhenLogined([client EXCEPT !.dialogs = @ \ {"resume"}], "Leave")
    /\ UNCHANGED <<toClient, server>>

CloseMenuError ==
    /\ client.scene = "menu" /\ "menuError" \in client.dialogs
    /\ client' = [client EXCEPT !.dialogs = @ \ {"menuError"}]
    /\ UNCHANGED <<toClient, server>>

Reconnect ==
    /\ client.scene = "game" /\ client.goTo = "none" /\ "reconnect" \in client.dialogs
    /\ PatientUser => client.frameQueue = <<>>
    /\ client' = connectServer([client EXCEPT !.dialogs = @ \ {"reconnect"}], "game")
    /\ UNCHANGED <<toClient, server>>

LeaveGame ==
    /\ client.scene = "game" /\ client.goTo = "none"
    /\ PatientUser => client.sock # "connecting" /\ ~client.logining
    /\ Len(client.queue) + Len(client.out) < MaxOut
    /\ client' = LET c == [client EXCEPT !.dialogs = @ \ {"reconnect"}] IN
                 IF c.logined THEN sendRequestWhenLogined(c, "Leave")
                 ELSE [c EXCEPT !.goTo = "menu"]
    /\ UNCHANGED <<toClient, server>>

(* The old scene lives until the new one is loaded; then the game starts     *)
(* (startGame) or, on the way back, is left (exitGame).                      *)
startGame(c) ==
    LET d == IF c.dxxw THEN reset(c) ELSE sendRequestWhenLogined(reset(c), "Frame")
    IN  startFrameHandleTimer(d)

exitGame(c) == reset([c EXCEPT !.dxxw = FALSE])

SceneLoaded ==
    /\ client.goTo # "none"
    /\ client' = LET c == [client EXCEPT !.scene = client.goTo, !.goTo = "none",
                                         !.tip = FALSE, !.dialogs = {}]
                 IN  IF c.scene = "game" THEN startGame(c) ELSE exitGame(c)
    /\ UNCHANGED <<toClient, server>>

(* One tick of the frame timer: play the head of the queue if it is the      *)
(* frame that comes next; an empty queue ends catching up.                   *)
CanPlay == client.frameQueue # <<>> /\ Head(client.frameQueue) = client.frameNO

onGameFrame ==
    /\ client.playing /\ CanPlay
    /\ client' = LET c == [client EXCEPT !.frameNO = @ + 1, !.frameQueue = Tail(@)] IN
                 IF c.dxxw THEN c ELSE sendRequestWhenLogined(c, "Frame")
    /\ UNCHANGED <<toClient, server>>

CaughtUp ==
    /\ client.playing /\ client.frameQueue = <<>> /\ client.dxxw
    /\ client' = [client EXCEPT !.dxxw = FALSE]
    /\ UNCHANGED <<toClient, server>>

-----------------------------------------------------------------------------
(* The server: the requests in the order they were sent, the frames of the   *)
(* room as long as the other player keeps it running.                        *)
Answer(ok, game, record) ==
    [kind |-> "answer", ans |-> [ok |-> ok, inGame |-> game, record |-> record]]

ServeLogin(r) ==
    IF account = "none"
    THEN /\ seat = "game" => logLen >= r.sync + MissedAtLeast
         /\ account' = "this"
         /\ toClient' = Append(toClient, Answer(TRUE, seat = "game",
                IF seat = "game" THEN Frames(r.sync, logLen - 1) ELSE <<>>))
         /\ UNCHANGED <<seat, ready>>
    ELSE /\ toClient' = Append(toClient, Answer(FALSE, FALSE, <<>>))
         /\ UNCHANGED <<account, seat, ready>>

ServeLeave ==
    /\ UNCHANGED <<account, ready>>
    /\ IF account = "this"
       THEN /\ toClient' = Append(toClient, Answer(seat # "none", FALSE, <<>>))
            /\ seat' = "none"
       ELSE UNCHANGED <<toClient, seat>>

ServeFrame ==
    /\ ready' = (ready \/ (account = "this" /\ seat = "game"))
    /\ UNCHANGED <<toClient, account, seat>>

Serve ==
    /\ client.out # <<>>
    /\ LET r == Head(client.out) IN
       CASE r.id = "Login" -> ServeLogin(r)
         [] r.id = "Leave" -> ServeLeave
         [] r.id = "Frame" -> ServeFrame
         [] OTHER -> UNCHANGED <<toClient, account, seat, ready>>
    /\ client' = [client EXCEPT !.out = Tail(@)]
    /\ UNCHANGED logLen

Notify(m) == toClient' = IF account = "this" THEN Append(toClient, m) ELSE toClient

(* The host starts the game after this user has made ready in the menu, by a  *)
(* request that was answered after everything the user had sent before.      *)
GameStart ==
    /\ account = "this" /\ seat = "room"
    /\ client.scene = "menu" /\ client.goTo = "none" /\ client.logined
    /\ client.dialogs = {} /\ toClient = <<>> /\ client.out = <<>>
    /\ seat' = "game" /\ ready' = FALSE /\ logLen' = 0
    /\ Notify([kind |-> "start"])
    /\ UNCHANGED <<client, account>>

GameFrame ==
    /\ seat = "game" /\ logLen < MaxFrame
    /\ logLen = 0 => ready \/ StartTimeout
    /\ Notify([kind |-> "frame", no |-> logLen])
    /\ logLen' = logLen + 1
    /\ UNCHANGED <<client, account, seat, ready>>

(* The other player ends the game; a user without a session loses the seat.  *)
GameEnd ==
    /\ seat = "game" /\ seat' = IF account = "none" THEN "none" ELSE "room"
    /\ Notify([kind |-> "end"])
    /\ UNCHANGED <<client, account, ready, logLen>>

OldSessionClosed ==
    /\ account = "old" /\ Bind({"none"})
    /\ UNCHANGED <<client, toClient>>

-----------------------------------------------------------------------------
Init ==
    /\ client = InitClient
    /\ toClient = <<>>
    /\ account \in {"none", "old"}
    /\ seat = "game" /\ ready = TRUE
    /\ logLen \in 0..1

Next ==
    \/ onopen \/ onConnectFailed \/ onclose
    \/ onRequestTimeOut \/ sendPluse \/ onMessage
    \/ ChooseOnline \/ Resume \/ RefuseResume \/ CloseMenuError
    \/ Reconnect \/ LeaveGame \/ SceneLoaded
    \/ onGameFrame \/ CaughtUp
    \/ Serve \/ GameStart \/ GameFrame \/ GameEnd \/ OldSessionClosed

(* The browser reports the outcome of a connect, timers fire, messages that  *)
(* have arrived are handled.  Nothing is assumed of the server or the user.  *)
Spec ==
    /\ Init /\ [][Next]_vars
    /\ WF_vars(onopen \/ onConnectFailed)
    /\ WF_vars(onRequestTimeOut)
    /\ WF_vars(onMessage)

-----------------------------------------------------------------------------
(* _netLogined is true only while the socket is open, and _netLogining only  *)
(* while the login it stands for is the request being waited for: a flag     *)
(* left behind by a failure would make connectServer refuse for good.        *)
FlagsFollowSocket ==
    /\ client.logined => client.sock = "open"
    /\ client.logining => /\ client.sock = "open" /\ client.wait
                          /\ client.handler.id = "Login" /\ client.handler.flags

(* A request that waits for its answer has its timeout timer running         *)
(* (TIME_REQUEST_TIMEOUT): no failure leaves the queue closed with nothing   *)
(* that will ever open it.                                                   *)
WaitIsTimed == client.wait => client.timer

(* A client that is logged in and plays lacks nothing: only frames are under *)
(* way to it, and what it has queued and these are exactly the frames after  *)
(* the last one it played, in order.                                         *)
FramesOnTheWay ==
    (client.logined /\ client.scene = "game" /\ client.goTo = "none" /\ seat = "game")
        => /\ \A i \in DOMAIN toClient : toClient[i].kind = "frame"
           /\ client.frameQueue \o [i \in DOMAIN toClient |-> toClient[i].no]
                = Frames(client.frameNO, logLen - 1)

(* The "waiting for the network" tip, which blocks the whole menu, goes away *)
(* whatever the server does.                                                 *)
TipGoesAway == client.tip ~> ~client.tip
=============================================================================
