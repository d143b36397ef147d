---------------------------- MODULE LobbyProofs ----------------------------
(* For any users and any number of requests and messages under way: what a   *)
(* client holds of the room becomes what the server does when it has handled *)
(* what it is sent.                                                         *)
EXTENDS Lobby, TLAPS, SequenceTheorems, FiniteSetTheorems

Fields == {"scene", "page", "shown", "over", "room", "no", "seat", "ready", "cursor"}

\* A record with the fields of InitClient, whatever they hold.
IsClient(c) == DOMAIN c = Fields /\ c = [x \in DOMAIN c |-> c[x]]

(* What a client holds of the room, and whether it plays: to the rest of it, *)
(* the pages, the messages are only asked for.                              *)
View(c) == [room |-> c.room, no |-> c.no, seat |-> c.seat, ready |-> c.ready,
            play |-> c.scene = "game" /\ ~c.over]

Who == Users \cup {Nobody}
Views == [room : BOOLEAN, no : Seats, seat : [Seats -> Who], ready : [Seats -> BOOLEAN],
          play : BOOLEAN]

\* What a message makes of the view of client u.
HearRsp(u, v, m) ==
    CASE ~m.ok -> v
      [] m.ok /\ m.name \in {"CREATE_ROOM", "JOIN_ROOM"} -> Enter(v, u, m.no)
      [] m.ok /\ m.name = "LEAVE_ROOM" -> [Leave(v, m.no) EXCEPT !.play = @ /\ m.from # "the game"]
      [] m.ok /\ m.name \in {"ROOM_READY", "ROOM_START"} -> onRoomReady(v, m.no)
      [] m.ok /\ m.name = "ROOM_UNREADY" -> onRoomUnReady(v, m.no)
      [] m.ok /\ m.name = "MENU_BACK" -> onMenuBack(v)
      [] OTHER -> v
HearNtf(u, v, m) ==
    CASE m.name \in {"JOIN_ROOM", "PLAYER_INFO"} -> onRoomPlayerUpdate(v, u, m.no, m.user)
      [] m.name = "LEAVE_ROOM" -> [onRoomPlayerLeave(v, m.no) EXCEPT !.play = FALSE]
      [] m.name = "HOST_CHANGE" -> onNtfRoomHostChanged(v, u, m)
      [] m.name \in {"ROOM_READY", "ROOM_START"} -> onRoomReady(v, m.no)
      [] m.name = "ROOM_UNREADY" -> onRoomUnReady(v, m.no)
      [] m.name = "MENU_BACK" -> onMenuBack(v)
      [] m.name = "GAME_START" -> [v EXCEPT !.play = TRUE]
      [] m.name = "GAME_END" -> [onMenuBack(v) EXCEPT !.play = FALSE]
      [] OTHER -> v
Hear(u, v, m) == IF m.kind = "rsp" THEN HearRsp(u, v, m) ELSE HearNtf(u, v, m)

(* d is a client that has made of its view what w is. *)
Is(d, w) == IsClient(d) /\ View(d) = w

SetRoom(c, x) == [c EXCEPT !.room = x]
SetNo(c, x) == [c EXCEPT !.no = x]
SetSeat(c, x) == [c EXCEPT !.seat = x]
SetReady(c, x) == [c EXCEPT !.ready = x]
SetPlay(v, x) == [v EXCEPT !.play = x]
SetStatus(r, x) == [r EXCEPT !.status = x]
SetMode(r, x) == [r EXCEPT !.mode = x]

\* The flags of the one who leaves and of the host.
Without(ready, no) == [[ready EXCEPT ![no] = FALSE] EXCEPT ![0] = FALSE]

------------------------------------------------------------------------------
(* The client's handlers do with the view what they do with the client. *)

\* What the handlers set, of a client or of a view: who sits where,
LEMMA UpdateForm ==
  ASSUME NEW c, NEW u, NEW no, NEW user
  PROVE  onRoomPlayerUpdate(c, u, no, user)
           = SetNo(SetSeat(c, [c.seat EXCEPT ![no] = user]), IF user = u THEN no ELSE c.no)
  BY DEF onRoomPlayerUpdate, SetNo, SetSeat

\* who sits there no more,
LEMMA LeaveForm ==
  ASSUME NEW c, NEW no
  PROVE  onRoomPlayerLeave(c, no)
           = SetReady(SetSeat(c, [c.seat EXCEPT ![no] = Nobody]), Without(c.ready, no))
  BY DEF onRoomPlayerLeave, SetReady, SetSeat, Without

\* who is ready,
LEMMA ReadyForm ==
  ASSUME NEW c, NEW no PROVE onRoomReady(c, no) = SetReady(c, [c.ready EXCEPT ![no] = TRUE])
  BY DEF onRoomReady, SetReady

\* who is not,
LEMMA UnReadyForm ==
  ASSUME NEW c, NEW no PROVE onRoomUnReady(c, no) = SetReady(c, [c.ready EXCEPT ![no] = FALSE])
  BY DEF onRoomUnReady, SetReady

\* and that nobody is.
LEMMA MenuBackForm == ASSUME NEW c PROVE onMenuBack(c) = SetReady(c, UnReady)
  BY DEF onMenuBack, SetReady

\* A client's field is its view's.
LEMMA SetView ==
  ASSUME NEW c, NEW v, Is(c, v), NEW x
  PROVE  /\ Is(SetRoom(c, x), SetRoom(v, x)) /\ Is(SetNo(c, x), SetNo(v, x))
         /\ Is(SetSeat(c, x), SetSeat(v, x)) /\ Is(SetReady(c, x), SetReady(v, x))
         /\ c.no = v.no /\ c.seat = v.seat /\ c.ready = v.ready
  BY DEF Is, IsClient, View, Fields, SetRoom, SetNo, SetSeat, SetReady
\* What GameDataModel does on a notification it does to the view.
LEMMA DataView ==
  ASSUME NEW c, NEW v, Is(c, v), NEW u, NEW no, NEW user
  PROVE  /\ Is(onRoomPlayerUpdate(c, u, no, user), onRoomPlayerUpdate(v, u, no, user))
         /\ Is(onRoomPlayerLeave(c, no), onRoomPlayerLeave(v, no))
         /\ Is(onRoomReady(c, no), onRoomReady(v, no))
         /\ Is(onRoomUnReady(c, no), onRoomUnReady(v, no))
         /\ Is(onMenuBack(c), onMenuBack(v))
<1>1. c.no = v.no /\ c.seat = v.seat /\ c.ready = v.ready
  BY SetView
<1>2. ASSUME NEW s, NEW x
      PROVE  /\ Is(SetNo(SetSeat(c, s), x), SetNo(SetSeat(v, s), x))
             /\ Is(SetReady(SetSeat(c, s), x), SetReady(SetSeat(v, s), x))
             /\ Is(SetReady(c, x), SetReady(v, x))
  <2>1. Is(SetSeat(c, s), SetSeat(v, s)) /\ Is(SetReady(c, x), SetReady(v, x))
    BY SetView
  <2> QED BY <2>1, SetView
<1>3. Is(onRoomPlayerUpdate(c, u, no, user), onRoomPlayerUpdate(v, u, no, user))
  BY <1>1, <1>2, UpdateForm
<1>4. Is(onRoomPlayerLeave(c, no), onRoomPlayerLeave(v, no))
  BY <1>1, <1>2, LeaveForm
<1>5. Is(onRoomReady(c, no), onRoomReady(v, no))
  BY <1>1, <1>2, ReadyForm
<1>6. Is(onRoomUnReady(c, no), onRoomUnReady(v, no))
  BY <1>1, <1>2, UnReadyForm
<1>7. Is(onMenuBack(c), onMenuBack(v))
  BY <1>1, <1>2, MenuBackForm
<1> QED BY <1>3, <1>4, <1>5, <1>6, <1>7

\* So does what the answers bring.
LEMMA EnterLeaveView ==
  ASSUME NEW c, NEW v, Is(c, v), NEW u, NEW no
  PROVE  Is(Enter(c, u, no), Enter(v, u, no)) /\ Is(Leave(c, no), Leave(v, no))
<1>1. ASSUME NEW d
      PROVE  /\ Enter(d, u, no) = onRoomPlayerUpdate(
                    SetNo(SetRoom(SetReady(SetSeat(d, Empty), UnReady), TRUE), no), u, no, u)
             /\ Leave(d, no) = onRoomPlayerLeave(SetRoom(d, FALSE), no)
  BY DEF Enter, Leave, resetAllPlayerHallInfo, SetNo, SetRoom, SetReady, SetSeat
<1>2. Is(SetRoom(c, FALSE), SetRoom(v, FALSE)) /\ Is(SetSeat(c, Empty), SetSeat(v, Empty))
  BY SetView
<1>3. Is(SetReady(SetSeat(c, Empty), UnReady), SetReady(SetSeat(v, Empty), UnReady))
  BY <1>2, SetView
<1>4. Is(SetRoom(SetReady(SetSeat(c, Empty), UnReady), TRUE),
         SetRoom(SetReady(SetSeat(v, Empty), UnReady), TRUE))
  BY <1>3, SetView
<1>5. Is(SetNo(SetRoom(SetReady(SetSeat(c, Empty), UnReady), TRUE), no),
         SetNo(SetRoom(SetReady(SetSeat(v, Empty), UnReady), TRUE), no))
  BY <1>4, SetView
<1>6. Is(Enter(c, u, no), Enter(v, u, no))
  BY <1>1, <1>5, DataView
<1>7. Is(Leave(c, no), Leave(v, no))
  BY <1>1, <1>2, DataView
<1> QED BY <1>6, <1>7

\* The pages and the cursor are not of the view.
LEMMA PageView ==
  ASSUME NEW c, NEW v, Is(c, v), NEW x, NEW y
  PROVE  /\ Is(switchMenuPage(c, x, y), v)
         /\ Is(onMenuSwitch(c, x), v)
         /\ Is(onMenuCustomEvent(c, x), v)
<1>1. ASSUME NEW from, NEW to PROVE Is(switchMenuPage(c, from, to), v)
  BY DEF switchMenuPage, Is, IsClient, View, Fields
<1>2. Is(onMenuSwitch(c, x), v)
  BY DEF onMenuSwitch, Is, IsClient, View, Fields
<1> QED BY <1>1, <1>2 DEF onMenuCustomEvent

\* A view in which the client plays, or does not.
LEMMA PlayView ==
  ASSUME NEW c, NEW v, Is(c, v), NEW x
  PROVE  SetPlay(v, x) = [room |-> c.room, no |-> c.no, seat |-> c.seat,
                          ready |-> c.ready, play |-> x]
  BY DEF Is, View, SetPlay

\* The scenes are, as far as the client plays.
LEMMA SceneView ==
  ASSUME NEW c, NEW v, Is(c, v), NEW page
  PROVE  /\ Is(To(c, InMenu(page)), SetPlay(v, FALSE))
         /\ Is(To(c, InGame), SetPlay(v, TRUE))
         /\ Is([c EXCEPT !.over = TRUE], SetPlay(v, FALSE))
         /\ c.scene # "game" => v.play = FALSE /\ SetPlay(v, FALSE) = v
<1>1. ASSUME NEW x
      PROVE  SetPlay(v, x) = [room |-> c.room, no |-> c.no, seat |-> c.seat,
                              ready |-> c.ready, play |-> x]
  BY PlayView
<1>2. ASSUME NEW d, IsClient(d), d.room = c.room, d.no = c.no, d.seat = c.seat,
             d.ready = c.ready, NEW x, (d.scene = "game" /\ ~d.over) = x
      PROVE  Is(d, SetPlay(v, x))
  BY <1>1, <1>2 DEF Is, View
<1>3. Is(To(c, InMenu(page)), SetPlay(v, FALSE))
  <2> DEFINE d == To(c, InMenu(page))
  <2>1. /\ IsClient(d) /\ d.scene = "menu"
        /\ d.room = c.room /\ d.no = c.no /\ d.seat = c.seat /\ d.ready = c.ready
    BY DEF To, InMenu, Is, IsClient, Fields
  <2> HIDE DEF d
  <2>2. (d.scene = "game" /\ ~d.over) = FALSE
    BY <2>1
  <2>3. Is(d, SetPlay(v, FALSE))
    BY <1>2, <2>1, <2>2
  <2> QED BY <2>3 DEF d
<1>4. Is(To(c, InGame), SetPlay(v, TRUE))
  <2> DEFINE d == To(c, InGame)
  <2>1. /\ IsClient(d) /\ d.scene = "game" /\ d.over = FALSE
        /\ d.room = c.room /\ d.no = c.no /\ d.seat = c.seat /\ d.ready = c.ready
    BY DEF To, InGame, Is, IsClient, Fields
  <2> HIDE DEF d
  <2>2. (d.scene = "game" /\ ~d.over) = TRUE
    BY <2>1
  <2>3. Is(d, SetPlay(v, TRUE))
    BY <1>2, <2>1, <2>2
  <2> QED BY <2>3 DEF d
<1>5. Is([c EXCEPT !.over = TRUE], SetPlay(v, FALSE))
  <2> DEFINE d == [c EXCEPT !.over = TRUE]
  <2>1. /\ IsClient(d) /\ d.over = TRUE
        /\ d.room = c.room /\ d.no = c.no /\ d.seat = c.seat /\ d.ready = c.ready
    BY DEF Is, IsClient, Fields
  <2> HIDE DEF d
  <2>2. (d.scene = "game" /\ ~d.over) = FALSE
    BY <2>1
  <2>3. Is(d, SetPlay(v, FALSE))
    BY <1>2, <2>1, <2>2
  <2> QED BY <2>3 DEF d
<1>6. ASSUME c.scene # "game" PROVE v.play = FALSE /\ SetPlay(v, FALSE) = v
  <2>1. (c.scene = "game" /\ ~c.over) = FALSE
    BY <1>6
  <2>2. v = [room |-> c.room, no |-> c.no, seat |-> c.seat, ready |-> c.ready, play |-> FALSE]
    BY <2>1 DEF Is, View
  <2> QED BY <1>1, <2>2
<1> QED BY <1>3, <1>4, <1>5, <1>6

\* What a client makes of an answer.
LEMMA RespondView ==
  ASSUME NEW c, NEW v, Is(c, v), NEW u, NEW m
  PROVE  Is(onRespond(c, u, m), HearRsp(u, v, m))
<1>1. CASE ~m.ok
  BY <1>1 DEF onRespond, HearRsp
<1>2. CASE m.ok /\ m.name \in {"CREATE_ROOM", "JOIN_ROOM"}
  <2>1. Is(RoomEntered(c, u, m), Enter(v, u, m.no))
    BY EnterLeaveView, PageView DEF RoomEntered
  <2> QED BY <1>2, <2>1 DEF onRespond, HearRsp
<1>3. CASE m.ok /\ m.name = "LEAVE_ROOM"
  <2> DEFINE w == Leave(v, m.no)
             d == Leave(c, m.no)
  <2>1. Is(d, w)
    BY EnterLeaveView
  <2> HIDE DEF d, w
  <2>2. CASE m.from = "the game"
    <3>1. Is(To(d, InMenu("MAIN")), SetPlay(w, FALSE))
      BY <2>1, SceneView
    <3>2. [w EXCEPT !.play = @ /\ m.from # "the game"] = SetPlay(w, FALSE)
      BY <2>2 DEF SetPlay
    <3> QED BY <1>3, <2>2, <3>1, <3>2 DEF onRespond, HearRsp, RoomLeft, d, w
  <2>3. CASE m.from # "the game"
    <3>1. \A from : Is(switchMenuPage(d, from, "ONLINE"), w)
      BY <2>1, PageView
    <3>2. [w EXCEPT !.play = @ /\ m.from # "the game"] = w
      <4> DEFINE p == d.scene = "game" /\ ~d.over
      <4>1. w = [room |-> d.room, no |-> d.no, seat |-> d.seat, ready |-> d.ready, play |-> p]
        BY <2>1 DEF Is, View
      <4>2. (p /\ m.from # "the game") = p
        BY <2>3
      <4> HIDE DEF p
      <4>3. w.play = p /\ [w EXCEPT !.play = p] = w
        BY <4>1
      <4>4. [w EXCEPT !.play = @ /\ m.from # "the game"]
              = [w EXCEPT !.play = p /\ m.from # "the game"]
        BY <4>3
      <4> QED BY <4>2, <4>3, <4>4
    <3> QED BY <1>3, <2>3, <3>1, <3>2 DEF onRespond, HearRsp, RoomLeft, d, w
  <2> QED BY <2>2, <2>3
<1>4. CASE m.ok /\ m.name = "ROOM_READY"
  BY <1>4, DataView DEF onRespond, HearRsp
<1>5. CASE m.ok /\ m.name = "ROOM_UNREADY"
  BY <1>5, DataView DEF onRespond, HearRsp
<1>6. CASE m.ok /\ m.name = "ROOM_START"
  <2>1. Is(RoomStarted(c, m), onRoomReady(v, m.no))
    BY DataView, PageView DEF RoomStarted
  <2> QED BY <1>6, <2>1 DEF onRespond, HearRsp
<1>7. CASE m.ok /\ m.name = "MENU_BACK"
  <2>1. Is(MenuLeft(c, m), onMenuBack(v))
    BY DataView, PageView DEF MenuLeft
  <2> QED BY <1>7, <2>1 DEF onRespond, HearRsp
<1>8. CASE m.ok /\ m.name = "MENU_SWITCH"
  <2>1. Is(onMenuSwitch(c, m.item), v)
    BY PageView
  <2> QED BY <1>8, <2>1 DEF onRespond, HearRsp
<1>9. CASE m.ok /\ m.name \notin {"CREATE_ROOM", "JOIN_ROOM", "LEAVE_ROOM", "ROOM_READY",
                                  "ROOM_UNREADY", "ROOM_START", "MENU_BACK", "MENU_SWITCH"}
  BY <1>9 DEF onRespond, HearRsp
<1> QED BY <1>1, <1>2, <1>3, <1>4, <1>5, <1>6, <1>7, <1>8, <1>9

\* And of a notification.
LEMMA NotifyView ==
  ASSUME NEW c, NEW v, Is(c, v), NEW u, NEW m, NEW d \in onNotify(c, u, m)
  PROVE  Is(d, HearNtf(u, v, m))
<1>1. CASE m.name \in {"JOIN_ROOM", "PLAYER_INFO"}
  BY <1>1, DataView DEF onNotify, HearNtf
<1>2. CASE m.name = "LEAVE_ROOM"
  <2> DEFINE e == onRoomPlayerLeave(c, m.no)
             w == onRoomPlayerLeave(v, m.no)
  <2>1. Is(e, w) /\ d = onNtfLeaveRoom(c, m.no) /\ HearNtf(u, v, m) = SetPlay(w, FALSE)
    BY <1>2, DataView DEF onNotify, HearNtf, SetPlay
  <2>2. e.scene = c.scene
    BY DEF onRoomPlayerLeave, Is, IsClient, Fields
  <2> HIDE DEF e, w
  <2>3. CASE c.scene = "game"
    BY <2>1, <2>3, SceneView DEF onNtfLeaveRoom, e
  <2>4. CASE c.scene # "game"
    <3>1. Is(e, SetPlay(w, FALSE))
      BY <2>1, <2>2, <2>4, SceneView
    <3> QED BY <2>1, <2>4, <3>1, PageView DEF onNtfLeaveRoom, e
  <2> QED BY <2>3, <2>4
<1>3. CASE m.name = "HOST_CHANGE"
  <2> DEFINE e == onRoomPlayerUpdate(onRoomPlayerLeave(c, m.no), u, 0, m.user)
             w == onRoomPlayerUpdate(onRoomPlayerLeave(v, m.no), u, 0, m.user)
  <2>1. Is(e, w)
    BY DataView
  <2>2. d = onRoomUnReady(e, 0) /\ HearNtf(u, v, m) = onRoomUnReady(w, 0)
    BY <1>3 DEF onNotify, HearNtf, onNtfRoomHostChanged, onRoomUnReady
  <2> HIDE DEF e, w
  <2> QED BY <2>1, <2>2, DataView
<1>4. CASE m.name = "ROOM_READY"
  BY <1>4, DataView DEF onNotify, HearNtf
<1>5. CASE m.name = "ROOM_UNREADY"
  BY <1>5, DataView DEF onNotify, HearNtf
<1>6. CASE m.name = "ROOM_START"
  <2>1. Is(onNtfRoomStart(c, m.no), onRoomReady(v, m.no))
    BY DataView, PageView DEF onNtfRoomStart
  <2> QED BY <1>6, <2>1 DEF onNotify, HearNtf
<1>7. CASE m.name = "MENU_SWITCH"
  <2>1. Is(onNtfMenuSwitch(c, m.no), v)
    BY PageView DEF onNtfMenuSwitch
  <2> QED BY <1>7, <2>1 DEF onNotify, HearNtf
<1>8. CASE m.name = "MENU_BACK"
  <2>1. Is(onNtfMenuBack(c), onMenuBack(v))
    BY DataView, PageView DEF onNtfMenuBack
  <2> QED BY <1>8, <2>1 DEF onNotify, HearNtf
<1>9. CASE m.name = "GAME_START"
  <2>1. Is(To(c, InGame), SetPlay(v, TRUE))
    BY SceneView
  <2> QED BY <1>9, <2>1 DEF onNotify, HearNtf, SetPlay
<1>10. CASE m.name = "GAME_END"
  <2> DEFINE e == onMenuBack(c)
             w == onMenuBack(v)
  <2>1. Is(e, w) /\ d \in onNtfGameEnd(c) /\ HearNtf(u, v, m) = SetPlay(w, FALSE)
    BY <1>10, DataView DEF onNotify, HearNtf, SetPlay
  <2>2. e.scene = c.scene
    BY DEF onMenuBack, Is, IsClient, Fields
  <2> HIDE DEF e, w
  <2>3. CASE c.scene = "game"
    <3>1. d = To(e, InMenu("ROOM")) \/ d = [e EXCEPT !.over = TRUE]
      BY <2>1, <2>3 DEF onNtfGameEnd, e
    <3> QED BY <2>1, <3>1, SceneView
  <2>4. CASE c.scene # "game"
    <3>1. d = e
      BY <2>1, <2>4 DEF onNtfGameEnd, e
    <3> QED BY <2>1, <2>2, <2>4, <3>1, SceneView
  <2> QED BY <2>3, <2>4
<1>11. CASE m.name \notin {"JOIN_ROOM", "PLAYER_INFO", "LEAVE_ROOM", "HOST_CHANGE", "ROOM_READY",
                           "ROOM_UNREADY", "ROOM_START", "MENU_SWITCH", "MENU_BACK",
                           "GAME_START", "GAME_END"}
  BY <1>11 DEF onNotify, HearNtf
<1> QED BY <1>1, <1>2, <1>3, <1>4, <1>5, <1>6, <1>7, <1>8, <1>9, <1>10, <1>11

------------------------------------------------------------------------------
(* What is under way to a client leads its view to another one. *)

IsSeq(s) == \E S : s \in Seq(S)

Steps(u, s, f) ==
    /\ \A i \in 0..Len(s) : f[i] \in Views
    /\ \A i \in 1..Len(s) : f[i] = Hear(u, f[i - 1], s[i])
Leads(u, v, s, w) == IsSeq(s) /\ \E f : f[0] = v /\ f[Len(s)] = w /\ Steps(u, s, f)

\* No message leads nowhere.
LEMMA LeadsNone ==
  ASSUME NEW u, NEW v
  PROVE  /\ v \in Views => Leads(u, v, <<>>, v)
         /\ \A w : Leads(u, v, <<>>, w) => w = v
<1>1. IsSeq(<<>>) /\ Len(<<>>) = 0
  BY DEF IsSeq
<1>2. ASSUME v \in Views PROVE Leads(u, v, <<>>, v)
  <2> DEFINE f == [i \in {0} |-> v]
  <2>1. f[0] = v
    OBVIOUS
  <2> HIDE DEF f
  <2> QED BY <1>1, <1>2, <2>1 DEF Leads, Steps
<1>3. ASSUME NEW w, Leads(u, v, <<>>, w) PROVE w = v
  BY <1>1, <1>3 DEF Leads
<1> QED BY <1>2, <1>3

\* One message leads where it is heard.
LEMMA LeadsOne ==
  ASSUME NEW u, NEW v \in Views, NEW m, Hear(u, v, m) \in Views
  PROVE  Leads(u, v, <<m>>, Hear(u, v, m))
<1> DEFINE f == [i \in 0..1 |-> IF i = 0 THEN v ELSE Hear(u, v, m)]
<1>1. f[0] = v /\ f[1] = Hear(u, v, m)
  OBVIOUS
<1>2. <<m>> \in Seq({m}) /\ Len(<<m>>) = 1 /\ <<m>>[1] = m
  OBVIOUS
<1> HIDE DEF f
<1>3. Steps(u, <<m>>, f)
  BY <1>1, <1>2 DEF Steps
<1> QED BY <1>1, <1>2, <1>3 DEF Leads, IsSeq

\* More messages lead on.
LEMMA LeadsOn ==
  ASSUME NEW u, NEW v, NEW s, NEW w, Leads(u, v, s, w), NEW t, NEW x, Leads(u, w, t, x)
  PROVE  Leads(u, v, s \o t, x)
<1>1. PICK S : s \in Seq(S)
  BY DEF Leads, IsSeq
<1>2. PICK T : t \in Seq(T)
  BY DEF Leads, IsSeq
<1>3. PICK f : f[0] = v /\ f[Len(s)] = w /\ Steps(u, s, f)
  BY DEF Leads
<1>4. PICK g : g[0] = w /\ g[Len(t)] = x /\ Steps(u, t, g)
  BY DEF Leads
<1> DEFINE a == Len(s)
           b == Len(t)
           h == [i \in 0..a + b |-> IF i <= a THEN f[i] ELSE g[i - a]]
           r == s \o t
<1>5. a \in Nat /\ b \in Nat
  BY <1>1, <1>2
<1>6. s \in Seq(S \cup T) /\ t \in Seq(S \cup T)
  BY <1>1, <1>2
<1>7. /\ r \in Seq(S \cup T) /\ Len(r) = a + b
      /\ \A i \in 1..a + b : r[i] = IF i <= a THEN s[i] ELSE t[i - a]
  BY <1>6, ConcatProperties
<1>8. \A i \in 0..a : h[i] = f[i]
  BY <1>5
<1>9. \A i \in 0..b : h[a + i] = g[i]
  <2> TAKE i \in 0..b
  <2>1. CASE i = 0
    BY <1>3, <1>4, <1>5, <2>1
  <2>2. CASE i # 0
    BY <1>5, <2>2
  <2> QED BY <2>1, <2>2
<1> HIDE DEF a, b, h, r
<1>10. \A i \in 0..a + b : h[i] \in Views
  <2> TAKE i \in 0..a + b
  <2>1. CASE i <= a
    BY <1>3, <1>5, <1>8, <2>1 DEF Steps, a
  <2>2. CASE ~(i <= a)
    <3>1. i - a \in 0..b /\ a + (i - a) = i
      BY <1>5, <2>2
    <3> QED BY <1>4, <1>9, <3>1 DEF Steps, b
  <2> QED BY <2>1, <2>2
<1>11. \A i \in 1..a + b : h[i] = Hear(u, h[i - 1], r[i])
  <2> TAKE i \in 1..a + b
  <2>1. CASE i <= a
    <3>1. i \in 1..a /\ i \in 0..a /\ i - 1 \in 0..a
      BY <1>5, <2>1
    <3> QED BY <1>3, <1>7, <1>8, <2>1, <3>1 DEF Steps, a
  <2>2. CASE ~(i <= a)
    <3> DEFINE j == i - a
    <3>1. j \in 1..b /\ j \in 0..b /\ j - 1 \in 0..b /\ a + j = i /\ a + (j - 1) = i - 1
      BY <1>5, <2>2
    <3>2. r[i] = t[j] /\ h[i] = g[j] /\ h[i - 1] = g[j - 1]
      BY <1>7, <1>9, <2>2, <3>1
    <3> HIDE DEF j
    <3> QED BY <1>4, <3>1, <3>2 DEF Steps, b
  <2> QED BY <2>1, <2>2
<1>12. h[0] = v /\ h[a + b] = x
  BY <1>3, <1>4, <1>5, <1>8, <1>9 DEF b
<1> QED BY <1>7, <1>10, <1>11, <1>12 DEF Leads, Steps, IsSeq, r

\* The first message is a step of the way.
LEMMA LeadsFirst ==
  ASSUME NEW u, NEW v, NEW s, NEW w, Leads(u, v, s, w), s # <<>>
  PROVE  Leads(u, Hear(u, v, Head(s)), Tail(s), w)
<1>1. PICK S : s \in Seq(S)
  BY DEF Leads, IsSeq
<1>2. PICK f : f[0] = v /\ f[Len(s)] = w /\ Steps(u, s, f)
  BY DEF Leads
<1> DEFINE n == Len(s)
           t == Tail(s)
           g == [i \in 0..n - 1 |-> f[i + 1]]
<1>3. n \in Nat /\ n >= 1 /\ Head(s) = s[1]
  BY <1>1
<1>4. t \in Seq(S) /\ Len(t) = n - 1
  BY <1>1, HeadTailProperties
<1>5. \A i \in 1..n - 1 : t[i] = s[i + 1]
  BY <1>1
<1>6. \A i \in 0..n - 1 : g[i] = f[i + 1]
  OBVIOUS
<1> HIDE DEF n, t, g
<1>7. g[0] = Hear(u, v, Head(s)) /\ g[n - 1] = w
  <2>1. /\ 0 \in 0..n - 1 /\ n - 1 \in 0..n - 1 /\ (n - 1) + 1 = n
        /\ 0 + 1 = 1 /\ 1 - 1 = 0 /\ 1 \in 1..n
    BY <1>3
  <2>2. f[1] = Hear(u, f[0], s[1])
    BY <1>2, <2>1 DEF Steps, n
  <2> QED BY <1>2, <1>3, <1>6, <2>1, <2>2 DEF n
<1>8. \A i \in 0..n - 1 : g[i] \in Views
  <2> TAKE i \in 0..n - 1
  <2>1. i + 1 \in 0..n
    BY <1>3
  <2> QED BY <1>2, <1>6, <2>1 DEF Steps, n
<1>9. \A i \in 1..n - 1 : g[i] = Hear(u, g[i - 1], t[i])
  <2> TAKE i \in 1..n - 1
  <2>1. i + 1 \in 1..n /\ i \in 0..n - 1 /\ i - 1 \in 0..n - 1 /\ (i + 1) - 1 = i /\ (i - 1) + 1 = i
    BY <1>3
  <2>2. f[i + 1] = Hear(u, f[i], s[i + 1])
    BY <1>2, <2>1 DEF Steps, n
  <2> QED BY <1>5, <1>6, <2>1, <2>2
<1> QED BY <1>4, <1>7, <1>8, <1>9 DEF Leads, Steps, IsSeq, t

------------------------------------------------------------------------------
(* The inductive invariant. *)

Entry == {"CREATE_ROOM", "JOIN_ROOM"}

IsRoom(r) ==
    /\ r = [status |-> r.status, mode |-> r.mode, seat |-> r.seat, ready |-> r.ready]
    /\ r.seat \in [Seats -> Who] /\ r.ready \in [Seats -> BOOLEAN]
RoomOK(r) ==
    /\ IsRoom(r)
    /\ r.status = "none" => r.seat = Empty
    /\ r.seat[0] = r.seat[1] => r.seat[0] = Nobody
    /\ r.seat[1] = Nobody => r.ready = UnReady /\ r.status \notin {"start", "game"}

\* What the view w of u is to be if u is in the room, or is not.
Seated(r, u, w) ==
    /\ w.room /\ r.seat[w.no] = u /\ w.seat = r.seat /\ w.ready = r.ready
    /\ Patient => (w.play <=> r.status = "game")
Entering(q) == q # <<>> /\ Head(q).name \in Entry
Agrees(r, q, u, w) ==
    IF u \in SeatedIn(r) THEN Seated(r, u, w)
    ELSE ~w.room /\ (Patient /\ Entering(q) => ~w.play)

(* Patient users ask to enter a room when nothing else is under way.         *)
QueueOK(q) ==
    /\ IsSeq(q)
    /\ \A i \in 1..Len(q) : q[i].no \in Seats
    /\ Patient => \A i \in 2..Len(q) : q[i].name \notin Entry

\* The last that who left the room is sent is an answer.
Behind(s) == s = <<>> \/ s[Len(s)].kind = "rsp"

UserOK(r, c, q, s, u) ==
    /\ IsClient(c) /\ QueueOK(q)
    /\ \E w \in Views : Leads(u, View(c), s, w) /\ Agrees(r, q, u, w)
    /\ u \notin SeatedIn(r) => Behind(s)

IInv ==
    /\ RoomOK(room)
    /\ client = [u \in Users |-> client[u]]
    /\ up = [u \in Users |-> up[u]] /\ down = [u \in Users |-> down[u]]
    /\ \A u \in Users : UserOK(room, client[u], up[u], down[u], u)

\* A view that has a field set is a view: who is ready,
LEMMA SetReadyFields ==
  ASSUME NEW w \in Views, NEW x \in [Seats -> BOOLEAN]
  PROVE  LET y == SetReady(w, x)
         IN  /\ y \in Views /\ y.ready = x
             /\ y.room = w.room /\ y.no = w.no /\ y.seat = w.seat /\ y.play = w.play
  BY DEF SetReady, Views

\* who sits where,
LEMMA SetSeatFields ==
  ASSUME NEW w \in Views, NEW x \in [Seats -> Who]
  PROVE  LET y == SetSeat(w, x)
         IN  /\ y \in Views /\ y.seat = x
             /\ y.room = w.room /\ y.no = w.no /\ y.ready = w.ready /\ y.play = w.play
  BY DEF SetSeat, Views

\* where its user sits,
LEMMA SetNoFields ==
  ASSUME NEW w \in Views, NEW x \in Seats
  PROVE  LET y == SetNo(w, x)
         IN  /\ y \in Views /\ y.no = x
             /\ y.room = w.room /\ y.seat = w.seat /\ y.ready = w.ready /\ y.play = w.play
  BY DEF SetNo, Views

\* whether in the room at all,
LEMMA SetRoomFields ==
  ASSUME NEW w \in Views, NEW x \in BOOLEAN
  PROVE  LET y == SetRoom(w, x)
         IN  /\ y \in Views /\ y.room = x
             /\ y.no = w.no /\ y.seat = w.seat /\ y.ready = w.ready /\ y.play = w.play
  BY DEF SetRoom, Views

\* and whether it plays.
LEMMA SetPlayFields ==
  ASSUME NEW w \in Views, NEW x \in BOOLEAN
  PROVE  LET y == SetPlay(w, x)
         IN  /\ y \in Views /\ y.play = x
             /\ y.room = w.room /\ y.no = w.no /\ y.seat = w.seat /\ y.ready = w.ready
  BY DEF SetPlay, Views

\* Messages to a client that ends up where it agrees.
LEMMA LeadsToAgree ==
  ASSUME NEW r, NEW c, NEW q, NEW s, NEW u, UserOK(r, c, q, s, u),
         NEW r2, NEW q2, NEW t, QueueOK(q2),
         \A w \in Views : Agrees(r, q, u, w) =>
            \E x \in Views : Leads(u, w, t, x) /\ Agrees(r2, q2, u, x),
         u \notin SeatedIn(r2) => (t = <<>> /\ u \notin SeatedIn(r)) \/ (t # <<>> /\ Behind(t))
  PROVE  UserOK(r2, c, q2, s \o t, u)
<1>1. PICK w \in Views : Leads(u, View(c), s, w) /\ Agrees(r, q, u, w)
  BY DEF UserOK
<1>2. PICK x \in Views : Leads(u, w, t, x) /\ Agrees(r2, q2, u, x)
  BY <1>1
<1>3. Leads(u, View(c), s \o t, x)
  BY <1>1, <1>2, LeadsOn
<1>4. ASSUME u \notin SeatedIn(r2) PROVE Behind(s \o t)
  <2>1. PICK S : s \in Seq(S)
    BY <1>1 DEF Leads, IsSeq
  <2>2. PICK T : t \in Seq(T)
    BY <1>2 DEF Leads, IsSeq
  <2>3. CASE t = <<>>
    <3>1. s \o t = s
      BY <2>1, <2>3, ConcatEmptySeq
    <3> QED BY <1>4, <2>3, <3>1 DEF UserOK
  <2>4. CASE t # <<>>
    <3>1. /\ s \in Seq(S \cup T) /\ t \in Seq(S \cup T)
          /\ Len(t) >= 1 /\ Len(s) \in Nat /\ Len(t) \in Nat
      BY <2>1, <2>2, <2>4
    <3>2. Len(s \o t) = Len(s) + Len(t) /\ (s \o t)[Len(s) + Len(t)] = t[Len(t)]
      BY <3>1, ConcatProperties
    <3> QED BY <1>4, <2>4, <3>2 DEF Behind
  <2> QED BY <2>3, <2>4
<1> QED BY <1>2, <1>3, <1>4 DEF UserOK

\* Who asks, and the others, are led by what they are sent to where they agree.
Carries(u, r0, q0, t, r, q) ==
    \A w \in Views :
        Agrees(r0, q0, u, w) => \E x \in Views : Leads(u, w, t, x) /\ Agrees(r, q, u, x)
Tells(u, r0, t, r) ==
    \A w \in Views : Seated(r0, u, w) => \E x \in Views : Leads(u, w, t, x) /\ Seated(r, u, x)

\* The requests that are left.
LEMMA TailOK ==
  ASSUME NEW q, QueueOK(q), q # <<>>
  PROVE  QueueOK(Tail(q)) /\ Head(q).no \in Seats /\ (Patient => ~Entering(Tail(q)))
<1>1. PICK S : q \in Seq(S)
  BY DEF QueueOK, IsSeq
<1>2. /\ Len(q) \in Nat /\ Len(q) >= 1 /\ Head(q) = q[1]
      /\ Tail(q) \in Seq(S) /\ Len(Tail(q)) = Len(q) - 1
      /\ \A i \in 1..Len(q) - 1 : Tail(q)[i] = q[i + 1]
  BY <1>1, HeadTailProperties
<1>3. \A i \in 1..Len(Tail(q)) : Tail(q)[i].no \in Seats
  <2> TAKE i \in 1..Len(Tail(q))
  <2>1. i + 1 \in 1..Len(q) /\ Tail(q)[i] = q[i + 1]
    BY <1>2
  <2> QED BY <2>1 DEF QueueOK
<1>4. ASSUME Patient, NEW i \in 1..Len(Tail(q)) PROVE Tail(q)[i].name \notin Entry
  <2>1. i + 1 \in 2..Len(q) /\ Tail(q)[i] = q[i + 1]
    BY <1>2
  <2> QED BY <1>4, <2>1 DEF QueueOK
<1>5. ASSUME Patient PROVE ~Entering(Tail(q))
  <2> SUFFICES ASSUME Tail(q) # <<>> PROVE Head(Tail(q)).name \notin Entry
    BY DEF Entering
  <2>1. Head(Tail(q)) = Tail(q)[1] /\ 1 \in 1..Len(Tail(q))
    BY <1>2
  <2> QED BY <1>4, <1>5, <2>1
<1>6. 1 \in 1..Len(q)
  BY <1>2
<1>7. Patient => \A i \in 2..Len(Tail(q)) : Tail(q)[i].name \notin Entry
  BY <1>2, <1>4
<1> QED BY <1>2, <1>3, <1>5, <1>6, <1>7 DEF QueueOK, IsSeq

\* The end of a handler that leaves everybody led where he agrees.
LEMMA DoneInv ==
  ASSUME IInv, NEW u \in Users, NEW r, NEW mine, NEW others, Done(u, r, mine, others),
         up[u] # <<>>, RoomOK(r), Carries(u, room, up[u], mine, r, Tail(up[u])),
         u \notin SeatedIn(r) =>
            (mine = <<>> /\ u \notin SeatedIn(room)) \/ (mine # <<>> /\ Behind(mine)),
         \A v \in Users \ {u} : v \in SeatedIn(r) <=> v \in SeatedIn(room),
         \A v \in Users \ {u} : v \in SeatedIn(r) => Tells(v, room, others, r)
  PROVE  IInv'
<1>1. /\ room' = r /\ client' = client
      /\ up' = [up EXCEPT ![u] = Tail(@)]
      /\ down' = [v \in Users |->
                    IF v = u THEN down[v] \o mine
                    ELSE IF v \in SeatedIn(r) THEN down[v] \o others ELSE down[v]]
  BY DEF Done
<1>2. UserOK(r, client'[u], up'[u], down'[u], u)
  <2>1. UserOK(room, client[u], up[u], down[u], u)
    BY DEF IInv
  <2>2. QueueOK(Tail(up[u]))
    BY <2>1, TailOK DEF UserOK
  <2>3. \A w \in Views : Agrees(room, up[u], u, w) =>
           \E x \in Views : Leads(u, w, mine, x) /\ Agrees(r, Tail(up[u]), u, x)
    BY DEF Carries
  <2>4. UserOK(r, client[u], Tail(up[u]), down[u] \o mine, u)
    BY <2>1, <2>2, <2>3, LeadsToAgree
  <2>5. client'[u] = client[u] /\ up'[u] = Tail(up[u]) /\ down'[u] = down[u] \o mine
    BY <1>1 DEF IInv
  <2> QED BY <2>4, <2>5
<1>3. ASSUME NEW v \in Users \ {u} PROVE UserOK(r, client'[v], up'[v], down'[v], v)
  <2>1. UserOK(room, client[v], up[v], down[v], v)
    BY DEF IInv
  <2>2. client'[v] = client[v] /\ up'[v] = up[v]
    BY <1>1 DEF IInv
  <2>3. CASE v \in SeatedIn(r)
    <3>1. \A w \in Views : Agrees(room, up[v], v, w) =>
             \E x \in Views : Leads(v, w, others, x) /\ Agrees(r, up[v], v, x)
      BY <2>3 DEF Agrees, Tells
    <3>2. down'[v] = down[v] \o others
      BY <1>1, <2>3
    <3>3. QueueOK(up[v])
      BY <2>1 DEF UserOK
    <3>4. UserOK(r, client[v], up[v], down[v] \o others, v)
      BY <2>1, <2>3, <3>1, <3>3, LeadsToAgree
    <3> QED BY <2>2, <3>2, <3>4
  <2>4. CASE v \notin SeatedIn(r)
    <3>1. down'[v] = down[v] /\ v \notin SeatedIn(room)
      BY <1>1, <2>4
    <3>2. \A w : Agrees(room, up[v], v, w) => Agrees(r, up[v], v, w)
      BY <2>4, <3>1 DEF Agrees
    <3> QED BY <2>1, <2>2, <2>4, <3>1, <3>2 DEF UserOK
  <2> QED BY <2>3, <2>4
<1>4. \A v \in Users : UserOK(r, client'[v], up'[v], down'[v], v)
  BY <1>2, <1>3
<1>5. /\ client' = [v \in Users |-> client'[v]]
      /\ up' = [v \in Users |-> up'[v]] /\ down' = [v \in Users |-> down'[v]]
  BY <1>1 DEF IInv
<1> QED BY <1>1, <1>4, <1>5 DEF IInv

------------------------------------------------------------------------------
(* The handlers of the server. *)

\* No message.
LEMMA TellsNone == ASSUME NEW u, NEW r PROVE Tells(u, r, <<>>, r)
  BY LeadsNone DEF Tells

\* One message.
LEMMA TellsOne ==
  ASSUME NEW u, NEW r0, NEW r, NEW m,
         \A w \in Views : Seated(r0, u, w) => Hear(u, w, m) \in Views /\ Seated(r, u, Hear(u, w, m))
  PROVE  Tells(u, r0, <<m>>, r)
  BY LeadsOne DEF Tells

\* Two messages are one and another one.
LEMMA TwoMessages == ASSUME NEW m, NEW n PROVE <<m, n>> = <<m>> \o <<n>>
<1>1. <<m>> \in Seq({m, n}) /\ <<n>> \in Seq({m, n}) /\ Len(<<m>>) = 1 /\ Len(<<n>>) = 1
  OBVIOUS
<1> DEFINE r2 == <<m>> \o <<n>>
<1>2. r2 \in Seq({m, n}) /\ Len(r2) = 2 /\ r2[1] = m /\ r2[2] = n
  BY <1>1, ConcatProperties
<1> HIDE DEF r2
<1>3. r2 = <<m, n>>
  BY <1>2
<1> QED BY <1>3 DEF r2

\* Two messages, one after the other.
LEMMA TellsTwo ==
  ASSUME NEW u, NEW r0, NEW r1, NEW r, NEW m, NEW n,
         Tells(u, r0, <<m>>, r1), Tells(u, r1, <<n>>, r)
  PROVE  Tells(u, r0, <<m, n>>, r)
<1> SUFFICES ASSUME NEW w \in Views, Seated(r0, u, w)
             PROVE  \E x \in Views : Leads(u, w, <<m, n>>, x) /\ Seated(r, u, x)
  BY DEF Tells
<1>2. PICK y \in Views : Leads(u, w, <<m>>, y) /\ Seated(r1, u, y)
  BY DEF Tells
<1>3. PICK x \in Views : Leads(u, y, <<n>>, x) /\ Seated(r, u, x)
  BY <1>2 DEF Tells
<1> QED BY <1>2, <1>3, LeadsOn, TwoMessages

\* A message without a word on the room, while the room stays as it is.
LEMMA TellsNothing ==
  ASSUME NEW u, NEW r0, NEW r, NEW m, \A w \in Views : Hear(u, w, m) = w,
         r.seat = r0.seat, r.ready = r0.ready, Patient => (r.status = "game" <=> r0.status = "game")
  PROVE  Tells(u, r0, <<m>>, r)
<1>1. \A w \in Views : Seated(r0, u, w) => Hear(u, w, m) \in Views /\ Seated(r, u, Hear(u, w, m))
  BY DEF Seated
<1> QED BY <1>1, TellsOne

\* A message that says who is ready now.
LEMMA TellsReady ==
  ASSUME NEW u, NEW r0, NEW r, NEW m, IsRoom(r0), IsRoom(r),
         \A w \in Views : w.ready = r0.ready => Hear(u, w, m) = SetReady(w, r.ready),
         r.seat = r0.seat, Patient => (r.status = "game" <=> r0.status = "game")
  PROVE  Tells(u, r0, <<m>>, r)
<1>1. r.ready \in [Seats -> BOOLEAN]
  BY DEF IsRoom
<1>2. ASSUME NEW w \in Views, Seated(r0, u, w)
      PROVE  Hear(u, w, m) \in Views /\ Seated(r, u, Hear(u, w, m))
  <2> DEFINE y == SetReady(w, r.ready)
  <2>1. Hear(u, w, m) = y
    BY <1>2 DEF Seated
  <2>2. /\ y \in Views /\ y.ready = r.ready
        /\ y.room = w.room /\ y.no = w.no /\ y.seat = w.seat /\ y.play = w.play
    BY <1>1, SetReadyFields
  <2> HIDE DEF y
  <2> QED BY <1>2, <2>1, <2>2 DEF Seated
<1> QED BY <1>2, TellsOne

\* A message that says that the game begins or has ended.
LEMMA TellsPlay ==
  ASSUME NEW u, NEW r0, NEW r, NEW m, NEW x \in BOOLEAN,
         \A w \in Views : w.ready = r0.ready => Hear(u, w, m) = SetPlay(w, x),
         r.seat = r0.seat, r.ready = r0.ready, r.status = "game" <=> x
  PROVE  Tells(u, r0, <<m>>, r)
<1>2. ASSUME NEW w \in Views, Seated(r0, u, w)
      PROVE  Hear(u, w, m) \in Views /\ Seated(r, u, Hear(u, w, m))
  <2> DEFINE y == SetPlay(w, x)
  <2>1. Hear(u, w, m) = y
    BY <1>2 DEF Seated
  <2>2. /\ y \in Views /\ y.play = x
        /\ y.room = w.room /\ y.no = w.no /\ y.seat = w.seat /\ y.ready = w.ready
    BY SetPlayFields
  <2> HIDE DEF y
  <2> QED BY <1>2, <2>1, <2>2 DEF Seated
<1> QED BY <1>2, TellsOne

\* Who stays in the room has heard of it.
LEMMA StayCarries ==
  ASSUME NEW u, NEW r0, NEW q0, NEW t, NEW r, NEW q,
         u \in SeatedIn(r0), u \in SeatedIn(r), Tells(u, r0, t, r)
  PROVE  Carries(u, r0, q0, t, r, q)
  BY DEF Carries, Tells, Agrees

\* The end of a handler after which everybody sits where he sat.
LEMMA StayInv ==
  ASSUME IInv, NEW u \in Users, up[u] # <<>>, u \in SeatedIn(room),
         NEW r, NEW mine, NEW others, Done(u, r, mine, others), RoomOK(r), r.seat = room.seat,
         Tells(u, room, mine, r),
         \A v \in Users \ {u} : v \in SeatedIn(r) => Tells(v, room, others, r)
  PROVE  IInv'
<1>1. SeatedIn(r) = SeatedIn(room)
  BY DEF SeatedIn
<1>2. Carries(u, room, up[u], mine, r, Tail(up[u]))
  BY <1>1, StayCarries
<1> QED BY <1>1, <1>2, DoneInv

\* What is heard of a request that failed.
LEMMA HearFail ==
  ASSUME NEW u, NEW w, NEW m
  PROVE  LET f == Rsp(m, FALSE, 0) IN Hear(u, w, f) = w /\ f.kind = "rsp"
  BY DEF Rsp, Hear, HearRsp

\* A request that failed changes nothing.
LEMMA FailInv ==
  ASSUME IInv, NEW u \in Users, up[u] # <<>>, Fail(u)
  PROVE  IInv'
<1> DEFINE f == Rsp(Request(u), FALSE, 0)
<1>1. Done(u, room, <<f>>, <<>>) /\ RoomOK(room)
  BY DEF Fail, IInv
<1>2. \A w : Hear(u, w, f) = w /\ f.kind = "rsp"
  BY HearFail
<1> HIDE DEF f
<1>3. <<f>> # <<>> /\ Behind(<<f>>)
  BY <1>2 DEF Behind
<1>4. Patient => ~Entering(Tail(up[u]))
  BY TailOK DEF IInv, UserOK
<1>5. Carries(u, room, up[u], <<f>>, room, Tail(up[u]))
  <2> SUFFICES ASSUME NEW w \in Views, Agrees(room, up[u], u, w)
               PROVE  Leads(u, w, <<f>>, w) /\ Agrees(room, Tail(up[u]), u, w)
    BY DEF Carries
  <2>1. Leads(u, w, <<f>>, w)
    BY <1>2, LeadsOne
  <2> QED BY <1>4, <2>1 DEF Agrees
<1> QED BY <1>1, <1>3, <1>5, DoneInv, TellsNone

\* The fields of answers.
LEMMA RspFields ==
  ASSUME NEW q, NEW ok, NEW no
  PROVE  /\ Rsp(q, ok, no).kind = "rsp" /\ Rsp(q, ok, no).name = q.name
         /\ Rsp(q, ok, no).ok = ok /\ Rsp(q, ok, no).no = no /\ Rsp(q, ok, no).from = q.from
  BY DEF Rsp

\* The fields of notifications.
LEMMA NtfFields ==
  ASSUME NEW name, NEW no, NEW user
  PROVE  /\ Ntf(name, no).kind = "ntf" /\ Ntf(name, no).name = name /\ Ntf(name, no).no = no
         /\ NtfUser(name, no, user).kind = "ntf" /\ NtfUser(name, no, user).name = name
         /\ NtfUser(name, no, user).no = no /\ NtfUser(name, no, user).user = user
  BY DEF Ntf, NtfUser

\* What is heard in a message that somebody is ready,
LEMMA HearsReady ==
  ASSUME NEW u, NEW w, NEW m, m.name \in {"ROOM_READY", "ROOM_START"}, m.kind = "rsp" => m.ok
  PROVE  Hear(u, w, m) = SetReady(w, [w.ready EXCEPT ![m.no] = TRUE])
  BY ReadyForm DEF Hear, HearRsp, HearNtf

\* or is not,
LEMMA HearsUnReady ==
  ASSUME NEW u, NEW w, NEW m, m.name = "ROOM_UNREADY", m.kind = "rsp" => m.ok
  PROVE  Hear(u, w, m) = SetReady(w, [w.ready EXCEPT ![m.no] = FALSE])
  BY UnReadyForm DEF Hear, HearRsp, HearNtf

\* that the host went back,
LEMMA HearsMenuBack ==
  ASSUME NEW u, NEW w, NEW m, m.name = "MENU_BACK", m.kind = "rsp" => m.ok
  PROVE  Hear(u, w, m) = SetReady(w, UnReady)
  BY MenuBackForm DEF Hear, HearRsp, HearNtf

\* moved the cursor or has chosen,
LEMMA HearsNothing ==
  ASSUME NEW u, NEW w, NEW m, m.name \in {"MENU_SWITCH", "MENU_CHOOSE"}
  PROVE  Hear(u, w, m) = w
  BY DEF Hear, HearRsp, HearNtf

\* that the game starts,
LEMMA HearsGameStart ==
  ASSUME NEW u, NEW w, NEW m, m.name = "GAME_START", m.kind = "ntf"
  PROVE  Hear(u, w, m) = SetPlay(w, TRUE)
  BY DEF Hear, HearNtf, SetPlay

\* or has ended.
LEMMA HearsGameEnd ==
  ASSUME NEW u, NEW w, NEW m, m.name = "GAME_END", m.kind = "ntf"
  PROVE  Hear(u, w, m) = SetPlay(SetReady(w, UnReady), FALSE)
  BY MenuBackForm DEF Hear, HearNtf, SetPlay

\* The fields of the answer to a request that was granted.
LEMMA OkFields ==
  ASSUME NEW u
  PROVE  /\ Ok(u).kind = "rsp" /\ Ok(u).name = Request(u).name /\ Ok(u).ok
         /\ Ok(u).no = Request(u).no /\ Ok(u).from = Request(u).from
  BY DEF Ok, Rsp

\* Who sits where the request says.
LEMMA SitsFacts ==
  ASSUME IInv, NEW u \in Users, up[u] # <<>>, Sits(u)
  PROVE  /\ Request(u).no \in Seats /\ room.seat[Request(u).no] = u
         /\ u \in SeatedIn(room) /\ u # Nobody
<1>1. QueueOK(up[u])
  BY DEF IInv, UserOK
<1>2. Request(u).no \in Seats
  BY <1>1, TailOK DEF Request
<1>3. u # Nobody
  BY LobbyAssumption
<1> QED BY <1>2, <1>3 DEF Sits, SeatedIn

\* A message after which everybody holds who is ready in r.
LEMMA ReadyTold ==
  ASSUME NEW r0, NEW r, NEW x, IsRoom(r0), IsRoom(r), r.seat = r0.seat, r.ready = x,
         Patient => (r.status = "game" <=> r0.status = "game"),
         NEW m, NEW v, \A w \in Views : w.ready = r0.ready => Hear(v, w, m) = SetReady(w, x)
  PROVE  Tells(v, r0, <<m>>, r)
  BY TellsReady

\* ROOM_READY and ROOM_UNREADY.
LEMMA ReadyInv ==
  ASSUME IInv, NEW u \in Users, OnRoomReady(u) \/ OnRoomUnReady(u)
  PROVE  IInv'
<1>1. up[u] # <<>> /\ Request(u).name \in {"ROOM_READY", "ROOM_UNREADY"}
  BY DEF OnRoomReady, OnRoomUnReady, Takes, Request
<1>2. CASE Fail(u)
  BY <1>1, <1>2, FailInv
<1>3. ASSUME NEW b \in BOOLEAN, Sits(u), room.status = "ready", Request(u).no # 0,
             Request(u).name = IF b THEN "ROOM_READY" ELSE "ROOM_UNREADY",
             Done(u, [room EXCEPT !.ready[1] = b], <<Ok(u)>>, <<Ntf(Request(u).name, 1)>>)
      PROVE  IInv'
  <2> DEFINE x == [room.ready EXCEPT ![1] = b]
             r == [room EXCEPT !.ready[1] = b]
             m == Ok(u)
             n == Ntf(Request(u).name, 1)
  <2>1. /\ Request(u).no = 1 /\ room.seat[1] = u /\ u \in SeatedIn(room) /\ u # Nobody
    BY <1>1, <1>3, SitsFacts DEF Seats
  <2>2. RoomOK(room) /\ IsRoom(room)
    BY DEF IInv, RoomOK
  <2>3. /\ IsRoom(r) /\ r.seat = room.seat /\ r.ready = x
        /\ r.status = room.status /\ r.mode = room.mode
    BY <2>2 DEF IsRoom, Seats
  <2>4. m.name = Request(u).name /\ m.kind = "rsp" /\ m.ok /\ m.no = 1
    BY <2>1, OkFields
  <2>5. n.name = Request(u).name /\ n.kind = "ntf" /\ n.no = 1
    BY NtfFields
  <2>6. Done(u, r, <<m>>, <<n>>)
    BY <1>3
  <2> HIDE DEF r, m, n
  <2>7. RoomOK(r)
    BY <1>3, <2>1, <2>2, <2>3 DEF RoomOK
  <2>8. \A v, w : w.ready = room.ready => Hear(v, w, m) = SetReady(w, x)
    BY <1>3, <2>4, HearsReady, HearsUnReady
  <2>9. \A v, w : w.ready = room.ready => Hear(v, w, n) = SetReady(w, x)
    BY <1>3, <2>5, HearsReady, HearsUnReady
  <2> HIDE DEF x
  <2>10. \A v : Tells(v, room, <<m>>, r) /\ Tells(v, room, <<n>>, r)
    BY <2>2, <2>3, <2>8, <2>9, ReadyTold
  <2> QED BY <1>1, <2>1, <2>3, <2>6, <2>7, <2>10, StayInv
<1> QED BY <1>1, <1>2, <1>3 DEF OnRoomReady, OnRoomUnReady, Takes, Request

\* A room with what a handler sets of it.
LEMMA RoomSets ==
  ASSUME NEW r, IsRoom(r), NEW x
  PROVE  /\ IsRoom(SetStatus(r, x)) /\ SetStatus(r, x).status = x
         /\ SetStatus(r, x).seat = r.seat /\ SetStatus(r, x).ready = r.ready
         /\ IsRoom(SetMode(r, x)) /\ SetMode(r, x).status = r.status
         /\ SetMode(r, x).seat = r.seat /\ SetMode(r, x).ready = r.ready
  BY DEF IsRoom, SetStatus, SetMode

\* A room with other users or other flags.
LEMMA RoomFields ==
  ASSUME NEW r, IsRoom(r), NEW x
  PROVE  /\ x \in [Seats -> Who] => IsRoom(SetSeat(r, x))
         /\ SetSeat(r, x).seat = x /\ SetSeat(r, x).status = r.status
         /\ SetSeat(r, x).ready = r.ready
         /\ x \in [Seats -> BOOLEAN] => IsRoom(SetReady(r, x))
         /\ SetReady(r, x).ready = x /\ SetReady(r, x).status = r.status
         /\ SetReady(r, x).seat = r.seat
  BY DEF IsRoom, SetSeat, SetReady

\* A handler that tells everybody who is ready now.
LEMMA ToldInv ==
  ASSUME IInv, NEW u \in Users, up[u] # <<>>, u \in SeatedIn(room),
         NEW r, NEW m, NEW n, Done(u, r, <<m>>, <<n>>), RoomOK(r), r.seat = room.seat,
         room.status # "game", r.status # "game",
         \A v, w : w.ready = room.ready =>
            Hear(v, w, m) = SetReady(w, r.ready) /\ Hear(v, w, n) = SetReady(w, r.ready)
  PROVE  IInv'
<1> DEFINE x == r.ready
<1>1. \A v, w : w.ready = room.ready => Hear(v, w, m) = SetReady(w, x)
  OBVIOUS
<1>2. \A v, w : w.ready = room.ready => Hear(v, w, n) = SetReady(w, x)
  OBVIOUS
<1>3. IsRoom(room) /\ IsRoom(r) /\ r.ready = x
  BY DEF IInv, RoomOK
<1> HIDE DEF x
<1>4. \A v : Tells(v, room, <<m>>, r) /\ Tells(v, room, <<n>>, r)
  BY <1>1, <1>2, <1>3, ReadyTold
<1> QED BY <1>4, StayInv

\* ROOM_START: the host is ready.
LEMMA StartInv ==
  ASSUME IInv, NEW u \in Users, OnRoomStart(u)
  PROVE  IInv'
<1>1. up[u] # <<>> /\ Request(u).name = "ROOM_START"
  BY DEF OnRoomStart, Takes, Request
<1>2. CASE Fail(u)
  BY <1>1, <1>2, FailInv
<1>3. CASE ~Fail(u)
  <2> DEFINE r == [room EXCEPT !.status = "start", !.ready[0] = TRUE]
             m == Ok(u)
             n == Ntf("ROOM_START", 0)
  <2>1. /\ Sits(u) /\ room.status = "ready" /\ Request(u).no = 0
        /\ room.seat[1] # Nobody /\ Done(u, r, <<m>>, <<n>>)
    BY <1>3 DEF OnRoomStart
  <2>2. u \in SeatedIn(room)
    BY <1>1, <2>1, SitsFacts
  <2>3. RoomOK(room) /\ IsRoom(room)
    BY DEF IInv, RoomOK
  <2>4. /\ IsRoom(r) /\ r.seat = room.seat /\ r.ready = [room.ready EXCEPT ![0] = TRUE]
        /\ r.status = "start"
    <3> DEFINE a == SetStatus(room, "start")
               x == [room.ready EXCEPT ![0] = TRUE]
    <3>1. r = SetReady(a, x)
      BY DEF SetReady, SetStatus
    <3>2. x \in [Seats -> BOOLEAN]
      BY <2>3 DEF IsRoom
    <3>3. IsRoom(a) /\ a.status = "start" /\ a.seat = room.seat
      BY <2>3, RoomSets
    <3> HIDE DEF a, x
    <3>4. /\ IsRoom(SetReady(a, x)) /\ SetReady(a, x).ready = x
          /\ SetReady(a, x).status = "start" /\ SetReady(a, x).seat = room.seat
      BY <3>2, <3>3, RoomFields
    <3> QED BY <3>1, <3>4 DEF x
  <2>5. m.name = "ROOM_START" /\ m.kind = "rsp" /\ m.ok /\ m.no = 0
    BY <1>1, <2>1, OkFields
  <2>6. n.name = "ROOM_START" /\ n.kind = "ntf" /\ n.no = 0
    BY NtfFields
  <2> HIDE DEF r, m, n
  <2>7. RoomOK(r)
    BY <2>1, <2>3, <2>4 DEF RoomOK
  <2>8. \A v, w : w.ready = room.ready =>
           Hear(v, w, m) = SetReady(w, r.ready) /\ Hear(v, w, n) = SetReady(w, r.ready)
    BY <2>4, <2>5, <2>6, HearsReady
  <2> QED BY <1>1, <2>1, <2>2, <2>4, <2>7, <2>8, ToldInv
<1> QED BY <1>2, <1>3

\* MENU_SWITCH: the cursor is not the room's.
LEMMA MenuSwitchInv ==
  ASSUME IInv, NEW u \in Users, OnMenuSwitch(u)
  PROVE  IInv'
<1>1. up[u] # <<>> /\ Request(u).name = "MENU_SWITCH"
  BY DEF OnMenuSwitch, Takes, Request
<1>2. CASE Fail(u)
  BY <1>1, <1>2, FailInv
<1>3. CASE ~Fail(u)
  <2> DEFINE m == Ok(u)
             n == Ntf("MENU_SWITCH", Request(u).item)
  <2>1. Sits(u) /\ Done(u, room, <<m>>, <<n>>)
    BY <1>3 DEF OnMenuSwitch, MayChoose
  <2>2. u \in SeatedIn(room) /\ RoomOK(room)
    BY <1>1, <2>1, SitsFacts DEF IInv
  <2>3. m.name = "MENU_SWITCH" /\ n.name = "MENU_SWITCH"
    BY <1>1, OkFields, NtfFields
  <2> HIDE DEF m, n
  <2>4. \A v : \A w \in Views : Hear(v, w, m) = w /\ Hear(v, w, n) = w
    BY <2>3, HearsNothing
  <2>5. \A v : Tells(v, room, <<m>>, room) /\ Tells(v, room, <<n>>, room)
    BY <2>4, TellsNothing
  <2> QED BY <1>1, <2>1, <2>2, <2>5, StayInv
<1> QED BY <1>2, <1>3

\* MENU_BACK: nobody is ready.
LEMMA MenuBackInv ==
  ASSUME IInv, NEW u \in Users, OnMenuBack(u)
  PROVE  IInv'
<1>1. up[u] # <<>> /\ Request(u).name = "MENU_BACK"
  BY DEF OnMenuBack, Takes, Request
<1>2. CASE Fail(u)
  BY <1>1, <1>2, FailInv
<1>3. CASE ~Fail(u)
  <2> DEFINE r == [room EXCEPT !.status = "ready", !.ready = UnReady]
             m == Ok(u)
             n == Ntf("MENU_BACK", 0)
  <2>1. Sits(u) /\ room.status = "start" /\ Done(u, r, <<m>>, <<n>>)
    BY <1>3 DEF OnMenuBack, MayChoose
  <2>2. u \in SeatedIn(room)
    BY <1>1, <2>1, SitsFacts
  <2>3. RoomOK(room) /\ IsRoom(room)
    BY DEF IInv, RoomOK
  <2>4. /\ IsRoom(r) /\ r.seat = room.seat /\ r.ready = UnReady /\ r.status = "ready"
    <3>1. r = SetReady(SetStatus(room, "ready"), UnReady)
      BY DEF SetReady, SetStatus
    <3>2. UnReady \in [Seats -> BOOLEAN]
      BY DEF UnReady
    <3> QED BY <2>3, <3>1, <3>2, RoomSets, RoomFields
  <2>5. m.name = "MENU_BACK" /\ m.kind = "rsp" /\ m.ok
    BY <1>1, OkFields
  <2>6. n.name = "MENU_BACK" /\ n.kind = "ntf"
    BY NtfFields
  <2> HIDE DEF r, m, n
  <2>7. RoomOK(r)
    BY <2>1, <2>3, <2>4 DEF RoomOK
  <2>8. \A v, w : w.ready = room.ready =>
           Hear(v, w, m) = SetReady(w, r.ready) /\ Hear(v, w, n) = SetReady(w, r.ready)
    BY <2>4, <2>5, <2>6, HearsMenuBack
  <2> QED BY <1>1, <2>1, <2>2, <2>4, <2>7, <2>8, ToldInv
<1> QED BY <1>2, <1>3

\* MENU_CHOOSE: the game starts.
LEMMA MenuChooseInv ==
  ASSUME IInv, NEW u \in Users, OnMenuChoose(u)
  PROVE  IInv'
<1>1. up[u] # <<>> /\ Request(u).name = "MENU_CHOOSE"
  BY DEF OnMenuChoose, Takes, Request
<1>2. CASE Fail(u)
  BY <1>1, <1>2, FailInv
<1>3. CASE ~Fail(u)
  <2> DEFINE mode == Modes[Request(u).item + 1]
             r == [room EXCEPT !.status = "game", !.mode = mode]
             m == Ok(u)
             k == Ntf("MENU_CHOOSE", 0)
             n == Ntf("GAME_START", 0)
  <2>1. Sits(u) /\ room.status = "start" /\ Done(u, r, <<m, n>>, <<k, n>>)
    BY <1>3 DEF OnMenuChoose, MayChoose
  <2>2. u \in SeatedIn(room)
    BY <1>1, <2>1, SitsFacts
  <2>3. RoomOK(room) /\ IsRoom(room)
    BY DEF IInv, RoomOK
  <2>4. IsRoom(r) /\ r.seat = room.seat /\ r.ready = room.ready /\ r.status = "game"
    <3> DEFINE a == SetStatus(room, "game")
    <3>1. r = SetMode(a, mode)
      BY DEF SetMode, SetStatus
    <3>2. IsRoom(a) /\ a.status = "game" /\ a.seat = room.seat /\ a.ready = room.ready
      BY <2>3, RoomSets
    <3> HIDE DEF a, mode
    <3> QED BY <3>1, <3>2, RoomSets
  <2>5. m.name = "MENU_CHOOSE" /\ k.name = "MENU_CHOOSE"
    BY <1>1, OkFields, NtfFields
  <2>6. n.name = "GAME_START" /\ n.kind = "ntf"
    BY NtfFields
  <2> HIDE DEF r, m, n, k
  <2>7. RoomOK(r)
    BY <2>1, <2>3, <2>4 DEF RoomOK
  <2>8. \A v : Tells(v, room, <<m>>, room) /\ Tells(v, room, <<k>>, room)
    <3>1. \A v : \A w \in Views : Hear(v, w, m) = w /\ Hear(v, w, k) = w
      BY <2>5, HearsNothing
    <3> QED BY <3>1, TellsNothing
  <2>9. \A v : Tells(v, room, <<n>>, r)
    <3>1. \A v : \A w \in Views : Hear(v, w, n) = SetPlay(w, TRUE)
      BY <2>6, HearsGameStart
    <3> QED BY <2>4, <3>1, TellsPlay
  <2>10. \A v : Tells(v, room, <<m, n>>, r) /\ Tells(v, room, <<k, n>>, r)
    BY <2>8, <2>9, TellsTwo
  <2> QED BY <1>1, <2>1, <2>2, <2>4, <2>7, <2>10, StayInv
<1> QED BY <1>2, <1>3

\* A request too late for an answer.
LEMMA NothingInv ==
  ASSUME IInv, NEW u \in Users, up[u] # <<>>, Done(u, room, <<>>, <<>>)
  PROVE  IInv'
<1>1. RoomOK(room)
  BY DEF IInv
<1>2. Patient => ~Entering(Tail(up[u]))
  BY TailOK DEF IInv, UserOK
<1>3. Carries(u, room, up[u], <<>>, room, Tail(up[u]))
  BY <1>2, LeadsNone DEF Carries, Agrees
<1> QED BY <1>1, <1>3, DoneInv, TellsNone

\* EDIT_FINISHED: the game goes on with the map.
LEMMA EditFinishedInv ==
  ASSUME IInv, NEW u \in Users, OnGameMapEditFinished(u)
  PROVE  IInv'
<1>1. up[u] # <<>>
  BY DEF OnGameMapEditFinished, Takes
<1>2. CASE Done(u, room, <<>>, <<>>)
  BY <1>1, <1>2, NothingInv
<1>3. CASE ~Done(u, room, <<>>, <<>>)
  <2> DEFINE r == [room EXCEPT !.mode = "common"]
             n == Ntf("GAME_START", 0)
  <2>1. Sits(u) /\ room.status = "game" /\ Done(u, r, <<n>>, <<n>>)
    BY <1>3 DEF OnGameMapEditFinished
  <2>2. u \in SeatedIn(room)
    BY <1>1, <2>1, SitsFacts
  <2>3. RoomOK(room) /\ IsRoom(room)
    BY DEF IInv, RoomOK
  <2>4. IsRoom(r) /\ r.seat = room.seat /\ r.ready = room.ready /\ r.status = "game"
    BY <2>1, <2>3, RoomSets DEF SetMode
  <2>5. n.name = "GAME_START" /\ n.kind = "ntf"
    BY NtfFields
  <2> HIDE DEF r, n
  <2>6. RoomOK(r)
    BY <2>1, <2>3, <2>4 DEF RoomOK
  <2>7. \A v : Tells(v, room, <<n>>, r)
    <3>1. \A v : \A w \in Views : Hear(v, w, n) = SetPlay(w, TRUE)
      BY <2>5, HearsGameStart
    <3> QED BY <2>4, <3>1, TellsPlay
  <2> QED BY <1>1, <2>1, <2>2, <2>4, <2>6, <2>7, StayInv
<1> QED BY <1>2, <1>3

\* GAME_END: the room waits for ready players again.
LEMMA GameEndInv ==
  ASSUME IInv, NEW u \in Users, OnGameEnd(u)
  PROVE  IInv'
<1>1. up[u] # <<>>
  BY DEF OnGameEnd, Takes
<1>2. CASE Done(u, room, <<>>, <<>>)
  BY <1>1, <1>2, NothingInv
<1>3. CASE ~Done(u, room, <<>>, <<>>)
  <2> DEFINE r == [room EXCEPT !.status = "ready", !.mode = "none", !.ready = UnReady]
             n == Ntf("GAME_END", Request(u).no)
  <2>1. Sits(u) /\ Done(u, r, <<n>>, <<n>>)
    BY <1>3 DEF OnGameEnd
  <2>2. u \in SeatedIn(room)
    BY <1>1, <2>1, SitsFacts
  <2>3. RoomOK(room) /\ IsRoom(room) /\ UnReady \in [Seats -> BOOLEAN]
    BY DEF IInv, RoomOK, UnReady
  <2>4. IsRoom(r) /\ r.seat = room.seat /\ r.ready = UnReady /\ r.status = "ready"
    <3> DEFINE a == SetStatus(room, "ready")
               b == SetMode(a, "none")
    <3>1. r = SetReady(b, UnReady)
      BY DEF SetMode, SetStatus, SetReady
    <3>2. IsRoom(a) /\ a.status = "ready" /\ a.seat = room.seat
      BY <2>3, RoomSets
    <3> HIDE DEF a
    <3>3. IsRoom(b) /\ b.status = "ready" /\ b.seat = room.seat
      BY <3>2, RoomSets
    <3> HIDE DEF b
    <3> QED BY <2>3, <3>1, <3>3, RoomFields
  <2>5. n.name = "GAME_END" /\ n.kind = "ntf"
    BY NtfFields
  <2> HIDE DEF r, n
  <2>6. RoomOK(r)
    BY <2>3, <2>4 DEF RoomOK
  <2>7. ASSUME NEW v PROVE Tells(v, room, <<n>>, r)
    <3>1. ASSUME NEW w \in Views, Seated(room, v, w)
          PROVE  Hear(v, w, n) \in Views /\ Seated(r, v, Hear(v, w, n))
      <4> DEFINE x == SetReady(w, UnReady)
                 y == SetPlay(x, FALSE)
      <4>1. Hear(v, w, n) = y
        BY <2>5, HearsGameEnd
      <4>2. x \in Views /\ x.ready = UnReady /\ x.room = w.room /\ x.no = w.no /\ x.seat = w.seat
        BY <2>3, SetReadyFields
      <4> HIDE DEF x
      <4>3. /\ y \in Views /\ y.ready = UnReady /\ y.room = w.room /\ y.no = w.no
            /\ y.seat = w.seat /\ y.play = FALSE
        BY <4>2, SetPlayFields
      <4> HIDE DEF y
      <4> QED BY <2>4, <3>1, <4>1, <4>3 DEF Seated
    <3> QED BY <3>1, TellsOne
  <2> QED BY <1>1, <2>1, <2>2, <2>4, <2>6, <2>7, StayInv
<1> QED BY <1>2, <1>3

\* The fields of a view.
Holds(y, room_, no, seat, ready, play) ==
    /\ y \in Views /\ y.room = room_ /\ y.no = no /\ y.seat = seat
    /\ y.ready = ready /\ y.play = play

\* What a view becomes when somebody sits down,
LEMMA UpdateFields ==
  ASSUME NEW w \in Views, NEW u, NEW no \in Seats, NEW user \in Who
  PROVE  Holds(onRoomPlayerUpdate(w, u, no, user), w.room, IF user = u THEN no ELSE w.no,
               [w.seat EXCEPT ![no] = user], w.ready, w.play)
<1> DEFINE a == [w.seat EXCEPT ![no] = user]
           b == IF user = u THEN no ELSE w.no
           x == SetSeat(w, a)
           y == SetNo(x, b)
<1>1. a \in [Seats -> Who] /\ b \in Seats
  BY DEF Views
<1> HIDE DEF a, b
<1>2. /\ x \in Views /\ x.seat = a /\ x.no = w.no
      /\ x.room = w.room /\ x.ready = w.ready /\ x.play = w.play
  BY <1>1, SetSeatFields
<1> HIDE DEF x
<1>3. /\ y \in Views /\ y.no = b /\ y.seat = x.seat
      /\ y.room = x.room /\ y.ready = x.ready /\ y.play = x.play
  BY <1>1, <1>2, SetNoFields
<1>4. onRoomPlayerUpdate(w, u, no, user) = y
  BY UpdateForm DEF x, a, b
<1> HIDE DEF y
<1> QED BY <1>2, <1>3, <1>4 DEF Holds, a, b

\* gets up,
LEMMA LeaveFields ==
  ASSUME NEW w \in Views, NEW no \in Seats
  PROVE  Holds(onRoomPlayerLeave(w, no), w.room, w.no, [w.seat EXCEPT ![no] = Nobody],
               Without(w.ready, no), w.play)
<1> DEFINE a == [w.seat EXCEPT ![no] = Nobody]
           b == Without(w.ready, no)
           x == SetSeat(w, a)
           y == SetReady(x, b)
<1>1. a \in [Seats -> Who] /\ b \in [Seats -> BOOLEAN]
  BY DEF Views, Who, Without
<1> HIDE DEF a, b
<1>2. /\ x \in Views /\ x.seat = a /\ x.no = w.no
      /\ x.room = w.room /\ x.ready = w.ready /\ x.play = w.play
  BY <1>1, SetSeatFields
<1> HIDE DEF x
<1>3. /\ y \in Views /\ y.ready = b /\ y.seat = x.seat
      /\ y.room = x.room /\ y.no = x.no /\ y.play = x.play
  BY <1>1, <1>2, SetReadyFields
<1>4. onRoomPlayerLeave(w, no) = y
  BY LeaveForm DEF x, a, b
<1> HIDE DEF y
<1> QED BY <1>2, <1>3, <1>4 DEF Holds, a, b

\* and when its user is let in.
LEMMA EnterFields ==
  ASSUME NEW w \in Views, NEW u \in Users, NEW no \in Seats
  PROVE  Holds(Enter(w, u, no), TRUE, no, [Empty EXCEPT ![no] = u], UnReady, w.play)
<1> DEFINE a == SetSeat(w, Empty)
           b == SetReady(a, UnReady)
           x == SetRoom(b, TRUE)
           y == SetNo(x, no)
<1>1. Empty \in [Seats -> Who] /\ UnReady \in [Seats -> BOOLEAN] /\ u \in Who
  BY DEF Empty, UnReady, Who
<1>2. a \in Views /\ a.seat = Empty /\ a.play = w.play
  BY <1>1, SetSeatFields
<1>3. Enter(w, u, no) = onRoomPlayerUpdate(y, u, no, u)
  BY DEF Enter, resetAllPlayerHallInfo, SetNo, SetRoom, SetReady, SetSeat
<1> HIDE DEF a
<1>4. b \in Views /\ b.seat = Empty /\ b.ready = UnReady /\ b.play = w.play
  BY <1>1, <1>2, SetReadyFields
<1> HIDE DEF b
<1>5. x \in Views /\ x.seat = Empty /\ x.ready = UnReady /\ x.play = w.play /\ x.room = TRUE
  BY <1>4, SetRoomFields
<1> HIDE DEF x
<1>6. y \in Views /\ y.seat = Empty /\ y.ready = UnReady /\ y.play = w.play /\ y.room = TRUE
  BY <1>5, SetNoFields
<1> HIDE DEF y
<1>7. Holds(onRoomPlayerUpdate(y, u, no, u), y.room, IF u = u THEN no ELSE y.no,
            [y.seat EXCEPT ![no] = u], y.ready, y.play)
  BY <1>1, <1>6, UpdateFields
<1> QED BY <1>3, <1>6, <1>7

\* Two messages lead where the second is heard.
LEMMA LeadsTwo ==
  ASSUME NEW u, NEW w \in Views, NEW m, NEW n, Hear(u, w, m) \in Views,
         Hear(u, Hear(u, w, m), n) \in Views
  PROVE  Leads(u, w, <<m, n>>, Hear(u, Hear(u, w, m), n))
<1> DEFINE y == Hear(u, w, m)
<1>1. Leads(u, w, <<m>>, y)
  BY LeadsOne
<1>2. Leads(u, y, <<n>>, Hear(u, y, n))
  BY LeadsOne
<1> HIDE DEF y
<1>3. Leads(u, w, <<m>> \o <<n>>, Hear(u, y, n))
  BY <1>1, <1>2, LeadsOn
<1> QED BY <1>3, TwoMessages DEF y

\* CREATE_ROOM: the user sits in a room of its own.
LEMMA CreateRoomInv ==
  ASSUME IInv, NEW u \in Users, OnCreateRoom(u)
  PROVE  IInv'
<1>1. up[u] # <<>> /\ Request(u).name = "CREATE_ROOM" /\ Entering(up[u])
  BY DEF OnCreateRoom, Takes, Request, Entering, Entry
<1>2. CASE u \in SeatedIn(room)
  BY <1>1, <1>2, FailInv DEF OnCreateRoom
<1>3. CASE u \notin SeatedIn(room)
  <2> DEFINE r == [NoRoom EXCEPT !.status = "ready", !.seat[0] = u]
             m == Rsp(Request(u), TRUE, 0)
  <2>1. room.status = "none" /\ Done(u, r, <<m>>, <<>>)
    BY <1>3 DEF OnCreateRoom
  <2>2. RoomOK(room) /\ u # Nobody
    BY LobbyAssumption DEF IInv
  <2>3. /\ IsRoom(r) /\ r.seat = [Empty EXCEPT ![0] = u] /\ r.ready = UnReady
        /\ r.status = "ready"
    <3> DEFINE s == [Empty EXCEPT ![0] = u]
               a == SetStatus(NoRoom, "ready")
    <3>1. r = SetSeat(a, s)
      BY DEF SetSeat, SetStatus, NoRoom
    <3>2. Empty \in [Seats -> Who] /\ s \in [Seats -> Who] /\ UnReady \in [Seats -> BOOLEAN]
      BY DEF Empty, UnReady, Who
    <3>3. IsRoom(NoRoom) /\ NoRoom.ready = UnReady
      BY <3>2 DEF IsRoom, NoRoom
    <3>4. IsRoom(a) /\ a.status = "ready" /\ a.ready = UnReady
      BY <3>3, RoomSets
    <3>5. s \in [Seats -> Who]
      BY <3>2
    <3> HIDE DEF a, s
    <3>6. /\ IsRoom(SetSeat(a, s)) /\ SetSeat(a, s).seat = s
          /\ SetSeat(a, s).status = "ready" /\ SetSeat(a, s).ready = UnReady
      BY <3>4, <3>5, RoomFields
    <3> QED BY <3>1, <3>6 DEF s
  <2>4. m.name = "CREATE_ROOM" /\ m.kind = "rsp" /\ m.ok /\ m.no = 0
    BY <1>1 DEF Rsp
  <2> HIDE DEF r, m
  <2>5. r.seat[0] = u /\ r.seat[1] = Nobody
    BY <2>3 DEF Empty, Seats
  <2>6. RoomOK(r)
    BY <2>2, <2>3, <2>5 DEF RoomOK
  <2>7. SeatedIn(r) = {u} /\ SeatedIn(room) = {}
    BY <2>1, <2>2, <2>5 DEF SeatedIn, RoomOK, Empty, Seats
  <2>8. Carries(u, room, up[u], <<m>>, r, Tail(up[u]))
    <3> SUFFICES ASSUME NEW w \in Views, Agrees(room, up[u], u, w)
                 PROVE  \E x \in Views : Leads(u, w, <<m>>, x) /\ Seated(r, u, x)
      BY <2>7 DEF Carries, Agrees
    <3> DEFINE x == Enter(w, u, 0)
    <3>1. Hear(u, w, m) = x
      BY <2>4 DEF Hear, HearRsp
    <3>2. 0 \in Seats
      BY DEF Seats
    <3>3. Holds(x, TRUE, 0, [Empty EXCEPT ![0] = u], UnReady, w.play)
      BY <3>2, EnterFields
    <3> HIDE DEF x
    <3>4. x.seat = r.seat /\ x.ready = r.ready
      BY <2>3, <3>3 DEF Holds
    <3>5. Patient => ~w.play
      BY <1>1, <2>7 DEF Agrees
    <3>6. Seated(r, u, x)
      BY <2>3, <2>5, <3>4, <3>5, <3>3 DEF Seated, Holds
    <3> QED BY <3>1, <3>6, <3>3, LeadsOne DEF Holds
  <2> QED BY <1>1, <2>1, <2>6, <2>7, <2>8, DoneInv
<1> QED BY <1>2, <1>3

\* JOIN_ROOM: the user sits down, and is told who is there.
LEMMA JoinRoomInv ==
  ASSUME IInv, NEW u \in Users, OnJoinRoom(u)
  PROVE  IInv'
<1> DEFINE o == room.seat[0]
<1>1. up[u] # <<>> /\ Request(u).name = "JOIN_ROOM" /\ Entering(up[u])
  BY DEF OnJoinRoom, Takes, Request, Entering, Entry
<1>2. CASE u \in SeatedIn(room) \/ o = Nobody \/ room.seat[1] # Nobody
  BY <1>1, <1>2, FailInv DEF OnJoinRoom
<1>3. CASE u \notin SeatedIn(room) /\ o # Nobody /\ room.seat[1] = Nobody
  <2> DEFINE s == [room.seat EXCEPT ![1] = u]
             r == [room EXCEPT !.seat[1] = u]
             m == Rsp(Request(u), TRUE, 1)
             n == NtfUser("PLAYER_INFO", 0, o)
             k == NtfUser("JOIN_ROOM", 1, u)
  <2>1. Done(u, r, <<m, n>>, <<k>>)
    BY <1>3 DEF OnJoinRoom
  <2>2. RoomOK(room) /\ IsRoom(room) /\ u # Nobody /\ u \in Who /\ {0, 1} \subseteq Seats
    BY LobbyAssumption DEF IInv, RoomOK, Who, Seats
  <2>3. /\ IsRoom(r) /\ r.seat = s /\ r.ready = room.ready /\ r.status = room.status
    <3>1. r = SetSeat(room, s) /\ s \in [Seats -> Who]
      BY <2>2 DEF SetSeat, IsRoom
    <3> HIDE DEF s, r
    <3> QED BY <2>2, <3>1, RoomFields
  <2>4. m.name = "JOIN_ROOM" /\ m.kind = "rsp" /\ m.ok /\ m.no = 1
    BY <1>1 DEF Rsp
  <2>5. /\ n.name = "PLAYER_INFO" /\ n.kind = "ntf" /\ n.no = 0 /\ n.user = o
        /\ k.name = "JOIN_ROOM" /\ k.kind = "ntf" /\ k.no = 1 /\ k.user = u
    BY NtfFields
  <2>6. /\ s[0] = o /\ s[1] = u /\ o # u /\ o \in Who /\ s = [Empty EXCEPT ![1] = u, ![0] = o]
        /\ s \in [Seats -> Who]
    BY <1>3, <2>2 DEF SeatedIn, IsRoom, Seats, Empty
  <2>7. room.ready = UnReady /\ room.status \notin {"none", "start", "game"}
    BY <1>3, <2>2 DEF RoomOK, Empty, Seats
  <2> HIDE DEF r, m, n, k, s, o
  <2>8. RoomOK(r)
    BY <2>2, <2>3, <2>6, <2>7 DEF RoomOK
  <2>9. /\ u \in SeatedIn(r)
        /\ \A v \in Users \ {u} : v \in SeatedIn(r) <=> v = o
        /\ \A v \in Users \ {u} : v \in SeatedIn(room) <=> v = o
    BY <1>3, <2>2, <2>3, <2>6, LobbyAssumption DEF SeatedIn, Seats, o
  <2>10. Carries(u, room, up[u], <<m, n>>, r, Tail(up[u]))
    <3> SUFFICES ASSUME NEW w \in Views, Agrees(room, up[u], u, w)
                 PROVE  \E x \in Views : Leads(u, w, <<m, n>>, x) /\ Seated(r, u, x)
      BY <2>9 DEF Carries, Agrees
    <3> DEFINE y == Enter(w, u, 1)
               x == onRoomPlayerUpdate(y, u, 0, o)
    <3>1. Hear(u, w, m) = y
      BY <2>4 DEF Hear, HearRsp
    <3>2. Holds(y, TRUE, 1, [Empty EXCEPT ![1] = u], UnReady, w.play)
      BY <2>2, EnterFields
    <3>3. Hear(u, y, n) = x
      BY <2>5 DEF Hear, HearNtf
    <3> HIDE DEF y
    <3>4. Holds(x, y.room, IF o = u THEN 0 ELSE y.no, [y.seat EXCEPT ![0] = o], y.ready, y.play)
      <4>1. y \in Views /\ 0 \in Seats /\ o \in Who
        BY <2>2, <2>6, <3>2 DEF Holds
      <4> QED BY <4>1, UpdateFields
    <3> HIDE DEF x
    <3>5. x.seat = s
      BY <2>6, <3>2, <3>4 DEF Holds
    <3>6. Patient => ~w.play
      BY <1>1, <1>3 DEF Agrees
    <3>7. Seated(r, u, x)
      BY <2>3, <2>6, <2>7, <3>2, <3>4, <3>5, <3>6 DEF Seated, Holds
    <3>8. Leads(u, w, <<m, n>>, x)
      BY <3>1, <3>2, <3>3, <3>4, LeadsTwo DEF Holds
    <3> QED BY <3>4, <3>7, <3>8 DEF Holds
  <2>11. ASSUME NEW v \in Users \ {u}, v \in SeatedIn(r) PROVE Tells(v, room, <<k>>, r)
    <3>1. ASSUME NEW w \in Views, Seated(room, v, w)
          PROVE  Hear(v, w, k) \in Views /\ Seated(r, v, Hear(v, w, k))
      <4> DEFINE x == onRoomPlayerUpdate(w, v, 1, u)
      <4>1. Hear(v, w, k) = x
        BY <2>5 DEF Hear, HearNtf
      <4>2. Holds(x, w.room, IF u = v THEN 1 ELSE w.no, [w.seat EXCEPT ![1] = u], w.ready, w.play)
        BY <2>2, UpdateFields
      <4> HIDE DEF x
      <4>3. w.no = 0
        BY <1>3, <2>9, <2>11, <3>1, LobbyAssumption DEF Seated, Views, Seats
      <4>4. x.seat = s
        BY <3>1, <4>2 DEF Holds, Seated, s
      <4>5. v = o
        BY <2>9, <2>11
      <4>6. Seated(r, v, x)
        BY <2>3, <2>6, <2>7, <2>11, <3>1, <4>2, <4>3, <4>4, <4>5 DEF Seated, Holds
      <4> QED BY <4>1, <4>2, <4>6 DEF Holds
    <3> QED BY <3>1, TellsOne
  <2> QED BY <1>1, <2>1, <2>8, <2>9, <2>10, <2>11, DoneInv
<1> QED BY <1>2, <1>3

\* What is heard of the one who leaves, by itself,
LEMMA HearsLeft ==
  ASSUME NEW u, NEW w \in Views, NEW m, m.name = "LEAVE_ROOM", m.kind = "rsp", m.ok, m.no \in Seats
  PROVE  Hear(u, w, m) \in Views /\ Hear(u, w, m).room = FALSE
<1> DEFINE x == SetRoom(w, FALSE)
           y == Leave(w, m.no)
           p == y.play /\ m.from # "the game"
<1>1. x \in Views /\ x.room = FALSE
  BY SetRoomFields
<1>2. y = onRoomPlayerLeave(x, m.no)
  BY DEF Leave, SetRoom
<1>3. Hear(u, w, m) = [y EXCEPT !.play = @ /\ m.from # "the game"]
  BY DEF Hear, HearRsp
<1> HIDE DEF x, y
<1>4. Holds(y, x.room, x.no, [x.seat EXCEPT ![m.no] = Nobody], Without(x.ready, m.no), x.play)
  BY <1>1, <1>2, LeaveFields
<1>5. y \in Views /\ y.room = FALSE
  BY <1>1, <1>4 DEF Holds
<1>6. [y EXCEPT !.play = @ /\ m.from # "the game"] = SetPlay(y, p)
  BY <1>5 DEF SetPlay, Views
<1>7. p \in BOOLEAN
  OBVIOUS
<1> HIDE DEF p
<1>8. SetPlay(y, p) \in Views /\ SetPlay(y, p).room = y.room
  BY <1>5, <1>7, SetPlayFields
<1> QED BY <1>3, <1>5, <1>6, <1>8

\* and by who stays.
LEMMA HearsLeave ==
  ASSUME NEW u, NEW w \in Views, NEW m, m.name = "LEAVE_ROOM", m.kind = "ntf", m.no \in Seats
  PROVE  Holds(Hear(u, w, m), w.room, w.no, [w.seat EXCEPT ![m.no] = Nobody],
               Without(w.ready, m.no), FALSE)
<1> DEFINE y == onRoomPlayerLeave(w, m.no)
           x == SetPlay(y, FALSE)
<1>1. Holds(y, w.room, w.no, [w.seat EXCEPT ![m.no] = Nobody], Without(w.ready, m.no), w.play)
  BY LeaveFields
<1>2. Hear(u, w, m) = x
  BY DEF Hear, HearNtf, SetPlay
<1> HIDE DEF y
<1>3. y \in Views
  BY <1>1 DEF Holds
<1>4. /\ x \in Views /\ x.play = FALSE
      /\ x.room = y.room /\ x.no = y.no /\ x.seat = y.seat /\ x.ready = y.ready
  BY <1>3, SetPlayFields
<1> HIDE DEF x
<1> QED BY <1>1, <1>2, <1>4 DEF Holds

\* Nobody is ready without the guest and the host.
LEMMA WithoutGuest ==
  ASSUME NEW ready \in [Seats -> BOOLEAN]
  PROVE  Without(ready, 1) = UnReady
<1> DEFINE g == [ready EXCEPT ![1] = FALSE]
           h == [g EXCEPT ![0] = FALSE]
<1>1. g \in [Seats -> BOOLEAN] /\ 0 \in Seats /\ 1 \in Seats /\ \A i \in Seats : i = 0 \/ i = 1
  BY DEF Seats
<1>2. g[1] = FALSE
  BY <1>1
<1> HIDE DEF g
<1>3. h \in [Seats -> BOOLEAN] /\ h[0] = FALSE /\ h[1] = g[1]
  BY <1>1
<1> HIDE DEF h
<1>4. \A i \in Seats : h[i] = FALSE
  BY <1>1, <1>2, <1>3
<1>5. h = [i \in Seats |-> FALSE]
  BY <1>3, <1>4
<1> QED BY <1>5 DEF Without, UnReady, g, h

\* Who is host now: it moves to seat 0.
LEMMA HearsHost ==
  ASSUME NEW u \in Users, NEW w \in Views, NEW m, m.name = "HOST_CHANGE", m.kind = "ntf",
         m.no = 1, m.user = u, w.seat[0] = Nobody
  PROVE  Holds(Hear(u, w, m), w.room, 0, [Empty EXCEPT ![0] = u], UnReady, w.play)
<1> DEFINE x == onRoomPlayerLeave(w, 1)
           y == onRoomPlayerUpdate(x, u, 0, u)
           f == [y.ready EXCEPT ![0] = FALSE]
           z == SetReady(y, f)
<1>1. u \in Who /\ {0, 1} \subseteq Seats
  BY DEF Who, Seats
<1>2. Holds(x, w.room, w.no, [w.seat EXCEPT ![1] = Nobody], Without(w.ready, 1), w.play)
  BY <1>1, LeaveFields
<1>3. Hear(u, w, m) = z
  BY DEF Hear, HearNtf, onNtfRoomHostChanged, SetReady
<1> HIDE DEF x
<1>4. x \in Views
  BY <1>2 DEF Holds
<1>5. Holds(y, x.room, IF u = u THEN 0 ELSE x.no, [x.seat EXCEPT ![0] = u], x.ready, x.play)
  BY <1>1, <1>4, UpdateFields
<1> HIDE DEF y
<1>6. y \in Views
  BY <1>5 DEF Holds
<1>7. y.ready = Without(w.ready, 1) /\ y.seat = [[w.seat EXCEPT ![1] = Nobody] EXCEPT ![0] = u]
  BY <1>2, <1>5 DEF Holds
<1>8. f = UnReady /\ y.seat = [Empty EXCEPT ![0] = u]
  <2>1. w.ready \in [Seats -> BOOLEAN] /\ w.seat \in [Seats -> Who]
    BY DEF Views
  <2>2. y.seat = [Empty EXCEPT ![0] = u]
    BY <1>7, <2>1 DEF Empty, Seats
  <2>3. Without(w.ready, 1) = UnReady
    BY <2>1, WithoutGuest
  <2>4. f = UnReady
    BY <1>7, <2>3 DEF UnReady, Seats
  <2> QED BY <2>2, <2>4
<1>9. UnReady \in [Seats -> BOOLEAN]
  BY DEF UnReady
<1> HIDE DEF f
<1>10. /\ z \in Views /\ z.ready = UnReady
       /\ z.room = y.room /\ z.no = y.no /\ z.seat = y.seat /\ z.play = y.play
  BY <1>6, <1>8, <1>9, SetReadyFields
<1> HIDE DEF z
<1> QED BY <1>2, <1>3, <1>5, <1>8, <1>10 DEF Holds

\* Who leaves the room.
LEMMA LeftCarries ==
  ASSUME NEW u, NEW r0, NEW q0, NEW r, NEW q, NEW m, u \notin SeatedIn(r),
         Patient => ~Entering(q), m.name = "LEAVE_ROOM", m.kind = "rsp", m.ok, m.no \in Seats
  PROVE  /\ Carries(u, r0, q0, <<m>>, r, q)
         /\ <<m>> # <<>> /\ Behind(<<m>>)
<1>1. Behind(<<m>>) /\ <<m>> # <<>>
  BY DEF Behind
<1>2. ASSUME NEW w \in Views
      PROVE  \E x \in Views : Leads(u, w, <<m>>, x) /\ Agrees(r, q, u, x)
  <2> DEFINE x == Hear(u, w, m)
  <2>1. x \in Views /\ x.room = FALSE
    BY HearsLeft
  <2>2. Leads(u, w, <<m>>, x)
    BY <2>1, LeadsOne
  <2> HIDE DEF x
  <2>3. Agrees(r, q, u, x)
    BY <2>1 DEF Agrees
  <2> QED BY <2>1, <2>2, <2>3
<1> QED BY <1>1, <1>2 DEF Carries

\* The room that is left.
LEMMA OpenRoom ==
  ASSUME NEW r0, IsRoom(r0), NEW s \in [Seats -> Who]
  PROVE  LET r == SetReady(SetSeat(SetMode(SetStatus(r0, "ready"), "none"), s), UnReady)
         IN  IsRoom(r) /\ r.seat = s /\ r.ready = UnReady /\ r.status = "ready"
<1> DEFINE a == SetStatus(r0, "ready")
           b == SetMode(a, "none")
           d == SetSeat(b, s)
           r == SetReady(d, UnReady)
<1>1. IsRoom(a) /\ a.status = "ready"
  BY RoomSets
<1> HIDE DEF a
<1>2. IsRoom(b) /\ b.status = "ready"
  BY <1>1, RoomSets
<1> HIDE DEF b
<1>3. IsRoom(d) /\ d.status = "ready" /\ d.seat = s
  BY <1>2, RoomFields
<1> HIDE DEF d
<1>4. UnReady \in [Seats -> BOOLEAN]
  BY DEF UnReady
<1>5. IsRoom(r) /\ r.seat = s /\ r.ready = UnReady /\ r.status = "ready"
  BY <1>3, <1>4, RoomFields
<1> QED BY <1>5 DEF r, d, b, a

\* The guest leaves.
LEMMA GuestLeaves ==
  ASSUME IInv, NEW u \in Users, up[u] # <<>>, Request(u).name = "LEAVE_ROOM", Sits(u),
         LeaveRoom(u, 1), Request(u).no = 1
  PROVE  IInv'
<1> DEFINE s == [room.seat EXCEPT ![1] = Nobody]
           open == [room EXCEPT !.status = "ready", !.mode = "none"]
           r == [open EXCEPT !.seat[1] = Nobody, !.ready = UnReady]
           m == Rsp(Request(u), TRUE, 1)
           n == Ntf("LEAVE_ROOM", 1)
<1>1. Done(u, r, <<m>>, <<n>>)
  BY DEF LeaveRoom
<1>2. RoomOK(room) /\ IsRoom(room) /\ {0, 1} \subseteq Seats /\ room.seat[1] = u /\ u # Nobody
  BY SitsFacts DEF IInv, RoomOK, Seats
<1>3. s \in [Seats -> Who] /\ s[0] = room.seat[0] /\ s[1] = Nobody /\ s[0] # u
  BY <1>2 DEF IsRoom, RoomOK, Who, Seats
<1>4. IsRoom(r) /\ r.seat = s /\ r.ready = UnReady /\ r.status = "ready"
  <2>1. r = SetReady(SetSeat(SetMode(SetStatus(room, "ready"), "none"), s), UnReady)
    <3>1. open = SetMode(SetStatus(room, "ready"), "none")
      BY DEF SetMode, SetStatus
    <3>2. open.seat = room.seat
      BY <1>2, <3>1, RoomSets
    <3> HIDE DEF open
    <3> QED BY <3>1, <3>2 DEF SetReady, SetSeat
  <2> HIDE DEF s, r
  <2> QED BY <1>2, <1>3, <2>1, OpenRoom
<1>5. m.name = "LEAVE_ROOM" /\ m.kind = "rsp" /\ m.ok /\ m.no = 1
  BY DEF Rsp
<1>6. n.name = "LEAVE_ROOM" /\ n.kind = "ntf" /\ n.no = 1
  BY NtfFields
<1> HIDE DEF r, m, n, s, open
<1>7. RoomOK(r)
  BY <1>3, <1>4 DEF RoomOK
<1>8. /\ u \notin SeatedIn(r)
      /\ \A v \in Users \ {u} : v \in SeatedIn(r) <=> v = s[0]
      /\ \A v \in Users \ {u} : v \in SeatedIn(room) <=> v = s[0]
  BY <1>2, <1>3, <1>4, LobbyAssumption DEF SeatedIn, Seats
<1>9. Patient => ~Entering(Tail(up[u]))
  BY TailOK DEF IInv, UserOK
<1>10. Carries(u, room, up[u], <<m>>, r, Tail(up[u])) /\ <<m>> # <<>> /\ Behind(<<m>>)
  BY <1>2, <1>5, <1>8, <1>9, LeftCarries
<1>11. ASSUME NEW v \in Users \ {u}, v \in SeatedIn(r) PROVE Tells(v, room, <<n>>, r)
  <2>1. ASSUME NEW w \in Views, Seated(room, v, w)
        PROVE  Hear(v, w, n) \in Views /\ Seated(r, v, Hear(v, w, n))
    <3> DEFINE x == Hear(v, w, n)
    <3>1. Holds(x, w.room, w.no, [w.seat EXCEPT ![1] = Nobody], Without(w.ready, 1), FALSE)
      BY <1>2, <1>6, HearsLeave
    <3>2. Without(w.ready, 1) = UnReady
      BY WithoutGuest DEF Views
    <3>3. w.no = 0
      BY <1>2, <2>1 DEF Seated, Views, Seats
    <3>4. x.seat = s
      BY <2>1, <3>1 DEF Holds, Seated, s
    <3>5. v = s[0]
      BY <1>8, <1>11
    <3> HIDE DEF x
    <3>6. Seated(r, v, x)
      BY <1>4, <2>1, <3>1, <3>2, <3>3, <3>4, <3>5 DEF Seated, Holds
    <3> QED BY <3>1, <3>6 DEF Holds, x
  <2> QED BY <2>1, TellsOne
<1> QED BY <1>1, <1>7, <1>8, <1>10, <1>11, DoneInv

\* No room is no one's.
LEMMA NoRoomOK == RoomOK(NoRoom) /\ SeatedIn(NoRoom) = {}
<1>1. Empty \in [Seats -> Who] /\ UnReady \in [Seats -> BOOLEAN] /\ Empty[0] = Nobody
  BY DEF Empty, UnReady, Who, Seats
<1>2. RoomOK(NoRoom)
  BY <1>1 DEF NoRoom, RoomOK, IsRoom
<1>3. SeatedIn(NoRoom) = {}
  BY DEF SeatedIn, NoRoom, Empty
<1> QED BY <1>2, <1>3

\* The host leaves.
LEMMA HostLeaves ==
  ASSUME IInv, NEW u \in Users, up[u] # <<>>, Request(u).name = "LEAVE_ROOM", Sits(u),
         LeaveRoom(u, 0), Request(u).no = 0
  PROVE  IInv'
<1> DEFINE o == room.seat[1]
           m == Rsp(Request(u), TRUE, 0)
<1>1. RoomOK(room) /\ IsRoom(room) /\ {0, 1} \subseteq Seats /\ room.seat[0] = u /\ u # Nobody
  BY SitsFacts DEF IInv, RoomOK, Seats
<1>2. m.name = "LEAVE_ROOM" /\ m.kind = "rsp" /\ m.ok /\ m.no = 0
  BY DEF Rsp
<1>3. Patient => ~Entering(Tail(up[u]))
  BY TailOK DEF IInv, UserOK
<1>4. o \in Who /\ o # u
  BY <1>1 DEF IsRoom, RoomOK
<1>5. CASE o = Nobody
  <2>1. Done(u, NoRoom, <<m>>, <<>>)
    BY <1>5 DEF LeaveRoom
  <2>2. RoomOK(NoRoom) /\ SeatedIn(NoRoom) = {}
    BY NoRoomOK
  <2>4. \A v \in Users \ {u} : v \notin SeatedIn(room)
    BY <1>1, <1>5, LobbyAssumption DEF SeatedIn, Seats
  <2> HIDE DEF m, o
  <2>5. Carries(u, room, up[u], <<m>>, NoRoom, Tail(up[u])) /\ <<m>> # <<>> /\ Behind(<<m>>)
    BY <1>1, <1>2, <1>3, <2>2, LeftCarries
  <2> QED BY <2>1, <2>2, <2>4, <2>5, DoneInv
<1>6. CASE o # Nobody
  <2> DEFINE s == [Empty EXCEPT ![0] = o]
             open == [room EXCEPT !.status = "ready", !.mode = "none"]
             r == [open EXCEPT !.seat = s, !.ready = UnReady]
             n == Ntf("LEAVE_ROOM", 0)
             k == NtfUser("HOST_CHANGE", 1, o)
  <2>1. Done(u, r, <<m>>, <<n, k>>)
    BY <1>6 DEF LeaveRoom
  <2>2. s \in [Seats -> Who] /\ s[0] = o /\ s[1] = Nobody
    BY <1>4 DEF Empty, Who, Seats
  <2>3. IsRoom(r) /\ r.seat = s /\ r.ready = UnReady /\ r.status = "ready"
    <3>1. r = SetReady(SetSeat(SetMode(SetStatus(room, "ready"), "none"), s), UnReady)
      BY DEF SetReady, SetSeat, SetMode, SetStatus
    <3> HIDE DEF s, r
    <3> QED BY <1>1, <2>2, <3>1, OpenRoom
  <2>4. /\ n.name = "LEAVE_ROOM" /\ n.kind = "ntf" /\ n.no = 0
        /\ k.name = "HOST_CHANGE" /\ k.kind = "ntf" /\ k.no = 1 /\ k.user = o
    <3> HIDE DEF o
    <3>1. n.name = "LEAVE_ROOM" /\ n.kind = "ntf" /\ n.no = 0
      BY NtfFields
    <3>2. k.name = "HOST_CHANGE" /\ k.kind = "ntf" /\ k.no = 1 /\ k.user = o
      BY NtfFields
    <3> QED BY <3>1, <3>2
  <2> HIDE DEF r, m, n, k, s, o, open
  <2>5. RoomOK(r)
    BY <1>6, <2>2, <2>3 DEF RoomOK
  <2>6. /\ u \notin SeatedIn(r)
        /\ \A v \in Users \ {u} : v \in SeatedIn(r) <=> v = o
        /\ \A v \in Users \ {u} : v \in SeatedIn(room) <=> v = o
    BY <1>1, <1>4, <2>2, <2>3, LobbyAssumption DEF SeatedIn, Seats, o
  <2>7. Carries(u, room, up[u], <<m>>, r, Tail(up[u])) /\ <<m>> # <<>> /\ Behind(<<m>>)
    BY <1>1, <1>2, <1>3, <2>6, LeftCarries
  <2>8. ASSUME NEW v \in Users \ {u}, v \in SeatedIn(r) PROVE Tells(v, room, <<n, k>>, r)
    <3> SUFFICES ASSUME NEW w \in Views, Seated(room, v, w)
                 PROVE  \E x \in Views : Leads(v, w, <<n, k>>, x) /\ Seated(r, v, x)
      BY DEF Tells
    <3> DEFINE y == Hear(v, w, n)
               x == Hear(v, y, k)
    <3>1. Holds(y, w.room, w.no, [w.seat EXCEPT ![0] = Nobody], Without(w.ready, 0), FALSE)
      BY <1>1, <2>4, HearsLeave
    <3>2. v = o
      BY <2>6, <2>8
    <3> HIDE DEF y
    <3>3. y \in Views /\ y.seat[0] = Nobody
      BY <1>1, <3>1 DEF Holds, Views
    <3>4. Holds(x, y.room, 0, [Empty EXCEPT ![0] = v], UnReady, y.play)
      BY <2>4, <3>2, <3>3, HearsHost
    <3>5. Leads(v, w, <<n, k>>, x)
      BY <3>3, <3>4, LeadsTwo DEF Holds, y
    <3> HIDE DEF x
    <3>6. [Empty EXCEPT ![0] = v] = s
      BY <3>2 DEF s
    <3>7. Seated(r, v, x)
      BY <2>2, <2>3, <3>1, <3>2, <3>4, <3>6 DEF Seated, Holds
    <3> QED BY <3>4, <3>5, <3>7 DEF Holds
  <2> QED BY <2>1, <2>5, <2>6, <2>7, <2>8, DoneInv
<1> QED BY <1>5, <1>6

\* LEAVE_ROOM.
LEMMA LeaveRoomInv ==
  ASSUME IInv, NEW u \in Users, OnLeaveRoom(u)
  PROVE  IInv'
<1>1. up[u] # <<>> /\ Request(u).name = "LEAVE_ROOM"
  BY DEF OnLeaveRoom, Takes, Request
<1>2. CASE ~Sits(u)
  BY <1>1, <1>2, FailInv DEF OnLeaveRoom
<1>3. CASE Sits(u)
  <2>1. Request(u).no \in Seats
    BY <1>1, <1>3, SitsFacts
  <2>2. LeaveRoom(u, Request(u).no)
    BY <1>3 DEF OnLeaveRoom
  <2> QED BY <1>1, <1>3, <2>1, <2>2, GuestLeaves, HostLeaves DEF Seats
<1> QED BY <1>2, <1>3

\* Any request.
LEMMA RequestInv ==
  ASSUME IInv, NEW u \in Users, OnRequest(u)
  PROVE  IInv'
  BY CreateRoomInv, JoinRoomInv, LeaveRoomInv, ReadyInv, StartInv, MenuSwitchInv, MenuChooseInv,
     MenuBackInv, EditFinishedInv, GameEndInv DEF OnRequest

------------------------------------------------------------------------------
(* The keys and what the clients receive. *)

\* A queue with one request more.
LEMMA AppendOK ==
  ASSUME NEW q, QueueOK(q), NEW m, m.no \in Seats, Patient /\ m.name \in Entry => q = <<>>
  PROVE  /\ QueueOK(Append(q, m))
         /\ q # <<>> => (Entering(Append(q, m)) <=> Entering(q))
         /\ Entering(Append(q, m)) => q # <<>> \/ m.name \in Entry
<1>1. PICK S : q \in Seq(S)
  BY DEF QueueOK, IsSeq
<1> DEFINE s == Append(q, m)
           n == Len(q)
<1>2. q \in Seq(S \cup {m}) /\ m \in S \cup {m} /\ n \in Nat
  BY <1>1
<1>3. /\ s \in Seq(S \cup {m}) /\ Len(s) = n + 1 /\ s[n + 1] = m
      /\ \A i \in 1..n : s[i] = q[i]
  <2>1. q \in Seq(S \cup {m}) /\ m \in S \cup {m}
    BY <1>2
  <2> HIDE DEF n
  <2>2. s \in Seq(S \cup {m}) /\ Len(s) = Len(q) + 1 /\ s[Len(q) + 1] = m
    BY <2>1, AppendProperties
  <2>3. \A i \in 1..Len(q) : s[i] = q[i]
    BY <2>1, AppendProperties
  <2> QED BY <2>2, <2>3 DEF n
<1>4. s # <<>> /\ Head(s) = s[1]
  <2>1. s \in Seq(S \cup {m}) /\ Len(s) >= 1
    BY <1>2, <1>3
  <2> HIDE DEF s
  <2> QED BY <2>1
<1>5. \A i \in 1..n : q[i].no \in Seats
  BY DEF QueueOK
<1> HIDE DEF s
<1>6. \A i \in 1..Len(s) : s[i].no \in Seats
  BY <1>2, <1>3, <1>5
<1>7. ASSUME Patient, NEW i \in 2..Len(s) PROVE s[i].name \notin Entry
  <2>1. CASE i = n + 1
    <3>1. q # <<>>
      BY <1>2, <1>3, <1>7, <2>1
    <3> QED BY <1>3, <1>7, <2>1, <3>1
  <2>2. CASE i # n + 1
    <3>1. i \in 2..n /\ i \in 1..n
      BY <1>2, <1>3, <2>2
    <3> QED BY <1>3, <1>7, <3>1 DEF QueueOK
  <2> QED BY <2>1, <2>2
<1>8. QueueOK(s)
  BY <1>3, <1>6, <1>7 DEF QueueOK, IsSeq
<1>9. ASSUME q # <<>> PROVE Entering(s) <=> Entering(q)
  <2>1. Head(q) = q[1] /\ 1 \in 1..n
    BY <1>1, <1>9
  <2> QED BY <1>3, <1>4, <1>9, <2>1 DEF Entering
<1>10. ASSUME q = <<>> PROVE Entering(s) => m.name \in Entry
  <2>1. n = 0
    BY <1>10
  <2> QED BY <1>3, <1>4, <2>1 DEF Entering
<1> QED BY <1>8, <1>9, <1>10 DEF s

\* Who has nothing under way has an empty queue, and no answer is coming.
LEMMA NothingPending ==
  ASSUME NEW u, IsSeq(up[u]), IsSeq(down[u]), Pending(u) = 0
  PROVE  up[u] = <<>> /\ (Behind(down[u]) => down[u] = <<>>)
<1> DEFINE R == {i \in DOMAIN down[u] : down[u][i].kind = "rsp"}
           n == Len(down[u])
<1>1. Len(up[u]) \in Nat /\ n \in Nat /\ DOMAIN down[u] = 1..n
  BY DEF IsSeq
<1>2. IsFiniteSet(1..n)
  BY <1>1, FS_Interval
<1>3. IsFiniteSet(R) /\ Cardinality(R) \in Nat
  <2>1. R \subseteq 1..n
    BY <1>1
  <2> HIDE DEF R
  <2>2. IsFiniteSet(R)
    BY <1>2, <2>1, FS_Subset
  <2> QED BY <2>2, FS_CardinalityType
<1>4. Len(up[u]) + Cardinality(R) = 0
  BY DEF Pending
<1> HIDE DEF R
<1>5. Len(up[u]) = 0 /\ Cardinality(R) = 0
  BY <1>1, <1>3, <1>4
<1>6. R = {}
  BY <1>3, <1>5, FS_EmptySet
<1>7. up[u] = <<>>
  BY <1>5 DEF IsSeq
<1>8. ASSUME Behind(down[u]), down[u] # <<>> PROVE FALSE
  <2>1. n >= 1
    BY <1>1, <1>8 DEF IsSeq
  <2>2. n \in DOMAIN down[u] /\ down[u][n].kind = "rsp"
    BY <1>1, <1>8, <2>1 DEF Behind
  <2>3. n \in R
    BY <2>2 DEF R
  <2> QED BY <1>6, <2>3
<1> QED BY <1>7, <1>8

\* The view of a client that follows the invariant.
LEMMA ClientView ==
  ASSUME IInv, NEW u \in Users
  PROVE  /\ View(client[u]) \in Views /\ Is(client[u], View(client[u]))
         /\ IsSeq(up[u]) /\ IsSeq(down[u])
<1>1. UserOK(room, client[u], up[u], down[u], u)
  BY DEF IInv
<1>2. PICK w \in Views : Leads(u, View(client[u]), down[u], w)
  BY <1>1 DEF UserOK
<1>3. IsSeq(down[u])
  BY <1>2 DEF Leads
<1>4. PICK f : f[0] = View(client[u]) /\ Steps(u, down[u], f)
  BY <1>2 DEF Leads
<1>5. 0 \in 0..Len(down[u])
  BY <1>3 DEF IsSeq
<1>6. f[0] \in Views
  BY <1>4, <1>5 DEF Steps
<1> QED BY <1>1, <1>3, <1>4, <1>6 DEF UserOK, QueueOK, Is

\* A request is sent; a patient user asks to enter a room in the menu, with nothing under way.
LEMMA SendInv ==
  ASSUME IInv, NEW u \in Users, NEW name, NEW item, NEW from, SendItem(u, name, item, from),
         Patient /\ name \in Entry => Pending(u) = 0 /\ client[u].scene = "menu"
  PROVE  IInv'
<1> DEFINE m == [name |-> name, room |-> client[u].room, no |-> client[u].no,
                 from |-> from, item |-> item]
           q == up[u]
<1>1. /\ up' = [up EXCEPT ![u] = Append(q, m)]
      /\ room' = room /\ client' = client /\ down' = down
  BY DEF SendItem
<1>2. m.name = name /\ m.no = client[u].no
  OBVIOUS
<1>3. client[u].no \in Seats
  BY ClientView DEF View, Views
<1> HIDE DEF m
<1>4. UserOK(room, client[u], q, down[u], u) /\ QueueOK(q)
  BY DEF IInv, UserOK
<1>5. Patient /\ name \in Entry => q = <<>> /\ (Behind(down[u]) => down[u] = <<>>)
  BY ClientView, NothingPending
<1>6. /\ QueueOK(Append(q, m))
      /\ q # <<>> => (Entering(Append(q, m)) <=> Entering(q))
      /\ Entering(Append(q, m)) => q # <<>> \/ name \in Entry
  BY <1>2, <1>3, <1>4, <1>5, AppendOK
<1> HIDE DEF q
<1>7. PICK w \in Views : Leads(u, View(client[u]), down[u], w) /\ Agrees(room, q, u, w)
  BY <1>4 DEF UserOK
<1>8. Agrees(room, Append(q, m), u, w)
  <2>1. CASE u \in SeatedIn(room)
    BY <1>7, <2>1 DEF Agrees
  <2>2. CASE u \notin SeatedIn(room)
    <3>1. ~w.room /\ (Patient /\ Entering(q) => ~w.play)
      BY <1>7, <2>2 DEF Agrees
    <3>2. ASSUME Patient, Entering(Append(q, m)) PROVE ~w.play
      <4>1. CASE q # <<>>
        BY <1>6, <3>1, <3>2, <4>1
      <4>2. CASE q = <<>>
        <5>1. name \in Entry /\ client[u].scene = "menu"
          BY <1>6, <3>2, <4>2
        <5>2. down[u] = <<>>
          BY <1>4, <1>5, <2>2, <3>2, <5>1 DEF UserOK
        <5>3. w = View(client[u])
          <6>1. Leads(u, View(client[u]), <<>>, w)
            BY <1>7, <5>2
          <6> QED BY <6>1, LeadsNone
        <5>4. (client[u].scene = "game" /\ ~client[u].over) = FALSE
          BY <5>1
        <5> QED BY <5>3, <5>4 DEF View
      <4> QED BY <4>1, <4>2
    <3> QED BY <2>2, <3>1, <3>2 DEF Agrees
  <2> QED BY <2>1, <2>2
<1>9. UserOK(room, client[u], Append(q, m), down[u], u)
  BY <1>4, <1>6, <1>7, <1>8 DEF UserOK
<1>10. \A v \in Users : UserOK(room', client'[v], up'[v], down'[v], v)
  <2> TAKE v \in Users
  <2>1. CASE v = u
    BY <1>1, <1>9, <2>1 DEF IInv
  <2>2. CASE v # u
    <3>1. up'[v] = up[v]
      BY <1>1, <2>2 DEF IInv
    <3> QED BY <1>1, <3>1 DEF IInv
  <2> QED BY <2>1, <2>2
<1>11. up' = [v \in Users |-> up'[v]]
  BY <1>1 DEF IInv
<1> QED BY <1>1, <1>10, <1>11 DEF IInv

\* A client changes what is not of its view.
LEMMA ClientInv ==
  ASSUME IInv, NEW u \in Users, NEW d, Is(d, View(client[u])),
         client' = [client EXCEPT ![u] = d], UNCHANGED <<room, up, down>>
  PROVE  IInv'
<1>1. UserOK(room, client[u], up[u], down[u], u)
  BY DEF IInv
<1>2. UserOK(room, d, up[u], down[u], u)
  BY <1>1 DEF UserOK, Is
<1>3. \A v \in Users : UserOK(room', client'[v], up'[v], down'[v], v)
  <2> TAKE v \in Users
  <2>1. CASE v = u
    BY <1>2, <2>1 DEF IInv
  <2>2. CASE v # u
    <3>1. client'[v] = client[v]
      BY <2>2 DEF IInv
    <3> QED BY <3>1 DEF IInv
  <2> QED BY <2>1, <2>2
<1>4. client' = [v \in Users |-> client'[v]]
  BY DEF IInv
<1> QED BY <1>3, <1>4 DEF IInv

\* Another page.
LEMMA SwitchInv ==
  ASSUME IInv, NEW u \in Users, NEW x, NEW y, Switch(u, x, y)
  PROVE  IInv'
<1> DEFINE d == switchMenuPage(client[u], x, y)
<1>1. Is(d, View(client[u]))
  BY ClientView, PageView
<1>2. client' = [client EXCEPT ![u] = d] /\ UNCHANGED <<room, up, down>>
  BY DEF Switch, IInv
<1> HIDE DEF d
<1> QED BY <1>1, <1>2, ClientInv

\* Back to the room's page: the game was over.
LEMMA BackInv ==
  ASSUME IInv, NEW u \in Users, goToMenuRoom(u)
  PROVE  IInv'
<1> DEFINE c == client[u]
           d == To(c, InMenu("ROOM"))
           v == View(c)
<1>1. c.over /\ client' = [client EXCEPT ![u] = d] /\ UNCHANGED <<room, up, down>>
  BY DEF goToMenuRoom, IInv
<1>2. Is(c, v)
  BY ClientView
<1>3. Is(d, SetPlay(v, FALSE))
  BY <1>2, SceneView
<1>4. SetPlay(v, FALSE) = v
  <2>1. (c.scene = "game" /\ ~c.over) = FALSE
    BY <1>1
  <2>2. v = [room |-> c.room, no |-> c.no, seat |-> c.seat, ready |-> c.ready, play |-> FALSE]
    BY <2>1 DEF View
  <2> HIDE DEF c, v
  <2>3. SetPlay(v, FALSE)
          = [room |-> c.room, no |-> c.no, seat |-> c.seat, ready |-> c.ready, play |-> FALSE]
    BY <1>2, PlayView
  <2> QED BY <2>2, <2>3
<1>5. Is(d, v)
  BY <1>3, <1>4
<1> HIDE DEF d
<1> QED BY <1>1, <1>5, ClientInv

\* The keys of the menu's pages.
LEMMA SelectInv ==
  ASSUME IInv, NEW u \in Users, onMenuSelectItem(u)
  PROVE  IInv'
<1> DEFINE c == client[u]
           panel == FirstShown(c)
<1>1. c.scene = "menu" /\ (Patient => Pending(u) = 0)
  BY DEF onMenuSelectItem, isOperateEnabled
<1>2. \/ Switch(u, c.page, "ONLINE") \/ Switch(u, c.page, "JOIN_ROOM")
      \/ Send(u, "CREATE_ROOM", c.page) \/ Send(u, "JOIN_ROOM", c.page)
      \/ RoomItem(u, c) \/ ChoiceItem(u, c)
  BY DEF onMenuSelectItem
<1>3. ASSUME NEW name, NEW item, NEW from, SendItem(u, name, item, from) PROVE IInv'
  BY <1>1, <1>3, SendInv
<1>4. ASSUME NEW page, Switch(u, c.page, page) PROVE IInv'
  BY <1>4, SwitchInv
<1>5. ASSUME NEW name, Send(u, name, c.page) PROVE IInv'
  BY <1>3, <1>5 DEF Send
<1>6. RoomItem(u, c) => IInv'
  BY <1>5 DEF RoomItem
<1>7. ChoiceItem(u, c) => IInv'
  BY <1>3 DEF ChoiceItem, sendMenuChoose
<1> HIDE DEF c
<1> QED BY <1>2, <1>4, <1>5, <1>6, <1>7

\* The cursor.
LEMMA MoveInv ==
  ASSUME IInv, NEW u \in Users, onMove(u)
  PROVE  IInv'
  BY SendInv DEF onMove, sendMenuSwitch, Entry

\* The key that goes back.
LEMMA KeyBackInv ==
  ASSUME IInv, NEW u \in Users, onKeyBack(u)
  PROVE  IInv'
<1> DEFINE c == client[u]
<1>1. \/ Switch(u, c.page, "MAIN") \/ Switch(u, c.page, "ONLINE")
      \/ Send(u, "LEAVE_ROOM", c.page) \/ Send(u, "MENU_BACK", c.page)
      \/ Send(u, "LEAVE_ROOM", "the page then")
  BY DEF onKeyBack
<1>2. ASSUME NEW page, Switch(u, c.page, page) PROVE IInv'
  BY <1>2, SwitchInv
<1>3. ASSUME NEW name \in {"LEAVE_ROOM", "MENU_BACK"}, NEW from, Send(u, name, from) PROVE IInv'
  BY <1>3, SendInv DEF Send, Entry
<1> HIDE DEF c
<1> QED BY <1>1, <1>2, <1>3

\* The requests of a game.
LEMMA GameKeysInv ==
  ASSUME IInv, NEW u \in Users,
         LeaveGame(u) \/ onGameResultShowFinished(u) \/ sendMapEditFinished(u)
  PROVE  IInv'
<1>1. \E name \in {"LEAVE_ROOM", "GAME_END", "EDIT_FINISHED"} : Send(u, name, "the game")
  BY DEF LeaveGame, onGameResultShowFinished, sendMapEditFinished
<1> QED BY <1>1, SendInv DEF Send, Entry

\* A message arrives.
LEMMA ReceiveInv ==
  ASSUME IInv, NEW u \in Users, Receive(u)
  PROVE  IInv'
<1> DEFINE c == client[u]
           s == down[u]
           m == Head(s)
           v == View(c)
<1>1. UserOK(room, c, up[u], s, u) /\ Is(c, v) /\ IsSeq(s)
  BY ClientView DEF IInv
<1>2. PICK d : /\ \/ m.kind = "rsp" /\ d = onRespond(c, u, m)
                  \/ m.kind # "rsp" /\ d \in onNotify(c, u, m)
               /\ client' = [client EXCEPT ![u] = d]
  <2>1. CASE m.kind = "rsp"
    <3>1. client' = [client EXCEPT ![u] = onRespond(c, u, m)]
      BY <2>1 DEF Receive
    <3> QED BY <2>1, <3>1
  <2>2. CASE m.kind # "rsp"
    <3>1. \E d \in onNotify(c, u, m) : client' = [client EXCEPT ![u] = d]
      BY <2>2 DEF Receive
    <3> QED BY <2>2, <3>1
  <2> QED BY <2>1, <2>2
<1>3. s # <<>> /\ down' = [down EXCEPT ![u] = Tail(s)] /\ room' = room /\ up' = up
  BY DEF Receive
<1>4. Is(d, Hear(u, v, m))
  BY <1>1, <1>2, RespondView, NotifyView DEF Hear
<1>5. PICK w \in Views : Leads(u, v, s, w) /\ Agrees(room, up[u], u, w)
  BY <1>1 DEF UserOK
<1>6. Leads(u, View(d), Tail(s), w)
  BY <1>3, <1>4, <1>5, LeadsFirst DEF Is
<1>7. Behind(s) => Behind(Tail(s))
  <2>1. PICK S : s \in Seq(S)
    BY <1>1 DEF IsSeq
  <2> HIDE DEF s
  <2>2. Tail(s) \in Seq(S) /\ Len(Tail(s)) = Len(s) - 1 /\ Len(s) \in Nat /\ Len(s) >= 1
    BY <1>3, <2>1
  <2>3. ASSUME Tail(s) # <<>> PROVE Tail(s)[Len(Tail(s))] = s[Len(s)]
    <3>1. Len(Tail(s)) >= 1
      BY <2>2, <2>3
    <3> QED BY <1>3, <2>1, <2>2, <3>1
  <2> QED BY <1>3, <2>3 DEF Behind
<1>8. UserOK(room, d, up[u], Tail(s), u)
  BY <1>1, <1>4, <1>5, <1>6, <1>7 DEF UserOK, Is
<1> HIDE DEF s
<1>9. \A x \in Users : UserOK(room', client'[x], up'[x], down'[x], x)
  <2> TAKE x \in Users
  <2>1. CASE x = u
    BY <1>2, <1>3, <1>8, <2>1 DEF IInv
  <2>2. CASE x # u
    <3>1. client'[x] = client[x] /\ down'[x] = down[x]
      BY <1>2, <1>3, <2>2 DEF IInv
    <3> QED BY <1>3, <3>1 DEF IInv
  <2> QED BY <2>1, <2>2
<1>10. client' = [x \in Users |-> client'[x]] /\ down' = [x \in Users |-> down'[x]]
  BY <1>2, <1>3 DEF IInv
<1> QED BY <1>3, <1>9, <1>10 DEF IInv

------------------------------------------------------------------------------
(* The theorems. *)

\* Before anything happened.
LEMMA InitInv == Init => IInv
<1> SUFFICES ASSUME Init PROVE IInv
  OBVIOUS
<1> DEFINE v == View(InitClient)
<1>1. room = NoRoom /\ RoomOK(NoRoom) /\ SeatedIn(NoRoom) = {}
  BY NoRoomOK DEF Init
<1>2. Empty \in [Seats -> Who] /\ UnReady \in [Seats -> BOOLEAN] /\ 0 \in Seats
  BY DEF Empty, UnReady, Who, Seats
<1>3. (InitClient.scene = "game" /\ ~InitClient.over) = FALSE
  BY DEF InitClient
<1>4. v = [room |-> FALSE, no |-> 0, seat |-> Empty, ready |-> UnReady, play |-> FALSE]
  BY <1>3 DEF View, InitClient
<1> HIDE DEF v
<1>5. v \in Views /\ ~v.room
  BY <1>2, <1>4 DEF Views
<1>6. IsClient(InitClient)
  BY DEF InitClient, IsClient, Fields
<1>7. QueueOK(<<>>) /\ ~Entering(<<>>) /\ Behind(<<>>)
  BY DEF QueueOK, IsSeq, Entering, Behind
<1>8. ASSUME NEW u \in Users PROVE UserOK(NoRoom, InitClient, <<>>, <<>>, u)
  <2>1. Leads(u, v, <<>>, v)
    BY <1>5, LeadsNone
  <2>2. Agrees(NoRoom, <<>>, u, v)
    BY <1>1, <1>5, <1>7 DEF Agrees
  <2> QED BY <1>5, <1>6, <1>7, <2>1, <2>2 DEF UserOK, v
<1> QED BY <1>1, <1>8 DEF Init, IInv

\* Every step.
LEMMA NextInv == IInv /\ [Next]_vars => IInv'
<1> SUFFICES ASSUME IInv, [Next]_vars PROVE IInv'
  OBVIOUS
<1>1. CASE Next
  <2>1. PICK u \in Users :
          \/ OnRequest(u) \/ Receive(u)
          \/ onMenuSelectItem(u) \/ onMove(u) \/ onKeyBack(u) \/ LeaveGame(u)
          \/ onGameResultShowFinished(u) \/ sendMapEditFinished(u) \/ goToMenuRoom(u)
    BY <1>1 DEF Next
  <2> QED BY <2>1, RequestInv, ReceiveInv, SelectInv, MoveInv, KeyBackInv, GameKeysInv, BackInv
<1>2. CASE UNCHANGED vars
  BY <1>2 DEF vars, IInv
<1> QED BY <1>1, <1>2

(* Whatever is under way, what a client has still to hear leads what it      *)
(* holds of the room to what the server does.                               *)
THEOREM Invariance == Spec => []IInv
  BY InitInv, NextInv, PTL DEF Spec

\* Who has nothing to hear agrees with the server.
LEMMA QuietAgrees ==
  ASSUME IInv, NEW u \in Users, Quiet(u)
  PROVE  Agrees(room, <<>>, u, View(client[u]))
<1>1. UserOK(room, client[u], <<>>, <<>>, u)
  BY DEF IInv, Quiet
<1>2. PICK w \in Views : Leads(u, View(client[u]), <<>>, w) /\ Agrees(room, <<>>, u, w)
  BY <1>1 DEF UserOK
<1>3. w = View(client[u])
  BY <1>2, LeadsNone
<1> QED BY <1>2, <1>3

(* However many requests and messages were under way, and whatever order the *)
(* server handled them in: a client that has heard all holds of the room     *)
(* what the server does.                                                    *)
THEOREM ViewMatchesRoomThm == Spec => []ViewMatchesRoom
<1>1. IInv => ViewMatchesRoom
  <2> SUFFICES ASSUME IInv, NEW u \in Users, Quiet(u)
               PROVE  LET c == client[u]
                      IN  /\ c.room <=> u \in SeatedIn(room)
                          /\ c.room => /\ room.seat[c.no] = u /\ c.seat = room.seat
                                       /\ c.ready = room.ready
    BY DEF ViewMatchesRoom
  <2> DEFINE c == client[u]
             v == View(c)
  <2>1. v.room = c.room /\ v.no = c.no /\ v.seat = c.seat /\ v.ready = c.ready
    BY DEF View
  <2>2. Agrees(room, <<>>, u, v)
    BY QuietAgrees
  <2> HIDE DEF v, c
  <2>3. (v.room <=> u \in SeatedIn(room))
    BY <2>2 DEF Agrees, Seated
  <2>4. v.room => room.seat[v.no] = u /\ v.seat = room.seat /\ v.ready = room.ready
    BY <2>2 DEF Agrees, Seated
  <2> QED BY <2>1, <2>3, <2>4 DEF c
<1> QED BY <1>1, Invariance, PTL

(* Users that press nothing while a request of theirs is under way: one that *)
(* has heard all plays just as long as the server's game goes on.           *)
THEOREM GameTogetherThm == ASSUME Patient PROVE Spec => []GameTogether
<1>1. IInv => GameTogether
  <2> SUFFICES ASSUME IInv, NEW u \in SeatedIn(room), Quiet(u)
               PROVE  room.status = "game" <=> client[u].scene = "game" /\ ~client[u].over
    BY DEF GameTogether
  <2> DEFINE v == View(client[u])
  <2>1. u \in Users
    BY DEF IInv, RoomOK, IsRoom, SeatedIn, Who
  <2>2. Agrees(room, <<>>, u, v)
    BY <2>1, QuietAgrees
  <2>3. v.play = (client[u].scene = "game" /\ ~client[u].over)
    BY DEF View
  <2> HIDE DEF v
  <2>4. v.play <=> room.status = "game"
    BY <2>2 DEF Agrees, Seated
  <2> QED BY <2>3, <2>4
<1> QED BY <1>1, Invariance, PTL

=============================================================================
