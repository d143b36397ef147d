------------------------------ MODULE MapEdit ------------------------------
(***************************************************************************)
(* Two players in one room edit a map and play on it.  The host's keys go    *)
(* into frames, both clients do with each frame what it says, and the host's *)
(* START sends them to the game: GameMapManger, MapEditTank, PlayerManager,  *)
(* GameInputManager and Game.onBtnStart.                                    *)
(*                                                                         *)
(* The battle is left to Stage and Battle: what it brings that the map or    *)
(* the keys feel is an event of a frame, the same for both, for they play    *)
(* the same game as long as they have the same map.                         *)
(***************************************************************************)
EXTENDS Keys, Field, Sequences

CONSTANTS
    Home, Born,         \* where the home base and who comes to life stand: one, and a set
    EditPlace,          \* where the editing starts
    ConfigMap,          \* the map of the stages: <<scenery position, type>>
    LastStage,
    FrameTime,          \* getFrameInterval
    Leftover,           \* who has edited a map of its own before
    Prompt,             \* a client handles its frames before it hears of the game's start
    MaxPress,           \* bound: keys pressed
    MaxHeld,            \* bound: keys that are down at once
    MaxFrames,          \* bound: frames of a game
    Lag                 \* bound: frames a client is behind

ASSUME MapEditAssumption ==
    /\ {LastStage, MaxPress, MaxHeld, MaxFrames, Lag} \subseteq Nat /\ FrameTime \in Nat \ {0}
    /\ Prompt \in BOOLEAN /\ Leftover \subseteq {0, 1}

VARIABLES
    mode,       \* of the room, at the server
    frames,     \* frames of the game so far
    queue,      \* what each client is still to handle: frames, and GAME_START
    pending,    \* what the host has sent for the next frame, or NoOpe
    finished,   \* the host's message that the map is complete is under way
    client,     \* of each player: what it holds of the game
    keyboard,   \* the host's
    presses     \* keys pressed so far

vars == <<mode, frames, queue, pending, finished, client, keyboard, presses>>

Players == {0, 1}
Host == 0
NoOpe == <<>>            \* no part at all

-----------------------------------------------------------------------------
(* The map: a type for each scenery position. *)
NULL == "NULL"
TypeOrder == <<"WALL", "GRASS", "ICE", "WATER", "STEEL">>
Sceneries == (0..Cols - 1) \X (0..Rows - 1)
EmptyMap == [s \in Sceneries |-> NULL]

Beside(s, i, j) == <<s[1] + i, s[2] + j>>
getRectContainPosArray(s, rows, cols) == {Beside(s, i, j) : i \in 0..cols - 1, j \in 0..rows - 1}
getHomeBaseSceneryPosition == matrixToSceneryPosition(Home)
isHomeBasePosition(s) == s \in getRectContainPosArray(getHomeBaseSceneryPosition, 2, 2)

(* One column and one row too many are valid to the code, which no caller    *)
(* asks for: nothing stands there.                                          *)
isValidSceneryPos(s) == s[1] \in 0..Cols /\ s[2] \in 0..Rows
isValidMatrixPos(rc) == rc[1] \in 0..2 * Cols /\ rc[2] \in 0..2 * Rows

createSceneries(map, type, places) ==
    [s \in Sceneries |-> IF s \in places /\ isValidSceneryPos(s) THEN type ELSE map[s]]
destroySceneryAround(map, s) == createSceneries(map, NULL, getRectContainPosArray(s, 2, 2))

convertToMapData(config) ==
    [s \in Sceneries |->
        IF \E e \in config : e[1] = s THEN (CHOOSE e \in config : e[1] = s)[2] ELSE NULL]

checkHomeBase(map) == destroySceneryAround(map, getHomeBaseSceneryPosition)
BornSceneries == UNION {getRectContainPosArray(matrixToSceneryPosition(b), 2, 2) : b \in Born}
checkBornPlace(map) == createSceneries(map, NULL, BornSceneries)

AroundHome ==
    LET h == getHomeBaseSceneryPosition
    IN  {Beside(h, i, j) : i \in {-1, 2}, j \in 0..2} \cup {Beside(h, i, 2) : i \in {0, 1}}
createScenerysAroundHomeBase(map, type) == createSceneries(map, type, AroundHome)

\* The places of GameDef.ts:24-29: the spade builds where nobody comes to life.
ASSUME PlacesAssumption == Home \in Int \X Int /\ AroundHome \intersect BornSceneries = {}

-----------------------------------------------------------------------------
(* A client. *)
NewClient(m, saved, custom) == [
    mode |-> m, phase |-> "wait", stage |-> 0, enable |-> FALSE,
    map |-> EmptyMap, custom |-> custom, saved |-> saved,
    pos |-> EditPlace, type |-> "WALL", units |-> 0, ope |-> NewControls, time |-> 0]

\* A map that a player has edited by himself before goes with him.
Init ==
    /\ mode \in {"edit", "common"}
    /\ frames = 0 /\ queue = [u \in Players |-> <<>>]
    /\ pending = NoOpe /\ finished = FALSE
    /\ client = [u \in Players |->
                    LET mine == mode = "common" /\ u \in Leftover
                        left == createSceneries(EmptyMap, "STEEL", Sceneries)
                    IN  NewClient(mode, IF mine THEN left ELSE EmptyMap, mine)]
    /\ keyboard = NewKeyboard({}) /\ presses = 0

-----------------------------------------------------------------------------
(* The editing tank: what it stands for and builds.  units is 0, 1, 2 or 4.  *)
UnitPlaces == <<<<0, 1>>, <<1, 1>>, <<0, 0>>, <<1, 0>>>>     \* SceneryRcInfoDiff
NextType(type) ==
    LET i == CHOOSE i \in DOMAIN TypeOrder : TypeOrder[i] = type
    IN  TypeOrder[(i % Len(TypeOrder)) + 1]
changeSceneryType(c) ==
    LET next == NextType(c.type)
    IN  [c EXCEPT !.type = next, !.units = IF next = "WALL" THEN 0 ELSE @]
changeEditMode(c) ==
    IF c.type = "WALL" /\ c.units < 4
    THEN [c EXCEPT !.units = CASE @ = 0 -> 1 [] @ = 1 -> 2 [] OTHER -> 4]
    ELSE changeSceneryType(c)

\* The home base is not built over.
evMapEditCreateScenery(map, type, places) ==
    createSceneries(map, type, {s \in places : ~isHomeBasePosition(s)})

\* With nothing to build, what is there is cleared.
updateSceneryMap(c) ==
    LET at(i) == Beside(matrixToSceneryPosition(c.pos), UnitPlaces[i][1], UnitPlaces[i][2])
        n == IF c.units = 0 THEN 4 ELSE c.units
    IN  [c EXCEPT !.map = evMapEditCreateScenery(
            @, IF c.units = 0 THEN NULL ELSE c.type, {at(i) : i \in 1..n})]

isValidPosition(rc) == \A i \in {0, 4}, j \in {0, 4} : isValidMatrixPos(Beside(rc, i, j))
moveBy(c, diff) ==
    LET rc == Beside(c.pos, diff[1], diff[2])
    IN  IF isValidPosition(rc) THEN [c EXCEPT !.pos = rc] ELSE c
onMapEditerMove(c, key) ==
    moveBy(c, CASE key = "UP" -> <<0, 2>> [] key = "LEFT" -> <<-2, 0>>
                [] key = "DOWN" -> <<0, -2>> [] key = "RIGHT" -> <<2, 0>>)

\* Each of a frame's keys in its turn, if it has its effect.
Does(c, ope, part) == Effective(c.ope[part], ope[part], c.time)
Heard(c, ope, part) == [c EXCEPT !.ope[part] = effectInput(@, ope[part], c.time)]
MoveTurn(c, ope) ==
    IF Does(c, ope, "DIRECTION")
    THEN onMapEditerMove(Heard(c, ope, "DIRECTION"), getInputCode(ope["DIRECTION"]))
    ELSE Heard(c, ope, "DIRECTION")
OkTurn(c, ope) ==
    IF Does(c, ope, "OK") THEN updateSceneryMap(Heard(c, ope, "OK")) ELSE Heard(c, ope, "OK")
CancelTurn(c, ope) ==
    IF Does(c, ope, "CANCEL") THEN changeEditMode(Heard(c, ope, "CANCEL"))
    ELSE Heard(c, ope, "CANCEL")
onPlayerOperation(c, ope) == CancelTurn(OkTurn(MoveTurn(c, ope), ope), ope)

isModeEditMap(c) == c.mode = "edit"
clearGameMapData(c) == [c EXCEPT !.saved = EmptyMap]
evMapEditFinished(c) ==
    [clearGameMapData(c) EXCEPT !.saved =
        [s \in Sceneries |-> IF c.map[s] # NULL THEN c.map[s] ELSE @[s]]]

\* Mutant: only who says that the map is complete saves it.
onBtnStartOfHost(c, u) ==
    IF u = Host THEN [evMapEditFinished(c) EXCEPT !.custom = TRUE] ELSE c

(* onBtnStart while a map is edited; the host also sends off its message.    *)
onBtnStart(c, u) == [evMapEditFinished(c) EXCEPT !.custom = TRUE]
StartsGame(c, ope) ==
    isModeEditMap(c) /\ ope # NoOpe /\ Effective(c.ope["START"], ope["START"], c.time)

-----------------------------------------------------------------------------
(* The game's map is the edited one for its first stage, that of the stage   *)
(* for the others, and where the home base is and where tanks come to life   *)
(* nothing is left standing.                                                *)
ChosenMap(c) ==
    CASE isModeEditMap(c) -> EmptyMap
      [] ~isModeEditMap(c) /\ c.custom -> c.saved
      [] OTHER -> convertToMapData(ConfigMap)
UsesCustom(c) == ~isModeEditMap(c) /\ c.custom

Forgets(c) == IF UsesCustom(c) THEN [clearGameMapData(c) EXCEPT !.custom = FALSE] ELSE c

\* Mutant: an edited map is played on as it is.
initGameMapUnchecked(c) ==
    [Forgets(c) EXCEPT !.map = IF UsesCustom(c) THEN c.saved
                               ELSE checkBornPlace(checkHomeBase(ChosenMap(c)))]

initGameMap(c) == [Forgets(c) EXCEPT !.map = checkBornPlace(checkHomeBase(ChosenMap(c)))]

startGameStage(c, stage) ==
    [initGameMap(c) EXCEPT !.stage = stage, !.phase = IF isModeEditMap(c) THEN "run" ELSE "prepare",
                           !.enable = isModeEditMap(c)]

(* What a frame brings beside the keys: 2 seconds after a stage is prepared  *)
(* it starts, the spade and its end, the loss of the game, the end of the    *)
(* stage and the next one.                                                  *)
Events == {"none", "start", "spade", "spade ends", "over", "end", "next"}
HappensIn(c, e) ==
    CASE e = "start" -> c.phase = "prepare"
      [] e \in {"spade", "spade ends"} -> c.phase \in {"run", "over"}
      [] e = "over" -> c.phase = "run"
      [] e = "end" -> c.phase \in {"run", "over"}
      [] e = "next" -> c.phase = "end" /\ c.stage < LastStage
      [] OTHER -> e = "none"
onEvent(c, e) ==
    CASE e = "start" -> [c EXCEPT !.phase = "run", !.enable = TRUE]
      [] e = "spade" -> [c EXCEPT !.map = createScenerysAroundHomeBase(@, "STEEL")]
      [] e = "spade ends" -> [c EXCEPT !.map = createScenerysAroundHomeBase(@, "WALL")]
      [] e = "over" -> [c EXCEPT !.phase = "over", !.enable = FALSE]
      [] e = "end" -> [c EXCEPT !.phase = IF @ = "over" THEN "lost" ELSE "end", !.enable = FALSE]
      [] e = "next" -> startGameStage(c, c.stage + 1)
      [] OTHER -> c

(* One frame of a client: the first prepares the stage, the others have the  *)
(* start key, then the time, then the other keys.                           *)
onGameFrame(c, u, f) ==
    LET s == IF f.ope = NoOpe THEN c
             ELSE [c EXCEPT !.ope["START"] = effectInput(@, f.ope["START"], c.time)]
    IN  CASE c.phase = "wait" -> startGameStage(c, 1)
          [] c.phase # "wait" /\ StartsGame(c, f.ope) -> onBtnStart(s, u)
          [] c.phase # "wait" /\ isModeEditMap(c) /\ ~StartsGame(c, f.ope) ->
                LET t == [s EXCEPT !.time = @ + FrameTime]
                IN  IF f.ope = NoOpe THEN t ELSE onPlayerOperation(t, f.ope)
          [] OTHER -> onEvent(c, f.event)

-----------------------------------------------------------------------------
Message(ope, event) == [ope |-> ope, event |-> event]
Send(m) == queue' = [u \in Players |-> Append(queue[u], m)]
GameStart == Message(NoOpe, "GAME_START")

(* The server's frames.  Bound: a client has at most Lag messages to handle. *)
OnFrameTimer(e) ==
    /\ frames < MaxFrames /\ \A u \in Players : Len(queue[u]) < Lag
    /\ e = "none" \/ (mode = "common" /\ HappensIn(client[Host], e) /\ queue[Host] = <<>>)
    /\ Send(Message(IF mode = "edit" THEN pending ELSE NoOpe, e))
    /\ frames' = frames + 1 /\ pending' = NoOpe
    /\ UNCHANGED <<mode, finished, client, keyboard, presses>>

OnGameMapEditFinished ==
    /\ finished /\ finished' = FALSE
    /\ mode' = "common"
    /\ IF mode = "edit" THEN Send(GameStart) /\ frames' = 0 ELSE UNCHANGED <<queue, frames>>
    /\ pending' = NoOpe
    /\ UNCHANGED <<client, keyboard, presses>>

(* The host's keys are told of the start and the end of a game, and are sent *)
(* off, as they are after the frame, for the next.                          *)
Frame(u) ==
    LET c == client[u]
        f == Head(queue[u])
        d == onGameFrame(c, u, f)
        k == IF c.phase # d.phase /\ d.phase \in {"run", "end", "lost"} THEN evGameStartedOrEnded(keyboard)
             ELSE keyboard
    IN  /\ queue[u] # <<>> /\ f # GameStart
        /\ queue' = [queue EXCEPT ![u] = Tail(@)]
        /\ client' = [client EXCEPT ![u] = d]
        /\ IF u = Host
           THEN /\ keyboard' = evCaptureFrameOpe(k, d.enable).keyboard
                /\ pending' = IF mode = "edit" THEN evCaptureFrameOpe(k, d.enable).ope ELSE NoOpe
                /\ finished' = (finished \/ (c.phase # "wait" /\ StartsGame(c, f.ope)))
           ELSE UNCHANGED <<keyboard, pending, finished>>
        /\ UNCHANGED <<mode, frames, presses>>

(* The scene is loaded anew, and with it what listens to the keys.  Frames   *)
(* that wait to be handled are lost.                                        *)
onNtfGameStart(u) ==
    \E i \in DOMAIN queue[u] :
        /\ queue[u][i] = GameStart /\ (Prompt => i = 1)
        /\ queue' = [queue EXCEPT ![u] = SubSeq(@, i + 1, Len(@))]
        /\ client' = [client EXCEPT ![u] = NewClient("common", @.saved, @.custom)]
        /\ keyboard' = IF u = Host THEN NewKeyboard(keyboard.pressed) ELSE keyboard
        /\ UNCHANGED <<mode, frames, pending, finished, presses>>

(* The host's keys.  A key that is held is told again and again. *)
KeyDown(key) ==
    /\ \/ key \in keyboard.pressed
       \/ presses < MaxPress /\ Cardinality(keyboard.pressed) < MaxHeld
    /\ keyboard' = onKeyDown(keyboard, key, client[Host].enable)
    /\ presses' = IF key \in keyboard.pressed THEN presses ELSE presses + 1
    /\ UNCHANGED <<mode, frames, queue, pending, finished, client>>
KeyUp(key) ==
    /\ key \in keyboard.pressed
    /\ keyboard' = onKeyUp(keyboard, key, client[Host].enable)
    /\ UNCHANGED <<mode, frames, queue, pending, finished, client, presses>>

\* BACK asks whether to leave the room.  Bound: it counts as three keys pressed.
showChooseDialog ==
    /\ keyboard.top /\ presses + 3 <= MaxPress
    /\ keyboard' = addInputHierarchy(keyboard) /\ presses' = presses + 3
    /\ UNCHANGED <<mode, frames, queue, pending, finished, client>>
CloseDialog ==
    /\ ~keyboard.top
    /\ keyboard' = removeInputHierarchy(keyboard)
    /\ UNCHANGED <<mode, frames, queue, pending, finished, client, presses>>

Next ==
    \/ \E e \in Events : OnFrameTimer(e)
    \/ OnGameMapEditFinished \/ showChooseDialog \/ CloseDialog
    \/ \E u \in Players : Frame(u) \/ onNtfGameStart(u)
    \/ \E key \in KeySet : KeyDown(key) \/ KeyUp(key)
Spec == Init /\ [][Next]_vars

-----------------------------------------------------------------------------
(* Properties. *)

(* GameMapManger.ts:291, 298: nothing stands where the home base is, and in  *)
(* a game nothing where tanks come to life, whatever was edited there and    *)
(* whatever the spade builds.                                               *)
PlacesFree ==
    \A u \in Players, s \in Sceneries :
        LET c == client[u] IN
        c.map[s] # NULL =>
            /\ ~isHomeBasePosition(s)
            /\ c.mode = "common" => s \notin BornSceneries

(* Both have the same map when they have handled the same frames: what one   *)
(* computes of a battle is only then what the other does.                   *)
SameMap == queue[0] = queue[1] => client[0].map = client[1].map

(* While the keys are taken, one that counts as held is one whose release    *)
(* the game still waits for: there is a way to let go of it, though dialogs  *)
(* and the ends of games keep releases from the game.                       *)
KeysCanBeReleased ==
    client[Host].enable =>
        \A p \in Parts : keyboard.info[p].status # None => keyboard.info[p].status \in keyboard.seen
=============================================================================
