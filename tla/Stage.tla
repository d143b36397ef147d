------------------------------- MODULE Stage -------------------------------
(***************************************************************************)
(* The course of a game on one client: stages, lives, enemies, props and    *)
(* the end of a stage.  Everything happens inside a logic frame             *)
(* (GameLogicModel.onGameFrame): the events the last frame left behind,     *)
(* then the scheduled tasks that are due, then the enemies' clock.  What    *)
(* the tanks do in between appears as the hits a frame finds.               *)
(*                                                                         *)
(* Time goes in steps of two seconds, every delay rounded up, and a step has *)
(* any number of frames: a frame with `tick' is the first of a new step.    *)
(* As in Connection, a handler is a function of the game's record.  The     *)
(* scores of the two players are added up, one point per enemy or prop.     *)
(***************************************************************************)
EXTENDS Naturals, Sequences, FiniteSets, SequencesExt

CONSTANTS
    Modes,        \* modes of play, of "single", "double" and "online"
    LastStage,    \* GAME_TOTAL_STAGE
    Lives,        \* PLAYER_LIFE_NUM
    TopLevel,     \* tankMaxLevel, PLAYER_LEVEL_PROTECT_ONCE_DEAD
    EnemyTotal, EnemyMaxAlive, EnemyFirst,  \* of the stage's difficulty
    Props,        \* the props that turn up
    MaxProps,     \* bound: props created in a game
    MaxPress,     \* bound: times the start key is pressed
    MaxHits,      \* bound: things hit in one frame
    Lag           \* frames between the capture of a key and its frame

ASSUME StageAssumption ==
    /\ Modes \subseteq {"single", "double", "online"}
    /\ Props \subseteq {"BOMB", "STAR", "TANK", "HELMET", "CLOCK", "SPADE", "GUN"}
    /\ {LastStage, TopLevel, EnemyTotal, EnemyMaxAlive, EnemyFirst, Lag} \subseteq Nat \ {0}
    /\ {Lives, MaxProps, MaxPress, MaxHits} \subseteq Nat
    /\ EnemyFirst <= EnemyMaxAlive /\ EnemyMaxAlive <= EnemyTotal

VARIABLES
    mode,     \* the mode of play
    g,        \* the state of the game, a record (see InitGame)
    ops,      \* start keys captured whose frames are still to come
    parity    \* the parity of the step

vars == <<mode, g, ops, parity>>

(* Delays in steps of two seconds, rounded up. *)
StartTime == 1      Revive == 1     BornTime == 1    BornShield == 1
OverTime == 1       WinTime == 2    RowTime == 1     ShownTime == 2
HelmetTime == 8     ClockTime == 6  SpadeTime == 10
PropTime == 7       \* 13 in the game; longer than the end of a stage
Flight == 2         \* a bullet crosses 1040 pixels at 480 per second

Rows == 2           \* of the result page; four in the game
PlayerSeq == IF mode = "single" THEN <<0>> ELSE <<0, 1>>
Players == IF mode = "single" THEN {0} ELSE {0, 1}
Nodes == 1..EnemyMaxAlive

resetPlayerStageData(h) == [h EXCEPT !.kills = 0, !.propNum = 0]
resetPlayerGameInfo(h) ==
    resetPlayerStageData([h EXCEPT !.totalScore = 0,
        !.live = [p \in Players |-> TRUE], !.lifeNum = [p \in Players |-> Lives],
        !.level = [p \in Players |-> 1]])

InitGame == resetPlayerGameInfo([
    page |-> "menu", stage |-> 1, running |-> FALSE, gameOver |-> FALSE,
    enable |-> FALSE, pause |-> FALSE, complete |-> FALSE, endSent |-> FALSE,
    live |-> <<>>, lifeNum |-> <<>>, level |-> <<>>,
    totalScore |-> 0, kills |-> 0, propNum |-> 0,
    tank |-> [p \in Players |-> "none"], shield |-> [p \in Players |-> FALSE],
    data |-> FALSE, pool |-> [i \in Nodes |-> i], enemies |-> {}, borning |-> {},
    home |-> TRUE, prop |-> "none", created |-> 0,
    buff |-> {}, staticTime |-> 0, protectTime |-> 0,
    panel |-> 0, finishNum |-> [r \in 1..Rows |-> 0],
    air |-> [player |-> 0, enemy |-> 0],
    tasks |-> <<>>, pressed |-> 0])
\* tank is "none", "borning" or "up"; enemies are the nodes of _enemyTanks,
\* pool those of the node pool, borning those whose _borning is set.  air: steps
\* the bullets of a team can still fly.

(* op applied to h for one element of the sequence s after the other.        *)
ForEach(op(_, _), h, s) ==
    LET after[i \in 0..Len(s)] == IF i = 0 THEN h ELSE op(after[i - 1], s[i])
    IN  after[Len(s)]

(* The members of s at the places in D, in their order.                      *)
Kept(s, D) ==
    LET Take(a, i) == IF i \in D THEN Append(a, s[i]) ELSE a
        to[i \in 0..Len(s)] == IF i = 0 THEN <<>> ELSE Take(to[i - 1], i)
    IN  to[Len(s)]

-----------------------------------------------------------------------------
(* The scheduled tasks (TimeSchedule). *)
Task(ctx, kind, arg, time, loop) ==
    [ctx |-> ctx, kind |-> kind, arg |-> arg, time |-> time, left |-> time, loop |-> loop]
scheduleOnce(h, ctx, kind, arg, time) ==
    [h EXCEPT !.tasks = Append(@, Task(ctx, kind, arg, time, FALSE))]
schedule(h, ctx, kind, arg, time) ==
    [h EXCEPT !.tasks = Append(@, Task(ctx, kind, arg, time, TRUE))]
unscheduleAll(h, ctx) ==
    [h EXCEPT !.tasks = Kept(@, {i \in DOMAIN @ : @[i].ctx # ctx})]

(* Animations with a time limit are tasks of the AnimationManager; stopping  *)
(* one calls no end callback.                                               *)
playPrefabAni(h, kind, arg, time) == scheduleOnce(h, "Ani", kind, arg, time)
playUnitAniInTime(h, kind, node, time) == playPrefabAni(h, kind, node, time)
playSceneAni(h, kind, time) == playPrefabAni(h, kind, 0, time)
stopAllAnimation(h) == unscheduleAll(h, "Ani")

-----------------------------------------------------------------------------
(* The end of a stage. *)
calcGameResult(h) == [h EXCEPT !.totalScore = @ + h.kills + h.propNum]

(* One for each player.                                                     *)
showTankScoreAni(h, row) ==
    LET ani == Task("Result", "row", [row |-> row, panel |-> h.panel], RowTime, FALSE)
    IN  [h EXCEPT !.tasks = @ \o [i \in DOMAIN PlayerSeq |-> ani]]

showGameResult(h) ==
    showTankScoreAni(
        [calcGameResult(h) EXCEPT !.panel = @ + 1, !.finishNum = [r \in 1..Rows |-> 0]], 1)
closeGameResult(h) == [h EXCEPT !.panel = 0]

aniFinish(h, arg) ==
    LET n == h.finishNum[arg.row] + 1
        k == IF arg.panel = h.panel THEN [h EXCEPT !.finishNum[arg.row] = n] ELSE h
    IN  CASE n < Len(PlayerSeq) -> k
          [] n >= Len(PlayerSeq) /\ arg.row = Rows ->
                scheduleOnce(k, "Result", "shown", arg, ShownTime)
          [] OTHER -> showTankScoreAni(k, arg.row + 1)

(* EV_GAME_ENDED: the animations stop, the timer of the props is removed. *)
emitGameEnded(h) == unscheduleAll(stopAllAnimation(h), "PropManager")

gameEnd(h) ==
    showGameResult(emitGameEnded([h EXCEPT !.running = FALSE, !.enable = FALSE]))

\* Mutant: the game is over, but nothing follows.
gameOverOnly(h) == [h EXCEPT !.gameOver = TRUE, !.enable = FALSE]

gameOver(h) ==
    playUnitAniInTime([h EXCEPT !.gameOver = TRUE, !.enable = FALSE], "over", 0, OverTime)

(* The next game begins with resetGameData, so nothing of this one is kept. *)
goToMainMenu(h) == InitGame

-----------------------------------------------------------------------------
(* Enemies. *)
getEnemyDeadTotalNum(h) == h.kills
getEnemyAliveNum(h) == Cardinality(h.enemies)
isNeedCreateEnemy(h) ==
    /\ getEnemyAliveNum(h) < EnemyMaxAlive
    /\ getEnemyDeadTotalNum(h) + getEnemyAliveNum(h) < EnemyTotal
isGameEnd(h) == getEnemyDeadTotalNum(h) >= EnemyTotal

(* The pool gives out the node it was given last.  Bound: it has as many as  *)
(* enemies can be alive, the code makes more when it runs out.              *)
getNode(pool) == [node |-> Last(pool), pool |-> Front(pool)]
putNode(pool, n) == Append(pool, n)

born(h, kind, node) == playUnitAniInTime(h, kind, node, BornTime)
createEnemyTank(h) ==
    LET taken == getNode(h.pool)
    IN  born([h EXCEPT !.pool = taken.pool, !.enemies = @ \cup {taken.node},
                       !.borning = @ \cup {taken.node}],
             "born", taken.node)
destroyEnemyTank(h, n) == [h EXCEPT !.enemies = @ \ {n}, !.pool = putNode(@, n)]
resetEnemy(h) == [h EXCEPT !.enemies = {}, !.pool = @ \o SetToSeq(h.enemies)]
EnemyReset(h) == resetEnemy([h EXCEPT !.data = FALSE])

(* addOneEnemy: a born place may be free or not. *)
addOneEnemy(h, place) == IF place /\ h.pool # <<>> THEN createEnemyTank(h) ELSE h

\* Mutant: the enemies still to come are not counted.
onEnemyAddAlways(h, place) ==
    IF h.data /\ getEnemyAliveNum(h) < EnemyMaxAlive THEN addOneEnemy(h, place) ELSE h

onEnemyAdd(h, place) ==
    IF h.data /\ isNeedCreateEnemy(h) THEN addOneEnemy(h, place) ELSE h

evEnemyDead(h, n, place) ==
    LET dead == destroyEnemyTank([h EXCEPT !.kills = @ + 1], n)
        next == IF isNeedCreateEnemy(dead) THEN addOneEnemy(dead, place) ELSE dead
    IN  IF isGameEnd(next) THEN scheduleOnce(next, "Enemy", "win", 0, WinTime) ELSE next

evPropBomb(h, place) ==
    LET Dead(a, n) == evEnemyDead(a, n, place)
    IN  ForEach(Dead, h, SetToSeq(h.enemies))

evEnemyStarted(h) ==
    LET One(a, i) == addOneEnemy(a, TRUE)
    IN  ForEach(One, h, [i \in 1..EnemyFirst |-> i])

-----------------------------------------------------------------------------
(* Players. *)
createPlayer(h, p) ==
    born([h EXCEPT !.tank[p] = "borning", !.shield[p] = FALSE], "playerBorn", p)

initPlayers(h) ==
    LET One(a, p) == IF a.live[p] THEN createPlayer(a, p) ELSE a
    IN  ForEach(One, [h EXCEPT !.tank = [p \in Players |-> "none"]], PlayerSeq)

onGetShieldStatus(h, p, time) ==
    playUnitAniInTime([h EXCEPT !.shield[p] = TRUE], "shieldEnd", p, time)

afterBorn(h, p) == onGetShieldStatus([h EXCEPT !.tank[p] = "up"], p, BornShield)

isPlayerNoLife(h, p) == ~h.live[p] /\ h.lifeNum[p] = 0

evPlayerDead(h, p) ==
    LET dead == [h EXCEPT !.live[p] = FALSE, !.level[p] = 1, !.tank[p] = "none"]
        next == IF dead.lifeNum[p] > 0
                THEN scheduleOnce(dead, "Player", "revive", p, Revive) ELSE dead
    IN  IF \A q \in Players : isPlayerNoLife(next, q) THEN gameOver(next) ELSE next

revive(h, p) ==
    createPlayer([h EXCEPT !.lifeNum[p] = @ - 1, !.live[p] = TRUE], p)

onLevelUp(h, p) ==
    IF h.level[p] < TopLevel THEN [h EXCEPT !.level[p] = @ + 1] ELSE h

(* onLogicLastFrameEvent of a player that was hit. *)
PlayerHit(h, p) ==
    CASE h.tank[p] # "up" -> h
      [] h.tank[p] = "up" /\ h.shield[p] -> h
      [] h.tank[p] = "up" /\ ~h.shield[p] /\ h.level[p] >= TopLevel -> [h EXCEPT !.level[p] = @ - 1]
      [] OTHER -> evPlayerDead(h, p)

-----------------------------------------------------------------------------
(* Props. *)
\* Mutant: the timer of a prop that is gone runs on.
evDestroyPropKeepTimer(h) == [h EXCEPT !.prop = "none"]

resetProp(h) == unscheduleAll([h EXCEPT !.prop = "none"], "Prop")
evDestroyProp(h) == IF h.prop = "none" THEN h ELSE resetProp(h)

\* The type is drawn by weight, and none weighs nothing.
getRandomPropType == Props
startDisappearTimer(h) == scheduleOnce(h, "Prop", "propGone", 0, PropTime)
(* evCreateProp: there may be no place for the prop (type "none"). *)
evCreateProp(h, type) ==
    IF type = "none" THEN evDestroyProp(h)
    ELSE startDisappearTimer([evDestroyProp(h) EXCEPT !.prop = type, !.created = @ + 1])

onPropClockStop(h) == [h EXCEPT !.buff = @ \ {"static"}]
onPropSpadeStop(h) == [h EXCEPT !.buff = @ \ {"protect"}]
onPropClockStart(h) == [h EXCEPT !.buff = @ \cup {"static"}, !.staticTime = ClockTime]
onPropSpadeStart(h) == [h EXCEPT !.buff = @ \cup {"protect"}, !.protectTime = SpadeTime]

evGainProp(h, p, place) ==
    LET MoreLife(a) == [a EXCEPT !.lifeNum[p] = @ + 1]
        k == CASE h.prop = "BOMB" -> evPropBomb(h, place)
               [] h.prop = "STAR" -> onLevelUp(h, p)
               [] h.prop = "TANK" -> MoreLife(h)
               [] h.prop = "HELMET" -> onGetShieldStatus(h, p, HelmetTime)
               [] h.prop = "CLOCK" -> onPropClockStart(h)
               [] h.prop = "SPADE" -> onPropSpadeStart(h)
               [] h.prop = "GUN" /\ h.level[p] < TopLevel -> [h EXCEPT !.level[p] = TopLevel]
               [] OTHER -> MoreLife(h)
    IN  [k EXCEPT !.propNum = @ + 1]

(* The status timer of the props, once a second. *)
PropStatus(h) ==
    LET clock == CASE "static" \notin h.buff -> h
                   [] "static" \in h.buff /\ h.staticTime > 0 -> [h EXCEPT !.staticTime = @ - 1]
                   [] OTHER -> onPropClockStop(h)
    IN  CASE "protect" \notin h.buff -> clock
          [] "protect" \in h.buff /\ h.protectTime > 0 -> [clock EXCEPT !.protectTime = @ - 1]
          [] OTHER -> onPropSpadeStop(clock)

PropReset(h) ==
    unscheduleAll([evDestroyProp(h) EXCEPT !.buff = {}], "PropManager")

-----------------------------------------------------------------------------
(* The beginning of a stage.  EV_GAME_PREPARE_GAME reaches PropManager, the  *)
(* map, the players, the enemies and the bullets in this order.             *)
prepareGame(h) ==
    LET k == PropReset(resetPlayerStageData(h))
    IN  EnemyReset(initPlayers([k EXCEPT !.home = TRUE, !.air = [player |-> 0, enemy |-> 0]]))

startGameStage(h, s) ==
    prepareGame(playSceneAni([h EXCEPT !.stage = s], "start", StartTime))

(* gameStart: EV_GAME_STARTED starts the timer of the props and the enemies. *)
startPropStatusTimer(h) == schedule(h, "PropManager", "status", 0, 1)
gameStart(h) ==
    [evEnemyStarted(startPropStatusTimer([h EXCEPT !.running = TRUE, !.data = TRUE]))
        EXCEPT !.enable = TRUE]

onGameResultShowFinished(h) ==
    CASE h.gameOver /\ mode = "online" -> [h EXCEPT !.endSent = TRUE]
      [] h.gameOver /\ mode # "online" -> goToMainMenu(h)
      [] ~h.gameOver /\ h.stage < LastStage -> startGameStage(closeGameResult(h), h.stage + 1)
      [] OTHER -> [h EXCEPT !.page = "success", !.endSent = (mode = "online")]

-----------------------------------------------------------------------------
Nothing == [home |-> FALSE, players |-> {}, enemies |-> {},
            gain |-> 2, drop |-> "no", place |-> TRUE]

(* A frame. *)
Run(h, t) ==
    IF h.page = "menu" THEN h ELSE
    CASE t.kind = "start"       -> gameStart(h)
      [] t.kind \in {"over", "win"} -> gameEnd(h)
      [] t.kind = "born"        -> [h EXCEPT !.borning = @ \ {t.arg}]
      [] t.kind = "playerBorn"  -> afterBorn(h, t.arg)
      [] t.kind = "shieldEnd"   -> [h EXCEPT !.shield[t.arg] = FALSE]
      [] t.kind = "revive"      -> revive(h, t.arg)
      [] t.kind = "propGone"    -> evDestroyProp(h)
      [] t.kind = "status"      -> PropStatus(h)
      [] t.kind = "row"         -> aniFinish(h, t.arg)
      [] OTHER                  -> onGameResultShowFinished(h)

(* onTimer: the tasks that are due leave the list, or begin again, before    *)
(* the first of them runs; the youngest runs first.                         *)
onTimer(h) ==
    LET later == [i \in DOMAIN h.tasks |-> [h.tasks[i] EXCEPT !.left = @ - 1]]
        due == Kept(later, {i \in DOMAIN later : later[i].left = 0})
        kept == Kept(later, {i \in DOMAIN later : later[i].left > 0 \/ later[i].loop})
        again == [i \in DOMAIN kept |-> [kept[i] EXCEPT !.left = IF @ = 0 THEN 1 ELSE @]]
    IN  ForEach(Run, [h EXCEPT !.tasks = again], Reverse(due))

(* What a frame finds: things hit since the last one, of the enemies hit     *)
(* those that die, the prop a red one leaves ("none": no place for it, "no": *)
(* no red one was hit), who touches the prop (2: nobody), and whether a born *)
(* place is free.                                                           *)
UpPlayers(h) == {p \in Players : h.tank[p] = "up"}
UpEnemies(h) == h.enemies \ h.borning
(* After the end of a stage no tank moves, but one may be born on the prop.  *)
CanTouch(h, p) ==
    h.running \/ \E i \in DOMAIN h.tasks :
        h.tasks[i].kind = "shieldEnd" /\ h.tasks[i].arg = p /\ h.tasks[i].left = BornShield
Size(f) == Cardinality(f.players) + Cardinality(f.enemies)
           + (IF f.home THEN 1 ELSE 0) + (IF f.gain # 2 THEN 1 ELSE 0)
           + (IF f.drop # "no" THEN 1 ELSE 0)

Finds(h) == {f \in [
      home : {FALSE, h.home /\ (h.air.player > 0 \/ h.air.enemy > 0)},
      players : SUBSET (IF h.air.enemy > 0 THEN UpPlayers(h) ELSE {}),
      enemies : SUBSET (IF h.air.player > 0 THEN UpEnemies(h) ELSE {}),
      gain : {2} \cup (IF h.prop # "none" THEN {p \in UpPlayers(h) : CanTouch(h, p)} ELSE {}),
      drop : {"no"} \cup (IF h.created < MaxProps /\ h.air.player > 0 /\ UpEnemies(h) # {}
                          THEN getRandomPropType \cup {"none"} ELSE {}),
      place : BOOLEAN] : Size(f) <= MaxHits}

PropLast(h, f) ==
    IF f.gain \in Players THEN evDestroyProp(evGainProp(h, f.gain, f.place)) ELSE h
HomeLast(h, f) == IF f.home THEN gameOver([h EXCEPT !.home = FALSE]) ELSE h
PlayersLast(h, f) == ForEach(PlayerHit, h, SetToSeq(f.players))
EnemiesLast(h, f) ==
    LET Hit(a, n) == IF n \in UpEnemies(a) THEN evEnemyDead(a, n, f.place) ELSE a
        k == ForEach(Hit, h, SetToSeq(f.enemies))
    IN  IF f.drop = "no" THEN k ELSE evCreateProp(k, f.drop)

\* Mutant: the players' manager listens before the props' manager.
lastFramePlayersFirst(h, f) ==
    EnemiesLast(PropLast(PlayersLast(HomeLast(h, f), f), f), f)

(* EV_GL_LAST_FRAME_EVENT, in the order of registration. *)
lastFrame(h, f) ==
    EnemiesLast(PlayersLast(HomeLast(PropLast(h, f), f), f), f)

(* shoot: nobody once the game is over, a player needs the controls, an      *)
(* enemy stands still under the clock.                                      *)
CanShoot(h, team) ==
    /\ h.running \/ h.enemies # {}
    /\ ~h.gameOver
    /\ IF team = "player" THEN h.enable /\ \E p \in Players : h.tank[p] = "up"
       ELSE "static" \notin h.buff /\ UpEnemies(h) # {}
Shots(h, tick) ==
    [h EXCEPT !.air = [team \in DOMAIN @ |->
        CASE CanShoot(h, team) -> Flight
          [] ~CanShoot(h, team) /\ tick /\ @[team] > 0 -> @[team] - 1
          [] OTHER -> @[team]]]

(* A destroyed result page takes its tasks with it at the end of the frame. *)
Destroyed(h) ==
    [h EXCEPT !.tasks =
        Kept(@, {i \in DOMAIN @ : @[i].ctx = "Result" => @[i].arg.panel = h.panel})]

Played(h, f, tick) ==
    LET k == lastFrame(h, f)
        m == IF tick THEN onEnemyAdd(onTimer(k), f.place) ELSE k
    IN  Destroyed(Shots(m, tick))

\* Mutant: the start key is taken whatever the controls are set to.
startCodeAlways(h, press) == press

(* The start key of getPlayerOpeCode: nothing while the controls are off.    *)
startCode(h, press) == press /\ h.enable

onBtnStart(h) == IF h.running THEN [h EXCEPT !.pause = ~@] ELSE h

Frame(tick) ==
    LET h == IF Head(ops) THEN onBtnStart(g) ELSE g
    IN  \E f \in IF h.pause THEN {Nothing} ELSE Finds(h), press \in BOOLEAN :
            LET k == IF h.pause THEN h ELSE Played(h, f, tick)
            IN  /\ g.page \in {"game", "success"} /\ ~g.complete
                /\ press => g.pressed < MaxPress
                /\ g' = [k EXCEPT !.pressed = IF startCode(k, press) THEN @ + 1 ELSE @]
                /\ ops' = Append(Tail(ops), startCode(k, press))
                /\ parity' = IF tick THEN 1 - parity ELSE parity
                /\ UNCHANGED mode

SameStep == Frame(FALSE)
NextStep == Frame(TRUE)

(* evInitGameFinished and frame 0. *)
StartGame ==
    /\ g.page = "menu"
    /\ mode' \in Modes
    /\ g' = startGameStage([InitGame EXCEPT !.page = "game"], 1)'
    /\ ops' = [i \in 1..Lag |-> FALSE]
    /\ UNCHANGED parity

(* onNtfGameEnd. *)
NtfGameEnd ==
    /\ g.endSent /\ ~g.complete
    /\ g' = IF g.page = "success" THEN [g EXCEPT !.complete = TRUE, !.tasks = <<>>]
            ELSE goToMainMenu(g)
    /\ UNCHANGED <<mode, ops, parity>>

(* The user leaves: onKeyBack, the dialog of onNtfLeaveRoom, and             *)
(* onGameSuccessTimeOut, which waits online for the end of the game.        *)
Leave ==
    /\ g.page \in {"game", "success"}
    /\ g' = goToMainMenu(g)
    /\ UNCHANGED <<mode, ops, parity>>

Init ==
    /\ mode \in Modes /\ g = InitGame /\ parity = 0
    /\ ops = [i \in 1..Lag |-> FALSE]
Next == StartGame \/ SameStep \/ NextStep \/ NtfGameEnd \/ Leave

(* Frames go on coming, from the server or the local timer: weak fairness of *)
(* NextStep, written out (every NextStep changes the parity, and CanTick   *)
(* is when it is enabled).  The server answers the end of a game.           *)
CanTick == g.page \in {"game", "success"} /\ ~g.complete
TimePasses == []<>~CanTick \/ ([]<>(parity = 0) /\ []<>(parity = 1))

Spec == Init /\ [][Next]_vars /\ TimePasses /\ WF_vars(NtfGameEnd)

-----------------------------------------------------------------------------
Over(h) == h.running /\ (h.kills >= EnemyTotal \/ h.gameOver)

(* A game nobody is left in is over: a player who is dead without lives, or   *)
(* with no life under way, is never overlooked, whatever prop it gained in   *)
(* the frame of its death.                                                  *)
NobodyLeftEndsGame ==
    g.page = "game" =>
        \/ g.gameOver
        \/ \E p \in Players :
              \/ g.live[p] /\ g.tank[p] # "none"
              \/ \E i \in DOMAIN g.tasks : g.tasks[i].kind = "revive" /\ g.tasks[i].arg = p

(* A stage sends out no more enemies than it has, and no more at a time than *)
(* the difficulty allows, also when a bomb destroys all of them at once.    *)
EnemyBudget == getEnemyDeadTotalNum(g) + getEnemyAliveNum(g) <= EnemyTotal

(* When a stage begins, nothing the last one scheduled is left to change its *)
(* course: no revival, no end of a stage, no birth, no timer of a prop.  (The *)
(* end of a shield can be left: a helmet gained by a tank born after the end *)
(* of its stage.)                                                           *)
StageStartsClean ==
    [][(g'.stage = g.stage + 1) =>
        \A i \in DOMAIN g'.tasks :
            \/ g'.tasks[i].kind = "shieldEnd"
            \/ g'.tasks[i].kind \in {"start", "playerBorn"}
               /\ g'.tasks[i].left = g'.tasks[i].time]_vars

(* A stage that is won or lost ends, unless the game is paused or left.      *)
StageEnds == [](Over(g) => <>(~Over(g) \/ g.pause))

(* A paused game can be resumed: the start key is still taken, or on its way. *)
PauseCanEnd == g.pause => g.enable \/ \E i \in DOMAIN ops : ops[i]
=============================================================================
