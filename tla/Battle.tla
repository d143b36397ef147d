------------------------------- MODULE Battle -------------------------------
(***************************************************************************)
(* A battle between one player and one enemy: tanks that move, turn, shoot,  *)
(* die and are born again, the bullets under way, walls and the home base.  *)
(* A logic frame is five phases (GameLogicModel.onGameFrame): the events     *)
(* the last frame left, the timers, the player's operation, the enemy's,     *)
(* and the physics frames with their collisions.                            *)
(*                                                                         *)
(* What the game leaves to chance (the enemy's behaviour, the ends of        *)
(* animations and of the cool time of a shot) is a choice.                  *)
(***************************************************************************)
EXTENDS Tanks

CONSTANTS
    Reds,           \* whether the next enemy is a red one: a subset of BOOLEAN
    Clock           \* whether the clock prop turns up

ASSUME BattleAssumption == Reds \subseteq BOOLEAN /\ Reds # {} /\ Clock \in BOOLEAN

VARIABLES
    w,      \* the state of the battle, a record (see InitBattle)
    phase   \* of the logic frame: "last", "timer", "player", "ai", "physics"

vars == <<w, phase>>

-----------------------------------------------------------------------------
(* The phases of a logic frame. *)
To(p) == phase' = p

(* evGainProp of the clock comes first.                                     *)
ClockStarts(h) == {h} \cup (IF Clock THEN {[h EXCEPT !.static = TRUE]} ELSE {})

LastFrameEvent ==
    /\ phase = "last"
    /\ \E lost \in BOOLEAN, red \in Reds, k \in ClockStarts(w) :
        \E h \in EnemyActs(EnemyEvent(PlayerEvent(HomeEvent(destroyUnit(k)), lost), red)) :
            w' = ForEach(BulletEvent, h, IdSeq)
    /\ To("timer")

(* Born, shield, clock and revival end when their animations and timers do. *)
Born(h, t) ==
    LET up == [h EXCEPT !.tank[t].life = "up", !.tank[t].shield = t = "player"]
    IN  CASE h.tank[t].life # "borning" -> {h}
          [] h.tank[t].life = "borning" /\ t = "player" -> {h, up}
          [] OTHER -> {h} \cup moveOnBorn(up)
Unshield(h) == {h, [h EXCEPT !.tank["player"].shield = FALSE]}
ClockEnds(h) == {h, [h EXCEPT !.static = FALSE]}
\* evPlayerDead: a player that died starts again at level 1.
Revive(h) ==
    {h} \cup (IF h.tank["player"].life = "gone" THEN {[h EXCEPT !.tank["player"] = createPlayer(1)]} ELSE {})

onTimer ==
    /\ phase = "timer"
    /\ \E h \in Revive(w) : \E i \in Born(h, "enemy") : \E j \in Born(i, "player") :
        \E k \in ClockEnds(j) : w' \in Unshield(k)
    /\ To("player")

onPlayerMove(h, d) == IF h.tank["player"].life = "up" THEN setMove(h, "player", d) ELSE h
onStopMove(h) == [h EXCEPT !.tank["player"].move = FALSE]

(* With the game over the input is not read (effectInput gets zeros).       *)
onPlayerOperation ==
    /\ phase = "player"
    /\ \E h \in IF w.over THEN {onStopMove(w)} ELSE {onStopMove(w)} \cup {onPlayerMove(w, d) : d \in Directions} :
        w' \in IF w.over THEN {h} ELSE {h, shoot(h, "player")}
    /\ To("ai")

onEnemyAdd(h, red) == IF h.tank["enemy"].life = "gone" THEN addOneEnemy(h, red) ELSE h
onEnemyBehavior(h) == IF h.tank["enemy"].life = "gone" THEN {h} ELSE onBehaviorTimer(h)

\* Two clocks say whether an enemy may be added and whether enemies act.
evAiOperation ==
    /\ phase = "ai"
    /\ \E red \in Reds : \E h \in {w, onEnemyAdd(w, red)} : w' \in {h} \cup onEnemyBehavior(h)
    /\ To("physics")

PhysicsFrame(h, n) ==
    onCollisionDetection(ForEach(BulletUpdate, TankUpdate(TankUpdate(h, "player"), "enemy"), IdSeq))
Physics ==
    /\ phase = "physics"
    /\ w' = ForEach(PhysicsFrame, w, [n \in 1..PhysicsFrames |-> n])
    /\ To("last")

Init == (\E red \in Reds : w = InitBattle(red)) /\ phase = "timer"
Next == LastFrameEvent \/ onTimer \/ onPlayerOperation \/ evAiOperation \/ Physics
\* The frame clock (see core) goes on: every phase comes again.
Fairness == []<>(phase = "last") /\ []<>(phase = "physics")
Spec == Init /\ [][Next]_vars /\ Fairness

-----------------------------------------------------------------------------
(* Properties. *)

(* Bullet.ts:106 counts on it: a bullet flies along a line of the grid, so   *)
(* the two map units beside its path are those it hits.                     *)
ShotsOnGrid ==
    \A b \in Live(w) : w.bullet[b].pos[3 - Axis(w.bullet[b].dir)] % Unit = 0

(* One bullet has one target: what says it was hit by a bullet is what that  *)
(* bullet says it hit, whatever order the collisions of a frame come in.    *)
OneBulletOneTarget ==
    /\ \A b \in Live(w), t \in OnField(w) :
            (w.bullet[b].hit = <<"tank", t>>) <=> (w.tank[t].hit = <<"bullet", b>>)
    /\ \A b, c \in Live(w) :
            (w.bullet[b].hit = <<"bullet", c>>) <=> (w.bullet[c].hit = <<"bullet", b>>)
    /\ \A b \in Ids : w.home /\ w.homeHit = <<"bullet", b>> => w.bullet[b].hit = <<"homebase">>
    /\ \A t \in OnField(w) : w.tank[t].hit # NoHit => w.tank[t].hit[2] \in Live(w)

(* A tank is never kept from shooting by bullets that are gone, also when it *)
(* or its shooter died while they flew.                                     *)
AmmoComesBack ==
    \A t \in OnField(w) :
        w.tank[t].bulletNum <= Cardinality({b \in Live(w) : w.bullet[b].shooter = t})

(* No bullet flies for ever, or stands where a tank it cannot hit has        *)
(* stopped it: its place in the pool comes back.                            *)
BulletsEnd == \A b \in Ids : []<>(b \notin Live(w))
=============================================================================
