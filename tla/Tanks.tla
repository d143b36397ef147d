------------------------------- MODULE Tanks -------------------------------
(***************************************************************************)
(* What the tanks, the bullets, the sceneries and the home base of a battle *)
(* between one player and one enemy do: moving, turning, shooting, hitting, *)
(* dying.  As in Stage a handler is a function of the battle's record.      *)
(***************************************************************************)
EXTENDS Field, Sequences

CONSTANTS
    Map,            \* the type of scenery at each scenery position that has one
    HomePos,        \* PLACE_HOMEBASE, a map unit
    BornPos,        \* born place of "player" and of "enemy", map units
    PlayerLevel,    \* level of the player when it is born
    EnemyLevel,     \* maxLevel of the enemy
    EnemyBullets,   \* maxBulletNum of the enemy
    TankSpeed, BulletSpeed,     \* lengths moved in a physics frame
    IceSpeed,       \* TANK_ICE_ADD_SPEED
    PhysicsFrames,  \* physics frames of a logic frame
    MaxBullets      \* bound: bullets under way

ASSUME TanksAssumption ==
    /\ {PlayerLevel, EnemyLevel, EnemyBullets, TankSpeed, BulletSpeed,
        PhysicsFrames, MaxBullets} \subseteq Nat \ {0}
    /\ IceSpeed \in Nat
    /\ DOMAIN Map \subseteq (0..Cols - 1) \X (0..Rows - 1)
    /\ \A s \in DOMAIN Map : Map[s] \in {"wall", "steel", "water", "grass", "ice"}

Tanks == {"player", "enemy"}

ASSUME PlacesAssumption == HomePos \in Int \X Int /\ BornPos \in [Tanks -> Int \X Int]

Ids == 0..MaxBullets - 1
NoHit == <<"none">>
BornPlace(t) == matrixToScenePosition(BornPos[t])
ProtectLevel == 4           \* PLAYER_LEVEL_PROTECT_ONCE_DEAD

(* A tank as createPlayer and createEnemyTank put it on the field.  reset    *)
(* leaves the direction, which setMoveDirction sets.  blocked: the enemy is  *)
(* trying to break through, or about to turn away (_bTryMoving, _bTryShoot,  *)
(* _bChangeDir).  hit names the bullet that hit the tank; it lives until the *)
(* next frame, and _hitedPower is its power.                                *)
reset(t) == [
    life |-> "borning", pos |-> BornPlace(t), dir |-> IF t = "player" THEN Up ELSE Down,
    level |-> 1, move |-> FALSE, shield |-> FALSE, bulletNum |-> 0, red |-> FALSE,
    hit |-> NoHit, update |-> TRUE, blocked |-> FALSE]
setAttributes(k, t) == [k EXCEPT !.level = IF t = "player" THEN PlayerLevel ELSE EnemyLevel]
createPlayer(level) == [setAttributes(reset("player"), "player") EXCEPT !.level = level]
createEnemyTank(red) == [setAttributes(reset("enemy"), "enemy") EXCEPT !.red = red]

\* What is left of a tank that was destroyed.
NoTank(t, how) == [reset(t) EXCEPT !.life = how]
NoBullet == [live |-> FALSE]

InitBattle(red) == [
    tank |-> [t \in Tanks |-> IF t = "player" THEN createPlayer(PlayerLevel)
                              ELSE createEnemyTank(red)],
    bullet |-> [b \in Ids |-> NoBullet],
    units |-> UNION {UnitsOfScenery(s) : s \in DOMAIN Map},
    hited |-> {}, home |-> TRUE, homeHit |-> NoHit, over |-> FALSE, static |-> FALSE]
\* units are the map units still shown, hited those in an _hitedIndex; static
\* says that the clock stops the enemies (PROP_BUFF_STATIC).

ForEach(op(_, _), h, s) ==
    LET after[i \in 0..Len(s)] == IF i = 0 THEN h ELSE op(after[i - 1], s[i])
    IN  after[Len(s)]

Live(h) == {b \in Ids : h.bullet[b].live}
OnField(h) == {t \in Tanks : h.tank[t].life \in {"borning", "up"}}
UpTanks(h) == {t \in Tanks : h.tank[t].life = "up"}
HomeRect == getTankRect(matrixToScenePosition(HomePos))

-----------------------------------------------------------------------------
(* What stands in the way. *)
TypeAt(rc) ==
    LET s == matrixToSceneryPosition(rc) IN IF s \in DOMAIN Map THEN Map[s] ELSE "none"

(* The sceneries that overlap a rectangle, of those around it.              *)
isOverlapWithRect(h, s, r) ==
    \E rc \in UnitsOfScenery(s) \cap h.units : isRectOverlap(r, UnitRect(rc))
getSceneryNodesInRect(h, r) ==
    LET first == sceneToSceneryPosition(r.lo)
        last == sceneToSceneryPosition(r.hi)
    IN  {s \in DOMAIN Map : /\ s[1] \in first[1]..last[1] /\ s[2] \in first[2]..last[2]
                            /\ isOverlapWithRect(h, s, r)}
isTankOnIceScenery(h, t) ==
    \E s \in getSceneryNodesInRect(h, getTankRect(h.tank[t].pos)) : Map[s] = "ice"

Obstacle(group, r) == [group |-> group, rect |-> r]
getOverlapSceneryRects(h, s, r) ==
    {Obstacle("scenery", UnitRect(rc)) :
        rc \in {u \in UnitsOfScenery(s) \cap h.units : isRectOverlap(r, UnitRect(u))}}
Sceneries(h, types, r) ==
    UNION {getOverlapSceneryRects(h, s, r) :
            s \in {x \in getSceneryNodesInRect(h, r) : Map[x] \in types}}
Boundaries(r) ==
    {Obstacle("boundary", b) : b \in {x \in getBoundaryRects : isRectOverlap(r, x)}}

getTankCollisionRectWhenMove(h, t, r) ==
    Boundaries(r) \cup Sceneries(h, {"wall", "steel", "water"}, r)
    \cup {Obstacle("homebase", x) : x \in {y \in {HomeRect} : isRectOverlap(r, y)}}
    \cup {Obstacle("tank", getTankRect(h.tank[o].pos)) :
            o \in {x \in OnField(h) \ {t} : isRectOverlap(r, getTankRect(h.tank[x].pos))}}

getBulletCollisionRectWhenMove(h, r) ==
    Boundaries(r) \cup Sceneries(h, {"wall", "steel"}, r)

(* How far a tank moves: not at all when it stands or, an enemy, under the   *)
(* clock.                                                                   *)
Speed(h, t) == TankSpeed + (IF isTankOnIceScenery(h, t) THEN IceSpeed ELSE 0)
calcMoveDistance(h, t) ==
    IF h.tank[t].move /\ ~(t = "enemy" /\ h.static) THEN Speed(h, t) ELSE 0

(* How far tank t, standing at pos, can move by n in the direction d.       *)
canMoveFromAToBEx(h, t, pos, d, n) ==
    Reach(getTankRect(pos), getTankCollisionRectWhenMove(h, t, getTankMoveRect(pos, d, n)), d, n)

-----------------------------------------------------------------------------
(* Tanks: turning, shooting, moving. *)
\* Mutant: a tank that turns is not put back on the grid.
setMoveOffGrid(h, t, d) == [h EXCEPT !.tank[t].dir = d, !.tank[t].move = TRUE]

setMove(h, t, d) ==
    [h EXCEPT !.tank[t].pos = getCorrectPosition(@, h.tank[t].dir, d),
              !.tank[t].dir = d, !.tank[t].move = TRUE]

\* An enemy that turns gives up what it was trying.
setMoveEnemy(h, d) ==
    IF h.static THEN h
    ELSE [setMove(h, "enemy", d) EXCEPT !.tank["enemy"].blocked = @ /\ d = h.tank["enemy"].dir]

getBulletPowerLevel(h, t) == IF t = "player" /\ h.tank[t].level = 4 THEN 2 ELSE 1
maxBulletNum(h, t) ==
    CASE t = "enemy" -> EnemyBullets
      [] t = "player" /\ h.tank[t].level >= 3 -> 2
      [] OTHER -> 1

NewBullet(k, t, power) == [
    live |-> TRUE, pos |-> Muzzle(k.pos, k.dir), dir |-> k.dir, shooter |-> t,
    power |-> power, hit |-> NoHit, update |-> TRUE]
evCreateBullet(h, t) ==
    LET free == Ids \ Live(h)
        id == CHOOSE b \in free : \A c \in free : b <= c
    IN  [h EXCEPT !.bullet[id] = NewBullet(h.tank[t], t, getBulletPowerLevel(h, t))]

CanShoot(h, t) ==
    /\ h.tank[t].life = "up" /\ ~h.over
    /\ h.tank[t].bulletNum < maxBulletNum(h, t)
    /\ Live(h) # Ids
shoot(h, t) ==
    IF CanShoot(h, t) THEN [evCreateBullet(h, t) EXCEPT !.tank[t].bulletNum = @ + 1] ELSE h

shootEnemy(h) == IF h.static THEN h ELSE shoot(h, "enemy")

\* The tank waits for the next logic frame; an enemy takes note.
onMoveFailed(h, t) ==
    [h EXCEPT !.tank[t].update = FALSE, !.tank[t].blocked = @ \/ (t = "enemy" /\ ~h.over)]
onMoveSuccess(h, t) == [h EXCEPT !.tank[t].blocked = FALSE]

TankUpdate(h, t) ==
    LET k == h.tank[t]
        diff == calcMoveDistance(h, t)
        n == canMoveFromAToBEx(h, t, k.pos, k.dir, diff)
    IN  CASE ~k.update \/ k.life # "up" \/ diff = 0 -> h
          [] k.update /\ k.life = "up" /\ diff > 0 /\ n > 0 ->
                onMoveSuccess([h EXCEPT !.tank[t].pos = getMovePosition(@, k.dir, n)], t)
          [] OTHER -> onMoveFailed(h, t)

(* The directions an enemy may choose: where it can move, all of them when   *)
(* it stands, and the obstacles it may attack, that is all but the boundary. *)
getAvailableMoveDirections(h, t) ==
    LET k == h.tank[t]
        n == calcMoveDistance(h, t)
    IN  {d \in Directions :
            n = 0 \/ canMoveFromAToBEx(h, t, getCorrectPosition(k.pos, k.dir, d), d, n) > 0}
isOutBoundaryDirction(h, t, d) ==
    ~isValidRect(getTankMoveRect(h.tank[t].pos, d, calcMoveDistance(h, t)))
getAllMoveDirectionsCanChoose(h, t) ==
    getAvailableMoveDirections(h, t) \cup {d \in Directions : ~isOutBoundaryDirction(h, t, d)}

(* The weights of the choice are left out; with nothing to choose from the   *)
(* tank goes on as it was.                                                  *)
chooseOneDirctionMove(h, dirs) ==
    IF dirs = {} THEN {h} ELSE {setMoveEnemy(h, d) : d \in dirs}
moveOnBorn(h) == chooseOneDirctionMove(h, getAllMoveDirectionsCanChoose(h, "enemy"))
(* A tank that moves takes another direction and, by chance, not the         *)
(* opposite one.                                                            *)
changeMoveDirectionEx(h) ==
    LET k == h.tank["enemy"]
        dirs == getAllMoveDirectionsCanChoose(h, "enemy") \ (IF k.move THEN {k.dir} ELSE {})
    IN  chooseOneDirctionMove(h, dirs) \cup
        (IF k.move THEN chooseOneDirctionMove(h, dirs \ {Opposite(k.dir)}) ELSE {})
\* Now and then the enemy turns or shoots, the enemy being born among them.
onBehaviorTimer(h) ==
    UNION {{k, shootEnemy(k)} : k \in {h} \cup changeMoveDirectionEx(h)}

-----------------------------------------------------------------------------
(* A bullet hits sceneries: the two units at its point, one more on each     *)
(* side, and with power 2 the row behind them.                              *)
HitInfos(b, front) ==
    LET at == sceneToMatrixPosition(IF Axis(b.dir) = 2 THEN <<b.pos[1], front.lo[2]>>
                                    ELSE <<front.lo[1], b.pos[2]>>)
    IN  IF Axis(b.dir) = 2
        THEN {[at |-> at, side |-> Right], [at |-> <<at[1] - 1, at[2]>>, side |-> Left]}
        ELSE {[at |-> at, side |-> Up], [at |-> <<at[1], at[2] - 1>>, side |-> Down]}

(* hitFunc spreads over sceneries of one type.                              *)
Spread(b, info) ==
    LET Same(rc) == TypeAt(rc) # "none" /\ TypeAt(rc) = TypeAt(info.at)
        side == getMovePosition(info.at, info.side, 1)
        behind == getMovePosition(info.at, b.dir, 1)
        both == getMovePosition(side, b.dir, 1)
    IN  {info.at, side} \cup
        (IF b.power < 2 THEN {}
         ELSE {behind} \cup (IF Same(side) \/ Same(behind) THEN {both} ELSE {}))

dealHitScenery(h, b, front) ==
    LET Hit(i) == {rc \in Spread(b, i) : TypeAt(rc) # "none" /\ TypeAt(rc) = TypeAt(i.at)}
        all == UNION {Hit(i) : i \in HitInfos(b, front)}
        walls == {rc \in all \ h.hited : TypeAt(rc) = "wall"}
        steels == {rc \in all \ h.hited : TypeAt(rc) = "steel"}
        gone == walls \cup (IF b.power < 2 THEN {}
                            ELSE UNION {UnitsOfScenery(matrixToSceneryPosition(rc)) : rc \in steels})
    IN  [hit |-> walls \cup steels # {}, gone |-> gone]

tryMoveFromAToBEx(h, id) ==
    LET b == h.bullet[id]
        obstacles == getBulletCollisionRectWhenMove(h, getBulletMoveRect(b.pos, b.dir, BulletSpeed))
        near == getNearGameRect(obstacles, b.dir)
        front == {o \in near : o.group = "scenery"}
        n == Reach(getBulletRect(b.pos), obstacles, b.dir, BulletSpeed)
        moved == [b EXCEPT !.pos = getMovePosition(@, b.dir, n)]
        Stopped(hit) == [moved EXCEPT !.hit = hit, !.update = FALSE]
        deal == dealHitScenery(h, b, (CHOOSE o \in front : TRUE).rect)
    IN  CASE obstacles = {} -> [h EXCEPT !.bullet[id] = moved]
          [] near # {} /\ front = {} -> [h EXCEPT !.bullet[id] = Stopped(<<"boundary">>)]
          [] OTHER ->
                [h EXCEPT !.hited = @ \cup deal.gone,
                          !.bullet[id] = Stopped(IF deal.hit THEN <<"scenery">> ELSE NoHit)]

BulletUpdate(h, id) ==
    IF h.bullet[id].live /\ h.bullet[id].update THEN tryMoveFromAToBEx(h, id) ELSE h

-----------------------------------------------------------------------------
(* Collisions: dispatchCollision tells the bullet first, then the other.     *)
Team(t) == t

(* onHited of a bullet and of a tank: they remember what they met.          *)
HitBullet(h, id, name) ==
    IF h.bullet[id].hit # NoHit THEN h
    ELSE [h EXCEPT !.bullet[id].hit = name, !.bullet[id].update = FALSE]
HitTank(h, t, id) == [h EXCEPT !.tank[t].hit = <<"bullet", id>>, !.tank[t].update = FALSE]

(* Bullet id meets something that was hit by `hit', of the given name.       *)
BulletMeets(h, id, hit, name) ==
    LET k == IF hit \in {NoHit, <<"bullet", id>>} THEN HitBullet(h, id, name) ELSE h
    IN  [k EXCEPT !.bullet[id].update = FALSE]

BulletBullet(h, i, j) ==
    LET k == IF h.bullet[i].hit # NoHit THEN h
             ELSE BulletMeets(h, i, h.bullet[j].hit, <<"bullet", j>>)
    IN  IF k.bullet[j].hit # NoHit THEN k ELSE BulletMeets(k, j, k.bullet[i].hit, <<"bullet", i>>)

(* A tank a bullet of another tank has met waits for the next frame.        *)
Stops(h, t, id) == [h EXCEPT !.tank[t].update = @ /\ h.bullet[id].shooter = t]

\* Mutant: a tank is hit by every bullet of the other team that touches it.
TankMeetsAnyBullet(h, t, id) ==
    LET hits == h.bullet[id].shooter # t
    IN  IF h.tank[t].hit # NoHit THEN h
        ELSE Stops(IF hits THEN HitTank(h, t, id) ELSE h, t, id)

TankMeets(h, t, id) ==
    LET b == h.bullet[id]
        hits == Team(b.shooter) # Team(t) /\ b.hit \in {NoHit, <<"tank", t>>}
    IN  IF h.tank[t].hit # NoHit THEN h
        ELSE Stops(IF hits THEN HitTank(h, t, id) ELSE h, t, id)

BulletTank(h, id, t) ==
    LET k == IF h.bullet[id].hit # NoHit \/ h.bullet[id].shooter = t THEN h
             ELSE BulletMeets(h, id, h.tank[t].hit, <<"tank", t>>)
    IN  TankMeets(k, t, id)

BulletHome(h, id) ==
    LET k == IF h.bullet[id].hit # NoHit THEN h
             ELSE BulletMeets(h, id, h.homeHit, <<"homebase">>)
    IN  IF k.homeHit = NoHit /\ k.bullet[id].hit \in {NoHit, <<"homebase">>}
        THEN [k EXCEPT !.homeHit = <<"bullet", id>>] ELSE k

IdSeq == [i \in 1..MaxBullets |-> i - 1]

(* Bullet i meets the bullets after it, the player, the enemy and the base. *)
CollideOne(h, i) ==
    LET rect(id) == getBulletRect(h.bullet[id].pos)
        Meets(r) == isRectOverlap(rect(i), r)
        WithBullet(k, j) == IF j > i /\ j \in Live(h) /\ Meets(rect(j)) THEN BulletBullet(k, i, j) ELSE k
        WithTank(k, t) ==
            IF t \in UpTanks(h) /\ Meets(getTankRect(h.tank[t].pos)) THEN BulletTank(k, i, t) ELSE k
        tanks == ForEach(WithTank, ForEach(WithBullet, h, IdSeq), <<"player", "enemy">>)
    IN  IF i \notin Live(h) THEN h
        ELSE IF Meets(HomeRect) THEN BulletHome(tanks, i) ELSE tanks
onCollisionDetection(h) == ForEach(CollideOne, h, IdSeq)

-----------------------------------------------------------------------------
(* What the last frame left (onLogicLastFrameEvent). *)
destroyUnit(h) == [h EXCEPT !.units = @ \ h.hited]

HomeEvent(h) ==
    IF h.homeHit # NoHit /\ h.home THEN [h EXCEPT !.home = FALSE, !.over = TRUE] ELSE h

Unhit(h, t) == [h EXCEPT !.tank[t].hit = NoHit]
LevelDown(h, t, n) == [Unhit(h, t) EXCEPT !.tank[t].level = @ - n]
dead(h, t, how) == [h EXCEPT !.tank[t] = NoTank(t, how)]

(* The player's last tank (lost) is the end of the game.  A hit that does    *)
(* not kill leaves the tank's update off.                                   *)
PlayerEvent(h, lost) ==
    LET k == h.tank["player"]
    IN  CASE k.life \notin {"borning", "up"} -> h
          [] k.life \in {"borning", "up"} /\ k.hit = NoHit -> [h EXCEPT !.tank["player"].update = TRUE]
          [] k.hit # NoHit /\ k.shield -> Unhit(h, "player")
          [] k.hit # NoHit /\ ~k.shield /\ k.level >= ProtectLevel -> LevelDown(h, "player", 1)
          [] OTHER -> [dead(h, "player", IF lost THEN "lost" ELSE "gone") EXCEPT !.over = @ \/ lost]

hasTankInRect(h, r, but) == \E t \in OnField(h) \ but : isRectOverlap(r, getTankRect(h.tank[t].pos))
addOneEnemy(h, red) ==
    IF hasTankInRect(h, getTankRect(BornPlace("enemy")), {})
    THEN h ELSE [h EXCEPT !.tank["enemy"] = createEnemyTank(red)]

(* A red tank takes its first hit as a prop.  The next enemy, red or not,    *)
(* may come as soon as one is dead.                                         *)
EnemyEvent(h, red) ==
    LET k == h.tank["enemy"]
        unred == [Unhit(h, "enemy") EXCEPT !.tank["enemy"].red = FALSE]
        hitCount == h.bullet[k.hit[2]].power - (IF k.red THEN 1 ELSE 0)
    IN  CASE k.life = "gone" -> h
          [] k.life # "gone" /\ k.hit = NoHit -> [h EXCEPT !.tank["enemy"].update = TRUE]
          [] k.hit # NoHit /\ hitCount = 0 -> unred
          [] k.hit # NoHit /\ hitCount > 0 /\ k.level > hitCount -> LevelDown(unred, "enemy", hitCount)
          [] OTHER -> addOneEnemy(dead(h, "enemy", "gone"), red)

(* An enemy that was stopped shoots at what stops it or turns away.          *)
EnemyActs(h) ==
    {h} \cup (IF h.tank["enemy"].life # "up" \/ ~h.tank["enemy"].blocked \/ ~h.tank["enemy"].update THEN {}
              ELSE {shootEnemy(h)} \cup changeMoveDirectionEx(h))

evReduceBullet(h, t) == [h EXCEPT !.tank[t].bulletNum = IF @ > 0 THEN @ - 1 ELSE 0]

\* Mutant: the bullet is destroyed and its shooter not told.
evDestroyBulletQuietly(h, id) == [h EXCEPT !.bullet[id] = NoBullet]

evDestroyBullet(h, id) == evReduceBullet([h EXCEPT !.bullet[id] = NoBullet], h.bullet[id].shooter)

\* Mutant: a bullet that was stopped and hit nothing stays where it is.
BulletEventStops(h, id) ==
    IF id \in Live(h) /\ h.bullet[id].hit # NoHit THEN evDestroyBullet(h, id) ELSE h

BulletEvent(h, id) ==
    CASE id \notin Live(h) -> h
      [] id \in Live(h) /\ h.bullet[id].hit # NoHit -> evDestroyBullet(h, id)
      [] OTHER -> [h EXCEPT !.bullet[id].update = TRUE]
=============================================================================
