------------------------------- MODULE Drive -------------------------------
(***************************************************************************)
(* The player's tank on a field of two dimensions as the user sees it: the   *)
(* game decides in logic frames where the tank and its bullets are, and the  *)
(* render frames in between draw them on their way there, at their speed.    *)
(* A logic frame is played only when something was drawn since the last one  *)
(* (_renderUpdated); a client that catches up after a reconnect draws every  *)
(* thing where it is (_netGameDxxw).  Red enemies, who are not here, leave a *)
(* prop now and then, which needs free ground.                              *)
(***************************************************************************)
EXTENDS Tanks

CONSTANT Times      \* times between two pictures, in physics frames

ASSUME DriveAssumption == Times \subseteq Nat

VARIABLES
    field,      \* the state of the battle; its enemy is gone
    view,       \* where the node of the tank is
    bulletView, \* and those of the bullets under way
    prop,       \* the prop: its place, and whether it is gained
    moment,     \* "drawn": _renderUpdated is set; "moving": within a frame; "played"
    dxxw        \* catching up (_netGameDxxw)

driveVars == <<field, view, bulletView, prop, moment, dxxw>>

NoProp == [there |-> FALSE]
Player == field.tank["player"]

-----------------------------------------------------------------------------
(* Pictures. *)
Line(at, pos, d) == IF Axis(d) = 2 THEN <<pos[1], at[2]>> ELSE <<at[1], pos[2]>>

\* Mutant: what moves is drawn at its speed, however near its place is.
DrawPast(at, pos, d, n) ==
    IF Line(at, pos, d) = pos THEN pos ELSE getMovePosition(Line(at, pos, d), d, n)

(* A picture shows the thing on the line it moves along, nearer by n to its  *)
(* place, or there.                                                         *)
Draw(at, pos, d, n) ==
    LET next == getMovePosition(Line(at, pos, d), d, n)
    IN  IF (pos[Axis(d)] - next[Axis(d)]) * d[Axis(d)] >= 0 THEN next ELSE pos

DrawnSpeed(at) ==
    TankSpeed + (IF \E s \in getSceneryNodesInRect(field, getTankRect(at)) : Map[s] = "ice"
                 THEN IceSpeed ELSE 0)
DrawTank(t) ==
    LET k == Player IN Draw(view, k.pos, k.dir, DrawnSpeed(Line(view, k.pos, k.dir)) * t)

\* Mutant: a tank that stands is not drawn any nearer.
updateMoving(t) ==
    CASE dxxw -> Player.pos [] ~dxxw /\ Player.move -> DrawTank(t) [] OTHER -> view

update(t) == IF dxxw THEN Player.pos ELSE DrawTank(t)

bulletUpdate(id, t) ==
    LET b == field.bullet[id]
    IN  CASE ~b.live -> <<0, 0>>
          [] b.live /\ dxxw -> b.pos
          [] OTHER -> Draw(bulletView[id], b.pos, b.dir, BulletSpeed * t)

Render ==
    /\ moment \in {"drawn", "played"}
    /\ \E t \in Times : /\ view' = update(t)
                        /\ bulletView' = [id \in Ids |-> bulletUpdate(id, t)]
    /\ moment' = "drawn"
    /\ UNCHANGED <<field, prop, dxxw>>

-----------------------------------------------------------------------------
(* Props: a place of four by four units without home base, sceneries (but    *)
(* those that can be crossed or shot away) and tanks.                       *)
Block(rc, cols, rows) == {<<rc[1] + i, rc[2] + j>> : i \in 0..cols - 1, j \in 0..rows - 1}

\* Mutant: the last column or row of a tank between two is not counted.
getTankContainRcInfoArrayCut(pos) == Block(sceneToMatrixPosition(pos), 4, 4)

getTankContainRcInfoArray(pos) ==
    LET n(i) == IF pos[i] % Unit = 0 THEN 4 ELSE 5
    IN  Block(sceneToMatrixPosition(pos), n(1), n(2))
getSceneryContainPosAry(h, s) == UnitsOfScenery(s) \cap h.units

Taken(h, except) ==
    Block(HomePos, 4, 4)
    \cup (UNION {getSceneryContainPosAry(h, s) : s \in {x \in DOMAIN Map : Map[x] \notin except}})
    \cup (UNION {getTankContainRcInfoArray(h.tank[t].pos) : t \in OnField(h)})
getEmptyMatrixArray(h, except) ==
    {rc \in (0..2 * Cols - 4) \X (0..2 * Rows - 4) : Block(rc, 4, 4) \cap Taken(h, except) = {}}
getRandomPropPosition(h) == getEmptyMatrixArray(h, {"grass", "wall", "ice"})

PropRect(rc) == Square(matrixToScenePosition(rc), TankWidth)
evCreateProp(rc) == [there |-> TRUE, pos |-> rc, gained |-> FALSE]

(* The prop that was gained goes, the next one replaces what is left.        *)
PropLast == IF prop.there /\ prop.gained THEN NoProp ELSE prop

(* The player's tank meets the prop: it waits for the next frame.           *)
Meets(h, q) ==
    q.there /\ h.tank["player"].life = "up" /\ isRectOverlap(PropRect(q.pos), getTankRect(h.tank["player"].pos))

-----------------------------------------------------------------------------
(* A logic frame: what the last one left and the timers, then the player's   *)
(* operation and the physics frames.                                        *)
Come(h) == IF h.tank["player"].life = "borning" THEN [h EXCEPT !.tank["player"].life = "up"] ELSE h

LastFrame ==
    /\ moment = "drawn"
    /\ LET k == HomeEvent(destroyUnit(field))
           h == ForEach(BulletEvent, PlayerEvent(k, FALSE), IdSeq)
       IN  /\ field' \in {h, Come(h)}
           /\ prop' \in {PropLast, NoProp} \cup {evCreateProp(rc) : rc \in getRandomPropPosition(k)}
    /\ moment' = "moving"
    /\ UNCHANGED <<view, bulletView, dxxw>>

(* A physics frame of the battle and its prop, a pair.                      *)
DriveFrame(hq, n) ==
    LET h == ForEach(BulletUpdate, TankUpdate(hq[1], "player"), IdSeq)
    IN  IF Meets(h, hq[2])
        THEN <<onCollisionDetection([h EXCEPT !.tank["player"].update = FALSE]),
               [hq[2] EXCEPT !.gained = TRUE]>>
        ELSE <<onCollisionDetection(h), hq[2]>>
Moved(h) == ForEach(DriveFrame, <<h, prop>>, [n \in 1..PhysicsFrames |-> n])

(* A tank that is put on the grid and a bullet that leaves are drawn where   *)
(* they are at once.                                                        *)
Put(h, d) == IF isNeedCorrectPosition(field.tank["player"].dir, d) THEN h.tank["player"].pos ELSE view
PutBullets(h) ==
    [id \in Ids |-> IF id \in Live(h) \ Live(field) THEN h.bullet[id].pos
                    ELSE IF id \in Live(h) THEN bulletView[id] ELSE <<0, 0>>]

Play(h, at) ==
    /\ view' = at
    /\ \E k \in {h, shoot(h, "player")} :
        /\ bulletView' = PutBullets(k)
        /\ LET m == Moved(k) IN field' = m[1] /\ prop' = m[2]

PlayerFrame ==
    /\ moment = "moving"
    /\ \/ Play([field EXCEPT !.tank["player"].move = FALSE], view)
       \/ \E d \in Directions :
            /\ Player.life = "up" /\ ~field.over
            /\ LET h == setMove(field, "player", d) IN Play(h, Put(h, d))
    /\ moment' = "played"
    /\ UNCHANGED dxxw

CaughtUp ==
    /\ dxxw /\ moment # "moving" /\ dxxw' = FALSE
    /\ UNCHANGED <<field, view, bulletView, prop, moment>>

DriveInit ==
    /\ field = [InitBattle(FALSE) EXCEPT !.tank["enemy"] = NoTank("enemy", "gone")]
    /\ view = Player.pos /\ bulletView = [id \in Ids |-> <<0, 0>>]
    /\ prop = NoProp /\ moment = "drawn" /\ dxxw \in BOOLEAN
DriveNext == LastFrame \/ PlayerFrame \/ Render \/ CaughtUp
\* A frame is played to its end, and pictures are drawn as long as the game is open.
DriveFairness == []<>(moment # "moving") /\ WF_driveVars(Render)
DriveSpec == DriveInit /\ [][DriveNext]_driveVars /\ DriveFairness

-----------------------------------------------------------------------------
(* Properties. *)
Ahead(at, pos, d) ==
    \/ at[3 - Axis(d)] # pos[3 - Axis(d)]
    \/ (at[Axis(d)] - pos[Axis(d)]) * d[Axis(d)] > 0

(* What is drawn is never off the line a thing moves along, or farther than  *)
(* the game let it go: no tank is seen in a wall that stops it, no bullet    *)
(* beyond what it hits, whatever the times between pictures are and however  *)
(* the tank turned in between.                                              *)
NeverSeenAhead ==
    [][Render => /\ ~Ahead(view', Player.pos, Player.dir)
                 /\ \A id \in Live(field) :
                        ~Ahead(bulletView'[id], field.bullet[id].pos, field.bullet[id].dir)]_driveVars

(* The picture catches up: a tank that stays where it is is seen there.      *)
Goes == Player'.pos # Player.pos
SeenWhereItIs == []<>(view = Player.pos) \/ []<><<Goes>>_driveVars

(* A prop appears where it can be seen and reached: on no tank, not in the    *)
(* home base and on no scenery that stays, also next to a tank between two   *)
(* columns of the grid.                                                     *)
PropOnFreeGround ==
    [][prop'.there /\ prop' # prop /\ ~prop'.gained =>
        /\ \A t \in OnField(field') : ~isRectOverlap(PropRect(prop'.pos), getTankRect(field'.tank[t].pos))
        /\ ~isRectOverlap(PropRect(prop'.pos), HomeRect)
        /\ Sceneries(field', {"steel", "water"}, PropRect(prop'.pos)) = {}]_driveVars
=============================================================================
