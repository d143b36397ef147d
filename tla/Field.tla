------------------------------- MODULE Field -------------------------------
(***************************************************************************)
(* The geometry of a battle: rectangles, the grid, what stands in the way   *)
(* of a tank or a bullet, and how a turning tank is put back on the grid.   *)
(* Lengths are integers; a map unit (10 pixels) is Unit long, a scenery     *)
(* has 2 x 2 units, a tank and the home base 4 x 4.                         *)
(* A direction is a unit vector, so that the four cases the code spells out *)
(* are one formula over the axes 1 (x) and 2 (y).                           *)
(***************************************************************************)
EXTENDS Integers, FiniteSets

CONSTANTS
    Unit,           \* length of a map unit
    Cols, Rows      \* sceneries in a row and in a column of the field

ASSUME FieldAssumption ==
    /\ Unit \in Nat \ {0} /\ Cols \in Nat \ {0} /\ Rows \in Nat \ {0}

Width == 2 * Unit           \* getSceneryWidth
TankWidth == 4 * Unit
Size == <<Cols * Width, Rows * Width>>
BulletHalf == Unit \div 2   \* 4 pixels in the game

Up == <<0, 1>>      Left == <<-1, 0>>       Down == <<0, -1>>       Right == <<1, 0>>
Directions == {Up, Left, Down, Right}
Axis(d) == IF d[1] # 0 THEN 1 ELSE 2
Opposite(d) == <<-d[1], -d[2]>>

-----------------------------------------------------------------------------
(* Rectangles. *)
Smaller(a, b) == IF a < b THEN a ELSE b
Larger(a, b) == IF a < b THEN b ELSE a

Rect(lo, hi) == [lo |-> lo, hi |-> hi]
Square(pos, width) == Rect(pos, <<pos[1] + width, pos[2] + width>>)

intersection(a, b) ==
    Rect(<<Larger(a.lo[1], b.lo[1]), Larger(a.lo[2], b.lo[2])>>,
         <<Smaller(a.hi[1], b.hi[1]), Smaller(a.hi[2], b.hi[2])>>)
isRectOverlap(a, b) ==
    LET c == intersection(a, b) IN c.lo[1] < c.hi[1] /\ c.lo[2] < c.hi[2]
containsRect(a, b) == \A i \in 1..2 : a.lo[i] <= b.lo[i] /\ b.hi[i] <= a.hi[i]

FieldRect == Rect(<<0, 0>>, Size)
isValidRect(r) == containsRect(FieldRect, r)
getBoundaryRects == {
    Rect(<<-Unit, 0>>, <<0, Size[2]>>),         Rect(<<0, -Unit>>, <<Size[1], 0>>),
    Rect(<<Size[1], 0>>, <<Size[1] + Unit, Size[2]>>),
    Rect(<<0, Size[2]>>, <<Size[1], Size[2] + Unit>>)}

(* The grid: a matrix position is a map unit, four of them are a scenery.    *)
sceneToMatrixPosition(pos) == <<pos[1] \div Unit, pos[2] \div Unit>>
matrixToSceneryPosition(rc) == <<rc[1] \div 2, rc[2] \div 2>>
matrixToScenePosition(rc) == <<rc[1] * Unit, rc[2] * Unit>>
UnitRect(rc) == Square(matrixToScenePosition(rc), Unit)
sceneryToMatrixPosition(s) == <<2 * s[1], 2 * s[2]>>
sceneToSceneryPosition(pos) == matrixToSceneryPosition(sceneToMatrixPosition(pos))
UnitsOfScenery(s) ==
    LET rc == sceneryToMatrixPosition(s) IN {<<rc[1] + i, rc[2] + j>> : i \in 0..1, j \in 0..1}

-----------------------------------------------------------------------------
(* Movement. *)
getMovePosition(pos, d, n) == <<pos[1] + d[1] * n, pos[2] + d[2] * n>>

(* The strip a square covers when it moves by n in the direction d.         *)
getMoveRect(r, d, n) ==
    LET lo(i) == CASE d[i] > 0 -> r.hi[i] [] d[i] < 0 -> r.lo[i] - n [] OTHER -> r.lo[i]
        hi(i) == CASE d[i] > 0 -> r.hi[i] + n [] d[i] < 0 -> r.lo[i] [] OTHER -> r.hi[i]
    IN  Rect(<<lo(1), lo(2)>>, <<hi(1), hi(2)>>)

(* A tank's position is its lower left corner, a bullet's is its middle.     *)
getTankRect(pos) == Square(pos, TankWidth)
getBulletRect(pos) == Square(<<pos[1] - BulletHalf, pos[2] - BulletHalf>>, 2 * BulletHalf)
getTankMoveRect(pos, d, n) == getMoveRect(getTankRect(pos), d, n)
getBulletMoveRect(pos, d, n) == getMoveRect(getBulletRect(pos), d, n)

(* How far the near side of r lies ahead of a square's front, and the        *)
(* nearest of the obstacles (getNearGameRect).                              *)
Near(r, d) == IF d[Axis(d)] > 0 THEN r.lo[Axis(d)] ELSE -r.hi[Axis(d)]
Front(r, d) == IF d[Axis(d)] > 0 THEN r.hi[Axis(d)] ELSE -r.lo[Axis(d)]
getNearGameRect(obstacles, d) ==
    {o \in obstacles : \A p \in obstacles : Near(o.rect, d) <= Near(p.rect, d)}

(* The distance to the obstacle if there is one, else n: 0 says that there   *)
(* is no new position.                                                      *)
Reach(r, obstacles, d, n) ==
    IF obstacles = {} THEN n
    ELSE LET near == CHOOSE o \in getNearGameRect(obstacles, d) : TRUE
         IN  Larger(Near(near.rect, d) - Front(r, d), 0)

(* A turn by a quarter puts the tank on a multiple of the scenery's width:   *)
(* the nearest, and the lower of two unless it came from the other side.    *)
isNeedCorrectPosition(old, new) == new \notin {old, Opposite(old)}

Nearest(v, old) ==
    LET off == v % Width
    IN  IF 2 * off > Width \/ (2 * off = Width /\ old <= 0)
        THEN v - off + Width ELSE v - off

getCorrectPosition(pos, old, new) ==
    CASE ~isNeedCorrectPosition(old, new) -> pos
      [] isNeedCorrectPosition(old, new) /\ Axis(new) = 2 -> <<Nearest(pos[1], old[1]), pos[2]>>
      [] OTHER         -> <<pos[1], Nearest(pos[2], old[2])>>

(* Muzzles: the middle of the tank's front.                                 *)
Muzzle(pos, d) ==
    <<pos[1] + 2 * Unit + d[1] * 2 * Unit, pos[2] + 2 * Unit + d[2] * 2 * Unit>>
=============================================================================
