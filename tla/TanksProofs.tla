----------------------------- MODULE TanksProofs ----------------------------
(* Theorems about Battle and Drive: what their runs check of one field holds *)
(* of every field, unit, level, speed and number of bullets that Tanks       *)
(* assumes.                                                                 *)
(*                                                                          *)
(* The invariant has two parts.  Fit: tanks and bullets are on lines of the  *)
(* grid, and nobody counts more shots than fly.  Linked, between a physics   *)
(* frame and the events of the next: who was hit and who hit it agree; Clear *)
(* at all other times: no hit is left over.  A phase goes through tanks and  *)
(* bullets in loops; what each pass preserves (Sound) the loop does.  Drive  *)
(* has the same field with one tank on it, and what is drawn beside it.      *)
EXTENDS Battle, Drive, TLAPS, FiniteSetTheorems, WellFoundedInduction
-----------------------------------------------------------------------------
(* The invariant *)

\* The fields of the records, and the positions that are on a line of the grid.
TankFields == {"life", "pos", "dir", "level", "move", "shield", "bulletNum", "red", "hit",
               "update", "blocked"}
BulletFields == {"live", "pos", "dir", "shooter", "power", "hit", "update"}
Fields == {"tank", "bullet", "units", "hited", "home", "homeHit", "over", "static"}

\* What goes in the direction d keeps to a line of the grid.
Across(d) == 3 - Axis(d)
OnLine(pos, d) == pos \in Int \X Int /\ d \in Directions /\ pos[Across(d)] % Unit = 0

\* A tank that is not on the field cannot be hit.
Afield(k) == k.life \in {"borning", "up"}
TankOK(k) ==
    /\ DOMAIN k = TankFields /\ OnLine(k.pos, k.dir) /\ k.bulletNum \in Nat
    /\ k.life \in {"borning", "up", "gone", "lost"} /\ (Afield(k) \/ k.hit = NoHit)
BulletOK(k) == DOMAIN k = BulletFields /\ OnLine(k.pos, k.dir) /\ k.shooter \in Tanks

\* The units of the field.
Units == (0..2 * Cols - 1) \X (0..2 * Rows - 1)
World(h) ==
    DOMAIN h = Fields /\ DOMAIN h.tank = Tanks /\ DOMAIN h.bullet = Ids /\ h.units \subseteq Units

\* Nobody counts more bullets than fly.
Shots(h, t) == {b \in Live(h) : h.bullet[b].shooter = t}
Ammo(h) == \A t \in Tanks : h.tank[t].bulletNum <= Cardinality(Shots(h, t))

Fit(h) ==
    /\ World(h)
    /\ \A t \in Tanks : TankOK(h.tank[t])
    /\ \A b \in Live(h) : BulletOK(h.bullet[b])
    /\ Ammo(h)

\* Who was hit, and by whom.
AtTank(t) == <<"tank", t>>
AtBullet(b) == <<"bullet", b>>
AtHome == <<"homebase">>

\* What was hit by a bullet is what the bullet hit: tanks, bullets and the base.
TankLinks(h) == \A b \in Live(h), t \in OnField(h) :
                    h.bullet[b].hit = AtTank(t) <=> h.tank[t].hit = AtBullet(b)
BulletLinks(h) == \A b, c \in Live(h) :
                      h.bullet[b].hit = AtBullet(c) <=> h.bullet[c].hit = AtBullet(b)
Stands(h) == h.home
HomeLinks(h) == \A b \in Ids : Stands(h) /\ h.homeHit = AtBullet(b) => h.bullet[b].hit = AtHome

\* A tank is hit by a bullet that is still there.
TankHits(h) == \A t \in OnField(h) :
                   h.tank[t].hit = NoHit \/ \E b \in Live(h) : h.tank[t].hit = AtBullet(b)

\* A bullet that met something does not fly on.
Flies(s) == s.update
Flying(h) == \A b \in Live(h) : Flies(h.bullet[b]) => h.bullet[b].hit = NoHit

Linked(h) == TankLinks(h) /\ BulletLinks(h) /\ HomeLinks(h) /\ TankHits(h) /\ Flying(h)

\* The hits of a frame have been dealt with.
HomeClear(h) == Stands(h) => h.homeHit = NoHit
TanksClear(h) == \A t \in Tanks : h.tank[t].hit = NoHit
BulletsClear(h) == \A b \in Live(h) : h.bullet[b].hit = NoHit
Mended(h) == HomeClear(h) /\ TanksClear(h)
Clear(h) == Mended(h) /\ BulletsClear(h)

\* The events of the last frame are dealt with first: then no hit is left.
IInv ==
    /\ Fit(w)
    /\ IF phase = "last" THEN Linked(w) ELSE Clear(w)

-----------------------------------------------------------------------------
(* Numbers and finite sets *)

\* Induction over the numbers up to n.
LEMMA UpTo ==
  ASSUME NEW n \in Nat, NEW T, 0 \in T, \A i \in 0..n : i < n /\ i \in T => i + 1 \in T
  PROVE  \A i \in 0..n : i \in T
<1> SUFFICES ASSUME NEW j \in 0..n, j \notin T PROVE FALSE
  OBVIOUS
<1> DEFINE B == {i \in 0..n : i \notin T}
<1>1. B \subseteq Nat /\ B # {}
  OBVIOUS
<1> HIDE DEF B
<1>2. PICK x \in B : \A y \in B : ~ (<<y, x>> \in OpToRel(<, Nat))
  BY <1>1, NatLessThanWellFounded, WFMin
<1>3. x \in 0..n /\ x \notin T
  BY DEF B
<1>4. x # 0 /\ x - 1 \in 0..n /\ x - 1 < n /\ (x - 1) + 1 = x
  BY <1>3
<1>5. x - 1 \notin B
  <2>1. x - 1 \in Nat /\ x \in Nat /\ x - 1 < x
    BY <1>3, <1>4
  <2>2. <<x - 1, x>> \in OpToRel(<, Nat)
    BY <2>1 DEF OpToRel
  <2> QED BY <1>2, <2>2
<1> QED BY <1>3, <1>4, <1>5 DEF B

\* Of finitely many things one is the least.
LEMMA LeastOne ==
  ASSUME NEW S, IsFiniteSet(S), S # {}, NEW f \in [S -> Int]
  PROVE  \E x \in S : \A y \in S : f[x] <= f[y]
<1>1. PICK n \in Nat : ExistsSurjection(1..n, S)
  BY FS_NatSurjection
<1>2. PICK s \in [1..n -> S] : \A x \in S : \E i \in 1..n : s[i] = x
  BY <1>1 DEF ExistsSurjection, Surjection
<1> DEFINE T == {i \in 0..n : i = 0 \/ \E m \in 1..i : \A j \in 1..i : f[s[m]] <= f[s[j]]}
<1>3. 0 \in T
  OBVIOUS
<1>4. ASSUME NEW i \in 0..n, i < n, i \in T PROVE i + 1 \in T
  <2>1. i + 1 \in 0..n /\ \A j \in 1..(i + 1) : j \in 1..i \/ j = i + 1
    BY <1>4
  <2>2. \A j \in 1..(i + 1) : f[s[j]] \in Int
    BY <1>2, <1>4
  <2>3. CASE i = 0
    BY <2>1, <2>2, <2>3
  <2>4. CASE i # 0
    <3>1. PICK m \in 1..i : \A j \in 1..i : f[s[m]] <= f[s[j]]
      BY <1>4, <2>4
    <3>2. CASE f[s[m]] <= f[s[i + 1]]
      <4>1. \A j \in 1..(i + 1) : f[s[m]] <= f[s[j]]
        BY <2>1, <3>1, <3>2
      <4>2. m \in 1..(i + 1)
        BY <1>4, <3>1
      <4> QED BY <2>1, <4>1, <4>2
    <3>3. CASE ~(f[s[m]] <= f[s[i + 1]])
      <4>1. \A j \in 1..(i + 1) : f[s[i + 1]] <= f[s[j]]
        BY <2>1, <2>2, <3>1, <3>3
      <4> QED BY <2>1, <4>1
    <3> QED BY <3>2, <3>3
  <2> QED BY <2>3, <2>4
<1> HIDE DEF T
<1>5. n \in T
  <2>1. \A i \in 0..n : i < n /\ i \in T => i + 1 \in T
    BY <1>4
  <2>2. \A i \in 0..n : i \in T
    BY <1>1, <1>3, <2>1, UpTo
  <2> QED BY <1>1, <2>2
<1>6. n # 0
  BY <1>2
<1>7. PICK m \in 1..n : \A j \in 1..n : f[s[m]] <= f[s[j]]
  BY <1>5, <1>6 DEF T
<1> QED BY <1>2, <1>7

\* A number that can be given out: the least of those that are free.
LEMMA LeastFree ==
  ASSUME NEW S, S \subseteq Ids, S # {}
  PROVE  (CHOOSE b \in S : \A c \in S : b <= c) \in S
<1>1. Ids \subseteq Nat /\ IsFiniteSet(Ids)
  <2>1. MaxBullets \in Nat \ {0}
    BY TanksAssumption
  <2> QED BY <2>1, FS_Interval DEF Ids
<1>2. IsFiniteSet(S)
  BY <1>1, FS_Subset
<1> DEFINE f == [b \in S |-> b]
<1>3. f \in [S -> Int]
  BY <1>1
<1>4. \E x \in S : \A y \in S : f[x] <= f[y]
  <2> HIDE DEF f
  <2> QED BY <1>2, <1>3, LeastOne
<1> QED BY <1>4

\* Division leaves a remainder.
LEMMA Division ==
  ASSUME NEW a \in Int, NEW b \in Nat \ {0}
  PROVE  a = b * (a \div b) + (a % b) /\ a % b \in 0..(b - 1) /\ a \div b \in Int
<1> DEFINE r == a % b
           q == a \div b
           p == b * q
<1>1. r \in 0..(b - 1) /\ q \in Int
  OBVIOUS
<1>2. r = a - p
  OBVIOUS
<1> HIDE DEF q, r
<1>3. p \in Int
  BY <1>1
<1> HIDE DEF p
<1>4. a = p + r
  BY <1>1, <1>2, <1>3
<1> QED BY <1>1, <1>4 DEF p, q, r

\* A multiple of the unit lies on the grid.
LEMMA Multiple ==
  ASSUME NEW n \in Int
  PROVE  Unit * n \in Int /\ (Unit * n) % Unit = 0
<1> DEFINE q == (Unit * n) \div Unit
           r == (Unit * n) % Unit
           m == n - q
<1>1. Unit \in Nat \ {0} /\ Unit * n \in Int
  BY FieldAssumption
<1>2. Unit * n = Unit * q + r /\ r \in 0..(Unit - 1) /\ q \in Int
  BY <1>1, Division
<1> HIDE DEF q, r
<1>3. m \in Int /\ Unit * m = r
  BY <1>1, <1>2
<1> HIDE DEF m
<1>4. ~(m >= 1)
  BY <1>1, <1>2, <1>3
<1>5. ~(m <= -1)
  BY <1>1, <1>2, <1>3
<1>6. m = 0 => r = 0
  BY <1>1, <1>3
<1>7. r = 0
  BY <1>3, <1>4, <1>5, <1>6
<1> QED BY <1>1, <1>7 DEF r

\* What lies on the grid is a multiple.
LEMMA GridIs ==
  ASSUME NEW a \in Int, a % Unit = 0
  PROVE  \E n \in Int : a = Unit * n
<1>1. Unit \in Nat \ {0}
  BY FieldAssumption
<1> DEFINE n == a \div Unit
<1>2. a = Unit * n + (a % Unit) /\ n \in Int
  BY <1>1, Division
<1> HIDE DEF n
<1>3. Unit * n \in Int
  BY <1>1, <1>2
<1>4. a = Unit * n
  BY <1>2, <1>3
<1> QED BY <1>2, <1>4

\* Tanks are born, and the home base stands, at map units.
HomePlace == matrixToScenePosition(HomePos)
UnitAt(pos) == pos \in Int \X Int /\ pos[1] % Unit = 0 /\ pos[2] % Unit = 0

\* A map unit is on the grid.
LEMMA UnitsAre ==
  ASSUME NEW rc \in Int \X Int
  PROVE  UnitAt(matrixToScenePosition(rc))
<1>1. PICK x, y \in Int : rc = <<x, y>>
  OBVIOUS
<1>2. Unit \in Nat /\ x * Unit = Unit * x /\ y * Unit = Unit * y
  BY FieldAssumption
<1>3. /\ Unit * x \in Int /\ (Unit * x) % Unit = 0
      /\ Unit * y \in Int /\ (Unit * y) % Unit = 0
  BY Multiple
<1>4. matrixToScenePosition(rc) = <<Unit * x, Unit * y>>
  BY <1>1, <1>2 DEF matrixToScenePosition
<1> QED BY <1>3, <1>4 DEF UnitAt

\* ... and so are these.
LEMMA PlacesAre ==
  /\ HomePlace[1] \in Int /\ HomePlace[2] \in Int
  /\ \A t \in Tanks : BornPlace(t) \in Int \X Int /\ BornPlace(t)[1] % Unit = 0
<1>1. UnitAt(HomePlace)
  BY PlacesAssumption, UnitsAre DEF HomePlace
<1>2. ASSUME NEW t \in Tanks PROVE UnitAt(BornPlace(t))
  BY PlacesAssumption, UnitsAre DEF BornPlace
<1> QED BY <1>1, <1>2 DEF UnitAt

\* The middle of a tank's side is two units from its end.
LEMMA TwoUnits ==
  ASSUME NEW a \in Int, a % Unit = 0
  PROVE  a + 2 * Unit \in Int /\ (a + 2 * Unit) % Unit = 0
<1>1. Unit \in Nat \ {0}
  BY FieldAssumption
<1>2. PICK n \in Int : a = Unit * n
  BY GridIs
<1>3. n + 2 \in Int /\ a + 2 * Unit = Unit * (n + 2) /\ a + 2 * Unit \in Int
  BY <1>1, <1>2
<1>4. (Unit * (n + 2)) % Unit = 0
  BY <1>3, Multiple
<1> QED BY <1>3, <1>4

\* A tank that turns is put on the grid.
LEMMA NearestIs ==
  ASSUME NEW v \in Int, NEW old \in Int
  PROVE  Nearest(v, old) \in Int /\ Nearest(v, old) % Unit = 0
<1> DEFINE q == v \div Width
           off == v % Width
<1>1. Width \in Nat \ {0} /\ Unit \in Nat \ {0} /\ Width = 2 * Unit
  BY FieldAssumption DEF Width
<1>2. v = Width * q + off /\ off \in Int /\ q \in Int
  <2>1. v = Width * q + off /\ off \in 0..(Width - 1) /\ q \in Int
    BY <1>1, Division
  <2> QED BY <1>1, <2>1
<1>3. Nearest(v, old) = v - off \/ Nearest(v, old) = v - off + Width
  BY DEF Nearest
<1> HIDE DEF q, off
<1>4. v - off = Unit * (2 * q)
  BY <1>1, <1>2
<1>5. v - off \in Int /\ (v - off) % Unit = 0
  <2>1. 2 * q \in Int
    BY <1>2
  <2> QED BY <1>4, <2>1, Multiple
<1>6. v - off + Width \in Int /\ (v - off + Width) % Unit = 0
  BY <1>1, <1>5, TwoUnits
<1> QED BY <1>3, <1>5, <1>6

-----------------------------------------------------------------------------
(* What a handler changes *)

\* The base is as it was.
Homes(h, k) == k.home = h.home /\ k.homeHit = h.homeHit

\* Nothing changed but the tank t, nothing but the bullet b, no tank and no
\* bullet.
OnlyTank(h, k, t) ==
    /\ World(k) /\ k.bullet = h.bullet /\ Homes(h, k)
    /\ \A u \in Tanks : u # t => k.tank[u] = h.tank[u]
OnlyBullet(h, k, b) ==
    /\ World(k) /\ k.tank = h.tank /\ Homes(h, k)
    /\ \A c \in Ids : c # b => k.bullet[c] = h.bullet[c]
Aside(h, k) == World(k) /\ k.tank = h.tank /\ k.bullet = h.bullet

Alive(s) == s.live

\* A bullet that lives flies.
LEMMA LiveIs ==
  ASSUME NEW h, NEW b
  PROVE  b \in Live(h) <=> b \in Ids /\ Alive(h.bullet[b])
BY DEF Live, Alive

\* The same bullets fly.
LEMMA LiveSame ==
  ASSUME NEW h, NEW k, \A b \in Ids : Alive(k.bullet[b]) <=> Alive(h.bullet[b])
  PROVE  Live(k) = Live(h)
<1>1. \A b : b \in Live(k) <=> b \in Live(h)
  BY LiveIs
<1> QED BY <1>1

\* A tank is on the field while it is being born and once it is up.
LEMMA OnFieldIs ==
  ASSUME NEW h, NEW t
  PROVE  /\ t \in OnField(h) <=> t \in Tanks /\ Afield(h.tank[t])
         /\ t \in UpTanks(h) => t \in Tanks /\ Afield(h.tank[t]) /\ h.tank[t].life = "up"
<1>1. t \in OnField(h) <=> t \in Tanks /\ Afield(h.tank[t])
  BY DEF OnField, Afield
<1>2. t \in UpTanks(h) => t \in Tanks /\ Afield(h.tank[t]) /\ h.tank[t].life = "up"
  BY DEF UpTanks, Afield
<1> QED BY <1>1, <1>2

\* There are finitely many bullets.
LEMMA ShotsFinite ==
  ASSUME NEW h, NEW t
  PROVE  /\ IsFiniteSet(Shots(h, t)) /\ Cardinality(Shots(h, t)) \in Nat
         /\ Shots(h, t) \subseteq Ids /\ Live(h) \subseteq Ids
<1>1. IsFiniteSet(Ids)
  <2>1. MaxBullets \in Nat \ {0}
    BY TanksAssumption
  <2> QED BY <2>1, FS_Interval DEF Ids
<1>2. Shots(h, t) \subseteq Ids /\ Live(h) \subseteq Ids
  BY DEF Shots, Live
<1>3. IsFiniteSet(Shots(h, t))
  BY <1>1, <1>2, FS_Subset
<1> QED BY <1>2, <1>3, FS_CardinalityType

\* The same bullets of the same shooters.
LEMMA ShotsSame ==
  ASSUME NEW h, NEW k, NEW t, Live(k) = Live(h),
         \A b \in Live(h) : k.bullet[b].shooter = h.bullet[b].shooter
  PROVE  Shots(k, t) = Shots(h, t)
BY DEF Shots

\* A tank that changes its place or its mood leaves the field in order.
LEMMA TankFits ==
  ASSUME NEW h, NEW k, NEW t \in Tanks, Fit(h), OnlyTank(h, k, t), TankOK(k.tank[t]),
         k.tank[t].bulletNum <= h.tank[t].bulletNum
  PROVE  Fit(k) /\ Live(k) = Live(h)
<1>1. k.bullet = h.bullet /\ World(k) /\ \A u \in Tanks : u # t => k.tank[u] = h.tank[u]
  BY DEF OnlyTank
<1>2. Live(k) = Live(h)
  BY <1>1 DEF Live
<1>3. \A u \in Tanks : TankOK(k.tank[u])
  BY <1>1 DEF Fit
<1>4. \A b \in Live(k) : BulletOK(k.bullet[b])
  BY <1>1, <1>2 DEF Fit
<1>5. Ammo(k)
  <2> SUFFICES ASSUME NEW u \in Tanks PROVE k.tank[u].bulletNum <= Cardinality(Shots(k, u))
    BY DEF Ammo
  <2>1. Shots(k, u) = Shots(h, u)
    BY <1>1, <1>2 DEF Shots
  <2>2. h.tank[u].bulletNum <= Cardinality(Shots(h, u))
    BY DEF Fit, Ammo
  <2>3. h.tank[u].bulletNum \in Nat /\ k.tank[u].bulletNum \in Nat
    BY <1>3 DEF Fit, TankOK
  <2>4. Cardinality(Shots(h, u)) \in Nat
    BY ShotsFinite
  <2>5. k.tank[u].bulletNum <= h.tank[u].bulletNum
    BY <1>1, <2>3
  <2> QED BY <2>1, <2>2, <2>3, <2>4, <2>5
<1> QED BY <1>1, <1>2, <1>3, <1>4, <1>5 DEF Fit

\* So does a bullet that flies on or meets something.
LEMMA BulletFits ==
  ASSUME NEW h, NEW k, NEW b \in Live(h), Fit(h), OnlyBullet(h, k, b), BulletOK(k.bullet[b]),
         Alive(k.bullet[b]), k.bullet[b].shooter = h.bullet[b].shooter
  PROVE  Fit(k) /\ Live(k) = Live(h)
<1>1. k.tank = h.tank /\ World(k) /\ \A c \in Ids : c # b => k.bullet[c] = h.bullet[c]
  BY DEF OnlyBullet
<1>2. b \in Ids /\ Alive(h.bullet[b])
  BY LiveIs
<1>3. Live(k) = Live(h)
  BY <1>1, <1>2, LiveSame
<1>4. \A c \in Live(h) : c # b => k.bullet[c] = h.bullet[c]
  BY <1>1, LiveIs
<1>5. \A c \in Live(k) : BulletOK(k.bullet[c])
  BY <1>3, <1>4 DEF Fit
<1>6. Ammo(k)
  <2>1. \A c \in Live(h) : k.bullet[c].shooter = h.bullet[c].shooter
    BY <1>4
  <2>2. \A u : Shots(k, u) = Shots(h, u)
    BY <1>3, <2>1, ShotsSame
  <2> QED BY <1>1, <2>2 DEF Ammo, Fit
<1> QED BY <1>1, <1>3, <1>5, <1>6 DEF Fit

\* What is neither a tank nor a bullet does not matter here.
LEMMA AsideFits ==
  ASSUME NEW h, NEW k, Fit(h), Aside(h, k)
  PROVE  Fit(k) /\ Live(k) = Live(h) /\ OnField(k) = OnField(h)
<1>1. k.tank = h.tank /\ k.bullet = h.bullet /\ World(k)
  BY DEF Aside
<1>2. Live(k) = Live(h) /\ OnField(k) = OnField(h)
  BY <1>1 DEF Live, OnField
<1>3. \A u : Shots(k, u) = Shots(h, u)
  BY <1>1, <1>2 DEF Shots
<1>4. Ammo(k)
  BY <1>1, <1>3 DEF Ammo, Fit
<1> QED BY <1>1, <1>2, <1>4 DEF Fit

-----------------------------------------------------------------------------
(* Who was hit, by whom *)

\* The names of what is hit differ.
LEMMA Names ==
  /\ \A t, u : AtTank(t) = AtTank(u) => t = u
  /\ \A b, c : AtBullet(b) = AtBullet(c) => b = c
  /\ \A t, b : AtTank(t) # AtBullet(b)
  /\ \A t : AtTank(t) # NoHit /\ AtTank(t) # AtHome
  /\ \A b : AtBullet(b) # NoHit /\ AtBullet(b) # AtHome
  /\ AtHome # NoHit
<1>1. \A t, u : AtTank(t) = AtTank(u) => t = u
  BY DEF AtTank
<1>2. \A b, c : AtBullet(b) = AtBullet(c) => b = c
  BY DEF AtBullet
<1>3. \A t, b : AtTank(t) # AtBullet(b)
  <2>1. "tank" # "bullet"
    OBVIOUS
  <2> QED BY <2>1 DEF AtTank, AtBullet
<1>4. \A x, y, t : <<x, t>> # <<y>>
  OBVIOUS
<1>5. AtHome # NoHit
  BY DEF AtHome, NoHit
<1> QED BY <1>1, <1>2, <1>3, <1>4, <1>5 DEF AtTank, AtBullet, AtHome, NoHit

\* What a bullet meets beside tanks, bullets and the base.
LEMMA OtherNames ==
  ASSUME NEW x \in {<<"boundary">>, <<"scenery">>}
  PROVE  x # NoHit /\ x # AtHome /\ (\A t : x # AtTank(t)) /\ \A b : x # AtBullet(b)
<1>1. \A y, z, t : <<y, t>> # <<z>>
  OBVIOUS
<1>2. x # NoHit /\ x # AtHome
  BY DEF NoHit, AtHome
<1>3. (\A t : x # AtTank(t)) /\ \A b : x # AtBullet(b)
  BY <1>1 DEF AtTank, AtBullet
<1> QED BY <1>2, <1>3

\* The base stands or lies as it did.
LEMMA HomesIs ==
  ASSUME NEW h, NEW k, Homes(h, k)
  PROVE  (Stands(k) <=> Stands(h)) /\ k.homeHit = h.homeHit
BY DEF Homes, Stands

\* A tank that nothing hit.
LEMMA ClearTank ==
  ASSUME NEW h, NEW k, NEW t \in Tanks, OnlyTank(h, k, t),
         k.tank[t].hit = NoHit \/ k.tank[t].hit = h.tank[t].hit
  PROVE  (Mended(h) => Mended(k)) /\ (Clear(h) => Clear(k))
<1>1. k.bullet = h.bullet /\ Homes(h, k) /\ \A u \in Tanks : u # t => k.tank[u] = h.tank[u]
  BY DEF OnlyTank
<1>2. Live(k) = Live(h)
  BY <1>1 DEF Live
<1>3. BulletsClear(h) => BulletsClear(k)
  BY <1>1, <1>2 DEF BulletsClear
<1>4. TanksClear(h) => TanksClear(k)
  BY <1>1 DEF TanksClear
<1>5. HomeClear(h) => HomeClear(k)
  BY <1>1, HomesIs DEF HomeClear
<1> QED BY <1>3, <1>4, <1>5 DEF Clear, Mended

\* What is neither a tank nor a bullet nor the base.
LEMMA ClearAside ==
  ASSUME NEW h, NEW k, Aside(h, k), Homes(h, k)
  PROVE  (Mended(h) => Mended(k)) /\ (Clear(h) => Clear(k)) /\ (Linked(h) => Linked(k))
<1>1. k.bullet = h.bullet /\ k.tank = h.tank
  BY DEF Aside
<1>2. Live(k) = Live(h) /\ OnField(k) = OnField(h)
  BY <1>1 DEF Live, OnField
<1>3. (Mended(h) => Mended(k)) /\ (Clear(h) => Clear(k))
  <2>1. (BulletsClear(h) => BulletsClear(k)) /\ (TanksClear(h) => TanksClear(k))
    BY <1>1, <1>2 DEF BulletsClear, TanksClear
  <2>2. HomeClear(h) => HomeClear(k)
    BY HomesIs DEF HomeClear
  <2> QED BY <2>1, <2>2 DEF Clear, Mended
<1>4. ASSUME Linked(h) PROVE Linked(k)
  <2>1. TankLinks(k) /\ BulletLinks(k)
    BY <1>1, <1>2, <1>4 DEF Linked, TankLinks, BulletLinks
  <2>2. TankHits(k) /\ Flying(k)
    BY <1>1, <1>2, <1>4 DEF Linked, TankHits, Flying
  <2>3. HomeLinks(k)
    BY <1>1, <1>4, HomesIs DEF Linked, HomeLinks
  <2> QED BY <2>1, <2>2, <2>3 DEF Linked
<1> QED BY <1>3, <1>4

\* Nothing was hit, so nothing was hit by something else.
LEMMA ClearLinked ==
  ASSUME NEW h, Clear(h)
  PROVE  Linked(h)
<1>1. \A t \in OnField(h) : h.tank[t].hit = NoHit
  BY OnFieldIs DEF Clear, Mended, TanksClear
<1>2. \A b \in Live(h) : h.bullet[b].hit = NoHit
  BY DEF Clear, BulletsClear
<1>3. TankLinks(h) /\ BulletLinks(h)
  BY <1>1, <1>2, Names DEF TankLinks, BulletLinks
<1>4. TankHits(h) /\ Flying(h)
  BY <1>1, <1>2 DEF TankHits, Flying
<1>5. HomeLinks(h)
  BY Names DEF Clear, Mended, HomeClear, HomeLinks
<1> QED BY <1>3, <1>4, <1>5 DEF Linked

\* A tank that moves or waits is hit by what hit it.
LEMMA LinkedTank ==
  ASSUME NEW h, NEW k, NEW t \in Tanks, Linked(h), OnlyTank(h, k, t),
         k.tank[t].hit = h.tank[t].hit, Afield(k.tank[t]) => Afield(h.tank[t])
  PROVE  Linked(k)
<1>1. k.bullet = h.bullet /\ Homes(h, k) /\ \A u \in Tanks : u # t => k.tank[u] = h.tank[u]
  BY DEF OnlyTank
<1>2. Live(k) = Live(h)
  BY <1>1 DEF Live
<1>3. \A u \in OnField(k) : u \in OnField(h) /\ k.tank[u].hit = h.tank[u].hit
  BY <1>1, OnFieldIs
<1>4. TankLinks(k)
  BY <1>1, <1>2, <1>3 DEF Linked, TankLinks
<1>5. BulletLinks(k)
  BY <1>1, <1>2 DEF Linked, BulletLinks
<1>6. TankHits(k)
  BY <1>2, <1>3 DEF Linked, TankHits
<1>7. Flying(k)
  BY <1>1, <1>2 DEF Linked, Flying
<1>8. HomeLinks(k)
  BY <1>1, HomesIs DEF Linked, HomeLinks
<1> QED BY <1>4, <1>5, <1>6, <1>7, <1>8 DEF Linked

\* A bullet meets the boundary, a scenery, the base or nothing.
LEMMA LinkedBullet ==
  ASSUME NEW h, NEW k, NEW b \in Live(h), Linked(h), OnlyBullet(h, k, b), Live(k) = Live(h),
         h.bullet[b].hit = NoHit, k.bullet[b].hit \in {NoHit, AtHome, <<"boundary">>, <<"scenery">>},
         Flies(k.bullet[b]) => k.bullet[b].hit = NoHit
  PROVE  Linked(k)
<1>1. k.tank = h.tank /\ Homes(h, k) /\ \A c \in Ids : c # b => k.bullet[c] = h.bullet[c]
  BY DEF OnlyBullet
<1>2. \A c \in Live(h) : c # b => k.bullet[c] = h.bullet[c]
  BY <1>1, LiveIs
<1>3. OnField(k) = OnField(h)
  BY <1>1 DEF OnField
<1> DEFINE x == k.bullet[b].hit
<1>4. (\A t : x # AtTank(t)) /\ \A c : x # AtBullet(c)
  BY Names, OtherNames
<1>5. TankLinks(k)
  <2> SUFFICES ASSUME NEW c \in Live(k), NEW t \in OnField(k)
               PROVE  k.bullet[c].hit = AtTank(t) <=> k.tank[t].hit = AtBullet(c)
    BY DEF TankLinks
  <2>1. h.bullet[c].hit = AtTank(t) <=> h.tank[t].hit = AtBullet(c)
    BY <1>3 DEF Linked, TankLinks
  <2>2. CASE c # b
    BY <1>1, <1>2, <2>1, <2>2
  <2>3. CASE c = b
    BY <1>1, <1>4, <2>1, <2>3, Names
  <2> QED BY <2>2, <2>3
<1>6. BulletLinks(k)
  <2> SUFFICES ASSUME NEW c \in Live(k), NEW d \in Live(k)
               PROVE  k.bullet[c].hit = AtBullet(d) <=> k.bullet[d].hit = AtBullet(c)
    BY DEF BulletLinks
  <2>1. h.bullet[c].hit = AtBullet(d) <=> h.bullet[d].hit = AtBullet(c)
    BY DEF Linked, BulletLinks
  <2>2. CASE c # b /\ d # b
    BY <1>2, <2>1, <2>2
  <2>3. CASE c = b /\ d # b
    BY <1>2, <1>4, <2>1, <2>3, Names
  <2>4. CASE c # b /\ d = b
    BY <1>2, <1>4, <2>1, <2>4, Names
  <2>5. CASE c = b /\ d = b
    BY <2>5
  <2> QED BY <2>2, <2>3, <2>4, <2>5
<1>7. TankHits(k)
  BY <1>1, <1>3 DEF Linked, TankHits
<1>8. Flying(k)
  BY <1>2 DEF Linked, Flying
<1>9. HomeLinks(k)
  <2> SUFFICES ASSUME NEW c \in Ids, Stands(k), k.homeHit = AtBullet(c)
               PROVE  k.bullet[c].hit = AtHome
    BY DEF HomeLinks
  <2>1. h.bullet[c].hit = AtHome
    BY <1>1, HomesIs DEF Linked, HomeLinks
  <2>2. c # b
    BY <2>1, Names
  <2> QED BY <1>1, <2>1, <2>2
<1> QED BY <1>5, <1>6, <1>7, <1>8, <1>9 DEF Linked

-----------------------------------------------------------------------------
(* Along the lines of the grid *)

\* A direction goes along one axis and not along the other.
LEMMA DirectionIs ==
  ASSUME NEW d \in Directions
  PROVE  /\ d \in {-1, 0, 1} \X {-1, 0, 1} /\ d[1] \in Int /\ d[2] \in Int
         /\ \/ Axis(d) = 1 /\ Across(d) = 2 /\ d[2] = 0 /\ d[1] \in {-1, 1}
            \/ Axis(d) = 2 /\ Across(d) = 1 /\ d[1] = 0 /\ d[2] \in {-1, 1}
         /\ Opposite(d) = <<-d[1], -d[2]>> /\ Opposite(d) \in Directions
         /\ Across(Opposite(d)) = Across(d)
<1>1. /\ d = <<d[1], d[2]>>
      /\ \/ d[1] = 0 /\ d[2] = 1
         \/ d[1] = 0 /\ d[2] = -1
         \/ d[1] = 1 /\ d[2] = 0
         \/ d[1] = -1 /\ d[2] = 0
  BY DEF Directions, Up, Down, Left, Right
<1>2. Opposite(d) = <<-d[1], -d[2]>>
  BY DEF Opposite
<1>3. Opposite(d) \in Directions
  BY <1>1, <1>2 DEF Directions, Up, Down, Left, Right
<1>4. \/ Axis(d) = 1 /\ Across(d) = 2 /\ d[2] = 0 /\ d[1] \in {-1, 1}
      \/ Axis(d) = 2 /\ Across(d) = 1 /\ d[1] = 0 /\ d[2] \in {-1, 1}
  BY <1>1 DEF Axis, Across
<1>5. Across(Opposite(d)) = Across(d)
  <2>1. Opposite(d)[1] = -d[1]
    BY <1>2
  <2> QED BY <1>1, <2>1 DEF Axis, Across
<1> QED BY <1>1, <1>2, <1>3, <1>4, <1>5

\* Two directions along one axis are the same or opposite.
LEMMA SameAxis ==
  ASSUME NEW d \in Directions, NEW e \in Directions, Axis(d) = Axis(e)
  PROVE  e = d \/ e = Opposite(d)
BY DEF Directions, Up, Down, Left, Right, Axis, Opposite

\* Who moves on keeps to its line.
LEMMA MoveOnLine ==
  ASSUME NEW pos, NEW d, OnLine(pos, d), NEW n \in Int
  PROVE  OnLine(getMovePosition(pos, d, n), d)
<1>1. d \in Directions /\ pos \in Int \X Int /\ pos[1] \in Int /\ pos[2] \in Int
  BY DEF OnLine
<1>2. d[1] * n \in Int /\ d[2] * n \in Int
  BY <1>1, DirectionIs
<1>3. d[Across(d)] * n = 0
  BY <1>1, DirectionIs
<1> DEFINE p == getMovePosition(pos, d, n)
<1>4. p = <<pos[1] + d[1] * n, pos[2] + d[2] * n>>
  BY DEF getMovePosition
<1> HIDE DEF p
<1>5. p \in Int \X Int /\ p[1] = pos[1] + d[1] * n /\ p[2] = pos[2] + d[2] * n
  BY <1>1, <1>2, <1>4
<1>6. Across(d) = 1 \/ Across(d) = 2
  BY <1>1, DirectionIs
<1>7. p[Across(d)] = pos[Across(d)]
  BY <1>1, <1>2, <1>3, <1>5, <1>6
<1> QED BY <1>1, <1>5, <1>7 DEF OnLine, p

\* A tank that turns is put on a line of its new direction.
LEMMA TurnOnLine ==
  ASSUME NEW pos, NEW old, OnLine(pos, old), NEW d \in Directions
  PROVE  OnLine(getCorrectPosition(pos, old, d), d)
<1>1. old \in Directions /\ pos \in Int \X Int /\ pos[1] \in Int /\ pos[2] \in Int
      /\ pos[Across(old)] % Unit = 0
  BY DEF OnLine
<1>2. old[1] \in Int /\ old[2] \in Int
  BY <1>1, DirectionIs
<1>3. CASE ~isNeedCorrectPosition(old, d)
  <2>1. getCorrectPosition(pos, old, d) = pos
    BY <1>3 DEF getCorrectPosition
  <2>2. d = old \/ d = Opposite(old)
    BY <1>3 DEF isNeedCorrectPosition
  <2>3. Across(d) = Across(old)
    BY <1>1, <2>2, DirectionIs
  <2> QED BY <1>1, <2>1, <2>3 DEF OnLine
<1>4. CASE isNeedCorrectPosition(old, d) /\ Axis(d) = 2
  <2> DEFINE x == Nearest(pos[1], old[1])
  <2>1. getCorrectPosition(pos, old, d) = <<x, pos[2]>>
    BY <1>4 DEF getCorrectPosition
  <2>2. x \in Int /\ x % Unit = 0
    BY <1>1, <1>2, NearestIs
  <2>3. Across(d) = 1
    BY <1>4 DEF Across
  <2> HIDE DEF x
  <2> QED BY <1>1, <2>1, <2>2, <2>3 DEF OnLine
<1>5. CASE isNeedCorrectPosition(old, d) /\ Axis(d) # 2
  <2> DEFINE x == Nearest(pos[2], old[2])
  <2>1. getCorrectPosition(pos, old, d) = <<pos[1], x>>
    BY <1>5 DEF getCorrectPosition
  <2>2. x \in Int /\ x % Unit = 0
    BY <1>1, <1>2, NearestIs
  <2>3. Across(d) = 2
    BY <1>5, DirectionIs
  <2> HIDE DEF x
  <2> QED BY <1>1, <2>1, <2>2, <2>3 DEF OnLine
<1> QED BY <1>3, <1>4, <1>5

\* A shot leaves in the middle of the tank's front, on the line of the tank.
LEMMA MuzzleOnLine ==
  ASSUME NEW pos, NEW d, OnLine(pos, d)
  PROVE  OnLine(Muzzle(pos, d), d)
<1>1. d \in Directions /\ pos[1] \in Int /\ pos[2] \in Int /\ pos[Across(d)] % Unit = 0
  BY DEF OnLine
<1>2. Unit \in Nat
  BY FieldAssumption
<1> DEFINE x == pos[1] + 2 * Unit + d[1] * 2 * Unit
           y == pos[2] + 2 * Unit + d[2] * 2 * Unit
<1>3. Muzzle(pos, d) = <<x, y>>
  BY DEF Muzzle
<1>4. x \in Int /\ y \in Int
  <2>1. d[1] \in Int /\ d[2] \in Int
    BY <1>1, DirectionIs
  <2> QED BY <1>1, <1>2, <2>1
<1>5. CASE Across(d) = 1
  <2>1. d[1] = 0
    BY <1>1, <1>5, DirectionIs
  <2>2. x = pos[1] + 2 * Unit
    BY <1>1, <1>2, <2>1
  <2>3. x % Unit = 0
    BY <1>1, <1>5, <2>2, TwoUnits
  <2> HIDE DEF x, y
  <2> QED BY <1>1, <1>3, <1>4, <1>5, <2>3 DEF OnLine
<1>6. CASE Across(d) = 2
  <2>1. d[2] = 0
    BY <1>1, <1>6, DirectionIs
  <2>2. y = pos[2] + 2 * Unit
    BY <1>1, <1>2, <2>1
  <2>3. y % Unit = 0
    BY <1>1, <1>6, <2>2, TwoUnits
  <2> HIDE DEF x, y
  <2> QED BY <1>1, <1>3, <1>4, <1>6, <2>3 DEF OnLine
<1> QED BY <1>1, <1>5, <1>6, DirectionIs

-----------------------------------------------------------------------------
(* What stands in the way *)

IntRect(r) == r.lo[1] \in Int /\ r.lo[2] \in Int /\ r.hi[1] \in Int /\ r.hi[2] \in Int

\* What finitely many things are turned into is finite.
LEMMA ImageFinite ==
  ASSUME NEW S, IsFiniteSet(S), NEW f, DOMAIN f = S, f = [x \in S |-> f[x]]
  PROVE  IsFiniteSet({f[x] : x \in S})
<1> DEFINE T == {f[x] : x \in S}
<1>1. f \in Surjection(S, T)
  BY DEF Surjection
<1> HIDE DEF T
<1>2. IsFiniteSet(T)
  BY <1>1, FS_Surjection
<1> QED BY <1>2 DEF T

\* How far it is to the next of finitely many obstacles is a number.
LEMMA ReachInt ==
  ASSUME NEW r, IntRect(r), NEW obstacles, IsFiniteSet(obstacles),
         \A o \in obstacles : IntRect(o.rect), NEW d \in Directions, NEW n \in Int
  PROVE  Reach(r, obstacles, d, n) \in Int
<1>1. \A s : IntRect(s) => Near(s, d) \in Int /\ Front(s, d) \in Int
  <2>1. Axis(d) = 1 \/ Axis(d) = 2
    BY DirectionIs
  <2> QED BY <2>1 DEF IntRect, Near, Front
<1>2. CASE obstacles = {}
  BY <1>2 DEF Reach
<1>3. CASE obstacles # {}
  <2> DEFINE f == [o \in obstacles |-> Near(o.rect, d)]
             near == CHOOSE o \in getNearGameRect(obstacles, d) : TRUE
             a == Near(near.rect, d)
             b == Front(r, d)
  <2>1. f \in [obstacles -> Int]
    BY <1>1
  <2>2. \E o \in obstacles : \A p \in obstacles : f[o] <= f[p]
    <3> HIDE DEF f
    <3> QED BY <1>3, <2>1, LeastOne
  <2>3. \E o \in obstacles : \A p \in obstacles : Near(o.rect, d) <= Near(p.rect, d)
    BY <2>2
  <2>4. \E o : o \in getNearGameRect(obstacles, d)
    BY <2>3 DEF getNearGameRect
  <2>5. near \in getNearGameRect(obstacles, d)
    BY <2>4
  <2>6. Reach(r, obstacles, d, n) = Larger(a - b, 0)
    BY <1>3 DEF Reach
  <2> HIDE DEF near
  <2>7. near \in obstacles
    BY <2>5 DEF getNearGameRect
  <2>8. a \in Int /\ b \in Int
    BY <1>1, <2>7
  <2> HIDE DEF a, b
  <2> QED BY <2>6, <2>8 DEF Larger
<1> QED BY <1>2, <1>3

\* All there may be on the field.
Border == {Obstacle("boundary", b) : b \in getBoundaryRects}
Walls == {Obstacle("scenery", UnitRect(rc)) : rc \in Units}
Home == {Obstacle("homebase", HomeRect)}
Others(h) == {Obstacle("tank", getTankRect(h.tank[o].pos)) : o \in Tanks}

\* The border, the sceneries and the base are finitely many rectangles.
LEMMA FieldFinite ==
  /\ IsFiniteSet(Border) /\ IsFiniteSet(Walls) /\ IsFiniteSet(Home)
  /\ \A o \in Border \cup Walls \cup Home : IntRect(o.rect)
<1>1. Unit \in Nat /\ Cols \in Nat /\ Rows \in Nat
  BY FieldAssumption
<1>2. Size[1] \in Int /\ Size[2] \in Int
  <2>1. Width \in Int
    BY <1>1 DEF Width
  <2>2. Cols * Width \in Int /\ Rows * Width \in Int
    BY <1>1, <2>1
  <2> QED BY <2>2 DEF Size
<1>3. IsFiniteSet(getBoundaryRects)
  <2> DEFINE b == <<Rect(<<-Unit, 0>>, <<0, Size[2]>>), Rect(<<0, -Unit>>, <<Size[1], 0>>),
                    Rect(<<Size[1], 0>>, <<Size[1] + Unit, Size[2]>>),
                    Rect(<<0, Size[2]>>, <<Size[1], Size[2] + Unit>>)>>
  <2>1. getBoundaryRects = {b[1], b[2], b[3], b[4]}
    BY DEF getBoundaryRects
  <2> HIDE DEF b
  <2>2. IsFiniteSet({}) /\ IsFiniteSet({b[1]})
    BY FS_EmptySet, FS_Singleton
  <2>3. IsFiniteSet({b[1]} \cup {b[2]})
    BY <2>2, FS_AddElement
  <2>4. IsFiniteSet(({b[1]} \cup {b[2]}) \cup {b[3]})
    BY <2>3, FS_AddElement
  <2>5. IsFiniteSet((({b[1]} \cup {b[2]}) \cup {b[3]}) \cup {b[4]})
    BY <2>4, FS_AddElement
  <2>6. getBoundaryRects = (({b[1]} \cup {b[2]}) \cup {b[3]}) \cup {b[4]}
    BY <2>1
  <2> QED BY <2>5, <2>6
<1>4. IsFiniteSet(Border)
  <2> DEFINE f == [b \in getBoundaryRects |-> Obstacle("boundary", b)]
  <2>1. f = [b \in getBoundaryRects |-> f[b]] /\ DOMAIN f = getBoundaryRects
    OBVIOUS
  <2>2. Border = {f[b] : b \in getBoundaryRects}
    BY DEF Border
  <2> HIDE DEF f
  <2> QED BY <1>3, <2>1, <2>2, ImageFinite
<1>5. IsFiniteSet(Units)
  <2> DEFINE x == 0..2 * Cols - 1
             y == 0..2 * Rows - 1
  <2>1. IsFiniteSet(x) /\ IsFiniteSet(y)
    BY <1>1, FS_Interval
  <2>2. Units = x \X y
    BY DEF Units
  <2> HIDE DEF x, y
  <2> QED BY <2>1, <2>2, FS_Product
<1>6. IsFiniteSet(Walls)
  <2> DEFINE f == [rc \in Units |-> Obstacle("scenery", UnitRect(rc))]
  <2>1. f = [rc \in Units |-> f[rc]] /\ DOMAIN f = Units
    OBVIOUS
  <2>2. Walls = {f[rc] : rc \in Units}
    BY DEF Walls
  <2> HIDE DEF f
  <2> QED BY <1>5, <2>1, <2>2, ImageFinite
<1>7. IsFiniteSet(Home)
  BY FS_Singleton DEF Home
<1>8. ASSUME NEW o \in Border PROVE IntRect(o.rect)
  <2>1. PICK b \in getBoundaryRects : o = Obstacle("boundary", b)
    BY DEF Border
  <2>2. IntRect(b)
    BY <1>1, <1>2 DEF getBoundaryRects, Rect, IntRect
  <2> QED BY <2>1, <2>2 DEF Obstacle
<1>9. ASSUME NEW o \in Walls PROVE IntRect(o.rect)
  <2>1. PICK rc \in Units : o = Obstacle("scenery", UnitRect(rc))
    BY DEF Walls
  <2>2. rc[1] \in Int /\ rc[2] \in Int
    BY <1>1 DEF Units
  <2>3. rc[1] * Unit \in Int /\ rc[2] * Unit \in Int
    BY <1>1, <2>2
  <2>4. IntRect(UnitRect(rc))
    BY <1>1, <2>3 DEF UnitRect, Square, matrixToScenePosition, Rect, IntRect
  <2> QED BY <2>1, <2>4 DEF Obstacle
<1>10. ASSUME NEW o \in Home PROVE IntRect(o.rect)
  <2>1. o.rect = getTankRect(HomePlace)
    BY DEF Home, Obstacle, HomeRect, HomePlace
  <2>2. HomePlace[1] \in Int /\ HomePlace[2] \in Int
    BY PlacesAre
  <2> QED BY <1>1, <2>1, <2>2 DEF getTankRect, Square, Rect, IntRect, TankWidth
<1> QED BY <1>4, <1>6, <1>7, <1>8, <1>9, <1>10

\* The sceneries in the way are units of the field, the border is the border's.
LEMMA WaysAre ==
  ASSUME NEW h, World(h), NEW types, NEW r
  PROVE  Boundaries(r) \subseteq Border /\ Sceneries(h, types, r) \subseteq Walls
<1>1. Boundaries(r) \subseteq Border
  BY DEF Boundaries, Border
<1>2. \A s : getOverlapSceneryRects(h, s, r) \subseteq Walls
  BY DEF getOverlapSceneryRects, Walls, World
<1>3. Sceneries(h, types, r) \subseteq Walls
  BY <1>2 DEF Sceneries
<1> QED BY <1>1, <1>3

\* What a tank may run into.
LEMMA TankWays ==
  ASSUME NEW h, Fit(h), NEW t, NEW r
  PROVE  /\ IsFiniteSet(getTankCollisionRectWhenMove(h, t, r))
         /\ \A o \in getTankCollisionRectWhenMove(h, t, r) : IntRect(o.rect)
<1> DEFINE ways == getTankCollisionRectWhenMove(h, t, r)
           all == ((Border \cup Walls) \cup Home) \cup Others(h)
<1>1. Boundaries(r) \subseteq Border /\ Sceneries(h, {"wall", "steel", "water"}, r) \subseteq Walls
  BY WaysAre DEF Fit
<1>2. ways \subseteq all
  <2>1. {Obstacle("homebase", x) : x \in {y \in {HomeRect} : isRectOverlap(r, y)}} \subseteq Home
    BY DEF Home
  <2>2. {Obstacle("tank", getTankRect(h.tank[o].pos)) :
            o \in {x \in OnField(h) \ {t} : isRectOverlap(r, getTankRect(h.tank[x].pos))}}
          \subseteq Others(h)
    BY DEF Others, OnField
  <2> QED BY <1>1, <2>1, <2>2 DEF getTankCollisionRectWhenMove
<1>3. IsFiniteSet(Others(h))
  <2> DEFINE f == [o \in Tanks |-> Obstacle("tank", getTankRect(h.tank[o].pos))]
  <2>1. f = [o \in Tanks |-> f[o]] /\ DOMAIN f = Tanks
    OBVIOUS
  <2>2. Others(h) = {f[o] : o \in Tanks}
    BY DEF Others
  <2>3. IsFiniteSet({"player"} \cup {"enemy"})
    BY FS_Singleton, FS_AddElement
  <2>4. Tanks = {"player"} \cup {"enemy"}
    BY DEF Tanks
  <2> HIDE DEF f
  <2> QED BY <2>1, <2>2, <2>3, <2>4, ImageFinite
<1>4. \A o \in Others(h) : IntRect(o.rect)
  <2> SUFFICES ASSUME NEW o \in Others(h) PROVE IntRect(o.rect)
    OBVIOUS
  <2>1. PICK u \in Tanks : o = Obstacle("tank", getTankRect(h.tank[u].pos))
    BY DEF Others
  <2>2. h.tank[u].pos[1] \in Int /\ h.tank[u].pos[2] \in Int /\ Unit \in Nat
    BY FieldAssumption DEF Fit, TankOK, OnLine
  <2>3. IntRect(getTankRect(h.tank[u].pos))
    BY <2>2 DEF getTankRect, Square, Rect, IntRect, TankWidth
  <2> QED BY <2>1, <2>3 DEF Obstacle
<1>5. IsFiniteSet(all)
  <2>1. IsFiniteSet(Border \cup Walls)
    BY FieldFinite, FS_Union
  <2>2. IsFiniteSet((Border \cup Walls) \cup Home)
    BY <2>1, FieldFinite, FS_Union
  <2> QED BY <1>3, <2>2, FS_Union
<1>6. \A o \in all : IntRect(o.rect)
  BY <1>4, FieldFinite
<1> HIDE DEF all
<1>7. IsFiniteSet(ways)
  BY <1>2, <1>5, FS_Subset
<1> QED BY <1>2, <1>6, <1>7

\* What a bullet may run into.
LEMMA BulletWays ==
  ASSUME NEW h, World(h), NEW r
  PROVE  /\ IsFiniteSet(getBulletCollisionRectWhenMove(h, r))
         /\ \A o \in getBulletCollisionRectWhenMove(h, r) : IntRect(o.rect)
<1> DEFINE ways == getBulletCollisionRectWhenMove(h, r)
<1>1. ways \subseteq Border \cup Walls
  BY WaysAre DEF getBulletCollisionRectWhenMove
<1>2. IsFiniteSet(Border \cup Walls)
  BY FieldFinite, FS_Union
<1>3. IsFiniteSet(ways)
  BY <1>1, <1>2, FS_Subset
<1> QED BY <1>1, <1>3, FieldFinite

-----------------------------------------------------------------------------
(* Tanks *)

\* A tank moved, turned, waits, is mended or another one takes its place.
TankStep(h, k, t) ==
    /\ OnlyTank(h, k, t) /\ TankOK(k.tank[t])
    /\ k.tank[t].bulletNum <= h.tank[t].bulletNum
    /\ k.tank[t].hit = NoHit \/ k.tank[t].hit = h.tank[t].hit

\* No tank is hit by what a tank does.
LEMMA TankSteps ==
  ASSUME NEW h, NEW k, NEW t \in Tanks, Fit(h), TankStep(h, k, t)
  PROVE  /\ Fit(k) /\ Live(k) = Live(h) /\ k.bullet = h.bullet
         /\ (Mended(h) => Mended(k)) /\ (Clear(h) => Clear(k))
<1>1. OnlyTank(h, k, t) /\ TankOK(k.tank[t]) /\ k.tank[t].bulletNum <= h.tank[t].bulletNum
  BY DEF TankStep
<1>2. Fit(k) /\ Live(k) = Live(h)
  BY <1>1, TankFits
<1>3. (Mended(h) => Mended(k)) /\ (Clear(h) => Clear(k))
  BY <1>1, ClearTank DEF TankStep
<1> QED BY <1>1, <1>2, <1>3 DEF OnlyTank

\* A tank put in the place of another.
LEMMA PutTank ==
  ASSUME NEW h, World(h), NEW t \in Tanks, NEW k, DOMAIN k = Fields,
         DOMAIN k.tank = Tanks, k.bullet = h.bullet, k.home = h.home, k.homeHit = h.homeHit,
         k.units = h.units, \A u \in Tanks : u # t => k.tank[u] = h.tank[u]
  PROVE  OnlyTank(h, k, t)
BY DEF World, OnlyTank, Homes

\* A tank turns.
LEMMA SetMoveIs ==
  ASSUME NEW h, Fit(h), NEW t \in Tanks, NEW d \in Directions
  PROVE  TankStep(h, setMove(h, t, d), t)
<1> DEFINE k == setMove(h, t, d)
           p == getCorrectPosition(h.tank[t].pos, h.tank[t].dir, d)
<1>1. DOMAIN h = Fields /\ DOMAIN h.tank = Tanks /\ DOMAIN h.tank[t] = TankFields
  BY DEF Fit, World, TankOK
<1>2. /\ DOMAIN k = Fields /\ DOMAIN k.tank = Tanks /\ k.bullet = h.bullet /\ k.home = h.home
      /\ k.homeHit = h.homeHit /\ k.units = h.units
      /\ \A u \in Tanks : u # t => k.tank[u] = h.tank[u]
  BY <1>1 DEF setMove, Fields
<1>3. /\ DOMAIN k.tank[t] = TankFields /\ k.tank[t].pos = p /\ k.tank[t].dir = d
      /\ k.tank[t].hit = h.tank[t].hit /\ k.tank[t].life = h.tank[t].life
      /\ k.tank[t].bulletNum = h.tank[t].bulletNum
  BY <1>1 DEF setMove, Fields, TankFields
<1> HIDE DEF k, p
<1>4. OnlyTank(h, k, t)
  BY <1>2, PutTank DEF Fit
<1>5. OnLine(p, d) /\ h.tank[t].bulletNum \in Nat
  BY TurnOnLine DEF Fit, TankOK, p
<1>6. TankOK(k.tank[t])
  BY <1>3, <1>5 DEF Fit, TankOK, Afield
<1>7. TankStep(h, k, t)
  BY <1>3, <1>4, <1>5, <1>6 DEF TankStep
<1> QED BY <1>7 DEF k

\* One step after another.
LEMMA TankThen ==
  ASSUME NEW h, NEW j, NEW k, NEW t \in Tanks, Fit(h), TankStep(h, j, t), TankStep(j, k, t)
  PROVE  TankStep(h, k, t)
<1>1. OnlyTank(h, k, t)
  BY DEF TankStep, OnlyTank, Homes
<1>2. h.tank[t].bulletNum \in Nat /\ j.tank[t].bulletNum \in Nat /\ k.tank[t].bulletNum \in Nat
  BY DEF Fit, TankStep, TankOK
<1>3. k.tank[t].bulletNum <= j.tank[t].bulletNum /\ j.tank[t].bulletNum <= h.tank[t].bulletNum
  BY DEF TankStep
<1>4. k.tank[t].bulletNum <= h.tank[t].bulletNum
  BY <1>2, <1>3
<1>5. k.tank[t].hit = NoHit \/ k.tank[t].hit = h.tank[t].hit
  BY DEF TankStep
<1>6. TankOK(k.tank[t])
  BY DEF TankStep
<1> QED BY <1>1, <1>4, <1>5, <1>6 DEF TankStep

\* A tank stands where it stood.
LEMMA TankStays ==
  ASSUME NEW h, NEW t \in Tanks, Fit(h)
  PROVE  TankStep(h, h, t)
<1>1. h.tank[t].bulletNum \in Nat /\ TankOK(h.tank[t])
  BY DEF Fit, TankOK
<1>2. OnlyTank(h, h, t)
  BY DEF OnlyTank, Homes, Fit
<1> QED BY <1>1, <1>2 DEF TankStep

\* A tank stays where it is and changes what it does.
LEMMA TankMood ==
  ASSUME NEW h, Fit(h), NEW t \in Tanks, NEW k, DOMAIN k = Fields,
         DOMAIN k.tank = Tanks, k.bullet = h.bullet, k.home = h.home, k.homeHit = h.homeHit,
         k.units = h.units, \A u \in Tanks : u # t => k.tank[u] = h.tank[u],
         DOMAIN k.tank[t] = TankFields, k.tank[t].pos = h.tank[t].pos,
         k.tank[t].dir = h.tank[t].dir, k.tank[t].bulletNum = h.tank[t].bulletNum,
         k.tank[t].hit = NoHit \/ k.tank[t].hit = h.tank[t].hit,
         \/ k.tank[t].life = h.tank[t].life
         \/ h.tank[t].life = "borning" /\ k.tank[t].life = "up"
  PROVE  TankStep(h, k, t)
<1>1. OnlyTank(h, k, t)
  BY PutTank DEF Fit
<1>2. h.tank[t].bulletNum \in Nat /\ TankOK(h.tank[t])
  BY DEF Fit, TankOK
<1>3. TankOK(k.tank[t])
  BY <1>2 DEF TankOK, Afield
<1> QED BY <1>1, <1>2, <1>3 DEF TankStep

\* An enemy that was stopped takes note of it, and forgets it.
LEMMA BlockedIs ==
  ASSUME NEW h, Fit(h), NEW t \in Tanks, NEW v,
         NEW k, k = [h EXCEPT !.tank[t].blocked = v]
  PROVE  /\ TankStep(h, k, t) /\ k.tank[t].hit = h.tank[t].hit
         /\ k.tank[t].life = h.tank[t].life
<1>1. DOMAIN h = Fields /\ DOMAIN h.tank = Tanks /\ DOMAIN h.tank[t] = TankFields
  BY DEF Fit, World, TankOK
<1>2. /\ DOMAIN k = Fields /\ DOMAIN k.tank = Tanks /\ k.bullet = h.bullet /\ k.home = h.home
      /\ k.homeHit = h.homeHit /\ k.units = h.units
      /\ \A u \in Tanks : u # t => k.tank[u] = h.tank[u]
  BY <1>1 DEF Fields
<1>3. /\ DOMAIN k.tank[t] = TankFields /\ k.tank[t].pos = h.tank[t].pos
      /\ k.tank[t].dir = h.tank[t].dir /\ k.tank[t].life = h.tank[t].life
      /\ k.tank[t].hit = h.tank[t].hit /\ k.tank[t].bulletNum = h.tank[t].bulletNum
  BY <1>1 DEF Fields, TankFields
<1> QED BY <1>2, <1>3, TankMood

\* A tank that cannot move waits.
LEMMA FailedIs ==
  ASSUME NEW h, Fit(h), NEW t \in Tanks, NEW k, k = onMoveFailed(h, t)
  PROVE  /\ TankStep(h, k, t) /\ k.tank[t].hit = h.tank[t].hit
         /\ k.tank[t].life = h.tank[t].life
<1>1. DOMAIN h = Fields /\ DOMAIN h.tank = Tanks /\ DOMAIN h.tank[t] = TankFields
  BY DEF Fit, World, TankOK
<1>2. /\ DOMAIN k = Fields /\ DOMAIN k.tank = Tanks /\ k.bullet = h.bullet /\ k.home = h.home
      /\ k.homeHit = h.homeHit /\ k.units = h.units
      /\ \A u \in Tanks : u # t => k.tank[u] = h.tank[u]
  BY <1>1 DEF onMoveFailed, Fields
<1>3. /\ DOMAIN k.tank[t] = TankFields /\ k.tank[t].pos = h.tank[t].pos
      /\ k.tank[t].dir = h.tank[t].dir /\ k.tank[t].life = h.tank[t].life
      /\ k.tank[t].hit = h.tank[t].hit /\ k.tank[t].bulletNum = h.tank[t].bulletNum
  BY <1>1 DEF onMoveFailed, Fields, TankFields
<1> QED BY <1>2, <1>3, TankMood

\* The next tank, and the one that is gone: where tanks are born, unhit, with
\* no bullet under way.
LEMMA ResetIs ==
  ASSUME NEW t \in Tanks, NEW v, DOMAIN v = TankFields, v.pos = BornPlace(t),
         v.dir = IF t = "player" THEN Up ELSE Down, v.bulletNum = 0, v.hit = NoHit,
         v.life \in {"borning", "up", "gone", "lost"},
         NEW h, Fit(h), NEW k, k = [h EXCEPT !.tank[t] = v]
  PROVE  TankStep(h, k, t)
<1>1. BornPlace(t) \in Int \X Int /\ BornPlace(t)[1] % Unit = 0
  BY PlacesAre
<1>2. v.dir \in Directions /\ Across(v.dir) = 1
  BY DEF Directions, Up, Down, Across, Axis
<1>3. TankOK(v)
  BY <1>1, <1>2 DEF TankOK, OnLine
<1>4. DOMAIN h = Fields /\ DOMAIN h.tank = Tanks
  BY DEF Fit, World
<1>5. /\ DOMAIN k = Fields /\ DOMAIN k.tank = Tanks /\ k.bullet = h.bullet /\ k.home = h.home
      /\ k.homeHit = h.homeHit /\ k.units = h.units
      /\ \A u \in Tanks : u # t => k.tank[u] = h.tank[u]
  BY <1>4 DEF Fields
<1>6. k.tank[t] = v
  BY <1>4 DEF Fields
<1>7. OnlyTank(h, k, t)
  BY <1>5, PutTank DEF Fit
<1>8. h.tank[t].bulletNum \in Nat
  BY DEF Fit, TankOK
<1>9. v.bulletNum <= h.tank[t].bulletNum
  BY <1>8
<1> QED BY <1>3, <1>6, <1>7, <1>9 DEF TankStep

\* The record a new tank is.
LEMMA NewTankIs ==
  ASSUME NEW t \in Tanks
  PROVE  /\ DOMAIN reset(t) = TankFields /\ reset(t).pos = BornPlace(t)
         /\ reset(t).dir = (IF t = "player" THEN Up ELSE Down) /\ reset(t).bulletNum = 0
         /\ reset(t).hit = NoHit /\ reset(t).life = "borning"
BY DEF reset, TankFields

\* A player is born.
LEMMA PlayerBorn ==
  ASSUME NEW h, Fit(h), NEW n, NEW k, k = [h EXCEPT !.tank["player"] = createPlayer(n)]
  PROVE  TankStep(h, k, "player")
<1> DEFINE v == createPlayer(n)
<1>1. "player" \in Tanks
  BY DEF Tanks
<1>2. /\ DOMAIN v = TankFields /\ v.pos = BornPlace("player") /\ v.dir = Up /\ v.bulletNum = 0
      /\ v.hit = NoHit /\ v.life = "borning"
  BY <1>1, NewTankIs DEF createPlayer, setAttributes, TankFields
<1> HIDE DEF v
<1>3. k = [h EXCEPT !.tank["player"] = v]
  BY DEF v
<1> QED BY <1>1, <1>2, <1>3, ResetIs

\* An enemy is born.
LEMMA EnemyBorn ==
  ASSUME NEW h, Fit(h), NEW red, NEW k, k = [h EXCEPT !.tank["enemy"] = createEnemyTank(red)]
  PROVE  TankStep(h, k, "enemy")
<1> DEFINE v == createEnemyTank(red)
<1>1. "enemy" \in Tanks
  BY DEF Tanks
<1>2. /\ DOMAIN v = TankFields /\ v.pos = BornPlace("enemy") /\ v.dir = Down /\ v.bulletNum = 0
      /\ v.hit = NoHit /\ v.life = "borning"
  BY <1>1, NewTankIs DEF createEnemyTank, setAttributes, TankFields
<1> HIDE DEF v
<1>3. k = [h EXCEPT !.tank["enemy"] = v]
  BY DEF v
<1> QED BY <1>1, <1>2, <1>3, ResetIs

\* A tank dies.
LEMMA DeadIs ==
  ASSUME NEW h, Fit(h), NEW t \in Tanks, NEW how \in {"gone", "lost"}, NEW k, k = dead(h, t, how)
  PROVE  TankStep(h, k, t) /\ k.tank[t].hit = NoHit /\ k.tank[t].life = how /\ k.units = h.units
<1> DEFINE v == NoTank(t, how)
<1>1. /\ DOMAIN v = TankFields /\ v.pos = BornPlace(t) /\ v.bulletNum = 0
      /\ v.dir = (IF t = "player" THEN Up ELSE Down) /\ v.hit = NoHit /\ v.life = how
  BY NewTankIs DEF NoTank, TankFields
<1> HIDE DEF v
<1>2. k = [h EXCEPT !.tank[t] = v]
  BY DEF v, dead
<1>3. TankStep(h, k, t)
  BY <1>1, <1>2, ResetIs
<1>4. k.tank[t] = v /\ k.units = h.units
  BY <1>2 DEF Fit, World, Fields
<1> QED BY <1>1, <1>3, <1>4

-----------------------------------------------------------------------------
(* What a tank does in a frame *)

\* How far a tank wants to move and how far it can are numbers.
LEMMA DistanceInt ==
  ASSUME NEW h, Fit(h), NEW t \in Tanks
  PROVE  /\ calcMoveDistance(h, t) \in Nat
         /\ \A n \in Int : canMoveFromAToBEx(h, t, h.tank[t].pos, h.tank[t].dir, n) \in Int
<1>1. TankSpeed \in Nat /\ IceSpeed \in Nat /\ Unit \in Nat
  BY TanksAssumption, FieldAssumption
<1>2. Speed(h, t) \in Nat
  BY <1>1 DEF Speed
<1>3. calcMoveDistance(h, t) \in Nat
  BY <1>2 DEF calcMoveDistance
<1> SUFFICES ASSUME NEW n \in Int
             PROVE  canMoveFromAToBEx(h, t, h.tank[t].pos, h.tank[t].dir, n) \in Int
  BY <1>3
<1> DEFINE p == h.tank[t].pos
           d == h.tank[t].dir
           ways == getTankCollisionRectWhenMove(h, t, getTankMoveRect(p, d, n))
<1>4. d \in Directions /\ p[1] \in Int /\ p[2] \in Int
  BY DEF Fit, TankOK, OnLine
<1>5. IsFiniteSet(ways) /\ \A o \in ways : IntRect(o.rect)
  BY TankWays
<1>6. canMoveFromAToBEx(h, t, p, d, n) = Reach(getTankRect(p), ways, d, n)
  BY DEF canMoveFromAToBEx
<1> HIDE DEF p, d, ways
<1>7. IntRect(getTankRect(p))
  BY <1>1, <1>4 DEF getTankRect, Square, Rect, IntRect, TankWidth
<1>8. Reach(getTankRect(p), ways, d, n) \in Int
  BY <1>4, <1>5, <1>7, ReachInt
<1> QED BY <1>6, <1>8 DEF p, d

\* A tank that moves on.
LEMMA AdvanceIs ==
  ASSUME NEW h, Fit(h), NEW t \in Tanks, NEW n \in Int, NEW k,
         k = [h EXCEPT !.tank[t].pos = getMovePosition(@, h.tank[t].dir, n)]
  PROVE  /\ TankStep(h, k, t) /\ k.tank[t].hit = h.tank[t].hit
         /\ k.tank[t].life = h.tank[t].life
<1> DEFINE p == getMovePosition(h.tank[t].pos, h.tank[t].dir, n)
<1>1. DOMAIN h = Fields /\ DOMAIN h.tank = Tanks /\ DOMAIN h.tank[t] = TankFields
  BY DEF Fit, World, TankOK
<1>2. /\ DOMAIN k = Fields /\ DOMAIN k.tank = Tanks /\ k.bullet = h.bullet /\ k.home = h.home
      /\ k.homeHit = h.homeHit /\ k.units = h.units
      /\ \A u \in Tanks : u # t => k.tank[u] = h.tank[u]
  BY <1>1 DEF Fields
<1>3. /\ DOMAIN k.tank[t] = TankFields /\ k.tank[t].pos = p /\ k.tank[t].dir = h.tank[t].dir
      /\ k.tank[t].hit = h.tank[t].hit /\ k.tank[t].life = h.tank[t].life
      /\ k.tank[t].bulletNum = h.tank[t].bulletNum
  BY <1>1 DEF Fields, TankFields
<1>4. OnLine(p, h.tank[t].dir) /\ h.tank[t].bulletNum \in Nat
  BY MoveOnLine DEF Fit, TankOK
<1> HIDE DEF p
<1>5. OnlyTank(h, k, t)
  BY <1>2, PutTank DEF Fit
<1>6. TankOK(k.tank[t])
  BY <1>3, <1>4 DEF Fit, TankOK, Afield
<1> QED BY <1>3, <1>4, <1>5, <1>6 DEF TankStep

\* A tank in a physics frame: it moves, or waits, and is hit by what hit it.
LEMMA TankUpdateIs ==
  ASSUME NEW h, Fit(h), Linked(h), NEW t \in Tanks
  PROVE  /\ Fit(TankUpdate(h, t)) /\ Linked(TankUpdate(h, t))
         /\ OnField(TankUpdate(h, t)) = OnField(h)
<1> DEFINE k == TankUpdate(h, t)
           diff == calcMoveDistance(h, t)
           n == canMoveFromAToBEx(h, t, h.tank[t].pos, h.tank[t].dir, diff)
           j == [h EXCEPT !.tank[t].pos = getMovePosition(@, h.tank[t].dir, n)]
<1>1. k = h \/ k = onMoveSuccess(j, t) \/ k = onMoveFailed(h, t)
  BY DEF TankUpdate
<1>2. diff \in Int
  BY DistanceInt
<1> HIDE DEF diff
<1>3. n \in Int
  BY <1>2, DistanceInt
<1>4. /\ TankStep(h, j, t) /\ j.tank[t].hit = h.tank[t].hit /\ j.tank[t].life = h.tank[t].life
  <2> HIDE DEF n, k
  <2> QED BY <1>3, AdvanceIs
<1> HIDE DEF k, n, j
<1>5. CASE k = h
  BY <1>5 DEF k
<1>6. CASE k = onMoveSuccess(j, t) \/ k = onMoveFailed(h, t)
  <2>1. /\ TankStep(h, k, t) /\ k.tank[t].hit = h.tank[t].hit
        /\ k.tank[t].life = h.tank[t].life
    <3>1. CASE k = onMoveFailed(h, t)
      BY <3>1, FailedIs
    <3>2. CASE k = onMoveSuccess(j, t)
      <4>1. Fit(j)
        BY <1>4, TankSteps
      <4>2. k = [j EXCEPT !.tank[t].blocked = FALSE]
        BY <3>2 DEF onMoveSuccess
      <4>3. /\ TankStep(j, k, t) /\ k.tank[t].hit = j.tank[t].hit
            /\ k.tank[t].life = j.tank[t].life
        BY <4>1, <4>2, BlockedIs
      <4> QED BY <1>4, <4>3, TankThen
    <3> QED BY <1>6, <3>1, <3>2
  <2>2. Fit(k)
    BY <2>1, TankSteps
  <2>3. Afield(k.tank[t]) => Afield(h.tank[t])
    BY <2>1 DEF Afield
  <2>4. Linked(k)
    BY <2>1, <2>3, LinkedTank DEF TankStep
  <2>5. OnField(k) = OnField(h)
    <3>1. \A u : u \in OnField(k) <=> u \in OnField(h)
      BY <2>1, OnFieldIs DEF TankStep, OnlyTank, Afield
    <3> QED BY <3>1
  <2> QED BY <2>2, <2>4, <2>5 DEF k
<1> QED BY <1>1, <1>5, <1>6

\* An enemy turns, unless the clock stops it.
LEMMA EnemyTurns ==
  ASSUME NEW h, Fit(h), NEW d \in Directions
  PROVE  TankStep(h, setMoveEnemy(h, d), "enemy")
<1>1. "enemy" \in Tanks
  BY DEF Tanks
<1> DEFINE j == setMove(h, "enemy", d)
           v == j.tank["enemy"].blocked /\ d = h.tank["enemy"].dir
           k == [j EXCEPT !.tank["enemy"].blocked = v]
<1>2. setMoveEnemy(h, d) = h \/ setMoveEnemy(h, d) = k
  BY DEF setMoveEnemy
<1>3. TankStep(h, j, "enemy")
  BY <1>1, SetMoveIs
<1> HIDE DEF j, v
<1>4. Fit(j)
  BY <1>1, <1>3, TankSteps
<1>5. TankStep(j, k, "enemy")
  <2> HIDE DEF k
  <2>1. k = [j EXCEPT !.tank["enemy"].blocked = v]
    BY DEF k
  <2> QED BY <1>1, <1>4, <2>1, BlockedIs
<1> HIDE DEF k
<1>6. TankStep(h, k, "enemy")
  BY <1>1, <1>3, <1>5, TankThen
<1>7. TankStep(h, h, "enemy")
  BY <1>1, TankStays
<1> QED BY <1>2, <1>6, <1>7

\* It turns into one of the directions it may choose, or goes on.
LEMMA ChoiceIs ==
  ASSUME NEW h, Fit(h), NEW dirs, dirs \subseteq Directions,
         NEW k \in chooseOneDirctionMove(h, dirs)
  PROVE  TankStep(h, k, "enemy")
<1>1. k = h \/ \E d \in dirs : k = setMoveEnemy(h, d)
  BY DEF chooseOneDirctionMove
<1>2. TankStep(h, h, "enemy")
  BY TankStays DEF Tanks
<1> QED BY <1>1, <1>2, EnemyTurns

\* The directions an enemy may choose are directions.
LEMMA ChoicesAre ==
  ASSUME NEW h
  PROVE  getAllMoveDirectionsCanChoose(h, "enemy") \subseteq Directions
BY DEF getAllMoveDirectionsCanChoose, getAvailableMoveDirections

\* An enemy that is born sets out, and one that turns turns.
LEMMA TurnsAre ==
  ASSUME NEW h, Fit(h), NEW k \in moveOnBorn(h) \cup changeMoveDirectionEx(h)
  PROVE  TankStep(h, k, "enemy")
<1> DEFINE all == getAllMoveDirectionsCanChoose(h, "enemy")
           e == h.tank["enemy"]
           dirs == all \ (IF e.move THEN {e.dir} ELSE {})
<1>1. all \subseteq Directions
  BY ChoicesAre
<1>2. moveOnBorn(h) = chooseOneDirctionMove(h, all)
  BY DEF moveOnBorn
<1>3. \/ k \in chooseOneDirctionMove(h, all) \/ k \in chooseOneDirctionMove(h, dirs)
      \/ k \in chooseOneDirctionMove(h, dirs \ {Opposite(e.dir)})
  BY <1>2 DEF changeMoveDirectionEx
<1>4. dirs \subseteq Directions /\ dirs \ {Opposite(e.dir)} \subseteq Directions
  BY <1>1
<1> HIDE DEF all, dirs, e
<1> QED BY <1>1, <1>3, <1>4, ChoiceIs

-----------------------------------------------------------------------------
(* Shots come and go *)

\* A shot is a bullet more on the field and for the tank.
LEMMA ShootIs ==
  ASSUME NEW h, Fit(h), NEW t \in Tanks, NEW k, k = shoot(h, t)
  PROVE  /\ Fit(k) /\ (Mended(h) => Mended(k)) /\ (Clear(h) => Clear(k))
         /\ OnField(k) = OnField(h)
<1>1. CASE ~CanShoot(h, t)
  <2>1. k = h
    BY <1>1 DEF shoot
  <2> QED BY <2>1
<1>2. CASE CanShoot(h, t)
  <2> DEFINE free == Ids \ Live(h)
             id == CHOOSE b \in free : \A c \in free : b <= c
             b == NewBullet(h.tank[t], t, getBulletPowerLevel(h, t))
             n == h.tank[t].bulletNum
  <2>1. free # {} /\ free \subseteq Ids
    BY <1>2, ShotsFinite DEF CanShoot
  <2>2. id \in free
    <3> HIDE DEF free
    <3> QED BY <2>1, LeastFree
  <2>3. k = [[h EXCEPT !.bullet[id] = b] EXCEPT !.tank[t].bulletNum = @ + 1]
    BY <1>2 DEF shoot, evCreateBullet
  <2>4. id \in Ids /\ id \notin Live(h)
    BY <2>2
  <2> HIDE DEF id, free
  <2>5. /\ DOMAIN b = BulletFields /\ b.pos = Muzzle(h.tank[t].pos, h.tank[t].dir)
        /\ b.dir = h.tank[t].dir /\ b.shooter = t /\ b.hit = NoHit
    BY DEF NewBullet, BulletFields
  <2>6. Alive(b)
    BY DEF NewBullet, Alive
  <2> HIDE DEF b
  <2>7. BulletOK(b)
    <3>1. OnLine(b.pos, b.dir)
      BY <2>5, MuzzleOnLine DEF Fit, TankOK
    <3> QED BY <2>5, <3>1 DEF BulletOK
  <2>8. /\ DOMAIN h = Fields /\ DOMAIN h.tank = Tanks /\ DOMAIN h.tank[t] = TankFields
        /\ DOMAIN h.bullet = Ids /\ h.units \subseteq Units /\ n \in Nat
    BY DEF Fit, World, TankOK
  <2>9. /\ DOMAIN k = Fields /\ DOMAIN k.tank = Tanks /\ DOMAIN k.bullet = Ids
        /\ k.units = h.units /\ k.home = h.home /\ k.homeHit = h.homeHit
    BY <2>3, <2>8 DEF Fields
  <2>10. /\ \A u \in Tanks : u # t => k.tank[u] = h.tank[u]
         /\ DOMAIN k.tank[t] = TankFields /\ k.tank[t].pos = h.tank[t].pos
         /\ k.tank[t].dir = h.tank[t].dir /\ k.tank[t].life = h.tank[t].life
         /\ k.tank[t].hit = h.tank[t].hit /\ k.tank[t].bulletNum = n + 1
    BY <2>3, <2>8 DEF Fields, TankFields
  <2>11. k.bullet[id] = b /\ \A c \in Ids : c # id => k.bullet[c] = h.bullet[c]
    BY <2>3, <2>4, <2>8 DEF Fields
  <2> HIDE DEF n
  <2>12. World(k) /\ Homes(h, k)
    BY <2>8, <2>9 DEF World, Homes
  <2>13. \A u \in Tanks : TankOK(k.tank[u])
    <3>1. TankOK(k.tank[t])
      BY <2>8, <2>10 DEF Fit, TankOK, Afield
    <3> QED BY <2>10, <3>1 DEF Fit
  <2>14. Live(k) = Live(h) \cup {id}
    <3>1. \A c : c \in Live(k) <=> c \in Live(h) \/ c = id
      BY <2>4, <2>6, <2>11, LiveIs
    <3> QED BY <3>1
  <2>15. \A c \in Live(h) : c # id /\ k.bullet[c] = h.bullet[c]
    BY <2>4, <2>11, LiveIs
  <2>16. \A c \in Live(k) : BulletOK(k.bullet[c])
    BY <2>7, <2>11, <2>14, <2>15 DEF Fit
  <2>17. Ammo(k)
    <3> SUFFICES ASSUME NEW u \in Tanks PROVE k.tank[u].bulletNum <= Cardinality(Shots(k, u))
      BY DEF Ammo
    <3>1. h.tank[u].bulletNum <= Cardinality(Shots(h, u)) /\ h.tank[u].bulletNum \in Nat
      BY DEF Fit, Ammo, TankOK
    <3>2. Cardinality(Shots(h, u)) \in Nat /\ IsFiniteSet(Shots(h, u))
      BY ShotsFinite
    <3>3. CASE u # t
      <4>1. Shots(k, u) = Shots(h, u)
        BY <2>5, <2>11, <2>14, <2>15, <3>3 DEF Shots
      <4> QED BY <2>10, <3>1, <3>3, <4>1
    <3>4. CASE u = t
      <4>1. Shots(k, t) = Shots(h, t) \cup {id} /\ id \notin Shots(h, t)
        BY <2>4, <2>5, <2>11, <2>14, <2>15 DEF Shots
      <4>2. Cardinality(Shots(k, t)) = Cardinality(Shots(h, t)) + 1
        BY <3>2, <3>4, <4>1, FS_AddElement
      <4>3. k.tank[u].bulletNum = h.tank[u].bulletNum + 1
        BY <2>10, <3>4 DEF n
      <4> QED BY <3>1, <3>2, <3>4, <4>2, <4>3
    <3> QED BY <3>3, <3>4
  <2>18. Fit(k)
    BY <2>12, <2>13, <2>16, <2>17 DEF Fit
  <2>19. HomeClear(h) => HomeClear(k)
    BY <2>12, HomesIs DEF HomeClear
  <2>20. TanksClear(h) => TanksClear(k)
    BY <2>10 DEF TanksClear
  <2>21. BulletsClear(h) => BulletsClear(k)
    BY <2>5, <2>11, <2>14, <2>15 DEF BulletsClear
  <2>22. OnField(k) = OnField(h)
    <3>1. \A u : u \in OnField(k) <=> u \in OnField(h)
      BY <2>10, OnFieldIs DEF Afield
    <3> QED BY <3>1
  <2> QED BY <2>18, <2>19, <2>20, <2>21, <2>22 DEF Clear, Mended
<1> QED BY <1>1, <1>2

\* The enemy shoots, unless the clock stops it.
LEMMA EnemyShoots ==
  ASSUME NEW h, Fit(h), NEW k, k = shootEnemy(h)
  PROVE  Fit(k) /\ (Mended(h) => Mended(k)) /\ (Clear(h) => Clear(k))
<1>1. k = h \/ k = shoot(h, "enemy")
  BY DEF shootEnemy
<1>2. "enemy" \in Tanks
  BY DEF Tanks
<1>3. CASE k = h
  BY <1>3
<1>4. CASE k = shoot(h, "enemy")
  BY <1>2, <1>4, ShootIs
<1> QED BY <1>1, <1>3, <1>4

\* No unit comes or goes, and who is on the field was there before.
Stay(h, k) ==
    /\ k.units = h.units
    /\ \A t \in Tanks : Afield(k.tank[t]) => Afield(h.tank[t]) /\ k.tank[t].pos = h.tank[t].pos

\* What the last frame left of a bullet: nothing of one that met something, any
\* other flies on.
EventStep(h, k, id) ==
    /\ Fit(k) /\ (Mended(h) => Mended(k)) /\ Live(k) \subseteq Live(h) /\ Stay(h, k)
    /\ \A c \in Live(k) : c # id => k.bullet[c].hit = h.bullet[c].hit
    /\ id \in Live(k) => k.bullet[id].hit = NoHit

\* The bullet is destroyed and its shooter told.
LEMMA DestroyIs ==
  ASSUME NEW h, Fit(h), NEW id \in Live(h), NEW k, k = evDestroyBullet(h, id)
  PROVE  EventStep(h, k, id)
<1> DEFINE t == h.bullet[id].shooter
           n == h.tank[t].bulletNum
           m == IF n > 0 THEN n - 1 ELSE 0
<1>1. id \in Ids /\ t \in Tanks
  BY LiveIs DEF Fit, BulletOK
<1>2. k = [[h EXCEPT !.bullet[id] = NoBullet] EXCEPT !.tank[t].bulletNum = IF @ > 0 THEN @ - 1 ELSE 0]
  BY DEF evDestroyBullet, evReduceBullet
<1> HIDE DEF t
<1>3. /\ DOMAIN h = Fields /\ DOMAIN h.tank = Tanks /\ DOMAIN h.tank[t] = TankFields
      /\ DOMAIN h.bullet = Ids /\ h.units \subseteq Units /\ n \in Nat
  BY <1>1 DEF Fit, World, TankOK
<1>4. /\ DOMAIN k = Fields /\ DOMAIN k.tank = Tanks /\ DOMAIN k.bullet = Ids
      /\ k.units = h.units /\ k.home = h.home /\ k.homeHit = h.homeHit
  BY <1>2, <1>3 DEF Fields
<1>5. /\ \A u \in Tanks : u # t => k.tank[u] = h.tank[u]
      /\ DOMAIN k.tank[t] = TankFields /\ k.tank[t].pos = h.tank[t].pos
      /\ k.tank[t].dir = h.tank[t].dir /\ k.tank[t].life = h.tank[t].life
      /\ k.tank[t].hit = h.tank[t].hit /\ k.tank[t].bulletNum = m
  BY <1>1, <1>2, <1>3 DEF Fields, TankFields
<1>6. k.bullet[id] = NoBullet /\ \A c \in Ids : c # id => k.bullet[c] = h.bullet[c]
  BY <1>1, <1>2, <1>3 DEF Fields
<1>7. World(k) /\ Homes(h, k)
  BY <1>3, <1>4 DEF World, Homes
<1>8. m \in Nat /\ (n = 0 => m = 0) /\ (n # 0 => m = n - 1)
  BY <1>3
<1> HIDE DEF n, m
<1>9. \A u \in Tanks : TankOK(k.tank[u])
  <2>1. TankOK(k.tank[t])
    BY <1>1, <1>5, <1>8 DEF Fit, TankOK, Afield
  <2> QED BY <1>5, <2>1 DEF Fit
<1>10. ~Alive(NoBullet)
  BY DEF Alive, NoBullet
<1>11. Live(k) = Live(h) \ {id}
  <2>1. \A c : c \in Live(k) <=> c \in Live(h) /\ c # id
    BY <1>1, <1>6, <1>10, LiveIs
  <2> QED BY <2>1
<1>12. \A c \in Live(k) : c # id /\ k.bullet[c] = h.bullet[c] /\ c \in Live(h)
  BY <1>6, <1>11, LiveIs
<1>13. \A c \in Live(k) : BulletOK(k.bullet[c])
  BY <1>12 DEF Fit
<1>14. Ammo(k)
  <2> SUFFICES ASSUME NEW u \in Tanks PROVE k.tank[u].bulletNum <= Cardinality(Shots(k, u))
    BY DEF Ammo
  <2>1. h.tank[u].bulletNum <= Cardinality(Shots(h, u)) /\ h.tank[u].bulletNum \in Nat
    BY DEF Fit, Ammo, TankOK
  <2>2. Cardinality(Shots(h, u)) \in Nat /\ IsFiniteSet(Shots(h, u))
        /\ Cardinality(Shots(k, u)) \in Nat
    BY ShotsFinite
  <2>3. CASE u # t
    <3>1. Shots(k, u) = Shots(h, u)
      BY <1>11, <1>12, <2>3 DEF Shots, t
    <3> QED BY <1>5, <2>1, <2>3, <3>1
  <2>4. CASE u = t
    <3>1. Shots(k, t) = Shots(h, t) \ {id} /\ id \in Shots(h, t)
      BY <1>11, <1>12 DEF Shots, t
    <3>2. Cardinality(Shots(k, t)) = Cardinality(Shots(h, t)) - 1
      BY <2>2, <2>4, <3>1, FS_RemoveElement
    <3>3. k.tank[u].bulletNum = m /\ h.tank[u].bulletNum = n
      BY <1>5, <2>4 DEF n
    <3>4. CASE n = 0
      BY <1>8, <2>2, <3>3, <3>4
    <3>5. CASE n # 0
      BY <1>8, <2>1, <2>2, <2>4, <3>2, <3>3, <3>5
    <3> QED BY <3>4, <3>5
  <2> QED BY <2>3, <2>4
<1>15. Fit(k)
  BY <1>7, <1>9, <1>13, <1>14 DEF Fit
<1>16. HomeClear(h) => HomeClear(k)
  BY <1>7, HomesIs DEF HomeClear
<1>17. TanksClear(h) => TanksClear(k)
  BY <1>5 DEF TanksClear
<1>18. Stay(h, k)
  BY <1>4, <1>5 DEF Stay, Afield
<1> QED BY <1>11, <1>12, <1>15, <1>16, <1>17, <1>18 DEF EventStep, Mended

\* Two tanks meet nothing anew when bullets change.
LEMMA MendedBullet ==
  ASSUME NEW h, NEW k, NEW b, OnlyBullet(h, k, b)
  PROVE  Mended(h) => Mended(k)
<1>1. k.tank = h.tank /\ Homes(h, k)
  BY DEF OnlyBullet
<1>2. TanksClear(h) => TanksClear(k)
  BY <1>1 DEF TanksClear
<1>3. HomeClear(h) => HomeClear(k)
  BY <1>1, HomesIs DEF HomeClear
<1> QED BY <1>2, <1>3 DEF Mended

\* A bullet flies on or stops.
Updated(h, id, v) == [h EXCEPT !.bullet[id].update = v]

\* It is the only thing that changes, and it counts for the same shooter.
LEMMA UpdateIs ==
  ASSUME NEW h, Fit(h), NEW id \in Live(h), NEW v, NEW k, k = Updated(h, id, v)
  PROVE  /\ OnlyBullet(h, k, id) /\ BulletOK(k.bullet[id]) /\ Alive(k.bullet[id])
         /\ k.bullet[id].shooter = h.bullet[id].shooter /\ k.bullet[id].hit = h.bullet[id].hit
         /\ k.units = h.units
<1>1. id \in Ids /\ Alive(h.bullet[id]) /\ BulletOK(h.bullet[id])
  BY LiveIs DEF Fit
<1>2. DOMAIN h = Fields /\ DOMAIN h.bullet = Ids /\ DOMAIN h.bullet[id] = BulletFields
  BY <1>1 DEF Fit, World, BulletOK
<1>3. /\ DOMAIN k = Fields /\ k.tank = h.tank /\ DOMAIN k.bullet = Ids
      /\ k.units = h.units /\ k.home = h.home /\ k.homeHit = h.homeHit
      /\ \A c \in Ids : c # id => k.bullet[c] = h.bullet[c]
  BY <1>2 DEF Updated, Fields
<1>4. /\ DOMAIN k.bullet[id] = BulletFields /\ k.bullet[id].pos = h.bullet[id].pos
      /\ k.bullet[id].dir = h.bullet[id].dir /\ k.bullet[id].shooter = h.bullet[id].shooter
      /\ k.bullet[id].hit = h.bullet[id].hit /\ k.bullet[id].live = h.bullet[id].live
  BY <1>1, <1>2 DEF Updated, Fields, BulletFields
<1>5. OnlyBullet(h, k, id)
  BY <1>3 DEF OnlyBullet, World, Fit, Homes
<1>6. BulletOK(k.bullet[id])
  BY <1>1, <1>4 DEF BulletOK
<1>7. Alive(k.bullet[id])
  BY <1>1, <1>4 DEF Alive
<1> QED BY <1>3, <1>4, <1>5, <1>6, <1>7

\* The event of one bullet.
LEMMA BulletEventIs ==
  ASSUME NEW h, Fit(h), NEW id \in Ids
  PROVE  EventStep(h, BulletEvent(h, id), id)
<1> DEFINE k == BulletEvent(h, id)
<1>1. CASE id \notin Live(h)
  <2>1. k = h
    BY <1>1 DEF BulletEvent
  <2> HIDE DEF k
  <2> QED BY <1>1, <2>1 DEF EventStep, Stay, k
<1>2. CASE id \in Live(h) /\ h.bullet[id].hit # NoHit
  <2>1. k = evDestroyBullet(h, id)
    BY <1>2 DEF BulletEvent
  <2> QED BY <1>2, <2>1, DestroyIs
<1>3. CASE id \in Live(h) /\ h.bullet[id].hit = NoHit
  <2>1. k = [h EXCEPT !.bullet[id].update = TRUE]
    BY <1>3 DEF BulletEvent
  <2> HIDE DEF k
  <2>2. /\ OnlyBullet(h, k, id) /\ BulletOK(k.bullet[id]) /\ Alive(k.bullet[id])
        /\ k.bullet[id].shooter = h.bullet[id].shooter /\ k.bullet[id].hit = h.bullet[id].hit
        /\ k.units = h.units
    <3>1. PICK v : k = Updated(h, id, v)
      BY <2>1 DEF Updated
    <3> QED BY <1>3, <3>1, UpdateIs
  <2>3. Fit(k) /\ Live(k) = Live(h)
    BY <1>3, <2>2, BulletFits
  <2>4. Mended(h) => Mended(k)
    BY <2>2, MendedBullet
  <2>5. \A c \in Live(k) : c # id => k.bullet[c].hit = h.bullet[c].hit
    BY <2>2, <2>3, LiveIs DEF OnlyBullet
  <2>6. Stay(h, k)
    BY <2>2 DEF OnlyBullet, Stay
  <2> QED BY <1>3, <2>2, <2>3, <2>4, <2>5, <2>6 DEF EventStep, k
<1> QED BY <1>1, <1>2, <1>3

-----------------------------------------------------------------------------
(* A bullet in a physics frame *)

\* It flies along its line ...
LEMMA FlownIs ==
  ASSUME NEW b, BulletOK(b), Alive(b), NEW n \in Int,
         NEW v, v = [b EXCEPT !.pos = getMovePosition(@, b.dir, n)]
  PROVE  BulletOK(v) /\ Alive(v) /\ v.shooter = b.shooter /\ v.hit = b.hit
<1> DEFINE p == getMovePosition(b.pos, b.dir, n)
<1>1. DOMAIN b = BulletFields /\ OnLine(b.pos, b.dir) /\ b.shooter \in Tanks
  BY DEF BulletOK
<1>2. OnLine(p, b.dir)
  BY <1>1, MoveOnLine
<1>3. /\ DOMAIN v = BulletFields /\ v.pos = p /\ v.dir = b.dir /\ v.shooter = b.shooter
      /\ v.hit = b.hit /\ v.live = b.live
  BY <1>1 DEF BulletFields
<1> HIDE DEF p
<1>4. BulletOK(v)
  BY <1>1, <1>2, <1>3 DEF BulletOK
<1>5. Alive(v)
  BY <1>3 DEF Alive
<1> QED BY <1>3, <1>4, <1>5

\* ... until it meets something.
Stop(b, x) == [b EXCEPT !.hit = x, !.update = FALSE]

\* A bullet that stops knows what it met.
LEMMA StoppedIs ==
  ASSUME NEW b, BulletOK(b), Alive(b), NEW x, NEW v, v = Stop(b, x)
  PROVE  /\ BulletOK(v) /\ Alive(v) /\ v.shooter = b.shooter /\ v.hit = x
         /\ (Flies(v) => v.hit = NoHit)
<1>1. DOMAIN b = BulletFields /\ OnLine(b.pos, b.dir) /\ b.shooter \in Tanks
  BY DEF BulletOK
<1>2. /\ DOMAIN v = BulletFields /\ v.pos = b.pos /\ v.dir = b.dir /\ v.shooter = b.shooter
      /\ v.hit = x /\ v.live = b.live
  BY <1>1 DEF Stop, BulletFields
<1>3. BulletOK(v)
  BY <1>1, <1>2 DEF BulletOK
<1>4. Alive(v)
  BY <1>2 DEF Alive
<1>5. ~Flies(v)
  BY <1>1 DEF Flies, Stop, BulletFields
<1> QED BY <1>2, <1>3, <1>4, <1>5

\* Nothing else changes, but what will be gone of the sceneries.
Placed(h, id, v) == [h EXCEPT !.bullet[id] = v]
Hited(h, y, id, v) == [h EXCEPT !.hited = y, !.bullet[id] = v]

\* Only the bullet that is put back changes.
LEMMA PutBullet ==
  ASSUME NEW h, Fit(h), NEW id \in Ids, NEW v, NEW y,
         NEW k, k = Hited(h, y, id, v) \/ k = Placed(h, id, v)
  PROVE  OnlyBullet(h, k, id) /\ k.bullet[id] = v
<1>1. DOMAIN h = Fields /\ DOMAIN h.bullet = Ids
  BY DEF Fit, World
<1>2. /\ DOMAIN k = Fields /\ k.tank = h.tank /\ DOMAIN k.bullet = Ids
      /\ k.units = h.units /\ k.home = h.home /\ k.homeHit = h.homeHit
      /\ \A c \in Ids : c # id => k.bullet[c] = h.bullet[c]
      /\ k.bullet[id] = v
  BY <1>1 DEF Hited, Placed, Fields
<1> QED BY <1>2 DEF OnlyBullet, World, Fit, Homes

\* How far a bullet can fly is a number.
LEMMA FlightInt ==
  ASSUME NEW h, World(h), NEW b, BulletOK(b), NEW r
  PROVE  Reach(getBulletRect(b.pos), getBulletCollisionRectWhenMove(h, r), b.dir, BulletSpeed)
            \in Int
<1>1. b.pos[1] \in Int /\ b.pos[2] \in Int /\ b.dir \in Directions
  BY DEF BulletOK, OnLine
<1>2. BulletSpeed \in Int
  BY TanksAssumption
<1>3. BulletHalf \in Int
  <2>1. Unit \in Nat
    BY FieldAssumption
  <2> QED BY <2>1 DEF BulletHalf
<1>4. IntRect(getBulletRect(b.pos))
  BY <1>1, <1>3 DEF getBulletRect, Square, Rect, IntRect
<1>5. /\ IsFiniteSet(getBulletCollisionRectWhenMove(h, r))
      /\ \A o \in getBulletCollisionRectWhenMove(h, r) : IntRect(o.rect)
  BY BulletWays
<1> QED BY <1>1, <1>2, <1>4, <1>5, ReachInt

\* A bullet flies on, or meets a scenery, the boundary or nothing and stops.
LEMMA BulletUpdateIs ==
  ASSUME NEW h, Fit(h), Linked(h), NEW id \in Ids
  PROVE  /\ Fit(BulletUpdate(h, id)) /\ Linked(BulletUpdate(h, id))
         /\ OnField(BulletUpdate(h, id)) = OnField(h)
<1> DEFINE k == BulletUpdate(h, id)
           b == h.bullet[id]
<1>1. CASE ~(id \in Live(h) /\ Flies(b))
  <2>1. k = h
    BY <1>1, LiveIs DEF BulletUpdate, Alive, Flies
  <2> QED BY <2>1
<1>2. CASE id \in Live(h) /\ Flies(b)
  <2>1. k = tryMoveFromAToBEx(h, id)
    BY <1>2, LiveIs DEF BulletUpdate, Alive, Flies
  <2>2. BulletOK(b) /\ Alive(b) /\ b.hit = NoHit
    BY <1>2, LiveIs DEF Fit, Linked, Flying
  <2> HIDE DEF k
  <2> DEFINE obstacles == getBulletCollisionRectWhenMove(h, getBulletMoveRect(b.pos, b.dir, BulletSpeed))
             near == getNearGameRect(obstacles, b.dir)
             front == {o \in near : o.group = "scenery"}
             n == Reach(getBulletRect(b.pos), obstacles, b.dir, BulletSpeed)
             moved == [b EXCEPT !.pos = getMovePosition(@, b.dir, n)]
             deal == dealHitScenery(h, b, (CHOOSE o \in front : TRUE).rect)
  <2>3. \/ k = Placed(h, id, moved) \/ k = Placed(h, id, Stop(moved, <<"boundary">>))
        \/ k = Hited(h, h.hited \cup deal.gone, id,
                      Stop(moved, IF deal.hit THEN <<"scenery">> ELSE NoHit))
    <3> DEFINE A == Placed(h, id, moved)
               B == Placed(h, id, Stop(moved, <<"boundary">>))
               C == Hited(h, h.hited \cup deal.gone, id,
                          Stop(moved, IF deal.hit THEN <<"scenery">> ELSE NoHit))
    <3>1. k = CASE obstacles = {} -> A
                [] near # {} /\ front = {} -> B
                [] OTHER -> C
      BY <2>1 DEF tryMoveFromAToBEx, Stop, Placed, Hited
    <3> HIDE DEF A, B, C, obstacles, near, front
    <3>2. k = A \/ k = B \/ k = C
      BY <3>1
    <3> QED BY <3>2 DEF A, B, C
  <2>4. n \in Int
    BY <2>2, FlightInt DEF Fit
  <2> HIDE DEF n, near, obstacles, front, deal, b
  <2>5. BulletOK(moved) /\ Alive(moved) /\ moved.shooter = b.shooter /\ moved.hit = NoHit
    <3>1. /\ BulletOK(moved) /\ Alive(moved) /\ moved.shooter = b.shooter
          /\ moved.hit = b.hit
      BY <2>2, <2>4, FlownIs
    <3> QED BY <2>2, <3>1
  <2> HIDE DEF moved
  <2>6. \E v, x, y : /\ k = Hited(h, y, id, v) \/ k = Placed(h, id, v)
                     /\ v = moved \/ v = Stop(moved, x)
                     /\ x \in {NoHit, <<"boundary">>, <<"scenery">>}
    <3> DEFINE x == IF deal.hit THEN <<"scenery">> ELSE NoHit
    <3>1. x \in {NoHit, <<"boundary">>, <<"scenery">>}
      OBVIOUS
    <3> HIDE DEF x
    <3> QED BY <2>3, <3>1 DEF x
  <2>7. PICK v, x, y : /\ k = Hited(h, y, id, v) \/ k = Placed(h, id, v)
                       /\ v = moved \/ v = Stop(moved, x)
                       /\ x \in {NoHit, <<"boundary">>, <<"scenery">>}
    BY <2>6
  <2>8. OnlyBullet(h, k, id) /\ k.bullet[id] = v
    BY <2>7, PutBullet
  <2>9. /\ BulletOK(v) /\ Alive(v) /\ v.shooter = b.shooter
        /\ v.hit \in {NoHit, <<"boundary">>, <<"scenery">>}
        /\ (Flies(v) => v.hit = NoHit)
    <3>1. CASE v = moved
      BY <2>5, <3>1
    <3>2. CASE v = Stop(moved, x)
      BY <2>5, <2>7, <3>2, StoppedIs
    <3> QED BY <2>7, <3>1, <3>2
  <2>10. Fit(k) /\ Live(k) = Live(h)
    BY <1>2, <2>8, <2>9, BulletFits DEF b
  <2>11. Linked(k)
    BY <1>2, <2>2, <2>8, <2>9, <2>10, LinkedBullet DEF b
  <2>12. OnField(k) = OnField(h)
    BY <2>8 DEF OnField, OnlyBullet
  <2> QED BY <2>10, <2>11, <2>12 DEF k
<1> QED BY <1>1, <1>2

-----------------------------------------------------------------------------
(* Collisions *)

\* After a collision the same bullets fly, the same tanks are on the field, and
\* who was hit is what hit it.
Met(h, k) == Fit(k) /\ Linked(k) /\ Live(k) = Live(h) /\ OnField(k) = OnField(h)

\* Collisions follow one another.
LEMMA MetThen ==
  ASSUME NEW h, NEW j, NEW k, Met(h, j), Met(j, k)
  PROVE  Met(h, k)
BY DEF Met

\* A bullet that met nothing is told what it meets.
LEMMA MeetsIs ==
  ASSUME NEW h, Fit(h), NEW id \in Live(h), h.bullet[id].hit = NoHit, NEW hit, NEW name,
         NEW m, m = BulletMeets(h, id, hit, name)
  PROVE  /\ OnlyBullet(h, m, id) /\ Fit(m) /\ Live(m) = Live(h) /\ OnField(m) = OnField(h)
         /\ m.bullet[id].shooter = h.bullet[id].shooter /\ ~Flies(m.bullet[id])
         /\ hit \in {NoHit, AtBullet(id)} => m.bullet[id].hit = name
         /\ hit \notin {NoHit, AtBullet(id)} => m.bullet[id].hit = NoHit
<1> DEFINE b == h.bullet[id]
           x == IF hit \in {NoHit, AtBullet(id)} THEN name ELSE NoHit
           v == m.bullet[id]
<1>1. id \in Ids /\ Alive(b) /\ BulletOK(b)
  BY LiveIs DEF Fit
<1>2. DOMAIN h = Fields /\ DOMAIN h.bullet = Ids /\ DOMAIN b = BulletFields
  BY <1>1 DEF Fit, World, BulletOK
<1>3. \/ m = [[h EXCEPT !.bullet[id].hit = name, !.bullet[id].update = FALSE]
                 EXCEPT !.bullet[id].update = FALSE] /\ x = name
      \/ m = [h EXCEPT !.bullet[id].update = FALSE] /\ x = NoHit
  BY DEF BulletMeets, HitBullet, AtBullet
<1> HIDE DEF x
<1>4. /\ DOMAIN m = Fields /\ m.tank = h.tank /\ DOMAIN m.bullet = Ids
      /\ m.units = h.units /\ m.home = h.home /\ m.homeHit = h.homeHit
      /\ \A c \in Ids : c # id => m.bullet[c] = h.bullet[c]
  BY <1>2, <1>3 DEF Fields
<1>5. \/ v = [[b EXCEPT !.hit = name, !.update = FALSE] EXCEPT !.update = FALSE] /\ x = name
      \/ v = [b EXCEPT !.update = FALSE] /\ x = NoHit
  <2> DEFINE w1 == [b EXCEPT !.hit = name, !.update = FALSE]
             j == [h EXCEPT !.bullet[id].hit = name, !.bullet[id].update = FALSE]
  <2>1. CASE m = [h EXCEPT !.bullet[id].update = FALSE] /\ x = NoHit
    <3>1. v = [b EXCEPT !.update = FALSE]
      BY <1>1, <1>2, <2>1 DEF Fields
    <3> QED BY <2>1, <3>1
  <2>2. CASE m = [j EXCEPT !.bullet[id].update = FALSE] /\ x = name
    <3>1. DOMAIN j = Fields /\ DOMAIN j.bullet = Ids /\ j.bullet[id] = w1
      BY <1>1, <1>2 DEF Fields
    <3> HIDE DEF j, w1
    <3>2. v = [w1 EXCEPT !.update = FALSE]
      BY <1>1, <2>2, <3>1 DEF Fields
    <3> QED BY <2>2, <3>2 DEF w1
  <2> QED BY <1>3, <2>1, <2>2
<1>6. b.hit = NoHit
  OBVIOUS
<1> HIDE DEF v, b
<1>7. /\ DOMAIN v = BulletFields /\ v.pos = b.pos /\ v.dir = b.dir /\ v.shooter = b.shooter
      /\ v.hit = x /\ v.live = b.live
  BY <1>2, <1>5, <1>6 DEF BulletFields
<1>8. ~Flies(v)
  BY <1>2, <1>5 DEF BulletFields, Flies
<1>9. OnlyBullet(h, m, id)
  BY <1>4 DEF OnlyBullet, World, Fit, Homes
<1>10. BulletOK(v) /\ Alive(v)
  BY <1>1, <1>7 DEF BulletOK, Alive
<1>11. Fit(m) /\ Live(m) = Live(h)
  BY <1>7, <1>9, <1>10, BulletFits DEF v, b
<1>12. OnField(m) = OnField(h)
  BY <1>4 DEF OnField
<1> QED BY <1>7, <1>8, <1>9, <1>11, <1>12 DEF v, b, x

\* A bullet that meets what is taken only stops.
LEMMA StopsOnly ==
  ASSUME NEW h, Fit(h), Linked(h), NEW id \in Live(h), h.bullet[id].hit = NoHit, NEW hit,
         NEW name, hit \notin {NoHit, AtBullet(id)}
  PROVE  Met(h, BulletMeets(h, id, hit, name))
<1> DEFINE m == BulletMeets(h, id, hit, name)
<1>1. /\ OnlyBullet(h, m, id) /\ Fit(m) /\ Live(m) = Live(h) /\ OnField(m) = OnField(h)
      /\ m.bullet[id].hit = NoHit
  BY MeetsIs
<1> HIDE DEF m
<1>2. Linked(m)
  BY <1>1, LinkedBullet
<1> QED BY <1>1, <1>2 DEF Met, m

\* Two bullets that met nothing meet each other.
LEMMA LinkedPair ==
  ASSUME NEW h, Linked(h), NEW i \in Live(h), NEW j \in Live(h), i # j, NEW k1, NEW k,
         OnlyBullet(h, k1, i), OnlyBullet(k1, k, j), Live(k) = Live(h),
         h.bullet[i].hit = NoHit, h.bullet[j].hit = NoHit,
         k1.bullet[i].hit = AtBullet(j), ~Flies(k1.bullet[i]),
         k.bullet[j].hit = AtBullet(i), ~Flies(k.bullet[j])
  PROVE  Linked(k)
<1>1. i \in Ids /\ j \in Ids
  BY LiveIs
<1>2. /\ k.tank = h.tank /\ (Stands(k) <=> Stands(h)) /\ k.homeHit = h.homeHit
  <2>1. Homes(h, k1) /\ Homes(k1, k) /\ k.tank = h.tank
    BY DEF OnlyBullet
  <2> QED BY <2>1, HomesIs
<1>3. k.bullet[i] = k1.bullet[i] /\ \A c \in Ids : c # i /\ c # j => k.bullet[c] = h.bullet[c]
  BY <1>1 DEF OnlyBullet
<1>4. k.bullet[i].hit = AtBullet(j) /\ ~Flies(k.bullet[i])
  BY <1>3
<1>5. \A c \in Live(h) : c \in Ids /\ (c # i /\ c # j => k.bullet[c] = h.bullet[c])
  BY <1>3, LiveIs
<1>6. OnField(k) = OnField(h)
  BY <1>2 DEF OnField
<1>7. TankLinks(k)
  <2> SUFFICES ASSUME NEW c \in Live(k), NEW t \in OnField(k)
               PROVE  k.bullet[c].hit = AtTank(t) <=> k.tank[t].hit = AtBullet(c)
    BY DEF TankLinks
  <2>1. h.bullet[c].hit = AtTank(t) <=> h.tank[t].hit = AtBullet(c)
    BY <1>6 DEF Linked, TankLinks
  <2>2. CASE c # i /\ c # j
    BY <1>2, <1>5, <2>1, <2>2
  <2>3. CASE c = i
    BY <1>2, <1>4, <2>1, <2>3, Names
  <2>4. CASE c = j
    BY <1>2, <2>1, <2>4, Names
  <2> QED BY <2>2, <2>3, <2>4
<1>8. BulletLinks(k)
  <2> SUFFICES ASSUME NEW c \in Live(k), NEW d \in Live(k)
               PROVE  k.bullet[c].hit = AtBullet(d) <=> k.bullet[d].hit = AtBullet(c)
    BY DEF BulletLinks
  <2>1. \A e, g \in Live(h) : h.bullet[e].hit = AtBullet(g) <=> h.bullet[g].hit = AtBullet(e)
    BY DEF Linked, BulletLinks
  <2>2. CASE c \notin {i, j} /\ d \notin {i, j}
    BY <1>5, <2>1, <2>2
  <2>3. CASE c \in {i, j} /\ d \in {i, j}
    BY <1>4, <2>3, Names
  <2>4. CASE c \in {i, j} /\ d \notin {i, j}
    <3>1. k.bullet[c].hit # AtBullet(d)
      BY <1>4, <2>4, Names
    <3>2. k.bullet[d].hit # AtBullet(c)
      BY <1>5, <2>1, <2>4, Names
    <3> QED BY <3>1, <3>2
  <2>5. CASE c \notin {i, j} /\ d \in {i, j}
    <3>1. k.bullet[d].hit # AtBullet(c)
      BY <1>4, <2>5, Names
    <3>2. k.bullet[c].hit # AtBullet(d)
      BY <1>5, <2>1, <2>5, Names
    <3> QED BY <3>1, <3>2
  <2> QED BY <2>2, <2>3, <2>4, <2>5
<1>9. TankHits(k)
  BY <1>2, <1>6 DEF Linked, TankHits
<1>10. Flying(k)
  BY <1>4, <1>5 DEF Linked, Flying
<1>11. HomeLinks(k)
  <2> SUFFICES ASSUME NEW c \in Ids, Stands(k), k.homeHit = AtBullet(c)
               PROVE  k.bullet[c].hit = AtHome
    BY DEF HomeLinks
  <2>1. h.bullet[c].hit = AtHome
    BY <1>2 DEF Linked, HomeLinks
  <2>2. c # i /\ c # j
    BY <2>1, Names
  <2> QED BY <1>3, <2>1, <2>2
<1> QED BY <1>7, <1>8, <1>9, <1>10, <1>11 DEF Linked

\* Two bullets touch.
LEMMA BulletBulletIs ==
  ASSUME NEW h, Fit(h), Linked(h), NEW i \in Live(h), NEW j \in Live(h), i # j
  PROVE  Met(h, BulletBullet(h, i, j))
<1> DEFINE k == IF h.bullet[i].hit # NoHit THEN h
                ELSE BulletMeets(h, i, h.bullet[j].hit, AtBullet(j))
           m == BulletMeets(k, j, k.bullet[i].hit, AtBullet(i))
           r == BulletBullet(h, i, j)
<1>1. r = IF k.bullet[j].hit # NoHit THEN k ELSE m
  BY DEF BulletBullet, AtBullet
<1>2. h.bullet[i].hit = AtBullet(j) <=> h.bullet[j].hit = AtBullet(i)
  BY DEF Linked, BulletLinks
<1>3. j \in Ids
  BY LiveIs
<1> HIDE DEF r
<1>4. CASE h.bullet[i].hit # NoHit /\ h.bullet[j].hit # NoHit
  <2>1. r = h
    BY <1>1, <1>4
  <2> QED BY <2>1 DEF Met, r
<1>5. CASE h.bullet[i].hit # NoHit /\ h.bullet[j].hit = NoHit
  <2>1. k = h
    BY <1>5
  <2>2. r = BulletMeets(h, j, h.bullet[i].hit, AtBullet(i))
    BY <1>1, <1>5, <2>1
  <2>3. h.bullet[i].hit \notin {NoHit, AtBullet(j)}
    BY <1>2, <1>5, Names
  <2> HIDE DEF k, m
  <2> QED BY <1>5, <2>2, <2>3, StopsOnly DEF r
<1>6. CASE h.bullet[i].hit = NoHit /\ h.bullet[j].hit # NoHit
  <2>1. k = BulletMeets(h, i, h.bullet[j].hit, AtBullet(j))
    BY <1>6
  <2>2. h.bullet[j].hit \notin {NoHit, AtBullet(i)}
    BY <1>2, <1>6, Names
  <2> HIDE DEF k, m
  <2>3. Met(h, k)
    BY <1>6, <2>1, <2>2, StopsOnly
  <2>4. OnlyBullet(h, k, i)
    BY <1>6, <2>1, MeetsIs
  <2>5. k.bullet[j].hit # NoHit
    BY <1>3, <1>6, <2>4 DEF OnlyBullet
  <2> QED BY <1>1, <2>3, <2>5 DEF r
<1>7. CASE h.bullet[i].hit = NoHit /\ h.bullet[j].hit = NoHit
  <2>1. k = BulletMeets(h, i, h.bullet[j].hit, AtBullet(j))
    BY <1>7
  <2> HIDE DEF k
  <2>2. /\ OnlyBullet(h, k, i) /\ Fit(k) /\ Live(k) = Live(h) /\ OnField(k) = OnField(h)
        /\ ~Flies(k.bullet[i]) /\ k.bullet[i].hit = AtBullet(j)
    BY <1>7, <2>1, MeetsIs
  <2>3. k.bullet[j].hit = NoHit
    BY <1>3, <1>7, <2>2 DEF OnlyBullet
  <2>4. r = BulletMeets(k, j, k.bullet[i].hit, AtBullet(i))
    BY <1>1, <2>3
  <2>5. /\ OnlyBullet(k, r, j) /\ Fit(r) /\ Live(r) = Live(k) /\ OnField(r) = OnField(k)
        /\ ~Flies(r.bullet[j]) /\ r.bullet[j].hit = AtBullet(i)
    BY <2>2, <2>3, <2>4, MeetsIs
  <2>6. Linked(r)
    BY <1>7, <2>2, <2>5, LinkedPair
  <2> QED BY <2>2, <2>5, <2>6 DEF Met, r
<1> QED BY <1>4, <1>5, <1>6, <1>7

\* A tank that a bullet touches waits for the next frame.
LEMMA StopsIs ==
  ASSUME NEW h, Fit(h), NEW t \in Tanks, NEW id, NEW k, k = Stops(h, t, id)
  PROVE  /\ TankStep(h, k, t) /\ k.tank[t].hit = h.tank[t].hit
         /\ k.tank[t].life = h.tank[t].life
<1>1. DOMAIN h = Fields /\ DOMAIN h.tank = Tanks /\ DOMAIN h.tank[t] = TankFields
  BY DEF Fit, World, TankOK
<1>2. /\ DOMAIN k = Fields /\ DOMAIN k.tank = Tanks /\ k.bullet = h.bullet /\ k.home = h.home
      /\ k.homeHit = h.homeHit /\ k.units = h.units
      /\ \A u \in Tanks : u # t => k.tank[u] = h.tank[u]
  BY <1>1 DEF Stops, Fields
<1>3. /\ DOMAIN k.tank[t] = TankFields /\ k.tank[t].pos = h.tank[t].pos
      /\ k.tank[t].dir = h.tank[t].dir /\ k.tank[t].life = h.tank[t].life
      /\ k.tank[t].hit = h.tank[t].hit /\ k.tank[t].bulletNum = h.tank[t].bulletNum
  BY <1>1 DEF Stops, Fields, TankFields
<1> QED BY <1>2, <1>3, TankMood

\* A tank on the field remembers the bullet that hit it.
LEMMA HitTankIs ==
  ASSUME NEW h, Fit(h), NEW t \in OnField(h), NEW id, NEW k, k = HitTank(h, t, id)
  PROVE  /\ OnlyTank(h, k, t) /\ Fit(k) /\ Live(k) = Live(h)
         /\ k.tank[t].hit = AtBullet(id) /\ k.tank[t].life = h.tank[t].life
<1>1. t \in Tanks /\ Afield(h.tank[t]) /\ TankOK(h.tank[t])
  BY OnFieldIs DEF Fit
<1>2. DOMAIN h = Fields /\ DOMAIN h.tank = Tanks /\ DOMAIN h.tank[t] = TankFields
  BY <1>1 DEF Fit, World, TankOK
<1>3. /\ DOMAIN k = Fields /\ DOMAIN k.tank = Tanks /\ k.bullet = h.bullet /\ k.home = h.home
      /\ k.homeHit = h.homeHit /\ k.units = h.units
      /\ \A u \in Tanks : u # t => k.tank[u] = h.tank[u]
  BY <1>2 DEF HitTank, Fields
<1>4. /\ DOMAIN k.tank[t] = TankFields /\ k.tank[t].pos = h.tank[t].pos
      /\ k.tank[t].dir = h.tank[t].dir /\ k.tank[t].life = h.tank[t].life
      /\ k.tank[t].hit = AtBullet(id) /\ k.tank[t].bulletNum = h.tank[t].bulletNum
  BY <1>1, <1>2 DEF HitTank, AtBullet, Fields, TankFields
<1>5. OnlyTank(h, k, t)
  BY <1>1, <1>3, PutTank DEF Fit
<1>6. TankOK(k.tank[t]) /\ k.tank[t].bulletNum <= h.tank[t].bulletNum
  BY <1>1, <1>4 DEF TankOK, Afield
<1>7. Fit(k) /\ Live(k) = Live(h)
  BY <1>1, <1>5, <1>6, TankFits
<1> QED BY <1>4, <1>5, <1>7

\* A tank that waits is hit by what hit it.
LEMMA StopsMet ==
  ASSUME NEW h, Fit(h), Linked(h), NEW t \in Tanks, NEW id
  PROVE  Met(h, Stops(h, t, id))
<1> DEFINE k == Stops(h, t, id)
<1>1. TankStep(h, k, t) /\ k.tank[t].hit = h.tank[t].hit /\ k.tank[t].life = h.tank[t].life
  BY StopsIs
<1> HIDE DEF k
<1>2. Fit(k) /\ Live(k) = Live(h)
  BY <1>1, TankSteps
<1>3. OnlyTank(h, k, t) /\ (Afield(k.tank[t]) <=> Afield(h.tank[t]))
  BY <1>1 DEF TankStep, Afield
<1>4. Linked(k)
  BY <1>1, <1>3, LinkedTank
<1>5. OnField(k) = OnField(h)
  <2>1. \A u : u \in OnField(k) <=> u \in OnField(h)
    BY <1>3, OnFieldIs DEF OnlyTank
  <2> QED BY <2>1
<1> QED BY <1>2, <1>4, <1>5 DEF Met, k

\* A bullet and a tank that nothing hit hit each other.
LEMMA LinkedShot ==
  ASSUME NEW h, Linked(h), NEW b \in Live(h), NEW t \in OnField(h), NEW k1, NEW k,
         OnlyBullet(h, k1, b), OnlyTank(k1, k, t), Live(k) = Live(h), OnField(k) = OnField(h),
         h.bullet[b].hit = NoHit, h.tank[t].hit = NoHit, k1.bullet[b].hit = AtTank(t),
         ~Flies(k1.bullet[b]), k.tank[t].hit = AtBullet(b)
  PROVE  Linked(k)
<1>1. b \in Ids /\ t \in Tanks
  BY LiveIs, OnFieldIs
<1>2. (Stands(k) <=> Stands(h)) /\ k.homeHit = h.homeHit
  <2>1. Homes(h, k1) /\ Homes(k1, k)
    BY DEF OnlyBullet, OnlyTank
  <2> QED BY <2>1, HomesIs
<1>3. k.bullet = k1.bullet /\ k.bullet[b].hit = AtTank(t) /\ ~Flies(k.bullet[b])
  BY DEF OnlyTank
<1>4. \A c \in Ids : c # b => k.bullet[c] = h.bullet[c]
  BY <1>3 DEF OnlyBullet
<1>5. \A c \in Live(h) : c \in Ids /\ (c # b => k.bullet[c] = h.bullet[c])
  BY <1>4, LiveIs
<1>6. \A u \in OnField(h) : u # t => k.tank[u] = h.tank[u]
  BY OnFieldIs DEF OnlyBullet, OnlyTank
<1>7. TankLinks(k)
  <2> SUFFICES ASSUME NEW c \in Live(k), NEW u \in OnField(k)
               PROVE  k.bullet[c].hit = AtTank(u) <=> k.tank[u].hit = AtBullet(c)
    BY DEF TankLinks
  <2>1. h.bullet[c].hit = AtTank(u) <=> h.tank[u].hit = AtBullet(c)
    BY DEF Linked, TankLinks
  <2>2. CASE c # b /\ u # t
    BY <1>5, <1>6, <2>1, <2>2
  <2>3. CASE c = b /\ u = t
    BY <1>3, <2>3
  <2>4. CASE c = b /\ u # t
    <3>1. k.bullet[c].hit # AtTank(u)
      BY <1>3, <2>4, Names
    <3>2. k.tank[u].hit # AtBullet(c)
      BY <1>6, <2>1, <2>4, Names
    <3> QED BY <3>1, <3>2
  <2>5. CASE c # b /\ u = t
    <3>1. k.tank[u].hit # AtBullet(c)
      BY <2>5, Names
    <3>2. k.bullet[c].hit # AtTank(u)
      BY <1>5, <2>1, <2>5, Names
    <3> QED BY <3>1, <3>2
  <2> QED BY <2>2, <2>3, <2>4, <2>5
<1>8. BulletLinks(k)
  <2> SUFFICES ASSUME NEW c \in Live(k), NEW d \in Live(k)
               PROVE  k.bullet[c].hit = AtBullet(d) <=> k.bullet[d].hit = AtBullet(c)
    BY DEF BulletLinks
  <2>1. h.bullet[c].hit = AtBullet(d) <=> h.bullet[d].hit = AtBullet(c)
    BY DEF Linked, BulletLinks
  <2>2. CASE c # b /\ d # b
    BY <1>5, <2>1, <2>2
  <2>3. CASE c = b /\ d # b
    BY <1>3, <1>5, <2>1, <2>3, Names
  <2>4. CASE c # b /\ d = b
    BY <1>3, <1>5, <2>1, <2>4, Names
  <2>5. CASE c = b /\ d = b
    BY <2>5
  <2> QED BY <2>2, <2>3, <2>4, <2>5
<1>9. TankHits(k)
  <2> SUFFICES ASSUME NEW u \in OnField(k)
               PROVE  k.tank[u].hit = NoHit \/ \E c \in Live(k) : k.tank[u].hit = AtBullet(c)
    BY DEF TankHits
  <2>1. CASE u = t
    BY <2>1
  <2>2. CASE u # t
    BY <1>6, <2>2 DEF Linked, TankHits
  <2> QED BY <2>1, <2>2
<1>10. Flying(k)
  BY <1>3, <1>5 DEF Linked, Flying
<1>11. HomeLinks(k)
  <2> SUFFICES ASSUME NEW c \in Ids, Stands(k), k.homeHit = AtBullet(c)
               PROVE  k.bullet[c].hit = AtHome
    BY DEF HomeLinks
  <2>1. h.bullet[c].hit = AtHome
    BY <1>2 DEF Linked, HomeLinks
  <2>2. c # b
    BY <2>1, Names
  <2> QED BY <1>4, <2>1, <2>2
<1> QED BY <1>7, <1>8, <1>9, <1>10, <1>11 DEF Linked

\* A bullet touches a tank.
LEMMA BulletTankIs ==
  ASSUME NEW h, Fit(h), Linked(h), NEW id \in Live(h), NEW t \in OnField(h)
  PROVE  Met(h, BulletTank(h, id, t))
<1> DEFINE s == h.bullet[id].shooter
           k == IF h.bullet[id].hit # NoHit \/ s = t THEN h
                ELSE BulletMeets(h, id, h.tank[t].hit, AtTank(t))
           hits == k.bullet[id].shooter # t /\ k.bullet[id].hit \in {NoHit, AtTank(t)}
           r == BulletTank(h, id, t)
<1>1. /\ k.tank[t].hit # NoHit => r = k
      /\ k.tank[t].hit = NoHit /\ hits => r = Stops(HitTank(k, t, id), t, id)
      /\ k.tank[t].hit = NoHit /\ ~hits => r = Stops(k, t, id)
  BY DEF BulletTank, TankMeets, AtTank, Team
<1>2. h.bullet[id].hit = AtTank(t) <=> h.tank[t].hit = AtBullet(id)
  BY DEF Linked, TankLinks
<1>3. t \in Tanks /\ Met(h, h)
  BY OnFieldIs DEF Met
<1> HIDE DEF r
<1>4. CASE h.bullet[id].hit # NoHit \/ s = t
  <2>1. k = h
    BY <1>4
  <2>2. CASE h.tank[t].hit # NoHit
    BY <1>1, <1>3, <2>1, <2>2 DEF r
  <2>3. CASE h.tank[t].hit = NoHit
    <3>1. ~hits
      BY <1>2, <1>4, <2>1, <2>3, Names
    <3>2. r = Stops(h, t, id)
      BY <1>1, <2>1, <2>3, <3>1
    <3> QED BY <1>3, <3>2, StopsMet DEF r
  <2> QED BY <2>2, <2>3
<1>5. CASE h.bullet[id].hit = NoHit /\ s # t
  <2>1. k = BulletMeets(h, id, h.tank[t].hit, AtTank(t))
    BY <1>5
  <2>2. CASE h.tank[t].hit # NoHit
    <3>1. h.tank[t].hit \notin {NoHit, AtBullet(id)}
      BY <1>2, <1>5, <2>2, Names
    <3> HIDE DEF k, hits
    <3>2. Met(h, k)
      BY <1>5, <2>1, <3>1, StopsOnly
    <3>3. OnlyBullet(h, k, id)
      BY <1>5, <2>1, MeetsIs
    <3>4. k.tank[t].hit # NoHit
      BY <2>2, <3>3 DEF OnlyBullet
    <3> QED BY <1>1, <3>2, <3>4 DEF r
  <2>3. CASE h.tank[t].hit = NoHit
    <3> HIDE DEF k
    <3>1. /\ OnlyBullet(h, k, id) /\ Fit(k) /\ Live(k) = Live(h) /\ OnField(k) = OnField(h)
          /\ k.bullet[id].shooter = s /\ ~Flies(k.bullet[id]) /\ k.bullet[id].hit = AtTank(t)
      BY <1>5, <2>1, <2>3, MeetsIs
    <3>2. k.tank[t].hit = NoHit /\ hits
      BY <1>5, <2>3, <3>1 DEF OnlyBullet
    <3> DEFINE m == HitTank(k, t, id)
    <3>3. r = Stops(m, t, id)
      BY <1>1, <3>2
    <3>4. /\ OnlyTank(k, m, t) /\ Fit(m) /\ Live(m) = Live(k)
          /\ m.tank[t].hit = AtBullet(id) /\ m.tank[t].life = k.tank[t].life
      BY <3>1, HitTankIs
    <3> HIDE DEF m
    <3>5. OnField(m) = OnField(h)
      <4>1. \A u : u \in OnField(m) <=> u \in OnField(k)
        BY <3>4, OnFieldIs DEF OnlyTank, Afield
      <4> QED BY <3>1, <4>1
    <3>6. Linked(m)
      BY <1>5, <2>3, <3>1, <3>4, <3>5, LinkedShot
    <3>7. Met(h, m)
      BY <3>1, <3>4, <3>5, <3>6 DEF Met
    <3>8. Met(m, r)
      BY <1>3, <3>3, <3>4, <3>6, StopsMet
    <3> QED BY <3>7, <3>8, MetThen DEF r
  <2> QED BY <2>2, <2>3
<1> QED BY <1>4, <1>5

\* The base remembers the bullet that hit it.
LEMMA LinkedHome ==
  ASSUME NEW h, Fit(h), Linked(h), NEW id, h.bullet[id].hit = AtHome,
         NEW k, k = [h EXCEPT !.homeHit = AtBullet(id)]
  PROVE  Met(h, k)
<1>1. DOMAIN h = Fields
  BY DEF Fit, World
<1>2. /\ DOMAIN k = Fields /\ k.tank = h.tank /\ k.bullet = h.bullet
      /\ k.units = h.units /\ k.home = h.home /\ k.homeHit = AtBullet(id)
  BY <1>1 DEF Fields
<1>3. Aside(h, k)
  BY <1>2 DEF Aside, World, Fit
<1>4. Fit(k) /\ Live(k) = Live(h) /\ OnField(k) = OnField(h)
  BY <1>3, AsideFits
<1>5. TankLinks(k) /\ BulletLinks(k)
  BY <1>2, <1>4 DEF Linked, TankLinks, BulletLinks
<1>6. TankHits(k) /\ Flying(k)
  BY <1>2, <1>4 DEF Linked, TankHits, Flying
<1>7. HomeLinks(k)
  BY <1>2, Names DEF HomeLinks
<1> QED BY <1>4, <1>5, <1>6, <1>7 DEF Met, Linked

\* A bullet touches the base.
LEMMA BulletHomeIs ==
  ASSUME NEW h, Fit(h), Linked(h), NEW id \in Live(h)
  PROVE  Met(h, BulletHome(h, id))
<1> DEFINE k == IF h.bullet[id].hit # NoHit THEN h
                ELSE BulletMeets(h, id, h.homeHit, AtHome)
           r == BulletHome(h, id)
<1>1. \/ r = k
      \/ /\ k.homeHit = NoHit /\ k.bullet[id].hit \in {NoHit, AtHome}
         /\ r = [k EXCEPT !.homeHit = AtBullet(id)]
  BY DEF BulletHome, AtHome, AtBullet
<1> HIDE DEF r
<1>2. Met(h, k) /\ (k.homeHit = NoHit => k.bullet[id].hit # NoHit)
  <2>1. CASE h.bullet[id].hit # NoHit
    BY <2>1 DEF Met
  <2>2. CASE h.bullet[id].hit = NoHit
    <3>1. k = BulletMeets(h, id, h.homeHit, AtHome)
      BY <2>2
    <3> HIDE DEF k
    <3>2. /\ OnlyBullet(h, k, id) /\ Fit(k) /\ Live(k) = Live(h) /\ OnField(k) = OnField(h)
          /\ ~Flies(k.bullet[id])
          /\ h.homeHit \in {NoHit, AtBullet(id)} => k.bullet[id].hit = AtHome
          /\ h.homeHit \notin {NoHit, AtBullet(id)} => k.bullet[id].hit = NoHit
      BY <2>2, <3>1, MeetsIs
    <3>3. Linked(k)
      BY <2>2, <3>2, LinkedBullet
    <3>4. k.homeHit = h.homeHit
      BY <3>2, HomesIs DEF OnlyBullet
    <3> QED BY <3>2, <3>3, <3>4, Names DEF Met
  <2> QED BY <2>1, <2>2
<1> HIDE DEF k
<1>3. CASE r = k
  BY <1>2, <1>3 DEF r
<1>4. CASE /\ k.homeHit = NoHit /\ k.bullet[id].hit \in {NoHit, AtHome}
           /\ r = [k EXCEPT !.homeHit = AtBullet(id)]
  <2>1. k.bullet[id].hit = AtHome /\ Fit(k) /\ Linked(k)
    BY <1>2, <1>4 DEF Met
  <2>2. Met(k, r)
    BY <1>4, <2>1, LinkedHome
  <2> QED BY <1>2, <2>2, MetThen DEF r
<1> QED BY <1>1, <1>3, <1>4

-----------------------------------------------------------------------------
(* Loops *)

\* The sides of bullet i, and what a bullet does that meets another or a tank
\* (WithBullet and WithTank of CollideOne).
Touches(h, i, r) == isRectOverlap(getBulletRect(h.bullet[i].pos), r)
MeetBullet(h, i, k, j) ==
    IF j > i /\ j \in Live(h) /\ Touches(h, i, getBulletRect(h.bullet[j].pos))
    THEN BulletBullet(k, i, j) ELSE k
MeetTank(h, i, k, t) ==
    IF t \in UpTanks(h) /\ Touches(h, i, getTankRect(h.tank[t].pos)) THEN BulletTank(k, i, t) ELSE k

\* What the i-th pass of the loop c makes of a.
Pass(c, a, i) ==
    IF c[1] = "event" THEN BulletEvent(a, IdSeq[i])
    ELSE IF c[1] = "fly" THEN BulletUpdate(a, IdSeq[i])
    ELSE IF c[1] = "collide" THEN CollideOne(a, IdSeq[i])
    ELSE IF c[1] = "bullets" THEN MeetBullet(c[2], c[3], a, IdSeq[i])
    ELSE IF c[1] = "tanks" THEN MeetTank(c[2], c[3], a, <<"player", "enemy">>[i])
    ELSE IF c[1] = "drive" THEN DriveFrame(a, i)
    ELSE PhysicsFrame(a, i)

\* f records the passes from h on.
Is(c, h, f, n) == f = [i \in 0..n |-> IF i = 0 THEN h ELSE Pass(c, f[i - 1], i)]

\* A loop has a record of its passes, however long it is.
LEMMA Exists ==
  ASSUME NEW c, NEW h, NEW n \in Nat
  PROVE  \E f : Is(c, h, f, n)
<1> DEFINE T == {m \in 0..n : \E f : Is(c, h, f, m)}
<1>1. 0 \in T
  <2> DEFINE f == [i \in 0..0 |-> h]
  <2>1. Is(c, h, f, 0)
    BY DEF Is
  <2> HIDE DEF f
  <2> QED BY <2>1
<1>2. ASSUME NEW m \in 0..n, m < n, m \in T PROVE m + 1 \in T
  <2>1. PICK f : Is(c, h, f, m)
    BY <1>2
  <2> DEFINE g == [i \in 0..(m + 1) |-> IF i <= m THEN f[i] ELSE Pass(c, f[m], m + 1)]
  <2>2. Is(c, h, g, m + 1)
    <3> DEFINE k == [i \in 0..(m + 1) |-> IF i = 0 THEN h ELSE Pass(c, g[i - 1], i)]
    <3>1. ASSUME NEW i \in 0..(m + 1) PROVE g[i] = k[i]
      <4>1. CASE i = 0
        BY <2>1, <4>1 DEF Is
      <4>2. CASE i \in 1..m
        BY <2>1, <4>2 DEF Is
      <4>3. CASE i = m + 1
        BY <2>1, <4>3
      <4> QED BY <4>1, <4>2, <4>3
    <3>2. g = k
      BY <3>1
    <3> QED BY <3>2 DEF Is
  <2> HIDE DEF g
  <2> QED BY <1>2, <2>2
<1> HIDE DEF T
<1>3. n \in T
  <2>1. \A i \in 0..n : i < n /\ i \in T => i + 1 \in T
    BY <1>2
  <2>2. \A i \in 0..n : i \in T
    BY <1>1, <2>1, UpTo
  <2> QED BY <2>2
<1> QED BY <1>3 DEF T

\* What the loops of a physics frame leave as it is.
Sound(c, a) ==
    /\ Fit(a) /\ Linked(a) /\ OnField(a) = OnField(c[2])
    /\ c[1] \in {"bullets", "tanks"} => Live(a) = Live(c[2])

\* What every pass leaves as it is the loop does.
LEMMA Loop ==
  ASSUME NEW c, NEW h, NEW n \in Nat, NEW f, Is(c, h, f, n), Sound(c, h),
         \A i \in 1..n : \A a : Sound(c, a) => Sound(c, Pass(c, a, i))
  PROVE  Sound(c, f[n])
<1> DEFINE T == {i \in 0..n : Sound(c, f[i])}
<1>1. 0 \in T
  BY DEF Is
<1>2. ASSUME NEW i \in 0..n, i < n, i \in T PROVE i + 1 \in T
  <2>1. i + 1 \in 1..n /\ f[i + 1] = Pass(c, f[i], i + 1)
    BY <1>2 DEF Is
  <2> QED BY <1>2, <2>1
<1> HIDE DEF T
<1>3. \A i \in 0..n : i < n /\ i \in T => i + 1 \in T
  BY <1>2
<1>4. \A i \in 0..n : i \in T
  BY <1>1, <1>3, UpTo
<1>5. n \in T
  BY <1>4
<1> QED BY <1>5 DEF T

\* IdSeq goes through all the bullets.
LEMMA IdSeqIs ==
  /\ MaxBullets \in Nat /\ Len(IdSeq) = MaxBullets
  /\ \A i \in 1..MaxBullets : IdSeq[i] = i - 1 /\ IdSeq[i] \in Ids
  /\ \A b \in Ids : b + 1 \in 1..MaxBullets /\ IdSeq[b + 1] = b
<1>1. MaxBullets \in Nat
  BY TanksAssumption
<1>2. IdSeq = [i \in 1..MaxBullets |-> i - 1]
  BY DEF IdSeq
<1>3. Len(IdSeq) = MaxBullets
  <2>1. IdSeq \in Seq(Int) /\ DOMAIN IdSeq = 1..MaxBullets
    BY <1>1, <1>2
  <2> QED BY <1>1, <2>1
<1> QED BY <1>1, <1>2, <1>3 DEF Ids

\* The events of all the bullets: what met something is gone.
LEMMA EventsAre ==
  ASSUME NEW h, Fit(h), Mended(h), NEW k, k = ForEach(BulletEvent, h, IdSeq)
  PROVE  Fit(k) /\ Clear(k) /\ Stay(h, k)
<1> DEFINE c == <<"event">>
           n == Len(IdSeq)
           f == CHOOSE f : f = [i \in 0..n |-> IF i = 0 THEN h ELSE BulletEvent(f[i - 1], IdSeq[i])]
           Done(a, i) == Fit(a) /\ Mended(a) /\ Stay(h, a) /\ \A b \in Live(a) : b < i => a.bullet[b].hit = NoHit
           T == {i \in 0..n : Done(f[i], i)}
<1>1. k = f[n]
  BY DEF ForEach
<1>2. n \in Nat /\ n = MaxBullets
  BY IdSeqIs
<1>3. \A a, i : Pass(c, a, i) = BulletEvent(a, IdSeq[i])
  BY DEF Pass
<1>4. Is(c, h, f, n)
  <2>1. PICK g : Is(c, h, g, n)
    BY <1>2, Exists
  <2>2. g = [i \in 0..n |-> IF i = 0 THEN h ELSE BulletEvent(g[i - 1], IdSeq[i])]
    BY <1>3, <2>1 DEF Is
  <2>3. f = [i \in 0..n |-> IF i = 0 THEN h ELSE BulletEvent(f[i - 1], IdSeq[i])]
    BY <2>2
  <2> HIDE DEF f, c
  <2> QED BY <1>3, <2>3 DEF Is
<1> HIDE DEF f, n, c
<1>5. 0 \in T
  <2>1. f[0] = h
    BY <1>2, <1>4 DEF Is
  <2>2. \A b \in Live(h) : ~(b < 0)
    BY <1>2, LiveIs DEF Ids
  <2>3. Stay(h, h)
    BY DEF Stay
  <2> QED BY <1>2, <2>1, <2>2, <2>3
<1>6. ASSUME NEW i \in 0..n, i < n, i \in T PROVE i + 1 \in T
  <2>1. /\ i + 1 \in 1..n /\ f[i + 1] = BulletEvent(f[i], IdSeq[i + 1])
        /\ IdSeq[i + 1] = i /\ i \in Ids
    <3>1. i + 1 \in 1..n /\ i + 1 \in 0..n /\ i + 1 # 0 /\ (i + 1) - 1 = i /\ i \in Ids
      BY <1>2, <1>6 DEF Ids
    <3>2. f[i + 1] = Pass(c, f[i], i + 1)
      BY <1>4, <3>1 DEF Is
    <3> QED BY <1>2, <1>3, <3>1, <3>2, IdSeqIs
  <2> DEFINE a == f[i]
             e == f[i + 1]
  <2>2. Fit(a) /\ Mended(a) /\ Stay(h, a) /\ \A b \in Live(a) : b < i => a.bullet[b].hit = NoHit
    BY <1>6
  <2>3. EventStep(a, e, i)
    BY <2>1, <2>2, BulletEventIs
  <2> HIDE DEF a, e
  <2>4. Fit(e) /\ Mended(e) /\ Live(e) \subseteq Live(a) /\ Stay(h, e)
    BY <2>2, <2>3 DEF EventStep, Stay
  <2>5. ASSUME NEW b \in Live(e), b < i + 1 PROVE e.bullet[b].hit = NoHit
    <3>1. CASE b = i
      BY <2>3, <3>1 DEF EventStep
    <3>2. CASE b # i
      <4>1. b \in Int /\ i \in Int
        BY <1>2, LiveIs DEF Ids
      <4>2. b < i
        BY <2>5, <3>2, <4>1
      <4>3. e.bullet[b].hit = a.bullet[b].hit
        BY <2>3, <3>2 DEF EventStep
      <4> QED BY <2>2, <2>4, <4>2, <4>3
    <3> QED BY <3>1, <3>2
  <2>6. Done(e, i + 1)
    BY <2>4, <2>5
  <2> QED BY <2>1, <2>6 DEF e
<1> HIDE DEF T
<1>7. \A i \in 0..n : i < n /\ i \in T => i + 1 \in T
  BY <1>6
<1>8. \A i \in 0..n : i \in T
  BY <1>2, <1>5, <1>7, UpTo
<1>9. Done(k, n)
  BY <1>1, <1>2, <1>8 DEF T
<1>10. \A b \in Live(k) : b < n
  BY <1>2, LiveIs DEF Ids
<1>11. BulletsClear(k)
  BY <1>9, <1>10 DEF BulletsClear
<1> QED BY <1>9, <1>11 DEF Clear

\* The bullets of a physics frame.
LEMMA FlightsAre ==
  ASSUME NEW h, Fit(h), Linked(h), NEW k, k = ForEach(BulletUpdate, h, IdSeq)
  PROVE  Fit(k) /\ Linked(k) /\ OnField(k) = OnField(h)
<1> DEFINE c == <<"fly", h>>
           n == Len(IdSeq)
           f == CHOOSE f : f = [i \in 0..n |-> IF i = 0 THEN h ELSE BulletUpdate(f[i - 1], IdSeq[i])]
<1>1. k = f[n]
  BY DEF ForEach
<1>2. n \in Nat /\ n = MaxBullets
  BY IdSeqIs
<1>3. c[1] = "fly" /\ c[2] = h /\ \A a, i : Pass(c, a, i) = BulletUpdate(a, IdSeq[i])
  BY DEF Pass
<1>4. Is(c, h, f, n)
  <2>1. PICK g : Is(c, h, g, n)
    BY <1>2, Exists
  <2>2. g = [i \in 0..n |-> IF i = 0 THEN h ELSE BulletUpdate(g[i - 1], IdSeq[i])]
    BY <1>3, <2>1 DEF Is
  <2>3. f = [i \in 0..n |-> IF i = 0 THEN h ELSE BulletUpdate(f[i - 1], IdSeq[i])]
    BY <2>2
  <2> HIDE DEF f, c
  <2> QED BY <1>3, <2>3 DEF Is
<1> HIDE DEF f, n, c
<1>5. \A a : Sound(c, a) <=> Fit(a) /\ Linked(a) /\ OnField(a) = OnField(h)
  BY <1>3 DEF Sound
<1>6. ASSUME NEW i \in 1..n, NEW a, Sound(c, a) PROVE Sound(c, Pass(c, a, i))
  <2>1. IdSeq[i] \in Ids
    BY <1>2, IdSeqIs
  <2> QED BY <1>3, <1>5, <1>6, <2>1, BulletUpdateIs
<1>7. Sound(c, f[n])
  BY <1>2, <1>4, <1>5, <1>6, Loop
<1> QED BY <1>1, <1>5, <1>7

\* A bullet touches the bullets after it.
ByBullets(h, i) ==
    ForEach(LAMBDA k, j : MeetBullet(h, i, k, j), h, IdSeq)

\* However many it touches, who is hit knows by whom.
LEMMA BulletsMet ==
  ASSUME NEW h, Fit(h), Linked(h), NEW m \in Live(h), NEW k, k = ByBullets(h, m)
  PROVE  Met(h, k)
<1> DEFINE c == <<"bullets", h, m>>
           n == Len(IdSeq)
           f == CHOOSE f : f = [i \in 0..n |-> IF i = 0 THEN h ELSE MeetBullet(h, m, f[i - 1], IdSeq[i])]
<1>1. k = f[n]
  BY DEF ForEach, ByBullets
<1>2. n \in Nat /\ n = MaxBullets
  BY IdSeqIs
<1>3. /\ c[1] = "bullets" /\ c[2] = h /\ c[3] = m
      /\ \A a, i : Pass(c, a, i) = MeetBullet(h, m, a, IdSeq[i])
  BY DEF Pass
<1>4. Is(c, h, f, n)
  <2>1. PICK g : Is(c, h, g, n)
    BY <1>2, Exists
  <2>2. g = [i \in 0..n |-> IF i = 0 THEN h ELSE MeetBullet(h, m, g[i - 1], IdSeq[i])]
    BY <1>3, <2>1 DEF Is
  <2>3. f = [i \in 0..n |-> IF i = 0 THEN h ELSE MeetBullet(h, m, f[i - 1], IdSeq[i])]
    BY <2>2
  <2> HIDE DEF f, c
  <2> QED BY <1>3, <2>3 DEF Is
<1> HIDE DEF f, n, c
<1>5. \A a : Sound(c, a) <=> Met(h, a)
  BY <1>3 DEF Sound, Met
<1>6. ASSUME NEW i \in 1..n, NEW a, Sound(c, a) PROVE Sound(c, Pass(c, a, i))
  <2> DEFINE j == IdSeq[i]
  <2>1. j \in Ids /\ Met(h, a)
    BY <1>2, <1>5, <1>6, IdSeqIs
  <2>2. m \in Int /\ j \in Int
    BY <1>2, <2>1, LiveIs DEF Ids
  <2> HIDE DEF j
  <2>3. CASE j > m /\ j \in Live(h)
    <3>1. m \in Live(a) /\ j \in Live(a) /\ m # j /\ Fit(a) /\ Linked(a)
      BY <2>1, <2>2, <2>3 DEF Met
    <3>2. Met(a, BulletBullet(a, m, j))
      BY <3>1, BulletBulletIs
    <3>3. Met(h, BulletBullet(a, m, j))
      BY <2>1, <3>2, MetThen
    <3> QED BY <1>3, <1>5, <2>1, <3>3 DEF MeetBullet, j
  <2>4. CASE ~(j > m /\ j \in Live(h))
    BY <1>3, <1>5, <2>1, <2>4 DEF MeetBullet, j
  <2> QED BY <2>3, <2>4
<1>7. Sound(c, h)
  BY <1>5 DEF Met
<1>8. Sound(c, f[n])
  BY <1>2, <1>4, <1>6, <1>7, Loop
<1> QED BY <1>1, <1>5, <1>8

\* Then it touches the tanks.
ByTanks(h, i, from) ==
    ForEach(LAMBDA k, t : MeetTank(h, i, k, t), from, <<"player", "enemy">>)

\* However many it touches, who is hit knows by whom.
LEMMA TanksMet ==
  ASSUME NEW h, NEW m \in Live(h), NEW from, Met(h, from), NEW k, k = ByTanks(h, m, from)
  PROVE  Met(h, k)
<1> DEFINE c == <<"tanks", h, m>>
           s == <<"player", "enemy">>
           n == Len(s)
           f == CHOOSE f : f = [i \in 0..n |-> IF i = 0 THEN from ELSE MeetTank(h, m, f[i - 1], s[i])]
<1>1. k = f[n]
  BY DEF ForEach, ByTanks
<1>2. n \in Nat /\ n = 2
  OBVIOUS
<1>3. /\ c[1] = "tanks" /\ c[2] = h /\ c[3] = m
      /\ \A a, i : Pass(c, a, i) = MeetTank(h, m, a, s[i])
  BY DEF Pass
<1>4. Is(c, from, f, n)
  <2>1. PICK g : Is(c, from, g, n)
    BY <1>2, Exists
  <2>2. g = [i \in 0..n |-> IF i = 0 THEN from ELSE MeetTank(h, m, g[i - 1], s[i])]
    BY <1>3, <2>1 DEF Is
  <2>3. f = [i \in 0..n |-> IF i = 0 THEN from ELSE MeetTank(h, m, f[i - 1], s[i])]
    BY <2>2
  <2> HIDE DEF f, c
  <2> QED BY <1>3, <2>3 DEF Is
<1> HIDE DEF f, n, c, s
<1>5. \A a : Sound(c, a) <=> Met(h, a)
  BY <1>3 DEF Sound, Met
<1>6. ASSUME NEW i \in 1..n, NEW a, Sound(c, a) PROVE Sound(c, Pass(c, a, i))
  <2> DEFINE t == s[i]
  <2>1. Met(h, a)
    BY <1>5, <1>6
  <2> HIDE DEF t
  <2>2. CASE t \in UpTanks(h)
    <3>1. t \in OnField(h)
      BY <2>2, OnFieldIs
    <3>2. m \in Live(a) /\ t \in OnField(a) /\ Fit(a) /\ Linked(a)
      BY <2>1, <3>1 DEF Met
    <3>3. Met(a, BulletTank(a, m, t))
      BY <3>2, BulletTankIs
    <3>4. Met(h, BulletTank(a, m, t))
      BY <2>1, <3>3, MetThen
    <3> QED BY <1>3, <1>5, <2>1, <3>4 DEF MeetTank, t
  <2>3. CASE t \notin UpTanks(h)
    BY <1>3, <1>5, <2>1, <2>3 DEF MeetTank, t
  <2> QED BY <2>2, <2>3
<1>7. Sound(c, from)
  BY <1>5
<1>8. Sound(c, f[n])
  BY <1>2, <1>4, <1>6, <1>7, Loop
<1> QED BY <1>1, <1>5, <1>8

\* All a bullet touches.
LEMMA CollideIs ==
  ASSUME NEW h, Fit(h), Linked(h), NEW i \in Ids
  PROVE  /\ Fit(CollideOne(h, i)) /\ Linked(CollideOne(h, i))
         /\ OnField(CollideOne(h, i)) = OnField(h)
<1> DEFINE r == CollideOne(h, i)
           tanks == ByTanks(h, i, ByBullets(h, i))
<1>1. r = IF i \notin Live(h) THEN h
          ELSE IF Touches(h, i, HomeRect) THEN BulletHome(tanks, i) ELSE tanks
  BY DEF CollideOne, ByTanks, ByBullets, MeetBullet, MeetTank, Touches, ForEach
<1> HIDE DEF r
<1>2. CASE i \notin Live(h)
  BY <1>1, <1>2 DEF r
<1>3. CASE i \in Live(h)
  <2>1. Met(h, ByBullets(h, i))
    BY <1>3, BulletsMet
  <2>2. Met(h, tanks)
    BY <1>3, <2>1, TanksMet
  <2> HIDE DEF tanks
  <2>3. Fit(tanks) /\ Linked(tanks) /\ i \in Live(tanks)
    BY <1>3, <2>2 DEF Met
  <2>4. Met(tanks, BulletHome(tanks, i))
    BY <2>3, BulletHomeIs
  <2>5. r = tanks \/ r = BulletHome(tanks, i)
    BY <1>1, <1>3
  <2> QED BY <2>2, <2>3, <2>4, <2>5 DEF Met, r
<1> QED BY <1>2, <1>3

\* All the collisions of a physics frame.
LEMMA CollisionsAre ==
  ASSUME NEW h, Fit(h), Linked(h), NEW k, k = onCollisionDetection(h)
  PROVE  Fit(k) /\ Linked(k) /\ OnField(k) = OnField(h)
<1> DEFINE c == <<"collide", h>>
           n == Len(IdSeq)
           f == CHOOSE f : f = [i \in 0..n |-> IF i = 0 THEN h ELSE CollideOne(f[i - 1], IdSeq[i])]
<1>1. k = f[n]
  BY DEF onCollisionDetection, ForEach
<1>2. n \in Nat /\ n = MaxBullets
  BY IdSeqIs
<1>3. c[1] = "collide" /\ c[2] = h /\ \A a, i : Pass(c, a, i) = CollideOne(a, IdSeq[i])
  BY DEF Pass
<1>4. Is(c, h, f, n)
  <2>1. PICK g : Is(c, h, g, n)
    BY <1>2, Exists
  <2>2. g = [i \in 0..n |-> IF i = 0 THEN h ELSE CollideOne(g[i - 1], IdSeq[i])]
    BY <1>3, <2>1 DEF Is
  <2>3. f = [i \in 0..n |-> IF i = 0 THEN h ELSE CollideOne(f[i - 1], IdSeq[i])]
    BY <2>2
  <2> HIDE DEF f, c
  <2> QED BY <1>3, <2>3 DEF Is
<1> HIDE DEF f, n, c
<1>5. \A a : Sound(c, a) <=> Fit(a) /\ Linked(a) /\ OnField(a) = OnField(h)
  BY <1>3 DEF Sound
<1>6. ASSUME NEW i \in 1..n, NEW a, Sound(c, a) PROVE Sound(c, Pass(c, a, i))
  <2>1. IdSeq[i] \in Ids
    BY <1>2, IdSeqIs
  <2> QED BY <1>3, <1>5, <1>6, <2>1, CollideIs
<1>7. Sound(c, f[n])
  BY <1>2, <1>4, <1>5, <1>6, Loop
<1> QED BY <1>1, <1>5, <1>7

\* A physics frame: the tanks, the bullets, the collisions.
LEMMA FrameIs ==
  ASSUME NEW h, Fit(h), Linked(h), NEW i
  PROVE  /\ Fit(PhysicsFrame(h, i)) /\ Linked(PhysicsFrame(h, i))
         /\ OnField(PhysicsFrame(h, i)) = OnField(h)
<1> DEFINE a == TankUpdate(h, "player")
           b == TankUpdate(a, "enemy")
           d == ForEach(BulletUpdate, b, IdSeq)
<1>1. Fit(a) /\ Linked(a) /\ OnField(a) = OnField(h)
  BY TankUpdateIs DEF Tanks
<1> HIDE DEF a
<1>2. Fit(b) /\ Linked(b) /\ OnField(b) = OnField(h)
  BY <1>1, TankUpdateIs DEF Tanks
<1> HIDE DEF b
<1>3. Fit(d) /\ Linked(d) /\ OnField(d) = OnField(h)
  BY <1>2, FlightsAre
<1>4. PhysicsFrame(h, i) = onCollisionDetection(d)
  BY DEF PhysicsFrame, a, b
<1> HIDE DEF d
<1> QED BY <1>3, <1>4, CollisionsAre

\* All the physics frames of a logic frame.
LEMMA FramesAre ==
  ASSUME NEW h, Fit(h), Linked(h),
         NEW k, k = ForEach(PhysicsFrame, h, [m \in 1..PhysicsFrames |-> m])
  PROVE  Fit(k) /\ Linked(k) /\ OnField(k) = OnField(h)
<1> DEFINE c == <<"frames", h>>
           s == [m \in 1..PhysicsFrames |-> m]
           n == Len(s)
           f == CHOOSE f : f = [i \in 0..n |-> IF i = 0 THEN h ELSE PhysicsFrame(f[i - 1], s[i])]
<1>1. k = f[n]
  BY DEF ForEach
<1>2. n \in Nat /\ \A i \in 1..n : s[i] = i
  <2>1. PhysicsFrames \in Nat
    BY TanksAssumption
  <2>2. s \in Seq(Int) /\ DOMAIN s = 1..PhysicsFrames
    BY <2>1
  <2>3. Len(s) = PhysicsFrames
    <3> HIDE DEF s
    <3> QED BY <2>1, <2>2
  <2> QED BY <2>1, <2>3
<1>3. c[1] = "frames" /\ c[2] = h /\ \A a, i : Pass(c, a, i) = PhysicsFrame(a, i)
  BY DEF Pass
<1>4. Is(c, h, f, n)
  <2>1. PICK g : Is(c, h, g, n)
    BY <1>2, Exists
  <2> HIDE DEF n, s, f
  <2>2. g = [i \in 0..n |-> IF i = 0 THEN h ELSE PhysicsFrame(g[i - 1], s[i])]
    <3> DEFINE g2 == [i \in 0..n |-> IF i = 0 THEN h ELSE PhysicsFrame(g[i - 1], s[i])]
               g3 == [i \in 0..n |-> IF i = 0 THEN h ELSE Pass(c, g[i - 1], i)]
    <3>1. g = g3
      BY <2>1 DEF Is
    <3>2. ASSUME NEW i \in 0..n PROVE g2[i] = g3[i]
      <4>1. i = 0 \/ i \in 1..n
        BY <1>2
      <4> QED BY <1>2, <1>3, <4>1
    <3>3. g2 = g3
      BY <3>2
    <3> QED BY <3>1, <3>3
  <2>3. f = [i \in 0..n |-> IF i = 0 THEN h ELSE PhysicsFrame(f[i - 1], s[i])]
    BY <2>2 DEF f
  <2>4. f = [i \in 0..n |-> IF i = 0 THEN h ELSE Pass(c, f[i - 1], i)]
    <3> DEFINE g2 == [i \in 0..n |-> IF i = 0 THEN h ELSE PhysicsFrame(f[i - 1], s[i])]
               g3 == [i \in 0..n |-> IF i = 0 THEN h ELSE Pass(c, f[i - 1], i)]
    <3>1. ASSUME NEW i \in 0..n PROVE g2[i] = g3[i]
      <4>1. i = 0 \/ i \in 1..n
        BY <1>2
      <4> QED BY <1>2, <1>3, <4>1
    <3>2. g2 = g3
      BY <3>1
    <3> QED BY <2>3, <3>2
  <2> QED BY <2>4 DEF Is
<1> HIDE DEF f, n, c, s
<1>5. \A a : Sound(c, a) <=> Fit(a) /\ Linked(a) /\ OnField(a) = OnField(h)
  BY <1>3 DEF Sound
<1>6. ASSUME NEW i \in 1..n, NEW a, Sound(c, a) PROVE Sound(c, Pass(c, a, i))
  BY <1>3, <1>5, <1>6, FrameIs
<1>7. Sound(c, f[n])
  BY <1>2, <1>4, <1>5, <1>6, Loop
<1> QED BY <1>1, <1>5, <1>7

-----------------------------------------------------------------------------
(* What the last frame left *)

\* A tank is mended, loses a level or may move again.
Relevel(h, t, n) == [h EXCEPT !.tank[t].level = @ - n]
Unred(h, t) == [h EXCEPT !.tank[t].red = FALSE]
Resumed(h, t) == [h EXCEPT !.tank[t].update = TRUE]

\* It stays where it is, as the others do.
LEMMA MendIs ==
  ASSUME NEW h, Fit(h), NEW t \in Tanks, NEW n, NEW k,
         k = Relevel(h, t, n) \/ k = Unred(h, t) \/ k = Resumed(h, t)
  PROVE  TankStep(h, k, t) /\ k.tank[t].hit = h.tank[t].hit
<1>1. DOMAIN h = Fields /\ DOMAIN h.tank = Tanks /\ DOMAIN h.tank[t] = TankFields
  BY DEF Fit, World, TankOK
<1>2. /\ DOMAIN k = Fields /\ DOMAIN k.tank = Tanks /\ k.bullet = h.bullet /\ k.home = h.home
      /\ k.homeHit = h.homeHit /\ k.units = h.units
      /\ \A u \in Tanks : u # t => k.tank[u] = h.tank[u]
  BY <1>1 DEF Relevel, Unred, Resumed, Fields
<1>3. /\ DOMAIN k.tank[t] = TankFields /\ k.tank[t].pos = h.tank[t].pos
      /\ k.tank[t].dir = h.tank[t].dir /\ k.tank[t].life = h.tank[t].life
      /\ k.tank[t].hit = h.tank[t].hit /\ k.tank[t].bulletNum = h.tank[t].bulletNum
  BY <1>1 DEF Relevel, Unred, Resumed, Fields, TankFields
<1> QED BY <1>2, <1>3, TankMood

\* The hit of a tank has been dealt with.
LEMMA UnhitIs ==
  ASSUME NEW h, Fit(h), NEW t \in Tanks, NEW k, k = Unhit(h, t)
  PROVE  TankStep(h, k, t) /\ k.tank[t].hit = NoHit
<1>1. DOMAIN h = Fields /\ DOMAIN h.tank = Tanks /\ DOMAIN h.tank[t] = TankFields
  BY DEF Fit, World, TankOK
<1>2. /\ DOMAIN k = Fields /\ DOMAIN k.tank = Tanks /\ k.bullet = h.bullet /\ k.home = h.home
      /\ k.homeHit = h.homeHit /\ k.units = h.units
      /\ \A u \in Tanks : u # t => k.tank[u] = h.tank[u]
  BY <1>1 DEF Unhit, Fields
<1>3. /\ DOMAIN k.tank[t] = TankFields /\ k.tank[t].pos = h.tank[t].pos
      /\ k.tank[t].dir = h.tank[t].dir /\ k.tank[t].life = h.tank[t].life
      /\ k.tank[t].hit = NoHit /\ k.tank[t].bulletNum = h.tank[t].bulletNum
  BY <1>1 DEF Unhit, Fields, TankFields
<1> QED BY <1>2, <1>3, TankMood

\* It costs a level.
LEMMA LevelDownIs ==
  ASSUME NEW h, Fit(h), NEW t \in Tanks, NEW n, NEW k, k = LevelDown(h, t, n)
  PROVE  TankStep(h, k, t) /\ k.tank[t].hit = NoHit
<1> DEFINE j == Unhit(h, t)
<1>1. k = Relevel(j, t, n)
  BY DEF LevelDown, Relevel
<1>2. TankStep(h, j, t) /\ j.tank[t].hit = NoHit
  BY UnhitIs
<1> HIDE DEF j
<1>3. Fit(j)
  BY <1>2, TankSteps
<1>4. TankStep(j, k, t) /\ k.tank[t].hit = j.tank[t].hit
  BY <1>1, <1>3, MendIs
<1> QED BY <1>2, <1>4, TankThen

\* Who is left of the players: nobody that was hit.
LEMMA PlayerEventIs ==
  ASSUME NEW h, Fit(h), NEW lost, NEW k, k = PlayerEvent(h, lost)
  PROVE  \E j : /\ TankStep(h, j, "player") /\ j.tank["player"].hit = NoHit
                /\ Aside(j, k) /\ Homes(j, k)
<1> DEFINE p == h.tank["player"]
           how == IF lost THEN "lost" ELSE "gone"
           d == dead(h, "player", how)
<1>1. "player" \in Tanks /\ TankOK(p) /\ Fit(h)
  BY DEF Tanks, Fit
<1>2. ASSUME NEW j, TankStep(h, j, "player") PROVE Aside(j, j) /\ Homes(j, j)
  BY <1>2 DEF TankStep, OnlyTank, Aside, Homes
<1>3. TankStep(h, h, "player")
  BY <1>1, TankStays
<1>4. \/ k = h /\ p.hit = NoHit
      \/ k = Resumed(h, "player") /\ p.hit = NoHit
      \/ k = Unhit(h, "player")
      \/ k = LevelDown(h, "player", 1)
      \/ k = [d EXCEPT !.over = @ \/ lost]
  <2> DEFINE A == h
             B == Resumed(h, "player")
             C == Unhit(h, "player")
             D == LevelDown(h, "player", 1)
             E == [d EXCEPT !.over = @ \/ lost]
  <2>1. k = CASE p.life \notin {"borning", "up"} -> A
              [] p.life \in {"borning", "up"} /\ p.hit = NoHit -> B
              [] p.hit # NoHit /\ p.shield -> C
              [] p.hit # NoHit /\ ~p.shield /\ p.level >= ProtectLevel -> D
              [] OTHER -> E
    BY DEF PlayerEvent, Resumed
  <2>2. p.life \notin {"borning", "up"} => p.hit = NoHit
    BY <1>1 DEF TankOK, Afield
  <2> HIDE DEF B, C, D, E, p
  <2>3. (k = A /\ p.hit = NoHit) \/ (k = B /\ p.hit = NoHit) \/ k = C \/ k = D \/ k = E
    BY <2>1, <2>2
  <2> QED BY <2>3 DEF B, C, D, E
<1>5. CASE k = h /\ p.hit = NoHit
  BY <1>2, <1>3, <1>5
<1>6. CASE k = Resumed(h, "player") /\ p.hit = NoHit
  <2>1. TankStep(h, k, "player") /\ k.tank["player"].hit = h.tank["player"].hit
    BY <1>1, <1>6, MendIs
  <2> QED BY <1>2, <1>6, <2>1
<1>7. CASE k = Unhit(h, "player")
  BY <1>1, <1>2, <1>7, UnhitIs
<1>8. CASE k = LevelDown(h, "player", 1)
  BY <1>1, <1>2, <1>8, LevelDownIs
<1>9. CASE k = [d EXCEPT !.over = @ \/ lost]
  <2>1. TankStep(h, d, "player") /\ d.tank["player"].hit = NoHit
    <3>1. how \in {"gone", "lost"}
      OBVIOUS
    <3> HIDE DEF how
    <3> QED BY <1>1, <3>1, DeadIs
  <2>2. DOMAIN d = Fields /\ World(d)
    BY <2>1 DEF TankStep, OnlyTank, World
  <2> HIDE DEF d
  <2>3. /\ DOMAIN k = Fields /\ k.tank = d.tank /\ k.bullet = d.bullet /\ k.units = d.units
        /\ k.home = d.home /\ k.homeHit = d.homeHit
    BY <1>9, <2>2 DEF Fields
  <2>4. Aside(d, k) /\ Homes(d, k)
    BY <2>2, <2>3 DEF Aside, World, Homes
  <2> QED BY <2>1, <2>4
<1> QED BY <1>4, <1>5, <1>6, <1>7, <1>8, <1>9

\* Another enemy, if there is room.
LEMMA AddEnemyIs ==
  ASSUME NEW h, Fit(h), NEW red, NEW k, k = addOneEnemy(h, red)
  PROVE  TankStep(h, k, "enemy") /\ (h.tank["enemy"].hit = NoHit => k.tank["enemy"].hit = NoHit)
<1>1. "enemy" \in Tanks
  BY DEF Tanks
<1>2. k = h \/ k = [h EXCEPT !.tank["enemy"] = createEnemyTank(red)]
  BY DEF addOneEnemy
<1>3. TankStep(h, k, "enemy")
  <2>1. CASE k = h
    BY <1>1, <2>1, TankStays
  <2>2. CASE k = [h EXCEPT !.tank["enemy"] = createEnemyTank(red)]
    BY <2>2, EnemyBorn
  <2> QED BY <1>2, <2>1, <2>2
<1> QED BY <1>3 DEF TankStep

\* What is left of the enemy was not hit either.
LEMMA EnemyEventIs ==
  ASSUME NEW h, Fit(h), NEW red, NEW k, k = EnemyEvent(h, red)
  PROVE  TankStep(h, k, "enemy") /\ k.tank["enemy"].hit = NoHit
<1> DEFINE e == h.tank["enemy"]
           j == Unhit(h, "enemy")
           u == Unred(j, "enemy")
           n == h.bullet[e.hit[2]].power - (IF e.red THEN 1 ELSE 0)
           d == dead(h, "enemy", "gone")
<1>1. "enemy" \in Tanks /\ TankOK(e)
  BY DEF Tanks, Fit
<1>2. TankStep(h, h, "enemy")
  BY <1>1, TankStays
<1>3. \/ k = h /\ e.hit = NoHit
      \/ k = Resumed(h, "enemy") /\ e.hit = NoHit
      \/ k = u
      \/ k = LevelDown(u, "enemy", n)
      \/ k = addOneEnemy(d, red)
  <2> DEFINE A == h
             B == Resumed(h, "enemy")
             C == u
             D == LevelDown(u, "enemy", n)
             E == addOneEnemy(d, red)
  <2>1. k = CASE e.life = "gone" -> A
              [] e.life # "gone" /\ e.hit = NoHit -> B
              [] e.hit # NoHit /\ n = 0 -> C
              [] e.hit # NoHit /\ n > 0 /\ e.level > n -> D
              [] OTHER -> E
    BY DEF EnemyEvent, Resumed, Unred
  <2>2. e.life = "gone" => e.hit = NoHit
    BY <1>1 DEF TankOK, Afield
  <2> HIDE DEF B, C, D, E, e, n
  <2>3. (k = A /\ e.hit = NoHit) \/ (k = B /\ e.hit = NoHit) \/ k = C \/ k = D \/ k = E
    BY <2>1, <2>2
  <2> QED BY <2>3 DEF B, C, D, E
<1> HIDE DEF n
<1>4. TankStep(h, u, "enemy") /\ u.tank["enemy"].hit = NoHit /\ Fit(u)
  <2>1. TankStep(h, j, "enemy") /\ j.tank["enemy"].hit = NoHit
    BY <1>1, UnhitIs
  <2> HIDE DEF j
  <2>2. Fit(j)
    BY <1>1, <2>1, TankSteps
  <2>3. TankStep(j, u, "enemy") /\ u.tank["enemy"].hit = j.tank["enemy"].hit
    BY <1>1, <2>2, MendIs
  <2> HIDE DEF u
  <2>4. TankStep(h, u, "enemy")
    BY <1>1, <2>1, <2>3, TankThen
  <2> QED BY <1>1, <2>1, <2>3, <2>4, TankSteps
<1>5. TankStep(h, d, "enemy") /\ d.tank["enemy"].hit = NoHit
  BY <1>1, DeadIs
<1> HIDE DEF u, d
<1>6. CASE k = h /\ e.hit = NoHit
  BY <1>2, <1>6
<1>7. CASE k = Resumed(h, "enemy") /\ e.hit = NoHit
  <2>1. TankStep(h, k, "enemy") /\ k.tank["enemy"].hit = h.tank["enemy"].hit
    BY <1>1, <1>7, MendIs
  <2> QED BY <1>7, <2>1
<1>8. CASE k = u
  BY <1>4, <1>8
<1>9. CASE k = LevelDown(u, "enemy", n)
  <2>1. TankStep(u, k, "enemy") /\ k.tank["enemy"].hit = NoHit
    BY <1>1, <1>4, <1>9, LevelDownIs
  <2> QED BY <1>1, <1>4, <2>1, TankThen
<1>10. CASE k = addOneEnemy(d, red)
  <2>1. Fit(d)
    BY <1>1, <1>5, TankSteps
  <2>2. TankStep(d, k, "enemy") /\ k.tank["enemy"].hit = NoHit
    BY <1>5, <1>10, <2>1, AddEnemyIs
  <2> QED BY <1>1, <1>5, <2>2, TankThen
<1> QED BY <1>3, <1>6, <1>7, <1>8, <1>9, <1>10

\* The base falls.
LEMMA HomeEventIs ==
  ASSUME NEW h, Fit(h), NEW k, k = HomeEvent(h)
  PROVE  Fit(k) /\ HomeClear(k)
<1>1. CASE k = h
  <2>1. ~(h.homeHit # NoHit /\ Stands(h)) \/ k.home = FALSE
    BY <1>1 DEF HomeEvent, Stands, Fit, World, Fields
  <2> QED BY <1>1, <2>1 DEF HomeClear, Stands
<1>2. CASE k = [h EXCEPT !.home = FALSE, !.over = TRUE]
  <2>1. DOMAIN h = Fields
    BY DEF Fit, World
  <2>2. /\ DOMAIN k = Fields /\ k.tank = h.tank /\ k.bullet = h.bullet /\ k.units = h.units
    BY <1>2, <2>1 DEF Fields
  <2>3. ~Stands(k)
    BY <1>2, <2>1 DEF Fields, Stands
  <2>4. Aside(h, k)
    BY <2>2 DEF Aside, World, Fit
  <2> QED BY <2>3, <2>4, AsideFits DEF HomeClear
<1> QED BY <1>1, <1>2 DEF HomeEvent

\* The clock starts or ends, sceneries go.
LEMMA AsideIs ==
  ASSUME NEW h, Fit(h), NEW v, NEW k,
         k = [h EXCEPT !.static = v] \/ k = destroyUnit(h)
  PROVE  Fit(k) /\ Homes(h, k) /\ Aside(h, k) /\ (Mended(h) => Mended(k)) /\ (Clear(h) => Clear(k))
<1>1. DOMAIN h = Fields /\ h.units \subseteq Units
  BY DEF Fit, World
<1>2. /\ DOMAIN k = Fields /\ k.tank = h.tank /\ k.bullet = h.bullet /\ k.home = h.home
      /\ k.homeHit = h.homeHit /\ k.units \subseteq Units
  BY <1>1 DEF destroyUnit, Fields
<1>3. Aside(h, k) /\ Homes(h, k)
  BY <1>2 DEF Aside, Homes, World, Fit
<1> QED BY <1>3, AsideFits, ClearAside

\* The first phase of a logic frame: all the hits are dealt with.
LEMMA LastFrameEventKeeps ==
  ASSUME Fit(w), LastFrameEvent
  PROVE  Fit(w') /\ Clear(w')
<1>1. PICK lost \in BOOLEAN, red \in Reds, k0 \in ClockStarts(w) :
        \E h \in EnemyActs(EnemyEvent(PlayerEvent(HomeEvent(destroyUnit(k0)), lost), red)) :
            w' = ForEach(BulletEvent, h, IdSeq)
  BY DEF LastFrameEvent
<1> DEFINE k1 == destroyUnit(k0)
           k2 == HomeEvent(k1)
           k3 == PlayerEvent(k2, lost)
           k4 == EnemyEvent(k3, red)
<1>2. PICK h \in EnemyActs(k4) : w' = ForEach(BulletEvent, h, IdSeq)
  BY <1>1
<1>3. Fit(k0)
  <2>1. k0 = w \/ k0 = [w EXCEPT !.static = TRUE]
    BY DEF ClockStarts
  <2>2. CASE k0 = [w EXCEPT !.static = TRUE]
    BY <2>2, AsideIs
  <2> QED BY <2>1, <2>2
<1>4. Fit(k1)
  BY <1>3, AsideIs
<1> HIDE DEF k1
<1>5. Fit(k2) /\ HomeClear(k2)
  BY <1>4, HomeEventIs
<1> HIDE DEF k2
<1>6. Fit(k3) /\ HomeClear(k3) /\ k3.tank["player"].hit = NoHit
  <2>1. "player" \in Tanks
    BY DEF Tanks
  <2>2. PICK j : /\ TankStep(k2, j, "player") /\ j.tank["player"].hit = NoHit
                 /\ Aside(j, k3) /\ Homes(j, k3)
    BY <1>5, PlayerEventIs
  <2> HIDE DEF k3
  <2>3. Fit(j)
    BY <1>5, <2>1, <2>2, TankSteps
  <2>4. HomeClear(j)
    BY <1>5, <2>2, HomesIs DEF TankStep, OnlyTank, HomeClear
  <2>5. Fit(k3)
    BY <2>2, <2>3, AsideFits
  <2>6. HomeClear(k3)
    BY <2>2, <2>4, HomesIs DEF HomeClear
  <2> QED BY <2>2, <2>5, <2>6 DEF Aside
<1> HIDE DEF k3
<1>7. Fit(k4) /\ Mended(k4)
  <2>1. "enemy" \in Tanks /\ \A t \in Tanks : t = "player" \/ t = "enemy"
    BY DEF Tanks
  <2>2. TankStep(k3, k4, "enemy") /\ k4.tank["enemy"].hit = NoHit
    BY <1>6, EnemyEventIs
  <2> HIDE DEF k4
  <2>3. Fit(k4)
    BY <1>6, <2>1, <2>2, TankSteps
  <2>4. HomeClear(k4)
    BY <1>6, <2>2, HomesIs DEF TankStep, OnlyTank, HomeClear
  <2>5. k4.tank["player"].hit = NoHit
    BY <1>6, <2>2 DEF TankStep, OnlyTank, Tanks
  <2> QED BY <2>1, <2>2, <2>3, <2>4, <2>5 DEF Mended, TanksClear
<1> HIDE DEF k4
<1>8. Fit(h) /\ Mended(h)
  <2>1. h = k4 \/ h = shootEnemy(k4) \/ h \in changeMoveDirectionEx(k4)
    BY DEF EnemyActs
  <2>2. CASE h = shootEnemy(k4)
    BY <1>7, <2>2, EnemyShoots
  <2>3. CASE h \in changeMoveDirectionEx(k4)
    <3>1. TankStep(k4, h, "enemy") /\ "enemy" \in Tanks
      BY <1>7, <2>3, TurnsAre DEF Tanks
    <3> QED BY <1>7, <3>1, TankSteps
  <2> QED BY <1>7, <2>1, <2>2, <2>3
<1> QED BY <1>2, <1>8, EventsAre

\* Nothing is hit between the events and the physics.
Calm(h) == Fit(h) /\ Clear(h)

\* A tank does something.
LEMMA CalmStep ==
  ASSUME NEW h, Calm(h), NEW t \in Tanks, NEW k, TankStep(h, k, t)
  PROVE  Calm(k)
BY TankSteps DEF Calm

\* A tank comes up, with a shield if it is the player's.
Risen(h, t) == [h EXCEPT !.tank[t].life = "up", !.tank[t].shield = t = "player"]

\* That is a step of this tank alone.
LEMMA RisenIs ==
  ASSUME NEW h, Fit(h), NEW t \in Tanks, h.tank[t].life = "borning", NEW k, k = Risen(h, t)
  PROVE  TankStep(h, k, t)
<1>1. DOMAIN h = Fields /\ DOMAIN h.tank = Tanks /\ DOMAIN h.tank[t] = TankFields
  BY DEF Fit, World, TankOK
<1>2. /\ DOMAIN k = Fields /\ DOMAIN k.tank = Tanks /\ k.bullet = h.bullet /\ k.home = h.home
      /\ k.homeHit = h.homeHit /\ k.units = h.units
      /\ \A u \in Tanks : u # t => k.tank[u] = h.tank[u]
  BY <1>1 DEF Risen, Fields
<1>3. /\ DOMAIN k.tank[t] = TankFields /\ k.tank[t].pos = h.tank[t].pos
      /\ k.tank[t].dir = h.tank[t].dir /\ k.tank[t].life = "up"
      /\ k.tank[t].hit = h.tank[t].hit /\ k.tank[t].bulletNum = h.tank[t].bulletNum
  BY <1>1 DEF Risen, Fields, TankFields
<1> QED BY <1>2, <1>3, TankMood

\* The birth of a tank ends.
LEMMA BornIs ==
  ASSUME NEW h, Calm(h), NEW t \in Tanks, NEW k \in Born(h, t)
  PROVE  Calm(k)
<1> DEFINE u == Risen(h, t)
<1>1. \/ k = h
      \/ h.tank[t].life = "borning" /\ t = "player" /\ k = u
      \/ h.tank[t].life = "borning" /\ t = "enemy" /\ k \in moveOnBorn(u)
  <2> DEFINE A == {h}
             B == {h, u}
             C == {h} \cup moveOnBorn(u)
  <2>1. Born(h, t) = CASE h.tank[t].life # "borning" -> A
                       [] h.tank[t].life = "borning" /\ t = "player" -> B
                       [] OTHER -> C
    BY DEF Born, Risen
  <2> DEFINE life == h.tank[t].life
             S == Born(h, t)
  <2>2. S = CASE life # "borning" -> A
              [] life = "borning" /\ t = "player" -> B
              [] OTHER -> C
    BY <2>1
  <2>3. k \in S
    OBVIOUS
  <2> HIDE DEF A, B, C, S, life
  <2>4. /\ life # "borning" => S = A
        /\ life = "borning" /\ t = "player" => S = B
        /\ life = "borning" /\ t # "player" => S = C
    BY <2>2
  <2>5. \/ k \in A
        \/ life = "borning" /\ t = "player" /\ k \in B
        \/ life = "borning" /\ t # "player" /\ k \in C
    BY <2>3, <2>4
  <2>6. \/ k \in A
        \/ h.tank[t].life = "borning" /\ t = "player" /\ k \in B
        \/ h.tank[t].life = "borning" /\ t # "player" /\ k \in C
    BY <2>5 DEF life
  <2>7. t = "player" \/ t = "enemy"
    BY DEF Tanks
  <2> HIDE DEF u
  <2> QED BY <2>6, <2>7 DEF A, B, C
<1>2. h.tank[t].life = "borning" => TankStep(h, u, t)
  BY RisenIs DEF Calm
<1> HIDE DEF u
<1>3. CASE h.tank[t].life = "borning" /\ t = "player" /\ k = u
  BY <1>2, <1>3, CalmStep
<1>4. CASE h.tank[t].life = "borning" /\ t = "enemy" /\ k \in moveOnBorn(u)
  <2>1. Calm(u)
    BY <1>2, <1>4, CalmStep
  <2>2. TankStep(u, k, t)
    BY <1>4, <2>1, TurnsAre DEF Calm
  <2> QED BY <2>1, <2>2, CalmStep
<1> QED BY <1>1, <1>3, <1>4

\* A player's shield wears off, a player stops.
Bare(h) == [h EXCEPT !.tank["player"].shield = FALSE]

\* Nobody was hit before, nobody is after.
LEMMA BareIs ==
  ASSUME NEW h, Calm(h), NEW k, k = Bare(h) \/ k = onStopMove(h)
  PROVE  Calm(k)
<1>1. "player" \in Tanks /\ Fit(h)
  BY DEF Tanks, Calm
<1>2. DOMAIN h = Fields /\ DOMAIN h.tank = Tanks /\ DOMAIN h.tank["player"] = TankFields
  BY <1>1 DEF Fit, World, TankOK
<1>3. /\ DOMAIN k = Fields /\ DOMAIN k.tank = Tanks /\ k.bullet = h.bullet /\ k.home = h.home
      /\ k.homeHit = h.homeHit /\ k.units = h.units
      /\ \A u \in Tanks : u # "player" => k.tank[u] = h.tank[u]
  BY <1>2 DEF Bare, onStopMove, Fields
<1>4. /\ DOMAIN k.tank["player"] = TankFields
      /\ k.tank["player"].pos = h.tank["player"].pos
      /\ k.tank["player"].dir = h.tank["player"].dir
      /\ k.tank["player"].life = h.tank["player"].life
      /\ k.tank["player"].hit = h.tank["player"].hit
      /\ k.tank["player"].bulletNum = h.tank["player"].bulletNum
  BY <1>1, <1>2 DEF Bare, onStopMove, Fields, TankFields
<1>5. TankStep(h, k, "player")
  BY <1>1, <1>3, <1>4, TankMood
<1> QED BY <1>1, <1>5, CalmStep

\* The timers and the ends of animations.
LEMMA onTimerKeeps ==
  ASSUME Calm(w), onTimer
  PROVE  Calm(w')
<1>1. PICK h \in Revive(w) : \E i \in Born(h, "enemy") : \E j \in Born(i, "player") :
        \E k \in ClockEnds(j) : w' \in Unshield(k)
  BY DEF onTimer
<1>2. PICK i \in Born(h, "enemy") : \E j \in Born(i, "player") :
        \E k \in ClockEnds(j) : w' \in Unshield(k)
  BY <1>1
<1>3. PICK j \in Born(i, "player") : \E k \in ClockEnds(j) : w' \in Unshield(k)
  BY <1>2
<1>4. PICK k \in ClockEnds(j) : w' \in Unshield(k)
  BY <1>3
<1>5. "player" \in Tanks /\ "enemy" \in Tanks
  BY DEF Tanks
<1>6. Calm(h)
  <2>1. h = w \/ h = [w EXCEPT !.tank["player"] = createPlayer(1)]
    BY DEF Revive
  <2>2. CASE h = [w EXCEPT !.tank["player"] = createPlayer(1)]
    <3>1. TankStep(w, h, "player")
      BY <2>2, PlayerBorn DEF Calm
    <3> QED BY <1>5, <3>1, CalmStep
  <2> QED BY <2>1, <2>2
<1>7. Calm(i)
  BY <1>5, <1>6, BornIs
<1>8. Calm(j)
  BY <1>5, <1>7, BornIs
<1>9. Calm(k)
  <2>1. k = j \/ k = [j EXCEPT !.static = FALSE]
    BY DEF ClockEnds
  <2>2. CASE k = [j EXCEPT !.static = FALSE]
    BY <1>8, <2>2, AsideIs DEF Calm
  <2> QED BY <1>8, <2>1, <2>2
<1>10. w' = k \/ w' = Bare(k)
  BY <1>4 DEF Unshield, Bare
<1> QED BY <1>9, <1>10, BareIs

\* The player's operation.
LEMMA onPlayerOperationKeeps ==
  ASSUME Calm(w), onPlayerOperation
  PROVE  Calm(w')
<1>1. "player" \in Tanks
  BY DEF Tanks
<1>2. PICK h : /\ h = onStopMove(w) \/ \E d \in Directions : h = onPlayerMove(w, d)
               /\ w' = h \/ w' = shoot(h, "player")
  BY DEF onPlayerOperation
<1>3. Calm(h)
  <2>1. CASE h = onStopMove(w)
    BY <2>1, BareIs
  <2>2. ASSUME NEW d \in Directions, h = onPlayerMove(w, d) PROVE Calm(h)
    <3>1. h = w \/ h = setMove(w, "player", d)
      BY <2>2 DEF onPlayerMove
    <3>2. CASE h = setMove(w, "player", d)
      <4>1. TankStep(w, h, "player")
        BY <1>1, <3>2, SetMoveIs DEF Calm
      <4> QED BY <1>1, <4>1, CalmStep
    <3> QED BY <3>1, <3>2
  <2> QED BY <1>2, <2>1, <2>2
<1>4. CASE w' = shoot(h, "player")
  BY <1>1, <1>3, <1>4, ShootIs DEF Calm
<1> QED BY <1>2, <1>3, <1>4

\* The enemy's.
LEMMA evAiOperationKeeps ==
  ASSUME Calm(w), evAiOperation
  PROVE  Calm(w')
<1>1. "enemy" \in Tanks
  BY DEF Tanks
<1>2. PICK red, h : /\ h = w \/ h = onEnemyAdd(w, red)
                    /\ w' = h \/ w' \in onEnemyBehavior(h)
  BY DEF evAiOperation
<1>3. Calm(h)
  <2>1. h = w \/ h = addOneEnemy(w, red)
    BY <1>2 DEF onEnemyAdd
  <2>2. CASE h = addOneEnemy(w, red)
    <3>1. TankStep(w, h, "enemy")
      BY <2>2, AddEnemyIs DEF Calm
    <3> QED BY <1>1, <3>1, CalmStep
  <2> QED BY <2>1, <2>2
<1>4. w' = h \/ \E k \in {h} \cup changeMoveDirectionEx(h) : w' = k \/ w' = shootEnemy(k)
  BY <1>2 DEF onEnemyBehavior, onBehaviorTimer
<1>5. ASSUME NEW k \in {h} \cup changeMoveDirectionEx(h), w' = k \/ w' = shootEnemy(k)
      PROVE  Calm(w')
  <2>1. Calm(k)
    <3>1. CASE k \in changeMoveDirectionEx(h)
      <4>1. TankStep(h, k, "enemy")
        BY <1>3, <3>1, TurnsAre DEF Calm
      <4> QED BY <1>1, <1>3, <4>1, CalmStep
    <3> QED BY <1>3, <3>1
  <2>2. CASE w' = shootEnemy(k)
    BY <2>1, <2>2, EnemyShoots DEF Calm
  <2> QED BY <1>5, <2>1, <2>2
<1> QED BY <1>3, <1>4, <1>5

-----------------------------------------------------------------------------
(* The battle *)

\* A battle starts with two tanks and no bullet.
LEMMA Begins ==
  ASSUME NEW red, NEW h, h = InitBattle(red)
  PROVE  Calm(h)
<1> DEFINE units == UNION {UnitsOfScenery(s) : s \in DOMAIN Map}
           p == createPlayer(PlayerLevel)
           e == createEnemyTank(red)
<1>1. units \subseteq Units
  <2> SUFFICES ASSUME NEW s \in DOMAIN Map PROVE UnitsOfScenery(s) \subseteq Units
    OBVIOUS
  <2>1. s \in (0..Cols - 1) \X (0..Rows - 1) /\ Cols \in Nat /\ Rows \in Nat
    BY TanksAssumption, FieldAssumption
  <2>2. s[1] \in 0..Cols - 1 /\ s[2] \in 0..Rows - 1
    BY <2>1
  <2>3. \A i, j \in 0..1 : <<2 * s[1] + i, 2 * s[2] + j>> \in Units
    BY <2>1, <2>2 DEF Units
  <2>4. UnitsOfScenery(s) = {<<2 * s[1] + i, 2 * s[2] + j>> : i \in 0..1, j \in 0..1}
    BY DEF UnitsOfScenery, sceneryToMatrixPosition
  <2> QED BY <2>3, <2>4
<1>2. /\ DOMAIN h = Fields /\ h.bullet = [b \in Ids |-> NoBullet] /\ h.units = units
      /\ h.tank = [t \in Tanks |-> IF t = "player" THEN p ELSE e] /\ h.homeHit = NoHit
  BY DEF InitBattle, Fields
<1> HIDE DEF units
<1>3. /\ DOMAIN p = TankFields /\ p.pos = BornPlace("player") /\ p.dir = Up /\ p.bulletNum = 0
      /\ p.hit = NoHit /\ p.life = "borning"
  BY NewTankIs DEF Tanks, createPlayer, setAttributes, TankFields
<1>4. /\ DOMAIN e = TankFields /\ e.pos = BornPlace("enemy") /\ e.dir = Down /\ e.bulletNum = 0
      /\ e.hit = NoHit /\ e.life = "borning"
  BY NewTankIs DEF Tanks, createEnemyTank, setAttributes, TankFields
<1> HIDE DEF p, e
<1>5. \A t \in Tanks : BornPlace(t) \in Int \X Int /\ BornPlace(t)[1] % Unit = 0
  BY PlacesAre
<1>6. Up \in Directions /\ Across(Up) = 1 /\ Down \in Directions /\ Across(Down) = 1
  BY DEF Directions, Up, Down, Across, Axis
<1>7. TankOK(p) /\ TankOK(e)
  BY <1>3, <1>4, <1>5, <1>6 DEF TankOK, OnLine, Afield, Tanks
<1>8. \A t \in Tanks : h.tank[t] = p \/ h.tank[t] = e
  BY <1>2
<1>9. Live(h) = {}
  <2>1. ~Alive(NoBullet)
    BY DEF Alive, NoBullet
  <2>2. \A b \in Ids : h.bullet[b] = NoBullet
    BY <1>2
  <2>3. \A b : b \notin Live(h)
    BY <2>1, <2>2, LiveIs
  <2> QED BY <2>3
<1>10. World(h)
  BY <1>1, <1>2 DEF World
<1>11. Ammo(h)
  <2> SUFFICES ASSUME NEW t \in Tanks PROVE h.tank[t].bulletNum <= Cardinality(Shots(h, t))
    BY DEF Ammo
  <2>1. h.tank[t].bulletNum = 0
    BY <1>3, <1>4, <1>8
  <2>2. Cardinality(Shots(h, t)) \in Nat
    BY ShotsFinite
  <2> QED BY <2>1, <2>2
<1>12. Fit(h)
  BY <1>7, <1>8, <1>9, <1>10, <1>11 DEF Fit
<1>13. TanksClear(h)
  BY <1>3, <1>4, <1>8 DEF TanksClear
<1>14. BulletsClear(h) /\ HomeClear(h)
  BY <1>2, <1>9 DEF BulletsClear, HomeClear
<1> QED BY <1>12, <1>13, <1>14 DEF Calm, Clear, Mended

\* The phases hand the battle on.
LEMMA NextKeeps ==
  ASSUME IInv, [Next]_vars
  PROVE  IInv'
<1>1. CASE LastFrameEvent
  <2>1. Fit(w') /\ Clear(w')
    BY <1>1, LastFrameEventKeeps DEF IInv
  <2>2. phase' = "timer"
    BY <1>1 DEF LastFrameEvent, To
  <2> QED BY <2>1, <2>2 DEF IInv
<1>2. CASE onTimer \/ onPlayerOperation \/ evAiOperation
  <2>1. phase # "last" /\ phase' # "last"
    BY <1>2 DEF onTimer, onPlayerOperation, evAiOperation, To
  <2>2. Calm(w)
    BY <2>1 DEF IInv, Calm
  <2>3. Calm(w')
    BY <1>2, <2>2, onTimerKeeps, onPlayerOperationKeeps, evAiOperationKeeps
  <2> QED BY <2>1, <2>3 DEF IInv, Calm
<1>3. CASE Physics
  <2>1. phase # "last" /\ phase' = "last"
    BY <1>3 DEF Physics, To
  <2>2. Fit(w) /\ Linked(w)
    BY <2>1, ClearLinked DEF IInv
  <2>3. w' = ForEach(PhysicsFrame, w, [n \in 1..PhysicsFrames |-> n])
    BY <1>3 DEF Physics
  <2>4. Fit(w') /\ Linked(w')
    BY <2>2, <2>3, FramesAre
  <2> QED BY <2>1, <2>4 DEF IInv
<1>4. CASE UNCHANGED vars
  BY <1>4 DEF vars, IInv
<1> QED BY <1>1, <1>2, <1>3, <1>4 DEF Next

\* A battle starts in order.
LEMMA InitCalm ==
  ASSUME Init
  PROVE  IInv
<1>1. PICK red \in Reds : w = InitBattle(red)
  BY DEF Init
<1>2. Calm(w)
  BY <1>1, Begins
<1>3. phase # "last"
  BY DEF Init
<1> QED BY <1>2, <1>3 DEF IInv, Calm

\* Whatever the map, the levels, the speeds and the number of bullets, the
\* battle stays in order.
THEOREM BattleInvariant == Spec => []IInv
BY InitCalm, NextKeeps, PTL DEF Spec

\* A hit of either kind of phase is one hit.
LEMMA LinkedAlways ==
  ASSUME IInv
  PROVE  Fit(w) /\ Linked(w)
BY ClearLinked DEF IInv

\* Bullet.ts:106 counts on it: a bullet flies along a line of the grid, whatever
\* its shooter did before, so what it hits are the two units beside its path.
THEOREM BulletsOnGrid == Spec => []ShotsOnGrid
<1>1. IInv => ShotsOnGrid
  <2> SUFFICES ASSUME IInv, NEW b \in Live(w)
               PROVE  w.bullet[b].pos[3 - Axis(w.bullet[b].dir)] % Unit = 0
    BY DEF ShotsOnGrid
  <2>1. BulletOK(w.bullet[b])
    BY DEF IInv, Fit
  <2> QED BY <2>1 DEF BulletOK, OnLine, Across
<1> QED BY <1>1, BattleInvariant, PTL

\* One bullet hits one tank, one bullet or the base, and that knows it was hit by
\* this bullet, in whatever order the collisions of a frame are found.
THEOREM BulletsHitOnce == Spec => []OneBulletOneTarget
<1>1. IInv => OneBulletOneTarget
  <2> SUFFICES ASSUME IInv PROVE OneBulletOneTarget
    OBVIOUS
  <2>1. Fit(w) /\ Linked(w)
    BY LinkedAlways
  <2>2. \A b \in Live(w), t \in OnField(w) :
           (w.bullet[b].hit = <<"tank", t>>) <=> (w.tank[t].hit = <<"bullet", b>>)
    BY <2>1 DEF Linked, TankLinks, AtTank, AtBullet
  <2>3. \A b, c \in Live(w) :
           (w.bullet[b].hit = <<"bullet", c>>) <=> (w.bullet[c].hit = <<"bullet", b>>)
    BY <2>1 DEF Linked, BulletLinks, AtBullet
  <2>4. \A b \in Ids : w.home /\ w.homeHit = <<"bullet", b>> => w.bullet[b].hit = <<"homebase">>
    BY <2>1 DEF Linked, HomeLinks, Stands, AtBullet, AtHome
  <2>5. ASSUME NEW t \in OnField(w), w.tank[t].hit # NoHit PROVE w.tank[t].hit[2] \in Live(w)
    <3>1. PICK b \in Live(w) : w.tank[t].hit = AtBullet(b)
      BY <2>1, <2>5 DEF Linked, TankHits
    <3> QED BY <3>1 DEF AtBullet
  <2> QED BY <2>2, <2>3, <2>4, <2>5 DEF OneBulletOneTarget
<1> QED BY <1>1, BattleInvariant, PTL

\* A tank counts no more shots than its bullets that fly, also when it or another
\* tank died meanwhile: ammunition comes back.
THEOREM AmmunitionReturns == Spec => []AmmoComesBack
<1>1. IInv => AmmoComesBack
  <2> SUFFICES ASSUME IInv, NEW t \in OnField(w)
               PROVE  w.tank[t].bulletNum <= Cardinality({b \in Live(w) : w.bullet[b].shooter = t})
    BY DEF AmmoComesBack
  <2>1. t \in Tanks /\ Ammo(w)
    BY OnFieldIs DEF IInv, Fit
  <2> QED BY <2>1 DEF Ammo, Shots
<1> QED BY <1>1, BattleInvariant, PTL


-----------------------------------------------------------------------------
(* What is drawn (Drive) *)

\* A prop, and whether it is gained.
There(q) == q.there
Gained(q) == q.gained
PropOK(q) == (There(q) => DOMAIN q = {"there", "pos", "gained"})

\* Between its frames a tank alone on the field is one of a battle; what is drawn
\* is somewhere.
DriveInv ==
    /\ Fit(field) /\ ~Afield(field.tank["enemy"])
    /\ IF moment = "moving" THEN Clear(field) ELSE Linked(field)
    /\ view \in Int \X Int /\ bulletView \in [Ids -> Int \X Int]
    /\ PropOK(prop)

\* A tank that met the prop waits.
Paused(h) == [h EXCEPT !.tank["player"].update = FALSE]

\* It stays where it is and is hit by what hit it.
LEMMA PausedIs ==
  ASSUME NEW h, Fit(h), Linked(h)
  PROVE  Fit(Paused(h)) /\ Linked(Paused(h)) /\ OnField(Paused(h)) = OnField(h)
<1> DEFINE k == Paused(h)
<1>1. "player" \in Tanks
  BY DEF Tanks
<1>2. DOMAIN h = Fields /\ DOMAIN h.tank = Tanks /\ DOMAIN h.tank["player"] = TankFields
  BY <1>1 DEF Fit, World, TankOK
<1>3. /\ DOMAIN k = Fields /\ DOMAIN k.tank = Tanks /\ k.bullet = h.bullet /\ k.home = h.home
      /\ k.homeHit = h.homeHit /\ k.units = h.units
      /\ \A u \in Tanks : u # "player" => k.tank[u] = h.tank[u]
  BY <1>2 DEF Paused, Fields
<1>4. /\ DOMAIN k.tank["player"] = TankFields
      /\ k.tank["player"].pos = h.tank["player"].pos
      /\ k.tank["player"].dir = h.tank["player"].dir
      /\ k.tank["player"].life = h.tank["player"].life
      /\ k.tank["player"].hit = h.tank["player"].hit
      /\ k.tank["player"].bulletNum = h.tank["player"].bulletNum
  BY <1>1, <1>2 DEF Paused, Fields, TankFields
<1> HIDE DEF k
<1>5. TankStep(h, k, "player")
  BY <1>1, <1>3, <1>4, TankMood
<1>6. Fit(k)
  BY <1>1, <1>5, TankSteps
<1>7. Linked(k)
  BY <1>1, <1>4, <1>5, LinkedTank DEF TankStep, Afield
<1>8. OnField(k) = OnField(h)
  <2>1. \A u : u \in OnField(k) <=> u \in OnField(h)
    BY <1>3, <1>4, OnFieldIs DEF Afield
  <2> QED BY <2>1
<1> QED BY <1>6, <1>7, <1>8 DEF k

\* A physics frame of a tank that is alone, with the prop: it stays, or is gained.
Lone(h, q, hq) ==
    /\ Fit(hq[1]) /\ Linked(hq[1]) /\ OnField(hq[1]) = OnField(h)
    /\ hq[2] = q \/ (There(hq[2]) /\ Gained(hq[2]) /\ DOMAIN hq[2] = {"there", "pos", "gained"})

\* What becomes of the prop.
LEMMA GainedIs ==
  ASSUME NEW q, PropOK(q), There(q), NEW p, p = [q EXCEPT !.gained = TRUE]
  PROVE  There(p) /\ Gained(p) /\ DOMAIN p = {"there", "pos", "gained"}
BY DEF PropOK, There, Gained

\* One such frame.
LEMMA DriveFrameIs ==
  ASSUME NEW h, NEW q, PropOK(q), NEW hq, Lone(h, q, hq), NEW n
  PROVE  Lone(h, q, DriveFrame(hq, n))
<1> DEFINE a == TankUpdate(hq[1], "player")
           b == ForEach(BulletUpdate, a, IdSeq)
           p == [hq[2] EXCEPT !.gained = TRUE]
           r == DriveFrame(hq, n)
<1>1. \/ Meets(b, hq[2]) /\ r = <<onCollisionDetection(Paused(b)), p>>
      \/ r = <<onCollisionDetection(b), hq[2]>>
  BY DEF DriveFrame, Paused
<1>2. Fit(a) /\ Linked(a) /\ OnField(a) = OnField(h)
  BY TankUpdateIs DEF Tanks, Lone
<1> HIDE DEF a
<1>3. Fit(b) /\ Linked(b) /\ OnField(b) = OnField(h)
  BY <1>2, FlightsAre
<1> HIDE DEF b, p, r
<1>4. CASE Meets(b, hq[2]) /\ r = <<onCollisionDetection(Paused(b)), p>>
  <2> DEFINE d == onCollisionDetection(Paused(b))
  <2>1. Fit(d) /\ Linked(d) /\ OnField(d) = OnField(h)
    BY <1>3, PausedIs, CollisionsAre
  <2>2. There(hq[2]) /\ PropOK(hq[2])
    BY <1>4 DEF Meets, There, Lone, PropOK
  <2>3. There(p) /\ Gained(p) /\ DOMAIN p = {"there", "pos", "gained"}
    BY <2>2, GainedIs DEF p
  <2>4. r[1] = d /\ r[2] = p
    BY <1>4
  <2> HIDE DEF d
  <2> QED BY <2>1, <2>3, <2>4 DEF Lone, r
<1>5. CASE r = <<onCollisionDetection(b), hq[2]>>
  <2> DEFINE d == onCollisionDetection(b)
  <2>1. Fit(d) /\ Linked(d) /\ OnField(d) = OnField(h)
    BY <1>3, CollisionsAre
  <2>2. r[1] = d /\ r[2] = hq[2]
    BY <1>5
  <2> HIDE DEF d
  <2> QED BY <2>1, <2>2 DEF Lone, r
<1> QED BY <1>1, <1>4, <1>5

\* All the physics frames of a logic frame.
LEMMA MovedIs ==
  ASSUME NEW h, Fit(h), Linked(h), NEW q, PropOK(q),
         NEW k, k = ForEach(DriveFrame, <<h, q>>, [m \in 1..PhysicsFrames |-> m])
  PROVE  Lone(h, q, k)
<1> DEFINE c == <<"drive">>
           from == <<h, q>>
           s == [m \in 1..PhysicsFrames |-> m]
           n == Len(s)
           f == CHOOSE f : f = [i \in 0..n |-> IF i = 0 THEN from ELSE DriveFrame(f[i - 1], s[i])]
           T == {i \in 0..n : Lone(h, q, f[i])}
<1>1. k = f[n]
  BY DEF ForEach
<1>2. n \in Nat /\ \A i \in 1..n : s[i] = i
  <2>1. PhysicsFrames \in Nat
    BY TanksAssumption
  <2>2. s \in Seq(Int) /\ DOMAIN s = 1..PhysicsFrames
    BY <2>1
  <2>3. Len(s) = PhysicsFrames
    <3> HIDE DEF s
    <3> QED BY <2>1, <2>2
  <2> QED BY <2>1, <2>3
<1>3. c[1] = "drive" /\ \A a, i : Pass(c, a, i) = DriveFrame(a, i)
  BY DEF Pass
<1>4. Lone(h, q, from)
  BY DEF Lone
<1>5. f = [i \in 0..n |-> IF i = 0 THEN from ELSE DriveFrame(f[i - 1], s[i])]
  <2> HIDE DEF n, s, f, c, from
  <2>1. PICK g : Is(c, from, g, n)
    BY <1>2, Exists
  <2>2. g = [i \in 0..n |-> IF i = 0 THEN from ELSE DriveFrame(g[i - 1], s[i])]
    <3> DEFINE g2 == [i \in 0..n |-> IF i = 0 THEN from ELSE DriveFrame(g[i - 1], s[i])]
               g3 == [i \in 0..n |-> IF i = 0 THEN from ELSE Pass(c, g[i - 1], i)]
    <3>1. g = g3
      BY <2>1 DEF Is
    <3>2. ASSUME NEW i \in 0..n PROVE g2[i] = g3[i]
      <4>1. i = 0 \/ i \in 1..n
        BY <1>2
      <4> QED BY <1>2, <1>3, <4>1
    <3>3. g2 = g3
      BY <3>2
    <3> QED BY <3>1, <3>3
  <2> QED BY <2>2 DEF f
<1> HIDE DEF f, n, c, s, from
<1>6. 0 \in T
  BY <1>2, <1>4, <1>5
<1>7. ASSUME NEW i \in 0..n, i < n, i \in T PROVE i + 1 \in T
  <2>1. i + 1 \in 1..n /\ i + 1 \in 0..n /\ (i + 1) - 1 = i /\ i + 1 # 0
    BY <1>2, <1>7
  <2>2. f[i + 1] = DriveFrame(f[i], i + 1)
    BY <1>2, <1>5, <2>1
  <2>3. Lone(h, q, f[i])
    BY <1>7
  <2> QED BY <2>1, <2>2, <2>3, DriveFrameIs
<1> HIDE DEF T
<1>8. \A i \in 0..n : i < n /\ i \in T => i + 1 \in T
  BY <1>7
<1>9. \A i \in 0..n : i \in T
  BY <1>2, <1>6, <1>8, UpTo
<1> QED BY <1>1, <1>2, <1>9 DEF T

\* A mended tank stays where it is.
LEMMA MendStays ==
  ASSUME NEW h, Fit(h), NEW t \in Tanks, NEW n, NEW k,
         k = Relevel(h, t, n) \/ k = Resumed(h, t) \/ k = Unhit(h, t)
  PROVE  Stay(h, k)
<1>1. DOMAIN h = Fields /\ DOMAIN h.tank = Tanks /\ DOMAIN h.tank[t] = TankFields
  BY DEF Fit, World, TankOK
<1>2. k.units = h.units /\ \A u \in Tanks : u # t => k.tank[u] = h.tank[u]
  BY <1>1 DEF Relevel, Unhit, Resumed, Fields
<1>3. k.tank[t].pos = h.tank[t].pos /\ k.tank[t].life = h.tank[t].life
  BY <1>1 DEF Relevel, Unhit, Resumed, Fields, TankFields
<1> QED BY <1>2, <1>3 DEF Stay, Afield

\* A player who is hit stays where he is, or leaves the field.
LEMMA PlayerStays ==
  ASSUME NEW h, Fit(h), NEW lost, NEW k, k = PlayerEvent(h, lost)
  PROVE  Stay(h, k)
<1> DEFINE p == h.tank["player"]
           how == IF lost THEN "lost" ELSE "gone"
           d == dead(h, "player", how)
           u == Unhit(h, "player")
           l == Relevel(u, "player", 1)
           e == [d EXCEPT !.over = @ \/ lost]
<1>1. "player" \in Tanks
  BY DEF Tanks
<1>2. k = h \/ k = Resumed(h, "player") \/ k = u \/ k = l \/ k = e
  <2> DEFINE A == h
             B == Resumed(h, "player")
  <2>1. k = CASE p.life \notin {"borning", "up"} -> A
              [] p.life \in {"borning", "up"} /\ p.hit = NoHit -> B
              [] p.hit # NoHit /\ p.shield -> u
              [] p.hit # NoHit /\ ~p.shield /\ p.level >= ProtectLevel -> l
              [] OTHER -> e
    BY DEF PlayerEvent, LevelDown, Resumed, Relevel
  <2> HIDE DEF B, u, l, e, p
  <2> QED BY <2>1 DEF B
<1>3. CASE k = h
  BY <1>3 DEF Stay
<1>4. CASE k = Resumed(h, "player") \/ k = u
  BY <1>1, <1>4, MendStays
<1>5. CASE k = l
  <2>1. Fit(u) /\ Stay(h, u)
    <3> HIDE DEF u
    <3>1. TankStep(h, u, "player")
      BY <1>1, UnhitIs DEF u
    <3> QED BY <1>1, <3>1, TankSteps, MendStays DEF u
  <2> HIDE DEF u
  <2>2. Stay(u, k)
    BY <1>1, <1>5, <2>1, MendStays
  <2> QED BY <2>1, <2>2 DEF Stay
<1>6. CASE k = e
  <2>1. how \in {"gone", "lost"}
    OBVIOUS
  <2> HIDE DEF how
  <2>2. TankStep(h, d, "player") /\ d.tank["player"].life = how /\ d.units = h.units
    BY <1>1, <2>1, DeadIs
  <2> HIDE DEF d
  <2>3. DOMAIN d = Fields
    BY <2>2 DEF TankStep, OnlyTank, World
  <2>4. k.units = d.units /\ k.tank = d.tank
    BY <1>6, <2>3 DEF Fields
  <2>5. ~Afield(k.tank["player"])
    BY <2>1, <2>2, <2>4 DEF Afield
  <2> QED BY <2>2, <2>4, <2>5 DEF Stay, TankStep, OnlyTank
<1> QED BY <1>2, <1>3, <1>4, <1>5, <1>6

\* A tank comes up where it is.
LEMMA ComeIs ==
  ASSUME NEW h, Fit(h), NEW k, k = Come(h)
  PROVE  TankStep(h, k, "player") /\ Stay(h, k)
<1>1. "player" \in Tanks
  BY DEF Tanks
<1>2. CASE k = h
  BY <1>1, <1>2, TankStays DEF Stay
<1>3. CASE h.tank["player"].life = "borning" /\ k = [h EXCEPT !.tank["player"].life = "up"]
  <2>1. DOMAIN h = Fields /\ DOMAIN h.tank = Tanks /\ DOMAIN h.tank["player"] = TankFields
    BY <1>1 DEF Fit, World, TankOK
  <2>2. /\ DOMAIN k = Fields /\ DOMAIN k.tank = Tanks /\ k.bullet = h.bullet /\ k.home = h.home
        /\ k.homeHit = h.homeHit /\ k.units = h.units
        /\ \A u \in Tanks : u # "player" => k.tank[u] = h.tank[u]
    BY <1>3, <2>1 DEF Fields
  <2>3. /\ DOMAIN k.tank["player"] = TankFields
        /\ k.tank["player"].pos = h.tank["player"].pos
        /\ k.tank["player"].dir = h.tank["player"].dir
        /\ k.tank["player"].life = "up"
        /\ k.tank["player"].hit = h.tank["player"].hit
        /\ k.tank["player"].bulletNum = h.tank["player"].bulletNum
    BY <1>1, <1>3, <2>1 DEF Fields, TankFields
  <2>4. TankStep(h, k, "player")
    BY <1>1, <1>3, <2>2, <2>3, TankMood
  <2>5. Stay(h, k)
    BY <1>3, <2>2, <2>3 DEF Stay, Afield
  <2> QED BY <2>4, <2>5
<1> QED BY <1>2, <1>3 DEF Come

\* What comes after the sceneries and the base: nothing is hit any more, nothing
\* new stands in the way.
LEMMA LastFrameLeaves ==
  ASSUME DriveInv, LastFrame
  PROVE  \E k : /\ field'.units = k.units /\ Fit(k) /\ Stay(k, field')
                /\ prop' \in {PropLast, NoProp} \cup {evCreateProp(rc) : rc \in getRandomPropPosition(k)}
                /\ Calm(field') /\ ~Afield(field'.tank["enemy"])
<1> DEFINE a == destroyUnit(field)
           k == HomeEvent(a)
           b == PlayerEvent(k, FALSE)
           h == ForEach(BulletEvent, b, IdSeq)
<1>1. /\ field' = h \/ field' = Come(h)
      /\ prop' \in {PropLast, NoProp} \cup {evCreateProp(rc) : rc \in getRandomPropPosition(k)}
  BY DEF LastFrame
<1>2. /\ Fit(field) /\ ~Afield(field.tank["enemy"]) /\ field.tank["enemy"].hit = NoHit
      /\ "enemy" \in Tanks /\ "player" \in Tanks /\ "player" # "enemy"
      /\ \A t \in Tanks : t = "player" \/ t = "enemy"
  BY DEF DriveInv, Fit, TankOK, Tanks
<1>3. Fit(a) /\ a.tank = field.tank
  BY <1>2, AsideIs DEF Aside
<1> HIDE DEF a
<1>4. Fit(k) /\ HomeClear(k) /\ k.tank = a.tank
  <2>1. k.tank = a.tank
    <3>1. DOMAIN a = Fields
      BY <1>3 DEF Fit, World
    <3> QED BY <3>1 DEF HomeEvent, Fields
  <2> QED BY <1>3, <2>1, HomeEventIs
<1> HIDE DEF k
<1>5. Fit(b) /\ Mended(b) /\ Stay(k, b)
  <2>1. PICK j : /\ TankStep(k, j, "player") /\ j.tank["player"].hit = NoHit
                 /\ Aside(j, b) /\ Homes(j, b)
    BY <1>4, PlayerEventIs
  <2>2. Stay(k, b)
    BY <1>4, PlayerStays
  <2> HIDE DEF b
  <2>3. Fit(j)
    BY <1>2, <1>4, <2>1, TankSteps
  <2>4. HomeClear(j)
    BY <1>4, <2>1, HomesIs DEF TankStep, OnlyTank, HomeClear
  <2>5. Fit(b)
    BY <2>1, <2>3, AsideFits
  <2>6. HomeClear(b)
    BY <2>1, <2>4, HomesIs DEF HomeClear
  <2>7. b.tank = j.tank /\ j.tank["enemy"] = k.tank["enemy"]
    BY <1>2, <2>1 DEF Aside, TankStep, OnlyTank
  <2>8. TanksClear(b)
    BY <1>2, <1>3, <1>4, <2>1, <2>7 DEF TanksClear
  <2> QED BY <2>2, <2>5, <2>6, <2>8 DEF Mended
<1> HIDE DEF b
<1>6. Fit(h) /\ Clear(h) /\ Stay(b, h)
  BY <1>5, EventsAre
<1> HIDE DEF h
<1>7. Calm(field') /\ Stay(h, field')
  <2>1. CASE field' = h
    BY <1>6, <2>1 DEF Calm, Stay
  <2>2. CASE field' = Come(h)
    <3>1. Calm(h)
      BY <1>6 DEF Calm
    <3>2. TankStep(h, field', "player") /\ Stay(h, field')
      BY <1>6, <2>2, ComeIs
    <3> QED BY <1>2, <3>1, <3>2, CalmStep
  <2> QED BY <1>1, <2>1, <2>2
<1>8. Stay(k, field')
  BY <1>5, <1>6, <1>7 DEF Stay
<1>9. ~Afield(field'.tank["enemy"])
  BY <1>2, <1>3, <1>4, <1>8 DEF Stay
<1>10. field'.units = k.units
  BY <1>8 DEF Stay
<1> QED BY <1>1, <1>4, <1>7, <1>8, <1>9, <1>10

\* A prop that goes or comes is one.
LEMMA PropsAre ==
  ASSUME PropOK(prop)
  PROVE  /\ PropOK(PropLast) /\ PropOK(NoProp) /\ ~There(NoProp)
         /\ \A rc : /\ PropOK(evCreateProp(rc)) /\ There(evCreateProp(rc))
                    /\ ~Gained(evCreateProp(rc)) /\ evCreateProp(rc).pos = rc
<1>1. ~There(NoProp)
  BY DEF There, NoProp
<1>2. PropOK(NoProp)
  BY <1>1 DEF PropOK
<1>3. PropLast = prop \/ PropLast = NoProp
  BY DEF PropLast
<1>4. ASSUME NEW rc
      PROVE  /\ PropOK(evCreateProp(rc)) /\ There(evCreateProp(rc))
             /\ ~Gained(evCreateProp(rc)) /\ evCreateProp(rc).pos = rc
  BY DEF PropOK, There, Gained, evCreateProp
<1> QED BY <1>1, <1>2, <1>3, <1>4

-----------------------------------------------------------------------------
(* Pictures *)

\* What is drawn is on the line a thing moves along, and not ahead of it.
LEMMA DrawIs ==
  ASSUME NEW at \in Int \X Int, NEW pos, NEW d, OnLine(pos, d), NEW n \in Int,
         NEW v, v = Draw(at, pos, d, n)
  PROVE  v \in Int \X Int /\ ~Ahead(v, pos, d)
<1>1. /\ d \in Directions /\ pos = <<pos[1], pos[2]>> /\ pos[1] \in Int /\ pos[2] \in Int
      /\ at[1] \in Int /\ at[2] \in Int /\ d[1] \in Int /\ d[2] \in Int
  BY DirectionIs DEF OnLine
<1> DEFINE l == Line(at, pos, d)
           next == getMovePosition(l, d, n)
<1>2. \/ v = next /\ (pos[Axis(d)] - next[Axis(d)]) * d[Axis(d)] >= 0
      \/ v = pos
  BY DEF Draw
<1>3. CASE v = pos
  <2>1. Axis(d) = 1 \/ Axis(d) = 2
    BY <1>1, DirectionIs
  <2>2. pos[Axis(d)] - pos[Axis(d)] = 0 /\ d[Axis(d)] \in Int
    BY <1>1, <2>1
  <2>3. ~((pos[Axis(d)] - pos[Axis(d)]) * d[Axis(d)] > 0)
    BY <2>2
  <2> QED BY <1>3, <2>3 DEF Ahead, OnLine
<1>4. CASE v = next /\ (pos[Axis(d)] - next[Axis(d)]) * d[Axis(d)] >= 0
  <2>1. l[1] \in Int /\ l[2] \in Int /\ l[Across(d)] = pos[Across(d)]
    BY <1>1, DirectionIs DEF Line, Across
  <2>2. next = <<l[1] + d[1] * n, l[2] + d[2] * n>>
    BY DEF getMovePosition
  <2>3. d[1] * n \in Int /\ d[2] * n \in Int /\ d[Across(d)] * n = 0
    <3>1. d[Across(d)] = 0
      BY <1>1, DirectionIs
    <3> QED BY <1>1, <3>1
  <2> HIDE DEF l, next
  <2>4. next \in Int \X Int /\ next[1] \in Int /\ next[2] \in Int
    BY <2>1, <2>2, <2>3
  <2>5. next[Across(d)] = pos[Across(d)]
    <3>1. Across(d) = 1 \/ Across(d) = 2
      BY <1>1, DirectionIs
    <3>2. next[Across(d)] = l[Across(d)] + d[Across(d)] * n
      BY <2>2, <3>1
    <3>3. l[Across(d)] \in Int
      BY <2>1, <3>1
    <3> QED BY <2>1, <2>3, <3>2, <3>3
  <2>6. ~((next[Axis(d)] - pos[Axis(d)]) * d[Axis(d)] > 0)
    <3> DEFINE x == next[Axis(d)]
               y == pos[Axis(d)]
               e == d[Axis(d)]
    <3>1. x \in Int /\ y \in Int /\ e \in {-1, 1}
      BY <1>1, <2>4, DirectionIs
    <3>2. (y - x) * e >= 0
      BY <1>4
    <3> HIDE DEF x, y, e
    <3>3. ~((x - y) * e > 0)
      BY <3>1, <3>2
    <3> QED BY <3>3 DEF x, y, e
  <2> QED BY <1>4, <2>4, <2>5, <2>6 DEF Ahead, Across
<1> QED BY <1>2, <1>3, <1>4

\* A thing that is where it is is not ahead.
LEMMA ThereIs ==
  ASSUME NEW pos, NEW d, OnLine(pos, d)
  PROVE  pos \in Int \X Int /\ ~Ahead(pos, pos, d)
<1>1. pos[1] \in Int /\ pos[2] \in Int /\ pos \in Int \X Int /\ d \in Directions
  BY DEF OnLine
<1>2. Axis(d) = 1 \/ Axis(d) = 2
  BY <1>1, DirectionIs
<1>3. pos[Axis(d)] - pos[Axis(d)] = 0 /\ d[Axis(d)] \in Int
  BY <1>1, <1>2, DirectionIs
<1>4. ~((pos[Axis(d)] - pos[Axis(d)]) * d[Axis(d)] > 0)
  BY <1>3
<1> QED BY <1>1, <1>4 DEF Ahead

\* A picture of the battle.
LEMMA RenderIs ==
  ASSUME DriveInv, Render
  PROVE  /\ view' \in Int \X Int /\ bulletView' \in [Ids -> Int \X Int]
         /\ ~Ahead(view', Player.pos, Player.dir)
         /\ \A id \in Live(field) :
                ~Ahead(bulletView'[id], field.bullet[id].pos, field.bullet[id].dir)
<1>1. PICK t \in Times : view' = update(t) /\ bulletView' = [id \in Ids |-> bulletUpdate(id, t)]
  BY DEF Render
<1>2. t \in Nat /\ TankSpeed \in Nat /\ IceSpeed \in Nat /\ BulletSpeed \in Nat
  BY DriveAssumption, TanksAssumption
<1>3. /\ OnLine(Player.pos, Player.dir) /\ view \in Int \X Int
      /\ \A id \in Ids : bulletView[id] \in Int \X Int
      /\ \A id \in Live(field) : OnLine(field.bullet[id].pos, field.bullet[id].dir)
  BY DEF DriveInv, Fit, TankOK, BulletOK, Tanks, Player
<1>4. view' \in Int \X Int /\ ~Ahead(view', Player.pos, Player.dir)
  <2> DEFINE k == Player
             s == DrawnSpeed(Line(view, k.pos, k.dir))
  <2>1. view' = k.pos \/ view' = Draw(view, k.pos, k.dir, s * t)
    BY <1>1 DEF update, DrawTank
  <2>2. s \in Nat
    BY <1>2 DEF DrawnSpeed
  <2> HIDE DEF s
  <2>3. s * t \in Int
    BY <1>2, <2>2
  <2> HIDE DEF k
  <2>4. OnLine(k.pos, k.dir)
    BY <1>3 DEF k
  <2>5. view' \in Int \X Int /\ ~Ahead(view', k.pos, k.dir)
    BY <1>3, <2>1, <2>3, <2>4, DrawIs, ThereIs
  <2> QED BY <2>5 DEF k
<1>5. ASSUME NEW id \in Ids
      PROVE  /\ bulletView'[id] \in Int \X Int
             /\ id \in Live(field) =>
                   ~Ahead(bulletView'[id], field.bullet[id].pos, field.bullet[id].dir)
  <2> DEFINE b == field.bullet[id]
             v == bulletView'[id]
             A == <<0, 0>>
             B == b.pos
             C == Draw(bulletView[id], b.pos, b.dir, BulletSpeed * t)
  <2>1. v = CASE ~Alive(b) -> A [] Alive(b) /\ dxxw -> B [] OTHER -> C
    BY <1>1 DEF bulletUpdate, Alive
  <2>2. id \in Live(field) <=> Alive(b)
    BY LiveIs
  <2>3. BulletSpeed * t \in Int /\ A \in Int \X Int
    BY <1>2
  <2> HIDE DEF v, A, B, C
  <2>4. \/ v = A /\ ~Alive(b)
        \/ v = B /\ Alive(b)
        \/ v = C /\ Alive(b)
    <3> DEFINE gone == ~Alive(b)
               now == Alive(b) /\ dxxw
    <3>1. v = CASE gone -> A [] now -> B [] OTHER -> C
      BY <2>1
    <3>2. now => ~gone
      OBVIOUS
    <3> HIDE DEF gone, now
    <3>3. \/ v = A /\ gone
          \/ v = B /\ now
          \/ v = C /\ ~gone
      BY <3>1, <3>2
    <3> QED BY <3>2, <3>3 DEF gone
  <2>5. CASE v = A /\ ~Alive(b)
    BY <2>2, <2>3, <2>5 DEF v
  <2>6. CASE v = B /\ Alive(b)
    <3>1. OnLine(b.pos, b.dir)
      BY <1>3, <2>2, <2>6
    <3> HIDE DEF b
    <3>2. v \in Int \X Int /\ ~Ahead(v, b.pos, b.dir)
      BY <2>6, <3>1, ThereIs DEF B
    <3> QED BY <3>2 DEF v, b
  <2>7. CASE v = C /\ Alive(b)
    <3>1. OnLine(b.pos, b.dir)
      BY <1>3, <2>2, <2>7
    <3> HIDE DEF b
    <3>2. v \in Int \X Int /\ ~Ahead(v, b.pos, b.dir)
      BY <1>3, <2>3, <2>7, <3>1, DrawIs DEF C
    <3> QED BY <3>2 DEF v, b
  <2> QED BY <2>4, <2>5, <2>6, <2>7
<1>6. bulletView' \in [Ids -> Int \X Int]
  BY <1>1, <1>5
<1>7. Live(field) \subseteq Ids
  BY LiveIs
<1> QED BY <1>4, <1>5, <1>6, <1>7

-----------------------------------------------------------------------------
(* The drive *)

\* The tank moves, shoots and is drawn where it is put.
LEMMA PlayKeeps ==
  ASSUME DriveInv, NEW h, Calm(h), ~Afield(h.tank["enemy"]), NEW at \in Int \X Int, Play(h, at)
  PROVE  /\ Fit(field') /\ Linked(field') /\ ~Afield(field'.tank["enemy"])
         /\ view' \in Int \X Int /\ bulletView' \in [Ids -> Int \X Int]
         /\ PropOK(prop')
         /\ prop' = prop \/ Gained(prop')
<1>1. PICK k \in {h, shoot(h, "player")} :
        bulletView' = PutBullets(k) /\ field' = Moved(k)[1] /\ prop' = Moved(k)[2]
  BY DEF Play
<1>2. "player" \in Tanks /\ "enemy" \in Tanks
  BY DEF Tanks
<1>3. Calm(k) /\ OnField(k) = OnField(h)
  BY <1>2, ShootIs DEF Calm
<1>4. PropOK(prop) /\ \A id \in Ids : bulletView[id] \in Int \X Int
  BY DEF DriveInv
<1>5. Lone(k, prop, Moved(k))
  BY <1>3, <1>4, MovedIs, ClearLinked DEF Moved, Calm
<1>6. /\ Fit(field') /\ Linked(field') /\ OnField(field') = OnField(k)
      /\ prop' = prop \/ (There(prop') /\ Gained(prop') /\ DOMAIN prop' = {"there", "pos", "gained"})
  BY <1>1, <1>5 DEF Lone
<1>7. ~Afield(field'.tank["enemy"])
  BY <1>2, <1>3, <1>6, OnFieldIs
<1>8. PropOK(prop') /\ (prop' = prop \/ Gained(prop'))
  BY <1>4, <1>6 DEF PropOK
<1>9. bulletView' \in [Ids -> Int \X Int]
  <2>1. ASSUME NEW id \in Ids PROVE PutBullets(k)[id] \in Int \X Int
    <3>1. \A b \in Live(k) : k.bullet[b].pos \in Int \X Int
      BY <1>3 DEF Calm, Fit, BulletOK, OnLine
    <3>2. \/ id \in Live(k) /\ PutBullets(k)[id] = k.bullet[id].pos
          \/ PutBullets(k)[id] = bulletView[id]
          \/ PutBullets(k)[id] = <<0, 0>>
      BY DEF PutBullets
    <3> QED BY <1>4, <3>1, <3>2
  <2>2. PutBullets(k) = [id \in Ids |-> PutBullets(k)[id]]
    BY DEF PutBullets
  <2> QED BY <1>1, <2>1, <2>2
<1>10. view' \in Int \X Int
  BY DEF Play
<1> QED BY <1>6, <1>7, <1>8, <1>9, <1>10

\* The player's operation and the physics.
LEMMA PlayerFrameKeeps ==
  ASSUME DriveInv, PlayerFrame
  PROVE  /\ Fit(field') /\ Linked(field') /\ ~Afield(field'.tank["enemy"])
         /\ view' \in Int \X Int /\ bulletView' \in [Ids -> Int \X Int]
         /\ PropOK(prop')
         /\ prop' = prop \/ Gained(prop')
<1>1. /\ "player" \in Tanks /\ "enemy" \in Tanks /\ "player" # "enemy"
      /\ view \in Int \X Int /\ ~Afield(field.tank["enemy"])
  BY DEF Tanks, DriveInv
<1>2. Calm(field)
  BY DEF DriveInv, PlayerFrame, Calm
<1>3. CASE Play([field EXCEPT !.tank["player"].move = FALSE], view)
  <2> DEFINE h == onStopMove(field)
  <2>1. Play(h, view)
    BY <1>3 DEF onStopMove
  <2>2. Calm(h)
    BY <1>2, BareIs
  <2>3. h.tank["enemy"] = field.tank["enemy"]
    BY <1>1, <1>2 DEF onStopMove, Calm, Fit, World, Fields
  <2> HIDE DEF h
  <2> QED BY <1>1, <2>1, <2>2, <2>3, PlayKeeps
<1>4. CASE \E d \in Directions : LET h == setMove(field, "player", d) IN Play(h, Put(h, d))
  <2>1. PICK d \in Directions : Play(setMove(field, "player", d), Put(setMove(field, "player", d), d))
    BY <1>4
  <2> DEFINE h == setMove(field, "player", d)
  <2>2. TankStep(field, h, "player")
    BY <1>1, <1>2, SetMoveIs DEF Calm
  <2> HIDE DEF h
  <2>3. Calm(h)
    BY <1>1, <1>2, <2>2, CalmStep
  <2>4. h.tank["enemy"] = field.tank["enemy"]
    BY <1>1, <2>2 DEF TankStep, OnlyTank
  <2>5. Put(h, d) \in Int \X Int
    BY <1>1, <2>3 DEF Put, Calm, Fit, TankOK, OnLine
  <2>6. Play(h, Put(h, d))
    BY <2>1 DEF h
  <2> QED BY <1>1, <2>3, <2>4, <2>5, <2>6, PlayKeeps
<1> QED BY <1>3, <1>4 DEF PlayerFrame

\* The player starts alone.
LEMMA DriveBegins ==
  ASSUME DriveInit
  PROVE  DriveInv
<1> DEFINE h == InitBattle(FALSE)
           k == dead(h, "enemy", "gone")
<1>1. field = k
  BY DEF DriveInit, dead
<1>2. Calm(h) /\ "player" \in Tanks /\ "enemy" \in Tanks
  BY Begins DEF Tanks
<1> HIDE DEF h
<1>3. TankStep(h, k, "enemy") /\ k.tank["enemy"].life = "gone"
  BY <1>2, DeadIs DEF Calm
<1> HIDE DEF k
<1>4. Calm(k)
  BY <1>2, <1>3, CalmStep
<1>5. Fit(field) /\ ~Afield(field.tank["enemy"]) /\ Linked(field)
  BY <1>1, <1>3, <1>4, ClearLinked DEF Calm, Afield
<1>6. view \in Int \X Int /\ bulletView \in [Ids -> Int \X Int]
  <2>1. view = field.tank["player"].pos /\ bulletView = [id \in Ids |-> <<0, 0>>]
    BY DEF DriveInit, Player
  <2>2. field.tank["player"].pos \in Int \X Int
    BY <1>2, <1>5 DEF Fit, TankOK, OnLine
  <2> QED BY <2>1, <2>2
<1>7. PropOK(prop)
  <2>1. prop = NoProp
    BY DEF DriveInit
  <2> QED BY <2>1, PropsAre DEF PropOK, NoProp, There
<1>8. moment # "moving"
  BY DEF DriveInit
<1> QED BY <1>5, <1>6, <1>7, <1>8 DEF DriveInv

\* Frames and pictures follow one another.
LEMMA DriveKeeps ==
  ASSUME DriveInv, [DriveNext]_driveVars
  PROVE  DriveInv'
<1>1. CASE LastFrame
  <2>1. /\ moment' = "moving" /\ view' = view /\ bulletView' = bulletView
    BY <1>1 DEF LastFrame
  <2>2. PICK k : /\ prop' \in {PropLast, NoProp} \cup {evCreateProp(rc) : rc \in getRandomPropPosition(k)}
                 /\ Calm(field') /\ ~Afield(field'.tank["enemy"])
    BY <1>1, LastFrameLeaves
  <2>3. PropOK(prop')
    BY <2>2, PropsAre DEF DriveInv
  <2> QED BY <2>1, <2>2, <2>3 DEF DriveInv, Calm
<1>2. CASE PlayerFrame
  <2>1. moment' = "played"
    BY <1>2 DEF PlayerFrame
  <2> QED BY <1>2, <2>1, PlayerFrameKeeps DEF DriveInv
<1>3. CASE Render
  <2>1. moment # "moving" /\ moment' = "drawn" /\ field' = field /\ prop' = prop
    BY <1>3 DEF Render
  <2>2. view' \in Int \X Int /\ bulletView' \in [Ids -> Int \X Int]
    BY <1>3, RenderIs
  <2> QED BY <2>1, <2>2 DEF DriveInv
<1>4. CASE CaughtUp \/ UNCHANGED driveVars
  <2>1. /\ field' = field /\ view' = view /\ bulletView' = bulletView /\ prop' = prop
        /\ moment' = moment
    BY <1>4 DEF CaughtUp, driveVars
  <2> QED BY <2>1 DEF DriveInv
<1> QED BY <1>1, <1>2, <1>3, <1>4 DEF DriveNext

\* Whatever the map, the speeds and the times between pictures: the field is in
\* order and what is drawn is somewhere.
THEOREM DriveInvariant == DriveSpec => []DriveInv
BY DriveBegins, DriveKeeps, PTL DEF DriveSpec

\* No tank is seen in a wall that stops it, no bullet beyond what it hits: a
\* picture shows either on the line it moves along and not ahead of where the
\* game let it go (BattleTank.ts, Bullet.ts: update), however fast it is.
THEOREM PicturesBehind == DriveSpec => NeverSeenAhead
<1>1. ASSUME DriveInv, [DriveNext]_driveVars
      PROVE  [Render => /\ ~Ahead(view', Player.pos, Player.dir)
                        /\ \A id \in Live(field) :
                               ~Ahead(bulletView'[id], field.bullet[id].pos, field.bullet[id].dir)]_driveVars
  BY <1>1, RenderIs
<1> QED BY <1>1, DriveInvariant, PTL DEF DriveSpec, NeverSeenAhead

-----------------------------------------------------------------------------
(* Free ground *)

\* Fewer units are fewer units.
LEMMA Cancel ==
  ASSUME NEW a \in Int, NEW b \in Int, Unit * a < Unit * b
  PROVE  a < b
<1>1. Unit \in Nat
  BY FieldAssumption
<1> DEFINE m == a - b
<1>2. m \in Int /\ a = b + m
  OBVIOUS
<1> HIDE DEF m
<1>3. Unit * a = Unit * b + Unit * m /\ Unit * a \in Int /\ Unit * b \in Int /\ Unit * m \in Int
  BY <1>1, <1>2
<1>4. Unit * m < 0
  BY <1>3
<1>5. ~(m >= 0)
  BY <1>1, <1>2, <1>4
<1> QED BY <1>2, <1>5

\* Rectangles that overlap overlap along either axis.
LEMMA OverlapIs ==
  ASSUME NEW a, NEW b, IntRect(a), IntRect(b), isRectOverlap(a, b)
  PROVE  \A i \in 1..2 : a.lo[i] < b.hi[i] /\ b.lo[i] < a.hi[i]
<1> DEFINE c == intersection(a, b)
<1>1. /\ c.lo[1] = Larger(a.lo[1], b.lo[1]) /\ c.lo[2] = Larger(a.lo[2], b.lo[2])
      /\ c.hi[1] = Smaller(a.hi[1], b.hi[1]) /\ c.hi[2] = Smaller(a.hi[2], b.hi[2])
  BY DEF intersection, Rect
<1>2. c.lo[1] < c.hi[1] /\ c.lo[2] < c.hi[2]
  BY DEF isRectOverlap
<1> HIDE DEF c
<1>3. a.lo[1] < b.hi[1] /\ b.lo[1] < a.hi[1]
  BY <1>1, <1>2 DEF IntRect, Larger, Smaller
<1>4. a.lo[2] < b.hi[2] /\ b.lo[2] < a.hi[2]
  BY <1>1, <1>2 DEF IntRect, Larger, Smaller
<1> QED BY <1>3, <1>4

\* The units along an axis that a tank or the base covers.
Span(v) == IF v % Unit = 0 THEN 4 ELSE 5

\* Along an axis: four units from x on, and what lies from v on, have one in
\* common when they overlap.
LEMMA Common ==
  ASSUME NEW x \in Int, NEW v \in Int, x * Unit < v + 4 * Unit, v < x * Unit + 4 * Unit
  PROVE  \E i \in 0..3, j \in 0..Span(v) - 1 : x + i = (v \div Unit) + j
<1> DEFINE q == v \div Unit
           r == v % Unit
<1>1. Unit \in Nat \ {0}
  BY FieldAssumption
<1>2. v = Unit * q + r /\ r \in 0..Unit - 1 /\ q \in Int
  BY <1>1, Division
<1>3. (r = 0 => Span(v) = 4) /\ (r # 0 => Span(v) = 5)
  BY DEF Span
<1> HIDE DEF q, r
<1>4. Unit * x \in Int /\ Unit * q \in Int /\ x * Unit = Unit * x
  BY <1>1, <1>2
<1>5. Unit * (q + 4) = Unit * q + 4 * Unit /\ Unit * (q + 5) = Unit * q + 5 * Unit
      /\ Unit * (x + 4) = Unit * x + 4 * Unit
  BY <1>1, <1>2, <1>4
<1>6. q < x + 4
  <2>1. Unit * q < Unit * (x + 4)
    BY <1>1, <1>2, <1>4, <1>5
  <2> QED BY <1>2, <2>1, Cancel
<1>7. r = 0 => x < q + 4
  <2> SUFFICES ASSUME r = 0 PROVE x < q + 4
    OBVIOUS
  <2>1. Unit * x < Unit * (q + 4)
    BY <1>1, <1>2, <1>4, <1>5
  <2> QED BY <1>2, <2>1, Cancel
<1>8. x < q + 5
  <2>1. Unit * x < Unit * (q + 5)
    BY <1>1, <1>2, <1>4, <1>5
  <2> QED BY <1>2, <2>1, Cancel
<1>9. Span(v) \in {4, 5} /\ (x >= q => x - q \in 0..Span(v) - 1)
  <2>1. CASE r = 0
    BY <1>2, <1>3, <1>7, <2>1
  <2>2. CASE r # 0
    BY <1>2, <1>3, <1>8, <2>2
  <2> QED BY <2>1, <2>2
<1>10. CASE x >= q
  <2> DEFINE j == x - q
  <2>1. j \in 0..Span(v) - 1 /\ x + 0 = q + j
    BY <1>2, <1>9, <1>10
  <2> HIDE DEF j
  <2> QED BY <2>1 DEF q
<1>11. CASE x < q
  <2> DEFINE i == q - x
  <2>1. i \in 0..3 /\ 0 \in 0..Span(v) - 1 /\ x + i = q + 0
    BY <1>2, <1>6, <1>9, <1>11
  <2> HIDE DEF i
  <2> QED BY <2>1 DEF q
<1> QED BY <1>2, <1>10, <1>11

\* A unit of a block.
LEMMA BlockIs ==
  ASSUME NEW rc, NEW cols, NEW rows, NEW i \in 0..cols - 1, NEW j \in 0..rows - 1
  PROVE  <<rc[1] + i, rc[2] + j>> \in Block(rc, cols, rows)
BY DEF Block

\* The sides of a square.
LEMMA SquareIs ==
  ASSUME NEW pos, pos[1] \in Int, pos[2] \in Int, NEW n \in Int
  PROVE  /\ IntRect(Square(pos, n))
         /\ \A i \in 1..2 : Square(pos, n).lo[i] = pos[i] /\ Square(pos, n).hi[i] = pos[i] + n
<1> DEFINE s == Square(pos, n)
<1>1. s.lo = pos /\ s.hi = <<pos[1] + n, pos[2] + n>>
  BY DEF Square, Rect
<1> HIDE DEF s
<1>2. s.lo[1] = pos[1] /\ s.lo[2] = pos[2] /\ s.hi[1] = pos[1] + n /\ s.hi[2] = pos[2] + n
  BY <1>1
<1>3. IntRect(s)
  BY <1>2 DEF IntRect
<1> QED BY <1>2, <1>3 DEF s

\* The sides of the place.
LEMMA PropIs ==
  ASSUME NEW rc \in Int \X Int
  PROVE  /\ IntRect(PropRect(rc))
         /\ \A i \in 1..2 : /\ PropRect(rc).lo[i] = rc[i] * Unit
                            /\ PropRect(rc).hi[i] = rc[i] * Unit + 4 * Unit
<1>1. Unit \in Nat /\ rc[1] \in Int /\ rc[2] \in Int
  BY FieldAssumption
<1>2. TankWidth = 4 * Unit /\ TankWidth \in Int
  BY <1>1 DEF TankWidth
<1> DEFINE p == matrixToScenePosition(rc)
<1>3. p[1] = rc[1] * Unit /\ p[2] = rc[2] * Unit /\ p[1] \in Int /\ p[2] \in Int
  BY <1>1 DEF matrixToScenePosition
<1> HIDE DEF p
<1>4. PropRect(rc) = Square(p, TankWidth)
  BY DEF PropRect, p
<1> QED BY <1>2, <1>3, <1>4, SquareIs

\* Square ground that a prop's place overlaps has a unit in common with it.
LEMMA Shared ==
  ASSUME NEW rc \in Int \X Int, NEW pos \in Int \X Int, isRectOverlap(PropRect(rc), getTankRect(pos))
  PROVE  Block(rc, 4, 4) \cap getTankContainRcInfoArray(pos) # {}
<1>1. Unit \in Nat /\ pos[1] \in Int /\ pos[2] \in Int /\ rc[1] \in Int /\ rc[2] \in Int
  BY FieldAssumption
<1>2. TankWidth = 4 * Unit /\ TankWidth \in Int
  BY <1>1 DEF TankWidth
<1>3. /\ IntRect(getTankRect(pos))
      /\ \A i \in 1..2 : /\ getTankRect(pos).lo[i] = pos[i]
                         /\ getTankRect(pos).hi[i] = pos[i] + 4 * Unit
  BY <1>1, <1>2, SquareIs DEF getTankRect
<1>4. \A i \in 1..2 : rc[i] * Unit < pos[i] + 4 * Unit /\ pos[i] < rc[i] * Unit + 4 * Unit
  BY <1>3, PropIs, OverlapIs
<1>5. PICK a \in 0..3, b \in 0..Span(pos[1]) - 1 : rc[1] + a = (pos[1] \div Unit) + b
  <2> DEFINE x == rc[1]
             v == pos[1]
  <2>1. x \in Int /\ v \in Int /\ x * Unit < v + 4 * Unit /\ v < x * Unit + 4 * Unit
    BY <1>1, <1>4
  <2> HIDE DEF x, v
  <2>2. \E a \in 0..3, b \in 0..Span(v) - 1 : x + a = (v \div Unit) + b
    BY <2>1, Common
  <2> QED BY <2>2 DEF x, v
<1>6. PICK c \in 0..3, d \in 0..Span(pos[2]) - 1 : rc[2] + c = (pos[2] \div Unit) + d
  <2> DEFINE x == rc[2]
             v == pos[2]
  <2>1. x \in Int /\ v \in Int /\ x * Unit < v + 4 * Unit /\ v < x * Unit + 4 * Unit
    BY <1>1, <1>4
  <2> HIDE DEF x, v
  <2>2. \E c \in 0..3, d \in 0..Span(v) - 1 : x + c = (v \div Unit) + d
    BY <2>1, Common
  <2> QED BY <2>2 DEF x, v
<1> DEFINE u == <<rc[1] + a, rc[2] + c>>
           at == sceneToMatrixPosition(pos)
<1>7. u \in Block(rc, 4, 4)
  BY <1>5, <1>6 DEF Block
<1>8. at[1] = pos[1] \div Unit /\ at[2] = pos[2] \div Unit
  BY DEF sceneToMatrixPosition
<1>9. u = <<at[1] + b, at[2] + d>>
  BY <1>5, <1>6, <1>8
<1>10. getTankContainRcInfoArray(pos) = Block(at, Span(pos[1]), Span(pos[2]))
  BY DEF getTankContainRcInfoArray, Span
<1> HIDE DEF u, at
<1>11. u \in getTankContainRcInfoArray(pos)
  BY <1>5, <1>6, <1>9, <1>10, BlockIs
<1> QED BY <1>7, <1>11

\* A multiple of the unit is as many units.
LEMMA Exactly ==
  ASSUME NEW n \in Int
  PROVE  (n * Unit) % Unit = 0 /\ (n * Unit) \div Unit = n
<1>1. Unit \in Nat \ {0}
  BY FieldAssumption
<1>2. n * Unit = Unit * n /\ Unit * n \in Int /\ (Unit * n) % Unit = 0
  BY <1>1, Multiple
<1> DEFINE q == (Unit * n) \div Unit
           r == (Unit * n) % Unit
<1>3. Unit * n = Unit * q + r /\ q \in Int /\ r = 0
  BY <1>1, <1>2, Division
<1> HIDE DEF q, r
<1>4. Unit * q \in Int /\ Unit * n = Unit * q
  BY <1>1, <1>2, <1>3
<1>5. ~(n < q) /\ ~(q < n)
  <2>1. n + 1 <= q => Unit * (n + 1) <= Unit * q
    <3> SUFFICES ASSUME ~(Unit * (n + 1) <= Unit * q) PROVE ~(n + 1 <= q)
      OBVIOUS
    <3>1. Unit * q < Unit * (n + 1) /\ n + 1 \in Int
      BY <1>1, <1>4
    <3>2. q < n + 1
      BY <1>3, <3>1, Cancel
    <3> QED BY <1>3, <3>2
  <2>2. q + 1 <= n => Unit * (q + 1) <= Unit * n
    <3> SUFFICES ASSUME ~(Unit * (q + 1) <= Unit * n) PROVE ~(q + 1 <= n)
      OBVIOUS
    <3>1. Unit * n < Unit * (q + 1) /\ q + 1 \in Int
      BY <1>1, <1>2, <1>3
    <3>2. n < q + 1
      BY <1>3, <3>1, Cancel
    <3> QED BY <1>3, <3>2
  <2>3. Unit * (n + 1) = Unit * n + Unit /\ Unit * (q + 1) = Unit * q + Unit
    BY <1>1, <1>3
  <2> QED BY <1>1, <1>2, <1>3, <1>4, <2>1, <2>2, <2>3
<1>6. q = n
  BY <1>3, <1>5
<1> QED BY <1>2, <1>6 DEF q

\* The home base stands on four by four units.
LEMMA HomeGround ==
  getTankContainRcInfoArray(HomePlace) = Block(HomePos, 4, 4)
<1>1. PICK x, y \in Int : HomePos = <<x, y>>
  BY PlacesAssumption
<1>2. HomePlace = <<x * Unit, y * Unit>>
  BY <1>1 DEF HomePlace, matrixToScenePosition
<1>3. /\ (x * Unit) % Unit = 0 /\ (x * Unit) \div Unit = x
      /\ (y * Unit) % Unit = 0 /\ (y * Unit) \div Unit = y
  BY Exactly
<1>4. sceneToMatrixPosition(HomePlace) = HomePos
  BY <1>1, <1>2, <1>3 DEF sceneToMatrixPosition
<1>5. Span(HomePlace[1]) = 4 /\ Span(HomePlace[2]) = 4
  BY <1>2, <1>3 DEF Span
<1>6. getTankContainRcInfoArray(HomePlace)
        = Block(sceneToMatrixPosition(HomePlace), Span(HomePlace[1]), Span(HomePlace[2]))
  BY DEF getTankContainRcInfoArray, Span
<1> QED BY <1>4, <1>5, <1>6

\* So does a unit of a scenery that a prop's place overlaps.
LEMMA UnitGround ==
  ASSUME NEW rc \in Int \X Int, NEW u \in Units, isRectOverlap(PropRect(rc), UnitRect(u))
  PROVE  u \in Block(rc, 4, 4)
<1>1. /\ Unit \in Nat \ {0} /\ rc[1] \in Int /\ rc[2] \in Int /\ u = <<u[1], u[2]>>
      /\ u[1] \in Int /\ u[2] \in Int
  BY FieldAssumption DEF Units
<1> DEFINE p == matrixToScenePosition(u)
<1>2. p[1] = u[1] * Unit /\ p[2] = u[2] * Unit /\ p[1] \in Int /\ p[2] \in Int
  BY <1>1 DEF matrixToScenePosition
<1>3. UnitRect(u) = Square(p, Unit)
  BY DEF UnitRect
<1> HIDE DEF p
<1>4. IntRect(UnitRect(u)) /\ \A i \in 1..2 : UnitRect(u).lo[i] = p[i] /\ UnitRect(u).hi[i] = p[i] + Unit
  BY <1>1, <1>2, <1>3, SquareIs
<1>5. \A i \in 1..2 : rc[i] * Unit < p[i] + Unit /\ p[i] < rc[i] * Unit + 4 * Unit
  BY <1>4, PropIs, OverlapIs
<1>6. ASSUME NEW x \in Int, NEW y \in Int, x * Unit < y * Unit + Unit, y * Unit < x * Unit + 4 * Unit
      PROVE  y - x \in 0..3
  <2>1. /\ x * Unit = Unit * x /\ y * Unit = Unit * y /\ Unit * x \in Int /\ Unit * y \in Int
        /\ Unit * (y + 1) = Unit * y + Unit /\ Unit * (x + 4) = Unit * x + 4 * Unit
    BY <1>1
  <2>2. Unit * x < Unit * (y + 1) /\ Unit * y < Unit * (x + 4)
    BY <1>1, <1>6, <2>1
  <2>3. x < y + 1 /\ y < x + 4
    BY <2>2, Cancel
  <2> QED BY <2>3
<1>7. u[1] - rc[1] \in 0..3
  <2>1. rc[1] * Unit < u[1] * Unit + Unit /\ u[1] * Unit < rc[1] * Unit + 4 * Unit
    BY <1>2, <1>5
  <2> QED BY <1>1, <1>6, <2>1
<1>8. u[2] - rc[2] \in 0..3
  <2>1. rc[2] * Unit < u[2] * Unit + Unit /\ u[2] * Unit < rc[2] * Unit + 4 * Unit
    BY <1>2, <1>5
  <2> QED BY <1>1, <1>6, <2>1
<1> DEFINE i == u[1] - rc[1]
           j == u[2] - rc[2]
<1>9. i \in 0..4 - 1 /\ j \in 0..4 - 1 /\ u = <<rc[1] + i, rc[2] + j>>
  <2>1. rc[1] + i = u[1] /\ rc[2] + j = u[2]
    BY <1>1
  <2> QED BY <1>1, <1>7, <1>8, <2>1
<1> HIDE DEF i, j
<1> QED BY <1>9, BlockIs

\* What is not taken is free of tanks, the base and what stays of the sceneries.
LEMMA GroundIs ==
  ASSUME NEW k, Fit(k), NEW rc \in getRandomPropPosition(k)
  PROVE  /\ \A t \in OnField(k) : ~isRectOverlap(PropRect(rc), getTankRect(k.tank[t].pos))
         /\ ~isRectOverlap(PropRect(rc), HomeRect)
         /\ \A s \in DOMAIN Map : Map[s] \in {"steel", "water"} =>
               \A u \in UnitsOfScenery(s) \cap k.units : ~isRectOverlap(PropRect(rc), UnitRect(u))
<1>1. /\ rc \in (0..2 * Cols - 4) \X (0..2 * Rows - 4)
      /\ Block(rc, 4, 4) \cap Taken(k, {"grass", "wall", "ice"}) = {}
  BY DEF getRandomPropPosition, getEmptyMatrixArray
<1>2. rc \in Int \X Int
  <2>1. Cols \in Nat /\ Rows \in Nat
    BY FieldAssumption
  <2> QED BY <1>1, <2>1
<1>3. ASSUME NEW t \in OnField(k), isRectOverlap(PropRect(rc), getTankRect(k.tank[t].pos))
      PROVE  FALSE
  <2>1. k.tank[t].pos \in Int \X Int
    BY OnFieldIs DEF Fit, TankOK, OnLine
  <2>2. getTankContainRcInfoArray(k.tank[t].pos) \subseteq Taken(k, {"grass", "wall", "ice"})
    <3> SUFFICES ASSUME NEW u \in getTankContainRcInfoArray(k.tank[t].pos)
                 PROVE  u \in Taken(k, {"grass", "wall", "ice"})
      OBVIOUS
    <3>1. \E x \in OnField(k) : u \in getTankContainRcInfoArray(k.tank[x].pos)
      OBVIOUS
    <3>2. u \in UNION {getTankContainRcInfoArray(k.tank[x].pos) : x \in OnField(k)}
      BY <3>1
    <3> QED BY <3>2 DEF Taken
  <2> QED BY <1>1, <1>2, <1>3, <2>1, <2>2, Shared
<1>4. ASSUME isRectOverlap(PropRect(rc), HomeRect) PROVE FALSE
  <2>1. HomeRect = getTankRect(HomePlace)
    BY DEF HomeRect, HomePlace
  <2>2. HomePlace \in Int \X Int
    BY PlacesAssumption, UnitsAre DEF HomePlace, UnitAt
  <2>3. Block(HomePos, 4, 4) \subseteq Taken(k, {"grass", "wall", "ice"})
    BY DEF Taken
  <2> QED BY <1>1, <1>2, <1>4, <2>1, <2>2, <2>3, HomeGround, Shared
<1>5. ASSUME NEW s \in DOMAIN Map, Map[s] \in {"steel", "water"},
             NEW u \in UnitsOfScenery(s) \cap k.units, isRectOverlap(PropRect(rc), UnitRect(u))
      PROVE  FALSE
  <2>1. u \in Taken(k, {"grass", "wall", "ice"})
    BY <1>5 DEF Taken, getSceneryContainPosAry
  <2>2. u \in Units
    BY DEF Fit, World
  <2> QED BY <1>1, <1>2, <1>5, <2>1, <2>2, UnitGround
<1> QED BY <1>3, <1>4, <1>5

\* What is about a prop's place when it appears.
NewOnFree ==
    /\ \A t \in OnField(field') : ~isRectOverlap(PropRect(prop'.pos), getTankRect(field'.tank[t].pos))
    /\ ~isRectOverlap(PropRect(prop'.pos), HomeRect)
    /\ Sceneries(field', {"steel", "water"}, PropRect(prop'.pos)) = {}

\* A prop is put on free ground, and there it stays until it is gained.
LEMMA PropAppears ==
  ASSUME DriveInv, [DriveNext]_driveVars, There(prop'), prop' # prop, ~Gained(prop')
  PROVE  NewOnFree
<1>1. CASE LastFrame
  <2>1. PICK k : /\ field'.units = k.units /\ Fit(k) /\ Stay(k, field')
                 /\ prop' \in {PropLast, NoProp} \cup {evCreateProp(rc) : rc \in getRandomPropPosition(k)}
    BY <1>1, LastFrameLeaves
  <2>2. PropLast = prop \/ PropLast = NoProp
    BY DEF PropLast
  <2>3. ~There(NoProp)
    BY DEF There, NoProp
  <2>4. PICK rc \in getRandomPropPosition(k) : prop' = evCreateProp(rc)
    BY <2>1, <2>2, <2>3
  <2>5. prop'.pos = rc
    BY <2>4 DEF evCreateProp
  <2>6. \A t \in OnField(field') : t \in OnField(k) /\ field'.tank[t].pos = k.tank[t].pos
    BY <2>1, OnFieldIs DEF Stay
  <2>7. \A t \in OnField(field') : ~isRectOverlap(PropRect(rc), getTankRect(field'.tank[t].pos))
    BY <2>1, <2>6, GroundIs
  <2>8. ~isRectOverlap(PropRect(rc), HomeRect)
    BY <2>1, GroundIs
  <2>9. Sceneries(field', {"steel", "water"}, PropRect(rc)) = {}
    <3>1. ASSUME NEW s \in DOMAIN Map, Map[s] \in {"steel", "water"}
          PROVE  getOverlapSceneryRects(field', s, PropRect(rc)) = {}
      BY <2>1, <3>1, GroundIs DEF getOverlapSceneryRects
    <3>2. getSceneryNodesInRect(field', PropRect(rc)) \subseteq DOMAIN Map
      BY DEF getSceneryNodesInRect
    <3> QED BY <3>1, <3>2 DEF Sceneries
  <2> QED BY <2>5, <2>7, <2>8, <2>9 DEF NewOnFree
<1>2. CASE PlayerFrame
  BY <1>2, PlayerFrameKeeps
<1>3. CASE Render \/ CaughtUp \/ UNCHANGED driveVars
  BY <1>3 DEF Render, CaughtUp, driveVars
<1> QED BY <1>1, <1>2, <1>3 DEF DriveNext

\* A prop appears where it can be seen and reached (GameMapManger.ts
\* getEmptyMatrixArray, on the units PropManager.ts excludes): on no tank, not in
\* the base, on no scenery that stays, wherever a tank is between two units.
THEOREM PropsOnFreeGround == DriveSpec => PropOnFreeGround
<1>1. ASSUME DriveInv, [DriveNext]_driveVars
      PROVE  [prop'.there /\ prop' # prop /\ ~prop'.gained =>
        /\ \A t \in OnField(field') : ~isRectOverlap(PropRect(prop'.pos), getTankRect(field'.tank[t].pos))
        /\ ~isRectOverlap(PropRect(prop'.pos), HomeRect)
        /\ Sceneries(field', {"steel", "water"}, PropRect(prop'.pos)) = {}]_driveVars
  <2>1. There(prop') /\ prop' # prop /\ ~Gained(prop') => NewOnFree
    BY <1>1, PropAppears
  <2> QED BY <2>1 DEF There, Gained, NewOnFree
<1> QED BY <1>1, DriveInvariant, PTL DEF DriveSpec, PropOnFreeGround
=============================================================================
