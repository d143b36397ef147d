---------------------------- MODULE StageProofs ----------------------------
(* Theorems about Stage: what its run checks of a small game holds for every *)
(* number of enemies, lives, stages, levels, props and hits.                *)
(*                                                                          *)
(* The invariant speaks of the tasks by classes (Most: at most q of a kind   *)
(* and an argument), counting with the list those that are due in the step   *)
(* and not yet run: s after its i-th.  So it holds between any two of them.  *)
(* Each operator of Stage has a lemma here, in the order of Stage; a loop    *)
(* over players, enemies or tasks is one of the loops of Pass.              *)
EXTENDS Stage, TLAPS, SequenceTheorems, FiniteSetTheorems, WellFoundedInduction
-----------------------------------------------------------------------------
(* The invariant *)

\* A task of each kind belongs to who scheduled it; all but four are due with
\* the next step.
Args == Nat \cup [row : 1..Rows, panel : Nat]
Kinds == {"start", "over", "born", "playerBorn", "shieldEnd", "revive", "win", "propGone",
          "status", "row", "shown"}
Owner(kind) ==
    CASE kind \in {"start", "over", "born", "playerBorn", "shieldEnd"} -> "Ani"
      [] kind = "revive" -> "Player"
      [] kind = "win" -> "Enemy"
      [] kind = "propGone" -> "Prop"
      [] kind = "status" -> "PropManager"
      [] kind \in {"row", "shown"} -> "Result"
Contexts == {"Ani", "Player", "Enemy", "Prop", "PropManager", "Result"}
Tasks == [ctx : Contexts, kind : Kinds, arg : Args, time : Nat, left : Nat, loop : BOOLEAN]
Slow == {"win", "shown", "shieldEnd", "propGone"}
OneOf(t) ==
    /\ t.kind \in Kinds /\ t.ctx = Owner(t.kind)
    /\ t.kind \notin Slow => t.time = 1
    /\ IF t.kind = "status" THEN t.loop = TRUE ELSE t.loop = FALSE
    /\ t.kind \in {"playerBorn", "revive", "shieldEnd"} => t.arg \in Players
    /\ t.kind \in {"row", "shown"} => t.arg \in [row : 1..Rows, panel : Nat]
TaskOK(t) ==
    /\ OneOf(t)
    /\ t.left > 0
    /\ t.kind \notin Slow => t.left = 1

\* The tasks s that are due in a step.
DueOK(s) == s \in Seq(Tasks) /\ \A j \in DOMAIN s : OneOf(s[j])

\* The tasks of u after the n-th that are of the class c: of a kind, and not
\* with certain arguments.
On(k) == [kind |-> k, but |-> {}]
By(k, p) == [kind |-> k, but |-> Players \ {p}]
Stray(r, n) == [kind |-> "row", but |-> {[row |-> r, panel |-> n]}]
Like(t, c) == t.kind = c.kind /\ t.arg \notin c.but
In(u, n, c) == {j \in DOMAIN u : j > n /\ Like(u[j], c)}

\* There are at most q of them, q no more than two.
AtMost(S, q) ==
    /\ q = 0 => S = {}
    /\ q = 1 => \A x, y \in S : x = y
    /\ q = 2 => \A x, y, z \in S : x = y \/ y = z \/ x = z
Most(u, n, c, q) == AtMost(In(u, n, c), q)

\* Tasks still to run in a step: those scheduled, and of the sequence s of
\* those that are due all after the i-th.
None(h, s, i, c) == Most(h.tasks, 0, c, 0) /\ Most(s, i, c, 0)
Lone(h, s, i, c) ==
    /\ Most(h.tasks, 0, c, 1) /\ Most(s, i, c, 1)
    /\ Most(h.tasks, 0, c, 0) \/ Most(s, i, c, 0)

Fields == {"page", "stage", "running", "gameOver", "enable", "pause", "complete", "endSent",
           "live", "lifeNum", "level", "totalScore", "kills", "propNum", "tank", "shield",
           "data", "pool", "enemies", "borning", "home", "prop", "created", "buff",
           "staticTime", "protectTime", "panel", "finishNum", "air", "tasks", "pressed"}

\* The game of a client keeps to its types.
Typed(h) ==
    /\ DOMAIN h = Fields
    /\ h.page \in {"game", "success"} /\ h.stage \in Nat \ {0} /\ h.pause = FALSE
    /\ {h.running, h.gameOver, h.data} \subseteq BOOLEAN
    /\ h.pool \in Seq(Nodes)
    /\ h.panel \in Nat /\ h.finishNum \in [1..Rows -> Nat]
    /\ h.air \in [{"player", "enemy"} -> 0..Flight]

\* Its stage keeps to its budget of enemies.
Budget(h) ==
    /\ h.enemies \subseteq Nodes /\ h.kills \in Nat
    /\ h.kills + Cardinality(h.enemies) <= EnemyTotal

\* Its tasks are what was scheduled; the timer of a prop needs a prop.
Scheduled(h) ==
    /\ h.tasks \in Seq(Tasks) /\ \A i \in DOMAIN h.tasks : TaskOK(h.tasks[i])
    /\ Most(h.tasks, 0, On("propGone"), 0) \/ h.prop # "none"

\* A player who lives has a tank; one who is dead and has a life comes back,
\* once; a tank is born once.
PlayerOK(h, s, i, p) ==
    /\ h.live[p] = (h.tank[p] # "none")
    /\ None(h, s, i, By("playerBorn", p)) \/ h.tank[p] = "borning"
    /\ None(h, s, i, By("revive", p)) \/ (h.live[p] = FALSE /\ h.lifeNum[p] > 0)
    /\ (h.live[p] = FALSE /\ h.lifeNum[p] > 0) => ~None(h, s, i, By("revive", p))
    /\ Lone(h, s, i, By("playerBorn", p)) /\ Lone(h, s, i, By("revive", p))
PlayersOK(h, s, i) ==
    /\ h.live \in [Players -> BOOLEAN] /\ h.lifeNum \in [Players -> Nat]
    /\ h.tank \in [Players -> {"none", "borning", "up"}]
    /\ \A p \in Players : PlayerOK(h, s, i, p)
    /\ h.gameOver = FALSE => \E p \in Players : h.live[p] = TRUE \/ h.lifeNum[p] > 0

\* The stage is prepared, runs, is won, or its result is shown row by row.  d is
\* 1 while the tasks of a step run, before the bullets fly on.
Prepared(h, s, i) ==
    /\ h.running = FALSE /\ h.data = FALSE /\ h.enemies = {} /\ h.kills = 0
    /\ h.prop = "none" /\ h.air["player"] = 0 /\ h.air["enemy"] = 0
    /\ \A k \in {"win", "row", "shown"} : None(h, s, i, On(k))
    /\ Lone(h, s, i, On("start"))
Running(h, s, i) ==
    /\ h.running = TRUE /\ h.kills < EnemyTotal
    /\ \A k \in {"start", "win", "row", "shown"} : None(h, s, i, On(k))
Won(h, s, i) ==
    /\ h.running = TRUE /\ h.kills = EnemyTotal
    /\ \A k \in {"start", "row", "shown"} : None(h, s, i, On(k))
    /\ Lone(h, s, i, On("win"))
Ended(h, s, i) ==
    /\ h.running = FALSE /\ h.kills = EnemyTotal
    /\ \A k \in {"start", "win"} : None(h, s, i, On(k))
    /\ Most(h.tasks, 0, On("born"), 0)
Seats == Len(PlayerSeq)
RowsLeft(h, r) == Seats - h.finishNum[r]
\* The r-th row begins to be shown, or some of its animations are over.
NewRow(h, s, i, d, r) ==
    /\ Ended(h, s, i) /\ None(h, s, i, On("shown")) /\ None(h, s, i, Stray(r, h.panel))
    /\ \A q \in r..Rows : h.finishNum[q] = 0
    /\ Most(h.tasks, 0, On("row"), Seats) /\ Most(s, i, On("row"), 0)
    /\ h.air["enemy"] <= (2 - r) + d
    /\ r > 1 => Most(h.tasks, 0, On("revive"), 0)
OldRow(h, s, i, r) ==
    /\ Ended(h, s, i) /\ None(h, s, i, On("shown")) /\ None(h, s, i, Stray(r, h.panel))
    /\ \A q \in (r + 1)..Rows : h.finishNum[q] = 0
    /\ h.finishNum[r] <= Seats
    /\ Most(h.tasks, 0, On("row"), 0) /\ Most(s, i, On("row"), RowsLeft(h, r))
    /\ h.air["enemy"] <= 2 - r
    /\ Most(h.tasks, 0, On("revive"), 0)
    /\ r > 1 => Most(s, i, On("revive"), 0) /\ Most(h.tasks, 0, On("playerBorn"), 0)
Shown(h, s, i) ==
    /\ Ended(h, s, i)
    /\ \A k \in {"row", "revive"} : None(h, s, i, On(k))
    /\ Lone(h, s, i, On("shown"))
    /\ h.air["enemy"] = 0
    /\ Most(h.tasks, 0, On("playerBorn"), 0)
    /\ Most(s, i, On("shown"), 0) \/ Most(s, i, On("playerBorn"), 0)
\* Or nothing goes on: too few animations of a row were left to begin the next,
\* which the bounds above allow.  That it does not happen is StageEnds.
Stuck(h, s, i) ==
    /\ h.running = FALSE /\ h.kills = EnemyTotal
    /\ \A k \in {"start", "win", "row", "shown"} : None(h, s, i, On(k))

Course(h, s, i, d) ==
    \/ Prepared(h, s, i) \/ Running(h, s, i) \/ Won(h, s, i)
    \/ \E r \in 1..Rows : NewRow(h, s, i, d, r) \/ (d = 1 /\ OldRow(h, s, i, r))
    \/ Shown(h, s, i) \/ Stuck(h, s, i)

\* Once the game is over, no stage begins any more; before, nothing ends it.
Final(h, s, i) ==
    /\ None(h, s, i, On("start"))
    /\ (h.page = "game" /\ h.gameOver = TRUE) \/ (h.page = "success" /\ h.stage >= LastStage)
Phase(h, s, i, d) ==
    \/ Final(h, s, i)
    \/ /\ h.page = "game" /\ h.gameOver = FALSE
       /\ None(h, s, i, On("over")) /\ Course(h, s, i, d)

Going(h, s, i, d) ==
    /\ Typed(h) /\ Budget(h) /\ Scheduled(h)
    /\ h.page = "game" => PlayersOK(h, s, i)
    /\ Phase(h, s, i, d)

\* Nothing is left of a game in the menu.
Menu(h) ==
    /\ DOMAIN h = Fields /\ h.page = "menu" /\ h.stage = 1 /\ h.pause = FALSE
    /\ h.running = FALSE /\ h.data = FALSE /\ h.enemies = {} /\ h.kills = 0
    /\ h.tasks = <<>>

GameOK(h, s, i, d) == Menu(h) \/ Going(h, s, i, d)

\* A pause changes nothing else.
Calm(h) == [h EXCEPT !.pause = FALSE]
IInv == g.pause \in BOOLEAN /\ GameOK(Calm(g), <<>>, 0, 0)
-----------------------------------------------------------------------------
(* Loops over tasks, enemies and players *)

\* Induction over the numbers up to n.
LEMMA UpTo ==
  ASSUME NEW n \in Nat, NEW T, 0 \in T, \A i \in 0..n : i < n /\ i \in T => i + 1 \in T
  PROVE  \A i \in 0..n : i \in T
<1> SUFFICES ASSUME NEW j \in 0..n, j \notin T PROVE FALSE
  OBVIOUS
<1> DEFINE B == {i \in 0..n : i \notin T}
<1>1. B \subseteq Nat /\ B # {}
  OBVIOUS
<1> HIDE DEF B
<1>2. PICK x \in B : \A y \in B : ~ (<<y, x>> \in OpToRel(<, Nat))
  BY <1>1, NatLessThanWellFounded, WFMin
<1>3. x \in 0..n /\ x \notin T
  BY DEF B
<1>4. x # 0 /\ x - 1 \in 0..n /\ x - 1 < n /\ (x - 1) + 1 = x
  BY <1>3
<1>5. x - 1 \notin B
  <2>1. x - 1 \in Nat /\ x \in Nat /\ x - 1 < x
    BY <1>3, <1>4
  <2>2. <<x - 1, x>> \in OpToRel(<, Nat)
    BY <2>1 DEF OpToRel
  <2> QED BY <1>2, <2>2
<1> QED BY <1>3, <1>4, <1>5 DEF B

\* One more is placed, if it lives.
Place(a, p) == IF a.live[p] THEN createPlayer(a, p) ELSE a

\* What the i-th pass of each loop makes of a; c is what the loop is given.
Taken(c, a, i) == IF i \in c[2] THEN Append(a, c[1][i]) ELSE a
BombOp(c, a, i) == evEnemyDead(a, c.list[i], c.place)
HitOp(c, a, i) ==
    IF c.list[i] \in UpEnemies(a) THEN evEnemyDead(a, c.list[i], c.place) ELSE a
StruckOp(c, a, i) == PlayerHit(a, c.list[i])
PlaceOp(c, a, j) == Place(a, PlayerSeq[j])
AddOp(c, a, i) == addOneEnemy(a, c.place)
RunOp(c, a, i) == Run(a, c.s[i])
Pass(c, a, i) ==
    IF c[1] = "taken" THEN Taken(c[2], a, i)
    ELSE IF c[1] = "bomb" THEN BombOp(c[2], a, i)
    ELSE IF c[1] = "hit" THEN HitOp(c[2], a, i)
    ELSE IF c[1] = "struck" THEN StruckOp(c[2], a, i)
    ELSE IF c[1] = "place" THEN PlaceOp(c[2], a, i)
    ELSE IF c[1] = "add" THEN AddOp(c[2], a, i)
    ELSE RunOp(c[2], a, i)

\* f records the passes from h on.
Is(c, h, f, n) == f = [i \in 0..n |-> IF i = 0 THEN h ELSE Pass(c, f[i - 1], i)]

\* A loop has a record of its passes, however long it is.
LEMMA Exists ==
  ASSUME NEW c, NEW h, NEW n \in Nat
  PROVE  \E f : Is(c, h, f, n)
<1> DEFINE T == {m \in 0..n : \E f : Is(c, h, f, m)}
<1>1. 0 \in T
  <2> DEFINE f == [i \in 0..0 |-> h]
  <2>1. Is(c, h, f, 0)
    BY DEF Is
  <2> HIDE DEF f
  <2> QED BY <2>1
<1>2. ASSUME NEW m \in 0..n, m < n, m \in T PROVE m + 1 \in T
  <2>1. PICK f : Is(c, h, f, m)
    BY <1>2
  <2> DEFINE next == [i \in 0..(m + 1) |-> IF i <= m THEN f[i] ELSE Pass(c, f[m], m + 1)]
  <2>2. Is(c, h, next, m + 1)
    <3> DEFINE k == [i \in 0..(m + 1) |-> IF i = 0 THEN h ELSE Pass(c, next[i - 1], i)]
    <3>1. ASSUME NEW i \in 0..(m + 1) PROVE next[i] = k[i]
      <4>1. CASE i = 0
        BY <2>1, <4>1 DEF Is
      <4>2. CASE i \in 1..m
        BY <2>1, <4>2 DEF Is
      <4>3. CASE i = m + 1
        BY <2>1, <4>3
      <4> QED BY <4>1, <4>2, <4>3
    <3>2. next = k
      BY <3>1
    <3> QED BY <3>2 DEF Is
  <2> HIDE DEF next
  <2> QED BY <1>2, <2>2
<1> HIDE DEF T
<1>3. \A i \in 0..n : i < n /\ i \in T => i + 1 \in T
  BY <1>2
<1>4. \A i \in 0..n : i \in T
  BY <1>1, <1>3, UpTo
<1>5. n \in T
  BY <1>4
<1> QED BY <1>5 DEF T

-----------------------------------------------------------------------------
(* Sequences *)

\* The players in their order.
LEMMA PlayersAre ==
  /\ \/ Players = {0, 1} /\ PlayerSeq = <<0, 1>> /\ Len(PlayerSeq) = 2
     \/ Players = {0} /\ PlayerSeq = <<0>> /\ Len(PlayerSeq) = 1
  /\ DOMAIN PlayerSeq = 1..Len(PlayerSeq) /\ Len(PlayerSeq) \in 1..2
  /\ \A i \in 1..Len(PlayerSeq) : PlayerSeq[i] \in Players
  /\ \A p \in Players : \E i \in 1..Len(PlayerSeq) : PlayerSeq[i] = p
<1>1. CASE mode = "single"
  <2>1. Players = {0} /\ PlayerSeq = <<0>>
    BY <1>1 DEF Players, PlayerSeq
  <2>2. Len(<<0>>) = 1 /\ DOMAIN <<0>> = 1..1 /\ <<0>>[1] = 0
    OBVIOUS
  <2> QED BY <2>1, <2>2
<1>2. CASE mode # "single"
  <2>1. Players = {0, 1} /\ PlayerSeq = <<0, 1>>
    BY <1>2 DEF Players, PlayerSeq
  <2>2. Len(<<0, 1>>) = 2 /\ DOMAIN <<0, 1>> = 1..2 /\ <<0, 1>>[1] = 0 /\ <<0, 1>>[2] = 1
    OBVIOUS
  <2> QED BY <2>1, <2>2
<1> QED BY <1>1, <1>2

\* One or two.
LEMMA SeatsAre == Seats \in 1..2 /\ Seats \in 0..2 /\ Seats \in Nat
<1>1. Len(PlayerSeq) = 1 \/ Len(PlayerSeq) = 2
  BY PlayersAre
<1>2. Seats = 1 \/ Seats = 2
  BY <1>1 DEF Seats
<1> QED BY <1>2

\* t are the members of u at the places in D, m says where each was.
Picks(t, u, D, n, m) ==
    /\ t \in Seq(Tasks) /\ m \in [1..Len(t) -> D \cap 1..n]
    /\ \A x, y \in 1..Len(t) : m[x] = m[y] => x = y
    /\ \A x \in 1..Len(t) : t[x] = u[m[x]]
    /\ \A y \in D \cap 1..n : \E x \in 1..Len(t) : m[x] = y

Picked(c, i, a) == \E m : Picks(a, c[1], c[2], i, m)

\* A record f of the loop that keeps tasks; there is one, and at its end holds what
\* every pass preserves.
KeptPasses(c, h, f, n) == f = [i \in 0..n |-> IF i = 0 THEN h ELSE Taken(c, f[i - 1], i)]
LEMMA KeptRecord ==
  ASSUME NEW c, NEW h, NEW n \in Nat
  PROVE  \E f : KeptPasses(c, h, f, n)
<1> DEFINE e == <<"taken", c>>
<1>1. PICK f : Is(e, h, f, n)
  BY Exists
<1>2. \A a, i : Pass(e, a, i) = Taken(c, a, i)
  BY DEF Pass
<1> HIDE DEF e
<1>3. \A i \in 0..n : (IF i = 0 THEN h ELSE Pass(e, f[i - 1], i))
                      = (IF i = 0 THEN h ELSE Taken(c, f[i - 1], i))
  BY <1>2
<1>4. KeptPasses(c, h, f, n)
  BY <1>1, <1>3 DEF Is, KeptPasses
<1> QED BY <1>4

\* What every pass of it preserves.
LEMMA KeptFold ==
  ASSUME NEW c, NEW h, NEW n \in Nat, NEW f, KeptPasses(c, h, f, n), Picked(c, 0, h),
         \A i \in 0..n : \A a : i < n /\ Picked(c, i, a) => Picked(c, i + 1, Taken(c, a, i + 1))
  PROVE  Picked(c, n, f[n])
<1> DEFINE T == {i \in 0..n : Picked(c, i, f[i])}
<1>1. 0 \in T
  BY DEF KeptPasses
<1>2. \A i \in 0..n : i < n /\ i \in T => i + 1 \in T
  <2> SUFFICES ASSUME NEW i \in 0..n, i < n, i \in T PROVE i + 1 \in T
    OBVIOUS
  <2>1. f[i + 1] = Taken(c, f[i], i + 1)
    BY DEF KeptPasses
  <2> QED BY <2>1
<1> HIDE DEF T
<1>3. \A i \in 0..n : i \in T
  BY <1>1, <1>2, UpTo
<1>4. n \in T
  BY <1>3
<1> QED BY <1>4 DEF T

\* One more member is looked at.
LEMMA PickOne ==
  ASSUME NEW u \in Seq(Tasks), NEW D, NEW i \in Nat, i < Len(u), NEW a,
         Picked(<<u, D>>, i, a)
  PROVE  Picked(<<u, D>>, i + 1, Taken(<<u, D>>, a, i + 1))
<1>1. PICK m : Picks(a, u, D, i, m)
  BY DEF Picked
<1>2. i + 1 \in 1..Len(u) /\ u[i + 1] \in Tasks
  OBVIOUS
<1>3. CASE i + 1 \notin D
  <2>1. Taken(<<u, D>>, a, i + 1) = a
    BY <1>3 DEF Taken
  <2>2. D \cap 1..(i + 1) = D \cap 1..i
    BY <1>3
  <2>3. Picks(a, u, D, i + 1, m)
    BY <1>1, <2>2 DEF Picks
  <2> QED BY <2>1, <2>3 DEF Picked
<1>4. CASE i + 1 \in D
  <2> DEFINE b == Append(a, u[i + 1])
             l == Len(a)
             w == [x \in 1..(l + 1) |-> IF x <= l THEN m[x] ELSE i + 1]
  <2>1. Taken(<<u, D>>, a, i + 1) = b
    BY <1>4 DEF Taken
  <2>2. /\ a \in Seq(Tasks) /\ l \in Nat /\ b \in Seq(Tasks) /\ Len(b) = l + 1
        /\ \A x \in 1..l : b[x] = a[x]
        /\ b[l + 1] = u[i + 1]
    BY <1>1, <1>2, AppendProperties, LenProperties DEF Picks
  <2>3. /\ m \in [1..l -> D \cap 1..i] /\ \A x, y \in 1..l : m[x] = m[y] => x = y
        /\ \A x \in 1..l : a[x] = u[m[x]]
        /\ \A y \in D \cap 1..i : \E x \in 1..l : m[x] = y
    BY <1>1 DEF Picks
  <2> HIDE DEF b, l
  <2>4. w \in [1..(l + 1) -> D \cap 1..(i + 1)]
    BY <1>4, <2>2, <2>3
  <2>5. \A x, y \in 1..(l + 1) : w[x] = w[y] => x = y
    <3> SUFFICES ASSUME NEW x \in 1..(l + 1), NEW y \in 1..(l + 1), w[x] = w[y] PROVE x = y
      OBVIOUS
    <3>1. \A z \in 1..l : w[z] = m[z] /\ w[z] \in 1..i
      BY <2>2, <2>3
    <3>2. w[l + 1] = i + 1
      BY <2>2
    <3> HIDE DEF w
    <3>3. CASE x \in 1..l /\ y \in 1..l
      BY <2>3, <3>1, <3>3
    <3>4. CASE x \in 1..l /\ y = l + 1
      BY <3>1, <3>2, <3>4
    <3>5. CASE x = l + 1 /\ y \in 1..l
      BY <3>1, <3>2, <3>5
    <3> QED BY <2>2, <3>3, <3>4, <3>5
  <2>6. \A x \in 1..(l + 1) : b[x] = u[w[x]]
    BY <2>2, <2>3
  <2>7. \A y \in D \cap 1..(i + 1) : \E x \in 1..(l + 1) : w[x] = y
    <3> SUFFICES ASSUME NEW y \in D \cap 1..(i + 1) PROVE \E x \in 1..(l + 1) : w[x] = y
      OBVIOUS
    <3>1. CASE y = i + 1
      BY <2>2, <3>1
    <3>2. CASE y \in D \cap 1..i
      <4>1. PICK x \in 1..l : m[x] = y
        BY <2>3, <3>2
      <4> QED BY <2>2, <4>1
    <3> QED BY <3>1, <3>2
  <2> HIDE DEF w
  <2>8. Picks(b, u, D, i + 1, w)
    BY <2>2, <2>4, <2>5, <2>6, <2>7 DEF Picks
  <2> QED BY <2>1, <2>8 DEF Picked
<1> QED BY <1>3, <1>4

\* Kept keeps what it is told to, and nothing twice.
LEMMA KeptPicks ==
  ASSUME NEW u \in Seq(Tasks), NEW D, D \subseteq DOMAIN u
  PROVE  \E m : Picks(Kept(u, D), u, D, Len(u), m)
<1> DEFINE c == <<u, D>>
           to == CHOOSE to : to = [i \in 0..Len(u) |-> IF i = 0 THEN <<>> ELSE
                                      IF i \in D THEN Append(to[i - 1], u[i]) ELSE to[i - 1]]
<1>1. Kept(u, D) = to[Len(u)]
  BY DEF Kept
<1>2. Len(u) \in Nat
  OBVIOUS
<1>3. KeptPasses(c, <<>>, to, Len(u))
  <2>1. \E f : KeptPasses(c, <<>>, f, Len(u))
    BY <1>2, KeptRecord
  <2> QED BY <2>1 DEF KeptPasses, Taken
<1> HIDE DEF to
<1>4. Picked(c, 0, <<>>)
  <2> DEFINE m == [x \in {} |-> 0]
  <2>1. 1..0 = {} /\ Len(<<>>) = 0 /\ <<>> \in Seq(Tasks)
    OBVIOUS
  <2>2. Picks(<<>>, u, D, 0, m)
    BY <2>1 DEF Picks
  <2> HIDE DEF m
  <2> QED BY <2>2 DEF Picked
<1>5. \A i \in 0..Len(u) : \A a : i < Len(u) /\ Picked(c, i, a) => Picked(c, i + 1, Taken(c, a, i + 1))
  BY PickOne
<1> HIDE DEF c
<1>6. Picked(c, Len(u), to[Len(u)])
  BY <1>2, <1>3, <1>4, <1>5, KeptFold
<1> QED BY <1>1, <1>6 DEF Picked, c
-----------------------------------------------------------------------------
(* Counting the tasks of a class *)

\* What maps into few, one to one, is few.
LEMMA AtMostMap ==
  ASSUME NEW S, NEW T, NEW m, \A x \in S : m[x] \in T,
         \A x, y \in S : m[x] = m[y] => x = y,
         NEW q \in 0..2, AtMost(T, q)
  PROVE  AtMost(S, q)
BY DEF AtMost

\* No more than few is no more than many.
LEMMA MostUp ==
  ASSUME NEW u, NEW n, NEW c, NEW q \in 0..2, NEW r \in q..2, Most(u, n, c, q)
  PROVE  Most(u, n, c, r)
BY DEF Most, AtMost

\* A scheduled task adds to the classes it is of.
LEMMA Appending ==
  ASSUME NEW u \in Seq(Tasks), NEW t \in Tasks, NEW c
  PROVE  /\ ~Like(t, c) => \A q \in 0..2 : Most(Append(u, t), 0, c, q) <=> Most(u, 0, c, q)
         /\ Like(t, c) => /\ \A q \in 0..1 : Most(u, 0, c, q) => Most(Append(u, t), 0, c, q + 1)
                          /\ ~Most(Append(u, t), 0, c, 0)
<1> DEFINE v == Append(u, t)
           l == Len(u)
<1>1. /\ l \in Nat /\ DOMAIN u = 1..l /\ DOMAIN v = 1..(l + 1)
      /\ \A x \in 1..l : v[x] = u[x]
      /\ v[l + 1] = t
  BY AppendProperties, LenProperties
<1> HIDE DEF v, l
<1>2. ~Like(t, c) => In(v, 0, c) = In(u, 0, c)
  BY <1>1 DEF In
<1>3. Like(t, c) => In(v, 0, c) = In(u, 0, c) \cup {l + 1}
  BY <1>1 DEF In
<1>4. ~Like(t, c) => \A q \in 0..2 : Most(v, 0, c, q) <=> Most(u, 0, c, q)
  BY <1>2 DEF Most
<1>5. Like(t, c) => \A q \in 0..1 : Most(u, 0, c, q) => Most(v, 0, c, q + 1)
  <2> HAVE Like(t, c)
  <2> DEFINE S == In(u, 0, c)
  <2>1. \A q \in 0..1 : AtMost(S, q) => AtMost(S \cup {l + 1}, q + 1)
    <3> HIDE DEF S
    <3> QED BY DEF AtMost
  <2> QED BY <1>3, <2>1 DEF Most
<1>6. Like(t, c) => ~Most(v, 0, c, 0)
  BY <1>3 DEF Most, AtMost
<1> QED BY <1>4, <1>5, <1>6 DEF v

\* The next task that is due leaves the classes it is of.
LEMMA Consuming ==
  ASSUME NEW s \in Seq(Tasks), NEW i \in Nat, i < Len(s), NEW c
  PROVE  /\ \A q \in 0..2 : Most(s, i, c, q) => Most(s, i + 1, c, q)
         /\ ~Like(s[i + 1], c) => \A q \in 0..2 : Most(s, i + 1, c, q) => Most(s, i, c, q)
         /\ Like(s[i + 1], c) => /\ \A q \in 1..2 : Most(s, i, c, q) => Most(s, i + 1, c, q - 1)
                                 /\ ~Most(s, i, c, 0)
<1>1. Len(s) \in Nat /\ DOMAIN s = 1..Len(s)
  BY LenProperties
<1>2. i + 1 \notin In(s, i + 1, c) /\ In(s, i + 1, c) \subseteq In(s, i, c)
  BY <1>1 DEF In
<1>3. ~Like(s[i + 1], c) => In(s, i + 1, c) = In(s, i, c)
  BY <1>1 DEF In
<1>4. Like(s[i + 1], c) => In(s, i, c) = In(s, i + 1, c) \cup {i + 1}
  BY <1>1 DEF In
<1>5. \A q \in 0..2 : Most(s, i, c, q) => Most(s, i + 1, c, q)
  BY <1>2 DEF Most, AtMost
<1>6. ~Like(s[i + 1], c) => \A q \in 0..2 : Most(s, i + 1, c, q) => Most(s, i, c, q)
  BY <1>3 DEF Most
<1>7. Like(s[i + 1], c) => \A q \in 1..2 : Most(s, i, c, q) => Most(s, i + 1, c, q - 1)
  <2> HAVE Like(s[i + 1], c)
  <2> DEFINE S == In(s, i + 1, c)
             a == i + 1
  <2>1. In(s, i, c) = S \cup {a} /\ a \notin S
    BY <1>2, <1>4
  <2>2. \A q \in 1..2 : AtMost(S \cup {a}, q) => AtMost(S, q - 1)
    <3> HIDE DEF S, a
    <3> QED BY <2>1 DEF AtMost
  <2> HIDE DEF a
  <2> QED BY <2>1, <2>2 DEF Most, a
<1>8. Like(s[i + 1], c) => ~Most(s, i, c, 0)
  BY <1>4 DEF Most, AtMost
<1> QED BY <1>5, <1>6, <1>7, <1>8

\* Nothing is left after the last of them.
LEMMA NoneLeft ==
  ASSUME NEW s \in Seq(Tasks), NEW c, NEW q \in 0..2
  PROVE  Most(s, Len(s), c, q) /\ Most(<<>>, 0, c, q)
<1>1. In(s, Len(s), c) = {}
  <2>1. DOMAIN s = 1..Len(s) /\ Len(s) \in Nat
    BY LenProperties
  <2> QED BY <2>1 DEF In
<1>2. In(<<>>, 0, c) = {}
  <2>1. DOMAIN <<>> = {}
    OBVIOUS
  <2> QED BY <2>1 DEF In
<1> QED BY <1>1, <1>2 DEF Most, AtMost

\* v are the members of u at the places in D.
Part(v, u, D) ==
    /\ v \in Seq(Tasks)
    /\ \E m \in [DOMAIN v -> D] :
         /\ \A x, y \in DOMAIN v : m[x] = m[y] => x = y
         /\ \A x \in DOMAIN v : v[x] = u[m[x]]
         /\ \A y \in D : \E x \in DOMAIN v : m[x] = y

\* That is what Kept returns.
LEMMA KeptPart ==
  ASSUME NEW u \in Seq(Tasks), NEW D, D \subseteq DOMAIN u
  PROVE  Part(Kept(u, D), u, D)
<1> DEFINE v == Kept(u, D)
<1>1. PICK m : Picks(v, u, D, Len(u), m)
  BY KeptPicks
<1> HIDE DEF v
<1>2. D \cap 1..Len(u) = D /\ Len(u) \in Nat
  BY LenProperties
<1>3. v \in Seq(Tasks) /\ DOMAIN v = 1..Len(v)
  BY <1>1, LenProperties DEF Picks
<1>4. Part(v, u, D)
  <2>1. m \in [DOMAIN v -> D]
    BY <1>1, <1>2, <1>3 DEF Picks
  <2>2. /\ \A x, y \in DOMAIN v : m[x] = m[y] => x = y
        /\ \A x \in DOMAIN v : v[x] = u[m[x]]
        /\ \A y \in D : \E x \in DOMAIN v : m[x] = y
    BY <1>1, <1>2, <1>3 DEF Picks
  <2> QED BY <1>3, <2>1, <2>2 DEF Part
<1> QED BY <1>4 DEF v

\* No class gains by it, and one that is kept loses nothing.
LEMMA PartMost ==
  ASSUME NEW v, NEW u, NEW D, D \subseteq DOMAIN u, DOMAIN u \subseteq Nat \ {0}, Part(v, u, D), NEW c
  PROVE  /\ \A q \in 0..2 : Most(u, 0, c, q) => Most(v, 0, c, q)
         /\ (\A y \in DOMAIN u : Like(u[y], c) => y \in D) => (Most(v, 0, c, 0) => Most(u, 0, c, 0))
<1>1. PICK m \in [DOMAIN v -> D] :
         /\ \A x, y \in DOMAIN v : m[x] = m[y] => x = y
         /\ \A x \in DOMAIN v : v[x] = u[m[x]]
         /\ \A y \in D : \E x \in DOMAIN v : m[x] = y
  BY DEF Part
<1>2. DOMAIN v \subseteq Nat \ {0}
  <2>1. v \in Seq(Tasks)
    BY DEF Part
  <2> QED BY <2>1, LenProperties
<1>3. /\ \A x \in In(v, 0, c) : m[x] \in In(u, 0, c)
      /\ \A x, y \in In(v, 0, c) : m[x] = m[y] => x = y
  BY <1>1 DEF In
<1>4. \A q \in 0..2 : Most(u, 0, c, q) => Most(v, 0, c, q)
  BY <1>3, AtMostMap DEF Most
<1>5. ASSUME \A y \in DOMAIN u : Like(u[y], c) => y \in D, Most(v, 0, c, 0)
      PROVE  Most(u, 0, c, 0)
  <2>1. In(v, 0, c) = {}
    BY <1>5 DEF Most, AtMost
  <2>2. ASSUME NEW y \in In(u, 0, c) PROVE FALSE
    <3>1. y \in D /\ Like(u[y], c)
      BY <1>5 DEF In
    <3>2. PICK x \in DOMAIN v : m[x] = y
      BY <1>1, <3>1
    <3>3. Like(v[x], c) /\ x > 0
      BY <1>1, <1>2, <3>1, <3>2
    <3> QED BY <2>1, <3>2, <3>3 DEF In
  <2> QED BY <2>2 DEF Most, AtMost
<1> QED BY <1>4, <1>5

\* The members of a part are members of the whole.
LEMMA PartIn ==
  ASSUME NEW v, NEW u, NEW D, Part(v, u, D)
  PROVE  v \in Seq(Tasks) /\ \A x \in DOMAIN v : \E y \in D : v[x] = u[y]
BY DEF Part
-----------------------------------------------------------------------------
(* What leaves the invariant alone *)

Agree(h, k, F) == DOMAIN h = Fields /\ DOMAIN k = Fields /\ \A f \in F : k[f] = h[f]
Core == {"page", "stage", "running", "gameOver", "pause", "live", "lifeNum", "kills", "tank",
         "data", "pool", "enemies", "panel", "finishNum", "air"}
\* Nothing brings a prop or an enemy to a stage that is still prepared, nor lets
\* one be born after the last was destroyed.
EnemyFree(h, k) == k.enemies = h.enemies \/ h.running = TRUE
BornFree(h, k) ==
    h.kills # EnemyTotal \/ (Most(h.tasks, 0, On("born"), 0) => Most(k.tasks, 0, On("born"), 0))
PropFree(h, k) == k.prop = h.prop \/ k.prop = "none" \/ h.air["player"] # 0

\* The classes the course of a game depends on have lost members, but no revival.
Chain == {"start", "win", "row", "shown", "revive", "playerBorn", "over"}
Classes == {On(k) : k \in Chain \cup {"born"}}
           \cup {By(k, p) : k \in {"playerBorn", "revive"}, p \in Players}
           \cup {Stray(r, n) : r \in 1..Rows, n \in Nat}
Thins(u, n, v, m) == \A c \in Classes, q \in 0..2 : Most(u, n, c, q) => Most(v, m, c, q)
Less(h, s, i, k, s2, i2) == Thins(h.tasks, 0, k.tasks, 0) /\ Thins(s, i, s2, i2)
\* The births of enemies may have gained some.
Rest == Classes \ {On("born")}
ThinsBut(u, n, v, m) == \A c \in Rest, q \in 0..2 : Most(u, n, c, q) => Most(v, m, c, q)
LessBut(h, s, i, k, s2, i2) == ThinsBut(h.tasks, 0, k.tasks, 0) /\ ThinsBut(s, i, s2, i2)
Revives(u, n, v, m) ==
    \A p \in Players : Most(v, m, By("revive", p), 0) => Most(u, n, By("revive", p), 0)

\* They are classes.
LEMMA AreClasses ==
  /\ On("born") \in Classes /\ \A k \in Chain : On(k) \in Classes
  /\ \A k \in {"playerBorn", "revive"}, p \in Players : By(k, p) \in Classes
  /\ \A r \in 1..Rows, n \in Nat : Stray(r, n) \in Classes
  /\ \A k \in Chain : On(k) \in Rest
  /\ \A k \in {"playerBorn", "revive"}, p \in Players : By(k, p) \in Rest
  /\ \A r \in 1..Rows, n \in Nat : Stray(r, n) \in Rest
<1>1. \A k : On(k).kind = k
  BY DEF On
<1>2. \A k, p : By(k, p).kind = k
  BY DEF By
<1>3. \A r, n : Stray(r, n).kind = "row"
  BY DEF Stray
<1> QED BY <1>1, <1>2, <1>3 DEF Classes, Rest, Chain

\* Fewer tasks are no more.
LEMMA LessTasks ==
  ASSUME NEW h, NEW s, NEW i, NEW k, NEW s2, NEW i2, LessBut(h, s, i, k, s2, i2), NEW c \in Rest
  PROVE  /\ None(h, s, i, c) => None(k, s2, i2, c)
         /\ Lone(h, s, i, c) => Lone(k, s2, i2, c)
         /\ \A q \in 0..2 : /\ Most(h.tasks, 0, c, q) => Most(k.tasks, 0, c, q)
                            /\ Most(s, i, c, q) => Most(s2, i2, c, q)
BY DEF LessBut, ThinsBut, None, Lone

\* Nothing is less than itself.
LEMMA ThinsSame ==
  /\ \A u, n : Thins(u, n, u, n) /\ Revives(u, n, u, n)
  /\ \A u, n, v, m : Thins(u, n, v, m) => ThinsBut(u, n, v, m)
BY DEF Thins, ThinsBut, Revives, Rest

\* The players' part depends on few classes.
LessFor(u, n, v, m) ==
    \A k \in {"playerBorn", "revive"}, p \in Players, q \in 0..2 :
        Most(u, n, By(k, p), q) => Most(v, m, By(k, p), q)

\* A step that agrees on the players and schedules nothing for them keeps them in
\* order.
LEMMA PlayersFor ==
  ASSUME NEW h, NEW s, NEW i, NEW k, NEW s2, NEW i2,
         LessFor(h.tasks, 0, k.tasks, 0), LessFor(s, i, s2, i2),
         Revives(h.tasks, 0, k.tasks, 0), Revives(s, i, s2, i2),
         Agree(h, k, {"live", "lifeNum", "tank", "gameOver"}), PlayersOK(h, s, i)
  PROVE  PlayersOK(k, s2, i2)
<1>1. k.live = h.live /\ k.lifeNum = h.lifeNum /\ k.tank = h.tank /\ k.gameOver = h.gameOver
  BY DEF Agree
<1>2. ASSUME NEW p \in Players PROVE PlayerOK(k, s2, i2, p)
  <2>1. PlayerOK(h, s, i, p)
    BY DEF PlayersOK
  <2>2. /\ None(h, s, i, By("playerBorn", p)) => None(k, s2, i2, By("playerBorn", p))
        /\ None(h, s, i, By("revive", p)) => None(k, s2, i2, By("revive", p))
        /\ Lone(h, s, i, By("playerBorn", p)) => Lone(k, s2, i2, By("playerBorn", p))
        /\ Lone(h, s, i, By("revive", p)) => Lone(k, s2, i2, By("revive", p))
    BY DEF LessFor, None, Lone
  <2>3. None(k, s2, i2, By("revive", p)) => None(h, s, i, By("revive", p))
    BY DEF Revives, None
  <2> QED BY <1>1, <2>1, <2>2, <2>3 DEF PlayerOK
<1> QED BY <1>1, <1>2 DEF PlayersOK

\* The same where less of all is left.
LEMMA PlayersLess ==
  ASSUME NEW h, NEW s, NEW i, NEW k, NEW s2, NEW i2, LessBut(h, s, i, k, s2, i2),
         Revives(h.tasks, 0, k.tasks, 0), Revives(s, i, s2, i2),
         Agree(h, k, {"live", "lifeNum", "tank", "gameOver"}), PlayersOK(h, s, i)
  PROVE  PlayersOK(k, s2, i2)
<1>1. LessFor(h.tasks, 0, k.tasks, 0) /\ LessFor(s, i, s2, i2)
  BY AreClasses DEF LessBut, ThinsBut, LessFor
<1> QED BY <1>1, PlayersFor

\* The course of the stage.
LEMMA CourseLess ==
  ASSUME NEW h, NEW s, NEW i, NEW d, NEW k, NEW s2, NEW i2, LessBut(h, s, i, k, s2, i2),
         PropFree(h, k),
         EnemyFree(h, k), BornFree(h, k), Agree(h, k, {"running", "data", "kills", "air", "finishNum", "panel"}),
         h.panel \in Nat, h.finishNum \in [1..Rows -> Nat], Course(h, s, i, d)
  PROVE  Course(k, s2, i2, d)
<1>1. /\ k.kills = h.kills /\ k.air = h.air
      /\ k.finishNum = h.finishNum /\ k.panel = h.panel
      /\ k.running = h.running /\ k.data = h.data
  BY DEF Agree
<1>2. \A c \in Chain : /\ None(h, s, i, On(c)) => None(k, s2, i2, On(c))
                       /\ Lone(h, s, i, On(c)) => Lone(k, s2, i2, On(c))
                       /\ \A q \in 0..2 : Most(h.tasks, 0, On(c), q) => Most(k.tasks, 0, On(c), q)
                       /\ \A q \in 0..2 : Most(s, i, On(c), q) => Most(s2, i2, On(c), q)
  BY LessTasks, AreClasses
<1>3. \A r \in 1..Rows : None(h, s, i, Stray(r, h.panel)) => None(k, s2, i2, Stray(r, k.panel))
  BY <1>1, LessTasks, AreClasses
<1>4. Prepared(h, s, i) => Prepared(k, s2, i2)
  BY <1>1, <1>2 DEF Prepared, Chain, PropFree, EnemyFree
<1>5. Running(h, s, i) => Running(k, s2, i2)
  BY <1>1, <1>2 DEF Running, Chain
<1>6. Won(h, s, i) => Won(k, s2, i2)
  BY <1>1, <1>2 DEF Won, Chain
<1>7. Ended(h, s, i) => Ended(k, s2, i2)
  BY <1>1, <1>2 DEF Ended, Chain, BornFree
<1>8. ASSUME NEW r \in 1..Rows, NewRow(h, s, i, d, r) PROVE NewRow(k, s2, i2, d, r)
  <2>1. Seats \in 0..2
    BY SeatsAre
  <2>2. /\ Most(h.tasks, 0, On("row"), Seats) => Most(k.tasks, 0, On("row"), Seats)
        /\ Most(s, i, On("row"), 0) => Most(s2, i2, On("row"), 0)
        /\ Most(h.tasks, 0, On("revive"), 0) => Most(k.tasks, 0, On("revive"), 0)
        /\ None(h, s, i, On("shown")) => None(k, s2, i2, On("shown"))
    BY <1>2, <2>1 DEF Chain
  <2> QED BY <1>1, <1>3, <1>7, <1>8, <2>2 DEF NewRow
<1>9. ASSUME NEW r \in 1..Rows, OldRow(h, s, i, r) PROVE OldRow(k, s2, i2, r)
  <2>1. RowsLeft(h, r) \in 0..2 /\ RowsLeft(k, r) = RowsLeft(h, r)
    <3>1. Seats \in 1..2
      BY SeatsAre
    <3>2. h.finishNum[r] \in Nat /\ h.finishNum[r] <= Seats
      BY <1>9 DEF OldRow
    <3> QED BY <1>1, <3>1, <3>2 DEF RowsLeft
  <2>2. /\ Most(h.tasks, 0, On("row"), 0) => Most(k.tasks, 0, On("row"), 0)
        /\ Most(s, i, On("row"), RowsLeft(h, r)) => Most(s2, i2, On("row"), RowsLeft(k, r))
        /\ Most(h.tasks, 0, On("revive"), 0) => Most(k.tasks, 0, On("revive"), 0)
        /\ Most(s, i, On("revive"), 0) => Most(s2, i2, On("revive"), 0)
        /\ Most(h.tasks, 0, On("playerBorn"), 0) => Most(k.tasks, 0, On("playerBorn"), 0)
        /\ None(h, s, i, On("shown")) => None(k, s2, i2, On("shown"))
    BY <1>2, <2>1 DEF Chain
  <2> QED BY <1>1, <1>3, <1>7, <1>9, <2>2 DEF OldRow
<1>10. Shown(h, s, i) => Shown(k, s2, i2)
  BY <1>1, <1>2, <1>7 DEF Shown, Chain
<1>11. Stuck(h, s, i) => Stuck(k, s2, i2)
  BY <1>1, <1>2 DEF Stuck, Chain
<1> QED BY <1>4, <1>5, <1>6, <1>8, <1>9, <1>10, <1>11 DEF Course

\* A step that changes nothing of the game's course leaves its phase.
LEMMA PhaseWith ==
  ASSUME NEW h, NEW s, NEW i, NEW d, NEW k, NEW s2, NEW i2, LessBut(h, s, i, k, s2, i2),
         Agree(h, k, {"page", "stage", "running", "gameOver", "kills",
                      "data", "panel", "finishNum", "air"}),
         Final(h, s, i) \/ (PropFree(h, k) /\ EnemyFree(h, k) /\ BornFree(h, k)),
         h.panel \in Nat, h.finishNum \in [1..Rows -> Nat], Phase(h, s, i, d)
  PROVE  Phase(k, s2, i2, d) /\ (Final(h, s, i) => Final(k, s2, i2))
<1>1. k.stage = h.stage /\ k.gameOver = h.gameOver /\ k.page = h.page
  BY DEF Agree
<1>2. CASE Final(h, s, i)
  <2>1. None(k, s2, i2, On("start"))
    BY <1>2, LessTasks, AreClasses DEF Final, Chain
  <2>2. (k.page = "game" /\ k.gameOver = TRUE) \/ (k.page = "success" /\ k.stage >= LastStage)
    BY <1>1, <1>2 DEF Final
  <2> QED BY <2>1, <2>2 DEF Phase, Final
<1>3. CASE /\ h.page = "game" /\ h.gameOver = FALSE
           /\ None(h, s, i, On("over")) /\ Course(h, s, i, d)
  <2>1. None(k, s2, i2, On("over"))
    BY <1>3, LessTasks, AreClasses DEF Chain
  <2>2. PropFree(h, k) /\ EnemyFree(h, k) /\ BornFree(h, k) /\ ~Final(h, s, i)
    BY <1>3 DEF Final
  <2>3. Course(k, s2, i2, d)
    BY <1>3, <2>2, CourseLess DEF Agree
  <2> QED BY <1>1, <1>3, <2>1, <2>2, <2>3 DEF Phase
<1> QED BY <1>2, <1>3 DEF Phase

\* If the players are as they were too, it leaves the invariant.
LEMMA GoingWith ==
  ASSUME NEW h, NEW s, NEW i, NEW d, NEW k, NEW s2, NEW i2, LessBut(h, s, i, k, s2, i2),
         Revives(h.tasks, 0, k.tasks, 0), Revives(s, i, s2, i2),
         Agree(h, k, {"page", "stage", "running", "gameOver", "live", "lifeNum", "kills", "tank",
                      "data", "panel", "finishNum", "air"}),
         Final(h, s, i) \/ (PropFree(h, k) /\ EnemyFree(h, k) /\ BornFree(h, k)),
         Going(h, s, i, d), Typed(k), Budget(k), Scheduled(k)
  PROVE  Going(k, s2, i2, d)
<1>1. k.page = h.page
  BY DEF Agree
<1>2. k.page = "game" => PlayersOK(k, s2, i2)
  BY <1>1, PlayersLess DEF Going, Agree
<1>3. Phase(k, s2, i2, d)
  <2>1. Agree(h, k, {"page", "stage", "running", "gameOver", "kills",
                      "data", "panel", "finishNum", "air"})
    BY DEF Agree
  <2> QED BY <2>1, PhaseWith DEF Going, Typed
<1> QED BY <1>2, <1>3 DEF Going

\* The same of a step that touches no enemy either.
LEMMA GoingLess ==
  ASSUME NEW h, NEW s, NEW i, NEW d, NEW k, NEW s2, NEW i2, Less(h, s, i, k, s2, i2),
         Revives(h.tasks, 0, k.tasks, 0), Revives(s, i, s2, i2),
         Agree(h, k, Core), PropFree(h, k), Scheduled(k), Going(h, s, i, d)
  PROVE  Going(k, s2, i2, d)
<1>1. /\ k.enemies = h.enemies /\ k.kills = h.kills /\ k.air = h.air
      /\ k.finishNum = h.finishNum /\ k.panel = h.panel /\ k.pool = h.pool /\ k.stage = h.stage
      /\ k.running = h.running /\ k.data = h.data /\ k.gameOver = h.gameOver
      /\ k.page = h.page /\ k.pause = h.pause
      /\ DOMAIN k = Fields
  BY DEF Agree, Core
<1>2. Typed(k) /\ Budget(k)
  BY <1>1 DEF Typed, Budget, Going
<1>3. EnemyFree(h, k) /\ BornFree(h, k)
  <2>1. On("born") \in Classes
    BY AreClasses DEF Chain
  <2> QED BY <1>1, <2>1 DEF EnemyFree, BornFree, Less, Thins
<1>4. LessBut(h, s, i, k, s2, i2)
  BY ThinsSame DEF Less, LessBut
<1>5. Agree(h, k, {"page", "stage", "running", "gameOver", "live", "lifeNum", "kills", "tank",
                   "data", "panel", "finishNum", "air"})
  BY DEF Agree, Core
<1> QED BY <1>2, <1>3, <1>4, <1>5, GoingWith

\* Neither does one that changes no task.
LEMMA GoingSame ==
  ASSUME NEW h, NEW s, NEW i, NEW d, NEW k, Agree(h, k, Core \cup {"prop", "tasks"}), Going(h, s, i, d)
  PROVE  Going(k, s, i, d)
<1>1. k.tasks = h.tasks /\ k.prop = h.prop /\ Agree(h, k, Core)
  BY DEF Agree, Core
<1>2. Scheduled(k) /\ PropFree(h, k)
  BY <1>1 DEF Scheduled, Going, PropFree
<1>3. Less(h, s, i, k, s, i) /\ Revives(h.tasks, 0, k.tasks, 0) /\ Revives(s, i, s, i)
  BY <1>1, ThinsSame DEF Less
<1> QED BY <1>1, <1>2, <1>3, GoingLess
-----------------------------------------------------------------------------
(* Scheduling and unscheduling *)

\* All but the tasks stay as they are.
Only(h, k, F) == DOMAIN h = Fields /\ DOMAIN k = Fields /\ \A f \in Fields \ F : k[f] = h[f]

\* A task that is scheduled once.
Once(ctx, kind, arg, time) == Task(ctx, kind, arg, time, FALSE)

\* Such a task is one the model knows, and of its classes only those that name its
\* kind and argument.
LEMMA OnceIs ==
  ASSUME NEW kind \in Kinds \ {"status"}, NEW arg \in Args, NEW time \in Nat \ {0},
         kind \notin Slow => time = 1,
         kind \in {"playerBorn", "revive", "shieldEnd"} => arg \in Players,
         kind \in {"row", "shown"} => arg \in [row : 1..Rows, panel : Nat],
         NEW ctx, ctx = Owner(kind), NEW t, t = Once(ctx, kind, arg, time)
  PROVE  /\ t \in Tasks /\ TaskOK(t) /\ t.kind = kind /\ t.arg = arg /\ t.ctx = ctx
         /\ \A c : Like(t, c) <=> kind = c.kind /\ arg \notin c.but
<1>1. Owner(kind) \in Contexts
  BY DEF Owner, Contexts, Kinds
<1>2. t \in Tasks
  BY <1>1 DEF Once, Task, Tasks
<1>3. /\ t.kind = kind /\ t.arg = arg /\ t.ctx = ctx /\ t.left = time /\ t.time = time
      /\ t.loop = FALSE
  BY DEF Once, Task
<1>4. TaskOK(t)
  BY <1>3 DEF TaskOK, OneOf
<1> QED BY <1>2, <1>3, <1>4 DEF Like

\* The timer of the props, which loops.
Again(ctx, kind, arg, time) == Task(ctx, kind, arg, time, TRUE)

\* It is the one task that loops.
LEMMA StatusIs ==
  ASSUME NEW t, t = Again("PropManager", "status", 0, 1)
  PROVE  t \in Tasks /\ TaskOK(t) /\ t.kind = "status"
<1>1. t \in Tasks
  BY DEF Again, Task, Tasks, Contexts, Kinds, Args
<1>2. /\ t.kind = "status" /\ t.ctx = "PropManager" /\ t.left = 1 /\ t.time = 1
      /\ t.loop = TRUE
  BY DEF Again, Task
<1>3. TaskOK(t)
  BY <1>2 DEF TaskOK, OneOf, Owner, Kinds
<1> QED BY <1>1, <1>2, <1>3

\* What scheduling does to the game's record, once or in a loop.
LEMMA LoopingIs ==
  ASSUME NEW h, DOMAIN h = Fields, NEW ctx, NEW kind, NEW arg, NEW time,
         NEW k, k = schedule(h, ctx, kind, arg, time)
  PROVE  Only(h, k, {"tasks"}) /\ k.tasks = Append(h.tasks, Again(ctx, kind, arg, time))
<1>1. "tasks" \in Fields
  BY DEF Fields
<1> QED BY <1>1 DEF schedule, Only, Again

\* scheduleOnce appends one task and changes nothing else.
LEMMA SchedulingIs ==
  ASSUME NEW h, DOMAIN h = Fields, NEW ctx, NEW kind, NEW arg, NEW time,
         NEW k, k = scheduleOnce(h, ctx, kind, arg, time)
  PROVE  Only(h, k, {"tasks"}) /\ k.tasks = Append(h.tasks, Once(ctx, kind, arg, time))
<1>1. "tasks" \in Fields
  BY DEF Fields
<1> QED BY <1>1 DEF scheduleOnce, Only, Once

\* And unscheduling.
Others(u, ctx) == {i \in DOMAIN u : u[i].ctx # ctx}

\* unscheduleAll keeps the tasks of the other owners, in their order.
LEMMA UnschedulingIs ==
  ASSUME NEW h, DOMAIN h = Fields, NEW ctx
  PROVE  /\ Only(h, unscheduleAll(h, ctx), {"tasks"})
         /\ unscheduleAll(h, ctx).tasks
              = Kept(h.tasks, Others(h.tasks, ctx))
<1>1. "tasks" \in Fields
  BY DEF Fields
<1> QED BY <1>1 DEF unscheduleAll, Only, Others

\* A new task that is in the list as scheduled keeps the list in order.
LEMMA ScheduledAppend ==
  ASSUME NEW h, NEW k, Scheduled(h), NEW t \in Tasks, TaskOK(t),
         k.tasks = Append(h.tasks, t),
         t.kind = "propGone" \/ h.prop = "none" \/ k.prop # "none",
         t.kind = "propGone" => k.prop # "none"
  PROVE  Scheduled(k)
<1>1. /\ h.tasks \in Seq(Tasks) /\ Len(h.tasks) \in Nat /\ DOMAIN h.tasks = 1..Len(h.tasks)
      /\ \A x \in DOMAIN h.tasks : TaskOK(h.tasks[x])
  BY LenProperties DEF Scheduled
<1>2. k.tasks \in Seq(Tasks) /\ DOMAIN k.tasks = 1..(Len(h.tasks) + 1)
  BY <1>1, AppendProperties, LenProperties
<1>3. \A x \in DOMAIN k.tasks : TaskOK(k.tasks[x])
  <2>1. /\ \A x \in 1..Len(h.tasks) : k.tasks[x] = h.tasks[x]
        /\ k.tasks[Len(h.tasks) + 1] = t
    BY <1>1, AppendProperties
  <2> QED BY <1>1, <1>2, <2>1
<1>4. CASE k.prop # "none"
  BY <1>2, <1>3, <1>4 DEF Scheduled
<1>5. CASE k.prop = "none"
  <2>1. t.kind # "propGone" /\ h.prop = "none"
    BY <1>5
  <2>2. ~Like(t, On("propGone"))
    BY <2>1 DEF Like, On
  <2>3. Most(h.tasks, 0, On("propGone"), 0)
    BY <2>1 DEF Scheduled
  <2>4. Most(k.tasks, 0, On("propGone"), 0)
    BY <1>1, <2>2, <2>3, Appending
  <2> QED BY <1>2, <1>3, <2>4 DEF Scheduled
<1> QED BY <1>4, <1>5

\* So does leaving some out.
LEMMA ScheduledPart ==
  ASSUME NEW h, NEW k, Scheduled(h), NEW D, D \subseteq DOMAIN h.tasks,
         Part(k.tasks, h.tasks, D), h.prop = "none" \/ k.prop # "none"
  PROVE  Scheduled(k)
<1>1. k.tasks \in Seq(Tasks) /\ \A x \in DOMAIN k.tasks : TaskOK(k.tasks[x])
  BY PartIn DEF Scheduled
<1>2. DOMAIN h.tasks \subseteq Nat \ {0}
  BY LenProperties DEF Scheduled
<1>3. Most(h.tasks, 0, On("propGone"), 0) => Most(k.tasks, 0, On("propGone"), 0)
  BY <1>2, PartMost
<1> QED BY <1>1, <1>3 DEF Scheduled

\* Tasks left out are less; if no revival is, the players come back.
LEMMA PartLess ==
  ASSUME NEW u \in Seq(Tasks), NEW v, NEW D, D \subseteq DOMAIN u, Part(v, u, D)
  PROVE  /\ Thins(u, 0, v, 0)
         /\ (\A y \in DOMAIN u : u[y].kind = "revive" => y \in D) => Revives(u, 0, v, 0)
<1>1. DOMAIN u \subseteq Nat \ {0}
  BY LenProperties
<1>2. Thins(u, 0, v, 0)
  BY <1>1, PartMost DEF Thins
<1>3. ASSUME \A y \in DOMAIN u : u[y].kind = "revive" => y \in D PROVE Revives(u, 0, v, 0)
  <2>1. \A p : \A y \in DOMAIN u : Like(u[y], By("revive", p)) => y \in D
    BY <1>3 DEF Like, By
  <2> QED BY <1>1, <2>1, PartMost DEF Revives
<1> QED BY <1>2, <1>3

\* A task of no class the course depends on is no more.
LEMMA AppendLess ==
  ASSUME NEW u \in Seq(Tasks), NEW t \in Tasks, t.kind \notin Chain \cup {"born"}
  PROVE  Thins(u, 0, Append(u, t), 0) /\ Revives(u, 0, Append(u, t), 0)
<1>1. \A c \in Classes : ~Like(t, c)
  BY DEF Classes, Like, On, By, Stray, Chain
<1>2. \A p \in Players : By("revive", p) \in Classes
  BY AreClasses
<1>3. \A c \in Classes, q \in 0..2 : Most(Append(u, t), 0, c, q) <=> Most(u, 0, c, q)
  BY <1>1, Appending
<1> QED BY <1>2, <1>3 DEF Thins, Revives

\* The tasks of v are tasks of u.
Among(v, u) == \A x \in DOMAIN v : \E y \in DOMAIN u : v[x] = u[y]

\* Unscheduling a context leaves none of its tasks, and no other is lost.
LEMMA UnscheduledIs ==
  ASSUME NEW h, DOMAIN h = Fields, Scheduled(h), NEW ctx, NEW k, k = unscheduleAll(h, ctx)
  PROVE  /\ Only(h, k, {"tasks"}) /\ Scheduled(k)
         /\ Thins(h.tasks, 0, k.tasks, 0) /\ Among(k.tasks, h.tasks)
         /\ ctx # "Player" => Revives(h.tasks, 0, k.tasks, 0)
         /\ \A x \in DOMAIN k.tasks : k.tasks[x].ctx # ctx
<1>1. h.tasks \in Seq(Tasks)
  BY DEF Scheduled
<1> DEFINE D == Others(h.tasks, ctx)
<1>2. Only(h, k, {"tasks"}) /\ k.tasks = Kept(h.tasks, D)
  BY <1>1, UnschedulingIs
<1>3. D \subseteq DOMAIN h.tasks /\ \A x \in D : h.tasks[x].ctx # ctx
  BY DEF Others
<1>4. ctx # "Player" => \A y \in DOMAIN h.tasks : h.tasks[y].kind = "revive" => y \in D
  BY <1>1 DEF Scheduled, TaskOK, OneOf, Owner, Others
<1> HIDE DEF D
<1>5. Part(k.tasks, h.tasks, D)
  BY <1>1, <1>2, <1>3, KeptPart
<1>6. Thins(h.tasks, 0, k.tasks, 0) /\ (ctx # "Player" => Revives(h.tasks, 0, k.tasks, 0))
  BY <1>1, <1>3, <1>4, <1>5, PartLess
<1>7. k.prop = h.prop
  BY <1>2 DEF Only, Fields
<1>8. Scheduled(k)
  BY <1>1, <1>3, <1>5, <1>7, ScheduledPart
<1>9. Among(k.tasks, h.tasks) /\ \A x \in DOMAIN k.tasks : k.tasks[x].ctx # ctx
  BY <1>3, <1>5, PartIn DEF Among
<1> QED BY <1>2, <1>6, <1>8, <1>9

\* The course goes on when a context other than that of the revivals is
\* unscheduled.
LEMMA Unscheduled ==
  ASSUME NEW h, NEW s, NEW i, NEW d, Going(h, s, i, d), NEW ctx, ctx # "Player",
         NEW k, k = unscheduleAll(h, ctx)
  PROVE  /\ Going(k, s, i, d) /\ Only(h, k, {"tasks"})
         /\ Thins(h.tasks, 0, k.tasks, 0) /\ Among(k.tasks, h.tasks)
         /\ \A x \in DOMAIN k.tasks : k.tasks[x].ctx # ctx
<1>1. DOMAIN h = Fields /\ Scheduled(h)
  BY DEF Going, Typed
<1>2. /\ Only(h, k, {"tasks"}) /\ Scheduled(k)
      /\ Thins(h.tasks, 0, k.tasks, 0) /\ Among(k.tasks, h.tasks)
      /\ Revives(h.tasks, 0, k.tasks, 0)
      /\ \A x \in DOMAIN k.tasks : k.tasks[x].ctx # ctx
  BY <1>1, UnscheduledIs
<1>3. Agree(h, k, Core) /\ k.prop = h.prop
  BY <1>2 DEF Only, Agree, Core, Fields
<1>4. Going(k, s, i, d)
  BY <1>2, <1>3, ThinsSame, GoingLess DEF Less, PropFree
<1> QED BY <1>2, <1>4

\* The course goes on when a task it does not depend on is scheduled.
LEMMA Extra ==
  ASSUME NEW h, NEW s, NEW i, NEW d, Going(h, s, i, d), NEW t \in Tasks, TaskOK(t),
         t.kind \in {"shieldEnd", "status", "propGone"}, NEW k, Agree(h, k, Core), PropFree(h, k),
         t.kind = "propGone" \/ h.prop = "none" \/ k.prop # "none",
         k.tasks = Append(h.tasks, t), t.kind = "propGone" => k.prop # "none"
  PROVE  Going(k, s, i, d)
<1>1. h.tasks \in Seq(Tasks) /\ Scheduled(h)
  BY DEF Going, Scheduled
<1>2. Scheduled(k)
  BY <1>1, ScheduledAppend
<1>3. t.kind \notin Chain \cup {"born"}
  BY DEF Chain
<1>4. Thins(h.tasks, 0, k.tasks, 0) /\ Revives(h.tasks, 0, k.tasks, 0)
  BY <1>1, <1>3, AppendLess
<1> QED BY <1>2, <1>4, ThinsSame, GoingLess DEF Less

\* A task more counts for its own class only.
LEMMA OneMore ==
  ASSUME NEW h, h.tasks \in Seq(Tasks), NEW t \in Tasks, NEW k, k.tasks = Append(h.tasks, t),
         NEW s, NEW i
  PROVE  /\ \A c : c # t.kind =>
               /\ None(h, s, i, On(c)) => None(k, s, i, On(c))
               /\ Lone(h, s, i, On(c)) => Lone(k, s, i, On(c))
               /\ \A q \in 0..2 : Most(h.tasks, 0, On(c), q) => Most(k.tasks, 0, On(c), q)
         /\ None(h, s, i, On(t.kind)) => Lone(k, s, i, On(t.kind))
         /\ t.kind # "row" => \A r, n : None(h, s, i, Stray(r, n)) => None(k, s, i, Stray(r, n))
<1>1. \A c : c # t.kind => ~Like(t, On(c))
  BY DEF Like, On
<1>2. Like(t, On(t.kind))
  BY DEF Like, On
<1>3. \A c : c # t.kind =>
          \A q \in 0..2 : Most(h.tasks, 0, On(c), q) => Most(k.tasks, 0, On(c), q)
  BY <1>1, Appending
<1>4. Most(h.tasks, 0, On(t.kind), 0) => Most(k.tasks, 0, On(t.kind), 1)
  BY <1>2, Appending
<1>5. Most(s, i, On(t.kind), 0) => Most(s, i, On(t.kind), 1)
  BY MostUp
<1>6. t.kind # "row" => \A r, n : ~Like(t, Stray(r, n))
  BY DEF Like, Stray
<1>7. t.kind # "row" => \A r, n : Most(h.tasks, 0, Stray(r, n), 0) => Most(k.tasks, 0, Stray(r, n), 0)
  BY <1>6, Appending
<1> QED BY <1>3, <1>4, <1>5, <1>7 DEF None, Lone

\* The players do not care about tasks that are not theirs.
LEMMA PlayersKeep ==
  ASSUME NEW h, NEW s, NEW i, PlayersOK(h, s, i), h.tasks \in Seq(Tasks), NEW t \in Tasks,
         t.kind \notin {"playerBorn", "revive"}, NEW k, k.tasks = Append(h.tasks, t),
         Agree(h, k, {"live", "lifeNum", "tank", "gameOver"})
  PROVE  PlayersOK(k, s, i)
<1>1. \A p : \A c \in {"playerBorn", "revive"} : ~Like(t, By(c, p))
  BY DEF Like, By
<1>2. \A p : \A c \in {"playerBorn", "revive"}, q \in 0..2 :
          Most(k.tasks, 0, By(c, p), q) <=> Most(h.tasks, 0, By(c, p), q)
  BY <1>1, Appending
<1>3. LessFor(h.tasks, 0, k.tasks, 0) /\ Revives(h.tasks, 0, k.tasks, 0)
  <2>1. LessFor(h.tasks, 0, k.tasks, 0)
    BY <1>2 DEF LessFor
  <2>2. 0 \in 0..2 /\ "revive" \in {"playerBorn", "revive"}
    OBVIOUS
  <2>3. \A p : Most(k.tasks, 0, By("revive", p), 0) <=> Most(h.tasks, 0, By("revive", p), 0)
    BY <1>2, <2>2
  <2> QED BY <2>1, <2>3 DEF Revives
<1>4. LessFor(s, i, s, i) /\ Revives(s, i, s, i)
  BY DEF LessFor, Revives
<1> QED BY <1>3, <1>4, PlayersFor
-----------------------------------------------------------------------------
(* Props and shields *)

\* The course goes on, in the same stage, under the same fire.
Onward(h, k, s, i, d) ==
    Going(k, s, i, d) /\ k.stage = h.stage /\ k.page = h.page /\ k.air = h.air

\* What is known of a game that goes on.
LEMMA GoingIs ==
  ASSUME NEW h, NEW s, NEW i, NEW d, Going(h, s, i, d)
  PROVE  /\ DOMAIN h = Fields /\ h.tasks \in Seq(Tasks) /\ Scheduled(h) /\ Budget(h)
         /\ h.page \in {"game", "success"} /\ h.page # "menu"
         /\ h.air \in [{"player", "enemy"} -> 0..Flight] /\ h.panel \in Nat
         /\ h.finishNum \in [1..Rows -> Nat] /\ h.stage \in Nat \ {0}
         /\ h.running \in BOOLEAN /\ h.gameOver \in BOOLEAN /\ h.data \in BOOLEAN
         /\ h.pool \in Seq(Nodes)
BY DEF Going, Typed, Scheduled

\* Nothing of the course is touched.
LEMMA OnwardSame ==
  ASSUME NEW h, NEW s, NEW i, NEW d, Going(h, s, i, d), NEW k,
         Agree(h, k, Core \cup {"prop", "tasks"})
  PROVE  Onward(h, k, s, i, d)
<1>1. k.stage = h.stage /\ k.page = h.page /\ k.air = h.air
  BY DEF Agree, Core
<1> QED BY <1>1, GoingSame DEF Onward

\* evDestroyProp takes the timer of the prop with it.
LEMMA DestroyedIs ==
  ASSUME NEW h, DOMAIN h = Fields, Scheduled(h), NEW k, k = evDestroyProp(h)
  PROVE  /\ Only(h, k, {"prop", "tasks"}) /\ k.prop = "none" /\ Scheduled(k)
         /\ Thins(h.tasks, 0, k.tasks, 0) /\ Revives(h.tasks, 0, k.tasks, 0)
         /\ Among(k.tasks, h.tasks) /\ Most(k.tasks, 0, On("propGone"), 0)
<1>1. CASE h.prop = "none"
  <2>1. k = h
    BY <1>1 DEF evDestroyProp
  <2>2. Most(h.tasks, 0, On("propGone"), 0)
    BY <1>1 DEF Scheduled
  <2> QED BY <1>1, <2>1, <2>2, ThinsSame DEF Only, Among
<1>2. CASE h.prop # "none"
  <2> DEFINE e == [h EXCEPT !.prop = "none"]
             D == Others(h.tasks, "Prop")
  <2>1. k = unscheduleAll(e, "Prop")
    BY <1>2 DEF evDestroyProp, resetProp
  <2>2. DOMAIN e = Fields /\ e.tasks = h.tasks /\ e.prop = "none" /\ Only(h, e, {"prop"})
    BY DEF Only, Fields
  <2> HIDE DEF e
  <2>3. Only(e, k, {"tasks"}) /\ k.tasks = Kept(h.tasks, D)
    BY <2>1, <2>2, UnschedulingIs
  <2>4. Only(h, k, {"prop", "tasks"}) /\ k.prop = "none"
    BY <2>2, <2>3 DEF Only, Fields
  <2>5. D \subseteq DOMAIN h.tasks /\ \A x \in D : h.tasks[x].ctx # "Prop"
    BY DEF Others
  <2>6. h.tasks \in Seq(Tasks) /\ \A y \in DOMAIN h.tasks : h.tasks[y].kind = "revive" => y \in D
    BY DEF Scheduled, TaskOK, OneOf, Owner, Others
  <2> HIDE DEF D
  <2>7. Part(k.tasks, h.tasks, D)
    BY <2>3, <2>5, <2>6, KeptPart
  <2>8. Thins(h.tasks, 0, k.tasks, 0) /\ Revives(h.tasks, 0, k.tasks, 0)
    BY <2>5, <2>6, <2>7, PartLess
  <2>9. k.tasks \in Seq(Tasks) /\ \A x \in DOMAIN k.tasks :
            TaskOK(k.tasks[x]) /\ k.tasks[x].ctx # "Prop"
    BY <2>5, <2>7, PartIn DEF Scheduled
  <2>10. Most(k.tasks, 0, On("propGone"), 0)
    BY <2>9 DEF Most, AtMost, In, Like, On, TaskOK, OneOf, Owner
  <2>11. Scheduled(k)
    BY <2>9, <2>10 DEF Scheduled
  <2>12. Among(k.tasks, h.tasks)
    BY <2>5, <2>7, PartIn DEF Among
  <2> QED BY <2>4, <2>8, <2>10, <2>11, <2>12
<1> QED BY <1>1, <1>2

\* Taking the prop away, and the tasks of the prop manager with it, disturbs neither
\* the stage nor the tasks of anyone else.
LEMMA DestroysProp ==
  ASSUME NEW h, NEW s, NEW i, NEW d, Going(h, s, i, d), NEW k, k = evDestroyProp(h)
  PROVE  /\ Onward(h, k, s, i, d) /\ Only(h, k, {"prop", "tasks"}) /\ k.prop = "none"
         /\ Thins(h.tasks, 0, k.tasks, 0) /\ Among(k.tasks, h.tasks)
         /\ Most(k.tasks, 0, On("propGone"), 0)
<1>1. DOMAIN h = Fields /\ Scheduled(h)
  BY GoingIs
<1>2. /\ Only(h, k, {"prop", "tasks"}) /\ k.prop = "none" /\ Scheduled(k)
      /\ Thins(h.tasks, 0, k.tasks, 0) /\ Revives(h.tasks, 0, k.tasks, 0)
      /\ Among(k.tasks, h.tasks) /\ Most(k.tasks, 0, On("propGone"), 0)
  BY <1>1, DestroyedIs
<1>3. Agree(h, k, Core) /\ PropFree(h, k)
  BY <1>2 DEF Only, Agree, Core, Fields, PropFree
<1>4. Going(k, s, i, d)
  BY <1>2, <1>3, ThinsSame, GoingLess DEF Less
<1>5. k.stage = h.stage /\ k.page = h.page /\ k.air = h.air
  BY <1>3 DEF Agree, Core
<1> QED BY <1>2, <1>4, <1>5 DEF Onward

\* A prop turns up only where players shoot.
LEMMA CreatesProp ==
  ASSUME NEW h, NEW s, NEW i, NEW d, Going(h, s, i, d), NEW type, h.air["player"] # 0
  PROVE  Onward(h, evCreateProp(h, type), s, i, d)
<1>1. CASE type = "none"
  BY <1>1, DestroysProp DEF evCreateProp
<1>2. CASE type # "none"
  <2> DEFINE a == evDestroyProp(h)
             e == [a EXCEPT !.prop = type, !.created = @ + 1]
             k == scheduleOnce(e, "Prop", "propGone", 0, PropTime)
             t == Once("Prop", "propGone", 0, PropTime)
  <2>1. evCreateProp(h, type) = k
    BY <1>2 DEF evCreateProp, startDisappearTimer
  <2>2. /\ Onward(h, a, s, i, d) /\ DOMAIN a = Fields /\ a.prop = "none" /\ a.air = h.air
        /\ a.stage = h.stage /\ a.page = h.page
    BY DestroysProp DEF Onward, Only
  <2> HIDE DEF a
  <2>3. DOMAIN e = Fields /\ e.tasks = a.tasks /\ e.prop = type /\ Agree(a, e, Core)
    BY <2>2 DEF Agree, Core, Fields
  <2> HIDE DEF e
  <2>4. Only(e, k, {"tasks"}) /\ k.tasks = Append(a.tasks, t)
    BY <2>3, SchedulingIs
  <2>5. t \in Tasks /\ TaskOK(t) /\ t.kind = "propGone"
    <3>1. /\ "Prop" = Owner("propGone") /\ PropTime \in Nat \ {0}
          /\ "propGone" \in Kinds \ {"status"} /\ 0 \in Args /\ "propGone" \in Slow
      BY DEF Owner, PropTime, Kinds, Args, Slow
    <3> QED BY <3>1, OnceIs
  <2> HIDE DEF k, t
  <2>6. Agree(a, k, Core) /\ k.prop = type /\ k.stage = a.stage /\ k.page = a.page /\ k.air = a.air
    BY <2>3, <2>4 DEF Only, Agree, Core, Fields
  <2>7. PropFree(a, k)
    BY <2>2 DEF PropFree
  <2>8. Going(k, s, i, d)
    BY <1>2, <2>2, <2>4, <2>5, <2>6, <2>7, Extra DEF Onward
  <2> QED BY <2>1, <2>2, <2>6, <2>8 DEF Onward
<1> QED BY <1>1, <1>2

\* A shield ends some time.
LEMMA Shields ==
  ASSUME NEW h, NEW s, NEW i, NEW d, Going(h, s, i, d), NEW p \in Players, NEW time \in Nat \ {0}
  PROVE  Onward(h, onGetShieldStatus(h, p, time), s, i, d)
<1> DEFINE e == [h EXCEPT !.shield[p] = TRUE]
           k == scheduleOnce(e, "Ani", "shieldEnd", p, time)
           t == Once("Ani", "shieldEnd", p, time)
<1>1. onGetShieldStatus(h, p, time) = k
  BY DEF onGetShieldStatus, playUnitAniInTime, playPrefabAni
<1>2. DOMAIN h = Fields
  BY GoingIs
<1>3. DOMAIN e = Fields /\ e.tasks = h.tasks /\ e.prop = h.prop /\ Agree(h, e, Core)
  BY <1>2 DEF Agree, Core, Fields
<1> HIDE DEF e
<1>4. Only(e, k, {"tasks"}) /\ k.tasks = Append(h.tasks, t)
  BY <1>3, SchedulingIs
<1>5. t \in Tasks /\ TaskOK(t) /\ t.kind = "shieldEnd"
  <2>1. p \in Args
    BY DEF Players, Args
  <2>2. "Ani" = Owner("shieldEnd") /\ "shieldEnd" \in Kinds \ {"status"} /\ "shieldEnd" \in Slow
    BY DEF Owner, Kinds, Slow
  <2> QED BY <2>1, <2>2, OnceIs
<1> HIDE DEF k, t
<1>6. /\ Agree(h, k, Core) /\ PropFree(h, k) /\ k.prop = h.prop
      /\ k.stage = h.stage /\ k.page = h.page /\ k.air = h.air
  BY <1>3, <1>4 DEF Only, Agree, Core, Fields, PropFree
<1>7. Going(k, s, i, d)
  BY <1>4, <1>5, <1>6, Extra
<1> QED BY <1>1, <1>6, <1>7 DEF Onward

\* The status timer changes nothing of the course.
LEMMA StatusSame ==
  ASSUME NEW h, DOMAIN h = Fields
  PROVE  Agree(h, PropStatus(h), Core \cup {"prop", "tasks"})
<1> DEFINE clock == CASE "static" \notin h.buff -> h
                   [] "static" \in h.buff /\ h.staticTime > 0 -> [h EXCEPT !.staticTime = @ - 1]
                   [] OTHER -> onPropClockStop(h)
           k == CASE "protect" \notin h.buff -> clock
          [] "protect" \in h.buff /\ h.protectTime > 0 -> [clock EXCEPT !.protectTime = @ - 1]
          [] OTHER -> onPropSpadeStop(clock)
<1>1. PropStatus(h) = k
  BY DEF PropStatus
<1>2. clock = h \/ clock = [h EXCEPT !.staticTime = @ - 1] \/ clock = onPropClockStop(h)
  OBVIOUS
<1>3. Agree(h, clock, Core \cup {"prop", "tasks"}) /\ DOMAIN clock = Fields
  BY <1>2 DEF Agree, Core, Fields, onPropClockStop
<1> HIDE DEF clock
<1>4. k = clock \/ k = [clock EXCEPT !.protectTime = @ - 1] \/ k = onPropSpadeStop(clock)
  OBVIOUS
<1> HIDE DEF k
<1>5. Agree(clock, k, Core \cup {"prop", "tasks"})
  BY <1>3, <1>4 DEF Agree, Core, Fields, onPropSpadeStop
<1> QED BY <1>1, <1>3, <1>5 DEF Agree

\* Levels, the clock and the spade change nothing of it either.
Gains(h, p) ==
    {onLevelUp(h, p), onPropClockStart(h), onPropSpadeStart(h),
     [h EXCEPT !.level[p] = TopLevel], [h EXCEPT !.level[p] = @ - 1],
     [h EXCEPT !.propNum = @ + 1]}

\* What a prop gives, but for a life, concerns nothing the invariant is about.
LEMMA GainsSame ==
  ASSUME NEW h, DOMAIN h = Fields, NEW p, NEW k, k \in Gains(h, p)
  PROVE  Agree(h, k, Core \cup {"prop", "tasks"}) /\ k \in Gains(h, p)
BY DEF Agree, Core, Fields, onLevelUp, onPropClockStart, onPropSpadeStart, Gains
-----------------------------------------------------------------------------
(* Enemies *)

\* The nodes are finitely many.
LEMMA NodesAre ==
  ASSUME NEW S, S \subseteq Nodes
  PROVE  /\ IsFiniteSet(S) /\ Cardinality(S) \in Nat /\ (S = {} <=> Cardinality(S) = 0)
         /\ \A n \in Nodes : /\ Cardinality(S \cup {n}) <= Cardinality(S) + 1
                             /\ Cardinality(S \cup {n}) \in Nat
         /\ \A n \in S : Cardinality(S \ {n}) = Cardinality(S) - 1 /\ Cardinality(S) > 0
<1>1. EnemyMaxAlive \in Nat
  BY StageAssumption
<1>2. IsFiniteSet(Nodes)
  BY <1>1, FS_Interval DEF Nodes
<1>3. IsFiniteSet(S)
  BY <1>2, FS_Subset
<1>4. Cardinality(S) \in Nat /\ (S = {} <=> Cardinality(S) = 0)
  BY <1>3, FS_CardinalityType, FS_EmptySet
<1>5. \A n \in Nodes : /\ Cardinality(S \cup {n}) <= Cardinality(S) + 1
                       /\ Cardinality(S \cup {n}) \in Nat
  BY <1>3, <1>4, FS_AddElement
<1>6. ASSUME NEW n \in S PROVE Cardinality(S \ {n}) = Cardinality(S) - 1 /\ Cardinality(S) > 0
  <2>1. Cardinality(S) # 0
    BY <1>4, <1>6
  <2>2. Cardinality(S \ {n}) = Cardinality(S) - 1
    BY <1>3, <1>6, FS_RemoveElement
  <2> QED BY <1>4, <2>1, <2>2
<1> QED BY <1>3, <1>4, <1>5, <1>6

\* While enemies are left to come, the stage runs, or it no longer matters.
Fight(h, s, i) ==
    \/ Final(h, s, i)
    \/ /\ h.page = "game" /\ h.gameOver = FALSE
       /\ None(h, s, i, On("over")) /\ Running(h, s, i)

\* With enemies still to kill and some of them about or to come, the stage is being
\* fought: it is neither prepared, nor won, nor are its scores shown.
LEMMA Fighting ==
  ASSUME NEW h, NEW s, NEW i, NEW d, Going(h, s, i, d), h.kills < EnemyTotal,
         h.enemies # {} \/ h.data = TRUE \/ h.running = TRUE
  PROVE  Fight(h, s, i)
<1>1. h.kills \in Nat /\ EnemyTotal \in Nat
  BY StageAssumption DEF Going, Budget
<1>2. h.kills # EnemyTotal
  BY <1>1
<1>3. CASE h.page = "game" /\ h.gameOver = FALSE /\ None(h, s, i, On("over")) /\ Course(h, s, i, d)
  <2>1. ~Won(h, s, i) /\ ~Stuck(h, s, i) /\ ~Ended(h, s, i)
    BY <1>2 DEF Won, Stuck, Ended
  <2>2. ~Shown(h, s, i) /\ \A r \in 1..Rows : ~NewRow(h, s, i, d, r) /\ ~OldRow(h, s, i, r)
    BY <2>1 DEF Shown, NewRow, OldRow
  <2>3. ~Prepared(h, s, i)
    BY DEF Prepared
  <2> QED BY <1>3, <2>1, <2>2, <2>3 DEF Course, Fight
<1> QED BY <1>3 DEF Going, Phase, Fight

\* Whatever is done to the enemies, the fight goes on while some are to come.
LEMMA FightsOn ==
  ASSUME NEW h, NEW s, NEW i, NEW d, NEW k, LessBut(h, s, i, k, s, i),
         Revives(h.tasks, 0, k.tasks, 0),
         Agree(h, k, {"page", "stage", "running", "gameOver", "live", "lifeNum", "tank"}),
         Going(h, s, i, d), Fight(h, s, i), k.kills < EnemyTotal \/ Final(h, s, i),
         Typed(k), Budget(k), Scheduled(k)
  PROVE  Going(k, s, i, d) /\ Fight(k, s, i)
<1>1. /\ k.stage = h.stage /\ k.gameOver = h.gameOver /\ k.page = h.page /\ k.running = h.running
  BY DEF Agree
<1>2. Revives(s, i, s, i)
  BY ThinsSame
<1>3. k.page = "game" => PlayersOK(k, s, i)
  BY <1>1, <1>2, PlayersLess DEF Going, Agree
<1>4. \A c \in Chain : None(h, s, i, On(c)) => None(k, s, i, On(c))
  BY LessTasks, AreClasses
<1>5. Final(h, s, i) => Final(k, s, i)
  BY <1>1, <1>4 DEF Final, Chain
<1>6. k.kills < EnemyTotal /\ Running(h, s, i) => Running(k, s, i)
  BY <1>1, <1>4 DEF Running, Chain
<1>7. None(h, s, i, On("over")) => None(k, s, i, On("over"))
  BY <1>4 DEF Chain
<1>8. Fight(k, s, i)
  BY <1>1, <1>5, <1>6, <1>7 DEF Fight
<1>9. Phase(k, s, i, d)
  BY <1>8 DEF Fight, Phase, Course
<1> QED BY <1>3, <1>8, <1>9 DEF Going

\* The birth of an enemy.
LEMMA BornIs ==
  ASSUME NEW n \in Nodes, NEW t, t = Once("Ani", "born", n, BornTime)
  PROVE  t \in Tasks /\ TaskOK(t) /\ t.kind = "born"
<1>1. n \in Args
  BY DEF Nodes, Args
<1>2. "Ani" = Owner("born") /\ "born" \in Kinds \ {"status"} /\ BornTime = 1 /\ 1 \in Nat \ {0}
      /\ "born" \notin {"playerBorn", "revive", "shieldEnd"} /\ "born" \notin {"row", "shown"}
  BY DEF Owner, Kinds, BornTime
<1> QED BY <1>1, <1>2, OnceIs

\* It is of no class the course of a running stage depends on.
LEMMA BornLess ==
  ASSUME NEW u \in Seq(Tasks), NEW t \in Tasks, t.kind = "born"
  PROVE  ThinsBut(u, 0, Append(u, t), 0) /\ Revives(u, 0, Append(u, t), 0)
<1>1. \A c \in Rest : ~Like(t, c)
  <2>1. \A k \in Chain : ~Like(t, On(k))
    BY DEF Like, On, Chain
  <2>2. \A p : \A k \in {"playerBorn", "revive"} : ~Like(t, By(k, p))
    BY DEF Like, By
  <2>3. \A r, n : ~Like(t, Stray(r, n))
    BY DEF Like, Stray
  <2> QED BY <2>1, <2>2, <2>3 DEF Rest, Classes
<1>2. \A p \in Players : By("revive", p) \in Rest
  BY AreClasses
<1>3. \A c \in Rest, q \in 0..2 : Most(Append(u, t), 0, c, q) <=> Most(u, 0, c, q)
  BY <1>1, Appending
<1> QED BY <1>2, <1>3 DEF ThinsBut, Revives

\* An enemy more, where the stage still has one.
LEMMA AddsEnemy ==
  ASSUME NEW h, NEW s, NEW i, NEW d, Going(h, s, i, d), Fight(h, s, i), NEW place,
         h.kills + Cardinality(h.enemies) < EnemyTotal,
         NEW k, k = addOneEnemy(h, place)
  PROVE  /\ Going(k, s, i, d) /\ Fight(k, s, i)
         /\ Only(h, k, {"enemies", "pool", "borning", "tasks"})
         /\ k.enemies = h.enemies \/ k.enemies = h.enemies \cup {Last(h.pool)}
         /\ Cardinality(k.enemies) <= Cardinality(h.enemies) + 1
<1>1. /\ DOMAIN h = Fields /\ h.tasks \in Seq(Tasks) /\ h.pool \in Seq(Nodes) /\ Scheduled(h)
      /\ h.enemies \subseteq Nodes /\ h.kills \in Nat /\ EnemyTotal \in Nat
  BY GoingIs, StageAssumption DEF Budget
<1>2. Cardinality(h.enemies) \in Nat
  BY <1>1, NodesAre
<1>3. CASE ~(place /\ h.pool # <<>>)
  <2>1. k = h
    BY <1>3 DEF addOneEnemy
  <2> QED BY <1>1, <1>2, <2>1 DEF Only
<1>4. CASE place /\ h.pool # <<>>
  <2> DEFINE n == Last(h.pool)
             e == [h EXCEPT !.pool = Front(h.pool), !.enemies = @ \cup {n}, !.borning = @ \cup {n}]
             t == Once("Ani", "born", n, BornTime)
  <2>1. n \in Nodes /\ Front(h.pool) \in Seq(Nodes)
    <3>1. Len(h.pool) \in Nat /\ Len(h.pool) # 0 /\ Len(h.pool) - 1 \in Int
      BY <1>1, <1>4, EmptySeq, LenProperties
    <3>2. h.pool[Len(h.pool)] \in Nodes
      BY <1>1, <3>1, ElementOfSeq
    <3>3. \A x \in 1..(Len(h.pool) - 1) : h.pool[x] \in Nodes
      BY <1>1, <3>1, ElementOfSeq
    <3>4. SubSeq(h.pool, 1, Len(h.pool) - 1) \in Seq(Nodes)
      BY <3>1, <3>3, SubSeqProperties
    <3> QED BY <3>2, <3>4 DEF Last, Front
  <2>2. k = scheduleOnce(e, "Ani", "born", n, BornTime)
    BY <1>4 DEF addOneEnemy, createEnemyTank, born, playUnitAniInTime, playPrefabAni, getNode
  <2>3. /\ DOMAIN e = Fields /\ e.tasks = h.tasks /\ e.enemies = h.enemies \cup {n}
        /\ e.pool = Front(h.pool) /\ Only(h, e, {"enemies", "pool", "borning"})
    BY <1>1 DEF Fields, Only
  <2> HIDE DEF e
  <2>4. Only(e, k, {"tasks"}) /\ k.tasks = Append(h.tasks, t)
    BY <2>2, <2>3, SchedulingIs
  <2>5. t \in Tasks /\ TaskOK(t) /\ t.kind = "born"
    BY <2>1, BornIs
  <2> HIDE DEF t, n
  <2>6. /\ Only(h, k, {"enemies", "pool", "borning", "tasks"})
        /\ k.enemies = h.enemies \cup {n} /\ k.pool = Front(h.pool)
    BY <2>3, <2>4 DEF Only, Fields
  <2>7. Agree(h, k, Fields \ {"enemies", "pool", "borning", "tasks"})
    BY <2>6 DEF Only, Agree
  <2>8. ThinsBut(h.tasks, 0, k.tasks, 0) /\ Revives(h.tasks, 0, k.tasks, 0)
    BY <1>1, <2>4, <2>5, BornLess
  <2>9. LessBut(h, s, i, k, s, i)
    BY <2>8, ThinsSame DEF LessBut
  <2>10. Typed(k)
    BY <2>1, <2>6, <2>7 DEF Typed, Agree, Fields, Going
  <2>11. k.kills = h.kills /\ Cardinality(k.enemies) <= Cardinality(h.enemies) + 1
         /\ Cardinality(k.enemies) \in Nat /\ k.enemies \subseteq Nodes
    BY <1>1, <2>1, <2>6, <2>7, NodesAre DEF Agree, Fields
  <2>12. Budget(k)
    BY <1>1, <1>2, <2>11 DEF Budget
  <2>13. k.prop = h.prop
    BY <2>7 DEF Agree, Fields
  <2>14. Scheduled(k)
    BY <1>1, <2>4, <2>5, <2>13, ScheduledAppend
  <2>15. k.kills < EnemyTotal
    BY <1>1, <1>2, <2>11
  <2>16. Agree(h, k, {"page", "stage", "running", "gameOver", "live", "lifeNum", "tank"})
    BY <2>7 DEF Agree, Fields
  <2>17. Going(k, s, i, d) /\ Fight(k, s, i)
    BY <2>8, <2>9, <2>10, <2>12, <2>14, <2>15, <2>16, FightsOn
  <2> QED BY <2>6, <2>11, <2>17 DEF n
<1> QED BY <1>3, <1>4

\* What is done to the tasks does no harm to a game that is over.
LEMMA FinalMore ==
  ASSUME NEW h, NEW s, NEW i, NEW d, Going(h, s, i, d), Final(h, s, i), NEW t \in Tasks, TaskOK(t),
         t.kind \notin {"playerBorn", "revive", "start", "propGone"},
         NEW k, k.tasks = Append(h.tasks, t), k.prop = h.prop,
         Agree(h, k, {"page", "stage", "gameOver", "live", "lifeNum", "tank"}),
         Typed(k), Budget(k)
  PROVE  Going(k, s, i, d) /\ Final(k, s, i)
<1>1. h.tasks \in Seq(Tasks) /\ Scheduled(h)
  BY GoingIs
<1>2. k.page = h.page /\ k.stage = h.stage /\ k.gameOver = h.gameOver
  BY DEF Agree
<1>3. Scheduled(k)
  BY <1>1, ScheduledAppend
<1>4. k.page = "game" => PlayersOK(k, s, i)
  BY <1>1, <1>2, PlayersKeep DEF Going, Agree
<1>5. None(k, s, i, On("start"))
  BY <1>1, OneMore DEF Final
<1> QED BY <1>2, <1>3, <1>4, <1>5 DEF Going, Phase, Final

\* An enemy dies; the next may come, and the last one wins the stage.
LEMMA EnemyDies ==
  ASSUME NEW h, NEW s, NEW i, NEW d, Going(h, s, i, d), NEW n \in h.enemies, NEW place,
         NEW k, k = evEnemyDead(h, n, place)
  PROVE  /\ Going(k, s, i, d)
         /\ Only(h, k, {"kills", "enemies", "pool", "borning", "tasks"})
         /\ k.enemies = h.enemies \/ k.enemies = h.enemies \ {n}
<1> DEFINE e == [h EXCEPT !.kills = @ + 1]
           dead == destroyEnemyTank(e, n)
           next == IF isNeedCreateEnemy(dead) THEN addOneEnemy(dead, place) ELSE dead
           win == scheduleOnce(next, "Enemy", "win", 0, WinTime)
           t == Once("Enemy", "win", 0, WinTime)
<1>1. k = IF isGameEnd(next) THEN win ELSE next
  BY DEF evEnemyDead
<1>2. /\ DOMAIN h = Fields /\ h.tasks \in Seq(Tasks) /\ h.pool \in Seq(Nodes) /\ Scheduled(h)
      /\ h.enemies \subseteq Nodes /\ h.kills \in Nat /\ EnemyTotal \in Nat
      /\ h.kills + Cardinality(h.enemies) <= EnemyTotal
  BY GoingIs, StageAssumption DEF Budget
<1>3. /\ Cardinality(h.enemies) \in Nat /\ Cardinality(h.enemies) > 0
      /\ Cardinality(h.enemies \ {n}) = Cardinality(h.enemies) - 1
  BY <1>2, NodesAre
<1>4. h.kills < EnemyTotal /\ Fight(h, s, i)
  <2>1. h.kills < EnemyTotal
    BY <1>2, <1>3
  <2> QED BY <2>1, Fighting
<1>5. /\ DOMAIN dead = Fields /\ dead.tasks = h.tasks /\ dead.kills = h.kills + 1
      /\ dead.enemies = h.enemies \ {n} /\ dead.pool = Append(h.pool, n)
      /\ Only(h, dead, {"kills", "enemies", "pool"})
  <2>1. DOMAIN e = Fields /\ e.kills = h.kills + 1 /\ e.enemies = h.enemies /\ e.pool = h.pool
        /\ e.tasks = h.tasks /\ Only(h, e, {"kills"})
    BY <1>2 DEF Fields, Only
  <2> HIDE DEF e
  <2> QED BY <2>1 DEF destroyEnemyTank, putNode, Fields, Only
<1> HIDE DEF dead
<1>6. dead.pool \in Seq(Nodes) /\ Last(dead.pool) = n
  BY <1>2, <1>5, AppendProperties DEF Last
<1>7. Agree(h, dead, Fields \ {"kills", "enemies", "pool"})
  BY <1>5 DEF Only, Agree
<1>8. /\ Typed(dead) /\ Scheduled(dead) /\ dead.prop = h.prop /\ dead.running = h.running
      /\ dead.page = h.page /\ dead.gameOver = h.gameOver
      /\ Agree(h, dead, {"page", "stage", "running", "gameOver", "live", "lifeNum", "tank"})
  BY <1>2, <1>5, <1>6, <1>7 DEF Typed, Scheduled, Agree, Fields, Going
<1>9. Budget(dead)
  BY <1>2, <1>3, <1>5 DEF Budget
<1>10. LessBut(h, s, i, dead, s, i) /\ Revives(h.tasks, 0, dead.tasks, 0)
  BY <1>5, ThinsSame DEF LessBut
<1>11. t \in Tasks /\ TaskOK(t) /\ t.kind = "win"
  <2>1. "Enemy" = Owner("win") /\ "win" \in Kinds \ {"status"} /\ 0 \in Args
        /\ "win" \in Slow /\ WinTime \in Nat \ {0}
        /\ "win" \notin {"playerBorn", "revive", "shieldEnd"} /\ "win" \notin {"row", "shown"}
    BY DEF Owner, Kinds, Args, Slow, WinTime
  <2> QED BY <2>1, OnceIs
<1> HIDE DEF t
<1>12. CASE dead.kills < EnemyTotal \/ Final(h, s, i)
  <2>1. Going(dead, s, i, d) /\ Fight(dead, s, i)
    BY <1>4, <1>8, <1>9, <1>10, <1>12, FightsOn
  <2>2. /\ Going(next, s, i, d) /\ Fight(next, s, i)
        /\ Only(dead, next, {"enemies", "pool", "borning", "tasks"})
        /\ next.enemies = dead.enemies \/ next.enemies = dead.enemies \cup {n}
    <3>1. CASE isNeedCreateEnemy(dead)
      <4>1. dead.kills + Cardinality(dead.enemies) < EnemyTotal
        BY <3>1 DEF isNeedCreateEnemy, getEnemyAliveNum, getEnemyDeadTotalNum
      <4>2. next = addOneEnemy(dead, place)
        BY <3>1
      <4> HIDE DEF next
      <4> QED BY <1>6, <2>1, <4>1, <4>2, AddsEnemy
    <3>2. CASE ~isNeedCreateEnemy(dead)
      BY <1>5, <2>1, <3>2 DEF Only
    <3> QED BY <3>1, <3>2
  <2> HIDE DEF next
  <2>3. /\ Only(h, next, {"kills", "enemies", "pool", "borning", "tasks"})
        /\ next.enemies = h.enemies \/ next.enemies = h.enemies \ {n}
        /\ next.kills = h.kills + 1
    BY <1>5, <2>2 DEF Only, Fields
  <2>4. CASE ~isGameEnd(next)
    BY <1>1, <2>2, <2>3, <2>4
  <2>5. CASE isGameEnd(next)
    <3>1. next.kills >= EnemyTotal
      BY <2>5 DEF isGameEnd, getEnemyDeadTotalNum
    <3>2. Final(next, s, i)
      BY <1>2, <2>2, <2>3, <3>1 DEF Fight, Running
    <3>3. DOMAIN next = Fields
      BY <2>3 DEF Only
    <3>4. Only(next, win, {"tasks"}) /\ win.tasks = Append(next.tasks, t)
      BY <3>3, SchedulingIs DEF t
    <3> HIDE DEF win
    <3>5. Agree(next, win, Fields \ {"tasks"})
      BY <3>4 DEF Only, Agree
    <3>6. /\ Typed(win) /\ Budget(win) /\ win.prop = next.prop /\ win.enemies = next.enemies
          /\ Agree(next, win, {"page", "stage", "gameOver", "live", "lifeNum", "tank"})
      BY <2>2, <3>5 DEF Typed, Budget, Agree, Fields, Going
    <3>7. Going(win, s, i, d)
      BY <1>11, <2>2, <3>2, <3>4, <3>6, FinalMore
    <3>8. Only(h, win, {"kills", "enemies", "pool", "borning", "tasks"})
      BY <2>3, <3>4 DEF Only, Fields
    <3> QED BY <1>1, <2>3, <2>5, <3>6, <3>7, <3>8
  <2> QED BY <2>4, <2>5
<1>13. CASE dead.kills = EnemyTotal /\ ~Final(h, s, i)
  <2>1. ~isNeedCreateEnemy(dead)
    <3>1. Cardinality(dead.enemies) \in Nat
      BY <1>2, <1>5, NodesAre
    <3> QED BY <1>2, <1>13, <3>1 DEF isNeedCreateEnemy, getEnemyAliveNum, getEnemyDeadTotalNum
  <2>2. next = dead /\ isGameEnd(next)
    BY <1>2, <1>13, <2>1 DEF isGameEnd, getEnemyDeadTotalNum
  <2>3. k = scheduleOnce(dead, "Enemy", "win", 0, WinTime)
    BY <1>1, <2>2
  <2> HIDE DEF next, win
  <2>4. Only(dead, k, {"tasks"}) /\ k.tasks = Append(h.tasks, t)
    BY <1>5, <2>3, SchedulingIs DEF t
  <2>5. Agree(dead, k, Fields \ {"tasks"})
    BY <2>4 DEF Only, Agree
  <2>6. /\ Typed(k) /\ Budget(k) /\ k.prop = h.prop /\ k.running = h.running
        /\ k.page = h.page /\ k.gameOver = h.gameOver /\ k.kills = EnemyTotal
        /\ k.enemies = h.enemies \ {n}
    <3>1. /\ k.prop = dead.prop /\ k.running = dead.running /\ k.page = dead.page
          /\ k.gameOver = dead.gameOver /\ k.kills = dead.kills /\ k.enemies = dead.enemies
      BY <2>5 DEF Agree, Fields
    <3>2. Typed(k)
      BY <1>8, <2>5 DEF Typed, Agree, Fields
    <3>3. Budget(k)
      BY <1>9, <3>1 DEF Budget
    <3> QED BY <1>5, <1>8, <1>13, <3>1, <3>2, <3>3
  <2>7. /\ h.page = "game" /\ h.gameOver = FALSE
        /\ None(h, s, i, On("over")) /\ Running(h, s, i)
    BY <1>4, <1>13 DEF Fight
  <2>8. Agree(h, k, {"live", "lifeNum", "tank", "gameOver"})
    BY <1>7, <2>5 DEF Agree, Fields
  <2>9. PlayersOK(k, s, i)
    BY <1>2, <1>11, <2>4, <2>7, <2>8, PlayersKeep DEF Going
  <2>10. Scheduled(k)
    BY <1>2, <1>11, <2>4, <2>6, ScheduledAppend
  <2>11. None(k, s, i, On("over")) /\ Won(k, s, i)
    <3>1. /\ \A c \in {"over", "start", "row", "shown"} : None(k, s, i, On(c))
          /\ Lone(k, s, i, On("win"))
      BY <1>2, <1>11, <2>4, <2>7, OneMore DEF Running
    <3> QED BY <2>6, <2>7, <3>1 DEF Won, Running
  <2>12. Going(k, s, i, d)
    BY <2>6, <2>7, <2>9, <2>10, <2>11 DEF Going, Phase, Course
  <2>13. Only(h, k, {"kills", "enemies", "pool", "borning", "tasks"})
    BY <1>5, <2>4 DEF Only, Fields
  <2> QED BY <2>6, <2>12, <2>13
<1>14. dead.kills < EnemyTotal \/ dead.kills = EnemyTotal
  BY <1>2, <1>4, <1>5
<1> QED BY <1>12, <1>13, <1>14

\* SetToSeq lists a finite set, everything once.
LEMMA SetToSeqIs ==
  ASSUME NEW S, IsFiniteSet(S), NEW l, l = SetToSeq(S)
  PROVE  /\ l \in Seq(S) /\ Len(l) \in Nat /\ DOMAIN l = 1..Len(l)
         /\ \A x \in 1..Len(l) : l[x] \in S
         /\ \A x, y \in 1..Len(l) : l[x] = l[y] => x = y
         /\ S = {} => Len(l) = 0
<1> DEFINE c == Cardinality(S)
<1>1. c \in Nat /\ ExistsBijection(1..c, S)
  BY FS_CardinalityType
<1>2. PICK b : b \in Bijection(1..c, S)
  BY <1>1 DEF ExistsBijection
<1>3. b \in [1..c -> S] /\ IsInjective(b)
  BY <1>2 DEF Bijection, Injection
<1>4. l \in [1..c -> S] /\ IsInjective(l)
  BY <1>3 DEF SetToSeq
<1>5. S = {} => c = 0
  BY FS_EmptySet
<1> HIDE DEF c
<1>6. l \in Seq(S) /\ Len(l) = c
  BY <1>1, <1>4
<1> QED BY <1>1, <1>4, <1>5, <1>6 DEF IsInjective

\* What the destruction of enemies may change.
Struck == {"kills", "enemies", "pool", "borning", "tasks"}
BombHolds(c, i, a) ==
    /\ Going(a, c.s, c.i, c.d) /\ Only(c.h, a, Struck)
    /\ \A j \in (i + 1)..Len(c.list) : c.list[j] \in a.enemies

\* A record f of the loop that blows enemies up; there is one, and at its end holds what
\* every pass preserves.
BombPasses(c, h, f, n) == f = [i \in 0..n |-> IF i = 0 THEN h ELSE BombOp(c, f[i - 1], i)]
LEMMA BombRecord ==
  ASSUME NEW c, NEW h, NEW n \in Nat
  PROVE  \E f : BombPasses(c, h, f, n)
<1> DEFINE e == <<"bomb", c>>
<1>1. PICK f : Is(e, h, f, n)
  BY Exists
<1>2. \A a, i : Pass(e, a, i) = BombOp(c, a, i)
  BY DEF Pass
<1> HIDE DEF e
<1>3. \A i \in 0..n : (IF i = 0 THEN h ELSE Pass(e, f[i - 1], i))
                      = (IF i = 0 THEN h ELSE BombOp(c, f[i - 1], i))
  BY <1>2
<1>4. BombPasses(c, h, f, n)
  BY <1>1, <1>3 DEF Is, BombPasses
<1> QED BY <1>4

\* What every pass of it preserves.
LEMMA BombFold ==
  ASSUME NEW c, NEW h, NEW n \in Nat, NEW f, BombPasses(c, h, f, n), BombHolds(c, 0, h),
         \A i \in 0..n : \A a : i < n /\ BombHolds(c, i, a) => BombHolds(c, i + 1, BombOp(c, a, i + 1))
  PROVE  BombHolds(c, n, f[n])
<1> DEFINE T == {i \in 0..n : BombHolds(c, i, f[i])}
<1>1. 0 \in T
  BY DEF BombPasses
<1>2. \A i \in 0..n : i < n /\ i \in T => i + 1 \in T
  <2> SUFFICES ASSUME NEW i \in 0..n, i < n, i \in T PROVE i + 1 \in T
    OBVIOUS
  <2>1. f[i + 1] = BombOp(c, f[i], i + 1)
    BY DEF BombPasses
  <2> QED BY <2>1
<1> HIDE DEF T
<1>3. \A i \in 0..n : i \in T
  BY <1>1, <1>2, UpTo
<1>4. n \in T
  BY <1>3
<1> QED BY <1>4 DEF T

\* A bomb destroys each enemy it found once, whoever comes in between.
LEMMA Bombed ==
  ASSUME NEW h, NEW s, NEW i, NEW d, Going(h, s, i, d), NEW place,
         NEW k, k = evPropBomb(h, place)
  PROVE  Going(k, s, i, d) /\ Only(h, k, Struck)
<1> DEFINE l == SetToSeq(h.enemies)
           c == [list |-> l, place |-> place, h |-> h, s |-> s, i |-> i, d |-> d]
           to == CHOOSE to : to = [j \in 0..Len(l) |-> IF j = 0 THEN h ELSE
                                      evEnemyDead(to[j - 1], l[j], place)]
<1>1. k = to[Len(l)]
  BY DEF evPropBomb, ForEach
<1>2. IsFiniteSet(h.enemies)
  BY NodesAre DEF Going, Budget
<1>3. /\ Len(l) \in Nat /\ \A x \in 1..Len(l) : l[x] \in h.enemies
      /\ \A x, y \in 1..Len(l) : l[x] = l[y] => x = y
  BY <1>2, SetToSeqIs
<1> HIDE DEF l
<1>4. BombPasses(c, h, to, Len(l))
  <2>1. \E f : BombPasses(c, h, f, Len(l))
    BY <1>3, BombRecord
  <2> QED BY <2>1 DEF BombPasses, BombOp
<1> HIDE DEF to
<1>5. BombHolds(c, 0, h)
  <2>1. DOMAIN h = Fields
    BY GoingIs
  <2> QED BY <1>3, <2>1 DEF BombHolds, Only
<1>6. ASSUME NEW j \in 0..Len(l), NEW a, j < Len(l), BombHolds(c, j, a)
      PROVE  BombHolds(c, j + 1, BombOp(c, a, j + 1))
  <2> DEFINE b == BombOp(c, a, j + 1)
  <2>1. j + 1 \in 1..Len(l) /\ j + 1 \in (j + 1)..Len(l)
    BY <1>3, <1>6
  <2>2. /\ Going(a, s, i, d) /\ Only(h, a, Struck) /\ l[j + 1] \in a.enemies
        /\ \A x \in (j + 1)..Len(l) : l[x] \in a.enemies
    BY <1>6, <2>1 DEF BombHolds
  <2>3. b = evEnemyDead(a, l[j + 1], place)
    BY DEF BombOp
  <2> HIDE DEF b
  <2>4. /\ Going(b, s, i, d) /\ Only(a, b, Struck)
        /\ b.enemies = a.enemies \/ b.enemies = a.enemies \ {l[j + 1]}
    BY <2>2, <2>3, EnemyDies DEF Struck
  <2>5. Only(h, b, Struck)
    BY <2>2, <2>4 DEF Only
  <2>6. \A x \in (j + 2)..Len(l) : l[x] \in b.enemies
    <3> TAKE x \in (j + 2)..Len(l)
    <3>1. x \in (j + 1)..Len(l) /\ x \in 1..Len(l) /\ x # j + 1
      BY <1>3
    <3>2. l[x] # l[j + 1]
      BY <1>3, <2>1, <3>1
    <3> QED BY <2>2, <2>4, <3>1, <3>2
  <2>7. (j + 1) + 1 = j + 2
    OBVIOUS
  <2>8. BombHolds(c, j + 1, b)
    BY <2>4, <2>5, <2>6, <2>7 DEF BombHolds
  <2> QED BY <2>8 DEF b
<1>7. BombHolds(c, Len(l), to[Len(l)])
  <2> HIDE DEF c
  <2> QED BY <1>3, <1>4, <1>5, <1>6, BombFold
<1> QED BY <1>1, <1>7 DEF BombHolds

HitHolds(c, i, a) == Going(a, c.s, c.i, c.d) /\ Only(c.h, a, Struck)

\* A record f of the loop that takes the enemies that were hit; there is one, and at its end holds what
\* every pass preserves.
HitsPasses(c, h, f, n) == f = [i \in 0..n |-> IF i = 0 THEN h ELSE HitOp(c, f[i - 1], i)]
LEMMA HitsRecord ==
  ASSUME NEW c, NEW h, NEW n \in Nat
  PROVE  \E f : HitsPasses(c, h, f, n)
<1> DEFINE e == <<"hit", c>>
<1>1. PICK f : Is(e, h, f, n)
  BY Exists
<1>2. \A a, i : Pass(e, a, i) = HitOp(c, a, i)
  BY DEF Pass
<1> HIDE DEF e
<1>3. \A i \in 0..n : (IF i = 0 THEN h ELSE Pass(e, f[i - 1], i))
                      = (IF i = 0 THEN h ELSE HitOp(c, f[i - 1], i))
  BY <1>2
<1>4. HitsPasses(c, h, f, n)
  BY <1>1, <1>3 DEF Is, HitsPasses
<1> QED BY <1>4

\* What every pass of it preserves.
LEMMA HitsFold ==
  ASSUME NEW c, NEW h, NEW n \in Nat, NEW f, HitsPasses(c, h, f, n), HitHolds(c, 0, h),
         \A i \in 0..n : \A a : i < n /\ HitHolds(c, i, a) => HitHolds(c, i + 1, HitOp(c, a, i + 1))
  PROVE  HitHolds(c, n, f[n])
<1> DEFINE T == {i \in 0..n : HitHolds(c, i, f[i])}
<1>1. 0 \in T
  BY DEF HitsPasses
<1>2. \A i \in 0..n : i < n /\ i \in T => i + 1 \in T
  <2> SUFFICES ASSUME NEW i \in 0..n, i < n, i \in T PROVE i + 1 \in T
    OBVIOUS
  <2>1. f[i + 1] = HitOp(c, f[i], i + 1)
    BY DEF HitsPasses
  <2> QED BY <2>1
<1> HIDE DEF T
<1>3. \A i \in 0..n : i \in T
  BY <1>1, <1>2, UpTo
<1>4. n \in T
  BY <1>3
<1> QED BY <1>4 DEF T

\* The enemies that were hit, and the prop one of them leaves.
LEMMA EnemiesLastIs ==
  ASSUME NEW h, NEW s, NEW i, NEW d, Going(h, s, i, d), NEW f, f.enemies \subseteq Nodes,
         f.drop = "no" \/ h.air["player"] # 0
  PROVE  Onward(h, EnemiesLast(h, f), s, i, d)
<1> DEFINE l == SetToSeq(f.enemies)
           c == [list |-> l, place |-> f.place, h |-> h, s |-> s, i |-> i, d |-> d]
           to == CHOOSE to : to = [j \in 0..Len(l) |-> IF j = 0 THEN h ELSE
                        IF l[j] \in UpEnemies(to[j - 1])
                        THEN evEnemyDead(to[j - 1], l[j], f.place) ELSE to[j - 1]]
           k == to[Len(l)]
<1>1. EnemiesLast(h, f) = IF f.drop = "no" THEN k ELSE evCreateProp(k, f.drop)
  BY DEF EnemiesLast, ForEach
<1>2. IsFiniteSet(f.enemies)
  BY NodesAre
<1>3. Len(l) \in Nat
  BY <1>2, SetToSeqIs
<1> HIDE DEF l
<1>4. HitsPasses(c, h, to, Len(l))
  <2>1. \E t : HitsPasses(c, h, t, Len(l))
    BY <1>3, HitsRecord
  <2> QED BY <2>1 DEF HitsPasses, HitOp
<1> HIDE DEF to
<1>5. HitHolds(c, 0, h)
  <2>1. DOMAIN h = Fields
    BY GoingIs
  <2> QED BY <2>1 DEF HitHolds, Only
<1>6. ASSUME NEW j \in 0..Len(l), NEW a, j < Len(l), HitHolds(c, j, a)
      PROVE  HitHolds(c, j + 1, HitOp(c, a, j + 1))
  <2> DEFINE b == HitOp(c, a, j + 1)
             n == l[j + 1]
  <2>1. Going(a, s, i, d) /\ Only(h, a, Struck)
    BY <1>6 DEF HitHolds
  <2>2. b = IF n \in UpEnemies(a) THEN evEnemyDead(a, n, f.place) ELSE a
    BY DEF HitOp
  <2> HIDE DEF b, n
  <2>3. CASE n \notin UpEnemies(a)
    BY <2>1, <2>2, <2>3 DEF HitHolds, b
  <2>4. CASE n \in UpEnemies(a)
    <3>1. n \in a.enemies
      BY <2>4 DEF UpEnemies
    <3>2. Going(b, s, i, d) /\ Only(a, b, Struck)
      BY <2>1, <2>2, <2>4, <3>1, EnemyDies DEF Struck
    <3>3. Only(h, b, Struck)
      BY <2>1, <3>2 DEF Only
    <3>4. HitHolds(c, j + 1, b)
      BY <3>2, <3>3 DEF HitHolds
    <3> QED BY <3>4 DEF b
  <2> QED BY <2>3, <2>4
<1>7. HitHolds(c, Len(l), to[Len(l)])
  <2> HIDE DEF c
  <2> QED BY <1>3, <1>4, <1>5, <1>6, HitsFold
<1>8. Going(k, s, i, d) /\ Only(h, k, Struck)
  BY <1>7 DEF HitHolds
<1> HIDE DEF k
<1>9. Onward(h, k, s, i, d)
  BY <1>8 DEF Onward, Only, Struck, Fields
<1>10. CASE f.drop = "no"
  BY <1>1, <1>9, <1>10
<1>11. CASE f.drop # "no"
  <2>1. k.air = h.air
    BY <1>9 DEF Onward
  <2>2. Onward(k, evCreateProp(k, f.drop), s, i, d)
    BY <1>8, <1>11, <2>1, CreatesProp
  <2> QED BY <1>1, <1>9, <1>11, <2>2 DEF Onward
<1> QED BY <1>10, <1>11
-----------------------------------------------------------------------------
(* Players *)

\* The next task that is due is less.
LEMMA Consumed ==
  ASSUME NEW h, NEW s \in Seq(Tasks), NEW i \in Nat, i < Len(s)
  PROVE  /\ Less(h, s, i, h, s, i + 1) /\ LessBut(h, s, i, h, s, i + 1)
         /\ Revives(h.tasks, 0, h.tasks, 0)
         /\ s[i + 1].kind # "revive" => Revives(s, i, s, i + 1)
<1>1. Thins(s, i, s, i + 1)
  BY Consuming DEF Thins
<1>2. Thins(h.tasks, 0, h.tasks, 0) /\ Revives(h.tasks, 0, h.tasks, 0)
  BY ThinsSame
<1>3. ASSUME s[i + 1].kind # "revive" PROVE Revives(s, i, s, i + 1)
  <2>1. \A p : ~Like(s[i + 1], By("revive", p))
    BY <1>3 DEF Like, By
  <2> QED BY <2>1, Consuming DEF Revives
<1> QED BY <1>1, <1>2, <1>3, ThinsSame DEF Less, LessBut

\* So a task that does nothing of its own leaves the course alone.
LEMMA Passed ==
  ASSUME NEW h, NEW s \in Seq(Tasks), NEW i \in Nat, i < Len(s), NEW d, Going(h, s, i, d),
         s[i + 1].kind # "revive"
  PROVE  Going(h, s, i + 1, d)
<1>1. Agree(h, h, Core) /\ PropFree(h, h) /\ Scheduled(h)
  BY GoingIs DEF Agree, PropFree
<1> QED BY <1>1, Consumed, GoingLess

\* A birth or a revival that is scheduled lets the stage go on, unless its
\* result is shown too far for it.
LEMMA PhaseOwn ==
  ASSUME NEW h, NEW s, NEW i, NEW d, NEW t \in Tasks, t.kind \in {"playerBorn", "revive"},
         h.tasks \in Seq(Tasks), NEW k, k.tasks = Append(h.tasks, t),
         Agree(h, k, {"page", "stage", "running", "gameOver", "kills", "prop", "enemies",
                      "data", "panel", "finishNum", "air"}),
         Phase(h, s, i, d),
         ~Shown(h, s, i),
         \A r \in 1..Rows : d = 1 /\ OldRow(h, s, i, r) => r = 1 /\ t.kind = "playerBorn",
         \A r \in 1..Rows : NewRow(h, s, i, d, r) => r = 1 \/ t.kind = "playerBorn"
  PROVE  Phase(k, s, i, d) /\ (Final(h, s, i) => Final(k, s, i))
<1>1. /\ k.stage = h.stage /\ k.gameOver = h.gameOver /\ k.page = h.page
      /\ k.kills = h.kills /\ k.air = h.air
      /\ k.finishNum = h.finishNum /\ k.panel = h.panel /\ k.prop = h.prop
      /\ k.running = h.running /\ k.data = h.data /\ k.enemies = h.enemies
  BY DEF Agree
<1>2. \A c : c # t.kind =>
          /\ None(h, s, i, On(c)) => None(k, s, i, On(c))
          /\ Lone(h, s, i, On(c)) => Lone(k, s, i, On(c))
          /\ \A q \in 0..2 : Most(h.tasks, 0, On(c), q) => Most(k.tasks, 0, On(c), q)
  BY OneMore
<1>3. \A r, n : None(h, s, i, Stray(r, n)) => None(k, s, i, Stray(r, n))
  BY OneMore
<1>4. Final(h, s, i) => Final(k, s, i)
  BY <1>1, <1>2 DEF Final
<1>5. Prepared(h, s, i) => Prepared(k, s, i)
  BY <1>1, <1>2 DEF Prepared
<1>6. Running(h, s, i) => Running(k, s, i)
  BY <1>1, <1>2 DEF Running
<1>7. Won(h, s, i) => Won(k, s, i)
  BY <1>1, <1>2 DEF Won
<1>8. Ended(h, s, i) => Ended(k, s, i)
  BY <1>1, <1>2 DEF Ended
<1>9. Stuck(h, s, i) => Stuck(k, s, i)
  BY <1>1, <1>2 DEF Stuck
<1>10. ASSUME NEW r \in 1..Rows, NewRow(h, s, i, d, r) PROVE NewRow(k, s, i, d, r)
  <2>1. /\ Most(h.tasks, 0, On("row"), Seats) => Most(k.tasks, 0, On("row"), Seats)
        /\ r > 1 => (Most(h.tasks, 0, On("revive"), 0) => Most(k.tasks, 0, On("revive"), 0))
        /\ None(h, s, i, On("shown")) => None(k, s, i, On("shown"))
    BY <1>2, <1>10, SeatsAre DEF Rows
  <2> QED BY <1>1, <1>3, <1>8, <1>10, <2>1 DEF NewRow
<1>11. ASSUME NEW r \in 1..Rows, d = 1, OldRow(h, s, i, r) PROVE OldRow(k, s, i, r)
  <2>1. /\ Most(h.tasks, 0, On("row"), 0) => Most(k.tasks, 0, On("row"), 0)
        /\ Most(h.tasks, 0, On("revive"), 0) => Most(k.tasks, 0, On("revive"), 0)
        /\ None(h, s, i, On("shown")) => None(k, s, i, On("shown"))
        /\ r = 1
    BY <1>2, <1>11
  <2>2. RowsLeft(k, r) = RowsLeft(h, r)
    BY <1>1 DEF RowsLeft
  <2> QED BY <1>1, <1>3, <1>8, <1>11, <2>1, <2>2 DEF OldRow
<1>12. Course(h, s, i, d) => Course(k, s, i, d)
  BY <1>5, <1>6, <1>7, <1>9, <1>10, <1>11 DEF Course
<1>13. None(h, s, i, On("over")) => None(k, s, i, On("over"))
  BY <1>2
<1> QED BY <1>1, <1>4, <1>12, <1>13 DEF Phase

\* The tasks of the players.
OwnTask(p, t) ==
    t = Once("Ani", "playerBorn", p, BornTime) \/ t = Once("Player", "revive", p, Revive)

\* Such a task counts for its player and for its kind only.
LEMMA OwnIs ==
  ASSUME NEW p \in Players, NEW t, OwnTask(p, t)
  PROVE  /\ t \in Tasks /\ TaskOK(t) /\ t.kind \in {"playerBorn", "revive"}
         /\ t = Once("Ani", "playerBorn", p, BornTime) => t.kind = "playerBorn"
         /\ t = Once("Player", "revive", p, Revive) => t.kind = "revive"
         /\ \A c, q : Like(t, By(c, q)) => t.kind = c
         /\ \A q \in Players : Like(t, By(t.kind, q)) <=> q = p
<1>1. p \in Args /\ BornTime = 1 /\ Revive = 1 /\ 1 \in Nat \ {0}
  BY DEF Players, Args, BornTime, Revive
<1>2. /\ "Ani" = Owner("playerBorn") /\ "playerBorn" \in Kinds \ {"status"}
      /\ "playerBorn" \notin {"row", "shown"}
      /\ "Player" = Owner("revive") /\ "revive" \in Kinds \ {"status"}
      /\ "revive" \notin {"row", "shown"}
  BY DEF Owner, Kinds
<1>3. CASE t = Once("Ani", "playerBorn", p, BornTime)
  <2>1. t \in Tasks /\ TaskOK(t) /\ t.kind = "playerBorn" /\ t.arg = p
    BY <1>1, <1>2, <1>3, OnceIs
  <2>2. t # Once("Player", "revive", p, Revive)
    BY <2>1 DEF Once, Task
  <2> QED BY <2>1, <2>2 DEF Like, By
<1>4. CASE t = Once("Player", "revive", p, Revive)
  <2>1. t \in Tasks /\ TaskOK(t) /\ t.kind = "revive" /\ t.arg = p
    BY <1>1, <1>2, <1>4, OnceIs
  <2>2. t # Once("Ani", "playerBorn", p, BornTime)
    BY <2>1 DEF Once, Task
  <2> QED BY <2>1, <2>2 DEF Like, By
<1> QED BY <1>3, <1>4 DEF OwnTask

\* What one player does is of no concern to the other.
Aside(h, s, i, k, s2, i2, p) ==
    \A q \in Players \ {p} :
        /\ k.live[q] = h.live[q] /\ k.lifeNum[q] = h.lifeNum[q] /\ k.tank[q] = h.tank[q]
        /\ \A c \in {"playerBorn", "revive"} :
              /\ None(h, s, i, By(c, q)) <=> None(k, s2, i2, By(c, q))
              /\ Lone(h, s, i, By(c, q)) => Lone(k, s2, i2, By(c, q))
\* What is left to say of all of them.
Table(k) ==
    /\ k.live \in [Players -> BOOLEAN] /\ k.lifeNum \in [Players -> Nat]
    /\ k.tank \in [Players -> {"none", "borning", "up"}]
    /\ k.gameOver = FALSE => \E p \in Players : k.live[p] = TRUE \/ k.lifeNum[p] > 0

\* Whoever changes one player only needs to put that one in order.
LEMMA PlayersBut ==
  ASSUME NEW h, NEW s, NEW i, NEW k, NEW s2, NEW i2, NEW p \in Players, PlayersOK(h, s, i),
         Aside(h, s, i, k, s2, i2, p), PlayerOK(k, s2, i2, p), Table(k)
  PROVE  PlayersOK(k, s2, i2)
<1>1. ASSUME NEW q \in Players PROVE PlayerOK(k, s2, i2, q)
  <2>1. CASE q = p
    BY <2>1
  <2>2. CASE q # p
    <3>1. PlayerOK(h, s, i, q)
      BY DEF PlayersOK
    <3>2. /\ k.live[q] = h.live[q] /\ k.lifeNum[q] = h.lifeNum[q] /\ k.tank[q] = h.tank[q]
          /\ None(h, s, i, By("playerBorn", q)) <=> None(k, s2, i2, By("playerBorn", q))
          /\ Lone(h, s, i, By("playerBorn", q)) => Lone(k, s2, i2, By("playerBorn", q))
          /\ None(h, s, i, By("revive", q)) <=> None(k, s2, i2, By("revive", q))
          /\ Lone(h, s, i, By("revive", q)) => Lone(k, s2, i2, By("revive", q))
      BY <2>2 DEF Aside
    <3> QED BY <3>1, <3>2 DEF PlayerOK
  <2> QED BY <2>1, <2>2
<1> QED BY <1>1 DEF PlayersOK, Table

\* Of the tasks of players, those of the kind and of p may have changed.
Same(h, s, i, k, s2, i2, kind, p) ==
    \A c \in {"playerBorn", "revive"}, q \in Players : c # kind \/ q # p =>
        /\ None(h, s, i, By(c, q)) <=> None(k, s2, i2, By(c, q))
        /\ Lone(h, s, i, By(c, q)) => Lone(k, s2, i2, By(c, q))

\* Scheduling a task of p leaves those of the other player, and p gets one.
LEMMA OwnMore ==
  ASSUME NEW h, h.tasks \in Seq(Tasks), NEW s, NEW i, NEW k, NEW p \in Players,
         NEW t, OwnTask(p, t), k.tasks = Append(h.tasks, t), NEW kind, kind = t.kind
  PROVE  /\ Same(h, s, i, k, s, i, kind, p)
         /\ ~None(k, s, i, By(kind, p))
         /\ None(h, s, i, By(kind, p)) => Lone(k, s, i, By(kind, p))
         /\ OwnTask(p, t)
<1>1. t \in Tasks
  BY OwnIs
<1>2. ASSUME NEW c \in {"playerBorn", "revive"}, NEW q \in Players, c # t.kind \/ q # p
      PROVE  /\ None(h, s, i, By(c, q)) <=> None(k, s, i, By(c, q))
             /\ Lone(h, s, i, By(c, q)) => Lone(k, s, i, By(c, q))
  <2>1. ~Like(t, By(c, q))
    BY <1>2, OwnIs
  <2>2. \A r \in 0..2 : Most(k.tasks, 0, By(c, q), r) <=> Most(h.tasks, 0, By(c, q), r)
    BY <1>1, <2>1, Appending
  <2> QED BY <2>2 DEF None, Lone
<1>3. Like(t, By(t.kind, p))
  BY OwnIs
<1>4. ~Most(k.tasks, 0, By(t.kind, p), 0)
  BY <1>1, <1>3, Appending
<1>5. Most(h.tasks, 0, By(t.kind, p), 0) => Most(k.tasks, 0, By(t.kind, p), 1)
  BY <1>1, <1>3, Appending
<1>6. Most(s, i, By(t.kind, p), 0) => Most(s, i, By(t.kind, p), 1)
  BY MostUp
<1>7. Same(h, s, i, k, s, i, kind, p)
  BY <1>2 DEF Same
<1> QED BY <1>4, <1>5, <1>6, <1>7 DEF None, Lone

\* A player gains a life, or is up.
LEMMA MoreLife ==
  ASSUME NEW h, NEW s, NEW i, NEW d, Going(h, s, i, d), NEW p \in Players, h.tank[p] = "up",
         NEW k, k = [h EXCEPT !.lifeNum[p] = @ + 1]
  PROVE  Onward(h, k, s, i, d)
<1>1. DOMAIN h = Fields /\ h.tasks \in Seq(Tasks) /\ Scheduled(h)
  BY GoingIs
<1>2. Only(h, k, {"lifeNum"}) /\ k.tasks = h.tasks /\ k.prop = h.prop
  BY <1>1 DEF Only, Fields
<1>3. /\ Agree(h, k, {"page", "stage", "running", "gameOver", "kills",
                      "data", "panel", "finishNum", "air"})
      /\ Typed(k) /\ Budget(k) /\ Scheduled(k)
      /\ k.stage = h.stage /\ k.page = h.page /\ k.air = h.air
  <2>1. Agree(h, k, Fields \ {"lifeNum"})
    BY <1>2 DEF Only, Agree
  <2>2. Typed(k)
    BY <2>1 DEF Typed, Agree, Fields, Going
  <2>3. Budget(k) /\ Scheduled(k)
    BY <1>1, <2>1 DEF Budget, Scheduled, Agree, Fields, Going
  <2> QED BY <2>1, <2>2, <2>3 DEF Agree, Fields
<1>4. LessBut(h, s, i, k, s, i) /\ PropFree(h, k) /\ EnemyFree(h, k) /\ BornFree(h, k)
  <2>1. k.enemies = h.enemies
    BY <1>2 DEF Only, Fields
  <2> QED BY <1>2, <2>1, ThinsSame DEF LessBut, PropFree, EnemyFree, BornFree
<1>5. Phase(k, s, i, d)
  BY <1>3, <1>4, PhaseWith DEF Going, Typed
<1>6. ASSUME k.page = "game" PROVE PlayersOK(k, s, i)
  <2>1. PlayersOK(h, s, i) /\ PlayerOK(h, s, i, p)
    BY <1>3, <1>6 DEF Going, PlayersOK
  <2>2. k.live = h.live /\ k.tank = h.tank /\ k.gameOver = h.gameOver
    BY <1>2 DEF Only, Fields
  <2>3. k.lifeNum = [h.lifeNum EXCEPT ![p] = @ + 1]
    BY <1>1 DEF Fields
  <2>4. k.live[p] = TRUE
    BY <2>1, <2>2 DEF PlayerOK
  <2>5. \A c : /\ None(k, s, i, c) <=> None(h, s, i, c)
               /\ Lone(k, s, i, c) <=> Lone(h, s, i, c)
    BY <1>2 DEF None, Lone
  <2>6. k.lifeNum \in [Players -> Nat]
    BY <2>1, <2>3 DEF PlayersOK
  <2>7. PlayerOK(k, s, i, p)
    BY <2>1, <2>2, <2>4, <2>5 DEF PlayerOK
  <2>8. Aside(h, s, i, k, s, i, p)
    BY <2>1, <2>2, <2>3, <2>5 DEF Aside, PlayersOK
  <2>9. Table(k)
    BY <2>1, <2>2, <2>4, <2>6 DEF PlayersOK, Table
  <2> QED BY <2>1, <2>7, <2>8, <2>9, PlayersBut
<1>7. Going(k, s, i, d)
  BY <1>3, <1>5, <1>6 DEF Going
<1> QED BY <1>3, <1>7 DEF Onward

\* The end of a game that has begun: what fields gameOver leaves alone is all.
LEMMA OverIs ==
  ASSUME NEW h, DOMAIN h = Fields, NEW k, k = gameOver(h)
  PROVE  /\ Only(h, k, {"gameOver", "enable", "tasks"}) /\ k.gameOver = TRUE
         /\ k.tasks = Append(h.tasks, Once("Ani", "over", 0, OverTime))
<1> DEFINE e == [h EXCEPT !.gameOver = TRUE, !.enable = FALSE]
<1>1. DOMAIN e = Fields /\ Only(h, e, {"gameOver", "enable"}) /\ e.tasks = h.tasks
      /\ e.gameOver = TRUE
  BY DEF Fields, Only
<1>2. k = scheduleOnce(e, "Ani", "over", 0, OverTime)
  BY DEF gameOver, playUnitAniInTime, playPrefabAni
<1> HIDE DEF e
<1>3. Only(e, k, {"tasks"}) /\ k.tasks = Append(e.tasks, Once("Ani", "over", 0, OverTime))
  BY <1>1, <1>2, SchedulingIs
<1> QED BY <1>1, <1>3 DEF Only, Fields

\* The end of the game is scheduled as a task the model knows.
LEMMA OverTask ==
  ASSUME NEW t, t = Once("Ani", "over", 0, OverTime)
  PROVE  t \in Tasks /\ TaskOK(t) /\ t.kind = "over"
<1>1. /\ "Ani" = Owner("over") /\ "over" \in Kinds \ {"status"} /\ 0 \in Args
      /\ OverTime = 1 /\ 1 \in Nat \ {0}
      /\ "over" \notin {"playerBorn", "revive", "shieldEnd"} /\ "over" \notin {"row", "shown"}
  BY DEF Owner, Kinds, Args, OverTime
<1> QED BY <1>1, OnceIs

\* Under fire, no start of a stage is pending.
LEMMA UnderFire ==
  ASSUME NEW h, NEW s, NEW i, NEW d, Phase(h, s, i, d), h.air["player"] # 0 \/ h.air["enemy"] # 0
  PROVE  None(h, s, i, On("start")) /\ ~Prepared(h, s, i)
<1>1. ~Prepared(h, s, i)
  BY DEF Prepared
<1>2. Course(h, s, i, d) => None(h, s, i, On("start"))
  BY <1>1 DEF Course, Running, Won, Ended, NewRow, OldRow, Shown, Stuck
<1> QED BY <1>1, <1>2 DEF Phase, Final

\* The home is destroyed.
LEMMA HomeLastIs ==
  ASSUME NEW h, NEW s, NEW i, NEW d, Going(h, s, i, d), NEW f,
         f.home => h.air["player"] # 0 \/ h.air["enemy"] # 0
  PROVE  Onward(h, HomeLast(h, f), s, i, d)
<1>1. DOMAIN h = Fields /\ h.tasks \in Seq(Tasks) /\ Scheduled(h) /\ h.page \in {"game", "success"}
  BY GoingIs
<1>2. CASE ~f.home
  BY <1>2 DEF HomeLast, Onward
<1>3. CASE f.home
  <2> DEFINE e == [h EXCEPT !.home = FALSE]
             k == gameOver(e)
             t == Once("Ani", "over", 0, OverTime)
  <2>1. HomeLast(h, f) = k
    BY <1>3 DEF HomeLast
  <2>2. DOMAIN e = Fields /\ Only(h, e, {"home"}) /\ e.tasks = h.tasks
    BY <1>1 DEF Fields, Only
  <2> HIDE DEF e
  <2>3. Only(e, k, {"gameOver", "enable", "tasks"}) /\ k.gameOver = TRUE /\ k.tasks = Append(h.tasks, t)
    BY <2>2, OverIs
  <2>4. t \in Tasks /\ TaskOK(t) /\ t.kind = "over"
    BY OverTask
  <2> HIDE DEF k, t
  <2>5. Agree(h, k, Fields \ {"gameOver", "enable", "tasks", "home"})
    BY <2>2, <2>3 DEF Only, Agree
  <2>6. /\ Typed(k) /\ Budget(k) /\ k.prop = h.prop
        /\ k.stage = h.stage /\ k.page = h.page /\ k.air = h.air
    BY <2>3, <2>5 DEF Typed, Budget, Agree, Fields, Going
  <2>7. Scheduled(k)
    BY <1>1, <2>3, <2>4, <2>6, ScheduledAppend
  <2>8. None(k, s, i, On("start"))
    <3>1. None(h, s, i, On("start"))
      BY <1>3, UnderFire DEF Going
    <3> QED BY <1>1, <2>3, <2>4, <3>1, OneMore
  <2>9. Final(k, s, i)
    <3>1. h.page = "success" => h.stage >= LastStage
      BY DEF Going, Phase, Final
    <3> QED BY <1>1, <2>3, <2>6, <2>8, <3>1 DEF Final
  <2>10. ASSUME k.page = "game" PROVE PlayersOK(k, s, i)
    <3>1. PlayersOK(h, s, i)
      BY <2>6, <2>10 DEF Going
    <3> DEFINE m == [h EXCEPT !.tasks = k.tasks]
    <3>2. m.tasks = Append(h.tasks, t) /\ Agree(h, m, {"live", "lifeNum", "tank", "gameOver"})
      BY <1>1, <2>3 DEF Agree, Fields
    <3> HIDE DEF m
    <3>3. PlayersOK(m, s, i)
      BY <1>1, <2>4, <3>1, <3>2, PlayersKeep
    <3>4. k.live = m.live /\ k.lifeNum = m.lifeNum /\ k.tank = m.tank /\ k.tasks = m.tasks
      BY <2>3, <2>5, <3>2 DEF Agree, Fields
    <3> QED BY <2>3, <3>3, <3>4 DEF PlayersOK, PlayerOK, None, Lone
  <2>11. Going(k, s, i, d)
    BY <2>6, <2>7, <2>9, <2>10 DEF Going, Phase
  <2> QED BY <2>1, <2>6, <2>11 DEF Onward
<1> QED BY <1>2, <1>3

\* The tasks of the other player are as they were.
LEMMA AsideSame ==
  ASSUME NEW h, NEW s, NEW i, NEW k, NEW s2, NEW i2, NEW kind, NEW p \in Players,
         Same(h, s, i, k, s2, i2, kind, p),
         \A q \in Players \ {p} :
            k.live[q] = h.live[q] /\ k.lifeNum[q] = h.lifeNum[q] /\ k.tank[q] = h.tank[q]
  PROVE  Aside(h, s, i, k, s2, i2, p)
BY DEF Aside, Same

\* A player dies: it comes back, or it has no life left and the other plays on,
\* or the game is over.
LEMMA PlayerDies ==
  ASSUME NEW h, NEW s, NEW i, Going(h, s, i, 0), NEW p \in Players, h.tank[p] = "up",
         h.air["enemy"] # 0, NEW k, k = evPlayerDead(h, p)
  PROVE  Onward(h, k, s, i, 0)
<1> DEFINE dead == [h EXCEPT !.live[p] = FALSE, !.level[p] = 1, !.tank[p] = "none"]
           next == IF dead.lifeNum[p] > 0
                   THEN scheduleOnce(dead, "Player", "revive", p, Revive) ELSE dead
           t == Once("Player", "revive", p, Revive)
           o == Once("Ani", "over", 0, OverTime)
<1>1. k = IF \A q \in Players : isPlayerNoLife(next, q) THEN gameOver(next) ELSE next
  BY DEF evPlayerDead
<1>2. DOMAIN h = Fields /\ h.tasks \in Seq(Tasks) /\ Scheduled(h) /\ h.page \in {"game", "success"}
  BY GoingIs
<1>3. Only(h, dead, {"live", "level", "tank"}) /\ dead.tasks = h.tasks
      /\ dead.lifeNum = h.lifeNum
  BY <1>2 DEF Only, Fields
<1>11. dead.live = [h.live EXCEPT ![p] = FALSE] /\ dead.tank = [h.tank EXCEPT ![p] = "none"]
  BY <1>2 DEF Fields
<1> HIDE DEF dead
<1>4. DOMAIN dead = Fields
  BY <1>3 DEF Only
<1>5. Agree(h, dead, Fields \ {"live", "level", "tank"})
  BY <1>3 DEF Only, Agree
<1>6. /\ Typed(dead) /\ Budget(dead) /\ Scheduled(dead) /\ dead.prop = h.prop
      /\ dead.stage = h.stage /\ dead.page = h.page /\ dead.air = h.air
      /\ dead.gameOver = h.gameOver /\ dead.enemies = h.enemies
      /\ Agree(h, dead, {"page", "stage", "running", "gameOver", "kills",
                      "data", "panel", "finishNum", "air"})
  <2>1. Typed(dead)
    BY <1>5 DEF Typed, Agree, Fields, Going
  <2>2. Budget(dead) /\ Scheduled(dead)
    BY <1>2, <1>5 DEF Budget, Scheduled, Agree, Fields, Going
  <2> QED BY <1>5, <2>1, <2>2 DEF Agree, Fields
<1>7. None(h, s, i, On("start")) /\ ~Prepared(h, s, i) /\ Phase(h, s, i, 0)
  BY UnderFire DEF Going
<1>8. ASSUME k.page = "game", dead.page = k.page
      PROVE  /\ PlayersOK(h, s, i)
             /\ dead.live \in [Players -> BOOLEAN] /\ dead.lifeNum \in [Players -> Nat]
             /\ dead.tank \in [Players -> {"none", "borning", "up"}]
             /\ dead.live[p] = FALSE /\ dead.tank[p] = "none"
             /\ None(h, s, i, By("playerBorn", p)) /\ None(h, s, i, By("revive", p))
             /\ Lone(h, s, i, By("playerBorn", p)) /\ Lone(h, s, i, By("revive", p))
             /\ \A q \in Players \ {p} : /\ dead.live[q] = h.live[q]
                                         /\ dead.lifeNum[q] = h.lifeNum[q]
                                         /\ dead.tank[q] = h.tank[q]
  <2>1. PlayersOK(h, s, i)
    BY <1>6, <1>8 DEF Going
  <2>2. PlayerOK(h, s, i, p)
    BY <2>1 DEF PlayersOK
  <2>3. None(h, s, i, By("playerBorn", p)) /\ None(h, s, i, By("revive", p))
        /\ Lone(h, s, i, By("playerBorn", p)) /\ Lone(h, s, i, By("revive", p))
    BY <2>2 DEF PlayerOK
  <2> QED BY <1>3, <1>11, <2>1, <2>3 DEF PlayersOK
<1>9. CASE dead.lifeNum[p] > 0
  <2>1. next = scheduleOnce(dead, "Player", "revive", p, Revive)
    BY <1>9
  <2> HIDE DEF next
  <2>2. Only(dead, next, {"tasks"}) /\ next.tasks = Append(h.tasks, t)
    BY <1>3, <1>4, <2>1, SchedulingIs
  <2>3. next.lifeNum[p] > 0 /\ next.lifeNum = dead.lifeNum
    BY <1>9, <2>2 DEF Only, Fields
  <2>4. k = next
    <3>1. ASSUME isPlayerNoLife(next, p) PROVE FALSE
      BY <2>3, <3>1 DEF isPlayerNoLife
    <3> QED BY <1>1, <3>1
  <2>5. Agree(dead, k, Fields \ {"tasks"})
    BY <2>2, <2>4 DEF Only, Agree
  <2>6. OwnTask(p, t) /\ t \in Tasks /\ TaskOK(t) /\ t.kind = "revive"
        /\ t.kind \in {"playerBorn", "revive"}
    <3>1. OwnTask(p, t)
      BY DEF OwnTask
    <3> QED BY <3>1, OwnIs
  <2> HIDE DEF t
  <2>7. /\ Typed(k) /\ Budget(k) /\ k.prop = h.prop /\ k.tasks = Append(h.tasks, t)
        /\ k.stage = h.stage /\ k.page = h.page /\ k.air = h.air /\ k.gameOver = h.gameOver
        /\ k.live = dead.live /\ k.lifeNum = dead.lifeNum /\ k.tank = dead.tank
    <3>1. Typed(k)
      BY <1>6, <2>5 DEF Typed, Agree, Fields
    <3>2. Budget(k)
      BY <1>6, <2>5 DEF Budget, Agree, Fields
    <3> QED BY <1>6, <2>2, <2>4, <2>5, <3>1, <3>2 DEF Agree, Fields
  <2>8. Scheduled(k)
    BY <1>2, <2>6, <2>7, ScheduledAppend
  <2>9. Phase(k, s, i, 0)
    <3>1. Agree(h, k, {"page", "stage", "running", "gameOver", "kills", "prop", "enemies",
                      "data", "panel", "finishNum", "air"})
      BY <1>5, <2>5 DEF Agree, Fields
    <3>2. ~Shown(h, s, i)
      BY DEF Shown
    <3>3. \A r \in 1..Rows : NewRow(h, s, i, 0, r) => r = 1
      <4>1. h.air["enemy"] \in Nat
        BY GoingIs DEF Flight
      <4> QED BY <4>1 DEF NewRow, Rows
    <3> QED BY <1>2, <1>7, <2>6, <2>7, <3>1, <3>2, <3>3, PhaseOwn
  <2>10. ASSUME k.page = "game" PROVE PlayersOK(k, s, i)
    <3>1. /\ PlayersOK(h, s, i)
          /\ dead.live \in [Players -> BOOLEAN] /\ dead.lifeNum \in [Players -> Nat]
          /\ dead.tank \in [Players -> {"none", "borning", "up"}]
          /\ dead.live[p] = FALSE /\ dead.tank[p] = "none"
          /\ None(h, s, i, By("playerBorn", p)) /\ None(h, s, i, By("revive", p))
          /\ Lone(h, s, i, By("playerBorn", p))
          /\ \A q \in Players \ {p} : /\ dead.live[q] = h.live[q]
                                      /\ dead.lifeNum[q] = h.lifeNum[q]
                                      /\ dead.tank[q] = h.tank[q]
      BY <1>6, <1>8, <2>7, <2>10
    <3>2. /\ Same(h, s, i, k, s, i, "revive", p) /\ ~None(k, s, i, By("revive", p))
          /\ None(h, s, i, By("revive", p)) => Lone(k, s, i, By("revive", p))
      BY <1>2, <2>6, <2>7, OwnMore
    <3>6. Aside(h, s, i, k, s, i, p)
      BY <2>7, <3>1, <3>2, AsideSame
    <3>3. /\ ~None(k, s, i, By("revive", p)) /\ Lone(k, s, i, By("revive", p))
          /\ None(k, s, i, By("playerBorn", p)) /\ Lone(k, s, i, By("playerBorn", p))
      BY <3>1, <3>2 DEF Same
    <3>4. PlayerOK(k, s, i, p)
      BY <1>9, <2>7, <3>1, <3>3 DEF PlayerOK
    <3>5. Table(k)
      BY <1>9, <2>7, <3>1 DEF Table
    <3> QED BY <3>1, <3>4, <3>5, <3>6, PlayersBut
  <2>11. Going(k, s, i, 0)
    BY <2>7, <2>8, <2>9, <2>10 DEF Going
  <2> QED BY <2>7, <2>11 DEF Onward
<1>10. CASE ~(dead.lifeNum[p] > 0)
  <2>1. next = dead
    BY <1>10
  <2> HIDE DEF next
  <2>2. LessBut(h, s, i, dead, s, i)
    BY <1>3, ThinsSame DEF LessBut
  <2>3. Phase(dead, s, i, 0) /\ (Final(h, s, i) => Final(dead, s, i))
    <3>1. PropFree(h, dead) /\ EnemyFree(h, dead) /\ BornFree(h, dead)
      BY <1>3, <1>6 DEF PropFree, EnemyFree, BornFree
    <3> QED BY <1>6, <1>7, <2>2, <3>1, PhaseWith DEF Going, Typed
  <2>4. \A c : /\ None(dead, s, i, c) <=> None(h, s, i, c)
               /\ Lone(dead, s, i, c) <=> Lone(h, s, i, c)
    BY <1>3 DEF None, Lone
  <2>5. ASSUME NEW m, m.page = "game", m.page = k.page, dead.page = k.page, Table(m),
               m.live = dead.live, m.lifeNum = dead.lifeNum, m.tank = dead.tank,
               \A c \in {"playerBorn", "revive"}, q \in Players :
                  /\ None(h, s, i, By(c, q)) <=> None(m, s, i, By(c, q))
                  /\ Lone(h, s, i, By(c, q)) => Lone(m, s, i, By(c, q))
        PROVE  PlayersOK(m, s, i)
    <3>1. /\ PlayersOK(h, s, i)
          /\ dead.live[p] = FALSE /\ dead.tank[p] = "none" /\ dead.lifeNum \in [Players -> Nat]
          /\ None(h, s, i, By("playerBorn", p)) /\ None(h, s, i, By("revive", p))
          /\ Lone(h, s, i, By("playerBorn", p)) /\ Lone(h, s, i, By("revive", p))
          /\ \A q \in Players \ {p} : /\ dead.live[q] = h.live[q]
                                      /\ dead.lifeNum[q] = h.lifeNum[q]
                                      /\ dead.tank[q] = h.tank[q]
      BY <1>8, <2>5
    <3>2. Aside(h, s, i, m, s, i, p)
      BY <2>5, <3>1 DEF Aside
    <3>3. PlayerOK(m, s, i, p)
      BY <1>10, <2>5, <3>1 DEF PlayerOK
    <3> QED BY <2>5, <3>1, <3>2, <3>3, PlayersBut
  <2>6. CASE \A q \in Players : isPlayerNoLife(dead, q)
    <3>1. k = gameOver(dead)
      BY <1>1, <2>1, <2>6
    <3>2. Only(dead, k, {"gameOver", "enable", "tasks"}) /\ k.gameOver = TRUE
          /\ k.tasks = Append(h.tasks, o)
      BY <1>3, <1>4, <3>1, OverIs
    <3>3. o \in Tasks /\ TaskOK(o) /\ o.kind = "over"
      BY OverTask
    <3> HIDE DEF o
    <3>4. Agree(dead, k, Fields \ {"gameOver", "enable", "tasks"})
      BY <3>2 DEF Only, Agree
    <3>5. /\ Typed(k) /\ Budget(k) /\ k.prop = h.prop
          /\ k.stage = h.stage /\ k.page = h.page /\ k.air = h.air
          /\ k.live = dead.live /\ k.lifeNum = dead.lifeNum /\ k.tank = dead.tank
      <4>1. Typed(k)
        <5>1. Typed(dead) /\ k.gameOver \in BOOLEAN
          BY <1>6, <3>2
        <5> QED BY <5>1, <3>4 DEF Typed, Agree, Fields
      <4>2. Budget(k)
        BY <1>6, <3>4 DEF Budget, Agree, Fields
      <4> QED BY <1>6, <3>4, <4>1, <4>2 DEF Agree, Fields
    <3>6. Scheduled(k)
      BY <1>2, <3>2, <3>3, <3>5, ScheduledAppend
    <3>7. None(k, s, i, On("start"))
      BY <1>2, <1>7, <3>2, <3>3, OneMore
    <3>8. Final(k, s, i)
      <4>1. h.page = "success" => h.stage >= LastStage
        BY DEF Going, Phase, Final
      <4> QED BY <1>2, <3>2, <3>5, <3>7, <4>1 DEF Final
    <3>9. ASSUME k.page = "game" PROVE PlayersOK(k, s, i)
      <4>1. Table(k)
        BY <1>6, <1>8, <3>2, <3>5, <3>9 DEF Table
      <4>2. \A c : \A q : c \in {"playerBorn", "revive"} => ~Like(o, By(c, q))
        BY <3>3 DEF Like, By
      <4>0. \A c \in {"playerBorn", "revive"}, q \in Players, r \in 0..2 :
               Most(k.tasks, 0, By(c, q), r) <=> Most(h.tasks, 0, By(c, q), r)
        BY <1>2, <3>2, <3>3, <4>2, Appending
      <4>4. \A c \in {"playerBorn", "revive"}, q \in Players :
                  /\ None(h, s, i, By(c, q)) <=> None(k, s, i, By(c, q))
                  /\ Lone(h, s, i, By(c, q)) => Lone(k, s, i, By(c, q))
        BY <4>0 DEF None, Lone
      <4> QED BY <1>6, <2>5, <3>5, <3>9, <4>1, <4>4
    <3>10. Going(k, s, i, 0)
      BY <3>5, <3>6, <3>8, <3>9 DEF Going, Phase
    <3> QED BY <3>5, <3>10 DEF Onward
  <2>7. CASE ~\A q \in Players : isPlayerNoLife(dead, q)
    <3>1. k = dead
      BY <1>1, <2>1, <2>7
    <3>2. ASSUME k.page = "game" PROVE PlayersOK(k, s, i)
      <4>1. PICK q \in Players : ~isPlayerNoLife(dead, q)
        BY <2>7
      <4>2. /\ dead.live \in [Players -> BOOLEAN] /\ dead.lifeNum \in [Players -> Nat]
            /\ dead.tank \in [Players -> {"none", "borning", "up"}]
        BY <1>8, <3>1, <3>2
      <4>0. dead.live[q] = TRUE \/ dead.lifeNum[q] > 0
        BY <4>1, <4>2 DEF isPlayerNoLife
      <4>4. Table(k)
        BY <3>1, <4>2, <4>0 DEF Table
      <4> QED BY <2>4, <2>5, <3>1, <3>2, <4>4
    <3>3. Going(k, s, i, 0)
      BY <1>6, <2>3, <3>1, <3>2 DEF Going
    <3> QED BY <1>6, <3>1, <3>3 DEF Onward
  <2> QED BY <2>6, <2>7
<1> QED BY <1>9, <1>10

\* A player is hit.
LEMMA PlayerHitIs ==
  ASSUME NEW h, NEW s, NEW i, Going(h, s, i, 0), NEW p \in Players, h.air["enemy"] # 0,
         NEW k, k = PlayerHit(h, p)
  PROVE  Onward(h, k, s, i, 0)
<1>1. DOMAIN h = Fields
  BY GoingIs
<1>2. \/ k = h
      \/ k = [h EXCEPT !.level[p] = @ - 1]
      \/ h.tank[p] = "up" /\ k = evPlayerDead(h, p)
  BY DEF PlayerHit
<1>3. CASE k = h
  BY <1>3 DEF Onward
<1>4. CASE k = [h EXCEPT !.level[p] = @ - 1]
  <2>1. Agree(h, k, Core \cup {"prop", "tasks"})
    <3>1. k \in Gains(h, p)
      BY <1>4 DEF Gains
    <3> QED BY <1>1, <3>1, GainsSame
  <2> QED BY <2>1, OnwardSame
<1>5. CASE h.tank[p] = "up" /\ k = evPlayerDead(h, p)
  BY <1>5, PlayerDies
<1> QED BY <1>2, <1>3, <1>4, <1>5

StruckHolds(c, i, a) == Onward(c.h, a, c.s, c.i, 0)

\* A record f of the loop that takes the players that were hit; there is one, and at its end holds what
\* every pass preserves.
StrikesPasses(c, h, f, n) == f = [i \in 0..n |-> IF i = 0 THEN h ELSE StruckOp(c, f[i - 1], i)]
LEMMA StrikesRecord ==
  ASSUME NEW c, NEW h, NEW n \in Nat
  PROVE  \E f : StrikesPasses(c, h, f, n)
<1> DEFINE e == <<"struck", c>>
<1>1. PICK f : Is(e, h, f, n)
  BY Exists
<1>2. \A a, i : Pass(e, a, i) = StruckOp(c, a, i)
  BY DEF Pass
<1> HIDE DEF e
<1>3. \A i \in 0..n : (IF i = 0 THEN h ELSE Pass(e, f[i - 1], i))
                      = (IF i = 0 THEN h ELSE StruckOp(c, f[i - 1], i))
  BY <1>2
<1>4. StrikesPasses(c, h, f, n)
  BY <1>1, <1>3 DEF Is, StrikesPasses
<1> QED BY <1>4

\* What every pass of it preserves.
LEMMA StrikesFold ==
  ASSUME NEW c, NEW h, NEW n \in Nat, NEW f, StrikesPasses(c, h, f, n), StruckHolds(c, 0, h),
         \A i \in 0..n : \A a : i < n /\ StruckHolds(c, i, a) => StruckHolds(c, i + 1, StruckOp(c, a, i + 1))
  PROVE  StruckHolds(c, n, f[n])
<1> DEFINE T == {i \in 0..n : StruckHolds(c, i, f[i])}
<1>1. 0 \in T
  BY DEF StrikesPasses
<1>2. \A i \in 0..n : i < n /\ i \in T => i + 1 \in T
  <2> SUFFICES ASSUME NEW i \in 0..n, i < n, i \in T PROVE i + 1 \in T
    OBVIOUS
  <2>1. f[i + 1] = StruckOp(c, f[i], i + 1)
    BY DEF StrikesPasses
  <2> QED BY <2>1
<1> HIDE DEF T
<1>3. \A i \in 0..n : i \in T
  BY <1>1, <1>2, UpTo
<1>4. n \in T
  BY <1>3
<1> QED BY <1>4 DEF T

\* The players that were hit.
LEMMA PlayersLastIs ==
  ASSUME NEW h, NEW s, NEW i, Going(h, s, i, 0), NEW f, f.players \subseteq Players,
         f.players # {} => h.air["enemy"] # 0
  PROVE  Onward(h, PlayersLast(h, f), s, i, 0)
<1> DEFINE l == SetToSeq(f.players)
           c == [list |-> l, h |-> h, s |-> s, i |-> i]
           to == CHOOSE to : to = [j \in 0..Len(l) |-> IF j = 0 THEN h ELSE
                                      PlayerHit(to[j - 1], l[j])]
<1>1. PlayersLast(h, f) = to[Len(l)]
  BY DEF PlayersLast, ForEach
<1>2. IsFiniteSet(f.players)
  <2>1. 0 \in Int /\ 1 \in Int
    OBVIOUS
  <2>2. IsFiniteSet(0..1)
    BY <2>1, FS_Interval
  <2>3. f.players \subseteq 0..1
    BY DEF Players
  <2> QED BY <2>2, <2>3, FS_Subset
<1>3. Len(l) \in Nat /\ (f.players = {} => Len(l) = 0) /\ \A x \in 1..Len(l) : l[x] \in Players
  BY <1>2, SetToSeqIs
<1> HIDE DEF l
<1>4. StrikesPasses(c, h, to, Len(l))
  <2>1. \E t : StrikesPasses(c, h, t, Len(l))
    BY <1>3, StrikesRecord
  <2> QED BY <2>1 DEF StrikesPasses, StruckOp
<1> HIDE DEF to
<1>5. StruckHolds(c, 0, h)
  BY DEF StruckHolds, Onward
<1>6. ASSUME NEW j \in 0..Len(l), NEW a, j < Len(l), StruckHolds(c, j, a)
      PROVE  StruckHolds(c, j + 1, StruckOp(c, a, j + 1))
  <2> DEFINE b == StruckOp(c, a, j + 1)
             p == l[j + 1]
  <2>1. Onward(h, a, s, i, 0)
    BY <1>6 DEF StruckHolds
  <2>2. p \in Players /\ h.air["enemy"] # 0
    <3>1. j + 1 \in 1..Len(l) /\ Len(l) # 0
      BY <1>3, <1>6
    <3> QED BY <1>3, <3>1
  <2>3. b = PlayerHit(a, p)
    BY DEF StruckOp
  <2> HIDE DEF b, p
  <2>4. Going(a, s, i, 0) /\ a.air = h.air /\ a.stage = h.stage /\ a.page = h.page
    BY <2>1 DEF Onward
  <2>5. Onward(a, b, s, i, 0)
    BY <2>2, <2>3, <2>4, PlayerHitIs
  <2>6. Onward(h, b, s, i, 0)
    BY <2>4, <2>5 DEF Onward
  <2> QED BY <2>6 DEF StruckHolds, b
<1>7. StruckHolds(c, Len(l), to[Len(l)])
  <2> HIDE DEF c
  <2> QED BY <1>3, <1>4, <1>5, <1>6, StrikesFold
<1> QED BY <1>1, <1>7 DEF StruckHolds

\* The prop that was touched.
LEMMA PropLastIs ==
  ASSUME NEW h, NEW s, NEW i, NEW d, Going(h, s, i, d), NEW f,
         f.gain \in Players => h.tank[f.gain] = "up"
  PROVE  Onward(h, PropLast(h, f), s, i, d)
<1>1. CASE f.gain \notin Players
  BY <1>1 DEF PropLast, Onward
<1>2. CASE f.gain \in Players
  <2> DEFINE p == f.gain
             k == CASE h.prop = "BOMB" -> evPropBomb(h, f.place)
                    [] h.prop = "STAR" -> onLevelUp(h, p)
                    [] h.prop = "TANK" -> [h EXCEPT !.lifeNum[p] = @ + 1]
                    [] h.prop = "HELMET" -> onGetShieldStatus(h, p, HelmetTime)
                    [] h.prop = "CLOCK" -> onPropClockStart(h)
                    [] h.prop = "SPADE" -> onPropSpadeStart(h)
                    [] h.prop = "GUN" /\ h.level[p] < TopLevel -> [h EXCEPT !.level[p] = TopLevel]
                    [] OTHER -> [h EXCEPT !.lifeNum[p] = @ + 1]
             m == [k EXCEPT !.propNum = @ + 1]
  <2>1. PropLast(h, f) = evDestroyProp(m)
    BY <1>2 DEF PropLast, evGainProp
  <2>2. DOMAIN h = Fields /\ p \in Players /\ h.tank[p] = "up"
    BY <1>2, GoingIs
  <2> HIDE DEF p
  <2>3. \/ k = evPropBomb(h, f.place)
        \/ k \in Gains(h, p)
        \/ k = [h EXCEPT !.lifeNum[p] = @ + 1]
        \/ k = onGetShieldStatus(h, p, HelmetTime)
    BY DEF Gains
  <2> HIDE DEF k
  <2>4. Onward(h, k, s, i, d)
    <3>1. CASE k = evPropBomb(h, f.place)
      <4>1. Going(k, s, i, d) /\ Only(h, k, Struck)
        BY <3>1, Bombed
      <4> QED BY <4>1 DEF Onward, Only, Struck, Fields
    <3>2. CASE k \in Gains(h, p)
      <4>1. Agree(h, k, Core \cup {"prop", "tasks"})
        BY <2>2, <3>2, GainsSame
      <4> QED BY <4>1, OnwardSame
    <3>3. CASE k = [h EXCEPT !.lifeNum[p] = @ + 1]
      BY <2>2, <3>3, MoreLife
    <3>4. CASE k = onGetShieldStatus(h, p, HelmetTime)
      <4>1. HelmetTime \in Nat \ {0}
        BY DEF HelmetTime
      <4> QED BY <2>2, <3>4, <4>1, Shields
    <3> QED BY <2>3, <3>1, <3>2, <3>3, <3>4
  <2>5. Going(k, s, i, d) /\ DOMAIN k = Fields
    BY <2>4, GoingIs DEF Onward
  <2>6. Onward(k, m, s, i, d)
    <3>1. Agree(k, m, Core \cup {"prop", "tasks"})
      <4>1. m \in Gains(k, p)
        BY DEF Gains
      <4> HIDE DEF m
      <4> QED BY <2>5, <4>1, GainsSame
    <3> HIDE DEF m
    <3> QED BY <2>5, <3>1, OnwardSame
  <2> HIDE DEF m
  <2>7. Onward(m, evDestroyProp(m), s, i, d)
    BY <2>6, DestroysProp DEF Onward
  <2> QED BY <2>1, <2>4, <2>6, <2>7 DEF Onward
<1> QED BY <1>1, <1>2

\* What a player's birth does to the game's record.
LEMMA CreateIs ==
  ASSUME NEW h, DOMAIN h = Fields, NEW p, NEW k, k = createPlayer(h, p)
  PROVE  /\ Only(h, k, {"tank", "shield", "tasks"}) /\ k.tank = [h.tank EXCEPT ![p] = "borning"]
         /\ k.tasks = Append(h.tasks, Once("Ani", "playerBorn", p, BornTime))
<1> DEFINE e == [h EXCEPT !.tank[p] = "borning", !.shield[p] = FALSE]
<1>1. DOMAIN e = Fields /\ Only(h, e, {"tank", "shield"}) /\ e.tasks = h.tasks
      /\ e.tank = [h.tank EXCEPT ![p] = "borning"]
  BY DEF Fields, Only
<1>2. k = scheduleOnce(e, "Ani", "playerBorn", p, BornTime)
  BY DEF createPlayer, born, playUnitAniInTime, playPrefabAni
<1> HIDE DEF e
<1>3. Only(e, k, {"tasks"}) /\ k.tasks = Append(e.tasks, Once("Ani", "playerBorn", p, BornTime))
  BY <1>1, <1>2, SchedulingIs
<1> QED BY <1>1, <1>3 DEF Only, Fields

\* The next task that is due belongs to p: the other player's are as they were.
Due(s, i, kind, p) == s[i + 1].kind = kind /\ s[i + 1].arg = p

\* Running it takes it from the tasks of p and leaves those of the other player.
LEMMA OwnLess ==
  ASSUME NEW h, NEW s \in Seq(Tasks), NEW i \in Nat, i < Len(s), NEW p \in Players,
         NEW kind, Due(s, i, kind, p), NEW j, j = i + 1
  PROVE  /\ Due(s, i, kind, p) /\ Same(h, s, i, h, s, j, kind, p) /\ ~None(h, s, i, By(kind, p))
         /\ Lone(h, s, i, By(kind, p)) =>
               None(h, s, j, By(kind, p)) /\ Lone(h, s, j, By(kind, p))
<1>1. ASSUME NEW c \in {"playerBorn", "revive"}, NEW q \in Players, c # kind \/ q # p
      PROVE  /\ None(h, s, i, By(c, q)) <=> None(h, s, i + 1, By(c, q))
             /\ Lone(h, s, i, By(c, q)) => Lone(h, s, i + 1, By(c, q))
  <2>1. ~Like(s[i + 1], By(c, q))
    BY <1>1 DEF Like, By, Due
  <2>2. /\ Most(s, i, By(c, q), 0) <=> Most(s, i + 1, By(c, q), 0)
        /\ Most(s, i, By(c, q), 1) <=> Most(s, i + 1, By(c, q), 1)
    BY <2>1, Consuming
  <2> QED BY <2>2 DEF None, Lone
<1>2. Like(s[i + 1], By(kind, p))
  BY DEF Like, By, Due
<1>3. ~Most(s, i, By(kind, p), 0)
  BY <1>2, Consuming
<1>4. Most(s, i, By(kind, p), 1) => Most(s, i + 1, By(kind, p), 0)
  BY <1>2, Consuming
<1>5. Most(s, i + 1, By(kind, p), 0) => Most(s, i + 1, By(kind, p), 1)
  BY MostUp
<1>6. Same(h, s, i, h, s, j, kind, p)
  BY <1>1 DEF Same
<1> QED BY <1>3, <1>4, <1>5, <1>6 DEF None, Lone

\* The birth of a player ends.
LEMMA AfterBornIs ==
  ASSUME NEW h, NEW s \in Seq(Tasks), NEW i \in Nat, i < Len(s), NEW d, Going(h, s, i, d),
         NEW p \in Players, s[i + 1].kind = "playerBorn", s[i + 1].arg = p,
         NEW k, k = afterBorn(h, p)
  PROVE  Onward(h, k, s, i + 1, d)
<1> DEFINE e == [h EXCEPT !.tank[p] = "up"]
<1>1. DOMAIN h = Fields /\ Scheduled(h)
  BY GoingIs
<1>2. k = onGetShieldStatus(e, p, BornShield)
  BY DEF afterBorn
<1>3. Only(h, e, {"tank"}) /\ e.tank = [h.tank EXCEPT ![p] = "up"]
  BY <1>1 DEF Only, Fields
<1> HIDE DEF e
<1>4. Agree(h, e, Fields \ {"tank"})
  BY <1>3 DEF Only, Agree
<1>5. /\ Typed(e) /\ Budget(e) /\ Scheduled(e) /\ e.prop = h.prop /\ e.enemies = h.enemies
      /\ e.tasks = h.tasks /\ e.stage = h.stage /\ e.page = h.page /\ e.air = h.air
      /\ e.live = h.live /\ e.lifeNum = h.lifeNum /\ e.gameOver = h.gameOver
      /\ Agree(h, e, {"page", "stage", "running", "gameOver", "kills",
                      "data", "panel", "finishNum", "air"})
  <2>1. Typed(e)
    BY <1>4 DEF Typed, Agree, Fields, Going
  <2>2. Budget(e) /\ Scheduled(e)
    BY <1>1, <1>4 DEF Budget, Scheduled, Agree, Fields, Going
  <2> QED BY <1>4, <2>1, <2>2 DEF Agree, Fields
<1>6. Phase(e, s, i + 1, d)
  <2>1. LessBut(h, s, i, e, s, i + 1)
    BY <1>5, Consumed DEF LessBut
  <2>2. PropFree(h, e) /\ EnemyFree(h, e) /\ BornFree(h, e)
    BY <1>5 DEF PropFree, EnemyFree, BornFree
  <2> QED BY <1>5, <2>1, <2>2, PhaseWith DEF Going, Typed
<1>7. ASSUME e.page = "game" PROVE PlayersOK(e, s, i + 1)
  <2>1. PlayersOK(h, s, i) /\ PlayerOK(h, s, i, p)
    BY <1>5, <1>7 DEF Going, PlayersOK
  <2>2. /\ ~None(h, s, i, By("playerBorn", p)) /\ Same(h, s, i, h, s, i + 1, "playerBorn", p)
        /\ Lone(h, s, i, By("playerBorn", p)) =>
              None(h, s, i + 1, By("playerBorn", p)) /\ Lone(h, s, i + 1, By("playerBorn", p))
    <3> DEFINE j == i + 1
    <3>1. Due(s, i, "playerBorn", p) /\ j = i + 1
      BY DEF Due
    <3> HIDE DEF j
    <3>2. /\ ~None(h, s, i, By("playerBorn", p)) /\ Same(h, s, i, h, s, j, "playerBorn", p)
          /\ Lone(h, s, i, By("playerBorn", p)) =>
                None(h, s, j, By("playerBorn", p)) /\ Lone(h, s, j, By("playerBorn", p))
      BY <3>1, OwnLess
    <3> QED BY <3>1, <3>2
  <2>3. /\ None(h, s, i, By("revive", p)) <=> None(h, s, i + 1, By("revive", p))
        /\ Lone(h, s, i, By("revive", p)) => Lone(h, s, i + 1, By("revive", p))
    BY <2>2 DEF Same
  <2>5. \A c : /\ None(e, s, i + 1, c) <=> None(h, s, i + 1, c)
               /\ Lone(e, s, i + 1, c) <=> Lone(h, s, i + 1, c)
    BY <1>5 DEF None, Lone
  <2>6. h.tank[p] = "borning" /\ h.live[p] = TRUE
    BY <2>1, <2>2 DEF PlayerOK, PlayersOK
  <2>7. e.tank[p] = "up" /\ \A q \in Players \ {p} : e.tank[q] = h.tank[q]
    BY <1>3, <2>1 DEF PlayersOK
  <2>8. PlayerOK(e, s, i + 1, p)
    <3>1. None(e, s, i + 1, By("playerBorn", p)) /\ Lone(e, s, i + 1, By("playerBorn", p))
      BY <2>1, <2>2, <2>5 DEF PlayerOK
    <3>2. /\ None(h, s, i, By("revive", p)) <=> None(e, s, i + 1, By("revive", p))
          /\ Lone(h, s, i, By("revive", p)) => Lone(e, s, i + 1, By("revive", p))
      BY <2>3, <2>5
    <3> QED BY <1>5, <2>1, <2>6, <2>7, <3>1, <3>2 DEF PlayerOK
  <2>9. Aside(h, s, i, e, s, i + 1, p)
    <3>1. Same(h, s, i, e, s, i + 1, "playerBorn", p)
      BY <2>2, <2>5 DEF Same
    <3> QED BY <1>5, <2>7, <3>1, AsideSame
  <2>10. Table(e)
    BY <1>3, <1>5, <2>1 DEF Table, PlayersOK
  <2> QED BY <2>1, <2>8, <2>9, <2>10, PlayersBut
<1>8. Going(e, s, i + 1, d)
  BY <1>5, <1>6, <1>7 DEF Going
<1>9. Onward(e, k, s, i + 1, d)
  <2>1. BornShield \in Nat \ {0}
    BY DEF BornShield
  <2> QED BY <1>2, <1>8, <2>1, Shields
<1> QED BY <1>5, <1>9 DEF Onward

\* A player comes back.
LEMMA ReviveIs ==
  ASSUME NEW h, NEW s \in Seq(Tasks), NEW i \in Nat, i < Len(s), NEW d, Going(h, s, i, d),
         NEW p \in Players, s[i + 1].kind = "revive", s[i + 1].arg = p,
         NEW k, k = revive(h, p)
  PROVE  Onward(h, k, s, i + 1, d)
<1> DEFINE e == [h EXCEPT !.lifeNum[p] = @ - 1, !.live[p] = TRUE]
           t == Once("Ani", "playerBorn", p, BornTime)
<1>1. DOMAIN h = Fields /\ h.tasks \in Seq(Tasks) /\ Scheduled(h)
  BY GoingIs
<1>2. k = createPlayer(e, p)
  BY DEF revive
<1>3. Only(h, e, {"lifeNum", "live"}) /\ e.tasks = h.tasks /\ e.tank = h.tank
  BY <1>1 DEF Only, Fields
<1>4. e.lifeNum = [h.lifeNum EXCEPT ![p] = @ - 1] /\ e.live = [h.live EXCEPT ![p] = TRUE]
  BY <1>1 DEF Fields
<1> HIDE DEF e
<1>5. /\ Only(e, k, {"tank", "shield", "tasks"}) /\ k.tank = [h.tank EXCEPT ![p] = "borning"]
      /\ k.tasks = Append(h.tasks, t)
  <2>1. DOMAIN e = Fields
    BY <1>3 DEF Only
  <2>2. /\ Only(e, k, {"tank", "shield", "tasks"}) /\ k.tank = [e.tank EXCEPT ![p] = "borning"]
        /\ k.tasks = Append(e.tasks, t)
    BY <1>2, <2>1, CreateIs
  <2> QED BY <1>3, <2>2
<1>6. Agree(h, k, Fields \ {"lifeNum", "live", "tank", "shield", "tasks"})
  BY <1>3, <1>5 DEF Only, Agree
<1>7. /\ OwnTask(p, t) /\ t \in Tasks /\ TaskOK(t) /\ t.kind = "playerBorn"
      /\ t.kind \in {"playerBorn", "revive"}
  <2>1. OwnTask(p, t)
    BY DEF OwnTask
  <2> QED BY <2>1, OwnIs
<1> HIDE DEF t
<1>8. /\ Typed(k) /\ Budget(k) /\ k.prop = h.prop
      /\ k.stage = h.stage /\ k.page = h.page /\ k.air = h.air /\ k.gameOver = h.gameOver
      /\ k.live = e.live /\ k.lifeNum = e.lifeNum
      /\ Agree(h, k, {"page", "stage", "running", "gameOver", "kills", "prop", "enemies",
                      "data", "panel", "finishNum", "air"})
  <2>1. Typed(k)
    BY <1>6 DEF Typed, Agree, Fields, Going
  <2>2. Budget(k)
    BY <1>6 DEF Budget, Agree, Fields, Going
  <2>3. k.live = e.live /\ k.lifeNum = e.lifeNum
    BY <1>5 DEF Only, Fields
  <2> QED BY <1>6, <2>1, <2>2, <2>3 DEF Agree, Fields
<1>9. Scheduled(k)
  BY <1>1, <1>5, <1>7, <1>8, ScheduledAppend
<1>10. Phase(k, s, i + 1, d)
  <2>1. ~Most(s, i, On("revive"), 0)
    <3>1. Like(s[i + 1], On("revive"))
      BY DEF Like, On
    <3> QED BY <3>1, Consuming
  <2>2. ~Shown(h, s, i) /\ \A r \in 1..Rows : OldRow(h, s, i, r) => r = 1
    BY <2>1 DEF Shown, OldRow, None, Rows
  <2>3. Phase(k, s, i, d)
    BY <1>1, <1>5, <1>7, <1>8, <2>2, PhaseOwn DEF Going
  <2>4. /\ LessBut(k, s, i, k, s, i + 1) /\ PropFree(k, k) /\ EnemyFree(k, k) /\ BornFree(k, k)
        /\ Agree(k, k, {"page", "stage", "running", "gameOver", "kills",
                        "data", "panel", "finishNum", "air"})
    BY <1>8, Consumed DEF PropFree, EnemyFree, BornFree, Typed, Agree
  <2> QED BY <1>8, <2>3, <2>4, PhaseWith DEF Typed
<1>11. ASSUME k.page = "game" PROVE PlayersOK(k, s, i + 1)
  <2>1. PlayersOK(h, s, i) /\ PlayerOK(h, s, i, p)
    BY <1>8, <1>11 DEF Going, PlayersOK
  <2>2. /\ ~None(h, s, i, By("revive", p)) /\ Same(h, s, i, h, s, i + 1, "revive", p)
        /\ Lone(h, s, i, By("revive", p)) =>
              None(h, s, i + 1, By("revive", p)) /\ Lone(h, s, i + 1, By("revive", p))
    <3> DEFINE j == i + 1
    <3>1. Due(s, i, "revive", p) /\ j = i + 1
      BY DEF Due
    <3> HIDE DEF j
    <3>2. /\ ~None(h, s, i, By("revive", p)) /\ Same(h, s, i, h, s, j, "revive", p)
          /\ Lone(h, s, i, By("revive", p)) =>
                None(h, s, j, By("revive", p)) /\ Lone(h, s, j, By("revive", p))
      BY <3>1, OwnLess
    <3> QED BY <3>1, <3>2
  <2>3. None(h, s, i, By("playerBorn", p)) <=> None(h, s, i + 1, By("playerBorn", p))
    BY <2>2 DEF Same
  <2>4. /\ Same(h, s, i + 1, k, s, i + 1, "playerBorn", p)
        /\ None(h, s, i + 1, By("playerBorn", p)) => Lone(k, s, i + 1, By("playerBorn", p))
    BY <1>1, <1>5, <1>7, OwnMore
  <2>5. /\ h.lifeNum[p] \in Nat /\ h.lifeNum[p] > 0 /\ h.live[p] = FALSE /\ h.tank[p] = "none"
    BY <2>1, <2>2 DEF PlayerOK, PlayersOK
  <2>6. /\ k.live[p] = TRUE /\ k.lifeNum[p] = h.lifeNum[p] - 1 /\ k.tank[p] = "borning"
        /\ \A q \in Players \ {p} : /\ k.live[q] = h.live[q] /\ k.lifeNum[q] = h.lifeNum[q]
                                    /\ k.tank[q] = h.tank[q]
    BY <1>4, <1>5, <1>8, <2>1 DEF PlayersOK
  <2>7. /\ None(h, s, i + 1, By("revive", p)) /\ Lone(h, s, i + 1, By("revive", p))
        /\ None(h, s, i + 1, By("playerBorn", p))
    BY <2>1, <2>2, <2>3, <2>5 DEF PlayerOK
  <2>8. /\ None(k, s, i + 1, By("revive", p)) /\ Lone(k, s, i + 1, By("revive", p))
        /\ Lone(k, s, i + 1, By("playerBorn", p))
    <3>1. /\ None(h, s, i + 1, By("revive", p)) <=> None(k, s, i + 1, By("revive", p))
          /\ Lone(h, s, i + 1, By("revive", p)) => Lone(k, s, i + 1, By("revive", p))
      BY <2>4 DEF Same
    <3> QED BY <2>4, <2>7, <3>1
  <2>9. PlayerOK(k, s, i + 1, p)
    BY <2>5, <2>6, <2>8 DEF PlayerOK
  <2>10. Aside(h, s, i, k, s, i + 1, p)
    BY <2>2, <2>4, <2>6 DEF Aside, Same
  <2>11. Table(k)
    <3>1. k.lifeNum \in [Players -> Nat]
      BY <1>4, <1>8, <2>1, <2>5 DEF PlayersOK
    <3>2. k.live \in [Players -> BOOLEAN] /\ k.tank \in [Players -> {"none", "borning", "up"}]
      BY <1>4, <1>5, <1>8, <2>1 DEF PlayersOK
    <3> QED BY <2>6, <3>1, <3>2 DEF Table
  <2> QED BY <2>1, <2>9, <2>10, <2>11, PlayersBut
<1>12. Going(k, s, i + 1, d)
  BY <1>8, <1>9, <1>10, <1>11 DEF Going
<1> QED BY <1>8, <1>12 DEF Onward
-----------------------------------------------------------------------------
(* The beginning of a stage *)

\* The first j players have been placed.
Placed(h, s, i, a, j) ==
    /\ Only(h, a, {"tank", "shield", "tasks"}) /\ Scheduled(a)
    /\ \A c : c # "playerBorn" => /\ None(h, s, i, On(c)) => None(a, s, i, On(c))
                                  /\ Lone(h, s, i, On(c)) => Lone(a, s, i, On(c))
    /\ a.tank \in [Players -> {"none", "borning"}]
    /\ \A p \in Players :
          /\ a.tank[p] = "borning" <=> h.live[p] = TRUE /\ \E x \in 1..j : PlayerSeq[x] = p
          /\ None(a, s, i, By("revive", p))
          /\ None(a, s, i, By("playerBorn", p)) \/ a.tank[p] = "borning"
          /\ Lone(a, s, i, By("playerBorn", p))
    /\ \A x \in DOMAIN a.tasks : \/ a.tasks[x].kind = "playerBorn"
                                 \/ \E y \in DOMAIN h.tasks : a.tasks[x] = h.tasks[y]

\* One pass of the loop over the players places the next of them.
LEMMA PlaceOne ==
  ASSUME NEW h, h.live \in [Players -> BOOLEAN], NEW s, NEW i, NEW a, NEW j \in Nat, j < Len(PlayerSeq),
         Placed(h, s, i, a, j), NEW p, p = PlayerSeq[j + 1],
         NEW k, k = Place(a, p)
  PROVE  Placed(h, s, i, k, j + 1)
<1>1. /\ p \in Players /\ \A x \in 1..j : PlayerSeq[x] # p
      /\ \A x \in 1..(j + 1) : x \in 1..j \/ x = j + 1
  <2>1. p \in Players /\ (j = 0 \/ j = 1)
    BY PlayersAre
  <2>2. CASE j = 0
    BY <2>1, <2>2
  <2>3. CASE j = 1
    <3>1. PlayerSeq = <<0, 1>>
      BY <2>3, PlayersAre
    <3>2. PlayerSeq[1] = 0 /\ PlayerSeq[2] = 1
      BY <3>1
    <3> QED BY <2>1, <2>3, <3>2
  <2> QED BY <2>1, <2>2, <2>3
<1>2. DOMAIN a = Fields /\ a.live = h.live /\ a.tasks \in Seq(Tasks) /\ Scheduled(a)
  BY DEF Placed, Only, Scheduled, Fields
<1>3. /\ a.tank \in [Players -> {"none", "borning"}]
      /\ \A q \in Players :
          /\ a.tank[q] = "borning" <=> h.live[q] = TRUE /\ \E x \in 1..j : PlayerSeq[x] = q
          /\ None(a, s, i, By("revive", q))
          /\ None(a, s, i, By("playerBorn", q)) \/ a.tank[q] = "borning"
          /\ Lone(a, s, i, By("playerBorn", q))
  BY DEF Placed
<1>4. \A q \in Players : (\E x \in 1..(j + 1) : PlayerSeq[x] = q)
                            <=> q = p \/ \E x \in 1..j : PlayerSeq[x] = q
  <2>1. j + 1 \in 1..(j + 1) /\ \A x \in 1..j : x \in 1..(j + 1)
    OBVIOUS
  <2> QED BY <1>1, <2>1
<1>5. CASE h.live[p] # TRUE
  <2>1. k = a
    BY <1>1, <1>2, <1>5 DEF Place
  <2>2. \A q \in Players :
          a.tank[q] = "borning" <=> h.live[q] = TRUE /\ \E x \in 1..(j + 1) : PlayerSeq[x] = q
    BY <1>3, <1>4, <1>5
  <2> QED BY <1>3, <2>1, <2>2 DEF Placed
<1>6. CASE h.live[p] = TRUE
  <2> DEFINE t == Once("Ani", "playerBorn", p, BornTime)
  <2>1. k = createPlayer(a, p)
    BY <1>2, <1>6 DEF Place
  <2>2. /\ Only(a, k, {"tank", "shield", "tasks"}) /\ k.tank = [a.tank EXCEPT ![p] = "borning"]
        /\ k.tasks = Append(a.tasks, t)
    <3>1. DOMAIN a = Fields
      BY <1>2
    <3> HIDE <1>6
    <3> QED BY <2>1, <3>1, CreateIs
  <2>3. /\ OwnTask(p, t) /\ t \in Tasks /\ TaskOK(t) /\ t.kind = "playerBorn"
    <3>1. OwnTask(p, t)
      BY DEF OwnTask
    <3> QED BY <1>1, <3>1, OwnIs
  <2> HIDE DEF t
  <2>4. Only(h, k, {"tank", "shield", "tasks"}) /\ k.prop = a.prop
    BY <2>2 DEF Placed, Only, Fields
  <2>5. Scheduled(k)
    BY <1>2, <2>2, <2>3, <2>4, ScheduledAppend
  <2>6. \A c : c # "playerBorn" => /\ None(h, s, i, On(c)) => None(k, s, i, On(c))
                                   /\ Lone(h, s, i, On(c)) => Lone(k, s, i, On(c))
    <3>1. \A c : c # "playerBorn" => /\ None(a, s, i, On(c)) => None(k, s, i, On(c))
                                     /\ Lone(a, s, i, On(c)) => Lone(k, s, i, On(c))
      BY <1>2, <2>2, <2>3, OneMore
    <3> QED BY <3>1 DEF Placed
  <2>7. k.tank \in [Players -> {"none", "borning"}] /\ k.tank[p] = "borning"
        /\ \A q \in Players \ {p} : k.tank[q] = a.tank[q]
    BY <1>1, <1>3, <2>2
  <2>8. /\ Same(a, s, i, k, s, i, "playerBorn", p)
        /\ None(a, s, i, By("playerBorn", p)) => Lone(k, s, i, By("playerBorn", p))
    BY <1>1, <1>2, <2>2, <2>3, OwnMore
  <2>9. None(a, s, i, By("playerBorn", p))
    BY <1>1, <1>3
  <2>10. ASSUME NEW q \in Players
         PROVE  /\ k.tank[q] = "borning" <=> h.live[q] = TRUE /\ \E x \in 1..(j + 1) : PlayerSeq[x] = q
                /\ None(k, s, i, By("revive", q))
                /\ None(k, s, i, By("playerBorn", q)) \/ k.tank[q] = "borning"
                /\ Lone(k, s, i, By("playerBorn", q))
    <3>1. None(k, s, i, By("revive", q))
      BY <1>3, <2>8 DEF Same
    <3>2. CASE q = p
      BY <1>4, <1>6, <2>7, <2>8, <2>9, <3>1, <3>2
    <3>3. CASE q # p
      <4>1. /\ None(a, s, i, By("playerBorn", q)) <=> None(k, s, i, By("playerBorn", q))
            /\ Lone(a, s, i, By("playerBorn", q)) => Lone(k, s, i, By("playerBorn", q))
        BY <2>8, <3>3 DEF Same
      <4>2. k.tank[q] = a.tank[q]
        BY <2>7, <3>3
      <4> QED BY <1>3, <1>4, <3>1, <3>3, <4>1, <4>2
    <3> QED BY <3>2, <3>3
  <2>11. \A x \in DOMAIN k.tasks : \/ k.tasks[x].kind = "playerBorn"
                                   \/ \E y \in DOMAIN h.tasks : k.tasks[x] = h.tasks[y]
    <3>1. /\ DOMAIN a.tasks = 1..Len(a.tasks) /\ Len(a.tasks) \in Nat
          /\ DOMAIN k.tasks = 1..(Len(a.tasks) + 1)
          /\ \A x \in 1..Len(a.tasks) : k.tasks[x] = a.tasks[x]
          /\ k.tasks[Len(a.tasks) + 1] = t
      BY <1>2, <2>2, <2>3, AppendProperties, LenProperties
    <3>2. \A x \in DOMAIN k.tasks : x \in DOMAIN a.tasks \/ x = Len(a.tasks) + 1
      BY <3>1
    <3>3. \A x \in DOMAIN a.tasks : \/ a.tasks[x].kind = "playerBorn"
                                     \/ \E y \in DOMAIN h.tasks : a.tasks[x] = h.tasks[y]
      BY DEF Placed
    <3> QED BY <2>3, <3>1, <3>2, <3>3
  <2> QED BY <2>4, <2>5, <2>6, <2>7, <2>10, <2>11 DEF Placed
<1> QED BY <1>2, <1>5, <1>6

PlaceHolds(c, j, a) == Placed(c.h, c.s, c.i, a, j)

\* A record f of the loop that places the players; there is one, and at its end holds what
\* every pass preserves.
PlacesPasses(c, h, f, n) == f = [i \in 0..n |-> IF i = 0 THEN h ELSE PlaceOp(c, f[i - 1], i)]
LEMMA PlacesRecord ==
  ASSUME NEW c, NEW h, NEW n \in Nat
  PROVE  \E f : PlacesPasses(c, h, f, n)
<1> DEFINE e == <<"place", c>>
<1>1. PICK f : Is(e, h, f, n)
  BY Exists
<1>2. \A a, i : Pass(e, a, i) = PlaceOp(c, a, i)
  BY DEF Pass
<1> HIDE DEF e
<1>3. \A i \in 0..n : (IF i = 0 THEN h ELSE Pass(e, f[i - 1], i))
                      = (IF i = 0 THEN h ELSE PlaceOp(c, f[i - 1], i))
  BY <1>2
<1>4. PlacesPasses(c, h, f, n)
  BY <1>1, <1>3 DEF Is, PlacesPasses
<1> QED BY <1>4

\* What every pass of it preserves.
LEMMA PlacesFold ==
  ASSUME NEW c, NEW h, NEW n \in Nat, NEW f, PlacesPasses(c, h, f, n), PlaceHolds(c, 0, h),
         \A i \in 0..n : \A a : i < n /\ PlaceHolds(c, i, a) => PlaceHolds(c, i + 1, PlaceOp(c, a, i + 1))
  PROVE  PlaceHolds(c, n, f[n])
<1> DEFINE T == {i \in 0..n : PlaceHolds(c, i, f[i])}
<1>1. 0 \in T
  BY DEF PlacesPasses
<1>2. \A i \in 0..n : i < n /\ i \in T => i + 1 \in T
  <2> SUFFICES ASSUME NEW i \in 0..n, i < n, i \in T PROVE i + 1 \in T
    OBVIOUS
  <2>1. f[i + 1] = PlaceOp(c, f[i], i + 1)
    BY DEF PlacesPasses
  <2> QED BY <2>1
<1> HIDE DEF T
<1>3. \A i \in 0..n : i \in T
  BY <1>1, <1>2, UpTo
<1>4. n \in T
  BY <1>3
<1> QED BY <1>4 DEF T

\* The players of a stage are placed once, when none of their tasks is left.
LEMMA InitPlayersIs ==
  ASSUME NEW h, DOMAIN h = Fields, Scheduled(h), h.live \in [Players -> BOOLEAN], NEW s, NEW i,
         None(h, s, i, On("playerBorn")), None(h, s, i, On("revive")),
         NEW k, k = initPlayers(h)
  PROVE  \E e : /\ Only(h, e, {"tank"}) /\ e.tasks = h.tasks
                /\ Placed(e, s, i, k, Len(PlayerSeq))
<1> DEFINE e == [h EXCEPT !.tank = [p \in Players |-> "none"]]
           c == [h |-> e, s |-> s, i |-> i]
           n == Len(PlayerSeq)
           to == CHOOSE to : to = [j \in 0..n |-> IF j = 0 THEN e ELSE
                                     IF to[j - 1].live[PlayerSeq[j]]
                                     THEN createPlayer(to[j - 1], PlayerSeq[j]) ELSE to[j - 1]]
<1>1. k = to[n]
  BY DEF initPlayers, ForEach
<1>2. n \in Nat
  BY PlayersAre
<1>3. /\ Only(h, e, {"tank"}) /\ e.tasks = h.tasks /\ e.prop = h.prop /\ e.live = h.live
      /\ e.tank = [p \in Players |-> "none"]
  BY DEF Only, Fields
<1> HIDE DEF e, n
<1>4. PlacesPasses(c, e, to, n)
  <2>1. \E t : PlacesPasses(c, e, t, n)
    BY <1>2, PlacesRecord
  <2> QED BY <2>1 DEF PlacesPasses, PlaceOp, Place
<1> HIDE DEF to
<1>5. PlaceHolds(c, 0, e)
  <2>1. Scheduled(e) /\ DOMAIN e = Fields
    BY <1>3 DEF Scheduled, Only
  <2>2. \A q \in Players : None(e, s, i, By("revive", q)) /\ None(e, s, i, By("playerBorn", q))
    BY <1>3 DEF None, Most, AtMost, In, Like, On, By
  <2>3. \A q \in Players : Lone(e, s, i, By("playerBorn", q))
    BY <2>2, MostUp DEF None, Lone
  <2>4. 1..0 = {}
    OBVIOUS
  <2>5. Placed(e, s, i, e, 0)
    BY <1>3, <2>1, <2>2, <2>3, <2>4 DEF Placed, Only
  <2> QED BY <2>5 DEF PlaceHolds
<1>6. ASSUME NEW j \in 0..n, NEW a, j < n, PlaceHolds(c, j, a)
      PROVE  PlaceHolds(c, j + 1, PlaceOp(c, a, j + 1))
  <2>1. Placed(e, s, i, a, j)
    BY <1>6 DEF PlaceHolds
  <2>2. Placed(e, s, i, PlaceOp(c, a, j + 1), j + 1)
    BY <1>2, <1>3, <1>6, <2>1, PlaceOne DEF PlaceOp, n
  <2> QED BY <2>2 DEF PlaceHolds
<1>7. PlaceHolds(c, n, to[n])
  <2> HIDE DEF c
  <2> QED BY <1>2, <1>4, <1>5, <1>6, PlacesFold
<1> QED BY <1>1, <1>3, <1>7 DEF PlaceHolds, n

\* A game where a stage may begin: nobody is to come back, nothing of the last
\* stage is left to run.
Vacant(h, s, i) ==
    /\ DOMAIN h = Fields /\ h.page = "game" /\ h.gameOver = FALSE /\ h.running = FALSE
    /\ h.pause = FALSE
    /\ h.panel \in Nat /\ h.finishNum \in [1..Rows -> Nat]
    /\ h.enemies \subseteq Nodes /\ h.pool \in Seq(Nodes) /\ Scheduled(h)
    /\ h.live \in [Players -> BOOLEAN] /\ h.lifeNum \in [Players -> Nat]
    /\ \E p \in Players : h.live[p] = TRUE
    /\ \A p \in Players : h.live[p] = TRUE \/ h.lifeNum[p] = 0
    /\ \A c \in Chain : None(h, s, i, On(c))

\* Its tasks are those of the start, or were there before and are not of props.
Fresh(k, h) ==
    \A x \in DOMAIN k.tasks :
        \/ k.tasks[x].kind \in {"start", "playerBorn"}
        \/ \E y \in DOMAIN h.tasks :
              k.tasks[x] = h.tasks[y] /\ h.tasks[y].kind \notin {"propGone", "status"}

\* The start of a stage is scheduled as a task the model knows.
LEMMA StartTask ==
  ASSUME NEW t, t = Once("Ani", "start", 0, StartTime)
  PROVE  t \in Tasks /\ TaskOK(t) /\ t.kind = "start"
<1>1. /\ "Ani" = Owner("start") /\ "start" \in Kinds \ {"status"} /\ 0 \in Args
      /\ StartTime = 1 /\ 1 \in Nat \ {0}
      /\ "start" \notin {"playerBorn", "revive", "shieldEnd"} /\ "start" \notin {"row", "shown"}
  BY DEF Owner, Kinds, Args, StartTime
<1> QED BY <1>1, OnceIs

\* startGameStage as far as the props.
Cleared(h, st) == PropReset(resetPlayerStageData(
    playSceneAni([h EXCEPT !.stage = st], "start", StartTime)))

\* When a stage is entered, its start is the only thing due, and the prop and its
\* tasks are gone.
LEMMA ClearedIs ==
  ASSUME NEW h, DOMAIN h = Fields, Scheduled(h), NEW s, NEW i, NEW st, NEW k, k = Cleared(h, st),
         \A c \in Chain : None(h, s, i, On(c))
  PROVE  /\ Only(h, k, {"stage", "tasks", "kills", "propNum", "prop", "buff"})
         /\ k.stage = st /\ k.kills = 0 /\ k.prop = "none" /\ Scheduled(k)
         /\ \A c \in Chain \ {"start"} : None(k, s, i, On(c))
         /\ Lone(k, s, i, On("start"))
         /\ Fresh(k, h)
<1> DEFINE a == [h EXCEPT !.stage = st]
           b == scheduleOnce(a, "Ani", "start", 0, StartTime)
           t == Once("Ani", "start", 0, StartTime)
           e == [b EXCEPT !.kills = 0, !.propNum = 0]
           f == evDestroyProp(e)
           m == [f EXCEPT !.buff = {}]
<1>1. k = unscheduleAll(m, "PropManager")
  BY DEF Cleared, PropReset, resetPlayerStageData, playSceneAni, playPrefabAni
<1>2. Only(h, a, {"stage"}) /\ a.stage = st /\ a.tasks = h.tasks /\ DOMAIN a = Fields
  BY DEF Only, Fields
<1> HIDE DEF a
<1>3. Only(a, b, {"tasks"}) /\ b.tasks = Append(h.tasks, t)
  BY <1>2, SchedulingIs
<1>4. t \in Tasks /\ TaskOK(t) /\ t.kind = "start"
  BY StartTask
<1> HIDE DEF b, t
<1>5. /\ Only(h, b, {"stage", "tasks"}) /\ b.stage = st /\ b.prop = h.prop /\ DOMAIN b = Fields
      /\ h.tasks \in Seq(Tasks)
  BY <1>2, <1>3 DEF Only, Fields, Scheduled
<1>6. Scheduled(b)
  BY <1>3, <1>4, <1>5, ScheduledAppend
<1>7. /\ \A c \in Chain \ {"start"} : None(b, s, i, On(c))
      /\ Lone(b, s, i, On("start"))
  BY <1>3, <1>4, <1>5, OneMore DEF Chain
<1>8. /\ Only(b, e, {"kills", "propNum"}) /\ e.kills = 0 /\ e.tasks = b.tasks /\ e.prop = b.prop
      /\ DOMAIN e = Fields
  BY <1>5 DEF Only, Fields
<1> HIDE DEF e
<1>9. Scheduled(e)
  BY <1>6, <1>8 DEF Scheduled
<1>10. /\ Only(e, f, {"prop", "tasks"}) /\ f.prop = "none" /\ Scheduled(f)
       /\ Thins(e.tasks, 0, f.tasks, 0) /\ Among(f.tasks, e.tasks)
       /\ Most(f.tasks, 0, On("propGone"), 0)
  BY <1>8, <1>9, DestroyedIs
<1> HIDE DEF f
<1>11. /\ Only(f, m, {"buff"}) /\ m.tasks = f.tasks /\ m.prop = "none" /\ DOMAIN m = Fields
  BY <1>10 DEF Only, Fields
<1> HIDE DEF m
<1>12. Scheduled(m)
  BY <1>10, <1>11 DEF Scheduled
<1>13. /\ Only(m, k, {"tasks"}) /\ Scheduled(k)
       /\ Thins(m.tasks, 0, k.tasks, 0) /\ Among(k.tasks, m.tasks)
       /\ \A x \in DOMAIN k.tasks : k.tasks[x].ctx # "PropManager"
  BY <1>1, <1>11, <1>12, UnscheduledIs
<1>14. /\ Only(h, k, {"stage", "tasks", "kills", "propNum", "prop", "buff"})
       /\ k.stage = st /\ k.kills = 0 /\ k.prop = "none"
  BY <1>5, <1>8, <1>10, <1>11, <1>13 DEF Only, Fields
<1>15. /\ \A c \in Chain \ {"start"} : None(k, s, i, On(c))
       /\ Lone(k, s, i, On("start"))
  <2>1. Thins(b.tasks, 0, k.tasks, 0)
    BY <1>8, <1>10, <1>11, <1>13 DEF Thins
  <2>2. \A c \in Chain : \A q \in 0..2 : Most(b.tasks, 0, On(c), q) => Most(k.tasks, 0, On(c), q)
    BY <2>1, AreClasses DEF Thins
  <2> QED BY <1>7, <2>2 DEF None, Lone, Chain
<1>16. Fresh(k, h)
  <2> SUFFICES ASSUME NEW x \in DOMAIN k.tasks
               PROVE  \/ k.tasks[x].kind \in {"start", "playerBorn"}
                      \/ \E y \in DOMAIN h.tasks :
                          k.tasks[x] = h.tasks[y] /\ h.tasks[y].kind \notin {"propGone", "status"}
    BY DEF Fresh
  <2>1. PICK z \in DOMAIN f.tasks : k.tasks[x] = f.tasks[z]
    BY <1>11, <1>13 DEF Among
  <2>2. PICK y \in DOMAIN b.tasks : f.tasks[z] = b.tasks[y]
    BY <1>8, <1>10 DEF Among
  <2>3. k.tasks[x].kind # "propGone"
    <3>1. z > 0
      BY <1>10, LenProperties DEF Scheduled
    <3> QED BY <1>10, <2>1, <3>1 DEF Most, AtMost, In, Like, On
  <2>4. k.tasks[x].kind # "status"
    BY <1>13 DEF Scheduled, TaskOK, OneOf, Owner
  <2>5. /\ DOMAIN h.tasks = 1..Len(h.tasks) /\ Len(h.tasks) \in Nat
        /\ DOMAIN b.tasks = 1..(Len(h.tasks) + 1)
        /\ \A w \in 1..Len(h.tasks) : b.tasks[w] = h.tasks[w]
        /\ b.tasks[Len(h.tasks) + 1] = t
    BY <1>3, <1>4, <1>5, AppendProperties, LenProperties
  <2>6. CASE y = Len(h.tasks) + 1
    BY <1>4, <2>1, <2>2, <2>5, <2>6
  <2>7. CASE y \in DOMAIN h.tasks
    BY <2>1, <2>2, <2>3, <2>4, <2>5, <2>7
  <2> QED BY <2>2, <2>5, <2>6, <2>7
<1> QED BY <1>13, <1>14, <1>15, <1>16

\* The rest of it: the players, the enemies and the bullets.
LEMMA Begins ==
  ASSUME NEW h, NEW s, NEW i, Vacant(h, s, i), NEW d, NEW st \in Nat \ {0},
         NEW k, k = startGameStage(h, st)
  PROVE  /\ Going(k, s, i, d) /\ k.page = "game" /\ k.stage = st
         /\ Prepared(k, s, i) /\ Fresh(k, h)
<1> DEFINE a == Cleared(h, st)
           b == [a EXCEPT !.home = TRUE, !.air = [player |-> 0, enemy |-> 0]]
           e == initPlayers(b)
           f == [e EXCEPT !.data = FALSE]
<1>1. k = [f EXCEPT !.enemies = {}, !.pool = @ \o SetToSeq(f.enemies)]
  BY DEF startGameStage, prepareGame, EnemyReset, resetEnemy, Cleared
<1>2. DOMAIN h = Fields /\ Scheduled(h) /\ \A c \in Chain : None(h, s, i, On(c))
  BY DEF Vacant
<1>3. /\ Only(h, a, {"stage", "tasks", "kills", "propNum", "prop", "buff"})
      /\ a.stage = st /\ a.kills = 0 /\ a.prop = "none" /\ Scheduled(a)
      /\ \A c \in Chain \ {"start"} : None(a, s, i, On(c))
      /\ Lone(a, s, i, On("start"))
      /\ Fresh(a, h)
  BY <1>2, ClearedIs
<1> HIDE DEF a
<1>4. DOMAIN b = Fields /\ Only(a, b, {"home", "air"}) /\ b.tasks = a.tasks /\ b.prop = a.prop
  BY <1>3 DEF Only, Fields
<1>5. b.air \in [{"player", "enemy"} -> 0..Flight] /\ b.air["player"] = 0 /\ b.air["enemy"] = 0
  <2>1. DOMAIN a = Fields
    BY <1>3 DEF Only
  <2>2. b.air = [player |-> 0, enemy |-> 0]
    BY <2>1 DEF Fields
  <2> HIDE DEF b
  <2> QED BY <2>2 DEF Flight
<1> HIDE DEF b
<1>6. /\ Only(h, b, {"stage", "tasks", "kills", "propNum", "prop", "buff", "home", "air"})
      /\ b.stage = st /\ b.kills = 0 /\ b.prop = "none"
      /\ b.live = h.live /\ b.lifeNum = h.lifeNum
  BY <1>3, <1>4 DEF Only, Fields
<1>7. Scheduled(b)
  BY <1>3, <1>4 DEF Scheduled
<1>8. /\ \A c \in Chain \ {"start"} : None(b, s, i, On(c))
      /\ Lone(b, s, i, On("start"))
  BY <1>3, <1>4 DEF None, Lone
<1>9. PICK w : /\ Only(b, w, {"tank"}) /\ w.tasks = b.tasks
               /\ Placed(w, s, i, e, Len(PlayerSeq))
  <2>1. None(b, s, i, On("playerBorn")) /\ None(b, s, i, On("revive"))
    BY <1>8 DEF Chain
  <2>2. b.live \in [Players -> BOOLEAN]
    BY <1>6 DEF Vacant
  <2> QED BY <1>4, <1>7, <2>1, <2>2, InitPlayersIs
<1> HIDE DEF e
<1>10. Only(b, e, {"tank", "shield", "tasks"}) /\ DOMAIN e = Fields
  BY <1>9 DEF Placed, Only
<1>11. /\ Only(e, k, {"data", "enemies", "pool"}) /\ k.enemies = {}
       /\ k.pool = e.pool \o SetToSeq(e.enemies) /\ DOMAIN k = Fields
  <2>1. DOMAIN f = Fields /\ Only(e, f, {"data"}) /\ f.pool = e.pool /\ f.enemies = e.enemies
    BY <1>10 DEF Only, Fields
  <2> HIDE DEF f
  <2> QED BY <1>1, <2>1 DEF Only, Fields
<1>12. k.data = FALSE
  <2>1. DOMAIN f = Fields /\ f.data = FALSE
    BY <1>10 DEF Fields
  <2> HIDE DEF f
  <2> QED BY <1>1, <2>1 DEF Fields
<1> HIDE DEF f
<1>13. Only(h, k, {"stage", "tasks", "kills", "propNum", "prop", "buff", "home", "air", "tank",
                   "shield", "data", "enemies", "pool"})
  BY <1>6, <1>10, <1>11 DEF Only
<1>14. /\ k.stage = st /\ k.kills = 0 /\ k.prop = "none" /\ k.air = b.air
       /\ k.tasks = e.tasks /\ k.tank = e.tank /\ k.live = b.live /\ k.lifeNum = b.lifeNum
       /\ k.live = h.live /\ k.lifeNum = h.lifeNum
       /\ e.enemies = h.enemies /\ e.pool = h.pool
  BY <1>6, <1>10, <1>11 DEF Only, Fields
<1>15. /\ k.page = "game" /\ k.gameOver = h.gameOver /\ k.running = h.running /\ k.pause = h.pause
       /\ k.panel = h.panel /\ k.finishNum = h.finishNum
  BY <1>13 DEF Only, Fields, Vacant
<1>16. k.pool \in Seq(Nodes)
  <2>1. IsFiniteSet(h.enemies) /\ h.enemies \subseteq Nodes /\ h.pool \in Seq(Nodes)
    BY NodesAre DEF Vacant
  <2>2. SetToSeq(h.enemies) \in Seq(h.enemies)
    BY <2>1, SetToSeqIs
  <2>3. SetToSeq(h.enemies) \in Seq(Nodes)
    BY <2>1, <2>2
  <2> QED BY <1>11, <1>14, <2>1, <2>3, ConcatProperties
<1>17. Typed(k)
  <2>1. k.running = FALSE /\ k.gameOver = FALSE /\ k.pause = FALSE
    BY <1>15 DEF Vacant
  <2>2. k.panel \in Nat /\ k.finishNum \in [1..Rows -> Nat]
    BY <1>15 DEF Vacant
  <2>3. k.air \in [{"player", "enemy"} -> 0..Flight] /\ k.stage \in Nat \ {0}
    BY <1>5, <1>14
  <2>4. DOMAIN k = Fields /\ k.page \in {"game", "success"}
    BY <1>11, <1>15
  <2>5. {k.running, k.gameOver, k.data} \subseteq BOOLEAN
    BY <1>12, <2>1
  <2> QED BY <1>16, <2>1, <2>2, <2>3, <2>4, <2>5 DEF Typed
<1>18. Budget(k)
  <2>1. Cardinality({}) = 0 /\ EnemyTotal \in Nat
    BY FS_EmptySet, StageAssumption
  <2> QED BY <1>11, <1>14, <2>1 DEF Budget
<1>19. Scheduled(k)
  <2>1. Scheduled(e) /\ e.prop = "none"
    BY <1>6, <1>9, <1>10 DEF Placed, Only, Fields
  <2> QED BY <1>14, <2>1 DEF Scheduled
<1>20. /\ \A c \in Chain \ {"start", "playerBorn"} : None(k, s, i, On(c))
       /\ Lone(k, s, i, On("start"))
  <2>1. /\ \A c \in Chain \ {"start", "playerBorn"} : None(e, s, i, On(c))
        /\ Lone(e, s, i, On("start"))
    <3>1. \A c : c # "playerBorn" => /\ None(w, s, i, On(c)) => None(e, s, i, On(c))
                                     /\ Lone(w, s, i, On(c)) => Lone(e, s, i, On(c))
      BY <1>9 DEF Placed
    <3>2. \A c : /\ None(b, s, i, c) => None(w, s, i, c)
                 /\ Lone(b, s, i, c) => Lone(w, s, i, c)
      BY <1>9 DEF None, Lone
    <3> QED BY <1>8, <3>1, <3>2
  <2> QED BY <1>14, <2>1 DEF None, Lone
<1>21. PlayersOK(k, s, i)
  <2>1. k.live \in [Players -> BOOLEAN] /\ k.lifeNum \in [Players -> Nat]
    BY <1>14 DEF Vacant
  <2>2. k.tank \in [Players -> {"none", "borning"}]
    BY <1>9, <1>14 DEF Placed
  <2>3. ASSUME NEW p \in Players PROVE PlayerOK(k, s, i, p)
    <3>1. w.live = k.live
      BY <1>9, <1>14 DEF Only, Fields
    <3>2. /\ k.tank[p] = "borning" <=> k.live[p] = TRUE
          /\ None(k, s, i, By("revive", p))
          /\ None(k, s, i, By("playerBorn", p)) \/ k.tank[p] = "borning"
          /\ Lone(k, s, i, By("playerBorn", p))
      <4>1. /\ e.tank[p] = "borning" <=>
                  w.live[p] = TRUE /\ \E x \in 1..Len(PlayerSeq) : PlayerSeq[x] = p
            /\ None(e, s, i, By("revive", p))
            /\ None(e, s, i, By("playerBorn", p)) \/ e.tank[p] = "borning"
            /\ Lone(e, s, i, By("playerBorn", p))
        BY <1>9 DEF Placed
      <4>2. \E x \in 1..Len(PlayerSeq) : PlayerSeq[x] = p
        BY PlayersAre
      <4>3. \A c : /\ None(e, s, i, c) => None(k, s, i, c)
                   /\ Lone(e, s, i, c) => Lone(k, s, i, c)
        BY <1>14 DEF None, Lone
      <4> QED BY <1>14, <3>1, <4>1, <4>2, <4>3
    <3>3. Lone(k, s, i, By("revive", p))
      BY <3>2, MostUp DEF None, Lone
    <3>4. k.live[p] = TRUE \/ k.lifeNum[p] = 0
      BY <1>14 DEF Vacant
    <3>5. k.tank[p] = "none" \/ k.tank[p] = "borning"
      BY <2>2
    <3>6. k.live[p] = (k.tank[p] # "none")
      BY <2>1, <3>2, <3>5
    <3> QED BY <3>2, <3>3, <3>4, <3>6 DEF PlayerOK
  <2>4. \E p \in Players : k.live[p] = TRUE
    BY <1>14 DEF Vacant
  <2>5. k.tank \in [Players -> {"none", "borning", "up"}]
    BY <2>2
  <2> QED BY <2>1, <2>3, <2>4, <2>5 DEF PlayersOK
<1>22. Prepared(k, s, i)
  <2>1. k.running = FALSE
    BY <1>15 DEF Vacant
  <2> QED BY <1>5, <1>11, <1>12, <1>14, <1>20, <2>1 DEF Prepared, Chain
<1>23. Phase(k, s, i, d)
  <2>1. k.gameOver = FALSE /\ None(k, s, i, On("over"))
    BY <1>15, <1>20 DEF Vacant, Chain
  <2> QED BY <1>15, <1>22, <2>1 DEF Phase, Course
<1>24. Going(k, s, i, d)
  BY <1>17, <1>18, <1>19, <1>21, <1>23 DEF Going
<1>25. Fresh(k, h)
  <2>1. \A x \in DOMAIN e.tasks : \/ e.tasks[x].kind = "playerBorn"
                                  \/ \E y \in DOMAIN a.tasks : e.tasks[x] = a.tasks[y]
    BY <1>4, <1>9 DEF Placed
  <2> QED BY <1>3, <1>14, <2>1 DEF Fresh
<1> QED BY <1>14, <1>15, <1>22, <1>24, <1>25
-----------------------------------------------------------------------------
(* The end of a stage *)

\* A game that is over stays over.
LEMMA FinalOn ==
  ASSUME NEW h, NEW s, NEW i, NEW d, Going(h, s, i, d), Final(h, s, i), NEW k, NEW s2, NEW i2,
         Agree(h, k, {"page", "stage", "gameOver", "live", "lifeNum", "tank"}),
         LessFor(h.tasks, 0, k.tasks, 0), LessFor(s, i, s2, i2),
         Revives(h.tasks, 0, k.tasks, 0), Revives(s, i, s2, i2),
         None(h, s, i, On("start")) => None(k, s2, i2, On("start")),
         Typed(k), Budget(k), Scheduled(k)
  PROVE  Going(k, s2, i2, d) /\ Final(k, s2, i2)
<1>1. k.page = h.page /\ k.stage = h.stage /\ k.gameOver = h.gameOver
  BY DEF Agree
<1>2. k.page = "game" => PlayersOK(k, s2, i2)
  <2>1. Agree(h, k, {"live", "lifeNum", "tank", "gameOver"})
    BY DEF Agree
  <2> QED BY <1>1, <2>1, PlayersFor DEF Going
<1>3. Final(k, s2, i2)
  BY <1>1 DEF Final
<1> QED BY <1>2, <1>3 DEF Going, Phase

\* One animation for each player: one task, or two of them.
RowTask(r, n) == Once("Result", "row", [row |-> r, panel |-> n], RowTime)

\* Appending one task per player appends one or two.
LEMMA RowsAppended ==
  ASSUME NEW u \in Seq(Tasks), NEW t \in Tasks, NEW v,
         v = u \o [x \in DOMAIN PlayerSeq |-> t]
  PROVE  v = Append(u, t) \/ (Seats = 2 /\ v = Append(Append(u, t), t))
<1> DEFINE w == [x \in DOMAIN PlayerSeq |-> t]
<1>1. CASE Len(PlayerSeq) = 1
  <2>1. DOMAIN PlayerSeq = 1..1
    BY <1>1, PlayersAre
  <2>2. w = <<t>>
    BY <2>1
  <2> HIDE DEF w
  <2>3. u \o <<t>> = Append(u, t)
    OBVIOUS
  <2> QED BY <2>2, <2>3 DEF w
<1>2. CASE Len(PlayerSeq) = 2
  <2>1. DOMAIN PlayerSeq = 1..2
    BY <1>2, PlayersAre
  <2>2. w = <<t, t>>
    BY <2>1
  <2> HIDE DEF w
  <2>3. u \o <<t, t>> = Append(Append(u, t), t)
    OBVIOUS
  <2> QED BY <1>2, <2>2, <2>3 DEF w, Seats
<1> QED BY <1>1, <1>2, PlayersAre

\* Such a task belongs to its own row and panel only.
LEMMA RowIs ==
  ASSUME NEW r \in 1..Rows, NEW n \in Nat, NEW t, t = RowTask(r, n)
  PROVE  /\ t \in Tasks /\ TaskOK(t) /\ t.kind = "row"
         /\ ~Like(t, Stray(r, n))
<1>1. /\ "Result" = Owner("row") /\ "row" \in Kinds \ {"status"}
      /\ [row |-> r, panel |-> n] \in Args /\ [row |-> r, panel |-> n] \in [row : 1..Rows, panel : Nat]
      /\ RowTime = 1 /\ 1 \in Nat \ {0} /\ "row" \notin {"playerBorn", "revive", "shieldEnd"}
  BY DEF Owner, Kinds, Args, RowTime
<1>2. t \in Tasks /\ TaskOK(t) /\ t.kind = "row" /\ t.arg = [row |-> r, panel |-> n]
  BY <1>1, OnceIs DEF RowTask
<1> QED BY <1>2 DEF Like, Stray

\* A row begins to be shown.
Rowed(u, v, r, n) ==
    /\ \A c : c # "row" => \A q \in 0..2 : Most(v, 0, On(c), q) <=> Most(u, 0, On(c), q)
    /\ \A c \in {"playerBorn", "revive"}, p \in Players, q \in 0..2 :
          Most(v, 0, By(c, p), q) <=> Most(u, 0, By(c, p), q)
    /\ Most(u, 0, On("row"), 0) => Most(v, 0, On("row"), Seats)
    /\ Most(u, 0, Stray(r, n), 0) => Most(v, 0, Stray(r, n), 0)

\* showTankScoreAni schedules one animation per player, all of the row and the panel
\* that are shown.
LEMMA ShowsRow ==
  ASSUME NEW h, DOMAIN h = Fields, Scheduled(h), h.panel \in Nat, NEW r \in 1..Rows,
         NEW k, k = showTankScoreAni(h, r)
  PROVE  Only(h, k, {"tasks"}) /\ Scheduled(k) /\ Rowed(h.tasks, k.tasks, r, h.panel)
<1> DEFINE t == RowTask(r, h.panel)
<1>1. Only(h, k, {"tasks"}) /\ k.tasks = h.tasks \o [x \in DOMAIN PlayerSeq |-> t]
  BY DEF showTankScoreAni, RowTask, Once, Only, Fields
<1>2. t \in Tasks /\ TaskOK(t) /\ t.kind = "row" /\ ~Like(t, Stray(r, h.panel))
  BY RowIs
<1> HIDE DEF t
<1>3. h.tasks \in Seq(Tasks) /\ k.prop = h.prop
  BY <1>1 DEF Scheduled, Only, Fields
<1> DEFINE v == Append(h.tasks, t)
<1>4. k.tasks = v \/ (Seats = 2 /\ k.tasks = Append(v, t))
  BY <1>1, <1>2, <1>3, RowsAppended
<1>5. /\ \A c : c # "row" => ~Like(t, On(c))
      /\ \A c \in {"playerBorn", "revive"}, p \in Players : ~Like(t, By(c, p))
      /\ Like(t, On("row"))
  BY <1>2 DEF Like, On, By
<1>6. ASSUME NEW u \in Seq(Tasks)
      PROVE  /\ \A c : c # "row" => \A q \in 0..2 : Most(Append(u, t), 0, On(c), q) <=> Most(u, 0, On(c), q)
             /\ \A c \in {"playerBorn", "revive"}, p \in Players, q \in 0..2 :
                   Most(Append(u, t), 0, By(c, p), q) <=> Most(u, 0, By(c, p), q)
             /\ Most(u, 0, On("row"), 0) => Most(Append(u, t), 0, On("row"), 1)
             /\ Most(u, 0, On("row"), 1) => Most(Append(u, t), 0, On("row"), 2)
             /\ Most(u, 0, Stray(r, h.panel), 0) => Most(Append(u, t), 0, Stray(r, h.panel), 0)
  <2>1. \A c : c # "row" => \A q \in 0..2 : Most(Append(u, t), 0, On(c), q) <=> Most(u, 0, On(c), q)
    BY <1>2, <1>5, Appending
  <2>2. \A c \in {"playerBorn", "revive"}, p \in Players, q \in 0..2 :
            Most(Append(u, t), 0, By(c, p), q) <=> Most(u, 0, By(c, p), q)
    BY <1>2, <1>5, Appending
  <2>3. \A q \in 0..1 : Most(u, 0, On("row"), q) => Most(Append(u, t), 0, On("row"), q + 1)
    BY <1>2, <1>5, Appending
  <2>4. Most(u, 0, Stray(r, h.panel), 0) => Most(Append(u, t), 0, Stray(r, h.panel), 0)
    BY <1>2, Appending
  <2>5. 0 \in 0..1 /\ 1 \in 0..1 /\ 0 + 1 = 1 /\ 1 + 1 = 2
    OBVIOUS
  <2> QED BY <2>1, <2>2, <2>3, <2>4, <2>5
<1>7. v \in Seq(Tasks)
  BY <1>2, <1>3, AppendProperties
<1>8. Rowed(h.tasks, v, r, h.panel)
  <2>1. Most(v, 0, On("row"), 1) => Most(v, 0, On("row"), Seats)
    BY MostUp, SeatsAre
  <2> QED BY <1>3, <1>6, <2>1 DEF Rowed
<1>9. Seats = 2 => Rowed(h.tasks, Append(v, t), r, h.panel)
  <2>1. /\ \A c : c # "row" => \A q \in 0..2 : Most(v, 0, On(c), q) <=> Most(h.tasks, 0, On(c), q)
        /\ \A c \in {"playerBorn", "revive"}, p \in Players, q \in 0..2 :
              Most(v, 0, By(c, p), q) <=> Most(h.tasks, 0, By(c, p), q)
        /\ Most(h.tasks, 0, On("row"), 0) => Most(v, 0, On("row"), 1)
        /\ Most(h.tasks, 0, Stray(r, h.panel), 0) => Most(v, 0, Stray(r, h.panel), 0)
    BY <1>3, <1>6
  <2> HIDE DEF v
  <2>2. /\ \A c : c # "row" => \A q \in 0..2 : Most(Append(v, t), 0, On(c), q) <=> Most(v, 0, On(c), q)
        /\ \A c \in {"playerBorn", "revive"}, p \in Players, q \in 0..2 :
              Most(Append(v, t), 0, By(c, p), q) <=> Most(v, 0, By(c, p), q)
        /\ Most(v, 0, On("row"), 1) => Most(Append(v, t), 0, On("row"), 2)
        /\ Most(v, 0, Stray(r, h.panel), 0) => Most(Append(v, t), 0, Stray(r, h.panel), 0)
    BY <1>6, <1>7
  <2> QED BY <2>1, <2>2 DEF Rowed
<1>10. Scheduled(k)
  <2> DEFINE m == [h EXCEPT !.tasks = v]
  <2>1. m.tasks = v /\ m.prop = h.prop
    BY DEF Fields
  <2> HIDE DEF m, v
  <2>2. Scheduled(m)
    BY <1>2, <1>3, <2>1, ScheduledAppend DEF v
  <2>3. CASE k.tasks = v
    BY <1>3, <2>1, <2>2, <2>3 DEF Scheduled
  <2>4. CASE k.tasks = Append(v, t)
    BY <1>2, <1>3, <2>1, <2>2, <2>4, ScheduledAppend
  <2> QED BY <1>4, <2>3, <2>4
<1> QED BY <1>1, <1>4, <1>8, <1>9, <1>10
\* Where no row is shown, none of another panel is.
LEMMA NoStray ==
  ASSUME NEW u, NEW n, Most(u, n, On("row"), 0), NEW r, NEW m
  PROVE  Most(u, n, Stray(r, m), 0)
BY DEF Most, AtMost, In, Like, On, Stray

\* No enemy is born after the end of a stage.
LEMMA EmitsEnded ==
  ASSUME NEW h, DOMAIN h = Fields, Scheduled(h), NEW k, k = emitGameEnded(h)
  PROVE  /\ Only(h, k, {"tasks"}) /\ Scheduled(k)
         /\ Thins(h.tasks, 0, k.tasks, 0) /\ Revives(h.tasks, 0, k.tasks, 0)
         /\ Most(k.tasks, 0, On("born"), 0)
<1> DEFINE a == unscheduleAll(h, "Ani")
<1>1. k = unscheduleAll(a, "PropManager")
  BY DEF emitGameEnded, stopAllAnimation
<1>2. /\ Only(h, a, {"tasks"}) /\ Scheduled(a)
      /\ Thins(h.tasks, 0, a.tasks, 0) /\ Revives(h.tasks, 0, a.tasks, 0)
      /\ \A x \in DOMAIN a.tasks : a.tasks[x].ctx # "Ani"
  BY UnscheduledIs
<1> HIDE DEF a
<1>3. DOMAIN a = Fields
  BY <1>2 DEF Only
<1>4. /\ Only(a, k, {"tasks"}) /\ Scheduled(k)
      /\ Thins(a.tasks, 0, k.tasks, 0) /\ Revives(a.tasks, 0, k.tasks, 0)
  BY <1>1, <1>2, <1>3, UnscheduledIs
<1>5. Most(a.tasks, 0, On("born"), 0)
  BY <1>2 DEF Scheduled, TaskOK, OneOf, Owner, Most, AtMost, In, Like, On
<1>6. Most(k.tasks, 0, On("born"), 0)
  BY <1>4, <1>5, AreClasses DEF Thins
<1>7. Only(h, k, {"tasks"})
  BY <1>2, <1>4 DEF Only
<1>8. Thins(h.tasks, 0, k.tasks, 0)
  BY <1>2, <1>4 DEF Thins
<1>9. Revives(h.tasks, 0, k.tasks, 0)
  BY <1>2, <1>4 DEF Revives
<1> QED BY <1>4, <1>6, <1>7, <1>8, <1>9

\* What gameEnd does to the game's record.
LEMMA EndIs ==
  ASSUME NEW h, DOMAIN h = Fields, Scheduled(h), h.panel \in Nat, NEW k, k = gameEnd(h)
  PROVE  /\ Only(h, k, {"running", "enable", "tasks", "totalScore", "panel", "finishNum"})
         /\ k.running = FALSE /\ k.panel = h.panel + 1 /\ k.finishNum = [r \in 1..Rows |-> 0]
         /\ Scheduled(k)
         /\ \E u : /\ Thins(h.tasks, 0, u, 0) /\ Revives(h.tasks, 0, u, 0)
                   /\ Most(u, 0, On("born"), 0) /\ Rowed(u, k.tasks, 1, k.panel)
<1> DEFINE a == [h EXCEPT !.running = FALSE, !.enable = FALSE]
           b == emitGameEnded(a)
           c == calcGameResult(b)
           e == [c EXCEPT !.panel = @ + 1, !.finishNum = [r \in 1..Rows |-> 0]]
<1>1. k = showTankScoreAni(e, 1)
  BY DEF gameEnd, showGameResult
<1>2. /\ Only(h, a, {"running", "enable"}) /\ a.running = FALSE /\ DOMAIN a = Fields
      /\ a.tasks = h.tasks /\ a.prop = h.prop
  BY DEF Only, Fields
<1> HIDE DEF a
<1>3. Scheduled(a)
  BY <1>2 DEF Scheduled
<1>4. /\ Only(a, b, {"tasks"}) /\ Scheduled(b)
      /\ Thins(a.tasks, 0, b.tasks, 0) /\ Revives(a.tasks, 0, b.tasks, 0)
      /\ Most(b.tasks, 0, On("born"), 0)
  BY <1>2, <1>3, EmitsEnded
<1> HIDE DEF b
<1>5. Only(b, c, {"totalScore"}) /\ c.tasks = b.tasks /\ c.prop = b.prop /\ DOMAIN c = Fields
  BY <1>4 DEF Only, Fields, calcGameResult
<1> HIDE DEF c
<1>6. /\ Only(c, e, {"panel", "finishNum"}) /\ e.panel = c.panel + 1 /\ DOMAIN e = Fields
      /\ e.finishNum = [r \in 1..Rows |-> 0] /\ e.tasks = c.tasks /\ e.prop = c.prop
  BY <1>5 DEF Only, Fields
<1> HIDE DEF e
<1>7. c.panel = h.panel
  BY <1>2, <1>4, <1>5 DEF Only, Fields
<1>8. Scheduled(e) /\ e.panel \in Nat /\ e.panel = h.panel + 1
  BY <1>4, <1>5, <1>6, <1>7 DEF Scheduled
<1>9. Only(e, k, {"tasks"}) /\ Scheduled(k) /\ Rowed(e.tasks, k.tasks, 1, e.panel)
  <2>1. 1 \in 1..Rows
    BY DEF Rows
  <2> QED BY <1>1, <1>6, <1>8, <2>1, ShowsRow
<1>10. Only(h, k, {"running", "enable", "tasks", "totalScore", "panel", "finishNum"})
  BY <1>2, <1>4, <1>5, <1>6, <1>9 DEF Only
<1>11. k.panel = e.panel /\ k.finishNum = e.finishNum
  BY <1>9 DEF Only, Fields
<1>12. k.running = FALSE
  BY <1>2, <1>4, <1>5, <1>6, <1>9 DEF Only, Fields
<1>13. /\ Thins(h.tasks, 0, e.tasks, 0) /\ Revives(h.tasks, 0, e.tasks, 0)
       /\ Most(e.tasks, 0, On("born"), 0)
  BY <1>2, <1>4, <1>5, <1>6
<1>14. Rowed(e.tasks, k.tasks, 1, k.panel)
  BY <1>9, <1>11
<1>15. \E u : /\ Thins(h.tasks, 0, u, 0) /\ Revives(h.tasks, 0, u, 0)
              /\ Most(u, 0, On("born"), 0) /\ Rowed(u, k.tasks, 1, k.panel)
  BY <1>13, <1>14
<1>16. k.panel = h.panel + 1 /\ k.finishNum = [r \in 1..Rows |-> 0]
  BY <1>6, <1>8, <1>11
<1> QED BY <1>9, <1>10, <1>12, <1>15, <1>16

\* A row more is no concern of the players.
LEMMA RowedFor ==
  ASSUME NEW h, NEW s, NEW i, NEW s2, NEW i2, NEW u, NEW k, NEW r, NEW n,
         Thins(h.tasks, 0, u, 0), Revives(h.tasks, 0, u, 0), Rowed(u, k.tasks, r, n)
  PROVE  /\ LessFor(h.tasks, 0, k.tasks, 0) /\ Revives(h.tasks, 0, k.tasks, 0)
         /\ \A c \in (Chain \cup {"born"}) \ {"row"} : \A q \in 0..2 :
               Most(h.tasks, 0, On(c), q) => Most(k.tasks, 0, On(c), q)
<1>1. \A c \in {"playerBorn", "revive"}, p \in Players, q \in 0..2 :
          Most(h.tasks, 0, By(c, p), q) => Most(u, 0, By(c, p), q)
  <2>1. \A c \in {"playerBorn", "revive"}, p \in Players : By(c, p) \in Classes
    BY AreClasses
  <2> QED BY <2>1 DEF Thins
<1>2. LessFor(h.tasks, 0, k.tasks, 0)
  BY <1>1 DEF LessFor, Rowed
<1>3. \A p \in Players : Most(k.tasks, 0, By("revive", p), 0) <=> Most(u, 0, By("revive", p), 0)
  <2>1. 0 \in 0..2 /\ "revive" \in {"playerBorn", "revive"}
    OBVIOUS
  <2> QED BY <2>1 DEF Rowed
<1>4. Revives(h.tasks, 0, k.tasks, 0)
  BY <1>3 DEF Revives
<1>5. \A c \in Chain \cup {"born"} : \A q \in 0..2 :
          Most(h.tasks, 0, On(c), q) => Most(u, 0, On(c), q)
  BY AreClasses DEF Thins
<1> QED BY <1>2, <1>4, <1>5 DEF Rowed

\* The next task of a kind of which there is only one was the last of it.
LEMMA LastOne ==
  ASSUME NEW h, NEW s \in Seq(Tasks), NEW i \in Nat, i < Len(s), NEW c, Like(s[i + 1], c),
         Lone(h, s, i, c)
  PROVE  Most(h.tasks, 0, c, 0) /\ Most(s, i + 1, c, 0)
<1>1. ~Most(s, i, c, 0)
  BY Consuming
<1>2. Most(s, i, c, 1) => Most(s, i + 1, c, 0)
  BY Consuming
<1> QED BY <1>1, <1>2 DEF Lone

\* What is left of a class after the next task.
LEMMA NextLess ==
  ASSUME NEW s \in Seq(Tasks), NEW i \in Nat, i < Len(s), NEW c, NEW q \in 0..2, Most(s, i, c, q)
  PROVE  Most(s, i + 1, c, q)
BY Consuming

\* The stage ends: it was won, or the game is over.
LEMMA GameEndIs ==
  ASSUME NEW h, NEW s \in Seq(Tasks), NEW i \in Nat, i < Len(s), Going(h, s, i, 1),
         s[i + 1].kind \in {"over", "win"}, NEW k, k = gameEnd(h)
  PROVE  Onward(h, k, s, i + 1, 1)
<1>1. DOMAIN h = Fields /\ h.tasks \in Seq(Tasks) /\ Scheduled(h) /\ h.panel \in Nat
  BY GoingIs
<1>2. /\ Only(h, k, {"running", "enable", "tasks", "totalScore", "panel", "finishNum"})
      /\ k.running = FALSE /\ k.panel = h.panel + 1 /\ k.finishNum = [r \in 1..Rows |-> 0]
      /\ Scheduled(k)
      /\ \E u : /\ Thins(h.tasks, 0, u, 0) /\ Revives(h.tasks, 0, u, 0)
                /\ Most(u, 0, On("born"), 0) /\ Rowed(u, k.tasks, 1, k.panel)
  BY <1>1, EndIs
<1>3. PICK u : /\ Thins(h.tasks, 0, u, 0) /\ Revives(h.tasks, 0, u, 0)
               /\ Most(u, 0, On("born"), 0) /\ Rowed(u, k.tasks, 1, k.panel)
  BY <1>2
<1>4. Agree(h, k, Fields \ {"running", "enable", "tasks", "totalScore", "panel", "finishNum"})
  BY <1>2 DEF Only, Agree
<1>5. /\ k.stage = h.stage /\ k.page = h.page /\ k.air = h.air /\ k.gameOver = h.gameOver
      /\ k.kills = h.kills /\ k.enemies = h.enemies
      /\ Agree(h, k, {"page", "stage", "gameOver", "live", "lifeNum", "tank"})
      /\ Agree(h, k, {"live", "lifeNum", "tank", "gameOver"})
  BY <1>4 DEF Agree, Fields
<1>6. Typed(k)
  <2>0. k.panel \in Nat /\ k.finishNum \in [1..Rows -> Nat]
    BY <1>1, <1>2
  <2>1. {k.running, k.gameOver, k.data} \subseteq BOOLEAN
    <3>1. k.gameOver = h.gameOver /\ k.data = h.data
      BY <1>4 DEF Agree, Fields
    <3>2. k.gameOver \in BOOLEAN /\ k.data \in BOOLEAN
      BY <3>1, GoingIs
    <3>3. k.running \in BOOLEAN
      BY <1>2
    <3> QED BY <3>2, <3>3
  <2> QED BY <1>4, <2>0, <2>1 DEF Typed, Agree, Fields, Going
<1>7. Budget(k)
  BY <1>5 DEF Budget, Going
<1>8. /\ LessFor(h.tasks, 0, k.tasks, 0) /\ Revives(h.tasks, 0, k.tasks, 0)
      /\ \A c \in (Chain \cup {"born"}) \ {"row"} : \A q \in 0..2 :
            Most(h.tasks, 0, On(c), q) => Most(k.tasks, 0, On(c), q)
  BY <1>3, RowedFor
<1>9. LessFor(s, i, s, i + 1) /\ Revives(s, i, s, i + 1)
  <2>1. LessBut(h, s, i, h, s, i + 1) /\ Revives(s, i, s, i + 1)
    BY Consumed
  <2> QED BY <2>1, AreClasses DEF LessBut, ThinsBut, LessFor
<1>10. \A c \in (Chain \cup {"born"}) \ {"row"} : None(h, s, i, On(c)) => None(k, s, i + 1, On(c))
  BY <1>8, NextLess DEF None
<1>11. CASE Final(h, s, i)
  <2>1. None(h, s, i, On("start")) => None(k, s, i + 1, On("start"))
    BY <1>10 DEF Chain
  <2>2. Going(k, s, i + 1, 1)
    BY <1>2, <1>5, <1>6, <1>7, <1>8, <1>9, <1>11, <2>1, FinalOn
  <2> QED BY <1>5, <2>2 DEF Onward
<1>12. CASE ~Final(h, s, i)
  <2>1. h.page = "game" /\ h.gameOver = FALSE /\ None(h, s, i, On("over")) /\ Course(h, s, i, 1)
    BY <1>12 DEF Going, Phase
  <2>2. \A c : None(h, s, i, On(c)) => s[i + 1].kind # c
    <3>1. \A c : s[i + 1].kind = c => Like(s[i + 1], On(c))
      BY DEF Like, On
    <3> QED BY <3>1, Consuming DEF None
  <2>3. s[i + 1].kind = "win"
    BY <2>1, <2>2
  <2>4. ~None(h, s, i, On("win"))
    BY <2>2, <2>3
  <2>5. Won(h, s, i)
    BY <2>1, <2>4 DEF Course, Prepared, Running, NewRow, OldRow, Shown, Ended, Stuck
  <2>6. Most(h.tasks, 0, On("win"), 0) /\ Most(s, i + 1, On("win"), 0)
    <3>1. Like(s[i + 1], On("win"))
      BY <2>3 DEF Like, On
    <3> QED BY <2>5, <3>1, LastOne DEF Won
  <2>7. None(k, s, i + 1, On("win"))
    BY <1>8, <2>6 DEF None, Chain
  <2>8. Ended(k, s, i + 1)
    <3>1. None(k, s, i + 1, On("start"))
      BY <1>10, <2>5 DEF Won, Chain
    <3>2. Most(k.tasks, 0, On("born"), 0)
      BY <1>3 DEF Rowed
    <3> QED BY <1>2, <1>5, <2>5, <2>7, <3>1, <3>2 DEF Ended, Won
  <2>9. None(k, s, i + 1, On("shown")) /\ None(k, s, i + 1, On("over"))
    BY <1>10, <2>1, <2>5 DEF Won, Chain
  <2>10. Most(u, 0, On("row"), 0) /\ Most(s, i + 1, On("row"), 0)
    <3>1. Most(h.tasks, 0, On("row"), 0) /\ Most(s, i, On("row"), 0)
      BY <2>5 DEF Won, None
    <3>2. On("row") \in Classes
      BY AreClasses DEF Chain
    <3> QED BY <1>3, <3>1, <3>2, NextLess DEF Thins
  <2>11. None(k, s, i + 1, Stray(1, k.panel))
    BY <1>3, <2>10, NoStray DEF None, Rowed
  <2>12. NewRow(k, s, i + 1, 1, 1)
    <3>1. \A q \in 1..Rows : k.finishNum[q] = 0
      BY <1>2
    <3>2. h.air["enemy"] <= (2 - 1) + 1
      BY <1>1, GoingIs DEF Flight
    <3>3. Most(k.tasks, 0, On("row"), Seats)
      BY <1>3, <2>10 DEF Rowed
    <3> QED BY <1>5, <2>8, <2>9, <2>10, <2>11, <3>1, <3>2, <3>3 DEF NewRow
  <2>13. Course(k, s, i + 1, 1)
    <3>1. 1 \in 1..Rows
      BY DEF Rows
    <3> QED BY <2>12, <3>1 DEF Course
  <2>14. Phase(k, s, i + 1, 1)
    BY <1>5, <2>1, <2>9, <2>13 DEF Phase
  <2>15. PlayersOK(k, s, i + 1)
    <3>1. PlayersOK(h, s, i)
      BY <2>1 DEF Going
    <3> QED BY <1>5, <1>8, <1>9, <3>1, PlayersFor
  <2> QED BY <1>2, <1>5, <1>6, <1>7, <2>14, <2>15 DEF Onward, Going
<1> QED BY <1>11, <1>12

\* What the end of an animation does to the game's record: it counts, and may
\* be followed by the next row, or by the end of the page.
Counted(h, k) ==
    /\ Only(h, k, {"finishNum", "tasks"}) /\ k.finishNum \in [1..Rows -> Nat] /\ Scheduled(k)
    /\ LessFor(h.tasks, 0, k.tasks, 0) /\ Revives(h.tasks, 0, k.tasks, 0)
    /\ \A c \in (Chain \cup {"born"}) \ {"row", "shown"} : \A q \in 0..2 :
          Most(h.tasks, 0, On(c), q) => Most(k.tasks, 0, On(c), q)
Page(r, p) == [row |-> r, panel |-> p]
Turned(h, k, r, p) ==
    p = h.panel /\ h.finishNum[r] < Seats =>
        /\ k.finishNum = [h.finishNum EXCEPT ![r] = @ + 1]
        /\ h.finishNum[r] + 1 < Seats => k.tasks = h.tasks
        /\ h.finishNum[r] + 1 = Seats /\ r = Rows =>
              k.tasks = Append(h.tasks, Once("Result", "shown", Page(r, p), ShownTime))
        /\ h.finishNum[r] + 1 = Seats /\ r # Rows => Rowed(h.tasks, k.tasks, r + 1, h.panel)

\* aniFinish counts an animation of its own panel; the last one of a row begins the
\* next row, or the delay after the last row.
LEMMA CountedIs ==
  ASSUME NEW h, DOMAIN h = Fields, Scheduled(h), h.panel \in Nat,
         h.finishNum \in [1..Rows -> Nat], NEW r \in 1..Rows, NEW p \in Nat,
         NEW arg, arg = Page(r, p), NEW k, k = aniFinish(h, arg)
  PROVE  Counted(h, k) /\ Turned(h, k, r, p)
<1> DEFINE n == h.finishNum[r] + 1
           m == IF p = h.panel THEN [h EXCEPT !.finishNum[r] = n] ELSE h
           t == Once("Result", "shown", arg, ShownTime)
<1>0. arg.row = r /\ arg.panel = p /\ arg \in [row : 1..Rows, panel : Nat]
  BY DEF Page
<1> HIDE DEF m, n, t
<1>1. /\ n < Len(PlayerSeq) => k = m
      /\ ~(n < Len(PlayerSeq)) /\ n >= Len(PlayerSeq) /\ r = Rows =>
            k = scheduleOnce(m, "Result", "shown", arg, ShownTime)
      /\ ~(n < Len(PlayerSeq)) /\ ~(n >= Len(PlayerSeq) /\ r = Rows) =>
            k = showTankScoreAni(m, r + 1)
  <2> DEFINE l == Len(PlayerSeq)
             x == scheduleOnce(m, "Result", "shown", arg, ShownTime)
             y == showTankScoreAni(m, r + 1)
  <2>1. k = CASE n < l -> m
              [] n >= l /\ r = Rows -> x
              [] OTHER -> y
    BY <1>0 DEF aniFinish, m, n
  <2>2. n \in Nat /\ l \in Nat
    <3>1. h.finishNum[r] \in Nat
      OBVIOUS
    <3> QED BY <3>1, PlayersAre DEF n
  <2> HIDE DEF l, x, y
  <2>3. n < l => ~(n >= l)
    BY <2>2
  <2>4. n < l => k = m
    BY <2>1, <2>3
  <2>5. ~(n < l) /\ n >= l /\ r = Rows => k = x
    BY <2>1
  <2>6. ~(n < l) /\ ~(n >= l /\ r = Rows) => k = y
    BY <2>1
  <2> QED BY <2>4, <2>5, <2>6 DEF l, x, y
<1>2. DOMAIN h = Fields /\ h.tasks \in Seq(Tasks) /\ Scheduled(h) /\ h.panel \in Nat
      /\ h.finishNum \in [1..Rows -> Nat]
  BY DEF Scheduled
<1>3. n \in Nat /\ n = h.finishNum[r] + 1 /\ h.finishNum[r] \in Nat
  <2>1. h.finishNum[r] \in Nat
    BY <1>2
  <2> QED BY <2>1 DEF n
<1>4. /\ Only(h, m, {"finishNum"}) /\ DOMAIN m = Fields /\ m.tasks = h.tasks /\ m.panel = h.panel
      /\ m.prop = h.prop /\ m.finishNum \in [1..Rows -> Nat]
      /\ p = h.panel => m.finishNum = [h.finishNum EXCEPT ![r] = n]
  BY <1>2, <1>3 DEF Only, Fields, m
<1>5. Scheduled(m)
  BY <1>2, <1>4 DEF Scheduled
<1>6. Len(PlayerSeq) = Seats /\ Seats \in 1..2
  BY SeatsAre DEF Seats
<1>7. CASE n < Seats
  <2>1. k = m
    BY <1>1, <1>6, <1>7
  <2>2. LessFor(h.tasks, 0, k.tasks, 0) /\ Revives(h.tasks, 0, k.tasks, 0)
    BY <1>4, <2>1, ThinsSame DEF LessFor
  <2>3. Counted(h, k)
    BY <1>4, <1>5, <2>1, <2>2 DEF Counted, Only
  <2>4. Turned(h, k, r, p)
    BY <1>3, <1>4, <1>6, <1>7, <2>1 DEF Turned
  <2> QED BY <2>3, <2>4
<1>8. CASE n >= Seats /\ r = Rows
  <2>1. k = scheduleOnce(m, "Result", "shown", arg, ShownTime)
    BY <1>1, <1>3, <1>6, <1>8
  <2>2. Only(m, k, {"tasks"}) /\ k.tasks = Append(h.tasks, t)
    BY <1>4, <2>1, SchedulingIs DEF t
  <2>3. t \in Tasks /\ TaskOK(t) /\ t.kind = "shown"
    <3>1. /\ "Result" = Owner("shown") /\ "shown" \in Kinds \ {"status"} /\ arg \in Args
          /\ arg \in [row : 1..Rows, panel : Nat] /\ "shown" \in Slow
          /\ ShownTime \in Nat \ {0} /\ "shown" \notin {"playerBorn", "revive", "shieldEnd"}
      BY <1>0 DEF Owner, Kinds, Args, Slow, ShownTime
    <3> QED BY <3>1, OnceIs DEF t
  <2>4. k.prop = h.prop /\ k.finishNum = m.finishNum /\ Only(h, k, {"finishNum", "tasks"})
    BY <1>4, <2>2 DEF Only, Fields
  <2>5. Scheduled(k)
    BY <1>2, <2>2, <2>3, <2>4, ScheduledAppend
  <2>6. LessFor(h.tasks, 0, k.tasks, 0) /\ Revives(h.tasks, 0, k.tasks, 0)
    <3>1. \A q : \A c \in {"playerBorn", "revive"} : ~Like(t, By(c, q))
      BY <2>3 DEF Like, By
    <3>2. \A q : \A c \in {"playerBorn", "revive"}, x \in 0..2 :
              Most(k.tasks, 0, By(c, q), x) <=> Most(h.tasks, 0, By(c, q), x)
      <4>1. \A q : \A c \in {"playerBorn", "revive"} : \A x \in 0..2 :
                Most(Append(h.tasks, t), 0, By(c, q), x) <=> Most(h.tasks, 0, By(c, q), x)
        BY <1>2, <2>3, <3>1, Appending
      <4> QED BY <2>2, <4>1
    <3>3. LessFor(h.tasks, 0, k.tasks, 0)
      BY <3>2 DEF LessFor
    <3>4. 0 \in 0..2 /\ "revive" \in {"playerBorn", "revive"}
      OBVIOUS
    <3>5. \A q : Most(k.tasks, 0, By("revive", q), 0) <=> Most(h.tasks, 0, By("revive", q), 0)
      BY <3>2, <3>4
    <3> QED BY <3>3, <3>5 DEF Revives
  <2>7. \A c \in (Chain \cup {"born"}) \ {"row", "shown"} : \A q \in 0..2 :
            Most(h.tasks, 0, On(c), q) => Most(k.tasks, 0, On(c), q)
    BY <1>2, <2>2, <2>3, OneMore
  <2>8. Counted(h, k)
    BY <1>4, <2>4, <2>5, <2>6, <2>7 DEF Counted
  <2>9. Turned(h, k, r, p)
    BY <1>3, <1>4, <1>6, <1>8, <2>2, <2>4 DEF t, Turned
  <2> QED BY <2>8, <2>9
<1>9. CASE n >= Seats /\ r # Rows
  <2>1. k = showTankScoreAni(m, r + 1) /\ r + 1 \in 1..Rows
    BY <1>1, <1>3, <1>6, <1>9 DEF Rows
  <2>2. Only(m, k, {"tasks"}) /\ Scheduled(k) /\ Rowed(h.tasks, k.tasks, r + 1, h.panel)
    BY <1>2, <1>4, <1>5, <2>1, ShowsRow
  <2>3. k.finishNum = m.finishNum /\ Only(h, k, {"finishNum", "tasks"})
    BY <1>4, <2>2 DEF Only, Fields
  <2>4. /\ LessFor(h.tasks, 0, k.tasks, 0) /\ Revives(h.tasks, 0, k.tasks, 0)
        /\ \A c \in (Chain \cup {"born"}) \ {"row"} : \A q \in 0..2 :
              Most(h.tasks, 0, On(c), q) => Most(k.tasks, 0, On(c), q)
    BY <2>2, ThinsSame, RowedFor
  <2>5. Counted(h, k)
    BY <1>4, <2>2, <2>3, <2>4 DEF Counted
  <2>6. Turned(h, k, r, p)
    BY <1>3, <1>4, <1>6, <1>9, <2>2, <2>3 DEF Turned
  <2> QED BY <2>5, <2>6
<1> QED BY <1>3, <1>6, <1>7, <1>8, <1>9

\* What is left of a class the next task is of.
LEMMA NextCounts ==
  ASSUME NEW s \in Seq(Tasks), NEW i \in Nat, i < Len(s), NEW c, Like(s[i + 1], c),
         NEW q \in 0..2, Most(s, i, c, q)
  PROVE  q > 0 /\ Most(s, i + 1, c, q - 1)
<1>1. ~Most(s, i, c, 0)
  BY Consuming
<1>2. q \in 1..2
  BY <1>1
<1>3. \A x \in 1..2 : Most(s, i, c, x) => Most(s, i + 1, c, x - 1)
  BY Consuming
<1> QED BY <1>2, <1>3

\* The page of the result goes on by a row, or is over.
LEMMA PageGoesOn ==
  ASSUME NEW h, NEW s \in Seq(Tasks), NEW i \in Nat, i < Len(s), Going(h, s, i, 1),
         NEW r \in 1..Rows, OldRow(h, s, i, r), NEW arg \in [row : 1..Rows, panel : Nat],
         s[i + 1].kind = "row", s[i + 1].arg = arg, NEW k, k = aniFinish(h, arg)
  PROVE  Course(k, s, i + 1, 1)
<1>1. DOMAIN h = Fields /\ h.tasks \in Seq(Tasks) /\ h.panel \in Nat
      /\ h.finishNum \in [1..Rows -> Nat]
  BY GoingIs
<1>2. arg = Page(r, h.panel)
  <2>1. Most(s, i, Stray(r, h.panel), 0)
    BY DEF OldRow, None
  <2>2. ~Like(s[i + 1], Stray(r, h.panel))
    BY <2>1, Consuming
  <2> QED BY <2>2 DEF Like, Stray, Page
<1>3. Seats \in 1..2 /\ h.finishNum[r] \in Nat /\ h.finishNum[r] <= Seats
  BY <1>1, SeatsAre DEF OldRow
<1>4. h.finishNum[r] < Seats /\ Most(s, i + 1, On("row"), (Seats - h.finishNum[r]) - 1)
  <2> DEFINE q == RowsLeft(h, r)
  <2>1. Like(s[i + 1], On("row"))
    BY DEF Like, On
  <2>2. q \in 0..2 /\ q = Seats - h.finishNum[r]
    BY <1>3 DEF RowsLeft
  <2>3. Most(s, i, On("row"), q)
    BY DEF OldRow
  <2> HIDE DEF q
  <2>4. q > 0 /\ Most(s, i + 1, On("row"), q - 1)
    BY <2>1, <2>2, <2>3, NextCounts
  <2> QED BY <1>3, <2>2, <2>4
<1>5. /\ Counted(h, k)
      /\ k.finishNum = [h.finishNum EXCEPT ![r] = @ + 1]
      /\ h.finishNum[r] + 1 < Seats => k.tasks = h.tasks
      /\ h.finishNum[r] + 1 = Seats /\ r = Rows =>
            k.tasks = Append(h.tasks, Once("Result", "shown", arg, ShownTime))
      /\ h.finishNum[r] + 1 = Seats /\ r # Rows => Rowed(h.tasks, k.tasks, r + 1, h.panel)
  <2> DEFINE p == h.panel
             n == h.finishNum[r]
  <2>1. p \in Nat /\ arg = Page(r, p) /\ p = h.panel /\ n < Seats /\ n = h.finishNum[r]
    BY <1>1, <1>2, <1>4
  <2>2. Scheduled(h)
    BY GoingIs
  <2> HIDE DEF p, n
  <2>3. Counted(h, k) /\ Turned(h, k, r, p)
    BY <1>1, <2>1, <2>2, CountedIs
  <2> QED BY <2>1, <2>3 DEF Turned
<1>6. /\ k.running = h.running /\ k.kills = h.kills /\ k.panel = h.panel /\ k.air = h.air
  BY <1>5 DEF Counted, Only, Fields
<1>7. \A c \in (Chain \cup {"born"}) \ {"row", "shown"} : \A q \in 0..2 :
          /\ Most(h.tasks, 0, On(c), q) => Most(k.tasks, 0, On(c), q)
          /\ Most(s, i, On(c), q) => Most(s, i + 1, On(c), q)
  BY <1>5, NextLess DEF Counted
<1>8. Ended(k, s, i + 1)
  BY <1>6, <1>7 DEF OldRow, Ended, None, Chain
<1>9. CASE h.finishNum[r] + 1 < Seats
  <2>1. k.tasks = h.tasks
    BY <1>5, <1>9
  <2>2. None(k, s, i + 1, On("shown")) /\ None(k, s, i + 1, Stray(r, k.panel))
    BY <1>6, <2>1, NextLess DEF OldRow, None
  <2>3. Most(k.tasks, 0, On("row"), 0) /\ Most(k.tasks, 0, On("revive"), 0)
    BY <2>1 DEF OldRow
  <2>4. r > 1 => Most(s, i + 1, On("revive"), 0) /\ Most(k.tasks, 0, On("playerBorn"), 0)
    BY <2>1, <1>7 DEF OldRow, Chain
  <2>5. /\ \A q \in (r + 1)..Rows : k.finishNum[q] = 0
        /\ k.finishNum[r] <= Seats /\ RowsLeft(k, r) = (Seats - h.finishNum[r]) - 1
    <3>1. k.finishNum[r] = h.finishNum[r] + 1
      BY <1>1, <1>5
    <3>2. \A q \in (r + 1)..Rows : h.finishNum[q] = 0 /\ q \in 1..Rows /\ q # r
      BY DEF OldRow, Rows
    <3>3. \A q \in (r + 1)..Rows : k.finishNum[q] = 0
      BY <1>1, <1>5, <3>2
    <3>4. k.finishNum[r] <= Seats /\ Seats - k.finishNum[r] = (Seats - h.finishNum[r]) - 1
      BY <1>3, <1>9, <3>1
    <3> QED BY <3>3, <3>4 DEF RowsLeft
  <2>6. OldRow(k, s, i + 1, r)
    BY <1>4, <1>6, <1>8, <2>2, <2>3, <2>4, <2>5 DEF OldRow
  <2> QED BY <2>6 DEF Course
<1>10. CASE h.finishNum[r] + 1 = Seats /\ r = Rows
  <2> DEFINE t == Once("Result", "shown", arg, ShownTime)
  <2>1. k.tasks = Append(h.tasks, t)
    BY <1>5, <1>10
  <2>2. t \in Tasks /\ t.kind = "shown"
    <3>1. /\ "Result" = Owner("shown") /\ "shown" \in Kinds \ {"status"} /\ arg \in Args
          /\ "shown" \in Slow
          /\ ShownTime \in Nat \ {0} /\ "shown" \notin {"playerBorn", "revive", "shieldEnd"}
      BY DEF Owner, Kinds, Args, Slow, ShownTime
    <3> QED BY <3>1, OnceIs
  <2> HIDE DEF t
  <2>3. Lone(k, s, i, On("shown")) /\ (Most(h.tasks, 0, On("row"), 0) => Most(k.tasks, 0, On("row"), 0))
    <3>1. None(h, s, i, On("shown"))
      BY DEF OldRow
    <3>2. None(h, s, i, On(t.kind)) => Lone(k, s, i, On(t.kind))
      BY <1>1, <2>1, <2>2, OneMore
    <3>3. \A c : c # t.kind => \A q \in 0..2 : Most(h.tasks, 0, On(c), q) => Most(k.tasks, 0, On(c), q)
      BY <1>1, <2>1, <2>2, OneMore
    <3> QED BY <2>2, <3>1, <3>2, <3>3
  <2>4. Most(s, i, On("shown"), 0) /\ Most(s, i + 1, On("shown"), 0)
    BY NextLess DEF OldRow, None
  <2>5. Lone(k, s, i + 1, On("shown"))
    BY <2>3, <2>4, MostUp DEF Lone
  <2>6. Most(s, i + 1, On("row"), 0) /\ Most(k.tasks, 0, On("row"), 0)
    BY <1>3, <1>4, <1>10, <2>3 DEF OldRow
  <2>7. r > 1 /\ Most(k.tasks, 0, On("revive"), 0) /\ Most(s, i + 1, On("revive"), 0)
        /\ Most(k.tasks, 0, On("playerBorn"), 0)
    BY <1>7, <1>10 DEF OldRow, Chain, Rows
  <2>8. k.air["enemy"] = 0
    <3>1. h.air["enemy"] <= 0 /\ h.air["enemy"] \in 0..Flight
      BY <1>10, GoingIs DEF OldRow, Rows
    <3> QED BY <1>6, <3>1 DEF Flight
  <2>9. Shown(k, s, i + 1)
    BY <1>8, <2>4, <2>5, <2>6, <2>7, <2>8 DEF Shown, None
  <2> QED BY <2>9 DEF Course
<1>11. CASE h.finishNum[r] + 1 = Seats /\ r # Rows
  <2>1. r = 1 /\ 2 \in 1..Rows /\ Rowed(h.tasks, k.tasks, 2, h.panel)
    BY <1>5, <1>11 DEF Rows
  <2>2. Most(h.tasks, 0, On("row"), 0) /\ Most(s, i + 1, On("row"), 0)
    BY <1>3, <1>4, <1>11 DEF OldRow
  <2>3. None(k, s, i + 1, Stray(2, k.panel))
    BY <1>6, <2>1, <2>2, NoStray DEF None, Rowed
  <2>4. None(k, s, i + 1, On("shown"))
    BY <2>1, NextLess DEF OldRow, None, Rowed
  <2>5. \A q \in 2..Rows : k.finishNum[q] = 0
    BY <1>1, <1>5, <2>1 DEF OldRow
  <2>6. Most(k.tasks, 0, On("row"), Seats) /\ Most(k.tasks, 0, On("revive"), 0)
    BY <1>7, <2>1, <2>2 DEF Rowed, OldRow, Chain
  <2>7. k.air["enemy"] <= (2 - 2) + 1
    BY <1>6, <2>1 DEF OldRow
  <2>8. NewRow(k, s, i + 1, 1, 2)
    BY <1>8, <2>2, <2>3, <2>4, <2>5, <2>6, <2>7 DEF NewRow
  <2> QED BY <2>1, <2>8 DEF Course
<1> QED BY <1>3, <1>4, <1>9, <1>10, <1>11

\* An animation of the page ends.
LEMMA AniFinishIs ==
  ASSUME NEW h, NEW s, DueOK(s), NEW i \in Nat, i < Len(s), Going(h, s, i, 1),
         s[i + 1].kind = "row", NEW k, k = aniFinish(h, s[i + 1].arg)
  PROVE  Onward(h, k, s, i + 1, 1)
<1>1. s \in Seq(Tasks) /\ i + 1 \in DOMAIN s
  BY LenProperties DEF DueOK
<1>2. s[i + 1].arg \in [row : 1..Rows, panel : Nat]
  BY <1>1 DEF DueOK, OneOf
<1>3. PICK r \in 1..Rows, p \in Nat : s[i + 1].arg = Page(r, p)
  BY <1>2 DEF Page
<1>4. Counted(h, k)
  <2> DEFINE arg == s[i + 1].arg
  <2>1. arg = Page(r, p) /\ k = aniFinish(h, arg)
    BY <1>3
  <2>2. /\ DOMAIN h = Fields /\ Scheduled(h) /\ h.panel \in Nat
        /\ h.finishNum \in [1..Rows -> Nat]
    BY GoingIs
  <2> HIDE DEF arg
  <2> QED BY <2>1, <2>2, CountedIs
<1>5. Agree(h, k, Fields \ {"finishNum", "tasks"}) /\ k.finishNum \in [1..Rows -> Nat] /\ Scheduled(k)
  BY <1>4 DEF Counted, Only, Agree
<1>6. /\ k.stage = h.stage /\ k.page = h.page /\ k.air = h.air /\ k.gameOver = h.gameOver
      /\ Agree(h, k, {"page", "stage", "gameOver", "live", "lifeNum", "tank"})
      /\ Agree(h, k, {"live", "lifeNum", "tank", "gameOver"})
  BY <1>5 DEF Agree, Fields
<1>7. Typed(k) /\ Budget(k)
  <2>1. Typed(k)
    BY <1>5 DEF Typed, Agree, Fields, Going
  <2>2. Budget(k)
    BY <1>5 DEF Budget, Agree, Fields, Going
  <2> QED BY <2>1, <2>2
<1>8. LessFor(h.tasks, 0, k.tasks, 0) /\ Revives(h.tasks, 0, k.tasks, 0)
  BY <1>4 DEF Counted
<1>9. LessFor(s, i, s, i + 1) /\ Revives(s, i, s, i + 1)
  <2>1. LessBut(h, s, i, h, s, i + 1) /\ Revives(s, i, s, i + 1)
    BY <1>1, Consumed
  <2> QED BY <2>1, AreClasses DEF LessBut, ThinsBut, LessFor
<1>10. \A c \in {"start", "over"} : None(h, s, i, On(c)) => None(k, s, i + 1, On(c))
  BY <1>1, <1>4, NextLess DEF None, Counted, Chain
<1>11. CASE Final(h, s, i)
  <2>1. Going(k, s, i + 1, 1)
    BY <1>5, <1>6, <1>7, <1>8, <1>9, <1>10, <1>11, FinalOn
  <2> QED BY <1>6, <2>1 DEF Onward
<1>12. CASE ~Final(h, s, i)
  <2>1. h.page = "game" /\ h.gameOver = FALSE /\ None(h, s, i, On("over")) /\ Course(h, s, i, 1)
    BY <1>12 DEF Going, Phase
  <2>2. ~Most(s, i, On("row"), 0)
    <3>1. Like(s[i + 1], On("row"))
      BY DEF Like, On
    <3> QED BY <1>1, <3>1, Consuming
  <2>3. PICK q \in 1..Rows : OldRow(h, s, i, q)
    BY <2>1, <2>2 DEF Course, Prepared, Running, Won, NewRow, Shown, Stuck, None
  <2>4. Course(k, s, i + 1, 1)
    BY <1>1, <1>2, <2>3, PageGoesOn
  <2>5. Phase(k, s, i + 1, 1)
    BY <1>6, <1>10, <2>1, <2>4 DEF Phase
  <2>6. PlayersOK(k, s, i + 1)
    <3>1. PlayersOK(h, s, i)
      BY <2>1 DEF Going
    <3> QED BY <1>6, <1>8, <1>9, <3>1, PlayersFor
  <2> QED BY <1>5, <1>6, <1>7, <2>5, <2>6 DEF Onward, Going
<1> QED BY <1>11, <1>12

\* A stage has just begun: nothing is scheduled but its start, the births of
\* its players and ends of shields, and what is still due changes nothing of it.
Begun(h, s, i) ==
    /\ h.page = "game" /\ h.data = FALSE
    /\ \A x \in DOMAIN h.tasks : h.tasks[x].kind \in {"shieldEnd", "start", "playerBorn"}
    /\ \A x \in DOMAIN s : x > i => s[x].kind \in {"shieldEnd", "born", "propGone", "status"}

\* What a task that runs leaves: the menu, the stage, or the next one.
Outcome(h, k, s, i) ==
    \/ Menu(k)
    \/ /\ Going(k, s, i, 1)
       /\ k.stage = h.stage \/ (k.stage = h.stage + 1 /\ Begun(k, s, i))

\* The menu is left with nothing.
LEMMA MenuIs == Menu(InitGame)
<1> DEFINE a == [
    page |-> "menu", stage |-> 1, running |-> FALSE, gameOver |-> FALSE,
    enable |-> FALSE, pause |-> FALSE, complete |-> FALSE, endSent |-> FALSE,
    live |-> <<>>, lifeNum |-> <<>>, level |-> <<>>,
    totalScore |-> 0, kills |-> 0, propNum |-> 0,
    tank |-> [p \in Players |-> "none"], shield |-> [p \in Players |-> FALSE],
    data |-> FALSE, pool |-> [i \in Nodes |-> i], enemies |-> {}, borning |-> {},
    home |-> TRUE, prop |-> "none", created |-> 0,
    buff |-> {}, staticTime |-> 0, protectTime |-> 0,
    panel |-> 0, finishNum |-> [r \in 1..Rows |-> 0],
    air |-> [player |-> 0, enemy |-> 0],
    tasks |-> <<>>, pressed |-> 0]
<1>1. DOMAIN a = Fields
  BY DEF Fields
<1>2. /\ a.page = "menu" /\ a.stage = 1 /\ a.running = FALSE /\ a.pause = FALSE
      /\ a.data = FALSE /\ a.enemies = {} /\ a.kills = 0 /\ a.tasks = <<>>
  OBVIOUS
<1>3. InitGame = resetPlayerGameInfo(a)
  BY DEF InitGame
<1> HIDE DEF a
<1>4. Menu(resetPlayerGameInfo(a))
  BY <1>1, <1>2 DEF resetPlayerGameInfo, resetPlayerStageData, Fields, Menu
<1> QED BY <1>3, <1>4

\* The result was shown to the end, so nobody is to come back.
LEMMA VacantIs ==
  ASSUME NEW h, NEW s \in Seq(Tasks), NEW i \in Nat, i < Len(s), NEW d, Going(h, s, i, d),
         s[i + 1].kind = "shown", h.page = "game", h.gameOver = FALSE,
         None(h, s, i, On("over")), Shown(h, s, i),
         NEW k, k = closeGameResult(h)
  PROVE  Vacant(k, s, i + 1) /\ k.stage = h.stage /\ k.tasks = h.tasks
<1>1. /\ DOMAIN h = Fields /\ Scheduled(h) /\ h.enemies \subseteq Nodes
      /\ h.finishNum \in [1..Rows -> Nat] /\ h.pool \in Seq(Nodes)
  BY GoingIs DEF Budget
<1>2. h.running = FALSE /\ PlayersOK(h, s, i) /\ h.pause = FALSE
  BY DEF Shown, Ended, Going, Typed
<1>3. /\ Only(h, k, {"panel"}) /\ k.panel = 0 /\ k.tasks = h.tasks /\ DOMAIN k = Fields
  BY <1>1 DEF closeGameResult, Only, Fields
<1>4. /\ k.page = h.page /\ k.gameOver = h.gameOver /\ k.running = h.running /\ k.pause = h.pause
      /\ k.finishNum = h.finishNum /\ k.enemies = h.enemies /\ k.pool = h.pool
      /\ k.live = h.live /\ k.lifeNum = h.lifeNum /\ k.prop = h.prop /\ k.stage = h.stage
  BY <1>3 DEF Only, Fields
<1>5. Scheduled(k)
  BY <1>1, <1>3, <1>4 DEF Scheduled
<1>6. ASSUME NEW p \in Players PROVE h.live[p] = TRUE \/ h.lifeNum[p] = 0
  <2>1. PlayerOK(h, s, i, p) /\ h.live[p] \in BOOLEAN /\ h.lifeNum[p] \in Nat
    BY <1>2 DEF PlayersOK
  <2>2. None(h, s, i, By("revive", p))
    <3>1. None(h, s, i, On("revive"))
      BY DEF Shown
    <3> QED BY <3>1 DEF None, Most, AtMost, In, Like, On, By
  <2> QED BY <2>1, <2>2 DEF PlayerOK
<1>7. \E p \in Players : h.live[p] = TRUE
  <2>1. PICK p \in Players : h.live[p] = TRUE \/ h.lifeNum[p] > 0
    BY <1>2 DEF PlayersOK
  <2>2. CASE h.live[p] = TRUE
    BY <2>2
  <2>3. CASE h.lifeNum[p] > 0
    <3>1. h.lifeNum[p] # 0
      BY <2>3
    <3> QED BY <1>6, <3>1
  <2> QED BY <2>1, <2>2, <2>3
<1>8. Like(s[i + 1], On("shown")) /\ ~Most(s, i, On("shown"), 0)
  <2>1. Like(s[i + 1], On("shown"))
    BY DEF Like, On
  <2> QED BY <2>1, Consuming
<1>9. Most(h.tasks, 0, On("shown"), 0) /\ Most(s, i + 1, On("shown"), 0)
  BY <1>8, LastOne DEF Shown
<1>10. Most(h.tasks, 0, On("playerBorn"), 0) /\ Most(s, i + 1, On("playerBorn"), 0)
  BY <1>8, NextLess DEF Shown
<1>11. \A c \in {"start", "win", "row", "revive", "over"} :
           Most(h.tasks, 0, On(c), 0) /\ Most(s, i + 1, On(c), 0)
  BY NextLess DEF Shown, Ended, None
<1>12. \A c \in Chain : None(k, s, i + 1, On(c))
  BY <1>3, <1>9, <1>10, <1>11 DEF None, Chain
<1>13. h.live \in [Players -> BOOLEAN] /\ h.lifeNum \in [Players -> Nat]
  BY <1>2 DEF PlayersOK
<1>14. k.panel \in Nat
  BY <1>3
<1> QED BY <1>1, <1>2, <1>3, <1>4, <1>5, <1>6, <1>7, <1>12, <1>13, <1>14 DEF Vacant

\* After it, the next stage, the end of the game, or the menu.
LEMMA ShownIs ==
  ASSUME NEW h, NEW s, DueOK(s), NEW i \in Nat, i < Len(s), Going(h, s, i, 1),
         s[i + 1].kind = "shown", NEW k, k = onGameResultShowFinished(h)
  PROVE  Outcome(h, k, s, i + 1)
<1>1. s \in Seq(Tasks) /\ DOMAIN s = 1..Len(s) /\ Len(s) \in Nat
  BY LenProperties DEF DueOK
<1>2. DOMAIN h = Fields /\ Scheduled(h) /\ h.gameOver \in BOOLEAN /\ h.stage \in Nat \ {0}
      /\ LastStage \in Nat
  BY GoingIs, StageAssumption
<1>3. /\ h.gameOver /\ mode = "online" => k = [h EXCEPT !.endSent = TRUE]
      /\ h.gameOver /\ mode # "online" => k = InitGame
      /\ ~h.gameOver /\ h.stage < LastStage => k = startGameStage(closeGameResult(h), h.stage + 1)
      /\ ~h.gameOver /\ ~(h.stage < LastStage) =>
            k = [h EXCEPT !.page = "success", !.endSent = (mode = "online")]
  <2> DEFINE w == [h EXCEPT !.endSent = TRUE]
             x == InitGame
             y == startGameStage(closeGameResult(h), h.stage + 1)
             z == [h EXCEPT !.page = "success", !.endSent = (mode = "online")]
  <2>1. k = CASE h.gameOver /\ mode = "online" -> w
              [] h.gameOver /\ mode # "online" -> x
              [] ~h.gameOver /\ h.stage < LastStage -> y
              [] OTHER -> z
    BY DEF onGameResultShowFinished, goToMainMenu
  <2> HIDE DEF w, x, y, z
  <2>2. /\ h.gameOver /\ mode = "online" => k = w
        /\ h.gameOver /\ mode # "online" => k = x
        /\ ~h.gameOver /\ h.stage < LastStage => k = y
        /\ ~h.gameOver /\ ~(h.stage < LastStage) => k = z
    BY <2>1
  <2> QED BY <2>2 DEF w, x, y, z
<1>4. ~Most(s, i, On("shown"), 0)
  <2>1. Like(s[i + 1], On("shown"))
    BY DEF Like, On
  <2> QED BY <1>1, <2>1, Consuming
<1>5. ~Final(h, s, i) => /\ h.page = "game" /\ h.gameOver = FALSE
                         /\ None(h, s, i, On("over")) /\ Shown(h, s, i)
  BY <1>4 DEF Going, Phase, Course, Prepared, Running, Won, NewRow, OldRow, Stuck, None
<1>6. CASE h.gameOver /\ mode = "online"
  <2>1. Agree(h, k, Core \cup {"prop", "tasks"})
    BY <1>2, <1>3, <1>6 DEF Agree, Core, Fields
  <2>2. Going(h, s, i + 1, 1)
    BY <1>1, Passed
  <2>3. Going(k, s, i + 1, 1) /\ k.stage = h.stage
    BY <2>1, <2>2, OnwardSame DEF Onward
  <2> QED BY <2>3 DEF Outcome
<1>7. CASE h.gameOver /\ mode # "online"
  BY <1>3, <1>7, MenuIs DEF Outcome
<1>8. CASE ~h.gameOver /\ h.stage < LastStage
  <2> DEFINE a == closeGameResult(h)
             st == h.stage + 1
  <2>1. h.page = "game" /\ h.gameOver = FALSE /\ None(h, s, i, On("over")) /\ Shown(h, s, i)
    <3>1. ~Final(h, s, i)
      BY <1>2, <1>8 DEF Final
    <3> QED BY <1>5, <3>1
  <2>2. Vacant(a, s, i + 1) /\ a.stage = h.stage /\ a.tasks = h.tasks
    BY <1>1, <2>1, VacantIs
  <2>3. k = startGameStage(a, st) /\ st \in Nat \ {0} /\ st = h.stage + 1
    BY <1>2, <1>3, <1>8
  <2> HIDE DEF a, st
  <2>4. /\ Going(k, s, i + 1, 1) /\ k.page = "game" /\ k.stage = st /\ k.data = FALSE
        /\ Fresh(k, a)
    <3> DEFINE j == i + 1
    <3>1. Vacant(a, s, j)
      BY <2>2
    <3> HIDE DEF j
    <3>2. /\ Going(k, s, j, 1) /\ k.page = "game" /\ k.stage = st
          /\ Prepared(k, s, j) /\ Fresh(k, a)
      BY <2>3, <3>1, Begins
    <3> QED BY <3>2 DEF j, Prepared
  <2>5. \A x \in DOMAIN h.tasks : h.tasks[x].kind \in {"shieldEnd", "propGone", "status"}
    <3> SUFFICES ASSUME NEW x \in DOMAIN h.tasks
                 PROVE  h.tasks[x].kind \in {"shieldEnd", "propGone", "status"}
      OBVIOUS
    <3>1. x > 0 /\ h.tasks[x].kind \in Kinds
      BY <1>2, LenProperties DEF Scheduled, TaskOK, OneOf
    <3>2. \A c : Most(h.tasks, 0, On(c), 0) => h.tasks[x].kind # c
      BY <3>1 DEF Most, AtMost, In, Like, On
    <3>3. \A c \in Chain : Most(h.tasks, 0, On(c), 0)
      BY <2>2 DEF Vacant, None
    <3>4. Most(h.tasks, 0, On("born"), 0)
      BY <2>1 DEF Shown, Ended
    <3> QED BY <3>1, <3>2, <3>3, <3>4 DEF Kinds, Chain
  <2>6. \A x \in DOMAIN k.tasks : k.tasks[x].kind \in {"shieldEnd", "start", "playerBorn"}
    BY <2>2, <2>4, <2>5 DEF Fresh
  <2>7. ASSUME NEW x \in DOMAIN s, x > i + 1
        PROVE  s[x].kind \in {"shieldEnd", "born", "propGone", "status"}
    <3>1. s[x].kind \in Kinds
      BY DEF DueOK, OneOf
    <3>2. \A c \in Chain : Most(s, i + 1, On(c), 0)
      BY <2>2 DEF Vacant, None
    <3>3. \A c : Most(s, i + 1, On(c), 0) => s[x].kind # c
      BY <2>7 DEF Most, AtMost, In, Like, On
    <3> QED BY <3>1, <3>2, <3>3 DEF Kinds, Chain
  <2>8. Begun(k, s, i + 1)
    BY <2>4, <2>6, <2>7 DEF Begun
  <2> QED BY <2>3, <2>4, <2>8 DEF Outcome
<1>9. CASE ~h.gameOver /\ ~(h.stage < LastStage)
  <2>1. k = [h EXCEPT !.page = "success", !.endSent = (mode = "online")]
    BY <1>3, <1>9
  <2>2. Only(h, k, {"page", "endSent"}) /\ k.page = "success"
    BY <1>2, <2>1 DEF Only, Fields
  <2>3. Agree(h, k, Fields \ {"page", "endSent"})
    BY <2>2 DEF Only, Agree
  <2>4. Typed(k)
    BY <2>2, <2>3 DEF Typed, Agree, Fields, Going
  <2>5. Budget(k) /\ Scheduled(k) /\ k.tasks = h.tasks /\ k.stage = h.stage
    BY <2>3 DEF Budget, Scheduled, Agree, Fields, Going
  <2>6. None(k, s, i + 1, On("start"))
    <3>1. None(h, s, i, On("start"))
      BY <1>5 DEF Final, Shown, Ended
    <3> QED BY <1>1, <2>5, <3>1, NextLess DEF None
  <2>7. Final(k, s, i + 1)
    BY <1>2, <1>9, <2>2, <2>5, <2>6 DEF Final
  <2>8. Going(k, s, i + 1, 1)
    BY <2>2, <2>4, <2>5, <2>7 DEF Going, Phase
  <2> QED BY <2>5, <2>8 DEF Outcome
<1> QED BY <1>6, <1>7, <1>8, <1>9
-----------------------------------------------------------------------------
(* The tasks that are due *)

AddHolds(c, i, a) ==
    /\ Going(a, c.s, c.i, c.d) /\ Fight(a, c.s, c.i)
    /\ Only(c.h, a, {"enemies", "pool", "borning", "tasks"})
    /\ a.kills = 0 /\ Cardinality(a.enemies) <= i

\* A record f of the loop that adds the first enemies; there is one, and at its end holds what
\* every pass preserves.
AddsPasses(c, h, f, n) == f = [i \in 0..n |-> IF i = 0 THEN h ELSE AddOp(c, f[i - 1], i)]
LEMMA AddsRecord ==
  ASSUME NEW c, NEW h, NEW n \in Nat
  PROVE  \E f : AddsPasses(c, h, f, n)
<1> DEFINE e == <<"add", c>>
<1>1. PICK f : Is(e, h, f, n)
  BY Exists
<1>2. \A a, i : Pass(e, a, i) = AddOp(c, a, i)
  BY DEF Pass
<1> HIDE DEF e
<1>3. \A i \in 0..n : (IF i = 0 THEN h ELSE Pass(e, f[i - 1], i))
                      = (IF i = 0 THEN h ELSE AddOp(c, f[i - 1], i))
  BY <1>2
<1>4. AddsPasses(c, h, f, n)
  BY <1>1, <1>3 DEF Is, AddsPasses
<1> QED BY <1>4

\* What every pass of it preserves.
LEMMA AddsFold ==
  ASSUME NEW c, NEW h, NEW n \in Nat, NEW f, AddsPasses(c, h, f, n), AddHolds(c, 0, h),
         \A i \in 0..n : \A a : i < n /\ AddHolds(c, i, a) => AddHolds(c, i + 1, AddOp(c, a, i + 1))
  PROVE  AddHolds(c, n, f[n])
<1> DEFINE T == {i \in 0..n : AddHolds(c, i, f[i])}
<1>1. 0 \in T
  BY DEF AddsPasses
<1>2. \A i \in 0..n : i < n /\ i \in T => i + 1 \in T
  <2> SUFFICES ASSUME NEW i \in 0..n, i < n, i \in T PROVE i + 1 \in T
    OBVIOUS
  <2>1. f[i + 1] = AddOp(c, f[i], i + 1)
    BY DEF AddsPasses
  <2> QED BY <2>1
<1> HIDE DEF T
<1>3. \A i \in 0..n : i \in T
  BY <1>1, <1>2, UpTo
<1>4. n \in T
  BY <1>3
<1> QED BY <1>4 DEF T

\* The first enemies.
LEMMA FirstEnemies ==
  ASSUME NEW h, NEW s, NEW i, NEW d, Going(h, s, i, d), Fight(h, s, i), h.kills = 0,
         h.enemies = {}, NEW k, k = evEnemyStarted(h)
  PROVE  Onward(h, k, s, i, d)
<1> DEFINE place == TRUE
           n == EnemyFirst
           l == [x \in 1..n |-> x]
           c == [place |-> place, h |-> h, s |-> s, i |-> i, d |-> d]
           to == CHOOSE to : to = [j \in 0..n |-> IF j = 0 THEN h ELSE addOneEnemy(to[j - 1], place)]
<1>1. n \in Nat /\ n <= EnemyTotal /\ EnemyTotal \in Nat
  BY StageAssumption
<1>2. Len(l) = n
  <2>1. l \in Seq(Nat) /\ DOMAIN l = 1..n
    BY <1>1
  <2> HIDE DEF l
  <2> QED BY <1>1, <2>1, LenProperties
<1>3. k = to[n]
  <2>1. k = ForEach(LAMBDA a, x : addOneEnemy(a, TRUE), h, l)
    BY DEF evEnemyStarted
  <2> QED BY <1>2, <2>1 DEF ForEach
<1> HIDE DEF l, place
<1>4. AddsPasses(c, h, to, n)
  <2>1. \E f : AddsPasses(c, h, f, n)
    <3> HIDE DEF c, n
    <3> QED BY <1>1, AddsRecord
  <2>2. c.place = place
    OBVIOUS
  <2> HIDE DEF c, n
  <2> QED BY <2>1, <2>2 DEF AddsPasses, AddOp
<1> HIDE DEF to
<1>5. AddHolds(c, 0, h)
  <2>1. DOMAIN h = Fields /\ Cardinality(h.enemies) = 0
    BY GoingIs, FS_EmptySet
  <2> QED BY <2>1 DEF AddHolds, Only
<1>6. ASSUME NEW j \in 0..n, NEW a, j < n, AddHolds(c, j, a)
      PROVE  AddHolds(c, j + 1, AddOp(c, a, j + 1))
  <2> DEFINE b == AddOp(c, a, j + 1)
  <2>1. /\ Going(a, s, i, d) /\ Fight(a, s, i)
        /\ Only(h, a, {"enemies", "pool", "borning", "tasks"})
        /\ a.kills = 0 /\ Cardinality(a.enemies) <= j
    BY <1>6 DEF AddHolds
  <2>2. Cardinality(a.enemies) \in Nat
    BY <2>1, GoingIs, NodesAre DEF Budget
  <2>3. a.kills + Cardinality(a.enemies) < EnemyTotal
    BY <1>1, <1>6, <2>1, <2>2
  <2>4. b = addOneEnemy(a, place)
    BY DEF AddOp
  <2> HIDE DEF b, c
  <2>5. /\ Going(b, s, i, d) /\ Fight(b, s, i)
        /\ Only(a, b, {"enemies", "pool", "borning", "tasks"})
        /\ Cardinality(b.enemies) <= Cardinality(a.enemies) + 1
    BY <2>1, <2>3, <2>4, AddsEnemy
  <2>6. Only(h, b, {"enemies", "pool", "borning", "tasks"}) /\ b.kills = 0
    BY <2>1, <2>5 DEF Only, Fields
  <2>7. Cardinality(b.enemies) <= j + 1
    <3>1. Cardinality(b.enemies) \in Nat
      BY <2>5, GoingIs, NodesAre DEF Budget
    <3> QED BY <1>1, <2>1, <2>2, <2>5, <3>1
  <2>8. AddHolds(c, j + 1, b)
    BY <2>5, <2>6, <2>7 DEF AddHolds, c
  <2> QED BY <2>8 DEF b
<1>7. AddHolds(c, n, to[n])
  <2> HIDE DEF c, n
  <2> QED BY <1>1, <1>4, <1>5, <1>6, AddsFold
<1>8. Going(k, s, i, d) /\ Only(h, k, {"enemies", "pool", "borning", "tasks"})
  BY <1>3, <1>7 DEF AddHolds
<1>9. k.stage = h.stage /\ k.page = h.page /\ k.air = h.air
  BY <1>8 DEF Only, Fields
<1> QED BY <1>8, <1>9 DEF Onward

\* A prepared stage starts.
LEMMA StartIs ==
  ASSUME NEW h, NEW s \in Seq(Tasks), NEW i \in Nat, i < Len(s), Going(h, s, i, 1),
         s[i + 1].kind = "start", NEW k, k = gameStart(h)
  PROVE  Onward(h, k, s, i + 1, 1)
<1> DEFINE e == [h EXCEPT !.running = TRUE, !.data = TRUE]
           a == startPropStatusTimer(e)
           b == evEnemyStarted(a)
           t == Again("PropManager", "status", 0, 1)
<1>1. k = [b EXCEPT !.enable = TRUE]
  BY DEF gameStart
<1>2. /\ DOMAIN h = Fields /\ h.tasks \in Seq(Tasks) /\ Scheduled(h)
      /\ h.panel \in Nat /\ h.finishNum \in [1..Rows -> Nat]
  BY GoingIs
<1>3. Like(s[i + 1], On("start")) /\ ~None(h, s, i, On("start"))
  <2>1. Like(s[i + 1], On("start"))
    BY DEF Like, On
  <2> QED BY <2>1, Consuming DEF None
<1>4. /\ h.page = "game" /\ h.gameOver = FALSE /\ None(h, s, i, On("over"))
      /\ Prepared(h, s, i)
  BY <1>3 DEF Going, Phase, Final, Course, Running, Won, NewRow, OldRow, Shown, Stuck, Ended
<1>5. /\ Only(h, e, {"running", "data"}) /\ DOMAIN e = Fields /\ e.running = TRUE
      /\ {e.running, e.data} \subseteq BOOLEAN
  BY <1>2 DEF Only, Fields
<1> HIDE DEF e
<1>6. Agree(h, e, Fields \ {"running", "data"})
  BY <1>5 DEF Only, Agree
<1>7. /\ e.tasks = h.tasks /\ e.kills = h.kills /\ e.enemies = h.enemies /\ e.prop = h.prop
      /\ e.stage = h.stage /\ e.page = h.page /\ e.air = h.air /\ e.gameOver = h.gameOver
      /\ Agree(h, e, {"live", "lifeNum", "tank", "gameOver"})
  BY <1>6 DEF Agree, Fields
<1>8. Typed(e)
  <2>1. e.gameOver \in BOOLEAN
    BY <1>7, GoingIs
  <2>2. {e.running, e.gameOver, e.data} \subseteq BOOLEAN
    BY <1>5, <2>1
  <2> QED BY <1>5, <1>6, <2>2 DEF Typed, Agree, Fields, Going
<1>9. Budget(e) /\ Scheduled(e)
  BY <1>2, <1>7 DEF Budget, Scheduled, Going
<1>10. \A c : None(h, s, i, On(c)) => None(e, s, i + 1, On(c))
  BY <1>7, NextLess DEF None
<1>11. Running(e, s, i + 1)
  <2>1. Most(h.tasks, 0, On("start"), 0) /\ Most(s, i + 1, On("start"), 0)
    BY <1>3, <1>4, LastOne DEF Prepared
  <2>2. None(e, s, i + 1, On("start"))
    BY <1>7, <2>1 DEF None
  <2>3. e.kills < EnemyTotal
    <3>1. EnemyTotal \in Nat \ {0}
      BY StageAssumption
    <3> QED BY <1>4, <1>7, <3>1 DEF Prepared
  <2> QED BY <1>4, <1>5, <1>10, <2>2, <2>3 DEF Running, Prepared
<1>12. PlayersOK(e, s, i + 1)
  <2>1. LessBut(h, s, i, h, s, i + 1) /\ Revives(h.tasks, 0, h.tasks, 0) /\ Revives(s, i, s, i + 1)
    BY Consumed
  <2>2. LessFor(h.tasks, 0, e.tasks, 0) /\ LessFor(s, i, s, i + 1)
    BY <1>7, <2>1, AreClasses DEF LessBut, ThinsBut, LessFor
  <2>3. PlayersOK(h, s, i)
    BY <1>4 DEF Going
  <2> QED BY <1>7, <2>1, <2>2, <2>3, PlayersFor
<1>13. Going(e, s, i + 1, 1)
  <2>1. Phase(e, s, i + 1, 1)
    BY <1>4, <1>7, <1>10, <1>11 DEF Phase, Course
  <2> QED BY <1>8, <1>9, <1>12, <2>1 DEF Going
<1>14. Only(e, a, {"tasks"}) /\ a.tasks = Append(e.tasks, t)
  BY <1>5, LoopingIs DEF startPropStatusTimer
<1>15. t \in Tasks /\ TaskOK(t) /\ t.kind = "status"
  BY StatusIs
<1> HIDE DEF a, t
<1>16. /\ Agree(e, a, Core) /\ PropFree(e, a) /\ a.prop = e.prop /\ a.kills = 0 /\ a.enemies = {}
       /\ a.stage = h.stage /\ a.page = h.page /\ a.air = h.air
  BY <1>4, <1>7, <1>14 DEF Only, Agree, Core, Fields, PropFree, Prepared
<1>17. Going(a, s, i + 1, 1)
  BY <1>13, <1>14, <1>15, <1>16, Extra
<1>18. Fight(a, s, i + 1)
  <2>1. a.running = e.running
    BY <1>16 DEF Agree, Core
  <2>2. a.kills < EnemyTotal
    BY <1>16, StageAssumption
  <2> QED BY <1>5, <1>17, <2>1, <2>2, Fighting
<1>19. Onward(a, b, s, i + 1, 1)
  BY <1>16, <1>17, <1>18, FirstEnemies
<1> HIDE DEF b
<1>20. Going(b, s, i + 1, 1) /\ b.stage = a.stage /\ b.page = a.page /\ b.air = a.air
  BY <1>19 DEF Onward
<1>21. Agree(b, k, Core \cup {"prop", "tasks"})
  <2>1. DOMAIN b = Fields
    BY <1>20, GoingIs
  <2> QED BY <1>1, <2>1 DEF Agree, Core, Fields
<1>22. Onward(b, k, s, i + 1, 1)
  BY <1>20, <1>21, OnwardSame
<1> QED BY <1>16, <1>20, <1>22 DEF Onward

\* Which task is which.
LEMMA RunCases ==
  ASSUME NEW h, h.page # "menu", NEW t, t.kind \in Kinds, NEW k, k = Run(h, t)
  PROVE  /\ t.kind = "start" => k = gameStart(h)
         /\ t.kind \in {"over", "win"} => k = gameEnd(h)
         /\ t.kind = "born" => k = [h EXCEPT !.borning = @ \ {t.arg}]
         /\ t.kind = "playerBorn" => k = afterBorn(h, t.arg)
         /\ t.kind = "shieldEnd" => k = [h EXCEPT !.shield[t.arg] = FALSE]
         /\ t.kind = "revive" => k = revive(h, t.arg)
         /\ t.kind = "propGone" => k = evDestroyProp(h)
         /\ t.kind = "status" => k = PropStatus(h)
         /\ t.kind = "row" => k = aniFinish(h, t.arg)
         /\ t.kind = "shown" => k = onGameResultShowFinished(h)
<1> DEFINE a == gameStart(h)
           b == gameEnd(h)
           c == [h EXCEPT !.borning = @ \ {t.arg}]
           d == afterBorn(h, t.arg)
           e == [h EXCEPT !.shield[t.arg] = FALSE]
           f == revive(h, t.arg)
           m == evDestroyProp(h)
           n == PropStatus(h)
           o == aniFinish(h, t.arg)
           p == onGameResultShowFinished(h)
<1>1. k = CASE t.kind = "start"       -> a
      [] t.kind \in {"over", "win"} -> b
      [] t.kind = "born"        -> c
      [] t.kind = "playerBorn"  -> d
      [] t.kind = "shieldEnd"   -> e
      [] t.kind = "revive"      -> f
      [] t.kind = "propGone"    -> m
      [] t.kind = "status"      -> n
      [] t.kind = "row"         -> o
      [] OTHER                  -> p
  BY DEF Run
<1> HIDE DEF a, b, c, d, e, f, m, n, o, p
<1>2. /\ t.kind = "start" => k = a
      /\ t.kind \in {"over", "win"} => k = b
      /\ t.kind = "born" => k = c
      /\ t.kind = "playerBorn" => k = d
      /\ t.kind = "shieldEnd" => k = e
      /\ t.kind = "revive" => k = f
      /\ t.kind = "propGone" => k = m
      /\ t.kind = "status" => k = n
      /\ t.kind = "row" => k = o
      /\ t.kind = "shown" => k = p
  BY <1>1
<1> QED BY <1>2 DEF a, b, c, d, e, f, m, n, o, p

\* Tasks that schedule nothing.
LEMMA SmallTask ==
  ASSUME NEW h, NEW s, DueOK(s), NEW i \in Nat, i < Len(s), NEW d, Going(h, s, i, d),
         s[i + 1].kind \in {"shieldEnd", "born", "propGone", "status"},
         NEW k, k = Run(h, s[i + 1])
  PROVE  Onward(h, k, s, i + 1, d) /\ Among(k.tasks, h.tasks) /\ k.data = h.data
<1>1. s \in Seq(Tasks) /\ i + 1 \in DOMAIN s
  BY LenProperties DEF DueOK
<1>2. DOMAIN h = Fields /\ h.page # "menu" /\ s[i + 1].kind \in Kinds
  BY <1>1, GoingIs DEF DueOK, OneOf
<1> DEFINE t == s[i + 1]
<1>3. t.kind \in Kinds /\ k = Run(h, t) /\ t.kind \in {"shieldEnd", "born", "propGone", "status"}
  BY <1>2
<1>4. Going(h, s, i + 1, d)
  BY <1>1, Passed
<1> HIDE DEF t
<1>5. CASE t.kind = "shieldEnd"
  <2>1. k = [h EXCEPT !.shield[t.arg] = FALSE]
    BY <1>2, <1>3, <1>5, RunCases
  <2>2. Agree(h, k, Core \cup {"prop", "tasks"}) /\ k.tasks = h.tasks /\ k.data = h.data
    BY <1>2, <2>1 DEF Agree, Core, Fields
  <2>3. Onward(h, k, s, i + 1, d)
    BY <1>4, <2>2, OnwardSame
  <2> QED BY <2>2, <2>3 DEF Among
<1>6. CASE t.kind = "born"
  <2>1. k = [h EXCEPT !.borning = @ \ {t.arg}]
    BY <1>2, <1>3, <1>6, RunCases
  <2>2. Agree(h, k, Core \cup {"prop", "tasks"}) /\ k.tasks = h.tasks /\ k.data = h.data
    BY <1>2, <2>1 DEF Agree, Core, Fields
  <2>3. Onward(h, k, s, i + 1, d)
    BY <1>4, <2>2, OnwardSame
  <2> QED BY <2>2, <2>3 DEF Among
<1>7. CASE t.kind = "propGone"
  <2>1. k = evDestroyProp(h)
    BY <1>2, <1>3, <1>7, RunCases
  <2>2. Onward(h, k, s, i + 1, d) /\ Only(h, k, {"prop", "tasks"}) /\ Among(k.tasks, h.tasks)
    <3> DEFINE j == i + 1
    <3>1. Going(h, s, j, d)
      BY <1>4
    <3> HIDE DEF j
    <3>2. Onward(h, k, s, j, d) /\ Only(h, k, {"prop", "tasks"}) /\ Among(k.tasks, h.tasks)
      BY <2>1, <3>1, DestroysProp
    <3> QED BY <3>2 DEF j
  <2> QED BY <2>2 DEF Only, Fields
<1>8. CASE t.kind = "status"
  <2>1. k = PropStatus(h)
    BY <1>2, <1>3, <1>8, RunCases
  <2>2. Agree(h, k, Core \cup {"prop", "tasks"})
    BY <1>2, <2>1, StatusSame
  <2>3. k.tasks = h.tasks /\ k.data = h.data
    BY <2>2 DEF Agree, Core
  <2>4. Onward(h, k, s, i + 1, d)
    BY <1>4, <2>2, OnwardSame
  <2> QED BY <2>3, <2>4 DEF Among
<1> QED BY <1>3, <1>5, <1>6, <1>7, <1>8

\* A task runs.
LEMMA RunIs ==
  ASSUME NEW h, NEW s, DueOK(s), NEW i \in Nat, i < Len(s), Going(h, s, i, 1),
         NEW k, k = Run(h, s[i + 1])
  PROVE  Outcome(h, k, s, i + 1)
<1>1. s \in Seq(Tasks) /\ i + 1 \in DOMAIN s
  BY LenProperties DEF DueOK
<1>2. h.page # "menu" /\ OneOf(s[i + 1]) /\ s[i + 1].kind \in Kinds
  BY <1>1, GoingIs DEF DueOK, OneOf
<1> DEFINE t == s[i + 1]
<1>3. t.kind \in Kinds /\ k = Run(h, t) /\ t = s[i + 1]
  BY <1>2
<1>4. Onward(h, k, s, i + 1, 1) => Outcome(h, k, s, i + 1)
  BY DEF Onward, Outcome
<1>5. t.kind \in {"playerBorn", "revive"} => t.arg \in Players
  BY <1>2 DEF OneOf
<1> HIDE DEF t
<1>6. CASE t.kind = "start"
  BY <1>1, <1>2, <1>3, <1>4, <1>6, RunCases, StartIs
<1>7. CASE t.kind \in {"over", "win"}
  <2>1. k = gameEnd(h)
    BY <1>2, <1>3, <1>7, RunCases
  <2> QED BY <1>1, <1>3, <1>4, <1>7, <2>1, GameEndIs
<1>8. CASE t.kind \in {"shieldEnd", "born", "propGone", "status"}
  <2>1. Onward(h, k, s, i + 1, 1)
    BY <1>3, <1>8, SmallTask
  <2> QED BY <1>4, <2>1
<1>9. CASE t.kind = "playerBorn"
  <2> DEFINE p == t.arg
  <2>1. k = afterBorn(h, p) /\ p \in Players /\ s[i + 1].arg = p /\ s[i + 1].kind = "playerBorn"
    BY <1>2, <1>3, <1>5, <1>9, RunCases
  <2> HIDE DEF p
  <2>2. Onward(h, k, s, i + 1, 1)
    BY <1>1, <2>1, AfterBornIs
  <2> QED BY <1>4, <2>2
<1>10. CASE t.kind = "revive"
  <2> DEFINE p == t.arg
  <2>1. k = revive(h, p) /\ p \in Players /\ s[i + 1].arg = p /\ s[i + 1].kind = "revive"
    BY <1>2, <1>3, <1>5, <1>10, RunCases
  <2> HIDE DEF p
  <2>2. Onward(h, k, s, i + 1, 1)
    BY <1>1, <2>1, ReviveIs
  <2> QED BY <1>4, <2>2
<1>11. CASE t.kind = "row"
  <2>1. k = aniFinish(h, s[i + 1].arg) /\ s[i + 1].kind = "row"
    BY <1>2, <1>3, <1>11, RunCases
  <2>2. Onward(h, k, s, i + 1, 1)
    BY <2>1, AniFinishIs
  <2> QED BY <1>4, <2>2
<1>12. CASE t.kind = "shown"
  <2>1. k = onGameResultShowFinished(h) /\ s[i + 1].kind = "shown"
    BY <1>2, <1>3, <1>12, RunCases
  <2> QED BY <2>1, ShownIs
<1> QED BY <1>3, <1>6, <1>7, <1>8, <1>9, <1>10, <1>11, <1>12 DEF Kinds

\* What is left of a stage that has just begun.
LEMMA BegunRuns ==
  ASSUME NEW h, NEW s, DueOK(s), NEW i \in Nat, i < Len(s), Going(h, s, i, 1), Begun(h, s, i),
         NEW k, k = Run(h, s[i + 1])
  PROVE  Going(k, s, i + 1, 1) /\ Begun(k, s, i + 1) /\ k.stage = h.stage
<1>1. i + 1 \in DOMAIN s /\ i + 1 > i
  BY LenProperties DEF DueOK
<1>2. s[i + 1].kind \in {"shieldEnd", "born", "propGone", "status"}
  BY <1>1 DEF Begun
<1>3. Onward(h, k, s, i + 1, 1) /\ Among(k.tasks, h.tasks) /\ k.data = h.data
  BY <1>2, SmallTask
<1>4. \A x \in DOMAIN k.tasks : k.tasks[x].kind \in {"shieldEnd", "start", "playerBorn"}
  BY <1>3 DEF Among, Begun
<1>5. \A x \in DOMAIN s : x > i + 1 => s[x].kind \in {"shieldEnd", "born", "propGone", "status"}
  <2> SUFFICES ASSUME NEW x \in DOMAIN s, x > i + 1
               PROVE  s[x].kind \in {"shieldEnd", "born", "propGone", "status"}
    OBVIOUS
  <2>1. x \in Nat
    BY LenProperties DEF DueOK
  <2>2. x > i
    BY <2>1
  <2> QED BY <2>2 DEF Begun
<1> QED BY <1>3, <1>4, <1>5 DEF Onward, Begun
-----------------------------------------------------------------------------
(* The timer *)

\* What the timer makes of the tasks of a game.
Later(u) == [x \in DOMAIN u |-> [u[x] EXCEPT !.left = @ - 1]]
Now(u) == {x \in DOMAIN Later(u) : Later(u)[x].left = 0}
Stay(u) == {x \in DOMAIN Later(u) : Later(u)[x].left > 0 \/ Later(u)[x].loop}
DueOf(u) == Reverse(Kept(Later(u), Now(u)))
Renewed(v) == [x \in DOMAIN v |-> [v[x] EXCEPT !.left = IF @ = 0 THEN 1 ELSE @]]
AgainOf(u) == Renewed(Kept(Later(u), Stay(u)))

\* The timer runs the tasks that are due over the game that keeps the others.
LEMMA TimerIs ==
  ASSUME NEW h, NEW k, k = onTimer(h)
  PROVE  k = ForEach(Run, [h EXCEPT !.tasks = AgainOf(h.tasks)], DueOf(h.tasks))
BY DEF onTimer, Later, Now, Stay, DueOf, Renewed, AgainOf

\* Two lists of the same tasks, but for their time.
Alike(u, v) ==
    /\ DOMAIN u = DOMAIN v
    /\ \A x \in DOMAIN u : /\ v[x].kind = u[x].kind /\ v[x].arg = u[x].arg /\ v[x].ctx = u[x].ctx
                           /\ v[x].time = u[x].time /\ v[x].loop = u[x].loop

\* They have the same number of tasks of each class.
LEMMA AlikeMost ==
  ASSUME NEW u, NEW v, Alike(u, v)
  PROVE  \A n, c, q : Most(v, n, c, q) <=> Most(u, n, c, q)
<1>1. ASSUME NEW n, NEW c PROVE In(v, n, c) = In(u, n, c)
  BY DEF In, Like, Alike
<1> QED BY <1>1 DEF Most

\* A step has passed.
LEMMA LaterIs ==
  ASSUME NEW u \in Seq(Tasks), \A x \in DOMAIN u : TaskOK(u[x]), NEW v, v = Later(u)
  PROVE  /\ v \in Seq(Tasks) /\ Alike(u, v) /\ DOMAIN v = DOMAIN u
         /\ \A x \in DOMAIN u : v[x].left = u[x].left - 1 /\ v[x].left \in Nat
<1>1. DOMAIN u = 1..Len(u) /\ Len(u) \in Nat
  BY LenProperties
<1>2. ASSUME NEW x \in DOMAIN u
      PROVE  /\ v[x].kind = u[x].kind /\ v[x].arg = u[x].arg /\ v[x].ctx = u[x].ctx
             /\ v[x].time = u[x].time /\ v[x].loop = u[x].loop
             /\ v[x].left = u[x].left - 1 /\ v[x].left \in Nat /\ v[x] \in Tasks
  <2> DEFINE t == u[x]
  <2>1. t \in Tasks /\ t.left > 0 /\ t.left \in Nat
    <3>1. t \in Tasks
      BY <1>1
    <3>2. TaskOK(t)
      OBVIOUS
    <3> HIDE DEF t
    <3> QED BY <3>1, <3>2 DEF Tasks, TaskOK
  <2>2. v[x] = [t EXCEPT !.left = @ - 1]
    BY DEF Later
  <2> HIDE DEF t
  <2>3. t.left - 1 \in Nat
    BY <2>1
  <2>4. /\ v[x].kind = t.kind /\ v[x].arg = t.arg /\ v[x].ctx = t.ctx
        /\ v[x].time = t.time /\ v[x].loop = t.loop /\ v[x].left = t.left - 1
    BY <2>1, <2>2 DEF Tasks
  <2>5. v[x] \in Tasks
    BY <2>1, <2>2, <2>3 DEF Tasks
  <2> QED BY <2>3, <2>4, <2>5 DEF t
<1>3. DOMAIN v = DOMAIN u
  BY DEF Later
<1>4. v \in Seq(Tasks)
  <2>1. v \in [1..Len(u) -> Tasks]
    BY <1>1, <1>2 DEF Later
  <2> QED BY <1>1, <2>1
<1> QED BY <1>2, <1>3, <1>4 DEF Alike

\* The last becomes the first.
LEMMA ReverseIs ==
  ASSUME NEW v \in Seq(Tasks), NEW s, s = Reverse(v)
  PROVE  /\ s \in Seq(Tasks)
         /\ \A x \in DOMAIN s : \E y \in DOMAIN v : s[x] = v[y]
         /\ \A c : \A q \in 0..2 : Most(v, 0, c, q) <=> Most(s, 0, c, q)
<1> DEFINE n == Len(v)
           m == [x \in 1..n |-> (n - x) + 1]
<1>1. n \in Nat /\ DOMAIN v = 1..n
  BY LenProperties
<1> HIDE DEF n
<1>2. /\ \A x \in 1..n : m[x] \in 1..n /\ m[x] = (n - x) + 1
      /\ \A x, y \in 1..n : m[x] = m[y] => x = y
  BY <1>1
<1> HIDE DEF m
<1>3. s = [x \in 1..n |-> v[(n - x) + 1]]
  BY DEF Reverse, n
<1>4. DOMAIN s = 1..n /\ \A x \in 1..n : s[x] = v[m[x]]
  BY <1>2, <1>3
<1>5. s \in Seq(Tasks)
  <2>1. \A x \in 1..n : s[x] \in Tasks
    BY <1>1, <1>2, <1>4
  <2>2. s \in [1..n -> Tasks]
    BY <1>3, <2>1
  <2> QED BY <1>1, <2>2
<1>6. \A x \in 1..n : v[x] = s[m[x]]
  <2> TAKE x \in 1..n
  <2>1. m[x] \in 1..n /\ (n - m[x]) + 1 = x
    BY <1>1, <1>2
  <2> QED BY <1>3, <2>1
<1>7. ASSUME NEW c, NEW q \in 0..2 PROVE Most(v, 0, c, q) <=> Most(s, 0, c, q)
  <2>1. /\ \A x \in In(s, 0, c) : m[x] \in In(v, 0, c)
        /\ \A x \in In(v, 0, c) : m[x] \in In(s, 0, c)
    BY <1>1, <1>2, <1>4, <1>6 DEF In
  <2>2. In(s, 0, c) \subseteq 1..n /\ In(v, 0, c) \subseteq 1..n
    BY <1>1, <1>4 DEF In
  <2>3. AtMost(In(v, 0, c), q) => AtMost(In(s, 0, c), q)
    BY <1>2, <2>1, <2>2, AtMostMap
  <2>4. AtMost(In(s, 0, c), q) => AtMost(In(v, 0, c), q)
    BY <1>2, <2>1, <2>2, AtMostMap
  <2> QED BY <2>3, <2>4 DEF Most
<1> QED BY <1>1, <1>2, <1>4, <1>5, <1>7

\* A task that loops begins again.
LEMMA RenewedIs ==
  ASSUME NEW v \in Seq(Tasks), NEW a, a = Renewed(v)
  PROVE  /\ a \in Seq(Tasks) /\ Alike(v, a)
         /\ \A x \in DOMAIN v : IF v[x].left = 0 THEN a[x].left = 1 ELSE a[x].left = v[x].left
<1>1. DOMAIN v = 1..Len(v) /\ Len(v) \in Nat
  BY LenProperties
<1>2. ASSUME NEW x \in DOMAIN v
      PROVE  /\ a[x].kind = v[x].kind /\ a[x].arg = v[x].arg /\ a[x].ctx = v[x].ctx
             /\ a[x].time = v[x].time /\ a[x].loop = v[x].loop
             /\ IF v[x].left = 0 THEN a[x].left = 1 ELSE a[x].left = v[x].left
             /\ a[x] \in Tasks
  <2> DEFINE t == v[x]
             l == IF t.left = 0 THEN 1 ELSE t.left
  <2>1. t \in Tasks
    BY <1>1
  <2>2. a[x] = [t EXCEPT !.left = l]
    BY DEF Renewed
  <2> HIDE DEF t
  <2>3. l \in Nat
    BY <2>1 DEF Tasks
  <2> HIDE DEF l
  <2>4. /\ a[x].kind = t.kind /\ a[x].arg = t.arg /\ a[x].ctx = t.ctx
        /\ a[x].time = t.time /\ a[x].loop = t.loop /\ a[x].left = l
    BY <2>1, <2>2 DEF Tasks
  <2>5. a[x] \in Tasks
    BY <2>1, <2>2, <2>3 DEF Tasks
  <2> QED BY <2>4, <2>5 DEF t, l
<1>3. DOMAIN a = DOMAIN v
  BY DEF Renewed
<1>4. a \in Seq(Tasks)
  <2>1. a \in [1..Len(v) -> Tasks]
    BY <1>1, <1>2 DEF Renewed
  <2> QED BY <1>1, <2>1
<1> QED BY <1>2, <1>3, <1>4 DEF Alike
-----------------------------------------------------------------------------
(* A step begins *)

\* a are the tasks of u that stay on the list, s those that run: no task is
\* forgotten, and none but a loop is in both.
Divided(u, a, s) ==
    /\ DueOK(s) /\ a \in Seq(Tasks) /\ \A x \in DOMAIN a : TaskOK(a[x])
    /\ \A c : \A q \in 0..2 : Most(u, 0, c, q) => Most(a, 0, c, q) /\ Most(s, 0, c, q)
    /\ \A c : Most(a, 0, c, 0) /\ Most(s, 0, c, 0) => Most(u, 0, c, 0)
    /\ \A c : c.kind # "status" /\ Most(u, 0, c, 1) => Most(a, 0, c, 0) \/ Most(s, 0, c, 0)
    /\ \A c : c.kind \in Kinds \ (Slow \cup {"status"}) => Most(a, 0, c, 0)

\* Every place of D is kept.
LEMMA PartHas ==
  ASSUME NEW v, NEW u, NEW D, Part(v, u, D)
  PROVE  \A y \in D : \E x \in DOMAIN v : v[x] = u[y]
<1> SUFFICES ASSUME NEW y \in D PROVE \E x \in DOMAIN v : v[x] = u[y]
  OBVIOUS
<1>1. PICK m \in [DOMAIN v -> D] :
         /\ \A x \in DOMAIN v : v[x] = u[m[x]]
         /\ \A z \in D : \E x \in DOMAIN v : m[x] = z
  BY DEF Part
<1>2. PICK x \in DOMAIN v : m[x] = y
  BY <1>1
<1> QED BY <1>1, <1>2

\* A task with the fields of one that was scheduled.
LEMMA AlikeOne ==
  ASSUME NEW t, NEW r, t.kind = r.kind, t.arg = r.arg, t.ctx = r.ctx, t.time = r.time,
         t.loop = r.loop
  PROVE  (OneOf(t) <=> OneOf(r)) /\ \A c : Like(t, c) <=> Like(r, c)
BY DEF OneOf, Like

\* None of a class, and some.
LEMMA SomeIn ==
  ASSUME NEW u \in Seq(Tasks), NEW c
  PROVE  Most(u, 0, c, 0) <=> \A x \in DOMAIN u : ~Like(u[x], c)
<1>1. \A x \in DOMAIN u : x > 0
  BY LenProperties
<1> QED BY <1>1 DEF Most, AtMost, In

\* The timer divides the tasks.
LEMMA DividedIs ==
  ASSUME NEW u \in Seq(Tasks), \A x \in DOMAIN u : TaskOK(u[x]),
         NEW a, a = AgainOf(u), NEW s, s = DueOf(u)
  PROVE  Divided(u, a, s)
<1> DEFINE v == Later(u)
           D == Now(u)
           E == Stay(u)
           w0 == Kept(v, D)
           w1 == Kept(v, E)
<1>1. /\ v \in Seq(Tasks) /\ Alike(u, v) /\ DOMAIN v = DOMAIN u
      /\ \A x \in DOMAIN u : v[x].left = u[x].left - 1 /\ v[x].left \in Nat
  <2>1. v = Later(u)
    OBVIOUS
  <2> HIDE DEF v
  <2> QED BY <2>1, LaterIs
<1>2. /\ D = {x \in DOMAIN v : v[x].left = 0}
      /\ E = {x \in DOMAIN v : v[x].left > 0 \/ v[x].loop}
  BY DEF Now, Stay
<1>3. s = Reverse(w0) /\ a = Renewed(w1)
  BY DEF DueOf, AgainOf
<1> HIDE DEF v, D, E
<1>4. D \subseteq DOMAIN v /\ E \subseteq DOMAIN v /\ DOMAIN v \subseteq Nat \ {0}
  BY <1>1, <1>2, LenProperties
<1>5. Part(w0, v, D) /\ Part(w1, v, E)
  BY <1>1, <1>4, KeptPart
<1> HIDE DEF w0, w1
<1>6. w0 \in Seq(Tasks) /\ w1 \in Seq(Tasks)
  BY <1>5 DEF Part
<1>7. \A x \in DOMAIN v : OneOf(v[x]) /\ v[x].left \in Nat
  <2> TAKE x \in DOMAIN v
  <2>1. /\ v[x].kind = u[x].kind /\ v[x].arg = u[x].arg /\ v[x].ctx = u[x].ctx
        /\ v[x].time = u[x].time /\ v[x].loop = u[x].loop
    BY <1>1 DEF Alike
  <2>2. OneOf(u[x])
    BY <1>1 DEF TaskOK
  <2> DEFINE t == v[x]
             r == u[x]
  <2>3. t.kind = r.kind /\ t.arg = r.arg /\ t.ctx = r.ctx /\ t.time = r.time /\ t.loop = r.loop
        /\ OneOf(r)
    BY <2>1, <2>2
  <2> HIDE DEF t, r
  <2>4. OneOf(t)
    BY <2>3, AlikeOne
  <2> QED BY <1>1, <2>4 DEF t
<1>8. \A n, c, q : Most(v, n, c, q) <=> Most(u, n, c, q)
  BY <1>1, AlikeMost
<1>9. /\ s \in Seq(Tasks) /\ \A x \in DOMAIN s : \E y \in DOMAIN w0 : s[x] = w0[y]
      /\ \A c : \A q \in 0..2 : Most(w0, 0, c, q) <=> Most(s, 0, c, q)
  BY <1>3, <1>6, ReverseIs
<1>10. /\ a \in Seq(Tasks) /\ Alike(w1, a)
       /\ \A x \in DOMAIN w1 : IF w1[x].left = 0 THEN a[x].left = 1 ELSE a[x].left = w1[x].left
  BY <1>3, <1>6, RenewedIs
<1>11. \A n, c, q : Most(a, n, c, q) <=> Most(w1, n, c, q)
  BY <1>10, AlikeMost
<1>12. DueOK(s)
  <2> SUFFICES ASSUME NEW x \in DOMAIN s PROVE OneOf(s[x])
    BY <1>9 DEF DueOK
  <2>1. PICK y \in DOMAIN w0 : s[x] = w0[y]
    BY <1>9
  <2>2. PICK z \in D : w0[y] = v[z]
    BY <1>5, PartIn
  <2> QED BY <1>4, <1>7, <2>1, <2>2
<1>13. ASSUME NEW x \in DOMAIN a PROVE TaskOK(a[x])
  <2>1. x \in DOMAIN w1
    BY <1>10 DEF Alike
  <2>2. PICK z \in E : w1[x] = v[z]
    BY <1>5, <2>1, PartIn
  <2> DEFINE t == a[x]
             r == w1[x]
  <2>3. t.kind = r.kind /\ t.arg = r.arg /\ t.ctx = r.ctx /\ t.time = r.time /\ t.loop = r.loop
    BY <1>10, <2>1 DEF Alike
  <2>4. OneOf(r) /\ r.left \in Nat /\ r.left = u[z].left - 1 /\ z \in DOMAIN u
    BY <1>1, <1>4, <1>7, <2>2
  <2>5. IF r.left = 0 THEN t.left = 1 ELSE t.left = r.left
    BY <1>10, <2>1
  <2>6. r.kind = u[z].kind /\ TaskOK(u[z]) /\ u[z] \in Tasks
    <3>1. u[z] \in Tasks
      BY <2>4, ElementOfSeq, LenProperties
    <3> QED BY <1>1, <2>2, <2>4, <3>1 DEF Alike
  <2>7. r.kind \notin Slow => r.left = 0
    <3>1. r.kind \notin Slow => u[z].left = 1
      BY <2>6 DEF TaskOK
    <3> QED BY <2>4, <3>1
  <2> HIDE DEF t, r
  <2>8. OneOf(t)
    BY <2>3, <2>4, AlikeOne
  <2>9. t.left > 0 /\ (t.kind \notin Slow => t.left = 1)
    <3>1. CASE r.left = 0
      <4>1. t.left = 1
        BY <2>5, <3>1
      <4> QED BY <4>1
    <3>2. CASE r.left # 0
      <4>1. t.left = r.left
        BY <2>5, <3>2
      <4>3. r.left > 0
        <5>1. \A n \in Nat : n # 0 => n > 0
          OBVIOUS
        <5>2. r.left \in Nat
          BY <2>4
        <5> QED BY <3>2, <5>1, <5>2, Zenon
      <4>2. t.kind \in Slow
        BY <2>3, <2>7, <3>2
      <4> QED BY <4>1, <4>2, <4>3
    <3> QED BY <3>1, <3>2
  <2> QED BY <2>8, <2>9 DEF TaskOK, t
<1>14. ASSUME NEW c, NEW q \in 0..2, Most(u, 0, c, q) PROVE Most(a, 0, c, q) /\ Most(s, 0, c, q)
  <2>1. Most(v, 0, c, q)
    BY <1>8, <1>14
  <2>2. Most(w0, 0, c, q) /\ Most(w1, 0, c, q)
    BY <1>4, <1>5, <2>1, PartMost
  <2> QED BY <1>9, <1>11, <2>2
<1>15. ASSUME NEW c, Most(a, 0, c, 0), Most(s, 0, c, 0) PROVE Most(u, 0, c, 0)
  <2>1. Most(w0, 0, c, 0) /\ Most(w1, 0, c, 0)
    BY <1>9, <1>11, <1>15
  <2>2. ASSUME NEW y \in DOMAIN v PROVE ~Like(v[y], c)
    <3>1. y \in D \/ y \in E
      BY <1>2, <1>7
    <3>2. CASE y \in D
      <4>1. PICK x \in DOMAIN w0 : w0[x] = v[y]
        BY <1>5, <3>2, PartHas
      <4> QED BY <1>6, <2>1, <4>1, SomeIn
    <3>3. CASE y \in E
      <4>1. PICK x \in DOMAIN w1 : w1[x] = v[y]
        BY <1>5, <3>3, PartHas
      <4> QED BY <1>6, <2>1, <4>1, SomeIn
    <3> QED BY <3>1, <3>2, <3>3
  <2>3. Most(v, 0, c, 0)
    BY <1>1, <2>2, SomeIn
  <2> QED BY <1>8, <2>3
<1>16. ASSUME NEW c, c.kind # "status", Most(u, 0, c, 1)
       PROVE  Most(a, 0, c, 0) \/ Most(s, 0, c, 0)
  <2> SUFFICES ASSUME ~Most(w1, 0, c, 0), ~Most(w0, 0, c, 0) PROVE FALSE
    BY <1>9, <1>11
  <2>1. PICK x \in DOMAIN w0 : Like(w0[x], c)
    BY <1>6, SomeIn
  <2>2. PICK y \in DOMAIN w1 : Like(w1[y], c)
    BY <1>6, SomeIn
  <2>3. PICK z \in D : w0[x] = v[z]
    BY <1>5, <2>1, PartIn
  <2>4. PICK z1 \in E : w1[y] = v[z1]
    BY <1>5, <2>2, PartIn
  <2>5. z = z1
    <3>1. z \in In(v, 0, c) /\ z1 \in In(v, 0, c)
      BY <1>4, <2>1, <2>2, <2>3, <2>4 DEF In
    <3>2. Most(v, 0, c, 1)
      BY <1>8, <1>16
    <3> QED BY <3>1, <3>2 DEF Most, AtMost
  <2>6. v[z].left = 0 /\ (v[z].left > 0 \/ v[z].loop) /\ z \in DOMAIN v
    BY <1>2, <2>3, <2>4, <2>5
  <2>7. v[z].loop
    BY <2>6
  <2>8. OneOf(v[z]) /\ v[z].kind # "status"
    BY <1>7, <1>16, <2>1, <2>3, <2>6 DEF Like
  <2> QED BY <2>7, <2>8 DEF OneOf
<1>17. ASSUME NEW c, c.kind \in Kinds \ (Slow \cup {"status"}) PROVE Most(a, 0, c, 0)
  <2> SUFFICES ASSUME NEW y \in DOMAIN w1, Like(w1[y], c) PROVE FALSE
    BY <1>6, <1>11, SomeIn
  <2>1. PICK z \in E : w1[y] = v[z]
    BY <1>5, PartIn
  <2>2. v[z].kind = c.kind /\ z \in DOMAIN v /\ z \in DOMAIN u
    BY <1>1, <1>4, <2>1 DEF Like
  <2>3. u[z].kind = c.kind /\ TaskOK(u[z])
    BY <1>1, <2>2 DEF Alike
  <2>4. u[z].left = 1
    BY <1>17, <2>3 DEF TaskOK
  <2>5. v[z].left = 0
    BY <1>1, <2>2, <2>4
  <2>6. v[z].loop
    BY <1>2, <2>1, <2>5
  <2>7. OneOf(v[z])
    BY <1>7, <2>2
  <2> QED BY <1>17, <2>2, <2>6, <2>7 DEF OneOf
<1> QED BY <1>10, <1>12, <1>13, <1>14, <1>15, <1>16, <1>17 DEF Divided

\* What is left of a class, wherever the task is.
LEMMA DividedNone ==
  ASSUME NEW h, h.tasks \in Seq(Tasks), NEW k, NEW s, Divided(h.tasks, k.tasks, s)
  PROVE  /\ \A c : None(h, <<>>, 0, c) <=> None(k, s, 0, c)
         /\ \A c : c.kind # "status" => (Lone(h, <<>>, 0, c) => Lone(k, s, 0, c))
<1>1. ASSUME NEW c PROVE None(h, <<>>, 0, c) <=> None(k, s, 0, c)
  <2>1. Most(<<>>, 0, c, 0)
    <3>1. <<>> \in Seq(Tasks)
      OBVIOUS
    <3> QED BY <3>1, NoneLeft
  <2>2. Most(h.tasks, 0, c, 0) => Most(k.tasks, 0, c, 0) /\ Most(s, 0, c, 0)
    BY DEF Divided
  <2>3. Most(k.tasks, 0, c, 0) /\ Most(s, 0, c, 0) => Most(h.tasks, 0, c, 0)
    BY DEF Divided
  <2> QED BY <2>1, <2>2, <2>3 DEF None
<1>2. ASSUME NEW c, c.kind # "status", Lone(h, <<>>, 0, c) PROVE Lone(k, s, 0, c)
  <2>1. Most(h.tasks, 0, c, 1)
    BY <1>2 DEF Lone
  <2>2. Most(k.tasks, 0, c, 1) /\ Most(s, 0, c, 1)
    BY <2>1 DEF Divided
  <2>3. Most(k.tasks, 0, c, 0) \/ Most(s, 0, c, 0)
    BY <1>2, <2>1 DEF Divided
  <2> QED BY <2>2, <2>3 DEF Lone
<1> QED BY <1>1, <1>2

\* The same, of the classes the invariant speaks of.
Divides(h, k, s) ==
    /\ \A c \in Kinds : None(h, <<>>, 0, On(c)) <=> None(k, s, 0, On(c))
    /\ \A c \in Kinds \ {"status"} : Lone(h, <<>>, 0, On(c)) => Lone(k, s, 0, On(c))
    /\ \A r, n : None(h, <<>>, 0, Stray(r, n)) <=> None(k, s, 0, Stray(r, n))
    /\ \A c \in {"playerBorn", "revive"}, p \in Players :
          /\ None(h, <<>>, 0, By(c, p)) <=> None(k, s, 0, By(c, p))
          /\ Lone(h, <<>>, 0, By(c, p)) => Lone(k, s, 0, By(c, p))
    /\ \A c \in Kinds : \A q \in 0..2 :
          Most(h.tasks, 0, On(c), q) => Most(k.tasks, 0, On(c), q) /\ Most(s, 0, On(c), q)
    /\ \A c \in Kinds \ (Slow \cup {"status"}) : Most(k.tasks, 0, On(c), 0)

\* Dividing the tasks into those that are due and those kept divides every class.
LEMMA DividesIs ==
  ASSUME NEW h, h.tasks \in Seq(Tasks), NEW k, NEW s, Divided(h.tasks, k.tasks, s)
  PROVE  Divides(h, k, s)
<1>1. \A c : None(h, <<>>, 0, c) <=> None(k, s, 0, c)
  BY DividedNone
<1>2. \A c : c.kind # "status" => (Lone(h, <<>>, 0, c) => Lone(k, s, 0, c))
  BY DividedNone
<1>3. ASSUME NEW c \in Kinds \ {"status"} PROVE Lone(h, <<>>, 0, On(c)) => Lone(k, s, 0, On(c))
  <2>1. On(c).kind # "status"
    BY DEF On
  <2> QED BY <1>2, <2>1
<1>4. ASSUME NEW c \in {"playerBorn", "revive"}, NEW p \in Players
      PROVE  Lone(h, <<>>, 0, By(c, p)) => Lone(k, s, 0, By(c, p))
  <2>1. By(c, p).kind # "status"
    BY DEF By
  <2> QED BY <1>2, <2>1
<1>5. ASSUME NEW c \in Kinds \ (Slow \cup {"status"}) PROVE Most(k.tasks, 0, On(c), 0)
  <2>1. On(c).kind \in Kinds \ (Slow \cup {"status"})
    BY DEF On
  <2> QED BY <2>1 DEF Divided
<1>6. \A c \in Kinds : \A q \in 0..2 :
          Most(h.tasks, 0, On(c), q) => Most(k.tasks, 0, On(c), q) /\ Most(s, 0, On(c), q)
  BY DEF Divided
<1> QED BY <1>1, <1>3, <1>4, <1>5, <1>6 DEF Divides

\* The course of the stage, as a step begins.
LEMMA CourseTicks ==
  ASSUME NEW h, NEW k, NEW s, Divides(h, k, s), Only(h, k, {"tasks"}),
         h.finishNum \in [1..Rows -> Nat], Course(h, <<>>, 0, 0)
  PROVE  Course(k, s, 0, 1)
<1>1. /\ k.running = h.running /\ k.data = h.data /\ k.enemies = h.enemies /\ k.kills = h.kills
      /\ k.prop = h.prop /\ k.air = h.air /\ k.finishNum = h.finishNum /\ k.panel = h.panel
  BY DEF Only, Fields
<1>2. /\ \A c \in Kinds : None(h, <<>>, 0, On(c)) => None(k, s, 0, On(c))
      /\ \A c \in Kinds \ {"status"} : Lone(h, <<>>, 0, On(c)) => Lone(k, s, 0, On(c))
      /\ \A r, n : None(h, <<>>, 0, Stray(r, n)) => None(k, s, 0, Stray(r, n))
  BY DEF Divides
<1>3. \A c \in Kinds : \A q \in 0..2 :
          Most(h.tasks, 0, On(c), q) => Most(k.tasks, 0, On(c), q) /\ Most(s, 0, On(c), q)
  BY DEF Divides
<1>4. Most(k.tasks, 0, On("row"), 0) /\ Most(k.tasks, 0, On("revive"), 0)
      /\ Most(k.tasks, 0, On("playerBorn"), 0) /\ Most(k.tasks, 0, On("born"), 0)
  BY DEF Divides, Kinds, Slow
<1>5. Ended(h, <<>>, 0) => Ended(k, s, 0)
  BY <1>1, <1>2, <1>4 DEF Ended, Kinds
<1>6. CASE Prepared(h, <<>>, 0)
  <2>1. /\ k.running = FALSE /\ k.enemies = {} /\ k.kills = 0
        /\ k.prop = "none" /\ k.air["player"] = 0 /\ k.air["enemy"] = 0
    BY <1>1, <1>6 DEF Prepared
  <2>2. k.data = FALSE
    BY <1>1, <1>6 DEF Prepared
  <2>3. \A c \in {"win", "row", "shown"} : None(k, s, 0, On(c))
    BY <1>2, <1>6 DEF Prepared, Kinds
  <2>4. Lone(k, s, 0, On("start"))
    BY <1>2, <1>6 DEF Prepared, Kinds
  <2> QED BY <2>1, <2>2, <2>3, <2>4 DEF Prepared, Course
<1>7. CASE Running(h, <<>>, 0)
  <2>1. Running(k, s, 0)
    BY <1>1, <1>2, <1>7 DEF Running, Kinds
  <2> QED BY <2>1 DEF Course
<1>8. CASE Won(h, <<>>, 0)
  <2>1. Won(k, s, 0)
    BY <1>1, <1>2, <1>8 DEF Won, Kinds
  <2> QED BY <2>1 DEF Course
<1>9. ASSUME NEW r \in 1..Rows, NewRow(h, <<>>, 0, 0, r) PROVE OldRow(k, s, 0, r)
  <2>1. Ended(k, s, 0) /\ None(k, s, 0, On("shown")) /\ None(k, s, 0, Stray(r, k.panel))
    BY <1>1, <1>2, <1>5, <1>9 DEF NewRow, Kinds
  <2>2. r \in r..Rows /\ \A q \in (r + 1)..Rows : q \in r..Rows
    BY DEF Rows
  <2>3. k.finishNum[r] = 0 /\ \A q \in (r + 1)..Rows : k.finishNum[q] = 0
    BY <1>1, <1>9, <2>2 DEF NewRow
  <2>4. RowsLeft(k, r) = Seats /\ k.finishNum[r] <= Seats
    BY <2>3, SeatsAre DEF RowsLeft
  <2>5. Most(s, 0, On("row"), RowsLeft(k, r))
    <3>1. Most(h.tasks, 0, On("row"), Seats)
      BY <1>9 DEF NewRow
    <3> QED BY <1>3, <2>4, <3>1, SeatsAre DEF Kinds
  <2>6. k.air["enemy"] <= 2 - r
    <3>1. h.air["enemy"] <= (2 - r) + 0 /\ (2 - r) + 0 = 2 - r
      BY <1>9 DEF NewRow, Rows
    <3> QED BY <1>1, <3>1
  <2>7. r > 1 => Most(s, 0, On("revive"), 0)
    <3>1. r > 1 => Most(h.tasks, 0, On("revive"), 0)
      BY <1>9 DEF NewRow
    <3> QED BY <1>3, <3>1 DEF Kinds
  <2> QED BY <1>4, <2>1, <2>3, <2>4, <2>5, <2>6, <2>7 DEF OldRow
<1>10. CASE Shown(h, <<>>, 0)
  <2>1. Ended(k, s, 0) /\ k.air["enemy"] = 0
    BY <1>1, <1>5, <1>10 DEF Shown
  <2>2. /\ \A c \in {"row", "revive"} : None(k, s, 0, On(c))
        /\ Lone(k, s, 0, On("shown"))
    BY <1>2, <1>10 DEF Shown, Kinds
  <2>3. Most(s, 0, On("playerBorn"), 0)
    BY <1>3, <1>10 DEF Shown, Kinds
  <2>4. Shown(k, s, 0)
    BY <1>4, <2>1, <2>2, <2>3 DEF Shown
  <2> QED BY <2>4 DEF Course
<1>11. CASE Stuck(h, <<>>, 0)
  <2>1. Stuck(k, s, 0)
    BY <1>1, <1>2, <1>11 DEF Stuck, Kinds
  <2> QED BY <2>1 DEF Course
<1> QED BY <1>6, <1>7, <1>8, <1>9, <1>10, <1>11 DEF Course

\* A step begins: what is due is taken off the list, before any of it runs.
LEMMA Ticks ==
  ASSUME NEW h, Going(h, <<>>, 0, 0), NEW k, k = [h EXCEPT !.tasks = AgainOf(h.tasks)],
         NEW s, s = DueOf(h.tasks)
  PROVE  DueOK(s) /\ Going(k, s, 0, 1) /\ Only(h, k, {"tasks"})
<1>1. /\ DOMAIN h = Fields /\ h.tasks \in Seq(Tasks) /\ Scheduled(h) /\ Budget(h)
      /\ h.finishNum \in [1..Rows -> Nat] /\ h.page \in {"game", "success"}
  BY GoingIs
<1>2. Only(h, k, {"tasks"}) /\ k.tasks = AgainOf(h.tasks)
  BY <1>1 DEF Only, Fields
<1>3. Divided(h.tasks, k.tasks, s)
  <2>1. \A x \in DOMAIN h.tasks : TaskOK(h.tasks[x])
    BY <1>1 DEF Scheduled
  <2> DEFINE u == h.tasks
             a == k.tasks
  <2>2. u \in Seq(Tasks) /\ (\A x \in DOMAIN u : TaskOK(u[x])) /\ a = AgainOf(u) /\ s = DueOf(u)
    BY <1>1, <1>2, <2>1
  <2> HIDE DEF u, a
  <2>3. Divided(u, a, s)
    BY <2>2, DividedIs
  <2> QED BY <2>3 DEF u, a
<1>4. DueOK(s) /\ k.tasks \in Seq(Tasks) /\ \A x \in DOMAIN k.tasks : TaskOK(k.tasks[x])
  BY <1>3 DEF Divided
<1>5. Divides(h, k, s)
  BY <1>1, <1>3, DividesIs
<1>6. Agree(h, k, Fields \ {"tasks"})
  BY <1>2 DEF Only, Agree
<1>7. Typed(k)
  BY <1>6 DEF Typed, Agree, Fields, Going
<1>8. Budget(k)
  BY <1>6 DEF Budget, Agree, Fields, Going
<1>9. Scheduled(k)
  <2>1. Most(h.tasks, 0, On("propGone"), 0) \/ h.prop # "none"
    BY <1>1 DEF Scheduled
  <2>2. k.prop = h.prop
    BY <1>6 DEF Agree, Fields
  <2>3. Most(h.tasks, 0, On("propGone"), 0) => Most(k.tasks, 0, On("propGone"), 0)
    BY <1>5 DEF Divides, Kinds
  <2> QED BY <1>4, <2>1, <2>2, <2>3 DEF Scheduled
<1>10. ASSUME h.page = "game" PROVE PlayersOK(k, s, 0)
  <2>1. PlayersOK(h, <<>>, 0)
    BY <1>10 DEF Going
  <2>2. k.live = h.live /\ k.lifeNum = h.lifeNum /\ k.tank = h.tank /\ k.gameOver = h.gameOver
    BY <1>6 DEF Agree, Fields
  <2>3. ASSUME NEW p \in Players PROVE PlayerOK(k, s, 0, p)
    <3>1. PlayerOK(h, <<>>, 0, p)
      BY <2>1 DEF PlayersOK
    <3>2. \A c \in {"playerBorn", "revive"} :
             /\ None(h, <<>>, 0, By(c, p)) <=> None(k, s, 0, By(c, p))
             /\ Lone(h, <<>>, 0, By(c, p)) => Lone(k, s, 0, By(c, p))
      BY <1>5 DEF Divides
    <3> QED BY <2>2, <3>1, <3>2 DEF PlayerOK
  <2> QED BY <2>1, <2>2, <2>3 DEF PlayersOK
<1>11. Phase(k, s, 0, 1)
  <2>1. k.page = h.page /\ k.stage = h.stage /\ k.gameOver = h.gameOver
    BY <1>6 DEF Agree, Fields
  <2>2. \A c \in {"start", "over"} : None(h, <<>>, 0, On(c)) => None(k, s, 0, On(c))
    BY <1>5 DEF Divides, Kinds
  <2>3. Final(h, <<>>, 0) => Final(k, s, 0)
    BY <2>1, <2>2 DEF Final
  <2>4. Course(h, <<>>, 0, 0) => Course(k, s, 0, 1)
    BY <1>1, <1>2, <1>5, CourseTicks
  <2> QED BY <2>1, <2>2, <2>3, <2>4 DEF Phase, Going
<1>12. k.page = h.page
  BY <1>6 DEF Agree, Fields
<1> QED BY <1>2, <1>4, <1>7, <1>8, <1>9, <1>10, <1>11, <1>12 DEF Going

\* The tasks that are due run, one after the other.
RunHolds(c, i, a) == Outcome(c.h, a, c.s, i)

\* A record f of the loop that runs the tasks that are due; there is one, and at its end holds what
\* every pass preserves.
RunsPasses(c, h, f, n) == f = [i \in 0..n |-> IF i = 0 THEN h ELSE RunOp(c, f[i - 1], i)]
LEMMA RunsRecord ==
  ASSUME NEW c, NEW h, NEW n \in Nat
  PROVE  \E f : RunsPasses(c, h, f, n)
<1> DEFINE e == <<"run", c>>
<1>1. PICK f : Is(e, h, f, n)
  BY Exists
<1>2. \A a, i : Pass(e, a, i) = RunOp(c, a, i)
  BY DEF Pass
<1> HIDE DEF e
<1>3. \A i \in 0..n : (IF i = 0 THEN h ELSE Pass(e, f[i - 1], i))
                      = (IF i = 0 THEN h ELSE RunOp(c, f[i - 1], i))
  BY <1>2
<1>4. RunsPasses(c, h, f, n)
  BY <1>1, <1>3 DEF Is, RunsPasses
<1> QED BY <1>4

\* What every pass of it preserves.
LEMMA RunsFold ==
  ASSUME NEW c, NEW h, NEW n \in Nat, NEW f, RunsPasses(c, h, f, n), RunHolds(c, 0, h),
         \A i \in 0..n : \A a : i < n /\ RunHolds(c, i, a) => RunHolds(c, i + 1, RunOp(c, a, i + 1))
  PROVE  RunHolds(c, n, f[n])
<1> DEFINE T == {i \in 0..n : RunHolds(c, i, f[i])}
<1>1. 0 \in T
  BY DEF RunsPasses
<1>2. \A i \in 0..n : i < n /\ i \in T => i + 1 \in T
  <2> SUFFICES ASSUME NEW i \in 0..n, i < n, i \in T PROVE i + 1 \in T
    OBVIOUS
  <2>1. f[i + 1] = RunOp(c, f[i], i + 1)
    BY DEF RunsPasses
  <2> QED BY <2>1
<1> HIDE DEF T
<1>3. \A i \in 0..n : i \in T
  BY <1>1, <1>2, UpTo
<1>4. n \in T
  BY <1>3
<1> QED BY <1>4 DEF T

\* The next of them.
LEMMA RunsOn ==
  ASSUME NEW h, NEW s, DueOK(s), NEW i \in Nat, i < Len(s), NEW a, Outcome(h, a, s, i),
         NEW k, k = Run(a, s[i + 1])
  PROVE  Outcome(h, k, s, i + 1)
<1>1. CASE Menu(a)
  <2>1. a.page = "menu"
    BY <1>1 DEF Menu
  <2>2. k = a
    BY <2>1 DEF Run
  <2> QED BY <1>1, <2>2 DEF Outcome
<1>2. CASE Going(a, s, i, 1) /\ a.stage = h.stage
  <2>1. Outcome(a, k, s, i + 1)
    BY <1>2, RunIs
  <2> QED BY <1>2, <2>1 DEF Outcome
<1>3. CASE Going(a, s, i, 1) /\ a.stage = h.stage + 1 /\ Begun(a, s, i)
  <2>1. Going(k, s, i + 1, 1) /\ Begun(k, s, i + 1) /\ k.stage = a.stage
    BY <1>3, BegunRuns
  <2> QED BY <1>3, <2>1 DEF Outcome
<1> QED BY <1>1, <1>2, <1>3 DEF Outcome

\* The timer leaves the menu, the stage, or the next one.
LEMMA TimerDone ==
  ASSUME NEW h, Going(h, <<>>, 0, 0), NEW k, k = onTimer(h)
  PROVE  \E s : DueOK(s) /\ Outcome(h, k, s, Len(s))
<1> DEFINE a == [h EXCEPT !.tasks = AgainOf(h.tasks)]
           s == DueOf(h.tasks)
           n == Len(s)
           c == [h |-> h, s |-> s]
<1>1. k = ForEach(Run, a, s)
  BY TimerIs
<1>2. DueOK(s) /\ Going(a, s, 0, 1) /\ Only(h, a, {"tasks"})
  <2>1. a = [h EXCEPT !.tasks = AgainOf(h.tasks)] /\ s = DueOf(h.tasks)
    OBVIOUS
  <2> HIDE DEF a, s
  <2> QED BY <2>1, Ticks
<1>3. c.h = h /\ c.s = s
  OBVIOUS
<1> HIDE DEF a, s
<1>4. n \in Nat
  BY <1>2, LenProperties DEF DueOK
<1>5. a.stage = h.stage
  BY <1>2 DEF Only, Fields
<1>6. RunHolds(c, 0, a)
  BY <1>2, <1>3, <1>5 DEF RunHolds, Outcome
<1>7. \A i \in 0..n : \A b : i < n /\ RunHolds(c, i, b) => RunHolds(c, i + 1, RunOp(c, b, i + 1))
  <2> SUFFICES ASSUME NEW i \in 0..n, NEW b, i < n, RunHolds(c, i, b)
               PROVE  RunHolds(c, i + 1, RunOp(c, b, i + 1))
    OBVIOUS
  <2>1. Outcome(h, b, s, i) /\ i \in Nat /\ i < Len(s)
    BY <1>3, <1>4 DEF RunHolds
  <2> DEFINE e == Run(b, s[i + 1])
  <2>2. Outcome(h, e, s, i + 1)
    <3>1. e = Run(b, s[i + 1])
      OBVIOUS
    <3> HIDE DEF e
    <3> QED BY <1>2, <2>1, <3>1, RunsOn
  <2> QED BY <1>3, <2>2 DEF RunHolds, RunOp
<1>8. k = LET after[i \in 0..Len(s)] == IF i = 0 THEN a ELSE Run(after[i - 1], s[i])
          IN  after[Len(s)]
  BY <1>1 DEF ForEach
<1> HIDE DEF c, n
<1>9. \E f : RunsPasses(c, a, f, n)
  BY <1>4, RunsRecord
<1> DEFINE f == CHOOSE f : f = [i \in 0..n |-> IF i = 0 THEN a ELSE Run(f[i - 1], s[i])]
<1>10. RunsPasses(c, a, f, n)
  BY <1>3, <1>9 DEF RunsPasses, RunOp
<1>11. k = f[n]
  BY <1>8 DEF n
<1> HIDE DEF f
<1>12. RunHolds(c, n, f[n])
  BY <1>4, <1>6, <1>7, <1>10, RunsFold
<1> QED BY <1>2, <1>3, <1>11, <1>12 DEF RunHolds, n

-----------------------------------------------------------------------------
(* The rest of a frame *)

\* What a frame may leave: a stage that goes on, or one that has just begun.
Starting(u) == \A x \in DOMAIN u : u[x].kind \in {"shieldEnd", "start", "playerBorn"}
Went(st, k, d) ==
    \/ Menu(k)
    \/ /\ Going(k, <<>>, 0, d)
       /\ k.stage = st \/ (k.stage = st + 1 /\ k.data = FALSE /\ Starting(k.tasks))

\* Nothing is due any more.
LEMMA DueDone ==
  ASSUME NEW h, NEW s, DueOK(s), NEW k, Outcome(h, k, s, Len(s)), NEW st, st = h.stage
  PROVE  Went(st, k, 1)
<1> DEFINE n == Len(s)
<1>1. s \in Seq(Tasks) /\ n \in Nat
  BY LenProperties DEF DueOK
<1> HIDE DEF n
<1>2. ASSUME Going(k, s, n, 1) PROVE Going(k, <<>>, 0, 1)
  <2>1. <<>> \in Seq(Tasks)
    OBVIOUS
  <2>2. \A c, q \in 0..2 : Most(s, Len(s), c, q) /\ Most(<<>>, 0, c, q)
    BY <1>1, <2>1, NoneLeft
  <2>3. Less(k, s, n, k, <<>>, 0)
    <3>1. Thins(s, n, <<>>, 0)
      <4>1. \A c \in Classes, q \in 0..2 : Most(<<>>, 0, c, q)
        BY <2>1, NoneLeft
      <4> QED BY <4>1 DEF Thins
    <3> QED BY <3>1, ThinsSame DEF Less
  <2>4. Revives(s, n, <<>>, 0)
    <3>1. \A c : Most(s, Len(s), c, 0)
      BY <1>1, NoneLeft
    <3> QED BY <3>1 DEF Revives, n
  <2>5. Revives(k.tasks, 0, k.tasks, 0)
    BY ThinsSame
  <2>6. Agree(k, k, Core) /\ PropFree(k, k) /\ Scheduled(k)
    BY <1>2, GoingIs DEF Agree, PropFree
  <2> QED BY <1>2, <2>3, <2>4, <2>5, <2>6, GoingLess
<1>3. Begun(k, s, n) => k.data = FALSE /\ Starting(k.tasks)
  BY DEF Begun, Starting
<1> QED BY <1>2, <1>3 DEF Outcome, Went, n

\* The clock of the enemies.
LEMMA EnemyAdds ==
  ASSUME NEW st, NEW d, NEW h, Went(st, h, d), NEW place, NEW k, k = onEnemyAdd(h, place)
  PROVE  Went(st, k, d)
<1> DEFINE x == addOneEnemy(h, place)
<1>1. k = IF h.data /\ isNeedCreateEnemy(h) THEN x ELSE h
  BY DEF onEnemyAdd
<1>2. isNeedCreateEnemy(h) => h.kills + Cardinality(h.enemies) < EnemyTotal
  BY DEF isNeedCreateEnemy, getEnemyDeadTotalNum, getEnemyAliveNum
<1>3. CASE ~(h.data /\ isNeedCreateEnemy(h))
  BY <1>1, <1>3
<1>4. CASE h.data /\ isNeedCreateEnemy(h)
  <2>1. k = x
    BY <1>1, <1>4
  <2>2. ~Menu(h)
    BY <1>4 DEF Menu
  <2>3. Going(h, <<>>, 0, d) /\ h.stage = st
    BY <1>4, <2>2 DEF Went
  <2>4. h.kills + Cardinality(h.enemies) < EnemyTotal
    BY <1>2, <1>4
  <2>5. Cardinality(h.enemies) \in Nat /\ h.kills \in Nat /\ DOMAIN h = Fields
    BY <2>3, GoingIs, NodesAre DEF Budget
  <2>6. h.kills < EnemyTotal
    BY <2>4, <2>5, StageAssumption
  <2>7. h.data = TRUE
    BY <1>4, <2>3 DEF Going, Typed
  <2>8. Fight(h, <<>>, 0)
    BY <2>3, <2>6, <2>7, Fighting
  <2>9. x = addOneEnemy(h, place)
    OBVIOUS
  <2> HIDE DEF x
  <2>10. Going(x, <<>>, 0, d) /\ Only(h, x, {"enemies", "pool", "borning", "tasks"})
    BY <2>3, <2>4, <2>8, <2>9, AddsEnemy
  <2>11. x.stage = h.stage
    BY <2>10 DEF Only, Fields
  <2> QED BY <2>1, <2>3, <2>10, <2>11 DEF Went
<1> QED BY <1>3, <1>4

\* What shots do to the time bullets can still fly.
LEMMA ShotsAre ==
  ASSUME NEW h, DOMAIN h = Fields, h.air \in [{"player", "enemy"} -> 0..Flight],
         NEW tick \in BOOLEAN, NEW k, k = Shots(h, tick)
  PROVE  /\ Only(h, k, {"air"}) /\ k.air \in [{"player", "enemy"} -> 0..Flight]
         /\ \A team \in {"player", "enemy"} : ~CanShoot(h, team) =>
               /\ k.air[team] <= h.air[team]
               /\ tick = TRUE => k.air[team] = 0 \/ k.air[team] = h.air[team] - 1
<1> DEFINE b == [team \in DOMAIN h.air |->
        CASE CanShoot(h, team) -> Flight
          [] ~CanShoot(h, team) /\ tick /\ h.air[team] > 0 -> h.air[team] - 1
          [] OTHER -> h.air[team]]
<1>1. k = [h EXCEPT !.air = b]
  BY DEF Shots
<1>2. DOMAIN h.air = {"player", "enemy"}
  OBVIOUS
<1>3. ASSUME NEW team \in {"player", "enemy"}
      PROVE  /\ b[team] \in 0..Flight
             /\ ~CanShoot(h, team) =>
                   /\ b[team] <= h.air[team]
                   /\ tick => b[team] = 0 \/ b[team] = h.air[team] - 1
  <2> DEFINE a == h.air[team]
             e == b[team]
             can == CanShoot(h, team)
  <2>1. e = CASE can -> Flight
              [] ~can /\ tick /\ a > 0 -> a - 1
              [] OTHER -> a
    BY <1>2
  <2>2. a \in 0..Flight
    OBVIOUS
  <2> HIDE DEF a, e, can
  <2>3. /\ can => e = Flight
        /\ ~can /\ tick /\ a > 0 => e = a - 1
        /\ ~can /\ ~(tick /\ a > 0) => e = a
    BY <2>1
  <2>4. Flight \in 0..Flight
    BY DEF Flight
  <2>5. CASE can
    BY <2>3, <2>4, <2>5 DEF e, can
  <2>6. CASE ~can /\ tick /\ a > 0
    <3>1. e = a - 1 /\ a - 1 \in 0..Flight /\ a - 1 <= a
      BY <2>2, <2>3, <2>6 DEF Flight
    <3> QED BY <3>1 DEF e, a
  <2>7. CASE ~can /\ ~(tick /\ a > 0)
    <3>1. e = a /\ a <= a
      BY <2>2, <2>3, <2>7 DEF Flight
    <3>2. tick => a = 0
      BY <2>2, <2>7 DEF Flight
    <3> QED BY <2>2, <3>1, <3>2 DEF e, a
  <2> QED BY <2>5, <2>6, <2>7
<1>4. b \in [{"player", "enemy"} -> 0..Flight]
  BY <1>2, <1>3
<1> HIDE DEF b
<1>5. Only(h, k, {"air"}) /\ k.air = b
  BY <1>1 DEF Only, Fields
<1> QED BY <1>3, <1>4, <1>5

\* No enemy shoots when all are dead.
LEMMA NoEnemyShoots ==
  ASSUME NEW h, Budget(h), h.kills = EnemyTotal
  PROVE  h.enemies = {} /\ ~CanShoot(h, "enemy")
<1>1. h.enemies \subseteq Nodes /\ EnemyTotal + Cardinality(h.enemies) <= EnemyTotal
  BY DEF Budget
<1>2. Cardinality(h.enemies) \in Nat /\ (h.enemies = {} <=> Cardinality(h.enemies) = 0)
  BY <1>1, NodesAre
<1>3. h.enemies = {}
  BY <1>1, <1>2, StageAssumption
<1>4. UpEnemies(h) = {}
  BY <1>3 DEF UpEnemies
<1> QED BY <1>3, <1>4 DEF CanShoot

\* Nothing is in the empty list.
LEMMA NoneEmpty == \A c : Most(<<>>, 0, c, 0)
<1>1. <<>> \in Seq(Tasks) /\ 0 \in 0..2
  OBVIOUS
<1> SUFFICES ASSUME NEW c PROVE Most(<<>>, 0, c, 0)
  OBVIOUS
<1>2. \A q \in 0..2 : Most(<<>>, 0, c, q)
  BY <1>1, NoneLeft
<1> QED BY <1>1, <1>2

\* The course of the stage, as the bullets fly on.
LEMMA CourseShoots ==
  ASSUME NEW h, Typed(h), Budget(h), NEW d \in {0, 1}, NEW tick \in BOOLEAN, d = 1 => tick = TRUE,
         NEW k, k = Shots(h, tick), Course(h, <<>>, 0, d)
  PROVE  Course(k, <<>>, 0, 0)
<1>1. DOMAIN h = Fields /\ h.air \in [{"player", "enemy"} -> 0..Flight]
  BY DEF Typed
<1>2. /\ Only(h, k, {"air"}) /\ k.air \in [{"player", "enemy"} -> 0..Flight]
      /\ \A team \in {"player", "enemy"} : ~CanShoot(h, team) =>
            /\ k.air[team] <= h.air[team]
            /\ tick = TRUE => k.air[team] = 0 \/ k.air[team] = h.air[team] - 1
  BY <1>1, ShotsAre
<1>3. /\ k.running = h.running /\ k.data = h.data /\ k.enemies = h.enemies /\ k.kills = h.kills
      /\ k.prop = h.prop /\ k.tasks = h.tasks /\ k.finishNum = h.finishNum /\ k.panel = h.panel
  BY <1>2 DEF Only, Fields
<1>4. \A c : /\ None(h, <<>>, 0, c) => None(k, <<>>, 0, c)
             /\ Lone(h, <<>>, 0, c) => Lone(k, <<>>, 0, c)
  BY <1>3 DEF None, Lone
<1>5. Ended(h, <<>>, 0) => /\ Ended(k, <<>>, 0)
                           /\ k.air["enemy"] <= h.air["enemy"]
                           /\ tick = TRUE => k.air["enemy"] = 0 \/ k.air["enemy"] = h.air["enemy"] - 1
  <2> SUFFICES ASSUME Ended(h, <<>>, 0)
               PROVE  /\ Ended(k, <<>>, 0)
                      /\ k.air["enemy"] <= h.air["enemy"]
                      /\ tick = TRUE => k.air["enemy"] = 0 \/ k.air["enemy"] = h.air["enemy"] - 1
    OBVIOUS
  <2>1. Ended(k, <<>>, 0)
    BY <1>3, <1>4 DEF Ended
  <2>2. ~CanShoot(h, "enemy")
    BY NoEnemyShoots DEF Ended
  <2> QED BY <1>2, <2>1, <2>2
<1>6. CASE Prepared(h, <<>>, 0)
  <2>1. \A team \in {"player", "enemy"} : ~CanShoot(h, team) /\ h.air[team] = 0
    BY <1>6 DEF Prepared, CanShoot
  <2>2. k.air["player"] = 0 /\ k.air["enemy"] = 0
    <3>1. ASSUME NEW team \in {"player", "enemy"} PROVE k.air[team] = 0
      <4>1. k.air[team] <= 0 /\ k.air[team] \in 0..Flight
        BY <1>2, <2>1
      <4> QED BY <4>1 DEF Flight
    <3> QED BY <3>1
  <2>3. k.running = FALSE /\ k.enemies = {} /\ k.kills = 0 /\ k.prop = "none"
    BY <1>3, <1>6 DEF Prepared
  <2>4. k.data = FALSE
    BY <1>3, <1>6 DEF Prepared
  <2>5. \A c \in {"win", "row", "shown"} : None(k, <<>>, 0, On(c))
    BY <1>4, <1>6 DEF Prepared
  <2>6. Lone(k, <<>>, 0, On("start"))
    BY <1>4, <1>6 DEF Prepared
  <2> QED BY <2>2, <2>3, <2>4, <2>5, <2>6 DEF Prepared, Course
<1>7. CASE Running(h, <<>>, 0)
  <2>1. Running(k, <<>>, 0)
    BY <1>3, <1>4, <1>7 DEF Running
  <2> QED BY <2>1 DEF Course
<1>8. CASE Won(h, <<>>, 0)
  <2>1. Won(k, <<>>, 0)
    BY <1>3, <1>4, <1>8 DEF Won
  <2> QED BY <2>1 DEF Course
<1>9. ASSUME NEW r \in 1..Rows, NewRow(h, <<>>, 0, d, r) PROVE NewRow(k, <<>>, 0, 0, r)
  <2>1. /\ Ended(h, <<>>, 0) /\ None(h, <<>>, 0, On("shown"))
        /\ None(h, <<>>, 0, Stray(r, h.panel))
        /\ \A q \in r..Rows : h.finishNum[q] = 0
        /\ Most(h.tasks, 0, On("row"), Seats) /\ Most(<<>>, 0, On("row"), 0)
        /\ h.air["enemy"] <= (2 - r) + d
        /\ r > 1 => Most(h.tasks, 0, On("revive"), 0)
    BY <1>9 DEF NewRow
  <2>2. k.air["enemy"] <= (2 - r) + 0
    <3> DEFINE x == h.air["enemy"]
               y == k.air["enemy"]
    <3>1. x \in 0..Flight /\ y \in 0..Flight /\ y <= x /\ x <= (2 - r) + d
          /\ (tick = TRUE => y = 0 \/ y = x - 1)
      BY <1>1, <1>2, <1>5, <2>1
    <3> HIDE DEF x, y
    <3>2. y <= (2 - r) + 0
      <4>1. r \in {1, 2} /\ x \in {0, 1, 2} /\ y \in {0, 1, 2}
        BY <3>1 DEF Rows, Flight
      <4>2. CASE d = 0
        BY <3>1, <4>1, <4>2
      <4>3. CASE d = 1
        <5>1. y = 0 \/ y = x - 1
          BY <3>1, <4>3
        <5> QED BY <3>1, <4>1, <4>3, <5>1
      <4> QED BY <4>2, <4>3
    <3> QED BY <3>2 DEF y
  <2> QED BY <1>3, <1>4, <1>5, <2>1, <2>2 DEF NewRow
<1>10. ASSUME NEW r \in 1..Rows, OldRow(h, <<>>, 0, r) PROVE Stuck(k, <<>>, 0)
  <2>1. Ended(h, <<>>, 0) /\ None(h, <<>>, 0, On("shown")) /\ Most(h.tasks, 0, On("row"), 0)
    BY <1>10 DEF OldRow
  <2>2. None(h, <<>>, 0, On("row"))
    <3>1. \A c : Most(<<>>, 0, c, 0)
      BY NoneEmpty, Zenon
    <3> QED BY <2>1, <3>1 DEF None
  <2> QED BY <1>3, <1>4, <2>1, <2>2 DEF Stuck, Ended
<1>11. CASE Shown(h, <<>>, 0)
  <2>1. Ended(h, <<>>, 0) /\ h.air["enemy"] = 0
    BY <1>11 DEF Shown
  <2>2. k.air["enemy"] = 0
    <3>1. k.air["enemy"] <= 0 /\ k.air["enemy"] \in 0..Flight
      BY <1>2, <1>5, <2>1
    <3> QED BY <3>1 DEF Flight
  <2>3. Shown(k, <<>>, 0)
    BY <1>3, <1>4, <1>5, <1>11, <2>1, <2>2 DEF Shown
  <2> QED BY <2>3 DEF Course
<1>12. CASE Stuck(h, <<>>, 0)
  <2>1. Stuck(k, <<>>, 0)
    BY <1>3, <1>4, <1>12 DEF Stuck
  <2> QED BY <2>1 DEF Course
<1> QED BY <1>6, <1>7, <1>8, <1>9, <1>10, <1>11, <1>12 DEF Course

\* Shots, at the end of a frame.
LEMMA ShotsKeep ==
  ASSUME NEW st, NEW d \in {0, 1}, NEW h, Went(st, h, d), NEW tick \in BOOLEAN, d = 1 => tick = TRUE,
         NEW k, k = Shots(h, tick)
  PROVE  Went(st, k, 0)
<1>1. CASE Menu(h)
  <2>1. DOMAIN h = Fields
    BY <1>1 DEF Menu
  <2>2. Only(h, k, {"air"})
    BY <2>1 DEF Shots, Only, Fields
  <2>3. Agree(h, k, Fields \ {"air"})
    BY <2>2 DEF Only, Agree
  <2>4. /\ k.page = "menu" /\ k.stage = 1 /\ k.pause = FALSE
        /\ k.running = FALSE /\ k.enemies = {} /\ k.kills = 0
        /\ k.tasks = <<>>
    BY <1>1, <2>3 DEF Menu, Agree, Fields
  <2>5. k.data = FALSE
    BY <1>1, <2>3 DEF Menu, Agree, Fields
  <2> QED BY <2>2, <2>4, <2>5 DEF Only, Went, Menu
<1>2. CASE Going(h, <<>>, 0, d)
  <2>1. Typed(h) /\ Budget(h) /\ Scheduled(h) /\ DOMAIN h = Fields
    BY <1>2, GoingIs DEF Going
  <2>2. h.air \in [{"player", "enemy"} -> 0..Flight]
    BY <1>2, GoingIs
  <2>3. Only(h, k, {"air"}) /\ k.air \in [{"player", "enemy"} -> 0..Flight]
    BY <2>1, <2>2, ShotsAre
  <2>4. Agree(h, k, Fields \ {"air"})
    BY <2>3 DEF Only, Agree
  <2>5. Typed(k)
    BY <2>1, <2>3, <2>4 DEF Typed, Agree, Fields
  <2>6. Budget(k)
    BY <2>1, <2>4 DEF Budget, Agree, Fields
  <2>7. Scheduled(k)
    BY <2>1, <2>4 DEF Scheduled, Agree, Fields
  <2>8. /\ k.page = h.page /\ k.stage = h.stage /\ k.gameOver = h.gameOver /\ k.live = h.live
        /\ k.lifeNum = h.lifeNum /\ k.tank = h.tank /\ k.tasks = h.tasks /\ k.data = h.data
    BY <2>4 DEF Agree, Fields
  <2>9. \A c : /\ None(h, <<>>, 0, c) <=> None(k, <<>>, 0, c)
               /\ Lone(h, <<>>, 0, c) <=> Lone(k, <<>>, 0, c)
    BY <2>8 DEF None, Lone
  <2>10. PlayersOK(h, <<>>, 0) => PlayersOK(k, <<>>, 0)
    BY <2>8, <2>9 DEF PlayersOK, PlayerOK
  <2>11. Course(h, <<>>, 0, d) => Course(k, <<>>, 0, 0)
    BY <2>1, CourseShoots
  <2>12. Final(h, <<>>, 0) => Final(k, <<>>, 0)
    BY <2>8, <2>9 DEF Final
  <2>13. Phase(k, <<>>, 0, 0)
    BY <1>2, <2>8, <2>9, <2>11, <2>12 DEF Going, Phase
  <2>14. Going(k, <<>>, 0, 0)
    BY <1>2, <2>5, <2>6, <2>7, <2>8, <2>10, <2>13 DEF Going
  <2>15. ~Menu(h)
    BY <1>2, GoingIs DEF Menu
  <2> QED BY <2>8, <2>14, <2>15 DEF Went
<1> QED BY <1>1, <1>2 DEF Went

\* What is left of nothing.
LEMMA KeptNothing == \A D : D \subseteq DOMAIN (<<>>) => Kept(<<>>, D) = <<>>
<1> SUFFICES ASSUME NEW D, D \subseteq DOMAIN (<<>>) PROVE Kept(<<>>, D) = <<>>
  OBVIOUS
<1> DEFINE u == <<>>
           v == Kept(u, D)
<1>1. u \in Seq(Tasks) /\ D \subseteq DOMAIN u /\ DOMAIN u = {}
  OBVIOUS
<1> HIDE DEF u
<1>2. Part(v, u, D)
  BY <1>1, KeptPart
<1> HIDE DEF v
<1>3. v \in Seq(Tasks) /\ \A x \in DOMAIN v : \E y \in D : v[x] = u[y]
  BY <1>2, PartIn
<1>4. DOMAIN v = {}
  BY <1>1, <1>3
<1>5. v = <<>>
  BY <1>3, <1>4, EmptySeq, LenProperties
<1> QED BY <1>5 DEF u, v

\* A destroyed page takes its tasks with it.
LEMMA PageGone ==
  ASSUME NEW st, NEW h, Went(st, h, 0), NEW k, k = Destroyed(h)
  PROVE  Went(st, k, 0)
<1> DEFINE D == {i \in DOMAIN h.tasks : h.tasks[i].ctx = "Result" => h.tasks[i].arg.panel = h.panel}
<1>1. k = [h EXCEPT !.tasks = Kept(h.tasks, D)]
  BY DEF Destroyed
<1>2. D \subseteq DOMAIN h.tasks /\ \A y \in DOMAIN h.tasks : h.tasks[y].ctx # "Result" => y \in D
  OBVIOUS
<1> HIDE DEF D
<1>3. CASE Menu(h)
  <2>1. DOMAIN h = Fields /\ h.tasks = <<>>
    BY <1>3 DEF Menu
  <2>2. Kept(h.tasks, D) = h.tasks
    BY <1>2, <2>1, KeptNothing
  <2>3. DOMAIN k = Fields /\ k.tasks = <<>> /\ Only(h, k, {"tasks"})
    BY <1>1, <2>1, <2>2 DEF Only, Fields
  <2>4. Agree(h, k, Fields \ {"tasks"})
    BY <2>3 DEF Only, Agree
  <2>5. /\ k.page = "menu" /\ k.stage = 1 /\ k.pause = FALSE
        /\ k.running = FALSE /\ k.enemies = {} /\ k.kills = 0
    BY <1>3, <2>4 DEF Menu, Agree, Fields
  <2>6. k.data = FALSE
    BY <1>3, <2>4 DEF Menu, Agree, Fields
  <2> QED BY <2>3, <2>5, <2>6 DEF Menu, Went
<1>4. CASE Going(h, <<>>, 0, 0)
  <2>1. DOMAIN h = Fields /\ Scheduled(h) /\ h.tasks \in Seq(Tasks)
    BY <1>4, GoingIs
  <2>2. Only(h, k, {"tasks"}) /\ k.tasks = Kept(h.tasks, D)
    BY <1>1, <2>1 DEF Only, Fields
  <2>3. Part(k.tasks, h.tasks, D)
    BY <1>2, <2>1, <2>2, KeptPart
  <2>4. Agree(h, k, Fields \ {"tasks"}) /\ Agree(h, k, Core)
    BY <2>2 DEF Only, Agree, Core, Fields
  <2>5. k.prop = h.prop /\ k.stage = h.stage /\ k.data = h.data
    BY <2>4 DEF Agree, Fields
  <2>6. Scheduled(k)
    <3>1. h.prop = "none" \/ k.prop # "none"
      BY <2>5
    <3> QED BY <1>2, <2>1, <2>3, <3>1, ScheduledPart
  <2>7. \A y \in DOMAIN h.tasks : h.tasks[y].kind = "revive" => y \in D
    <3> SUFFICES ASSUME NEW y \in DOMAIN h.tasks, h.tasks[y].kind = "revive" PROVE y \in D
      OBVIOUS
    <3>1. h.tasks[y].ctx = Owner(h.tasks[y].kind)
      BY <2>1 DEF Scheduled, TaskOK, OneOf
    <3>2. h.tasks[y].ctx = "Player"
      BY <3>1 DEF Owner
    <3> QED BY <1>2, <3>2
  <2>8. Thins(h.tasks, 0, k.tasks, 0) /\ Revives(h.tasks, 0, k.tasks, 0)
    BY <1>2, <2>1, <2>3, <2>7, PartLess
  <2>9. Less(h, <<>>, 0, k, <<>>, 0) /\ Revives(<<>>, 0, <<>>, 0) /\ PropFree(h, k)
    BY <2>5, <2>8, ThinsSame DEF Less, PropFree
  <2>10. Going(k, <<>>, 0, 0)
    BY <1>4, <2>4, <2>6, <2>8, <2>9, GoingLess
  <2>11. Starting(h.tasks) => Starting(k.tasks)
    <3>1. \A x \in DOMAIN k.tasks : \E y \in D : k.tasks[x] = h.tasks[y]
      BY <2>3, PartIn
    <3> QED BY <1>2, <3>1 DEF Starting
  <2>12. ~Menu(h)
    BY <1>4, GoingIs DEF Menu
  <2> QED BY <1>4, <2>5, <2>10, <2>11, <2>12 DEF Went
<1> QED BY <1>3, <1>4 DEF Went

\* What a frame can find.
Found(h, f) ==
    /\ f.players \subseteq Players /\ (f.players # {} => h.air["enemy"] # 0)
    /\ f.enemies \subseteq Nodes
    /\ f.home => h.air["player"] # 0 \/ h.air["enemy"] # 0
    /\ f.drop = "no" \/ h.air["player"] # 0
    /\ f.gain \in Players => h.tank[f.gain] = "up"

\* Only what flies hits, and only a tank that is up picks a prop.
LEMMA FindsAre ==
  ASSUME NEW h, h.enemies \subseteq Nodes, h.air \in [{"player", "enemy"} -> 0..Flight],
         NEW f \in Finds(h)
  PROVE  Found(h, f)
<1> DEFINE x == h.air.player > 0 \/ h.air.enemy > 0
           H == {FALSE, h.home /\ x}
           P == IF h.air.enemy > 0 THEN UpPlayers(h) ELSE {}
           E == IF h.air.player > 0 THEN UpEnemies(h) ELSE {}
           G == IF h.prop # "none" THEN {p \in UpPlayers(h) : CanTouch(h, p)} ELSE {}
           D == IF h.created < MaxProps /\ h.air.player > 0 /\ UpEnemies(h) # {}
                THEN getRandomPropType \cup {"none"} ELSE {}
<1>1. f \in [home : H, players : SUBSET P, enemies : SUBSET E, gain : {2} \cup G,
             drop : {"no"} \cup D, place : BOOLEAN]
  <2> DEFINE S == [home : H, players : SUBSET P, enemies : SUBSET E, gain : {2} \cup G,
                   drop : {"no"} \cup D, place : BOOLEAN]
  <2>1. f \in {e \in S : Size(e) <= MaxHits}
    BY DEF Finds
  <2> HIDE DEF S
  <2>2. f \in S
    BY <2>1
  <2> QED BY <2>2 DEF S
<1>2. h.air.player = h.air["player"] /\ h.air.enemy = h.air["enemy"]
  OBVIOUS
<1>3. UpPlayers(h) \subseteq Players /\ \A p \in UpPlayers(h) : h.tank[p] = "up"
  BY DEF UpPlayers
<1>4. UpEnemies(h) \subseteq Nodes
  BY DEF UpEnemies
<1>5. 2 \notin Players
  BY DEF Players
<1>6. h.air["player"] \in Nat /\ h.air["enemy"] \in Nat
  BY DEF Flight
<1>7. P \subseteq UpPlayers(h) /\ (h.air["enemy"] = 0 => P = {})
  BY <1>2, <1>6
<1>8. E \subseteq UpEnemies(h)
  OBVIOUS
<1>9. h.air["player"] = 0 => D = {}
  BY <1>2, <1>6
<1>10. G \subseteq UpPlayers(h)
  OBVIOUS
<1>11. x => h.air["player"] # 0 \/ h.air["enemy"] # 0
  BY <1>2, <1>6
<1> HIDE DEF x
<1>18. \A y \in H : y => x
  BY Zenon
<1> HIDE DEF H, P, E, G, D
<1>12. /\ f.home \in H /\ f.players \subseteq P /\ f.enemies \subseteq E /\ f.gain \in {2} \cup G
       /\ f.drop \in {"no"} \cup D
  BY <1>1
<1>13. f.players \subseteq Players /\ (f.players # {} => h.air["enemy"] # 0)
  BY <1>3, <1>7, <1>12
<1>14. f.enemies \subseteq Nodes
  BY <1>4, <1>8, <1>12
<1>15. f.home => h.air["player"] # 0 \/ h.air["enemy"] # 0
  <2>1. f.home \in H
    BY <1>12
  <2> QED BY <1>11, <1>18, <2>1, Zenon
<1>16. f.drop = "no" \/ h.air["player"] # 0
  BY <1>9, <1>12
<1>17. f.gain \in Players => h.tank[f.gain] = "up"
  BY <1>3, <1>5, <1>10, <1>12
<1> QED BY <1>13, <1>14, <1>15, <1>16, <1>17 DEF Found

\* The events the last frame left behind.
LEMMA LastFrameIs ==
  ASSUME NEW h, Going(h, <<>>, 0, 0), NEW f \in Finds(h), NEW k, k = lastFrame(h, f)
  PROVE  Onward(h, k, <<>>, 0, 0)
<1>1. h.enemies \subseteq Nodes /\ h.air \in [{"player", "enemy"} -> 0..Flight]
  BY GoingIs DEF Budget
<1>2. Found(h, f)
  BY <1>1, FindsAre
<1> DEFINE a == PropLast(h, f)
           b == HomeLast(a, f)
           c == PlayersLast(b, f)
<1>3. k = EnemiesLast(c, f)
  BY DEF lastFrame
<1>4. Onward(h, a, <<>>, 0, 0)
  <2>1. f.gain \in Players => h.tank[f.gain] = "up"
    BY <1>2 DEF Found
  <2> QED BY <2>1, PropLastIs
<1> HIDE DEF a
<1>5. Onward(a, b, <<>>, 0, 0)
  <2>1. Going(a, <<>>, 0, 0) /\ a.air = h.air
    BY <1>4 DEF Onward
  <2>2. f.home => a.air["player"] # 0 \/ a.air["enemy"] # 0
    BY <1>2, <2>1 DEF Found
  <2> QED BY <2>1, <2>2, HomeLastIs
<1> HIDE DEF b
<1>6. Onward(b, c, <<>>, 0, 0)
  <2>1. Going(b, <<>>, 0, 0) /\ b.air = h.air
    BY <1>4, <1>5 DEF Onward
  <2>2. f.players \subseteq Players /\ (f.players # {} => b.air["enemy"] # 0)
    BY <1>2, <2>1 DEF Found
  <2> QED BY <2>1, <2>2, PlayersLastIs
<1> HIDE DEF c
<1>7. Onward(c, k, <<>>, 0, 0)
  <2>1. Going(c, <<>>, 0, 0) /\ c.air = h.air
    BY <1>4, <1>5, <1>6 DEF Onward
  <2>2. f.enemies \subseteq Nodes /\ (f.drop = "no" \/ c.air["player"] # 0)
    BY <1>2, <2>1 DEF Found
  <2> QED BY <1>3, <2>1, <2>2, EnemiesLastIs
<1> QED BY <1>4, <1>5, <1>6, <1>7 DEF Onward

\* A frame leaves the menu, the stage, or the next one.
LEMMA PlayedIs ==
  ASSUME NEW h, Going(h, <<>>, 0, 0), NEW f \in Finds(h), NEW tick \in BOOLEAN,
         NEW k, k = Played(h, f, tick)
  PROVE  Went(h.stage, k, 0)
<1> DEFINE a == lastFrame(h, f)
           b == onTimer(a)
           c == onEnemyAdd(b, f.place)
           m == IF tick THEN c ELSE a
           e == Shots(m, tick)
<1>1. k = Destroyed(e)
  BY DEF Played
<1>2. Onward(h, a, <<>>, 0, 0)
  BY LastFrameIs
<1> HIDE DEF a
<1> DEFINE st == h.stage
<1>3. Going(a, <<>>, 0, 0) /\ a.stage = st
  BY <1>2 DEF Onward
<1> HIDE DEF st
<1>4. Went(st, a, 0)
  BY <1>3 DEF Went
<1>5. \E s : DueOK(s) /\ Outcome(a, b, s, Len(s))
  BY <1>3, TimerDone
<1> HIDE DEF b
<1>6. Went(st, b, 1)
  BY <1>3, <1>5, DueDone
<1>7. Went(st, c, 1)
  BY <1>6, EnemyAdds
<1> HIDE DEF c
<1>8. Went(st, e, 0)
  <2>1. CASE tick = TRUE
    <3>1. e = Shots(c, tick)
      BY <2>1
    <3> HIDE DEF e
    <3>2. 1 \in {0, 1}
      OBVIOUS
    <3> QED BY <1>7, <2>1, <3>1, <3>2, ShotsKeep
  <2>2. CASE tick = FALSE
    <3>1. e = Shots(a, tick)
      BY <2>2
    <3> HIDE DEF e
    <3>2. 0 \in {0, 1} /\ 0 # 1
      OBVIOUS
    <3> QED BY <1>4, <3>1, <3>2, ShotsKeep
  <2> QED BY <2>1, <2>2
<1> HIDE DEF e
<1>9. Went(st, k, 0)
  BY <1>1, <1>8, PageGone
<1> QED BY <1>9 DEF st

-----------------------------------------------------------------------------
(* The steps *)

\* What a stage that has just begun has left of the last one.
Clean(u) ==
    \A x \in DOMAIN u :
        \/ u[x].kind = "shieldEnd"
        \/ u[x].kind \in {"start", "playerBorn"} /\ u[x].left = u[x].time

\* Nothing but the pause is different.
LEMMA CalmIs ==
  ASSUME NEW h, NEW k, k = Calm(h), DOMAIN h = Fields \/ DOMAIN k = Fields
  PROVE  Only(h, k, {"pause"}) /\ k.pause = FALSE
<1>1. DOMAIN h = Fields
  BY DEF Calm
<1> QED BY <1>1 DEF Calm, Only, Fields

\* A game with the fields of another.
LEMMA MenuSame ==
  ASSUME NEW h, NEW k, Menu(h), Agree(h, k, Core \cup {"prop", "tasks"})
  PROVE  Menu(k)
<1>1. /\ k.page = "menu" /\ k.stage = 1 /\ k.pause = FALSE
      /\ k.running = FALSE /\ k.enemies = {} /\ k.kills = 0 /\ k.tasks = <<>>
  BY DEF Menu, Agree, Core
<1>2. k.data = FALSE
  BY DEF Menu, Agree, Core
<1> QED BY <1>1, <1>2 DEF Menu, Agree

\* The invariant is about its own part of the game.
LEMMA GameSame ==
  ASSUME NEW h, NEW k, GameOK(h, <<>>, 0, 0), Agree(h, k, Core \cup {"prop", "tasks"})
  PROVE  GameOK(k, <<>>, 0, 0)
<1>1. CASE Menu(h)
  BY <1>1, MenuSame DEF GameOK
<1>2. CASE Going(h, <<>>, 0, 0)
  BY <1>2, GoingSame DEF GameOK
<1> QED BY <1>1, <1>2 DEF GameOK

\* What a frame leaves, whatever key is pressed with it.
LEMMA WentOn ==
  ASSUME NEW st \in Nat \ {0}, NEW h, Went(st, h, 0), NEW k, Only(h, k, {"pressed"})
  PROVE  /\ GameOK(Calm(k), <<>>, 0, 0) /\ k.pause = FALSE
         /\ k.stage = st + 1 => Clean(k.tasks)
<1> DEFINE a == Calm(k)
<1>1. h.pause = FALSE /\ GameOK(h, <<>>, 0, 0)
  BY DEF Went, Menu, Going, Typed, GameOK
<1>2. k.pause = h.pause /\ k.tasks = h.tasks /\ k.stage = h.stage /\ DOMAIN k = Fields
  BY DEF Only, Fields
<1>3. Only(k, a, {"pause"}) /\ a.pause = h.pause
  BY <1>1, <1>2, CalmIs
<1> HIDE DEF a
<1>4. Agree(h, a, Core \cup {"prop", "tasks"})
  BY <1>3 DEF Only, Agree, Core, Fields
<1>5. GameOK(a, <<>>, 0, 0)
  BY <1>1, <1>4, GameSame
<1>6. ASSUME k.stage = st + 1 PROVE Clean(k.tasks)
  <2>1. ~Menu(h)
    BY <1>2, <1>6 DEF Menu
  <2>2. Going(h, <<>>, 0, 0) /\ h.stage = st + 1
    BY <1>2, <1>6, <2>1 DEF Went
  <2>3. st + 1 # st
    OBVIOUS
  <2>4. Starting(h.tasks)
    BY <2>1, <2>2, <2>3 DEF Went
  <2>5. \A x \in DOMAIN h.tasks : TaskOK(h.tasks[x])
    BY <2>2 DEF Going, Scheduled
  <2>6. ASSUME NEW t, TaskOK(t), t.kind \in {"start", "playerBorn"} PROVE t.left = t.time
    BY <2>6 DEF TaskOK, OneOf, Slow
  <2> QED BY <1>2, <2>4, <2>5, <2>6 DEF Starting, Clean
<1> QED BY <1>1, <1>2, <1>5, <1>6 DEF a

\* The start key and the pause.
LEMMA StartKey ==
  ASSUME NEW h, DOMAIN h = Fields, h.pause \in BOOLEAN, NEW k, k = onBtnStart(h)
  PROVE  Only(h, k, {"pause"}) /\ k.pause \in BOOLEAN
<1>1. k = [h EXCEPT !.pause = ~h.pause] \/ k = h
  BY DEF onBtnStart
<1>2. CASE k = h
  BY <1>2 DEF Only
<1>3. CASE k = [h EXCEPT !.pause = ~h.pause]
  <2>1. k.pause = ~h.pause
    BY <1>3 DEF Fields
  <2>2. k.pause \in BOOLEAN
    BY <2>1
  <2> QED BY <1>3, <2>2 DEF Only, Fields
<1> QED BY <1>1, <1>2, <1>3

\* A frame, after the start key: k is what it makes of h.
FrameOf(h, k, tick) ==
    IF h.pause = TRUE THEN k = h ELSE \E f \in Finds(h) : k = Played(h, f, tick)
NotPaused(h, x) == h.pause = FALSE => x.pause = FALSE

\* A frame and the count of keys after it keep the invariant, and do not pause the
\* game themselves.
LEMMA FrameIs ==
  ASSUME NEW e, GameOK(Calm(e), <<>>, 0, 0), e.page \in {"game", "success"},
         NEW h, Only(e, h, {"pause"}), h.pause \in BOOLEAN,
         NEW tick \in BOOLEAN, NEW k, FrameOf(h, k, tick),
         NEW n, NEW x, x = [k EXCEPT !.pressed = n]
  PROVE  /\ GameOK(Calm(x), <<>>, 0, 0) /\ x.pause \in BOOLEAN /\ Only(k, x, {"pressed"})
         /\ x.stage = e.stage + 1 => Clean(x.tasks)
         /\ NotPaused(h, x)
<1> DEFINE a == Calm(e)
           st == e.stage
<1>1. Only(e, a, {"pause"}) /\ a.pause = FALSE /\ DOMAIN e = Fields
  BY CalmIs DEF Only
<1>2. GameOK(a, <<>>, 0, 0)
  OBVIOUS
<1> HIDE DEF a
<1>3. a.page = e.page /\ a.stage = e.stage
  BY <1>1 DEF Only, Fields
<1>4. Going(a, <<>>, 0, 0) /\ st \in Nat \ {0}
  <2>1. ~Menu(a)
    BY <1>3 DEF Menu
  <2>2. Going(a, <<>>, 0, 0)
    BY <1>2, <2>1 DEF GameOK
  <2> QED BY <1>3, <2>2, GoingIs
<1>5. h.stage = st
  BY DEF Only, Fields
<1> HIDE DEF st
<1>6. CASE h.pause = TRUE
  <2>1. k = h
    BY <1>6 DEF FrameOf
  <2>9. Only(k, x, {"pressed"})
    BY <2>1 DEF Only, Fields
  <2>2. x.pause = h.pause /\ x.stage = st /\ DOMAIN x = Fields
    BY <1>5, <2>1, <2>9 DEF Only, Fields
  <2> DEFINE b == Calm(x)
  <2>3. Only(x, b, {"pause"}) /\ b.pause = FALSE
    BY <2>2, CalmIs
  <2>4. b = Calm(x)
    OBVIOUS
  <2> HIDE DEF b
  <2>5. b.pause = a.pause
    BY <1>1, <2>3
  <2>6. Agree(a, b, Core \cup {"prop", "tasks"})
    BY <1>1, <2>1, <2>3, <2>5, <2>9 DEF Only, Agree, Core, Fields
  <2>7. GameOK(b, <<>>, 0, 0)
    BY <1>2, <2>6, GameSame
  <2>8. x.stage # st + 1
    BY <1>4, <2>2
  <2> QED BY <1>6, <2>2, <2>4, <2>7, <2>8, <2>9 DEF st, NotPaused
<1>7. CASE h.pause # TRUE
  <2>1. h.pause = FALSE
    BY <1>7
  <2>2. PICK f \in Finds(h) : k = Played(h, f, tick)
    BY <1>7 DEF FrameOf
  <2>3. h.pause = a.pause
    BY <1>1, <2>1
  <2>4. Agree(a, h, Core \cup {"prop", "tasks"})
    BY <1>1, <2>3 DEF Only, Agree, Core, Fields
  <2>5. Going(h, <<>>, 0, 0)
    BY <1>4, <2>4, GoingSame
  <2>6. Went(st, k, 0)
    BY <1>5, <2>2, <2>5, PlayedIs
  <2>8. DOMAIN k = Fields
    BY <2>6 DEF Went, Menu, Going, Typed
  <2>9. Only(k, x, {"pressed"})
    BY <2>8 DEF Only, Fields
  <2>7. /\ GameOK(Calm(x), <<>>, 0, 0) /\ x.pause = FALSE
        /\ x.stage = st + 1 => Clean(x.tasks)
    BY <1>4, <2>6, <2>9, WentOn
  <2> QED BY <2>1, <2>7, <2>9 DEF st, NotPaused
<1> QED BY <1>6, <1>7

\* How a game begins.
LEMMA InitIs ==
  /\ DOMAIN InitGame = Fields /\ InitGame.page = "menu" /\ InitGame.gameOver = FALSE
  /\ InitGame.running = FALSE /\ InitGame.pause = FALSE /\ InitGame.panel = 0
  /\ InitGame.finishNum = [r \in 1..Rows |-> 0] /\ InitGame.enemies = {}
  /\ InitGame.pool = [i \in Nodes |-> i] /\ InitGame.tasks = <<>>
  /\ InitGame.live = [p \in Players |-> TRUE] /\ InitGame.lifeNum = [p \in Players |-> Lives]
  /\ InitGame.stage = 1
<1> DEFINE a == [
    page |-> "menu", stage |-> 1, running |-> FALSE, gameOver |-> FALSE,
    enable |-> FALSE, pause |-> FALSE, complete |-> FALSE, endSent |-> FALSE,
    live |-> <<>>, lifeNum |-> <<>>, level |-> <<>>,
    totalScore |-> 0, kills |-> 0, propNum |-> 0,
    tank |-> [p \in Players |-> "none"], shield |-> [p \in Players |-> FALSE],
    data |-> FALSE, pool |-> [i \in Nodes |-> i], enemies |-> {}, borning |-> {},
    home |-> TRUE, prop |-> "none", created |-> 0,
    buff |-> {}, staticTime |-> 0, protectTime |-> 0,
    panel |-> 0, finishNum |-> [r \in 1..Rows |-> 0],
    air |-> [player |-> 0, enemy |-> 0],
    tasks |-> <<>>, pressed |-> 0]
           l == [p \in Players |-> TRUE]
           m == [p \in Players |-> Lives]
<1>1. DOMAIN a = Fields
  BY DEF Fields
<1>2. /\ a.page = "menu" /\ a.gameOver = FALSE /\ a.running = FALSE /\ a.pause = FALSE
      /\ a.panel = 0 /\ a.finishNum = [r \in 1..Rows |-> 0] /\ a.enemies = {}
      /\ a.pool = [i \in Nodes |-> i] /\ a.tasks = <<>> /\ a.stage = 1
  OBVIOUS
<1>3. InitGame = resetPlayerGameInfo(a)
  BY DEF InitGame
<1> HIDE DEF a
<1> DEFINE z == [p \in Players |-> 1]
<1>4. InitGame = [a EXCEPT !.totalScore = 0, !.live = l, !.lifeNum = m, !.level = z,
                           !.kills = 0, !.propNum = 0]
  BY <1>3 DEF resetPlayerGameInfo, resetPlayerStageData
<1> HIDE DEF l, m, z
<1>5. /\ Only(a, InitGame, {"totalScore", "live", "lifeNum", "level", "kills", "propNum"})
      /\ InitGame.live = l /\ InitGame.lifeNum = m
  BY <1>1, <1>4 DEF Only, Fields
<1> QED BY <1>2, <1>5 DEF l, m, Only, Fields

\* The first stage begins.
Entered == [InitGame EXCEPT !.page = "game"]

\* When it does, nothing is scheduled, nobody shoots and every player lives.
LEMMA EnteredIs == Vacant(Entered, <<>>, 0)
<1> DEFINE h == Entered
<1>1. Only(InitGame, h, {"page"}) /\ h.page = "game"
  BY InitIs DEF Entered, Only, Fields
<1> HIDE DEF h
<1>2. /\ DOMAIN h = Fields /\ h.gameOver = FALSE
      /\ h.running = FALSE /\ h.pause = FALSE /\ h.panel = 0
      /\ h.finishNum = [r \in 1..Rows |-> 0] /\ h.enemies = {}
      /\ h.pool = [i \in Nodes |-> i] /\ h.tasks = <<>>
  BY <1>1, InitIs DEF Only, Fields
<1>3. h.live = [p \in Players |-> TRUE] /\ h.lifeNum = [p \in Players |-> Lives]
  BY <1>1, InitIs DEF Only, Fields
<1>4. Lives \in Nat /\ EnemyMaxAlive \in Nat
  BY StageAssumption
<1>5. h.pool \in Seq(Nodes)
  <2>1. h.pool \in [1..EnemyMaxAlive -> Nodes]
    BY <1>2 DEF Nodes
  <2> QED BY <1>4, <2>1
<1>6. Scheduled(h)
  <2>1. <<>> \in Seq(Tasks) /\ DOMAIN (<<>>) = {}
    OBVIOUS
  <2>2. Most(<<>>, 0, On("propGone"), 0)
    BY NoneEmpty
  <2>3. h.tasks \in Seq(Tasks) /\ \A x \in DOMAIN h.tasks : TaskOK(h.tasks[x])
    BY <1>2, <2>1
  <2>4. Most(h.tasks, 0, On("propGone"), 0)
    BY <1>2, <2>2
  <2> QED BY <2>3, <2>4 DEF Scheduled
<1>7. \A c : None(h, <<>>, 0, c)
  BY <1>2, NoneEmpty DEF None
<1>8. h.live \in [Players -> BOOLEAN] /\ \A p \in Players : h.live[p] = TRUE
  BY <1>3
<1>9. h.lifeNum \in [Players -> Nat]
  BY <1>3, <1>4
<1>10. \E p \in Players : h.live[p] = TRUE
  <2>1. 0 \in Players
    BY DEF Players
  <2> QED BY <1>8, <2>1
<1>11. h.panel \in Nat /\ h.finishNum \in [1..Rows -> Nat] /\ h.enemies \subseteq Nodes
  BY <1>2
<1>12. Vacant(h, <<>>, 0)
  BY <1>1, <1>2, <1>5, <1>6, <1>7, <1>8, <1>9, <1>10, <1>11 DEF Vacant
<1> QED BY <1>12 DEF h

\* What it begins with, whatever the mode.
First == startGameStage(Entered, 1)
StartsOK == GameOK(Calm(First), <<>>, 0, 0) /\ First.pause = FALSE /\ First.stage = 1

\* The first stage satisfies the invariant.
LEMMA Starts == StartsOK
<1> DEFINE k == First
<1>1. Going(k, <<>>, 0, 0) /\ k.stage = 1
  <2>1. 1 \in Nat \ {0}
    OBVIOUS
  <2> QED BY <2>1, EnteredIs, Begins DEF First
<1> HIDE DEF k
<1>2. k.pause = FALSE /\ DOMAIN k = Fields
  BY <1>1 DEF Going, Typed
<1> DEFINE a == Calm(k)
<1>3. Only(k, a, {"pause"}) /\ a.pause = k.pause
  BY <1>2, CalmIs
<1> HIDE DEF a
<1>4. Agree(k, a, Core \cup {"prop", "tasks"})
  BY <1>3 DEF Only, Agree, Core, Fields
<1>5. GameOK(a, <<>>, 0, 0)
  BY <1>1, <1>4, GameSame DEF GameOK
<1> QED BY <1>1, <1>2, <1>5 DEF StartsOK, k, a

\* The same in the next state: the first stage depends on constants only.
LEMMA StartsNext == StartsOK'
BY Starts, PTL

\* The invariant speaks of the players only, so it holds with the same mode.
LEMMA SameMode ==
  ASSUME mode' = mode
  PROVE  \A h : GameOK(h, <<>>, 0, 0)' <=> GameOK(h, <<>>, 0, 0)
<1>1. Players' = Players /\ PlayerSeq' = PlayerSeq
  BY DEF Players, PlayerSeq
<1>2. \A t : OneOf(t)' <=> OneOf(t)
  BY <1>1 DEF OneOf
<1>3. \A c, p : By(c, p)' = By(c, p)
  BY <1>1 DEF By
<1>4. \A t : TaskOK(t)' <=> TaskOK(t)
  BY <1>2 DEF TaskOK
<1>5. \A h : Scheduled(h)' <=> Scheduled(h)
  BY <1>4 DEF Scheduled
<1>6. \A h, p : PlayerOK(h, <<>>, 0, p)' <=> PlayerOK(h, <<>>, 0, p)
  BY <1>3 DEF PlayerOK
<1>7. \A h : PlayersOK(h, <<>>, 0)' <=> PlayersOK(h, <<>>, 0)
  BY <1>1, <1>6 DEF PlayersOK
<1>8. Seats' = Seats
  BY <1>1 DEF Seats
<1>9. \A h, r : RowsLeft(h, r)' = RowsLeft(h, r)
  BY <1>8 DEF RowsLeft
<1>10. \A h, d, r : NewRow(h, <<>>, 0, d, r)' <=> NewRow(h, <<>>, 0, d, r)
  BY <1>8 DEF NewRow
<1>11. \A h, r : OldRow(h, <<>>, 0, r)' <=> OldRow(h, <<>>, 0, r)
  BY <1>8, <1>9 DEF OldRow
<1>12. \A h, d : Course(h, <<>>, 0, d)' <=> Course(h, <<>>, 0, d)
  BY <1>10, <1>11 DEF Course
<1>13. \A h, d : Phase(h, <<>>, 0, d)' <=> Phase(h, <<>>, 0, d)
  BY <1>12 DEF Phase
<1>14. \A h, d : Going(h, <<>>, 0, d)' <=> Going(h, <<>>, 0, d)
  BY <1>5, <1>7, <1>13 DEF Going
<1> QED BY <1>14 DEF GameOK

\* The menu again.
LEMMA BackInMenu == GameOK(Calm(InitGame), <<>>, 0, 0) /\ InitGame.pause = FALSE /\ InitGame.stage = 1
<1> DEFINE k == InitGame
           a == Calm(k)
<1>1. Menu(k)
  BY MenuIs
<1>2. k.pause = FALSE /\ k.stage = 1 /\ DOMAIN k = Fields
  BY <1>1 DEF Menu
<1> HIDE DEF k
<1>3. Only(k, a, {"pause"}) /\ a.pause = k.pause
  BY <1>2, CalmIs
<1> HIDE DEF a
<1>4. Agree(k, a, Core \cup {"prop", "tasks"})
  BY <1>3 DEF Only, Agree, Core, Fields
<1>5. GameOK(a, <<>>, 0, 0)
  BY <1>1, <1>4, GameSame DEF GameOK
<1> QED BY <1>2, <1>5 DEF k, a

\* A game that was won is closed with nothing left to do.
LEMMA SuccessClosed ==
  ASSUME NEW h, GameOK(h, <<>>, 0, 0), h.page = "success", NEW k, k.tasks = <<>>,
         Agree(h, k, Fields \ {"complete", "tasks"})
  PROVE  GameOK(k, <<>>, 0, 0)
<1>1. Going(h, <<>>, 0, 0)
  BY DEF GameOK, Menu
<1>2. Typed(k)
  BY <1>1 DEF Typed, Agree, Fields, Going
<1>3. Budget(k)
  BY <1>1 DEF Budget, Agree, Fields, Going
<1>4. Scheduled(k)
  <2>1. <<>> \in Seq(Tasks) /\ DOMAIN (<<>>) = {}
    OBVIOUS
  <2>2. Most(<<>>, 0, On("propGone"), 0)
    BY NoneEmpty
  <2>3. k.tasks \in Seq(Tasks) /\ \A x \in DOMAIN k.tasks : TaskOK(k.tasks[x])
    BY <2>1
  <2>4. Most(k.tasks, 0, On("propGone"), 0)
    BY <2>2
  <2> QED BY <2>3, <2>4 DEF Scheduled
<1>5. k.page = "success" /\ k.stage = h.stage
  BY DEF Agree, Fields
<1>6. None(k, <<>>, 0, On("start"))
  BY NoneEmpty DEF None
<1>7. Final(k, <<>>, 0)
  BY <1>1, <1>5, <1>6 DEF Final, Going, Phase
<1> QED BY <1>2, <1>3, <1>4, <1>5, <1>7 DEF Going, Phase, GameOK

\* The stage of a game.
LEMMA StageOf ==
  ASSUME IInv
  PROVE  /\ DOMAIN g = Fields /\ g.stage \in Nat \ {0}
         /\ g.page = "menu" => g.stage = 1
<1> DEFINE a == Calm(g)
<1>1. GameOK(a, <<>>, 0, 0) /\ a = Calm(g)
  BY DEF IInv
<1> HIDE DEF a
<1>2. DOMAIN a = Fields /\ a.stage \in Nat \ {0} /\ (a.page = "menu" => a.stage = 1)
  <2>1. CASE Menu(a)
    BY <2>1 DEF Menu
  <2>2. CASE Going(a, <<>>, 0, 0)
    BY <2>2, GoingIs
  <2> QED BY <1>1, <2>1, <2>2 DEF GameOK
<1>3. Only(g, a, {"pause"})
  BY <1>1, <1>2, CalmIs
<1> QED BY <1>2, <1>3 DEF Only, Fields

\* What a step makes of the game: nothing of the last stage is left in a new one.
Stepped == /\ mode' = mode /\ g'.pause \in BOOLEAN /\ GameOK(Calm(g'), <<>>, 0, 0)
           /\ g'.stage = g.stage + 1 => Clean(g'.tasks)

\* A frame, taken apart.
Keyed(o, e) == IF o THEN onBtnStart(e) ELSE e
FoundIn(h) == IF h.pause THEN {Nothing} ELSE Finds(h)
Made(h, f, tick) == IF h.pause THEN h ELSE Played(h, f, tick)
PressedIn(k, press) == IF startCode(k, press) THEN k.pressed + 1 ELSE k.pressed

\* A frame is the key, what is found, what is played and what is pressed next.
LEMMA FrameParts ==
  ASSUME NEW tick, Frame(tick), NEW h, h = Keyed(Head(ops), g)
  PROVE  /\ g.page \in {"game", "success"} /\ mode' = mode
         /\ \E f \in FoundIn(h), press \in BOOLEAN :
               /\ g' = [Made(h, f, tick) EXCEPT !.pressed = PressedIn(Made(h, f, tick), press)]
               /\ ops' = Append(Tail(ops), startCode(Made(h, f, tick), press))
<1>1. \E f \in FoundIn(h), press \in BOOLEAN :
          /\ g.page \in {"game", "success"} /\ mode' = mode
          /\ g' = [Made(h, f, tick) EXCEPT !.pressed = PressedIn(Made(h, f, tick), press)]
          /\ ops' = Append(Tail(ops), startCode(Made(h, f, tick), press))
  BY Zenon DEF Frame, Keyed, FoundIn, Made, PressedIn
<1> QED BY <1>1

\* The key before a frame.
LEMMA KeyedIs ==
  ASSUME NEW e, DOMAIN e = Fields, e.pause \in BOOLEAN, NEW o, NEW h, h = Keyed(o, e)
  PROVE  Only(e, h, {"pause"}) /\ h.pause \in BOOLEAN /\ (h = e \/ h = onBtnStart(e))
<1>1. h = e \/ h = onBtnStart(e)
  BY DEF Keyed
<1>2. CASE h = e
  BY <1>2 DEF Only
<1>3. CASE h = onBtnStart(e)
  BY <1>3, StartKey
<1> QED BY <1>1, <1>2, <1>3

\* What a frame makes of the game.
LEMMA MadeIs ==
  ASSUME NEW h, h.pause \in BOOLEAN, NEW f \in FoundIn(h), NEW tick, NEW k, k = Made(h, f, tick)
  PROVE  FrameOf(h, k, tick)
<1>1. CASE h.pause = TRUE
  <2>1. k = h
    BY <1>1 DEF Made
  <2> QED BY <1>1, <2>1 DEF FrameOf
<1>2. CASE h.pause = FALSE
  <2>1. f \in Finds(h) /\ k = Played(h, f, tick)
    BY <1>2 DEF FoundIn, Made
  <2> QED BY <1>2, <2>1 DEF FrameOf
<1> QED BY <1>1, <1>2

\* A frame.
LEMMA FrameSteps ==
  ASSUME IInv, NEW tick \in BOOLEAN, Frame(tick)
  PROVE  Stepped
<1> DEFINE h == Keyed(Head(ops), g)
           y == g
           x == g'
<1>1. h = Keyed(Head(ops), g)
  OBVIOUS
<1>2. DOMAIN y = Fields /\ y.pause \in BOOLEAN /\ GameOK(Calm(y), <<>>, 0, 0)
  BY StageOf DEF IInv
<1>3. h = Keyed(Head(ops), y)
  OBVIOUS
<1> HIDE DEF h
<1>4. /\ y.page \in {"game", "success"} /\ mode' = mode
      /\ \E f \in FoundIn(h), press \in BOOLEAN :
            x = [Made(h, f, tick) EXCEPT !.pressed = PressedIn(Made(h, f, tick), press)]
  BY <1>1, FrameParts
<1> HIDE DEF x, y
<1>5. Only(y, h, {"pause"}) /\ h.pause \in BOOLEAN
  BY <1>2, <1>3, KeyedIs
<1>6. PICK f \in FoundIn(h), press \in BOOLEAN :
         x = [Made(h, f, tick) EXCEPT !.pressed = PressedIn(Made(h, f, tick), press)]
  BY <1>4
<1> DEFINE k == Made(h, f, tick)
           n == PressedIn(k, press)
<1>7. x = [k EXCEPT !.pressed = n]
  BY <1>6
<1>8. FrameOf(h, k, tick)
  <2>1. k = Made(h, f, tick)
    OBVIOUS
  <2> HIDE DEF k
  <2> QED BY <1>5, <2>1, MadeIs
<1> HIDE DEF k, n
<1>9. /\ GameOK(Calm(x), <<>>, 0, 0) /\ x.pause \in BOOLEAN
      /\ x.stage = y.stage + 1 => Clean(x.tasks)
  <2>1. GameOK(Calm(y), <<>>, 0, 0)
    BY <1>2
  <2>2. y.page \in {"game", "success"}
    BY <1>4
  <2>3. h.pause \in BOOLEAN
    BY <1>5
  <2>4. Only(y, h, {"pause"})
    BY <1>5
  <2> QED BY <1>7, <1>8, <2>1, <2>2, <2>3, <2>4, FrameIs
<1> QED BY <1>4, <1>9 DEF Stepped, x, y

\* Back to the menu.
LEMMA MenuSteps ==
  ASSUME IInv, g' = InitGame, mode' = mode
  PROVE  Stepped
<1>1. GameOK(Calm(g'), <<>>, 0, 0) /\ g'.pause = FALSE /\ g'.stage = 1
  BY BackInMenu
<1>2. g.stage \in Nat \ {0}
  BY StageOf
<1>3. g'.stage # g.stage + 1
  BY <1>1, <1>2
<1> QED BY <1>1, <1>3 DEF Stepped

\* The end of a game on the server.
LEMMA EndSteps ==
  ASSUME IInv, NtfGameEnd
  PROVE  Stepped
<1>1. CASE g.page # "success"
  BY <1>1, MenuSteps DEF NtfGameEnd, goToMainMenu
<1>2. CASE g.page = "success"
  <2>1. g' = [g EXCEPT !.complete = TRUE, !.tasks = <<>>] /\ mode' = mode
    BY <1>2 DEF NtfGameEnd
  <2>2. DOMAIN g = Fields /\ g.stage \in Nat /\ g.pause \in BOOLEAN
    BY StageOf DEF IInv
  <2> DEFINE a == Calm(g)
             b == Calm(g')
  <2>3. Only(g, g', {"complete", "tasks"}) /\ g'.tasks = <<>>
    BY <2>1, <2>2 DEF Only, Fields
  <2>4. Only(g, a, {"pause"}) /\ a.pause = FALSE /\ GameOK(a, <<>>, 0, 0)
    BY <2>2, CalmIs DEF IInv
  <2>5. Only(g', b, {"pause"}) /\ b.pause = FALSE
    <3>1. DOMAIN g' = Fields
      BY <2>3 DEF Only
    <3> QED BY <3>1, CalmIs
  <2>6. b = Calm(g')
    OBVIOUS
  <2> HIDE DEF a, b
  <2>7. b.pause = a.pause
    BY <2>4, <2>5
  <2>8. Agree(a, b, Fields \ {"complete", "tasks"})
    BY <2>3, <2>4, <2>5, <2>7 DEF Only, Agree, Fields
  <2>9. a.page = "success" /\ b.tasks = <<>> /\ g'.stage = g.stage /\ g'.pause = g.pause
    BY <1>2, <2>3, <2>4, <2>5 DEF Only, Fields
  <2>10. GameOK(b, <<>>, 0, 0)
    BY <2>4, <2>8, <2>9, SuccessClosed
  <2>11. g'.stage # g.stage + 1
    BY <2>2, <2>9
  <2> QED BY <2>1, <2>2, <2>6, <2>9, <2>10, <2>11 DEF Stepped
<1> QED BY <1>1, <1>2

\* A step with the same mode keeps the invariant.
LEMMA SteppedKeeps ==
  ASSUME Stepped
  PROVE  IInv' /\ (g'.stage = g.stage + 1 => Clean(g'.tasks))
<1>1. GameOK(Calm(g'), <<>>, 0, 0) /\ mode' = mode /\ g'.pause \in BOOLEAN
  BY DEF Stepped
<1>2. Calm(g)' = Calm(g')
  BY DEF Calm
<1>3. GameOK(Calm(g), <<>>, 0, 0)'
  BY <1>1, <1>2, SameMode
<1> QED BY <1>1, <1>3 DEF IInv, Stepped

\* A new game, in any mode.
LEMMA StartSteps ==
  ASSUME IInv, StartGame
  PROVE  IInv' /\ (g'.stage = g.stage + 1 => Clean(g'.tasks))
<1>1. g' = First' /\ g.page = "menu"
  BY DEF StartGame, First, Entered
<1>2. StartsOK'
  BY StartsNext
<1>3. GameOK(Calm(First), <<>>, 0, 0)' /\ First'.pause = FALSE /\ First'.stage = 1
  BY <1>2 DEF StartsOK
<1>4. Calm(g)' = Calm(First)'
  BY <1>1 DEF Calm
<1>5. GameOK(Calm(g), <<>>, 0, 0)'
  BY <1>3, <1>4
<1>6. g.stage = 1 /\ g'.stage = 1 /\ g'.pause = FALSE
  BY <1>1, <1>3, StageOf
<1>7. g'.stage # g.stage + 1
  BY <1>6
<1> QED BY <1>5, <1>6, <1>7 DEF IInv

\* Every step keeps the invariant, and leaves a new stage nothing of the last.
LEMMA Steps ==
  ASSUME IInv, [Next]_vars
  PROVE  IInv' /\ (g'.stage = g.stage + 1 => Clean(g'.tasks))
<1>1. CASE StartGame
  BY <1>1, StartSteps
<1>2. CASE SameStep
  <2>1. Frame(FALSE) /\ FALSE \in BOOLEAN
    BY <1>2, Zenon DEF SameStep
  <2>2. Stepped
    BY <2>1, FrameSteps, Zenon
  <2> QED BY <2>2, SteppedKeeps
<1>3. CASE NextStep
  <2>1. Frame(TRUE) /\ TRUE \in BOOLEAN
    BY <1>3, Zenon DEF NextStep
  <2>2. Stepped
    BY <2>1, FrameSteps, Zenon
  <2> QED BY <2>2, SteppedKeeps
<1>4. CASE NtfGameEnd
  BY <1>4, EndSteps, SteppedKeeps
<1>5. CASE Leave
  <2>1. g' = InitGame /\ mode' = mode
    BY <1>5 DEF Leave, goToMainMenu
  <2> QED BY <2>1, MenuSteps, SteppedKeeps
<1>6. CASE UNCHANGED vars
  <2>1. mode' = mode /\ g' = g
    BY <1>6 DEF vars
  <2>2. GameOK(Calm(g'), <<>>, 0, 0) /\ Calm(g)' = Calm(g')
    BY <2>1 DEF IInv, Calm
  <2>3. GameOK(Calm(g), <<>>, 0, 0)'
    BY <2>1, <2>2, SameMode
  <2>4. g'.stage # g.stage + 1
    BY <2>1, StageOf
  <2> QED BY <2>1, <2>3, <2>4 DEF IInv
<1> QED BY <1>1, <1>2, <1>3, <1>4, <1>5, <1>6 DEF Next

\* It holds at the beginning.
LEMMA InitInv == Init => IInv
BY BackInMenu DEF Init, IInv

\* The invariant of a game: its stage is prepared, runs, is won or is shown to
\* its end, and what is scheduled is what this calls for.
THEOREM StageInvariant == Spec => []IInv
<1>1. IInv /\ [Next]_vars => IInv'
  BY Steps
<1> QED BY <1>1, InitInv, PTL DEF Spec

\* No more enemies than the stage has, however many a bomb destroys at once.
THEOREM StageBudget == Spec => []EnemyBudget
<1>1. IInv => EnemyBudget
  <2> SUFFICES ASSUME IInv PROVE EnemyBudget
    OBVIOUS
  <2> DEFINE a == Calm(g)
  <2>1. Only(g, a, {"pause"}) /\ GameOK(a, <<>>, 0, 0)
    BY StageOf, CalmIs DEF IInv
  <2> HIDE DEF a
  <2>2. a.kills = g.kills /\ a.enemies = g.enemies
    BY <2>1 DEF Only, Fields
  <2>3. CASE Menu(a)
    <3>1. g.kills = 0 /\ Cardinality(g.enemies) = 0
      BY <2>2, <2>3, FS_EmptySet DEF Menu
    <3> QED BY <3>1, StageAssumption DEF EnemyBudget, getEnemyDeadTotalNum, getEnemyAliveNum
  <2>4. CASE Going(a, <<>>, 0, 0)
    BY <2>2, <2>4 DEF Going, Budget, EnemyBudget, getEnemyDeadTotalNum, getEnemyAliveNum
  <2> QED BY <2>1, <2>3, <2>4 DEF GameOK
<1> QED BY <1>1, StageInvariant, PTL

\* A game nobody is left in is over.
THEOREM StageNobodyLeft == Spec => []NobodyLeftEndsGame
<1>1. IInv => NobodyLeftEndsGame
  <2> SUFFICES ASSUME IInv, g.page = "game", g.gameOver # TRUE
               PROVE  \E p \in Players :
                         \/ g.live[p] /\ g.tank[p] # "none"
                         \/ \E i \in DOMAIN g.tasks :
                               g.tasks[i].kind = "revive" /\ g.tasks[i].arg = p
    BY DEF NobodyLeftEndsGame
  <2> DEFINE a == Calm(g)
  <2>1. Only(g, a, {"pause"}) /\ GameOK(a, <<>>, 0, 0)
    BY StageOf, CalmIs DEF IInv
  <2> HIDE DEF a
  <2>2. /\ a.page = g.page /\ a.gameOver = g.gameOver /\ a.live = g.live /\ a.tank = g.tank
        /\ a.tasks = g.tasks
    BY <2>1 DEF Only, Fields
  <2>3. Going(a, <<>>, 0, 0)
    BY <2>1, <2>2 DEF GameOK, Menu
  <2>4. PlayersOK(a, <<>>, 0) /\ a.gameOver \in BOOLEAN /\ Scheduled(a)
    BY <2>2, <2>3 DEF Going, Typed
  <2>5. a.gameOver = FALSE
    BY <2>2, <2>4
  <2>6. PICK p \in Players : a.live[p] = TRUE \/ a.lifeNum[p] > 0
    BY <2>4, <2>5 DEF PlayersOK
  <2>7. PlayerOK(a, <<>>, 0, p) /\ a.live[p] \in BOOLEAN
    BY <2>4 DEF PlayersOK
  <2>8. CASE a.live[p] = TRUE
    <3>1. a.tank[p] # "none"
      BY <2>7, <2>8 DEF PlayerOK
    <3> QED BY <2>2, <2>8, <3>1
  <2>9. CASE a.live[p] = FALSE
    <3>1. ~None(a, <<>>, 0, By("revive", p))
      BY <2>6, <2>7, <2>9 DEF PlayerOK
    <3>2. ~Most(a.tasks, 0, By("revive", p), 0)
      BY <3>1, NoneEmpty DEF None
    <3>3. PICK i \in DOMAIN a.tasks : Like(a.tasks[i], By("revive", p))
      BY <2>4, <3>2, SomeIn DEF Scheduled
    <3>4. a.tasks[i].kind = "revive" /\ a.tasks[i].arg \notin Players \ {p}
      BY <3>3 DEF Like, By
    <3>5. a.tasks[i].arg \in Players
      BY <2>4, <3>4 DEF Scheduled, TaskOK, OneOf
    <3> QED BY <2>2, <3>4, <3>5
  <2> QED BY <2>7, <2>8, <2>9
<1> QED BY <1>1, StageInvariant, PTL

\* When a stage begins, nothing is scheduled that could change its course.
THEOREM StageClean == Spec => StageStartsClean
<1>1. IInv /\ [Next]_vars =>
         [(g'.stage = g.stage + 1) =>
            \A i \in DOMAIN g'.tasks :
                \/ g'.tasks[i].kind = "shieldEnd"
                \/ g'.tasks[i].kind \in {"start", "playerBorn"}
                   /\ g'.tasks[i].left = g'.tasks[i].time]_vars
  BY Steps DEF Clean
<1> QED BY <1>1, StageInvariant, PTL DEF Spec, StageStartsClean

-----------------------------------------------------------------------------
(* The pause *)

\* A key takes effect with the next frame, so while a start key is on its way
\* the controls are not taken away.
PInv ==
    /\ Len(ops) = 1 /\ ops \in Seq(BOOLEAN)
    /\ g.pause => g.enable
    /\ (ops[1] /\ g.page # "menu") => g.enable

\* The list of the keys, one frame long.
LEMMA OneKey ==
  ASSUME NEW S, NEW o, o \in Seq(S), Len(o) = 1, NEW b \in S, NEW n, n = Append(Tail(o), b)
  PROVE  n \in Seq(S) /\ Len(n) = 1 /\ n[1] = b /\ Head(o) = o[1] /\ o[1] \in S
<1>1. o # <<>>
  BY EmptySeq
<1> DEFINE u == Tail(o)
<1>2. u \in Seq(S) /\ Len(u) = 0 /\ Head(o) = o[1] /\ o[1] \in S
  BY <1>1, HeadTailProperties
<1>3. n = Append(u, b)
  OBVIOUS
<1> HIDE DEF u
<1>4. Append(u, b) \in Seq(S) /\ Len(Append(u, b)) = Len(u) + 1 /\ Append(u, b)[Len(u) + 1] = b
  BY <1>2, AppendProperties
<1>5. Len(u) + 1 = 1
  BY <1>2
<1> QED BY <1>2, <1>3, <1>4, <1>5

\* A frame keeps it.
LEMMA FramePauses ==
  ASSUME IInv, PInv, NEW tick \in BOOLEAN, Frame(tick)
  PROVE  PInv'
<1> DEFINE h == Keyed(Head(ops), g)
           y == g
           x == g'
<1>1. h = Keyed(Head(ops), g) /\ h = Keyed(Head(ops), y)
  OBVIOUS
<1>2. DOMAIN y = Fields /\ y.pause \in BOOLEAN /\ GameOK(Calm(y), <<>>, 0, 0)
  BY StageOf DEF IInv
<1>3. /\ ops \in Seq(BOOLEAN) /\ Len(ops) = 1
      /\ y.pause => y.enable
      /\ (ops[1] /\ y.page # "menu") => y.enable
  BY Zenon DEF PInv
<1> HIDE DEF h
<1>4. /\ y.page \in {"game", "success"}
      /\ \E f \in FoundIn(h), press \in BOOLEAN :
            /\ x = [Made(h, f, tick) EXCEPT !.pressed = PressedIn(Made(h, f, tick), press)]
            /\ ops' = Append(Tail(ops), startCode(Made(h, f, tick), press))
  BY <1>1, FrameParts
<1> HIDE DEF x, y
<1>5. Only(y, h, {"pause"}) /\ h.pause \in BOOLEAN /\ (h = y \/ h = onBtnStart(y))
  BY <1>1, <1>2, KeyedIs
<1>6. PICK f \in FoundIn(h), press \in BOOLEAN :
         /\ x = [Made(h, f, tick) EXCEPT !.pressed = PressedIn(Made(h, f, tick), press)]
         /\ ops' = Append(Tail(ops), startCode(Made(h, f, tick), press))
  BY <1>4
<1> DEFINE k == Made(h, f, tick)
           n == PressedIn(k, press)
           b == startCode(k, press)
<1>7. x = [k EXCEPT !.pressed = n]
  BY <1>6
<1>16. ops' = Append(Tail(ops), b)
  BY <1>6
<1>8. FrameOf(h, k, tick)
  <2>1. k = Made(h, f, tick)
    OBVIOUS
  <2> HIDE DEF k
  <2>2. h.pause \in BOOLEAN
    BY <1>5
  <2> QED BY <2>1, <2>2, MadeIs
<1>9. b \in BOOLEAN /\ (b => k.enable)
  BY DEF startCode
<1> HIDE DEF k, n, b
<1>10. Only(k, x, {"pressed"}) /\ (h.pause = FALSE => x.pause = FALSE)
  <2>1. GameOK(Calm(y), <<>>, 0, 0)
    BY <1>2
  <2>2. y.page \in {"game", "success"}
    BY <1>4
  <2>3. h.pause \in BOOLEAN
    BY <1>5
  <2>4. Only(y, h, {"pause"})
    BY <1>5
  <2>5. /\ GameOK(Calm(x), <<>>, 0, 0) /\ x.pause \in BOOLEAN /\ Only(k, x, {"pressed"})
        /\ x.stage = y.stage + 1 => Clean(x.tasks)
        /\ NotPaused(h, x)
    BY <1>7, <1>8, <2>1, <2>2, <2>3, <2>4, FrameIs
  <2> QED BY <2>5 DEF NotPaused
<1>11. ops' \in Seq(BOOLEAN) /\ Len(ops') = 1 /\ ops'[1] = b /\ Head(ops) = ops[1]
  BY <1>3, <1>9, <1>16, OneKey
<1>12. x.enable = k.enable /\ x.pause = k.pause /\ h.enable = y.enable
  BY <1>5, <1>10 DEF Only, Fields
<1>13. ops'[1] => x.enable
  BY <1>9, <1>11, <1>12
<1>14. h.pause => h.enable
  <2>1. CASE Head(ops)
    <3>1. y.enable
      <4>1. y.page # "menu"
        BY <1>4
      <4>2. ops[1]
        BY <1>11, <2>1, Zenon
      <4> QED BY <1>3, <4>1, <4>2, Zenon
    <3> QED BY <1>12, <3>1, Zenon
  <2>2. CASE ~Head(ops)
    <3>1. h = y
      BY <1>1, <2>2, Zenon DEF Keyed
    <3> QED BY <1>3, <3>1, Zenon
  <2> QED BY <2>1, <2>2, Zenon
<1>15. x.pause => x.enable
  <2>1. CASE h.pause = FALSE
    BY <1>10, <2>1
  <2>2. CASE h.pause = TRUE
    <3>1. k = h
      BY <1>8, <2>2 DEF FrameOf
    <3> QED BY <1>12, <1>14, <2>2, <3>1, Zenon
  <2> QED BY <1>5, <2>1, <2>2
<1> QED BY <1>11, <1>13, <1>15 DEF PInv, x

\* No key is on its way when a game begins.
LEMMA NoKeys ==
  ASSUME Lag = 1, NEW o, o = [i \in 1..Lag |-> FALSE]
  PROVE  Len(o) = 1 /\ o \in Seq(BOOLEAN) /\ ~o[1]
<1>1. o \in [1..1 -> BOOLEAN] /\ o[1] = FALSE
  OBVIOUS
<1>2. o \in Seq(BOOLEAN) /\ Len(o) = 1
  BY <1>1
<1> QED BY <1>1, <1>2

\* A game that is not paused, with no key on its way or in the menu.
LEMMA Unpaused ==
  ASSUME g'.pause = FALSE, Len(ops') = 1, ops' \in Seq(BOOLEAN), ~ops'[1] \/ g'.page = "menu"
  PROVE  PInv'
BY Zenon DEF PInv

\* Every other step keeps it.
LEMMA PauseSteps ==
  ASSUME Lag = 1, IInv, PInv, [Next]_vars
  PROVE  PInv'
<1>1. CASE StartGame
  <2>1. g' = First' /\ ops' = [i \in 1..Lag |-> FALSE]
    BY <1>1 DEF StartGame, First, Entered
  <2>2. First'.pause = FALSE
    BY StartsNext DEF StartsOK
  <2>3. Len(ops') = 1 /\ ops' \in Seq(BOOLEAN) /\ ~ops'[1]
    BY <2>1, NoKeys
  <2> QED BY <2>1, <2>2, <2>3, Unpaused
<1>2. CASE SameStep
  <2>1. Frame(FALSE) /\ FALSE \in BOOLEAN
    BY <1>2, Zenon DEF SameStep
  <2> QED BY <2>1, FramePauses, Zenon
<1>3. CASE NextStep
  <2>1. Frame(TRUE) /\ TRUE \in BOOLEAN
    BY <1>3, Zenon DEF NextStep
  <2> QED BY <2>1, FramePauses, Zenon
<1>4. CASE g' = InitGame /\ ops' = ops
  <2>1. Len(ops') = 1 /\ ops' \in Seq(BOOLEAN)
    BY <1>4 DEF PInv
  <2>2. g'.pause = FALSE /\ g'.page = "menu"
    BY <1>4, InitIs
  <2> QED BY <2>1, <2>2, Unpaused
<1>5. CASE Leave
  BY <1>4, <1>5 DEF Leave, goToMainMenu
<1>6. CASE NtfGameEnd
  <2>1. CASE g.page # "success"
    BY <1>4, <1>6, <2>1 DEF NtfGameEnd, goToMainMenu
  <2>2. CASE g.page = "success"
    <3>1. g' = [g EXCEPT !.complete = TRUE, !.tasks = <<>>] /\ ops' = ops
      BY <1>6, <2>2 DEF NtfGameEnd
    <3>2. DOMAIN g = Fields
      BY StageOf
    <3>3. g'.pause = g.pause /\ g'.enable = g.enable /\ g'.page = g.page
      BY <3>1, <3>2 DEF Fields
    <3> QED BY <3>1, <3>3, Zenon DEF PInv
  <2> QED BY <2>1, <2>2
<1>7. CASE UNCHANGED vars
  <2>1. g' = g /\ ops' = ops
    BY <1>7 DEF vars
  <2> QED BY <2>1, Zenon DEF PInv
<1> QED BY <1>1, <1>2, <1>3, <1>5, <1>6, <1>7 DEF Next

\* A paused game can be resumed, provided every key takes effect with the frame
\* after its capture: the controls are then not taken away between the two.
\* With two frames from a key to its effect TLC shows a game that stays paused.
THEOREM StagePause == ASSUME Lag = 1 PROVE Spec => []PauseCanEnd
<1>1. Init => PInv
  <2> SUFFICES ASSUME Init PROVE PInv
    OBVIOUS
  <2>1. Len(ops) = 1 /\ ops \in Seq(BOOLEAN) /\ ~ops[1]
    BY NoKeys DEF Init
  <2>2. g.pause = FALSE
    BY InitIs DEF Init
  <2> QED BY <2>1, <2>2, Zenon DEF PInv
<1>2. IInv /\ PInv /\ [Next]_vars => PInv'
  BY PauseSteps
<1>3. PInv => PauseCanEnd
  BY Zenon DEF PInv, PauseCanEnd
<1> QED BY <1>1, <1>2, <1>3, StageInvariant, PTL DEF Spec
=============================================================================
