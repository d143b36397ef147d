--------------------------- MODULE MapEditProofs ---------------------------
(* For every size of the field, every map and every place that GameDef may   *)
(* name: the map keeps the home base and the places to come to life free.    *)
(* For every set of direction keys and every order of keys, dialogs, frames  *)
(* and games: no key is held that the game would not hear the release of.    *)
(* And however far behind each client is: both are on one run.               *)
EXTENDS MapEdit, TLAPS, SequenceTheorems

ClientFields == {"mode", "phase", "stage", "enable", "map", "custom", "saved",
                 "pos", "type", "units", "ope", "time"}

\* A record with the fields of NewClient, whatever they hold.
IsClient(c) == DOMAIN c = ClientFields /\ c = [f \in DOMAIN c |-> c[f]]

HomeFree(map) == \A s \in Sceneries : map[s] # NULL => ~isHomeBasePosition(s)
BornFree(map) == \A s \in Sceneries : map[s] # NULL => s \notin BornSceneries

MapOK(c) == HomeFree(c.map) /\ (c.mode = "common" => BornFree(c.map))
\* The players operate while a stage runs.
Runs(c) == c.enable <=> c.phase = "run"
ClientOK(c) == MapOK(c) /\ Runs(c)

(* What the game holds of the host's keys: a key counts as held in its own   *)
(* part only, and while the players operate the game waits for its release. *)
Infos == [Parts -> [status : KeySet \cup {None}, record : KeySet \cup {None}]]
Keyboards == [pressed : SUBSET KeySet, seen : SUBSET KeySet, top : BOOLEAN, info : Infos]
InItsPart(k) == \A p \in Parts : k.info[p].status # None => Part(k.info[p].status) = p
Awaited(k) == \A p \in Parts : k.info[p].status # None => k.info[p].status \in k.seen
KeyboardOK(k) == k \in Keyboards /\ InItsPart(k)

IInv ==
    /\ client = [u \in Players |-> client[u]]
    /\ \A u \in Players : IsClient(client[u]) /\ ClientOK(client[u])
    /\ KeyboardOK(keyboard)
    /\ client[Host].enable => Awaited(keyboard)

\* The client d has the map and the mode of c, and is where c is in the stage.
Keeps(c, d) ==
    /\ IsClient(d) /\ d.map = c.map /\ d.mode = c.mode
    /\ d.phase = c.phase /\ d.enable = c.enable

------------------------------------------------------------------------------
(* Maps *)

\* Nothing stands on an empty map.
LEMMA EmptyIsFree == HomeFree(EmptyMap) /\ BornFree(EmptyMap)
  BY DEF HomeFree, BornFree, EmptyMap

\* What is built beside the home base and the born places leaves them free.
LEMMA BuildBeside ==
  ASSUME NEW map, NEW type, NEW places
  PROVE  /\ HomeFree(map) /\ (\A s \in places : ~isHomeBasePosition(s))
              => HomeFree(createSceneries(map, type, places))
         /\ BornFree(map) /\ places \intersect BornSceneries = {}
              => BornFree(createSceneries(map, type, places))
  BY DEF HomeFree, BornFree, createSceneries

\* What is cleared is free, and what was free stays so.
LEMMA Cleared ==
  ASSUME NEW map
  PROVE  HomeFree(checkBornPlace(checkHomeBase(map))) /\ BornFree(checkBornPlace(checkHomeBase(map)))
<1>1. \A s \in Sceneries : isValidSceneryPos(s)
  BY FieldAssumption DEF Sceneries, isValidSceneryPos
<1>2. HomeFree(checkHomeBase(map))
  BY <1>1 DEF HomeFree, checkHomeBase, destroySceneryAround, createSceneries, isHomeBasePosition
<1>3. \A m : HomeFree(m) => HomeFree(checkBornPlace(m))
  BY DEF HomeFree, checkBornPlace, createSceneries
<1>4. \A m : BornFree(checkBornPlace(m))
  BY <1>1 DEF BornFree, checkBornPlace, createSceneries
<1> QED BY <1>2, <1>3, <1>4

\* The spade builds round the home base, not in it.
LEMMA AroundIsBeside == \A s \in AroundHome : ~isHomeBasePosition(s)
<1> DEFINE h == getHomeBaseSceneryPosition
<1>1. h[1] \in Int /\ h[2] \in Int
  BY PlacesAssumption DEF getHomeBaseSceneryPosition, matrixToSceneryPosition
<1> HIDE DEF h
<1>2. ASSUME NEW i \in Int, NEW j \in Int, i \in {-1, 2} \/ j = 2
      PROVE  Beside(h, i, j) \notin {Beside(h, k, l) : k \in 0..1, l \in 0..1}
  BY <1>1, <1>2 DEF Beside
<1>3. getRectContainPosArray(h, 2, 2) = {Beside(h, k, l) : k \in 0..1, l \in 0..1}
  BY DEF getRectContainPosArray
<1>4. ASSUME NEW s \in AroundHome
      PROVE  \E i \in Int, j \in Int : (i \in {-1, 2} \/ j = 2) /\ s = Beside(h, i, j)
  BY <1>4 DEF AroundHome, h
<1> QED BY <1>2, <1>3, <1>4 DEF isHomeBasePosition, h
------------------------------------------------------------------------------
(* A client *)

\* A client begins with an empty map and waits.
LEMMA NewClientOK ==
  ASSUME NEW m, NEW saved, NEW custom
  PROVE  LET c == NewClient(m, saved, custom) IN IsClient(c) /\ ClientOK(c)
<1> DEFINE c == NewClient(m, saved, custom)
<1>1. IsClient(c)
  BY Zenon DEF IsClient, NewClient, ClientFields
<1>2. c.map = EmptyMap /\ Runs(c)
  BY DEF NewClient, Runs
<1> HIDE DEF c
<1> QED BY <1>1, <1>2, EmptyIsFree DEF ClientOK, MapOK, c

\* Who keeps its map, its mode and its phase is in order.
LEMMA KeepsOK ==
  ASSUME NEW c, NEW d, Keeps(c, d), ClientOK(c)
  PROVE  IsClient(d) /\ ClientOK(d)
  BY DEF Keeps, ClientOK, MapOK, Runs

\* The fields that neither the map nor the phase is in.
LEMMA FieldKeeps ==
  ASSUME NEW c, IsClient(c), NEW v
  PROVE  /\ Keeps(c, c)
         /\ Keeps(c, [c EXCEPT !.pos = v])
         /\ Keeps(c, [c EXCEPT !.type = v])
         /\ Keeps(c, [c EXCEPT !.units = v])
         /\ Keeps(c, [c EXCEPT !.time = v])
         /\ Keeps(c, [c EXCEPT !.saved = v])
         /\ Keeps(c, [c EXCEPT !.custom = v])
         /\ Keeps(c, [c EXCEPT !.ope = v])
<1> USE DEF Keeps, IsClient, ClientFields
<1>1. Keeps(c, c)
  OBVIOUS
<1>2. Keeps(c, [c EXCEPT !.pos = v])
  BY Zenon
<1>3. Keeps(c, [c EXCEPT !.type = v])
  BY Zenon
<1>4. Keeps(c, [c EXCEPT !.units = v])
  BY Zenon
<1>5. Keeps(c, [c EXCEPT !.time = v])
  BY Zenon
<1>6. Keeps(c, [c EXCEPT !.saved = v])
  BY Zenon
<1>7. Keeps(c, [c EXCEPT !.custom = v])
  BY Zenon
<1>8. Keeps(c, [c EXCEPT !.ope = v])
  BY Zenon
<1> HIDE DEF Keeps, IsClient, ClientFields
<1> QED BY <1>1, <1>2, <1>3, <1>4, <1>5, <1>6, <1>7, <1>8

\* The map is a field of its own.
LEMMA MapField ==
  ASSUME NEW c, IsClient(c), NEW map
  PROVE  LET d == [c EXCEPT !.map = map]
         IN  /\ IsClient(d) /\ d.map = map /\ d.mode = c.mode
             /\ d.phase = c.phase /\ d.enable = c.enable
  BY Zenon DEF IsClient, ClientFields

\* A change of phase, with what it makes of the players' keys.
Phased(c, v, w) == [c EXCEPT !.phase = v, !.enable = w]

\* The phase and the right to operate change together.
LEMMA PhaseFields ==
  ASSUME NEW c, IsClient(c), NEW v, NEW w
  PROVE  LET d == Phased(c, v, w)
         IN  /\ IsClient(d) /\ d.map = c.map /\ d.mode = c.mode
             /\ d.phase = v /\ d.enable = w
<1> DEFINE p == [c EXCEPT !.phase = v]
<1>1. IsClient(p) /\ p.map = c.map /\ p.mode = c.mode /\ p.phase = v
  BY Zenon DEF IsClient, ClientFields
<1> HIDE DEF p
<1>2. LET d == [p EXCEPT !.enable = w]
      IN  /\ IsClient(d) /\ d.map = p.map /\ d.mode = p.mode
          /\ d.phase = p.phase /\ d.enable = w
  BY <1>1, Zenon DEF IsClient, ClientFields
<1> QED BY <1>1, <1>2 DEF p, Phased

\* So is the number of the stage.
LEMMA StageField ==
  ASSUME NEW c, IsClient(c), NEW v
  PROVE  LET d == [c EXCEPT !.stage = v]
         IN  IsClient(d) /\ d.map = c.map /\ d.mode = c.mode
  BY Zenon DEF IsClient, ClientFields

\* What is remembered of one key.
LEMMA OpeKeeps ==
  ASSUME NEW c, IsClient(c), NEW part, NEW v
  PROVE  Keeps(c, [c EXCEPT !.ope[part] = v])
<1>1. [c EXCEPT !.ope[part] = v] = [c EXCEPT !.ope = [c.ope EXCEPT ![part] = v]]
  OBVIOUS
<1> QED BY <1>1, FieldKeeps, Zenon

\* Two steps that keep map, mode and phase.
LEMMA KeepsTwice ==
  ASSUME NEW c, NEW d, NEW e, Keeps(c, d), Keeps(d, e)
  PROVE  Keeps(c, e)
  BY DEF Keeps

\* One step after another in the EXCEPTs of the helpers.
LEMMA HeardKeeps ==
  ASSUME NEW c, IsClient(c), NEW ope, NEW part
  PROVE  Keeps(c, Heard(c, ope, part))
  BY OpeKeeps DEF Heard

\* The tank that edits moves on, and the map stays as it is.
LEMMA MoveTurnKeeps ==
  ASSUME NEW c, IsClient(c), NEW ope
  PROVE  Keeps(c, MoveTurn(c, ope))
<1> DEFINE h == Heard(c, ope, "DIRECTION")
<1>1. Keeps(c, h) /\ IsClient(h)
  BY HeardKeeps DEF Keeps
<1> HIDE DEF h
<1>2. ASSUME NEW diff
      PROVE  Keeps(h, moveBy(h, diff))
  BY <1>1, FieldKeeps DEF moveBy
<1>3. ASSUME NEW key
      PROVE  Keeps(h, onMapEditerMove(h, key))
  BY <1>2 DEF onMapEditerMove
<1> QED BY <1>1, <1>3, KeepsTwice DEF MoveTurn, h

\* A change of what is to be built next builds nothing yet.
LEMMA CancelTurnKeeps ==
  ASSUME NEW c, IsClient(c), NEW ope
  PROVE  Keeps(c, CancelTurn(c, ope))
<1> DEFINE h == Heard(c, ope, "CANCEL")
<1>1. Keeps(c, h) /\ IsClient(h)
  BY HeardKeeps DEF Keeps
<1> HIDE DEF h
<1>2. Keeps(h, changeSceneryType(h))
  <2> DEFINE next == NextType(h.type)
             t == [h EXCEPT !.type = next]
  <2>1. Keeps(h, t) /\ IsClient(t)
    BY <1>1, FieldKeeps DEF Keeps
  <2>2. changeSceneryType(h) = [t EXCEPT !.units = IF next = "WALL" THEN 0 ELSE @]
    BY DEF changeSceneryType
  <2> HIDE DEF t, next
  <2>3. Keeps(t, [t EXCEPT !.units = IF next = "WALL" THEN 0 ELSE @])
    BY <2>1, FieldKeeps
  <2> QED BY <2>1, <2>2, <2>3, KeepsTwice
<1>3. Keeps(h, changeEditMode(h))
  BY <1>1, <1>2, FieldKeeps DEF changeEditMode
<1> QED BY <1>1, <1>3, KeepsTwice DEF CancelTurn, h

\* The tank that edits builds nothing in the home base, and nobody comes to
\* life while a map is edited.
LEMMA OkTurnOK ==
  ASSUME NEW c, IsClient(c), ClientOK(c), isModeEditMap(c), NEW ope
  PROVE  LET d == OkTurn(c, ope) IN IsClient(d) /\ ClientOK(d)
<1> DEFINE h == Heard(c, ope, "OK")
<1>1. IsClient(h) /\ HomeFree(h.map) /\ h.mode = "edit" /\ Runs(h)
  BY HeardKeeps DEF Keeps, ClientOK, MapOK, Runs, isModeEditMap
<1>2. ClientOK(h)
  BY <1>1 DEF ClientOK, MapOK
<1> HIDE DEF h
<1>3. IsClient(updateSceneryMap(h)) /\ ClientOK(updateSceneryMap(h))
  <2>1. PICK type, places : updateSceneryMap(h) =
          [h EXCEPT !.map = evMapEditCreateScenery(h.map, type, places)]
    BY DEF updateSceneryMap
  <2> DEFINE map == evMapEditCreateScenery(h.map, type, places)
  <2>2. HomeFree(map)
    BY <1>1, BuildBeside DEF evMapEditCreateScenery
  <2>3. updateSceneryMap(h) = [h EXCEPT !.map = map]
    BY <2>1
  <2> HIDE DEF map
  <2> DEFINE e == [h EXCEPT !.map = map]
  <2>4. /\ IsClient(e) /\ e.map = map /\ e.mode = h.mode
        /\ e.phase = h.phase /\ e.enable = h.enable
    BY <1>1, MapField
  <2> HIDE DEF e
  <2>5. IsClient(e) /\ ClientOK(e)
    BY <1>1, <2>2, <2>4 DEF ClientOK, MapOK, Runs
  <2> QED BY <2>3, <2>5 DEF e
<1> QED BY <1>1, <1>2, <1>3 DEF OkTurn, h

\* The keys of one frame, each in its turn.
LEMMA onPlayerOperationOK ==
  ASSUME NEW c, IsClient(c), ClientOK(c), isModeEditMap(c), NEW ope
  PROVE  LET d == onPlayerOperation(c, ope) IN IsClient(d) /\ ClientOK(d)
<1> DEFINE m == MoveTurn(c, ope)
           k == OkTurn(m, ope)
<1>1. IsClient(m) /\ ClientOK(m) /\ isModeEditMap(m)
  BY MoveTurnKeeps, KeepsOK DEF Keeps, isModeEditMap
<1> HIDE DEF m
<1>2. IsClient(k) /\ ClientOK(k)
  BY <1>1, OkTurnOK
<1> HIDE DEF k
<1> QED BY <1>2, CancelTurnKeeps, KeepsOK DEF onPlayerOperation, m, k

\* A stage begins on a map that was cleared, wherever it comes from.
LEMMA startGameStageOK ==
  ASSUME NEW c, IsClient(c), NEW stage
  PROVE  LET d == startGameStage(c, stage) IN IsClient(d) /\ ClientOK(d)
<1> DEFINE f == Forgets(c)
           map == checkBornPlace(checkHomeBase(ChosenMap(c)))
           i == initGameMap(c)
           d == startGameStage(c, stage)
<1>1. IsClient(f)
  <2> DEFINE g == clearGameMapData(c)
  <2>1. IsClient(g)
    BY FieldKeeps DEF clearGameMapData, Keeps
  <2> HIDE DEF g
  <2>2. IsClient([g EXCEPT !.custom = FALSE])
    BY <2>1, FieldKeeps DEF Keeps
  <2> QED BY <2>2 DEF Forgets, g
<1>2. HomeFree(map) /\ BornFree(map)
  BY Cleared
<1>3. i = [f EXCEPT !.map = map]
  BY DEF initGameMap
<1> HIDE DEF f, map
<1>4. IsClient(i) /\ i.map = map /\ i.mode = f.mode
  BY <1>1, <1>3, MapField
<1> HIDE DEF i
<1>5. /\ IsClient(d) /\ d.map = map
      /\ d.phase = (IF isModeEditMap(c) THEN "run" ELSE "prepare")
      /\ d.enable = isModeEditMap(c)
  <2> DEFINE v == IF isModeEditMap(c) THEN "run" ELSE "prepare"
             w == isModeEditMap(c)
             x == [i EXCEPT !.stage = stage]
             y == Phased(x, v, w)
  <2>1. d = y
    BY DEF startGameStage, i, Phased
  <2>2. IsClient(x) /\ x.map = map
    BY <1>4, StageField
  <2> HIDE DEF x
  <2>3. IsClient(y) /\ y.map = x.map /\ y.phase = v /\ y.enable = w
    <3> HIDE DEF v, w
    <3> QED BY <2>2, PhaseFields
  <2> HIDE DEF y, d
  <2> QED BY <2>1, <2>2, <2>3
<1> HIDE DEF d
<1>6. MapOK(d)
  BY <1>2, <1>5 DEF MapOK
<1>7. Runs(d)
  BY <1>5 DEF Runs
<1> QED BY <1>5, <1>6, <1>7 DEF ClientOK, d

\* START saves the map and keeps it.
LEMMA onBtnStartOK ==
  ASSUME NEW c, IsClient(c), ClientOK(c), NEW u
  PROVE  LET d == onBtnStart(c, u) IN IsClient(d) /\ ClientOK(d)
<1> DEFINE g == clearGameMapData(c)
           e == evMapEditFinished(c)
           saved == [s \in Sceneries |-> IF c.map[s] # NULL THEN c.map[s] ELSE g.saved[s]]
<1>1. Keeps(c, g)
  BY FieldKeeps DEF clearGameMapData
<1>2. e = [g EXCEPT !.saved = saved]
  BY DEF evMapEditFinished
<1> HIDE DEF g, saved, e
<1>3. Keeps(g, e)
  BY <1>1, <1>2, FieldKeeps DEF Keeps
<1>4. Keeps(e, [e EXCEPT !.custom = TRUE])
  BY <1>3, FieldKeeps DEF Keeps
<1> QED BY <1>1, <1>3, <1>4, KeepsTwice, KeepsOK DEF onBtnStart, e

\* What happens in a game leaves the places free.
LEMMA onEventOK ==
  ASSUME NEW c, IsClient(c), ClientOK(c), NEW e
  PROVE  LET d == onEvent(c, e) IN IsClient(d) /\ ClientOK(d)
<1> DEFINE d == onEvent(c, e)
<1>1. ASSUME NEW type
      PROVE  LET k == [c EXCEPT !.map = createScenerysAroundHomeBase(c.map, type)]
             IN  IsClient(k) /\ ClientOK(k)
  <2> DEFINE map == createScenerysAroundHomeBase(c.map, type)
  <2>1. HomeFree(map) /\ (c.mode = "common" => BornFree(map))
    BY BuildBeside, AroundIsBeside, PlacesAssumption
    DEF ClientOK, MapOK, createScenerysAroundHomeBase
  <2> HIDE DEF map
  <2>2. LET k == [c EXCEPT !.map = map] IN IsClient(k) /\ ClientOK(k)
    BY <2>1, MapField DEF ClientOK, MapOK, Runs
  <2> QED BY <2>2 DEF map
<1>2. ASSUME NEW v, NEW w \in BOOLEAN, w <=> v = "run"
      PROVE  LET k == Phased(c, v, w) IN IsClient(k) /\ ClientOK(k)
  <2> DEFINE k == Phased(c, v, w)
  <2>1. /\ IsClient(k) /\ k.map = c.map /\ k.mode = c.mode
        /\ k.phase = v /\ k.enable = w
    BY PhaseFields
  <2> HIDE DEF k
  <2>2. MapOK(k)
    BY <2>1 DEF ClientOK, MapOK
  <2>3. Runs(k)
    BY <1>2, <2>1 DEF Runs
  <2> QED BY <2>1, <2>2, <2>3 DEF ClientOK, k
<1>3. CASE e = "start"
  BY <1>2, <1>3 DEF onEvent, Phased
<1>4. CASE e = "spade"
  BY <1>1, <1>4 DEF onEvent
<1>5. CASE e = "spade ends"
  BY <1>1, <1>5 DEF onEvent
<1>6. CASE e = "over"
  BY <1>2, <1>6 DEF onEvent, Phased
<1>7. CASE e = "end"
  BY <1>2, <1>7 DEF onEvent, Phased
<1>8. CASE e = "next"
  BY <1>8, startGameStageOK DEF onEvent
<1>9. CASE e \notin {"start", "spade", "spade ends", "over", "end", "next"}
  BY <1>9 DEF onEvent
<1> QED BY <1>3, <1>4, <1>5, <1>6, <1>7, <1>8, <1>9

\* One frame of a client, whatever it brings.
LEMMA onGameFrameOK ==
  ASSUME NEW c, IsClient(c), ClientOK(c), NEW u, NEW f
  PROVE  LET d == onGameFrame(c, u, f) IN IsClient(d) /\ ClientOK(d)
<1> DEFINE s == IF f.ope = NoOpe THEN c
                ELSE [c EXCEPT !.ope["START"] = effectInput(@, f.ope["START"], c.time)]
           t == [s EXCEPT !.time = @ + FrameTime]
           d == onGameFrame(c, u, f)
<1>1. Keeps(c, s)
  <2> DEFINE v == effectInput(c.ope["START"], f.ope["START"], c.time)
  <2>1. s = IF f.ope = NoOpe THEN c ELSE [c EXCEPT !.ope["START"] = v]
    OBVIOUS
  <2> HIDE DEF s, v
  <2> QED BY <2>1, OpeKeeps, FieldKeeps
<1> HIDE DEF s
<1>2. IsClient(s) /\ ClientOK(s)
  BY <1>1, KeepsOK
<1>3. CASE c.phase = "wait"
  BY <1>3, startGameStageOK DEF onGameFrame
<1>4. CASE c.phase # "wait" /\ StartsGame(c, f.ope)
  BY <1>2, <1>4, onBtnStartOK DEF onGameFrame, s
<1>5. CASE c.phase # "wait" /\ isModeEditMap(c) /\ ~StartsGame(c, f.ope)
  <2>1. d = IF f.ope = NoOpe THEN t ELSE onPlayerOperation(t, f.ope)
    BY <1>5 DEF onGameFrame, s
  <2>2. Keeps(s, t)
    BY <1>2, FieldKeeps
  <2> HIDE DEF t
  <2>3. IsClient(t) /\ ClientOK(t) /\ isModeEditMap(t)
    BY <1>1, <1>2, <1>5, <2>2, KeepsOK DEF Keeps, isModeEditMap
  <2> HIDE DEF d
  <2>4. IsClient(d) /\ ClientOK(d)
    BY <2>1, <2>3, onPlayerOperationOK
  <2> QED BY <2>4 DEF d
<1>6. CASE c.phase # "wait" /\ ~StartsGame(c, f.ope) /\ ~isModeEditMap(c)
  BY <1>6, onEventOK DEF onGameFrame
<1> QED BY <1>3, <1>4, <1>5, <1>6

------------------------------------------------------------------------------
(* The keyboard *)

\* A keyboard with nothing held.
LEMMA NewKeyboardOK ==
  ASSUME NEW pressed \in SUBSET KeySet
  PROVE  KeyboardOK(NewKeyboard(pressed)) /\ Awaited(NewKeyboard(pressed))
<1>1. NoKeys \in Infos /\ \A p \in Parts : NoKeys[p].status = None
  BY DEF NoKeys, NoKey, Infos
<1> DEFINE k == NewKeyboard(pressed)
<1>2. k \in Keyboards /\ k.info = NoKeys
  BY <1>1, Zenon DEF Keyboards, NewKeyboard
<1> HIDE DEF k
<1> QED BY <1>1, <1>2 DEF KeyboardOK, InItsPart, Awaited, k

\* The start and the end of a game let go of every key.
LEMMA ResetOK ==
  ASSUME NEW k, KeyboardOK(k)
  PROVE  KeyboardOK(evGameStartedOrEnded(k)) /\ Awaited(evGameStartedOrEnded(k))
<1>1. NoKeys \in Infos /\ \A p \in Parts : NoKeys[p].status = None
  BY DEF NoKeys, NoKey, Infos
<1> DEFINE r == evGameStartedOrEnded(k)
<1>2. r \in Keyboards /\ r.info = NoKeys
  BY <1>1 DEF KeyboardOK, Keyboards, evGameStartedOrEnded, resetKeyInfo
<1> HIDE DEF r
<1> QED BY <1>1, <1>2 DEF KeyboardOK, InItsPart, Awaited, r

\* A frame takes along what was hit, and leaves what is held.
LEMMA CaptureOK ==
  ASSUME NEW k, KeyboardOK(k), NEW enabled
  PROVE  LET r == evCaptureFrameOpe(k, enabled).keyboard
         IN  KeyboardOK(r) /\ (Awaited(k) => Awaited(r))
<1> DEFINE r == resetKeyInfoRecord(k)
           info == [p \in Parts |-> [k.info[p] EXCEPT !.record = None]]
<1>1. r = [k EXCEPT !.info = info]
  BY DEF resetKeyInfoRecord
<1>2. info \in Infos /\ \A p \in Parts : info[p].status = k.info[p].status
  BY DEF KeyboardOK, Keyboards, Infos
<1> HIDE DEF r, info
<1>3. r \in Keyboards /\ r.info = info /\ r.seen = k.seen
  BY <1>1, <1>2 DEF KeyboardOK, Keyboards
<1>4. evCaptureFrameOpe(k, enabled).keyboard = r
  BY DEF evCaptureFrameOpe, r
<1> QED BY <1>2, <1>3, <1>4 DEF KeyboardOK, InItsPart, Awaited

\* A key that goes down is held and awaited, or changes nothing of what is held.
LEMMA KeyDownOK ==
  ASSUME NEW k, KeyboardOK(k), NEW key \in KeySet, NEW enabled
  PROVE  LET r == onKeyDown(k, key, enabled)
         IN  KeyboardOK(r) /\ (Awaited(k) => Awaited(r))
<1> DEFINE seen == [k EXCEPT !.pressed = @ \cup {key}, !.seen = IF k.top THEN @ \cup {key} ELSE @]
           info == [k.info EXCEPT ![Part(key)] = [status |-> key, record |-> key]]
           r == onKeyDown(k, key, enabled)
<1>1. /\ seen \in Keyboards /\ seen.info = k.info /\ k.seen \subseteq seen.seen
      /\ k.top => key \in seen.seen
  BY DEF KeyboardOK, Keyboards
<1>2. r = seen \/ (k.top /\ r = [seen EXCEPT !.info = info])
  BY <1>1 DEF onKeyDown, Told, onKeyDownInfo
<1>3. Part(key) \in Parts
  BY DEF Parts
<1>4. /\ info \in Infos
      /\ \A p \in Parts : info[p].status =
            IF p = Part(key) THEN key ELSE k.info[p].status
  BY <1>3 DEF KeyboardOK, Keyboards, Infos
<1> HIDE DEF seen, info, r
<1>5. CASE r = seen
  BY <1>1, <1>5 DEF KeyboardOK, InItsPart, Awaited, r
<1>6. CASE k.top /\ r = [seen EXCEPT !.info = info]
  <2>1. r \in Keyboards /\ r.info = info /\ r.seen = seen.seen
    BY <1>1, <1>4, <1>6 DEF Keyboards
  <2> QED BY <1>1, <1>4, <1>6, <2>1 DEF KeyboardOK, InItsPart, Awaited, r
<1> QED BY <1>2, <1>5, <1>6

\* A key that goes up is no more held if the game stops to wait for it, as

\* long as the players operate.
LEMMA KeyUpOK ==
  ASSUME NEW k, KeyboardOK(k), NEW key \in KeySet, NEW enabled
  PROVE  LET r == onKeyUp(k, key, enabled)
         IN  KeyboardOK(r) /\ (enabled /\ Awaited(k) => Awaited(r))
<1> DEFINE seen == [k EXCEPT !.pressed = @ \ {key}, !.seen = IF k.top THEN @ \ {key} ELSE @]
           held == k.info[Part(key)]
           info == [k.info EXCEPT ![Part(key)] =
                        [held EXCEPT !.status = IF held.status = key THEN None ELSE held.status]]
           r == onKeyUp(k, key, enabled)
<1>1. /\ seen \in Keyboards /\ seen.info = k.info /\ k.seen \ {key} \subseteq seen.seen
      /\ ~k.top => seen.seen = k.seen
  BY DEF KeyboardOK, Keyboards
<1>2. r = IF k.top /\ Taken(key, enabled) THEN [seen EXCEPT !.info = info] ELSE seen
  BY <1>1 DEF onKeyUp, onKeyUpInfo
<1>3. Part(key) \in Parts
  BY DEF Parts
<1>4. /\ info \in Infos
      /\ \A p \in Parts : info[p].status =
            IF p = Part(key) /\ k.info[p].status = key THEN None ELSE k.info[p].status
  BY <1>3 DEF KeyboardOK, Keyboards, Infos
<1>5. k.top \/ ~k.top
  OBVIOUS
<1> HIDE DEF seen, info, r, held
<1>6. CASE k.top /\ Taken(key, enabled)
  <2>1. r \in Keyboards /\ r.info = info /\ r.seen = seen.seen
    BY <1>1, <1>2, <1>4, <1>6 DEF Keyboards
  <2>2. KeyboardOK(r)
    BY <1>4, <2>1 DEF KeyboardOK, InItsPart
  <2>3. ASSUME Awaited(k) PROVE Awaited(r)
    BY <1>1, <1>4, <2>1, <2>3 DEF KeyboardOK, InItsPart, Awaited
  <2> QED BY <2>2, <2>3 DEF r
<1>7. CASE ~(k.top /\ Taken(key, enabled))
  <2>1. r = seen
    BY <1>2, <1>7
  <2>2. enabled => ~k.top
    BY <1>7 DEF Taken
  <2> QED BY <1>1, <2>1, <2>2 DEF KeyboardOK, InItsPart, Awaited, r
<1> QED BY <1>6, <1>7

\* A dialog comes and goes.
LEMMA DialogOK ==
  ASSUME NEW k, KeyboardOK(k)
  PROVE  /\ KeyboardOK(addInputHierarchy(k)) /\ (Awaited(k) => Awaited(addInputHierarchy(k)))
         /\ KeyboardOK(removeInputHierarchy(k)) /\ (Awaited(k) => Awaited(removeInputHierarchy(k)))
  BY DEF KeyboardOK, Keyboards, InItsPart, Awaited, addInputHierarchy, removeInputHierarchy

------------------------------------------------------------------------------
(* The game *)

\* A game begins with a map in order and no key held.
LEMMA InitInv == Init => IInv
<1> SUFFICES ASSUME Init PROVE IInv
  OBVIOUS
<1> DEFINE saved(u) == IF mode = "common" /\ u \in Leftover
                       THEN createSceneries(EmptyMap, "STEEL", Sceneries) ELSE EmptyMap
           custom(u) == mode = "common" /\ u \in Leftover
<1>1. client = [u \in Players |-> NewClient(mode, saved(u), custom(u))]
  BY DEF Init
<1> HIDE DEF saved, custom
<1>2. KeyboardOK(keyboard) /\ Awaited(keyboard)
  BY NewKeyboardOK DEF Init
<1> QED BY <1>1, <1>2, NewClientOK DEF IInv

\* A step of one client: the keys of the host are in order if it is not his,

\* or if they are in order after it.
LEMMA ClientStep ==
  ASSUME IInv, NEW u \in Players, NEW d, IsClient(d), ClientOK(d),
         client' = [client EXCEPT ![u] = d],
         KeyboardOK(keyboard'),
         IF u = Host THEN d.enable => Awaited(keyboard') ELSE keyboard' = keyboard
  PROVE  IInv'
<1>1. /\ client' = [v \in Players |-> client'[v]]
      /\ \A v \in Players : client'[v] = IF v = u THEN d ELSE client[v]
  BY DEF IInv
<1>2. \A v \in Players : IsClient(client'[v]) /\ ClientOK(client'[v])
  BY <1>1 DEF IInv
<1>3. client'[Host] = IF u = Host THEN d ELSE client[Host]
  BY <1>1 DEF Players, Host
<1>4. client'[Host].enable => Awaited(keyboard')
  BY <1>3 DEF IInv
<1> QED BY <1>1, <1>2, <1>4 DEF IInv, KeyboardOK, InItsPart, Awaited

\* A step of the keyboard alone.
LEMMA KeyboardStep ==
  ASSUME IInv, client' = client, KeyboardOK(keyboard'),
         client[Host].enable /\ Awaited(keyboard) => Awaited(keyboard')
  PROVE  IInv'
  BY DEF IInv, KeyboardOK, InItsPart, Awaited

\* What a frame does to the client and the keyboard of who handles it.
LEMMA FrameInv ==
  ASSUME IInv, NEW u \in Players, Frame(u)
  PROVE  IInv'
<1> DEFINE c == client[u]
           d == onGameFrame(client[u], u, Head(queue[u]))
           k == IF c.phase # d.phase /\ d.phase \in {"run", "end", "lost"}
                THEN evGameStartedOrEnded(keyboard) ELSE keyboard
           e == evCaptureFrameOpe(k, d.enable).keyboard
<1>1. IsClient(d) /\ ClientOK(d)
  BY onGameFrameOK DEF IInv
<1>2. client' = [client EXCEPT ![u] = d]
  BY DEF Frame
<1>3. keyboard' = IF u = Host THEN e ELSE keyboard
  BY DEF Frame
<1>4. Runs(c) /\ Runs(d)
  BY <1>1 DEF IInv, ClientOK
<1> HIDE DEF d
<1>5. KeyboardOK(k) /\ (u = Host /\ d.enable => Awaited(k))
  <2>1. CASE c.phase # d.phase /\ d.phase \in {"run", "end", "lost"}
    BY <2>1, ResetOK DEF IInv
  <2>2. CASE ~(c.phase # d.phase /\ d.phase \in {"run", "end", "lost"})
    <3>1. d.enable => c.enable
      BY <1>4, <2>2 DEF Runs
    <3> QED BY <2>2, <3>1 DEF IInv
  <2> QED BY <2>1, <2>2
<1> HIDE DEF k
<1>6. KeyboardOK(e) /\ (Awaited(k) => Awaited(e))
  BY <1>5, CaptureOK
<1> HIDE DEF e
<1>7. KeyboardOK(keyboard')
  BY <1>3, <1>6 DEF IInv
<1>8. IF u = Host THEN d.enable => Awaited(keyboard') ELSE keyboard' = keyboard
  BY <1>3, <1>5, <1>6
<1> QED BY <1>1, <1>2, <1>7, <1>8, ClientStep

\* The new scene knows nothing of the keys.
LEMMA GameStartInv ==
  ASSUME IInv, NEW u \in Players, onNtfGameStart(u)
  PROVE  IInv'
<1> DEFINE d == NewClient("common", client[u].saved, client[u].custom)
           n == NewKeyboard(keyboard.pressed)
<1>1. client' = [client EXCEPT ![u] = d]
  BY DEF onNtfGameStart
<1>2. keyboard' = IF u = Host THEN n ELSE keyboard
  BY DEF onNtfGameStart
<1>3. IsClient(d) /\ ClientOK(d)
  BY NewClientOK
<1>4. keyboard.pressed \in SUBSET KeySet
  BY DEF IInv, KeyboardOK, Keyboards
<1>5. KeyboardOK(n) /\ Awaited(n)
  BY <1>4, NewKeyboardOK
<1> HIDE DEF d, n
<1>6. KeyboardOK(keyboard')
  BY <1>2, <1>5 DEF IInv
<1>7. IF u = Host THEN d.enable => Awaited(keyboard') ELSE keyboard' = keyboard
  BY <1>2, <1>5
<1> QED BY <1>1, <1>3, <1>6, <1>7, ClientStep

\* Every step keeps maps and keys in order.
LEMMA NextInv == IInv /\ [Next]_vars => IInv'
<1> SUFFICES ASSUME IInv, [Next]_vars PROVE IInv'
  OBVIOUS
<1>1. KeyboardOK(keyboard)
  BY DEF IInv
<1>2. ASSUME NEW u \in Players, Frame(u) \/ onNtfGameStart(u) PROVE IInv'
  BY <1>2, FrameInv, GameStartInv
<1>3. ASSUME NEW key \in KeySet, KeyDown(key) PROVE IInv'
  <2> DEFINE r == onKeyDown(keyboard, key, client[Host].enable)
  <2>1. client' = client /\ keyboard' = r
    BY <1>3 DEF KeyDown
  <2>2. KeyboardOK(r) /\ (Awaited(keyboard) => Awaited(r))
    BY <1>1, KeyDownOK
  <2> HIDE DEF r
  <2> QED BY <2>1, <2>2, KeyboardStep
<1>4. ASSUME NEW key \in KeySet, KeyUp(key) PROVE IInv'
  <2> DEFINE r == onKeyUp(keyboard, key, client[Host].enable)
  <2>1. client' = client /\ keyboard' = r
    BY <1>4 DEF KeyUp
  <2>2. KeyboardOK(r) /\ (client[Host].enable /\ Awaited(keyboard) => Awaited(r))
    BY <1>1, KeyUpOK
  <2> HIDE DEF r
  <2> QED BY <2>1, <2>2, KeyboardStep
<1>5. CASE showChooseDialog
  <2>1. client' = client /\ keyboard' = addInputHierarchy(keyboard)
    BY <1>5 DEF showChooseDialog
  <2> QED BY <1>1, <2>1, DialogOK, KeyboardStep
<1>6. CASE CloseDialog
  <2>1. client' = client /\ keyboard' = removeInputHierarchy(keyboard)
    BY <1>6 DEF CloseDialog
  <2> QED BY <1>1, <2>1, DialogOK, KeyboardStep
<1>7. CASE client' = client /\ keyboard' = keyboard
  BY <1>7 DEF IInv, KeyboardOK, InItsPart, Awaited
<1> QED
  BY <1>2, <1>3, <1>4, <1>5, <1>6, <1>7
  DEF Next, OnFrameTimer, OnGameMapEditFinished, vars

(* The inductive invariant holds throughout a game. *)
THEOREM Invariance == Spec => []IInv
  BY InitInv, NextInv, PTL DEF Spec

(* PlacesFree, of GameMapManger.ts:291 and 298: whatever the players edit,   *)
(* in whatever stage and after whatever props, nothing stands in the home    *)
(* base, and in a game nothing where tanks come to life.                     *)
THEOREM PlacesFreeThm == Spec => []PlacesFree
<1>1. IInv => PlacesFree
  BY DEF IInv, ClientOK, MapOK, HomeFree, BornFree, PlacesFree
<1> QED BY <1>1, Invariance, PTL

(* KeysCanBeReleased, of GameInputModel.ts:145-209: while the host operates, *)
(* a key that counts as held is one whose release the game waits for,        *)
(* whatever dialogs open and whatever games start and end in between.        *)
THEOREM KeysCanBeReleasedThm == Spec => []KeysCanBeReleased
<1>1. IInv => KeysCanBeReleased
  BY DEF IInv, Awaited, KeysCanBeReleased
<1> QED BY <1>1, Invariance, PTL

------------------------------------------------------------------------------
(* The same map *)

\* What a client makes of a message: the same, whoever it is.
Handle(c, m) == IF m = GameStart THEN NewClient("common", c.saved, c.custom)
                ELSE onGameFrame(c, Host, m)

MessagesOf(n, q) == {q[i] : i \in 1..n}

\* r is the rest of the log q of n messages after its j-th.
IsRest(r, n, q, j) == n \in Nat /\ j \in 0..n /\ r = [i \in 1..n - j |-> q[j + i]]

(* One run of states f over one log of n messages q, on which each client is *)
(* somewhere, with the rest of the log still to handle.                      *)
OnRun(n, q, f, k) ==
    /\ n \in Nat
    /\ \A i \in 1..n : f[i] = Handle(f[i - 1], q[i])
    /\ \A u \in Players :
          client[u] = f[k[u]] /\ IsRest(queue[u], n, q, k[u])

InStep ==
    /\ queue = [u \in Players |-> queue[u]]
    /\ \E n, q, f, k : OnRun(n, q, f, k)

\* A sequence is the function of its elements.
LEMMA SequenceIsFunction ==
  ASSUME NEW S, NEW s \in Seq(S)
  PROVE  s = [i \in 1..Len(s) |-> s[i]]
  OBVIOUS

\* How much is left of a log.
LEMMA RestLength ==
  ASSUME NEW n, NEW q, NEW j, NEW r, IsRest(r, n, q, j)
  PROVE  Len(r) = n - j /\ n \in Nat /\ j \in 0..n
<1> DEFINE k == n - j
           S == {q[i] : i \in 1..n}
<1>1. r = [i \in 1..k |-> q[j + i]] /\ j \in 0..n /\ n \in Nat
  BY DEF IsRest
<1>2. k \in Nat /\ \A i \in 1..k : q[j + i] \in S
  BY <1>1
<1> HIDE DEF k, S
<1>3. Len(r) = k
  BY <1>1, <1>2
<1> QED BY <1>1, <1>3 DEF k

\* The rest of a log is a sequence of its messages.
LEMMA RestIsSequence ==
  ASSUME NEW n, NEW q, NEW j, NEW r, IsRest(r, n, q, j)
  PROVE  r \in Seq(MessagesOf(n, q))
<1> DEFINE k == n - j
           S == MessagesOf(n, q)
<1>1. r = [i \in 1..k |-> q[j + i]] /\ j \in 0..n /\ n \in Nat
  BY DEF IsRest
<1>2. k \in Nat /\ \A i \in 1..k : q[j + i] \in S
  BY <1>1 DEF MessagesOf
<1> HIDE DEF k, S
<1>3. r \in Seq(S)
  BY <1>1, <1>2
<1> QED BY <1>3 DEF S

\* The next message, while there is one.
LEMMA RestHead ==
  ASSUME NEW n, NEW q, NEW j, NEW r, IsRest(r, n, q, j), r # <<>>
  PROVE  Head(r) = q[j + 1] /\ j + 1 \in 1..n
<1> DEFINE S == MessagesOf(n, q)
<1>1. r \in Seq(S) /\ Len(r) = n - j /\ n \in Nat /\ j \in 0..n
  BY RestIsSequence, RestLength
<1> HIDE DEF S
<1>2. Len(r) >= 1 /\ Head(r) = r[1]
  BY <1>1
<1>3. 1 \in 1..n - j /\ j + 1 \in 1..n
  BY <1>1, <1>2
<1>4. r[1] = q[j + 1]
  BY <1>3 DEF IsRest
<1> QED BY <1>2, <1>3, <1>4

\* What is left after the next message.
LEMMA RestTail ==
  ASSUME NEW n, NEW q, NEW j, NEW r, IsRest(r, n, q, j), r # <<>>
  PROVE  IsRest(Tail(r), n, q, j + 1)
<1> DEFINE S == MessagesOf(n, q)
           t == Tail(r)
           k == n - (j + 1)
<1>1. r \in Seq(S) /\ Len(r) = n - j /\ n \in Nat /\ j \in 0..n
  BY RestIsSequence, RestLength
<1> HIDE DEF S
<1>2. Len(r) >= 1 /\ t \in Seq(S) /\ Len(t) = Len(r) - 1
  BY <1>1, HeadTailProperties
<1>3. \A i \in 1..Len(r) - 1 : t[i] = r[i + 1]
  BY <1>1, <1>2
<1>4. Len(t) = k /\ Len(r) - 1 = k /\ j + 1 \in 0..n
  BY <1>1, <1>2
<1>5. \A i \in 1..k : t[i] = q[(j + 1) + i]
  <2> TAKE i \in 1..k
  <2>1. i + 1 \in 1..n - j /\ j + (i + 1) = (j + 1) + i
    BY <1>1
  <2>2. r[i + 1] = q[j + (i + 1)]
    BY <2>1 DEF IsRest
  <2> QED BY <1>3, <1>4, <2>1, <2>2
<1>6. t = [i \in 1..Len(t) |-> t[i]]
  BY <1>2, SequenceIsFunction
<1> HIDE DEF t
<1>7. t = [i \in 1..k |-> q[(j + 1) + i]]
  BY <1>4, <1>5, <1>6
<1> QED BY <1>1, <1>4, <1>7 DEF IsRest, k, t

\* A message more in the log is a message more that is left.
LEMMA RestAppend ==
  ASSUME NEW n, NEW q, NEW j, NEW r, IsRest(r, n, q, j), NEW p,
         \A i \in 1..n : p[i] = q[i]
  PROVE  IsRest(Append(r, p[n + 1]), n + 1, p, j)
<1> DEFINE m == p[n + 1]
           S == MessagesOf(n, q)
           T == S \cup {m}
           t == Append(r, m)
           k == n - j
<1>1. r \in Seq(S) /\ Len(r) = k /\ n \in Nat /\ j \in 0..n
  BY RestIsSequence, RestLength
<1>2. m \in T /\ S \subseteq T
  OBVIOUS
<1> HIDE DEF S, T, m
<1>3. r \in Seq(T)
  BY <1>1, <1>2
<1>4. t \in Seq(T) /\ Len(t) = k + 1 /\ t[k + 1] = m /\ \A i \in 1..k : t[i] = r[i]
  BY <1>1, <1>2, <1>3, AppendProperties
<1>5. (n + 1) - j = k + 1 /\ j \in 0..n + 1
  BY <1>1
<1>6. \A i \in 1..k + 1 : t[i] = p[j + i]
  <2> TAKE i \in 1..k + 1
  <2>1. CASE i = k + 1
    <3>1. j + i = n + 1
      BY <1>1, <2>1
    <3> QED BY <1>4, <2>1, <3>1 DEF m
  <2>2. CASE i # k + 1
    <3>1. i \in 1..k /\ j + i \in 1..n
      BY <1>1, <2>2
    <3>2. r[i] = q[j + i]
      BY <3>1 DEF IsRest
    <3> QED BY <1>4, <3>1, <3>2
  <2> QED BY <2>1, <2>2
<1>7. t = [i \in 1..Len(t) |-> t[i]]
  BY <1>4, SequenceIsFunction
<1> HIDE DEF t, k
<1>8. t = [i \in 1..k + 1 |-> p[j + i]]
  BY <1>4, <1>6, <1>7
<1> QED BY <1>1, <1>5, <1>8 DEF IsRest, t, m

\* Saving the map is not left to the host.
LEMMA SameFrame == ASSUME NEW c, NEW u, NEW m PROVE onGameFrame(c, u, m) = onGameFrame(c, Host, m)
  BY DEF onGameFrame, onBtnStart

\* Before the first message the clients have the same state.
LEMMA InitInStep == ASSUME 0 \in Leftover <=> 1 \in Leftover PROVE Init => InStep
<1> SUFFICES ASSUME Init PROVE InStep
  OBVIOUS
<1>1. client[0] = client[1]
  BY DEF Init, Players
<1>2. \A u \in Players : client[u] = client[0] /\ queue[u] = <<>>
  BY <1>1 DEF Init, Players
<1>3. OnRun(0, <<>>, [i \in {0} |-> client[0]], [u \in Players |-> 0])
  BY <1>2 DEF OnRun, IsRest
<1>4. queue = [u \in Players |-> queue[u]]
  BY DEF Init
<1> QED BY <1>3, <1>4 DEF InStep

\* A message to both makes the log longer.
LEMMA SendInStep ==
  ASSUME InStep, NEW m, Send(m), client' = client
  PROVE  InStep'
<1>1. PICK n, q, f, k : OnRun(n, q, f, k)
  BY DEF InStep
<1>0. n \in Nat
  BY <1>1 DEF OnRun
<1> DEFINE p == [i \in 1..n + 1 |-> IF i = n + 1 THEN m ELSE q[i]]
           g == [i \in 0..n + 1 |-> IF i = n + 1 THEN Handle(f[n], m) ELSE f[i]]
<1>2. \A i \in 1..n : p[i] = q[i] /\ g[i] = f[i] /\ g[i - 1] = f[i - 1]
  BY <1>0
<1>3. p[n + 1] = m /\ g[n + 1] = Handle(f[n], m) /\ \A i \in 0..n : g[i] = f[i]
  BY <1>0
<1> HIDE DEF p, g
<1>4. \A i \in 1..n + 1 : g[i] = Handle(g[i - 1], p[i])
  <2> TAKE i \in 1..n + 1
  <2>1. CASE i \in 1..n
    BY <1>1, <1>2, <2>1 DEF OnRun
  <2>2. CASE i = n + 1
    <3>1. i - 1 = n /\ n \in 0..n
      BY <1>0, <2>2
    <3> QED BY <1>3, <2>2, <3>1
  <2> QED BY <1>0, <2>1, <2>2
<1>5. ASSUME NEW u \in Players
      PROVE  client'[u] = g[k[u]] /\ IsRest(queue'[u], n + 1, p, k[u])
  <2>1. client[u] = f[k[u]] /\ IsRest(queue[u], n, q, k[u])
    BY <1>1 DEF OnRun
  <2>2. k[u] \in 0..n
    BY <2>1, RestLength
  <2>3. queue'[u] = Append(queue[u], p[n + 1])
    BY <1>3 DEF Send
  <2>4. \A i \in 1..n : p[i] = q[i]
    BY <1>2
  <2>5. IsRest(queue'[u], n + 1, p, k[u])
    BY <2>1, <2>3, <2>4, RestAppend
  <2> QED BY <1>3, <2>1, <2>2, <2>5
<1>6. OnRun(n + 1, p, g, k)'
  BY <1>0, <1>4, <1>5 DEF OnRun
<1>7. queue' = [u \in Players |-> queue'[u]]
  BY DEF Send
<1> QED BY <1>6, <1>7 DEF InStep

\* A client that handles a message goes on along the run.
LEMMA HandleInStep ==
  ASSUME InStep, IInv, NEW u \in Players, queue[u] # <<>>,
         client' = [client EXCEPT ![u] = Handle(@, Head(queue[u]))],
         queue' = [queue EXCEPT ![u] = Tail(@)]
  PROVE  InStep'
<1>1. PICK n, q, f, k : OnRun(n, q, f, k)
  BY DEF InStep
<1> DEFINE l == [v \in Players |-> IF v = u THEN k[u] + 1 ELSE k[v]]
           r == queue[u]
<1>2. client[u] = f[k[u]] /\ IsRest(r, n, q, k[u])
  BY <1>1 DEF OnRun
<1>3. /\ k[u] \in 0..n /\ k[u] + 1 \in 1..n /\ Head(r) = q[k[u] + 1]
      /\ IsRest(Tail(r), n, q, k[u] + 1)
  BY <1>2, RestLength, RestHead, RestTail
<1>4. f[k[u] + 1] = Handle(f[k[u]], Head(r))
  <2>1. (k[u] + 1) - 1 = k[u]
    BY <1>3
  <2> QED BY <1>1, <1>3, <2>1 DEF OnRun
<1> HIDE DEF r
<1>8. client'[u] = f[k[u] + 1] /\ queue'[u] = Tail(r)
  BY <1>2, <1>4 DEF IInv, InStep, r
<1>9. \A v \in Players \ {u} : client'[v] = client[v] /\ queue'[v] = queue[v]
  BY DEF IInv, InStep
<1>10. OnRun(n, q, f, l)'
  <2>1. \A v \in Players : client'[v] = f[l[v]] /\ IsRest(queue'[v], n, q, l[v])
    <3> TAKE v \in Players
    <3>1. CASE v = u
      BY <1>3, <1>8, <3>1
    <3>2. CASE v # u
      <4>1. l[v] = k[v]
        BY <3>2
      <4> HIDE DEF l
      <4> QED BY <1>1, <1>9, <3>2, <4>1 DEF OnRun
    <3> QED BY <3>1, <3>2
  <2> QED BY <1>1, <2>1 DEF OnRun
<1>11. queue' = [v \in Players |-> queue'[v]]
  BY DEF InStep
<1> QED BY <1>10, <1>11 DEF InStep

\* Every step keeps the clients on one run.
LEMMA NextInStep ==
  ASSUME Prompt, IInv, InStep, [Next]_vars
  PROVE  InStep'
<1>1. ASSUME NEW u \in Players, Frame(u) PROVE InStep'
  <2>1. /\ queue[u] # <<>> /\ Head(queue[u]) # GameStart
        /\ queue' = [queue EXCEPT ![u] = Tail(@)]
        /\ client' = [client EXCEPT ![u] = onGameFrame(client[u], u, Head(queue[u]))]
    BY <1>1 DEF Frame
  <2>2. client' = [client EXCEPT ![u] = Handle(@, Head(queue[u]))]
    BY <2>1, SameFrame DEF Handle
  <2> QED BY <2>1, <2>2, HandleInStep
<1>2. ASSUME NEW u \in Players, onNtfGameStart(u) PROVE InStep'
  <2>1. /\ 1 \in DOMAIN queue[u] /\ queue[u][1] = GameStart
        /\ queue' = [queue EXCEPT ![u] = SubSeq(@, 2, Len(@))]
        /\ client' = [client EXCEPT ![u] = NewClient("common", @.saved, @.custom)]
    BY <1>2 DEF onNtfGameStart
  <2>2. PICK n, q, f, k : OnRun(n, q, f, k)
    BY DEF InStep
  <2> DEFINE S == MessagesOf(n, q)
             r == queue[u]
  <2>3. IsRest(r, n, q, k[u])
    BY <2>2 DEF OnRun
  <2>4. r \in Seq(S)
    BY <2>3, RestIsSequence
  <2>5. r # <<>> /\ Head(r) = GameStart /\ SubSeq(r, 2, Len(r)) = Tail(r)
    BY <2>1, <2>4
  <2>6. client' = [client EXCEPT ![u] = Handle(@, Head(queue[u]))]
    BY <2>1, <2>5 DEF Handle
  <2> QED BY <2>1, <2>5, <2>6, HandleInStep
<1>3. ASSUME NEW e, OnFrameTimer(e) PROVE InStep'
  BY <1>3, SendInStep DEF OnFrameTimer
<1>4. ASSUME UNCHANGED <<client, queue>> PROVE InStep'
  BY <1>4 DEF InStep, OnRun
<1>5. CASE OnGameMapEditFinished
  BY <1>4, <1>5, SendInStep DEF OnGameMapEditFinished
<1> QED
  BY <1>1, <1>2, <1>3, <1>4, <1>5
  DEF Next, vars, showChooseDialog, CloseDialog, KeyDown, KeyUp

(* SameMap, of GameMapManger.ts:211-285 and Game.ts:352: two clients that    *)
(* have handled the same frames have the same map; more, they are in the     *)
(* same state, for both follow one run.  It takes that neither brings a map  *)
(* the other lacks, and that frames are handled before the game's start.     *)
THEOREM SameMapThm ==
  ASSUME Prompt, 0 \in Leftover <=> 1 \in Leftover
  PROVE  Spec => []SameMap
<1>1. Init => InStep
  BY InitInStep
<1>2. IInv /\ InStep /\ [Next]_vars => InStep'
  BY NextInStep
<1>3. InStep => SameMap
  <2> SUFFICES ASSUME InStep, queue[0] = queue[1] PROVE client[0].map = client[1].map
    BY DEF SameMap
  <2>1. PICK n, q, f, k : OnRun(n, q, f, k)
    BY DEF InStep
  <2>2. /\ client[0] = f[k[0]] /\ IsRest(queue[0], n, q, k[0])
        /\ client[1] = f[k[1]] /\ IsRest(queue[1], n, q, k[1])
    BY <2>1 DEF OnRun, Players
  <2>3. /\ n \in Nat /\ Len(queue[0]) = n - k[0] /\ k[0] \in 0..n
        /\ Len(queue[1]) = n - k[1] /\ k[1] \in 0..n
    BY <2>2, RestLength
  <2> QED BY <2>2, <2>3
<1> QED BY <1>1, <1>2, <1>3, Invariance, PTL DEF Spec

==============================================================================
