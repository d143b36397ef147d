-------------------------- MODULE LockOrderProofs --------------------------
(* What the handlers may rely on in each other's rooms, for any numbers of  *)
(* workers, frame threads and rooms.                                        *)
EXTENDS LockOrder, TLAPS

\* Where a thread holds the mutex of the room it points to.
Inside == {"look", "register", "seat", "inside", "remove", "reset", "exit"}

Holding ==
    \A t \in Threads : at[t] \in Inside => on[t] \in Rooms /\ mtx[on[t]] = t
Owned ==
    \A r \in Rooms, t \in Threads : mtx[r] = t => on[t] = r /\ at[t] \in Inside
Entering == \A t \in Threads : at[t] = "enter" => on[t] \in Rooms
Walking ==
    \A t \in Workers : at[t] \in {"walk", "look"} =>
        rooms_mtx = t /\ on[t] \in rooms /\ left[t] \subseteq rooms
Seating == \A r \in rooms \ hosted : \E t \in Threads : at[t] = "seat" /\ on[t] = r
Leaving == \A t \in Threads : at[t] = "reset" => on[t] \notin rooms

IInv ==
    /\ TypeOK /\ Holding /\ Owned /\ Entering
    /\ Walking /\ Seating /\ Leaving

\* At first no thread holds a mutex and there is no room.
LEMMA InitInv == Init => IInv
BY LockAssumption DEF Init, IInv, TypeOK, Holding, Owned, Entering, Walking, Seating,
    Leaving, Threads, Places, Inside

\* Who looks for a room walks the map under rooms_mtx_, one room's mutex at a time.
LEMMA LookingInv ==
    ASSUME IInv, NEW t \in Workers,
           Begin(t) \/ GetRoom(t) \/ Find(t)
    PROVE  IInv'
<1> USE LockAssumption DEF IInv, TypeOK, Holding, Owned, Entering, Walking, Seating,
        Leaving, Threads, Places, Inside, Go, Point
<1>1. CASE Begin(t)
  BY <1>1 DEF Begin
<1>2. CASE GetRoom(t)
  BY <1>2 DEF GetRoom
<1>3. CASE LockRooms(t)
  BY <1>3 DEF LockRooms, NotFound, LookAtNext
<1>4. CASE LookInside(t)
  BY <1>4 DEF LookInside
<1>5. CASE LookOn(t)
  BY <1>5 DEF LookOn, NotFound, LookAtNext
<1>6. CASE Found(t)
  BY <1>6 DEF Found
<1>7. QED
  BY <1>1, <1>2, <1>3, <1>4, <1>5, <1>6 DEF Find

\* A new room's mutex is held from before it is registered until it has a host.
LEMMA CreatingInv ==
    ASSUME IInv, NEW t \in Workers, Create(t)
    PROVE  IInv'
<1> USE LockAssumption DEF IInv, TypeOK, Holding, Owned, Entering, Walking, Seating,
        Leaving, Threads, Places, Inside, Go, Point
<1>1. CASE CreateRoom(t)
  BY <1>1 DEF CreateRoom
<1>2. CASE CreateFails(t)
  BY <1>2 DEF CreateFails
<1>3. CASE AddRoom(t)
  BY <1>3 DEF AddRoom
<1>4. CASE SeatHost(t)
  BY <1>4 DEF SeatHost
<1>5. QED
  BY <1>1, <1>2, <1>3, <1>4 DEF Create

\* Inside a room, and on the way out of the last one's, the mutex is held.
LEMMA InsideInv ==
    ASSUME IInv, NEW t \in Threads,
           Enter(t) \/ Work(t) \/ Leave(t) \/ Exit(t) \/ FrameBegin(t)
    PROVE  IInv'
<1> USE LockAssumption DEF IInv, TypeOK, Holding, Owned, Entering, Walking, Seating,
        Leaving, Threads, Places, Inside, Go, Point
<1>1. CASE Enter(t)
  BY <1>1 DEF Enter
<1>2. CASE Work(t)
  BY <1>2 DEF Work
<1>3. CASE Disband(t)
  BY <1>3 DEF Disband
<1>4. CASE RemoveRoom(t)
  BY <1>4 DEF RemoveRoom
<1>5. CASE ResetRoom(t)
  BY <1>5 DEF ResetRoom
<1>6. CASE Exit(t)
  BY <1>6 DEF Exit
<1>7. CASE FrameBegin(t)
  BY <1>7 DEF FrameBegin
<1>8. QED
  BY <1>1, <1>2, <1>3, <1>4, <1>5, <1>6, <1>7 DEF Leave

\* The inductive invariant: who holds which mutex at which place, that nobody
\* changes the map while somebody walks along it, and that a room without a
\* host is in the hands of the thread that creates or removes it.
THEOREM Invariance == Spec => []IInv
<1>1. IInv /\ [Next]_vars => IInv'
  <2> SUFFICES ASSUME IInv, [Next]_vars PROVE IInv'
    OBVIOUS
  <2>1. CASE UNCHANGED vars
    BY <2>1 DEF vars, IInv, TypeOK, Holding, Owned, Entering, Walking, Seating, Leaving
  <2>2. ASSUME NEW t \in Workers, Begin(t) \/ Handler(t) PROVE IInv'
    BY <2>2, LookingInv, CreatingInv, InsideInv DEF Handler, Threads
  <2>3. ASSUME NEW t \in FrameThreads, FrameBegin(t) \/ FrameHandler(t) PROVE IInv'
    BY <2>3, InsideInv DEF FrameHandler, Threads
  <2>4. QED
    BY <2>1, <2>2, <2>3 DEF Next
<1>2. QED
  BY InitInv, <1>1, PTL DEF Spec

\* GetUserRoom, a join or a frame that gets a room's mutex meets a room that is
\* whole: OnCreateRoom registers it before it has a host, LeaveRoom removes it
\* before it loses its host, both with the mutex held.
THEOREM FreeRoomsHostedThm == Spec => []FreeRoomsHosted
<1>1. IInv => FreeRoomsHosted
  BY LockAssumption DEF IInv, TypeOK, Holding, Seating, Inside, FreeRoomsHosted, Threads
<1>2. QED
  BY Invariance, <1>1, PTL

\* No room loses its host while GetUserRoom looks at it, however many workers
\* create and remove rooms.
THEOREM LookedAtIsHostedThm == Spec => []LookedAtIsHosted
<1>1. IInv => LookedAtIsHosted
  BY LockAssumption DEF IInv, TypeOK, Holding, Walking, Seating, Inside, LookedAtIsHosted, Threads
<1>2. QED
  BY Invariance, <1>1, PTL

\* The frame thread never looks for a room, creates or removes one; rooms_mtx_
\* is held only on the walk, and nobody points to a room that is to be
\* registered but who creates it.
FramesOnly ==
    \A t \in FrameThreads : at[t] \in {"idle", "enter", "inside", "exit"}
MapHeld == \A t \in Workers : rooms_mtx = t => at[t] \in {"walk", "look"}
Fresh ==
    \A t \in Threads : at[t] = "register" =>
        on[t] \notin rooms /\ \A u \in Threads \ {t} : on[u] # on[t]

WaitInv == FramesOnly /\ MapHeld /\ Fresh

\* The waiting part of the invariant rests on the locking part.
LEMMA WaitStep == IInv /\ WaitInv /\ [Next]_vars => WaitInv'
<1> SUFFICES ASSUME IInv, WaitInv, [Next]_vars PROVE WaitInv'
  OBVIOUS
<1> USE LockAssumption DEF WaitInv, FramesOnly, MapHeld, Fresh, IInv, TypeOK, Holding, Owned,
        Walking, Threads, Inside, Places, Go, Point
<1>1. CASE UNCHANGED vars
  BY <1>1 DEF vars
<1>2. ASSUME NEW t \in Workers, Begin(t) \/ GetRoom(t) \/ Find(t) PROVE WaitInv'
  <2>1. CASE Begin(t)
    BY <2>1 DEF Begin
  <2>2. CASE GetRoom(t)
    BY <2>2 DEF GetRoom
  <2>3. CASE LockRooms(t)
    BY <2>3 DEF LockRooms, NotFound, LookAtNext
  <2>4. CASE LookInside(t)
    BY <2>4 DEF LookInside
  <2>5. CASE LookOn(t)
    BY <2>5 DEF LookOn, NotFound, LookAtNext
  <2>6. CASE Found(t)
    BY <2>6 DEF Found
  <2> QED
    BY <1>2, <2>1, <2>2, <2>3, <2>4, <2>5, <2>6 DEF Find
<1>3. ASSUME NEW t \in Workers, Create(t) PROVE WaitInv'
  <2>1. CASE CreateRoom(t)
    BY <2>1 DEF CreateRoom
  <2>2. CASE CreateFails(t)
    BY <2>2 DEF CreateFails
  <2>3. CASE AddRoom(t)
    BY <2>3 DEF AddRoom
  <2>4. CASE SeatHost(t)
    BY <2>4 DEF SeatHost
  <2> QED
    BY <1>3, <2>1, <2>2, <2>3, <2>4 DEF Create
<1>4. ASSUME NEW t \in Workers, Leave(t) PROVE WaitInv'
  BY <1>4 DEF Leave, Disband, RemoveRoom, ResetRoom
<1>5. ASSUME NEW t \in Threads, Enter(t) \/ Work(t) \/ Exit(t) PROVE WaitInv'
  BY <1>5 DEF Enter, Work, Exit
<1>6. ASSUME NEW t \in FrameThreads, FrameBegin(t) PROVE WaitInv'
  BY <1>6 DEF FrameBegin
<1> QED
  BY <1>1, <1>2, <1>3, <1>4, <1>5, <1>6 DEF Next, Handler, FrameHandler

\* The two parts hold together.
LEMMA WaitInvariance == Spec => [](IInv /\ WaitInv)
<1>1. Init => WaitInv
  BY LockAssumption DEF Init, WaitInv, FramesOnly, MapHeld, Fresh, Threads
<1>2. QED
  BY InitInv, <1>1, WaitStep, Invariance, PTL DEF Spec

\* Who waits for a room's mutex waits for a thread inside that room, who waits
\* for rooms_mtx_ for one on the walk.
LEMMA Waiting ==
    ASSUME IInv, WaitInv, NEW t \in Threads, WaitsFor(t) \in Threads
    PROVE  LET u == WaitsFor(t) IN
           \/ /\ at[t] \in {"lookup", "find", "register", "remove"}
              /\ u \in Workers /\ u = rooms_mtx /\ at[u] \in {"walk", "look"}
           \/ /\ at[t] \in {"walk", "enter"}
              /\ u # t /\ on[u] = on[t] /\ at[u] \in Inside \ {"register"}
<1> DEFINE u == WaitsFor(t)
<1>1. CASE at[t] \in {"lookup", "find", "register", "remove"}
  <2>1. u = rooms_mtx /\ u \in Workers
    BY <1>1, LockAssumption DEF WaitsFor, IInv, TypeOK
  <2> QED BY <1>1, <2>1 DEF WaitInv, MapHeld
<1>2. CASE at[t] \in {"walk", "enter"}
  <2>1. u = mtx[on[t]] /\ u \in Threads
    BY <1>2 DEF WaitsFor
  <2>2. on[t] \in Rooms
    <3>1. CASE at[t] = "enter"
      BY <3>1 DEF IInv, Entering
    <3>2. CASE at[t] = "walk"
      BY <3>2, LockAssumption DEF IInv, Walking, TypeOK, WaitInv, FramesOnly, Threads
    <3> QED BY <1>2, <3>1, <3>2
  <2>3. on[u] = on[t] /\ at[u] \in Inside
    BY <2>1, <2>2 DEF IInv, Owned
  <2>4. u # t
    BY <1>2, <2>3 DEF Inside
  <2>5. at[u] # "register"
    BY <2>1, <2>3, <2>4 DEF WaitInv, Fresh
  <2> HIDE DEF u
  <2> QED BY <1>2, <2>3, <2>4, <2>5 DEF u
<1>3. CASE at[t] \notin {"lookup", "find", "register", "remove", "walk", "enter"}
  BY <1>3, LockAssumption DEF WaitsFor
<1> QED BY <1>1, <1>2, <1>3

\* However many workers there are, LeaveRoom and GetUserRoom are the only two
\* handlers that can wait for each other, and they are part of every circle.
THEOREM CircleIsLeaveAndFindThm == Spec => []CircleIsLeaveAndFind
<1>1. IInv /\ WaitInv => CircleIsLeaveAndFind
  <2> SUFFICES ASSUME IInv, WaitInv, NEW S \in SUBSET Threads, S # {},
                      \A t \in S : WaitsFor(t) \in S
               PROVE  \E t, u \in S \intersect Workers :
                         /\ at[t] = "remove" /\ WaitsFor(t) = u
                         /\ at[u] = "walk" /\ WaitsFor(u) = t
    BY DEF CircleIsLeaveAndFind
  <2>1. \A t \in S : at[t] \in {"lookup", "find", "register", "remove", "walk", "enter"}
    BY Waiting
  <2>2. \A t \in S : at[t] \in {"walk", "enter"} => at[WaitsFor(t)] = "remove"
    <3> TAKE t \in S
    <3> HAVE at[t] \in {"walk", "enter"}
    <3>1. WaitsFor(t) \in S /\ WaitsFor(t) \in Threads
      OBVIOUS
    <3>2. at[WaitsFor(t)] \in Inside \ {"register"}
      BY <3>1, Waiting
    <3> QED BY <2>1, <3>1, <3>2 DEF Inside
  <2>3. PICK t \in S : at[t] = "remove"
    <3>1. PICK s \in S : TRUE
      OBVIOUS
    <3>2. CASE at[s] \in {"walk", "enter"}
      BY <2>2, <3>2
    <3>3. CASE at[s] \notin {"walk", "enter"}
      <4>1. WaitsFor(s) \in S /\ at[WaitsFor(s)] \in {"walk", "look"}
        BY <3>3, Waiting
      <4>2. at[WaitsFor(s)] = "walk"
        BY <2>1, <4>1
      <4> QED BY <2>2, <4>1, <4>2
    <3> QED BY <3>2, <3>3
  <2> DEFINE u == WaitsFor(t)
  <2>4. u \in S /\ u \in Workers /\ at[u] \in {"walk", "look"} /\ u = rooms_mtx
    BY <2>3, Waiting
  <2>5. at[u] = "walk"
    BY <2>1, <2>4
  <2> DEFINE v == WaitsFor(u)
  <2>6. v \in S /\ at[v] = "remove"
    BY <2>2, <2>4, <2>5
  <2>7. WaitsFor(v) = u /\ v \in Workers
    BY <2>4, <2>6 DEF WaitsFor, WaitInv, FramesOnly, Threads
  <2> QED BY <2>4, <2>5, <2>6, <2>7
<1>2. QED
  BY WaitInvariance, <1>1, PTL

\* With one worker there is no circle at all, with any number of frame threads.
THEOREM NoCircularWaitThm ==
  ASSUME \A t, u \in Workers : t = u
  PROVE  Spec => []NoCircularWait
<1>1. CircleIsLeaveAndFind => NoCircularWait
  BY DEF CircleIsLeaveAndFind, NoCircularWait
<1>2. QED
  BY CircleIsLeaveAndFindThm, <1>1, PTL
=============================================================================
