----------------------------- MODULE LockOrder -----------------------------
(* The mutexes of the game server: rooms_mtx_, over the map of rooms, and   *)
(* one mtx_ in every Room.  GetUserRoom locks the map and then each room;   *)
(* LeaveRoom locks a room and then, in RemoveRoom, the map.  GameServer     *)
(* takes every critical section for one step; this module opens them up.    *)
(*                                                                          *)
(* users_mtx_ and the generators' mutexes are left out: whoever holds one   *)
(* asks for nothing else.                                                   *)
EXTENDS FiniteSets, Naturals

CONSTANTS
    Workers,       \* the work_threads of WorkServer
    FrameThreads,  \* GAMEFRAME_THREAD_NUM
    Rooms,         \* room ids; an id is used again once its Room is destroyed
    NoThread,      \* the owner of a free mutex
    NoRoom

Threads == Workers \union FrameThreads

ASSUME LockAssumption ==
    /\ Workers \intersect FrameThreads = {}
    /\ NoThread \notin Threads
    /\ NoRoom \notin Rooms

VARIABLES
    rooms_mtx,     \* the thread that holds rooms_mtx_
    mtx,           \* room -> the thread that holds its mtx_
    rooms,         \* rooms_: the registered rooms
    hosted,        \* the rooms with a host in seat 0
    at,            \* thread -> where it is
    on,            \* thread -> the room it holds a pointer to
    left           \* thread -> the rooms its GetUserRoom has still to look at

vars == <<rooms_mtx, mtx, rooms, hosted, at, on, left>>

Places == {"idle", "lookup", "find", "walk", "look", "create", "register", "seat",
           "enter", "inside", "remove", "reset", "exit"}

Init ==
    /\ rooms_mtx = NoThread
    /\ mtx = [r \in Rooms |-> NoThread]
    /\ rooms = {}
    /\ hosted = {}
    /\ at = [t \in Threads |-> "idle"]
    /\ on = [t \in Threads |-> NoRoom]
    /\ left = [t \in Workers |-> {}]

Go(t, from, to) == at[t] = from /\ at' = [at EXCEPT ![t] = to]
Point(t, r) == on' = [on EXCEPT ![t] = r]

------------------------------------------------------------------------------
(* Looking for a room *)

\* A seat request looks its room up; a login, a close event or a hall request
\* looks for the user's room.
Begin(t) ==
    /\ \/ Go(t, "idle", "lookup")
       \/ Go(t, "idle", "find")
    /\ UNCHANGED <<rooms_mtx, mtx, rooms, hosted, on, left>>

\* GetRoom
GetRoom(t) ==
    /\ rooms_mtx = NoThread
    /\ \/ /\ Go(t, "lookup", "idle")
          /\ UNCHANGED on
       \/ \E r \in rooms : Go(t, "lookup", "enter") /\ Point(t, r)
    /\ UNCHANGED <<rooms_mtx, mtx, rooms, hosted, left>>

\* GetUserRoom: the next room of the map, in no particular order ...
LookAtNext(t, rest) ==
    \E r \in rest : /\ at' = [at EXCEPT ![t] = "walk"]
                    /\ Point(t, r)
                    /\ left' = [left EXCEPT ![t] = rest \ {r}]

\* ... or none: the caller creates a room, joins one or has nothing to do.
NotFound(t) ==
    /\ rooms_mtx' = NoThread
    /\ \E next \in {"create", "lookup", "idle"} : at' = [at EXCEPT ![t] = next]
    /\ Point(t, NoRoom)
    /\ UNCHANGED left

LockRooms(t) ==
    /\ at[t] = "find" /\ rooms_mtx = NoThread
    /\ IF rooms = {} THEN NotFound(t)
                     ELSE rooms_mtx' = t /\ LookAtNext(t, rooms)
    /\ UNCHANGED <<mtx, rooms, hosted>>

LookInside(t) ==
    /\ Go(t, "walk", "look")
    /\ mtx[on[t]] = NoThread
    /\ mtx' = [mtx EXCEPT ![on[t]] = t]
    /\ UNCHANGED <<rooms_mtx, rooms, hosted, on, left>>

\* Mutant: the room's mutex is kept until the user is found.
LookOnKeep(t) ==
    /\ at[t] = "look"
    /\ IF left[t] = {} THEN NotFound(t)
                       ELSE LookAtNext(t, left[t]) /\ UNCHANGED rooms_mtx
    /\ UNCHANGED <<mtx, rooms, hosted>>

\* The user is not there.
LookOn(t) ==
    /\ at[t] = "look"
    /\ mtx' = [mtx EXCEPT ![on[t]] = NoThread]
    /\ IF left[t] = {} THEN NotFound(t)
                       ELSE LookAtNext(t, left[t]) /\ UNCHANGED rooms_mtx
    /\ UNCHANGED <<rooms, hosted>>

\* The user is there: both mutexes are released, and the caller locks the room
\* again, or answers that there is a room already.
Found(t) ==
    /\ at[t] = "look"
    /\ mtx' = [mtx EXCEPT ![on[t]] = NoThread]
    /\ rooms_mtx' = NoThread
    /\ left' = [left EXCEPT ![t] = {}]
    /\ \/ Go(t, "look", "enter") /\ UNCHANGED on
       \/ Go(t, "look", "idle") /\ Point(t, NoRoom)
    /\ UNCHANGED <<rooms, hosted>>

------------------------------------------------------------------------------
(* Creating a room *)

\* Mutant: the room's mutex is only taken once the room is in the map.
CreateRoomOpen(t) ==
    /\ Go(t, "create", "register")
    /\ \E r \in Rooms \ rooms : /\ \A u \in Threads : on[u] # r
                                /\ Point(t, r)
    /\ UNCHANGED <<rooms_mtx, mtx, rooms, hosted, left>>

\* Room::CreateRoom, and the new room's mutex: its id is that of a Room nobody
\* points to any more.
CreateRoom(t) ==
    /\ Go(t, "create", "register")
    /\ \E r \in Rooms \ rooms : /\ \A u \in Threads : on[u] # r
                                /\ Point(t, r)
                                /\ mtx' = [mtx EXCEPT ![r] = t]
    /\ UNCHANGED <<rooms_mtx, rooms, hosted, left>>

\* No id is left.
CreateFails(t) ==
    /\ Go(t, "create", "idle")
    /\ \A r \in Rooms \ rooms : \E u \in Threads : on[u] = r
    /\ UNCHANGED <<rooms_mtx, mtx, rooms, hosted, on, left>>

\* AddRoom
AddRoom(t) ==
    /\ Go(t, "register", "seat")
    /\ rooms_mtx = NoThread
    /\ rooms' = rooms \union {on[t]}
    /\ UNCHANGED <<rooms_mtx, mtx, hosted, on, left>>

SeatHost(t) ==
    /\ Go(t, "seat", "exit")
    /\ hosted' = hosted \union {on[t]}
    /\ UNCHANGED <<rooms_mtx, mtx, rooms, on, left>>

------------------------------------------------------------------------------
(* Inside a room *)

Enter(t) ==
    /\ Go(t, "enter", "inside")
    /\ mtx[on[t]] = NoThread
    /\ mtx' = [mtx EXCEPT ![on[t]] = t]
    /\ UNCHANGED <<rooms_mtx, rooms, hosted, on, left>>

\* The handler stops at a check, or changes a room that stays.
Work(t) ==
    /\ Go(t, "inside", "exit")
    /\ UNCHANGED <<rooms_mtx, mtx, rooms, hosted, on, left>>

\* LeaveRoom finds that the room is over: the seat the request named was
\* taken, so the room has a host.
Disband(t) ==
    /\ Go(t, "inside", "remove")
    /\ on[t] \in hosted
    /\ UNCHANGED <<rooms_mtx, mtx, rooms, hosted, on, left>>

\* RemoveRoom, with the room's mutex held
RemoveRoom(t) ==
    /\ Go(t, "remove", "reset")
    /\ rooms_mtx = NoThread
    /\ rooms' = rooms \ {on[t]}
    /\ UNCHANGED <<rooms_mtx, mtx, hosted, on, left>>

ResetRoom(t) ==
    /\ Go(t, "reset", "exit")
    /\ hosted' = hosted \ {on[t]}
    /\ UNCHANGED <<rooms_mtx, mtx, rooms, on, left>>

\* The lock_guard and the pointer go out of scope.
Exit(t) ==
    /\ Go(t, "exit", "idle")
    /\ mtx' = [mtx EXCEPT ![on[t]] = NoThread]
    /\ Point(t, NoRoom)
    /\ UNCHANGED <<rooms_mtx, rooms, hosted, left>>

------------------------------------------------------------------------------

\* The frame thread runs the handler of an expired timer of some room.
FrameBegin(t) ==
    /\ \E r \in rooms : Go(t, "idle", "enter") /\ Point(t, r)
    /\ UNCHANGED <<rooms_mtx, mtx, rooms, hosted, left>>

\* What a thread inside a handler does next.
Find(t) == LockRooms(t) \/ LookInside(t) \/ LookOn(t) \/ Found(t)
Create(t) == CreateRoom(t) \/ CreateFails(t) \/ AddRoom(t) \/ SeatHost(t)
Leave(t) == Disband(t) \/ RemoveRoom(t) \/ ResetRoom(t)
Handler(t) ==
    GetRoom(t) \/ Find(t) \/ Create(t) \/ Enter(t) \/ Work(t) \/ Leave(t) \/ Exit(t)
FrameHandler(t) == Enter(t) \/ Work(t) \/ Exit(t)

Next ==
    \/ \E t \in Workers : Begin(t) \/ Handler(t)
    \/ \E t \in FrameThreads : FrameBegin(t) \/ FrameHandler(t)

\* The operating system runs every thread.  A mutex that is free again and
\* again is got at last: the frame thread sleeps for most of a frame.
Fairness ==
    /\ \A t \in Workers : SF_vars(Handler(t))
    /\ \A t \in FrameThreads : SF_vars(FrameHandler(t))

Spec == Init /\ [][Next]_vars /\ Fairness

------------------------------------------------------------------------------
(* Properties *)

\* Every variable keeps the shape its declaration gives it.
TypeOK ==
    /\ rooms_mtx \in Workers \union {NoThread}
    /\ mtx \in [Rooms -> Threads \union {NoThread}]
    /\ rooms \subseteq Rooms
    /\ hosted \subseteq Rooms
    /\ at \in [Threads -> Places]
    /\ on \in [Threads -> Rooms \union {NoRoom}]
    /\ left \in [Workers -> SUBSET Rooms]

\* Whom a thread waits for: the holder of the mutex its next step locks.
WaitsFor(t) ==
    IF at[t] \in {"lookup", "find", "register", "remove"} THEN rooms_mtx
    ELSE IF at[t] \in {"walk", "enter"} THEN mtx[on[t]]
    ELSE NoThread

\* No threads wait for each other in a circle: "leaving a room (take no lock)"
\* (game_server.cpp:1115), for the room's mutex is held already.
NoCircularWait ==
    ~ \E S \in SUBSET Threads : S # {} /\ \A t \in S : WaitsFor(t) \in S

\* Every circle of waiting threads, of however many workers, holds two that
\* wait for each other: one in LeaveRoom, which asks for rooms_mtx_ under the
\* room's mutex (RemoveRoom, game_server.cpp:1208), and one in GetUserRoom,
\* which asks for that room under rooms_mtx_ (:161).
CircleIsLeaveAndFind ==
    \A S \in SUBSET Threads : S # {} /\ (\A t \in S : WaitsFor(t) \in S) =>
        \E t, u \in S \intersect Workers :
            /\ at[t] = "remove" /\ WaitsFor(t) = u
            /\ at[u] = "walk" /\ WaitsFor(u) = t

\* GetUserRoom meets no room that is half created or half removed: a room of
\* the map whose mutex is free has its host (OnCreateRoom and LeaveRoom change
\* the map and the seats under the room's mutex).
FreeRoomsHosted ==
    \A r \in rooms : mtx[r] = NoThread => r \in hosted

\* The room GetUserRoom looks into has its host, and keeps it until the walk
\* goes on: no other worker takes it out of the map or empties it meanwhile.
LookedAtIsHosted ==
    \A t \in Workers : at[t] = "look" => on[t] \in hosted

\* A handler that has begun ends, and lets its mutexes go.
HandlersEnd ==
    \A t \in Threads : (at[t] # "idle") ~> (at[t] = "idle")
==============================================================================
