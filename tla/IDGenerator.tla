----------------------------- MODULE IDGenerator -----------------------------
(* IDGenerator<T> of common/utils/utils.h: ids of [start, end) handed out in *)
(* rising order, wrapping round, skipping the ones in use.  It numbers       *)
(* sessions (AsioSockServer, WSServer, ClientsManager), users (GameServer)   *)
(* and rooms (Room); each owner calls it under a mutex of its own, so every  *)
(* call is one step.                                                         *)
EXTENDS Naturals, FiniteSets

CONSTANTS Start, End    \* start_, end_

ASSUME RangeAssumption == Start \in Nat /\ End \in Nat /\ Start < End

VARIABLES
    now,        \* now_: the id handed out next
    use_set,    \* use_set_
    answer      \* what GenerateOneID returned last

vars == <<now, use_set, answer>>

Ids == Start .. End - 1
Size == End - Start

Init ==
    /\ now = Start
    /\ use_set = {}
    /\ answer = End

Least(S) == CHOOSE i \in S : \A j \in S : i <= j

\* Mutant: one step on, whoever holds that id.
NextIDBlind(used, n) ==
    IF Cardinality(used) >= Size THEN n ELSE IF n + 1 < End THEN n + 1 ELSE Start

\* NextID: the next id after n not in use, starting again at Start; n itself
\* when there is none.
NextID(used, n) ==
    LET free  == Ids \ used
        later == {i \in free : i > n}
    IN  IF Cardinality(used) >= Size THEN n
        ELSE IF later # {} THEN Least(later) ELSE Least(free)

GenerateOneID ==
    IF Cardinality(use_set) < Size
    THEN /\ answer' = now
         /\ use_set' = use_set \union {now}
         /\ now' = NextID(use_set', now)
    ELSE answer' = End /\ UNCHANGED <<now, use_set>>

\* Mutant: now stays where it was.
ReturnOneIDStay(id) ==
    /\ id \in use_set
    /\ use_set' = use_set \ {id}
    /\ UNCHANGED <<now, answer>>

\* Owners return only ids they were given, once (the destructor of Room, the
\* deleter of ConnectSession::session_id_).
ReturnOneID(id) ==
    /\ id \in use_set
    /\ use_set' = use_set \ {id}
    /\ now' = IF now \in use_set' THEN NextID(use_set', now) ELSE now
    /\ UNCHANGED answer

Next == GenerateOneID \/ \E id \in Ids : ReturnOneID(id)

Spec == Init /\ [][Next]_vars

------------------------------------------------------------------------------

\* The id handed out next is free unless all are in use, whatever the order of
\* returns: GenerateOneID inserts now_ without looking whether it is taken, and
\* a full generator leaves now_ on an id that is.
NowIsFree == now \in use_set => use_set = Ids

TypeOK ==
    /\ now \in Ids
    /\ use_set \subseteq Ids
    /\ answer \in Ids \union {End}

\* The generator is a pool: nobody is given an id somebody holds, and it
\* refuses only when every id is held.
Pool == INSTANCE IDPool WITH Ids <- Ids, Invalid <- End, out <- use_set
PoolSpec == Pool!Spec
==============================================================================
