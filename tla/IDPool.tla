------------------------------- MODULE IDPool -------------------------------
(* What the owners of session, user and room ids expect of an id generator: *)
(* an id nobody else holds, or a refusal when all of them are held.         *)
CONSTANTS Ids, Invalid

VARIABLES
    out,      \* the ids that are held
    answer    \* the last answer of the pool, Invalid for a refusal

Init == out = {} /\ answer = Invalid

Take(id) ==
    /\ id \notin out
    /\ out' = out \union {id}
    /\ answer' = id

Refuse ==
    /\ out = Ids
    /\ answer' = Invalid
    /\ UNCHANGED out

GiveBack(id) ==
    /\ id \in out
    /\ out' = out \ {id}
    /\ UNCHANGED answer

Next == Refuse \/ \E id \in Ids : Take(id) \/ GiveBack(id)

Spec == Init /\ [][Next]_<<out, answer>>
==============================================================================
