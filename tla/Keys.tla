-------------------------------- MODULE Keys --------------------------------
(***************************************************************************)
(* From a player's keys to what a frame makes of them: which key events      *)
(* reach the game (GameInputModel), what it remembers of them until it sends  *)
(* them off with a frame (GameInputManager), and how often a key that stays   *)
(* down has its effect (GameOpeControl).                                    *)
(* A keyboard is a record; a key's value in a frame is the key itself.       *)
(***************************************************************************)
EXTENDS Integers

CONSTANTS
    MoveKeys,                \* the direction keys
    FirstInterval, Interval     \* of a key's effects, in milliseconds

ASSUME KeysAssumption == FirstInterval \in Nat /\ Interval \in Nat

None == "none"
KeySet == MoveKeys \cup {"OK", "CANCEL", "START"}
\* A frame carries one direction, and each button.
Part(key) == IF key \in MoveKeys THEN "DIRECTION" ELSE key
Parts == {Part(key) : key \in KeySet}

NoKey == [status |-> None, record |-> None]
NoKeys == [p \in Parts |-> NoKey]

(* pressed: the keys that are down.  seen: those the game has been told of   *)
(* and waits for the release of.  top: no dialog takes the keys.             *)
NewKeyboard(pressed) == [pressed |-> pressed, seen |-> {}, top |-> TRUE, info |-> NoKeys]

-----------------------------------------------------------------------------
(* Key events: what a dialog on top takes, the game does not hear of.        *)
Told(k, key) == k.top /\ key \notin k.seen
onKeyDownInfo(k, key) == [k EXCEPT !.info[Part(key)] = [status |-> key, record |-> key]]
onKeyUpInfo(k, key) ==
    [k EXCEPT !.info[Part(key)].status = IF @ = key THEN None ELSE @]
\* START is always taken, the others while the game lets them operate.
Taken(key, enabled) == key = "START" \/ enabled

onKeyDown(k, key, enabled) ==
    LET seen == [k EXCEPT !.pressed = @ \cup {key}, !.seen = IF k.top THEN @ \cup {key} ELSE @]
    IN  IF Told(k, key) /\ Taken(key, enabled) THEN onKeyDownInfo(seen, key) ELSE seen

onKeyUp(k, key, enabled) ==
    LET seen == [k EXCEPT !.pressed = @ \ {key}, !.seen = IF k.top THEN @ \ {key} ELSE @]
    IN  IF k.top /\ Taken(key, enabled) THEN onKeyUpInfo(seen, key) ELSE seen

(* A dialog is a layer of its own above the game's. *)
addInputHierarchy(k) == [k EXCEPT !.top = FALSE]
removeInputHierarchy(k) == [k EXCEPT !.top = TRUE]

\* Mutant: a game that starts or ends forgets what was hit and not what is held.
resetKeyInfoRecords(k) == [k EXCEPT !.info = [p \in Parts |-> [@[p] EXCEPT !.record = None]]]

resetKeyInfo(k) == [k EXCEPT !.info = NoKeys]
resetKeyInfoRecord(k) == [k EXCEPT !.info = [p \in Parts |-> [@[p] EXCEPT !.record = None]]]

(* The record of a direction is masked as if it were shifted, and is lost.   *)
getPlayerOpeCode(k, enabled) ==
    IF enabled THEN [k.info EXCEPT !["DIRECTION"].record = None] ELSE NoKeys

evCaptureFrameOpe(k, enabled) ==
    [ope |-> getPlayerOpeCode(k, enabled), keyboard |-> resetKeyInfoRecord(k)]
evGameStartedOrEnded(k) == resetKeyInfo(k)

-----------------------------------------------------------------------------
(* The effects of a key from frame to frame. *)
Idle == [code |-> None, first |-> 0, last |-> 0]
NewControls == [p \in Parts |-> Idle]

getInputCode(info) == IF info.status # None THEN info.status ELSE info.record
IsNew(o, info) == o.code # getInputCode(info)

\* Whether effectInput says yes, and what it leaves behind.
Effective(o, info, now) ==
    /\ getInputCode(info) # None
    /\ now - o.last >= Interval
    /\ IsNew(o, info) \/ info.record # None \/ now - o.first >= FirstInterval
effectInput(o, info, now) ==
    IF getInputCode(info) = None THEN Idle
    ELSE [code |-> getInputCode(info),
          first |-> IF IsNew(o, info) \/ info.record # None THEN now ELSE o.first,
          last |-> IF Effective(o, info, now) THEN now ELSE o.last]
=============================================================================
