--------------------------- MODULE StatusLifecycle ---------------------------
(***************************************************************************)
(* What a status store promises of one row, whoever calls it and in what   *)
(* order: the status moves only along the transition table, one edge at a  *)
(* time, and the end timestamp is written together with an ending status,  *)
(* never before and never after.                                           *)
(***************************************************************************)
CONSTANTS
    Table,     \* transition table: status -> set of next statuses
    Initial,   \* status of a new row
    Ending     \* statuses that stamp the row's end

VARIABLES
    status,    \* the row's status
    ended      \* TRUE once an ending status has been written

vars == <<status, ended>>

Init == status = Initial /\ ended = FALSE

Move(target) ==
    /\ target \in Table[status]
    /\ status' = target
    /\ ended' = (ended \/ target \in Ending)

Next == \E target \in DOMAIN Table : Move(target)

Spec == Init /\ [][Next]_vars
=============================================================================
