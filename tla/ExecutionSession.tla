--------------------------- MODULE ExecutionSession ---------------------------
(***************************************************************************)
(* The row of an execution session: ExecutionSessionStore's transition     *)
(* table, what a transition writes, the clean-up at start-up and the       *)
(* archiver.  The store is synchronous and is called from one event loop,  *)
(* so its read and its conditional update are one step.                    *)
(***************************************************************************)
SessionStatus == {"created", "planned", "running", "waiting",
                  "completed", "failed", "cancelled", "archived"}

SessionTransitions ==
    [s \in SessionStatus |->
        CASE s = "created" -> {"planned", "running", "completed", "failed", "cancelled"}
          [] s = "planned" -> {"running", "failed", "cancelled"}
          [] s = "running" -> {"waiting", "completed", "failed", "cancelled"}
          [] s = "waiting" -> {"running", "failed", "cancelled"}
          [] s \in {"completed", "failed", "cancelled"} -> {"archived"}
          [] s = "archived" -> {}]

\* The statuses that stamp completed_at.
EndStatus == {"completed", "failed", "cancelled"}

\* The statuses the start-up clean-up looks for.
Unfinished == {"created", "planned", "running", "waiting"}

\* "absent": no row yet.
SessionRow == [status : SessionStatus \cup {"absent"}, stamped : BOOLEAN, interrupted : BOOLEAN]

NoRow == [status |-> "absent", stamped |-> FALSE, interrupted |-> FALSE]

NewRow == [NoRow EXCEPT !.status = "created"]

\* transition() raises InvalidTransitionError for a pair that is not in the
\* table; every hook of ExecutionLifecycle logs it and goes on.
Transition(r, to) ==
    IF r.status \in SessionStatus /\ to \in SessionTransitions[r.status]
        THEN [r EXCEPT !.status = to, !.stamped = @ \/ to \in EndStatus]
        ELSE r

\* Mutation of CleanUp: whatever is not archived is cleaned up.
CleanUpAll(r) ==
    IF r.status \in SessionStatus \ {"archived"}
        THEN [status |-> "failed", stamped |-> TRUE, interrupted |-> TRUE]
        ELSE r

\* Rows old enough are failed, whatever transition() would say.
CleanUp(r) ==
    IF r.status \in Unfinished
        THEN [status |-> "failed", stamped |-> TRUE, interrupted |-> TRUE]
        ELSE r

Archived(r) ==
    IF r.status \in EndStatus THEN [r EXCEPT !.status = "archived"] ELSE r
=============================================================================
