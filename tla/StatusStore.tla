----------------------------- MODULE StatusStore -----------------------------
(***************************************************************************)
(* One row of task_sessions (services/task_session_store.py) under         *)
(* concurrent callers of transition(): the event loop, the thread pool     *)
(* that runs the sync operations endpoints, a second server process.       *)
(*                                                                         *)
(* transition() first reads the row (db.get) and validates the change      *)
(* against what it read; pysqlite opens the write transaction only at the  *)
(* UPDATE, so another caller may commit in between.  The UPDATE carries    *)
(* "WHERE status = current", and a row count of 0 is reported as an        *)
(* InvalidTransitionError.                                                 *)
(***************************************************************************)
EXTENDS Naturals, StateMachines

CONSTANTS
    Callers,   \* threads and processes that call transition()
    NoCall,    \* "this caller is outside transition()"
    Table,     \* TaskSessionTransitions
    Initial,   \* status of a freshly created row
    Ending,    \* statuses that stamp completed_at
    MaxHops    \* bound on the committed transitions of a behaviour

Statuses == DOMAIN Table

ASSUME TableClosed == \A s \in Statuses : Table[s] \subseteq Statuses
ASSUME InitialAssumption == Initial \in Statuses /\ Initial \notin Ending
ASSUME NoCallAssumption == NoCall \notin [current : Statuses, target : Statuses]
ASSUME MaxHopsAssumption == MaxHops \in Nat

VARIABLES
    status,    \* the status column
    ended,     \* completed_at is set
    call,      \* call[c]: what c read and wants to write, or NoCall
    hops       \* sequence number of commits, with the edge each caller reported

vars == <<status, ended, call, hops>>

Init ==
    /\ status = Initial
    /\ ended = FALSE
    /\ call = [c \in Callers |-> NoCall]
    /\ hops = [count |-> 0, from |-> Initial, to |-> Initial]

\* obj = db.get(..); current = obj.status; validate_transition(..) passes.
\* A change the table rejects raises at once and touches nothing.
BeginTransition(c, target) ==
    /\ call[c] = NoCall
    /\ ValidTransition(status, target, Table)
    /\ call' = [call EXCEPT ![c] = [current |-> status, target |-> target]]
    /\ UNCHANGED <<status, ended, hops>>

\* Mutations of Matches: the UPDATE without its status condition, or with a
\* condition that only spares ended rows.
AnyRow(c) == TRUE
NotEndedRow(c) == ~ended

\* The row the UPDATE's WHERE clause still matches.
Matches(c) == status = call[c].current

\* values["completed_at"] = now when the target is an ending status.
EndStamp(c) == ended \/ call[c].target \in Ending

\* The conditional UPDATE hits the row; the timestamp is written in the same
\* commit and the caller returns normally: its hooks see (current, target).
CommitTransition(c) ==
    /\ call[c] # NoCall
    /\ Matches(c)
    /\ hops.count < MaxHops
    /\ status' = call[c].target
    /\ ended' = EndStamp(c)
    /\ hops' = [count |-> hops.count + 1,
                from |-> call[c].current, to |-> call[c].target]
    /\ call' = [call EXCEPT ![c] = NoCall]

\* rowcount = 0: InvalidTransitionError, the session is rolled back.
RejectTransition(c) ==
    /\ call[c] # NoCall
    /\ ~Matches(c)
    /\ call' = [call EXCEPT ![c] = NoCall]
    /\ UNCHANGED <<status, ended, hops>>

Next ==
    \E c \in Callers :
        \/ \E target \in Statuses : BeginTransition(c, target)
        \/ CommitTransition(c)
        \/ RejectTransition(c)

Spec == Init /\ [][Next]_vars

-----------------------------------------------------------------------------

\* A caller inside transition() holds an edge of the table.
CallsValid ==
    \A c \in Callers : call[c] # NoCall => call[c].target \in Table[call[c].current]

TypeOK ==
    /\ status \in Statuses
    /\ ended \in BOOLEAN
    /\ call \in [Callers -> [current : Statuses, target : Statuses] \cup {NoCall}]
    /\ hops \in [count : Nat, from : Statuses, to : Statuses]
    /\ CallsValid

\* The row as the rest of the system may rely on it.
Lifecycle == INSTANCE StatusLifecycle
    WITH Table <- Table, Initial <- Initial, Ending <- Ending,
         status <- status, ended <- ended

\* Whatever callers interleave inside transition(), the row implements the
\* abstract life cycle: no committed change leaves the table, and the end
\* timestamp is written exactly with an ending status.
ImplementsLifecycle == Lifecycle!Spec

\* The (old, new) pairs that callers go on to report to hooks and event stream
\* form one chain in the order of the commits: each starts where the previous
\* one ended, so no caller is told it won a race it lost.  (The hooks run after
\* the commit, in the caller's thread, and may be heard in another order.)
ReportedChain == [][hops' # hops => hops'.from = hops.to]_vars

\* The last change a caller was told it made is the one the row shows.
ReportedIsCurrent == hops.to = status
=============================================================================
