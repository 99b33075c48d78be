----------------------------- MODULE ApprovalGate -----------------------------
(***************************************************************************)
(* Requests for human approval and the three kinds of gate that make them: *)
(*   - DesktopExecutor asks under a fresh id before a high-risk operation  *)
(*     and polls the row;                                                  *)
(*   - the approval.request skill asks under an id built from the task and *)
(*     the step, which it is never given: always "approval_unknown_unknown"*)
(*   - PlannerGuard asks for a path outside the workspace and then awaits a*)
(*     method that does not exist: the run ends by that exception.         *)
(* Users answer, expired requests are cleaned up, requests are reopened,   *)
(* NodeRunner retries what failed, and the process restarts; the rows are  *)
(* in the database and survive.                                            *)
(*                                                                         *)
(* A tick is one polling interval; every coroutine that sleeps may wake    *)
(* any number of ticks late.  Grants are left out: no caller of respond()  *)
(* names a path, so none is ever made.                                     *)
(*                                                                         *)
(* Paths are relative to server/app.                                       *)
(***************************************************************************)
EXTENDS Naturals

CONSTANTS
    Desktop,        \* nodes whose operation is of high risk
    Asking,         \* approval.request nodes
    Outside,        \* patches that name a path outside the workspace
    StepOf,         \* step id of each node: every graph has a step_1
    Shared,         \* the id "approval_unknown_unknown"
    Unpolled,       \* ids of reopened requests and of PlannerGuard's
    Ttl,            \* time to live of a request, and the polls within it
    MaxRetries,     \* retry_policy.max_retries of a node
    MaxRestarts     \* bound on process restarts

Nodes == Desktop \cup Asking
Gates == Nodes \cup Outside
Fresh == Desktop \X (0..MaxRetries)
Ids == Fresh \cup {Shared} \cup Unpolled
Steps == {StepOf[n] : n \in Nodes}

ASSUME GatesAssumption ==
    /\ Desktop \cap Asking = {} /\ Nodes \cap Outside = {}
    /\ DOMAIN StepOf = Nodes
    /\ (Fresh \cup {Shared}) \cap Unpolled = {} /\ Shared \notin Fresh
ASSUME BoundsAssumption == Ttl \in Nat \ {0} /\ MaxRetries \in Nat /\ MaxRestarts \in Nat

VARIABLES
    row,        \* status and time left of every request
    pc,         \* phase of every gate
    sleeps,     \* polls after which a desktop gate went to sleep
    retries,    \* retry_count of every node
    history,    \* class of the last error the recovery policy saw at a step
    restarts    \* process restarts so far

vars == <<row, pc, sleeps, retries, history, restarts>>

Decided == {"approved", "denied", "expired"}
RequestStatus == {"absent", "pending"} \cup Decided
Classes == {"none", "external_io", "invalid_value"}
Phases == {"idle", "asleep", "awake", "backoff", "due",
           "approved", "refused", "failed", "raised", "lost"}
Waiting == {"asleep", "awake", "backoff", "due"}

\* Time is left until expires_at has passed; a request may have no expires_at.
Past == 0
Never == Ttl + 1
NoRequest == [status |-> "absent", left |-> Never]
NewRequest(left) == [status |-> "pending", left |-> left]

Init ==
    /\ row = [i \in Ids |-> NoRequest]
    /\ pc = [g \in Gates |-> "idle"]
    /\ sleeps = [n \in Desktop |-> 0]
    /\ retries = [n \in Nodes |-> 0]
    /\ history = [s \in Steps |-> "none"]
    /\ restarts = 0

-----------------------------------------------------------------------------
(* ApprovalService.                                                        *)

\* Mutation of Create: a request made again starts anew.
CreateAnew(i, left) == [row EXCEPT ![i] = NewRequest(left)]

\* create_request: idempotent by id.
Create(i, left) ==
    IF row[i].status = "absent" THEN [row EXCEPT ![i] = NewRequest(left)] ELSE row

\* Once decided, a row's expires_at is never read again.
Decide(r, decision) == [r EXCEPT !.status = decision, !.left = Never]

\* Mutation of Respond: the last answer counts.
RespondAgain(i, answer) ==
    /\ row[i].status # "absent"
    /\ row' = [row EXCEPT ![i] = Decide(@, answer)]
    /\ UNCHANGED <<pc, sleeps, retries, history, restarts>>

\* respond: whatever expires_at says, and whether or not anybody waits.
Respond(i, answer) ==
    /\ row[i].status = "pending"
    /\ row' = [row EXCEPT ![i] = Decide(@, answer)]
    /\ UNCHANGED <<pc, sleeps, retries, history, restarts>>

Expired(r) == r.status = "pending" /\ r.left = Past

\* cleanup_expired, by GET /pending or POST /cleanup.
CleanUp ==
    /\ \E i \in Ids : Expired(row[i])
    /\ row' = [i \in Ids |->
                  IF Expired(row[i]) THEN Decide(row[i], "expired") ELSE row[i]]
    /\ UNCHANGED <<pc, sleeps, retries, history, restarts>>

\* reopen_approval: any request, answered or not, under an id nobody polls.
Reopen(i, j) ==
    /\ row[i].status # "absent" /\ row[j].status = "absent"
    /\ row' = Create(j, Ttl)
    /\ UNCHANGED <<pc, sleeps, retries, history, restarts>>

-----------------------------------------------------------------------------
(* A node that fails: NodeRunner asks the recovery policy.                 *)

\* The first error of a class at a step id is retried, a second in a row is
\* not; the steps of all graphs with that id count together.  (PermissionError
\* is an OSError, taken for a network error: "fail_fast" is for messages that
\* say "permission denied".)
Retried(n, class) ==
    /\ retries[n] < MaxRetries
    /\ history[StepOf[n]] # class

Fails(n, class) ==
    /\ history' = IF retries[n] < MaxRetries
                      THEN [history EXCEPT ![StepOf[n]] = class] ELSE history
    /\ IF Retried(n, class)
           THEN /\ pc' = [pc EXCEPT ![n] = "backoff"]
                /\ retries' = [retries EXCEPT ![n] = @ + 1]
           ELSE /\ pc' = [pc EXCEPT ![n] = "failed"]
                /\ UNCHANGED retries

Starts(n) == pc[n] \in {"idle", "due"}

-----------------------------------------------------------------------------
(* The gates.                                                              *)

Request(n) == IF n \in Asking THEN Shared ELSE <<n, retries[n]>>

\* DesktopExecutor: a new request at every attempt, looked at at once.  Two ways
\* around it make no row and are left out: the break-glass variable, and, where
\* the factory got no ApprovalService, operations of high but not critical risk
\* (desktop.py:230-260).
AskDesktop(n) ==
    /\ Starts(n)
    /\ row' = Create(Request(n), Ttl)
    /\ pc' = [pc EXCEPT ![n] = "asleep"]
    /\ sleeps' = [sleeps EXCEPT ![n] = 1]
    /\ UNCHANGED <<retries, history, restarts>>

\* One more look at the row, or the end of the loop.
Poll(n) ==
    LET status == row[Request(n)].status
        looks == sleeps[n] < Ttl
    IN  /\ pc[n] = "awake"
        /\ \/ /\ looks /\ status = "pending"
              /\ pc' = [pc EXCEPT ![n] = "asleep"]
              /\ sleeps' = [sleeps EXCEPT ![n] = @ + 1]
              /\ UNCHANGED <<retries, history>>
           \/ /\ looks /\ status = "approved"
              /\ pc' = [pc EXCEPT ![n] = "approved"]
              /\ UNCHANGED <<sleeps, retries, history>>
           \/ /\ looks => status \notin {"pending", "approved"}
              /\ Fails(n, "external_io")
              /\ UNCHANGED sleeps
        /\ UNCHANGED <<row, restarts>>

\* The skill: an answer that is there is reported; otherwise the method that
\* is not there raises, and the skill reports a failure.  With a timeout of 0
\* create_request raises, after its commit, where it formats expires_at.
AskShared(n, left) ==
    LET status == row[Shared].status
    IN  /\ Starts(n)
        /\ row' = Create(Shared, left)
        /\ IF status \in Decided
               THEN /\ pc' = [pc EXCEPT ![n] =
                                 IF status = "approved" THEN "approved" ELSE "refused"]
                    /\ UNCHANGED <<retries, history>>
               ELSE Fails(n, "invalid_value")
        /\ UNCHANGED <<sleeps, restarts>>

AskPath(p) ==
    /\ pc[p] = "idle"
    /\ \E j \in Unpolled : row[j].status = "absent" /\ row' = Create(j, Ttl)
    /\ pc' = [pc EXCEPT ![p] = "raised"]
    /\ UNCHANGED <<sleeps, retries, history, restarts>>

-----------------------------------------------------------------------------
(* The environment.                                                        *)

\* Time passes for rows and sleepers.
Tick ==
    /\ row' = [i \in Ids |-> IF row[i].left \in {Past, Never}
                                 THEN row[i] ELSE [row[i] EXCEPT !.left = @ - 1]]
    /\ pc' = [g \in Gates |-> CASE pc[g] = "asleep" -> "awake"
                                [] pc[g] = "backoff" -> "due"
                                [] OTHER -> pc[g]]
    /\ UNCHANGED <<sleeps, retries, history, restarts>>

Restart ==
    /\ restarts < MaxRestarts
    /\ pc' = [g \in Gates |-> IF pc[g] \in Waiting THEN "lost" ELSE pc[g]]
    /\ history' = [s \in Steps |-> "none"]
    /\ restarts' = restarts + 1
    /\ UNCHANGED <<row, sleeps, retries>>

Next ==
    \/ \E i \in Ids, answer \in {"approved", "denied"} : Respond(i, answer)
    \/ CleanUp
    \/ \E i \in Ids, j \in Unpolled : Reopen(i, j)
    \/ \E n \in Desktop : AskDesktop(n) \/ Poll(n)
    \/ \E n \in Asking, left \in {Ttl, Never} : AskShared(n, left)
    \/ \E p \in Outside : AskPath(p)
    \/ Tick
    \/ Restart

Spec == Init /\ [][Next]_vars

-----------------------------------------------------------------------------
(* Properties.                                                             *)

\* Every variable has its type: a desktop gate goes to sleep as often as the
\* timeout has polls, whatever else happens.
TypeOK ==
    /\ row \in [Ids -> [status : RequestStatus, left : 0..Never]]
    /\ pc \in [Gates -> Phases]
    /\ sleeps \in [Desktop -> 0..Ttl]
    /\ retries \in [Nodes -> 0..MaxRetries]
    /\ history \in [Steps -> Classes]
    /\ restarts \in 0..MaxRestarts

\* What a gate that asked has let through stands approved in the database, and
\* goes on to do so: late answers, clean-up, requests made again and reopened,
\* retries and restarts neither open a gate nor take back the answer that opened
\* it.
NothingUnapproved ==
    \A n \in Nodes : pc[n] = "approved" => row[Request(n)].status = "approved"

\* Every request is answered or expires once, and for good.
Decision(i) ==
    INSTANCE StatusLifecycle
        WITH Table <- [absent |-> {"pending"}, pending |-> Decided,
                       approved |-> {}, denied |-> {}, expired |-> {}],
             Initial <- "absent", Ending <- Decided,
             status <- row[i].status, ended <- row[i].status \in Decided

DecidedOnce ==
    /\ \A i \in Ids : Decision(i)!Init
    /\ [][\A i \in Ids : [Decision(i)!Next]_(Decision(i)!vars)]_row
=============================================================================
