---------------------------- MODULE ReactController ----------------------------
(***************************************************************************)
(* GraphController in its ReAct mode, as one process runs it for several   *)
(* tasks: the execution slots, the loop (limits, planner, recovery paths,  *)
(* FINISH decision, patches, post-execution guards), the plan a complex    *)
(* task is routed to, whose units are ReAct runs of their own on the same  *)
(* controller, and the session row of every run, through process restarts  *)
(* and the archiver.                                                       *)
(*                                                                         *)
(* Everything runs on one asyncio loop; a step ends where the code awaits  *)
(* the planner, a skill, another run, a slot or the narrative manager.     *)
(* Node execution itself is GraphExecution, pause and the handles of a     *)
(* cancel are TaskControl; here a cycle ends with its one new node         *)
(* succeeded, failed or left unexecuted.  The planner adds one node per    *)
(* plan, called step_1, step_2, ... in every graph.  Budgets in tokens and *)
(* cost, long-task and durable contexts (off by default), and the limits   *)
(* no run can reach before the ones modelled are left out.                 *)
(*                                                                         *)
(* Paths are relative to server/app/avatar/runtime.                        *)
(***************************************************************************)
EXTENDS Naturals, FiniteSets, ExecutionSession, OutcomeReducer, TaskPlan

CONSTANTS
    Tasks,          \* tasks users submit
    Complex,        \* those the understanding layer may call "complex"
    UnitRun,        \* the run that executes the units of each complex task
    Actions,        \* runs whose intent requires execution
    Gaps,           \* runs whose intent may need a capability that is missing
    Deliverers,     \* runs whose goal names deliverables
    Cancellable,    \* tasks somebody may cancel
    Slots,          \* max_concurrent_graphs
    MaxIterations,  \* iteration limit of each run
    MaxCalls,       \* effective_max_calls of BudgetGuard
    MaxTruncations, MaxSchemaReplans, MaxRejections, MaxRepairs,
    MaxFailures,    \* MAX_CONSECUTIVE_FAILURES
    MaxStill,       \* max_no_progress_rounds
    MaxRetries,     \* max_retries of a unit
    MaxRestarts     \* bound on process restarts

Children == {UnitRun[t] : t \in Complex}
Runs == Tasks \cup Children

ASSUME RunsAssumption ==
    /\ Complex \subseteq Tasks
    /\ DOMAIN UnitRun = Complex
    /\ Children \cap Tasks = {}
    /\ \A s, t \in Complex : UnitRun[s] = UnitRun[t] => s = t
    /\ Cancellable \subseteq Tasks
ASSUME LimitsAssumption ==
    /\ MaxIterations \in [Runs -> Nat]
    /\ {Slots, MaxFailures, MaxStill} \subseteq Nat \ {0}
    /\ {MaxCalls, MaxTruncations, MaxSchemaReplans, MaxRejections, MaxRepairs,
        MaxRetries, MaxRestarts} \subseteq Nat

VARIABLES
    pc,         \* phase of every run
    loop,       \* ReactLoopState of every run
    final,      \* ExecutionResult every run returned
    row,        \* session row of every run (of a unit's latest attempt)
    plan,       \* TaskExecutionPlan of every complex task
    budget,     \* total_calls of the controller's one BudgetGuard
    progress,   \* progress guard state of the controller's one GoalTracker
    cancelled,  \* tasks whose cancel event is set
    restarts    \* process restarts so far

vars == <<pc, loop, final, row, plan, budget, progress, cancelled, restarts>>
shared == <<plan, cancelled, restarts>>

Phases == {"idle", "queued", "top", "planning", "executing", "routed",
           "ending", "raising", "returned", "raised", "lost"}
Over == {"returned", "raised", "lost"}
Looping == {"top", "planning", "executing", "routed"}

\* Mutation of Holding: a run whose planner raised keeps its slot.
HoldingAfterRaise ==
    {r \in Runs : pc[r] \in Looping \cup {"ending", "raising", "raised"}}

\* The runs between entering and leaving "async with self._graph_semaphore".
Holding == {r \in Runs : pc[r] \in Looping \cup {"ending", "raising"}}

LoopStart ==
    [calls |-> 0, nodes |-> 0, ok |-> {}, bad |-> FALSE,
     truncations |-> 0, schemas |-> 0, deduped |-> FALSE, rejections |-> 0,
     repairs |-> 0, failures |-> 0, understood |-> FALSE, reply |-> FALSE]

\* A unit starts from a copy of the environment of the run that was routed, so
\* truncations already seen count against it ...
Parent(r) == {t \in Complex : UnitRun[t] = r}
FirstLoop(r) ==
    [LoopStart EXCEPT !.truncations =
        IF Parent(r) = {} THEN 0 ELSE loop[CHOOSE t \in Parent(r) : TRUE].truncations]

\* ... and a RepairState that exists by then is the same object.
RepairOwner(r) ==
    IF \E t \in Parent(r) : loop[t].repairs > 0
        THEN CHOOSE t \in Parent(r) : TRUE ELSE r

NoResult == [status |-> "none", success |-> FALSE, produced |-> FALSE,
             replied |-> FALSE, gap |-> FALSE]

FreshProgress == [seen |-> {}, still |-> 0]

Init ==
    /\ pc = [r \in Runs |-> "idle"]
    /\ loop = [r \in Runs |-> LoopStart]
    /\ final = [r \in Runs |-> NoResult]
    /\ row = [r \in Runs |-> NoRow]
    /\ plan = [t \in Complex |-> NewPlan]
    /\ budget = 0
    /\ progress = FreshProgress
    /\ cancelled = {}
    /\ restarts = 0

-----------------------------------------------------------------------------
(* Leaving a run.                                                          *)

Result(l, status, success) ==
    [status |-> status, success |-> success, produced |-> l.ok # {},
     replied |-> FALSE, gap |-> FALSE]

Failure(l) == Result(l, "failed", FALSE)

\* s.final_result is set, and the loop left for the finally block.
Returns(r, result) ==
    /\ pc' = [pc EXCEPT ![r] = "ending"]
    /\ final' = [final EXCEPT ![r] = result]
    /\ loop' = [loop EXCEPT ![r] = LoopStart]

\* _finalize_react_session, after the narrative manager was told: any other
\* status leaves the defaults of ReactLoopState ("failed", "unknown").  The
\* caller then unregisters the task's handle.
LifecycleOf(status) ==
    IF status \in {"success", "partial_success"} THEN "completed" ELSE "failed"

Finalize(r) ==
    /\ pc[r] \in {"ending", "raising"}
    /\ pc' = [pc EXCEPT ![r] = IF @ = "ending" THEN "returned" ELSE "raised"]
    /\ row' = [row EXCEPT ![r] = Transition(@, LifecycleOf(final[r].status))]
    /\ cancelled' = cancelled \ {r}
    /\ UNCHANGED <<loop, final, plan, budget, progress, restarts>>

\* Whether the deliverables are there is the skills' doing; none is without a
\* node that succeeded.
Deliveries(r, l) ==
    IF r \notin Deliverers THEN {"none"}
    ELSE IF l.ok = {} THEN {"unmet"} ELSE {"met", "unmet"}

ResultStatus ==
    [o \in Outcome |-> CASE o = "completed" -> "success"
                        [] o = "degraded" -> "partial_success"
                        [] o = "failed" -> "failed"]

\* _compute_final_result: what the planner once replied wins over the outcome.
FinalStatus(l, deliverables, verified, stuck) ==
    IF l.reply THEN "success"
    ELSE IF stuck THEN (IF l.ok # {} THEN "partial_success" ELSE "failed")
    ELSE ResultStatus[ReduceSimple(
            [total |-> l.nodes > 0, succeeded |-> l.ok # {}, failed |-> l.bad],
            deliverables, verified)]

\* The loop ends by "break".
Breaks(r, l, verified, stuck) ==
    \E d \in Deliveries(r, l) :
        LET status == FinalStatus(l, d, verified, stuck)
        IN  Returns(r, [Result(l, status, status # "failed") EXCEPT !.replied = l.reply])

\* The loop goes on to its next iteration.
Continues(r, l) ==
    /\ pc' = [pc EXCEPT ![r] = "top"]
    /\ loop' = [loop EXCEPT ![r] = l]
    /\ UNCHANGED final

-----------------------------------------------------------------------------
(* Entering.                                                               *)

Submit(t) ==
    /\ pc[t] = "idle"
    /\ pc' = [pc EXCEPT ![t] = "queued"]
    /\ UNCHANGED <<loop, final, row, budget, progress, shared>>

SlotFree == Cardinality(Holding) < Slots

\* _execute_react_mode up to the loop: a new row, and the shared guards reset.
EnterLoop(r) ==
    /\ pc[r] = "queued" /\ SlotFree
    /\ pc' = [pc EXCEPT ![r] = "top"]
    /\ loop' = [loop EXCEPT ![r] = FirstLoop(r)]
    /\ row' = [row EXCEPT ![r] = NewRow]
    /\ budget' = 0
    /\ progress' = FreshProgress
    /\ UNCHANGED <<final, shared>>

\* The capability gap returns before the try block: nothing is finalized, and
\* what the user is told stays in the loop's state, not in the result.
AnswerGap(r) ==
    /\ pc[r] = "queued" /\ SlotFree
    /\ r \in Gaps
    /\ pc' = [pc EXCEPT ![r] = "returned"]
    /\ final' = [final EXCEPT ![r] = [Result(LoopStart, "success", TRUE)
                                          EXCEPT !.gap = TRUE]]
    /\ row' = [row EXCEPT ![r] = NewRow]
    /\ cancelled' = cancelled \ {r}
    /\ UNCHANGED <<loop, plan, budget, progress, restarts>>

-----------------------------------------------------------------------------
(* The top of the loop.                                                    *)

Stopped(r) ==
    /\ pc[r] = "top"
    /\ r \in cancelled
    /\ Returns(r, Failure(loop[r]))
    /\ UNCHANGED <<row, budget, progress, shared>>

LimitReached(r) == loop[r].calls >= MaxIterations[r]
BudgetExceeded == budget >= MaxCalls

ExceedsLimit(r) ==
    /\ pc[r] = "top" /\ r \notin cancelled
    /\ LimitReached(r) \/ BudgetExceeded
    /\ Returns(r, Failure(loop[r]))
    /\ UNCHANGED <<row, budget, progress, shared>>

MayPlan(r) ==
    /\ pc[r] = "top" /\ r \notin cancelled
    /\ ~LimitReached(r) /\ ~BudgetExceeded

\* Terminal evidence: some node succeeded, and what it put out looks enough.
ShowsEvidence(r) ==
    /\ MayPlan(r)
    /\ loop[r].calls > 0 /\ loop[r].ok # {}
    /\ Breaks(r, loop[r], FALSE, FALSE)
    /\ UNCHANGED <<row, budget, progress, shared>>

CallPlanner(r) ==
    /\ MayPlan(r)
    /\ pc' = [pc EXCEPT ![r] = "planning"]
    /\ loop' = [loop EXCEPT ![r].calls = @ + 1]
    /\ UNCHANGED <<final, row, budget, progress, shared>>

-----------------------------------------------------------------------------
(* What the planner comes back with.                                       *)

\* The exception passes through the finally block with no final result.
PlannerRaises(r) ==
    /\ pc[r] = "planning"
    /\ pc' = [pc EXCEPT ![r] = "raising"]
    /\ loop' = [loop EXCEPT ![r] = LoopStart]
    /\ UNCHANGED <<final, row, budget, progress, shared>>

\* _handle_truncation_recovery
PlanTruncated(r) ==
    /\ pc[r] = "planning"
    /\ IF loop[r].truncations < MaxTruncations
            THEN Continues(r, [loop[r] EXCEPT !.truncations = @ + 1])
            ELSE Returns(r, Failure(loop[r]))
    /\ UNCHANGED <<row, budget, progress, shared>>

\* The planner answered: track() counts the call, whoever made it.
Planned(r) ==
    /\ pc[r] = "planning"
    /\ budget' = budget + 1

\* FINISH with a message and an empty graph.
DirectReply(r) ==
    LET l == [loop[r] EXCEPT !.reply = TRUE]
    IN  /\ Planned(r)
        /\ loop[r].nodes = 0
        /\ IF r \in Actions THEN Continues(r, l) ELSE Breaks(r, l, FALSE, FALSE)
        /\ UNCHANGED <<row, progress, shared>>

\* Loop states after any other FINISH, whose message is kept as a reply.
AfterFinish(r) ==
    {loop[r]} \cup (IF loop[r].nodes > 0 THEN {[loop[r] EXCEPT !.reply = TRUE]} ELSE {})

\* Sub-goals uncovered or deliverables missing, below the cap.
FinishRejected(r) ==
    /\ Planned(r)
    /\ loop[r].rejections < MaxRejections
    /\ \E l \in AfterFinish(r) : Continues(r, [l EXCEPT !.rejections = @ + 1])
    /\ UNCHANGED <<row, progress, shared>>

\* The verification gate lets the FINISH pass.
FinishVerified(r) ==
    /\ Planned(r)
    /\ \E l \in AfterFinish(r) : Breaks(r, l, TRUE, FALSE)
    /\ UNCHANGED <<row, progress, shared>>

\* It fails, and another repair is left.
FinishRepaired(r) ==
    LET owner == RepairOwner(r)
    IN  /\ Planned(r)
        /\ loop[owner].repairs < MaxRepairs
        /\ pc' = [pc EXCEPT ![r] = "top"]
        /\ \E l \in AfterFinish(r) :
              loop' = [[loop EXCEPT ![r] = [l EXCEPT !.rejections = 0]]
                           EXCEPT ![owner].repairs = @ + 1]
        /\ UNCHANGED <<final, row, progress, shared>>

\* Repairs used up, a verifier that does not fit the target, or an uncertain
\* verdict on a risky goal.
FinishRefused(r) ==
    /\ Planned(r)
    /\ \E status \in {"partial_success", "failed"} :
          Returns(r, Result(loop[r], status, FALSE))
    /\ UNCHANGED <<row, progress, shared>>

-----------------------------------------------------------------------------
(* A patch with a node.                                                    *)

\* The row when the patch is looked at: the first one moves it to "planned".
PlannedRow(r) ==
    IF loop[r].understood THEN row[r] ELSE Transition(row[r], "planned")

Proposed(r) == [loop[r] EXCEPT !.rejections = 0, !.understood = TRUE]

\* _try_complexity_routing, after the first patch only.
Routed(r) ==
    /\ Planned(r)
    /\ r \in Complex /\ ~loop[r].understood
    /\ pc' = [pc EXCEPT ![r] = "routed"]
    /\ loop' = [loop EXCEPT ![r] = Proposed(r)]
    /\ row' = [row EXCEPT ![r] = PlannedRow(r)]
    /\ plan' = [plan EXCEPT ![r] = NewPlan]
    /\ UNCHANGED <<final, progress, cancelled, restarts>>

\* PlannerGuard asks for a path outside the workspace (ApprovalGate), and what
\* it then awaits does not exist: no handler of that exception is on the way.
GuardRaises(r) ==
    /\ Planned(r)
    /\ pc' = [pc EXCEPT ![r] = "raising"]
    /\ loop' = [loop EXCEPT ![r] = LoopStart]
    /\ row' = [row EXCEPT ![r] = PlannedRow(r)]
    /\ UNCHANGED <<final, progress, shared>>

GuardRefuses(r) ==
    /\ Planned(r)
    /\ Returns(r, Failure(Proposed(r)))
    /\ row' = [row EXCEPT ![r] = PlannedRow(r)]
    /\ UNCHANGED <<progress, shared>>

\* _handle_schema_replan
SchemaViolated(r) ==
    /\ Planned(r)
    /\ IF loop[r].schemas < MaxSchemaReplans
            THEN Continues(r, [Proposed(r) EXCEPT !.schemas = @ + 1])
            ELSE Returns(r, Failure(Proposed(r)))
    /\ row' = [row EXCEPT ![r] = PlannedRow(r)]
    /\ UNCHANGED <<progress, shared>>

\* _handle_dedup_replan: only what has succeeded can be repeated.
Duplicate(r) ==
    /\ Planned(r)
    /\ loop[r].ok # {}
    /\ IF loop[r].deduped
            THEN Breaks(r, Proposed(r), FALSE, TRUE)
            ELSE Continues(r, [Proposed(r) EXCEPT !.deduped = TRUE])
    /\ row' = [row EXCEPT ![r] = PlannedRow(r)]
    /\ UNCHANGED <<progress, shared>>

ApplyPatch(r) ==
    /\ Planned(r)
    /\ pc' = [pc EXCEPT ![r] = "executing"]
    /\ loop' = [loop EXCEPT ![r] = [Proposed(r) EXCEPT !.nodes = @ + 1]]
    /\ row' = [row EXCEPT ![r] = Transition(PlannedRow(r), "running")]
    /\ UNCHANGED <<final, progress, shared>>

\* The loop state when the cycle has ended with this outcome of its new node.
AfterCycle(r, outcome) ==
    LET l == loop[r]
    IN  [l EXCEPT !.ok = IF outcome = "success" THEN @ \cup {l.nodes} ELSE @,
                  !.bad = @ \/ outcome = "failed",
                  !.failures = IF outcome = "success" THEN 0 ELSE @ + 1]

\* The circuit breaker comes first, then the progress guard, which compares
\* with what it saw last, in whichever graph that was.
CycleEnds(r, outcome) ==
    LET l == AfterCycle(r, outcome)
        stuck == l.ok \subseteq progress.seen
        still == IF stuck THEN progress.still + 1 ELSE 0
    IN  IF l.failures >= MaxFailures
            THEN /\ Returns(r, Failure(l))
                 /\ UNCHANGED progress
        ELSE IF stuck /\ still >= MaxStill
            THEN /\ Breaks(r, l, FALSE, FALSE)
                 /\ progress' = [progress EXCEPT !.still = still]
        ELSE /\ Continues(r, l)
             /\ progress' = [seen |-> l.ok, still |-> still]

\* A node is left unexecuted only below one that failed.
Execute(r) ==
    /\ pc[r] = "executing"
    /\ \E outcome \in {"success", "failed", "unexecuted"} :
          /\ outcome = "unexecuted" => loop[r].bad
          /\ CycleEnds(r, outcome)
    /\ UNCHANGED <<row, budget, shared>>

-----------------------------------------------------------------------------
(* The plan of a complex task: TaskPlanExecutor.execute.                   *)

StartAttempt(t, p) ==
    /\ plan' = [plan EXCEPT ![t] = p]
    /\ pc' = [pc EXCEPT ![UnitRun[t]] = "queued"]
    /\ final' = [final EXCEPT ![UnitRun[t]] = NoResult]
    /\ UNCHANGED <<loop, row, budget, progress, cancelled, restarts>>

StartUnit(t) ==
    /\ pc[t] = "routed" /\ Current(plan[t]) = {}
    /\ \E u \in Units : IsNext(plan[t], u) /\ StartAttempt(t, Begin(plan[t], u))

AttemptOver(t) ==
    /\ pc[t] = "routed" /\ Current(plan[t]) # {}
    /\ pc[UnitRun[t]] \in {"returned", "raised"}

\* The unit's attempt succeeded; its output needs a node that succeeded.
UnitEnds(t) ==
    /\ AttemptOver(t) /\ final[UnitRun[t]].success
    /\ \E u \in Current(plan[t]), produced \in {FALSE, final[UnitRun[t]].produced} :
          plan' = [plan EXCEPT ![t] = MarkCompleted(plan[t], u, produced)]
    /\ pc' = [pc EXCEPT ![UnitRun[t]] = "idle"]
    /\ UNCHANGED <<loop, final, row, budget, progress, cancelled, restarts>>

\* Mutation of RetryUnit: one attempt too many.
RetriesOnceMore(t) ==
    /\ AttemptOver(t) /\ ~final[UnitRun[t]].success
    /\ plan[t].attempt <= MaxRetries + 1
    /\ StartAttempt(t, [plan[t] EXCEPT !.attempt = @ + 1])

RetryUnit(t) ==
    /\ AttemptOver(t) /\ ~final[UnitRun[t]].success
    /\ plan[t].attempt <= MaxRetries
    /\ StartAttempt(t, [plan[t] EXCEPT !.attempt = @ + 1])

UnitFails(t) ==
    /\ AttemptOver(t) /\ ~final[UnitRun[t]].success
    /\ plan[t].attempt > MaxRetries
    /\ \E u \in Current(plan[t]) :
          plan' = [plan EXCEPT ![t] = MarkFailed(plan[t], u)]
    /\ pc' = [pc EXCEPT ![UnitRun[t]] = "idle"]
    /\ UNCHANGED <<loop, final, row, budget, progress, cancelled, restarts>>

\* The executor's own names for the three outcomes.
PlanStatus ==
    [o \in Outcome |-> CASE o = "completed" -> "completed"
                        [] o = "degraded" -> "partial_success"
                        [] o = "failed" -> "failed"]

\* Mutation of PlanEnds: without on_execution_started.
PlanEndsUnstarted(t) ==
    LET p == BlockedBefore(plan[t], NumUnits + 1)
        status == PlanStatus[ReduceWithPlan(p.unit)]
    IN  /\ pc[t] = "routed" /\ Current(plan[t]) = {}
        /\ Executable(plan[t]) = {}
        /\ plan' = [plan EXCEPT ![t] = p]
        /\ Returns(t, [Result(loop[t], status, status # "failed")
                          EXCEPT !.produced = \E u \in Units : p.output[u] = "produced"])
        /\ UNCHANGED <<row, budget, progress, cancelled, restarts>>

\* The row is moved to "running" only now, when the plan is over.
PlanEnds(t) ==
    LET p == BlockedBefore(plan[t], NumUnits + 1)
        status == PlanStatus[ReduceWithPlan(p.unit)]
    IN  /\ pc[t] = "routed" /\ Current(plan[t]) = {}
        /\ Executable(plan[t]) = {}
        /\ plan' = [plan EXCEPT ![t] = p]
        /\ Returns(t, [Result(loop[t], status, status # "failed")
                          EXCEPT !.produced = \E u \in Units : p.output[u] = "produced"])
        /\ row' = [row EXCEPT ![t] = Transition(@, "running")]
        /\ UNCHANGED <<budget, progress, cancelled, restarts>>

-----------------------------------------------------------------------------
(* The environment.                                                        *)

\* A cancel that comes later changes nothing here.
Cancel(t) ==
    /\ t \in Cancellable \ cancelled
    /\ pc[t] \in {"queued"} \cup Looping
    /\ cancelled' = cancelled \cup {t}
    /\ UNCHANGED <<pc, loop, final, row, plan, budget, progress, restarts>>

\* The process dies and is started again; rows older than two hours are
\* cleaned up, which any of them may be.
Restart ==
    /\ restarts < MaxRestarts
    /\ \E r \in Runs : pc[r] \notin Over \cup {"idle"}
    /\ pc' = [r \in Runs |-> IF pc[r] \in Over \cup {"idle"} THEN pc[r] ELSE "lost"]
    /\ loop' = [r \in Runs |-> LoopStart]
    /\ \E old \in SUBSET Runs :
          row' = [r \in Runs |-> IF r \in old THEN CleanUp(row[r]) ELSE row[r]]
    /\ budget' = 0
    /\ progress' = FreshProgress
    /\ plan' = [t \in Complex |-> IF pc[t] = "routed" THEN NewPlan ELSE plan[t]]
    /\ cancelled' = {}
    /\ restarts' = restarts + 1
    /\ UNCHANGED final

\* Rows are archived thirty days after they ended; no run lasts that long.
Archive(r) ==
    /\ \A s \in Runs : pc[s] \in Over \cup {"idle"}
    /\ row[r].status \in EndStatus
    /\ row' = [row EXCEPT ![r] = Archived(@)]
    /\ UNCHANGED <<pc, loop, final, plan, budget, progress, cancelled, restarts>>

-----------------------------------------------------------------------------
(* One run's own steps; a plan's steps are its task's.                     *)

Planning(r) ==
    \/ PlannerRaises(r) \/ PlanTruncated(r)
    \/ DirectReply(r)
    \/ FinishRejected(r) \/ FinishVerified(r) \/ FinishRepaired(r) \/ FinishRefused(r)
    \/ Routed(r) \/ GuardRaises(r) \/ GuardRefuses(r)
    \/ SchemaViolated(r) \/ Duplicate(r) \/ ApplyPatch(r)

Step(r) ==
    \/ EnterLoop(r) \/ AnswerGap(r)
    \/ Stopped(r) \/ ExceedsLimit(r) \/ ShowsEvidence(r) \/ CallPlanner(r)
    \/ Planning(r)
    \/ Execute(r)
    \/ Finalize(r)

PlanStep(t) == StartUnit(t) \/ UnitEnds(t) \/ RetryUnit(t) \/ UnitFails(t) \/ PlanEnds(t)

Next ==
    \/ \E t \in Tasks : Submit(t) \/ Cancel(t)
    \/ \E r \in Runs : Step(r) \/ Archive(r)
    \/ \E t \in Complex : PlanStep(t)
    \/ Restart

\* The planner and the skills come back (both calls have timeouts), and a run
\* that can go on does.
Spec ==
    /\ Init /\ [][Next]_vars
    /\ \A r \in Runs : WF_vars(Step(r))
    /\ \A t \in Complex : WF_vars(PlanStep(t))

-----------------------------------------------------------------------------
(* Properties.                                                             *)

LoopStates ==
    [calls : Nat, nodes : Nat, ok : SUBSET Nat, bad : BOOLEAN,
     truncations : Nat, schemas : Nat, deduped : BOOLEAN, rejections : Nat,
     repairs : Nat, failures : Nat, understood : BOOLEAN, reply : BOOLEAN]

PlanStates ==
    [unit : [Units -> UnitStatus], output : [Units -> OutputStatus],
     attempt : 0..(MaxRetries + 1)]

Results ==
    [status : {"none", "success", "partial_success", "failed", "completed"},
     success : BOOLEAN, produced : BOOLEAN, replied : BOOLEAN, gap : BOOLEAN]

\* Every variable has its type: no unit is attempted more than 1 + max_retries
\* times, and no row gets a status that is not in the transition table.
TypeOK ==
    /\ pc \in [Runs -> Phases]
    /\ loop \in [Runs -> LoopStates]
    /\ final \in [Runs -> Results]
    /\ row \in [Runs -> SessionRow]
    /\ plan \in [Complex -> PlanStates]
    /\ budget \in Nat
    /\ progress \in [seen : SUBSET Nat, still : Nat]
    /\ cancelled \subseteq Tasks
    /\ restarts \in 0..MaxRestarts

\* A run that has begun to execute leaves an ended row, whichever of its many
\* exits it takes; the call of on_execution_started before a routed result is
\* returned (graph_controller.py:575) is there for this.  Only runs that never
\* executed, themselves or through a plan, may leave their row open.
Executed(r) ==
    \/ row[r].status \in {"running", "waiting"}
    \/ r \in Complex /\ plan[r].unit[1] # "pending"

StartedRowEnds ==
    \A r \in Runs :
        pc[r] \in {"returned", "raised"} /\ Executed(r) => row[r].status \notin Unfinished

\* A run is reported as a success only when some node of it succeeded, the
\* planner has answered by itself, or the run was turned down before the loop
\* for a missing capability (which the code calls a success): repairs, forced
\* exits, an accepted FINISH and the reducer's many signals never make one out
\* of nothing.
SuccessHasWork ==
    \A r \in Runs :
        pc[r] = "returned" /\ final[r].status = "success"
            => final[r].produced \/ final[r].replied \/ final[r].gap

\* A unit of a plan is worked on only when the unit it depends on is over and
\* has produced the output it refers to.
UnitNeedsMet ==
    \A t \in Complex : \A u \in Current(plan[t]) : \A d \in DependsOn(u) :
        plan[t].unit[d] \in {"completed", "degraded"} /\ plan[t].output[d] = "produced"

\* The executor says "completed" of a plan only when every unit is, although
\* the reducer says it as well of a plan with units nobody executed; and never
\* calls it a failure when a unit was completed.
PlanHonest ==
    \A t \in Complex :
        pc[t] = "returned" /\ plan[t].unit[1] # "pending" =>
            /\ final[t].status = "completed" <=> \A u \in Units : plan[t].unit[u] = "completed"
            /\ final[t].status = "failed" => \A u \in Units : plan[t].unit[u] # "completed"

\* The rows of tasks follow the abstract life cycle, through the hooks that
\* swallow refused transitions, the clean-up that ignores the table, and the
\* archiver.
RowOf(r) ==
    INSTANCE StatusLifecycle
        WITH Table <- SessionTransitions, Initial <- "created", Ending <- EndStatus,
             status <- IF row[r].status = "absent" THEN "created" ELSE row[r].status,
             ended <- row[r].stamped

ImplementsLifecycle ==
    /\ \A t \in Tasks : RowOf(t)!Init
    /\ [][\A t \in Tasks : [RowOf(t)!Next]_(RowOf(t)!vars)]_row

\* A task that was submitted comes to an end (or is lost with its process),
\* when there are fewer complex tasks than slots: planner errors, rejected
\* FINISHes, repairs, replans and retries all run out.
EveryRunReturns == \A t \in Tasks : pc[t] = "queued" ~> pc[t] \in Over

\* Claimed by the comment at graph_controller.py:571-574: a routed result can
\* go "running -> completed/failed legally", and does not fall back to "failed".
CompletedPlanRecorded ==
    \A t \in Complex :
        pc[t] = "returned" /\ final[t].status = "completed"
            => row[t].status \in {"completed", "archived"}
=============================================================================
