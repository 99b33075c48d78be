# AvatarOS in TLA+

Specifications of the parts of the AvatarOS backend (`src/server/app`, Python)
whose correctness depends on interleaving, ordering, failure or counting. Each
module is translated from the code it names at its head; TLC checks it on small
instances, and TLAPS proves the safety properties that matter most for every
value of the constants.

Paths below are relative to `src/server/app`.

## 1. Inventory

### How the system works

A chat message becomes an intent. A background task (`api/chat/executor.py`)
registers a control handle and calls the runtime, which waits for a slot of the
`GraphController` and runs the intent in one of three modes. ReAct mode asks a
planner for one step at a time, applies it to an execution graph and runs one
cycle of `GraphRuntime`; a complex intent is routed to a plan whose units are
ReAct runs of their own. DAG mode plans a whole graph and runs it to completion;
multi-agent mode hands it to a supervisor. Every run has a session row. Nodes of
a graph call skills: some run code in containers drawn from a pool, some work on
the desktop and ask a person first, one is an autonomous loop over the screen.
Beside this, workflows have an orchestrator of their own, and a set of stores
(`services/*_store.py`) persists task sessions, steps, effects and checkpoints.

Most of it runs on one asyncio loop, so steps of coroutines interleave only at
`await`. Real threads exist in the container pool and in FastAPI's thread pool,
which runs the synchronous operation endpoints against the same database. A
second server process may use that database too.

### Components

| Component | State | Operations | Hard behaviour | What makes it correct |
|---|---|---|---|---|
| Graph engine: `avatar/runtime/graph/{runtime,scheduler,executor}` | node statuses, edges, live coroutines, retry counts | schedule, run a batch, retry, propagate a failure, time out | coroutines of a batch; `gather` that abandons a batch; back-off | dependency order, final statuses, nothing run twice, runs settle |
| ReAct controller: `graph/controller/{graph_controller,react,guards}` | loop counters, shared budget and progress guard, results | limit, plan, finish, repair, route, finalize | some twenty exits, guards shared by concurrent runs, nested runs on the same slots | results match work done, rows are closed, every run returns |
| DAG controller, planner guard | the graph | apply a patch, run a cycle, stop | the planner sees a cycle that may still be in motion | acyclic graphs, settled cycles |
| Task plans: `avatar/runtime/task` | units, outputs, attempts | next unit, complete, fail, propagate | blocking while the list is walked | units in order, honest outcome |
| Execution sessions: `services/session_store.py`, `graph/lifecycle` | a row per run | transition, clean up, archive | hooks that swallow refusals, clean-up that ignores the table | the life cycle is followed |
| Task control: `api/chat/cancellation.py`, `graph/controller/react` | handle status, two events, aliases, slots | register, cancel, pause, resume, wait | requests at every suspension point; units that queue for a second slot | no lost wake-up, a cancel stops, slots come back unless jammed |
| Container pool: `avatar/runtime/executor/container_pool.py` | five collections, entry states, docker's view | acquire, release, spawn, health check, clean up | threads; state written outside the lock; docker failing | exclusive use, nothing forgotten |
| TaskSession status: `services/task_session_store.py` | status row | `transition` | read, validate, then conditional update | only legal edges; losers are told |
| TaskSession lease: same file, `services/heartbeat_manager.py` | owner and expiry | acquire, renew, release | stale clock readings, crashes | one owner at a time |
| Multi-agent: `avatar/runtime/multiagent` | subtask graph, workers, repairs, cache | dispatch, reuse, repair, replan, harvest | coroutines sharing workers, failures outside the try block | one subtask per worker, order, the loop ends |
| Approvals: `services/approval_service.py`, `executor/desktop.py`, `skills/core/approval.py`, `graph/guard` | request rows, polling gates | create, respond, expire, reopen, retry | answers before, between and after the looks; restarts | nothing passes unapproved, one decision each |
| Computer use: `services/computer` | step, calls, streaks, retries | observe, think, check, act, verify, judge | a screen that changes and a clock that runs between check and action | little happens past the time limit, gives up for cause, ends |
| TaskSession management, recovery: `services/recovery_engine.py`, `*_store.py` | rows, checkpoints | scan, recover, resume | not reached at this commit | |
| Workflow: `services/workflow` | instance and step rows | start, pause, resume, retry | fails at its first scheduling | |
| Event bus, resilience helpers, policy, kernel, gate runtime | subscriptions, counters, accounts | | idle or without concurrent state | |
| Browser, data, knowledge services; bootstrap, HTTP API | external resources, wiring | I/O | mostly outside the program | |

How they interact: the chat task calls the controller (slots); the controller
calls the engine (a cycle), the planner guard (approval of a path), the plan
executor (which calls the controller again) and the session store (hooks); the
engine's node runner calls skills, whose errors its retry policy classifies; the
desktop executor and the approval skill meet their answer in a database row.
`ReactController` composes `TaskPlan`, `OutcomeReducer` and `ExecutionSession`;
for it a cycle of the engine is one step, which `GraphExecution` details.

## 2. Modules

| Module | Models | Checked with | Proved in |
|---|---|---|---|
| `StateMachines` | the transition table of `models/state_machines.py` | | |
| `StatusLifecycle` | abstract: a status that moves along a table and is stamped at its end | refined by three modules | with those, nodes and containers |
| `StatusStore` | `TaskSessionStore.transition` under concurrent callers | `MCSessionStore` | `TaskSession_proof` |
| `SessionLease` | lease columns, heartbeat loop, crashes | `MCSessionLease` | `TaskSession_proof` |
| `GraphExecution` | engine, scheduler, node runner, the controllers' part | `MCGraphExecution` | `GraphExecution_proof` |
| `TaskControl` | handles, aliases, ReAct control check, semaphore | `MCTaskControl` | `TaskControl_proof` |
| `ContainerPool` | pool collections, callers, health thread, spawn threads | `MCContainerPool` | `ContainerPool_proof` |
| `ReactController` | the ReAct loop of several runs, plans, session rows, restarts | `MCReactController` | `ReactController_proof` |
| `TaskPlan` | the chain of units and its operations | with `ReactController` | with `ReactController` |
| `OutcomeReducer` | the outcome of a run and of a plan | with `ReactController` | with `ReactController` |
| `ExecutionSession` | the row: table, clean-up, archiver | with `ReactController` | with `ReactController` |
| `SupervisorRuntime` | dispatch loop, workers, repair, feedback, cache | `MCSupervisorRuntime` | `SupervisorRuntime_proof` |
| `ApprovalGate` | requests, polling gate, skill, planner guard, retries | `MCApprovalGate` | `ApprovalGate_proof` |
| `OtavLoop` | the observe-think-act-verify loop | `MCOtavLoop` | `OtavLoop_proof` |

A definition headed "Mutation of ..." is a plausible bug in place of the
definition that follows it. No behaviour uses it; substituting it must make the
property it is meant for fail, which shows that the property depends on the
code.

### StatusStore

`BeginTransition` is the read and validation, `CommitTransition` the UPDATE that
still matches, `RejectTransition` the row count of 0. The read and the write are
separate steps because pysqlite takes the write lock only at the UPDATE. `hops`
records what the last successful caller goes on to report to hooks.

### SessionLease

Each of `acquire_lease` and `renew_heartbeat` is two steps, the clock reading
and the UPDATE that carries it. `Tick` moves the clock in between, `Crash`
removes a worker. `until[w]` is what worker `w` believes: the expiry it last
wrote. The heartbeat may run without a lease, as `_start_heartbeat` allows.

### GraphExecution

A step is what happens between two suspensions: the head of the loop up to the
gather (`LoopEnds`, `TimeLimitExceeded`, `Deadlock`, `NothingReady`,
`Schedule`), the first slice of all gathered coroutines (`StartBatch`), one
slice of one coroutine (`SkillSucceeds`, `PostProcessed`, `SkillFails`,
`Retry`), and the gather's wake-up (`GatherReturns`, `GatherRaises`).
`Incremental` selects ReAct or DAG control. `Escapes` are the nodes whose
workspace snapshot may raise outside `run_node`'s try block: then the gather
abandons its batch and the other coroutines run on.

Failure propagation is recursive in the code. Here it is the least set of nodes
closed under its step (`SkipClosed`, `Skipped`), which keeps the module free of
recursive operators.

### TaskControl

`phase` follows the coroutine of a chat task from registration through the
semaphore to the top of each ReAct iteration. `Resolved` is what setting an
asyncio event does: it resolves the waits pending at that moment, and the woken
coroutine runs later (`Wake`), when the handle may have changed again. A task in
phase `unobserved` runs in a mode that is given no handle. An iteration of a
complex task may be routed to a plan (`Route`): each attempt at a unit of it
queues for the same semaphore (`StartUnit`, `AcquireUnit`) while the task keeps
the slot it has, and runs without a handle. `Jammed` says that every slot is
kept by a task whose unit waits for one.

### ContainerPool

A step is a locked section, a write of `entry.state` or a docker call, because
anything may happen between these. Callers go through `acquire` and `release`;
the health thread goes through its round, taking snapshots first and acting on
them later; spawn threads create containers. `Crash` stops a container at any
time. Docker may refuse calls on the members of `Flaky`: their removal may fail,
and they may be created and forgotten (`LoseCreated`).

### ReactController, TaskPlan, OutcomeReducer, ExecutionSession

`loop[r]` is the `ReactLoopState` of run `r` (counters, and which of the graph's
nodes succeeded), `pc[r]` where it awaits. `Planning` has one disjunct per way
an iteration goes on after the planner's answer: truncation, direct reply,
FINISH (rejected, verified, repaired, refused), routing to a plan, guard, schema
replan, duplicate, patch. `Returns` and `Breaks` set the result, and `Finalize`
is the `finally` block, entered from `raising` as well. A result's `produced`,
`replied` and `gap` say what stands behind it: a node that succeeded, the
planner's own answer, or the capability gap that turns a run down before its
loop. `budget` and `progress` are single variables because `BudgetGuard` and
`GoalTracker` belong to the controller: whoever enters resets them for all.
Units of a plan are runs (`UnitRun`) that queue for slots of the same semaphore
while their task holds one. `Restart` loses the runs of the process and cleans
the rows up.

`ReactController`'s refinement `ImplementsLifecycle` says that what hooks,
clean-up and archiver do to a task's row is a move of `StatusLifecycle`.

### SupervisorRuntime

`StopAllOver`, `Dispatch`, `Wait` and `Poll` are the ways one turn of the
dispatch loop (harvest, propagation, replan requests, ready nodes) reaches its
next await, and `run[n]` is the phase of a node's dispatch coroutine: queued on
the semaphore, in the executor with a worker, in the back-off of a repair.
`Spawned`, `CanSpawn` and `Reusable` are the pool's decisions; `SpawnDenied` is
the exception that leaves `_acquire_worker` outside `_dispatch_node`'s try
block. `reopened` remembers the completed nodes that their own malformed
feedback has made pending again. `Plans` are the edge sets the decomposition may
return, `Caches` what earlier runs left in the result cache.

### ApprovalGate

`row[i]` is a request, `pc[g]` a gate. `Poll` is a look of the desktop executor
after a sleep; between its looks answers, expiry, clean-up and other gates
happen. The approval skill asks under one shared id. Two ways around the desktop
gate make no request and are not modelled: the break-glass variable, and the
approval of HIGH operations by an executor that was built without an
`ApprovalService` (`executor/desktop.py:230-260`; its factory passes one unless
getting the service raises). `Retried` is the recovery policy's decision from
the class of the error and from the errors seen before at the same step id,
whichever graph they came from. `DecidedOnce` is a refinement of
`StatusLifecycle`, for every request.

### OtavLoop

A step is a phase of `run` up to its next wait. `gui` is the observation the
iteration acts on, chosen freely at each look, `late` that the time limit has
passed. `Refused` and `Dangerous` are `SafetyGuard.check_action`, which the loop
evaluates before the target is located (`Block`, `AskApproval`, `Allow`) and the
executor again after it (`Act`); then it waits for its rate limiter and uses the
mouse or the keyboard (`Input`). The `ctrl+z` of an undo (`Fallback`) is
evaluated nowhere. `lateInputs` counts what reaches the screen once `late`.
`Recorded`, `GivesUp` and `Verify` are the stuck detector; `history` keeps the
verdicts so that a streak can be compared with what happened. Vision model,
planner, locator and verification answer anything.

## 3. Runs

| Run | Instance | States | Question |
|---|---|---|---|
| `MCSessionStore` | 3 callers, real table, 8 commits | 12,562 | does the row follow its life cycle whatever callers interleave? |
| `MCSessionLease` | 2 workers, timeouts 2 and 3, clock to 6 | 16,119 | is there one owner at a time? |
| `MCGraphDag` | 4 nodes, all 81 variants of a diamond, 2 at a time, 1 retry, time limit | 173,239 | does a planned run settle everything, and skip only for cause? |
| `MCGraphReact` | 4 nodes added one by one, 1 retry, one snapshot may raise | 321,523 | does the incremental loop stay sound over abandoned batches? |
| `MCTaskControl` | 2 tasks, both may be complex, 2 slots, 2 iterations, 2 attempts at units | 27,489 | do cancel, pause and resume do what they say? |
| `MCContainerPool` | 2 containers (1 flaky), 2 callers, pool size 1, 1 spawn thread | 610,200 | are containers exclusive and never lost? |
| `MCSupervisorRuntime` | 3 subtasks as fork, join or chain, 2 workers, 2 slots, 1 repair, malformed feedback | 471,173 | are workers exclusive, is order kept, does the loop end for cause? |
| `MCReactController` | a simple and a complex task, a 2-unit plan, 2 slots, 1 restart | 261,017 | do results match work, are rows closed, does every run return? |
| `MCReactPlanRecorded` | the same | violation | is a completed plan recorded as completed? |
| `MCApprovalGate` | a desktop operation and two approval nodes with one step id, a path, a reopened request, 2 polls, 1 retry, 1 restart | 1,027,516 | does anything pass that does not stand approved? |
| `MCOtavLoop` | 3 windows, 4 steps, 16 calls, streak limits 2, 2, 1, 1 retry, 2 polls | 2,264,590 | does a desktop session leave the screen alone in time, give up for cause, end? |
| `MCPoolInUse` | 2 containers, 1 caller | violation | is a container ever deleted under its user? |

The states are counted after symmetry where the cfg declares it (interchangeable
callers or workers; no liveness property is checked with symmetry).

Why these bounds are enough.

* Three callers are a winner, a loser and one in between; 8 commits exceed the
  longest path of the table. Timeouts of 2 and 3 ticks under a clock of 6 leave
  room for an expiry, a takeover and a late renewal.
* A diamond has a fork, a join and both kinds of edge, and with a limit of 2
  there is a cut to make. Two tasks on two slots are the fewest with both
  outcomes: a task queues while the other and its unit hold the slots, and the
  units of both jam them. Two containers let one be replaced by the other while two
  callers compete.
* Three subtasks of two roles let two dispatches compete for a worker, one be
  denied by its role's limit, and a failure lie above and below running nodes. A
  worker is quarantined after 2 failures, and reused before that.
* A plan of two units has a dependency to violate and a failure to propagate;
  with two slots a simple run can stand between a task and its unit. The limits
  (1 or 2) are each reached, and exceeded, by some behaviour.
* Two polls are a look before and one after an answer; with one retry and three
  equal step ids one node uses up the other's count of errors, and two approval
  nodes share a request.
* Four steps fit a full streak, the new plan it causes and the second streak; 16
  calls run out before or after the steps do.

`CHECK_DEADLOCK FALSE` is set where the system really stops: a run that is done,
a bounded number of commits, ticks or restarts, tasks that have ended, no
container left.

### Fairness

* `GraphExecution`: the event loop runs what is ready and a skill call returns
  or raises (each backend has its own timeout).
* `TaskControl`: the same for the task's own coroutine; users are never obliged
  to act, so `QueueServed` assumes explicitly that no task stays paused for
  ever. It and `CancelFreesSlot` say "or the slots are jammed": the instance
  reaches the jam.
* `ContainerPool`: rounds go on, code in a container ends, a spawn thread polls
  twenty times at most. The run's properties are safety.
* `SupervisorRuntime`: the loop, and for each node its start, its answer and the
  end of its back-off. The time limit (`Expire`) is not fair, so `RunEnds` does
  not lean on it.
* `ReactController`: each run's and each plan's own steps; planner and skills
  have timeouts. `EveryRunReturns` is checked with fewer complex tasks than
  slots: with as many, each holds a slot its unit waits for, and the model
  stands still, as the code does.
* `OtavLoop`: model and drivers answer or raise. `Expire` is not fair: the time
  limit only blocks actions and does not end the session.

### What the code does otherwise than it says

Two runs end in a counterexample to a comment.

* `MCReactPlanRecorded`. `graph_controller.py:571` starts the row "so
  `_finalize_react_session` can do running → completed/failed legally". The plan
  executor returns the status `completed`, which the finalizer does not know; it
  takes its defaults and records `failed`.
* `MCPoolInUse`. "Taken by acquire in the meantime, ignore"
  (`container_pool.py:553`). The next loop marks the entry BROKEN all the same,
  and clean-up deletes the container its user runs code in.

Met while modelling, part of the models, and not run as checks:

* Engine. A step the ReAct planner adds below a failed one stays PENDING,
  against `graph_runtime.py:507`: `get_ready_nodes` raises `DeadlockError`
  before propagation is reached. After a snapshot error the next cycle adds a
  full batch to the coroutines that still run (`scheduler.py:10`).
* Task control. A complex task keeps its slot while its units queue for one on
  the same semaphore (`graph_controller.py:238` under `plan_executor.py:188`).
  With as many complex tasks as slots all of them wait for ever; a cancel does
  not end it, since nobody there looks at a handle. Nor do units that run look
  at one: a plan goes on after a cancel. `unregister_task` removes one of two
  keys, so a cancel by graph id is accepted after the end
  (`api/task/execution.py:134`). A loop woken by a resume does not look again at
  a pause that follows at once.
* Container pool. `release` may overwrite BROKEN and the entry is then passed
  over by every clean-up; replacement threads start whatever the pool's size,
  and busy containers are not counted.
* ReAct controller. `BudgetGuard`, "per-task" by its comment
  (`budget_guard.py:30`), is shared and reset by every run. A reply kept from a
  rejected FINISH makes the run of an action intent a success without an action
  (`graph_controller.py:497-499`).
* Supervisor. A denied spawn is raised outside try and retry. A repaired node
  may be answered from the cache. Malformed feedback raises after
  `mark_completed`, and the completed node is made pending again below nodes
  that may have started (`reopened`); the checked instance has it.
* Approvals. Every `approval.request` node asks under `approval_unknown_unknown`
  (`skills/core/approval.py:56`, ids are never set), so one answer serves all of
  them for as long as the row exists. A denial is a `PermissionError`, an
  `OSError`, which is classified as a network error and asked again. An approval
  given during the last sleep is not looked at. `PlannerGuard` awaits
  `wait_for_approval`, which does not exist. A timeout of 0 raises after the row
  is committed.
* Computer use. "`continue` means retry — loop will re-observe"
  (`otav_loop.py:249`), but the loop goes on to verify, and the next observation
  is a new step; `retry_count` spans the session. `stuck_reason`, set at the end
  of an iteration for the next plan, is cleared a few lines later, so the
  planner never reads it. `GoalJudge` is given the screenshot from before the
  action with the state from after it. `request_approval` does not exist on the
  service, so "Awaiting approval" ends the session with nothing to answer and
  its pending plan is never resumed. The `ctrl+z` of undo_and_retry is sent
  without a check, also when nothing was done, on a window that was refused, or
  past the time limit. The session's own `max_steps` and `timeout_seconds` are
  not read.

## 4. Proofs

All theorems hold for every value of the constants that satisfies the named
assumptions of the module: finite sets, positive limits, `None` outside the
values, a table closed under its own edges, and, for the engine and the
supervisor, plans without cycles (`AcyclicAssumption`), which `PlannerGuard` and
the decomposition enforce; later additions are checked inside the models. Each
theorem rests on an inductive invariant, shown to hold initially and to be kept
by every action; TLC checked each of them on an instance before it was proved.

Liveness is beyond the prover, which has no rules for fairness. Two things that
a liveness property rests on are safety, and are proved where a component has
them. Nobody waits for nothing: whoever is blocked has somebody who can still
step. And a variant: a step takes something bounded further. What the runs add
is that fairness then brings the end.

* `TaskSession_proof`, on the store. The type invariant contains `CallsValid`:
  who is inside `transition()` holds an edge of the table. With the conditional
  UPDATE that gives `Refinement`: each commit is a move of `StatusLifecycle`,
  everything else stutters. `ChainOfReports` follows from the invariant that the
  last reported status is the current one (`ReportedIsCurrent`).
* `TaskSession_proof`, on the lease. Exclusion alone is not inductive.
  `LeaseMatchesRow` is what carries it: who still believes in a lease is named
  by the row, with that very expiry. A stale reading can only make an expiry
  test fail, since readings never lie in the future (`ReadingsPast`).
* `GraphExecution_proof`. The invariant relates a coroutine's phase to its
  node's status and the batch. `NodesRunOnce`, `StartsInOrder` and
  `TerminalStays` hold for abandoned batches too; `CyclesSettle` assumes that
  nothing escapes. `SkipsHaveCause` uses that `Skipped` is the least closed set:
  without a node that has no cause it would still be closed.
  `NodesImplementLifecycle`: the status of a node is a `StatusLifecycle` along
  the table absent, pending, running or skipped, success or failed.
  `DeadlocksHaveCause` takes a pending node with no pending source, which an
  acyclic graph has: a required source of it has failed or was skipped.
  `CompleteRunsSettle` (planned runs, nothing escapes) needs to know how far the
  cascade of a failure has got (`CascadeInv`): each pass leaves no pending node
  below a failed or skipped one, so a planned run never ends as a deadlock.
  `RunAdvances` is the variant.
* `TaskControl_proof`. That a blocked loop is paused needs to know that its
  pause event is the complement of the paused status (`HandleConsistent`), and
  that a resolved wait leaves the blocked phase in the same step. `CancelStops`
  and `PauseHolds` are read off this invariant. `OnlyPauseOrJam` adds that the
  queue holds exactly the tasks that wait, for themselves or for a unit
  (`QueueMatches`), and that slots are not overdrawn: when somebody waits and
  nobody can step, a holder is paused or the slots are jammed. `JamLasts` and
  `JamTakesComplexTasks` say what a jam is: for good, and no fewer complex tasks
  than slots. `TasksComeToAnEnd` is the variant: requests never take a task
  back.
* `ContainerPool_proof`. The right to touch a container is handed over, never
  copied: it is on its way to the queue, in it, held by one caller, or retired.
  `CondemnedKnown` is the part that `NoneForgotten` needs: a caller whose
  container is not busy any more uses a condemned one, which broken_set still
  has or docker has deleted. `CustodyFollowsLifecycle` states the hand-over as a
  refinement: the custody of each container is a `StatusLifecycle` whose table
  never leads from caller to caller and never back from gone.
* `SupervisorRuntime_proof`. The invariant says what the phase of a coroutine
  implies: one that waits or executes belongs to a running node, one in the
  executor holds a busy, healthy worker of its own. `CompletedStays` and
  `DependenciesFirst` hold for any feedback: a completed node whose coroutine is
  in back-off is the one exception, and the invariant keeps who has gone through
  it in `reopened`. `GivesUpOnlyForCause` needs that a running node has a
  coroutine (`RunningHasTask`), so that with nothing in flight a pass leaves
  none running; a node left over that is not ready then has a pending or failed
  source, and acyclicity leads from there to a failed one. `NoLostWakeup`: a
  waiting loop has its event set or a coroutine under way that will set it.
  `StepsAdvance` is the variant.
* `ReactController_proof`. Most actions go on to the next iteration or leave
  with a result, and share one proof (`LoopActions`). `SuccessIsEarned` needs
  `WorkKnown`: between iterations a graph with nodes has one that succeeded or
  one that failed. `RowsEnd` needs to know which rows are open in which phase,
  and `RowsFollowLifecycle` that a task has none before it enters.
  `PlansReportedHonestly` speaks of all units of a plan; its invariant keeps the
  frontier, the last unit reached, as a witness, which avoids an induction.
  `RunsComeToAnEnd` is the variant: a run starts again only as the next attempt
  or unit of a plan that has itself gone further, and the planner is called no
  more than a run may. `OnlyJamsStickRuns` holds for any number of slots: the
  holders that only wait are routed tasks, so another holder, or a slot, is left
  for whoever queues, unless all the slots are held by tasks whose unit queues
  too. `JamsStay` and `JamsTakeComplexTasks` add that only a restart ends that,
  and that `EveryRunReturns`, checked with fewer complex tasks than slots, is
  clear of it. `CompletedPlansRecordedFailed` makes the finding of
  `MCReactPlanRecorded` universal: whatever hooks, clean-up and archiver do, the
  row of a returned task whose plan completed reads failed, or is archived as
  such.
* `ApprovalGate_proof`. Every writer leaves a decided row alone, and an open
  gate asks no more, so its request stays the same one.
* `OtavLoop_proof`. What an iteration has counted so far depends on its phase
  (`CallsAt`, `StepsCounted`), which gives `BudgetIsHeld`. `StuckOnlyForCause`
  reads the counters as history: a streak of n is the kind of the last n
  verdicts (`StreaksAreRuns`), and a replan leaves a full streak behind that no
  current one overlaps (`ReplanHadCause`). `LateInputsAreFew` counts down
  (`FewLateInputs`): past the time limit nothing new is cleared, so what is left
  is at most the action under way and, if that fails, its undo. `LoopAdvances`
  is the variant, which the number of steps, the phases and the looks at a
  loading screen bound.

The type invariants of `StatusStore`, `SessionLease`, `GraphExecution`,
`TaskControl` and `ApprovalGate` are proved and not run separately; those of
`ContainerPool`, `SupervisorRuntime`, `ReactController` and `OtavLoop` are both.
The safety halves of liveness and the variants named above, and the
refinements of nodes and containers, are proved and not run separately either.

Only model-checked: liveness (`RunSettles`, `CycleReturns`, `CancelFreesSlot`,
`QueueServed`, `RunEnds`, `EveryRunReturns`, `SessionEnds`). Every other
property of a passing run is stated by a theorem. The two properties of the
violation runs are false, so there is nothing to prove of them but the converse,
as above.

## 5. Not modelled

* Engine: node and edge limits (no configuration in the tree sets them), the
  replan patch of `run_node` (its planner is never set), concurrent cycles from
  fan-out nodes (no live planner emits them).
* ReAct: token and cost budgets, prompts, the durable and long-task contexts,
  which are off by default. Multi-agent: result fusion, traces, handoffs.
* `shutdown` of the pool; wall-clock durations, other than the clocks named.
* The database half of a cancel or pause addresses a TaskSession row by an
  intent id, which never is one.
* TaskSession management, step and effect stores, checkpoints and recovery:
  sessions stay in `created`, because `start_execution` is behind an import of a
  module that is not in the tree (`avatar/runtime/main.py:734`). The status
  store and the lease are modelled all the same: their contract is stated by the
  store.
* Workflow orchestration: the first scheduling raises
  (`services/workflow/instance_manager.py:231` passes objects to a scheduler
  that subscripts dictionaries), so its interleavings cannot happen.
* `CircuitBreaker` is registered and never called. After one good probe of a
  half-open breaker it would refuse for ever (`half_open_max_calls` is below
  `success_threshold`). The collaboration gate records a request that nothing
  waits for; the gate runtime and the kernel loop are idle.
* Event bus, policy engine: no state that interleaving could break. Locator
  scoring, verification strategies, browser, data and knowledge services, HTTP
  layer: data and I/O.

## 6. What is left

Worth doing next: an abstract task graph (each task starts after its sources and
ends once) that both the engine and the supervisor implement, and a controller
whose cycles are those of the engine; `shutdown` of the pool against its spawn
threads; a second cycle on one graph, should a planner come to emit fan-out
nodes; the workflow loop and the recovery engine once they can run.
