----------------------------- MODULE TaskControl -----------------------------
(***************************************************************************)
(* Cancelling, pausing and resuming chat tasks: TaskControlHandle and      *)
(* TaskControlManager (api/chat/cancellation.py), the background task that *)
(* registers a handle and runs the intent (api/chat/executor.py), and the  *)
(* GraphController that looks at the handle at the top of every ReAct      *)
(* iteration, behind the semaphore that bounds concurrent graphs.  A       *)
(* complex task is routed to a plan (TaskPlanExecutor), and every unit of  *)
(* the plan passes the same semaphore while its task keeps its own slot.   *)
(*                                                                         *)
(* All of it runs on one asyncio loop, so a step is what happens between   *)
(* two suspensions.  Users act at any time and as often as they like.      *)
(*                                                                         *)
(* The database half of a request is left out: it addresses the            *)
(* TaskSession row whose id is the request's task id, and the ids a handle *)
(* is registered under (intent and graph) never are one.                   *)
(*                                                                         *)
(* Paths are relative to server/app.                                       *)
(***************************************************************************)
EXTENDS Naturals, FiniteSets, Sequences

CONSTANTS
    Tasks,           \* chat tasks of one session
    Complex,         \* those the understanding layer may call "complex"
    MaxGraphs,       \* max_concurrent_graphs
    MaxIterations,   \* max_react_iterations
    MaxAttempts      \* bound on the attempts at all units of a plan

ASSUME TasksAssumption == IsFiniteSet(Tasks) /\ Complex \subseteq Tasks
ASSUME LimitsAssumption == {MaxGraphs, MaxIterations, MaxAttempts} \subseteq Nat \ {0}

Controls == {"running", "paused", "cancelled"}
Keys == {"intent", "graph"}

\* Where a task's coroutine is.  "queued" waits for the semaphore; "top" is
\* about to look at its handle; "blocked" awaits pause_event, "woken" has had
\* that wait resolved and not run yet; "iterating" plans and executes; "routed"
\* is in a plan, between two units; the unit in turn waits for the semaphore
\* ("unitQueued") or has its own slot ("unitRunning"); a task in "unobserved"
\* was routed to a mode that is given no handle; "leaving" runs the
\* controller's finally block; "released" has given its slot back.
Phases == {"new", "registered", "queued", "setup", "top", "blocked", "woken",
           "iterating", "routed", "unitQueued", "unitRunning", "unobserved",
           "leaving", "released", "ended"}
Holding == {"setup", "top", "blocked", "woken", "iterating", "routed",
            "unitQueued", "unitRunning", "unobserved", "leaving"}

VARIABLES
    control,      \* handle.status
    cancelEvent,  \* tasks whose handle.cancel_event is set
    pauseEvent,   \* tasks whose handle.pause_event is set: free to run
    phase,        \* where each task is
    iterations,   \* s.planner_invocations
    attempts,     \* attempts at units of the task's plan so far
    queue,        \* waiters of the semaphore, first come first served
    handles,      \* keys of the manager's _handles: <<task, key>>
    members       \* _session_tasks of the session

vars == <<control, cancelEvent, pauseEvent, phase, iterations, attempts, queue,
          handles, members>>
handleVars == <<control, cancelEvent, pauseEvent>>
registryVars == <<handles, members>>
loopVars == <<iterations, attempts>>

TypeOK ==
    /\ control \in [Tasks -> Controls]
    /\ cancelEvent \in SUBSET Tasks
    /\ pauseEvent \in SUBSET Tasks
    /\ phase \in [Tasks -> Phases]
    /\ iterations \in [Tasks -> 0..MaxIterations]
    /\ attempts \in [Tasks -> 0..MaxAttempts]
    /\ queue \in Seq(Tasks)
    /\ handles \in SUBSET (Tasks \X Keys)
    /\ members \in SUBSET Tasks

Init ==
    /\ control = [t \in Tasks |-> "running"]
    /\ cancelEvent = {}
    /\ pauseEvent = Tasks
    /\ phase = [t \in Tasks |-> "new"]
    /\ iterations = [t \in Tasks |-> 0]
    /\ attempts = [t \in Tasks |-> 0]
    /\ queue = <<>>
    /\ handles = {}
    /\ members = {}

Goto(t, p) == phase' = [phase EXCEPT ![t] = p]

-----------------------------------------------------------------------------
(* The task's coroutine *)

\* register_task: a fresh handle under the intent id, and the session's entry.
Register(t) ==
    /\ phase[t] = "new"
    /\ handles' = handles \cup {<<t, "intent">>}
    /\ members' = members \cup {t}
    /\ Goto(t, "registered")
    /\ UNCHANGED <<handleVars, loopVars, queue>>

\* GraphController.execute waits for the semaphore.
Enqueue(t) ==
    /\ phase[t] = "registered"
    /\ queue' = Append(queue, t)
    /\ Goto(t, "queued")
    /\ UNCHANGED <<handleVars, loopVars, registryVars>>

At(phases) == {t \in Tasks : phase[t] \in phases}

\* A unit that runs has a slot besides the one of its task.
SlotFree == Cardinality(At(Holding)) + Cardinality(At({"unitRunning"})) < MaxGraphs

\* A slot is free for the first waiter.
TakesSlot(t) ==
    /\ queue # <<>>
    /\ t = Head(queue)
    /\ SlotFree
    /\ queue' = Tail(queue)

\* Only the ReAct mode is handed the handle; the other modes run to their own
\* end.
Acquire(t) ==
    /\ phase[t] = "queued"
    /\ TakesSlot(t)
    /\ \E mode \in {"setup", "unobserved"} : Goto(t, mode)
    /\ UNCHANGED <<handleVars, loopVars, registryVars>>

\* _setup_react_session calls on_graph_created: alias_task adds the graph id as
\* a second key of the same handle.
CreateGraph(t) ==
    /\ phase[t] = "setup"
    /\ handles' = handles \cup {<<t, "graph">>}
    /\ Goto(t, "top")
    /\ UNCHANGED <<handleVars, loopVars, queue, members>>

\* Behind the control check: the iteration limit, then the next planner call.
Proceed(t) ==
    IF iterations[t] >= MaxIterations
    THEN Goto(t, "leaving") /\ UNCHANGED iterations
    ELSE /\ Goto(t, "iterating")
         /\ iterations' = [iterations EXCEPT ![t] = @ + 1]

\* Mutation of CheckControl: the pause is not waited for.
NeverWaits(t) ==
    /\ phase[t] = "top"
    /\ IF t \in cancelEvent
       THEN Goto(t, "leaving") /\ UNCHANGED iterations
       ELSE Proceed(t)
    /\ UNCHANGED <<handleVars, attempts, queue, registryVars>>

\* _check_cancellation_async up to its suspension, if it suspends at all.
CheckControl(t) ==
    /\ phase[t] = "top"
    /\ IF t \in cancelEvent
       THEN Goto(t, "leaving") /\ UNCHANGED iterations
       ELSE IF t \notin pauseEvent
       THEN Goto(t, "blocked") /\ UNCHANGED iterations
       ELSE Proceed(t)
    /\ UNCHANGED <<handleVars, attempts, queue, registryVars>>

\* Mutation of Wake: no second look at the cancel event after the wait.
WakesUnchecked(t) ==
    /\ phase[t] = "woken"
    /\ Proceed(t)
    /\ UNCHANGED <<handleVars, attempts, queue, registryVars>>

\* pause_event.wait() returns: the cancel event is looked at again, the pause
\* event is not.
Wake(t) ==
    /\ phase[t] = "woken"
    /\ IF t \in cancelEvent
       THEN Goto(t, "leaving") /\ UNCHANGED iterations
       ELSE Proceed(t)
    /\ UNCHANGED <<handleVars, attempts, queue, registryVars>>

\* An iteration that is not routed is over: back to the top, or a result, a
\* guard or an exception ends the loop.
EndIteration(t) ==
    /\ phase[t] = "iterating"
    /\ Goto(t, "top") \/ Goto(t, "leaving")
    /\ UNCHANGED <<handleVars, loopVars, queue, registryVars>>

-----------------------------------------------------------------------------
(* The plan of a complex task: TaskPlanExecutor.execute, which is not      *)
(* handed the handle and whose units get none.                             *)

\* _try_complexity_routing, at the first patch (the iterations before brought
\* none).
Route(t) ==
    /\ t \in Complex
    /\ phase[t] = "iterating" /\ attempts[t] = 0
    /\ Goto(t, "routed")
    /\ UNCHANGED <<handleVars, loopVars, queue, registryVars>>

\* An attempt at the next unit: GraphController.execute waits for the semaphore
\* in the middle of the task's own execute.
StartUnit(t) ==
    /\ phase[t] = "routed"
    /\ attempts[t] < MaxAttempts
    /\ attempts' = [attempts EXCEPT ![t] = @ + 1]
    /\ queue' = Append(queue, t)
    /\ Goto(t, "unitQueued")
    /\ UNCHANGED <<handleVars, iterations, registryVars>>

AcquireUnit(t) ==
    /\ phase[t] = "unitQueued"
    /\ TakesSlot(t)
    /\ Goto(t, "unitRunning")
    /\ UNCHANGED <<handleVars, loopVars, registryVars>>

\* The unit's run is over.  It is two deep, hence never routed itself, and has
\* an iteration limit of its own.
EndUnit(t) ==
    /\ phase[t] = "unitRunning"
    /\ Goto(t, "routed")
    /\ UNCHANGED <<handleVars, loopVars, queue, registryVars>>

\* The plan's result is the task's; when the executor raises, the iteration
\* goes on as an ordinary one.
EndPlan(t) ==
    /\ phase[t] = "routed"
    /\ Goto(t, "leaving") \/ (attempts[t] > 0 /\ Goto(t, "iterating"))
    /\ UNCHANGED <<handleVars, loopVars, queue, registryVars>>

-----------------------------------------------------------------------------
(* The end of the task's coroutine.                                        *)

\* Set-up fails, or a mode without handle comes to its end.
Abandon(t) ==
    /\ phase[t] \in {"setup", "unobserved"}
    /\ Goto(t, "leaving")
    /\ UNCHANGED <<handleVars, loopVars, queue, registryVars>>

\* The finally block is done and "async with" leaves the semaphore.
Release(t) ==
    /\ phase[t] = "leaving"
    /\ Goto(t, "released")
    /\ UNCHANGED <<handleVars, loopVars, queue, registryVars>>

\* unregister_task of the intent id; the alias of the graph id stays.
Unregister(t) ==
    /\ phase[t] = "released"
    /\ handles' = handles \ {<<t, "intent">>}
    /\ members' = members \ {t}
    /\ Goto(t, "ended")
    /\ UNCHANGED <<handleVars, loopVars, queue>>

-----------------------------------------------------------------------------
(* Requests *)

HasHandle(t) == \E k \in Keys : <<t, k>> \in handles

\* Mutation of Resolved: the event is set and its waiter forgotten.
ResolvesNone(S) == phase

\* Event.set() resolves the waits pending at that moment.
Resolved(S) ==
    [t \in Tasks |-> IF t \in S /\ phase[t] = "blocked" THEN "woken" ELSE phase[t]]

\* Mutation of CancelAll: the waiter of pause_event is not woken.
CancelsQuietly(S) ==
    /\ control' = [t \in Tasks |-> IF t \in S THEN "cancelled" ELSE control[t]]
    /\ cancelEvent' = cancelEvent \cup S
    /\ UNCHANGED <<pauseEvent, phase, loopVars, queue, registryVars>>

\* request_cancel on the handles of S, none of them cancelled before.
CancelAll(S) ==
    /\ control' = [t \in Tasks |-> IF t \in S THEN "cancelled" ELSE control[t]]
    /\ cancelEvent' = cancelEvent \cup S
    /\ pauseEvent' = pauseEvent \cup S
    /\ phase' = Resolved(S)
    /\ UNCHANGED <<loopVars, queue, registryVars>>

\* cancel_task, by either key.
RequestCancel(t) ==
    /\ HasHandle(t)
    /\ control[t] # "cancelled"
    /\ CancelAll({t})

\* cancel_all_session_tasks goes by the session's entries.
CancelSession ==
    LET open == {t \in members : control[t] # "cancelled"} IN
    /\ open # {}
    /\ CancelAll(open)

\* request_pause: only a running handle.
RequestPause(t) ==
    /\ HasHandle(t)
    /\ control[t] = "running"
    /\ control' = [control EXCEPT ![t] = "paused"]
    /\ pauseEvent' = pauseEvent \ {t}
    /\ UNCHANGED <<cancelEvent, phase, loopVars, queue, registryVars>>

\* request_resume: only a paused handle.
RequestResume(t) ==
    /\ HasHandle(t)
    /\ control[t] = "paused"
    /\ control' = [control EXCEPT ![t] = "running"]
    /\ pauseEvent' = pauseEvent \cup {t}
    /\ phase' = Resolved({t})
    /\ UNCHANGED <<cancelEvent, loopVars, queue, registryVars>>

Run(t) ==
    \/ Enqueue(t) \/ Acquire(t) \/ CreateGraph(t) \/ CheckControl(t) \/ Wake(t)
    \/ EndIteration(t) \/ Abandon(t) \/ Release(t) \/ Unregister(t)
    \/ Route(t) \/ StartUnit(t) \/ AcquireUnit(t) \/ EndUnit(t) \/ EndPlan(t)

Next ==
    \/ \E t \in Tasks :
        Register(t) \/ Run(t) \/ RequestCancel(t) \/ RequestPause(t) \/ RequestResume(t)
    \/ CancelSession

\* The loop runs what is ready, and planner and skills answer in the end.
\* Nobody is obliged to make a request.
Fairness == \A t \in Tasks : WF_vars(Run(t))

Spec == Init /\ [][Next]_vars
FairSpec == Spec /\ Fairness

-----------------------------------------------------------------------------
(* Properties *)

\* The three pieces of a handle agree: pause_event is clear exactly while the
\* status is paused, cancel_event is set exactly once it is cancelled.
HandleConsistent ==
    /\ \A t \in Tasks : control[t] = "paused" <=> t \notin pauseEvent
    /\ \A t \in Tasks : control[t] = "cancelled" <=> t \in cancelEvent

\* No lost wake-up: a loop is blocked in wait_if_paused only while its handle
\* says paused, whatever order cancel, pause and resume came in.
NoLostWakeup == \A t \in Tasks : phase[t] = "blocked" => control[t] = "paused"

\* From the moment a cancel is accepted, the task starts no further iteration.
\* (The units of a plan are runs of their own, without a handle: they go on.)
NoIterationAfterCancel ==
    [][\A t \in Tasks : control[t] = "cancelled" => iterations'[t] = iterations[t]]_vars

\* While a handle says paused, only a loop that an earlier resume has already
\* woken may still begin an iteration: a loop that looks at its handle after
\* the pause waits.
PauseHeld ==
    [][\A t \in Tasks :
         control[t] = "paused" /\ iterations'[t] # iterations[t] => phase[t] = "woken"]_vars

\* Every slot is kept by a task that waits for one more, for a unit of its
\* plan: nobody gets a slot again.
Jammed == Cardinality(At({"unitQueued"})) >= MaxGraphs

NobodyStaysPaused == \A t \in Tasks : []<>(control[t] # "paused")

\* A cancelled task that holds a slot gives it back, whoever is paused, unless
\* it comes to wait for a slot for a unit; and that one too, if no task stays
\* paused for ever, unless all the slots are jammed.
CancelFreesSlot ==
    /\ \A t \in Tasks :
           control[t] = "cancelled" /\ phase[t] \in Holding
               ~> phase[t] \notin Holding \/ phase[t] = "unitQueued"
    /\ NobodyStaysPaused =>
           \A t \in Tasks :
               control[t] = "cancelled" /\ phase[t] \in Holding
                   ~> phase[t] \notin Holding \/ Jammed

\* If no task stays paused for ever, every task and every unit gets a slot in
\* the end, or the slots are jammed.  (A paused task keeps its slot, and the
\* tasks queued behind it wait with it.)
QueueServed ==
    NobodyStaysPaused =>
        /\ \A t \in Tasks : phase[t] = "queued" ~> phase[t] # "queued" \/ Jammed
        /\ \A t \in Tasks : phase[t] = "unitQueued" ~> phase[t] # "unitQueued" \/ Jammed
=============================================================================
