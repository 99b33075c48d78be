--------------------------- MODULE GraphExecution ---------------------------
(***************************************************************************)
(* The execution engine of one task graph: GraphRuntime.execute_graph with *)
(* its Scheduler, the NodeRunner coroutines it awaits, and the controller  *)
(* loops that feed it.  A ReAct controller applies planner patches and     *)
(* runs one incremental cycle after each; a DAG controller runs a planned  *)
(* graph to completion.                                                    *)
(*                                                                         *)
(* Everything runs on one asyncio loop, so a step here is what happens     *)
(* between two suspensions: the head of the execution loop up to the       *)
(* gather, the first slice of every gathered coroutine, one slice of one   *)
(* coroutine, and the wake-up of the gather.                               *)
(*                                                                         *)
(* Paths are relative to server/app/avatar/runtime/graph.                  *)
(***************************************************************************)
EXTENDS Naturals, FiniteSets

CONSTANTS
    Nodes,           \* node ids; a planner never reuses one
    Priority,        \* metadata["priority"] of each node
    InitialGraphs,   \* graphs the engine may be handed: [nodes, edges]
    Patches,         \* additions a planner may return: [nodes, edges]
    Incremental,     \* TRUE: ReAct controller; FALSE: DAG controller
    MaxConcurrent,   \* max_concurrent_nodes of the scheduler
    MaxRetries,      \* retry_policy.max_retries
    Escapes,         \* nodes whose workspace snapshot may raise
    HasTimeLimit,    \* max_execution_time is configured
    MaxPlans         \* bound on planner invocations

Edge == [src : Nodes, dst : Nodes, optional : BOOLEAN]
Graph == [nodes : SUBSET Nodes, edges : SUBSET Edge]

ASSUME NodesAssumption == IsFiniteSet(Nodes)
ASSUME PriorityAssumption == Priority \in [Nodes -> Nat]
ASSUME GraphsAssumption == InitialGraphs \subseteq Graph /\ Patches \subseteq Graph
\* An initial edge joins nodes of its graph.  The ReAct planner's patch is one
\* ADD_NODE; _inject_implicit_edges adds edges into that new node.
ASSUME GraphEdgesAssumption ==
    \A g \in InitialGraphs : \A e \in g.edges : {e.src, e.dst} \subseteq g.nodes
ASSUME PatchEdgesAssumption ==
    \A p \in Patches : \A e \in p.edges : e.dst \in p.nodes
ASSUME FlagsAssumption == Incremental \in BOOLEAN /\ HasTimeLimit \in BOOLEAN
ASSUME BoundsAssumption ==
    MaxConcurrent \in Nat \ {0} /\ MaxRetries \in Nat /\ MaxPlans \in Nat
ASSUME FaultAssumption == Escapes \subseteq Nodes

\* NodeStatus, with "absent" for an id not in graph.nodes (PAUSED and
\* CANCELLED have no producer in the runtime).
NodeStatus == {"absent", "pending", "running", "success", "failed", "skipped"}
Terminal == {"success", "failed", "skipped"}

\* Where a node's run_node coroutine is: created by gather but not yet
\* started; awaiting the skill; past mark_success, in output processing;
\* sleeping before a retry; ended while the gather still waits; or ended by
\* an exception that run_node does not catch.
Phases == {"none", "queued", "running", "post", "backoff", "finished", "escaped"}
Live == {"queued", "running", "post", "backoff"}

VARIABLES
    pc,        \* "plan", "loop", "queued", "running" or "done"
    status,    \* status of every node
    edges,     \* graph.edges and its adjacency indexes
    runner,    \* phase of every node's coroutine
    retries,   \* node.retry_count
    batch,     \* nodes whose coroutines the gather awaits
    outcome,   \* how the last cycle ended
    plans      \* planner invocations so far

vars == <<pc, status, edges, runner, retries, batch, outcome, plans>>

Outcomes == {"none", "success", "partial_success", "failed", "pending",
             "running", "deadlock", "timeout", "error"}

TypeOK ==
    /\ pc \in {"plan", "loop", "queued", "running", "done"}
    /\ status \in [Nodes -> NodeStatus]
    /\ edges \in SUBSET Edge
    /\ runner \in [Nodes -> Phases]
    /\ retries \in [Nodes -> 0..MaxRetries]
    /\ batch \in SUBSET Nodes
    /\ outcome \in Outcomes
    /\ plans \in 0..MaxPlans

Init ==
    \E g \in InitialGraphs :
        /\ pc = IF Incremental THEN "plan" ELSE "loop"
        /\ status = [n \in Nodes |-> IF n \in g.nodes THEN "pending" ELSE "absent"]
        /\ edges = g.edges
        /\ runner = [n \in Nodes |-> "none"]
        /\ retries = [n \in Nodes |-> 0]
        /\ batch = {}
        /\ outcome = "none"
        /\ plans = 0

-----------------------------------------------------------------------------
(* The graph and the scheduler's view of it *)

Present == {n \in Nodes : status[n] # "absent"}
InStatus(s) == {n \in Nodes : status[n] = s}
Required(E) == {e \in E : ~e.optional}

\* Mutation of DependenciesSatisfied: a source that is over, however it ended,
\* is good enough.
AnyEndedSource(n) ==
    \A e \in Required(edges) : e.dst = n => status[e.src] \in Terminal

\* Scheduler._dependencies_satisfied: an optional edge never blocks, a required
\* one wants a successful source (add_edge has seen that the source exists).
DependenciesSatisfied(n) ==
    \A e \in Required(edges) : e.dst = n => status[e.src] = "success"

ReadyNodes == {n \in InStatus("pending") : DependenciesSatisfied(n)}

\* ready.sort(priority, reverse) followed by ready[:max_concurrent_nodes]
IsSchedule(S) ==
    /\ S \subseteq ReadyNodes
    /\ IF Cardinality(ReadyNodes) <= MaxConcurrent
       THEN S = ReadyNodes
       ELSE Cardinality(S) = MaxConcurrent
    /\ \A n \in S, m \in ReadyNodes \ S : Priority[n] >= Priority[m]

\* Mutations of SkipClosed: only the direct dependents of a failure; optional
\* edges carry a failure on as well.
SkipDirect(S) ==
    \A e \in Required(edges) :
        status[e.src] = "failed" /\ status[e.dst] \notin Terminal \cup {"absent"}
        => e.dst \in S
SkipAlongEveryEdge(S) ==
    \A e \in edges :
        /\ status[e.src] = "failed" \/ e.src \in S
        /\ status[e.dst] \notin Terminal \cup {"absent"}
        => e.dst \in S

\* _propagate_failures: what _mark_downstream_skipped reaches from the failed
\* nodes.  The recursion goes along required edges and stops at a node that is
\* already terminal; its marks are the least set closed under that step.
SkipClosed(S) ==
    \A e \in Required(edges) :
        /\ status[e.src] = "failed" \/ e.src \in S
        /\ e.dst \in Present
        /\ status[e.dst] \notin Terminal
        => e.dst \in S
Skipped == {n \in Present : \A S \in SUBSET Nodes : SkipClosed(S) => n \in S}
Propagated == [n \in Nodes |-> IF n \in Skipped THEN "skipped" ELSE status[n]]

IsTerminal == \A n \in Present : status[n] \in Terminal

\* _compute_graph_status over node statuses st
GraphStatus(st) ==
    LET has(s) == \E n \in Present : st[n] = s IN
    IF has("running") THEN "running"
    ELSE IF has("failed") THEN "failed"
    ELSE IF \A n \in Present : st[n] = "success" THEN "success"
    ELSE IF \A n \in Present : st[n] \in Terminal THEN "partial_success"
    ELSE "pending"

-----------------------------------------------------------------------------
(* Controllers *)

\* PlannerGuard._check_cycles on the graph as it would be after the additions.
Acyclic(E) ==
    \A S \in (SUBSET Nodes) \ {{}} :
        {n \in S : \A e \in E : e.dst = n => e.src \notin S} # {}

\* The guard validates a DAG plan against an empty graph; ReAct starts with none.
ASSUME AcyclicAssumption == \A g \in InitialGraphs : Acyclic(g.edges)

\* A planner patch that the guard approves, applied by _apply_patch: nodes,
\* then edges (add_edge wants both ends).  No planner of the repository emits
\* REMOVE_NODE or REMOVE_EDGE.  A node of any status may be a source: nothing
\* asks what became of it.
ApplyPatch(p) ==
    /\ pc = "plan"
    /\ plans < MaxPlans
    /\ \A n \in p.nodes : status[n] = "absent"
    /\ \A e \in p.edges : {e.src, e.dst} \subseteq Present \cup p.nodes
    /\ Acyclic(edges \cup p.edges)
    /\ status' = [n \in Nodes |-> IF n \in p.nodes THEN "pending" ELSE status[n]]
    /\ edges' = edges \cup p.edges
    /\ plans' = plans + 1
    /\ pc' = "loop"
    /\ UNCHANGED <<runner, retries, batch, outcome>>

\* FINISH, a rejected patch, a cancelled handle, an exhausted limit or budget,
\* the circuit breaker, the progress guard: the ReAct loop ends.
StopPlanning ==
    /\ pc = "plan"
    /\ pc' = "done"
    /\ UNCHANGED <<status, edges, runner, retries, batch, outcome, plans>>

-----------------------------------------------------------------------------
(* execute_graph *)

\* Back in the controller: an incremental cycle returns to the ReAct loop.
Return(how) ==
    /\ pc' = IF Incremental THEN "plan" ELSE "done"
    /\ outcome' = how

\* while not self._is_terminal(graph)
LoopEnds ==
    /\ pc = "loop"
    /\ IsTerminal
    /\ Return(GraphStatus(status))
    /\ UNCHANGED <<status, edges, runner, retries, batch, plans>>

\* The limit counts from this call's start and is looked at between batches
\* only: not before the first one, hence never in an incremental cycle.
TimeLimitExceeded ==
    /\ pc = "loop"
    /\ HasTimeLimit /\ ~Incremental
    /\ \E n \in Present : status[n] # "pending"
    /\ ~IsTerminal
    /\ Return("timeout")
    /\ UNCHANGED <<status, edges, runner, retries, batch, plans>>

\* get_ready_nodes raises DeadlockError: pending nodes, none ready, none
\* running.  The except handler returns before any propagation.
Deadlock ==
    /\ pc = "loop"
    /\ ~IsTerminal
    /\ ReadyNodes = {}
    /\ InStatus("pending") # {}
    /\ InStatus("running") = {}
    /\ Return("deadlock")
    /\ UNCHANGED <<status, edges, runner, retries, batch, plans>>

\* No ready node, but something is running: propagate and leave the loop.
NothingReady ==
    /\ pc = "loop"
    /\ ~IsTerminal
    /\ ReadyNodes = {}
    /\ InStatus("running") # {}
    /\ status' = Propagated
    /\ Return(GraphStatus(Propagated))
    /\ UNCHANGED <<edges, runner, retries, batch, plans>>

\* Ready nodes are sorted and cut, and gather creates one task for each.
Schedule ==
    /\ pc = "loop"
    /\ ~IsTerminal
    /\ ReadyNodes # {}
    /\ \E S \in SUBSET ReadyNodes :
        /\ IsSchedule(S)
        /\ batch' = S
        /\ runner' = [n \in Nodes |-> IF n \in S THEN "queued" ELSE runner[n]]
    /\ pc' = "queued"
    /\ UNCHANGED <<status, edges, retries, outcome, plans>>

\* The gathered tasks take their first slice one after the other in one turn
\* of the event loop: the workspace snapshot, which may raise out of run_node,
\* then execute_node up to its first suspension, past mark_running.
StartBatch ==
    /\ pc = "queued"
    /\ \E esc \in SUBSET (batch \cap Escapes) :
        /\ runner' = [n \in Nodes |->
                        IF n \in esc THEN "escaped"
                        ELSE IF n \in batch THEN "running" ELSE runner[n]]
        /\ status' = [n \in Nodes |->
                        IF n \in batch \ esc THEN "running" ELSE status[n]]
    /\ pc' = "running"
    /\ UNCHANGED <<edges, retries, batch, outcome, plans>>

\* Mutation of AllFinished: the gather becomes a wait for the first result.
AnyFinished == \E n \in batch : runner[n] = "finished"

AllFinished == \A n \in batch : runner[n] = "finished"

\* gather returns: every coroutine of the batch has ended normally.
GatherReturns ==
    /\ pc = "running"
    /\ AllFinished
    /\ runner' = [n \in Nodes |-> IF n \in batch THEN "none" ELSE runner[n]]
    /\ batch' = {}
    /\ status' = Propagated
    /\ outcome' = GraphStatus(Propagated)
    /\ pc' = IF Incremental THEN "plan" ELSE "loop"
    /\ UNCHANGED <<edges, retries, plans>>

\* Mutation of SomeEscaped: exceptions count only once every coroutine raised.
AllEscaped == \A n \in batch : runner[n] = "escaped"

SomeEscaped == \E n \in batch : runner[n] = "escaped"

\* gather raises the first exception and stops waiting; the other coroutines
\* of the batch run on with nobody awaiting them.
GatherRaises ==
    /\ pc = "running"
    /\ SomeEscaped
    /\ runner' = [n \in Nodes |-> IF runner[n] \in {"finished", "escaped"}
                                  THEN "none" ELSE runner[n]]
    /\ batch' = {}
    /\ Return("error")
    /\ UNCHANGED <<status, edges, retries, plans>>

-----------------------------------------------------------------------------
(* NodeRunner.run_node *)

Ended(n) ==
    runner' = [runner EXCEPT ![n] = IF n \in batch THEN "finished" ELSE "none"]

\* The skill returns, context.set_node_output and mark_success.
SkillSucceeds(n) ==
    /\ runner[n] = "running"
    /\ status' = [status EXCEPT ![n] = "success"]
    /\ runner' = [runner EXCEPT ![n] = "post"]
    /\ UNCHANGED <<pc, edges, retries, batch, outcome, plans>>

\* Mutation of PostProcessed: an exception of the output processing reaches the
\* except branch of run_node.
PostProcessingFails(n) ==
    /\ runner[n] = "post"
    /\ status' = [status EXCEPT ![n] = "failed"]
    /\ Ended(n)
    /\ UNCHANGED <<pc, edges, retries, batch, outcome, plans>>

\* Output contract, schema and artifact collection: none of them lets an
\* exception out, and collection suspends with the node already at SUCCESS.
PostProcessed(n) ==
    /\ runner[n] = "post"
    /\ Ended(n)
    /\ UNCHANGED <<pc, status, edges, retries, batch, outcome, plans>>

\* Mutation of ScheduleRetry: the node goes back to PENDING while its coroutine
\* sleeps.
RetriesFromPending(n) ==
    /\ retries[n] < MaxRetries
    /\ retries' = [retries EXCEPT ![n] = @ + 1]
    /\ status' = [status EXCEPT ![n] = "pending"]
    /\ runner' = [runner EXCEPT ![n] = "backoff"]
    /\ UNCHANGED <<pc, edges, batch, outcome, plans>>

\* run_node's except branch: retry while the count allows it ..
ScheduleRetry(n) ==
    /\ retries[n] < MaxRetries
    /\ retries' = [retries EXCEPT ![n] = @ + 1]
    /\ runner' = [runner EXCEPT ![n] = "backoff"]
    /\ UNCHANGED <<pc, status, edges, batch, outcome, plans>>

\* .. or give up: exhausted, not retryable, denied by the policy engine, or
\* fail_fast / skip / replan from the recovery policy.
GiveUp(n) ==
    /\ status' = [status EXCEPT ![n] = "failed"]
    /\ Ended(n)
    /\ UNCHANGED <<pc, edges, retries, batch, outcome, plans>>

HandleError(n) == ScheduleRetry(n) \/ GiveUp(n)

SkillFails(n) == runner[n] = "running" /\ HandleError(n)

\* asyncio.sleep(delay) is over; execute_node marks the node running again.
Retry(n) ==
    /\ runner[n] = "backoff"
    /\ status' = [status EXCEPT ![n] = "running"]
    /\ runner' = [runner EXCEPT ![n] = "running"]
    /\ UNCHANGED <<pc, edges, retries, batch, outcome, plans>>

RunNode(n) ==
    SkillSucceeds(n) \/ PostProcessed(n) \/ SkillFails(n) \/ Retry(n)

Engine ==
    \/ LoopEnds \/ TimeLimitExceeded \/ Deadlock
    \/ NothingReady \/ Schedule \/ StartBatch \/ GatherReturns \/ GatherRaises

Next ==
    \/ \E p \in Patches : ApplyPatch(p)
    \/ StopPlanning
    \/ Engine
    \/ \E n \in Nodes : RunNode(n)

\* The event loop keeps running whatever is ready; a skill call returns or
\* raises in the end (each backend has its own timeout).
Fairness == WF_vars(Engine) /\ \A n \in Nodes : WF_vars(RunNode(n))

Spec == Init /\ [][Next]_vars
FairSpec == Spec /\ Fairness

-----------------------------------------------------------------------------
(* Properties *)

\* A node's first attempt starts only when all its required sources stand at
\* SUCCESS, also when coroutines of an abandoned batch still run between the
\* scheduler's look at the graph and the node's start.
DependencyOrder ==
    [][\A n \in Nodes :
         status[n] = "pending" /\ status'[n] = "running" =>
            \A e \in Required(edges) : e.dst = n => status[e.src] = "success"]_vars

\* A node that has reached a terminal status keeps it: no late coroutine and
\* no propagation rewrites what the controller has already read.
TerminalIsFinal ==
    [][\A n \in Nodes : status[n] \in Terminal => status'[n] = status[n]]_vars

\* No node is ever run by two coroutines: the scheduler picks PENDING nodes,
\* and no node with a live coroutine goes back to PENDING.
NoDoubleRun ==
    \A n \in Nodes : runner[n] \in Live \ {"queued"} => status[n] # "pending"

\* Between batches nothing of the graph is still in motion, so the controller
\* and the planner read settled results.
SettledBetweenCycles ==
    pc \in {"plan", "loop", "done"} =>
        /\ InStatus("running") = {}
        /\ \A n \in Nodes : runner[n] = "none"

\* A node is skipped only on account of a required source that failed or was
\* itself skipped, and never once it has run.
SkippedForCause ==
    [][\A n \in Nodes : status[n] # "skipped" /\ status'[n] = "skipped" =>
         /\ status[n] = "pending"
         /\ \E e \in Required(edges) :
                e.dst = n /\ status'[e.src] \in {"failed", "skipped"}]_vars

\* A complete run ends, and with every node settled unless its time ran out:
\* the guard refuses cycles and propagation settles everything below a failure
\* ("when a node fails, all downstream nodes that depend on it should be marked
\* as SKIPPED"), so the scheduler never takes what is left for a deadlock.
RunSettles == <>(pc = "done" /\ (IsTerminal \/ outcome = "timeout"))

\* Every cycle that starts returns to its controller.
CycleReturns == pc = "loop" ~> pc \in {"plan", "done"}
=============================================================================
