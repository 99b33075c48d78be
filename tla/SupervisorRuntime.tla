-------------------------- MODULE SupervisorRuntime --------------------------
(***************************************************************************)
(* One multi-agent run: the dispatch loop of SupervisorRuntime over a      *)
(* SubtaskGraph, the dispatch coroutines it starts, the workers they reuse *)
(* or spawn, and the policies a failure meets (RepairLoop,                 *)
(* AgentHealthMonitor, WorkerPoolManager, SpawnPolicy), with the executor  *)
(* callback and its SubtaskResultCache.                                    *)
(*                                                                         *)
(* Everything runs on one asyncio loop: a step is what happens between two *)
(* suspensions.  Defaults of MultiAgentConfig are assumed: repair_enabled, *)
(* worker_reuse_enabled, result_cache_enabled, and one feedback retry per  *)
(* node.  GraphController never has an LLM client to hand to               *)
(* _build_local_replanner, so a replan request always takes the fallback   *)
(* that resets nodes.                                                      *)
(*                                                                         *)
(* Paths are relative to server/app/avatar/runtime/multiagent.             *)
(***************************************************************************)
EXTENDS Naturals, FiniteSets

CONSTANTS
    Nodes,        \* subtask node ids
    Roles,        \* role names
    RoleOf,       \* responsible_role of each node
    Workers,      \* agent instances that may ever be spawned, numbered in that order
    None,         \* no worker, no role
    Plans,        \* edge sets _decompose_intent may return: pairs <<source, target>>
    RoleLimit,    \* per_role_limits of SpawnPolicy
    Slots,        \* max_concurrent_subtasks
    MaxRepairs,   \* repair_max_actions_per_task
    BrokenAt,     \* health_consecutive_failure_threshold
    Feedbacks,    \* worker feedback that may come with a success
    Caches,       \* what earlier runs of the controller may have left in its cache
    MaxRounds,    \* default_max_rounds
    MaxEmpty      \* dispatch_max_consecutive_empty

\* Feedback that passes the three gates of _process_feedback, by what it makes
\* the loop do; "none" is every answer that passes the gates without effect or
\* is stopped by one; "malformed" is JSON whose confidence is not a number (or
\* whose suggestion is null), on which _process_feedback raises TypeError.
FeedbackKinds == {"none", "retry", "replan", "abort", "malformed"}

ASSUME NodesAssumption == IsFiniteSet(Nodes) /\ Nodes # {}
ASSUME WorkersAssumption == IsFiniteSet(Workers) /\ Workers \subseteq Nat
ASSUME RolesAssumption == RoleOf \in [Nodes -> Roles] /\ RoleLimit \in [Roles -> Nat]
ASSUME NoneAssumption == None \notin Workers \cup Roles
ASSUME PlansAssumption == Plans \subseteq SUBSET (Nodes \X Nodes)

\* A plan that is not a DAG by validate_dag never gets here: the controller falls
\* back to its ReAct mode.  Kahn's algorithm succeeds when whatever is left to be
\* visited has a member with nothing of it upstream.
ASSUME AcyclicAssumption ==
    \A E \in Plans : \A S \in SUBSET Nodes :
        S # {} => \E n \in S : \A m \in S : <<m, n>> \notin E

ASSUME BoundsAssumption ==
    /\ Slots \in Nat \ {0}
    /\ MaxRepairs \in Nat
    /\ BrokenAt \in Nat \ {0}
    /\ MaxRounds \in Nat \ {0}
    /\ MaxEmpty \in Nat \ {0}
ASSUME FeedbackAssumption == Feedbacks \subseteq FeedbackKinds
ASSUME CachesAssumption == Caches \subseteq SUBSET Nodes

VARIABLES
    edges,     \* graph.edges
    status,    \* status of every subtask node
    run,       \* phase of every node's dispatch coroutine
    holder,    \* worker a node's dispatch has assigned
    role,      \* role of every spawned worker, None for the others
    busy,      \* workers whose _busy flag is set
    fails,     \* consecutive_failures of every worker
    attempts,  \* RepairLoop._attempts of every node
    retried,   \* nodes whose history holds retry_same
    fedback,   \* nodes that have used up their feedback retry
    replans,   \* trigger nodes of the queued _replan_requests
    cached,    \* nodes whose successful result is in the result cache
    reopened,  \* history: completed nodes that were made pending again
    pc,        \* "loop", "waiting", "draining" or "done"
    woken,     \* the event _any_done
    round,     \* self._round
    empties,   \* consecutive_empty
    late,      \* more than timeout_seconds have passed
    reason     \* self._terminated_reason

graphVars == <<edges, status>>
workerVars == <<holder, role, busy, fails>>
repairVars == <<attempts, retried, fedback, replans, cached, reopened>>
loopVars == <<pc, woken, round, empties, late, reason>>
vars == <<edges, status, run, holder, role, busy, fails, attempts, retried,
          fedback, replans, cached, reopened, pc, woken, round, empties, late, reason>>

Statuses == {"pending", "running", "completed", "failed"}

\* A dispatch coroutine: created and waiting for the semaphore; awaiting the
\* executor; sleeping before a retry; returned; ended by an exception; or
\* cancelled at the end of the run.
Phases == {"none", "queued", "exec", "backoff", "done", "raised", "cancelled"}

Reasons == {"", "max_rounds", "timeout", "all_completed", "all_terminal",
            "no_ready_no_running"}

TypeOK ==
    /\ edges \in Plans
    /\ status \in [Nodes -> Statuses]
    /\ run \in [Nodes -> Phases]
    /\ holder \in [Nodes -> Workers \cup {None}]
    /\ role \in [Workers -> Roles \cup {None}]
    /\ busy \in SUBSET Workers
    /\ fails \in [Workers -> 0..BrokenAt]
    /\ attempts \in [Nodes -> 0..MaxRepairs]
    /\ retried \in SUBSET Nodes
    /\ fedback \in SUBSET Nodes
    /\ replans \in SUBSET Nodes
    /\ cached \in SUBSET Nodes
    /\ reopened \in SUBSET Nodes
    /\ pc \in {"loop", "waiting", "draining", "done"}
    /\ woken \in BOOLEAN
    /\ round \in 0..MaxRounds
    /\ empties \in 0..MaxEmpty
    /\ late \in BOOLEAN
    /\ reason \in Reasons

Init ==
    /\ edges \in Plans
    /\ status = [n \in Nodes |-> "pending"]
    /\ run = [n \in Nodes |-> "none"]
    /\ holder = [n \in Nodes |-> None]
    /\ role = [w \in Workers |-> None]
    /\ busy = {}
    /\ fails = [w \in Workers |-> 0]
    /\ attempts = [n \in Nodes |-> 0]
    /\ retried = {} /\ fedback = {} /\ replans = {}
    /\ cached \in Caches /\ reopened = {}
    /\ pc = "loop" /\ woken = FALSE /\ round = 0 /\ empties = 0
    /\ late = FALSE /\ reason = ""

-----------------------------------------------------------------------------
(* The subtask graph *)

Upstream(n) == {m \in Nodes : <<m, n>> \in edges}

ClosedDownwards(S) == \A m, n \in Nodes : m \in S /\ <<m, n>> \in edges => n \in S

\* get_downstream_subgraph(n) - {n}
Downstream(n) ==
    {m \in Nodes \ {n} :
        \A S \in SUBSET Nodes : n \in S /\ ClosedDownwards(S) => m \in S}

\* Mutation of DepsCompleted: a dependency only has to be over or under way.
DepsNotFailed(n, s) == \A m \in Upstream(n) : s[m] \in {"completed", "running"}

DepsCompleted(n, s) == \A m \in Upstream(n) : s[m] = "completed"

\* Mutation of ReadyNodes: whatever does not run and has not failed is ready.
ReadyUnlessRunning(s) ==
    {n \in Nodes : s[n] \notin {"running", "failed"} /\ DepsCompleted(n, s)}

\* get_ready_nodes
ReadyNodes(s) == {n \in Nodes : s[n] = "pending" /\ DepsCompleted(n, s)}

BelowFailed(n, s) == \E f \in Nodes : s[f] = "failed" /\ n \in Downstream(f)

\* _propagate_failures: what is still pending below a failed node fails too.
Propagated(s) ==
    [n \in Nodes |-> IF s[n] = "pending" /\ BelowFailed(n, s) THEN "failed" ELSE s[n]]

-----------------------------------------------------------------------------
(* Workers *)

Spawned == {w \in Workers : role[w] # None}

\* BROKEN in the health monitor, and with it quarantined by the pool: a
\* quarantined worker is never assigned again, so its count stays.
Quarantined(w) == fails[w] >= BrokenAt

\* Mutation of Reusable: the busy flag is not looked at.
ReusableOrBusy(r) == {w \in Spawned : role[w] = r /\ ~Quarantined(w)}

\* The idle workers _acquire_worker goes through.
Reusable(r) == {w \in Spawned : role[w] = r /\ w \notin busy /\ ~Quarantined(w)}

\* SpawnPolicy.can_spawn over InstanceManager's counts, which quarantined
\* workers remain part of.  The pool's own limit is the same number and does
\* not count them, so it never decides.
CanSpawn(r) ==
    /\ Cardinality({w \in Spawned : role[w] = r}) < RoleLimit[r]
    /\ Spawned # Workers

\* The oldest of some workers.
First(w, S) == w \in S /\ \A v \in S : w <= v

SlotFree == Cardinality({n \in Nodes : run[n] \in {"exec", "backoff"}}) < Slots

-----------------------------------------------------------------------------
(* A dispatch coroutine: _dispatch_node with the executor callback *)

\* The coroutine returns: its slot is free and its done callback sets the event.
Returns(n) ==
    /\ run' = [run EXCEPT ![n] = "done"]
    /\ woken' = TRUE

\* worker.release, record_success, mark_completed, without a suspension.
Completes(n, w) ==
    /\ status' = [status EXCEPT ![n] = "completed"]
    /\ busy' = busy \ {w}
    /\ fails' = [fails EXCEPT ![w] = 0]
    /\ holder' = [holder EXCEPT ![n] = None]
    /\ Returns(n)

\* The semaphore lets the coroutine in, and it assigns an idle or a new worker.
\* On a cache hit the executor answers at once, without feedback.
StartOn(n, w) ==
    IF n \in cached
    THEN Completes(n, w)
    ELSE /\ run' = [run EXCEPT ![n] = "exec"]
         /\ holder' = [holder EXCEPT ![n] = w]
         /\ busy' = busy \cup {w}
         /\ UNCHANGED <<status, fails, woken>>

Reuse(n) ==
    /\ run[n] = "queued" /\ SlotFree
    /\ \E w \in Workers : First(w, Reusable(RoleOf[n])) /\ StartOn(n, w)
    /\ UNCHANGED <<edges, role, repairVars, pc, round, empties, late, reason>>

Spawn(n) ==
    /\ run[n] = "queued" /\ SlotFree
    /\ Reusable(RoleOf[n]) = {} /\ CanSpawn(RoleOf[n])
    /\ \E w \in Workers :
        /\ First(w, Workers \ Spawned)
        /\ role' = [role EXCEPT ![w] = RoleOf[n]]
        /\ StartOn(n, w)
    /\ UNCHANGED <<edges, repairVars, pc, round, empties, late, reason>>

\* "InstanceManager denied spawn": raised outside the try of _dispatch_node, so
\* no handler sees it and the node stays "running" until its task is harvested.
SpawnDenied(n) ==
    /\ run[n] = "queued" /\ SlotFree
    /\ Reusable(RoleOf[n]) = {} /\ ~CanSpawn(RoleOf[n])
    /\ run' = [run EXCEPT ![n] = "raised"]
    /\ woken' = TRUE
    /\ UNCHANGED <<graphVars, workerVars, repairVars, pc, round, empties, late, reason>>

\* Mutation of Repairable: one repair too many.
RepairableOnceMore(n) == attempts[n] <= MaxRepairs

\* RepairLoop.evaluate returns a decision (of the four actions besides
\* retry_same one is always left).
Repairable(n) == attempts[n] < MaxRepairs

\* _handle_failure after the release, with the worker's new failure count:
\* retry_same first, unless it is used up or the worker is BROKEN; then the
\* other actions, which all put the node back at once; then the end (the basic
\* retry counts the repairs as retries and finds its limit reached).
HandleFailure(n, w, s, count) ==
    /\ busy' = busy \ {w}
    /\ holder' = [holder EXCEPT ![n] = None]
    /\ fails' = [fails EXCEPT ![w] = count]
    /\ IF Repairable(n)
       THEN /\ attempts' = [attempts EXCEPT ![n] = @ + 1]
            /\ IF n \notin retried /\ count < BrokenAt
               THEN /\ retried' = retried \cup {n}
                    /\ status' = s
                    /\ run' = [run EXCEPT ![n] = "backoff"]
                    /\ UNCHANGED woken
               ELSE /\ status' = [s EXCEPT ![n] = "pending"]
                    /\ Returns(n)
                    /\ UNCHANGED retried
       ELSE /\ status' = [s EXCEPT ![n] = "failed"]
            /\ Returns(n)
            /\ UNCHANGED <<attempts, retried>>

Fail(n) ==
    /\ run[n] = "exec"
    /\ HandleFailure(n, holder[n], status, fails[holder[n]] + 1)
    /\ UNCHANGED <<edges, role, fedback, replans, cached, reopened>>
    /\ UNCHANGED <<pc, round, empties, late, reason>>

\* What _process_feedback makes of the statuses.
FedBack(n, fb) ==
    [m \in Nodes |->
        IF m = n THEN (IF fb = "retry" THEN "pending" ELSE "completed")
        ELSE IF fb = "abort" /\ m \in Downstream(n) /\ status[m] = "pending" THEN "failed"
        ELSE status[m]]

\* The executor has put the result in the cache before it returns.
\* _process_feedback runs in the try of _dispatch_node: if it raises, the
\* completed node goes through _handle_failure as well.
Succeed(n) ==
    /\ run[n] = "exec"
    /\ cached' = cached \cup {n}
    /\ \E fb \in Feedbacks :
        /\ n \in fedback => fb \in {"none", "malformed"}
        /\ IF fb = "malformed"
           THEN /\ HandleFailure(n, holder[n], [status EXCEPT ![n] = "completed"], 1)
                /\ UNCHANGED <<fedback, replans>>
           ELSE /\ status' = FedBack(n, fb)
                /\ busy' = busy \ {holder[n]}
                /\ fails' = [fails EXCEPT ![holder[n]] = 0]
                /\ holder' = [holder EXCEPT ![n] = None]
                /\ fedback' = IF fb = "none" THEN fedback ELSE fedback \cup {n}
                /\ replans' = IF fb = "replan" THEN replans \cup {n} ELSE replans
                /\ Returns(n)
                /\ UNCHANGED <<attempts, retried>>
    /\ UNCHANGED <<edges, role, reopened, pc, round, empties, late, reason>>

\* The node is put back even if what failed was its feedback, after it had
\* completed: nodes below it may have started during the sleep.
BackoffOver(n) ==
    /\ run[n] = "backoff"
    /\ status' = [status EXCEPT ![n] = "pending"]
    /\ reopened' = IF status[n] = "completed" THEN reopened \cup {n} ELSE reopened
    /\ Returns(n)
    /\ UNCHANGED <<edges, workerVars, attempts, retried, fedback, replans, cached>>
    /\ UNCHANGED <<pc, round, empties, late, reason>>

-----------------------------------------------------------------------------
(* The dispatch loop: one pass of run() without a suspension *)

InFlight == {n \in Nodes : run[n] # "none"}
DoneTasks == {n \in Nodes : run[n] \in {"done", "raised"}}

\* Mutation of Harvested: the exception of a task is not looked at.
HarvestedQuietly == status

\* An exception fails the node if its status is still "running".
Harvested ==
    [n \in Nodes |->
        IF run[n] = "raised" /\ status[n] = "running" THEN "failed" ELSE status[n]]

AfterHarvest == IF DoneTasks = {} THEN status ELSE Propagated(Harvested)

\* "don't touch completed or running"
Resettable == {"pending", "failed"}

\* The statuses after the harvest and the fallback of every replan request.
Scanned ==
    [n \in Nodes |->
        IF AfterHarvest[n] \in Resettable /\ \E t \in replans : n \in Downstream(t)
        THEN "pending" ELSE AfterHarvest[n]]

Ready == ReadyNodes(Scanned)
AllIn(S) == \A n \in Nodes : Scanned[n] \in S

\* self._round += 1, and neither limit is exceeded.
Passes ==
    /\ pc = "loop" /\ round < MaxRounds /\ ~late
    /\ round' = round + 1
    /\ replans' = {}
    /\ UNCHANGED <<edges, workerVars, attempts, retried, fedback, cached, reopened, late>>

LeaveInFlight(M) == [n \in Nodes |-> IF n \in M THEN "none" ELSE run[n]]

StopAllOver ==
    /\ Passes
    /\ AllIn({"completed", "failed"})
    /\ reason' = IF AllIn({"completed"}) THEN "all_completed" ELSE "all_terminal"
    /\ status' = Scanned
    /\ run' = LeaveInFlight(DoneTasks)
    /\ pc' = "draining"
    /\ UNCHANGED <<woken, empties>>

Dispatch ==
    /\ Passes
    /\ ~AllIn({"completed", "failed"})
    /\ Ready # {}
    /\ status' = [n \in Nodes |-> IF n \in Ready THEN "running" ELSE Scanned[n]]
    /\ run' = [n \in Nodes |->
                  IF n \in Ready THEN "queued" ELSE LeaveInFlight(DoneTasks)[n]]
    /\ empties' = 0
    /\ UNCHANGED <<pc, woken, reason>>

\* Mutation of Wait: it waits for the event with nothing in flight as well.
WaitsForNothing ==
    /\ Passes
    /\ ~AllIn({"completed", "failed"})
    /\ Ready = {}
    /\ status' = Scanned
    /\ run' = LeaveInFlight(DoneTasks)
    /\ woken' = FALSE
    /\ pc' = "waiting"
    /\ empties' = 0
    /\ UNCHANGED reason

\* _any_done.clear(), then the wait.  The done callback of a task harvested in
\* this pass may come only now and end the wait for nothing.
Wait ==
    /\ Passes
    /\ ~AllIn({"completed", "failed"})
    /\ Ready = {} /\ InFlight # DoneTasks
    /\ status' = Scanned
    /\ run' = LeaveInFlight(DoneTasks)
    /\ woken' \in {FALSE, DoneTasks # {}}
    /\ pc' = "waiting"
    /\ empties' = 0
    /\ UNCHANGED reason

\* Nothing ready, nothing in flight: poll again, or give up.
Poll ==
    /\ Passes
    /\ ~AllIn({"completed", "failed"})
    /\ Ready = {} /\ InFlight = DoneTasks
    /\ status' = Scanned
    /\ run' = LeaveInFlight(DoneTasks)
    /\ empties' = empties + 1
    /\ IF empties + 1 < MaxEmpty
       THEN UNCHANGED <<pc, reason>>
       ELSE pc' = "draining" /\ reason' = "no_ready_no_running"
    /\ UNCHANGED woken

\* The event is set, or wait_for's timeout has come.
WakeUp ==
    /\ pc = "waiting" /\ (woken \/ late)
    /\ pc' = "loop"
    /\ UNCHANGED <<graphVars, run, workerVars, repairVars, woken, round, empties, late, reason>>

\* max_rounds or timeout: looked at before anything is harvested.
StopAtLimit ==
    /\ pc = "loop" /\ (round = MaxRounds \/ late)
    /\ reason' = IF round = MaxRounds THEN "max_rounds" ELSE "timeout"
    /\ pc' = "draining"
    /\ UNCHANGED <<graphVars, run, workerVars, repairVars, woken, round, empties, late>>

\* The wait for what is still in flight ends; the rest is cancelled (its nodes
\* stay "running"), failures are propagated once more, workers terminated.
Finish ==
    /\ pc = "draining"
    /\ InFlight = DoneTasks \/ late
    /\ status' = IF InFlight = {} THEN status ELSE Propagated(Harvested)
    /\ run' = [n \in Nodes |-> IF n \in InFlight \ DoneTasks THEN "cancelled" ELSE "none"]
    /\ pc' = "done"
    /\ UNCHANGED <<edges, workerVars, repairVars, woken, round, empties, late, reason>>

\* The clock passes timeout_seconds.
Expire ==
    /\ pc # "done" /\ ~late
    /\ late' = TRUE
    /\ UNCHANGED <<graphVars, run, workerVars, repairVars, pc, woken, round, empties, reason>>

Loop ==
    StopAllOver \/ Dispatch \/ Wait \/ Poll \/ WakeUp \/ StopAtLimit \/ Finish

Start(n) == Reuse(n) \/ Spawn(n) \/ SpawnDenied(n)
Answer(n) == Succeed(n) \/ Fail(n)

Next ==
    \/ Loop
    \/ Expire
    \/ \E n \in Nodes : Start(n) \/ Answer(n) \/ BackoffOver(n)

Spec == Init /\ [][Next]_vars

\* The event loop runs what is runnable; an executor returns (a subtask's ReAct
\* loop is limited in iterations); a backoff is a finite sleep.  The semaphore
\* is fair, and every node starts finitely often, so weak fairness is enough.
\* Nothing is assumed of the time limit.
FairSpec ==
    /\ Spec
    /\ WF_vars(Loop)
    /\ \A n \in Nodes :
        WF_vars(Start(n)) /\ WF_vars(Answer(n)) /\ WF_vars(BackoffOver(n))

-----------------------------------------------------------------------------
(* Properties *)

\* A worker serves one node at a time and only healthy workers serve: the
\* dispatches inside the executor hold distinct workers, of the role their
\* node asks for, and the _busy flags name exactly those.
WorkerExclusive ==
    /\ \A n \in Nodes : run[n] = "exec" =>
        holder[n] \in busy /\ role[holder[n]] = RoleOf[n] /\ ~Quarantined(holder[n])
    /\ \A m, n \in Nodes :
        run[m] = "exec" /\ run[n] = "exec" /\ holder[m] = holder[n] => m = n
    /\ pc # "done" => busy = {holder[n] : n \in {m \in Nodes : run[m] = "exec"}}

\* Whatever is retried, reset, aborted or propagated meanwhile: a node that is
\* under way or completed has all its dependencies completed, but for those whose
\* completion was taken back since, over malformed feedback.
DependencyOrder ==
    \A n \in Nodes : status[n] \in {"running", "completed"} =>
        \A m \in Upstream(n) : status[m] = "completed" \/ m \in reopened

\* No reset for a replan, no failure below or above and no coroutine of another
\* node takes a completion back (downstream work may rest on it).  Only the
\* node's own coroutine does, when it wakes up from a back-off it is in because
\* _process_feedback raised (supervisor_runtime.py:527 under :444).
CompletedIsFinal ==
    [][\A n \in Nodes : status[n] = "completed" =>
          status'[n] = "completed" \/ (run[n] = "backoff" /\ run'[n] = "done")]_vars

\* The loop gives up early only over nodes that can never become ready: every
\* one of them lies below a failed node, and nothing is left "running".
GivesUpForCause ==
    reason = "no_ready_no_running" =>
        \A n \in Nodes :
            /\ status[n] # "running"
            /\ status[n] = "pending" => BelowFailed(n, status)

\* The run ends, without the help of its time limit: no wake-up of the loop is
\* lost and it never waits with nothing in flight.
RunEnds == <>(pc = "done")
=============================================================================
