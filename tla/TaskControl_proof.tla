-------------------------- MODULE TaskControl_proof --------------------------
(***************************************************************************)
(* Proofs about TaskControl for any number of tasks, slots and iterations. *)
(* The inductive invariant is the type invariant with HandleConsistent and *)
(* NoLostWakeup: that a blocked loop is paused needs to know that the      *)
(* pause event it looked at is the complement of the paused status.        *)
(*                                                                         *)
(* The queue needs more: the tasks in it are exactly those waiting for a   *)
(* slot, of their own or for a unit of their plan, each once, and the      *)
(* slots taken are those of the tasks past it and of running units         *)
(* (QueueMatches, SlotsRespected).  From that follows StuckIsPausedOrJammed,  *)
(* the only two ways in which a queue can come to rest.  TasksAdvance is a *)
(* variant: a task goes through its phases, iterations and units one way.  *)
(***************************************************************************)
EXTENDS TaskControl, FiniteSetTheorems, TLAPS

Inv == TypeOK /\ HandleConsistent /\ NoLostWakeup

\* A step of a task's own coroutine does not touch its handle.
LEMMA RunKeepsHandles ==
    ASSUME NEW t \in Tasks, Run(t) PROVE UNCHANGED handleVars
BY DEF Run, Enqueue, Acquire, CreateGraph, CheckControl, Wake, EndIteration,
       Abandon, Release, Unregister, Route, StartUnit, AcquireUnit, EndUnit, EndPlan

\* The iteration counter moves only through Proceed, which leaves the type
\* intact.
LEMMA ProceedType ==
    ASSUME TypeOK, NEW t \in Tasks, Proceed(t)
    PROVE  phase' \in [Tasks -> Phases] /\ iterations' \in [Tasks -> 0..MaxIterations]
<1>1. iterations[t] \in 0..MaxIterations /\ MaxIterations \in Nat
    BY LimitsAssumption DEF TypeOK
<1>2. phase' \in [Tasks -> Phases]
    BY DEF TypeOK, Proceed, Goto, Phases
<1>3. CASE iterations[t] >= MaxIterations
    BY <1>2, <1>3 DEF Proceed, TypeOK
<1>4. CASE ~(iterations[t] >= MaxIterations)
    <2>1. iterations[t] + 1 \in 0..MaxIterations
        BY <1>1, <1>4
    <2> QED
        BY <1>2, <1>4, <2>1 DEF Proceed, TypeOK
<1> QED
    BY <1>3, <1>4

\* What a request that resolves waits does to the phases.
LEMMA ResolvedPhases ==
    ASSUME TypeOK, NEW S \in SUBSET Tasks
    PROVE  /\ Resolved(S) \in [Tasks -> Phases]
           /\ \A t \in Tasks : Resolved(S)[t] = "blocked" =>
                  t \notin S /\ phase[t] = "blocked"
BY DEF TypeOK, Resolved, Phases

\* The handle of a task is typed and consistent after every step.
LEMMA TypeStep == ASSUME Inv, [Next]_vars PROVE TypeOK'
<1> USE LimitsAssumption DEF Inv
<1>1. ASSUME NEW t \in Tasks, Register(t) PROVE TypeOK'
    BY <1>1 DEF Register, Goto, TypeOK, Phases, Keys, handleVars, loopVars
<1>2. ASSUME NEW t \in Tasks, Enqueue(t) PROVE TypeOK'
    BY <1>2 DEF Enqueue, Goto, TypeOK, Phases, handleVars, loopVars, registryVars
<1>3. ASSUME NEW t \in Tasks, Acquire(t) PROVE TypeOK'
    BY <1>3 DEF Acquire, TakesSlot, Goto, TypeOK, Phases, handleVars, loopVars, registryVars
<1>4. ASSUME NEW t \in Tasks, CreateGraph(t) PROVE TypeOK'
    BY <1>4 DEF CreateGraph, Goto, TypeOK, Phases, Keys, handleVars, loopVars
<1>5. ASSUME NEW t \in Tasks, CheckControl(t) PROVE TypeOK'
    BY <1>5, ProceedType DEF CheckControl, Goto, TypeOK, Phases, handleVars, loopVars, registryVars
<1>6. ASSUME NEW t \in Tasks, Wake(t) PROVE TypeOK'
    BY <1>6, ProceedType DEF Wake, Goto, TypeOK, Phases, handleVars, loopVars, registryVars
<1>7. ASSUME NEW t \in Tasks, EndIteration(t) PROVE TypeOK'
    BY <1>7 DEF EndIteration, Goto, TypeOK, Phases, handleVars, loopVars, registryVars
<1>8. ASSUME NEW t \in Tasks, Abandon(t) PROVE TypeOK'
    BY <1>8 DEF Abandon, Goto, TypeOK, Phases, handleVars, loopVars, registryVars
<1>9. ASSUME NEW t \in Tasks, Release(t) PROVE TypeOK'
    BY <1>9 DEF Release, Goto, TypeOK, Phases, handleVars, loopVars, registryVars
<1>10. ASSUME NEW t \in Tasks, Unregister(t) PROVE TypeOK'
    BY <1>10 DEF Unregister, Goto, TypeOK, Phases, handleVars, loopVars
<1>11. ASSUME NEW S \in SUBSET Tasks, CancelAll(S) PROVE TypeOK'
    BY <1>11, ResolvedPhases DEF CancelAll, TypeOK, Controls, loopVars, registryVars
<1>12. ASSUME NEW t \in Tasks, RequestPause(t) PROVE TypeOK'
    BY <1>12 DEF RequestPause, TypeOK, Controls, loopVars, registryVars
<1>13. ASSUME NEW t \in Tasks, RequestResume(t) PROVE TypeOK'
    <2>1. Resolved({t}) \in [Tasks -> Phases]
        BY ResolvedPhases
    <2> QED
        BY <1>13, <2>1 DEF RequestResume, TypeOK, Controls, loopVars, registryVars
<1>14. CASE UNCHANGED vars
    BY <1>14 DEF vars, TypeOK
<1>15. ASSUME NEW t \in Tasks, RequestCancel(t) PROVE TypeOK'
    BY <1>15, <1>11 DEF RequestCancel
<1>16. CASE CancelSession
    BY <1>16, <1>11 DEF CancelSession, TypeOK
<1>17. ASSUME NEW t \in Tasks, Route(t) \/ EndUnit(t) \/ EndPlan(t) PROVE TypeOK'
    BY <1>17 DEF Route, EndUnit, EndPlan, Goto, TypeOK, Phases, handleVars, loopVars,
                 registryVars
<1>18. ASSUME NEW t \in Tasks, StartUnit(t) PROVE TypeOK'
    <2>1. attempts[t] + 1 \in 0..MaxAttempts
        BY <1>18 DEF StartUnit, TypeOK
    <2> QED
        BY <1>18, <2>1 DEF StartUnit, Goto, TypeOK, Phases, handleVars, registryVars
<1>19. ASSUME NEW t \in Tasks, AcquireUnit(t) PROVE TypeOK'
    BY <1>19 DEF AcquireUnit, TakesSlot, Goto, TypeOK, Phases, handleVars, loopVars,
                 registryVars
<1> QED
    BY <1>1, <1>2, <1>3, <1>4, <1>5, <1>6, <1>7, <1>8, <1>9, <1>10, <1>12,
       <1>13, <1>14, <1>15, <1>16, <1>17, <1>18, <1>19 DEF Next, Run

\* Requests keep status and events of a handle in step.
LEMMA ConsistentStep == ASSUME Inv, [Next]_vars PROVE HandleConsistent'
<1> USE DEF Inv, TypeOK, HandleConsistent, Controls
<1>1. ASSUME UNCHANGED handleVars PROVE HandleConsistent'
    BY <1>1 DEF handleVars
<1>2. ASSUME NEW S \in SUBSET Tasks, CancelAll(S) PROVE HandleConsistent'
    BY <1>2 DEF CancelAll
<1>3. ASSUME NEW t \in Tasks, RequestPause(t) PROVE HandleConsistent'
    BY <1>3 DEF RequestPause
<1>4. ASSUME NEW t \in Tasks, RequestResume(t) PROVE HandleConsistent'
    BY <1>4 DEF RequestResume
<1>5. ASSUME NEW t \in Tasks, RequestCancel(t) PROVE HandleConsistent'
    BY <1>5, <1>2 DEF RequestCancel
<1>6. CASE CancelSession
    BY <1>6, <1>2 DEF CancelSession
<1>7. CASE UNCHANGED vars
    BY <1>7, <1>1 DEF vars, handleVars
<1>8. ASSUME NEW t \in Tasks, Register(t) PROVE HandleConsistent'
    BY <1>8, <1>1 DEF Register
<1> QED
    BY <1>1, <1>3, <1>4, <1>5, <1>6, <1>7, <1>8, RunKeepsHandles DEF Next

\* Only CheckControl blocks a loop, and only on a clear pause event; every
\* request that sets the event resolves the wait in the same step.
LEMMA WakeupStep == ASSUME Inv, [Next]_vars PROVE NoLostWakeup'
<1> USE DEF Inv, TypeOK, NoLostWakeup
<1>1. ASSUME NEW t \in Tasks, CheckControl(t) PROVE NoLostWakeup'
    BY <1>1 DEF CheckControl, Proceed, Goto, HandleConsistent, handleVars
<1>2. ASSUME NEW t \in Tasks,
             \/ Register(t) \/ Enqueue(t) \/ CreateGraph(t) \/ Acquire(t)
             \/ EndIteration(t) \/ Abandon(t) \/ Release(t) \/ Unregister(t)
             \/ Route(t) \/ StartUnit(t) \/ AcquireUnit(t) \/ EndUnit(t) \/ EndPlan(t)
      PROVE  NoLostWakeup'
    BY <1>2 DEF Register, Enqueue, CreateGraph, Acquire, EndIteration, Abandon,
                Release, Unregister, Route, StartUnit, AcquireUnit, EndUnit, EndPlan,
                Goto, handleVars
<1>3. ASSUME NEW t \in Tasks, Wake(t) PROVE NoLostWakeup'
    BY <1>3 DEF Wake, Proceed, Goto, handleVars
<1>4. ASSUME NEW S \in SUBSET Tasks, CancelAll(S) PROVE NoLostWakeup'
    BY <1>4, ResolvedPhases DEF CancelAll
<1>5. ASSUME NEW t \in Tasks, RequestPause(t) PROVE NoLostWakeup'
    BY <1>5 DEF RequestPause
<1>6. ASSUME NEW t \in Tasks, RequestResume(t) PROVE NoLostWakeup'
    <2>1. {t} \in SUBSET Tasks /\ phase' = Resolved({t})
        BY <1>6 DEF RequestResume
    <2>2. \A u \in Tasks : phase'[u] = "blocked" => u # t /\ phase[u] = "blocked"
        BY <2>1, ResolvedPhases
    <2> QED BY <1>6, <2>2 DEF RequestResume
<1>7. ASSUME NEW t \in Tasks, RequestCancel(t) PROVE NoLostWakeup'
    BY <1>7, <1>4 DEF RequestCancel
<1>8. CASE CancelSession
    BY <1>8, <1>4 DEF CancelSession
<1>9. CASE UNCHANGED vars
    BY <1>9 DEF vars
<1> QED
    BY <1>1, <1>2, <1>3, <1>5, <1>6, <1>7, <1>8, <1>9 DEF Next, Run

\* The handles of the control layer stay typed and consistent and no wait is
\* lost, for any number of tasks, slots and iterations.
THEOREM ControlInvariant == Spec => []Inv
<1>1. Init => Inv
    BY LimitsAssumption DEF Init, Inv, TypeOK, HandleConsistent, NoLostWakeup,
                            Controls, Phases, Keys
<1>2. Inv /\ [Next]_vars => Inv'
    BY TypeStep, ConsistentStep, WakeupStep DEF Inv
<1> QED
    BY <1>1, <1>2, PTL DEF Spec

\* Handles, phases, waits and the slot count keep their types.
THEOREM TypeCorrect == Spec => []TypeOK
BY ControlInvariant, PTL DEF Inv

\* No loop sleeps on a pause that is over: the NoLostWakeup of every run.
THEOREM WakeupSafety == Spec => []NoLostWakeup
BY ControlInvariant, PTL DEF Inv

\* Only Proceed counts an iteration.
LEMMA IterationSteps ==
    ASSUME Inv, [Next]_vars, NEW t \in Tasks, iterations'[t] # iterations[t]
    PROVE  \/ CheckControl(t) /\ t \notin cancelEvent /\ t \in pauseEvent
           \/ Wake(t) /\ t \notin cancelEvent
<1> USE DEF Inv, TypeOK
<1>1. ASSUME NEW u \in Tasks, CheckControl(u) PROVE u = t /\ t \notin cancelEvent /\ t \in pauseEvent
    BY <1>1 DEF CheckControl, Proceed
<1>2. ASSUME NEW u \in Tasks, Wake(u) PROVE u = t /\ t \notin cancelEvent
    BY <1>2 DEF Wake, Proceed
<1>3. ASSUME NEW u \in Tasks,
             \/ Register(u) \/ Enqueue(u) \/ Acquire(u) \/ CreateGraph(u)
             \/ EndIteration(u) \/ Abandon(u) \/ Release(u) \/ Unregister(u)
             \/ Route(u) \/ StartUnit(u) \/ AcquireUnit(u) \/ EndUnit(u) \/ EndPlan(u)
      PROVE  FALSE
    BY <1>3 DEF Register, Enqueue, Acquire, CreateGraph, EndIteration, Abandon,
                Release, Unregister, Route, StartUnit, AcquireUnit, EndUnit, EndPlan,
                loopVars
<1>4. ASSUME NEW u \in Tasks, RequestPause(u) \/ RequestResume(u) \/ RequestCancel(u)
      PROVE  FALSE
    BY <1>4 DEF RequestPause, RequestResume, RequestCancel, CancelAll, loopVars
<1>5. ~CancelSession
    BY DEF CancelSession, CancelAll, loopVars
<1>6. ~UNCHANGED vars
    BY DEF vars
<1> QED
    BY <1>1, <1>2, <1>3, <1>4, <1>5, <1>6 DEF Next, Run

\* A cancelled task never starts another iteration: both looks at the cancel
\* event come after the last suspension before the planner call.
THEOREM CancelStops == Spec => NoIterationAfterCancel
<1>1. Inv /\ [Next]_vars =>
      [\A t \in Tasks : control[t] = "cancelled" => iterations'[t] = iterations[t]]_vars
    BY IterationSteps DEF Inv, HandleConsistent
<1> QED
    BY <1>1, ControlInvariant, PTL DEF Spec, NoIterationAfterCancel

\* A loop that looks at its handle after the pause waits; only one that had
\* been woken before may slip through.
THEOREM PauseHolds == Spec => PauseHeld
<1>1. Inv /\ [Next]_vars =>
      [\A t \in Tasks :
         control[t] = "paused" /\ iterations'[t] # iterations[t] => phase[t] = "woken"]_vars
    BY IterationSteps DEF Inv, HandleConsistent, Wake
<1> QED
    BY <1>1, ControlInvariant, PTL DEF Spec, PauseHeld

-----------------------------------------------------------------------------
(***************************************************************************)
(* What CancelFreesSlot and QueueServed rest on besides fairness: nobody   *)
(* waits for nothing, and no task's own steps go on for ever.              *)
(***************************************************************************)

Holders == At(Holding)
UnitSlots == At({"unitRunning"})
Waiting == {"queued", "unitQueued"}

\* The waiters of the semaphore are the tasks that wait, each once.
QueueMatches ==
    /\ \A t \in Tasks : phase[t] \in Waiting <=> \E i \in 1..Len(queue) : queue[i] = t
    /\ \A i, j \in 1..Len(queue) : queue[i] = queue[j] => i = j

\* The semaphore lets no more graphs in than it has slots.
SlotsRespected == Cardinality(Holders) + Cardinality(UnitSlots) <= MaxGraphs

\* Only complex tasks are in a plan.
PlansAreComplex ==
    \A t \in Tasks : phase[t] \in {"routed", "unitQueued", "unitRunning"} => t \in Complex

\* A task that cannot take a step by itself: not begun or over, paused in its
\* loop, or in the queue without a slot for it.
Waits(t) ==
    \/ phase[t] \in {"new", "ended", "blocked"}
    \/ phase[t] \in Waiting /\ ~(t = Head(queue) /\ SlotFree)

\* When nobody can take a step and yet somebody waits for a slot, then a user
\* has paused a task that holds one, or all the slots are jammed.
StuckIsPausedOrJammed ==
    (\A t \in Tasks : Waits(t)) /\ (\E t \in Tasks : phase[t] \in Waiting) =>
        \/ \E u \in Holders : phase[u] = "blocked" /\ control[u] = "paused"
        \/ Jammed

\* How far a task has come, within its loop how far in which iteration, and
\* within its plan how far in which attempt at a unit.
Stage(t) ==
    CASE phase[t] = "new" -> 0
      [] phase[t] = "registered" -> 1
      [] phase[t] = "queued" -> 2
      [] phase[t] \in {"setup", "unobserved"} -> 3
      [] phase[t] = "leaving" -> 5
      [] phase[t] = "released" -> 6
      [] phase[t] = "ended" -> 7
      [] OTHER -> 4
Turn(t) ==
    6 * iterations[t] +
        (CASE phase[t] = "iterating" -> IF attempts[t] = 0 THEN 0 ELSE 2
           [] phase[t] = "top" -> 3
           [] phase[t] = "blocked" -> 4
           [] phase[t] = "woken" -> 5
           [] OTHER -> 1)
PlanTurn(t) ==
    3 * attempts[t] + (CASE phase[t] = "routed" -> 2
                         [] phase[t] = "unitRunning" -> 1
                         [] OTHER -> 0)

Further(t) ==
    \/ Stage(t)' > Stage(t)
    \/ Stage(t)' = Stage(t) /\ Turn(t)' > Turn(t)
    \/ Stage(t)' = Stage(t) /\ Turn(t)' = Turn(t) /\ PlanTurn(t)' > PlanTurn(t)

Untouched(t) == UNCHANGED <<phase[t], iterations[t], attempts[t]>>

\* Every step of a task takes it further, and no step of another task or of a
\* user takes it back.
TasksAdvance ==
    \A t \in Tasks :
        /\ Run(t) => Further(t)
        /\ Further(t) \/ Untouched(t)

\* A step puts a task into the semaphore's queue ...
Joins(t) ==
    /\ phase[t] \notin Waiting
    /\ queue' = Append(queue, t)
    /\ \/ phase' = [phase EXCEPT ![t] = "queued"]
       \/ phase[t] = "routed" /\ phase' = [phase EXCEPT ![t] = "unitQueued"]

\* ... gives a slot to the first in it ...
Served(t) ==
    /\ TakesSlot(t)
    /\ \/ /\ phase[t] = "queued"
          /\ \E mode \in {"setup", "unobserved"} : phase' = [phase EXCEPT ![t] = mode]
       \/ phase[t] = "unitQueued" /\ phase' = [phase EXCEPT ![t] = "unitRunning"]

\* ... or leaves queue and waiters alone and takes no slot.
Stays ==
    /\ queue' = queue
    /\ \A t \in Tasks :
           \/ phase'[t] = phase[t]
           \/ /\ phase[t] \notin Waiting /\ phase'[t] \notin Waiting
              /\ phase'[t] \in Holding => phase[t] \in Holding
              /\ phase'[t] # "unitRunning"
              /\ phase'[t] = "routed" => t \in Complex

\* Which phases a step may change: one task's, or blocked ones by a request.
LEMMA PhaseSteps ==
    ASSUME Inv, PlansAreComplex, [Next]_vars
    PROVE  (\E t \in Tasks : Joins(t)) \/ (\E t \in Tasks : Served(t)) \/ Stays
<1> USE DEF Inv, TypeOK
<1>1. ASSUME NEW t \in Tasks, CheckControl(t) \/ Wake(t) PROVE Stays
    BY <1>1 DEF CheckControl, Wake, Proceed, Goto, Holding, Stays, Waiting
<1>2. ASSUME NEW t \in Tasks,
             \/ Register(t) \/ CreateGraph(t) \/ EndIteration(t) \/ Abandon(t)
             \/ Release(t) \/ Unregister(t)
      PROVE  Stays
    BY <1>2 DEF Register, CreateGraph, EndIteration, Abandon, Release, Unregister,
                Goto, Holding, Stays, Waiting
<1>3. ASSUME NEW S \in SUBSET Tasks, phase' = Resolved(S), queue' = queue PROVE Stays
    BY <1>3 DEF Resolved, Holding, Stays, Waiting
<1>4. ASSUME NEW t \in Tasks, RequestPause(t) PROVE Stays
    BY <1>4 DEF RequestPause, Stays
<1>5. ASSUME NEW t \in Tasks, RequestResume(t) PROVE Stays
    <2>1. {t} \in SUBSET Tasks /\ phase' = Resolved({t}) /\ queue' = queue
        BY <1>5 DEF RequestResume
    <2> QED BY <2>1, <1>3
<1>6. ASSUME NEW t \in Tasks, RequestCancel(t) PROVE Stays
    <2>1. {t} \in SUBSET Tasks /\ phase' = Resolved({t}) /\ queue' = queue
        BY <1>6 DEF RequestCancel, CancelAll
    <2> QED BY <2>1, <1>3
<1>7. ASSUME CancelSession PROVE Stays
    <2>1. \E S \in SUBSET Tasks : phase' = Resolved(S) /\ queue' = queue
        BY <1>7 DEF CancelSession, CancelAll
    <2> QED BY <2>1, <1>3
<1>8. ASSUME UNCHANGED vars PROVE Stays
    BY <1>8 DEF vars, Stays
<1>9. ASSUME NEW t \in Tasks, Route(t) \/ EndUnit(t) \/ EndPlan(t) PROVE Stays
    BY <1>9 DEF Route, EndUnit, EndPlan, PlansAreComplex, Goto, Holding, Stays, Waiting
<1>10. ASSUME NEW t \in Tasks, Enqueue(t) \/ StartUnit(t) PROVE Joins(t)
    BY <1>10 DEF Enqueue, StartUnit, Goto, Joins, Waiting
<1>11. ASSUME NEW t \in Tasks, Acquire(t) \/ AcquireUnit(t) PROVE Served(t)
    BY <1>11 DEF Acquire, AcquireUnit, Goto, Served
<1> QED
    BY <1>1, <1>2, <1>4, <1>5, <1>6, <1>7, <1>8, <1>9, <1>10, <1>11 DEF Next, Run

\* The queue's tasks, and nobody else, wait for a slot.
LEMMA QueueStep ==
    ASSUME Inv, QueueMatches, PlansAreComplex, [Next]_vars PROVE QueueMatches'
<1> USE DEF Inv, TypeOK
<1>1. ASSUME NEW t \in Tasks, Joins(t) PROVE QueueMatches'
    <2>1. /\ phase[t] \notin Waiting /\ queue' = Append(queue, t)
          /\ \E place \in Waiting : phase' = [phase EXCEPT ![t] = place]
        BY <1>1 DEF Joins, Waiting
    <2>2. /\ Len(queue) \in Nat /\ Len(queue') = Len(queue) + 1
          /\ \A i \in 1..Len(queue') :
                 queue'[i] = IF i = Len(queue) + 1 THEN t ELSE queue[i]
        BY <2>1
    <2>3. \A i \in 1..Len(queue) : queue[i] # t
        BY <2>1 DEF QueueMatches
    <2>4. \A i \in 1..Len(queue) : i \in 1..Len(queue') /\ queue'[i] = queue[i]
        BY <2>2
    <2>5. Len(queue') \in 1..Len(queue') /\ queue'[Len(queue')] = t
        BY <2>2
    <2>6. \A u \in Tasks : phase'[u] \in Waiting <=> u = t \/ phase[u] \in Waiting
        BY <2>1
    <2>7. \A i \in 1..Len(queue') : \/ i \in 1..Len(queue) /\ queue'[i] = queue[i]
                                    \/ i = Len(queue') /\ queue'[i] = t
        BY <2>2
    <2>8. \A u \in Tasks : phase'[u] \in Waiting <=> \E i \in 1..Len(queue') : queue'[i] = u
        <3> SUFFICES ASSUME NEW u \in Tasks
                     PROVE  phase'[u] \in Waiting <=> \E i \in 1..Len(queue') : queue'[i] = u
            OBVIOUS
        <3>1. CASE u = t
            BY <2>5, <2>6, <3>1
        <3>2. CASE u # t
            <4>1. ASSUME NEW i \in 1..Len(queue), queue[i] = u
                  PROVE  \E j \in 1..Len(queue') : queue'[j] = u
                BY <2>4, <4>1
            <4>2. ASSUME NEW i \in 1..Len(queue'), queue'[i] = u
                  PROVE  \E j \in 1..Len(queue) : queue[j] = u
                BY <2>7, <3>2, <4>2
            <4> QED BY <2>6, <3>2, <4>1, <4>2 DEF QueueMatches
        <3> QED BY <3>1, <3>2
    <2>9. \A i, j \in 1..Len(queue') : queue'[i] = queue'[j] => i = j
        <3> SUFFICES ASSUME NEW i \in 1..Len(queue'), NEW j \in 1..Len(queue'),
                            queue'[i] = queue'[j]
                     PROVE  i = j
            OBVIOUS
        <3>1. CASE queue'[i] = t
            BY <2>3, <2>7, <3>1, Zenon
        <3>2. CASE queue'[i] # t
            <4>1. i \in 1..Len(queue) /\ j \in 1..Len(queue) /\ queue[i] = queue[j]
                BY <2>7, <3>2, Zenon
            <4> QED BY <4>1 DEF QueueMatches
        <3> QED BY <3>1, <3>2
    <2> QED BY <2>8, <2>9 DEF QueueMatches
<1>2. ASSUME NEW t \in Tasks, Served(t) PROVE QueueMatches'
    <2>1. /\ queue # <<>> /\ t = Head(queue) /\ queue' = Tail(queue)
          /\ \E place \in Phases \ Waiting : phase' = [phase EXCEPT ![t] = place]
        BY <1>2 DEF Served, TakesSlot, Phases, Waiting
    <2>2. /\ Len(queue) \in Nat \ {0} /\ Len(queue') = Len(queue) - 1
          /\ \A i \in 1..Len(queue') : queue'[i] = queue[i + 1]
          /\ queue[1] = t
        BY <2>1
    <2>3. \A i \in 1..Len(queue) : queue[i] = t => i = 1
        <3>1. 1 \in 1..Len(queue)
            BY <2>2
        <3> QED BY <2>2, <3>1, Zenon DEF QueueMatches
    <2>4. \A i \in 1..Len(queue') : i + 1 \in 1..Len(queue) /\ queue'[i] = queue[i + 1]
        BY <2>2
    <2>5. \A i \in 1..Len(queue) : i # 1 => i - 1 \in 1..Len(queue') /\ queue'[i - 1] = queue[i]
        <3> SUFFICES ASSUME NEW i \in 1..Len(queue), i # 1
                     PROVE  i - 1 \in 1..Len(queue') /\ queue'[i - 1] = queue[i]
            OBVIOUS
        <3>1. i - 1 \in 1..Len(queue') /\ (i - 1) + 1 = i
            BY <2>2
        <3>2. queue'[i - 1] = queue[(i - 1) + 1]
            BY <2>2, <3>1, Zenon
        <3> QED BY <3>1, <3>2
    <2>6. \A u \in Tasks : phase'[u] \in Waiting <=> u # t /\ phase[u] \in Waiting
        BY <2>1
    <2>7. \A u \in Tasks : phase'[u] \in Waiting <=> \E i \in 1..Len(queue') : queue'[i] = u
        <3> SUFFICES ASSUME NEW u \in Tasks
                     PROVE  phase'[u] \in Waiting <=> \E i \in 1..Len(queue') : queue'[i] = u
            OBVIOUS
        <3>1. ASSUME phase'[u] \in Waiting PROVE \E i \in 1..Len(queue') : queue'[i] = u
            <4>1. PICK i \in 1..Len(queue) : queue[i] = u
                BY <2>6, <3>1 DEF QueueMatches
            <4>2. i # 1
                BY <2>2, <2>6, <3>1, <4>1
            <4> QED BY <2>5, <4>1, <4>2
        <3>2. ASSUME NEW i \in 1..Len(queue'), queue'[i] = u PROVE phase'[u] \in Waiting
            <4>0. i + 1 \in 1..Len(queue) /\ queue[i + 1] = u /\ i + 1 # 1
                <5>1. i + 1 \in 1..Len(queue) /\ queue[i + 1] = u
                    BY <2>4, <3>2, Zenon
                <5>2. i \in Nat /\ i >= 1
                    BY <2>2
                <5> QED BY <5>1, <5>2
            <4>1. PICK j \in 1..Len(queue) : queue[j] = u /\ j # 1
                BY <4>0, Zenon
            <4>2. u # t
                BY <2>3, <4>1, Zenon
            <4>3. phase[u] \in Waiting
                BY <4>1, Zenon DEF QueueMatches
            <4> QED BY <2>6, <4>2, <4>3
        <3> QED BY <3>1, <3>2
    <2>8. \A i, j \in 1..Len(queue') : queue'[i] = queue'[j] => i = j
        <3> SUFFICES ASSUME NEW i \in 1..Len(queue'), NEW j \in 1..Len(queue'),
                            queue'[i] = queue'[j]
                     PROVE  i = j
            OBVIOUS
        <3>1. queue[i + 1] = queue[j + 1] /\ i + 1 \in 1..Len(queue) /\ j + 1 \in 1..Len(queue)
            BY <2>4
        <3>2. i + 1 = j + 1
            BY <3>1 DEF QueueMatches
        <3> QED BY <2>2, <3>2
    <2> QED BY <2>7, <2>8 DEF QueueMatches
<1>3. CASE Stays
    <2>1. queue' = queue /\ \A t \in Tasks : phase'[t] \in Waiting <=> phase[t] \in Waiting
        BY <1>3 DEF Stays
    <2> QED BY <2>1 DEF QueueMatches
<1> QED
    BY <1>1, <1>2, <1>3, PhaseSteps

\* A slot is taken only when one is free.
LEMMA SlotStep ==
    ASSUME Inv, SlotsRespected, PlansAreComplex, [Next]_vars PROVE SlotsRespected'
<1> USE DEF Inv, TypeOK
<1>1. /\ IsFiniteSet(Holders) /\ Cardinality(Holders) \in Nat
      /\ IsFiniteSet(UnitSlots) /\ Cardinality(UnitSlots) \in Nat
      /\ MaxGraphs \in Nat
    BY TasksAssumption, LimitsAssumption, FS_Subset, FS_CardinalityType
       DEF Holders, UnitSlots, At
<1>2. ASSUME Holders' \subseteq Holders PROVE Cardinality(Holders') \in 0..Cardinality(Holders)
    <2>1. Cardinality(Holders') \in Nat /\ Cardinality(Holders') <= Cardinality(Holders)
        BY <1>1, <1>2, FS_Subset, FS_CardinalityType
    <2> QED BY <1>1, <2>1
<1>3. ASSUME UnitSlots' \subseteq UnitSlots
      PROVE  Cardinality(UnitSlots') \in 0..Cardinality(UnitSlots)
    <2>1. Cardinality(UnitSlots') \in Nat /\ Cardinality(UnitSlots') <= Cardinality(UnitSlots)
        BY <1>1, <1>3, FS_Subset, FS_CardinalityType
    <2> QED BY <1>1, <2>1
<1>4. ASSUME NEW t \in Tasks, Served(t) PROVE SlotsRespected'
    <2>1. Cardinality(Holders) + Cardinality(UnitSlots) < MaxGraphs
        BY <1>4 DEF Served, TakesSlot, SlotFree, Holders, UnitSlots
    <2>2. CASE phase[t] = "queued"
        <3>1. Holders' \subseteq Holders \cup {t} /\ UnitSlots' \subseteq UnitSlots
            BY <1>4, <2>2 DEF Served, Holders, UnitSlots, At
        <3>2. /\ IsFiniteSet(Holders \cup {t})
              /\ Cardinality(Holders \cup {t}) \in {Cardinality(Holders), Cardinality(Holders) + 1}
            BY <1>1, FS_AddElement
        <3>3. Cardinality(Holders') \in Nat /\ Cardinality(Holders') <= Cardinality(Holders \cup {t})
            BY <3>1, <3>2, FS_Subset, FS_CardinalityType
        <3> QED BY <1>1, <1>3, <2>1, <3>1, <3>2, <3>3 DEF SlotsRespected
    <2>3. CASE phase[t] = "unitQueued"
        <3>1. Holders' \subseteq Holders /\ UnitSlots' \subseteq UnitSlots \cup {t}
            BY <1>4, <2>3 DEF Served, Holders, UnitSlots, At, Holding
        <3>2. /\ IsFiniteSet(UnitSlots \cup {t})
              /\ Cardinality(UnitSlots \cup {t})
                     \in {Cardinality(UnitSlots), Cardinality(UnitSlots) + 1}
            BY <1>1, FS_AddElement
        <3>3. /\ Cardinality(UnitSlots') \in Nat
              /\ Cardinality(UnitSlots') <= Cardinality(UnitSlots \cup {t})
            BY <3>1, <3>2, FS_Subset, FS_CardinalityType
        <3> QED BY <1>1, <1>2, <2>1, <3>1, <3>2, <3>3 DEF SlotsRespected
    <2> QED BY <1>4, <2>2, <2>3 DEF Served
<1>5. ASSUME Holders' \subseteq Holders, UnitSlots' \subseteq UnitSlots PROVE SlotsRespected'
    BY <1>1, <1>2, <1>3, <1>5 DEF SlotsRespected
<1>6. ASSUME NEW t \in Tasks, Joins(t) PROVE SlotsRespected'
    <2>1. Holders' \subseteq Holders /\ UnitSlots' \subseteq UnitSlots
        BY <1>6 DEF Joins, Holders, UnitSlots, At, Holding
    <2> QED BY <1>5, <2>1
<1>7. CASE Stays
    <2>1. Holders' \subseteq Holders /\ UnitSlots' \subseteq UnitSlots
        BY <1>7 DEF Stays, Holders, UnitSlots, At
    <2> QED BY <1>5, <2>1
<1> QED
    BY <1>4, <1>6, <1>7, PhaseSteps

\* Route alone leads into a plan.
LEMMA PlansStep == ASSUME Inv, PlansAreComplex, [Next]_vars PROVE PlansAreComplex'
<1> USE DEF Inv, TypeOK
<1>1. ASSUME NEW t \in Tasks, Joins(t) \/ Served(t) PROVE PlansAreComplex'
    BY <1>1 DEF Joins, Served, PlansAreComplex, Waiting
<1>2. CASE Stays
    BY <1>2 DEF Stays, PlansAreComplex, Waiting
<1> QED BY <1>1, <1>2, PhaseSteps

\* The semaphore's queue holds the tasks that wait, for themselves or for a unit
\* of their plan, and its slots are respected.
THEOREM QueueInvariant ==
    Spec => [](Inv /\ QueueMatches /\ SlotsRespected /\ PlansAreComplex)
<1>1. Init => QueueMatches /\ PlansAreComplex
    BY DEF Init, QueueMatches, PlansAreComplex, Waiting
<1>2. Init => SlotsRespected
    <2> SUFFICES ASSUME Init PROVE SlotsRespected
        OBVIOUS
    <2>1. Holders = {} /\ UnitSlots = {}
        BY DEF Init, Holders, UnitSlots, At, Holding
    <2> QED BY <2>1, FS_EmptySet, LimitsAssumption DEF SlotsRespected
<1>3. Spec => Init /\ [][Next]_vars
    BY DEF Spec
<1>4. Spec => []PlansAreComplex
    BY <1>1, <1>3, PlansStep, ControlInvariant, PTL
<1>5. Spec => [](QueueMatches /\ SlotsRespected)
    BY <1>1, <1>2, <1>3, <1>4, QueueStep, SlotStep, ControlInvariant, PTL
<1> QED BY <1>4, <1>5, ControlInvariant, PTL

\* The queue comes to rest in two ways only: a paused task keeps its slot, as
\* users want it, or the plans of complex tasks have taken all the slots and
\* wait for more (GraphController.execute inside GraphController.execute).
THEOREM OnlyPauseOrJam == Spec => []StuckIsPausedOrJammed
<1>1. Inv /\ QueueMatches => StuckIsPausedOrJammed
    <2> SUFFICES ASSUME Inv, QueueMatches, \A t \in Tasks : Waits(t),
                        NEW t \in Tasks, phase[t] \in Waiting,
                        ~\E u \in Holders : phase[u] = "blocked" /\ control[u] = "paused"
                 PROVE  Jammed
        BY DEF StuckIsPausedOrJammed
    <2>1. PICK i \in 1..Len(queue) : queue[i] = t
        BY DEF QueueMatches
    <2>2. 1 \in 1..Len(queue) /\ queue[1] \in Tasks /\ queue[1] = Head(queue)
        BY <2>1 DEF Inv, TypeOK
    <2>3. phase[queue[1]] \in Waiting
        BY <2>2, Zenon DEF QueueMatches
    <2>4. ~SlotFree
        BY <2>2, <2>3 DEF Waits, Waiting
    <2>5. \A u \in Tasks : phase[u] # "blocked"
        BY DEF Inv, NoLostWakeup, Holders, At, Holding
    <2>6. \A u \in Tasks : phase[u] \in {"new", "ended", "queued", "unitQueued"}
        BY <2>5 DEF Waits, Waiting
    <2>7. At(Holding) = At({"unitQueued"}) /\ At({"unitRunning"}) = {}
        BY <2>6 DEF At, Holding
    <2>8. IsFiniteSet(At({"unitQueued"})) /\ Cardinality(At({"unitQueued"})) \in Nat
        BY TasksAssumption, FS_Subset, FS_CardinalityType DEF At
    <2>9. Cardinality(At({"unitRunning"})) = 0
        BY <2>7, FS_EmptySet
    <2>10. ~(Cardinality(At({"unitQueued"})) + 0 < MaxGraphs)
        BY <2>4, <2>7, <2>9 DEF SlotFree
    <2> QED BY <2>8, <2>10, LimitsAssumption DEF Jammed
<1> QED BY <1>1, QueueInvariant, PTL

\* A jam is for good: no step of a task ends it, and no cancel or resume either,
\* since units have no handle and their tasks do not look at theirs.
THEOREM JamLasts == Spec => [][Jammed => Jammed']_vars
<1>1. Inv /\ PlansAreComplex /\ [Next]_vars => [Jammed => Jammed']_vars
    <2> SUFFICES ASSUME Inv, PlansAreComplex, [Next]_vars, Jammed PROVE Jammed'
        OBVIOUS
    <2>1. ~SlotFree
        <3>1. At({"unitQueued"}) \subseteq At(Holding)
            BY DEF At, Holding
        <3>2. /\ Cardinality(At({"unitQueued"})) <= Cardinality(At(Holding))
              /\ Cardinality(At({"unitQueued"})) \in Nat
              /\ Cardinality(At(Holding)) \in Nat
              /\ Cardinality(At({"unitRunning"})) \in Nat
            BY <3>1, TasksAssumption, FS_Subset, FS_CardinalityType DEF At
        <3> QED BY <3>2, LimitsAssumption DEF Jammed, SlotFree
    <2>2. \A t \in Tasks : phase[t] = "unitQueued" => phase'[t] = "unitQueued"
        <3>1. ASSUME NEW t \in Tasks, Joins(t)
              PROVE  \A u \in Tasks : phase[u] = "unitQueued" => phase'[u] = "unitQueued"
            BY <3>1 DEF Joins, Waiting, Inv, TypeOK
        <3>2. \A t \in Tasks : ~Served(t)
            BY <2>1 DEF Served, TakesSlot
        <3>3. CASE Stays
            BY <3>3 DEF Stays, Waiting
        <3> QED BY <3>1, <3>2, <3>3, PhaseSteps
    <2>3. At({"unitQueued"}) \subseteq At({"unitQueued"})'
        BY <2>2 DEF At
    <2>4. IsFiniteSet(At({"unitQueued"})')
        BY TasksAssumption, FS_Subset DEF At
    <2>5. /\ Cardinality(At({"unitQueued"})) <= Cardinality(At({"unitQueued"})')
          /\ Cardinality(At({"unitQueued"})) \in Nat
          /\ Cardinality(At({"unitQueued"})') \in Nat
        BY <2>3, <2>4, FS_Subset, FS_CardinalityType
    <2> QED BY <2>5, LimitsAssumption DEF Jammed
<1> QED BY <1>1, QueueInvariant, PTL DEF Spec

\* It takes as many complex tasks as there are slots.
THEOREM JamTakesComplexTasks == Spec => [](Jammed => Cardinality(Complex) >= MaxGraphs)
<1>1. PlansAreComplex => (Jammed => Cardinality(Complex) >= MaxGraphs)
    <2> SUFFICES ASSUME PlansAreComplex, Jammed PROVE Cardinality(Complex) >= MaxGraphs
        OBVIOUS
    <2>1. At({"unitQueued"}) \subseteq Complex /\ IsFiniteSet(Complex)
        BY TasksAssumption, FS_Subset DEF PlansAreComplex, At
    <2>2. /\ Cardinality(At({"unitQueued"})) <= Cardinality(Complex)
          /\ Cardinality(At({"unitQueued"})) \in Nat /\ Cardinality(Complex) \in Nat
        BY <2>1, FS_Subset, FS_CardinalityType
    <2> QED BY <2>2, LimitsAssumption DEF Jammed
<1> QED BY <1>1, QueueInvariant, PTL

\* What a request does to a task: nothing, or it wakes it.
LEMMA RequestsWake ==
    ASSUME Inv, NEW S \in SUBSET Tasks, phase' = Resolved(S), UNCHANGED loopVars,
           NEW t \in Tasks
    PROVE  Further(t) \/ Untouched(t)
<1> USE DEF Inv, TypeOK, loopVars
<1>1. CASE t \in S /\ phase[t] = "blocked"
    <2>1. phase'[t] = "woken" /\ iterations'[t] = iterations[t] /\ iterations[t] \in Nat
        BY <1>1, LimitsAssumption DEF Resolved
    <2> QED BY <1>1, <2>1 DEF Further, Stage, Turn
<1>2. CASE ~(t \in S /\ phase[t] = "blocked")
    BY <1>2 DEF Resolved, Untouched
<1> QED BY <1>1, <1>2

\* A task's own step.
LEMMA RunGoesFurther ==
    ASSUME Inv, NEW t \in Tasks, Run(t) \/ Register(t)
    PROVE  /\ Further(t)
           /\ \A u \in Tasks \ {t} : Untouched(u)
<1> USE LimitsAssumption DEF Inv, TypeOK, Goto
<1>0. iterations[t] \in Nat /\ attempts[t] \in Nat
    OBVIOUS
<1>1. ASSUME Proceed(t), attempts' = attempts, phase[t] \in {"top", "woken"}
      PROVE  Further(t)
    <2>1. CASE phase'[t] = "leaving"
        BY <1>1, <2>1 DEF Further, Stage
    <2>2. CASE phase'[t] # "leaving"
        <3>1. phase'[t] = "iterating" /\ iterations'[t] = iterations[t] + 1
            BY <1>1, <2>2 DEF Proceed
        <3>2. Stage(t)' = Stage(t)
            BY <1>1, <3>1 DEF Stage
        <3>3. Turn(t) <= 6 * iterations[t] + 5 /\ Turn(t) \in Nat
            BY <1>0 DEF Turn
        <3>4. Turn(t)' >= 6 * (iterations[t] + 1) /\ Turn(t)' \in Nat
            BY <1>0, <1>1, <3>1 DEF Turn
        <3> QED BY <1>0, <3>2, <3>3, <3>4 DEF Further
    <2> QED BY <2>1, <2>2
<1>2. CASE CheckControl(t)
    <2>1. phase[t] = "top" /\ attempts' = attempts
        BY <1>2 DEF CheckControl
    <2>2. \/ Proceed(t)
          \/ Goto(t, "leaving")
          \/ Goto(t, "blocked") /\ UNCHANGED iterations
        BY <1>2, Zenon DEF CheckControl
    <2>3. ASSUME Goto(t, "leaving") PROVE Further(t)
        BY <2>1, <2>3 DEF Further, Stage
    <2>4. ASSUME Goto(t, "blocked"), UNCHANGED iterations PROVE Further(t)
        BY <1>0, <2>1, <2>4 DEF Further, Stage, Turn
    <2>5. \A u \in Tasks \ {t} : Untouched(u)
        BY <1>2 DEF CheckControl, Proceed, Untouched
    <2> QED BY <1>1, <2>1, <2>2, <2>3, <2>4, <2>5, Zenon
<1>3. CASE Wake(t)
    <2>1. phase[t] = "woken" /\ attempts' = attempts
        BY <1>3 DEF Wake
    <2>2. Proceed(t) \/ Goto(t, "leaving")
        BY <1>3, Zenon DEF Wake
    <2>3. ASSUME Goto(t, "leaving") PROVE Further(t)
        BY <2>1, <2>3 DEF Further, Stage
    <2>4. \A u \in Tasks \ {t} : Untouched(u)
        BY <1>3 DEF Wake, Proceed, Untouched
    <2> QED BY <1>1, <2>1, <2>2, <2>3, <2>4, Zenon
<1>4. CASE EndIteration(t)
    <2>1. phase[t] = "iterating" /\ phase'[t] \in {"top", "leaving"} /\ UNCHANGED loopVars
        BY <1>4 DEF EndIteration
    <2>2. \A u \in Tasks \ {t} : Untouched(u)
        BY <1>4 DEF EndIteration, Untouched, loopVars
    <2> QED BY <1>0, <2>1, <2>2 DEF Further, Stage, Turn, loopVars
<1>5. CASE Register(t) \/ Enqueue(t)
    BY <1>5 DEF Register, Enqueue, Further, Stage, Untouched, loopVars
<1>6. CASE Acquire(t)
    BY <1>6 DEF Acquire, Further, Stage, Untouched, loopVars
<1>7. CASE CreateGraph(t) \/ Abandon(t)
    BY <1>7 DEF CreateGraph, Abandon, Further, Stage, Untouched, loopVars
<1>8. CASE Release(t) \/ Unregister(t)
    BY <1>8 DEF Release, Unregister, Further, Stage, Untouched, loopVars
<1>9. CASE Route(t)
    <2>1. /\ phase[t] = "iterating" /\ attempts[t] = 0 /\ phase'[t] = "routed"
          /\ iterations'[t] = iterations[t] /\ attempts'[t] = attempts[t]
        BY <1>9 DEF Route, loopVars
    <2>2. \A u \in Tasks \ {t} : Untouched(u)
        BY <1>9 DEF Route, Untouched, loopVars
    <2> QED BY <1>0, <2>1, <2>2 DEF Further, Stage, Turn
<1>10. ASSUME phase[t] \in {"routed", "unitQueued", "unitRunning"},
              phase'[t] \in {"routed", "unitQueued", "unitRunning"},
              iterations'[t] = iterations[t], PlanTurn(t)' > PlanTurn(t)
       PROVE  Further(t)
    <2>1. Stage(t) = 4 /\ Stage(t)' = 4
        BY <1>10 DEF Stage
    <2>2. Turn(t) = 6 * iterations[t] + 1 /\ Turn(t)' = 6 * iterations[t] + 1
        BY <1>10 DEF Turn
    <2> QED BY <1>10, <2>1, <2>2 DEF Further
<1>11. CASE StartUnit(t)
    <2>1. /\ phase[t] = "routed" /\ phase'[t] = "unitQueued"
          /\ iterations'[t] = iterations[t] /\ attempts'[t] = attempts[t] + 1
        BY <1>11 DEF StartUnit
    <2>2. \A u \in Tasks \ {t} : Untouched(u)
        BY <1>11 DEF StartUnit, Untouched
    <2>3. PlanTurn(t)' > PlanTurn(t)
        BY <1>0, <2>1 DEF PlanTurn
    <2> QED BY <1>10, <2>1, <2>2, <2>3
<1>12. CASE AcquireUnit(t) \/ EndUnit(t)
    <2>1. /\ \/ phase[t] = "unitQueued" /\ phase'[t] = "unitRunning"
             \/ phase[t] = "unitRunning" /\ phase'[t] = "routed"
          /\ iterations'[t] = iterations[t] /\ attempts'[t] = attempts[t]
        BY <1>12 DEF AcquireUnit, EndUnit, loopVars
    <2>2. \A u \in Tasks \ {t} : Untouched(u)
        BY <1>12 DEF AcquireUnit, EndUnit, Untouched, loopVars
    <2>3. PlanTurn(t)' > PlanTurn(t)
        BY <1>0, <2>1 DEF PlanTurn
    <2> QED BY <1>10, <2>1, <2>2, <2>3
<1>13. CASE EndPlan(t)
    <2>1. /\ phase[t] = "routed"
          /\ phase'[t] = "leaving" \/ (attempts[t] # 0 /\ phase'[t] = "iterating")
          /\ iterations'[t] = iterations[t] /\ attempts'[t] = attempts[t]
        BY <1>0, <1>13 DEF EndPlan, loopVars
    <2>2. \A u \in Tasks \ {t} : Untouched(u)
        BY <1>13 DEF EndPlan, Untouched, loopVars
    <2> QED BY <1>0, <2>1, <2>2 DEF Further, Stage, Turn
<1> QED
    BY <1>2, <1>3, <1>4, <1>5, <1>6, <1>7, <1>8, <1>9, <1>11, <1>12, <1>13 DEF Run

\* However often users pause, resume and cancel, a task takes a bounded number
\* of steps: it goes one way through its phases, in its loop through at most
\* MaxIterations iterations and in its plan through MaxAttempts attempts.  So
\* whoever is neither paused for ever nor left in a jam comes to an end.
THEOREM TasksComeToAnEnd == Spec => [][TasksAdvance]_vars
<1>1. Inv /\ [Next]_vars => [TasksAdvance]_vars
    <2> SUFFICES ASSUME Inv, Next PROVE TasksAdvance
        OBVIOUS
    <2>1. ASSUME NEW t \in Tasks, Run(t) \/ Register(t) PROVE TasksAdvance
        <3>1. Further(t) /\ \A u \in Tasks \ {t} : Untouched(u)
            BY <2>1, RunGoesFurther
        <3>2. \A u \in Tasks : Run(u) => Further(u)
            BY RunGoesFurther
        <3> QED BY <3>1, <3>2 DEF TasksAdvance
    <2>2. ASSUME NEW S \in SUBSET Tasks, phase' = Resolved(S), UNCHANGED loopVars
          PROVE  TasksAdvance
        BY <2>2, RequestsWake, RunGoesFurther DEF TasksAdvance
    <2>3. ASSUME NEW t \in Tasks, RequestPause(t) PROVE TasksAdvance
        BY <2>3, RunGoesFurther DEF TasksAdvance, RequestPause, Untouched, loopVars
    <2>4. ASSUME NEW t \in Tasks, RequestCancel(t) \/ RequestResume(t) PROVE TasksAdvance
        <3>1. phase' = Resolved({t}) /\ UNCHANGED loopVars
            BY <2>4 DEF RequestCancel, RequestResume, CancelAll
        <3> QED BY <2>2, <3>1
    <2>5. CASE CancelSession
        <3>1. \E S \in SUBSET Tasks : phase' = Resolved(S) /\ UNCHANGED loopVars
            BY <2>5 DEF CancelSession, CancelAll, Inv, TypeOK
        <3> QED BY <2>2, <3>1
    <2> QED BY <2>1, <2>3, <2>4, <2>5 DEF Next
<1> QED
    BY <1>1, ControlInvariant, PTL DEF Spec
=============================================================================
