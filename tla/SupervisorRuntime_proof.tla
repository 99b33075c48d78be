----------------------- MODULE SupervisorRuntime_proof -----------------------
(***************************************************************************)
(* Proofs about SupervisorRuntime for any nodes, plans, workers and limits.*)
(* The inductive invariant says what the phase of a node's coroutine       *)
(* implies: a coroutine that waits or executes belongs to a "running"      *)
(* node, one that executes holds a healthy worker of its own, and whoever  *)
(* was never spawned has never failed.  Malformed feedback is the one way  *)
(* a completed node is left with a coroutine of its own, which sleeps, and *)
(* the one way its completion is taken back; "reopened" remembers that.    *)
(***************************************************************************)
EXTENDS SupervisorRuntime, TLAPS

\* A coroutine inside the executor holds a healthy worker of the right role.
Equipped ==
    \A n \in Nodes : run[n] = "exec" =>
        /\ holder[n] \in busy
        /\ role[holder[n]] = RoleOf[n]
        /\ fails[holder[n]] < BrokenAt

Distinct ==
    \A m, n \in Nodes :
        run[m] = "exec" /\ run[n] = "exec" /\ holder[m] = holder[n] => m = n

\* Only the workers of coroutines in the executor are busy.
BusyHeld ==
    pc # "done" => \A w \in busy : \E n \in Nodes : run[n] = "exec" /\ holder[n] = w

\* What a coroutine under way says about its node.
Coherent ==
    \A n \in Nodes :
        /\ run[n] \in {"queued", "exec"} => status[n] = "running"
        /\ run[n] = "backoff" => status[n] \in {"running", "completed"}

Unspawned == \A w \in Workers : role[w] = None => fails[w] = 0 /\ w \notin busy

LoopStates ==
    /\ pc \in {"loop", "waiting"} => empties < MaxEmpty
    /\ pc = "done" => \A n \in Nodes : run[n] \in {"none", "cancelled"}

Inv ==
    /\ TypeOK
    /\ Equipped
    /\ Distinct
    /\ BusyHeld
    /\ Coherent
    /\ Unspawned
    /\ LoopStates

-----------------------------------------------------------------------------
(* What the passes over the graph do to the statuses *)

\* Propagation fails pending nodes and touches no other.
LEMMA PropagatedStatuses ==
    ASSUME NEW s \in [Nodes -> Statuses]
    PROVE  /\ Propagated(s) \in [Nodes -> Statuses]
           /\ \A n \in Nodes :
                \/ Propagated(s)[n] = s[n]
                \/ s[n] = "pending" /\ Propagated(s)[n] = "failed"
BY DEF Propagated, Statuses

\* The harvest fails running nodes whose task has raised and no other.
LEMMA HarvestedStatuses ==
    ASSUME TypeOK
    PROVE  /\ Harvested \in [Nodes -> Statuses]
           /\ \A n \in Nodes :
                \/ Harvested[n] = status[n]
                \/ run[n] = "raised" /\ status[n] = "running" /\ Harvested[n] = "failed"
BY DEF TypeOK, Harvested, Statuses

\* Before the loop decides anything, completed nodes are as they were, no node
\* has become completed or running, and a node with a live coroutine still runs.
LEMMA ScannedStatuses ==
    ASSUME TypeOK
    PROVE  /\ Scanned \in [Nodes -> Statuses]
           /\ \A n \in Nodes :
                /\ Scanned[n] = "completed" <=> status[n] = "completed"
                /\ Scanned[n] = "running" => status[n] = "running"
                /\ status[n] = "running" /\ run[n] # "raised" => Scanned[n] = "running"
<1>1. /\ AfterHarvest \in [Nodes -> Statuses]
      /\ \A n \in Nodes :
            /\ AfterHarvest[n] = "completed" <=> status[n] = "completed"
            /\ AfterHarvest[n] = "running" => status[n] = "running"
            /\ status[n] = "running" /\ run[n] # "raised" => AfterHarvest[n] = "running"
    <2>1. CASE DoneTasks = {}
        BY <2>1 DEF AfterHarvest, TypeOK
    <2>2. CASE DoneTasks # {}
        BY <2>2, HarvestedStatuses, PropagatedStatuses DEF AfterHarvest
    <2> QED
        BY <2>1, <2>2
<1> QED
    BY <1>1 DEF Scanned, Resettable, Statuses

\* The same for the harvest at the end of the run.
LEMMA FinishedStatuses ==
    ASSUME TypeOK, Finish
    PROVE  /\ status' \in [Nodes -> Statuses]
           /\ \A n \in Nodes :
                /\ status'[n] = "completed" <=> status[n] = "completed"
                /\ status'[n] = "running" => status[n] = "running"
<1>1. CASE InFlight = {}
    BY <1>1 DEF Finish, TypeOK
<1>2. CASE InFlight # {}
    BY <1>2, HarvestedStatuses, PropagatedStatuses DEF Finish
<1> QED
    BY <1>1, <1>2

\* A pass of the loop: what it does to the statuses and the coroutines.
Pass == StopAllOver \/ Dispatch \/ Wait \/ Poll

LEMMA PassStatuses ==
    ASSUME TypeOK, Pass
    PROVE  /\ status' \in [Nodes -> Statuses]
           /\ run' \in [Nodes -> Phases]
           /\ \A n \in Nodes :
                /\ status'[n] = "completed" <=> status[n] = "completed"
                /\ status'[n] = "running" =>
                    \/ status[n] = "running"
                    \/ n \in Ready /\ run'[n] = "queued"
                /\ status[n] = "running" /\ run[n] # "raised" => status'[n] = "running"
                /\ \/ run'[n] = run[n] /\ n \notin DoneTasks
                   \/ run'[n] = "none"
                   \/ run'[n] = "queued" /\ status'[n] = "running" /\ n \in Ready
<1>1. /\ Scanned \in [Nodes -> Statuses]
      /\ \A n \in Nodes :
            /\ Scanned[n] = "completed" <=> status[n] = "completed"
            /\ Scanned[n] = "running" => status[n] = "running"
            /\ status[n] = "running" /\ run[n] # "raised" => Scanned[n] = "running"
    BY ScannedStatuses
<1>2. CASE Dispatch
    <2>1. /\ status' = [n \in Nodes |-> IF n \in Ready THEN "running" ELSE Scanned[n]]
          /\ run' = [n \in Nodes |->
                        IF n \in Ready THEN "queued"
                        ELSE IF n \in DoneTasks THEN "none" ELSE run[n]]
        BY <1>2 DEF Dispatch, LeaveInFlight
    <2>2. \A n \in Ready : n \in Nodes /\ Scanned[n] = "pending"
        BY DEF Ready, ReadyNodes
    <2>3. /\ status' \in [Nodes -> Statuses]
          /\ run' \in [Nodes -> Phases]
        BY <1>1, <2>1 DEF TypeOK, Statuses, Phases
    <2>4. ASSUME NEW n \in Nodes, n \in Ready
          PROVE  /\ status'[n] = "running" /\ run'[n] = "queued"
                 /\ Scanned[n] = "pending"
        BY <2>1, <2>2, <2>4
    <2>5. ASSUME NEW n \in Nodes, n \notin Ready
          PROVE  /\ status'[n] = Scanned[n]
                 /\ run'[n] = IF n \in DoneTasks THEN "none" ELSE run[n]
        BY <2>1, <2>5
    <2> QED
        BY <1>1, <2>3, <2>4, <2>5
<1>3. CASE StopAllOver \/ Wait \/ Poll
    <2>1. /\ status' = Scanned
          /\ run' = [n \in Nodes |-> IF n \in DoneTasks THEN "none" ELSE run[n]]
        BY <1>3 DEF StopAllOver, Wait, Poll, LeaveInFlight
    <2> QED
        BY <1>1, <2>1 DEF TypeOK, Phases
<1> QED
    BY <1>2, <1>3 DEF Pass

-----------------------------------------------------------------------------
(* Type correctness and the worker invariants *)

\* A run begins with every node pending and no coroutine under way.
THEOREM InvInit == Init => Inv
<1> SUFFICES ASSUME Init PROVE Inv
    OBVIOUS
<1> USE BoundsAssumption, CachesAssumption, NoneAssumption
<1>1. TypeOK
    <2>1. 0 \in 0..BrokenAt /\ 0 \in 0..MaxRepairs /\ 0 \in 0..MaxRounds /\ 0 \in 0..MaxEmpty
        OBVIOUS
    <2>2. cached \in SUBSET Nodes
        BY DEF Init
    <2> QED
        BY <2>1, <2>2 DEF Init, TypeOK, Statuses, Phases, Reasons
<1>2. \A n \in Nodes : run[n] = "none"
    BY DEF Init
<1>3. Equipped /\ Distinct /\ Coherent
    BY <1>2 DEF Equipped, Distinct, Coherent
<1>4. busy = {} /\ (\A w \in Workers : fails[w] = 0) /\ empties = 0 /\ pc = "loop"
    BY DEF Init
<1>5. BusyHeld
    BY <1>4 DEF BusyHeld
<1>6. Unspawned
    BY <1>4 DEF Unspawned
<1>7. LoopStates
    BY <1>4 DEF LoopStates
<1> QED
    BY <1>1, <1>3, <1>5, <1>6, <1>7 DEF Inv

\* Whoever executes holds a spawned worker, and no busy worker is unspawned.
LEMMA HoldersSpawned ==
    ASSUME Inv, NEW n \in Nodes, run[n] = "exec"
    PROVE  holder[n] \in Workers /\ holder[n] \in Spawned
BY RolesAssumption, NoneAssumption DEF Inv, TypeOK, Equipped, Spawned

\* A queued coroutine that gets an idle healthy worker of its role.
LEMMA AssignStep ==
    ASSUME Inv, NEW n \in Nodes, NEW w \in Workers,
           run[n] = "queued", w \notin busy, fails[w] < BrokenAt,
           role' \in [Workers -> Roles \cup {None}], role'[w] = RoleOf[n],
           \A v \in Workers : v # w => role'[v] = role[v],
           role[w] = None \/ role[w] = RoleOf[n],
           StartOn(n, w),
           UNCHANGED <<edges, repairVars, pc, round, empties, late, reason>>
    PROVE  Inv'
<1> USE BoundsAssumption, RolesAssumption, NoneAssumption DEF Inv
<1>1. CASE n \in cached
    <2>1. /\ run' = [run EXCEPT ![n] = "done"]
          /\ status' = [status EXCEPT ![n] = "completed"]
          /\ busy' = busy \ {w}
          /\ fails' = [fails EXCEPT ![w] = 0]
          /\ holder' = [holder EXCEPT ![n] = None]
          /\ woken' = TRUE
        BY <1>1 DEF StartOn, Completes, Returns
    <2>2. TypeOK'
        BY <2>1 DEF TypeOK, Statuses, Phases, repairVars
    <2>3. \A m \in Nodes : run'[m] = "exec" =>
              m # n /\ run[m] = "exec" /\ holder'[m] = holder[m] /\ holder[m] # w
        BY <2>1 DEF TypeOK, Equipped
    <2>4. Equipped' /\ Distinct'
        BY <2>1, <2>3, HoldersSpawned DEF TypeOK, Equipped, Distinct
    <2>5. BusyHeld'
        <3> SUFFICES ASSUME pc # "done", NEW v \in busy
                     PROVE  \E m \in Nodes : run'[m] = "exec" /\ holder'[m] = v
            BY <2>1 DEF BusyHeld
        <3>1. PICK m \in Nodes : run[m] = "exec" /\ holder[m] = v
            BY DEF BusyHeld
        <3> QED
            BY <2>1, <3>1 DEF TypeOK
    <2>6. Coherent'
        BY <2>1 DEF TypeOK, Coherent
    <2>7. Unspawned' /\ LoopStates'
        BY <2>1 DEF TypeOK, Unspawned, LoopStates
    <2> QED
        BY <2>2, <2>4, <2>5, <2>6, <2>7
<1>2. CASE n \notin cached
    <2>1. /\ run' = [run EXCEPT ![n] = "exec"]
          /\ holder' = [holder EXCEPT ![n] = w]
          /\ busy' = busy \cup {w}
          /\ UNCHANGED <<status, fails, woken>>
        BY <1>2 DEF StartOn
    <2>2. TypeOK'
        BY <2>1 DEF TypeOK, Statuses, Phases, repairVars
    <2>3. \A m \in Nodes : m # n /\ run'[m] = "exec" =>
              run[m] = "exec" /\ holder'[m] = holder[m] /\ holder[m] # w
        BY <2>1 DEF TypeOK, Equipped
    <2>4. run'[n] = "exec" /\ holder'[n] = w
        BY <2>1 DEF TypeOK
    <2>5. Equipped'
        <3>1. ASSUME NEW m \in Nodes, m # n, run'[m] = "exec"
              PROVE  /\ holder'[m] \in busy'
                     /\ role'[holder'[m]] = RoleOf[m]
                     /\ fails'[holder'[m]] < BrokenAt
            BY <2>1, <2>3, <3>1, HoldersSpawned DEF Equipped
        <3>2. /\ holder'[n] \in busy'
              /\ role'[holder'[n]] = RoleOf[n]
              /\ fails'[holder'[n]] < BrokenAt
            BY <2>1, <2>4
        <3> QED
            BY <3>1, <3>2 DEF Equipped
    <2>6. Distinct'
        BY <2>3, <2>4 DEF Distinct
    <2>7. BusyHeld'
        <3> SUFFICES ASSUME pc # "done", NEW v \in busy'
                     PROVE  \E m \in Nodes : run'[m] = "exec" /\ holder'[m] = v
            BY DEF BusyHeld
        <3>1. CASE v = w
            BY <2>4, <3>1
        <3>2. CASE v \in busy
            <4>1. PICK m \in Nodes : run[m] = "exec" /\ holder[m] = v
                BY <3>2 DEF BusyHeld
            <4> QED
                BY <2>1, <4>1 DEF TypeOK
        <3> QED
            BY <2>1, <3>1, <3>2
    <2>8. Coherent'
        BY <2>1 DEF TypeOK, Coherent
    <2>9. Unspawned' /\ LoopStates'
        BY <2>1 DEF TypeOK, Unspawned, LoopStates
    <2> QED
        BY <2>2, <2>5, <2>6, <2>7, <2>8, <2>9
<1> QED
    BY <1>1, <1>2

LEMMA StartStep == ASSUME Inv, NEW n \in Nodes, Start(n) PROVE Inv'
<1> USE BoundsAssumption, RolesAssumption, NoneAssumption DEF Inv
<1>1. CASE Reuse(n)
    <2>1. PICK w \in Workers : First(w, Reusable(RoleOf[n])) /\ StartOn(n, w)
        BY <1>1 DEF Reuse
    <2>2. w \notin busy /\ role[w] = RoleOf[n] /\ ~(fails[w] >= BrokenAt)
        BY <2>1 DEF First, Reusable, Quarantined
    <2>3. fails[w] < BrokenAt
        BY <2>2 DEF TypeOK
    <2> QED
        BY <1>1, <2>1, <2>2, <2>3, AssignStep DEF Reuse, TypeOK
<1>2. CASE Spawn(n)
    <2>1. PICK w \in Workers :
              /\ First(w, Workers \ Spawned)
              /\ role' = [role EXCEPT ![w] = RoleOf[n]]
              /\ StartOn(n, w)
        BY <1>2 DEF Spawn
    <2>2. role[w] = None
        BY <2>1 DEF First, Spawned
    <2>3. w \notin busy /\ fails[w] = 0 /\ fails[w] < BrokenAt
        BY <2>2 DEF Unspawned
    <2>4. /\ role' \in [Workers -> Roles \cup {None}]
          /\ role'[w] = RoleOf[n]
          /\ \A v \in Workers : v # w => role'[v] = role[v]
        BY <2>1 DEF TypeOK
    <2> QED
        BY <1>2, <2>1, <2>2, <2>3, <2>4, AssignStep DEF Spawn
<1>3. CASE SpawnDenied(n)
    BY <1>3 DEF SpawnDenied, TypeOK, Phases, Equipped, Distinct, BusyHeld, Coherent,
                Unspawned, LoopStates, graphVars, workerVars, repairVars
<1> QED
    BY <1>1, <1>2, <1>3 DEF Start

\* A coroutine that leaves the executor and gives its worker back.
LEMMA ReleaseStep ==
    ASSUME Inv, NEW n \in Nodes, NEW count \in 0..BrokenAt,
           run[n] = "exec",
           run' \in [Nodes -> Phases],
           run'[n] \in {"done", "backoff"},
           \A m \in Nodes : m # n => run'[m] = run[m],
           busy' = busy \ {holder[n]},
           holder' = [holder EXCEPT ![n] = None],
           fails' = [fails EXCEPT ![holder[n]] = count],
           UNCHANGED <<role, pc, empties>>
    PROVE  /\ Equipped' /\ Distinct' /\ BusyHeld' /\ Unspawned' /\ LoopStates'
           /\ holder' \in [Nodes -> Workers \cup {None}]
           /\ busy' \in SUBSET Workers
           /\ fails' \in [Workers -> 0..BrokenAt]
<1> USE BoundsAssumption, RolesAssumption, NoneAssumption DEF Inv
<1>1. \A m \in Nodes : run'[m] = "exec" =>
          /\ m # n /\ run[m] = "exec"
          /\ holder'[m] = holder[m] /\ holder[m] # holder[n]
    BY DEF TypeOK, Distinct
<1>2. Equipped'
    <2> SUFFICES ASSUME NEW m \in Nodes, run'[m] = "exec"
                 PROVE  /\ holder'[m] \in busy'
                        /\ role'[holder'[m]] = RoleOf[m]
                        /\ fails'[holder'[m]] < BrokenAt
        BY DEF Equipped
    <2>1. /\ run[m] = "exec" /\ holder'[m] = holder[m] /\ holder[m] # holder[n]
          /\ holder[m] \in Workers
        BY <1>1, HoldersSpawned
    <2> QED
        BY <2>1 DEF Equipped, TypeOK
<1>3. Distinct'
    BY <1>1 DEF Distinct
<1>4. BusyHeld'
    <2> SUFFICES ASSUME pc # "done", NEW w \in busy, w # holder[n]
                 PROVE  \E m \in Nodes : run'[m] = "exec" /\ holder'[m] = w
        BY DEF BusyHeld
    <2>1. PICK m \in Nodes : run[m] = "exec" /\ holder[m] = w
        BY DEF BusyHeld
    <2> QED
        BY <2>1 DEF TypeOK
<1>5. Unspawned'
    <2>1. holder[n] \in Workers /\ role[holder[n]] # None
        BY HoldersSpawned DEF Spawned
    <2> QED
        BY <2>1 DEF Unspawned, TypeOK
<1>6. LoopStates'
    <2>1. pc # "done"
        BY DEF LoopStates
    <2> QED
        BY <2>1 DEF LoopStates
<1>7. /\ holder' \in [Nodes -> Workers \cup {None}]
      /\ busy' \in SUBSET Workers
      /\ fails' \in [Workers -> 0..BrokenAt]
    BY DEF TypeOK
<1> QED
    BY <1>2, <1>3, <1>4, <1>5, <1>6, <1>7

\* What _handle_failure does, from the statuses s it finds.
LEMMA FailureStep ==
    ASSUME Inv, NEW n \in Nodes, NEW s \in [Nodes -> Statuses],
           NEW count \in 0..BrokenAt,
           run[n] = "exec",
           \A m \in Nodes : m # n => s[m] = status[m],
           s[n] \in {"running", "completed"},
           HandleFailure(n, holder[n], s, count),
           fedback' \in SUBSET Nodes, replans' \in SUBSET Nodes, cached' \in SUBSET Nodes,
           UNCHANGED <<edges, role, reopened, pc, round, empties, late, reason>>
    PROVE  Inv'
<1> USE BoundsAssumption
<1>1. /\ busy' = busy \ {holder[n]}
      /\ holder' = [holder EXCEPT ![n] = None]
      /\ fails' = [fails EXCEPT ![holder[n]] = count]
    BY DEF HandleFailure
<1>2. /\ status' \in [Nodes -> Statuses]
      /\ run' \in [Nodes -> Phases]
      /\ attempts' \in [Nodes -> 0..MaxRepairs]
      /\ retried' \in SUBSET Nodes
      /\ woken' \in BOOLEAN
      /\ \A m \in Nodes : m # n => run'[m] = run[m] /\ status'[m] = status[m]
      /\ \/ run'[n] = "done"
         \/ run'[n] = "backoff" /\ status'[n] = s[n]
    <2>1. CASE ~Repairable(n)
        BY <2>1 DEF HandleFailure, Returns, Inv, TypeOK, Statuses, Phases
    <2>2. CASE Repairable(n)
        <3>1. attempts[n] + 1 \in 0..MaxRepairs
            BY <2>2 DEF Repairable, Inv, TypeOK
        <3>2. attempts' = [attempts EXCEPT ![n] = attempts[n] + 1]
            BY <2>2 DEF HandleFailure
        <3>3. attempts' \in [Nodes -> 0..MaxRepairs]
            BY <3>1, <3>2 DEF Inv, TypeOK
        <3>4. CASE n \notin retried /\ count < BrokenAt
            BY <2>2, <3>3, <3>4 DEF HandleFailure, Inv, TypeOK, Statuses, Phases
        <3>5. CASE ~(n \notin retried /\ count < BrokenAt)
            BY <2>2, <3>3, <3>5 DEF HandleFailure, Returns, Inv, TypeOK, Statuses, Phases
        <3> QED
            BY <3>4, <3>5
    <2> QED
        BY <2>1, <2>2
<1>3. run'[n] \in {"done", "backoff"}
    BY <1>2
<1>4. /\ Equipped' /\ Distinct' /\ BusyHeld' /\ Unspawned' /\ LoopStates'
      /\ holder' \in [Nodes -> Workers \cup {None}]
      /\ busy' \in SUBSET Workers
      /\ fails' \in [Workers -> 0..BrokenAt]
    BY <1>1, <1>2, <1>3, ReleaseStep
<1>5. TypeOK'
    BY <1>2, <1>4 DEF Inv, TypeOK
<1>6. Coherent'
    BY <1>2 DEF Inv, Coherent
<1> QED
    BY <1>4, <1>5, <1>6 DEF Inv

LEMMA FailStep == ASSUME Inv, NEW n \in Nodes, Fail(n) PROVE Inv'
<1>1. run[n] = "exec" /\ holder[n] \in Workers /\ fails[holder[n]] < BrokenAt
    BY HoldersSpawned DEF Fail, Inv, Equipped
<1>2. fails[holder[n]] + 1 \in 0..BrokenAt
    BY <1>1, BoundsAssumption DEF Inv, TypeOK
<1>3. status[n] = "running"
    BY <1>1 DEF Inv, Coherent
<1> QED
    BY <1>1, <1>2, <1>3, FailureStep DEF Fail, Inv, TypeOK

\* What feedback other than a malformed one does to the statuses.
LEMMA FedBackStatuses ==
    ASSUME TypeOK, NEW n \in Nodes, NEW fb \in Feedbacks
    PROVE  /\ FedBack(n, fb) \in [Nodes -> Statuses]
           /\ FedBack(n, fb)[n] \in {"pending", "completed"}
           /\ \A m \in Nodes : m # n =>
                \/ FedBack(n, fb)[m] = status[m]
                \/ status[m] = "pending" /\ FedBack(n, fb)[m] = "failed"
BY DEF FedBack, TypeOK, Statuses

LEMMA SucceedStep == ASSUME Inv, NEW n \in Nodes, Succeed(n) PROVE Inv'
<1> USE BoundsAssumption
<1>1. run[n] = "exec" /\ cached' = cached \cup {n} /\ status[n] = "running"
    BY DEF Succeed, Inv, Coherent
<1>2. PICK fb \in Feedbacks :
        IF fb = "malformed"
        THEN /\ HandleFailure(n, holder[n], [status EXCEPT ![n] = "completed"], 1)
             /\ UNCHANGED <<fedback, replans>>
        ELSE /\ status' = FedBack(n, fb)
             /\ busy' = busy \ {holder[n]}
             /\ fails' = [fails EXCEPT ![holder[n]] = 0]
             /\ holder' = [holder EXCEPT ![n] = None]
             /\ fedback' = IF fb = "none" THEN fedback ELSE fedback \cup {n}
             /\ replans' = IF fb = "replan" THEN replans \cup {n} ELSE replans
             /\ Returns(n)
             /\ UNCHANGED <<attempts, retried>>
    BY DEF Succeed
<1>3. UNCHANGED <<edges, role, reopened, pc, round, empties, late, reason>>
    BY DEF Succeed
<1>4. cached' \in SUBSET Nodes
    BY <1>1 DEF Inv, TypeOK
<1>5. CASE fb = "malformed"
    <2> DEFINE s == [status EXCEPT ![n] = "completed"]
    <2>1. /\ s \in [Nodes -> Statuses]
          /\ s[n] = "completed"
          /\ \A m \in Nodes : m # n => s[m] = status[m]
        BY <1>5 DEF Inv, TypeOK, Statuses
    <2>2. HandleFailure(n, holder[n], s, 1) /\ UNCHANGED <<fedback, replans>>
        BY <1>2, <1>5
    <2>3. 1 \in 0..BrokenAt
        OBVIOUS
    <2>4. fedback' \in SUBSET Nodes /\ replans' \in SUBSET Nodes
        BY <2>2 DEF Inv, TypeOK
    <2> HIDE DEF s
    <2> QED
        BY <1>1, <1>3, <1>4, <2>1, <2>2, <2>3, <2>4, FailureStep
<1>6. CASE fb # "malformed"
    <2>1. /\ status' = FedBack(n, fb)
          /\ busy' = busy \ {holder[n]}
          /\ fails' = [fails EXCEPT ![holder[n]] = 0]
          /\ holder' = [holder EXCEPT ![n] = None]
          /\ run' = [run EXCEPT ![n] = "done"]
          /\ woken' = TRUE
          /\ UNCHANGED <<attempts, retried>>
        BY <1>2, <1>6 DEF Returns
    <2>2. fedback' \in SUBSET Nodes /\ replans' \in SUBSET Nodes
        BY <1>2, <1>6 DEF Inv, TypeOK
    <2>3. /\ status' \in [Nodes -> Statuses]
          /\ \A m \in Nodes : m # n =>
                status'[m] = status[m] \/ status[m] = "pending"
        BY <2>1, FedBackStatuses DEF Inv
    <2>4. /\ run' \in [Nodes -> Phases]
          /\ run'[n] = "done"
          /\ \A m \in Nodes : m # n => run'[m] = run[m]
        BY <2>1 DEF Inv, TypeOK, Phases
    <2>5. /\ Equipped' /\ Distinct' /\ BusyHeld' /\ Unspawned' /\ LoopStates'
          /\ holder' \in [Nodes -> Workers \cup {None}]
          /\ busy' \in SUBSET Workers
          /\ fails' \in [Workers -> 0..BrokenAt]
        <3>1. 0 \in 0..BrokenAt /\ run'[n] \in {"done", "backoff"}
            BY <2>4
        <3> QED
            BY <1>1, <1>3, <2>1, <2>4, <3>1, ReleaseStep
    <2>6. TypeOK'
        BY <1>3, <1>4, <2>1, <2>2, <2>3, <2>4, <2>5 DEF Inv, TypeOK
    <2>7. Coherent'
        BY <2>3, <2>4 DEF Inv, Coherent
    <2> QED
        BY <2>5, <2>6, <2>7 DEF Inv
<1> QED
    BY <1>5, <1>6

LEMMA BackoffStep == ASSUME Inv, NEW n \in Nodes, BackoffOver(n) PROVE Inv'
<1>1. /\ status' = [status EXCEPT ![n] = "pending"]
      /\ run' = [run EXCEPT ![n] = "done"]
      /\ woken' = TRUE
      /\ run[n] = "backoff"
      /\ reopened' \in {reopened, reopened \cup {n}}
      /\ UNCHANGED <<edges, workerVars, attempts, retried, fedback, replans, cached>>
      /\ UNCHANGED <<pc, round, empties, late, reason>>
    BY DEF BackoffOver, Returns
<1>2. TypeOK'
    BY <1>1 DEF Inv, TypeOK, Statuses, Phases, workerVars
<1>3. \A m \in Nodes : run'[m] = "exec" <=> run[m] = "exec"
    BY <1>1 DEF Inv, TypeOK
<1>4. Equipped' /\ Distinct' /\ BusyHeld' /\ Unspawned'
    BY <1>1, <1>3 DEF Inv, Equipped, Distinct, BusyHeld, Unspawned, workerVars
<1>5. Coherent' /\ LoopStates'
    BY <1>1 DEF Inv, TypeOK, Coherent, LoopStates
<1> QED
    BY <1>2, <1>4, <1>5 DEF Inv

\* A pass leaves a coroutine alone that has not ended and is not started anew.
LEMMA PassKeepsLive ==
    ASSUME Pass, TypeOK, NEW n \in Nodes, n \notin DoneTasks, n \notin Ready
    PROVE  run'[n] = run[n]
BY DEF Pass, StopAllOver, Dispatch, Wait, Poll, LeaveInFlight, TypeOK

LEMMA PassStep == ASSUME Inv, Pass PROVE Inv'
<1> USE BoundsAssumption
<1>1. /\ status' \in [Nodes -> Statuses]
      /\ run' \in [Nodes -> Phases]
      /\ \A n \in Nodes :
            /\ status'[n] = "completed" <=> status[n] = "completed"
            /\ status[n] = "running" /\ run[n] # "raised" => status'[n] = "running"
            /\ \/ run'[n] = run[n] /\ n \notin DoneTasks
               \/ run'[n] = "none"
               \/ run'[n] = "queued" /\ status'[n] = "running" /\ n \in Ready
    BY PassStatuses DEF Inv
<1>2. \A n \in Ready : status[n] \notin {"completed"} /\ run[n] # "exec"
    <2> SUFFICES ASSUME NEW n \in Nodes, n \in Ready
                 PROVE  status[n] # "completed" /\ run[n] # "exec"
        BY DEF Ready, ReadyNodes
    <2>1. Scanned[n] = "pending"
        BY DEF Ready, ReadyNodes
    <2> QED
        BY <2>1, ScannedStatuses DEF Inv, Coherent
<1>3. \A n \in Nodes : run'[n] = "exec" <=> run[n] = "exec"
    <2> SUFFICES ASSUME NEW n \in Nodes PROVE run'[n] = "exec" <=> run[n] = "exec"
        OBVIOUS
    <2>1. CASE run[n] = "exec"
        <3>1. n \notin Ready
            BY <1>2, <2>1
        <3>2. status[n] = "running"
            BY <2>1 DEF Inv, Coherent
        <3>3. n \notin DoneTasks
            BY <2>1 DEF DoneTasks
        <3> QED
            BY <1>1, <2>1, <3>1, <3>3, PassKeepsLive DEF Inv
    <2>2. CASE run[n] # "exec"
        BY <1>1, <2>2
    <2> QED
        BY <2>1, <2>2
<1>4. /\ UNCHANGED <<edges, workerVars, attempts, retried, fedback, cached, reopened, late>>
      /\ replans' = {}
      /\ round' \in 0..MaxRounds
      /\ pc = "loop"
    <2>1. Passes
        BY DEF Pass, StopAllOver, Dispatch, Wait, Poll
    <2> QED
        BY <2>1 DEF Passes, Inv, TypeOK
<1>5. /\ empties' \in 0..MaxEmpty
      /\ pc' \in {"loop", "waiting", "draining"}
      /\ pc' \in {"loop", "waiting"} => empties' < MaxEmpty
      /\ woken' \in BOOLEAN
      /\ reason' \in Reasons
    <2>1. /\ empties < MaxEmpty /\ empties \in 0..MaxEmpty
          /\ woken \in BOOLEAN /\ reason \in Reasons
        BY <1>4 DEF Inv, LoopStates, TypeOK
    <2>2. CASE StopAllOver
        BY <2>1, <2>2 DEF StopAllOver, Reasons
    <2>3. CASE Dispatch
        <3>1. empties' = 0 /\ UNCHANGED <<pc, woken, reason>>
            BY <2>3 DEF Dispatch
        <3> QED
            BY <1>4, <2>1, <3>1
    <2>4. CASE Wait
        <3>1. /\ empties' = 0 /\ UNCHANGED reason /\ pc' = "waiting"
              /\ woken' \in {FALSE, DoneTasks # {}}
            BY <2>4 DEF Wait
        <3>2. woken' \in BOOLEAN
            BY <3>1
        <3> QED
            BY <2>1, <3>1, <3>2
    <2>5. CASE Poll
        <3>1. /\ empties' = empties + 1 /\ UNCHANGED woken
              /\ IF empties + 1 < MaxEmpty
                 THEN UNCHANGED <<pc, reason>>
                 ELSE pc' = "draining" /\ reason' = "no_ready_no_running"
            BY <2>5 DEF Poll
        <3>2. empties + 1 \in 0..MaxEmpty /\ woken' \in BOOLEAN
            BY <2>1, <3>1
        <3>3. CASE empties + 1 < MaxEmpty
            BY <1>4, <2>1, <3>1, <3>2, <3>3
        <3>4. CASE ~(empties + 1 < MaxEmpty)
            BY <3>1, <3>2, <3>4 DEF Reasons
        <3> QED
            BY <3>3, <3>4
    <2> QED
        BY <2>2, <2>3, <2>4, <2>5 DEF Pass
<1>6. TypeOK'
    BY <1>1, <1>4, <1>5 DEF Inv, TypeOK, workerVars
<1>7. Equipped' /\ Distinct' /\ BusyHeld' /\ Unspawned'
    BY <1>3, <1>4 DEF Inv, Equipped, Distinct, BusyHeld, Unspawned, workerVars
<1>8. Coherent'
    BY <1>1 DEF Inv, Coherent
<1>9. LoopStates'
    BY <1>5 DEF LoopStates
<1> QED
    BY <1>6, <1>7, <1>8, <1>9 DEF Inv

LEMMA FinishStep == ASSUME Inv, Finish PROVE Inv'
<1>1. /\ pc = "draining" /\ pc' = "done"
      /\ run' = [n \in Nodes |-> IF n \in InFlight \ DoneTasks THEN "cancelled" ELSE "none"]
      /\ UNCHANGED <<edges, workerVars, repairVars, woken, round, empties, late, reason>>
    BY DEF Finish
<1>2. \A n \in Nodes : run'[n] \in {"none", "cancelled"}
    BY <1>1
<1>3. TypeOK'
    BY <1>1, FinishedStatuses DEF Inv, TypeOK, Phases, workerVars, repairVars
<1>4. Equipped' /\ Distinct' /\ BusyHeld' /\ Coherent' /\ LoopStates'
    BY <1>1, <1>2 DEF Equipped, Distinct, BusyHeld, Coherent, LoopStates
<1>5. Unspawned'
    BY <1>1 DEF Inv, Unspawned, workerVars
<1> QED
    BY <1>3, <1>4, <1>5 DEF Inv

LEMMA QuietStep ==
    ASSUME Inv, WakeUp \/ StopAtLimit \/ Expire PROVE Inv'
<1>1. /\ UNCHANGED <<graphVars, run, workerVars, repairVars, woken, round, empties>>
      /\ pc' \in {"loop", "waiting", "draining", "done"}
      /\ pc' = "done" => pc = "done"
      /\ pc = "done" => pc' = "done"
      /\ pc' \in {"loop", "waiting"} => pc \in {"loop", "waiting"}
      /\ late' \in BOOLEAN /\ reason' \in Reasons
    BY DEF WakeUp, StopAtLimit, Expire, Inv, TypeOK, Reasons
<1>2. TypeOK'
    BY <1>1 DEF Inv, TypeOK, graphVars, workerVars, repairVars
<1>3. Equipped' /\ Distinct' /\ Coherent' /\ Unspawned'
    BY <1>1 DEF Inv, Equipped, Distinct, Coherent, Unspawned, graphVars, workerVars
<1>4. BusyHeld' /\ LoopStates'
    BY <1>1 DEF Inv, BusyHeld, LoopStates, workerVars
<1> QED
    BY <1>2, <1>3, <1>4 DEF Inv

\* No step of the loop or of a coroutine breaks the strengthening.
THEOREM InvStep == Inv /\ [Next]_vars => Inv'
<1> SUFFICES ASSUME Inv, [Next]_vars PROVE Inv'
    OBVIOUS
<1>1. CASE Loop
    BY <1>1, PassStep, FinishStep, QuietStep DEF Loop, Pass
<1>2. CASE Expire
    BY <1>2, QuietStep
<1>3. CASE \E n \in Nodes : Start(n) \/ Answer(n) \/ BackoffOver(n)
    BY <1>3, StartStep, SucceedStep, FailStep, BackoffStep DEF Answer
<1>4. CASE UNCHANGED vars
    BY <1>4 DEF vars, Inv, TypeOK, Equipped, Distinct, BusyHeld, Coherent, Unspawned, LoopStates
<1> QED
    BY <1>1, <1>2, <1>3, <1>4 DEF Next

\* The strengthening holds throughout, for any graph and limits.
THEOREM Invariance == Spec => []Inv
<1> QED
    BY InvInit, InvStep, PTL DEF Spec

\* Type correctness, for every instance.  That a failure count stays within
\* its range rests on no worker serving after it broke.
THEOREM TypeCorrect == Spec => []TypeOK
<1>1. Inv => TypeOK
    BY DEF Inv
<1> QED
    BY <1>1, Invariance, PTL

\* The workers in use are healthy, of the right role, one per node, and the
\* busy flags are exact until the run is over.
THEOREM WorkersExclusive == Spec => []WorkerExclusive
<1>1. Inv => WorkerExclusive
    <2> SUFFICES ASSUME Inv PROVE WorkerExclusive
        OBVIOUS
    <2>1. \A n \in Nodes : run[n] = "exec" =>
            holder[n] \in busy /\ role[holder[n]] = RoleOf[n] /\ ~Quarantined(holder[n])
        <3> SUFFICES ASSUME NEW n \in Nodes, run[n] = "exec"
                     PROVE  /\ holder[n] \in busy /\ role[holder[n]] = RoleOf[n]
                            /\ ~(fails[holder[n]] >= BrokenAt)
            BY DEF Quarantined
        <3>1. fails[holder[n]] \in 0..BrokenAt /\ fails[holder[n]] < BrokenAt
            BY HoldersSpawned DEF Inv, Equipped, TypeOK
        <3> QED
            BY <3>1, BoundsAssumption DEF Inv, Equipped
    <2>2. pc # "done" => busy = {holder[n] : n \in {m \in Nodes : run[m] = "exec"}}
        BY DEF Inv, Equipped, BusyHeld
    <2> QED
        BY <2>1, <2>2 DEF WorkerExclusive, Inv, Distinct
<1> QED
    BY <1>1, Invariance, PTL

-----------------------------------------------------------------------------
(* Completion and the order of dependencies *)

\* No step takes a completion back but the end of the node's own back-off.
LEMMA CompletedStep ==
    ASSUME Inv, [Next]_vars, NEW n \in Nodes, status[n] = "completed"
    PROVE  \/ status'[n] = "completed"
           \/ run[n] = "backoff" /\ run'[n] = "done" /\ n \in reopened'
<1>1. run[n] \notin {"queued", "exec"}
    BY DEF Inv, Coherent
<1>2. CASE Loop
    <2>1. CASE Pass
        BY <2>1, PassStatuses DEF Inv
    <2>2. CASE Finish
        BY <2>2, FinishedStatuses DEF Inv
    <2>3. CASE WakeUp \/ StopAtLimit
        BY <2>3 DEF WakeUp, StopAtLimit, graphVars
    <2> QED
        BY <1>2, <2>1, <2>2, <2>3 DEF Loop, Pass
<1>3. CASE Expire
    BY <1>3 DEF Expire, graphVars
<1>4. CASE BackoffOver(n)
    BY <1>4 DEF BackoffOver, Returns, Inv, TypeOK
<1>5. ASSUME NEW m \in Nodes, Start(m) \/ Answer(m) \/ (m # n /\ BackoffOver(m))
      PROVE  status'[n] = "completed"
    <2>1. m # n
        BY <1>1, <1>5 DEF Start, Reuse, Spawn, SpawnDenied, Answer, Succeed, Fail
    <2>2. CASE Start(m) \/ BackoffOver(m)
        BY <2>1, <2>2 DEF Start, Reuse, Spawn, SpawnDenied, StartOn, Completes, BackoffOver,
                          graphVars, Inv, TypeOK
    <2>3. CASE Fail(m)
        BY <2>1, <2>3 DEF Fail, HandleFailure, Inv, TypeOK
    <2>4. CASE Succeed(m)
        <3>1. PICK fb \in Feedbacks :
                  IF fb = "malformed"
                  THEN HandleFailure(m, holder[m], [status EXCEPT ![m] = "completed"], 1)
                  ELSE status' = FedBack(m, fb)
            BY <2>4 DEF Succeed
        <3>2. CASE fb = "malformed"
            BY <2>1, <3>1, <3>2 DEF HandleFailure, Inv, TypeOK
        <3>3. CASE fb # "malformed"
            BY <2>1, <3>1, <3>3, FedBackStatuses DEF Inv
        <3> QED
            BY <3>2, <3>3
    <2> QED
        BY <1>5, <2>1, <2>2, <2>3, <2>4 DEF Answer
<1>6. CASE UNCHANGED vars
    BY <1>6 DEF vars
<1> QED
    BY <1>2, <1>3, <1>4, <1>5, <1>6 DEF Next

\* The history of reopened nodes only grows, and the plan's edges stay.
LEMMA HistoryStep ==
    ASSUME [Next]_vars
    PROVE  edges' = edges /\ reopened \subseteq reopened'
BY DEF Next, Loop, StopAllOver, Dispatch, Wait, Poll, Passes, WakeUp, StopAtLimit,
       Finish, Expire, Start, Reuse, Spawn, SpawnDenied, Answer, Succeed, Fail,
       BackoffOver, graphVars, repairVars, vars

\* What becomes running was ready, and what becomes completed was running.
LEMMA ProgressStep ==
    ASSUME Inv, [Next]_vars,
           NEW n \in Nodes, status'[n] \in {"running", "completed"}
    PROVE  \/ status[n] \in {"running", "completed"}
           \/ DepsCompleted(n, Scanned)
<1>1. CASE Loop
    <2>1. CASE Pass
        BY <2>1, PassStatuses DEF Inv, Ready, ReadyNodes
    <2>2. CASE Finish
        BY <2>2, FinishedStatuses DEF Inv
    <2>3. CASE WakeUp \/ StopAtLimit
        BY <2>3 DEF WakeUp, StopAtLimit, graphVars
    <2> QED
        BY <1>1, <2>1, <2>2, <2>3 DEF Loop, Pass
<1>2. CASE Expire
    BY <1>2 DEF Expire, graphVars
<1>3. ASSUME NEW m \in Nodes, Start(m) \/ Answer(m) \/ BackoffOver(m)
      PROVE  status[n] \in {"running", "completed"}
    <2>1. run[m] \in {"queued", "exec"} => status[m] = "running"
        BY DEF Inv, Coherent
    <2>2. CASE Start(m)
        BY <2>1, <2>2 DEF Start, Reuse, Spawn, SpawnDenied, StartOn, Completes,
                          graphVars, Inv, TypeOK
    <2>3. CASE BackoffOver(m)
        BY <2>3 DEF BackoffOver, Inv, TypeOK
    <2>4. CASE Fail(m)
        BY <2>1, <2>4 DEF Fail, HandleFailure, Inv, TypeOK
    <2>5. CASE Succeed(m)
        <3>1. PICK fb \in Feedbacks :
                  IF fb = "malformed"
                  THEN HandleFailure(m, holder[m], [status EXCEPT ![m] = "completed"], 1)
                  ELSE status' = FedBack(m, fb)
            BY <2>5 DEF Succeed
        <3>2. run[m] = "exec"
            BY <2>5 DEF Succeed
        <3>3. CASE fb = "malformed"
            BY <2>1, <3>1, <3>2, <3>3 DEF HandleFailure, Inv, TypeOK
        <3>4. CASE fb # "malformed"
            BY <2>1, <3>1, <3>2, <3>4, FedBackStatuses DEF Inv
        <3> QED
            BY <3>3, <3>4
    <2> QED
        BY <1>3, <2>2, <2>3, <2>4, <2>5 DEF Answer
<1>4. CASE UNCHANGED vars
    BY <1>4 DEF vars
<1> QED
    BY <1>1, <1>2, <1>3, <1>4 DEF Next

\* Whatever the feedback: no reset, no failure and no coroutine of another node
\* takes a completion back, only the end of the node's own back-off.
THEOREM CompletedStays == Spec => CompletedIsFinal
<1>1. Inv /\ [Next]_vars =>
        [\A n \in Nodes : status[n] = "completed" =>
            status'[n] = "completed" \/ (run[n] = "backoff" /\ run'[n] = "done")]_vars
    BY CompletedStep
<1> QED
    BY <1>1, Invariance, PTL DEF Spec, CompletedIsFinal

\* Whatever the feedback: no subtask is under way or completed before its
\* dependencies are, and one that is no longer completed then was reopened since.
THEOREM DependenciesFirst == Spec => []DependencyOrder
<1>1. Init => DependencyOrder
    BY DEF Init, DependencyOrder
<1>2. Inv /\ DependencyOrder /\ [Next]_vars => DependencyOrder'
    <2> SUFFICES ASSUME Inv, DependencyOrder, [Next]_vars,
                        NEW n \in Nodes, status'[n] \in {"running", "completed"},
                        NEW m \in Nodes, <<m, n>> \in edges'
                 PROVE  status'[m] = "completed" \/ m \in reopened'
        BY DEF DependencyOrder, Upstream
    <2>1. edges' = edges /\ reopened \subseteq reopened'
        BY HistoryStep
    <2>2. CASE status[n] \in {"running", "completed"}
        BY <2>1, <2>2, CompletedStep DEF DependencyOrder, Upstream
    <2>3. CASE DepsCompleted(n, Scanned)
        <3>1. Scanned[m] = "completed"
            BY <2>1, <2>3 DEF DepsCompleted, Upstream
        <3>2. status[m] = "completed"
            BY <3>1, ScannedStatuses DEF Inv
        <3> QED
            BY <3>2, CompletedStep
    <2> QED
        BY <2>2, <2>3, ProgressStep
<1> QED
    BY <1>1, <1>2, Invariance, PTL DEF Spec

-----------------------------------------------------------------------------
(* Giving up for a cause *)

\* A node is "running" only on behalf of a coroutine that has not returned.  (One
\* that has raised is failed when it is harvested; one that is cancelled at the
\* end of the run leaves its node "running".)
RunningHasTask ==
    \A n \in Nodes : status[n] = "running" =>
        run[n] \in {"queued", "exec", "backoff", "raised", "cancelled"}

\* After the loop has given up, no coroutine is left that could change anything.
GivenUp ==
    reason = "no_ready_no_running" =>
        /\ pc \in {"draining", "done"}
        /\ \A n \in Nodes :
            /\ run[n] = "none"
            /\ status[n] # "running"
            /\ status[n] = "pending" => BelowFailed(n, status)

\* What an edge adds to what is below a node.
LEMMA DownstreamEdge ==
    ASSUME NEW m \in Nodes, NEW n \in Nodes, <<m, n>> \in edges
    PROVE  /\ m # n => n \in Downstream(m)
           /\ \A f \in Nodes : f # n /\ m \in Downstream(f) => n \in Downstream(f)
<1>1. \A S \in SUBSET Nodes : m \in S /\ ClosedDownwards(S) => n \in S
    BY DEF ClosedDownwards
<1> QED
    BY <1>1 DEF Downstream

\* In a plan without cycles a node that is neither ready, nor running, nor below
\* a failed one, is not pending: the topmost of the pending nodes that are not
\* below a failed one would have all its dependencies completed.
LEMMA PendingBelowFailed ==
    ASSUME TypeOK, NEW s \in [Nodes -> Statuses],
           ReadyNodes(s) = {}, \A n \in Nodes : s[n] # "running"
    PROVE  \A n \in Nodes : s[n] = "pending" => BelowFailed(n, s)
<1> DEFINE Stuck == {n \in Nodes : s[n] = "pending" /\ ~BelowFailed(n, s)}
<1>1. SUFFICES ASSUME Stuck # {} PROVE FALSE
    OBVIOUS
<1>2. PICK n \in Stuck : \A m \in Stuck : <<m, n>> \notin edges
    BY <1>1, AcyclicAssumption DEF TypeOK
<1>3. n \in Nodes /\ s[n] = "pending" /\ ~BelowFailed(n, s)
    BY <1>2
<1>4. PICK m \in Nodes : <<m, n>> \in edges /\ s[m] # "completed"
    BY <1>3 DEF ReadyNodes, DepsCompleted, Upstream
<1>5. s[m] \in {"pending", "failed"}
    BY <1>4 DEF Statuses
<1>6. CASE s[m] = "failed"
    <2>1. m # n
        BY <1>3, <1>6
    <2> QED
        BY <1>3, <1>4, <1>6, <2>1, DownstreamEdge DEF BelowFailed
<1>7. CASE s[m] = "pending"
    <2>1. BelowFailed(m, s)
        BY <1>2, <1>4, <1>7
    <2>2. PICK f \in Nodes : s[f] = "failed" /\ m \in Downstream(f)
        BY <2>1 DEF BelowFailed
    <2>3. f # n
        BY <1>3, <2>2
    <2> QED
        BY <1>3, <1>4, <2>2, <2>3, DownstreamEdge DEF BelowFailed
<1> QED
    BY <1>5, <1>6, <1>7

\* The harvest leaves no node running whose coroutine has raised.
LEMMA ScannedRaised ==
    ASSUME TypeOK, NEW n \in Nodes, run[n] = "raised"
    PROVE  Scanned[n] # "running"
<1>1. DoneTasks # {}
    BY DEF DoneTasks
<1>2. Harvested[n] # "running"
    BY HarvestedStatuses DEF Harvested
<1>3. AfterHarvest[n] # "running"
    BY <1>1, <1>2, HarvestedStatuses, PropagatedStatuses DEF AfterHarvest
<1> QED
    BY <1>3 DEF Scanned

LEMMA RunningHasTaskPass ==
    ASSUME Inv, RunningHasTask, Pass PROVE RunningHasTask'
<1> SUFFICES ASSUME NEW n \in Nodes, status'[n] = "running"
             PROVE  run'[n] \in {"queued", "exec", "backoff", "raised", "cancelled"}
    BY DEF RunningHasTask
<1>1. CASE n \in Ready
    <2>1. Scanned[n] = "pending"
        BY <1>1 DEF Ready, ReadyNodes
    <2>2. status'[n] = Scanned[n] \/ run'[n] = "queued"
        BY <1>1 DEF Pass, StopAllOver, Dispatch, Wait, Poll
    <2> QED
        BY <2>1, <2>2
<1>2. CASE n \notin Ready
    <2>1. status'[n] = Scanned[n]
        BY <1>2 DEF Pass, StopAllOver, Dispatch, Wait, Poll
    <2>2. status[n] = "running" /\ run[n] # "raised"
        BY <2>1, ScannedStatuses, ScannedRaised DEF Inv
    <2>3. run[n] \in {"queued", "exec", "backoff", "cancelled"}
        BY <2>2 DEF RunningHasTask
    <2> QED
        BY <1>2, <2>3, PassKeepsLive DEF DoneTasks, Inv
<1> QED
    BY <1>1, <1>2

LEMMA RunningHasTaskFinish ==
    ASSUME Inv, RunningHasTask, Finish PROVE RunningHasTask'
<1> SUFFICES ASSUME NEW n \in Nodes, status'[n] = "running"
             PROVE  run'[n] \in {"queued", "exec", "backoff", "raised", "cancelled"}
    BY DEF RunningHasTask
<1>1. status[n] = "running"
    BY FinishedStatuses DEF Inv
<1>2. n \in InFlight
    BY <1>1 DEF RunningHasTask, InFlight
<1>3. run[n] # "raised"
    BY <1>2, HarvestedStatuses, PropagatedStatuses DEF Finish, Harvested, Inv
<1>4. n \notin DoneTasks
    BY <1>1, <1>3 DEF RunningHasTask, DoneTasks
<1> QED
    BY <1>2, <1>4 DEF Finish

LEMMA RunningHasTaskStep ==
    ASSUME Inv, RunningHasTask, [Next]_vars PROVE RunningHasTask'
<1>1. CASE Loop
    <2>1. CASE WakeUp \/ StopAtLimit
        BY <2>1 DEF WakeUp, StopAtLimit, graphVars, RunningHasTask
    <2> QED
        BY <1>1, <2>1, RunningHasTaskPass, RunningHasTaskFinish DEF Loop, Pass
<1>2. CASE Expire
    BY <1>2 DEF Expire, graphVars, RunningHasTask
<1>3. ASSUME NEW n \in Nodes, Start(n) \/ Answer(n) \/ BackoffOver(n)
      PROVE  RunningHasTask'
    <2>1. CASE Start(n)
        BY <2>1 DEF Start, Reuse, Spawn, SpawnDenied, StartOn, Completes, Returns, graphVars,
                    Inv, TypeOK, RunningHasTask
    <2>2. CASE BackoffOver(n)
        BY <2>2 DEF BackoffOver, Returns, Inv, TypeOK, RunningHasTask
    <2>3. CASE Fail(n)
        <3>1. HandleFailure(n, holder[n], status, fails[holder[n]] + 1)
            BY <2>3 DEF Fail
        <3> QED
            BY <3>1 DEF HandleFailure, Returns, Inv, TypeOK, RunningHasTask
    <2>4. CASE Succeed(n)
        <3>1. PICK fb \in Feedbacks :
                  IF fb = "malformed"
                  THEN HandleFailure(n, holder[n], [status EXCEPT ![n] = "completed"], 1)
                  ELSE status' = FedBack(n, fb) /\ Returns(n)
            BY <2>4 DEF Succeed
        <3>2. CASE fb = "malformed"
            BY <3>1, <3>2 DEF HandleFailure, Returns, Inv, TypeOK, RunningHasTask
        <3>3. CASE fb # "malformed"
            BY <3>1, <3>3 DEF FedBack, Returns, Inv, TypeOK, RunningHasTask
        <3> QED
            BY <3>2, <3>3
    <2> QED
        BY <1>3, <2>1, <2>2, <2>3, <2>4 DEF Answer
<1>4. CASE UNCHANGED vars
    BY <1>4 DEF vars, RunningHasTask
<1> QED
    BY <1>1, <1>2, <1>3, <1>4 DEF Next

\* The poll that gives up finds nothing in flight, so nothing is left running.
LEMMA GivenUpPoll ==
    ASSUME Inv, RunningHasTask, Poll, reason' = "no_ready_no_running", pc # pc'
    PROVE  GivenUp'
<1>1. /\ Ready = {} /\ InFlight = DoneTasks
      /\ status' = Scanned
      /\ run' = LeaveInFlight(DoneTasks)
      /\ pc' = "draining" /\ edges' = edges
    BY DEF Poll, Passes
<1>2. \A n \in Nodes : run'[n] = "none"
    BY <1>1 DEF LeaveInFlight, InFlight
<1>3. ASSUME NEW n \in Nodes PROVE Scanned[n] # "running"
    <2>1. CASE status[n] = "running"
        <3>1. run[n] = "raised"
            BY <1>1, <2>1 DEF RunningHasTask, InFlight, DoneTasks
        <3> QED
            BY <3>1, ScannedRaised DEF Inv
    <2>2. CASE status[n] # "running"
        BY <2>2, ScannedStatuses DEF Inv
    <2> QED
        BY <2>1, <2>2
<1>4. \A n \in Nodes : Scanned[n] = "pending" => BelowFailed(n, Scanned)
    BY <1>1, <1>3, ScannedStatuses, PendingBelowFailed DEF Inv, Ready
<1>5. \A n \in Nodes : BelowFailed(n, Scanned) => BelowFailed(n, status)'
    BY <1>1 DEF BelowFailed, Downstream, ClosedDownwards
<1> QED
    BY <1>1, <1>2, <1>3, <1>4, <1>5 DEF GivenUp

LEMMA GivenUpStep ==
    ASSUME Inv, RunningHasTask, GivenUp, [Next]_vars PROVE GivenUp'
<1> SUFFICES ASSUME reason' = "no_ready_no_running" PROVE GivenUp'
    BY DEF GivenUp
<1>1. CASE reason = "no_ready_no_running"
    <2>1. /\ pc \in {"draining", "done"}
          /\ \A n \in Nodes : run[n] = "none"
        BY <1>1 DEF GivenUp
    <2>2. UNCHANGED <<run, status, edges, reason>> /\ pc' \in {"draining", "done"}
        <3>1. CASE Finish
            <4>1. InFlight = {} /\ DoneTasks = {}
                BY <2>1 DEF InFlight, DoneTasks
            <4>2. run' = run
                BY <2>1, <3>1, <4>1 DEF Finish, Inv, TypeOK
            <4> QED
                BY <3>1, <4>1, <4>2 DEF Finish
        <3>2. CASE Expire
            BY <2>1, <3>2 DEF Expire, graphVars
        <3>3. CASE UNCHANGED vars
            BY <2>1, <3>3 DEF vars
        <3>4. ~(StopAllOver \/ Dispatch \/ Wait \/ Poll \/ WakeUp \/ StopAtLimit)
            BY <2>1 DEF StopAllOver, Dispatch, Wait, Poll, Passes, WakeUp, StopAtLimit
        <3>5. \A n \in Nodes : ~Start(n) /\ ~Answer(n) /\ ~BackoffOver(n)
            BY <2>1 DEF Start, Reuse, Spawn, SpawnDenied, Answer, Succeed, Fail, BackoffOver
        <3> QED
            BY <3>1, <3>2, <3>3, <3>4, <3>5 DEF Next, Loop
    <2> QED
        BY <1>1, <2>2 DEF GivenUp, BelowFailed, Downstream, ClosedDownwards
<1>2. CASE reason # "no_ready_no_running"
    <2>1. Poll
        BY <1>2 DEF Next, Loop, StopAllOver, Dispatch, Wait, WakeUp, StopAtLimit, Finish, Expire,
                    Start, Reuse, Spawn, SpawnDenied, Answer, Succeed, Fail, BackoffOver, vars
    <2>2. pc # pc'
        BY <1>2, <2>1 DEF Poll, Passes
    <2> QED
        BY <2>1, <2>2, GivenUpPoll
<1> QED
    BY <1>1, <1>2

\* In every acyclic plan, whatever raised, was reset or was denied a worker: the
\* loop gives up early only when each node left over lies below a failed one.
THEOREM GivesUpOnlyForCause == Spec => []GivesUpForCause
<1>1. Init => RunningHasTask /\ GivenUp
    BY DEF Init, RunningHasTask, GivenUp
<1>2. Inv /\ RunningHasTask /\ GivenUp /\ [Next]_vars => RunningHasTask' /\ GivenUp'
    BY RunningHasTaskStep, GivenUpStep
<1>3. GivenUp => GivesUpForCause
    BY DEF GivenUp, GivesUpForCause
<1> QED
    BY <1>1, <1>2, <1>3, Invariance, PTL DEF Spec

-----------------------------------------------------------------------------
(* Why a run ends *)

Live(n) == run[n] \in {"queued", "exec", "backoff"}

\* Whoever waits for the event will be woken: it is set, or a coroutine is under
\* way that sets it when it ends.
NeverWaitsForNothing ==
    /\ pc = "waiting" => woken \/ \E n \in Nodes : Live(n)
    /\ pc # "done" => \A n \in Nodes : run[n] # "cancelled"

\* A coroutine that takes a step stays under way, or ends and sets the event.
LEMMA CoroutineStep ==
    ASSUME TypeOK, NEW n \in Nodes, Start(n) \/ Answer(n) \/ BackoffOver(n)
    PROVE  /\ Live(n) /\ pc' = pc /\ round' = round
           /\ \A m \in Nodes : m # n => run'[m] = run[m]
           /\ run'[n] \in {"exec", "backoff"} \/ (run'[n] \in {"done", "raised"} /\ woken' = TRUE)
           /\ \/ run[n] = "queued" /\ run'[n] \in {"exec", "done", "raised"}
              \/ run[n] = "exec" /\ run'[n] \in {"backoff", "done"}
              \/ run[n] = "backoff" /\ run'[n] = "done"
<1> USE DEF TypeOK, Live, Returns
<1>1. CASE Start(n)
    BY <1>1 DEF Start, Reuse, Spawn, SpawnDenied, StartOn, Completes
<1>2. CASE BackoffOver(n)
    BY <1>2 DEF BackoffOver
<1>3. CASE Fail(n)
    <2>1. HandleFailure(n, holder[n], status, fails[holder[n]] + 1)
        BY <1>3 DEF Fail
    <2> QED
        BY <1>3, <2>1 DEF Fail, HandleFailure
<1>4. CASE Succeed(n)
    <2>1. PICK fb \in Feedbacks :
              IF fb = "malformed"
              THEN HandleFailure(n, holder[n], [status EXCEPT ![n] = "completed"], 1)
              ELSE Returns(n)
        BY <1>4 DEF Succeed
    <2>2. run[n] = "exec" /\ pc' = pc /\ round' = round
        BY <1>4 DEF Succeed
    <2>3. \/ run' = [run EXCEPT ![n] = "backoff"] /\ woken' = woken
          \/ run' = [run EXCEPT ![n] = "done"] /\ woken' = TRUE
        <3>1. CASE fb = "malformed"
            BY <2>1, <3>1 DEF HandleFailure
        <3>2. CASE fb # "malformed"
            BY <2>1, <3>2
        <3> QED
            BY <3>1, <3>2
    <2> QED
        BY <2>2, <2>3
<1> QED
    BY <1>1, <1>2, <1>3, <1>4 DEF Answer

LEMMA NeverWaitsStep ==
    ASSUME TypeOK, NeverWaitsForNothing, [Next]_vars PROVE NeverWaitsForNothing'
<1> USE DEF NeverWaitsForNothing
<1>1. CASE Pass
    <2>1. pc = "loop" /\ pc' # "done"
        BY <1>1 DEF Pass, StopAllOver, Dispatch, Wait, Poll, Passes
    <2>2. \A n \in Nodes : run'[n] # "cancelled"
        BY <1>1, <2>1, PassStatuses
    <2>3. ASSUME pc' = "waiting" PROVE \E n \in Nodes : Live(n)'
        <3>1. Wait
            BY <1>1, <2>1, <2>3 DEF Pass, StopAllOver, Dispatch, Poll
        <3>2. PICK n \in Nodes : run[n] # "none" /\ run[n] \notin {"done", "raised"}
            BY <3>1 DEF Wait, InFlight, DoneTasks
        <3>3. Live(n)
            BY <2>1, <3>2 DEF Live, TypeOK, Phases
        <3>4. run'[n] = run[n]
            BY <3>1, <3>2 DEF Wait, LeaveInFlight, DoneTasks
        <3> QED
            BY <3>3, <3>4 DEF Live
    <2> QED
        BY <2>1, <2>2, <2>3
<1>2. CASE Finish
    BY <1>2 DEF Finish
<1>3. CASE WakeUp \/ StopAtLimit \/ Expire
    BY <1>3 DEF WakeUp, StopAtLimit, Expire, Live
<1>4. ASSUME NEW n \in Nodes, Start(n) \/ Answer(n) \/ BackoffOver(n)
      PROVE  NeverWaitsForNothing'
    <2>1. /\ run'[n] \in {"exec", "backoff"} \/ (run'[n] \in {"done", "raised"} /\ woken' = TRUE)
          /\ pc' = pc /\ \A m \in Nodes : m # n => run'[m] = run[m]
        BY <1>4, CoroutineStep
    <2>2. woken' \/ Live(n)'
        BY <2>1 DEF Live
    <2>3. pc' # "done" => \A m \in Nodes : run'[m] # "cancelled"
        BY <2>1
    <2> QED
        BY <2>2, <2>3
<1>5. CASE UNCHANGED vars
    BY <1>5 DEF vars, Live
<1> QED
    BY <1>1, <1>2, <1>3, <1>4, <1>5 DEF Next, Loop, Pass

\* No wake-up is lost and the loop never waits with nothing under way, for any
\* plan and any order of completions: the safety half of RunEnds.
THEOREM NoLostWakeup == Spec => []NeverWaitsForNothing
<1>1. Init => NeverWaitsForNothing
    BY DEF Init, NeverWaitsForNothing
<1>2. Inv => TypeOK
    BY DEF Inv
<1> QED
    BY <1>1, <1>2, NeverWaitsStep, Invariance, PTL DEF Spec

LoopRank == [waiting |-> 0, loop |-> 1, draining |-> 2, done |-> 3]

PhaseRank ==
    [none |-> 0, queued |-> 1, exec |-> 2, backoff |-> 3, done |-> 4, raised |-> 4,
     cancelled |-> 4]

\* Another round, of which there are MaxRounds; or the loop gets nearer to the
\* end of one; or one coroutine gets nearer to its end and the others stay.
Advances ==
    \/ round' = round + 1 /\ round' <= MaxRounds
    \/ round' = round /\ LoopRank[pc'] > LoopRank[pc]
    \/ /\ round' = round /\ pc' = pc
       /\ \E n \in Nodes :
            /\ PhaseRank[run'[n]] > PhaseRank[run[n]]
            /\ \A m \in Nodes : m # n => run'[m] = run[m]
    \/ ~late /\ late' /\ UNCHANGED <<round, pc, run>>

\* A run of any size takes boundedly many steps, with or without its time limit:
\* retries, resets and repairs happen within rounds and cannot go on without one.
THEOREM StepsAdvance == Spec => [][Advances]_vars
<1>1. Inv /\ [Next]_vars => [Advances]_vars
    <2> SUFFICES ASSUME Inv, Next PROVE Advances
        OBVIOUS
    <2> USE DEF Advances, LoopRank
    <2>1. CASE Pass
        <3>1. Passes
            BY <2>1 DEF Pass, StopAllOver, Dispatch, Wait, Poll
        <3>2. round' = round + 1 /\ round < MaxRounds /\ round \in 0..MaxRounds /\ MaxRounds \in Nat
            BY <3>1, BoundsAssumption DEF Passes, Inv, TypeOK
        <3> QED
            BY <3>2
    <2>2. CASE WakeUp \/ StopAtLimit \/ Finish
        BY <2>2 DEF WakeUp, StopAtLimit, Finish
    <2>3. CASE Expire
        BY <2>3 DEF Expire, Inv, TypeOK
    <2>4. ASSUME NEW n \in Nodes, Start(n) \/ Answer(n) \/ BackoffOver(n)
          PROVE  Advances
        <3>1. /\ pc' = pc /\ round' = round
              /\ \A m \in Nodes : m # n => run'[m] = run[m]
              /\ \/ run[n] = "queued" /\ run'[n] \in {"exec", "done", "raised"}
                 \/ run[n] = "exec" /\ run'[n] \in {"backoff", "done"}
                 \/ run[n] = "backoff" /\ run'[n] = "done"
            BY <2>4, CoroutineStep DEF Inv
        <3>2. PhaseRank[run'[n]] > PhaseRank[run[n]]
            BY <3>1 DEF PhaseRank
        <3> QED
            BY <3>1, <3>2
    <2> QED
        BY <2>1, <2>2, <2>3, <2>4 DEF Next, Loop, Pass
<1> QED
    BY <1>1, Invariance, PTL DEF Spec
=============================================================================
