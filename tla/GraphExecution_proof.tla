----------------------- MODULE GraphExecution_proof -----------------------
(***************************************************************************)
(* For every graph, every planner, every concurrency limit and whatever    *)
(* coroutines escape: a node starts only after its required sources have   *)
(* succeeded, no node is run twice at once, and a terminal status is final.*)
(*                                                                         *)
(* The strengthening EngineInv ties a coroutine's phase to its node's      *)
(* status, says that a scheduled batch is still runnable when its first    *)
(* slice comes, and that every node that has started stands on successful  *)
(* sources -- which is why propagation can only ever hit PENDING nodes.    *)
(*                                                                         *)
(* GraphInv keeps the edges acyclic and between nodes of the graph, which  *)
(* is what makes "nothing runnable" mean that a failure is upstream:       *)
(* a minimal pending node has all its sources settled.  CascadeInv says    *)
(* how far the propagation of a failure has got, so that a run that has    *)
(* completed has no pending node left (EndsSettled).  A node's status      *)
(* implements StatusLifecycle along NodeTable.  Advances is a              *)
(* variant: outside of escapes, each step takes the run further.           *)
(***************************************************************************)
EXTENDS GraphExecution, FiniteSetTheorems, TLAPS

\* What the phase of a coroutine says about its node and the engine.
PhaseInv ==
    \A n \in Nodes :
        /\ runner[n] = "queued" => pc = "queued" /\ n \in batch
        /\ runner[n] \in {"running", "backoff"} => status[n] = "running"
        /\ runner[n] = "post" => status[n] = "success"
        /\ runner[n] = "finished" => status[n] \in {"success", "failed"}
        /\ runner[n] = "escaped" => n \in Escapes
        /\ runner[n] \in {"finished", "escaped"} => pc = "running" /\ n \in batch

\* A gathered batch waits for its first slice, runnable as it was scheduled.
BatchInv ==
    /\ pc \notin {"queued", "running"} => batch = {}
    /\ pc = "queued" => \A n \in batch :
           runner[n] = "queued" /\ status[n] = "pending" /\ DependenciesSatisfied(n)

\* Every node that has started stands on successful sources.
SourcesInv ==
    \A e \in Required(edges) :
        status[e.dst] \in {"running", "success", "failed"} => status[e.src] = "success"

\* Edges end in nodes of the graph.
EdgesInv == \A e \in edges : status[e.dst] # "absent"

\* Only coroutines of the batch exist, unless run_node can be escaped.
AwaitedInv == Escapes = {} => \A n \in Nodes :
    /\ runner[n] # "none" => n \in batch
    /\ status[n] = "running" => runner[n] # "none"

EngineInv ==
    TypeOK /\ PhaseInv /\ BatchInv /\ SourcesInv /\ EdgesInv /\ AwaitedInv

(***************************************************************************)
(* Propagation marks pending nodes only.                                   *)
(***************************************************************************)
LEMMA SkippedArePending ==
    ASSUME TypeOK, SourcesInv
    PROVE  Skipped \subseteq InStatus("pending")
<1> DEFINE S == InStatus("pending")
<1>1. SkipClosed(S)
  <2> SUFFICES ASSUME NEW e \in Required(edges),
                      status[e.src] = "failed" \/ e.src \in S,
                      e.dst \in Present, status[e.dst] \notin Terminal
               PROVE  e.dst \in S
    BY DEF SkipClosed
  <2>1. e.dst \in Nodes /\ status[e.dst] \in NodeStatus
    BY DEF Required, Edge, TypeOK
  <2>2. status[e.src] # "success"
    BY DEF InStatus
  <2>3. status[e.dst] \notin {"running", "success", "failed"}
    BY <2>2 DEF SourcesInv
  <2> QED BY <2>1, <2>3 DEF Present, InStatus, Terminal, NodeStatus
<1>2. S \in SUBSET Nodes
  BY DEF InStatus
<1> QED BY <1>1, <1>2 DEF Skipped

(***************************************************************************)
(* Hence a propagation only turns pending nodes into skipped ones.         *)
(***************************************************************************)
LEMMA PropagatedShape ==
    ASSUME TypeOK, SourcesInv
    PROVE  /\ Propagated \in [Nodes -> NodeStatus]
           /\ \A n \in Nodes : \/ Propagated[n] = status[n]
                               \/ status[n] = "pending" /\ Propagated[n] = "skipped"
BY SkippedArePending DEF Propagated, InStatus, TypeOK, NodeStatus

LEMMA GraphStatusType == \A st : GraphStatus(st) \in Outcomes
BY DEF GraphStatus, Outcomes

LEMMA EngineInvInit == Init => EngineInv
<1> SUFFICES ASSUME NEW g \in InitialGraphs,
                    pc = IF Incremental THEN "plan" ELSE "loop",
                    status = [n \in Nodes |-> IF n \in g.nodes THEN "pending" ELSE "absent"],
                    edges = g.edges,
                    runner = [n \in Nodes |-> "none"],
                    retries = [n \in Nodes |-> 0],
                    batch = {}, outcome = "none", plans = 0
             PROVE  EngineInv
  BY DEF Init
<1>1. g.edges \subseteq Edge /\ \A e \in g.edges : {e.src, e.dst} \subseteq g.nodes
  BY GraphsAssumption, GraphEdgesAssumption DEF Graph
<1>2. TypeOK
  BY <1>1, BoundsAssumption DEF TypeOK, NodeStatus, Phases, Outcomes
<1>3. PhaseInv /\ BatchInv /\ AwaitedInv
  BY DEF PhaseInv, BatchInv, AwaitedInv
<1>4. SourcesInv /\ EdgesInv
  BY <1>1 DEF SourcesInv, EdgesInv, Required, Edge
<1> QED BY <1>2, <1>3, <1>4 DEF EngineInv

-----------------------------------------------------------------------------

LEMMA TypeStep == EngineInv /\ [Next]_vars => TypeOK'
<1> SUFFICES ASSUME EngineInv, [Next]_vars PROVE TypeOK'
  OBVIOUS
<1> USE BoundsAssumption DEF EngineInv, TypeOK, NodeStatus, Phases, Outcomes, Return
<1>1. ASSUME NEW p \in Patches, ApplyPatch(p) PROVE TypeOK'
  <2>1. p.edges \subseteq Edge
    BY GraphsAssumption DEF Graph
  <2> QED BY <1>1, <2>1 DEF ApplyPatch
<1>2. CASE StopPlanning
  BY <1>2 DEF StopPlanning
<1>3. CASE Engine
  <2>1. CASE LoopEnds \/ TimeLimitExceeded \/ Deadlock
    BY <2>1, GraphStatusType DEF LoopEnds, TimeLimitExceeded, Deadlock
  <2>2. CASE NothingReady
    BY <2>2, GraphStatusType, PropagatedShape DEF NothingReady
  <2>3. CASE Schedule
    <3>1. PICK S \in SUBSET ReadyNodes :
             /\ batch' = S
             /\ runner' = [n \in Nodes |-> IF n \in S THEN "queued" ELSE runner[n]]
      BY <2>3 DEF Schedule
    <3> QED BY <2>3, <3>1 DEF Schedule, ReadyNodes, InStatus
  <2>4. CASE StartBatch
    <3>1. PICK esc \in SUBSET (batch \cap Escapes) :
        /\ runner' = [n \in Nodes |->
                        IF n \in esc THEN "escaped"
                        ELSE IF n \in batch THEN "running" ELSE runner[n]]
        /\ status' = [n \in Nodes |->
                        IF n \in batch \ esc THEN "running" ELSE status[n]]
      BY <2>4 DEF StartBatch
    <3> QED BY <2>4, <3>1 DEF StartBatch
  <2>5. CASE GatherReturns
    BY <2>5, GraphStatusType, PropagatedShape DEF GatherReturns
  <2>6. CASE GatherRaises
    BY <2>6 DEF GatherRaises
  <2> QED BY <1>3, <2>1, <2>2, <2>3, <2>4, <2>5, <2>6 DEF Engine
<1>4. ASSUME NEW n \in Nodes, RunNode(n) PROVE TypeOK'
  BY <1>4 DEF RunNode, SkillSucceeds, PostProcessed, SkillFails, HandleError,
              ScheduleRetry, GiveUp, Retry, Ended
<1>5. CASE UNCHANGED vars
  BY <1>5 DEF vars
<1> QED BY <1>1, <1>2, <1>3, <1>4, <1>5 DEF Next

(***************************************************************************)
(* One slice of a coroutine moves a running node to running, success or    *)
(* failed, or moves nothing.                                               *)
(***************************************************************************)
LEMMA RunNodeShape ==
    ASSUME EngineInv, NEW n \in Nodes, RunNode(n)
    PROVE  /\ runner[n] \in {"running", "post", "backoff"}
           /\ UNCHANGED <<pc, edges, batch>>
           /\ \A m \in Nodes \ {n} : status'[m] = status[m] /\ runner'[m] = runner[m]
           /\ \/ status'[n] = status[n]
              \/ status[n] = "running" /\ status'[n] \in {"success", "failed"}
           /\ \/ runner'[n] \in {"running", "backoff"} /\ status'[n] = "running"
              \/ runner'[n] = "post" /\ status'[n] = "success"
              \/ runner'[n] = "finished" /\ n \in batch
                 /\ status'[n] \in {"success", "failed"}
              \/ runner'[n] = "none" /\ n \notin batch
                 /\ status'[n] \in {"success", "failed"}
<1> USE DEF EngineInv, TypeOK, PhaseInv
<1>1. CASE SkillSucceeds(n)
  BY <1>1 DEF SkillSucceeds
<1>2. CASE PostProcessed(n)
  BY <1>2 DEF PostProcessed, Ended
<1>3. CASE SkillFails(n)
  BY <1>3 DEF SkillFails, HandleError, ScheduleRetry, GiveUp, Ended
<1>4. CASE Retry(n)
  BY <1>4 DEF Retry
<1> QED BY <1>1, <1>2, <1>3, <1>4 DEF RunNode

LEMMA EngineInvStep == EngineInv /\ [Next]_vars => EngineInv'
<1> SUFFICES ASSUME EngineInv, [Next]_vars PROVE EngineInv'
  OBVIOUS
<1>0. TypeOK'
  BY TypeStep
<1> DEFINE Rest == PhaseInv /\ BatchInv /\ SourcesInv /\ EdgesInv /\ AwaitedInv
<1> SUFFICES Rest'
  BY <1>0 DEF EngineInv
<1>1. ASSUME NEW p \in Patches, ApplyPatch(p) PROVE Rest'
  <2>1. /\ \A n \in Nodes : n \in p.nodes => status[n] = "absent"
        /\ \A n \in Nodes : status'[n] = IF n \in p.nodes THEN "pending" ELSE status[n]
        /\ edges' = edges \cup p.edges
        /\ pc' = "loop" /\ pc = "plan" /\ UNCHANGED <<runner, batch>>
    BY <1>1, GraphsAssumption DEF ApplyPatch, Graph
  <2>2. p.edges \subseteq Edge /\ \A e \in p.edges : e.dst \in p.nodes
    BY GraphsAssumption, PatchEdgesAssumption DEF Graph
  <2>3. PhaseInv' /\ BatchInv' /\ AwaitedInv'
    BY <2>1 DEF EngineInv, PhaseInv, BatchInv, AwaitedInv, TypeOK
  <2>4. EdgesInv'
    BY <2>1, <2>2 DEF EngineInv, EdgesInv, TypeOK, Edge
  <2>5. SourcesInv'
    <3> SUFFICES ASSUME NEW e \in Required(edges)',
                        status'[e.dst] \in {"running", "success", "failed"}
                 PROVE  status'[e.src] = "success"
      BY DEF SourcesInv
    <3>1. e \in edges \/ e \in p.edges
      BY <2>1 DEF Required
    <3>2. e.src \in Nodes /\ e.dst \in Nodes
      BY <3>1, <2>2 DEF EngineInv, TypeOK, Edge
    <3>3. e \in Required(edges)
      BY <3>1, <3>2, <2>1, <2>2 DEF Required
    <3>4. status[e.src] = "success"
      BY <3>2, <3>3, <2>1 DEF EngineInv, SourcesInv
    <3> QED BY <3>2, <3>4, <2>1
  <2> QED BY <2>3, <2>4, <2>5
<1>2. CASE StopPlanning
  BY <1>2 DEF StopPlanning, EngineInv, PhaseInv, BatchInv, SourcesInv, EdgesInv,
              AwaitedInv, Required
<1>3. CASE LoopEnds \/ TimeLimitExceeded \/ Deadlock
  BY <1>3 DEF LoopEnds, TimeLimitExceeded, Deadlock, Return, EngineInv, PhaseInv,
              BatchInv, SourcesInv, EdgesInv, AwaitedInv, Required
<1>4. CASE NothingReady
  <2>1. /\ \A n \in Nodes : \/ status'[n] = status[n]
                            \/ status[n] = "pending" /\ status'[n] = "skipped"
        /\ pc = "loop" /\ pc' \in {"plan", "done"}
        /\ UNCHANGED <<edges, runner, batch>>
    BY <1>4, PropagatedShape DEF NothingReady, Return, EngineInv
  <2> QED BY <2>1 DEF EngineInv, PhaseInv, BatchInv, SourcesInv, EdgesInv,
                      AwaitedInv, Required, TypeOK, Edge
<1>5. CASE Schedule
  <2>1. PICK S \in SUBSET ReadyNodes :
             /\ batch' = S
             /\ runner' = [n \in Nodes |-> IF n \in S THEN "queued" ELSE runner[n]]
    BY <1>5 DEF Schedule
  <2>2. pc = "loop" /\ pc' = "queued" /\ UNCHANGED <<status, edges>>
    BY <1>5 DEF Schedule
  <2>3. \A n \in S : n \in Nodes /\ status[n] = "pending" /\ DependenciesSatisfied(n)
    BY DEF ReadyNodes, InStatus
  <2>4. PhaseInv' /\ AwaitedInv' /\ SourcesInv' /\ EdgesInv'
    BY <2>1, <2>2, <2>3 DEF EngineInv, PhaseInv, AwaitedInv, BatchInv, SourcesInv,
                            EdgesInv, Required
  <2>5. BatchInv'
    BY <2>1, <2>2, <2>3 DEF BatchInv, DependenciesSatisfied, Required
  <2> QED BY <2>4, <2>5
<1>6. CASE StartBatch
  <2>1. PICK esc \in SUBSET (batch \cap Escapes) :
        /\ runner' = [n \in Nodes |->
                        IF n \in esc THEN "escaped"
                        ELSE IF n \in batch THEN "running" ELSE runner[n]]
        /\ status' = [n \in Nodes |->
                        IF n \in batch \ esc THEN "running" ELSE status[n]]
    BY <1>6 DEF StartBatch
  <2>2. pc = "queued" /\ pc' = "running" /\ UNCHANGED <<edges, batch>>
    BY <1>6 DEF StartBatch
  <2>3. \A n \in batch : status[n] = "pending" /\ DependenciesSatisfied(n)
    BY <2>2 DEF EngineInv, BatchInv
  <2>4. PhaseInv' /\ BatchInv' /\ EdgesInv' /\ AwaitedInv'
    BY <2>1, <2>2, <2>3 DEF EngineInv, TypeOK, PhaseInv, BatchInv, EdgesInv,
                            AwaitedInv, Edge
  <2>5. SourcesInv'
    <3> SUFFICES ASSUME NEW e \in Required(edges)',
                        status'[e.dst] \in {"running", "success", "failed"}
                 PROVE  status'[e.src] = "success"
      BY DEF SourcesInv
    <3>1. e \in Required(edges) /\ e.src \in Nodes /\ e.dst \in Nodes
      BY <2>2 DEF Required, EngineInv, TypeOK, Edge
    <3>2. status[e.src] = "success"
      BY <3>1, <2>1, <2>3 DEF EngineInv, SourcesInv, DependenciesSatisfied
    <3>3. e.src \notin batch
      BY <3>2, <2>3
    <3> QED BY <3>1, <3>2, <3>3, <2>1
  <2> QED BY <2>4, <2>5
<1>7. CASE GatherReturns
  <2>1. /\ \A n \in Nodes : \/ status'[n] = status[n]
                            \/ status[n] = "pending" /\ status'[n] = "skipped"
        /\ pc = "running" /\ pc' \in {"plan", "loop"}
        /\ batch' = {} /\ edges' = edges
        /\ runner' = [n \in Nodes |-> IF n \in batch THEN "none" ELSE runner[n]]
        /\ \A n \in batch : runner[n] = "finished"
    BY <1>7, PropagatedShape DEF GatherReturns, AllFinished, EngineInv
  <2>2. Escapes = {} => \A n \in Nodes : runner'[n] = "none" /\ status'[n] # "running"
    BY <2>1 DEF EngineInv, AwaitedInv, PhaseInv, TypeOK
  <2>3. \A n \in Nodes : runner'[n] \notin {"finished", "escaped"}
    BY <2>1 DEF EngineInv, PhaseInv, TypeOK
  <2> QED BY <2>1, <2>2, <2>3 DEF EngineInv, PhaseInv, BatchInv, SourcesInv, EdgesInv,
                      AwaitedInv, Required, TypeOK, Edge
<1>8. CASE GatherRaises
  <2>1. /\ pc = "running" /\ pc' \in {"plan", "done"}
        /\ batch' = {} /\ UNCHANGED <<status, edges>>
        /\ runner' = [n \in Nodes |-> IF runner[n] \in {"finished", "escaped"}
                                      THEN "none" ELSE runner[n]]
        /\ \E n \in Nodes : runner[n] = "escaped"
    BY <1>8 DEF GatherRaises, SomeEscaped, Return, EngineInv, TypeOK
  <2>2. Escapes # {}
    BY <2>1 DEF EngineInv, PhaseInv
  <2> QED BY <2>1, <2>2 DEF EngineInv, PhaseInv, BatchInv, SourcesInv, EdgesInv,
                      AwaitedInv, Required, TypeOK, Edge
<1>9. ASSUME NEW n \in Nodes, RunNode(n) PROVE Rest'
  <2>1. /\ runner[n] \in {"running", "post", "backoff"}
        /\ UNCHANGED <<pc, edges, batch>>
        /\ \A m \in Nodes \ {n} : status'[m] = status[m] /\ runner'[m] = runner[m]
        /\ \/ status'[n] = status[n]
           \/ status[n] = "running" /\ status'[n] \in {"success", "failed"}
        /\ \/ runner'[n] \in {"running", "backoff"} /\ status'[n] = "running"
           \/ runner'[n] = "post" /\ status'[n] = "success"
           \/ runner'[n] = "finished" /\ n \in batch
              /\ status'[n] \in {"success", "failed"}
           \/ runner'[n] = "none" /\ n \notin batch
              /\ status'[n] \in {"success", "failed"}
    BY <1>9, RunNodeShape
  <2>2. status[n] \in {"running", "success"}
    BY <2>1 DEF EngineInv, PhaseInv
  <2>3. n \in batch => pc = "running"
    BY <2>2 DEF EngineInv, BatchInv, TypeOK
  <2>4. PhaseInv'
    <3> SUFFICES ASSUME NEW m \in Nodes
                 PROVE  /\ runner'[m] = "queued" => pc' = "queued" /\ m \in batch'
                        /\ runner'[m] \in {"running", "backoff"} => status'[m] = "running"
                        /\ runner'[m] = "post" => status'[m] = "success"
                        /\ runner'[m] = "finished" => status'[m] \in {"success", "failed"}
                        /\ runner'[m] = "escaped" => m \in Escapes
                        /\ runner'[m] \in {"finished", "escaped"} =>
                               pc' = "running" /\ m \in batch'
      BY DEF PhaseInv
    <3>1. CASE m = n
      BY <3>1, <2>1, <2>3
    <3>2. CASE m # n
      BY <3>2, <2>1 DEF EngineInv, PhaseInv
    <3> QED BY <3>1, <3>2
  <2>5. BatchInv'
    <3>1. ASSUME pc = "queued", NEW m \in batch
          PROVE  runner'[m] = "queued" /\ status'[m] = "pending" /\ DependenciesSatisfied(m)'
      <4>1. m \in Nodes /\ m # n
        BY <3>1, <2>3 DEF EngineInv, TypeOK
      <4>2. \A e \in Required(edges) : e.dst = m => status[e.src] = "success"
        BY <3>1 DEF EngineInv, BatchInv, DependenciesSatisfied
      <4>3. \A e \in Required(edges) : e.dst = m => status'[e.src] = "success"
        BY <4>2, <2>1 DEF Required, EngineInv, TypeOK, Edge
      <4> QED BY <3>1, <4>1, <4>3, <2>1
              DEF EngineInv, BatchInv, DependenciesSatisfied, Required
    <3> QED BY <3>1, <2>1 DEF EngineInv, BatchInv
  <2>6. SourcesInv'
    BY <2>1, <2>2 DEF EngineInv, SourcesInv, Required, TypeOK, Edge
  <2>7. EdgesInv'
    BY <2>1, <2>2 DEF EngineInv, EdgesInv, TypeOK, Edge
  <2>8. AwaitedInv'
    BY <2>1, <2>2 DEF EngineInv, AwaitedInv
  <2> QED BY <2>4, <2>5, <2>6, <2>7, <2>8
<1>10. CASE UNCHANGED vars
  BY <1>10 DEF vars, EngineInv, PhaseInv, BatchInv, SourcesInv, EdgesInv,
               AwaitedInv, Required, DependenciesSatisfied
<1> QED BY <1>1, <1>2, <1>3, <1>4, <1>5, <1>6, <1>7, <1>8, <1>9, <1>10 DEF Next, Engine

-----------------------------------------------------------------------------

(***************************************************************************)
(* The invariant behind every theorem below, TypeOK with it.               *)
(***************************************************************************)
THEOREM EngineInvariant == Spec => []EngineInv
BY EngineInvInit, EngineInvStep, PTL DEF Spec

\* Every variable keeps its type, for every graph and limit.
THEOREM TypeCorrect == Spec => []TypeOK
<1>1. EngineInv => TypeOK
  BY DEF EngineInv
<1> QED BY <1>1, EngineInvariant, PTL

(***************************************************************************)
(* The scheduler, which takes PENDING nodes, can never start a node that a *)
(* coroutine is already running -- not even one of an abandoned batch.     *)
(***************************************************************************)
THEOREM NodesRunOnce == Spec => []NoDoubleRun
<1>1. EngineInv => NoDoubleRun
  BY DEF EngineInv, PhaseInv, NoDoubleRun, Live
<1> QED BY <1>1, EngineInvariant, PTL

(***************************************************************************)
(* Between batches nothing is in motion, when no exception can get out of  *)
(* run_node and make the gather abandon its other coroutines.              *)
(***************************************************************************)
THEOREM CyclesSettle == ASSUME Escapes = {} PROVE Spec => []SettledBetweenCycles
<1>1. EngineInv => SettledBetweenCycles
  BY DEF EngineInv, AwaitedInv, BatchInv, SettledBetweenCycles, InStatus
<1> QED BY <1>1, EngineInvariant, PTL

(***************************************************************************)
(* A node starts only on the results of all its required sources.          *)
(***************************************************************************)
THEOREM StartsInOrder == Spec => DependencyOrder
<1> DEFINE A == \A n \in Nodes :
              status[n] = "pending" /\ status'[n] = "running" =>
                 \A e \in Required(edges) : e.dst = n => status[e.src] = "success"
<1>1. EngineInv /\ [Next]_vars => [A]_vars
  <2> SUFFICES ASSUME EngineInv, Next, NEW n \in Nodes,
                      status[n] = "pending", status'[n] = "running"
               PROVE  \A e \in Required(edges) : e.dst = n => status[e.src] = "success"
    OBVIOUS
  <2>1. CASE \E p \in Patches : ApplyPatch(p)
    BY <2>1 DEF ApplyPatch
  <2>2. CASE StopPlanning \/ LoopEnds \/ TimeLimitExceeded \/ Deadlock \/ Schedule
                 \/ GatherRaises
    BY <2>2 DEF StopPlanning, LoopEnds, TimeLimitExceeded, Deadlock, Schedule, GatherRaises
  <2>3. CASE NothingReady \/ GatherReturns
    BY <2>3, PropagatedShape DEF NothingReady, GatherReturns, EngineInv
  <2>4. CASE StartBatch
    <3>1. pc = "queued" /\ n \in batch
      BY <2>4 DEF StartBatch
    <3> QED BY <3>1 DEF EngineInv, BatchInv, DependenciesSatisfied
  <2>5. CASE \E m \in Nodes : RunNode(m)
    <3>1. PICK m \in Nodes : RunNode(m)
      BY <2>5
    <3> QED BY <3>1, RunNodeShape
  <2> QED BY <2>1, <2>2, <2>3, <2>4, <2>5 DEF Next, Engine
<1>2. Spec => [][Next]_vars
  BY DEF Spec
<1>3. Spec => [][A]_vars
  BY <1>1, <1>2, EngineInvariant, PTL
<1> QED BY <1>3 DEF DependencyOrder

(***************************************************************************)
(* Whatever is still running when the controller reads the graph, a        *)
(* terminal status is never rewritten.                                     *)
(***************************************************************************)
THEOREM TerminalStays == Spec => TerminalIsFinal
<1> DEFINE A == \A n \in Nodes : status[n] \in Terminal => status'[n] = status[n]
<1>1. EngineInv /\ [Next]_vars => [A]_vars
  <2> SUFFICES ASSUME EngineInv, Next, NEW n \in Nodes, status[n] \in Terminal
               PROVE  status'[n] = status[n]
    OBVIOUS
  <2> USE DEF Terminal
  <2>1. CASE \E p \in Patches : ApplyPatch(p)
    BY <2>1 DEF ApplyPatch
  <2>2. CASE StopPlanning \/ LoopEnds \/ TimeLimitExceeded \/ Deadlock \/ Schedule
                 \/ GatherRaises
    BY <2>2 DEF StopPlanning, LoopEnds, TimeLimitExceeded, Deadlock, Schedule, GatherRaises
  <2>3. CASE NothingReady \/ GatherReturns
    BY <2>3, PropagatedShape DEF NothingReady, GatherReturns, EngineInv
  <2>4. CASE StartBatch
    BY <2>4 DEF StartBatch, EngineInv, BatchInv
  <2>5. CASE \E m \in Nodes : RunNode(m)
    <3>1. PICK m \in Nodes : RunNode(m)
      BY <2>5
    <3> QED BY <3>1, RunNodeShape
  <2> QED BY <2>1, <2>2, <2>3, <2>4, <2>5 DEF Next, Engine
<1>2. Spec => [][Next]_vars
  BY DEF Spec
<1>3. Spec => [][A]_vars
  BY <1>1, <1>2, EngineInvariant, PTL
<1> QED BY <1>3 DEF TerminalIsFinal

-----------------------------------------------------------------------------
(* A node's status moves the way a status store moves a row: one abstract  *)
(* specification for both.                                                 *)

NodeTable ==
    [s \in NodeStatus |->
        CASE s = "absent"   -> {"pending"}
          [] s = "pending"  -> {"running", "skipped"}
          [] s = "running"  -> {"success", "failed"}
          [] s \in Terminal -> {}]

NodeRow(n) == INSTANCE StatusLifecycle WITH
    Table <- NodeTable,
    Initial <- "absent",
    Ending <- Terminal,
    status <- status[n],
    ended <- status[n] \in Terminal

\* Every node is added pending, is run or skipped from there and ends once,
\* whatever patches, retries, propagations and abandoned batches do meanwhile.
NodesFollowLifecycle ==
    /\ \A n \in Nodes : status[n] \in {"absent", "pending"}
    /\ [][\A n \in Nodes : [NodeRow(n)!Next]_(NodeRow(n)!vars)]_vars

\* The moves of the table are moves of the abstract specification.
LEMMA TableMoves ==
    ASSUME NEW n \in Nodes, status[n] \in NodeStatus,
           status'[n] \in NodeTable[status[n]]
    PROVE  NodeRow(n)!Next
<1>1. status[n] \notin Terminal /\ status'[n] \in DOMAIN NodeTable
  BY DEF NodeTable, NodeStatus, Terminal
<1>2. NodeRow(n)!Move(status'[n])
  BY <1>1 DEF NodeRow!Move
<1> QED BY <1>1, <1>2 DEF NodeRow!Next

\* A step leaves a node's status alone or moves it along the table.
LEMMA NodeMoves ==
    ASSUME EngineInv, [Next]_vars, NEW n \in Nodes
    PROVE  status'[n] = status[n] \/ status'[n] \in NodeTable[status[n]]
<1> USE DEF NodeTable, NodeStatus, Terminal
<1>1. CASE \E p \in Patches : ApplyPatch(p)
  BY <1>1 DEF ApplyPatch
<1>2. CASE StopPlanning \/ LoopEnds \/ TimeLimitExceeded \/ Deadlock \/ Schedule
               \/ GatherRaises \/ UNCHANGED vars
  BY <1>2 DEF StopPlanning, LoopEnds, TimeLimitExceeded, Deadlock, Schedule,
              GatherRaises, vars
<1>3. CASE NothingReady \/ GatherReturns
  BY <1>3, PropagatedShape DEF NothingReady, GatherReturns, EngineInv
<1>4. CASE StartBatch
  BY <1>4 DEF StartBatch, EngineInv, BatchInv
<1>5. CASE \E m \in Nodes : RunNode(m)
  <2>1. PICK m \in Nodes : RunNode(m)
    BY <1>5
  <2> QED BY <2>1, RunNodeShape
<1> QED BY <1>1, <1>2, <1>3, <1>4, <1>5 DEF Next, Engine

(***************************************************************************)
(* For every graph: the statuses of nodes implement the abstract life      *)
(* cycle, along the table above.                                           *)
(***************************************************************************)
THEOREM NodesImplementLifecycle == Spec => NodesFollowLifecycle
<1> DEFINE A == \A n \in Nodes : [NodeRow(n)!Next]_(NodeRow(n)!vars)
           B == \A n \in Nodes : status[n] \in {"absent", "pending"}
<1>1. EngineInv /\ [Next]_vars => A
  <2> SUFFICES ASSUME EngineInv, [Next]_vars, NEW n \in Nodes
               PROVE  [NodeRow(n)!Next]_(NodeRow(n)!vars)
    OBVIOUS
  <2>1. CASE status'[n] = status[n]
    BY <2>1 DEF NodeRow!vars
  <2>2. CASE status'[n] \in NodeTable[status[n]]
    BY <2>2, TableMoves DEF EngineInv, TypeOK
  <2> QED BY <2>1, <2>2, NodeMoves
<1>2. Init => B
  BY DEF Init
<1>3. Spec => [][A]_vars
  BY <1>1, EngineInvariant, PTL DEF Spec
<1> QED BY <1>2, <1>3 DEF Spec, NodesFollowLifecycle

-----------------------------------------------------------------------------

(***************************************************************************)
(* The marks of a propagation are closed under its step, and a closed set  *)
(* that could do without one of them would leave it unmarked: so each has  *)
(* its cause.                                                              *)
(***************************************************************************)
LEMMA SkippedClosed == SkipClosed(Skipped)
BY DEF SkipClosed, Skipped

LEMMA SkippedHaveCause ==
    ASSUME TypeOK, SourcesInv, NEW n \in Skipped
    PROVE  \E e \in Required(edges) :
               e.dst = n /\ Propagated[e.src] \in {"failed", "skipped"}
<1> SUFFICES ASSUME \A e \in Required(edges) :
                        e.dst = n => Propagated[e.src] \notin {"failed", "skipped"}
             PROVE  FALSE
  OBVIOUS
<1> DEFINE S == Skipped \ {n}
<1>1. \A e \in Required(edges) : e.src \in Nodes
  BY DEF Required, Edge, TypeOK
<1>2. \A e \in Required(edges) :
          status[e.src] = "failed" \/ e.src \in S => Propagated[e.src] \in {"failed", "skipped"}
  BY <1>1 DEF Propagated
<1>3. SkipClosed(S)
  BY <1>2, SkippedClosed DEF SkipClosed
<1>4. S \in SUBSET Nodes
  BY DEF Skipped, Present
<1> QED BY <1>3, <1>4 DEF Skipped

(***************************************************************************)
(* A node is skipped because of a required source, for graphs of any shape.*)
(***************************************************************************)
THEOREM SkipsHaveCause == Spec => SkippedForCause
<1> DEFINE A == \A n \in Nodes : status[n] # "skipped" /\ status'[n] = "skipped" =>
                  /\ status[n] = "pending"
                  /\ \E e \in Required(edges) :
                        e.dst = n /\ status'[e.src] \in {"failed", "skipped"}
<1>1. EngineInv /\ [Next]_vars => [A]_vars
  <2> SUFFICES ASSUME EngineInv, Next, NEW n \in Nodes,
                      status[n] # "skipped", status'[n] = "skipped"
               PROVE  /\ status[n] = "pending"
                      /\ \E e \in Required(edges) :
                            e.dst = n /\ status'[e.src] \in {"failed", "skipped"}
    OBVIOUS
  <2>1. CASE \E p \in Patches : ApplyPatch(p)
    BY <2>1 DEF ApplyPatch
  <2>2. CASE StopPlanning \/ LoopEnds \/ TimeLimitExceeded \/ Deadlock \/ Schedule
                 \/ GatherRaises
    BY <2>2 DEF StopPlanning, LoopEnds, TimeLimitExceeded, Deadlock, Schedule, GatherRaises
  <2>3. CASE NothingReady \/ GatherReturns
    <3>1. status' = Propagated
      BY <2>3 DEF NothingReady, GatherReturns
    <3>2. n \in Skipped
      BY <3>1 DEF Propagated
    <3> QED BY <3>1, <3>2, SkippedHaveCause, SkippedArePending DEF EngineInv, InStatus
  <2>4. CASE StartBatch
    BY <2>4 DEF StartBatch
  <2>5. CASE \E m \in Nodes : RunNode(m)
    <3>1. PICK m \in Nodes : RunNode(m)
      BY <2>5
    <3> QED BY <3>1, RunNodeShape
  <2> QED BY <2>1, <2>2, <2>3, <2>4, <2>5 DEF Next, Engine
<1>2. Spec => [][Next]_vars
  BY DEF Spec
<1>3. Spec => [][A]_vars
  BY <1>1, <1>2, EngineInvariant, PTL
<1> QED BY <1>3 DEF SkippedForCause

-----------------------------------------------------------------------------
(***************************************************************************)
(* The safety half of RunSettles.  Edges join nodes of the graph and form  *)
(* no cycle, in the initial graph and, by the planner guard, after every   *)
(* patch; so among the pending nodes there is always a topmost one.        *)
(***************************************************************************)
GraphInv ==
    /\ Acyclic(edges)
    /\ \A e \in edges : {e.src, e.dst} \subseteq Present

\* Below a skipped node everything is settled, at every moment; below a failed
\* one, once the propagation after the batch has run.
CascadeInv ==
    /\ pc # "plan"
    /\ \A e \in Required(edges) : status[e.src] = "skipped" => status[e.dst] \in Terminal
    /\ pc = "loop" => \A e \in Required(edges) :
           status[e.src] = "failed" => status[e.dst] \in Terminal

\* What a complete run leaves behind.
EndsSettled == pc = "done" => IsTerminal \/ outcome = "timeout"

\* A deadlock verdict has a pending node that stands on a node that will never
\* succeed, as a patch can ask for.
DeadlockForCause ==
    [][Deadlock => \E e \in Required(edges) :
          status[e.dst] = "pending" /\ status[e.src] \in {"failed", "skipped"}]_vars

LEMMA GraphInvInit == Init => GraphInv
<1> SUFFICES ASSUME NEW g \in InitialGraphs, edges = g.edges,
                    status = [n \in Nodes |-> IF n \in g.nodes THEN "pending" ELSE "absent"]
             PROVE  GraphInv
  BY DEF Init
<1>1. g.nodes \subseteq Nodes /\ \A e \in g.edges : {e.src, e.dst} \subseteq g.nodes
  BY GraphsAssumption, GraphEdgesAssumption DEF Graph
<1>2. Acyclic(edges)
  BY AcyclicAssumption
<1> QED BY <1>1, <1>2 DEF GraphInv, Present

(***************************************************************************)
(* Only a patch changes the edges, and no step makes a node absent.        *)
(***************************************************************************)
LEMMA NothingRemoved ==
    ASSUME EngineInv, [Next]_vars, ~(\E p \in Patches : ApplyPatch(p))
    PROVE  edges' = edges /\ Present \subseteq Present'
<1> USE DEF EngineInv, Present
<1>1. CASE StopPlanning \/ LoopEnds \/ TimeLimitExceeded \/ Deadlock \/ Schedule
               \/ GatherRaises
  BY <1>1 DEF StopPlanning, LoopEnds, TimeLimitExceeded, Deadlock, Schedule, GatherRaises
<1>2. CASE NothingReady \/ GatherReturns
  BY <1>2, PropagatedShape DEF NothingReady, GatherReturns
<1>3. CASE StartBatch
  BY <1>3 DEF StartBatch
<1>4. CASE \E m \in Nodes : RunNode(m)
  <2>1. PICK m \in Nodes : RunNode(m)
    BY <1>4
  <2> QED BY <2>1, RunNodeShape
<1>5. CASE UNCHANGED vars
  BY <1>5 DEF vars
<1> QED BY <1>1, <1>2, <1>3, <1>4, <1>5 DEF Next, Engine

LEMMA GraphInvStep == EngineInv /\ GraphInv /\ [Next]_vars => GraphInv'
<1> SUFFICES ASSUME EngineInv, GraphInv, [Next]_vars PROVE GraphInv'
  OBVIOUS
<1>1. ASSUME NEW p \in Patches, ApplyPatch(p) PROVE GraphInv'
  <2>1. /\ status' = [n \in Nodes |-> IF n \in p.nodes THEN "pending" ELSE status[n]]
        /\ edges' = edges \cup p.edges
        /\ Acyclic(edges \cup p.edges)
        /\ \A e \in p.edges : {e.src, e.dst} \subseteq Present \cup p.nodes
        /\ p.nodes \subseteq Nodes
    BY <1>1, GraphsAssumption DEF ApplyPatch, Graph
  <2>2. Present' = Present \cup p.nodes
    BY <2>1 DEF Present
  <2>3. \A e \in edges' : {e.src, e.dst} \subseteq Present'
    BY <2>1, <2>2 DEF GraphInv
  <2>4. Acyclic(edges')
    BY <2>1
  <2> QED BY <2>3, <2>4 DEF GraphInv
<1>2. CASE ~(\E p \in Patches : ApplyPatch(p))
  <2>1. edges' = edges /\ Present \subseteq Present'
    BY <1>2, NothingRemoved
  <2> QED BY <2>1 DEF GraphInv
<1> QED BY <1>1, <1>2

\* Edges stay acyclic and between nodes of the graph, whatever is added.
THEOREM GraphInvariant == Spec => [](EngineInv /\ GraphInv)
<1>1. Spec => []GraphInv
  <2>1. Spec => [][Next]_vars
    BY DEF Spec
  <2>2. Spec => Init
    BY DEF Spec
  <2> QED BY <2>1, <2>2, GraphInvInit, GraphInvStep, EngineInvariant, PTL
<1> QED BY <1>1, EngineInvariant, PTL

(***************************************************************************)
(* When pending nodes are left, none of them ready and none running, one   *)
(* of them has no pending source, and so one that failed or was skipped.   *)
(***************************************************************************)
LEMMA TopmostIsBlocked ==
    ASSUME TypeOK, GraphInv, ReadyNodes = {}, InStatus("pending") # {},
           InStatus("running") = {}
    PROVE  \E e \in Required(edges) :
               status[e.dst] = "pending" /\ status[e.src] \in {"failed", "skipped"}
<1> DEFINE S == InStatus("pending")
<1>1. S \in (SUBSET Nodes) \ {{}}
  BY DEF InStatus
<1>2. PICK n \in S : \A e \in edges : e.dst = n => e.src \notin S
  BY <1>1 DEF GraphInv, Acyclic
<1>3. ~DependenciesSatisfied(n)
  BY <1>2 DEF ReadyNodes
<1>4. PICK e \in Required(edges) : e.dst = n /\ status[e.src] # "success"
  BY <1>3 DEF DependenciesSatisfied
<1>5. e \in edges /\ e.src \in Nodes /\ status[e.src] # "absent"
  BY <1>4 DEF Required, GraphInv, Present
<1>6. status[e.src] # "pending" /\ status[e.src] # "running"
  BY <1>2, <1>4, <1>5 DEF InStatus
<1>7. status[e.src] \in {"failed", "skipped"}
  BY <1>4, <1>5, <1>6 DEF TypeOK, NodeStatus
<1> QED BY <1>2, <1>4, <1>7 DEF InStatus

(***************************************************************************)
(* The scheduler never takes a graph that could still move for a deadlock. *)
(***************************************************************************)
THEOREM DeadlocksHaveCause == Spec => DeadlockForCause
<1> DEFINE A == Deadlock => \E e \in Required(edges) :
                  status[e.dst] = "pending" /\ status[e.src] \in {"failed", "skipped"}
<1>1. EngineInv /\ GraphInv => A
  BY TopmostIsBlocked DEF EngineInv, Deadlock
<1>2. Spec => [][A]_vars
  BY <1>1, GraphInvariant, PTL
<1> QED BY <1>2 DEF DeadlockForCause

(***************************************************************************)
(* A propagation settles what is below a failed or skipped node.           *)
(***************************************************************************)
LEMMA PropagatedCascades ==
    ASSUME TypeOK, GraphInv, SourcesInv,
           \A e \in Required(edges) : status[e.src] = "skipped" => status[e.dst] \in Terminal,
           NEW e \in Required(edges), Propagated[e.src] \in {"failed", "skipped"}
    PROVE  Propagated[e.dst] \in Terminal
<1>1. /\ e.src \in Nodes /\ e.dst \in Nodes
      /\ e.dst \in Present
  BY DEF Required, GraphInv, Present
<1>2. status[e.src] = "failed" \/ e.src \in Skipped \/ status[e.src] = "skipped"
  BY <1>1 DEF Propagated
<1>3. status[e.dst] \in Terminal \/ e.dst \in Skipped
  BY <1>1, <1>2, SkippedClosed DEF SkipClosed
<1> QED BY <1>1, <1>3 DEF Propagated, Terminal

LEMMA CascadeStep ==
    ASSUME Incremental = FALSE, Escapes = {},
           EngineInv, GraphInv, CascadeInv, EndsSettled, [Next]_vars
    PROVE  CascadeInv' /\ EndsSettled'
<1>1. \A e \in Required(edges) :
          e \in edges /\ e.src \in Nodes /\ e.dst \in Nodes
  BY DEF Required, EngineInv, TypeOK, Edge
<1>2. ASSUME NEW p \in Patches, ApplyPatch(p) PROVE FALSE
  BY <1>2 DEF ApplyPatch, CascadeInv
<1>3. CASE StopPlanning
  BY <1>3 DEF StopPlanning, CascadeInv
<1>4. CASE LoopEnds \/ TimeLimitExceeded
  BY <1>4 DEF LoopEnds, TimeLimitExceeded, Return, CascadeInv, EndsSettled,
              IsTerminal, Present, Required
<1>5. CASE Deadlock
  BY <1>5, TopmostIsBlocked DEF EngineInv, Deadlock, CascadeInv, Terminal
<1>6. CASE NothingReady
  BY <1>6 DEF NothingReady, EngineInv, AwaitedInv, BatchInv, InStatus
<1>7. CASE Schedule
  BY <1>7 DEF Schedule, CascadeInv, EndsSettled, Required
<1>8. CASE StartBatch
  <2>1. /\ pc' = "running" /\ edges' = edges
        /\ \A n \in Nodes : \/ status'[n] = status[n]
                            \/ status[n] = "pending" /\ status'[n] = "running"
    <3>1. \A n \in batch : status[n] = "pending"
      BY <1>8 DEF StartBatch, EngineInv, BatchInv
    <3>2. PICK esc \in SUBSET (batch \cap Escapes) :
            status' = [n \in Nodes |->
                         IF n \in batch \ esc THEN "running" ELSE status[n]]
      BY <1>8 DEF StartBatch
    <3>3. pc' = "running" /\ edges' = edges
      BY <1>8 DEF StartBatch
    <3> QED BY <3>1, <3>2, <3>3
  <2>2. \A e \in Required(edges) : status'[e.src] = "skipped" => status'[e.dst] \in Terminal
    BY <1>1, <2>1 DEF CascadeInv, Terminal
  <2> QED BY <2>1, <2>2 DEF CascadeInv, EndsSettled, Required
<1>9. CASE GatherReturns
  <2>1. pc' = "loop" /\ edges' = edges /\ status' = Propagated
    BY <1>9 DEF GatherReturns
  <2>2. \A e \in Required(edges) : status'[e.src] \in {"failed", "skipped"}
                                   => status'[e.dst] \in Terminal
    BY <2>1, PropagatedCascades DEF EngineInv, CascadeInv
  <2> QED BY <2>1, <2>2 DEF CascadeInv, EndsSettled, Required
<1>10. CASE GatherRaises
  BY <1>10 DEF GatherRaises, SomeEscaped, EngineInv, TypeOK, PhaseInv
<1>11. ASSUME NEW n \in Nodes, RunNode(n) PROVE CascadeInv' /\ EndsSettled'
  <2>1. /\ pc \notin {"loop", "done"} /\ UNCHANGED <<pc, edges>>
        /\ \A m \in Nodes : \/ status'[m] = status[m]
                            \/ status[m] = "running" /\ status'[m] \in {"success", "failed"}
    <3>1. /\ runner[n] \in {"running", "post", "backoff"}
          /\ UNCHANGED <<pc, edges, batch>>
          /\ \A m \in Nodes \ {n} : status'[m] = status[m]
          /\ \/ status'[n] = status[n]
             \/ status[n] = "running" /\ status'[n] \in {"success", "failed"}
      BY <1>11, RunNodeShape
    <3>2. n \in batch
      BY <1>11, <3>1 DEF EngineInv, AwaitedInv
    <3>3. pc \notin {"loop", "done"}
      BY <3>2 DEF EngineInv, BatchInv
    <3> QED BY <3>1, <3>3
  <2>2. \A e \in Required(edges) : status'[e.src] = "skipped" => status'[e.dst] \in Terminal
    BY <1>1, <2>1 DEF CascadeInv, Terminal
  <2> QED BY <2>1, <2>2 DEF CascadeInv, EndsSettled, Required
<1>12. CASE UNCHANGED vars
  BY <1>12 DEF vars, CascadeInv, EndsSettled, IsTerminal, Present, Required
<1> QED BY <1>2, <1>3, <1>4, <1>5, <1>6, <1>7, <1>8, <1>9, <1>10, <1>11, <1>12
        DEF Next, Engine

(***************************************************************************)
(* A complete run ends with every node settled, or on its time limit: the  *)
(* propagation leaves no node waiting for what can no longer succeed.      *)
(***************************************************************************)
THEOREM CompleteRunsSettle ==
    ASSUME Incremental = FALSE, Escapes = {} PROVE Spec => []EndsSettled
<1>1. Init => CascadeInv /\ EndsSettled
  <2> SUFFICES ASSUME Init PROVE CascadeInv /\ EndsSettled
    OBVIOUS
  <2>1. pc = "loop" /\ \A n \in Nodes : status[n] \in {"pending", "absent"}
    BY DEF Init
  <2>2. \A e \in Required(edges) : e.src \in Nodes
    BY GraphsAssumption DEF Init, Required, Graph, Edge
  <2> QED BY <2>1, <2>2 DEF CascadeInv, EndsSettled
<1>2. Spec => Init /\ [][Next]_vars
  BY DEF Spec
<1>3. Spec => [](CascadeInv /\ EndsSettled)
  BY <1>1, <1>2, CascadeStep, GraphInvariant, PTL
<1> QED BY <1>3, PTL

-----------------------------------------------------------------------------
(***************************************************************************)
(* The other half of RunSettles and CycleReturns that needs no fairness:   *)
(* a run cannot go on for ever.                                            *)
(***************************************************************************)

\* How far a node has come: its status, and the attempts of its coroutine.
NodeRank(n) ==
    CASE status[n] = "absent" -> 0
      [] status[n] = "pending" -> IF runner[n] = "queued" THEN 2 ELSE 1
      [] status[n] = "running" -> 2 * retries[n] + (IF runner[n] = "backoff" THEN 2 ELSE 3)
      [] OTHER -> 2 * MaxRetries + (CASE runner[n] = "post" -> 4
                                      [] runner[n] = "finished" -> 5
                                      [] OTHER -> 6)
PcRank == CASE pc = "done" -> 2 [] pc = "plan" -> 1 [] OTHER -> 0

\* Every step calls the planner once more, or takes nothing back and one of the
\* nodes or the loop itself further.
Advances ==
    \/ plans' > plans
    \/ /\ plans' = plans
       /\ \A n \in Nodes : NodeRank(n)' >= NodeRank(n)
       /\ PcRank' >= PcRank
       /\ (\E n \in Nodes : NodeRank(n)' > NodeRank(n)) \/ PcRank' > PcRank

BatchNonEmpty == pc \in {"queued", "running"} => batch # {}

LEMMA ScheduleNonEmpty ==
    ASSUME ReadyNodes # {}, NEW S, IsSchedule(S) PROVE S # {}
BY FS_EmptySet, BoundsAssumption DEF IsSchedule

LEMMA BatchNonEmptyStep ==
    EngineInv /\ BatchNonEmpty /\ [Next]_vars => BatchNonEmpty'
<1> SUFFICES ASSUME EngineInv, BatchNonEmpty, [Next]_vars PROVE BatchNonEmpty'
  OBVIOUS
<1>1. CASE Schedule
  BY <1>1, ScheduleNonEmpty DEF Schedule, BatchNonEmpty
<1>2. CASE (\E p \in Patches : ApplyPatch(p)) \/ StopPlanning \/ LoopEnds
             \/ TimeLimitExceeded \/ Deadlock \/ NothingReady \/ StartBatch
             \/ GatherReturns \/ GatherRaises \/ UNCHANGED vars
  BY <1>2 DEF ApplyPatch, StopPlanning, LoopEnds, TimeLimitExceeded, Deadlock,
              NothingReady, StartBatch, GatherReturns, GatherRaises, Return,
              BatchNonEmpty, vars
<1>3. ASSUME NEW n \in Nodes, RunNode(n) PROVE BatchNonEmpty'
  BY <1>3, RunNodeShape DEF BatchNonEmpty
<1> QED BY <1>1, <1>2, <1>3 DEF Next, Engine

LEMMA RankType == TypeOK => \A n \in Nodes : NodeRank(n) \in Int
<1> SUFFICES ASSUME TypeOK, NEW n \in Nodes PROVE NodeRank(n) \in Int
  OBVIOUS
<1>1. retries[n] \in Int /\ MaxRetries \in Int
  BY BoundsAssumption DEF TypeOK
<1>2. CASE status[n] \in {"absent", "pending"}
  BY <1>2 DEF NodeRank
<1>3. CASE status[n] = "running"
  BY <1>1, <1>3 DEF NodeRank
<1>4. CASE status[n] \notin {"absent", "pending", "running"}
  BY <1>1, <1>4 DEF NodeRank
<1> QED BY <1>2, <1>3, <1>4

LEMMA RanksAreNumbers ==
    ASSUME EngineInv, [Next]_vars
    PROVE  \A n \in Nodes : NodeRank(n) \in Int /\ NodeRank(n)' \in Int
<1>1. TypeOK /\ TypeOK'
  BY TypeStep DEF EngineInv
<1>2. TypeOK' => (\A n \in Nodes : NodeRank(n) \in Int)'
  BY RankType, PTL
<1> QED BY <1>1, <1>2, RankType

(***************************************************************************)
(* A slice of a coroutine takes its own node further and leaves the others.*)
(***************************************************************************)
LEMMA RunNodeAdvances ==
    ASSUME EngineInv, NEW n \in Nodes, RunNode(n)
    PROVE  Advances
<1> USE BoundsAssumption DEF EngineInv, TypeOK, PhaseInv
<1>0. plans' = plans /\ plans \in Nat /\ pc' = pc /\ PcRank \in Int
  BY DEF PcRank, RunNode, SkillSucceeds, PostProcessed, SkillFails, HandleError,
         ScheduleRetry, GiveUp, Retry
<1>1. \A m \in Nodes : retries[m] \in 0..MaxRetries
  OBVIOUS
<1>2. \A m \in Nodes \ {n} : NodeRank(m)' = NodeRank(m)
  <2>1. \A m \in Nodes \ {n} : retries'[m] = retries[m]
    BY DEF RunNode, SkillSucceeds, PostProcessed, SkillFails, HandleError,
           ScheduleRetry, GiveUp, Retry
  <2>2. \A m \in Nodes \ {n} : status'[m] = status[m] /\ runner'[m] = runner[m]
    BY RunNodeShape
  <2> QED BY <2>1, <2>2 DEF NodeRank
<1>3. NodeRank(n)' > NodeRank(n)
  <2>1. CASE SkillSucceeds(n)
    <3>1. /\ status[n] = "running" /\ runner[n] = "running"
          /\ status'[n] = "success" /\ runner'[n] = "post"
      BY <2>1 DEF SkillSucceeds
    <3> QED BY <3>1, <1>1 DEF NodeRank
  <2>2. CASE PostProcessed(n)
    <3>1. /\ status[n] = "success" /\ runner[n] = "post"
          /\ status'[n] = "success" /\ runner'[n] \in {"finished", "none"}
      BY <2>2 DEF PostProcessed, Ended
    <3> QED BY <3>1 DEF NodeRank
  <2>3. CASE runner[n] = "running" /\ ScheduleRetry(n)
    <3>1. /\ status[n] = "running" /\ runner[n] = "running"
          /\ status'[n] = "running" /\ runner'[n] = "backoff"
          /\ retries'[n] = retries[n] + 1
      BY <2>3 DEF ScheduleRetry
    <3> QED BY <3>1, <1>1 DEF NodeRank
  <2>4. CASE runner[n] = "running" /\ GiveUp(n)
    <3>1. /\ status[n] = "running" /\ runner[n] = "running"
          /\ status'[n] = "failed" /\ runner'[n] \in {"finished", "none"}
      BY <2>4 DEF GiveUp, Ended
    <3> QED BY <3>1, <1>1 DEF NodeRank
  <2>5. CASE Retry(n)
    <3>1. /\ status[n] = "running" /\ runner[n] = "backoff"
          /\ status'[n] = "running" /\ runner'[n] = "running"
          /\ retries'[n] = retries[n]
      BY <2>5 DEF Retry
    <3> QED BY <3>1, <1>1 DEF NodeRank
  <2> QED BY <2>1, <2>2, <2>3, <2>4, <2>5 DEF RunNode, SkillFails, HandleError
<1>4. \A m \in Nodes : NodeRank(m) \in Int /\ NodeRank(m)' \in Int
  BY RanksAreNumbers DEF Next
<1>5. PcRank' = PcRank
  BY <1>0 DEF PcRank
<1> QED BY <1>0, <1>2, <1>3, <1>4, <1>5 DEF Advances

LEMMA StepAdvances ==
    ASSUME Escapes = {}, EngineInv, BatchNonEmpty, Next
    PROVE  Advances
<1> USE BoundsAssumption DEF EngineInv, TypeOK
<1>1. /\ plans \in Nat
      /\ \A n \in Nodes : retries[n] \in 0..MaxRetries
      /\ PcRank \in Int /\ PcRank' \in Int
      /\ \A n \in Nodes : NodeRank(n) \in Int /\ NodeRank(n)' \in Int
  BY RanksAreNumbers DEF PcRank
<1>2. ASSUME NEW p \in Patches, ApplyPatch(p) PROVE Advances
  BY <1>1, <1>2 DEF ApplyPatch, Advances
<1>3. CASE StopPlanning
  <2>1. \A n \in Nodes : NodeRank(n)' = NodeRank(n)
    BY <1>3 DEF StopPlanning, NodeRank
  <2>2. PcRank' > PcRank
    BY <1>3 DEF StopPlanning, PcRank
  <2> QED BY <1>1, <1>3, <2>1, <2>2 DEF StopPlanning, Advances
<1>4. CASE LoopEnds \/ TimeLimitExceeded \/ Deadlock
  <2>1. \A n \in Nodes : NodeRank(n)' = NodeRank(n)
    BY <1>4 DEF LoopEnds, TimeLimitExceeded, Deadlock, NodeRank
  <2>2. PcRank' > PcRank
    BY <1>4 DEF LoopEnds, TimeLimitExceeded, Deadlock, Return, PcRank
  <2>3. plans' = plans
    BY <1>4 DEF LoopEnds, TimeLimitExceeded, Deadlock
  <2> QED BY <1>1, <2>1, <2>2, <2>3 DEF Advances
<1>5. CASE NothingReady
  BY <1>5 DEF NothingReady, AwaitedInv, BatchInv, InStatus
<1>6. CASE Schedule
  <2>1. PICK S \in SUBSET ReadyNodes :
             /\ IsSchedule(S)
             /\ runner' = [n \in Nodes |-> IF n \in S THEN "queued" ELSE runner[n]]
    BY <1>6 DEF Schedule
  <2>2. /\ pc = "loop" /\ ReadyNodes # {}
        /\ UNCHANGED <<status, retries, plans>>
    BY <1>6 DEF Schedule
  <2>3. PICK k \in S : TRUE
    BY <2>1, <2>2, ScheduleNonEmpty
  <2>4. \A n \in Nodes : runner[n] = "none"
    BY <2>2 DEF AwaitedInv, BatchInv
  <2>5. \A n \in S : n \in Nodes /\ status[n] = "pending"
    BY DEF ReadyNodes, InStatus
  <2>6. \A n \in Nodes : NodeRank(n)' = IF n \in S THEN 2 ELSE NodeRank(n)
    BY <2>1, <2>2, <2>5 DEF NodeRank
  <2>7. \A n \in S : NodeRank(n) = 1
    BY <2>4, <2>5 DEF NodeRank
  <2>8. PcRank' = PcRank
    BY <1>6 DEF Schedule, PcRank
  <2> QED BY <1>1, <2>2, <2>3, <2>5, <2>6, <2>7, <2>8 DEF Advances
<1>7. CASE StartBatch
  <2>1. /\ runner' = [n \in Nodes |-> IF n \in batch THEN "running" ELSE runner[n]]
        /\ status' = [n \in Nodes |-> IF n \in batch THEN "running" ELSE status[n]]
        /\ pc = "queued" /\ UNCHANGED <<retries, plans>>
    BY <1>7 DEF StartBatch
  <2>2. \A n \in batch : n \in Nodes /\ status[n] = "pending" /\ runner[n] = "queued"
    BY <2>1 DEF BatchInv
  <2>3. PICK k \in batch : TRUE
    BY <2>1 DEF BatchNonEmpty
  <2>4. \A n \in batch : NodeRank(n) = 2 /\ NodeRank(n)' > 2
    BY <1>1, <2>1, <2>2 DEF NodeRank
  <2>5. \A n \in Nodes \ batch : NodeRank(n)' = NodeRank(n)
    BY <2>1 DEF NodeRank
  <2>6. PcRank' = PcRank
    BY <1>7 DEF StartBatch, PcRank
  <2> QED BY <1>1, <2>1, <2>2, <2>3, <2>4, <2>5, <2>6 DEF Advances
<1>8. CASE GatherReturns
  <2>1. /\ \A n \in Nodes : \/ status'[n] = status[n]
                            \/ status[n] = "pending" /\ status'[n] = "skipped"
        /\ runner' = [n \in Nodes |-> IF n \in batch THEN "none" ELSE runner[n]]
        /\ \A n \in batch : runner[n] = "finished"
        /\ pc = "running" /\ UNCHANGED <<retries, plans>>
    BY <1>8, PropagatedShape DEF GatherReturns, AllFinished
  <2>2. PICK k \in batch : TRUE
    BY <2>1 DEF BatchNonEmpty
  <2>3. \A n \in batch : n \in Nodes /\ status[n] \in {"success", "failed"}
    BY <2>1 DEF PhaseInv
  <2>4. \A n \in batch : NodeRank(n)' > NodeRank(n)
    BY <1>1, <2>1, <2>3 DEF NodeRank
  <2>5. \A n \in Nodes \ batch : NodeRank(n)' >= NodeRank(n)
    <3> SUFFICES ASSUME NEW n \in Nodes \ batch PROVE NodeRank(n)' >= NodeRank(n)
      OBVIOUS
    <3>1. runner[n] = "none" /\ runner'[n] = "none"
      BY <2>1 DEF AwaitedInv
    <3>2. CASE status'[n] = status[n]
      BY <1>1, <2>1, <3>1, <3>2 DEF NodeRank
    <3>3. CASE status[n] = "pending" /\ status'[n] = "skipped"
      BY <1>1, <3>1, <3>3 DEF NodeRank
    <3> QED BY <2>1, <3>2, <3>3
  <2>6. PcRank' >= PcRank
    BY <1>8 DEF GatherReturns, PcRank
  <2> QED BY <1>1, <2>1, <2>2, <2>3, <2>4, <2>5, <2>6 DEF Advances
<1>9. CASE GatherRaises
  BY <1>9 DEF GatherRaises, SomeEscaped, PhaseInv
<1>10. ASSUME NEW n \in Nodes, RunNode(n) PROVE Advances
  BY <1>10, RunNodeAdvances
<1> QED BY <1>2, <1>3, <1>4, <1>5, <1>6, <1>7, <1>8, <1>9, <1>10 DEF Next, Engine

(***************************************************************************)
(* A run of n nodes takes at most n * (6 + 2 * MaxRetries) + 2 steps for   *)
(* each planner call: no sequence of failures, retries and propagations    *)
(* keeps it going, so what is left to fairness is that some step is taken. *)
(***************************************************************************)
THEOREM RunAdvances == ASSUME Escapes = {} PROVE Spec => [][Advances]_vars
<1>1. Init => BatchNonEmpty
  BY DEF Init, BatchNonEmpty
<1>2. Spec => Init /\ [][Next]_vars
  BY DEF Spec
<1>3. Spec => []BatchNonEmpty
  BY <1>1, <1>2, BatchNonEmptyStep, EngineInvariant, PTL
<1>4. EngineInv /\ BatchNonEmpty /\ [Next]_vars => [Advances]_vars
  BY StepAdvances
<1> QED BY <1>2, <1>3, <1>4, EngineInvariant, PTL
=============================================================================
