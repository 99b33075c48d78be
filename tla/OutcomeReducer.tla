---------------------------- MODULE OutcomeReducer ----------------------------
(***************************************************************************)
(* OutcomeReducer: terminal outcome of a plan, and of one ReAct loop, from *)
(* what happened.  Its callers pass a gate signal only for a verified      *)
(* pass, never deliverables with a plan; the branches for the other        *)
(* signals have no caller.                                                 *)
(***************************************************************************)
Outcome == {"completed", "degraded", "failed"}

\* Mutation of ReduceWithPlan: forgets degraded units.
ReduceByFailures(status) ==
    LET With(kinds) == {u \in DOMAIN status : status[u] \in kinds}
    IN  IF With({"completed", "degraded"}) = {} THEN "failed"
        ELSE IF With({"failed"}) = {} THEN "completed"
        ELSE "degraded"

\* status: the status of every unit of a plan.
ReduceWithPlan(status) ==
    LET With(kinds) == {u \in DOMAIN status : status[u] \in kinds}
        All == DOMAIN status
    IN  IF With({"failed", "blocked"}) = All \/ With({"completed", "degraded"}) = {}
            THEN "failed"
        ELSE IF With({"completed"}) = All \/ With({"degraded", "failed"}) = {}
            THEN "completed"
        ELSE "degraded"

\* Mutation of ReduceSimple: an empty graph is not looked at first.
ReduceEmptyGraph(g, deliverables, verified) ==
    IF \/ ~g.succeeded /\ deliverables = "unmet"
       \/ ~g.succeeded /\ deliverables = "none" /\ (g.failed \/ ~verified)
        THEN "failed"
    ELSE IF deliverables = "unmet" \/ g.failed
        THEN "degraded"
    ELSE "completed"

\* g: [total, succeeded, failed] of the graph, the last two as "any?";
\* deliverables: "none" asked for, "met" or "unmet"; verified: the gate passed.
ReduceSimple(g, deliverables, verified) ==
    IF \/ ~g.total
       \/ ~g.succeeded /\ deliverables = "unmet"
       \/ ~g.succeeded /\ deliverables = "none" /\ (g.failed \/ ~verified)
        THEN "failed"
    ELSE IF deliverables = "unmet" \/ g.failed
        THEN "degraded"
    ELSE "completed"
=============================================================================
