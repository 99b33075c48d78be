------------------------------- MODULE TaskPlan -------------------------------
(***************************************************************************)
(* The TaskExecutionPlan of a complex task: its units in order, the status *)
(* of each and of its one required output, and the operations the executor *)
(* calls.  GraphController hands the plan builder no LLM client, so every  *)
(* plan is the deterministic chain: a unit depends on the one before it    *)
(* and refers to its output, and its degradation policy is the default.    *)
(***************************************************************************)
EXTENDS Naturals

CONSTANT NumUnits   \* phase hints found in the intent, one unit each

ASSUME NumUnitsAssumption == NumUnits \in Nat \ {0}

Units == 1..NumUnits

UnitStatus == {"pending", "in_progress", "completed", "degraded", "failed", "blocked"}
OutputStatus == {"pending", "produced", "failed"}

DependsOn(u) == {d \in Units : d + 1 = u}

\* The units whose required output this one's input_refs name.
RefersTo(u) == DependsOn(u)

NewPlan == [unit    |-> [u \in Units |-> "pending"],
            output  |-> [u \in Units |-> "pending"],
            attempt |-> 0]

DepsDone(p, u) == \A d \in DependsOn(u) : p.unit[d] \in {"completed", "degraded"}

\* Mutation of RefMissing: looks for failed units, which DepsDone has excluded.
RefFailed(p, u) ==
    \E d \in RefersTo(u) : p.unit[d] = "failed" /\ p.output[d] = "failed"

\* A degraded upstream unit did not produce what this one refers to.
RefMissing(p, u) ==
    \E d \in RefersTo(u) : p.unit[d] = "degraded" /\ p.output[d] = "failed"

Executable(p) ==
    {u \in Units : p.unit[u] = "pending" /\ DepsDone(p, u) /\ ~RefMissing(p, u)}

\* get_next_unit returns the first executable unit ...
IsNext(p, u) == u \in Executable(p) /\ \A v \in Executable(p) : u <= v

\* ... and blocks, as it walks past them, units whose reference is missing.
BlockedBefore(p, last) ==
    [p EXCEPT !.unit = [u \in Units |->
        IF u < last /\ p.unit[u] = "pending" /\ DepsDone(p, u) /\ RefMissing(p, u)
            THEN "blocked" ELSE p.unit[u]]]

Begin(p, u) ==
    LET q == BlockedBefore(p, u)
    IN  [q EXCEPT !.unit[u] = "in_progress", !.attempt = 1]

\* mark_unit_completed: produced, or degraded when the output is missing.
MarkCompleted(p, u, produced) ==
    [p EXCEPT !.unit[u] = IF produced THEN "completed" ELSE "degraded",
              !.output[u] = IF produced THEN "produced" ELSE "failed",
              !.attempt = 0]

\* _propagate_failure blocks the pending units downstream, transitively.
Downstream(p, u) ==
    {v \in Units : u < v /\ \A w \in (u + 1)..v : p.unit[w] = "pending"}

MarkFailed(p, u) ==
    [unit    |-> [v \in Units |-> IF v = u THEN "failed"
                                  ELSE IF v \in Downstream(p, u) THEN "blocked"
                                  ELSE p.unit[v]],
     output  |-> [p.output EXCEPT ![u] = "failed"],
     attempt |-> 0]

Current(p) == {u \in Units : p.unit[u] = "in_progress"}
=============================================================================
