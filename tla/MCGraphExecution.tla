-------------------------- MODULE MCGraphExecution --------------------------
EXTENDS GraphExecution

CONSTANTS a, b, c, d

Req(x, y) == [src |-> x, dst |-> y, optional |-> FALSE]
Opt(x, y) == [src |-> x, dst |-> y, optional |-> TRUE]

\* Node d outranks the others, which tie.
MCPriority == [n \in Nodes |-> IF n = d THEN 1 ELSE 0]

\* Every graph whose edges are some of the diamond's, each required or
\* optional: chains, forks, joins and isolated nodes among them.
Diamond == {<<a, b>>, <<a, c>>, <<b, d>>, <<c, d>>}
MCGraphs ==
    { [nodes |-> Nodes,
       edges |-> {Req(p[1], p[2]) : p \in {q \in Diamond : k[q] = "required"}}
                 \cup {Opt(p[1], p[2]) : p \in {q \in Diamond : k[q] = "optional"}}]
      : k \in [Diamond -> {"none", "required", "optional"}] }

EmptyGraph == { [nodes |-> {}, edges |-> {}] }

AddPatch(N, E) == [nodes |-> N, edges |-> E]

\* What the ReAct planner adds: one step that refers to the outputs of any
\* steps before it in the alphabet, whatever became of them.
Before(n) == CASE n = a -> {} [] n = b -> {a} [] n = c -> {a, b} [] n = d -> {a, b, c}
MCPatches ==
    UNION { { AddPatch({n}, {Req(m, n) : m \in M}) : M \in SUBSET Before(n) } : n \in Nodes }

NoPatches == {}
=============================================================================
