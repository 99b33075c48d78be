------------------------- MODULE MCSupervisorRuntime -------------------------
EXTENDS SupervisorRuntime

CONSTANTS a, b, c, researcher, writer

\* Two subtasks of one role and one of another.
MCRoleOf == [n \in Nodes |-> IF n = c THEN writer ELSE researcher]

\* A fork, a join and a chain.
MCPlans == {{<<a, b>>, <<a, c>>}, {<<a, c>>, <<b, c>>}, {<<a, b>>, <<b, c>>}}

\* The controller is new, or has run a subtask like c before.
MCCaches == {{}, {c}}

\* Two researchers fill the pool of two: reuse, spawning, and a denial by the
\* role's limit and by the pool's all happen.
MCRoleLimit == [r \in Roles |-> IF r = writer THEN 1 ELSE 2]
=============================================================================
