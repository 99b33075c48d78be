-------------------------- MODULE MCReactController --------------------------
EXTENDS ReactController

CONSTANTS big, small, unit

\* The task "big" may be routed to a plan, whose units run as "unit".
MCUnitRun == [t \in {big} |-> unit]

MCIterations == [r \in Runs |-> IF r = small THEN 3 ELSE IF r = unit THEN 2 ELSE 1]
=============================================================================
