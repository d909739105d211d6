--------------------------- MODULE MCPlanExecution ---------------------------
\* Instances of PlanExecution for TLC.
EXTENDS PlanExecution

CONSTANTS pay, again, gated

\* pay and again are two requests of the route with one key
MCKeyOf == [r \in Requests |-> IF r \in Gated THEN "g" ELSE "k"]
MCKeys == {"g", "k"}
=============================================================================
