---------------------------- MODULE MCPlanCache ----------------------------
\* PlanCache with three plans of two tenants, two of them larger than the cache
EXTENDS PlanCache

CONSTANTS large, small, foreign, t1, t2

MCTenantOf == [h \in Hashes |-> IF h = foreign THEN t2 ELSE t1]
MCSizeOf == [h \in Hashes |-> IF h = small THEN 1 ELSE 2]
=============================================================================
