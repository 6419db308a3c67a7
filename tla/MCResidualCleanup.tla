------------------------- MODULE MCResidualCleanup -------------------------
\* A planned root d, and r: an object the plan expects to go with it, or another
\* residual of the operator.
EXTENDS ResidualCleanup

CONSTANTS d, r

MCPlanOrder == <<d, r>>
=============================================================================
