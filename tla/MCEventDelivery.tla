--------------------------- MODULE MCEventDelivery ---------------------------
\* Instances of EventDelivery for TLC.
EXTENDS EventDelivery

CONSTANTS e1, e2
=============================================================================
