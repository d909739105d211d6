--------------------------- MODULE MCHealthManager ---------------------------
\* Instances of HealthManager for TLC.
EXTENDS HealthManager
=============================================================================
