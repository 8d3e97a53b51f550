---------------------------- MODULE MCLifecycle ----------------------------
\* Lifecycle with two requests at once, few rows and crashes, for TLC. (No
\* symmetry of the requests: Settles is a liveness property.)
EXTENDS Lifecycle
=============================================================================
