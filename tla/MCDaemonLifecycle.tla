-------------------------- MODULE MCDaemonLifecycle --------------------------
EXTENDS DaemonLifecycle, TLC
=============================================================================
