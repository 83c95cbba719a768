---------------------------- MODULE MCSchedulerSnapshot ----------------------------
EXTENDS SchedulerSnapshot

CONSTANTS p1, r1, f1, a1, a2, g1
=============================================================================
