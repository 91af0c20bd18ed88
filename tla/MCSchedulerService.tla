------------------------- MODULE MCSchedulerService -------------------------
EXTENDS SchedulerService

CONSTANTS g1, g2, p1

MCOneProject == [i \in Items |-> p1]
MCNoDependencies == [i \in Items |-> {}]
===============================================================================
