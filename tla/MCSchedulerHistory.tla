-------------------------- MODULE MCSchedulerHistory --------------------------
(* Instances of SchedulerHistory for TLC.                                    *)
EXTENDS SchedulerHistory

\* Stacks are interchangeable: one for each thread besides idle.
MCPtrs == {101, 102}

\* A sleep that is over at once, one tick, two ticks.
MCDelays == 0 .. 2
===============================================================================
