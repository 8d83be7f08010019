-------------------------------- MODULE MCExec --------------------------------
(* Instances of Exec for TLC.                                                 *)
EXTENDS Exec, TLC

CONSTANTS k1, k2, k3     \* blocks of memory

\* Room for a program with both stacks beside a block, or the buffer of another and
\* one stack; blocks are only compared, so any permutation gives the same run.
MCPtrs == {k1, k2, k3}
Blocks == Permutations(MCPtrs)

MCDelays == {0}

Program(o, e, v, n) == [opens |-> o, empty |-> e, valid |-> v, pages |-> n]

\* One of each way to end, and an image that takes the last frames.
MCPrograms == {Program(FALSE, TRUE, FALSE, 0), Program(TRUE, TRUE, FALSE, 0),
               Program(TRUE, FALSE, FALSE, 0), Program(TRUE, FALSE, TRUE, 0),
               Program(TRUE, FALSE, TRUE, 2)}
==============================================================================
