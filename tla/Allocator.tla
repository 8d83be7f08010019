------------------------------ MODULE Allocator ------------------------------
(****************************************************************************)
(* What kmalloc and kfree promise their callers (core/kernel/memory.c): a   *)
(* pointer handed out stands for a number of bytes inside the heap, and     *)
(* those bytes belong to nobody else until the pointer is freed.  Nothing   *)
(* is said of blocks, headers or of when a request fails.                   *)
(****************************************************************************)
EXTENDS Integers

CONSTANTS Lo,      \* first address of the heap
          Hi,      \* first address after it
          Sizes    \* the numbers of bytes a pointer may stand for

VARIABLE granted   \* pointer handed out -> number of bytes it stands for

\* [p, p+n) and [q, q+m) have no byte in common.
Apart(p, n, q, m) == p + n =< q \/ q + m =< p

Init == granted = [p \in {} |-> 0]

(* A kmalloc that grants n bytes: any range that fits and touches no other. *)
Malloc(n) ==
  \E p \in Lo .. Hi :
    /\ p + n =< Hi
    /\ p \notin DOMAIN granted
    /\ \A q \in DOMAIN granted : Apart(p, n, q, granted[q])
    /\ granted' = [q \in DOMAIN granted \cup {p} |->
                     IF q = p THEN n ELSE granted[q]]

(* kfree(p) of a pointer that was handed out.                               *)
Free(p) == granted' = [q \in DOMAIN granted \ {p} |-> granted[q]]

Next == \/ \E n \in Sizes : Malloc(n)
        \/ \E p \in DOMAIN granted : Free(p)

Spec == Init /\ [][Next]_granted

------------------------------------------------------------------------------
\* No two grants overlap and none leaves the heap.
GrantsDisjoint ==
  /\ \A p \in DOMAIN granted : Lo =< p /\ p + granted[p] =< Hi
  /\ \A p, q \in DOMAIN granted :
       p # q => Apart(p, granted[p], q, granted[q])
==============================================================================
