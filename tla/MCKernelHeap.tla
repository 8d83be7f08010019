---------------------------- MODULE MCKernelHeap ----------------------------
(* Instances of KernelHeap for TLC: a heap of 112 bytes, which holds up to   *)
(* six blocks, in a machine with a word of 8 bits.                           *)
EXTENDS KernelHeap

\* No size, one byte, a block kmalloc can just not split, two common sizes (one
\* near half the heap), and one that wraps to 0 in ALIGN.
MCSizes == {0, 1, 16, 28, 60, 254}
=============================================================================
