------------------------------- MODULE MCMemory -------------------------------
(* An instance of Memory for TLC: frames of 64 bytes, two of them reserved,  *)
(* and a heap that starts in the second, as the heap at 1 MB does in the     *)
(* first 2 MB.                                                               *)
EXTENDS Memory

\* A small block, and one of the size of the reserved part of the heap: the
\* buffer of load_elf_from_file.
MCSizes == {16, 64}

MCCallerPages == {0, 2}
MCFlagSets == {{"PRESENT", "WRITABLE"}}
===============================================================================
