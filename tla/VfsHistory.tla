------------------------------ MODULE VfsHistory ------------------------------
(****************************************************************************)
(* Vfs with a record of the file each descriptor was opened for.  The       *)
(* record never restricts a step.                                           *)
(****************************************************************************)
EXTENDS Vfs

VARIABLE opened    \* descriptor -> inode of the file it was opened for

hvars == <<vars, opened>>

HInit == Init /\ opened = [d \in Fds |-> 0]

(* An open finds its file or makes it, and records which it was.            *)
HNext == /\ Next
         /\ opened' = [d \in Fds |-> IF ~in_use[d] /\ in_use'[d] THEN found'
                                     ELSE opened[d]]

HSpec == HInit /\ [][HNext]_hvars

------------------------------------------------------------------------------
\* DescriptorKeepsItsFile: "Lê dados de um arquivo aberto pelo descritor fd"
\* (src/core/include/vfs.h:119): a descriptor reaches the file it was opened for.
DescriptorKeepsItsFile ==
  \A d \in Fds : in_use[d] /\ node[d] = "file" => found = opened[d]
==============================================================================
