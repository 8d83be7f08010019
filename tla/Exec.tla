--------------------------------- MODULE Exec ---------------------------------
(****************************************************************************)
(* exec_program of core/kernel/process.c: load_elf_from_file of             *)
(* core/loader/elf_loader.c and create_process, one step for each thing     *)
(* that may fail, over the process table and the heap of Process and the    *)
(* frames of Loader.  Nothing else runs between the steps.                  *)
(*                                                                          *)
(* A program is what its path leads to.  What the open and the close do to  *)
(* the descriptors is in Vfs.                                               *)
(****************************************************************************)
EXTENDS Process

CONSTANTS Programs,    \* [opens, empty, valid : BOOLEAN, pages : Nat]
          FreeFrames   \* frames there are before the first program

ASSUME ExecAssumption ==
  /\ Programs \subseteq [opens : BOOLEAN, empty : BOOLEAN, valid : BOOLEAN,
                         pages : Nat]
  /\ FreeFrames \in Nat

VARIABLES call,        \* where exec_program is: "none", "opened", "read", "load"
                       \* or "create"
          program,     \* the program it is at
          buffer,      \* the block of 1 MB, or NULL
          free, left, result,    \* those of Loader
          had          \* history: the frames that were free at its call

NoProgram == [opens |-> FALSE, empty |-> TRUE, valid |-> FALSE, pages |-> 0]

L == INSTANCE Loader

local == <<call, program, buffer, had>>
xvars == <<pvars, local, free, left, result>>

XInit == /\ PInit
         /\ call = "none" /\ program = NoProgram /\ buffer = NULL /\ had = 0
         /\ free = FreeFrames /\ L!Init

Returns == call' = "none" /\ program' = NoProgram /\ had' = 0

------------------------------------------------------------------------------
(* vfs_open finds the file and a descriptor, or exec_program returns -2.    *)
ExecProgram(f) ==
  /\ call = "none" /\ next_pid =< MaxPid
  /\ f.opens
  /\ call' = "opened" /\ program' = f /\ had' = free
  /\ UNCHANGED <<pvars, buffer, free, left, result>>

ExecNotFound(f) == call = "none" /\ ~f.opens /\ UNCHANGED xvars

(* kmalloc of the buffer, which may fail: -3.                               *)
BufferAllocated(k) ==
  /\ call = "opened"
  /\ k \notin allocated
  /\ allocated' = allocated \cup {k}
  /\ buffer' = k
  /\ call' = "read"
  /\ UNCHANGED <<tvars, ptable, held, program, had, free, left, result>>

BufferFails == /\ call = "opened" /\ Returns
               /\ UNCHANGED <<pvars, buffer, free, left, result>>

\* Mutant: the buffer is kept for the next program.
BufferFreed_Kept == UNCHANGED allocated /\ buffer' = NULL

(* kfree of the buffer.                                                     *)
BufferFreed == allocated' = allocated \ {buffer} /\ buffer' = NULL

(* No bytes were read, from an empty file or from "/": -4.                  *)
FileEmpty == /\ call = "read" /\ program.empty /\ Returns
             /\ BufferFreed
             /\ UNCHANGED <<tvars, ptable, held, free, left, result>>

(* load_elf takes frames, whatever validate_elf has let through.            *)
LoadElf == /\ call = "read" /\ ~program.empty
           /\ call' = "load"
           /\ IF program.valid THEN left' = program.pages /\ L!Start ELSE L!Refuse
           /\ UNCHANGED <<pvars, program, buffer, had>>

MapElfSegments == /\ call = "load"
                  /\ L!TakePage \/ L!TakeTable \/ L!Fail \/ L!Finish
                  /\ UNCHANGED <<pvars, local>>

\* Mutant: what load_elf returned is not looked at.
Loaded_Always == TRUE

Loaded == result = "loaded"

(* The buffer is given back, whatever came of the load.                     *)
LoadReturns ==
  /\ call = "load" /\ ~L!Loading
  /\ IF Loaded THEN call' = "create" /\ UNCHANGED <<program, had>> ELSE Returns
  /\ BufferFreed
  /\ UNCHANGED <<tvars, ptable, held, free>>
  /\ L!Others

(* create_process, which may fail half way.                                 *)
ProcessCreated == /\ call = "create" /\ Returns
                  /\ UserProcess
                  /\ UNCHANGED <<buffer, free, left, result>>

(* There is no slot, or the count says so: -1, and nothing is undone.       *)
ProcessRefused ==
  /\ call = "create" /\ Returns
  /\ proc_count >= MaxProcs \/ \A p \in Procs : Used(p)
  /\ UNCHANGED <<pvars, buffer, free, left, result>>

XNext == \/ \E f \in Programs : ExecProgram(f) \/ ExecNotFound(f)
         \/ \E k \in Ptrs : BufferAllocated(k)
         \/ BufferFails \/ FileEmpty
         \/ LoadElf \/ MapElfSegments \/ LoadReturns
         \/ ProcessCreated \/ ProcessRefused
         \/ call = "none" /\ Calls /\ UNCHANGED <<local, free, left, result>>

XSpec == XInit /\ [][XNext]_xvars

------------------------------------------------------------------------------
\* The fields have the values the code gives them; there is a buffer between its
\* kmalloc and its kfree and at no other time.
XTypeOK == /\ PTypeOK
           /\ call \in {"none", "opened", "read", "load", "create"}
           /\ program \in Programs \cup {NoProgram}
           /\ buffer \in Ptrs \cup {NULL}
           /\ buffer # NULL <=> call \in {"read", "load"}
           /\ {free, had} \subseteq 0 .. FreeFrames /\ left \in Nat
           /\ result \in {"idle", "loading", "loaded", "failed"}

(* The process table beside a heap without the buffer.                      *)
P == INSTANCE Process WITH allocated <- allocated \ {buffer}

\* BlocksOwned: MemoryOwned, at every step of exec_program too: its buffer is no
\* one else's, and is gone when it returns, by whichever of its seven ways.
BlocksOwned == P!MemoryOwned /\ buffer \notin ThreadStacks \cup UserStacksInUse \cup held

\* RefinesProcess: a program that cannot be opened, read, loaded or given a process
\* leaves the process table, the threads and the heap as they were, except for
\* the slot of a create_process that failed half way; what exec_program does else
\* is one create_process, and only for a valid file that took a frame for each
\* page.  So what holds of every step of Process holds around exec_program.
RefinesProcess ==
  /\ P!PSpec
  /\ [][call = "create" /\ next_pid' # next_pid =>
           program.valid /\ had - free >= program.pages]_xvars
==============================================================================
