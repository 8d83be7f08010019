------------------------------- MODULE Process -------------------------------
(****************************************************************************)
(* The process table of core/kernel/process.c over the scheduler and the    *)
(* kernel heap, and the system calls of core/kernel/syscall.c that reach    *)
(* it: exit, sleep, malloc, free and the end of exec.  What exec does       *)
(* before that is in Exec.                                                  *)
(*                                                                          *)
(* create_process and terminate_process are whole here, with the threads    *)
(* and the memory they take and give back on every path.  A process has at  *)
(* most the one thread create_process made, so thread_ids is one id.        *)
(****************************************************************************)
EXTENDS Scheduler

CONSTANTS MaxProcs,    \* MAX_PROCESSES, 32 in the code
          MaxPid       \* bound: no process is created with a greater pid

ASSUME ProcessAssumption == MaxProcs \in Nat \ {0} /\ MaxPid \in Nat

VARIABLES pstate,      \* slot of proc_table -> is it used
          pid,         \* slot -> pid, kept when the slot is emptied
          parent_pid,
          thread,      \* slot -> id of the thread in thread_ids, or NoThread
          user_stack,  \* slot -> block of the user stack, or NULL
          proc_count,
          next_pid,
          held         \* the blocks programs got from sys_malloc

ptable == <<pstate, pid, parent_pid, thread, user_stack, proc_count, next_pid>>
pvars  == <<vars, ptable, held>>

Procs       == 0 .. MaxProcs - 1
CurrentProc == 0       \* current_proc points to slot 0 from init_processes on
NoThread    == 0       \* thread_count == 0; create_thread starts at id 1

Used(p) == pstate[p] # "EMPTY"

------------------------------------------------------------------------------
(* init_processes: the kernel, pid 0, without a thread of its own.          *)
PInit == /\ Init
         /\ pstate = [p \in Procs |-> IF p = 0 THEN "RUNNING" ELSE "EMPTY"]
         /\ pid = [p \in Procs |-> 0]
         /\ parent_pid = [p \in Procs |-> 0]
         /\ thread = [p \in Procs |-> NoThread]
         /\ user_stack = [p \in Procs |-> NULL]
         /\ proc_count = 1
         /\ next_pid = 1
         /\ held = {}

(* find_free_proc_slot: the first empty slot.                               *)
FreeProcSlot(p) == ~Used(p) /\ \A q \in Procs : q < p => Used(q)

(* The slot filled by create_process with user stack u and thread t.  The   *)
(* parent's pid is read after the new pid is written.                       *)
ProcessFilled(p, u, t) ==
  /\ next_pid =< MaxPid
  /\ proc_count < MaxProcs
  /\ FreeProcSlot(p)
  /\ pstate' = [pstate EXCEPT ![p] = "RUNNING"]
  /\ pid' = [pid EXCEPT ![p] = next_pid]
  /\ parent_pid' = [parent_pid EXCEPT ![p] = pid'[CurrentProc]]
  /\ user_stack' = [user_stack EXCEPT ![p] = u]
  /\ thread' = [thread EXCEPT ![p] = t]
  /\ next_pid' = next_pid + 1
  /\ UNCHANGED held

(* The user stacks create_process may get: none in kernel mode.             *)
UserStacks(priv) == IF priv = "USER" THEN Ptrs \ allocated ELSE {NULL}

(* create_process and its create_thread both succeed.                       *)
CreateProcess(priv, p) ==
  \E u \in UserStacks(priv) : \E k \in Ptrs \ (allocated \cup {u}) :
    /\ ProcessFilled(p, u, next_thread_id)
    /\ \E s \in Slots : ThreadAdded(s, k)
    /\ allocated' = (allocated \cup {u, k}) \ {NULL}
    /\ proc_count' = proc_count + 1

(* create_thread fails; the process is created all the same.                *)
CreateThreadless(priv, p) ==
  \E u \in UserStacks(priv) :
    /\ ProcessFilled(p, u, NoThread)
    /\ ThreadRefused
    /\ allocated' = (allocated \cup {u}) \ {NULL}
    /\ proc_count' = proc_count + 1

(* kmalloc of the user stack fails: -1 is returned from a filled slot.      *)
CreateUserStackFails(p) ==
  /\ ProcessFilled(p, NULL, NoThread)
  /\ UNCHANGED <<vars, proc_count>>

\* Mutant: the process is not taken off the count.
ProcCountLess_Kept == proc_count

\* Mutant: the count is not tested for zero.
ProcCountLess_NoTest == proc_count - 1

ProcCountLess == IF proc_count > 0 THEN proc_count - 1 ELSE 0

(* terminate_process for the process in slot p: its thread, its user stack, *)
(* and the slot, whose fields stay.                                         *)
ProcessRemoved(p) ==
  /\ IF \E s \in Slots : Holds(s, thread[p]) /\ thread[p] # NoThread
     THEN \E s \in Slots :
            /\ Holds(s, thread[p]) /\ \A r \in Slots : r < s => ~Holds(r, thread[p])
            /\ ThreadRemoved(s)
            /\ allocated' = allocated \ {stack[s], user_stack[p]}
     ELSE UNCHANGED tvars /\ allocated' = allocated \ {user_stack[p]}
  /\ pstate' = [pstate EXCEPT ![p] = "EMPTY"]
  /\ proc_count' = ProcCountLess
  /\ UNCHANGED <<pid, parent_pid, thread, user_stack, next_pid, held>>

TerminateProcess(i) ==
  \E p \in Procs :
    /\ Used(p) /\ pid[p] = i
    /\ \A q \in Procs : q < p => ~(Used(q) /\ pid[q] = i)
    /\ ProcessRemoved(p)

------------------------------------------------------------------------------
(* The create_process of exec_program, once the loader has the image.       *)
UserProcess == \E p \in Procs : \/ CreateProcess("USER", p)
                                \/ CreateThreadless("USER", p)
                                \/ CreateUserStackFails(p)

(* The system calls.                                                        *)
SysExit == TerminateProcess(pid[CurrentProc])

SysSleep(ms) == ThreadSleep(ms) /\ UNCHANGED <<ptable, held>>

SysMalloc(k) == /\ k \notin allocated
                /\ allocated' = allocated \cup {k}
                /\ held' = held \cup {k}
                /\ UNCHANGED <<tvars, ptable>>

SysFree(k) == /\ allocated' = allocated \ {k}
              /\ held' = held \ {k}
              /\ UNCHANGED <<tvars, ptable>>

(* The functions process.h and scheduler.h export to the rest of a kernel:  *)
(* a process in kernel mode, the end of any process, a call of schedule.    *)
KernelProcess == \E p \in Procs : \/ CreateProcess("KERNEL", p)
                                  \/ CreateThreadless("KERNEL", p)

Kill == \E i \in 0 .. MaxPid : TerminateProcess(i)

Tick == Schedule /\ UNCHANGED <<ptable, held>>

(* What can come between two programs.                                      *)
Calls == \/ SysExit
         \/ \E ms \in Delays : SysSleep(ms)
         \/ \E k \in Ptrs : SysMalloc(k)
         \/ \E k \in held : SysFree(k)
         \/ KernelProcess \/ Kill \/ Tick

PNext == Calls \/ UserProcess

PSpec == PInit /\ [][PNext]_pvars

------------------------------------------------------------------------------
\* The fields of the process table have the values the code gives them.
PTypeOK == /\ TypeOK
           /\ pstate \in [Procs -> {"EMPTY", "RUNNING"}]
           /\ pid \in [Procs -> Nat] /\ parent_pid \in [Procs -> Nat]
           /\ thread \in [Procs -> Nat]
           /\ user_stack \in [Procs -> Ptrs \cup {NULL}]
           /\ proc_count \in Nat /\ next_pid \in Nat
           /\ held \subseteq Ptrs

ThreadStacks == {stack[s] : s \in Slots} \ {NULL}
UserStacksInUse == {user_stack[p] : p \in {q \in Procs : Used(q)}} \ {NULL}

\* MemoryOwned: every block in use is the stack of one thread, the user stack of
\* one process or a block a program holds: over slot reuse and on the paths where
\* create_process fails half way nothing leaks, is shared or is freed twice.
MemoryOwned ==
  /\ allocated = ThreadStacks \cup UserStacksInUse \cup held
  /\ ThreadStacks \cap UserStacksInUse = {}
  /\ (ThreadStacks \cup UserStacksInUse) \cap held = {}
  /\ \A p, q \in Procs : Used(p) /\ Used(q) /\ user_stack[p] = user_stack[q]
                           /\ user_stack[p] # NULL => p = q

\* ProcessThreadsLive: the thread a process lists is alive and no other process
\* lists it, so that terminate_process never ends a thread of someone else.
ProcessThreadsLive ==
  \A p \in Procs : Used(p) /\ thread[p] # NoThread =>
    /\ \E s \in Slots : Holds(s, thread[p])
    /\ \A q \in Procs : Used(q) /\ thread[q] = thread[p] => p = q

\* CountsNeverHigh: neither create_process nor create_thread is refused for its
\* count while a slot is free.  A failed create_process and a thread put to sleep
\* after its end make the counts too low, and terminate_thread and
\* terminate_process may count such a slot off again; never are they too high.
CountsNeverHigh == /\ proc_count =< Cardinality({p \in Procs : Used(p)})
                   /\ CountNeverHigh
==============================================================================
