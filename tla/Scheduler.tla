------------------------------- MODULE Scheduler -------------------------------
(****************************************************************************)
(* The thread table of core/kernel/scheduler.c and the round robin over it. *)
(*                                                                          *)
(* Each field of thread_table is a function of the slot.  Stacks come from  *)
(* kmalloc, here what Allocator promises: a pointer nobody holds, or NULL   *)
(* at any time.  Left out: names, priorities (stored, never read), saved    *)
(* registers (switch_context has no body) and the tick totals shown by      *)
(* list_threads.  The operations are the functions scheduler.h exports.     *)
(****************************************************************************)
EXTENDS Integers, FiniteSets

CONSTANTS MaxThreads,  \* MAX_THREADS, 64 in the code
          Ptrs,        \* the pointers kmalloc can return
          Delays,      \* the arguments of thread_sleep
          MaxId        \* bound: no thread is created with a greater id

NULL == 0

ASSUME SchedulerAssumption ==
  /\ MaxThreads \in Nat \ {0} /\ MaxId \in Nat
  /\ NULL \notin Ptrs /\ Delays \subseteq Nat

VARIABLES state,           \* slot -> thread_state_t
          id,              \* slot -> id, kept when the slot is emptied
          stack,           \* slot -> pointer to the stack, or NULL
          sleep_ticks,     \* slot -> ticks left to sleep
          current_thread,  \* slot in execution, or None
          thread_count,
          next_thread_id,
          allocated        \* the pointers kmalloc handed out

tvars == <<state, id, stack, sleep_ticks, current_thread, thread_count,
           next_thread_id>>
vars  == <<tvars, allocated>>

Slots == 0 .. MaxThreads - 1
None  == -1            \* current_thread == NULL
States == {"EMPTY", "READY", "RUNNING", "SLEEPING"}

Live(s) == state[s] # "EMPTY"

------------------------------------------------------------------------------
(* init_scheduler: the idle thread, with id 0 and no stack, in slot 0.      *)
Init == /\ state = [s \in Slots |-> IF s = 0 THEN "READY" ELSE "EMPTY"]
        /\ id = [s \in Slots |-> 0]
        /\ stack = [s \in Slots |-> NULL]
        /\ sleep_ticks = [s \in Slots |-> 0]
        /\ current_thread = None
        /\ thread_count = 1
        /\ next_thread_id = 1
        /\ allocated = {}

\* Mutant: the count is taken for the index of the next slot.
FreeSlot_ByCount(s) == s = thread_count

(* find_free_slot: the first empty slot.                                    *)
FreeSlot(s) == ~Live(s) /\ \A r \in Slots : r < s => Live(r)

\* Mutant: the counter of ids is left where it is.
ThreadAdded_SameId(s, p) ==
  /\ thread_count < MaxThreads
  /\ FreeSlot(s)
  /\ state' = [state EXCEPT ![s] = "READY"]
  /\ id' = [id EXCEPT ![s] = next_thread_id]
  /\ stack' = [stack EXCEPT ![s] = p]
  /\ thread_count' = thread_count + 1
  /\ UNCHANGED <<sleep_ticks, current_thread, next_thread_id>>

(* What create_thread writes into slot s once kmalloc returned p.           *)
ThreadAdded(s, p) ==
  /\ thread_count < MaxThreads
  /\ FreeSlot(s)
  /\ state' = [state EXCEPT ![s] = "READY"]
  /\ id' = [id EXCEPT ![s] = next_thread_id]
  /\ stack' = [stack EXCEPT ![s] = p]
  /\ next_thread_id' = next_thread_id + 1
  /\ thread_count' = thread_count + 1
  /\ UNCHANGED <<sleep_ticks, current_thread>>

CreateThread(p) ==
  /\ next_thread_id =< MaxId
  /\ p \notin allocated
  /\ \E s \in Slots : ThreadAdded(s, p)
  /\ allocated' = allocated \cup {p}

(* create_thread returns -1: the count is at its limit, entry is null, the  *)
(* table is full, or kmalloc fails and its NULL is left in an empty slot.   *)
ThreadRefused ==
  /\ \/ UNCHANGED stack
     \/ \E s \in Slots : /\ thread_count < MaxThreads
                         /\ FreeSlot(s)
                         /\ stack' = [stack EXCEPT ![s] = NULL]
  /\ UNCHANGED <<state, id, sleep_ticks, current_thread, thread_count,
                 next_thread_id>>

CreateThreadFails == ThreadRefused /\ UNCHANGED allocated

------------------------------------------------------------------------------
\* Mutant: wakes a sleeper with one tick left.
Woken_OneEarly(st, sl) ==
  [s \in Slots |-> IF st[s] = "SLEEPING" /\ sl[s] =< 1 THEN "READY" ELSE st[s]]

(* The loop of schedule over the sleepers, from states st and ticks sl: a   *)
(* sleeper with ticks left loses one, another is ready again.               *)
Woken(st, sl) ==
  [s \in Slots |-> IF st[s] = "SLEEPING" /\ sl[s] = 0 THEN "READY" ELSE st[s]]

\* Mutant: the test for ticks left is forgotten.
CountedDown_BelowZero(st, sl) ==
  [s \in Slots |-> IF st[s] = "SLEEPING" THEN sl[s] - 1 ELSE sl[s]]

CountedDown(st, sl) ==
  [s \in Slots |-> IF st[s] = "SLEEPING" /\ sl[s] > 0 THEN sl[s] - 1 ELSE sl[s]]

\* Mutant: the search always starts at slot 0.
Dist_FromZero(c, s) == s + 1

(* How many steps after slot c the cyclic search meets slot s; from None    *)
(* the search starts at slot 0.                                             *)
Dist(c, s) == IF s > c THEN s - c ELSE s - c + MaxThreads

Candidate(st, s) == st[s] = "READY" /\ s # current_thread

(* find_next_thread returns s: the first ready thread after the current one.*)
IsNext(st, s) ==
  /\ Candidate(st, s)
  /\ \A r \in Slots : Candidate(st, r) => Dist(current_thread, s) =< Dist(current_thread, r)

\* Mutant: the thread that is switched away from stays RUNNING.
Switched_KeepsOld(st, s) == [st EXCEPT ![s] = "RUNNING"]

Switched(st, s) ==
  [r \in Slots |-> IF r = s THEN "RUNNING"
                   ELSE IF r = current_thread /\ st[r] = "RUNNING" THEN "READY"
                   ELSE st[r]]

(* schedule, entered with states st and ticks sl.  When no other thread is  *)
(* ready find_next_thread returns the current one or NULL, and schedule     *)
(* returns without touching a state.                                        *)
ScheduleFrom(st, sl) ==
  LET up == Woken(st, sl)
  IN  /\ sleep_ticks' = CountedDown(st, sl)
      /\ \/ \E s \in Slots : /\ IsNext(up, s)
                             /\ state' = Switched(up, s)
                             /\ current_thread' = s
         \/ /\ \A s \in Slots : ~Candidate(up, s)
            /\ state' = up
            /\ UNCHANGED current_thread
      /\ UNCHANGED <<id, stack, thread_count, next_thread_id, allocated>>

Schedule == ScheduleFrom(state, sleep_ticks)

(* thread_sleep: marks whatever slot current_thread names, then schedules.  *)
ThreadSleep(ms) ==
  /\ current_thread # None
  /\ ScheduleFrom([state EXCEPT ![current_thread] = "SLEEPING"],
                  [sleep_ticks EXCEPT ![current_thread] = ms])

(* The slot terminate_thread(i) finds: the first live one with that id.     *)
Holds(s, i) == Live(s) /\ id[s] = i

ThreadCountLess == IF thread_count > 0 THEN thread_count - 1 ELSE 0

(* terminate_thread(i) for the thread in slot s; kfree of its stack.        *)
ThreadRemoved(s) ==
  /\ state' = [state EXCEPT ![s] = "EMPTY"]
  /\ stack' = [stack EXCEPT ![s] = NULL]
  /\ thread_count' = ThreadCountLess
  /\ UNCHANGED <<id, sleep_ticks, current_thread, next_thread_id>>

TerminateThread(i) ==
  \E s \in Slots :
    /\ Holds(s, i) /\ \A r \in Slots : r < s => ~Holds(r, i)
    /\ ThreadRemoved(s)
    /\ allocated' = allocated \ {stack[s]}

Next == \/ \E p \in Ptrs : CreateThread(p)
        \/ CreateThreadFails
        \/ Schedule
        \/ \E ms \in Delays : ThreadSleep(ms)
        \/ \E i \in 1 .. MaxId : TerminateThread(i)

Spec == Init /\ [][Next]_vars

------------------------------------------------------------------------------
\* Every field has the values the code gives it.
TypeOK == /\ state \in [Slots -> States]
          /\ id \in [Slots -> Nat]
          /\ stack \in [Slots -> Ptrs \cup {NULL}]
          /\ sleep_ticks \in [Slots -> Nat]
          /\ current_thread \in Slots \cup {None}
          /\ thread_count \in Nat
          /\ next_thread_id \in Nat \ {0}
          /\ allocated \subseteq Ptrs

\* RunningIsCurrent: at most one thread is RUNNING, and it is the one
\* current_thread names, although the slot it names may be emptied and given
\* to another thread between two calls of schedule.
RunningIsCurrent == \A s \in Slots : state[s] = "RUNNING" => s = current_thread

\* IdsUnique: no two live threads have one id, so terminate_thread(i) frees the
\* stack of the thread that create_thread called i and of no other.
IdsUnique == \A r, s \in Slots : Live(r) /\ Live(s) /\ id[r] = id[s] => r = s

\* StacksOwned: the stacks in the table are exactly the memory the scheduler
\* holds, each in one live slot: none is freed twice, none leaks.
StacksOwned ==
  /\ \A s \in Slots : stack[s] # NULL => Live(s)
  /\ \A r, s \in Slots : stack[r] = stack[s] /\ stack[s] # NULL => r = s
  /\ allocated = {stack[s] : s \in Slots} \ {NULL}

(* thread_count does not exceed the number of live threads, so create_thread*)
(* never refuses while a slot is free.                                      *)
CountNeverHigh == thread_count =< Cardinality({s \in Slots : Live(s)})
==============================================================================
