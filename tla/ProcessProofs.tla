---------------------------- MODULE ProcessProofs -----------------------------
(****************************************************************************)
(* The scheduler's safety for any number of threads, stacks and ticks; then *)
(* the process table, its threads and the heap blocks they hold, and        *)
(* exec_program over them, for any tables, heap, programs and frames.       *)
(*                                                                          *)
(* The first part is about the thread table whoever else holds memory: its  *)
(* lemmas serve the processes, that share the heap with it.  The second is  *)
(* about Scheduler on its own, the third about its history, which has no    *)
(* part in the fourth, the processes.                                       *)
(****************************************************************************)
EXTENDS Exec, SchedulerHistory, FiniteSetTheorems, TLAPS

(* Slot 0 is idle's for ever: it never holds an id terminate_thread is      *)
(* called with, so it is never free for another thread.                     *)
IdleStays == Live(0) /\ id[0] = 0

(* The ids given out differ, in empty slots too: thread_sleep can bring the *)
(* thread of an emptied slot back with the id it had.                       *)
IdsGiven ==
  /\ \A s \in Slots : id[s] < next_thread_id
  /\ \A r, s \in Slots : id[r] = id[s] /\ id[s] # 0 => r = s
  /\ \A s \in Slots : (Live(s) \/ s = current_thread) /\ s # 0 => id[s] # 0

(* Each stack is in one live slot, whatever else was handed out.            *)
StacksApart ==
  /\ \A s \in Slots : stack[s] # NULL => Live(s)
  /\ \A r, s \in Slots : stack[r] = stack[s] /\ stack[s] # NULL => r = s

TInv == /\ TypeOK /\ RunningIsCurrent /\ IdleStays /\ IdsGiven /\ StacksApart
        /\ CountNeverHigh

Stacks    == {stack[s] : s \in Slots} \ {NULL}
LiveSlots == {s \in Slots : Live(s)}

IInv == TInv /\ allocated = Stacks

LEMMA SlotFacts == /\ Slots \subseteq Nat /\ 0 \in Slots /\ None \notin Slots
                   /\ \A s \in Slots : s < MaxThreads
BY SchedulerAssumption DEF Slots, None

LEMMA LiveSlotsFinite ==
  /\ IsFiniteSet(LiveSlots) /\ Cardinality(LiveSlots) \in Nat
  /\ IsFiniteSet(LiveSlots') /\ Cardinality(LiveSlots') \in Nat
<1>1. IsFiniteSet(Slots)
  BY FS_Interval, SchedulerAssumption DEF Slots
<1>2. LiveSlots \in SUBSET Slots /\ LiveSlots' \in SUBSET Slots
  BY DEF LiveSlots, Slots
<1>3. IsFiniteSet(LiveSlots) /\ IsFiniteSet(LiveSlots')
  BY <1>1, <1>2, FS_Subset
<1> QED
  BY <1>3, FS_CardinalityType

LEMMA InitIInv == Init => IInv
<1> SUFFICES ASSUME Init PROVE IInv
  OBVIOUS
<1>1. TypeOK /\ RunningIsCurrent /\ IdleStays /\ IdsGiven /\ StacksApart
  BY SchedulerAssumption, SlotFacts
     DEF Init, TypeOK, States, RunningIsCurrent, IdleStays, IdsGiven, StacksApart,
         Live, NULL
<1>2. LiveSlots = {0}
  BY SlotFacts DEF Init, LiveSlots, Live
<1>3. CountNeverHigh
  <2>1. Cardinality(LiveSlots) = 1
    BY <1>2, FS_Singleton
  <2>2. thread_count =< Cardinality(LiveSlots)
    BY <2>1 DEF Init
  <2> QED BY <2>2 DEF CountNeverHigh, LiveSlots
<1>4. allocated = Stacks
  BY DEF Init, Stacks
<1> QED
  BY <1>1, <1>3, <1>4 DEF IInv, TInv

------------------------------------------------------------------------------
\* What schedule does to the states it starts from: no slot is filled or
\* emptied, and only the current thread is left running.
LEMMA ScheduleFromKeeps ==
  ASSUME TypeOK,
         NEW st \in [Slots -> States], NEW sl \in [Slots -> Nat],
         \A s \in Slots : st[s] = "RUNNING" => s = current_thread,
         ScheduleFrom(st, sl)
  PROVE  /\ state' \in [Slots -> States]
         /\ sleep_ticks' \in [Slots -> Nat]
         /\ current_thread' \in Slots \cup {None}
         /\ \A s \in Slots : state'[s] = "EMPTY" <=> st[s] = "EMPTY"
         /\ \A s \in Slots : state'[s] = "RUNNING" => s = current_thread'
         /\ current_thread' # current_thread => state'[current_thread'] = "RUNNING"
         /\ UNCHANGED <<id, stack, thread_count, next_thread_id, allocated>>
<1> DEFINE up == Woken(st, sl)
<1>1. /\ up \in [Slots -> States]
      /\ \A s \in Slots : up[s] = "EMPTY" <=> st[s] = "EMPTY"
      /\ \A s \in Slots : up[s] = "RUNNING" => s = current_thread
  BY DEF Woken, States
<1>2. sleep_ticks' \in [Slots -> Nat]
  BY DEF ScheduleFrom, CountedDown
<1>3. CASE \E s \in Slots : /\ IsNext(up, s)
                            /\ state' = Switched(up, s)
                            /\ current_thread' = s
  <2>1. PICK s \in Slots : /\ IsNext(up, s)
                           /\ state' = Switched(up, s)
                           /\ current_thread' = s
    BY <1>3
  <2>2. up[s] = "READY"
    BY <2>1 DEF IsNext, Candidate
  <2>3. state' \in [Slots -> States]
    BY <1>1, <2>1 DEF Switched, States
  <2>4. \A r \in Slots : /\ state'[r] = "EMPTY" <=> up[r] = "EMPTY"
                         /\ state'[r] = "RUNNING" => r = s
    BY <1>1, <2>1, <2>2 DEF Switched
  <2>5. state'[s] = "RUNNING"
    BY <2>1 DEF Switched
  <2> HIDE DEF up
  <2> QED BY <1>1, <1>2, <2>1, <2>3, <2>4, <2>5 DEF ScheduleFrom
<1>4. CASE state' = up /\ UNCHANGED current_thread
  BY <1>1, <1>2, <1>4 DEF ScheduleFrom, TypeOK
<1> QED
  BY <1>3, <1>4 DEF ScheduleFrom

\* A call of schedule keeps the table and frees or fills no slot.
LEMMA ScheduleTable ==
  ASSUME TInv, Schedule
  PROVE  /\ TInv'
         /\ \A s \in Slots : Live(s)' <=> Live(s)
         /\ UNCHANGED <<id, stack, thread_count, next_thread_id, allocated>>
<1>1. /\ state' \in [Slots -> States] /\ sleep_ticks' \in [Slots -> Nat]
      /\ current_thread' \in Slots \cup {None}
      /\ \A s \in Slots : state'[s] = "EMPTY" <=> state[s] = "EMPTY"
      /\ RunningIsCurrent'
      /\ current_thread' # current_thread => state'[current_thread'] = "RUNNING"
      /\ UNCHANGED <<id, stack, thread_count, next_thread_id, allocated>>
  BY ScheduleFromKeeps DEF TInv, TypeOK, RunningIsCurrent, Schedule
<1>2. \A s \in Slots : Live(s)' <=> Live(s)
  BY <1>1 DEF Live
<1>3. TypeOK'
  BY <1>1 DEF TInv, TypeOK
<1>4. IdleStays'
  BY <1>1, <1>2, SlotFacts DEF TInv, IdleStays
<1>5. IdsGiven'
  BY <1>1, <1>2, SlotFacts DEF TInv, IdsGiven, Live
<1>6. StacksApart'
  BY <1>1, <1>2 DEF TInv, StacksApart
<1>7. CountNeverHigh'
  <2>1. LiveSlots' = LiveSlots
    BY <1>2 DEF LiveSlots, Slots
  <2> QED BY <1>1, <2>1 DEF TInv, CountNeverHigh, LiveSlots
<1> QED
  BY <1>1, <1>2, <1>3, <1>4, <1>5, <1>6, <1>7 DEF TInv

\* So does thread_sleep, which can only bring back a slot that had a thread.
LEMMA ThreadSleepTable ==
  ASSUME TInv, NEW ms \in Delays, ThreadSleep(ms)
  PROVE  /\ TInv'
         /\ \A s \in Slots : Live(s) => Live(s)'
         /\ UNCHANGED <<id, stack, thread_count, next_thread_id, allocated>>
<1> DEFINE st == [state EXCEPT ![current_thread] = "SLEEPING"]
           sl == [sleep_ticks EXCEPT ![current_thread] = ms]
<1>1. /\ current_thread \in Slots
      /\ st \in [Slots -> States] /\ sl \in [Slots -> Nat]
      /\ \A s \in Slots : st[s] = "EMPTY" <=> state[s] = "EMPTY" /\ s # current_thread
      /\ \A s \in Slots : st[s] = "RUNNING" => s = current_thread
  BY SchedulerAssumption DEF TInv, TypeOK, States, RunningIsCurrent, ThreadSleep
<1>2. ScheduleFrom(st, sl)
  BY DEF ThreadSleep
<1> HIDE DEF st, sl
<1>3. /\ state' \in [Slots -> States] /\ sleep_ticks' \in [Slots -> Nat]
      /\ current_thread' \in Slots \cup {None}
      /\ \A s \in Slots : state'[s] = "EMPTY" <=> st[s] = "EMPTY"
      /\ RunningIsCurrent'
      /\ current_thread' # current_thread => state'[current_thread'] = "RUNNING"
      /\ UNCHANGED <<id, stack, thread_count, next_thread_id, allocated>>
  BY <1>1, <1>2, ScheduleFromKeeps DEF TInv, RunningIsCurrent
<1>4. \A s \in Slots : Live(s)' <=> Live(s) \/ s = current_thread
  BY <1>1, <1>3 DEF Live
<1>5. TypeOK'
  BY <1>3 DEF TInv, TypeOK
<1>6. IdleStays'
  BY <1>3, <1>4, SlotFacts DEF TInv, IdleStays
<1>7. IdsGiven'
  BY <1>3, <1>4, SlotFacts DEF TInv, IdsGiven, Live
<1>8. StacksApart'
  BY <1>3, <1>4 DEF TInv, StacksApart
<1>9. CountNeverHigh'
  <2>1. LiveSlots \in SUBSET LiveSlots'
    BY <1>4 DEF LiveSlots, Slots
  <2>2. Cardinality(LiveSlots) =< Cardinality(LiveSlots')
    BY <2>1, LiveSlotsFinite, FS_Subset
  <2>3. thread_count =< Cardinality(LiveSlots) /\ thread_count \in Nat
    BY DEF TInv, TypeOK, CountNeverHigh, LiveSlots
  <2>4. thread_count =< Cardinality(LiveSlots')
    BY <2>2, <2>3, LiveSlotsFinite
  <2> QED BY <1>3, <2>4 DEF CountNeverHigh, LiveSlots
<1> QED
  BY <1>3, <1>4, <1>5, <1>6, <1>7, <1>8, <1>9 DEF TInv

\* create_thread takes a slot that is not idle's, a new id and a new stack.
LEMMA ThreadAddedTable ==
  ASSUME TInv, NEW s \in Slots, NEW p \in Ptrs, p \notin Stacks,
         ThreadAdded(s, p), allocated' \subseteq Ptrs
  PROVE  /\ TInv'
         /\ ~Live(s) /\ stack[s] = NULL
         /\ stack' = [stack EXCEPT ![s] = p]
         /\ id' = [id EXCEPT ![s] = next_thread_id]
         /\ next_thread_id' = next_thread_id + 1
         /\ \A r \in Slots : Live(r)' <=> Live(r) \/ r = s
<1>1. ~Live(s) /\ s # 0 /\ stack[s] = NULL /\ p # NULL
  BY SchedulerAssumption DEF ThreadAdded, FreeSlot, TInv, IdleStays, StacksApart
<1>2. \A r \in Slots : stack[r] # p
  BY <1>1 DEF Stacks
<1>3. /\ state' = [state EXCEPT ![s] = "READY"]
      /\ id' = [id EXCEPT ![s] = next_thread_id]
      /\ stack' = [stack EXCEPT ![s] = p]
      /\ next_thread_id' = next_thread_id + 1 /\ thread_count' = thread_count + 1
      /\ UNCHANGED <<sleep_ticks, current_thread>>
  BY DEF ThreadAdded
<1>4. TypeOK'
  BY <1>1, <1>3 DEF TInv, TypeOK, States
<1>5. RunningIsCurrent'
  BY <1>3 DEF TInv, TypeOK, RunningIsCurrent
<1>6. \A r \in Slots : Live(r)' <=> Live(r) \/ r = s
  BY <1>3 DEF TInv, TypeOK, Live
<1>7. IdleStays'
  BY <1>1, <1>3, <1>6, SlotFacts DEF TInv, TypeOK, IdleStays
<1>8. IdsGiven'
  BY <1>3, <1>6 DEF TInv, TypeOK, IdsGiven
<1>9. StacksApart'
  BY <1>1, <1>2, <1>3, <1>6 DEF TInv, TypeOK, StacksApart
<1>10. CountNeverHigh'
  <2>1. LiveSlots' = LiveSlots \cup {s} /\ s \notin LiveSlots
    BY <1>1, <1>6 DEF LiveSlots, Slots
  <2>2. Cardinality(LiveSlots') = Cardinality(LiveSlots) + 1
    BY <2>1, LiveSlotsFinite, FS_AddElement
  <2>3. thread_count =< Cardinality(LiveSlots) /\ thread_count \in Nat
    BY DEF TInv, TypeOK, CountNeverHigh, LiveSlots
  <2>4. thread_count' =< Cardinality(LiveSlots')
    BY <1>3, <2>2, <2>3, LiveSlotsFinite
  <2> QED BY <2>4 DEF CountNeverHigh, LiveSlots
<1> QED
  BY <1>1, <1>3, <1>4, <1>5, <1>6, <1>7, <1>8, <1>9, <1>10 DEF TInv

\* A create_thread that fails leaves the table as it was.
LEMMA ThreadRefusedTable == ASSUME TInv, ThreadRefused PROVE UNCHANGED tvars
<1>1. stack' = stack
  <2> SUFFICES ASSUME NEW s \in Slots, FreeSlot(s), stack' = [stack EXCEPT ![s] = NULL]
               PROVE  stack' = stack
    BY DEF ThreadRefused
  <2>1. stack[s] = NULL
    BY DEF FreeSlot, TInv, StacksApart
  <2> QED BY <2>1 DEF TInv, TypeOK
<1> QED BY <1>1 DEF ThreadRefused, tvars

\* terminate_thread empties one slot, not idle's, and lets go of its stack.
LEMMA ThreadRemovedTable ==
  ASSUME TInv, NEW s \in Slots, id[s] # 0, Live(s), ThreadRemoved(s),
         allocated' \subseteq Ptrs
  PROVE  /\ TInv'
         /\ stack' = [stack EXCEPT ![s] = NULL]
         /\ UNCHANGED <<id, next_thread_id>>
         /\ \A r \in Slots : Live(r)' <=> Live(r) /\ r # s
<1>1. /\ state' = [state EXCEPT ![s] = "EMPTY"]
      /\ stack' = [stack EXCEPT ![s] = NULL]
      /\ thread_count' \in Nat
      /\ UNCHANGED <<id, sleep_ticks, current_thread, next_thread_id>>
  BY DEF ThreadRemoved, ThreadCountLess, TInv, TypeOK
<1>2. s # 0
  BY DEF TInv, IdleStays
<1>3. TypeOK'
  BY <1>1 DEF TInv, TypeOK, States
<1>4. RunningIsCurrent'
  BY <1>1 DEF TInv, TypeOK, RunningIsCurrent
<1>5. \A r \in Slots : Live(r)' <=> Live(r) /\ r # s
  BY <1>1 DEF TInv, TypeOK, Live
<1>6. IdleStays'
  BY <1>1, <1>2, <1>5, SlotFacts DEF TInv, TypeOK, IdleStays
<1>7. IdsGiven'
  BY <1>1, <1>5 DEF TInv, TypeOK, IdsGiven
<1>8. StacksApart'
  BY <1>1, <1>5 DEF TInv, TypeOK, StacksApart
<1>9. CountNeverHigh'
  <2>1. LiveSlots' = LiveSlots \ {s} /\ s \in LiveSlots
    BY <1>5 DEF LiveSlots, Slots
  <2>2. Cardinality(LiveSlots') = Cardinality(LiveSlots) - 1
    BY <2>1, LiveSlotsFinite, FS_RemoveElement
  <2>3. thread_count =< Cardinality(LiveSlots) /\ thread_count \in Nat
    BY DEF TInv, TypeOK, CountNeverHigh, LiveSlots
  <2>4. thread_count' = ThreadCountLess
    BY DEF ThreadRemoved
  <2>5. thread_count' =< Cardinality(LiveSlots')
    BY <2>2, <2>3, <2>4, LiveSlotsFinite DEF ThreadCountLess
  <2> QED BY <2>5 DEF CountNeverHigh, LiveSlots
<1> QED
  BY <1>1, <1>3, <1>4, <1>5, <1>6, <1>7, <1>8, <1>9 DEF TInv

\* The table does not depend on the heap it is beside.
LEMMA TableStutter ==
  ASSUME TInv, UNCHANGED tvars, allocated' \subseteq Ptrs PROVE TInv'
<1>1. TypeOK'
  BY DEF TInv, TypeOK, tvars
<1>2. RunningIsCurrent' /\ IdleStays' /\ IdsGiven' /\ StacksApart'
  BY DEF TInv, RunningIsCurrent, IdleStays, IdsGiven, StacksApart, Live, tvars
<1>3. CountNeverHigh'
  BY DEF TInv, CountNeverHigh, Live, tvars
<1> QED BY <1>1, <1>2, <1>3 DEF TInv

------------------------------------------------------------------------------
\* Scheduler on its own: the stacks are all there is in the heap.
LEMMA ScheduleStep == ASSUME IInv, Schedule PROVE IInv'
BY ScheduleTable DEF IInv, Stacks

LEMMA ThreadSleepStep ==
  ASSUME IInv, NEW ms \in Delays, ThreadSleep(ms) PROVE IInv'
BY ThreadSleepTable DEF IInv, Stacks

LEMMA CreateThreadStep ==
  ASSUME IInv, NEW p \in Ptrs, CreateThread(p) PROVE IInv'
<1>1. PICK s \in Slots : ThreadAdded(s, p)
  BY DEF CreateThread
<1>2. /\ p \notin Stacks /\ allocated' = Stacks \cup {p} /\ allocated' \subseteq Ptrs
  BY DEF CreateThread, IInv, TInv, TypeOK
<1>3. TInv' /\ stack[s] = NULL /\ stack' = [stack EXCEPT ![s] = p]
  BY <1>1, <1>2, ThreadAddedTable DEF IInv
<1>4. allocated' = Stacks'
  BY <1>2, <1>3, SchedulerAssumption DEF IInv, TInv, TypeOK, Stacks
<1> QED BY <1>3, <1>4 DEF IInv

LEMMA CreateThreadFailsStep == ASSUME IInv, CreateThreadFails PROVE IInv'
<1>1. UNCHANGED tvars /\ allocated' = allocated
  BY ThreadRefusedTable DEF IInv, CreateThreadFails
<1>2. TInv'
  BY <1>1, TableStutter DEF IInv, TInv, TypeOK
<1> QED BY <1>1, <1>2 DEF IInv, Stacks, tvars

\* terminate_thread frees the stack of one thread, not idle.
LEMMA TerminateThreadStep ==
  ASSUME IInv, NEW i \in 1 .. MaxId, TerminateThread(i) PROVE IInv'
<1>1. PICK s \in Slots : /\ Holds(s, i) /\ ThreadRemoved(s)
                         /\ allocated' = allocated \ {stack[s]}
  BY DEF TerminateThread
<1>2. Live(s) /\ id[s] # 0 /\ allocated' \subseteq Ptrs
  BY <1>1, SchedulerAssumption DEF Holds, IInv, TInv, TypeOK
<1>3. TInv' /\ stack' = [stack EXCEPT ![s] = NULL]
  BY <1>1, <1>2, ThreadRemovedTable DEF IInv
<1>4. allocated' = Stacks'
  BY <1>1, <1>3 DEF IInv, TInv, TypeOK, StacksApart, Stacks
<1> QED BY <1>3, <1>4 DEF IInv

LEMMA StutterStep == IInv /\ UNCHANGED vars => IInv'
<1> SUFFICES ASSUME IInv, UNCHANGED vars PROVE IInv'
  OBVIOUS
<1>1. TInv'
  BY TableStutter DEF IInv, TInv, TypeOK, vars
<1> QED BY <1>1 DEF IInv, Stacks, vars, tvars

LEMMA NextIInv == IInv /\ [Next]_vars => IInv'
<1> SUFFICES ASSUME IInv, [Next]_vars PROVE IInv'
  OBVIOUS
<1>1. CASE \E p \in Ptrs : CreateThread(p)
  BY <1>1, CreateThreadStep
<1>2. CASE CreateThreadFails
  BY <1>2, CreateThreadFailsStep
<1>3. CASE Schedule
  BY <1>3, ScheduleStep
<1>4. CASE \E ms \in Delays : ThreadSleep(ms)
  BY <1>4, ThreadSleepStep
<1>5. CASE \E i \in 1 .. MaxId : TerminateThread(i)
  BY <1>5, TerminateThreadStep
<1>6. CASE UNCHANGED vars
  BY <1>6, StutterStep
<1> QED
  BY <1>1, <1>2, <1>3, <1>4, <1>5, <1>6 DEF Next

\* The inductive invariant of the thread table.
THEOREM SchedulerInvariant == Spec => []IInv
BY InitIInv, NextIInv, PTL DEF Spec

\* Every field of the thread table keeps its type.
THEOREM SchedulerTypeCorrect == Spec => []TypeOK
<1>1. IInv => TypeOK
  BY DEF IInv, TInv
<1> QED BY <1>1, SchedulerInvariant, PTL

\* At most one thread runs, the one current_thread names.
THEOREM SchedulerOneRunning == Spec => []RunningIsCurrent
<1>1. IInv => RunningIsCurrent
  BY DEF IInv, TInv
<1> QED BY <1>1, SchedulerInvariant, PTL

\* The ids of live threads differ, however often slots are used again.
THEOREM SchedulerIdsUnique == Spec => []IdsUnique
<1>1. IInv => IdsUnique
  <2> SUFFICES ASSUME IInv, NEW r \in Slots, NEW s \in Slots,
                      Live(r), Live(s), id[r] = id[s]
               PROVE  r = s
    BY DEF IdsUnique
  <2>1. CASE id[s] = 0
    BY <2>1 DEF IInv, TInv, IdsGiven
  <2>2. CASE id[s] # 0
    BY <2>2 DEF IInv, TInv, IdsGiven
  <2> QED BY <2>1, <2>2
<1> QED BY <1>1, SchedulerInvariant, PTL

\* Stacks are neither shared nor leaked nor freed twice.
THEOREM SchedulerStacksOwned == Spec => []StacksOwned
<1>1. IInv => StacksOwned
  BY DEF IInv, TInv, StacksApart, Stacks, StacksOwned
<1> QED BY <1>1, SchedulerInvariant, PTL

------------------------------------------------------------------------------
(* Bounded waiting in the round robin, exactness of sleep: over the history.*)
(* Only a thread that waits has been passed over.                           *)
IdleBypass ==
  \A s \in Slots : ~(state[s] = "READY" /\ s # current_thread) => bypass[s] = 0

HIInv == IInv /\ HTypeOK /\ BypassLeavesRoom /\ IdleBypass /\ SleepAccounted

\* Passing from c to d, no later in the cycle than s, brings the search closer
\* to s.
LEMMA CloserAfterSwitch ==
  ASSUME NEW c \in Slots \cup {None}, NEW d \in Slots, NEW s \in Slots,
         d # s, d # c, s # c, Dist(c, d) =< Dist(c, s)
  PROVE  Dist(d, s) + 1 =< Dist(c, s)
BY SchedulerAssumption DEF Slots, None, Dist

\* No slot is more than MAX_THREADS steps away.
LEMMA DistBound ==
  ASSUME NEW c \in Slots \cup {None}, NEW s \in Slots
  PROVE  Dist(c, s) \in 1 .. MaxThreads
BY SchedulerAssumption DEF Slots, None, Dist

\* Which thread schedule switches to, and which sleepers it wakes.
LEMMA ScheduleFromChooses ==
  ASSUME TypeOK,
         NEW st \in [Slots -> States], NEW sl \in [Slots -> Nat],
         ScheduleFrom(st, sl)
  PROVE  /\ \A s \in Slots :
              st[s] = "READY" /\ s # current_thread
                => /\ current_thread' \in Slots /\ current_thread' # current_thread
                   /\ Dist(current_thread, current_thread') =< Dist(current_thread, s)
         /\ \A s \in Slots :
              state'[s] = "SLEEPING" => /\ st[s] = "SLEEPING" /\ sl[s] > 0
                                        /\ sleep_ticks'[s] = sl[s] - 1
         /\ \A s \in Slots :
              st[s] = "SLEEPING" /\ state'[s] # "SLEEPING" => sl[s] = 0
<1> DEFINE up == Woken(st, sl)
<1>1. \A s \in Slots : /\ st[s] = "READY" => up[s] = "READY"
                       /\ up[s] = "SLEEPING" => st[s] = "SLEEPING" /\ sl[s] # 0
                       /\ st[s] = "SLEEPING" /\ up[s] # "SLEEPING" => sl[s] = 0
  BY DEF Woken
<1>2. \A s \in Slots : st[s] = "SLEEPING" /\ sl[s] > 0 => sleep_ticks'[s] = sl[s] - 1
  BY DEF ScheduleFrom, CountedDown
<1>3. \A s \in Slots : sl[s] # 0 => sl[s] > 0
  OBVIOUS
<1>4. CASE \E s \in Slots : /\ IsNext(up, s)
                            /\ state' = Switched(up, s)
                            /\ current_thread' = s
  <2>1. PICK d \in Slots : /\ IsNext(up, d)
                           /\ state' = Switched(up, d)
                           /\ current_thread' = d
    BY <1>4
  <2>2. \A s \in Slots : /\ state'[s] = "SLEEPING" => up[s] = "SLEEPING"
                         /\ up[s] = "SLEEPING" /\ state'[s] # "SLEEPING" => s = d
    BY <2>1 DEF Switched
  <2>3. up[d] = "READY" /\ d # current_thread
    BY <2>1 DEF IsNext, Candidate
  <2>4. \A s \in Slots : up[s] = "READY" /\ s # current_thread
                           => Dist(current_thread, d) =< Dist(current_thread, s)
    BY <2>1 DEF IsNext, Candidate
  <2> HIDE DEF up
  <2> QED BY <1>1, <1>2, <1>3, <2>1, <2>2, <2>3, <2>4
<1>5. CASE /\ state' = up /\ UNCHANGED current_thread
           /\ \A s \in Slots : ~Candidate(up, s)
  <2>1. \A s \in Slots : up[s] = "READY" => s = current_thread
    BY <1>5 DEF Candidate
  <2> HIDE DEF up
  <2> QED BY <1>1, <1>2, <1>3, <1>5, <2>1
<1> QED
  BY <1>4, <1>5 DEF ScheduleFrom

\* Counting calls keeps the room left to each waiting thread, if each call
\* switches to a thread the search meets no later.
LEMMA BypassStep ==
  ASSUME TypeOK, current_thread' \in Slots \cup {None}, HTypeOK, BypassLeavesRoom,
         NEW calls \in Nat, CountBypass(calls),
         \A s \in Slots :
           Waits(s)
             => \/ calls = 0 /\ current_thread' = current_thread
                \/ /\ calls = 1
                   /\ current_thread' \in Slots /\ current_thread' # current_thread
                   /\ Dist(current_thread, current_thread') =< Dist(current_thread, s)
  PROVE  bypass' \in [Slots -> Nat] /\ BypassLeavesRoom' /\ IdleBypass'
<1>1. \A s \in Slots : bypass'[s] = IF Waits(s) THEN bypass[s] + calls ELSE 0
  BY DEF CountBypass
<1>2. bypass' \in [Slots -> Nat]
  BY DEF CountBypass, HTypeOK
<1>3. ASSUME NEW s \in Slots, state'[s] = "READY", s # current_thread'
      PROVE  bypass'[s] + Dist(current_thread', s) =< MaxThreads
  <2>1. CASE ~Waits(s)
    <3>1. Dist(current_thread', s) \in 1 .. MaxThreads
      BY DistBound
    <3> QED BY <1>1, <2>1, <3>1, SchedulerAssumption
  <2>2. CASE Waits(s)
    <3>1. bypass[s] + Dist(current_thread, s) =< MaxThreads /\ bypass[s] \in Nat
      BY <2>2 DEF BypassLeavesRoom, HTypeOK, Waits
    <3>2. CASE calls = 0 /\ current_thread' = current_thread
      BY <1>1, <2>2, <3>1, <3>2
    <3>3. CASE /\ calls = 1
               /\ current_thread' \in Slots /\ current_thread' # current_thread
               /\ Dist(current_thread, current_thread') =< Dist(current_thread, s)
      <4>1. /\ Dist(current_thread', s) + 1 =< Dist(current_thread, s)
            /\ Dist(current_thread', s) \in Nat /\ Dist(current_thread, s) \in Nat
        BY <1>3, <2>2, <3>3, CloserAfterSwitch, DistBound DEF TypeOK, Waits
      <4> QED BY <1>1, <2>2, <3>1, <3>3, <4>1, SchedulerAssumption
    <3> QED BY <2>2, <3>2, <3>3
  <2> QED BY <2>1, <2>2
<1>4. BypassLeavesRoom'
  BY <1>3 DEF BypassLeavesRoom, Slots, Dist
<1>5. IdleBypass'
  BY <1>1 DEF IdleBypass, Waits, Slots
<1> QED
  BY <1>2, <1>4, <1>5

\* Up to the call that wakes it no thread has slept too long, so counting one
\* more call never meets the bound on passed.
LEMMA OneMoreCounts ==
  ASSUME TypeOK, HTypeOK, SleepAccounted, NEW s \in Slots
  PROVE  /\ OneMore(s) \in Nat
         /\ state[s] = "SLEEPING" => OneMore(s) = passed[s] + 1
<1>1. passed[s] \in Nat /\ asked[s] \in Nat /\ sleep_ticks[s] \in Nat
  BY DEF HTypeOK, TypeOK
<1>2. state[s] = "SLEEPING" => passed[s] =< asked[s]
  BY <1>1 DEF SleepAccounted
<1> QED
  BY <1>1, <1>2 DEF OneMore

\* A call of schedule from outside thread_sleep.
LEMMA HScheduleStep ==
  ASSUME HIInv, HSchedule
  PROVE  /\ HIInv'
         /\ \A s \in Slots : state[s] = "SLEEPING" /\ state'[s] # "SLEEPING"
                               => passed'[s] = asked'[s] + 1
<1>1. IInv' /\ TypeOK /\ TypeOK' /\ HTypeOK
  BY ScheduleStep DEF HSchedule, HIInv, IInv, TInv
<1>2. /\ \A s \in Slots :
           state[s] = "READY" /\ s # current_thread
             => /\ current_thread' \in Slots /\ current_thread' # current_thread
                /\ Dist(current_thread, current_thread') =< Dist(current_thread, s)
      /\ \A s \in Slots :
           state'[s] = "SLEEPING" => /\ state[s] = "SLEEPING" /\ sleep_ticks[s] > 0
                                     /\ sleep_ticks'[s] = sleep_ticks[s] - 1
      /\ \A s \in Slots :
           state[s] = "SLEEPING" /\ state'[s] # "SLEEPING" => sleep_ticks[s] = 0
  BY <1>1, ScheduleFromChooses DEF TypeOK, HSchedule, Schedule
<1>3. bypass' \in [Slots -> Nat] /\ BypassLeavesRoom' /\ IdleBypass'
  BY <1>1, <1>2, BypassStep DEF HIInv, HSchedule, Waits, TypeOK
<1>4. /\ asked' = asked /\ passed' \in [Slots -> Nat]
      /\ \A s \in Slots : state[s] = "SLEEPING" => passed'[s] = passed[s] + 1
  BY <1>1, OneMoreCounts DEF HIInv, HSchedule, HTypeOK
<1>5. SleepAccounted'
  BY <1>1, <1>2, <1>4 DEF HIInv, SleepAccounted, TypeOK, HTypeOK
<1>6. \A s \in Slots : state[s] = "SLEEPING" /\ state'[s] # "SLEEPING"
                         => passed'[s] = asked'[s] + 1
  BY <1>1, <1>2, <1>4 DEF HIInv, SleepAccounted, TypeOK, HTypeOK
<1> QED
  BY <1>1, <1>3, <1>4, <1>5, <1>6 DEF HIInv, HTypeOK

\* thread_sleep(ms): the current thread starts over, the others go on.
LEMMA HThreadSleepStep ==
  ASSUME HIInv, NEW ms \in Delays, HThreadSleep(ms)
  PROVE  /\ HIInv'
         /\ \A s \in Slots : state[s] = "SLEEPING" /\ state'[s] # "SLEEPING"
                               => passed'[s] = asked'[s] + 1
<1> DEFINE st == [state EXCEPT ![current_thread] = "SLEEPING"]
           sl == [sleep_ticks EXCEPT ![current_thread] = ms]
<1>1. /\ IInv' /\ TypeOK /\ TypeOK' /\ HTypeOK /\ ms \in Nat
      /\ current_thread \in Slots
  BY ThreadSleepStep, SchedulerAssumption
     DEF HThreadSleep, HIInv, IInv, TInv, ThreadSleep, TypeOK
<1>2. /\ st \in [Slots -> States] /\ sl \in [Slots -> Nat]
      /\ st[current_thread] = "SLEEPING" /\ sl[current_thread] = ms
      /\ \A s \in Slots \ {current_thread} : st[s] = state[s] /\ sl[s] = sleep_ticks[s]
  BY <1>1 DEF TypeOK, States
<1>3. ScheduleFrom(st, sl)
  BY DEF HThreadSleep, ThreadSleep
<1> HIDE DEF st, sl
<1>4. /\ \A s \in Slots :
           st[s] = "READY" /\ s # current_thread
             => /\ current_thread' \in Slots /\ current_thread' # current_thread
                /\ Dist(current_thread, current_thread') =< Dist(current_thread, s)
      /\ \A s \in Slots :
           state'[s] = "SLEEPING" => /\ st[s] = "SLEEPING" /\ sl[s] > 0
                                     /\ sleep_ticks'[s] = sl[s] - 1
      /\ \A s \in Slots :
           st[s] = "SLEEPING" /\ state'[s] # "SLEEPING" => sl[s] = 0
  BY <1>1, <1>2, <1>3, ScheduleFromChooses
<1>5. bypass' \in [Slots -> Nat] /\ BypassLeavesRoom' /\ IdleBypass'
  BY <1>1, <1>2, <1>4, BypassStep DEF HIInv, HThreadSleep, Waits, TypeOK
<1>6. /\ asked' = [asked EXCEPT ![current_thread] = ms] /\ passed' \in [Slots -> Nat]
      /\ passed'[current_thread] = 1
      /\ \A s \in Slots \ {current_thread} :
           state[s] = "SLEEPING" => passed'[s] = passed[s] + 1
  BY <1>1, OneMoreCounts DEF HIInv, HThreadSleep, HTypeOK
<1>7. asked' \in [Slots -> Nat] /\ asked'[current_thread] = ms
      /\ \A s \in Slots \ {current_thread} : asked'[s] = asked[s]
  BY <1>1, <1>6 DEF HTypeOK
<1>8. SleepAccounted'
  <2> SUFFICES ASSUME NEW s \in Slots, state'[s] = "SLEEPING"
               PROVE  passed'[s] + sleep_ticks'[s] = asked'[s]
    BY DEF SleepAccounted, Slots
  <2>1. CASE s = current_thread
    BY <2>1, <1>1, <1>2, <1>4, <1>6, <1>7
  <2>2. CASE s # current_thread
    BY <2>2, <1>1, <1>2, <1>4, <1>6, <1>7 DEF HIInv, SleepAccounted, TypeOK, HTypeOK
  <2> QED BY <2>1, <2>2
<1>9. ASSUME NEW s \in Slots, state[s] = "SLEEPING", state'[s] # "SLEEPING"
      PROVE  passed'[s] = asked'[s] + 1
  <2>1. CASE s = current_thread
    BY <1>9, <2>1, <1>1, <1>2, <1>4, <1>6, <1>7
  <2>2. CASE s # current_thread
    BY <1>9, <2>2, <1>1, <1>2, <1>4, <1>6, <1>7
       DEF HIInv, SleepAccounted, TypeOK, HTypeOK
  <2> QED BY <2>1, <2>2
<1> QED
  BY <1>1, <1>5, <1>6, <1>7, <1>8, <1>9 DEF HIInv, HTypeOK

\* Creating and terminating threads switches to nobody and wakes nobody.
LEMMA HThreadsStep ==
  ASSUME HIInv, HThreads
  PROVE  /\ HIInv'
         /\ \A s \in Slots : state[s] = "SLEEPING"
                               => state'[s] \in {"SLEEPING", "EMPTY"}
<1>1. IInv' /\ TypeOK /\ TypeOK' /\ HTypeOK
  BY CreateThreadStep, CreateThreadFailsStep, TerminateThreadStep
     DEF HThreads, HIInv, IInv, TInv
<1>2. /\ UNCHANGED <<current_thread, sleep_ticks, asked, passed>>
      /\ \A s \in Slots : /\ state'[s] = "SLEEPING" => state[s] = "SLEEPING"
                          /\ state[s] = "SLEEPING" => state'[s] \in {"SLEEPING", "EMPTY"}
  <2>1. UNCHANGED <<asked, passed>>
    BY DEF HThreads
  <2>2. CASE \E p \in Ptrs : CreateThread(p)
    BY <2>1, <2>2, <1>1 DEF CreateThread, ThreadAdded, FreeSlot, Live, TypeOK
  <2>3. CASE CreateThreadFails
    BY <2>1, <2>3 DEF CreateThreadFails, ThreadRefused
  <2>4. CASE \E i \in 1 .. MaxId : TerminateThread(i)
    BY <2>1, <2>4, <1>1 DEF TerminateThread, ThreadRemoved, TypeOK
  <2> QED BY <2>2, <2>3, <2>4 DEF HThreads
<1>3. bypass' \in [Slots -> Nat] /\ BypassLeavesRoom' /\ IdleBypass'
  BY <1>1, <1>2, BypassStep DEF HIInv, HThreads, TypeOK
<1>4. SleepAccounted'
  BY <1>2 DEF HIInv, SleepAccounted
<1> QED
  BY <1>1, <1>2, <1>3, <1>4 DEF HIInv, HTypeOK

LEMMA HInitInv == HInit => HIInv
<1> SUFFICES ASSUME HInit PROVE HIInv
  OBVIOUS
<1>1. IInv /\ HTypeOK /\ SleepAccounted
  BY InitIInv DEF HInit, Init, HTypeOK, SleepAccounted
<1>2. BypassLeavesRoom /\ IdleBypass
  BY DistBound, SchedulerAssumption DEF HInit, Init, BypassLeavesRoom, IdleBypass
<1> QED BY <1>1, <1>2 DEF HIInv

LEMMA HNextInv ==
  HIInv /\ [HNext]_hvars
    => /\ HIInv'
       /\ \A s \in Slots : state[s] = "SLEEPING" /\ state'[s] \in {"READY", "RUNNING"}
                             => passed'[s] = asked'[s] + 1
<1> SUFFICES ASSUME HIInv, [HNext]_hvars
             PROVE  /\ HIInv'
                    /\ \A s \in Slots :
                         state[s] = "SLEEPING" /\ state'[s] \in {"READY", "RUNNING"}
                           => passed'[s] = asked'[s] + 1
  OBVIOUS
<1>1. CASE HThreads
  BY <1>1, HThreadsStep
<1>2. CASE HSchedule
  BY <1>2, HScheduleStep
<1>3. CASE \E ms \in Delays : HThreadSleep(ms)
  BY <1>3, HThreadSleepStep
<1>4. CASE UNCHANGED hvars
  <2>1. IInv'
    BY <1>4, StutterStep DEF HIInv, hvars
  <2> QED
    BY <1>4, <2>1 DEF HIInv, HTypeOK, BypassLeavesRoom, IdleBypass,
                      SleepAccounted, hvars, hist, vars, tvars
<1> QED
  BY <1>1, <1>2, <1>3, <1>4 DEF HNext

\* A ready thread is left waiting by at most MAX_THREADS - 1 calls of schedule, for
\* any number of threads and any sequence of calls.
THEOREM SchedulerBoundedBypass == HSpec => []BoundedBypass
<1>1. HIInv => BoundedBypass
  <2> SUFFICES ASSUME HIInv, NEW s \in Slots PROVE bypass[s] =< MaxThreads - 1
    BY DEF BoundedBypass
  <2>1. CASE state[s] = "READY" /\ s # current_thread
    BY <2>1, DistBound, SchedulerAssumption
       DEF HIInv, IInv, TInv, TypeOK, HTypeOK, BypassLeavesRoom
  <2>2. CASE ~(state[s] = "READY" /\ s # current_thread)
    BY <2>2, SchedulerAssumption DEF HIInv, IdleBypass
  <2> QED BY <2>1, <2>2
<1> QED
  BY <1>1, HInitInv, HNextInv, PTL DEF HSpec

\* A sleeper is woken by the call of schedule it asked for, no other.
THEOREM SchedulerSleepExact == HSpec => SleepExact
BY HInitInv, HNextInv, PTL DEF HSpec, SleepExact

-------------------------------------------------------------------------------
(* The process table over the thread table.                                 *)

UsedProcs == {p \in Procs : Used(p)}
InUse     == ThreadStacks \cup UserStacksInUse \cup held

(* MemoryOwned but for the heap: what the tables hold is held once.         *)
BlocksApart ==
  /\ ThreadStacks \cap UserStacksInUse = {}
  /\ (ThreadStacks \cup UserStacksInUse) \cap held = {}
  /\ \A p, q \in Procs : Used(p) /\ Used(q) /\ user_stack[p] = user_stack[q]
                           /\ user_stack[p] # NULL => p = q

(* No process lists a thread that is still to be created.                   *)
ThreadsGiven == \A p \in Procs : thread[p] < next_thread_id

(* The tables, whoever else has blocks of the heap.                         *)
PTable == /\ PTypeOK /\ TInv /\ BlocksApart
          /\ ThreadsGiven /\ ProcessThreadsLive /\ CountsNeverHigh

PInv == PTable /\ allocated = InUse

LEMMA ProcFacts == Procs \subseteq Nat /\ 0 \in Procs
BY ProcessAssumption DEF Procs

LEMMA UsedProcsFinite ==
  /\ IsFiniteSet(UsedProcs) /\ Cardinality(UsedProcs) \in Nat
  /\ IsFiniteSet(UsedProcs') /\ Cardinality(UsedProcs') \in Nat
<1>1. IsFiniteSet(Procs)
  BY FS_Interval, ProcessAssumption DEF Procs
<1>2. UsedProcs \in SUBSET Procs /\ UsedProcs' \in SUBSET Procs
  BY DEF UsedProcs, Procs
<1>3. IsFiniteSet(UsedProcs) /\ IsFiniteSet(UsedProcs')
  BY <1>1, <1>2, FS_Subset
<1> QED
  BY <1>3, FS_CardinalityType

LEMMA InitPInv == PInit => PInv
<1> SUFFICES ASSUME PInit PROVE PInv
  OBVIOUS
<1>1. TInv
  BY InitIInv DEF PInit, IInv
<1>2. PTypeOK
  BY <1>1 DEF PInit, TInv, PTypeOK, NoThread, NULL
<1>3. ThreadStacks = {} /\ UserStacksInUse = {} /\ held = {}
  BY DEF PInit, Init, ThreadStacks, UserStacksInUse
<1>4. BlocksApart /\ ThreadsGiven /\ ProcessThreadsLive
  BY <1>3 DEF PInit, Init, BlocksApart, ThreadsGiven, ProcessThreadsLive, NoThread, NULL
<1>5. UsedProcs = {0}
  BY ProcFacts DEF PInit, UsedProcs, Used
<1>6. CountsNeverHigh
  <2>1. Cardinality(UsedProcs) = 1
    BY <1>5, FS_Singleton
  <2>2. proc_count =< Cardinality(UsedProcs)
    BY <2>1 DEF PInit
  <2> QED BY <1>1, <2>2 DEF CountsNeverHigh, UsedProcs, TInv
<1>7. allocated = InUse
  BY <1>3 DEF PInit, Init, InUse
<1> QED
  BY <1>1, <1>2, <1>4, <1>6, <1>7 DEF PInv, PTable

------------------------------------------------------------------------------
\* What create_process writes into the slot it finds.
LEMMA ProcessFilledTable ==
  ASSUME PTable, NEW p \in Procs, NEW u \in Ptrs \cup {NULL}, NEW t \in Nat,
         ProcessFilled(p, u, t), proc_count' \in {proc_count, proc_count + 1}
  PROVE  /\ pstate' \in [Procs -> {"EMPTY", "RUNNING"}]
         /\ pid' \in [Procs -> Nat] /\ parent_pid' \in [Procs -> Nat]
         /\ thread' = [thread EXCEPT ![p] = t]
         /\ user_stack' = [user_stack EXCEPT ![p] = u]
         /\ proc_count' \in Nat /\ next_pid' \in Nat /\ held' = held
         /\ ~Used(p)
         /\ \A q \in Procs : Used(q)' <=> Used(q) \/ q = p
         /\ UserStacksInUse' = UserStacksInUse \cup ({u} \ {NULL})
         /\ proc_count' =< Cardinality(UsedProcs')
<1>1. /\ pstate' = [pstate EXCEPT ![p] = "RUNNING"]
      /\ pid' = [pid EXCEPT ![p] = next_pid]
      /\ parent_pid' = [parent_pid EXCEPT ![p] = pid'[CurrentProc]]
      /\ user_stack' = [user_stack EXCEPT ![p] = u]
      /\ thread' = [thread EXCEPT ![p] = t]
      /\ next_pid' = next_pid + 1
      /\ held' = held
      /\ ~Used(p)
  BY DEF ProcessFilled, FreeProcSlot
<1>2. /\ pstate \in [Procs -> {"EMPTY", "RUNNING"}]
      /\ pid \in [Procs -> Nat] /\ parent_pid \in [Procs -> Nat]
      /\ user_stack \in [Procs -> Ptrs \cup {NULL}]
      /\ proc_count \in Nat /\ next_pid \in Nat
  BY DEF PTable, PTypeOK
<1>3. pstate' \in [Procs -> {"EMPTY", "RUNNING"}] /\ pid' \in [Procs -> Nat]
  BY <1>1, <1>2
<1>4. parent_pid' \in [Procs -> Nat]
  BY <1>1, <1>2, <1>3, ProcFacts DEF CurrentProc
<1>5. \A q \in Procs : Used(q)' <=> Used(q) \/ q = p
  BY <1>1, <1>2 DEF Used
<1>6. UserStacksInUse' = UserStacksInUse \cup ({u} \ {NULL})
  <2>1. \A q \in Procs : q # p => user_stack'[q] = user_stack[q]
    BY <1>1, <1>2
  <2>2. user_stack'[p] = u
    BY <1>1, <1>2
  <2>3. UserStacksInUse' = {user_stack'[q] : q \in {r \in Procs : Used(r)'}} \ {NULL}
    BY DEF UserStacksInUse, Procs
  <2> QED BY <1>1, <1>5, <2>1, <2>2, <2>3 DEF UserStacksInUse
<1>7. proc_count' =< Cardinality(UsedProcs')
  <2>1. UsedProcs' = UsedProcs \cup {p} /\ p \notin UsedProcs
    BY <1>1, <1>5 DEF UsedProcs, Procs
  <2>2. Cardinality(UsedProcs') = Cardinality(UsedProcs) + 1
    BY <2>1, UsedProcsFinite, FS_AddElement
  <2>3. proc_count =< Cardinality(UsedProcs)
    BY DEF PTable, CountsNeverHigh, UsedProcs
  <2> QED BY <1>2, <2>2, <2>3, UsedProcsFinite
<1>8. proc_count' \in Nat /\ next_pid' \in Nat
  BY <1>1, <1>2
<1> QED
  BY <1>1, <1>3, <1>4, <1>5, <1>6, <1>7, <1>8

\* The user stack of a new process is a block nobody holds, or NULL.
LEMMA UserStackFresh ==
  ASSUME PInv, NEW priv, NEW u \in UserStacks(priv)
  PROVE  u \in Ptrs \cup {NULL} /\ (u # NULL => u \notin allocated)
BY DEF UserStacks

\* create_process with a thread.
LEMMA CreateProcessStep ==
  ASSUME PInv, NEW priv, NEW p \in Procs, CreateProcess(priv, p) PROVE PInv'
<1>1. PICK u \in UserStacks(priv) : \E k \in Ptrs \ (allocated \cup {u}) :
        /\ ProcessFilled(p, u, next_thread_id)
        /\ \E s \in Slots : ThreadAdded(s, k)
        /\ allocated' = (allocated \cup {u, k}) \ {NULL}
        /\ proc_count' = proc_count + 1
  BY DEF CreateProcess
<1>2. PICK k \in Ptrs \ (allocated \cup {u}) :
        /\ ProcessFilled(p, u, next_thread_id)
        /\ \E s \in Slots : ThreadAdded(s, k)
        /\ allocated' = (allocated \cup {u, k}) \ {NULL}
        /\ proc_count' = proc_count + 1
  BY <1>1
<1>3. PICK s \in Slots : ThreadAdded(s, k)
  BY <1>2
<1>4. /\ PTable /\ TInv /\ TypeOK /\ allocated = InUse /\ NULL \notin Ptrs
      /\ allocated \subseteq Ptrs
  BY SchedulerAssumption DEF PInv, PTable, TInv, TypeOK
<1>5. u \in Ptrs \cup {NULL} /\ (u # NULL => u \notin allocated)
  BY UserStackFresh
<1>6. k # NULL /\ k # u /\ k \notin allocated /\ allocated' \subseteq Ptrs
  BY <1>2, <1>4, <1>5
<1>7. ThreadStacks = Stacks /\ ThreadStacks' = Stacks'
  BY DEF ThreadStacks, Stacks
<1>8. /\ TInv'
      /\ ~Live(s) /\ stack[s] = NULL
      /\ stack' = [stack EXCEPT ![s] = k]
      /\ id' = [id EXCEPT ![s] = next_thread_id]
      /\ next_thread_id' = next_thread_id + 1
      /\ \A r \in Slots : Live(r)' <=> Live(r) \/ r = s
  <2>1. k \notin Stacks
    BY <1>4, <1>6, <1>7 DEF InUse
  <2> QED BY <1>3, <1>4, <1>6, <2>1, ThreadAddedTable
<1>9. /\ stack \in [Slots -> Ptrs \cup {NULL}] /\ id \in [Slots -> Nat]
      /\ next_thread_id \in Nat \ {0}
  BY <1>4 DEF TypeOK
<1>10. ThreadStacks' = ThreadStacks \cup {k}
  BY <1>6, <1>8, <1>9 DEF ThreadStacks, Slots
<1>11. /\ pstate' \in [Procs -> {"EMPTY", "RUNNING"}]
       /\ pid' \in [Procs -> Nat] /\ parent_pid' \in [Procs -> Nat]
       /\ thread' = [thread EXCEPT ![p] = next_thread_id]
       /\ user_stack' = [user_stack EXCEPT ![p] = u]
       /\ proc_count' \in Nat /\ next_pid' \in Nat /\ held' = held
       /\ ~Used(p)
       /\ \A q \in Procs : Used(q)' <=> Used(q) \/ q = p
       /\ UserStacksInUse' = UserStacksInUse \cup ({u} \ {NULL})
       /\ proc_count' =< Cardinality(UsedProcs')
  BY <1>2, <1>4, <1>5, <1>9, ProcessFilledTable
<1>12. /\ thread \in [Procs -> Nat] /\ user_stack \in [Procs -> Ptrs \cup {NULL}]
       /\ held \subseteq Ptrs
  BY <1>4 DEF PTable, PTypeOK
<1>13. PTypeOK'
  BY <1>5, <1>8, <1>9, <1>11, <1>12 DEF PTypeOK, TInv
<1>14. allocated' = InUse'
  BY <1>2, <1>4, <1>10, <1>11 DEF InUse
<1>15. BlocksApart'
  <2>1. k \notin InUse /\ u \notin InUse \ {NULL} /\ NULL \notin InUse
    BY <1>4, <1>5, <1>6
  <2>2. /\ ThreadStacks' \cap UserStacksInUse' = {}
        /\ (ThreadStacks' \cup UserStacksInUse') \cap held' = {}
    BY <1>4, <1>6, <1>10, <1>11, <2>1 DEF PTable, BlocksApart, InUse
  <2>3. ASSUME NEW q \in Procs, NEW r \in Procs, Used(q)', Used(r)',
               user_stack'[q] = user_stack'[r], user_stack'[q] # NULL
        PROVE  q = r
    <3>1. \A x \in Procs : Used(x) /\ user_stack[x] # NULL => user_stack[x] \in InUse
      BY DEF InUse, UserStacksInUse
    <3> QED
      BY <1>4, <1>11, <1>12, <2>1, <2>3, <3>1 DEF PTable, BlocksApart
  <2> QED BY <2>2, <2>3 DEF BlocksApart, Procs
<1>16. ThreadsGiven'
  BY <1>4, <1>8, <1>9, <1>11, <1>12 DEF PTable, ThreadsGiven, Procs
<1>17. ProcessThreadsLive'
  <2> SUFFICES ASSUME NEW q \in Procs, Used(q)', thread'[q] # NoThread
               PROVE  /\ \E r \in Slots : Holds(r, thread[q])'
                      /\ \A r \in Procs : Used(r)' /\ thread'[r] = thread'[q] => q = r
    BY DEF ProcessThreadsLive, Procs, Slots
  <2>1. \A r \in Procs : r # p => thread'[r] = thread[r] /\ thread'[r] < next_thread_id
    BY <1>4, <1>11, <1>12 DEF PTable, ThreadsGiven
  <2>2. thread'[p] = next_thread_id
    BY <1>11, <1>12
  <2>3. CASE q = p
    <3>1. Holds(s, thread[q])'
      BY <1>8, <1>9, <2>2, <2>3 DEF Holds
    <3> QED BY <1>9, <2>1, <2>2, <2>3, <3>1
  <2>4. CASE q # p
    <3>1. Used(q) /\ thread[q] # NoThread /\ thread'[q] = thread[q]
      BY <1>11, <2>1, <2>4
    <3>2. PICK r \in Slots : Holds(r, thread[q])
      BY <1>4, <3>1 DEF PTable, ProcessThreadsLive
    <3>3. Holds(r, thread[q])'
      BY <1>8, <1>9, <3>1, <3>2 DEF Holds
    <3>4. \A x \in Procs : Used(x)' /\ thread'[x] = thread'[q] => q = x
      BY <1>4, <1>9, <1>11, <1>12, <2>1, <2>2, <2>4, <3>1 DEF PTable, ProcessThreadsLive
    <3> QED BY <3>3, <3>4
  <2> QED BY <2>3, <2>4
<1>18. CountsNeverHigh'
  BY <1>8, <1>11 DEF CountsNeverHigh, TInv, UsedProcs
<1> QED
  BY <1>8, <1>13, <1>14, <1>15, <1>16, <1>17, <1>18 DEF PInv, PTable

\* A process without a thread, counted or not.
LEMMA FilledWithoutThread ==
  ASSUME PInv, NEW p \in Procs, NEW u \in Ptrs \cup {NULL}, u # NULL => u \notin allocated,
         ProcessFilled(p, u, NoThread), UNCHANGED tvars,
         allocated' = (allocated \cup {u}) \ {NULL},
         proc_count' \in {proc_count, proc_count + 1}
  PROVE  PInv'
<1>1. /\ PTable /\ TInv /\ TypeOK /\ allocated = InUse /\ NULL \notin Ptrs
      /\ allocated \subseteq Ptrs /\ allocated' \subseteq Ptrs
      /\ next_thread_id \in Nat \ {0} /\ NoThread \in Nat
  BY SchedulerAssumption DEF PInv, PTable, TInv, TypeOK, NoThread
<1>2. TInv'
  BY <1>1, TableStutter
<1>3. ThreadStacks' = ThreadStacks /\ UNCHANGED <<id, next_thread_id>>
      /\ \A r \in Slots : Live(r)' <=> Live(r)
  BY DEF ThreadStacks, Live, tvars
<1>4. /\ pstate' \in [Procs -> {"EMPTY", "RUNNING"}]
      /\ pid' \in [Procs -> Nat] /\ parent_pid' \in [Procs -> Nat]
      /\ thread' = [thread EXCEPT ![p] = NoThread]
      /\ user_stack' = [user_stack EXCEPT ![p] = u]
      /\ proc_count' \in Nat /\ next_pid' \in Nat /\ held' = held
      /\ ~Used(p)
      /\ \A q \in Procs : Used(q)' <=> Used(q) \/ q = p
      /\ UserStacksInUse' = UserStacksInUse \cup ({u} \ {NULL})
      /\ proc_count' =< Cardinality(UsedProcs')
  BY <1>1, ProcessFilledTable
<1>5. /\ thread \in [Procs -> Nat] /\ user_stack \in [Procs -> Ptrs \cup {NULL}]
      /\ held \subseteq Ptrs
  BY <1>1 DEF PTable, PTypeOK
<1>6. PTypeOK'
  BY <1>1, <1>2, <1>4, <1>5 DEF PTypeOK, TInv
<1>7. allocated' = InUse'
  BY <1>1, <1>3, <1>4 DEF InUse
<1>8. BlocksApart'
  <2>1. u \notin InUse \ {NULL} /\ NULL \notin InUse
    BY <1>1
  <2>2. /\ ThreadStacks' \cap UserStacksInUse' = {}
        /\ (ThreadStacks' \cup UserStacksInUse') \cap held' = {}
    BY <1>1, <1>3, <1>4, <2>1 DEF PTable, BlocksApart, InUse
  <2>3. ASSUME NEW q \in Procs, NEW r \in Procs, Used(q)', Used(r)',
               user_stack'[q] = user_stack'[r], user_stack'[q] # NULL
        PROVE  q = r
    <3>1. \A x \in Procs : Used(x) /\ user_stack[x] # NULL => user_stack[x] \in InUse
      BY DEF InUse, UserStacksInUse
    <3> QED
      BY <1>1, <1>4, <1>5, <2>1, <2>3, <3>1 DEF PTable, BlocksApart
  <2> QED BY <2>2, <2>3 DEF BlocksApart, Procs
<1>9. ThreadsGiven'
  BY <1>1, <1>3, <1>4, <1>5 DEF PTable, ThreadsGiven, Procs, NoThread
<1>10. ProcessThreadsLive'
  <2> SUFFICES ASSUME NEW q \in Procs, Used(q)', thread'[q] # NoThread
               PROVE  /\ \E r \in Slots : Holds(r, thread[q])'
                      /\ \A r \in Procs : Used(r)' /\ thread'[r] = thread'[q] => q = r
    BY DEF ProcessThreadsLive, Procs, Slots
  <2>1. q # p /\ Used(q) /\ thread'[q] = thread[q] /\ thread[q] # NoThread
    BY <1>4, <1>5
  <2>2. PICK r \in Slots : Holds(r, thread[q])
    BY <1>1, <2>1 DEF PTable, ProcessThreadsLive
  <2>3. Holds(r, thread[q])'
    BY <1>3, <2>1, <2>2 DEF Holds
  <2>4. \A x \in Procs : Used(x)' /\ thread'[x] = thread'[q] => q = x
    BY <1>1, <1>4, <1>5, <2>1 DEF PTable, ProcessThreadsLive
  <2> QED BY <2>3, <2>4
<1>11. CountsNeverHigh'
  BY <1>2, <1>4 DEF CountsNeverHigh, TInv, UsedProcs
<1> QED
  BY <1>2, <1>6, <1>7, <1>8, <1>9, <1>10, <1>11 DEF PInv, PTable

\* create_process when its create_thread fails, and when its user stack does.
LEMMA CreateThreadlessStep ==
  ASSUME PInv, NEW priv, NEW p \in Procs, CreateThreadless(priv, p) PROVE PInv'
<1>1. PICK u \in UserStacks(priv) :
        /\ ProcessFilled(p, u, NoThread)
        /\ ThreadRefused
        /\ allocated' = (allocated \cup {u}) \ {NULL}
        /\ proc_count' = proc_count + 1
  BY DEF CreateThreadless
<1>2. UNCHANGED tvars
  BY <1>1, ThreadRefusedTable DEF PInv, PTable
<1>3. u \in Ptrs \cup {NULL} /\ (u # NULL => u \notin allocated)
  BY UserStackFresh
<1> QED
  BY <1>1, <1>2, <1>3, FilledWithoutThread

LEMMA CreateUserStackFailsStep ==
  ASSUME PInv, NEW p \in Procs, CreateUserStackFails(p) PROVE PInv'
<1>1. /\ ProcessFilled(p, NULL, NoThread) /\ UNCHANGED tvars
      /\ allocated' = allocated /\ proc_count' = proc_count
  BY DEF CreateUserStackFails, vars
<1>2. allocated' = (allocated \cup {NULL}) \ {NULL}
  BY <1>1, SchedulerAssumption DEF PInv, PTable, TInv, TypeOK
<1> QED
  BY <1>1, <1>2, FilledWithoutThread

LEMMA UserProcessStep == ASSUME PInv, UserProcess PROVE PInv'
BY CreateProcessStep, CreateThreadlessStep, CreateUserStackFailsStep DEF UserProcess

LEMMA KernelProcessStep == ASSUME PInv, KernelProcess PROVE PInv'
BY CreateProcessStep, CreateThreadlessStep DEF KernelProcess

\* What terminate_process does to its own table.
LEMMA ProcessRemovedTable ==
  ASSUME PTable, NEW p \in Procs, Used(p), ProcessRemoved(p)
  PROVE  /\ pstate' \in [Procs -> {"EMPTY", "RUNNING"}]
         /\ UNCHANGED <<pid, parent_pid, thread, user_stack, next_pid, held>>
         /\ proc_count' \in Nat
         /\ \A q \in Procs : Used(q)' <=> Used(q) /\ q # p
         /\ UserStacksInUse' = UserStacksInUse \ {user_stack[p]}
         /\ proc_count' =< Cardinality(UsedProcs')
<1>1. /\ pstate' = [pstate EXCEPT ![p] = "EMPTY"]
      /\ proc_count' = ProcCountLess
      /\ UNCHANGED <<pid, parent_pid, thread, user_stack, next_pid, held>>
  BY DEF ProcessRemoved
<1>2. pstate \in [Procs -> {"EMPTY", "RUNNING"}] /\ proc_count \in Nat
  BY DEF PTable, PTypeOK
<1>3. pstate' \in [Procs -> {"EMPTY", "RUNNING"}] /\ proc_count' \in Nat
  BY <1>1, <1>2 DEF ProcCountLess
<1>4. \A q \in Procs : Used(q)' <=> Used(q) /\ q # p
  BY <1>1, <1>2 DEF Used
<1>5. UserStacksInUse' = UserStacksInUse \ {user_stack[p]}
  <2>1. UserStacksInUse' = {user_stack[q] : q \in {r \in Procs : Used(r)'}} \ {NULL}
    BY <1>1 DEF UserStacksInUse, Procs
  <2> QED BY <1>4, <2>1 DEF PTable, BlocksApart, UserStacksInUse
<1>6. proc_count' =< Cardinality(UsedProcs')
  <2>1. UsedProcs' = UsedProcs \ {p} /\ p \in UsedProcs
    BY <1>4 DEF UsedProcs, Procs
  <2>2. Cardinality(UsedProcs') = Cardinality(UsedProcs) - 1
    BY <2>1, UsedProcsFinite, FS_RemoveElement
  <2>3. proc_count =< Cardinality(UsedProcs)
    BY DEF PTable, CountsNeverHigh, UsedProcs
  <2> QED BY <1>1, <1>2, <2>2, <2>3, UsedProcsFinite DEF ProcCountLess
<1> QED
  BY <1>1, <1>3, <1>4, <1>5, <1>6

\* terminate_process ends the thread of that process and no other, and gives back
\* its two stacks.
LEMMA ProcessRemovedStep ==
  ASSUME PInv, NEW p \in Procs, Used(p), ProcessRemoved(p) PROVE PInv'
<1>1. /\ PTable /\ TInv /\ TypeOK /\ allocated = InUse /\ NULL \notin Ptrs
      /\ allocated \subseteq Ptrs /\ PTypeOK /\ BlocksApart
      /\ ThreadsGiven /\ ProcessThreadsLive
  BY SchedulerAssumption DEF PInv, PTable, TInv, TypeOK
<1>2. /\ pstate' \in [Procs -> {"EMPTY", "RUNNING"}]
      /\ UNCHANGED <<pid, parent_pid, thread, user_stack, next_pid, held>>
      /\ proc_count' \in Nat
      /\ \A q \in Procs : Used(q)' <=> Used(q) /\ q # p
      /\ UserStacksInUse' = UserStacksInUse \ {user_stack[p]}
      /\ proc_count' =< Cardinality(UsedProcs')
  BY <1>1, ProcessRemovedTable
<1>3. /\ TInv'
      /\ allocated' = InUse'
      /\ ThreadStacks' \subseteq ThreadStacks
      /\ UNCHANGED <<id, next_thread_id>>
      /\ \A r \in Slots : Live(r)' <=> Live(r) /\ (thread[p] # NoThread => id[r] # thread[p])
  <2>1. CASE \E s \in Slots : Holds(s, thread[p]) /\ thread[p] # NoThread
    <3>1. PICK s \in Slots : /\ Holds(s, thread[p]) /\ thread[p] # NoThread
                             /\ ThreadRemoved(s)
                             /\ allocated' = allocated \ {stack[s], user_stack[p]}
      BY <2>1 DEF ProcessRemoved
    <3>2. Live(s) /\ id[s] = thread[p] /\ id[s] # 0 /\ allocated' \subseteq Ptrs
      BY <1>1, <3>1 DEF Holds, NoThread
    <3>3. /\ TInv'
          /\ stack' = [stack EXCEPT ![s] = NULL]
          /\ UNCHANGED <<id, next_thread_id>>
          /\ \A r \in Slots : Live(r)' <=> Live(r) /\ r # s
      BY <1>1, <3>1, <3>2, ThreadRemovedTable
    <3>4. ThreadStacks' = ThreadStacks \ {stack[s]}
      BY <1>1, <3>3 DEF TInv, TypeOK, StacksApart, ThreadStacks, Slots
    <3>5. \A r \in Slots : id[r] = id[s] => r = s
      BY <1>1, <3>2 DEF TInv, IdsGiven
    <3>6. allocated' = InUse'
      <4>1. stack[s] = NULL \/ stack[s] \in ThreadStacks
        BY DEF ThreadStacks
      <4>2. user_stack[p] = NULL \/ user_stack[p] \in UserStacksInUse
        BY DEF UserStacksInUse
      <4>3. NULL \notin InUse
        BY <1>1
      <4> QED
        BY <1>1, <1>2, <3>1, <3>4, <4>1, <4>2, <4>3 DEF InUse, BlocksApart
    <3> QED BY <3>1, <3>2, <3>3, <3>4, <3>5, <3>6
  <2>2. CASE ~\E s \in Slots : Holds(s, thread[p]) /\ thread[p] # NoThread
    <3>1. UNCHANGED tvars /\ allocated' = allocated \ {user_stack[p]}
      BY <2>2 DEF ProcessRemoved
    <3>2. thread[p] = NoThread
      BY <1>1, <2>2 DEF ProcessThreadsLive
    <3>3. TInv'
      BY <1>1, <3>1, TableStutter
    <3>4. ThreadStacks' = ThreadStacks /\ UNCHANGED <<id, next_thread_id>>
          /\ \A r \in Slots : Live(r)' <=> Live(r)
      BY <3>1 DEF ThreadStacks, Live, tvars
    <3>5. allocated' = InUse'
      <4>1. user_stack[p] = NULL \/ user_stack[p] \in UserStacksInUse
        BY DEF UserStacksInUse
      <4>2. NULL \notin InUse
        BY <1>1
      <4> QED BY <1>1, <1>2, <3>1, <3>4, <4>1, <4>2 DEF InUse, BlocksApart
    <3> QED BY <3>2, <3>3, <3>4, <3>5
  <2> QED BY <2>1, <2>2
<1>4. PTypeOK'
  BY <1>1, <1>2, <1>3 DEF PTypeOK, TInv
<1>5. BlocksApart'
  <2>1. /\ ThreadStacks' \cap UserStacksInUse' = {}
        /\ (ThreadStacks' \cup UserStacksInUse') \cap held' = {}
    BY <1>1, <1>2, <1>3 DEF BlocksApart
  <2>2. \A q, r \in Procs : Used(q)' /\ Used(r)' /\ user_stack'[q] = user_stack'[r]
                              /\ user_stack'[q] # NULL => q = r
    BY <1>1, <1>2 DEF BlocksApart
  <2> QED BY <2>1, <2>2 DEF BlocksApart, Procs
<1>6. ThreadsGiven'
  BY <1>1, <1>2, <1>3 DEF ThreadsGiven, Procs
<1>7. ProcessThreadsLive'
  <2> SUFFICES ASSUME NEW q \in Procs, Used(q)', thread'[q] # NoThread
               PROVE  /\ \E r \in Slots : Holds(r, thread[q])'
                      /\ \A r \in Procs : Used(r)' /\ thread'[r] = thread'[q] => q = r
    BY DEF ProcessThreadsLive, Procs, Slots
  <2>1. q # p /\ Used(q) /\ thread'[q] = thread[q] /\ thread[q] # NoThread
    BY <1>2
  <2>2. /\ \E r \in Slots : Holds(r, thread[q])
        /\ \A r \in Procs : Used(r) /\ thread[r] = thread[q] => q = r
    BY <1>1, <2>1 DEF ProcessThreadsLive
  <2>3. PICK r \in Slots : Holds(r, thread[q])
    BY <2>2
  <2>4. Holds(r, thread[q])'
    BY <1>2, <1>3, <2>1, <2>2, <2>3 DEF Holds
  <2> QED BY <1>2, <2>1, <2>2, <2>4
<1>8. CountsNeverHigh'
  BY <1>2, <1>3 DEF CountsNeverHigh, TInv, UsedProcs
<1> QED
  BY <1>3, <1>4, <1>5, <1>6, <1>7, <1>8 DEF PInv, PTable

LEMMA TerminateProcessStep ==
  ASSUME PInv, NEW i, TerminateProcess(i) PROVE PInv'
BY ProcessRemovedStep DEF TerminateProcess

------------------------------------------------------------------------------
\* Calls that leave the process table alone, and may bring a thread back.
LEMMA ThreadsOnlyStep ==
  ASSUME PInv, TInv', UNCHANGED <<ptable, held>>,
         \A s \in Slots : Live(s) => Live(s)',
         UNCHANGED <<id, stack, next_thread_id, allocated>>
  PROVE  PInv'
<1>1. PTypeOK'
  BY DEF PInv, PTable, PTypeOK, TInv, ptable
<1>2. InUse' = InUse /\ BlocksApart'
  BY DEF PInv, PTable, BlocksApart, InUse, ThreadStacks, UserStacksInUse, Used, ptable
<1>3. ThreadsGiven'
  BY DEF PInv, PTable, ThreadsGiven, ptable
<1>4. ProcessThreadsLive'
  <2> SUFFICES ASSUME NEW q \in Procs, Used(q), thread[q] # NoThread
               PROVE  /\ \E r \in Slots : Holds(r, thread[q])'
                      /\ \A r \in Procs : Used(r) /\ thread[r] = thread[q] => q = r
    BY DEF ProcessThreadsLive, Used, ptable
  <2>1. PICK r \in Slots : Holds(r, thread[q])
    BY DEF PInv, PTable, ProcessThreadsLive
  <2>2. Holds(r, thread[q])'
    BY <2>1 DEF Holds, ptable
  <2> QED BY <2>2 DEF PInv, PTable, ProcessThreadsLive
<1>5. CountsNeverHigh'
  BY DEF PInv, PTable, CountsNeverHigh, TInv, Used, ptable
<1> QED BY <1>1, <1>2, <1>3, <1>4, <1>5 DEF PInv, PTable

LEMMA SysSleepStep == ASSUME PInv, NEW ms \in Delays, SysSleep(ms) PROVE PInv'
BY ThreadSleepTable, ThreadsOnlyStep DEF PInv, PTable, SysSleep

LEMMA TickStep == ASSUME PInv, Tick PROVE PInv'
BY ScheduleTable, ThreadsOnlyStep DEF PInv, PTable, Tick

\* The tables do not depend on the heap they are beside.
LEMMA PTableBeside ==
  ASSUME PTable, UNCHANGED <<tvars, ptable, held>>, allocated' \subseteq Ptrs
  PROVE  PTable' /\ InUse' = InUse
<1>1. TInv'
  BY TableStutter DEF PTable
<1>2. PTypeOK'
  BY <1>1 DEF PTable, PTypeOK, TInv, ptable
<1>3. InUse' = InUse /\ BlocksApart'
  BY DEF PTable, BlocksApart, InUse, ThreadStacks, UserStacksInUse, Used, ptable, tvars
<1>4. ThreadsGiven'
  BY DEF PTable, ThreadsGiven, ptable, tvars
<1>5. ProcessThreadsLive'
  BY DEF PTable, ProcessThreadsLive, Holds, Live, Used, ptable, tvars
<1>6. CountsNeverHigh'
  BY <1>1 DEF PTable, CountsNeverHigh, TInv, Used, ptable
<1> QED BY <1>1, <1>2, <1>3, <1>4, <1>5, <1>6 DEF PTable

\* So do the blocks of programs, as long as nobody else has them.
LEMMA HeldStep ==
  ASSUME PInv, UNCHANGED <<tvars, ptable>>, NEW k \in Ptrs,
         \/ k \notin allocated /\ allocated' = allocated \cup {k} /\ held' = held \cup {k}
         \/ k \in held /\ allocated' = allocated \ {k} /\ held' = held \ {k}
  PROVE  PInv'
<1>1. allocated' \subseteq Ptrs /\ held' \subseteq Ptrs
  BY DEF PInv, PTable, PTypeOK, TypeOK
<1>2. TInv'
  BY <1>1, TableStutter DEF PInv, PTable
<1>3. PTypeOK'
  BY <1>1, <1>2 DEF PInv, PTable, PTypeOK, TInv, ptable
<1>4. ThreadStacks' = ThreadStacks /\ UserStacksInUse' = UserStacksInUse
  BY DEF ThreadStacks, UserStacksInUse, Used, ptable, tvars
<1>5. allocated' = InUse'
  BY <1>4 DEF PInv, PTable, BlocksApart, InUse
<1>6. BlocksApart'
  <2>1. /\ ThreadStacks \cap UserStacksInUse = {}
        /\ (ThreadStacks \cup UserStacksInUse) \cap held' = {}
    BY DEF PInv, PTable, BlocksApart, InUse
  <2>2. \A p, q \in Procs : Used(p)' /\ Used(q)' /\ user_stack'[p] = user_stack'[q]
                              /\ user_stack'[p] # NULL => p = q
    BY DEF PInv, PTable, BlocksApart, Used, ptable
  <2> QED BY <1>4, <2>1, <2>2 DEF BlocksApart
<1>7. ThreadsGiven'
  BY DEF PInv, PTable, ThreadsGiven, ptable, tvars
<1>8. ProcessThreadsLive'
  BY DEF PInv, PTable, ProcessThreadsLive, Holds, Live, Used, ptable, tvars
<1>9. CountsNeverHigh'
  BY <1>2 DEF PInv, PTable, CountsNeverHigh, TInv, Used, ptable
<1> QED
  BY <1>2, <1>3, <1>5, <1>6, <1>7, <1>8, <1>9 DEF PInv, PTable

LEMMA SysMallocStep == ASSUME PInv, NEW k \in Ptrs, SysMalloc(k) PROVE PInv'
BY HeldStep DEF SysMalloc

LEMMA SysFreeStep == ASSUME PInv, NEW k \in held, SysFree(k) PROVE PInv'
<1>1. k \in Ptrs
  BY DEF PInv, PTable, PTypeOK
<1> QED BY <1>1, HeldStep DEF SysFree

\* Every call that can come between two programs keeps the tables.
LEMMA CallsStep == ASSUME PInv, Calls PROVE PInv'
<1>1. CASE SysExit
  BY <1>1, TerminateProcessStep DEF SysExit
<1>2. CASE \E ms \in Delays : SysSleep(ms)
  BY <1>2, SysSleepStep
<1>3. CASE \E k \in Ptrs : SysMalloc(k)
  BY <1>3, SysMallocStep
<1>4. CASE \E k \in held : SysFree(k)
  BY <1>4, SysFreeStep
<1>5. CASE KernelProcess
  BY <1>5, KernelProcessStep
<1>6. CASE Kill
  BY <1>6, TerminateProcessStep DEF Kill
<1>7. CASE Tick
  BY <1>7, TickStep
<1> QED
  BY <1>1, <1>2, <1>3, <1>4, <1>5, <1>6, <1>7 DEF Calls

\* The inductive invariant of the process table.
THEOREM ProcessInvariant == PSpec => []PInv
<1>1. PInv /\ [PNext]_pvars => PInv'
  <2>1. ASSUME PInv, UNCHANGED pvars PROVE PInv'
    BY <2>1, PTableBeside DEF PInv, PTable, PTypeOK, TypeOK, pvars, vars
  <2> QED BY <2>1, CallsStep, UserProcessStep DEF PNext
<1> QED BY <1>1, InitPInv, PTL DEF PSpec

\* Every block in use belongs to one thread, one process or one program.
THEOREM ProcessMemoryOwned == PSpec => []MemoryOwned
<1>1. PInv => MemoryOwned
  BY DEF PInv, PTable, BlocksApart, InUse, MemoryOwned
<1> QED BY <1>1, ProcessInvariant, PTL

------------------------------------------------------------------------------
(* exec_program.  The frames a program took, so far and in the end: its     *)
(* loads only take.                                                         *)
FramesPaid ==
  /\ call # "none" => free =< had
  /\ call = "load" /\ result = "loading"
       => program.valid /\ had - free >= program.pages - left
  /\ call = "load" /\ result = "loaded"
       => program.valid /\ had - free >= program.pages
  /\ call = "create" => program.valid /\ had - free >= program.pages

(* The tables and the buffer are all there is in the heap.                  *)
XInv == /\ PTable /\ XTypeOK /\ FramesPaid
        /\ allocated = InUse \cup ({buffer} \ {NULL})
        /\ buffer \notin InUse

LEMMA InitXInv == XInit => XInv
<1> SUFFICES ASSUME XInit PROVE XInv
  OBVIOUS
<1>1. PTable /\ allocated = InUse /\ PTypeOK /\ NULL \notin Ptrs /\ allocated \subseteq Ptrs
  BY InitPInv, SchedulerAssumption DEF XInit, PInv, PTable, PTypeOK, TypeOK
<1>2. XTypeOK
  BY <1>1, ExecAssumption DEF XInit, XTypeOK, L!Init
<1>3. FramesPaid
  BY DEF XInit, FramesPaid
<1> QED
  BY <1>1, <1>2, <1>3 DEF XInit, XInv

\* Without a buffer the heap holds what the tables hold.
LEMMA NoBuffer == XInv /\ buffer = NULL => PInv
BY DEF XInv, PInv

\* What exec_program does between its calls of kmalloc, kfree and create_process.
LEMMA LoadingStep ==
  ASSUME XInv, UNCHANGED <<pvars, buffer>>,
         XTypeOK', FramesPaid'
  PROVE  XInv'
<1>1. UNCHANGED <<tvars, ptable, held>> /\ allocated' = allocated /\ allocated' \subseteq Ptrs
  BY DEF XInv, XTypeOK, PTypeOK, TypeOK, pvars, vars
<1> QED
  BY <1>1, PTableBeside DEF XInv

\* The buffer comes, and goes.
LEMMA BufferStep ==
  ASSUME XInv, UNCHANGED <<tvars, ptable, held>>,
         \/ buffer = NULL /\ buffer' \in Ptrs \ allocated /\ allocated' = allocated \cup {buffer'}
         \/ buffer' = NULL /\ allocated' = allocated \ {buffer},
         allocated' \subseteq Ptrs /\ PTable' => XTypeOK',
         FramesPaid'
  PROVE  XInv'
<1>1. allocated' \subseteq Ptrs /\ NULL \notin Ptrs /\ allocated \subseteq Ptrs
  BY SchedulerAssumption DEF XInv, XTypeOK, PTypeOK, TypeOK
<1>2. PTable' /\ InUse' = InUse
  BY <1>1, PTableBeside DEF XInv
<1>3. buffer' \notin InUse /\ allocated' = InUse \cup ({buffer'} \ {NULL})
  BY <1>1 DEF XInv
<1> QED BY <1>1, <1>2, <1>3 DEF XInv

\* Every step of exec_program.
LEMMA ExecProgramStep ==
  ASSUME XInv, NEW f \in Programs, ExecProgram(f) PROVE XInv'
<1>1. UNCHANGED <<pvars, buffer>> /\ XTypeOK'
  BY DEF XInv, ExecProgram, XTypeOK, PTypeOK, TypeOK, pvars, vars, tvars, ptable
<1>2. FramesPaid'
  BY DEF XInv, ExecProgram, FramesPaid, XTypeOK
<1> QED BY <1>1, <1>2, LoadingStep

LEMMA BufferAllocatedStep ==
  ASSUME XInv, NEW k \in Ptrs, BufferAllocated(k) PROVE XInv'
<1>1. k # NULL /\ buffer = NULL
  BY SchedulerAssumption DEF XInv, XTypeOK, BufferAllocated
<1>2. PTable' => XTypeOK'
  BY <1>1 DEF XInv, BufferAllocated, XTypeOK, PTable
<1>3. FramesPaid'
  BY DEF XInv, BufferAllocated, FramesPaid
<1>4. allocated' \subseteq Ptrs /\ buffer' \in Ptrs \ allocated /\ allocated' = allocated \cup {buffer'}
      /\ UNCHANGED <<tvars, ptable, held>>
  BY DEF BufferAllocated, XInv, XTypeOK, PTypeOK, TypeOK
<1> QED BY <1>1, <1>2, <1>3, <1>4, BufferStep

LEMMA BufferFailsStep == ASSUME XInv, BufferFails PROVE XInv'
<1>1. UNCHANGED <<pvars, buffer>> /\ XTypeOK'
  BY ExecAssumption DEF XInv, BufferFails, Returns, XTypeOK, PTypeOK, TypeOK, pvars, vars, tvars, ptable
<1>2. FramesPaid'
  BY DEF BufferFails, Returns, FramesPaid
<1> QED BY <1>1, <1>2, LoadingStep

LEMMA FileEmptyStep == ASSUME XInv, FileEmpty PROVE XInv'
<1>1. PTable' => XTypeOK'
  BY ExecAssumption DEF XInv, FileEmpty, Returns, BufferFreed, XTypeOK, PTable
<1>2. FramesPaid'
  BY DEF FileEmpty, Returns, FramesPaid
<1> QED
  BY <1>1, <1>2, BufferStep DEF FileEmpty, BufferFreed

LEMMA LoadElfStep == ASSUME XInv, LoadElf PROVE XInv'
<1>1. UNCHANGED <<pvars, program, buffer, had>> /\ call = "read" /\ call' = "load"
  BY DEF LoadElf
<1>2. CASE program.valid /\ left' = program.pages /\ L!Start
  <2>1. result' = "loading" /\ left' \in Nat /\ free' = free
    BY <1>2 DEF L!Start
  <2>2. XTypeOK'
    BY <1>1, <2>1 DEF XInv, XTypeOK, PTypeOK, TypeOK, pvars, vars, tvars, ptable
  <2>3. FramesPaid'
    BY <1>1, <1>2, <2>1 DEF XInv, XTypeOK, FramesPaid
  <2> QED BY <1>1, <2>2, <2>3, LoadingStep
<1>3. CASE L!Refuse
  <2>1. result' = "failed" /\ left' = left /\ free' = free
    BY <1>3 DEF L!Refuse
  <2>2. XTypeOK'
    BY <1>1, <2>1 DEF XInv, XTypeOK, PTypeOK, TypeOK, pvars, vars, tvars, ptable
  <2>3. FramesPaid'
    BY <1>1, <2>1 DEF XInv, FramesPaid
  <2> QED BY <1>1, <2>2, <2>3, LoadingStep
<1> QED BY <1>2, <1>3 DEF LoadElf

LEMMA MapElfSegmentsStep == ASSUME XInv, MapElfSegments PROVE XInv'
<1>1. UNCHANGED <<pvars, local>> /\ call = "load"
  BY DEF MapElfSegments
<1>2. /\ result = "loading" /\ free' \in 0 .. free /\ left' \in Nat
      /\ result' \in {"loading", "loaded", "failed"}
      /\ result' = "loading" => left - left' =< free - free'
      /\ result' = "loaded" => left = 0 /\ free' = free
  BY DEF MapElfSegments, XInv, XTypeOK, L!Loading, L!TakePage, L!TakeTable, L!Fail, L!Finish
<1>3. XTypeOK'
  <2>1. PTypeOK'
    BY <1>1 DEF XInv, XTypeOK, PTypeOK, TypeOK, pvars, vars, tvars, ptable
  <2>2. free' \in 0 .. FreeFrames
    BY <1>2, ExecAssumption DEF XInv, XTypeOK
  <2> QED BY <1>1, <1>2, <2>1, <2>2 DEF XInv, XTypeOK, local
<1>4. FramesPaid'
  <2>1. free \in Nat /\ had \in Nat /\ left \in Nat
    BY DEF XInv, XTypeOK
  <2>2. program.pages \in Nat
    BY ExecAssumption DEF XInv, XTypeOK, NoProgram
  <2>3. program.valid /\ had - free >= program.pages - left /\ free =< had
    BY <1>1, <1>2 DEF XInv, FramesPaid
  <2>4. /\ free' =< had
        /\ result' = "loading" => had - free' >= program.pages - left'
        /\ result' = "loaded" => had - free' >= program.pages
    <3>1. free' \in Nat /\ free' =< free /\ left' \in Nat
      BY <1>2, <2>1
    <3>2. CASE result' = "loading"
      <4>1. left - left' =< free - free'
        BY <1>2, <3>2
      <4>2. \A h, m, l, n, f, g \in Nat :
              h - f >= n - l /\ l - m =< f - g => h - g >= n - m
        OBVIOUS
      <4>3. had - free' >= program.pages - left'
        BY <2>1, <2>2, <2>3, <3>1, <4>1, <4>2
      <4> QED BY <2>1, <2>3, <3>1, <3>2, <4>3
    <3>3. CASE result' # "loading"
      BY <1>2, <2>1, <2>2, <2>3, <3>1, <3>3
    <3> QED BY <3>2, <3>3
  <2> QED BY <1>1, <1>2, <2>3, <2>4 DEF FramesPaid, local
<1> QED BY <1>1, <1>3, <1>4, LoadingStep DEF local

LEMMA LoadReturnsStep == ASSUME XInv, LoadReturns PROVE XInv'
<1>1. /\ call = "load" /\ UNCHANGED <<tvars, ptable, held, free, left>>
      /\ allocated' = allocated \ {buffer} /\ buffer' = NULL /\ result' = "idle"
      /\ \/ result = "loaded" /\ call' = "create" /\ UNCHANGED <<program, had>>
         \/ call' = "none" /\ program' = NoProgram /\ had' = 0
  BY DEF LoadReturns, Loaded, Returns, BufferFreed, L!Others
<1>2. PTable' => XTypeOK'
  BY <1>1, ExecAssumption DEF XInv, XTypeOK, PTable
<1>3. FramesPaid'
  BY <1>1 DEF XInv, FramesPaid
<1> QED BY <1>1, <1>2, <1>3, BufferStep

LEMMA ProcessCreatedStep == ASSUME XInv, ProcessCreated PROVE XInv'
<1>1. PInv /\ buffer = NULL /\ UserProcess /\ Returns /\ UNCHANGED <<buffer, free, left, result>>
  BY NoBuffer DEF XInv, XTypeOK, ProcessCreated
<1>2. PInv'
  BY <1>1, UserProcessStep
<1>3. XTypeOK'
  BY <1>1, <1>2, ExecAssumption DEF Returns, XInv, XTypeOK, PInv, PTable
<1>4. FramesPaid'
  BY <1>1 DEF Returns, FramesPaid
<1>5. buffer' \notin InUse'
  BY <1>1, <1>2, SchedulerAssumption DEF PInv, PTable, PTypeOK, TypeOK
<1> QED BY <1>1, <1>2, <1>3, <1>4, <1>5 DEF XInv, PInv

LEMMA ProcessRefusedStep == ASSUME XInv, ProcessRefused PROVE XInv'
<1>1. UNCHANGED <<pvars, buffer>> /\ XTypeOK'
  BY ExecAssumption DEF XInv, ProcessRefused, Returns, XTypeOK, PTypeOK, TypeOK, pvars, vars, tvars, ptable
<1>2. FramesPaid'
  BY DEF ProcessRefused, Returns, FramesPaid
<1> QED BY <1>1, <1>2, LoadingStep

LEMMA BetweenProgramsStep ==
  ASSUME XInv, call = "none", Calls, UNCHANGED <<local, free, left, result>> PROVE XInv'
<1>1. PInv /\ buffer = NULL /\ UNCHANGED <<call, program, buffer, had, free, left, result>>
  BY NoBuffer DEF XInv, XTypeOK, local
<1>2. PInv'
  BY <1>1, CallsStep
<1>3. XTypeOK'
  BY <1>1, <1>2 DEF XInv, XTypeOK, PInv, PTable
<1>4. FramesPaid'
  BY <1>1 DEF FramesPaid
<1>5. buffer' \notin InUse'
  BY <1>1, <1>2, SchedulerAssumption DEF PInv, PTable, PTypeOK, TypeOK
<1> QED BY <1>1, <1>2, <1>3, <1>4, <1>5 DEF XInv, PInv

LEMMA ExecStutterStep == ASSUME XInv, UNCHANGED xvars PROVE XInv'
<1>1. XTypeOK' /\ FramesPaid' /\ UNCHANGED <<pvars, buffer>>
  BY DEF XInv, XTypeOK, PTypeOK, TypeOK, FramesPaid, xvars, local, pvars, vars, tvars, ptable
<1> QED BY <1>1, LoadingStep

LEMMA NextXInv == XInv /\ [XNext]_xvars => XInv'
BY ExecProgramStep, BufferAllocatedStep, BufferFailsStep, FileEmptyStep, LoadElfStep,
   MapElfSegmentsStep, LoadReturnsStep, ProcessCreatedStep, ProcessRefusedStep,
   BetweenProgramsStep, ExecStutterStep DEF XNext, ExecNotFound

\* The inductive invariant of exec_program.
THEOREM ExecInvariant == XSpec => []XInv
BY InitXInv, NextXInv, PTL DEF XSpec

\* The fields keep their types, and there is a buffer only while a file is loaded.
THEOREM ExecTypeCorrect == XSpec => []XTypeOK
<1>1. XInv => XTypeOK
  BY DEF XInv
<1> QED BY <1>1, ExecInvariant, PTL

\* At every step each block belongs to one thread, process, program or buffer.
THEOREM ExecBlocksOwned == XSpec => []BlocksOwned
<1>1. XInv => BlocksOwned
  <2> SUFFICES ASSUME XInv PROVE BlocksOwned
    OBVIOUS
  <2>1. allocated \ {buffer} = InUse
    BY SchedulerAssumption DEF XInv, XTypeOK, PTypeOK, TypeOK
  <2>2. P!ThreadStacks = ThreadStacks
    BY DEF P!ThreadStacks, ThreadStacks, P!Slots, Slots, P!NULL, NULL
  <2>3. P!UserStacksInUse = UserStacksInUse
    BY DEF P!UserStacksInUse, UserStacksInUse, P!Procs, Procs, P!Used, Used, P!NULL, NULL
  <2>4. P!MemoryOwned
    BY <2>1, <2>2, <2>3 DEF P!MemoryOwned, XInv, PTable, BlocksApart, InUse,
                            P!Procs, Procs, P!Used, Used, P!NULL, NULL
  <2> QED BY <2>4 DEF BlocksOwned, XInv, InUse
<1> QED BY <1>1, ExecInvariant, PTL

\* terminate_process only ever ends the thread its process was created with.
THEOREM ExecProcessThreadsLive == XSpec => []ProcessThreadsLive
<1>1. XInv => ProcessThreadsLive
  BY DEF XInv, PTable
<1> QED BY <1>1, ExecInvariant, PTL

\* No count ever makes create_process or create_thread refuse a free slot.
THEOREM ExecCountsNeverHigh == XSpec => []CountsNeverHigh
<1>1. XInv => CountsNeverHigh
  BY DEF XInv, PTable
<1> QED BY <1>1, ExecInvariant, PTL

------------------------------------------------------------------------------
(* exec_program implements the one create_process it stands for.            *)
\* What does not look at the heap is the same beside the buffer.
LEMMA SameTables ==
  /\ P!NULL = NULL /\ P!Slots = Slots /\ P!None = None
  /\ P!Procs = Procs /\ P!CurrentProc = CurrentProc /\ P!NoThread = NoThread
  /\ P!tvars = tvars /\ P!ptable = ptable
  /\ P!tvars' = tvars' /\ P!ptable' = ptable'
  /\ \A s, i : P!Holds(s, i) <=> Holds(s, i)
  /\ \A p : P!Used(p) <=> Used(p)
BY DEF P!NULL, NULL, P!Slots, Slots, P!None, None, P!Procs, Procs,
       P!CurrentProc, CurrentProc, P!NoThread, NoThread, P!tvars, tvars,
       P!ptable, ptable, P!Holds, Holds, P!Live, Live, P!Used, Used

LEMMA SameThreadActions ==
  /\ \A s, k : ThreadAdded(s, k) => P!ThreadAdded(s, k)
  /\ ThreadRefused => P!ThreadRefused
  /\ \A s : ThreadRemoved(s) => P!ThreadRemoved(s)
<1>1. \A s : FreeSlot(s) <=> P!FreeSlot(s)
  BY DEF FreeSlot, P!FreeSlot, P!Slots, Slots, P!Live, Live
<1>2. \A s, k : ThreadAdded(s, k) => P!ThreadAdded(s, k)
  BY <1>1 DEF ThreadAdded, P!ThreadAdded
<1>3. ThreadRefused => P!ThreadRefused
  BY <1>1, SameTables DEF ThreadRefused, P!ThreadRefused
<1>4. \A s : ThreadRemoved(s) => P!ThreadRemoved(s)
  BY SameTables DEF ThreadRemoved, P!ThreadRemoved, ThreadCountLess, P!ThreadCountLess
<1> QED BY <1>2, <1>3, <1>4

LEMMA SameProcessFilled ==
  \A p, u, t : ProcessFilled(p, u, t) => P!ProcessFilled(p, u, t)
<1>1. \A p : FreeProcSlot(p) <=> P!FreeProcSlot(p)
  BY SameTables DEF FreeProcSlot, P!FreeProcSlot
<1> QED
  BY <1>1, SameTables DEF ProcessFilled, P!ProcessFilled

\* Without a buffer, before and after, the heap is the same too.
LEMMA SameSchedule ==
  ASSUME UNCHANGED allocated, buffer' = buffer, NEW st, NEW sl, ScheduleFrom(st, sl)
  PROVE  P!ScheduleFrom(st, sl)
<1>1. P!Woken(st, sl) = Woken(st, sl) /\ P!CountedDown(st, sl) = CountedDown(st, sl)
  BY DEF P!Woken, Woken, P!CountedDown, CountedDown, P!Slots, Slots
<1>2. \A up, s : P!Candidate(up, s) <=> Candidate(up, s)
  BY DEF P!Candidate, Candidate
<1>3. \A c, s : P!Dist(c, s) = Dist(c, s)
  BY DEF P!Dist, Dist
<1>4. \A up, s : P!IsNext(up, s) <=> IsNext(up, s)
  BY <1>2, <1>3, SameTables DEF P!IsNext, IsNext
<1>5. \A up, s : P!Switched(up, s) = Switched(up, s)
  BY DEF P!Switched, Switched, P!Slots, Slots
<1> QED
  BY <1>1, <1>2, <1>4, <1>5, SameTables DEF P!ScheduleFrom, ScheduleFrom

\* create_process and terminate_process are those of Process.
LEMMA CreateProcessMaps ==
  ASSUME allocated \ {buffer} = allocated, (allocated \ {buffer})' = allocated', NEW priv, NEW p
  PROVE  /\ CreateProcess(priv, p) => P!CreateProcess(priv, p)
         /\ CreateThreadless(priv, p) => P!CreateThreadless(priv, p)
         /\ CreateUserStackFails(p) => P!CreateUserStackFails(p)
<1>1. UserStacks(priv) = P!UserStacks(priv)
  BY SameTables DEF UserStacks, P!UserStacks
<1>2. CreateProcess(priv, p) => P!CreateProcess(priv, p)
  BY <1>1, SameTables, SameThreadActions, SameProcessFilled DEF CreateProcess, P!CreateProcess
<1>3. CreateThreadless(priv, p) => P!CreateThreadless(priv, p)
  BY <1>1, SameTables, SameThreadActions, SameProcessFilled
     DEF CreateThreadless, P!CreateThreadless
<1>4. CreateUserStackFails(p) => P!CreateUserStackFails(p)
  BY SameTables, SameProcessFilled
     DEF CreateUserStackFails, P!CreateUserStackFails, vars, P!vars
<1> QED BY <1>2, <1>3, <1>4

LEMMA TerminateProcessMaps ==
  ASSUME allocated \ {buffer} = allocated, (allocated \ {buffer})' = allocated',
         NEW i, TerminateProcess(i)
  PROVE  P!TerminateProcess(i)
<1>1. ASSUME NEW p, ProcessRemoved(p) PROVE P!ProcessRemoved(p)
  <2>1. ProcCountLess = P!ProcCountLess
    BY DEF ProcCountLess, P!ProcCountLess
  <2> QED
    BY <1>1, <2>1, SameTables, SameThreadActions DEF ProcessRemoved, P!ProcessRemoved
<1> QED
  BY <1>1, SameTables DEF TerminateProcess, P!TerminateProcess

\* So is each call between two programs.
LEMMA CallsMap ==
  ASSUME allocated \ {buffer} = allocated, (allocated \ {buffer})' = allocated',
         buffer' = buffer, Calls
  PROVE  P!Calls
<1>1. CASE SysExit
  BY <1>1, TerminateProcessMaps, SameTables DEF SysExit, P!SysExit, P!Calls
<1>2. CASE \E ms \in Delays : SysSleep(ms)
  <2>1. PICK ms \in Delays : SysSleep(ms)
    BY <1>2
  <2>2. P!ThreadSleep(ms)
    BY <2>1, SameSchedule, SameTables DEF SysSleep, ThreadSleep, P!ThreadSleep, ScheduleFrom
  <2> QED BY <2>1, <2>2, SameTables DEF SysSleep, P!SysSleep, P!Calls
<1>3. CASE \E k \in Ptrs : SysMalloc(k)
  BY <1>3, SameTables DEF SysMalloc, P!SysMalloc, P!Calls
<1>4. CASE \E k \in held : SysFree(k)
  BY <1>4, SameTables DEF SysFree, P!SysFree, P!Calls
<1>5. CASE KernelProcess
  BY <1>5, CreateProcessMaps, SameTables DEF KernelProcess, P!KernelProcess, P!Calls
<1>6. CASE Kill
  BY <1>6, TerminateProcessMaps DEF Kill, P!Kill, P!Calls
<1>7. CASE Tick
  <2>1. P!Schedule
    BY <1>7, SameSchedule DEF Tick, Schedule, P!Schedule, ScheduleFrom
  <2> QED BY <1>7, <2>1, SameTables DEF Tick, P!Tick, P!Calls
<1> QED
  BY <1>1, <1>2, <1>3, <1>4, <1>5, <1>6, <1>7 DEF Calls

LEMMA InitMaps == XInit => P!PInit
<1> SUFFICES ASSUME XInit PROVE P!PInit
  OBVIOUS
<1>1. P!Init
  BY DEF XInit, PInit, Init, P!Init, P!Slots, Slots, P!NULL, NULL, P!None, None
<1> QED
  BY <1>1 DEF XInit, PInit, P!PInit, P!Procs, Procs, P!NoThread, NoThread, P!NULL, NULL

\* Every step of exec_program but its create_process leaves Process as it was.
LEMMA StepMaps == XInv /\ XInv' /\ [XNext]_xvars => [P!PNext]_(P!pvars)
<1> SUFFICES ASSUME XInv, XInv', [XNext]_xvars PROVE [P!PNext]_(P!pvars)
  OBVIOUS
<1>1. allocated \subseteq Ptrs /\ allocated' \subseteq Ptrs /\ NULL \notin Ptrs
  BY SchedulerAssumption DEF XInv, XTypeOK, PTypeOK, TypeOK
<1>2. ASSUME UNCHANGED <<tvars, ptable, held>>, (allocated \ {buffer})' = allocated \ {buffer}
      PROVE  UNCHANGED P!pvars
  BY <1>2, SameTables DEF P!pvars, P!vars, P!tvars, tvars, P!ptable, ptable
<1>3. CASE UNCHANGED <<pvars, buffer>>
  BY <1>2, <1>3 DEF pvars, vars
<1>4. ASSUME NEW k \in Ptrs, BufferAllocated(k) PROVE UNCHANGED P!pvars
  <2>1. buffer = NULL
    BY <1>4 DEF BufferAllocated, XInv, XTypeOK
  <2> QED BY <1>1, <1>2, <1>4, <2>1 DEF BufferAllocated
<1>5. ASSUME BufferFreed, UNCHANGED <<tvars, ptable, held>> PROVE UNCHANGED P!pvars
  BY <1>1, <1>2, <1>5 DEF BufferFreed
<1>6. CASE ProcessCreated
  <2>1. buffer = NULL /\ buffer' = NULL
    BY <1>6 DEF ProcessCreated, XInv, XTypeOK
  <2>2. allocated \ {buffer} = allocated /\ (allocated \ {buffer})' = allocated'
    BY <1>1, <2>1
  <2>3. P!UserProcess
    BY <1>6, <2>2, CreateProcessMaps, SameTables DEF ProcessCreated, UserProcess, P!UserProcess
  <2> QED BY <2>3 DEF P!PNext
<1>7. CASE call = "none" /\ Calls /\ UNCHANGED <<local, free, left, result>>
  <2>1. buffer = NULL /\ buffer' = buffer
    BY <1>7 DEF XInv, XTypeOK, local
  <2>2. allocated \ {buffer} = allocated /\ (allocated \ {buffer})' = allocated'
    BY <1>1, <2>1
  <2> QED BY <1>7, <2>1, <2>2, CallsMap DEF P!PNext
<1>8. CASE \/ \E f \in Programs : ExecProgram(f) \/ ExecNotFound(f)
           \/ BufferFails \/ LoadElf \/ MapElfSegments \/ ProcessRefused
           \/ UNCHANGED xvars
  BY <1>3, <1>8 DEF ExecProgram, ExecNotFound, BufferFails, LoadElf, MapElfSegments,
                    ProcessRefused, local, xvars
<1>9. CASE FileEmpty \/ LoadReturns
  BY <1>5, <1>9 DEF FileEmpty, LoadReturns
<1> QED BY <1>4, <1>6, <1>7, <1>8, <1>9 DEF XNext

\* exec_program is one create_process, for a valid file that got its frames, or
\* nothing that the rest of the kernel can see.
THEOREM ExecRefinesProcess == XSpec => RefinesProcess
<1>1. XInv /\ XInv' /\ [XNext]_xvars
        => [call = "create" /\ next_pid' # next_pid =>
              program.valid /\ had - free >= program.pages]_xvars
  BY DEF XInv, FramesPaid
<1> QED
  BY <1>1, InitMaps, StepMaps, ExecInvariant, PTL DEF XSpec, P!PSpec, RefinesProcess
==============================================================================
