--------------------------- MODULE SchedulerHistory ---------------------------
(****************************************************************************)
(* Scheduler with a record of what its threads waited for: how many calls   *)
(* of schedule each ready thread and each sleeper has been through.  Nothing*)
(* in the kernel calls schedule on its own, so waiting is counted in calls. *)
(* The record never restricts a step.                                       *)
(****************************************************************************)
EXTENDS Scheduler

VARIABLES bypass,   \* slot -> calls of schedule while it was ready
          asked,    \* slot -> ticks its last thread_sleep asked for
          passed    \* slot -> calls of schedule since then, its own included

hist  == <<bypass, asked, passed>>
hvars == <<vars, hist>>

HInit == /\ Init
         /\ bypass = [s \in Slots |-> 0]
         /\ asked = [s \in Slots |-> 0]
         /\ passed = [s \in Slots |-> 0]

\* Slot s is ready and waits for the processor before and after the step.
Waits(s) == /\ state[s] = "READY" /\ s # current_thread
            /\ state'[s] = "READY" /\ s # current_thread'

CountBypass(calls) ==
  bypass' = [s \in Slots |-> IF Waits(s) THEN bypass[s] + calls ELSE 0]

HThreads == /\ \/ \E p \in Ptrs : CreateThread(p)
               \/ CreateThreadFails
               \/ \E i \in 1 .. MaxId : TerminateThread(i)
            /\ CountBypass(0)
            /\ UNCHANGED <<asked, passed>>

(* Bound: a thread that sleeps too long is only told to.                    *)
OneMore(s) == IF passed[s] > asked[s] + 1 THEN passed[s] ELSE passed[s] + 1

HSchedule == /\ Schedule
             /\ CountBypass(1)
             /\ passed' = [s \in Slots |-> IF state[s] = "SLEEPING"
                                           THEN OneMore(s) ELSE 0]
             /\ UNCHANGED asked

HThreadSleep(ms) ==
  /\ ThreadSleep(ms)
  /\ CountBypass(1)
  /\ asked' = [asked EXCEPT ![current_thread] = ms]
  /\ passed' = [s \in Slots |-> IF s = current_thread THEN 1
                                ELSE IF state[s] = "SLEEPING" THEN OneMore(s)
                                ELSE 0]

HNext == HThreads \/ HSchedule \/ \E ms \in Delays : HThreadSleep(ms)

HSpec == HInit /\ [][HNext]_hvars

------------------------------------------------------------------------------
HTypeOK == bypass \in [Slots -> Nat] /\ asked \in [Slots -> Nat]
                                     /\ passed \in [Slots -> Nat]

\* BoundedBypass: round robin is fair: a ready thread is left waiting by at most
\* MAX_THREADS - 1 calls of schedule, so the next one gives it the processor,
\* however threads are created, terminated and put to sleep meanwhile, the
\* current one included.
BoundedBypass == \A s \in Slots : bypass[s] =< MaxThreads - 1

\* What makes it so: each call moves current_thread closer to every thread it
\* leaves waiting.
BypassLeavesRoom ==
  \A s \in Slots : state[s] = "READY" /\ s # current_thread =>
                     bypass[s] + Dist(current_thread, s) =< MaxThreads

\* The ticks left and the calls made add up to the ticks asked for.
SleepAccounted ==
  \A s \in Slots : state[s] = "SLEEPING" => passed[s] + sleep_ticks[s] = asked[s]

\* SleepExact: the call of schedule that wakes a sleeper is the one after as
\* many calls as ticks it asked for, counting the call thread_sleep made itself.
SleepExact ==
  [][\A s \in Slots : state[s] = "SLEEPING" /\ state'[s] \in {"READY", "RUNNING"}
                        => passed'[s] = asked'[s] + 1]_hvars
==============================================================================
