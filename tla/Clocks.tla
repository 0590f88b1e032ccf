------------------------------- MODULE Clocks -------------------------------
(***************************************************************************)
(* The two clocks that are more than a call of the operating system.       *)
(*                                                                         *)
(* MonotonicClock corrects a raw clock that may jump back.  Several clocks *)
(* share one State, and several threads ask any of them for the time.      *)
(*                                                                         *)
(* SimulationClock, with SimulationClockExecutor, runs the tasks of a pool *)
(* in simulated time: time moves on when no thread is running, and then    *)
(* wakes one sleeper.                                                      *)
(***************************************************************************)
EXTENDS Naturals, Integers, Sequences, SequencesExt, FiniteSets

CONSTANTS
    ClockThreads,   \* threads that ask monotonic clocks for the time
    MonoClocks,     \* MonotonicClocks that share one State
    MaxRaw,         \* bound: the raw clock shows 0 .. MaxRaw
    MaxCalls,       \* bound: calls a thread makes
    MaxCorrections, \* bound: jumps a clock counts before its metrics are reset
    SimTasks,       \* tasks handed to the SimulationClockExecutor
    PoolThreads,    \* threads of its pool
    Durations,      \* what the tasks and the main thread sleep for
    MaxSimTime      \* bound: nobody sleeps past it

ASSUME ClocksAssumption ==
    /\ {MaxRaw, MaxCalls, MaxCorrections, MaxSimTime} \subseteq Nat
    /\ PoolThreads \in Nat /\ IsFiniteSet(SimTasks) /\ Cardinality(SimTasks) <= PoolThreads
    /\ Durations \subseteq Nat \ {0}

VARIABLES
    maxTime,        \* State::max_time
    instance,       \* per clock [lastRaw, corrections, maxCorrection]
    timeCall,           \* per thread [pc, clock, value, floor, until, left]
    returned,       \* the greatest time any call has returned
    sim,            \* SimulationClock: [time, waiters, running]
    thread          \* per simulated thread [pc, wanted]

monoVars == <<maxTime, instance, timeCall, returned>>
simVars == <<sim, thread>>
clockVars == <<maxTime, instance, timeCall, returned, sim, thread>>

Main == "main"
SimThreads == SimTasks \cup {Main}

ClockInit ==
    /\ maxTime = 0
    /\ instance = [c \in MonoClocks |-> [lastRaw |-> 0, corrections |-> 0, maxCorrection |-> 0]]
    /\ timeCall = [t \in ClockThreads |->
                 [pc |-> "idle", clock |-> "none", value |-> 0, floor |-> 0,
                  until |-> 0, left |-> MaxCalls]]
    /\ returned = 0
    /\ sim = [time |-> 0, waiters |-> <<>>, running |-> 0]
    /\ thread = [t \in SimThreads |-> [pc |-> "new", wanted |-> 0]]

-----------------------------------------------------------------------------
\* A call of TimeNow, or of SleepUntil with the time to wake up at.
CallClock(t, c, until) ==
    /\ timeCall[t].pc = "idle" /\ timeCall[t].left > 0
    /\ timeCall' = [timeCall EXCEPT ![t] = [pc |-> "reading", clock |-> c, value |-> 0,
                                    floor |-> returned, until |-> until,
                                    left |-> timeCall[t].left - 1]]
    /\ UNCHANGED <<maxTime, instance, returned, simVars>>

\* Seeded fault: the raw time is returned.
Uncorrected(raw, c) == raw

\* What TimeNow returns when the raw clock shows less than max_time.
Corrected(raw, c) == maxTime

\* The critical section of MonotonicClockImpl::TimeNow: time advances, or the
\* raw clock is still behind an earlier jump, or it has just jumped back.
TimeNow(t) ==
    LET c == timeCall[t].clock
        i == instance[c]
    IN  /\ timeCall[t].pc = "reading"
        /\ \E raw \in 0 .. MaxRaw :
              \/ /\ raw >= maxTime
                 /\ maxTime' = raw
                 /\ instance' = [instance EXCEPT ![c].lastRaw = raw]
                 /\ timeCall' = [timeCall EXCEPT ![t].pc = "read", ![t].value = raw]
              \/ /\ raw < maxTime /\ raw >= i.lastRaw
                 /\ instance' = [instance EXCEPT ![c].lastRaw = raw]
                 /\ timeCall' = [timeCall EXCEPT ![t].pc = "read", ![t].value = Corrected(raw, c)]
                 /\ UNCHANGED maxTime
              \/ /\ raw < maxTime /\ raw < i.lastRaw /\ i.corrections < MaxCorrections
                 /\ instance' = [instance EXCEPT ![c] =
                       [lastRaw |-> raw, corrections |-> i.corrections + 1,
                        maxCorrection |-> IF maxTime - raw > i.maxCorrection
                                          THEN maxTime - raw ELSE i.maxCorrection]]
                 /\ timeCall' = [timeCall EXCEPT ![t].pc = "read", ![t].value = maxTime]
                 /\ UNCHANGED maxTime
    /\ UNCHANGED <<returned, simVars>>

\* The time is returned, or SleepUntil finds it too early, sleeps on the raw
\* clock and looks again.  A RealClock sleeps at least as long as it is told,
\* by its own measure; the raw time it shows afterwards may still be anything.
ReturnTime(t) ==
    /\ timeCall[t].pc = "read"
    /\ \/ /\ timeCall[t].value >= timeCall[t].until
          /\ timeCall' = [timeCall EXCEPT ![t] = [pc |-> "idle", clock |-> "none", value |-> 0,
                                          floor |-> 0, until |-> 0, left |-> @.left]]
          /\ returned' = IF timeCall[t].value > returned THEN timeCall[t].value ELSE returned
       \/ /\ timeCall[t].value < timeCall[t].until
          /\ timeCall' = [timeCall EXCEPT ![t].pc = "reading"]
          /\ UNCHANGED returned
    /\ UNCHANGED <<maxTime, instance, simVars>>

\* ResetCorrectionMetrics.
ResetCorrectionMetrics(c) ==
    /\ instance[c].corrections > 0
    /\ instance' = [instance EXCEPT ![c].corrections = 0, ![c].maxCorrection = 0]
    /\ UNCHANGED <<maxTime, timeCall, returned, simVars>>

-----------------------------------------------------------------------------
\* Inserting into the multimap: after every waiter with the same time.
Inserted(waiters, at, t) ==
    LET place == CHOOSE k \in 1 .. Len(waiters) + 1 :
                    /\ \A i \in 1 .. k - 1 : waiters[i].at <= at
                    /\ \A i \in k .. Len(waiters) : waiters[i].at > at
    IN  InsertAt(waiters, place, [at |-> at, who |-> t])

\* TryAdvanceTime: with no thread running, the first waiter is signalled.
\* threads is the threads' state before, waiters and running the clock's.
TryAdvanceTime(time, waiters, running, threads) ==
    IF running = 0 /\ waiters # <<>>
    THEN /\ sim' = [time |-> Head(waiters).at, waiters |-> Tail(waiters), running |-> 0]
         /\ thread' = [threads EXCEPT ![Head(waiters).who].pc = "signalled"]
    ELSE /\ sim' = [time |-> time, waiters |-> waiters, running |-> running]
         /\ thread' = threads

\* SleepInternal up to the wait on the condition variable.
SleepInternal(t, at) ==
    TryAdvanceTime(sim.time, Inserted(sim.waiters, at, t), sim.running - 1,
                   [thread EXCEPT ![t] = [pc |-> "asleep", wanted |-> at]])

\* SleepInternal after the wait.
Wake(t) ==
    /\ thread[t].pc = "signalled"
    /\ thread' = [thread EXCEPT ![t] = [pc |-> "awake", wanted |-> @.wanted]]
    /\ sim' = [sim EXCEPT !.running = @ + 1]
    /\ UNCHANGED monoVars

\* The main thread registers itself, as the tests do.
MainStarts ==
    /\ thread[Main].pc = "new"
    /\ thread' = [thread EXCEPT ![Main] = [pc |-> "awake", wanted |-> 0]]
    /\ sim' = [sim EXCEPT !.running = @ + 1]
    /\ UNCHANGED monoVars

\* ThreadStart: the task counts as running before the pool has a thread for it.
ThreadStart(running) == running + 1

\* SimulationClockExecutor::Schedule, from a thread that is running.
Schedule(t, task) ==
    /\ thread[t].pc = "awake"
    /\ thread[task].pc = "new"
    /\ thread' = [thread EXCEPT ![task] = [pc |-> "queued", wanted |-> sim.time]]
    /\ sim' = [sim EXCEPT !.running = ThreadStart(@)]
    /\ UNCHANGED monoVars

\* A thread of the pool begins the task with Sleep(0).
BeginTask(task) ==
    /\ thread[task].pc = "queued"
    /\ Cardinality({k \in SimTasks : thread[k].pc \in {"asleep", "signalled", "awake"}})
         < PoolThreads
    /\ SleepInternal(task, sim.time)
    /\ UNCHANGED monoVars

\* A running thread sleeps for a while.
Sleep(t, d) ==
    /\ thread[t].pc = "awake"
    /\ sim.time + d <= MaxSimTime
    /\ SleepInternal(t, sim.time + d)
    /\ UNCHANGED monoVars

\* Seeded fault: a thread that finishes does not look whether time can move on.
FinishOnly(t) ==
    /\ thread[t].pc = "awake"
    /\ thread' = [thread EXCEPT ![t] = [pc |-> "done", wanted |-> 0]]
    /\ sim' = [sim EXCEPT !.running = @ - 1]
    /\ UNCHANGED monoVars
\* The task returns, or the main thread is done: ThreadFinish.
ThreadFinish(t) ==
    /\ thread[t].pc = "awake"
    /\ TryAdvanceTime(sim.time, sim.waiters, sim.running - 1,
                      [thread EXCEPT ![t] = [pc |-> "done", wanted |-> 0]])
    /\ UNCHANGED monoVars

-----------------------------------------------------------------------------
MonoStep(t) == TimeNow(t) \/ ReturnTime(t)

SimStep(t) ==
    \/ t \in SimTasks /\ BeginTask(t)
    \/ Wake(t)
    \/ ThreadFinish(t)

MonoNext ==
    \/ \E t \in ClockThreads : \/ MonoStep(t)
                               \/ \E c \in MonoClocks, u \in 0 .. MaxRaw : CallClock(t, c, u)
    \/ \E c \in MonoClocks : ResetCorrectionMetrics(c)

SimNext ==
    \/ MainStarts
    \/ \E t \in SimThreads : \/ SimStep(t)
                             \/ \E task \in SimTasks : Schedule(t, task)
                             \/ \E d \in Durations : Sleep(t, d)

ClockNext == MonoNext \/ SimNext

ClockSpec == /\ ClockInit /\ [][ClockNext]_clockVars
             /\ \A t \in SimThreads : WF_clockVars(SimStep(t))

-----------------------------------------------------------------------------
\* Time never goes backward, across the clocks that share a State: a call that
\* began after another returned gives a time no earlier, and SleepUntil returns
\* no earlier than it was told.  The value is computed under the lock and
\* returned after it is released, while other threads read and return; the
\* check of last_raw_time_ against max_time that TimeNow begins with holds.
TimeNeverGoesBack ==
    /\ \A t \in ClockThreads : timeCall[t].pc = "read" => timeCall[t].value >= timeCall[t].floor
    /\ returned <= maxTime
    /\ \A c \in MonoClocks : instance[c].lastRaw <= maxTime

\* Simulated time has a single order of events: one thread runs at a time, it
\* runs at the very time it asked to be woken, and nobody with an earlier or an
\* equal, older request is still asleep.  Tasks queued in the pool hold time
\* back although no thread runs them yet.
OneAtATime ==
    /\ Cardinality({t \in SimThreads : thread[t].pc \in {"awake", "signalled"}}) <= 1
    /\ \A t \in SimThreads :
         thread[t].pc \in {"awake", "signalled", "queued"} /\ t # Main
            => sim.time = thread[t].wanted
    /\ \A i \in DOMAIN sim.waiters : sim.waiters[i].at >= sim.time

\* Every sleeper is woken: time does not stop while somebody sleeps.
SleepersWake ==
    \A t \in SimThreads : thread[t].pc = "asleep" ~> thread[t].pc = "awake"
==============================================================================
