------------------------------ MODULE TraceLog ------------------------------
(***************************************************************************)
(* The trace log of GraphProfiler: calculator threads append events to the *)
(* lock-free CircularBuffer while the periodic writer on the default       *)
(* executor, and the final writer in Stop(), capture windows of it.        *)
(*                                                                         *)
(*   src/mediapipe/framework/profiler/circular_buffer.h, graph_tracer.cc,  *)
(*   trace_builder.cc (the snapshot), graph_profiler.cc (the log)          *)
(*                                                                         *)
(* An event is known by the buffer index current_++ gave it.  A slot's     *)
(* atomic lap is also its spin lock.  The contents of an event other than  *)
(* its time are left out.                                                  *)
(***************************************************************************)
EXTENDS Integers, FiniteSets

CONSTANTS TraceThreads,    \* threads that run calculators
          Capacity,        \* trace_log_capacity
          LapModulus,      \* kMask + 1, 128 in the code
          StartCounts,     \* events logged before the model's first step
          Margin,          \* trace_log_margin_usec
          MaxTraceTime, MaxEvents, MaxStops    \* bounds of the exploration

\* buffer_size_: the capacity and the default quarter of margin.
TraceBufferSize == (Capacity * 5) \div 4

ASSUME TraceAssumption == /\ Capacity \in Nat \ {0}
                          /\ LapModulus \in {2 * k : k \in 1..64}
                          /\ Margin \in Nat

TraceSlots == 0..(TraceBufferSize - 1)
Loggers == {"periodic", "final"}

VARIABLES clock,          \* the monotonic profiler clock
          tracing, running,           \* is_tracing_, is_running_
          current, lap, stored, \* the CircularBuffer
          eventTime, prompt,          \* event_time by index, and the indices taken within the margin of it
          writer, logger,             \* where each thread is
          builderLock,                \* trace_builder_mutex
          previousLogEndTime,
          captured,                   \* the events in some captured profile
          firstEvent, stops           \* the count TraceInit began with; the calls of Stop()

traceBufferVars == <<current, lap, stored, eventTime, prompt, writer>>
logVars == <<logger, builderLock, previousLogEndTime, captured, firstEvent, stops>>
traceVars == <<clock, tracing, running, traceBufferVars, logVars>>

GetLap(i) == (i \div TraceBufferSize + 1) % LapModulus
MaxLap(u, v) == IF (u - v) % LapModulus <= (LapModulus - 1) \div 2 THEN u ELSE v

IdleWriter == [pc |-> "idle", time |-> 0, index |-> 0]
IdleLogger == [pc |-> "idle", begin |-> 0, end |-> 0, next |-> 0, last |-> 0,
               snapshot |-> {}]

\* The last index below n that fell into slot s, or -1.
LastIn(s, n) == IF n <= s THEN -1 ELSE s + TraceBufferSize * ((n - 1 - s) \div TraceBufferSize)

(***************************************************************************)
(* A run begins with a buffer that earlier runs have filled to some count; *)
(* their events (time 0) are older than the previous window.  Start() has  *)
(* resumed tracing and scheduled the periodic writer.                      *)
(***************************************************************************)
TraceInit ==
  /\ clock = 1 /\ tracing = TRUE /\ running = TRUE
  /\ firstEvent \in StartCounts /\ current = firstEvent
  /\ stored = [s \in TraceSlots |-> LastIn(s, current)]
  /\ lap = [s \in TraceSlots |-> IF stored[s] = -1 THEN 0 ELSE GetLap(stored[s])]
  /\ eventTime = [i \in 0..(current - 1) |-> 0] /\ prompt = {}
  /\ writer = [t \in TraceThreads |-> IdleWriter]
  /\ logger = [l \in Loggers |-> IF l = "periodic" THEN [IdleLogger EXCEPT !.pc = "asleep"]
                                                   ELSE IdleLogger]
  /\ builderLock = "free" /\ previousLogEndTime = 1
  /\ captured = {} /\ stops = 0

\* The bound on the events of a run.
Room == current + Cardinality({t \in TraceThreads : writer[t].pc \in {"timed", "late", "guessed"}}) < firstEvent + MaxEvents

(***************************************************************************)
(* A calculator thread.                                                    *)
(***************************************************************************)
\* Scope or LogEvent with tracing on: the time is read, then the event is appended.
TimeEvent(t) ==
  /\ writer[t].pc = "idle" /\ tracing /\ Room
  /\ writer' = [writer EXCEPT ![t].pc = "timed", ![t].time = clock]
  /\ UNCHANGED <<clock, tracing, running, current, lap, stored, eventTime, prompt, logVars>>

\* ~Scope() reads the clock only when profiling or tracing is on, and looks at
\* is_tracing_ again before it logs: when Resume() falls between the two reads
\* the event carries an uninitialised time (an early or a late one).
LeaveScopeUntimed(t) ==
  /\ writer[t].pc = "idle" /\ ~tracing /\ Room
  /\ writer' = [writer EXCEPT ![t].pc = "late"]
  /\ UNCHANGED <<clock, tracing, running, current, lap, stored, eventTime, prompt, logVars>>

LookAgain(t) ==
  /\ writer[t].pc = "late"
  /\ IF tracing THEN \E time \in {0, MaxTraceTime} :
                       writer' = [writer EXCEPT ![t].pc = "guessed", ![t].time = time]
                ELSE writer' = [writer EXCEPT ![t].pc = "idle"]
  /\ UNCHANGED <<clock, tracing, running, current, lap, stored, eventTime, prompt, logVars>>

\* push_back: size_t i = current_++.
TakeIndex(t) ==
  /\ writer[t].pc \in {"timed", "guessed"}
  /\ writer' = [writer EXCEPT ![t].pc = "taken", ![t].index = current]
  /\ eventTime' = [i \in 0..current |-> IF i = current THEN writer[t].time ELSE eventTime[i]]
  /\ prompt' = IF writer[t].pc = "timed" /\ clock <= writer[t].time + Margin THEN prompt \cup {current} ELSE prompt
  /\ current' = current + 1
  /\ UNCHANGED <<clock, tracing, running, lap, stored, logVars>>

\* Seeded fault: the slot is labelled with the lap of the write, whatever it held.
OwnLap(prev, l) == l

\* The lap push_back leaves a slot with.
ReleasedLap(prev, l) == MaxLap(prev, l)

\* AcquireForWrite ... Release: the slot is locked while it is written, so that
\* nobody sees the steps between.
StoreAndRelease(t) ==
  LET i == writer[t].index
      s == i % TraceBufferSize IN
  /\ writer[t].pc = "taken"
  /\ stored' = [stored EXCEPT ![s] = i]
  /\ lap' = [lap EXCEPT ![s] = ReleasedLap(lap[s], GetLap(i))]
  /\ writer' = [writer EXCEPT ![t] = IdleWriter]
  /\ UNCHANGED <<clock, tracing, running, current, eventTime, prompt, logVars>>

(***************************************************************************)
(* The two writers of profiles.                                            *)
(***************************************************************************)
\* The time the next window begins at: this one's end.
NextBegin(l) == logger[l].end

Move(l, pc) == logger' = [logger EXCEPT ![l].pc = pc]
OnlyLog == UNCHANGED <<clock, traceBufferVars>>

\* The task Start() gave the executor: SleepUntil returns, at a time the model
\* leaves open, and the task goes on while is_running_.
PeriodicWakes ==
  /\ logger["periodic"].pc = "asleep"
  /\ Move("periodic", IF running THEN "capture" ELSE "ended")
  /\ OnlyLog /\ UNCHANGED <<tracing, running, builderLock, previousLogEndTime, captured, firstEvent, stops>>

\* Stop(): called at the end of a run, and again by ~CalculatorGraph.
Stop ==
  /\ logger["final"].pc = "idle" /\ stops < MaxStops
  /\ running' = FALSE /\ tracing' = FALSE /\ stops' = stops + 1
  /\ Move("final", "capture")
  /\ OnlyLog /\ UNCHANGED <<builderLock, previousLogEndTime, captured, firstEvent>>

\* CaptureProfile: end_time is Margin in the past.
ChooseWindow(l) ==
  /\ logger[l].pc = "capture"
  /\ logger' = [logger EXCEPT ![l].pc = "window", ![l].end = clock - Margin]
  /\ OnlyLog /\ UNCHANGED <<tracing, running, builderLock, previousLogEndTime, captured, firstEvent, stops>>

\* The argument previous_log_end_time_ is read before GetTrace takes its mutex.
ReadBegin(l) ==
  /\ logger[l].pc = "window"
  /\ logger' = [logger EXCEPT ![l].pc = "lock", ![l].begin = previousLogEndTime]
  /\ OnlyLog /\ UNCHANGED <<tracing, running, builderLock, previousLogEndTime, captured, firstEvent, stops>>

\* CreateTrace, CreateLog: the range of indices to visit.
BeginSnapshot(l) ==
  /\ logger[l].pc = "lock" /\ builderLock = "free"
  /\ builderLock' = l
  /\ logger' = [logger EXCEPT ![l].pc = "read", ![l].snapshot = {}, ![l].last = current,
                              ![l].next = IF current < Capacity THEN 0 ELSE current - Capacity]
  /\ OnlyLog /\ UNCHANGED <<tracing, running, previousLogEndTime, captured, firstEvent, stops>>

InWindow(l, i) == i # -1 /\ logger[l].begin <= eventTime[i] /\ eventTime[i] < logger[l].end

\* GetAbsolute: waits until the slot has reached the index's lap.
ReadSlot(l) ==
  LET i == logger[l].next
      s == i % TraceBufferSize IN
  /\ logger[l].pc = "read" /\ i < logger[l].last
  /\ lap[s] = MaxLap(lap[s], GetLap(i))
  /\ logger' = [logger EXCEPT ![l].next = i + 1,
                              ![l].snapshot = @ \cup {e \in {stored[s]} : InWindow(l, e)}]
  /\ OnlyLog /\ UNCHANGED <<tracing, running, builderLock, previousLogEndTime, captured, firstEvent, stops>>

\* The mutex is left, and previous_log_end_time_ = end_time.
EndCapture(l) ==
  /\ logger[l].pc = "read" /\ logger[l].next >= logger[l].last
  /\ builderLock' = "free"
  /\ previousLogEndTime' = NextBegin(l)
  /\ captured' = captured \cup logger[l].snapshot
  /\ Move(l, "profile")
  /\ OnlyLog /\ UNCHANGED <<tracing, running, firstEvent, stops>>

\* The rest of WriteProfile touches the log files only.
WriteProfile(l) ==
  /\ logger[l].pc = "profile"
  /\ logger' = [logger EXCEPT ![l] = [IdleLogger EXCEPT !.pc = IF l = "periodic" THEN "asleep" ELSE "idle"]]
  /\ OnlyLog /\ UNCHANGED <<tracing, running, builderLock, previousLogEndTime, captured, firstEvent, stops>>

\* Pause() and Resume() called by the application.
PauseResume ==
  /\ running /\ tracing' = ~tracing
  /\ UNCHANGED <<clock, running, traceBufferVars, logVars>>

Tick == clock < MaxTraceTime /\ clock' = clock + 1 /\ UNCHANGED <<tracing, running, traceBufferVars, logVars>>

WriterStep(t) == LookAgain(t) \/ TakeIndex(t) \/ StoreAndRelease(t)
LoggerStep(l) == \/ ChooseWindow(l) \/ ReadBegin(l) \/ BeginSnapshot(l) \/ ReadSlot(l)
                 \/ EndCapture(l) \/ WriteProfile(l)

TraceNext == \/ Tick \/ PauseResume \/ PeriodicWakes \/ Stop
             \/ \E t \in TraceThreads : TimeEvent(t) \/ LeaveScopeUntimed(t) \/ WriterStep(t)
             \/ \E l \in Loggers : LoggerStep(l)

-----------------------------------------------------------------------------
(***************************************************************************)
(* Windows that follow one another leave no event out: an event that is    *)
(* still in the buffer, was appended within the margin of its time, and is *)
(* older than the end of the last window, is in some captured profile.     *)
(* That is what trace_log_margin_usec is for (graph_profiler.cc            *)
(* CaptureProfile), whichever of the two writers captured.                 *)
(***************************************************************************)
NoEventSkipped ==
  \A i \in (current - Capacity)..(current - 1) :
    /\ i >= 0
    /\ stored[i % TraceBufferSize] = i
    /\ i \in prompt
    /\ eventTime[i] < previousLogEndTime
    => i \in captured

(***************************************************************************)
(* The reader of the buffer, and with it Stop(), is never left spinning on *)
(* a slot nobody will bring to its lap: either the slot has reached the    *)
(* lap of the index that is read, or the thread that took the index, or a  *)
(* later one of the same slot, is on its way to store its event.           *)
(***************************************************************************)
ReaderServed ==
  \A l \in Loggers : logger[l].pc = "read" /\ logger[l].next < logger[l].last =>
    LET i == logger[l].next
        s == i % TraceBufferSize IN
    \/ lap[s] = MaxLap(lap[s], GetLap(i))
    \/ \E t \in TraceThreads : /\ writer[t].pc = "taken" /\ writer[t].index >= i
                              /\ writer[t].index % TraceBufferSize = s

\* The log that several threads write without a lock and profiles are made
\* from: no reader meets a slot in use, and no event written before a window
\* is left out of the profile of that window.
TraceSound == NoEventSkipped /\ ReaderServed
=============================================================================
