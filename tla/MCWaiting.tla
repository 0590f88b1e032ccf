----------------------------- MODULE MCWaiting -----------------------------
(***************************************************************************)
(* The components somebody waits on: streams and those who watch them, the *)
(* thread pool, the clocks and the GL contexts.  They do not call each     *)
(* other, so a behaviour is one of a single part, chosen at the start,     *)
(* while the others stay in their initial states.                          *)
(***************************************************************************)
EXTENDS GraphOutputStream, ThreadPool, Clocks, GlContext

CONSTANT Parts   \* the parts to check
VARIABLE part

waitingVars == <<part, mirrorVars, poolVars, clockVars, glVars>>

\* no limit, and limits the packets of a run reach and exceed
MCMaxQueueSizes == {-1, 1, 2}

\* A bound in the range, the bound a node announces for a packet after the
\* range, and the one that closes the stream.
MCMirrorBounds == {1, PostStream, Done}

\* Streams share no state: "stream" is what one of them can do, timed or not.
\* In "mirror", where packets wait for the application alone, sizes are not limited.
StreamsInit ==
    LET free == IF part = "stream" THEN {Observer} ELSE {}
    IN  \A s \in Streams \ free : enable_timestamps[s] /\ max_queue_size[s] = -1

WaitingInit ==
    /\ part \in Parts
    /\ StreamInit /\ StreamsInit /\ WatchersInit
    /\ PoolInit /\ ClockInit /\ GlInit
    /\ part = "mirror" \/ ~observe_timestamp_bounds
    /\ part = "gl" \/ \A c \in Contexts : fences[c]

StreamPart == part = "stream" /\ StreamStep(Observer)
              /\ UNCHANGED <<part, enable_timestamps, watcherVars, poolVars, clockVars, glVars>>
MirrorPart == part = "mirror" /\ MirrorNext /\ UNCHANGED <<part, poolVars, clockVars, glVars>>
PoolPart   == part = "pool" /\ PoolNext /\ UNCHANGED <<part, mirrorVars, clockVars, glVars>>
MonoPart   == part = "mono" /\ MonoNext /\ UNCHANGED <<part, mirrorVars, poolVars, simVars, glVars>>
SimPart    == part = "sim" /\ SimNext /\ UNCHANGED <<part, mirrorVars, poolVars, monoVars, glVars>>
GlPart     == part = "gl" /\ GlNext /\ UNCHANGED <<part, mirrorVars, poolVars, clockVars>>

WaitingNext == StreamPart \/ MirrorPart \/ PoolPart \/ MonoPart \/ SimPart \/ GlPart

\* The fairness of each part, while it runs.
WaitingSpec ==
    /\ WaitingInit /\ [][WaitingNext]_waitingVars
    /\ \A p \in Producers : WF_mirrorVars(part = "mirror" /\ ProducerNotifies(p))
    /\ WF_mirrorVars(part = "mirror" /\ PollerLooks)
    /\ WF_mirrorVars(part = "mirror" /\ PollerPops)
    /\ \A w \in PoolWorkers : WF_poolVars(part = "pool" /\ PoolWorkerStep(w))
    /\ WF_poolVars(part = "pool" /\ JoinWorkers)
    /\ \A t \in SimThreads : WF_clockVars(part = "sim" /\ SimStep(t))
    /\ \A t \in GlThreads : WF_glVars(part = "gl" /\ ThreadStep(t))
    /\ \A c \in Contexts : WF_glVars(part = "gl" /\ GpuExecutes(c))

\* What waiting may rely on: a sync point covers all commands before it, time
\* neither goes back nor passes while a task runs, and no task of the pool is
\* dropped.
WaitsSound == WaitCoversCommands /\ TimeNeverGoesBack /\ OneAtATime /\ NoTaskLeftBehind
=============================================================================
