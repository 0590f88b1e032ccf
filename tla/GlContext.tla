------------------------------ MODULE GlContext ------------------------------
(***************************************************************************)
(* GL contexts with a dedicated thread and the sync points made on them    *)
(* (gl_context.cc).  The thread of a context runs the jobs put in its      *)
(* queue; a sync point stands for the GL commands issued on a context      *)
(* before it was made.  It is a fence, or, where fences are missing, the   *)
(* number of glFinish() calls seen so far: then whoever waits makes the    *)
(* context call glFinish() once more, on a thread that may itself wait.    *)
(***************************************************************************)
EXTENDS Integers, Sequences, FiniteSets

CONSTANTS Contexts,    \* contexts, each also the name of its thread
          GlApps,      \* other threads, with no context current
          MaxCommands, \* bound: commands issued on a context
          MaxWaits     \* bound: waits begun

VARIABLES fences,     \* ShouldUseFenceSync() of each context
          jobs,       \* jobs_ of each dedicated thread
          doing,         \* what a thread is doing
          issued,     \* GL commands issued on each context
          executed,   \* those the GPU has executed
          finish_count,   \* gl_finish_count_
          finish_target,  \* gl_finish_count_target_
          waiting_on,     \* context_waiting_on_
          tokens,     \* the sync points made so far
          waits,      \* waits begun so far
          early       \* a wait returned before its commands were executed

syncVars == <<finish_count, finish_target, waiting_on>>
glVars == <<fences, jobs, doing, issued, executed, syncVars, tokens, waits, early>>

GlThreads == Contexts \cup GlApps
NoContext == "none"
Idle == [op |-> "idle"]

GlInit ==
    /\ fences \in [Contexts -> BOOLEAN]
    /\ jobs = [c \in Contexts |-> <<>>]
    /\ doing = [t \in GlThreads |-> Idle]
    /\ issued = [c \in Contexts |-> 0]
    /\ executed = [c \in Contexts |-> 0]
    /\ finish_count = [c \in Contexts |-> 0]
    /\ finish_target = [c \in Contexts |-> 0]
    /\ waiting_on = [c \in Contexts |-> NoContext]
    /\ tokens = {} /\ waits = 0 /\ early = FALSE

\* GetCurrent() on thread t
Current(t) == IF t \in Contexts THEN t ELSE NoContext

-----------------------------------------------------------------------------

\* A job on the context's own thread issues GL commands and makes a sync point
\* for them (Run() or RunWithoutWaiting(), then CreateSyncToken()).
IssueAndMark(c) ==
    /\ doing[c] = Idle /\ issued[c] < MaxCommands
    /\ issued' = [issued EXCEPT ![c] = @ + 1]
    /\ tokens' = tokens \cup {[on |-> c, past |-> finish_count[c], mark |-> issued[c] + 1,
                               fence |-> fences[c]]}
    /\ UNCHANGED <<fences, jobs, doing, executed, syncVars, waits, early>>

\* The GPU executes commands in its own time (glFlush() has passed them on).
GpuExecutes(c) ==
    /\ executed[c] < issued[c]
    /\ executed' = [executed EXCEPT ![c] = @ + 1]
    /\ UNCHANGED <<fences, jobs, doing, issued, syncVars, tokens, waits, early>>

\* GlFinishSyncPoint::Wait(): nothing to do if the count has passed.  On a
\* thread of its own context the finish task is called directly.
BeginFinishWait(t, token) ==
    /\ doing[t] = Idle /\ ~token.fence /\ waits < MaxWaits
    /\ waits' = waits + 1
    /\ doing' = [doing EXCEPT ![t] =
          IF finish_count[token.on] > token.past THEN Idle
          ELSE [op |-> "ask", token |-> token]]
    /\ early' = (early \/ (doing'[t] = Idle /\ executed[token.on] < token.mark))
    /\ UNCHANGED <<fences, jobs, issued, executed, syncVars, tokens>>

Step(t, op) == [doing[t] EXCEPT !.op = op]

\* Threads asleep on the condition variable of context c
WokenThreads(cs) ==
    [t \in GlThreads |->
       IF doing[t].op = "asleep" /\ doing[t].token.on \in cs THEN Step(t, "loop") ELSE doing[t]]

\* mutex_ of c is held only across the check of the wait loop and the moment
\* the thread goes to sleep.
MutexFree(c) == \A t \in GlThreads : doing[t].op = "dozing" => doing[t].token.on # c

\* WaitForGlFinishCountPast(): raise the target and signal both the context
\* and the one its thread is blocked on, whose mutex_ is not held.
AskForFinish(t) ==
    /\ doing[t].op = "ask" /\ MutexFree(doing[t].token.on)
    /\ LET c == doing[t].token.on
           next == doing[t].token.past + 1
       IN /\ finish_target' = [finish_target EXCEPT ![c] = IF @ < next THEN next ELSE @]
          /\ doing' = [WokenThreads({c, waiting_on[c]}) EXCEPT ![t] =
                      Step(t, IF Current(t) = c THEN "direct" ELSE "note")]
    /\ UNCHANGED <<fences, jobs, issued, executed, finish_count, waiting_on, tokens, waits, early>>

\* The current context notes whom it waits for, and the finish task is put in
\* the other's queue (RunWithoutWaiting()).
NoteAndPost(t) ==
    /\ doing[t].op = "note"
    /\ Current(t) # NoContext => MutexFree(Current(t))
    /\ waiting_on' = [c \in Contexts |-> IF c = Current(t) THEN doing[t].token.on ELSE waiting_on[c]]
    /\ jobs' = [jobs EXCEPT ![doing[t].token.on] = Append(@, doing[t].token)]
    /\ doing' = [doing EXCEPT ![t] = Step(t, "loop")]
    /\ UNCHANGED <<fences, issued, executed, finish_count, finish_target, tokens, waits, early>>

\* Seeded fault: a waiting thread does not look at its own context.
MustNotServe(t) == FALSE

\* Another context was asked to finish the one that is current here.
MustServe(t) ==
    Current(t) # NoContext /\ finish_count[Current(t)] < finish_target[Current(t)]

WaitLoop(t) ==
    /\ doing[t].op = "loop" /\ MutexFree(doing[t].token.on)
    /\ doing' = [doing EXCEPT ![t] =
          Step(t, IF finish_count[doing[t].token.on] > doing[t].token.past THEN "clear"
                  ELSE IF MustServe(t) THEN "serve" ELSE "dozing")]
    /\ UNCHANGED <<fences, jobs, issued, executed, syncVars, tokens, waits, early>>

FallAsleep(t) ==
    /\ doing[t].op = "dozing"
    /\ doing' = [doing EXCEPT ![t] = Step(t, "asleep")]
    /\ UNCHANGED <<fences, jobs, issued, executed, syncVars, tokens, waits, early>>

\* glFinish() on the thread of c
Finish(c) == executed' = [executed EXCEPT ![c] = issued[c]]

\* GlFinishCalled() of c, by a thread that is at the place `next` afterwards
GlFinishCalled(c, t, next) ==
    /\ MutexFree(c)
    /\ finish_count' = [finish_count EXCEPT ![c] = @ + 1]
    /\ doing' = [WokenThreads({c}) EXCEPT ![t] = next]
    /\ UNCHANGED <<fences, jobs, issued, executed, finish_target, waiting_on, tokens, waits, early>>

Serve(t) ==
    /\ doing[t].op = "serve"
    /\ Finish(t)
    /\ doing' = [doing EXCEPT ![t] = Step(t, "served")]
    /\ UNCHANGED <<fences, jobs, issued, syncVars, tokens, waits, early>>

Served(t) == doing[t].op = "served" /\ GlFinishCalled(t, t, Step(t, "loop"))

\* The finish task, as a job or directly; at most one more glFinish() is due.
RunFinishTask(c) ==
    /\ \/ doing[c] = Idle /\ jobs[c] # <<>>
       \/ doing[c].op = "direct"
    /\ LET token == IF doing[c] = Idle THEN Head(jobs[c]) ELSE doing[c].token
           due == finish_count[c] = token.past
           direct == doing[c].op = "direct"
       IN /\ jobs' = IF direct THEN jobs ELSE [jobs EXCEPT ![c] = Tail(@)]
          /\ IF due THEN Finish(c) ELSE UNCHANGED executed
          /\ doing' = [doing EXCEPT ![c] =
                IF due THEN [op |-> "finished", token |-> token, direct |-> direct] ELSE Idle]
    /\ UNCHANGED <<fences, issued, syncVars, tokens, waits, early>>

FinishTaskDone(c) == doing[c].op = "finished" /\ GlFinishCalled(c, c, Idle)

Returns(t) ==
    /\ doing' = [doing EXCEPT ![t] = Idle]
    /\ early' = (early \/ executed[doing[t].token.on] < doing[t].token.mark)

EndWait(t) ==
    /\ doing[t].op = "clear" /\ (Current(t) # NoContext => MutexFree(Current(t)))
    /\ waiting_on' = [c \in Contexts |-> IF c = Current(t) THEN NoContext ELSE waiting_on[c]]
    /\ Returns(t)
    /\ UNCHANGED <<fences, jobs, issued, executed, finish_count, finish_target, tokens, waits>>

\* GlFenceSyncPoint::Wait() from a thread without a context: glClientWaitSync()
\* runs as a job on the context of the fence.
WaitFence(t, token) ==
    /\ t \in GlApps /\ doing[t] = Idle /\ token.fence /\ waits < MaxWaits
    /\ waits' = waits + 1
    /\ doing' = [doing EXCEPT ![t] = [op |-> "fence", token |-> token]]
    /\ UNCHANGED <<fences, jobs, issued, executed, syncVars, tokens, early>>

FenceReached(t) ==
    /\ doing[t].op = "fence" /\ doing[doing[t].token.on] = Idle
    /\ executed[doing[t].token.on] >= doing[t].token.mark
    /\ Returns(t)
    /\ UNCHANGED <<fences, jobs, issued, executed, syncVars, tokens, waits>>

ThreadStep(t) ==
    \/ AskForFinish(t) \/ NoteAndPost(t) \/ WaitLoop(t) \/ FallAsleep(t) \/ EndWait(t)
    \/ FenceReached(t)
    \/ t \in Contexts /\ (Serve(t) \/ Served(t) \/ RunFinishTask(t) \/ FinishTaskDone(t))

GlNext ==
    \/ \E c \in Contexts : IssueAndMark(c) \/ GpuExecutes(c)
    \/ \E t \in GlThreads, token \in tokens : BeginFinishWait(t, token) \/ WaitFence(t, token)
    \/ \E t \in GlThreads : ThreadStep(t)

\* A thread that can go on does, and the GPU executes what it was given.
GlSpec ==
    /\ GlInit /\ [][GlNext]_glVars
    /\ \A t \in GlThreads : WF_glVars(ThreadStep(t))
    /\ \A c \in Contexts : WF_glVars(GpuExecutes(c))

-----------------------------------------------------------------------------

\* A wait returns only when the commands before the sync point have been
\* executed, whoever called glFinish() for it (WaitForGlFinishCountPast).
WaitCoversCommands == ~early

\* Every wait returns, also when contexts wait for each other's sync points:
\* "To avoid a deadlock a context that is waiting on another context must
\* still service Wait calls" (gl_context.cc:936).
WaitsReturn == \A t \in GlThreads : (doing[t] # Idle) ~> (doing[t] = Idle)
=============================================================================
