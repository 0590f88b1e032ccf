---------------------------- MODULE TextureBuffers ----------------------------
(***************************************************************************)
(* Texture buffers shared by GL contexts (gl_texture_buffer.cc), handed    *)
(* out by a pool and returned to it (reusable_pool.h).                     *)
(*                                                                         *)
(* What the host calls only puts commands in the queue of the context that *)
(* is current; the GPU runs the queue of each context in order, and those  *)
(* of different contexts in any order the waits between them allow.  The   *)
(* sync points of a buffer decide which waits are put there.               *)
(***************************************************************************)
EXTENDS Integers, Sequences, FiniteSets, SequencesExt

CONSTANTS Writers,    \* contexts that render into buffers
          Readers,    \* contexts that sample from them
          Buffers,    \* textures the factory can create
          KeepCount,  \* keep_count of the pool
          MaxFrames,  \* bound: frames produced
          MaxReads    \* bound: commands of a reader

ASSUME TextureAssumption == KeepCount \in Nat

VARIABLES commands,   \* the commands each context has queued
          done,       \* how many of them the GPU has executed
          content,    \* the frame in each texture
          torn,       \* a command saw another frame than the host meant
          available,  \* available_
          in_use,     \* in_use_count_
          frame,      \* the frame each buffer is to hold, 0 before it is made
          holders,    \* who still holds the shared_ptr of the buffer
          producer_sync,  \* producer_sync_, NoSync if null
          consumer_sync,  \* consumer_multi_sync_: position waited for, by context
          frames      \* frames produced so far

textureVars == <<commands, done, content, torn, available, in_use, frame, holders,
                 producer_sync, consumer_sync, frames>>
gpuVars == <<done, content, torn>>
TextureContexts == Writers \cup Readers
NoSync == [on |-> "none", upTo |-> 0]
Nobody == [c \in {} |-> 0]

TextureInit ==
    /\ commands = [c \in TextureContexts |-> <<>>]
    /\ done = [c \in TextureContexts |-> 0]
    /\ content = [b \in Buffers |-> 0] /\ torn = FALSE
    /\ available = <<>> /\ in_use = 0 /\ frames = 0
    /\ frame = [b \in Buffers |-> 0]
    /\ holders = [b \in Buffers |-> {}]
    /\ producer_sync = [b \in Buffers |-> NoSync]
    /\ consumer_sync = [b \in Buffers |-> Nobody]

InPool == {available[i] : i \in 1 .. Len(available)}
Unmade == {b \in Buffers : frame[b] = 0}
Deleted == -1

\* WaitOnGpu(): glWaitSync() for a sync point on another context's queue
Wait(c, sync) == IF sync = NoSync THEN <<>> ELSE <<[op |-> "wait", on |-> sync.on, upTo |-> sync.upTo]>>

\* GlMultiSyncPoint::WaitOnGpu(), one wait for each context with a sync point
WaitForConsumers(b) ==
    LET on == SetToSeq(DOMAIN consumer_sync[b])
    IN [i \in 1 .. Len(on) |-> [op |-> "wait", on |-> on[i], upTo |-> consumer_sync[b][on[i]]]]

\* Seeded fault: the consumers' sync points are dropped without a wait.
ReuseWithoutWait(b) == <<>>

\* Reuse(): commands put in the queue of the context that takes the buffer
ReuseWaits(b) == WaitForConsumers(b)

\* ReusablePool::GetBuffer(), then GetWriteView(), rendering, and
\* ViewDoneWriting() with a sync point behind the rendering.  GetBuffer() calls
\* Reuse() on a buffer of the pool, which also drops the producer's sync point,
\* so that WaitOnGpu() and the second Reuse() find nothing left to wait for.
Produce(c, readers) ==
    /\ frames < MaxFrames
    /\ \E b \in IF available = <<>> THEN Unmade ELSE {Last(available)} :
          /\ available' = IF available = <<>> THEN available ELSE Front(available)
          /\ commands' = [commands EXCEPT ![c] =
                (IF available = <<>> THEN @ ELSE @ \o ReuseWaits(b))
                   \o <<[op |-> "write", buffer |-> b, frame |-> frames + 1]>>]
          /\ producer_sync' = [producer_sync EXCEPT ![b] = [on |-> c, upTo |-> Len(commands'[c])]]
          /\ consumer_sync' = [consumer_sync EXCEPT ![b] = Nobody]
          /\ frame' = [frame EXCEPT ![b] = frames + 1]
          /\ holders' = [holders EXCEPT ![b] = readers \cup {c}]
    /\ in_use' = in_use + 1
    /\ frames' = frames + 1
    /\ UNCHANGED gpuVars

ProducerWait(c, b) == Wait(c, producer_sync[b])

\* GetReadView(), sampling, and DidRead() with a sync point behind it: it
\* replaces an earlier one of the same context (GlMultiSyncPoint::Add()).
Read(c, b) ==
    /\ c \in holders[b] \cap Readers
    /\ commands' = [commands EXCEPT ![c] =
          @ \o ProducerWait(c, b) \o <<[op |-> "read", buffer |-> b, frame |-> frame[b]]>>]
    /\ consumer_sync' = [consumer_sync EXCEPT ![b] =
          [d \in DOMAIN @ \cup {c} |-> IF d = c THEN Len(commands'[c]) ELSE @[d]]]
    /\ UNCHANGED <<gpuVars, available, in_use, frame, holders, producer_sync, frames>>

\* TrimAvailable(): how many buffers may stay
Keep(used) == IF KeepCount > used THEN KeepCount - used ELSE 0

\* A holder drops its shared_ptr; the last one returns the buffer to the pool,
\* which drops what is too much.  A texture is deleted without a wait: GL keeps
\* its memory while queued commands use it, so its name is not used again here.
Drop(c, b) ==
    /\ c \in holders[b]
    /\ holders' = [holders EXCEPT ![b] = @ \ {c}]
    /\ IF holders[b] = {c}
       THEN /\ in_use' = in_use - 1
            /\ LET all == Append(available, b)
                   kept == IF Len(all) > Keep(in_use - 1) THEN Keep(in_use - 1) ELSE Len(all)
                   trimmed == {all[i] : i \in kept + 1 .. Len(all)}
               IN /\ available' = SubSeq(all, 1, kept)
                  /\ frame' = [x \in Buffers |-> IF x \in trimmed THEN Deleted ELSE frame[x]]
       ELSE UNCHANGED <<in_use, available, frame>>
    /\ UNCHANGED <<commands, gpuVars, producer_sync, consumer_sync, frames>>

\* The GPU executes the next command of a context.
Execute(c) ==
    /\ done[c] < Len(commands[c])
    /\ LET cmd == commands[c][done[c] + 1]
       IN /\ cmd.op = "wait" => done[cmd.on] >= cmd.upTo
          /\ content' = IF cmd.op = "write" THEN [content EXCEPT ![cmd.buffer] = cmd.frame] ELSE content
          /\ torn' = (torn \/ (cmd.op = "read" /\ content[cmd.buffer] # cmd.frame))
    /\ done' = [done EXCEPT ![c] = @ + 1]
    /\ UNCHANGED <<commands, available, in_use, frame, holders, producer_sync, consumer_sync, frames>>

TextureNext ==
    \/ \E c \in Writers, readers \in SUBSET Readers : Produce(c, readers)
    \/ \E c \in Readers, b \in Buffers : Len(commands[c]) < MaxReads /\ Read(c, b)
    \/ \E c \in TextureContexts, b \in Buffers : Drop(c, b)
    \/ \E c \in TextureContexts : Execute(c)

TextureSpec == TextureInit /\ [][TextureNext]_textureVars

-----------------------------------------------------------------------------

\* What a consumer samples is the frame it was given, however far the GPU lags
\* behind the host: the producer's sync point orders the sampling after the
\* rendering, the consumers' sync points order the next rendering after the
\* sampling (GetReadView, DidRead, Reuse).
NoFrameTorn == ~torn

\* Buffers wait in the pool only within keep_count, and never while they are
\* held (GetBuffer, Return, TrimAvailable).
PoolWithinKeepCount ==
    /\ available # <<>> => Len(available) + in_use <= KeepCount
    /\ in_use = Cardinality({b \in Buffers : holders[b] # {}})
    /\ \A b \in InPool : holders[b] = {}

\* Frames stay whole (no writer and reader overlap on a buffer, whatever the
\* GPU has still to do) although the pool reuses buffers and holds back no more
\* than its keep count.
FramesWhole == NoFrameTorn /\ PoolWithinKeepCount
=============================================================================
