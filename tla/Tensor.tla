------------------------------- MODULE Tensor -------------------------------
(***************************************************************************)
(* A Tensor keeps the same values in several places: CPU memory, an OpenGL *)
(* buffer, an OpenGL texture and, where use_ahwb_ is set, an Android       *)
(* hardware buffer that CPU and OpenGL buffer views share.  valid_ says    *)
(* which of them are up to date; a view holds view_mutex_ while it lives.  *)
(*   src/mediapipe/framework/formats/tensor.h, tensor.cc, tensor_ahwb.cc   *)
(*                                                                         *)
(* The values are versions: each write view makes a new one.  What the GPU *)
(* and a device do with a hardware buffer after the view has gone (using)  *)
(* is apart from what the tensor keeps of it: a fence of the GPU's reads   *)
(* (ssbo_read_), a function that says that a device is done                *)
(* (ahwb_written_) and the EGL fence (fence_sync_).  A thread's GL context *)
(* and its device take their work in order.  The GPU's writes, after which *)
(* the code leaves no fence, happen at once (GlContext is about when they  *)
(* do), and Metal is left out.                                             *)
(***************************************************************************)
EXTENDS Integers, Sequences, FiniteSets

CONSTANTS TensorThreads, Tensors,
          MaxVersion      \* bound: write views

VARIABLES use_ahwb,     \* use_ahwb_, the storage type the process prefers
          version,      \* write views so far
          valid,        \* tensor -> subset of Resources, valid_
          heldVersion,      \* tensor -> resource -> version it holds
          allocated,    \* tensor -> resources that exist
          latest,       \* tensor -> version of the last write view
          using,        \* tensor -> what still reads or writes the hardware buffer,
                        \*   as long as nothing has replaced its fence or function
          ssbo_read,    \* tensor -> the uses the fence ssbo_read_ is about, {}: none
          ahwb_written, \* tensor -> the uses ahwb_written_ is about, {}: none
          fence_sync,   \* tensor -> fence_sync_ is set
          view,         \* thread -> what it does or holds
          toRelease,    \* DelayedReleaser: [uses, waits], the buffers that are kept
          overtaken,    \* a write came between a read's check of valid_ and its lock
          misread,      \* a read view showed something else than the last write
          freed         \* a hardware buffer was released in use

fenceVars == <<ssbo_read, ahwb_written, fence_sync>>
valueVars == <<version, valid, heldVersion, allocated, latest>>
flagVars == <<overtaken, misread>>
tensorVars == <<use_ahwb, valueVars, using, fenceVars, view, toRelease, flagVars, freed>>

\* What goes on with a hardware buffer after a view: the GPU reads it, the device
\* of a thread writes or reads it.
Use(t, kind) == [by |-> t, kind |-> kind]
Uses == {Use(t, kind) : t \in TensorThreads, kind \in {"gpu", "write", "read"}}
Writing(x) == \E u \in using[x] : u.kind = "write"

Resources == {"cpu", "buffer", "texture", "ahwb"}
NoView == [pc |-> "none", tensor |-> 0, res |-> "none"]
Unheld == [r \in Resources |-> 0]

TensorInit ==
  /\ use_ahwb \in BOOLEAN /\ version = 0
  /\ valid = [x \in Tensors |-> {}] /\ heldVersion = [x \in Tensors |-> Unheld]
  /\ allocated = [x \in Tensors |-> {}] /\ latest = [x \in Tensors |-> 0]
  /\ using = [x \in Tensors |-> {}]
  /\ ssbo_read = [x \in Tensors |-> {}] /\ ahwb_written = [x \in Tensors |-> {}]
  /\ fence_sync = [x \in Tensors |-> FALSE]
  /\ view = [t \in TensorThreads |-> NoView] /\ toRelease = {}
  /\ overtaken = FALSE /\ misread = FALSE /\ freed = FALSE

Locked(x) == \E t \in TensorThreads : view[t].pc \in {"read", "write"} /\ view[t].tensor = x

\* The hardware buffer stands in for CPU memory and for the OpenGL buffer where it
\* is preferred, never for the texture.
AllocateAHardwareBuffer(x) == allocated[x] \cup {"ahwb"}
AllocateAhwbMapToSsbo(x) == IF use_ahwb THEN AllocateAHardwareBuffer(x) ELSE allocated[x]
AllocateCpuBuffer(x) == IF use_ahwb THEN AllocateAHardwareBuffer(x) ELSE allocated[x] \cup {"cpu"}
AllocateOpenGlBuffer(x) == AllocateAhwbMapToSsbo(x) \cup {"buffer"}
AllocateOpenGlTexture2d(x) == allocated[x] \cup {"texture"}

\* Where the values of a view lie.
Home(r) == IF use_ahwb /\ r \in {"cpu", "buffer"} THEN "ahwb" ELSE r

\* The resources a view of r can be made current from.
Convertible(r) ==
  CASE r = "texture" -> {"cpu", "texture"}
    [] r = "buffer" -> {"cpu", "buffer"} \cup (IF use_ahwb THEN {"ahwb"} ELSE {})
    [] r = "ahwb" -> {"cpu", "buffer", "ahwb"}
    [] OTHER -> Resources

\* The resources the build offers: with hardware buffers a texture would be read
\* back into CPU memory that AllocateCpuBuffer has not made.
Offered == IF use_ahwb THEN {"cpu", "buffer", "ahwb"} ELSE {"cpu", "buffer", "texture"}

-----------------------------------------------------------------------------
\* GetOpenGlBufferReadView and GetOpenGlTexture2dReadView look at valid_ before
\* they take the mutex; the CPU and hardware buffer views look afterwards.
\* A failed check ends the process, so that only accepted calls go on.
BeginRead(t, x, r) ==
  /\ view[t] = NoView /\ r \in Offered
  /\ r \in {"buffer", "texture"} => valid[x] \cap Convertible(r) # {}
  /\ view' = [view EXCEPT ![t] = [pc |-> "begun", tensor |-> x, res |-> r]]
  /\ UNCHANGED <<use_ahwb, valueVars, using, fenceVars, toRelease, flagVars, freed>>

\* Seeded fault: the texture is preferred although the buffer may be newer.
TextureFirst(x) == IF "texture" \in allocated[x] THEN "texture"
                   ELSE IF "buffer" \in valid[x] THEN "buffer" ELSE "cpu"

\* What CPU memory is filled from: the OpenGL buffer before the texture.
CpuSource(x) == IF "buffer" \in valid[x] THEN "buffer"
                ELSE IF "texture" \in valid[x] THEN "texture" ELSE "cpu"

\* The contents after view r is made current: nothing is copied when it is valid,
\* or when it shares the hardware buffer with the one that is.
Synchronized(x, r, source) ==
  IF r \in valid[x] \/ Home(r) = "ahwb" THEN heldVersion[x]
  ELSE [heldVersion[x] EXCEPT ![r] = heldVersion[x][source]]

Begun(t, r) == view[t].pc = "begun" /\ view[t].res = r

\* A read view: the mutex is taken, the resource made (made) and filled from
\* source.  What reads the hardware buffer afterwards is new.
ReadView(t, r, made, source, new) ==
  LET x == view[t].tensor
      shown == Synchronized(x, r, source) IN
  /\ ~Locked(x)
  /\ heldVersion' = [heldVersion EXCEPT ![x] = shown]
  /\ allocated' = [allocated EXCEPT ![x] = made]
  /\ valid' = [valid EXCEPT ![x] = @ \cup {r}]
  /\ using' = [using EXCEPT ![x] = @ \cup new]
  /\ view' = [view EXCEPT ![t].pc = "read"]
  /\ overtaken' = (overtaken \/ valid[x] \cap Convertible(r) = {})
  /\ misread' = (misread \/ shown[Home(r)] # latest[x])
  /\ UNCHANGED <<use_ahwb, version, latest, ssbo_read, ahwb_written, toRelease, freed>>

\* MapAhwbToCpuRead waits for the writer of a hardware buffer.
GetCpuReadView(t) ==
  LET x == view[t].tensor IN
  /\ Begun(t, "cpu") /\ valid[x] # {} /\ ~Writing(x)
  /\ ReadView(t, "cpu", AllocateCpuBuffer(x), CpuSource(x), {})
  /\ UNCHANGED fence_sync

\* The EGL fence keeps the GPU's reads behind the device's writes
\* (InsertAhwbToSsboFence), so that nothing waits for the device here.
GetOpenGlBufferReadView(t) ==
  LET x == view[t].tensor IN
  /\ Begun(t, "buffer")
  /\ ReadView(t, "buffer", AllocateOpenGlBuffer(x), "cpu",
              IF use_ahwb THEN {Use(t, "gpu")} ELSE {})
  /\ fence_sync' = [fence_sync EXCEPT ![x] = @ \/ (use_ahwb /\ "buffer" \notin valid[x])]

GetOpenGlTexture2dReadView(t) ==
  LET x == view[t].tensor IN
  /\ Begun(t, "texture") /\ ReadView(t, "texture", AllocateOpenGlTexture2d(x), "cpu", {})
  /\ UNCHANGED fence_sync

\* The caller waits for what was written: for the GPU by the file descriptor of the
\* EGL fence (CreateEglSyncAndFd), for a device by itself.
GetAHardwareBufferReadView(t) ==
  LET x == view[t].tensor IN
  /\ Begun(t, "ahwb") /\ valid[x] \cap Convertible("ahwb") # {} /\ ~Writing(x)
  /\ ReadView(t, "ahwb", AllocateAHardwareBuffer(x), "cpu", {Use(t, "read")})
  /\ fence_sync' = [fence_sync EXCEPT ![x] = @ \/ "buffer" \in valid[x]]

\* After a write view only the written resource is valid.
ValidAfterWrite(x, r) == {r}

\* A write view.  The holder writes before it lets go of the view; a device goes on
\* writing a hardware buffer afterwards, and is read before the next write (the
\* condition stated at MapAhwbToCpuWrite).
Write(t, x, r, made) ==
  /\ view[t] = NoView /\ r \in Offered /\ ~Locked(x)
  /\ version < MaxVersion /\ ~Writing(x)
  /\ version' = version + 1
  /\ latest' = [latest EXCEPT ![x] = version + 1]
  /\ heldVersion' = [heldVersion EXCEPT ![x][Home(r)] = version + 1]
  /\ allocated' = [allocated EXCEPT ![x] = made]
  /\ valid' = [valid EXCEPT ![x] = ValidAfterWrite(x, r)]
  /\ using' = [using EXCEPT ![x] = @ \cup (IF r = "ahwb" THEN {Use(t, "write")} ELSE {})]
  /\ view' = [view EXCEPT ![t] = [pc |-> "write", tensor |-> x, res |-> r]]
  /\ UNCHANGED <<use_ahwb, fenceVars, toRelease, flagVars, freed>>

GetCpuWriteView(t, x) == Write(t, x, "cpu", AllocateCpuBuffer(x))
GetOpenGlBufferWriteView(t, x) == Write(t, x, "buffer", AllocateOpenGlBuffer(x))
GetOpenGlTexture2dWriteView(t, x) == Write(t, x, "texture", AllocateOpenGlTexture2d(x))
GetAHardwareBufferWriteView(t, x) == Write(t, x, "ahwb", AllocateAHardwareBuffer(x))

\* The use that the end of a view records, if any: ~OpenGlBufferView of a read view
\* puts a fence behind the GPU's reads, and the holder of a hardware buffer view has
\* said when its device is done (SetReadingFinishedFunc, SetWritingFinishedFD).
ReadFence(t) == IF use_ahwb /\ view[t].pc = "read" /\ view[t].res = "buffer"
                THEN {Use(t, "gpu")} ELSE {}
FinishingFunc(t) == IF view[t].res = "ahwb" THEN {Use(t, view[t].pc)} ELSE {}

\* The tensor keeps one fence and one function: a new one replaces the old, and
\* nothing tells any more of a use of another thread that the old one was about.
Kept(old, new) == IF new = {} THEN old ELSE new
Replaced(old, new) == IF new = {} THEN {} ELSE old

\* ~View: the mutex is released.
ReleaseView(t) ==
  LET x == view[t].tensor
      new == ReadFence(t) \cup FinishingFunc(t)
      gone == Replaced(ssbo_read[x], ReadFence(t)) \cup Replaced(ahwb_written[x], FinishingFunc(t)) IN
  /\ view[t].pc \in {"read", "write"}
  /\ ssbo_read' = [ssbo_read EXCEPT ![x] = Kept(@, ReadFence(t))]
  /\ ahwb_written' = [ahwb_written EXCEPT ![x] = Kept(@, FinishingFunc(t))]
  /\ using' = [using EXCEPT ![x] = @ \ (gone \ new)]
  /\ view' = [view EXCEPT ![t] = NoView]
  /\ UNCHANGED <<use_ahwb, valueVars, fence_sync, toRelease, flagVars, freed>>

\* The GPU or a device is done with the hardware buffer of a tensor, or with one
\* whose tensor has gone.
UseDone(x) ==
  /\ \E u \in using[x] : using' = [using EXCEPT ![x] = @ \ {u}]
  /\ UNCHANGED <<use_ahwb, valueVars, fenceVars, view, toRelease, flagVars, freed>>

LateUseDone ==
  /\ \E e \in toRelease : \E u \in e.uses :
        toRelease' = (toRelease \ {e}) \cup {[uses |-> e.uses \ {u}, waits |-> e.waits]}
  /\ UNCHANGED <<use_ahwb, valueVars, using, fenceVars, view, flagVars, freed>>

\* DelayedReleaser::IsSignaled: the function and the fence say that what they are
\* about is done.  fence_sync_ is only destroyed, not waited for.
IsSignaled(e) == e.waits \cap e.uses = {}

\* DelayedReleaser::Add: the new buffer joins the others, and those that are
\* signaled go.
DelayedRelease(e) ==
  LET all == toRelease \cup {e} IN
  /\ toRelease' = {d \in all : ~IsSignaled(d)}
  /\ freed' = (freed \/ \E d \in all : IsSignaled(d) /\ d.uses # {})

\* ReleaseAhwbStuff: a buffer with a fence or a function is handed to the
\* DelayedReleaser, another one is released at once.
ReleaseAhwbStuff(x) ==
  IF "ahwb" \notin allocated[x] THEN UNCHANGED <<toRelease, freed>>
  ELSE IF ssbo_read[x] # {} \/ fence_sync[x] \/ ahwb_written[x] # {}
       THEN DelayedRelease([uses |-> using[x], waits |-> ssbo_read[x] \cup ahwb_written[x]])
       ELSE /\ freed' = (freed \/ using[x] # {}) /\ UNCHANGED toRelease

Unused(x) == \A t \in TensorThreads : view[t].tensor # x

\* Invalidate (from the destructor, of a tensor nobody uses any more).
Invalidate(x) ==
  /\ Unused(x) /\ allocated[x] # {} /\ ReleaseAhwbStuff(x)
  /\ valid' = [valid EXCEPT ![x] = {}] /\ heldVersion' = [heldVersion EXCEPT ![x] = Unheld]
  /\ allocated' = [allocated EXCEPT ![x] = {}] /\ latest' = [latest EXCEPT ![x] = 0]
  /\ using' = [using EXCEPT ![x] = {}]
  /\ ssbo_read' = [ssbo_read EXCEPT ![x] = {}] /\ ahwb_written' = [ahwb_written EXCEPT ![x] = {}]
  /\ fence_sync' = [fence_sync EXCEPT ![x] = FALSE]
  /\ UNCHANGED <<use_ahwb, version, view, flagVars>>

Handed(f, x, y, none) == [f EXCEPT ![x] = f[y], ![y] = none]

\* Seeded fault: the fence of the GPU's reads stays behind.
MoveFunction(x, y) ==
  /\ ahwb_written' = Handed(ahwb_written, x, y, {}) /\ fence_sync' = Handed(fence_sync, x, y, FALSE)
  /\ UNCHANGED ssbo_read

\* MoveAhwbStuff: the fences and the function go with the hardware buffer.
MoveAhwbStuff(x, y) ==
  /\ ssbo_read' = Handed(ssbo_read, x, y, {}) /\ ahwb_written' = Handed(ahwb_written, x, y, {})
  /\ fence_sync' = Handed(fence_sync, x, y, FALSE)

\* operator=(Tensor&&): Invalidate, then Move leaves the source empty.
MoveAssign(x, y) ==
  /\ x # y /\ Unused(x) /\ Unused(y) /\ allocated[y] # {} /\ ReleaseAhwbStuff(x)
  /\ valid' = Handed(valid, x, y, {}) /\ heldVersion' = Handed(heldVersion, x, y, Unheld)
  /\ allocated' = Handed(allocated, x, y, {}) /\ latest' = Handed(latest, x, y, 0)
  /\ using' = Handed(using, x, y, {}) /\ MoveAhwbStuff(x, y)
  /\ UNCHANGED <<use_ahwb, version, view, flagVars>>

TensorNext ==
  \/ \E t \in TensorThreads :
       \/ GetCpuReadView(t) \/ GetOpenGlBufferReadView(t)
       \/ GetOpenGlTexture2dReadView(t) \/ GetAHardwareBufferReadView(t)
       \/ ReleaseView(t)
       \/ \E x \in Tensors :
            \/ \E r \in Resources : BeginRead(t, x, r)
            \/ GetCpuWriteView(t, x) \/ GetOpenGlBufferWriteView(t, x)
            \/ GetOpenGlTexture2dWriteView(t, x) \/ GetAHardwareBufferWriteView(t, x)
  \/ \E x \in Tensors : UseDone(x) \/ Invalidate(x) \/ \E y \in Tensors : MoveAssign(x, y)
  \/ LateUseDone

TensorSpec == TensorInit /\ [][TensorNext]_tensorVars

-----------------------------------------------------------------------------
(***************************************************************************)
(* A read view shows the last write, whichever resource it was made to and *)
(* whichever it is read from, as long as no write has come between a       *)
(* read's look at valid_ and its taking the mutex; and no hardware buffer  *)
(* is released while the GPU reads it or a device uses it, whether its     *)
(* tensor was dropped or assigned to, unless another reader's fence or     *)
(* function has replaced the one that told of that use.                    *)
(***************************************************************************)
ViewsShowLastWrite == (misread => overtaken) /\ ~freed

=============================================================================
