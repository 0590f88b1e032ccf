----------------------------- MODULE GpuBuffers -----------------------------
(***************************************************************************)
(* GpuBuffer and Image: handles to one picture that may be kept in several *)
(* storages at once, a GlTextureBuffer on the GPU and an ImageFrame on the *)
(* CPU.  Asking a handle for a view picks a storage that provides it,      *)
(* converts one that does not, or allocates one; a view for writing throws *)
(* the other storages away.  A copy of a handle copies the list of         *)
(* storages, and shares the storages.                                      *)
(***************************************************************************)
EXTENDS Naturals, SequencesExt

CONSTANTS
    Handles,        \* GpuBuffers and Images
    ImageHandles,   \* those of them that are Images
    StorageIds,     \* storages that can be allocated
    Registrations,  \* the factories and converters, in the order they register
    MaxWrites,      \* bound: pictures written
    WriteShared     \* a handle may be written while a copy of it exists

VARIABLES
    storage,    \* [type, content], or Free
    handle,     \* [storages, useGpu]: storages_ and, in an Image, use_gpu_
    written,    \* how many pictures were written
    expected    \* the picture each handle stands for, 0 before it is written

bufferVars == <<storage, handle, written, expected>>

Free == [type |-> "free", content |-> 0]
Null == [storages |-> <<>>, useGpu |-> FALSE]

BufferInit ==
    /\ storage = [s \in StorageIds |-> Free]
    /\ handle = [b \in Handles |-> Null]
    /\ written = 0
    /\ expected = [b \in Handles |-> 0]

-----------------------------------------------------------------------------
\* GetProviderTypes of the storage classes, and can_down_cast_to.
Provides(type, view) == \/ type = "texture" /\ view = "GlTextureView"
                        \/ type = "frame" /\ view = "ImageFrame"

\* The storage made by the last of the registered functions that match: a later
\* registration replaces an earlier one.
LastRegistered(Matches(_)) ==
    LET found == {i \in DOMAIN Registrations : Matches(Registrations[i])}
    IN  IF found = {} THEN "none"
        ELSE Registrations[CHOOSE i \in found : \A j \in found : j <= i].to

\* factory_for_view_provider_
FactoryFor(view) == LastRegistered(LAMBDA r : r.from = "" /\ Provides(r.to, view))

\* converter_for_view_provider_and_existing_storage_
ConverterFor(view, type) == LastRegistered(LAMBDA r : r.from = type /\ Provides(r.to, view))

\* A picture on the GPU can be had on the CPU (gl_texture_buffer.cc:383).
ASSUME BufferAssumption ==
    /\ Registrations \in Seq([from : STRING, to : STRING])
    /\ ConverterFor("ImageFrame", "texture") # "none"

Referenced(handles) == UNION {ToSet(handles[b].storages) : b \in Handles}

\* Bound: there is a storage left to allocate.
CanAllocate == \E s \in StorageIds : storage[s] = Free
FreeId == CHOOSE s \in StorageIds : storage[s] = Free

\* The first index of the sequence that satisfies the condition, 0 if none does.
FirstIndex(seq, Test(_)) ==
    LET found == {i \in DOMAIN seq : Test(seq[i])}
    IN  IF found = {} THEN 0 ELSE CHOOSE i \in found : \A j \in found : i <= j

\* Seeded fault: the other storages are kept when one is written.
KeepsOthers(storages, chosen) == storages
\* "Discard all other storages."
OnlyChosen(storages, chosen) == <<chosen>>

\* GpuBuffer::GetStorageForView.  new is the storage it makes, in the free id;
\* chosen is "null" when it finds none.
GetStorageForView(storages, view, forWriting) ==
    LET has == FirstIndex(storages, LAMBDA s : Provides(storage[s].type, view))
        from == FirstIndex(storages, LAMBDA s : ConverterFor(view, storage[s].type) # "none")
        Result(list, chosen, new) == [storages |-> list, chosen |-> chosen, new |-> new]
        Written(list, chosen) == IF forWriting THEN OnlyChosen(list, chosen) ELSE list
    IN  IF has # 0 THEN Result(Written(storages, storages[has]), storages[has], Free)
        ELSE IF from # 0
        THEN Result(Written(Append(storages, FreeId), FreeId), FreeId,
                    [type |-> ConverterFor(view, storage[storages[from]].type),
                     content |-> storage[storages[from]].content])
        ELSE IF forWriting /\ FactoryFor(view) # "none"
        THEN Result(<<FreeId>>, FreeId, [type |-> FactoryFor(view), content |-> 0])
        ELSE Result(storages, "null", Free)

\* The handles become handles; a storage no handle refers to is destroyed.
SetHandles(handles, stores) ==
    /\ handle' = handles
    /\ storage' = [s \in StorageIds |-> IF s \in Referenced(handles) THEN stores[s] ELSE Free]

Made(r) == IF r.new = Free THEN storage ELSE [storage EXCEPT ![r.chosen] = r.new]

\* A view for reading: GetViewProviderOrDie stops the program when there is none.
GetReadView(b, view, useGpu) ==
    LET r == GetStorageForView(handle[b].storages, view, FALSE)
    IN  /\ r.chosen # "null" /\ (r.new # Free => CanAllocate)
        /\ SetHandles([handle EXCEPT ![b] = [storages |-> r.storages, useGpu |-> useGpu]], Made(r))
        /\ UNCHANGED <<written, expected>>

\* A view for writing, and with picture # 0 what is written through it.
GetWriteView(b, view, useGpu, picture) ==
    LET r == GetStorageForView(handle[b].storages, view, TRUE)
    IN  /\ r.chosen # "null" /\ (r.new # Free => CanAllocate)
        /\ SetHandles([handle EXCEPT ![b] = [storages |-> r.storages, useGpu |-> useGpu]],
                      IF picture = 0 THEN Made(r)
                      ELSE [Made(r) EXCEPT ![r.chosen].content = picture])

\* No other handle refers to a storage of this one.
Sole(b) == \A c \in Handles \ {b} :
    ToSet(handle[b].storages) \cap ToSet(handle[c].storages) = {}

WritePicture(b, view, useGpu) ==
    /\ written < MaxWrites
    /\ WriteShared \/ Sole(b)
    /\ GetWriteView(b, view, useGpu, written + 1)
    /\ written' = written + 1
    /\ expected' = [expected EXCEPT ![b] = written + 1]

-----------------------------------------------------------------------------
NewStorage(b, type, content, useGpu) ==
    /\ CanAllocate
    /\ SetHandles([handle EXCEPT ![b] = [storages |-> <<FreeId>>, useGpu |-> useGpu]],
                  [storage EXCEPT ![FreeId] = [type |-> type, content |-> content]])
    /\ written' = IF content = 0 THEN written ELSE content
    /\ expected' = [expected EXCEPT ![b] = content]

\* GpuBuffer(width, height, format): a placeholder, allocated with the first view.
NewBuffer(b) ==
    /\ b \notin ImageHandles
    /\ NewStorage(b, "placeholder", 0, FALSE)

\* GlCalculatorHelper::GpuBufferWithImageFrame, and Image(ImageFrameSharedPtr).
FromImageFrame(b) ==
    /\ written < MaxWrites
    /\ NewStorage(b, "frame", written + 1, FALSE)

\* GlCalculatorHelper::CreateDestinationTexture, a buffer of the pool written
\* through its texture view, and GlTexture::GetFrame.
RenderNew(b) ==
    /\ written < MaxWrites
    /\ NewStorage(b, "texture", written + 1, b \in ImageHandles)

\* CreateSourceTexture, and a calculator that reads the ImageFrame of a buffer.
ReadTexture(b) == b \notin ImageHandles /\ GetReadView(b, "GlTextureView", FALSE)
ReadFrame(b) == b \notin ImageHandles /\ GetReadView(b, "ImageFrame", FALSE)

\* Drawing into a buffer, and writing to its ImageFrame.
WriteBuffer(b) ==
    /\ b \notin ImageHandles
    /\ \E view \in {"GlTextureView", "ImageFrame"} : WritePicture(b, view, FALSE)

\* The copy constructor and assignment of GpuBuffer and of Image; an Image made
\* from a GpuBuffer says its data is on the GPU, and GetGpuBuffer gives the
\* buffer of an Image back.
CopyHandle(b, c) ==
    /\ b # c
    /\ handle[b].storages # <<>>
    /\ c \in ImageHandles => storage[handle[b].storages[1]].type # "placeholder"
    /\ \/ /\ b \in ImageHandles <=> c \in ImageHandles
          /\ SetHandles([handle EXCEPT ![c] = handle[b]], storage)
       \/ /\ b \notin ImageHandles /\ c \in ImageHandles
          /\ SetHandles([handle EXCEPT ![c] = [handle[b] EXCEPT !.useGpu = TRUE]], storage)
       \/ /\ b \in ImageHandles /\ c \notin ImageHandles /\ handle[b].useGpu
          /\ SetHandles([handle EXCEPT ![c] = [handle[b] EXCEPT !.useGpu = FALSE]], storage)
    /\ expected' = [expected EXCEPT ![c] = expected[b]]
    /\ UNCHANGED written

\* Assignment of nullptr, which leaves use_gpu_ as it was.
ClearHandle(b) ==
    /\ handle[b].storages # <<>>
    /\ SetHandles([handle EXCEPT ![b].storages = <<>>], storage)
    /\ expected' = [expected EXCEPT ![b] = 0]
    /\ UNCHANGED written

-----------------------------------------------------------------------------
\* Image::ConvertToCpu and ConvertToGpu: a read view, and the flag.
ConvertToCpu(b) == b \in ImageHandles /\ GetReadView(b, "ImageFrame", FALSE)
ConvertToGpu(b) == b \in ImageHandles
                   /\ GetReadView(b, "GlTextureView", TRUE)

\* GetImageFrameSharedPtr takes a view for writing, because its result is not
\* const, and leaves use_gpu_ alone.
GetImageFrameSharedPtr(b) ==
    /\ b \in ImageHandles
    /\ GetWriteView(b, "ImageFrame", handle[b].useGpu, 0)
    /\ UNCHANGED <<written, expected>>

\* PixelReadLock: ConvertToCpu, then GetImageFrameSharedPtr.  Both in one step:
\* the first leaves an ImageFrame for the second to choose.
PixelReadLock(b) ==
    /\ b \in ImageHandles
    /\ GetWriteView(b, "ImageFrame", FALSE, 0)
    /\ UNCHANGED <<written, expected>>

\* PixelWriteLock: the same, and the pixels are written before it is released.
PixelWriteLock(b) == b \in ImageHandles /\ WritePicture(b, "ImageFrame", FALSE)

BufferNext ==
    \E b \in Handles :
        \/ NewBuffer(b) \/ FromImageFrame(b) \/ RenderNew(b)
        \/ ReadTexture(b) \/ ReadFrame(b) \/ WriteBuffer(b)
        \/ \E c \in Handles : CopyHandle(b, c)
        \/ ClearHandle(b)
        \/ ConvertToCpu(b) \/ ConvertToGpu(b)
        \/ PixelReadLock(b) \/ PixelWriteLock(b)
        \/ GetImageFrameSharedPtr(b)

BufferSpec == BufferInit /\ [][BufferNext]_bufferVars

-----------------------------------------------------------------------------
\* Whatever view a handle is asked for, it shows the picture last written
\* through that handle or the handle it was copied from: every storage a handle
\* keeps, converted at whatever moment, holds that picture.
EveryViewShowsPicture ==
    \A b \in Handles : \A s \in ToSet(handle[b].storages) : storage[s].content = expected[b]

==============================================================================
