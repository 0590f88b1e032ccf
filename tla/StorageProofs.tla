---------------------------- MODULE StorageProofs ----------------------------
(***************************************************************************)
(* Proofs about data that is kept in several places at once, tensors and   *)
(* the pictures of GpuBuffers and Images, and about textures that contexts *)
(* share.  Whichever place a view is given, for every number of threads,   *)
(* handles, storages and writes, it shows what was last written; whatever  *)
(* the GPU has still to do, a read finds the frame it was queued for.  And *)
(* about packets: their data stays intact, whatever the threads that hold  *)
(* it copy, move, share and consume.                                       *)
(***************************************************************************)
EXTENDS Tensor, GpuBuffers, TextureBuffers, Packets, NumberLemmas, FiniteSetTheorems,
        SequenceTheorems

\* A place a view can begin at, and a place that can be valid.
Views == [pc : {"none", "begun", "read", "write"}, tensor : Tensors \cup {0},
          res : Resources \cup {"none"}]

TensorTypeOK ==
    /\ use_ahwb \in BOOLEAN /\ version \in Nat
    /\ valid \in [Tensors -> SUBSET Resources]
    /\ heldVersion \in [Tensors -> [Resources -> Nat]]
    /\ latest \in [Tensors -> Nat]
    /\ view \in [TensorThreads -> Views]
    /\ overtaken \in BOOLEAN /\ misread \in BOOLEAN

\* Views are of the resources the build offers, and so is what is valid.
OnlyOffered ==
    /\ \A x \in Tensors : valid[x] \subseteq Offered
    /\ \A t \in TensorThreads :
          view[t].pc # "none" => view[t].tensor \in Tensors /\ view[t].res \in Offered

\* A valid resource holds the last write, where a view of it finds the values.
ValidIsCurrent ==
    ~overtaken => \A x \in Tensors : \A r \in valid[x] : heldVersion[x][Home(r)] = latest[x]

ReadsAreCurrent == misread => overtaken

TensorInv == TensorTypeOK /\ OnlyOffered /\ ValidIsCurrent /\ ReadsAreCurrent

LEMMA Homes ==
    ASSUME use_ahwb \in BOOLEAN
    PROVE  /\ Offered \subseteq Resources
           /\ \A r \in Offered : /\ Home(r) \in Resources
                                 /\ use_ahwb => Home(r) = "ahwb"
                                 /\ ~use_ahwb => Home(r) = r /\ Home(r) # "ahwb"
                                 /\ Convertible(r) \subseteq Resources
  BY DEF Offered, Home, Resources, Convertible

\* A resource is filled from one that is valid.
LEMMA SourceIsValid ==
    ASSUME TensorInv, NEW x \in Tensors, NEW r \in Offered, NEW source,
           ~use_ahwb, valid[x] \cap Convertible(r) # {}, r \notin valid[x],
           source = IF r = "cpu" THEN CpuSource(x) ELSE "cpu"
    PROVE  source \in valid[x]
  BY DEF TensorInv, OnlyOffered, Offered, Convertible, CpuSource

\* What a read view is filled with is the last write.
LEMMA ViewIsCurrent ==
    ASSUME TensorInv, NEW x \in Tensors, NEW r \in Offered, ~overtaken,
           NEW source \in Resources,
           valid[x] \cap Convertible(r) # {},
           source = IF r = "cpu" THEN CpuSource(x) ELSE "cpu"
    PROVE  LET shown == Synchronized(x, r, source) IN
           /\ shown[Home(r)] = latest[x]
           /\ \A v \in valid[x] : shown[Home(v)] = latest[x]
  <1>1. /\ use_ahwb \in BOOLEAN /\ heldVersion[x] \in [Resources -> Nat]
        /\ valid[x] \subseteq Offered
        /\ \A v \in valid[x] : heldVersion[x][Home(v)] = latest[x]
    BY DEF TensorInv, TensorTypeOK, OnlyOffered, ValidIsCurrent
  <1>2. PICK v \in valid[x] : v \in Convertible(r)
    OBVIOUS
  <1>3. CASE use_ahwb
    <2>1. Home(r) = "ahwb" /\ Home(v) = "ahwb"
      BY <1>1, <1>2, <1>3, Homes
    <2> QED
      BY <1>1, <2>1 DEF Synchronized
  <1>4. CASE ~use_ahwb
    <2>1. /\ Home(r) = r /\ r # "ahwb" /\ r \in Resources
          /\ \A w \in valid[x] : Home(w) = w
      BY <1>1, <1>4, Homes
    <2>2. CASE r \in valid[x]
      BY <1>1, <2>2 DEF Synchronized
    <2>3. CASE r \notin valid[x]
      <3>1. source \in valid[x]
        BY <1>4, <2>3, SourceIsValid
      <3>2. heldVersion[x][source] = latest[x]
        BY <1>1, <2>1, <3>1
      <3>3. Synchronized(x, r, source) = [heldVersion[x] EXCEPT ![r] = heldVersion[x][source]]
        BY <2>1, <2>3 DEF Synchronized
      <3>4. PICK shown : shown = [heldVersion[x] EXCEPT ![r] = latest[x]]
        OBVIOUS
      <3>5. shown[r] = latest[x] /\ \A w \in valid[x] : shown[w] = heldVersion[x][w]
        <4>1. \A w \in valid[x] : w \in Resources /\ w # r
          BY <1>1, <2>3, Homes
        <4> QED
          BY <1>1, <2>1, <3>4, <4>1
      <3>6. \A w \in valid[x] : heldVersion[x][w] = latest[x] /\ Home(w) = w
        BY <1>1, <2>1
      <3> QED
        BY <2>1, <3>2, <3>3, <3>4, <3>5, <3>6
    <2> QED
      BY <2>2, <2>3
  <1> QED
    BY <1>1, <1>3, <1>4

LEMMA SynchronizedType ==
    ASSUME TensorInv, NEW x \in Tensors, NEW r \in Resources, NEW source \in Resources
    PROVE  Synchronized(x, r, source) \in [Resources -> Nat]
  BY DEF Synchronized, TensorInv, TensorTypeOK

LEMMA ReadViewStep ==
    ASSUME TensorInv, NEW t \in TensorThreads, NEW r, Begun(t, r), NEW made, NEW source, NEW new,
           source = IF r = "cpu" THEN CpuSource(view[t].tensor) ELSE "cpu",
           ReadView(t, r, made, source, new)
    PROVE  TensorInv'
  <1>1. PICK x \in Tensors : x = view[t].tensor
    BY DEF TensorInv, OnlyOffered, Begun
  <1>2. r \in Offered /\ r \in Resources /\ source \in Resources
    <2>1. r \in Offered
      BY DEF TensorInv, OnlyOffered, Begun
    <2> QED
      BY <2>1, Homes DEF TensorInv, TensorTypeOK, CpuSource, Resources
  <1>3. PICK shown \in [Resources -> Nat] : shown = Synchronized(x, r, source)
    BY <1>2, SynchronizedType
  <1>4. /\ heldVersion' = [heldVersion EXCEPT ![x] = shown]
        /\ valid' = [valid EXCEPT ![x] = @ \cup {r}]
        /\ view' = [view EXCEPT ![t].pc = "read"]
        /\ overtaken' = (overtaken \/ valid[x] \cap Convertible(r) = {})
        /\ misread' = (misread \/ shown[Home(r)] # latest[x])
        /\ UNCHANGED <<use_ahwb, version, latest>>
    BY <1>1, <1>3 DEF ReadView
  <1>5. TensorTypeOK'
    <2>1. view' \in [TensorThreads -> Views]
      BY <1>4 DEF TensorInv, TensorTypeOK, Views
    <2> QED
      BY <1>2, <1>4, <2>1 DEF TensorInv, TensorTypeOK
  <1>6. Offered' = Offered /\ \A v : Home(v)' = Home(v)
    BY <1>4 DEF Offered, Home
  <1>7. OnlyOffered'
    <2>1. \A y \in Tensors : valid'[y] = IF y = x THEN valid[x] \cup {r} ELSE valid[y]
      BY <1>4 DEF TensorInv, TensorTypeOK
    <2>2. ASSUME NEW u \in TensorThreads, view'[u].pc # "none"
          PROVE  view'[u].tensor \in Tensors /\ view'[u].res \in Offered
      <3>1. view[u].pc # "none" /\ view'[u].tensor = view[u].tensor /\ view'[u].res = view[u].res
        BY <1>4, <2>2 DEF TensorInv, TensorTypeOK, Views, Begun
      <3> QED
        BY <3>1 DEF TensorInv, OnlyOffered
    <2> QED
      BY <1>2, <1>6, <2>1, <2>2 DEF TensorInv, OnlyOffered
  <1>8. ASSUME ~overtaken'
        PROVE  /\ shown[Home(r)] = latest[x]
               /\ \A v \in valid[x] : shown[Home(v)] = latest[x]
    <2>1. ~overtaken /\ valid[x] \cap Convertible(r) # {}
      BY <1>4, <1>8 DEF TensorInv, TensorTypeOK
    <2> QED
      BY <1>1, <1>2, <1>3, <2>1, ViewIsCurrent
  <1>9. ValidIsCurrent'
    <2> SUFFICES ASSUME ~overtaken', NEW y \in Tensors, NEW v \in valid'[y]
                 PROVE  heldVersion'[y][Home(v)] = latest[y]
      BY <1>4, <1>6 DEF ValidIsCurrent
    <2>1. CASE y = x
      <3>1. v \in valid[x] \cup {r} /\ heldVersion'[x] = shown
        BY <1>4, <2>1 DEF TensorInv, TensorTypeOK
      <3> QED
        BY <1>8, <2>1, <3>1
    <2>2. CASE y # x
      <3>1. v \in valid[y] /\ heldVersion'[y] = heldVersion[y] /\ ~overtaken
        BY <1>4, <2>2 DEF TensorInv, TensorTypeOK
      <3> QED
        BY <3>1 DEF TensorInv, ValidIsCurrent
    <2> QED
      BY <2>1, <2>2
  <1>10. ReadsAreCurrent'
    BY <1>4, <1>8 DEF TensorInv, ReadsAreCurrent, TensorTypeOK
  <1> QED
    BY <1>5, <1>7, <1>9, <1>10 DEF TensorInv

LEMMA WriteStep ==
    ASSUME TensorInv, NEW t \in TensorThreads, NEW x \in Tensors, NEW r \in Resources, NEW made,
           Write(t, x, r, made)
    PROVE  TensorInv'
  <1>1. PICK home \in Resources : home = Home(r)
    BY DEF Home, Resources
  <1>2. PICK n \in Nat : n = version + 1
    BY DEF TensorInv, TensorTypeOK
  <1>3. PICK new : new = [pc |-> "write", tensor |-> x, res |-> r]
    OBVIOUS
  <1>4. /\ r \in Offered /\ version' = n
        /\ latest' = [latest EXCEPT ![x] = n]
        /\ heldVersion' = [heldVersion EXCEPT ![x][home] = n]
        /\ valid' = [valid EXCEPT ![x] = {r}]
        /\ view' = [view EXCEPT ![t] = new]
        /\ UNCHANGED <<use_ahwb, overtaken, misread>>
    BY <1>1, <1>2, <1>3 DEF Write, ValidAfterWrite, flagVars
  <1>5. new \in Views /\ new.tensor = x /\ new.res = r
    BY <1>3 DEF Views
  <1>6. /\ latest'[x] = n /\ heldVersion'[x][home] = n /\ valid'[x] = {r} /\ view'[t] = new
        /\ \A y \in Tensors : y # x => /\ latest'[y] = latest[y] /\ valid'[y] = valid[y]
                                       /\ heldVersion'[y] = heldVersion[y]
        /\ \A u \in TensorThreads : u # t => view'[u] = view[u]
    BY <1>4 DEF TensorInv, TensorTypeOK
  <1>7. Offered' = Offered /\ \A v : Home(v)' = Home(v)
    BY <1>4 DEF Offered, Home
  <1>8. TensorTypeOK'
    <2>1. /\ heldVersion' \in [Tensors -> [Resources -> Nat]]
          /\ latest' \in [Tensors -> Nat] /\ valid' \in [Tensors -> SUBSET Resources]
          /\ view' \in [TensorThreads -> Views]
      BY <1>4, <1>5 DEF TensorInv, TensorTypeOK
    <2> QED
      BY <1>4, <2>1 DEF TensorInv, TensorTypeOK
  <1>9. OnlyOffered'
    <2>1. \A y \in Tensors : valid'[y] \subseteq Offered
      BY <1>4, <1>6 DEF TensorInv, OnlyOffered
    <2>2. \A u \in TensorThreads :
             view'[u].pc # "none" => view'[u].tensor \in Tensors /\ view'[u].res \in Offered
      BY <1>4, <1>5, <1>6 DEF TensorInv, OnlyOffered
    <2> QED
      BY <1>7, <2>1, <2>2 DEF OnlyOffered
  <1>10. ValidIsCurrent'
    <2> SUFFICES ASSUME ~overtaken, NEW y \in Tensors, NEW v \in valid'[y]
                 PROVE  heldVersion'[y][Home(v)] = latest'[y]
      BY <1>4, <1>7 DEF ValidIsCurrent
    <2>1. CASE y = x
      BY <1>1, <1>6, <2>1
    <2>2. CASE y # x
      BY <1>6, <2>2 DEF TensorInv, ValidIsCurrent
    <2> QED
      BY <2>1, <2>2
  <1> QED
    BY <1>4, <1>8, <1>9, <1>10 DEF TensorInv, ReadsAreCurrent

LEMMA TensorInvNext == TensorInv /\ [TensorNext]_tensorVars => TensorInv'
  <1> SUFFICES ASSUME TensorInv, [TensorNext]_tensorVars PROVE TensorInv'
    OBVIOUS
  <1> USE DEF TensorInv
  <1>1. ASSUME NEW t \in TensorThreads,
               \/ GetCpuReadView(t) \/ GetOpenGlBufferReadView(t)
               \/ GetOpenGlTexture2dReadView(t) \/ GetAHardwareBufferReadView(t)
        PROVE  TensorInv'
    <2>1. CASE GetCpuReadView(t)
      BY <2>1, ReadViewStep DEF GetCpuReadView
    <2>2. CASE GetOpenGlBufferReadView(t)
      BY <2>2, ReadViewStep DEF GetOpenGlBufferReadView
    <2>3. CASE GetOpenGlTexture2dReadView(t)
      BY <2>3, ReadViewStep DEF GetOpenGlTexture2dReadView
    <2>4. CASE GetAHardwareBufferReadView(t)
      BY <2>4, ReadViewStep DEF GetAHardwareBufferReadView
    <2> QED
      BY <1>1, <2>1, <2>2, <2>3, <2>4
  <1>2. ASSUME NEW t \in TensorThreads, NEW x \in Tensors,
               \/ GetCpuWriteView(t, x) \/ GetOpenGlBufferWriteView(t, x)
               \/ GetOpenGlTexture2dWriteView(t, x) \/ GetAHardwareBufferWriteView(t, x)
        PROVE  TensorInv'
    BY <1>2, WriteStep DEF GetCpuWriteView, GetOpenGlBufferWriteView, GetOpenGlTexture2dWriteView,
                           GetAHardwareBufferWriteView, Resources
  <1>3. ASSUME UNCHANGED <<use_ahwb, version, valid, heldVersion, latest, overtaken, misread>>,
               TensorTypeOK',
               \A t \in TensorThreads : view'[t].pc # "none" =>
                  view'[t].tensor \in Tensors /\ view'[t].res \in Offered
        PROVE  TensorInv'
    <2>1. Offered' = Offered /\ \A v : Home(v)' = Home(v)
      BY <1>3 DEF Offered, Home
    <2> QED
      BY <1>3, <2>1 DEF OnlyOffered, ValidIsCurrent, ReadsAreCurrent
  <1>4. ASSUME NEW t \in TensorThreads, NEW x \in Tensors, NEW r \in Resources, BeginRead(t, x, r)
        PROVE  TensorInv'
    <2>1. PICK new : new = [pc |-> "begun", tensor |-> x, res |-> r]
      OBVIOUS
    <2>2. new \in Views /\ new.tensor = x /\ new.res = r /\ r \in Offered
          /\ view' = [view EXCEPT ![t] = new]
      BY <1>4, <2>1 DEF BeginRead, Views
    <2>3. TensorTypeOK'
      BY <1>4, <2>2 DEF BeginRead, TensorTypeOK, valueVars, flagVars
    <2>4. \A u \in TensorThreads : view'[u] = new \/ view'[u] = view[u]
      BY <2>2 DEF TensorTypeOK
    <2>5. \A u \in TensorThreads : view'[u].pc # "none" =>
             view'[u].tensor \in Tensors /\ view'[u].res \in Offered
      BY <2>2, <2>4 DEF OnlyOffered
    <2> QED
      BY <1>3, <1>4, <2>3, <2>5 DEF BeginRead, valueVars, flagVars
  <1>5. ASSUME NEW t \in TensorThreads, ReleaseView(t)
        PROVE  TensorInv'
    <2>1. NoView \in Views /\ NoView.pc = "none"
      BY DEF NoView, Views
    <2>2. TensorTypeOK'
      BY <1>5, <2>1 DEF ReleaseView, TensorTypeOK, valueVars, flagVars
    <2>3. \A u \in TensorThreads : view'[u] = NoView \/ view'[u] = view[u]
      BY <1>5 DEF ReleaseView, TensorTypeOK, valueVars, flagVars
    <2>4. \A u \in TensorThreads : view'[u].pc # "none" =>
             view'[u].tensor \in Tensors /\ view'[u].res \in Offered
      BY <2>1, <2>3 DEF OnlyOffered
    <2> QED
      BY <1>3, <1>5, <2>2, <2>4 DEF ReleaseView, valueVars, flagVars
  <1>6. ASSUME UNCHANGED <<use_ahwb, version, valid, heldVersion, latest, view, overtaken, misread>>
        PROVE  TensorInv'
    BY <1>3, <1>6 DEF TensorTypeOK, OnlyOffered
  <1>7. ASSUME NEW x \in Tensors, UseDone(x)
        PROVE  TensorInv'
    BY <1>6, <1>7 DEF UseDone, valueVars, flagVars
  <1>8. CASE LateUseDone
    BY <1>6, <1>8 DEF LateUseDone, valueVars, flagVars
  <1>9. CASE UNCHANGED tensorVars
    BY <1>6, <1>9 DEF tensorVars, valueVars, flagVars
  <1>10. ASSUME NEW x \in Tensors, UNCHANGED <<use_ahwb, version, view, overtaken, misread>>,
                TensorTypeOK',
                \A z \in Tensors : \/ valid'[z] = {}
                                   \/ \E y \in Tensors : /\ valid'[z] = valid[y]
                                                         /\ heldVersion'[z] = heldVersion[y]
                                                         /\ latest'[z] = latest[y]
         PROVE  TensorInv'
    <2>1. Offered' = Offered /\ \A v : Home(v)' = Home(v)
      BY <1>10 DEF Offered, Home
    <2>2. OnlyOffered'
      BY <1>10, <2>1 DEF OnlyOffered
    <2>3. ValidIsCurrent'
      <3> SUFFICES ASSUME ~overtaken, NEW z \in Tensors, NEW v \in valid'[z]
                   PROVE  heldVersion'[z][Home(v)] = latest'[z]
        BY <1>10, <2>1 DEF ValidIsCurrent
      <3>1. PICK y \in Tensors : /\ valid'[z] = valid[y] /\ heldVersion'[z] = heldVersion[y]
                                 /\ latest'[z] = latest[y]
        BY <1>10
      <3> QED
        BY <3>1 DEF ValidIsCurrent
    <2>4. ReadsAreCurrent'
      BY <1>10 DEF ReadsAreCurrent
    <2> QED
      BY <1>10, <2>2, <2>3, <2>4
  <1>11. Unheld \in [Resources -> Nat]
    BY DEF Unheld
  <1>12. ASSUME NEW x \in Tensors, Invalidate(x)
         PROVE  TensorInv'
    <2>1. /\ valid' = [valid EXCEPT ![x] = {}] /\ heldVersion' = [heldVersion EXCEPT ![x] = Unheld]
          /\ latest' = [latest EXCEPT ![x] = 0]
          /\ UNCHANGED <<use_ahwb, version, view, overtaken, misread>>
      BY <1>12 DEF Invalidate, flagVars
    <2>2. TensorTypeOK'
      BY <1>11, <2>1 DEF TensorTypeOK
    <2>3. valid'[x] = {} /\ \A z \in Tensors : z # x => /\ valid'[z] = valid[z]
                                                        /\ heldVersion'[z] = heldVersion[z]
                                                        /\ latest'[z] = latest[z]
      BY <2>1 DEF TensorTypeOK
    <2> QED
      BY <1>10, <2>1, <2>2, <2>3
  <1>13. ASSUME NEW x \in Tensors, NEW y \in Tensors, MoveAssign(x, y)
         PROVE  TensorInv'
    <2>1. /\ valid' = [valid EXCEPT ![x] = valid[y], ![y] = {}]
          /\ heldVersion' = [heldVersion EXCEPT ![x] = heldVersion[y], ![y] = Unheld]
          /\ latest' = [latest EXCEPT ![x] = latest[y], ![y] = 0]
          /\ x # y /\ UNCHANGED <<use_ahwb, version, view, overtaken, misread>>
      BY <1>13 DEF MoveAssign, Handed, flagVars
    <2>2. TensorTypeOK'
      BY <1>11, <2>1 DEF TensorTypeOK
    <2>3. /\ valid'[x] = valid[y] /\ heldVersion'[x] = heldVersion[y] /\ latest'[x] = latest[y]
          /\ valid'[y] = {}
          /\ \A z \in Tensors : z # x /\ z # y => /\ valid'[z] = valid[z]
                                                  /\ heldVersion'[z] = heldVersion[z]
                                                  /\ latest'[z] = latest[z]
      BY <2>1 DEF TensorTypeOK
    <2> QED
      BY <1>10, <2>1, <2>2, <2>3
  <1> QED
    BY <1>1, <1>2, <1>4, <1>5, <1>7, <1>8, <1>9, <1>12, <1>13 DEF TensorNext

-----------------------------------------------------------------------------
\* What is known of the uses of hardware buffers.
UsesTypeOK ==
    /\ using \in [Tensors -> SUBSET Uses]
    /\ ssbo_read \in [Tensors -> SUBSET Uses] /\ ahwb_written \in [Tensors -> SUBSET Uses]
    /\ \A e \in toRelease : e.uses \subseteq e.waits
    /\ freed = FALSE

\* A view of the tensor that is held, and that will tell of the use when it ends.
ToldBy(t, x, u) == /\ view[t].pc \in {"read", "write"} /\ view[t].tensor = x
                   /\ u \in ReadFence(t) \cup FinishingFunc(t)

\* A use is one that the fence or the function is about, or that a view will tell of.
Told(x, u) == u \in ssbo_read[x] \/ u \in ahwb_written[x]
                \/ \E t \in TensorThreads : ToldBy(t, x, u)
UsesAreTold == \A x \in Tensors : \A u \in using[x] : Told(x, u)

UsesInv == UsesTypeOK /\ UsesAreTold

\* A view begins to use the hardware buffer, which it tells of when it ends.
LEMMA ViewUses ==
    ASSUME TensorTypeOK, UsesInv, NEW t \in TensorThreads, NEW x \in Tensors, NEW new \in SUBSET Uses,
           view[t].pc \in {"none", "begun"},
           using' = [using EXCEPT ![x] = @ \cup new],
           \A s \in TensorThreads : s # t => view'[s] = view[s],
           \A u \in new : ToldBy(t, x, u)',
           UNCHANGED <<use_ahwb, ssbo_read, ahwb_written, toRelease, freed>>
    PROVE  UsesInv'
  <1>1. UsesTypeOK'
    BY DEF UsesInv, UsesTypeOK
  <1>2. ASSUME NEW y \in Tensors, NEW u \in using'[y]
        PROVE  Told(y, u)'
    <2>1. CASE u \in using[y]
      <3>1. Told(y, u)
        BY <2>1 DEF UsesInv, UsesAreTold
      <3>2. ASSUME NEW s \in TensorThreads, ToldBy(s, y, u)
            PROVE  ToldBy(s, y, u)'
        <4>1. s # t
          BY <3>2 DEF ToldBy
        <4>2. view'[s] = view[s] /\ use_ahwb' = use_ahwb
          BY <4>1
        <4> QED
          BY <3>2, <4>2 DEF ToldBy, ReadFence, FinishingFunc
      <3> QED
        BY <3>1, <3>2 DEF Told
    <2>2. CASE u \notin using[y]
      <3>1. y = x /\ u \in new
        BY <1>2, <2>2 DEF UsesInv, UsesTypeOK
      <3> QED
        BY <3>1 DEF Told
    <2> QED
      BY <2>1, <2>2
  <1> QED
    BY <1>1, <1>2 DEF UsesInv, UsesAreTold

LEMMA ReadUses ==
    ASSUME TensorInv, UsesInv, NEW t \in TensorThreads, NEW r, Begun(t, r), NEW made, NEW source,
           NEW new \in SUBSET Uses, ReadView(t, r, made, source, new),
           \/ new = {}
           \/ r = "buffer" /\ use_ahwb /\ new = {Use(t, "gpu")}
           \/ r = "ahwb" /\ new = {Use(t, "read")}
    PROVE  UsesInv'
  <1>1. PICK x \in Tensors : x = view[t].tensor
    BY DEF TensorInv, OnlyOffered, Begun
  <1>2. /\ using' = [using EXCEPT ![x] = @ \cup new]
        /\ view' = [view EXCEPT ![t].pc = "read"]
        /\ UNCHANGED <<use_ahwb, ssbo_read, ahwb_written, toRelease, freed>>
    BY <1>1 DEF ReadView
  <1>3. /\ \A s \in TensorThreads : s # t => view'[s] = view[s]
        /\ view'[t].pc = "read" /\ view'[t].tensor = x /\ view'[t].res = r
    BY <1>1, <1>2 DEF TensorInv, TensorTypeOK, Views, Begun
  <1>4. \A u \in new : ToldBy(t, x, u)'
    BY <1>2, <1>3 DEF ToldBy, ReadFence, FinishingFunc
  <1>5. view[t].pc \in {"none", "begun"} /\ TensorTypeOK
    BY DEF Begun, TensorInv
  <1> QED
    BY <1>2, <1>3, <1>4, <1>5, ViewUses

LEMMA WriteUses ==
    ASSUME TensorInv, UsesInv, NEW t \in TensorThreads, NEW x \in Tensors, NEW r \in Resources,
           NEW made, Write(t, x, r, made)
    PROVE  UsesInv'
  <1>1. PICK new : new = IF r = "ahwb" THEN {Use(t, "write")} ELSE {}
    OBVIOUS
  <1>2. PICK v : v = [pc |-> "write", tensor |-> x, res |-> r]
    OBVIOUS
  <1>3. v.pc = "write" /\ v.tensor = x /\ v.res = r /\ new \in SUBSET Uses
    BY <1>1, <1>2 DEF Uses
  <1>4. /\ using' = [using EXCEPT ![x] = @ \cup new] /\ view' = [view EXCEPT ![t] = v]
        /\ view[t] = NoView
        /\ UNCHANGED <<use_ahwb, ssbo_read, ahwb_written, toRelease, freed>>
    BY <1>1, <1>2 DEF Write, fenceVars
  <1>5. view'[t] = v /\ \A s \in TensorThreads : s # t => view'[s] = view[s]
    BY <1>4 DEF TensorInv, TensorTypeOK
  <1>6. \A u \in new : ToldBy(t, x, u)'
    BY <1>1, <1>3, <1>5 DEF ToldBy, ReadFence, FinishingFunc
  <1>7. view[t].pc \in {"none", "begun"} /\ TensorTypeOK
    BY <1>4 DEF NoView, TensorInv
  <1> QED
    BY <1>3, <1>4, <1>5, <1>6, <1>7, ViewUses

\* The end of a view tells of its use, and of the others but those it replaces.
LEMMA ReleaseUses ==
    ASSUME TensorInv, UsesInv, NEW t \in TensorThreads, ReleaseView(t)
    PROVE  UsesInv'
  <1>1. PICK x \in Tensors : x = view[t].tensor
    BY DEF TensorInv, OnlyOffered, ReleaseView
  <1>2. PICK fence, func : fence = ReadFence(t) /\ func = FinishingFunc(t)
    OBVIOUS
  <1>3. PICK gone : gone = Replaced(ssbo_read[x], fence) \cup Replaced(ahwb_written[x], func)
    OBVIOUS
  <1>4. /\ view[t].pc \in {"read", "write"} /\ fence \in SUBSET Uses /\ func \in SUBSET Uses
        /\ ssbo_read' = [ssbo_read EXCEPT ![x] = Kept(@, fence)]
        /\ ahwb_written' = [ahwb_written EXCEPT ![x] = Kept(@, func)]
        /\ using' = [using EXCEPT ![x] = @ \ (gone \ (fence \cup func))]
        /\ view' = [view EXCEPT ![t] = NoView]
        /\ UNCHANGED <<use_ahwb, toRelease, freed>>
    <2>1. view[t].pc \in {"read", "write"}
      BY DEF ReleaseView
    <2>2. fence \in SUBSET Uses /\ func \in SUBSET Uses
      BY <1>2, <2>1 DEF ReadFence, FinishingFunc, Uses
    <2> QED
      BY <1>1, <1>2, <1>3, <2>1, <2>2 DEF ReleaseView
  <1>5. /\ ssbo_read'[x] = Kept(ssbo_read[x], fence) /\ ahwb_written'[x] = Kept(ahwb_written[x], func)
        /\ using'[x] = using[x] \ (gone \ (fence \cup func))
        /\ \A y \in Tensors : y # x => /\ ssbo_read'[y] = ssbo_read[y] /\ using'[y] = using[y]
                                       /\ ahwb_written'[y] = ahwb_written[y]
    BY <1>4 DEF UsesInv, UsesTypeOK
  <1>6. UsesTypeOK'
    BY <1>4 DEF UsesInv, UsesTypeOK, Kept
  <1>7. \A s \in TensorThreads, y \in Tensors : \A u : s # t /\ ToldBy(s, y, u) => ToldBy(s, y, u)'
    <2> SUFFICES ASSUME NEW s \in TensorThreads, NEW y \in Tensors, NEW u, s # t, ToldBy(s, y, u)
                 PROVE  ToldBy(s, y, u)'
      OBVIOUS
    <2>1. view'[s] = view[s] /\ use_ahwb' = use_ahwb
      BY <1>4 DEF TensorInv, TensorTypeOK
    <2> QED
      BY <2>1 DEF ToldBy, ReadFence, FinishingFunc
  <1>8. ASSUME NEW y \in Tensors, NEW u \in using'[y]
        PROVE  Told(y, u)'
    <2>1. u \in using[y] /\ Told(y, u)
      BY <1>5, <1>8 DEF UsesInv, UsesAreTold
    <2>2. CASE y # x
      <3>1. ~ToldBy(t, y, u)
        BY <1>1, <2>2 DEF ToldBy
      <3> QED
        BY <1>5, <1>7, <2>1, <2>2, <3>1 DEF Told
    <2>3. CASE y = x
      <3>1. u \in fence \cup func => Told(x, u)'
        BY <1>5 DEF Told, Kept
      <3>2. ToldBy(t, x, u) => u \in fence \cup func
        BY <1>2 DEF ToldBy
      <3>3. u \notin gone \/ u \in fence \cup func
        BY <1>5, <1>8, <2>3
      <3>4. u \in ssbo_read[x] /\ u \notin gone => u \in ssbo_read'[x]
        BY <1>3, <1>5 DEF Kept, Replaced
      <3>5. u \in ahwb_written[x] /\ u \notin gone => u \in ahwb_written'[x]
        BY <1>3, <1>5 DEF Kept, Replaced
      <3> QED
        BY <1>7, <2>1, <2>3, <3>1, <3>2, <3>3, <3>4, <3>5 DEF Told
    <2> QED
      BY <2>2, <2>3
  <1> QED
    BY <1>6, <1>8 DEF UsesInv, UsesAreTold

\* A use that is over is gone from the tensor.
LEMMA FewerUses ==
    ASSUME UsesInv, UNCHANGED <<use_ahwb, ssbo_read, ahwb_written, view>>,
           using' \in [Tensors -> SUBSET Uses], \A x \in Tensors : using'[x] \subseteq using[x],
           \A e \in toRelease' : e.uses \subseteq e.waits, freed' = freed
    PROVE  UsesInv'
  <1>1. \A x \in Tensors : \A u : Told(x, u) => Told(x, u)'
    BY DEF Told, ToldBy, ReadFence, FinishingFunc
  <1>2. \A x \in Tensors : \A u \in using'[x] : Told(x, u)
    BY DEF UsesInv, UsesAreTold
  <1> QED
    BY <1>1, <1>2 DEF UsesInv, UsesTypeOK, UsesAreTold

LEMMA DoneUses ==
    ASSUME UsesInv, (\E x \in Tensors : UseDone(x)) \/ LateUseDone
    PROVE  UsesInv'
  <1>1. ASSUME NEW x \in Tensors, UseDone(x)
        PROVE  UsesInv'
    <2>1. PICK u \in using[x] : using' = [using EXCEPT ![x] = @ \ {u}]
      BY <1>1 DEF UseDone
    <2>2. using' \in [Tensors -> SUBSET Uses] /\ \A y \in Tensors : using'[y] \subseteq using[y]
      BY <2>1 DEF UsesInv, UsesTypeOK
    <2>3. UNCHANGED <<use_ahwb, ssbo_read, ahwb_written, view, toRelease, freed>>
      BY <1>1 DEF UseDone, fenceVars
    <2> QED
      BY <2>2, <2>3, FewerUses DEF UsesInv, UsesTypeOK
  <1>2. CASE LateUseDone
    <2>1. PICK e \in toRelease : \E u \in e.uses :
             toRelease' = (toRelease \ {e}) \cup {[uses |-> e.uses \ {u}, waits |-> e.waits]}
      BY <1>2 DEF LateUseDone
    <2>2. PICK u, d : /\ d = [uses |-> e.uses \ {u}, waits |-> e.waits]
                      /\ toRelease' = (toRelease \ {e}) \cup {d}
      BY <2>1
    <2>3. d.uses \subseteq d.waits
      BY <2>1, <2>2 DEF UsesInv, UsesTypeOK
    <2>4. \A c \in toRelease' : c.uses \subseteq c.waits
      BY <2>2, <2>3 DEF UsesInv, UsesTypeOK
    <2>5. UNCHANGED <<use_ahwb, ssbo_read, ahwb_written, view, using, freed>>
      BY <1>2 DEF LateUseDone, fenceVars
    <2> QED
      BY <2>4, <2>5, FewerUses DEF UsesInv, UsesTypeOK
  <1> QED
    BY <1>1, <1>2

\* A buffer is released when nothing uses it, or once its fence and its function say so.
LEMMA NotReleasedInUse ==
    ASSUME UsesInv, NEW x \in Tensors, Unused(x), ReleaseAhwbStuff(x)
    PROVE  (\A e \in toRelease' : e.uses \subseteq e.waits) /\ freed' = FALSE
  <1>1. using[x] \subseteq ssbo_read[x] \cup ahwb_written[x]
    BY DEF UsesInv, UsesAreTold, Told, ToldBy, Unused
  <1>2. PICK e : e = [uses |-> using[x], waits |-> ssbo_read[x] \cup ahwb_written[x]]
    OBVIOUS
  <1>3. e.uses \subseteq e.waits /\ freed = FALSE /\ \A d \in toRelease : d.uses \subseteq d.waits
    BY <1>1, <1>2 DEF UsesInv, UsesTypeOK
  <1>4. CASE DelayedRelease(e)
    <2>1. /\ toRelease' = {d \in toRelease \cup {e} : ~IsSignaled(d)}
          /\ freed' = (freed \/ \E d \in toRelease \cup {e} : IsSignaled(d) /\ d.uses # {})
      BY <1>4 DEF DelayedRelease
    <2>2. \A d \in toRelease \cup {e} : d.uses \subseteq d.waits
      BY <1>3
    <2>3. \A d \in toRelease \cup {e} : IsSignaled(d) => d.uses = {}
      BY <2>2 DEF IsSignaled
    <2> QED
      BY <1>3, <2>1, <2>2, <2>3
  <1>5. CASE UNCHANGED <<toRelease, freed>>
    BY <1>3, <1>5
  <1>6. CASE ssbo_read[x] = {} /\ ahwb_written[x] = {} /\ UNCHANGED toRelease
             /\ freed' = (freed \/ using[x] # {})
    BY <1>1, <1>3, <1>6
  <1> QED
    BY <1>2, <1>4, <1>5, <1>6 DEF ReleaseAhwbStuff

\* The fences and the function go with the buffer.
LEMMA TensorGoes ==
    ASSUME TensorInv, UsesInv, (\E x \in Tensors : Invalidate(x))
                               \/ \E x \in Tensors : \E y \in Tensors : MoveAssign(x, y)
    PROVE  UsesInv'
  <1>1. \A x \in Tensors : Unused(x) => using[x] \subseteq ssbo_read[x] \cup ahwb_written[x]
    BY DEF UsesInv, UsesAreTold, Told, ToldBy, Unused
  <1>2. ASSUME UNCHANGED <<use_ahwb, view>>
        PROVE  \A t \in TensorThreads, y \in Tensors : \A u : ToldBy(t, y, u) => ToldBy(t, y, u)'
    BY <1>2 DEF ToldBy, ReadFence, FinishingFunc
  <1>3. ASSUME NEW x \in Tensors, Invalidate(x)
        PROVE  UsesInv'
    <2>1. /\ Unused(x) /\ ReleaseAhwbStuff(x) /\ UNCHANGED <<use_ahwb, view>>
          /\ using' = [using EXCEPT ![x] = {}] /\ ssbo_read' = [ssbo_read EXCEPT ![x] = {}]
          /\ ahwb_written' = [ahwb_written EXCEPT ![x] = {}]
      BY <1>3 DEF Invalidate
    <2>2. UsesTypeOK'
      BY <2>1, NotReleasedInUse DEF UsesInv, UsesTypeOK
    <2>3. using'[x] = {} /\ \A y \in Tensors : y # x =>
             /\ using'[y] = using[y] /\ ssbo_read'[y] = ssbo_read[y]
             /\ ahwb_written'[y] = ahwb_written[y]
      BY <2>1 DEF UsesInv, UsesTypeOK
    <2>4. ASSUME NEW y \in Tensors, NEW u \in using'[y]
          PROVE  Told(y, u)'
      <3>1. y # x /\ Told(y, u)
        BY <2>3, <2>4 DEF UsesInv, UsesAreTold
      <3> QED
        BY <1>2, <2>1, <2>3, <3>1 DEF Told
    <2> QED
      BY <2>2, <2>4 DEF UsesInv, UsesAreTold
  <1>4. ASSUME NEW x \in Tensors, NEW y \in Tensors, MoveAssign(x, y)
        PROVE  UsesInv'
    <2>1. /\ x # y /\ Unused(x) /\ Unused(y) /\ ReleaseAhwbStuff(x) /\ UNCHANGED <<use_ahwb, view>>
          /\ using' = [using EXCEPT ![x] = using[y], ![y] = {}]
          /\ ssbo_read' = [ssbo_read EXCEPT ![x] = ssbo_read[y], ![y] = {}]
          /\ ahwb_written' = [ahwb_written EXCEPT ![x] = ahwb_written[y], ![y] = {}]
      BY <1>4 DEF MoveAssign, MoveAhwbStuff, Handed
    <2>2. UsesTypeOK'
      BY <2>1, NotReleasedInUse DEF UsesInv, UsesTypeOK
    <2>3. /\ using'[y] = {} /\ using'[x] = using[y] /\ ssbo_read'[x] = ssbo_read[y]
          /\ ahwb_written'[x] = ahwb_written[y]
          /\ \A z \in Tensors : z # x /\ z # y =>
                /\ using'[z] = using[z] /\ ssbo_read'[z] = ssbo_read[z]
                /\ ahwb_written'[z] = ahwb_written[z]
      BY <2>1 DEF UsesInv, UsesTypeOK
    <2>4. ASSUME NEW z \in Tensors, NEW u \in using'[z]
          PROVE  Told(z, u)'
      <3>1. CASE z = x
        BY <1>1, <2>1, <2>3, <2>4, <3>1 DEF Told
      <3>2. CASE z # x
        <4>1. z # y /\ Told(z, u)
          BY <2>3, <2>4, <3>2 DEF UsesInv, UsesAreTold
        <4> QED
          BY <1>2, <2>1, <2>3, <3>2, <4>1 DEF Told
      <3> QED
        BY <3>1, <3>2
    <2> QED
      BY <2>2, <2>4 DEF UsesInv, UsesAreTold
  <1> QED
    BY <1>3, <1>4

LEMMA UsesInvNext == TensorInv /\ UsesInv /\ [TensorNext]_tensorVars => UsesInv'
  <1> SUFFICES ASSUME TensorInv, UsesInv, [TensorNext]_tensorVars PROVE UsesInv'
    OBVIOUS
  <1>1. ASSUME NEW t \in TensorThreads,
               \/ GetCpuReadView(t) \/ GetOpenGlBufferReadView(t)
               \/ GetOpenGlTexture2dReadView(t) \/ GetAHardwareBufferReadView(t)
        PROVE  UsesInv'
    <2>1. Use(t, "gpu") \in Uses /\ Use(t, "read") \in Uses
      BY DEF Uses
    <2>2. CASE GetCpuReadView(t)
      BY <2>2, ReadUses DEF GetCpuReadView
    <2>3. CASE GetOpenGlBufferReadView(t)
      BY <2>1, <2>3, ReadUses DEF GetOpenGlBufferReadView
    <2>4. CASE GetOpenGlTexture2dReadView(t)
      BY <2>4, ReadUses DEF GetOpenGlTexture2dReadView
    <2>5. CASE GetAHardwareBufferReadView(t)
      BY <2>1, <2>5, ReadUses DEF GetAHardwareBufferReadView
    <2> QED
      BY <1>1, <2>2, <2>3, <2>4, <2>5
  <1>2. ASSUME NEW t \in TensorThreads, NEW x \in Tensors,
               \/ GetCpuWriteView(t, x) \/ GetOpenGlBufferWriteView(t, x)
               \/ GetOpenGlTexture2dWriteView(t, x) \/ GetAHardwareBufferWriteView(t, x)
        PROVE  UsesInv'
    BY <1>2, WriteUses DEF GetCpuWriteView, GetOpenGlBufferWriteView, GetOpenGlTexture2dWriteView,
                           GetAHardwareBufferWriteView, Resources
  <1>3. ASSUME NEW t \in TensorThreads, NEW x \in Tensors, NEW r \in Resources, BeginRead(t, x, r)
        PROVE  UsesInv'
    <2>1. /\ view[t] = NoView /\ using' = using
          /\ \A s \in TensorThreads : s # t => view'[s] = view[s]
          /\ UNCHANGED <<use_ahwb, ssbo_read, ahwb_written, toRelease, freed>>
      BY <1>3 DEF BeginRead, fenceVars, TensorInv, TensorTypeOK
    <2>2. PICK new \in SUBSET Uses : new = {}
      OBVIOUS
    <2>3. /\ using' = [using EXCEPT ![x] = @ \cup new]
          /\ \A u \in new : ToldBy(t, x, u)'
      BY <2>1, <2>2 DEF UsesInv, UsesTypeOK
    <2>4. view[t].pc \in {"none", "begun"} /\ TensorTypeOK
      BY <2>1 DEF NoView, TensorInv
    <2> QED
      BY <2>1, <2>3, <2>4, ViewUses
  <1>4. CASE UNCHANGED tensorVars
    BY <1>4, FewerUses DEF tensorVars, fenceVars, UsesInv, UsesTypeOK
  <1> QED
    BY <1>1, <1>2, <1>3, <1>4, ReleaseUses, DoneUses, TensorGoes DEF TensorNext

\* A view shows the last write to its tensor, whichever of CPU memory, OpenGL
\* buffer, texture and hardware buffer was written and whichever is read, unless
\* a write came between a read's check of valid_ and its lock; and no hardware
\* buffer is released while the GPU or a device uses it, although the tensor knows
\* of their uses by one fence and one function only, which go with it when it is
\* moved (Tensor::Get...View, valid_, ReleaseAhwbStuff, DelayedReleaser).
THEOREM ViewsAreCurrent == TensorSpec => []ViewsShowLastWrite
  <1>1. TensorInit => TensorInv /\ UsesInv
    <2> SUFFICES ASSUME TensorInit PROVE TensorInv /\ UsesInv
      OBVIOUS
    <2>1. TensorTypeOK
      BY DEF TensorInit, TensorTypeOK, Views, NoView, Unheld
    <2>2. OnlyOffered /\ ValidIsCurrent /\ ReadsAreCurrent
      BY DEF TensorInit, OnlyOffered, ValidIsCurrent, ReadsAreCurrent, NoView
    <2>3. UsesInv
      BY DEF TensorInit, UsesInv, UsesTypeOK, UsesAreTold
    <2> QED
      BY <2>1, <2>2, <2>3 DEF TensorInv
  <1>2. TensorInv /\ UsesInv => ViewsShowLastWrite
    BY DEF TensorInv, ReadsAreCurrent, UsesInv, UsesTypeOK, ViewsShowLastWrite
  <1> QED
    BY <1>1, <1>2, TensorInvNext, UsesInvNext, PTL DEF TensorSpec

-----------------------------------------------------------------------------
StorageRecords == [type : {"free", "placeholder", "texture", "frame"}, content : Nat]
HandleRecords == [storages : Seq(StorageIds), useGpu : BOOLEAN]

BufferTypeOK ==
    /\ storage \in [StorageIds -> StorageRecords]
    /\ handle \in [Handles -> HandleRecords]
    /\ written \in Nat
    /\ expected \in [Handles -> Nat]

\* With these handles and storages, every storage of a handle exists and holds
\* the picture of the handle; what was never written is 0.
Pictured(handles, stores, pictures) ==
    /\ \A b \in Handles : \A s \in ToSet(handles[b].storages) :
          stores[s].type # "free" /\ stores[s].content = pictures[b]
    /\ \A b \in Handles : handles[b].storages = <<>> => pictures[b] = 0
    /\ \A s \in StorageIds : stores[s].type = "placeholder" => stores[s].content = 0

BufferInv == BufferTypeOK /\ Pictured(handle, storage, expected)

\* The storages of a list.
LEMMA StoragesOf ==
    ASSUME NEW S, NEW q \in Seq(S)
    PROVE  /\ ToSet(q) \subseteq S
           /\ \A i \in 1 .. Len(q) : q[i] \in ToSet(q)
           /\ q # <<>> => ToSet(q) # {} /\ 1 \in 1 .. Len(q)
           /\ \A s \in S : ToSet(<<s>>) = {s} /\ <<s>> \in Seq(S) /\ <<s>> # <<>>
           /\ \A s \in S : /\ Append(q, s) \in Seq(S) /\ Append(q, s) # <<>>
                           /\ ToSet(Append(q, s)) = ToSet(q) \cup {s}
  <1>1. DOMAIN q = 1 .. Len(q) /\ Len(q) \in Nat
    OBVIOUS
  <1>2. /\ ToSet(q) \subseteq S
        /\ \A i \in 1 .. Len(q) : q[i] \in ToSet(q)
    BY <1>1 DEF ToSet
  <1>3. q # <<>> => 1 \in 1 .. Len(q)
    OBVIOUS
  <1>4. ASSUME NEW s \in S
        PROVE  ToSet(<<s>>) = {s} /\ <<s>> \in Seq(S) /\ <<s>> # <<>>
    BY DEF ToSet
  <1>5. ASSUME NEW s \in S
        PROVE  /\ Append(q, s) \in Seq(S) /\ Append(q, s) # <<>>
               /\ ToSet(Append(q, s)) = ToSet(q) \cup {s}
    <2>1. PICK r \in Seq(S) : r = Append(q, s)
      <3>1. Append(q, s) \in Seq(S)
        OBVIOUS
      <3> QED
        BY <3>1
    <2>2. /\ DOMAIN r = 1 .. Len(q) + 1 /\ r[Len(q) + 1] = s
          /\ \A i \in 1 .. Len(q) : r[i] = q[i]
      BY <2>1
    <2>3. ToSet(r) \subseteq ToSet(q) \cup {s}
      BY <1>1, <2>2 DEF ToSet
    <2>4. \A x \in ToSet(q) : x \in ToSet(r)
      BY <1>1, <2>2 DEF ToSet
    <2>5. s \in ToSet(r)
      BY <1>1, <2>2 DEF ToSet
    <2>6. r # <<>>
      BY <2>1
    <2> QED
      BY <2>1, <2>3, <2>4, <2>5, <2>6
  <1> QED
    BY <1>2, <1>3, <1>4, <1>5

\* What is registered makes textures and frames only.
LEMMA RegisteredMakes ==
    ASSUME NEW wanted, NEW type
    PROVE  /\ ConverterFor(wanted, type) # "none" =>
                 Provides(ConverterFor(wanted, type), wanted)
           /\ FactoryFor(wanted) # "none" => Provides(FactoryFor(wanted), wanted)
  <1>1. PICK n \in Nat : n = Len(Registrations)
    BY BufferAssumption
  <1>2. DOMAIN Registrations = 1 .. n
    BY <1>1, BufferAssumption
  <1>3. ASSUME ConverterFor(wanted, type) # "none"
        PROVE  Provides(ConverterFor(wanted, type), wanted)
    <2> DEFINE found == {i \in DOMAIN Registrations :
                           Registrations[i].from = type /\ Provides(Registrations[i].to, wanted)}
    <2>1. /\ ConverterFor(wanted, type) =
                IF found = {} THEN "none"
                ELSE Registrations[CHOOSE i \in found : \A j \in found : j <= i].to
      BY DEF ConverterFor, LastRegistered
    <2>2. found \in SUBSET (1 .. n)
      BY <1>2
    <2>3. \A i \in found : Provides(Registrations[i].to, wanted)
      OBVIOUS
    <2> HIDE DEF found
    <2>4. \E i \in found : \A j \in found : j <= i
      BY <1>3, <2>1, <2>2, GreatestNumber
    <2> QED
      BY <1>3, <2>1, <2>3, <2>4
  <1>4. ASSUME FactoryFor(wanted) # "none"
        PROVE  Provides(FactoryFor(wanted), wanted)
    <2> DEFINE found == {i \in DOMAIN Registrations :
                           Registrations[i].from = "" /\ Provides(Registrations[i].to, wanted)}
    <2>1. /\ FactoryFor(wanted) =
                IF found = {} THEN "none"
                ELSE Registrations[CHOOSE i \in found : \A j \in found : j <= i].to
      BY DEF FactoryFor, LastRegistered
    <2>2. found \in SUBSET (1 .. n)
      BY <1>2
    <2>3. \A i \in found : Provides(Registrations[i].to, wanted)
      OBVIOUS
    <2> HIDE DEF found
    <2>4. \E i \in found : \A j \in found : j <= i
      BY <1>4, <2>1, <2>2, GreatestNumber
    <2> QED
      BY <1>4, <2>1, <2>3, <2>4
  <1> QED
    BY <1>3, <1>4

\* The first storage that provides the wanted, or that can be converted to one
\* that does.
First(q, wanted) == FirstIndex(q, LAMBDA s : Provides(storage[s].type, wanted))
FirstConvertible(q, wanted) ==
    FirstIndex(q, LAMBDA s : ConverterFor(wanted, storage[s].type) # "none")

LEMMA FirstStorage ==
    ASSUME BufferInv, NEW q \in Seq(StorageIds), NEW wanted,
           NEW has, has = First(q, wanted), NEW from, from = FirstConvertible(q, wanted)
    PROVE  /\ has # 0 => has \in 1 .. Len(q) /\ Provides(storage[q[has]].type, wanted)
           /\ has = 0 => \A i \in 1 .. Len(q) : ~Provides(storage[q[i]].type, wanted)
           /\ from # 0 => /\ from \in 1 .. Len(q)
                          /\ ConverterFor(wanted, storage[q[from]].type) # "none"
           /\ from = 0 => \A i \in 1 .. Len(q) : ConverterFor(wanted, storage[q[i]].type) = "none"
  <1> DEFINE H == {i \in DOMAIN q : Provides(storage[q[i]].type, wanted)}
             F == {i \in DOMAIN q : ConverterFor(wanted, storage[q[i]].type) # "none"}
             Least(S) == IF S = {} THEN 0 ELSE CHOOSE i \in S : \A j \in S : i <= j
  <1>1. has = Least(H) /\ from = Least(F)
    BY DEF FirstIndex, First, FirstConvertible
  <1>2. DOMAIN q = 1 .. Len(q) /\ Len(q) \in Nat
    OBVIOUS
  <1>3. ASSUME NEW S \in SUBSET (1 .. Len(q))
        PROVE  /\ Least(S) # 0 => Least(S) \in S
               /\ Least(S) = 0 => S = {}
    <2>1. CASE S = {}
      BY <2>1
    <2>2. CASE S # {}
      <3>1. S \in SUBSET Nat /\ 0 \notin S
        BY <1>2
      <3>2. \E i \in S : \A j \in S : i <= j
        BY <2>2, <3>1, LeastNumber
      <3> QED
        BY <2>2, <3>1, <3>2
    <2> QED
      BY <2>1, <2>2
  <1>4. H \in SUBSET (1 .. Len(q)) /\ F \in SUBSET (1 .. Len(q))
    BY <1>2
  <1>5. /\ has # 0 => has \in H
        /\ has = 0 => H = {}
        /\ from # 0 => from \in F
        /\ from = 0 => F = {}
    <2> HIDE DEF H, F, Least
    <2> QED
      BY <1>1, <1>3, <1>4
  <1> QED
    BY <1>2, <1>5

Result(list, chosen, new) == [storages |-> list, chosen |-> chosen, new |-> new]

\* The storage that is chosen for a view, and the list of storages it leaves.
Chosen(b, wanted, forWriting, r) ==
    /\ r.storages \in Seq(StorageIds) /\ r.storages # <<>> /\ r.chosen \in StorageIds
    /\ ToSet(r.storages) \subseteq ToSet(handle[b].storages) \cup {r.chosen}
    /\ forWriting => ToSet(r.storages) = {r.chosen}
    /\ Made(r) \in [StorageIds -> StorageRecords]
    /\ \A s \in StorageIds : storage[s] # Free => Made(r)[s] = storage[s]
    /\ Provides(Made(r)[r.chosen].type, wanted)
    /\ ~forWriting \/ wanted = "ImageFrame" => Made(r)[r.chosen].content = expected[b]
    /\ r.chosen \in ToSet(handle[b].storages) \/ storage[r.chosen] = Free
    /\ \A s \in StorageIds : Made(r)[s].type = "placeholder" => Made(r)[s].content = 0

LEMMA FreeIdIsFree ==
    CanAllocate => FreeId \in StorageIds /\ storage[FreeId] = Free
  BY DEF CanAllocate, FreeId

\* A storage that is made.
LEMMA MadeStorage ==
    ASSUME BufferInv, CanAllocate, NEW b \in Handles, NEW list \in Seq(StorageIds),
           ToSet(list) \subseteq ToSet(handle[b].storages) \cup {FreeId}, list # <<>>,
           NEW wanted, NEW type, Provides(type, wanted), NEW shown \in Nat,
           NEW forWriting, forWriting => ToSet(list) = {FreeId},
           ~forWriting \/ wanted = "ImageFrame" => shown = expected[b],
           NEW r, r = Result(list, FreeId, [type |-> type, content |-> shown])
    PROVE  Chosen(b, wanted, forWriting, r)
  <1>1. PICK new : new = [type |-> type, content |-> shown]
    OBVIOUS
  <1>2. type \in {"texture", "frame"} /\ new \in StorageRecords /\ new # Free
        /\ new.type = type /\ new.content = shown
    BY <1>1 DEF Provides, StorageRecords, Free
  <1>3. PICK f \in StorageIds : f = FreeId /\ storage[f] = Free
    BY FreeIdIsFree
  <1>4. r.storages = list /\ r.chosen = f /\ r.new = new
    BY <1>1, <1>3 DEF Result
  <1>5. Made(r) = [storage EXCEPT ![f] = new]
    BY <1>2, <1>4 DEF Made
  <1>6. PICK m : m = Made(r)
    OBVIOUS
  <1>7. /\ m \in [StorageIds -> StorageRecords] /\ m[f] = new
        /\ \A s \in StorageIds : s # f => m[s] = storage[s]
    BY <1>2, <1>5, <1>6 DEF BufferInv, BufferTypeOK
  <1>8. \A s \in StorageIds : storage[s] # Free => m[s] = storage[s]
    BY <1>3, <1>7
  <1>9. \A s \in StorageIds : m[s].type = "placeholder" => m[s].content = 0
    BY <1>2, <1>7 DEF BufferInv, Pictured
  <1>10. /\ r.storages \in Seq(StorageIds) /\ r.storages # <<>> /\ r.chosen \in StorageIds
         /\ ToSet(r.storages) \subseteq ToSet(handle[b].storages) \cup {r.chosen}
         /\ forWriting => ToSet(r.storages) = {r.chosen}
    BY <1>3, <1>4
  <1>11. /\ Provides(m[r.chosen].type, wanted)
         /\ ~forWriting \/ wanted = "ImageFrame" => m[r.chosen].content = expected[b]
         /\ storage[r.chosen] = Free
    BY <1>2, <1>3, <1>4, <1>7
  <1> QED
    BY <1>6, <1>7, <1>8, <1>9, <1>10, <1>11 DEF Chosen

LEMMA ViewChosen ==
    ASSUME BufferInv, NEW b \in Handles, NEW wanted, NEW forWriting \in BOOLEAN,
           NEW r, r = GetStorageForView(handle[b].storages, wanted, forWriting),
           r.chosen # "null", r.new # Free => CanAllocate
    PROVE  Chosen(b, wanted, forWriting, r)
  <1>1. PICK q \in Seq(StorageIds) : q = handle[b].storages
    BY DEF BufferInv, BufferTypeOK, HandleRecords
  <1>2. PICK has : has = First(q, wanted)
    OBVIOUS
  <1>3. PICK from : from = FirstConvertible(q, wanted)
    OBVIOUS
  <1>4. /\ has # 0 => has \in 1 .. Len(q) /\ Provides(storage[q[has]].type, wanted)
        /\ has = 0 => \A i \in 1 .. Len(q) : ~Provides(storage[q[i]].type, wanted)
        /\ from # 0 => /\ from \in 1 .. Len(q)
                       /\ ConverterFor(wanted, storage[q[from]].type) # "none"
        /\ from = 0 => \A i \in 1 .. Len(q) : ConverterFor(wanted, storage[q[i]].type) = "none"
    BY <1>1, <1>2, <1>3, FirstStorage
  <1>5. r = IF has # 0 THEN Result(IF forWriting THEN OnlyChosen(q, q[has]) ELSE q, q[has], Free)
            ELSE IF from # 0
            THEN Result(IF forWriting THEN OnlyChosen(Append(q, FreeId), FreeId) ELSE Append(q, FreeId),
                        FreeId, [type |-> ConverterFor(wanted, storage[q[from]].type),
                                 content |-> storage[q[from]].content])
            ELSE IF forWriting /\ FactoryFor(wanted) # "none"
            THEN Result(<<FreeId>>, FreeId, [type |-> FactoryFor(wanted), content |-> 0])
            ELSE Result(q, "null", Free)
    BY <1>1, <1>2, <1>3 DEF GetStorageForView, Result, First, FirstConvertible
  <1>6. \A i \in 1 .. Len(q) : /\ q[i] \in ToSet(q) /\ q[i] \in StorageIds
                               /\ storage[q[i]].type # "free"
                               /\ storage[q[i]].content = expected[b]
                               /\ storage[q[i]] \in StorageRecords
    BY <1>1, StoragesOf DEF BufferInv, BufferTypeOK, Pictured
  <1>7. CASE has # 0
    <2>1. PICK c \in StorageIds : c = q[has]
      BY <1>4, <1>6, <1>7
    <2>2. r = Result(IF forWriting THEN <<c>> ELSE q, c, Free)
      BY <1>5, <1>7, <2>1 DEF OnlyChosen
    <2>3. r.storages = (IF forWriting THEN <<c>> ELSE q) /\ r.chosen = c /\ Made(r) = storage
      BY <2>2 DEF Result, Made
    <2>4. /\ c \in ToSet(q) /\ Provides(storage[c].type, wanted) /\ storage[c].content = expected[b]
          /\ q # <<>>
      BY <1>4, <1>6, <1>7, <2>1
    <2>5. /\ ToSet(<<c>>) = {c} /\ <<c>> \in Seq(StorageIds) /\ <<c>> # <<>>
      BY StoragesOf
    <2>6. /\ r.storages \in Seq(StorageIds) /\ r.storages # <<>> /\ r.chosen \in StorageIds
          /\ ToSet(r.storages) \subseteq ToSet(q) \cup {r.chosen}
          /\ forWriting => ToSet(r.storages) = {r.chosen}
      BY <2>3, <2>4, <2>5
    <2> QED
      BY <1>1, <2>3, <2>4, <2>6 DEF Chosen, BufferInv, BufferTypeOK, Pictured
  <1>8. ASSUME r.new # Free
        PROVE  /\ CanAllocate /\ FreeId \in StorageIds
               /\ ToSet(<<FreeId>>) = {FreeId} /\ <<FreeId>> \in Seq(StorageIds) /\ <<FreeId>> # <<>>
               /\ Append(q, FreeId) \in Seq(StorageIds) /\ Append(q, FreeId) # <<>>
               /\ ToSet(Append(q, FreeId)) = ToSet(q) \cup {FreeId}
    <2>1. CanAllocate
      BY <1>8
    <2>2. FreeId \in StorageIds
      BY <2>1, FreeIdIsFree
    <2> QED
      BY <2>1, <2>2, StoragesOf
  <1>9. CASE has = 0 /\ from # 0
    <2>1. PICK type : type = ConverterFor(wanted, storage[q[from]].type)
      OBVIOUS
    <2>2. PICK shown \in Nat : shown = storage[q[from]].content /\ shown = expected[b]
      BY <1>4, <1>6, <1>9 DEF StorageRecords
    <2>3. Provides(type, wanted)
      BY <1>4, <1>9, <2>1, RegisteredMakes
    <2>4. PICK list : list = IF forWriting THEN <<FreeId>> ELSE Append(q, FreeId)
      OBVIOUS
    <2>5. r = Result(list, FreeId, [type |-> type, content |-> shown])
      BY <1>5, <1>9, <2>1, <2>2, <2>4 DEF OnlyChosen
    <2>6. r.new # Free
      <3>1. r.new = [type |-> type, content |-> shown]
        BY <2>5 DEF Result
      <3>2. type # "free"
        BY <2>3 DEF Provides
      <3> QED
        BY <3>1, <3>2 DEF Free
    <2>7. /\ list \in Seq(StorageIds) /\ list # <<>>
          /\ ToSet(list) \subseteq ToSet(q) \cup {FreeId}
          /\ forWriting => ToSet(list) = {FreeId}
      BY <1>8, <2>4, <2>6
    <2> QED
      BY <1>1, <1>8, <2>2, <2>3, <2>5, <2>6, <2>7, MadeStorage
  <1>10. CASE has = 0 /\ from = 0
    <2>1. forWriting /\ FactoryFor(wanted) # "none"
          /\ r = Result(<<FreeId>>, FreeId, [type |-> FactoryFor(wanted), content |-> 0])
      BY <1>5, <1>10 DEF Result
    <2>2. PICK type : type = FactoryFor(wanted)
      OBVIOUS
    <2>3. Provides(type, wanted)
      BY <2>1, <2>2, RegisteredMakes
    <2>6. r = Result(<<FreeId>>, FreeId, [type |-> type, content |-> 0])
      BY <2>1, <2>2
    <2>4. r.new # Free
      <3>1. r.new = [type |-> type, content |-> 0]
        BY <2>6 DEF Result
      <3>2. type # "free"
        BY <2>3 DEF Provides
      <3> QED
        BY <3>1, <3>2 DEF Free
    <2>5. ASSUME wanted = "ImageFrame" PROVE expected[b] = 0
      <3>1. CASE q = <<>>
        BY <1>1, <3>1 DEF BufferInv, Pictured
      <3>2. CASE q # <<>>
        <4>1. 1 \in 1 .. Len(q)
          BY <3>2, StoragesOf
        <4>2. PICK s \in StorageIds : s = q[1]
          BY <1>6, <4>1
        <4>3. /\ storage[s].type # "free" /\ storage[s].content = expected[b]
              /\ storage[s] \in StorageRecords
              /\ ~Provides(storage[s].type, wanted)
              /\ ConverterFor(wanted, storage[s].type) = "none"
          BY <1>4, <1>6, <1>10, <4>1, <4>2
        <4>4. storage[s].type \in {"free", "placeholder", "texture", "frame"}
          BY <4>3 DEF StorageRecords
        <4>5. storage[s].type = "placeholder"
          BY <2>5, <4>3, <4>4, BufferAssumption DEF Provides
        <4> QED
          BY <4>3, <4>5 DEF BufferInv, Pictured
      <3> QED
        BY <3>1, <3>2
    <2>7. ToSet(<<FreeId>>) \subseteq ToSet(handle[b].storages) \cup {FreeId}
      BY <1>8, <2>4
    <2> QED
      BY <1>8, <2>1, <2>3, <2>4, <2>5, <2>6, <2>7, MadeStorage
  <1> QED
    BY <1>7, <1>9, <1>10

\* The handles and storages after a step.
LEMMA HandlesSet ==
    ASSUME NEW handles \in [Handles -> HandleRecords], NEW stores \in [StorageIds -> StorageRecords],
           NEW pictures \in [Handles -> Nat], Pictured(handles, stores, pictures),
           SetHandles(handles, stores), expected' = pictures, written' \in Nat
    PROVE  BufferInv'
  <1>1. /\ handle' = handles
        /\ storage' = [s \in StorageIds |-> IF s \in Referenced(handles) THEN stores[s] ELSE Free]
    BY DEF SetHandles
  <1>2. Free \in StorageRecords /\ Free.type = "free"
    BY DEF Free, StorageRecords
  <1>3. storage' \in [StorageIds -> StorageRecords]
    BY <1>1, <1>2
  <1>4. ASSUME NEW b \in Handles, NEW s \in ToSet(handles[b].storages)
        PROVE  storage'[s] = stores[s]
    <2>1. s \in Referenced(handles)
      BY <1>4 DEF Referenced
    <2>2. s \in StorageIds
      <3>1. handles[b].storages \in Seq(StorageIds)
        BY DEF HandleRecords
      <3> QED
        BY <1>4, <3>1, StoragesOf
    <2> QED
      BY <1>1, <2>1, <2>2
  <1>5. \A s \in StorageIds : storage'[s] = stores[s] \/ storage'[s] = Free
    BY <1>1
  <1>6. Pictured(handles, storage', pictures)
    <2>1. \A b \in Handles : \A s \in ToSet(handles[b].storages) :
             storage'[s].type # "free" /\ storage'[s].content = pictures[b]
      BY <1>4 DEF Pictured
    <2>2. \A s \in StorageIds : storage'[s].type = "placeholder" => storage'[s].content = 0
      BY <1>2, <1>5 DEF Pictured
    <2> QED
      BY <2>1, <2>2 DEF Pictured
  <1> QED
    BY <1>1, <1>3, <1>6 DEF BufferInv, BufferTypeOK

\* What the handles know before a step.
LEMMA HandleFacts ==
    ASSUME BufferInv, NEW b \in Handles
    PROVE  /\ handle[b] \in HandleRecords /\ handle[b].storages \in Seq(StorageIds)
           /\ ToSet(handle[b].storages) \subseteq StorageIds
           /\ \A s \in ToSet(handle[b].storages) :
                 /\ storage[s] # Free /\ storage[s].type # "free"
                 /\ storage[s].content = expected[b]
           /\ expected[b] \in Nat /\ written \in Nat
  <1>1. handle[b] \in HandleRecords /\ handle[b].storages \in Seq(StorageIds)
        /\ expected[b] \in Nat /\ written \in Nat
    BY DEF BufferInv, BufferTypeOK, HandleRecords
  <1>2. ToSet(handle[b].storages) \subseteq StorageIds
    BY <1>1, StoragesOf
  <1>3. \A s \in ToSet(handle[b].storages) :
           storage[s].type # "free" /\ storage[s].content = expected[b]
    BY DEF BufferInv, Pictured
  <1> QED
    BY <1>1, <1>2, <1>3 DEF Free

LEMMA GetReadViewStep ==
    ASSUME BufferInv, NEW b \in Handles, NEW wanted, NEW useGpu \in BOOLEAN,
           GetReadView(b, wanted, useGpu)
    PROVE  BufferInv'
  <1>1. PICK r : r = GetStorageForView(handle[b].storages, wanted, FALSE)
    OBVIOUS
  <1>2. PICK new : new = [storages |-> r.storages, useGpu |-> useGpu]
    OBVIOUS
  <1>3. PICK handles : handles = [handle EXCEPT ![b] = new]
    OBVIOUS
  <1>4. PICK stores : stores = Made(r)
    OBVIOUS
  <1>5. /\ r.chosen # "null" /\ (r.new # Free => CanAllocate)
        /\ SetHandles(handles, stores) /\ UNCHANGED <<written, expected>>
    BY <1>1, <1>2, <1>3, <1>4 DEF GetReadView
  <1>6. Chosen(b, wanted, FALSE, r)
    BY <1>1, <1>5, ViewChosen
  <1>7. /\ r.storages \in Seq(StorageIds) /\ r.storages # <<>> /\ r.chosen \in StorageIds
        /\ ToSet(r.storages) \subseteq ToSet(handle[b].storages) \cup {r.chosen}
        /\ stores \in [StorageIds -> StorageRecords]
        /\ \A s \in StorageIds : storage[s] # Free => stores[s] = storage[s]
        /\ stores[r.chosen].type # "free" /\ stores[r.chosen].content = expected[b]
        /\ \A s \in StorageIds : stores[s].type = "placeholder" => stores[s].content = 0
    BY <1>4, <1>6 DEF Chosen, Provides
  <1>8. new \in HandleRecords /\ new.storages = r.storages
    BY <1>2, <1>7 DEF HandleRecords
  <1>9. /\ handles \in [Handles -> HandleRecords] /\ handles[b] = new
        /\ \A c \in Handles : c # b => handles[c] = handle[c]
    BY <1>3, <1>8 DEF BufferInv, BufferTypeOK
  <1>10. ASSUME NEW c \in Handles, NEW s \in ToSet(handle[c].storages)
         PROVE  stores[s].type # "free" /\ stores[s].content = expected[c]
    BY <1>7, HandleFacts
  <1>11. ASSUME NEW c \in Handles, NEW s \in ToSet(handles[c].storages)
         PROVE  stores[s].type # "free" /\ stores[s].content = expected[c]
    <2>1. CASE c = b
      BY <1>7, <1>8, <1>9, <1>10, <1>11, <2>1
    <2>2. CASE c # b
      BY <1>9, <1>10, <1>11, <2>2
    <2> QED
      BY <2>1, <2>2
  <1>12. Pictured(handles, stores, expected)
    <2>1. \A c \in Handles : handles[c].storages = <<>> => expected[c] = 0
      BY <1>7, <1>8, <1>9 DEF BufferInv, Pictured
    <2> QED
      BY <1>7, <1>11, <2>1 DEF Pictured
  <1>13. expected \in [Handles -> Nat] /\ written' \in Nat /\ expected' = expected
    BY <1>5 DEF BufferInv, BufferTypeOK
  <1> QED
    BY <1>5, <1>7, <1>9, <1>12, <1>13, HandlesSet

\* A view for writing through which a picture is written, or none.
LEMMA GetWriteViewStep ==
    ASSUME BufferInv, NEW b \in Handles, NEW wanted, NEW useGpu \in BOOLEAN,
           NEW picture \in Nat, GetWriteView(b, wanted, useGpu, picture),
           \/ picture = 0 /\ wanted = "ImageFrame" /\ UNCHANGED <<written, expected>>
           \/ /\ picture # 0 /\ Sole(b) /\ written' = picture
              /\ expected' = [expected EXCEPT ![b] = picture]
    PROVE  BufferInv'
  <1>1. PICK r : r = GetStorageForView(handle[b].storages, wanted, TRUE)
    OBVIOUS
  <1>2. PICK new : new = [storages |-> r.storages, useGpu |-> useGpu]
    OBVIOUS
  <1>3. PICK handles : handles = [handle EXCEPT ![b] = new]
    OBVIOUS
  <1>4. PICK made : made = Made(r)
    OBVIOUS
  <1>5. PICK stores : stores = IF picture = 0 THEN made
                               ELSE [made EXCEPT ![r.chosen].content = picture]
    OBVIOUS
  <1>6. /\ r.chosen # "null" /\ (r.new # Free => CanAllocate)
        /\ SetHandles(handles, stores)
    BY <1>1, <1>2, <1>3, <1>4, <1>5 DEF GetWriteView
  <1>7. Chosen(b, wanted, TRUE, r)
    BY <1>1, <1>6, ViewChosen
  <1>8. /\ r.storages \in Seq(StorageIds) /\ r.storages # <<>> /\ r.chosen \in StorageIds
        /\ ToSet(r.storages) = {r.chosen}
        /\ made \in [StorageIds -> StorageRecords]
        /\ \A s \in StorageIds : storage[s] # Free => made[s] = storage[s]
        /\ made[r.chosen].type \in {"texture", "frame"}
        /\ wanted = "ImageFrame" => made[r.chosen].content = expected[b]
        /\ r.chosen \in ToSet(handle[b].storages) \/ storage[r.chosen] = Free
        /\ \A s \in StorageIds : made[s].type = "placeholder" => made[s].content = 0
    BY <1>4, <1>7 DEF Chosen, Provides
  <1>9. new \in HandleRecords /\ new.storages = r.storages
    BY <1>2, <1>8 DEF HandleRecords
  <1>10. /\ handles \in [Handles -> HandleRecords] /\ handles[b] = new
         /\ \A c \in Handles : c # b => handles[c] = handle[c]
    BY <1>3, <1>9 DEF BufferInv, BufferTypeOK
  <1>11. PICK pictures : pictures = expected'
    OBVIOUS
  <1>12. /\ pictures \in [Handles -> Nat] /\ written' \in Nat
         /\ \A c \in Handles : c # b => pictures[c] = expected[c]
         /\ pictures[b] = IF picture = 0 THEN expected[b] ELSE picture
    BY <1>11 DEF BufferInv, BufferTypeOK
  <1>13. /\ stores \in [StorageIds -> StorageRecords]
         /\ \A s \in StorageIds : s # r.chosen => stores[s] = made[s]
         /\ stores[r.chosen].type = made[r.chosen].type
         /\ stores[r.chosen].content = pictures[b]
    <2>1. CASE picture = 0
      BY <1>5, <1>8, <1>12, <2>1
    <2>2. CASE picture # 0
      <3>1. stores = [made EXCEPT ![r.chosen].content = picture] /\ pictures[b] = picture
        BY <1>5, <1>12, <2>2
      <3> QED
        BY <1>8, <3>1 DEF StorageRecords
    <2> QED
      BY <2>1, <2>2
  <1>14. ASSUME NEW c \in Handles, c # b, NEW s \in ToSet(handle[c].storages)
         PROVE  stores[s].type # "free" /\ stores[s].content = pictures[c]
    <2>1. s \in StorageIds /\ storage[s] # Free /\ storage[s].type # "free"
          /\ storage[s].content = expected[c] /\ made[s] = storage[s]
      BY <1>8, <1>14, HandleFacts
    <2>2. CASE s # r.chosen \/ picture = 0
      <3>1. stores[s] = made[s]
        BY <1>5, <1>13, <2>1, <2>2
      <3> QED
        BY <1>12, <1>14, <2>1, <3>1
    <2>3. CASE s = r.chosen /\ picture # 0
      <3>1. s \in ToSet(handle[b].storages) /\ Sole(b)
        BY <1>8, <2>1, <2>3
      <3> QED
        BY <1>14, <3>1 DEF Sole
    <2> QED
      BY <2>2, <2>3
  <1>15. Pictured(handles, stores, pictures)
    <2>1. ASSUME NEW c \in Handles, NEW s \in ToSet(handles[c].storages)
          PROVE  stores[s].type # "free" /\ stores[s].content = pictures[c]
      <3>1. CASE c = b
        <4>1. s = r.chosen
          BY <1>8, <1>9, <1>10, <2>1, <3>1
        <4> QED
          BY <1>8, <1>13, <3>1, <4>1
      <3>2. CASE c # b
        BY <1>10, <1>14, <2>1, <3>2
      <3> QED
        BY <3>1, <3>2
    <2>2. \A c \in Handles : handles[c].storages = <<>> => pictures[c] = 0
      BY <1>8, <1>9, <1>10, <1>12 DEF BufferInv, Pictured
    <2>3. \A s \in StorageIds : stores[s].type = "placeholder" => stores[s].content = 0
      BY <1>8, <1>13
    <2> QED
      BY <2>1, <2>2, <2>3 DEF Pictured
  <1> QED
    BY <1>6, <1>10, <1>11, <1>12, <1>13, <1>15, HandlesSet

LEMMA WritePictureStep ==
    ASSUME BufferInv, ~WriteShared, NEW b \in Handles, NEW wanted, NEW useGpu \in BOOLEAN,
           WritePicture(b, wanted, useGpu)
    PROVE  BufferInv'
  <1>1. PICK picture \in Nat : picture = written + 1 /\ picture # 0
    BY HandleFacts
  <1>2. /\ Sole(b) /\ GetWriteView(b, wanted, useGpu, picture)
        /\ written' = picture /\ expected' = [expected EXCEPT ![b] = picture]
    BY <1>1 DEF WritePicture
  <1> QED
    BY <1>1, <1>2, GetWriteViewStep

LEMMA NewStorageStep ==
    ASSUME BufferInv, NEW b \in Handles, NEW type \in {"placeholder", "texture", "frame"},
           NEW shown \in Nat, type = "placeholder" => shown = 0, NEW useGpu \in BOOLEAN,
           NewStorage(b, type, shown, useGpu)
    PROVE  BufferInv'
  <1>1. PICK f \in StorageIds : f = FreeId /\ storage[f] = Free
    BY FreeIdIsFree DEF NewStorage
  <1>2. PICK record : record = [type |-> type, content |-> shown]
    OBVIOUS
  <1>3. record \in StorageRecords /\ record.type = type /\ record.content = shown
    BY <1>2 DEF StorageRecords
  <1>4. PICK new : new = [storages |-> <<f>>, useGpu |-> useGpu]
    OBVIOUS
  <1>5. /\ <<f>> \in Seq(StorageIds) /\ ToSet(<<f>>) = {f} /\ <<f>> # <<>>
    BY HandleFacts, StoragesOf
  <1>6. new \in HandleRecords /\ new.storages = <<f>>
    BY <1>4, <1>5 DEF HandleRecords
  <1>7. PICK handles : handles = [handle EXCEPT ![b] = new]
    OBVIOUS
  <1>8. PICK stores : stores = [storage EXCEPT ![f] = record]
    OBVIOUS
  <1>9. PICK pictures : pictures = [expected EXCEPT ![b] = shown]
    OBVIOUS
  <1>10. SetHandles(handles, stores) /\ expected' = pictures
    BY <1>1, <1>2, <1>4, <1>7, <1>8, <1>9 DEF NewStorage
  <1>11. written' \in Nat
    BY HandleFacts DEF NewStorage
  <1>12. /\ handles \in [Handles -> HandleRecords] /\ handles[b] = new
         /\ \A c \in Handles : c # b => handles[c] = handle[c]
    BY <1>6, <1>7 DEF BufferInv, BufferTypeOK
  <1>13. /\ stores \in [StorageIds -> StorageRecords] /\ stores[f] = record
         /\ \A s \in StorageIds : s # f => stores[s] = storage[s]
    BY <1>3, <1>8 DEF BufferInv, BufferTypeOK
  <1>14. /\ pictures \in [Handles -> Nat] /\ pictures[b] = shown
         /\ \A c \in Handles : c # b => pictures[c] = expected[c]
    BY <1>9 DEF BufferInv, BufferTypeOK
  <1>15. Pictured(handles, stores, pictures)
    <2>1. ASSUME NEW c \in Handles, NEW s \in ToSet(handles[c].storages)
          PROVE  stores[s].type # "free" /\ stores[s].content = pictures[c]
      <3>1. CASE c = b
        <4>1. s = f
          BY <1>5, <1>6, <1>12, <2>1, <3>1
        <4> QED
          BY <1>3, <1>13, <1>14, <3>1, <4>1
      <3>2. CASE c # b
        <4>1. s \in ToSet(handle[c].storages)
          BY <1>12, <2>1, <3>2
        <4>2. s \in StorageIds /\ s # f /\ storage[s].type # "free"
              /\ storage[s].content = expected[c]
          BY <1>1, <4>1, HandleFacts
        <4> QED
          BY <1>13, <1>14, <3>2, <4>2
      <3> QED
        BY <3>1, <3>2
    <2>2. \A c \in Handles : handles[c].storages = <<>> => pictures[c] = 0
      BY <1>5, <1>6, <1>12, <1>14 DEF BufferInv, Pictured
    <2>3. \A s \in StorageIds : stores[s].type = "placeholder" => stores[s].content = 0
      BY <1>3, <1>13 DEF BufferInv, Pictured
    <2> QED
      BY <2>1, <2>2, <2>3 DEF Pictured
  <1> QED
    BY <1>10, <1>11, <1>12, <1>13, <1>14, <1>15, HandlesSet

\* A handle is given the storages and the picture of a handle, or none.
LEMMA HandleReplaced ==
    ASSUME BufferInv, NEW c \in Handles, NEW new \in HandleRecords,
           NEW picture \in Nat,
           \/ \E b \in Handles : new.storages = handle[b].storages /\ picture = expected[b]
           \/ new.storages = <<>> /\ picture = 0,
           SetHandles([handle EXCEPT ![c] = new], storage),
           expected' = [expected EXCEPT ![c] = picture], UNCHANGED written
    PROVE  BufferInv'
  <1>1. PICK handles : handles = [handle EXCEPT ![c] = new]
    OBVIOUS
  <1>2. PICK pictures : pictures = [expected EXCEPT ![c] = picture]
    OBVIOUS
  <1>3. /\ handles \in [Handles -> HandleRecords] /\ handles[c] = new
        /\ \A d \in Handles : d # c => handles[d] = handle[d]
    BY <1>1 DEF BufferInv, BufferTypeOK
  <1>4. /\ pictures \in [Handles -> Nat] /\ pictures[c] = picture
        /\ \A d \in Handles : d # c => pictures[d] = expected[d]
    BY <1>2 DEF BufferInv, BufferTypeOK
  <1>5. \A d \in Handles :
           \/ \E b \in Handles : handles[d].storages = handle[b].storages /\ pictures[d] = expected[b]
           \/ handles[d].storages = <<>> /\ pictures[d] = 0
    BY <1>3, <1>4
  <1>6. ToSet(<<>>) = {}
    BY DEF ToSet
  <1>7. Pictured(handles, storage, pictures)
    <2>1. ASSUME NEW d \in Handles
          PROVE  /\ \A s \in ToSet(handles[d].storages) :
                       storage[s].type # "free" /\ storage[s].content = pictures[d]
                 /\ handles[d].storages = <<>> => pictures[d] = 0
      <3>1. CASE handles[d].storages = <<>> /\ pictures[d] = 0
        BY <1>6, <3>1
      <3>2. ASSUME NEW b \in Handles, handles[d].storages = handle[b].storages,
                   pictures[d] = expected[b]
            PROVE  /\ \A s \in ToSet(handles[d].storages) :
                         storage[s].type # "free" /\ storage[s].content = pictures[d]
                   /\ handles[d].storages = <<>> => pictures[d] = 0
        BY <3>2 DEF BufferInv, Pictured
      <3> QED
        BY <1>5, <3>1, <3>2
    <2> QED
      BY <2>1 DEF BufferInv, Pictured
  <1>8. SetHandles(handles, storage) /\ expected' = pictures /\ written' \in Nat
        /\ storage \in [StorageIds -> StorageRecords]
    BY <1>1, <1>2 DEF BufferInv, BufferTypeOK
  <1> QED
    BY <1>3, <1>4, <1>7, <1>8, HandlesSet

LEMMA CopyHandleStep ==
    ASSUME BufferInv, NEW b \in Handles, NEW c \in Handles, CopyHandle(b, c)
    PROVE  BufferInv'
  <1>1. PICK old : old = handle[b]
    OBVIOUS
  <1>2. PICK picture \in Nat : picture = expected[b]
    BY HandleFacts
  <1>3. old \in HandleRecords
    BY <1>1, HandleFacts
  <1>4. PICK new \in HandleRecords :
          /\ new.storages = old.storages
          /\ SetHandles([handle EXCEPT ![c] = new], storage)
    <2>1. CASE SetHandles([handle EXCEPT ![c] = handle[b]], storage)
      BY <1>1, <1>3, <2>1
    <2>2. CASE SetHandles([handle EXCEPT ![c] = [handle[b] EXCEPT !.useGpu = TRUE]], storage)
      <3>1. [old EXCEPT !.useGpu = TRUE] \in HandleRecords
            /\ [old EXCEPT !.useGpu = TRUE].storages = old.storages
        BY <1>3 DEF HandleRecords
      <3> QED
        BY <1>1, <2>2, <3>1
    <2>3. CASE SetHandles([handle EXCEPT ![c] = [handle[b] EXCEPT !.useGpu = FALSE]], storage)
      <3>1. [old EXCEPT !.useGpu = FALSE] \in HandleRecords
            /\ [old EXCEPT !.useGpu = FALSE].storages = old.storages
        BY <1>3 DEF HandleRecords
      <3> QED
        BY <1>1, <2>3, <3>1
    <2> QED
      BY <2>1, <2>2, <2>3 DEF CopyHandle
  <1>5. expected' = [expected EXCEPT ![c] = picture] /\ UNCHANGED written
    BY <1>2 DEF CopyHandle
  <1>6. new.storages = handle[b].storages /\ picture = expected[b]
    BY <1>1, <1>2, <1>4
  <1> QED
    BY <1>4, <1>5, <1>6, HandleReplaced

LEMMA ClearHandleStep ==
    ASSUME BufferInv, NEW b \in Handles, ClearHandle(b)
    PROVE  BufferInv'
  <1>1. PICK new : new = [handle[b] EXCEPT !.storages = <<>>]
    OBVIOUS
  <1>2. new \in HandleRecords /\ new.storages = <<>>
    <2>1. <<>> \in Seq(StorageIds)
      OBVIOUS
    <2> QED
      BY <1>1, <2>1, HandleFacts DEF HandleRecords
  <1>3. SetHandles([handle EXCEPT ![b] = new], storage)
        /\ expected' = [expected EXCEPT ![b] = 0] /\ UNCHANGED written
    <2>1. [handle EXCEPT ![b].storages = <<>>] = [handle EXCEPT ![b] = new]
      BY <1>1
    <2> QED
      BY <2>1 DEF ClearHandle
  <1> QED
    BY <1>2, <1>3, HandleReplaced

LEMMA BufferInvNext ==
    ASSUME BufferInv, ~WriteShared, [BufferNext]_bufferVars
    PROVE  BufferInv'
  <1>1. CASE UNCHANGED bufferVars
    BY <1>1 DEF bufferVars, BufferInv, BufferTypeOK, Pictured
  <1>2. ASSUME NEW b \in Handles, NewBuffer(b) \/ FromImageFrame(b) \/ RenderNew(b)
        PROVE  BufferInv'
    <2>1. PICK n \in Nat : n = written + 1
      BY HandleFacts
    <2>2. CASE NewBuffer(b)
      BY <2>2, NewStorageStep DEF NewBuffer
    <2>3. CASE FromImageFrame(b)
      BY <2>1, <2>3, NewStorageStep DEF FromImageFrame
    <2>4. CASE RenderNew(b)
      <3>1. PICK gpu \in BOOLEAN : gpu = (b \in ImageHandles)
        <4>1. (b \in ImageHandles) = TRUE \/ (b \in ImageHandles) = FALSE
          OBVIOUS
        <4> QED
          BY <4>1, Zenon
      <3>2. NewStorage(b, "texture", n, gpu)
        BY <2>1, <2>4, <3>1 DEF RenderNew
      <3> QED
        BY <3>2, NewStorageStep
    <2> QED
      BY <1>2, <2>2, <2>3, <2>4
  <1>3. ASSUME NEW b \in Handles,
               ReadTexture(b) \/ ReadFrame(b) \/ ConvertToCpu(b) \/ ConvertToGpu(b)
        PROVE  BufferInv'
    BY <1>3, GetReadViewStep DEF ReadTexture, ReadFrame, ConvertToCpu, ConvertToGpu
  <1>4. ASSUME NEW b \in Handles, WriteBuffer(b) \/ PixelWriteLock(b)
        PROVE  BufferInv'
    BY <1>4, WritePictureStep DEF WriteBuffer, PixelWriteLock
  <1>5. ASSUME NEW b \in Handles, PixelReadLock(b) \/ GetImageFrameSharedPtr(b)
        PROVE  BufferInv'
    <2>1. PICK gpu \in BOOLEAN : GetWriteView(b, "ImageFrame", gpu, 0)
      <3>1. CASE PixelReadLock(b)
        BY <3>1 DEF PixelReadLock
      <3>2. CASE GetImageFrameSharedPtr(b)
        <4>1. handle[b].useGpu \in BOOLEAN
          BY HandleFacts DEF HandleRecords
        <4> QED
          BY <3>2, <4>1 DEF GetImageFrameSharedPtr
      <3> QED
        BY <1>5, <3>1, <3>2
    <2>2. UNCHANGED <<written, expected>>
      BY <1>5 DEF PixelReadLock, GetImageFrameSharedPtr
    <2> QED
      BY <2>1, <2>2, GetWriteViewStep
  <1> QED
    BY <1>1, <1>2, <1>3, <1>4, <1>5, CopyHandleStep, ClearHandleStep DEF BufferNext

\* As long as no buffer is written while a copy of it exists, any view of a
\* GpuBuffer or an Image shows the picture last written through it or through
\* the handle it was copied from: all the storages GetStorageForView keeps,
\* converts or allocates hold that picture.
THEOREM EveryViewIsCurrent == ~WriteShared => (BufferSpec => []EveryViewShowsPicture)
  <1> SUFFICES ASSUME ~WriteShared PROVE BufferSpec => []EveryViewShowsPicture
    OBVIOUS
  <1>1. BufferInit => BufferInv
    <2> SUFFICES ASSUME BufferInit PROVE BufferInv
      OBVIOUS
    <2>1. Free \in StorageRecords /\ Free.type = "free"
      BY DEF Free, StorageRecords
    <2>2. Null \in HandleRecords /\ Null.storages = <<>>
      <3>1. <<>> \in Seq(StorageIds)
        OBVIOUS
      <3> QED
        BY <3>1 DEF Null, HandleRecords
    <2>3. ToSet(<<>>) = {}
      BY DEF ToSet
    <2>4. BufferTypeOK
      BY <2>1, <2>2 DEF BufferInit, BufferTypeOK
    <2>5. /\ \A b \in Handles : handle[b] = Null /\ expected[b] = 0
          /\ \A s \in StorageIds : storage[s] = Free
      BY DEF BufferInit
    <2>6. Pictured(handle, storage, expected)
      BY <2>1, <2>2, <2>3, <2>5 DEF Pictured
    <2> QED
      BY <2>4, <2>6 DEF BufferInv
  <1>2. BufferInv /\ [BufferNext]_bufferVars => BufferInv'
    BY BufferInvNext
  <1>3. BufferInv => EveryViewShowsPicture
    BY DEF BufferInv, Pictured, EveryViewShowsPicture
  <1> QED
    BY <1>1, <1>2, <1>3, PTL DEF BufferSpec

-----------------------------------------------------------------------------
(* Textures that a pool hands round: the order in which the GPU comes to    *)
(* the commands of a buffer, and the pool's account.                        *)

Positions(c) == 1 .. Len(commands[c])
WritesAt(w, p, b, f) ==
    w \in Writers /\ p \in Positions(w) /\ commands[w][p] = [op |-> "write", buffer |-> b, frame |-> f]
ReadsAt(c, p, b, f) ==
    p \in Positions(c) /\ commands[c][p] = [op |-> "read", buffer |-> b, frame |-> f]
DrawsAt(c, p, b, f) == WritesAt(c, p, b, f) \/ ReadsAt(c, p, b, f)

\* Before c comes to its command p it will wait for u commands of d.
Behind(c, p, d, u) ==
    \E q \in Positions(c) : /\ done[c] < q /\ q < p
                            /\ commands[c][q].op = "wait"
                            /\ commands[c][q].on = d /\ commands[c][q].upTo >= u

WaitCommands == [op : {"wait"}, on : TextureContexts, upTo : Nat]
DrawCommands(op) == [op : {op}, buffer : Buffers, frame : Nat \ {0}]
Commands == WaitCommands \cup DrawCommands("write") \cup DrawCommands("read")

TextureTypeOK ==
    /\ commands \in [TextureContexts -> Seq(Commands)]
    /\ done \in [TextureContexts -> Nat]
    /\ content \in [Buffers -> Nat] /\ torn \in BOOLEAN
    /\ available \in Seq(Buffers) /\ in_use \in Nat /\ frames \in Nat
    /\ frame \in [Buffers -> Nat \cup {Deleted}]
    /\ holders \in [Buffers -> SUBSET TextureContexts]
    /\ DOMAIN producer_sync = Buffers /\ DOMAIN consumer_sync = Buffers

\* What the commands of a context can be.
CommandsKnown ==
    /\ \A c \in TextureContexts : done[c] <= Len(commands[c])
    /\ \A c \in TextureContexts : \A p \in Positions(c) :
          /\ commands[c][p].op = "write" => c \in Writers
          /\ commands[c][p].op # "wait" =>
                /\ commands[c][p].frame <= frames
                /\ \/ frame[commands[c][p].buffer] = Deleted
                   \/ commands[c][p].frame <= frame[commands[c][p].buffer]

\* The sync points of a buffer: the producer's is behind the write of the frame,
\* those of the consumers are behind their reads of it.
SyncsBehind ==
    /\ \A b \in Buffers : frame[b] <= frames
    /\ \A b \in Buffers : frame[b] > 0 =>
          /\ producer_sync[b] \in [on : Writers, upTo : Nat \ {0}]
          /\ WritesAt(producer_sync[b].on, producer_sync[b].upTo, b, frame[b])
          /\ \A d \in DOMAIN consumer_sync[b] : ReadsAt(d, consumer_sync[b][d], b, frame[b])
    /\ \A b \in Buffers :
          /\ IsFiniteSet(DOMAIN consumer_sync[b]) /\ DOMAIN consumer_sync[b] \subseteq TextureContexts
          /\ consumer_sync[b] \in [DOMAIN consumer_sync[b] -> Nat]
    /\ \A c \in TextureContexts, b \in Buffers : \A p \in Positions(c) :
          frame[b] > 0 /\ ReadsAt(c, p, b, frame[b]) =>
             c \in DOMAIN consumer_sync[b] /\ consumer_sync[b][c] >= p

PoolInv ==
    /\ \A i, j \in 1 .. Len(available) : available[i] = available[j] => i = j
    /\ \A b \in Buffers : holders[b] # {} \/ b \in InPool => frame[b] > 0
    /\ IsFiniteSet({b \in Buffers : holders[b] # {}})
    /\ PoolWithinKeepCount

\* A frame is rendered once.
FramesUnique ==
    \A v, w \in Writers : \A p \in Positions(v), q \in Positions(w) :
        commands[v][p].op = "write" /\ commands[w][q].op = "write" /\ commands[v][p].frame = commands[w][q].frame =>
            v = w /\ p = q

\* A read comes behind the write of its frame, ...
ReadComesBehind(c, p, b, f) ==
    \E w \in Writers : \E q \in Positions(w) : WritesAt(w, q, b, f) /\ (done[w] >= q \/ Behind(c, p, w, q))
ReadAfterWrite ==
    \A c \in TextureContexts, b \in Buffers, f \in Nat \ {0} : \A p \in Positions(c) :
        ReadsAt(c, p, b, f) => ReadComesBehind(c, p, b, f)

\* ... and a write of frame g behind the reads of the frame f before it, one of
\* which there is if another context has rendered f.
ComesAfter(w, q, b, g, v, p, f) ==
    /\ f < g /\ WritesAt(v, p, b, f)
    /\ \A c \in TextureContexts : \A r, h : DrawsAt(c, r, b, h) => h <= f \/ h >= g
    /\ \A c \in TextureContexts : \A r : ReadsAt(c, r, b, f) => done[c] >= r \/ Behind(w, q, c, r)
    /\ (v = w /\ p < q) \/ \E c \in TextureContexts : \E r : ReadsAt(c, r, b, f)
WriteComesBehind(w, q, b, g) ==
    \/ \A c \in TextureContexts : \A r, h : DrawsAt(c, r, b, h) => h >= g
    \/ \E v \in Writers, f \in Nat \ {0}, p \in Nat : ComesAfter(w, q, b, g, v, p, f)
WriteAfterRead ==
    \A w \in Writers, b \in Buffers, g \in Nat \ {0} : \A q \in Positions(w) :
        WritesAt(w, q, b, g) => WriteComesBehind(w, q, b, g)

\* Thus, once a frame is rendered, no command of an earlier one is left.
EarlierDone ==
    \A w \in Writers, c \in TextureContexts, b \in Buffers : \A q, g, p, f :
        WritesAt(w, q, b, g) /\ q <= done[w] /\ DrawsAt(c, p, b, f) /\ f < g => p <= done[c]

\* A texture holds the last frame that was rendered into it.
ContentLatest ==
    \A b \in Buffers :
        /\ content[b] # 0 => \E w \in Writers : \E p \in Positions(w) : p <= done[w] /\ WritesAt(w, p, b, content[b])
        /\ \A w \in Writers : \A p \in Positions(w) :
              p <= done[w] /\ commands[w][p].op = "write" /\ commands[w][p].buffer = b =>
                 commands[w][p].frame <= content[b]

TextureInv ==
    /\ TextureTypeOK /\ CommandsKnown /\ SyncsBehind /\ PoolInv /\ FramesUnique
    /\ ReadAfterWrite /\ WriteAfterRead /\ EarlierDone /\ ContentLatest /\ NoFrameTorn

-----------------------------------------------------------------------------
\* SetToSeq() lists a finite set.
LEMMA SetAsSequence ==
    ASSUME NEW S, IsFiniteSet(S)
    PROVE  /\ SetToSeq(S) \in Seq(S)
           /\ \A x \in S : \E i \in 1 .. Len(SetToSeq(S)) : SetToSeq(S)[i] = x
  <1> DEFINE n == Cardinality(S)
  <1>1. n \in Nat /\ ExistsBijection(1 .. n, S)
    BY FS_CardinalityType
  <1>2. PICK g \in [1 .. n -> S] : IsInjective(g)
    BY <1>1 DEF ExistsBijection, Bijection, Injection, IsInjective
  <1>3. SetToSeq(S) \in [1 .. n -> S] /\ IsInjective(SetToSeq(S))
    BY <1>2 DEF SetToSeq
  <1>4. SetToSeq(S) \in Injection(1 .. n, S)
    BY <1>3 DEF Injection, IsInjective
  <1>5. IsFiniteSet(1 .. n) /\ Cardinality(1 .. n) = n
    BY <1>1, FS_Interval
  <1>6. SetToSeq(S) \in Surjection(1 .. n, S)
    BY <1>4, <1>5, FS_Injection
  <1>7. \A x \in S : \E i \in 1 .. n : SetToSeq(S)[i] = x
    BY <1>6 DEF Surjection
  <1>8. SetToSeq(S) \in Seq(S) /\ Len(SetToSeq(S)) = n
    BY <1>1, <1>3
  <1> QED
    BY <1>7, <1>8

\* What a sequence begins with.
LEMMA BeginningOf ==
    ASSUME NEW S, NEW s \in Seq(S), NEW n \in Nat, n <= Len(s)
    PROVE  /\ SubSeq(s, 1, n) \in Seq(S) /\ Len(SubSeq(s, 1, n)) = n
           /\ \A i \in 1 .. n : SubSeq(s, 1, n)[i] = s[i]
  <1>1. Len(s) \in Nat
    OBVIOUS
  <1>2. 1 \in 1 .. Len(s) + 1 /\ n \in 1 - 1 .. Len(s)
    BY <1>1
  <1>3. /\ SubSeq(s, 1, n) \in Seq(S)
        /\ Len(SubSeq(s, 1, n)) = IF 1 <= n THEN n - 1 + 1 ELSE 0
        /\ \A i \in 1 .. n - 1 + 1 : SubSeq(s, 1, n)[i] = s[1 + i - 1]
    BY <1>2, SubSeqProperties
  <1> QED
    BY <1>3

\* At first no context has commands and the pool has no buffers.
LEMMA TextureInvHoldsFirst == TextureInit => TextureInv
  <1> SUFFICES ASSUME TextureInit PROVE TextureInv
    OBVIOUS
  <1>1. TextureTypeOK
    <2>1. <<>> \in Seq(Commands) /\ <<>> \in Seq(Buffers)
      OBVIOUS
    <2> HIDE DEF Commands
    <2> QED
      BY <2>1 DEF TextureInit, TextureTypeOK
  <1>2. \A c \in TextureContexts : Positions(c) = {} /\ done[c] = 0 /\ Len(commands[c]) = 0
    BY DEF TextureInit, Positions
  <1>3. CommandsKnown /\ FramesUnique /\ ReadAfterWrite /\ WriteAfterRead /\ EarlierDone
    BY <1>2 DEF CommandsKnown, FramesUnique, ReadAfterWrite, WriteAfterRead, EarlierDone, WritesAt, TextureContexts
  <1>4. SyncsBehind
    BY <1>2, FS_EmptySet DEF TextureInit, SyncsBehind, Nobody
  <1>5. PoolInv
    <2>1. {b \in Buffers : holders[b] # {}} = {}
      BY DEF TextureInit
    <2>2. Len(available) = 0 /\ InPool = {}
      BY DEF TextureInit, InPool
    <2>3. available = <<>> /\ in_use = 0 /\ \A b \in Buffers : holders[b] = {}
      BY DEF TextureInit
    <2>4. PoolWithinKeepCount
      BY <2>1, <2>2, <2>3, FS_EmptySet DEF PoolWithinKeepCount
    <2>5. IsFiniteSet({b \in Buffers : holders[b] # {}})
      BY <2>1, FS_EmptySet
    <2> QED
      BY <2>2, <2>3, <2>4, <2>5 DEF PoolInv
  <1>6. ContentLatest /\ NoFrameTorn
    BY <1>2 DEF TextureInit, ContentLatest, NoFrameTorn, TextureContexts
  <1> QED
    BY <1>1, <1>3, <1>4, <1>5, <1>6 DEF TextureInv
-----------------------------------------------------------------------------
\* The commands of one context have been extended, by waits and a last command.
Extended(c, m) ==
    /\ c \in TextureContexts /\ m \in Nat /\ m > Len(commands[c])
    /\ commands' \in [TextureContexts -> Seq(Commands)]
    /\ \A d \in TextureContexts : d # c => commands'[d] = commands[d]
    /\ Len(commands'[c]) = m
    /\ \A p \in Positions(c) : commands'[c][p] = commands[c][p]
    /\ \A p \in Len(commands[c]) + 1 .. m - 1 : commands'[c][p].op = "wait"
    /\ done' = done

\* Commands appended to a queue extend it.
LEMMA ExtendedBy ==
    ASSUME TextureTypeOK, NEW c \in TextureContexts, NEW waits \in Seq(WaitCommands), NEW last \in Commands,
           commands' = [commands EXCEPT ![c] = @ \o waits \o <<last>>], done' = done
    PROVE  LET n == Len(commands[c])
               m == n + Len(waits) + 1
           IN  /\ Extended(c, m) /\ commands'[c][m] = last
               /\ \A i \in 1 .. Len(waits) : commands'[c][n + i] = waits[i]
  <1> DEFINE n == Len(commands[c])
             m == n + Len(waits) + 1
             old == commands[c]
             new == old \o waits \o <<last>>
  <1>1. old \in Seq(Commands) /\ n \in Nat /\ Len(waits) \in Nat /\ waits \in Seq(Commands)
    BY DEF TextureTypeOK, Commands
  <1>2. commands'[c] = new /\ \A d \in TextureContexts : d # c => commands'[d] = commands[d]
    BY DEF TextureTypeOK
  <1> HIDE DEF Commands
  <1>3. /\ new \in Seq(Commands) /\ Len(new) = m
        /\ \A p \in 1 .. n : new[p] = old[p]
        /\ \A i \in 1 .. Len(waits) : new[n + i] = waits[i]
        /\ new[m] = last
    BY <1>1
  <1>4. \A p \in n + 1 .. m - 1 : new[p].op = "wait"
    <2> TAKE p \in n + 1 .. m - 1
    <2>1. p - n \in 1 .. Len(waits) /\ new[n + (p - n)] = waits[p - n] /\ n + (p - n) = p
      BY <1>1, <1>3
    <2>2. waits[p - n] \in WaitCommands
      BY <2>1
    <2> QED
      BY <2>1, <2>2 DEF WaitCommands
  <1>5. commands' \in [TextureContexts -> Seq(Commands)]
    BY <1>2, <1>3 DEF TextureTypeOK
  <1> QED
    BY <1>1, <1>2, <1>3, <1>4, <1>5 DEF Extended, Positions

\* What was said of commands still holds, and only the last one is new.
LEMMA ExtensionKeeps ==
    ASSUME TextureTypeOK, NEW c, NEW m, Extended(c, m)
    PROVE  /\ \A d \in TextureContexts : Positions(d) \subseteq Positions(d)'
           /\ \A d \in TextureContexts : \A p \in Positions(d) : commands'[d][p] = commands[d][p]
           /\ \A d \in TextureContexts : \A p \in Positions(d)' :
                 commands'[d][p].op # "wait" => p \in Positions(d) \/ (d = c /\ p = m)
           /\ \A d, e, p, u : d \in TextureContexts /\ Behind(d, p, e, u) => Behind(d, p, e, u)'
           /\ \A w, p, b, f : WritesAt(w, p, b, f) => WritesAt(w, p, b, f)'
           /\ \A w, p, b, f : WritesAt(w, p, b, f)' => WritesAt(w, p, b, f) \/ (w = c /\ p = m)
           /\ \A d, p, b, f : d \in TextureContexts /\ ReadsAt(d, p, b, f) => ReadsAt(d, p, b, f)'
           /\ \A d, p, b, f : d \in TextureContexts /\ ReadsAt(d, p, b, f)' => ReadsAt(d, p, b, f) \/ (d = c /\ p = m)
           /\ \A d, p, b, f : d \in TextureContexts /\ DrawsAt(d, p, b, f)' => DrawsAt(d, p, b, f) \/ (d = c /\ p = m)
  <1>1. \A d \in TextureContexts : Len(commands[d]) \in Nat /\ Len(commands'[d]) \in Nat
    BY DEF TextureTypeOK, Extended
  <1>2. \A d \in TextureContexts : Positions(d) \subseteq Positions(d)'
    BY <1>1 DEF Extended, Positions
  <1>3. \A d \in TextureContexts : \A p \in Positions(d) : commands'[d][p] = commands[d][p]
    BY DEF Extended
  <1>4. \A d \in TextureContexts : \A p \in Positions(d)' :
           commands'[d][p].op # "wait" => p \in Positions(d) \/ (d = c /\ p = m)
    BY <1>1 DEF Extended, Positions
  <1>5. \A d, e, p, u : d \in TextureContexts /\ Behind(d, p, e, u) => Behind(d, p, e, u)'
    BY <1>2, <1>3 DEF Behind, Extended
  <1>6. Writers \subseteq TextureContexts
    BY DEF TextureContexts
  <1> QED
    BY <1>2, <1>3, <1>4, <1>5, <1>6 DEF WritesAt, ReadsAt, DrawsAt

\* Commands have their kind's fields.
LEMMA CommandTypes ==
    ASSUME TextureTypeOK, NEW c \in TextureContexts, NEW p \in Positions(c)
    PROVE  LET cmd == commands[c][p] IN
           /\ cmd.op \in {"wait", "write", "read"}
           /\ cmd.op = "wait" => cmd.on \in TextureContexts /\ cmd.upTo \in Nat
           /\ cmd.op = "write" => /\ cmd.buffer \in Buffers /\ cmd.frame \in Nat \ {0}
                                  /\ cmd = [op |-> "write", buffer |-> cmd.buffer, frame |-> cmd.frame]
           /\ cmd.op = "read" => /\ cmd.buffer \in Buffers /\ cmd.frame \in Nat \ {0}
                                 /\ cmd = [op |-> "read", buffer |-> cmd.buffer, frame |-> cmd.frame]
  <1>1. commands[c][p] \in Commands
    BY DEF TextureTypeOK, Positions
  <1> QED
    BY <1>1 DEF Commands, WaitCommands, DrawCommands
\* A command that draws has a buffer and a frame.
LEMMA DrawTypes ==
    ASSUME TextureTypeOK, NEW c \in TextureContexts, NEW p, NEW b, NEW f, DrawsAt(c, p, b, f)
    PROVE  /\ p \in Positions(c) /\ p \in Nat /\ b \in Buffers /\ f \in Nat \ {0}
           /\ commands[c][p].op # "wait" /\ commands[c][p].buffer = b /\ commands[c][p].frame = f
  <1>1. p \in Positions(c)
    BY DEF DrawsAt, WritesAt, ReadsAt
  <1>2. /\ commands[c][p].op \in {"write", "read"} /\ commands[c][p].buffer = b /\ commands[c][p].frame = f
    BY DEF DrawsAt, WritesAt, ReadsAt
  <1>3. commands[c][p].buffer \in Buffers /\ commands[c][p].frame \in Nat \ {0}
    BY <1>1, <1>2, CommandTypes
  <1>4. p \in Nat
    BY <1>1 DEF Positions
  <1> QED
    BY <1>1, <1>2, <1>3, <1>4
-----------------------------------------------------------------------------
\* What Produce() does to buffer b: a frame comes behind the reads of the last.
Rendered(w, b, m) ==
    /\ w \in Writers /\ b \in Buffers /\ frame[b] # Deleted
    /\ Extended(w, m) /\ commands'[w][m] = [op |-> "write", buffer |-> b, frame |-> frames + 1]
    /\ \A d, u : frame[b] > 0 /\ d \in DOMAIN consumer_sync[b] /\ u = consumer_sync[b][d] => Behind(w, m, d, u)'
    /\ frame' = [frame EXCEPT ![b] = frames + 1] /\ frames' = frames + 1
    /\ producer_sync' = [producer_sync EXCEPT ![b] = [on |-> w, upTo |-> m]]
    /\ consumer_sync' = [consumer_sync EXCEPT ![b] = Nobody]
    /\ content' = content /\ torn' = torn

PoolTaken(w, b, readers) ==
    /\ in_use' = in_use + 1
    /\ holders' = [holders EXCEPT ![b] = readers \cup {w}]
    /\ \/ available = <<>> /\ frame[b] = 0 /\ available' = <<>>
       \/ available # <<>> /\ b = Last(available) /\ available' = Front(available)

\* GlMultiSyncPoint::WaitOnGpu() waits for every context in it.
LEMMA ConsumersWaitedFor ==
    ASSUME TextureTypeOK, SyncsBehind, NEW b \in Buffers
    PROVE  /\ WaitForConsumers(b) \in Seq(WaitCommands)
           /\ \A d \in DOMAIN consumer_sync[b] : \E i \in 1 .. Len(WaitForConsumers(b)) :
                 WaitForConsumers(b)[i] = [op |-> "wait", on |-> d, upTo |-> consumer_sync[b][d]]
  <1> DEFINE S == DOMAIN consumer_sync[b]
             on == SetToSeq(S)
             waits == [i \in 1 .. Len(on) |-> [op |-> "wait", on |-> on[i], upTo |-> consumer_sync[b][on[i]]]]
  <1>1. IsFiniteSet(S) /\ S \subseteq TextureContexts /\ \A d \in S : consumer_sync[b][d] \in Nat
    BY DEF SyncsBehind
  <1>2. on \in Seq(S) /\ \A d \in S : \E i \in 1 .. Len(on) : on[i] = d
    BY <1>1, SetAsSequence
  <1> HIDE DEF on
  <1>3. waits \in [1 .. Len(on) -> WaitCommands] /\ Len(on) \in Nat
    BY <1>1, <1>2 DEF WaitCommands
  <1>4. waits \in Seq(WaitCommands) /\ Len(waits) = Len(on)
    BY <1>3
  <1>5. \A d \in S : \E i \in 1 .. Len(waits) : waits[i] = [op |-> "wait", on |-> d, upTo |-> consumer_sync[b][d]]
    BY <1>2, <1>4
  <1>6. WaitForConsumers(b) = waits
    BY DEF WaitForConsumers, on
  <1> HIDE DEF waits
  <1> QED
    BY <1>4, <1>5, <1>6

\* GetBuffer() gives an unused texture or the last of the pool, behind its readers.
LEMMA ProduceRenders ==
    ASSUME TextureTypeOK, CommandsKnown, SyncsBehind, PoolInv,
           NEW w \in Writers, NEW readers \in SUBSET Readers, Produce(w, readers)
    PROVE  \E b \in Buffers : \E m \in Nat : Rendered(w, b, m) /\ PoolTaken(w, b, readers)
  <1>1. w \in TextureContexts /\ Len(commands[w]) \in Nat /\ frames \in Nat /\ done[w] \in Nat
    BY DEF TextureContexts, TextureTypeOK
  <1>2. PICK b \in IF available = <<>> THEN Unmade ELSE {Last(available)} :
          /\ available' = IF available = <<>> THEN available ELSE Front(available)
          /\ commands' = [commands EXCEPT ![w] =
                (IF available = <<>> THEN @ ELSE @ \o ReuseWaits(b))
                   \o <<[op |-> "write", buffer |-> b, frame |-> frames + 1]>>]
          /\ producer_sync' = [producer_sync EXCEPT ![b] = [on |-> w, upTo |-> Len(commands'[w])]]
          /\ consumer_sync' = [consumer_sync EXCEPT ![b] = Nobody]
          /\ frame' = [frame EXCEPT ![b] = frames + 1]
          /\ holders' = [holders EXCEPT ![b] = readers \cup {w}]
    BY DEF Produce
  <1>3. in_use' = in_use + 1 /\ frames' = frames + 1 /\ done' = done /\ content' = content /\ torn' = torn
    BY DEF Produce, gpuVars
  <1> DEFINE waits == IF available = <<>> THEN <<>> ELSE WaitForConsumers(b)
             last == [op |-> "write", buffer |-> b, frame |-> frames + 1]
             n == Len(commands[w])
             m == n + Len(waits) + 1
  <1>4. b \in Buffers /\ (available = <<>> => frame[b] = 0)
        /\ (available # <<>> => frame[b] > 0 /\ b = Last(available))
    <2>1. CASE available = <<>>
      BY <1>2, <2>1 DEF Unmade
    <2>2. CASE available # <<>>
      <3>1. b = available[Len(available)] /\ Len(available) \in 1 .. Len(available)
        BY <1>2, <2>2 DEF Last, TextureTypeOK
      <3>2. b \in Buffers /\ b \in InPool
        BY <3>1 DEF TextureTypeOK, InPool
      <3> QED
        BY <1>2, <2>2, <3>2 DEF PoolInv
    <2> QED
      BY <2>1, <2>2
  <1>5. waits \in Seq(WaitCommands)
    <2>1. <<>> \in Seq(WaitCommands)
      OBVIOUS
    <2> QED
      BY <2>1, <1>4, ConsumersWaitedFor
  <1>6. commands' = [commands EXCEPT ![w] = @ \o waits \o <<last>>]
    <2>1. commands[w] \o <<>> = commands[w]
      BY <1>1 DEF TextureTypeOK
    <2> QED
      BY <1>2, <2>1 DEF ReuseWaits
  <1>7. last \in Commands
    BY <1>1, <1>4 DEF Commands, DrawCommands
  <1> HIDE DEF waits, last
  <1>8. /\ Extended(w, m) /\ commands'[w][m] = last
        /\ \A i \in 1 .. Len(waits) : commands'[w][n + i] = waits[i]
    BY <1>1, <1>3, <1>5, <1>6, <1>7, ExtendedBy
  <1>9. m \in Nat /\ Len(waits) \in Nat /\ Len(commands'[w]) = m /\ done'[w] <= n
    BY <1>1, <1>3, <1>5, <1>8 DEF Extended, CommandsKnown
  <1>10. ASSUME NEW p, p = m, frame[b] > 0, NEW d, d \in DOMAIN consumer_sync[b], NEW u, u = consumer_sync[b][d]
         PROVE  Behind(w, p, d, u)'
    <2>1. waits = WaitForConsumers(b)
      BY <1>4, <1>10 DEF waits
    <2>2. PICK i \in 1 .. Len(waits) : waits[i] = [op |-> "wait", on |-> d, upTo |-> consumer_sync[b][d]]
      BY <2>1, <1>4, <1>10, ConsumersWaitedFor
    <2>3. PICK q \in 1 .. p : q = n + i /\ q < p /\ done'[w] < q
      <3>1. done'[w] \in Nat /\ i \in Nat /\ 1 <= i /\ i <= Len(waits)
        BY <1>1, <1>3, <1>9
      <3>2. n + i \in 1 .. p /\ n + i < p /\ done'[w] < n + i
        BY <1>1, <1>9, <1>10, <3>1
      <3> QED
        BY <3>2
    <2>4. commands'[w][q] = [op |-> "wait", on |-> d, upTo |-> u]
      BY <1>8, <1>10, <2>2, <2>3
    <2>5. u \in Nat
      BY <1>4, <1>10 DEF SyncsBehind
    <2>6. Len(commands'[w]) = p
      BY <1>9, <1>10
    <2>7. /\ commands'[w][q].op = "wait" /\ commands'[w][q].on = d
          /\ commands'[w][q].upTo >= u
      BY <2>4, <2>5
    <2> QED
      BY <2>3, <2>6, <2>7 DEF Behind, Positions
  <1>11. ASSUME NEW p, p = m PROVE Rendered(w, b, p)
    <2>1. producer_sync' = [producer_sync EXCEPT ![b] = [on |-> w, upTo |-> p]]
      BY <1>2, <1>9, <1>11
    <2>2. frame[b] # Deleted
      BY <1>4 DEF Deleted
    <2>3. Extended(w, p) /\ commands'[w][p] = last
      BY <1>8, <1>11
    <2>4. \A d, u : frame[b] > 0 /\ d \in DOMAIN consumer_sync[b] /\ u = consumer_sync[b][d] => Behind(w, p, d, u)'
      BY <1>10, <1>11
    <2> QED
      BY <1>2, <1>3, <1>4, <2>1, <2>2, <2>3, <2>4 DEF Rendered, last
  <1>12. PoolTaken(w, b, readers)
    BY <1>2, <1>3, <1>4 DEF PoolTaken
  <1> QED
    BY <1>4, <1>9, <1>11, <1>12

\* Textures do not change when commands are queued.
LEMMA ContentKept ==
    ASSUME TextureTypeOK, CommandsKnown, ContentLatest, NEW c, NEW m, Extended(c, m), content' = content
    PROVE  ContentLatest'
  <1>1. /\ \A d \in TextureContexts : \A p \in Positions(d) : commands'[d][p] = commands[d][p]
        /\ \A v, p, x, f : WritesAt(v, p, x, f) => WritesAt(v, p, x, f)'
    BY ExtensionKeeps
  <1>2. content' = content /\ done' = done
    BY DEF Extended
  <1> SUFFICES ASSUME NEW x \in Buffers
               PROVE  /\ content[x] # 0 => \E v \in Writers : \E p \in Positions(v)' :
                              p <= done[v] /\ WritesAt(v, p, x, content[x])'
                      /\ \A v \in Writers : \A p \in Positions(v)' :
                            p <= done[v] /\ commands'[v][p].op = "write" /\ commands'[v][p].buffer = x =>
                               commands'[v][p].frame <= content[x]
    BY <1>2 DEF ContentLatest
  <1>3. content[x] # 0 => \E v \in Writers : \E p \in Positions(v)' :
                              p <= done[v] /\ WritesAt(v, p, x, content[x])'
    <2> SUFFICES ASSUME content[x] # 0
                 PROVE  \E v \in Writers : \E p \in Positions(v)' :
                              p <= done[v] /\ WritesAt(v, p, x, content[x])'
      OBVIOUS
    <2>0. PICK v \in Writers : \E p \in Positions(v) : p <= done[v] /\ WritesAt(v, p, x, content[x])
      BY DEF ContentLatest
    <2>1. PICK p \in Positions(v) : p <= done[v] /\ WritesAt(v, p, x, content[x])
      BY <2>0
    <2>2. PICK f : f = content[x]
      OBVIOUS
    <2>3. WritesAt(v, p, x, f)'
      BY <1>1, <2>1, <2>2
    <2>4. content'[x] = f
      BY <1>2, <2>2
    <2>5. WritesAt(v, p, x, content[x])' /\ p \in Positions(v)'
      BY <2>3, <2>4 DEF WritesAt
    <2> QED
      BY <2>1, <2>5
  <1>4. ASSUME NEW v \in Writers, NEW p \in Positions(v)', p <= done[v], commands'[v][p].op = "write",
               commands'[v][p].buffer = x
        PROVE  commands'[v][p].frame <= content[x]
    <2>1. v \in TextureContexts /\ p \in Int /\ done[v] \in Int /\ Len(commands[v]) \in Nat /\ done[v] <= Len(commands[v])
      BY DEF TextureContexts, Positions, TextureTypeOK, CommandsKnown
    <2>2. p \in Positions(v)
      BY <1>4, <2>1 DEF Positions
    <2> QED
      BY <1>1, <1>4, <2>1, <2>2 DEF ContentLatest
  <1> QED
    BY <1>3, <1>4

\* The command queued last is of the last frame of its buffer.
QueuedLast(c, m, b, f) ==
    /\ Extended(c, m) /\ DrawsAt(c, m, b, f)'
    /\ \A w \in Writers : \A q, g : WritesAt(w, q, b, g) => g <= f

\* A command queued behind the last of its buffer disturbs no order there was.
LEMMA OldOrderKept ==
    ASSUME TextureTypeOK, CommandsKnown, EarlierDone, ReadAfterWrite, WriteAfterRead,
           NEW c \in TextureContexts, NEW m \in Nat, NEW b, NEW f \in Int, QueuedLast(c, m, b, f)
    PROVE  /\ EarlierDone'
           /\ \A d \in TextureContexts, x \in Buffers, h \in Nat \ {0} : \A p :
                 ReadsAt(d, p, x, h) => ReadComesBehind(d, p, x, h)'
           /\ \A w \in Writers, x \in Buffers, g \in Nat \ {0} : \A q :
                 WritesAt(w, q, x, g) => WriteComesBehind(w, q, x, g)'
  <1>1. Extended(c, m) /\ done' = done
    BY DEF QueuedLast, Extended
  <1>2. /\ \A d, e, p, u : d \in TextureContexts /\ Behind(d, p, e, u) => Behind(d, p, e, u)'
        /\ \A w, p, x, h : WritesAt(w, p, x, h) => WritesAt(w, p, x, h)'
        /\ \A w, p, x, h : WritesAt(w, p, x, h)' => WritesAt(w, p, x, h) \/ (w = c /\ p = m)
        /\ \A d, p, x, h : d \in TextureContexts /\ ReadsAt(d, p, x, h) => ReadsAt(d, p, x, h)'
        /\ \A d, p, x, h : d \in TextureContexts /\ ReadsAt(d, p, x, h)' => ReadsAt(d, p, x, h) \/ (d = c /\ p = m)
        /\ \A d, p, x, h : d \in TextureContexts /\ DrawsAt(d, p, x, h)' => DrawsAt(d, p, x, h) \/ (d = c /\ p = m)
    BY <1>1, ExtensionKeeps
  <1>3. \A x, h : DrawsAt(c, m, x, h)' => x = b /\ h = f
    <2>1. \A x, h : DrawsAt(c, m, x, h)' => commands'[c][m].buffer = x /\ commands'[c][m].frame = h
      BY DEF DrawsAt, WritesAt, ReadsAt
    <2>2. DrawsAt(c, m, b, f)'
      BY DEF QueuedLast
    <2> QED
      BY <2>1, <2>2
  <1>4. \A d \in TextureContexts : \A p, x, h : DrawsAt(d, p, x, h)' => DrawsAt(d, p, x, h) \/ (x = b /\ h = f)
    BY <1>2, <1>3
  <1>5. done[c] < m /\ Writers \subseteq TextureContexts
    BY <1>1 DEF TextureTypeOK, CommandsKnown, Extended, TextureContexts
  <1>6. EarlierDone'
    <2> SUFFICES ASSUME NEW w \in Writers, NEW d \in TextureContexts, NEW x \in Buffers, NEW q, NEW g, NEW p, NEW h,
                        WritesAt(w, q, x, g)', q <= done[w], DrawsAt(d, p, x, h)', h < g
                 PROVE  p <= done[d]
      BY <1>1 DEF EarlierDone, TextureContexts
    <2>1. WritesAt(w, q, x, g)
      <3>1. w = c /\ q = m => FALSE
        BY <1>1, <1>5 DEF TextureTypeOK
      <3> QED
        BY <1>2, <3>1
    <2>2. w \in TextureContexts /\ DrawsAt(w, q, x, g) /\ g \in Nat
      BY <1>5, <2>1, DrawTypes DEF DrawsAt
    <2>3. DrawsAt(d, p, x, h)
      <3>1. x = b => g <= f
        BY <2>1 DEF QueuedLast
      <3> QED
        BY <1>4, <2>2, <3>1
    <2> QED
      BY <2>1, <2>3 DEF EarlierDone
  <1>7. ASSUME NEW d \in TextureContexts, NEW x \in Buffers, NEW h \in Nat \ {0}, NEW p, ReadsAt(d, p, x, h)
        PROVE  ReadComesBehind(d, p, x, h)'
    <2>1. p \in Positions(d)
      BY <1>7 DEF ReadsAt
    <2>2. PICK w \in Writers : \E q \in Positions(w) : WritesAt(w, q, x, h) /\ (done[w] >= q \/ Behind(d, p, w, q))
      BY <1>7, <2>1 DEF ReadAfterWrite, ReadComesBehind
    <2>3. PICK q \in Positions(w) : WritesAt(w, q, x, h) /\ (done[w] >= q \/ Behind(d, p, w, q))
      BY <2>2
    <2>4. WritesAt(w, q, x, h)' /\ (done'[w] >= q \/ Behind(d, p, w, q)') /\ q \in Positions(w)'
      BY <1>1, <1>2, <2>3 DEF WritesAt
    <2> QED
      BY <2>4 DEF ReadComesBehind
  <1>8. ASSUME NEW w \in Writers, NEW x \in Buffers, NEW g \in Nat \ {0}, NEW q, WritesAt(w, q, x, g)
        PROVE  WriteComesBehind(w, q, x, g)'
    <2>1. q \in Positions(w) /\ (x = b => g <= f)
      BY <1>8 DEF WritesAt, QueuedLast
    <2>2. WriteComesBehind(w, q, x, g)
      BY <1>8, <2>1 DEF WriteAfterRead
    <2>3. CASE \A d \in TextureContexts : \A r, h : DrawsAt(d, r, x, h) => h >= g
      <3>1. \A d \in TextureContexts : \A r, h : DrawsAt(d, r, x, h)' => h >= g
        BY <1>4, <2>1, <2>3
      <3> QED
        BY <3>1 DEF WriteComesBehind, TextureContexts
    <2>4. CASE \E v \in Writers, e \in Nat \ {0}, p \in Nat : ComesAfter(w, q, x, g, v, p, e)
      <3>1. PICK v \in Writers, e \in Nat \ {0}, p \in Nat : ComesAfter(w, q, x, g, v, p, e)
        BY <2>4
      <3>2. e < g /\ WritesAt(v, p, x, e)'
        BY <1>2, <3>1 DEF ComesAfter
      <3>3. \A d \in TextureContexts : \A r, h : DrawsAt(d, r, x, h)' => h <= e \/ h >= g
        BY <1>4, <2>1, <3>1 DEF ComesAfter
      <3>4. \A d \in TextureContexts : \A r : ReadsAt(d, r, x, e)' => done'[d] >= r \/ Behind(w, q, d, r)'
        <4> TAKE d \in TextureContexts
        <4> TAKE r
        <4> HAVE ReadsAt(d, r, x, e)'
        <4>1. ReadsAt(d, r, x, e)
          <5>1. d = c /\ r = m => FALSE
            <6>1. d = c /\ r = m => DrawsAt(c, m, x, e)'
              BY DEF DrawsAt
            <6> QED
              BY <1>3, <2>1, <3>2, <6>1
          <5> QED
            BY <1>2, <5>1
        <4>2. done[d] >= r \/ Behind(w, q, d, r)
          BY <3>1, <4>1 DEF ComesAfter
        <4> QED
          BY <1>1, <1>2, <1>5, <4>2
      <3>5. (v = w /\ p < q) \/ \E d \in TextureContexts : \E r : ReadsAt(d, r, x, e)'
        BY <1>2, <3>1 DEF ComesAfter
      <3>6. ComesAfter(w, q, x, g, v, p, e)'
        BY <3>2, <3>3, <3>4, <3>5 DEF ComesAfter, TextureContexts
      <3> QED
        BY <3>6 DEF WriteComesBehind
    <2> QED
      BY <2>2, <2>3, <2>4 DEF WriteComesBehind
  <1> QED
    BY <1>6, <1>7, <1>8

\* Produce() queues a write of a new frame.
LEMMA RenderKeepsCommands ==
    ASSUME TextureInv, NEW w \in Writers, NEW b \in Buffers, NEW m \in Nat, Rendered(w, b, m)
    PROVE  CommandsKnown' /\ FramesUnique' /\ ContentLatest'
  <1>1. TextureTypeOK /\ CommandsKnown /\ FramesUnique /\ ContentLatest /\ SyncsBehind /\ Extended(w, m)
    BY DEF TextureInv, Rendered
  <1>2. /\ frame' = [frame EXCEPT ![b] = frames + 1] /\ frames' = frames + 1 /\ frames \in Nat
        /\ content' = content /\ frame \in [Buffers -> Nat \cup {Deleted}] /\ done' = done
        /\ commands'[w][m] = [op |-> "write", buffer |-> b, frame |-> frames + 1]
    BY <1>1 DEF Rendered, TextureTypeOK, Extended
  <1>3. /\ \A d \in TextureContexts : \A p \in Positions(d) : commands'[d][p] = commands[d][p]
        /\ \A d \in TextureContexts : \A p \in Positions(d)' :
              commands'[d][p].op # "wait" => p \in Positions(d) \/ (d = w /\ p = m)
        /\ \A v, p, x, f : WritesAt(v, p, x, f) => WritesAt(v, p, x, f)'
    BY <1>1, ExtensionKeeps
  <1>4. /\ commands'[w][m].op = "write" /\ commands'[w][m].frame = frames + 1
        /\ commands'[w][m].buffer = b
    BY <1>2
  <1>5. frame[b] <= frames
    BY <1>1 DEF SyncsBehind
  <1>6. CommandsKnown'
    <2>1. \A c \in TextureContexts : done'[c] <= Len(commands'[c])
      <3> TAKE c \in TextureContexts
      <3>1. done[c] \in Nat /\ Len(commands[c]) \in Nat /\ Len(commands'[c]) \in Nat /\ done[c] <= Len(commands[c])
        BY <1>1 DEF TextureTypeOK, CommandsKnown, Extended
      <3>2. Len(commands[c]) <= Len(commands'[c])
        BY <1>1, <3>1 DEF Extended
      <3> QED
        BY <1>2, <3>1, <3>2
    <2>2. ASSUME NEW c \in TextureContexts, NEW p \in Positions(c)'
          PROVE  /\ commands'[c][p].op = "write" => c \in Writers
                 /\ commands'[c][p].op # "wait" =>
                       /\ commands'[c][p].frame <= frames'
                       /\ \/ frame'[commands'[c][p].buffer] = Deleted
                          \/ commands'[c][p].frame <= frame'[commands'[c][p].buffer]
      <3>1. CASE c = w /\ p = m
        BY <1>2, <1>4, <3>1
      <3>2. CASE p \in Positions(c) /\ commands'[c][p].op # "wait"
        <4> DEFINE cmd == commands[c][p]
        <4>1. commands'[c][p] = cmd
          BY <1>3, <3>2
        <4>2. cmd.op \in {"write", "read"} /\ cmd.frame \in Nat \ {0} /\ cmd.buffer \in Buffers
          BY <1>1, <3>2, <4>1, CommandTypes
        <4>3. /\ cmd.op = "write" => c \in Writers
              /\ cmd.frame <= frames
              /\ frame[cmd.buffer] = Deleted \/ cmd.frame <= frame[cmd.buffer]
          BY <1>1, <3>2, <4>2 DEF CommandsKnown
        <4> HIDE DEF cmd
        <4>4. cmd.frame <= frames'
          BY <1>2, <4>2, <4>3
        <4>5. frame'[cmd.buffer] = Deleted \/ cmd.frame <= frame'[cmd.buffer]
          BY <1>2, <4>2, <4>3
        <4> QED
          BY <4>1, <4>3, <4>4, <4>5
      <3> QED
        BY <1>3, <3>1, <3>2, <2>2
    <2> QED
      BY <2>1, <2>2 DEF CommandsKnown, Positions
  <1>7. FramesUnique'
    <2> SUFFICES ASSUME NEW v \in Writers, NEW y \in Writers, NEW p \in Positions(v)', NEW q \in Positions(y)',
                        commands'[v][p].op = "write", commands'[y][q].op = "write",
                        commands'[v][p].frame = commands'[y][q].frame
                 PROVE  v = y /\ p = q
      BY DEF FramesUnique, Positions
    <2>1. v \in TextureContexts /\ y \in TextureContexts
      BY DEF TextureContexts
    <2>2. \A z \in Writers : \A r \in Positions(z) :
             commands'[z][r].op = "write" => commands'[z][r].frame \in Nat /\ commands'[z][r].frame <= frames
      <3> SUFFICES ASSUME NEW z \in Writers, NEW r \in Positions(z), commands'[z][r].op = "write"
                   PROVE  commands'[z][r].frame \in Nat /\ commands'[z][r].frame <= frames
        OBVIOUS
      <3>1. z \in TextureContexts
        BY DEF TextureContexts
      <3>2. commands'[z][r] = commands[z][r]
        BY <1>3, <3>1
      <3>3. commands[z][r].frame \in Nat
        BY <1>1, <3>1, <3>2, CommandTypes
      <3> QED
        BY <1>1, <3>1, <3>2, <3>3 DEF CommandsKnown
    <2>3. (p \in Positions(v) \/ (v = w /\ p = m)) /\ (q \in Positions(y) \/ (y = w /\ q = m))
      BY <1>3, <2>1
    <2>4. CASE p \in Positions(v) /\ q \in Positions(y)
      BY <1>1, <1>3, <2>1, <2>4 DEF FramesUnique
    <2>5. CASE v = w /\ p = m /\ q \in Positions(y)
      BY <1>2, <1>4, <2>2, <2>5
    <2>6. CASE p \in Positions(v) /\ y = w /\ q = m
      BY <1>2, <1>4, <2>2, <2>6
    <2> QED
      BY <2>3, <2>4, <2>5, <2>6
  <1>8. ContentLatest'
    BY <1>1, <1>2, ContentKept
  <1> QED
    BY <1>1, <1>6, <1>7, <1>8

\* Updated() and Reuse() leave the sync point of the new frame alone.
LEMMA RenderKeepsSyncs ==
    ASSUME TextureInv, NEW w \in Writers, NEW b \in Buffers, NEW m \in Nat, Rendered(w, b, m)
    PROVE  SyncsBehind'
  <1>1. TextureTypeOK /\ CommandsKnown /\ SyncsBehind /\ Extended(w, m)
    BY DEF TextureInv, Rendered
  <1>2. /\ frame' = [frame EXCEPT ![b] = frames + 1] /\ frames' = frames + 1 /\ frames \in Nat
        /\ frame \in [Buffers -> Nat \cup {Deleted}]
        /\ producer_sync' = [producer_sync EXCEPT ![b] = [on |-> w, upTo |-> m]]
        /\ consumer_sync' = [consumer_sync EXCEPT ![b] = Nobody]
        /\ commands'[w][m] = [op |-> "write", buffer |-> b, frame |-> frames + 1]
        /\ DOMAIN producer_sync = Buffers /\ DOMAIN consumer_sync = Buffers
    BY <1>1 DEF Rendered, TextureTypeOK
  <1>3. /\ \A v, p, x, f : WritesAt(v, p, x, f) => WritesAt(v, p, x, f)'
        /\ \A d, p, x, f : d \in TextureContexts /\ ReadsAt(d, p, x, f) => ReadsAt(d, p, x, f)'
        /\ \A d, p, x, f : d \in TextureContexts /\ ReadsAt(d, p, x, f)' => ReadsAt(d, p, x, f) \/ (d = w /\ p = m)
    BY <1>1, ExtensionKeeps
  <1>4. m \in Positions(w)' /\ m \in Nat \ {0}
    BY <1>1 DEF Extended, Positions, TextureTypeOK
  <1>5. \A x \in Buffers : frame'[x] <= frames'
    BY <1>1, <1>2 DEF SyncsBehind, Deleted
  <1>6. ASSUME NEW x \in Buffers, frame'[x] > 0
        PROVE  /\ producer_sync'[x] \in [on : Writers, upTo : Nat \ {0}]
               /\ WritesAt(producer_sync[x].on, producer_sync[x].upTo, x, frame[x])'
               /\ \A d \in DOMAIN consumer_sync'[x] : ReadsAt(d, consumer_sync[x][d], x, frame[x])'
    <2>1. CASE x = b
      <3>1. producer_sync'[x] = [on |-> w, upTo |-> m] /\ frame'[x] = frames + 1
        BY <1>2, <2>1
      <3>2. commands'[w][m] = [op |-> "write", buffer |-> x, frame |-> frame'[x]]
        BY <1>2, <2>1, <3>1
      <3>3. producer_sync'[x].on = w /\ producer_sync'[x].upTo = m
        BY <3>1
      <3>4. DOMAIN consumer_sync'[x] = {}
        BY <1>2, <2>1 DEF Nobody
      <3> QED
        BY <1>4, <3>1, <3>2, <3>3, <3>4 DEF WritesAt
    <2>2. CASE x # b
      <3>1. producer_sync'[x] = producer_sync[x] /\ frame'[x] = frame[x] /\ frame[x] > 0
        BY <1>2, <1>6, <2>2
      <3>2. producer_sync[x] \in [on : Writers, upTo : Nat \ {0}]
            /\ WritesAt(producer_sync[x].on, producer_sync[x].upTo, x, frame[x])
        BY <1>1, <3>1 DEF SyncsBehind
      <3>3. PICK v, p, f : v = producer_sync[x].on /\ p = producer_sync[x].upTo /\ f = frame[x]
        OBVIOUS
      <3>4. WritesAt(v, p, x, f)'
        BY <1>3, <3>2, <3>3
      <3>5. producer_sync'[x].on = v /\ producer_sync'[x].upTo = p /\ frame'[x] = f
        BY <3>1, <3>3
      <3>6. WritesAt(producer_sync[x].on, producer_sync[x].upTo, x, frame[x])'
        BY <3>4, <3>5 DEF WritesAt
      <3>7. \A d \in DOMAIN consumer_sync'[x] : ReadsAt(d, consumer_sync[x][d], x, frame[x])'
        <4> TAKE d \in DOMAIN consumer_sync'[x]
        <4>1. consumer_sync'[x] = consumer_sync[x]
          BY <1>2, <2>2
        <4>2. PICK r : r = consumer_sync[x][d]
          OBVIOUS
        <4>3. ReadsAt(d, r, x, f) /\ d \in TextureContexts
          BY <1>1, <3>1, <3>3, <4>1, <4>2 DEF SyncsBehind
        <4>4. ReadsAt(d, r, x, f)'
          BY <1>3, <4>3
        <4>5. consumer_sync'[x][d] = r
          BY <4>1, <4>2
        <4> QED
          BY <3>5, <4>4, <4>5 DEF ReadsAt
      <3> QED
        BY <3>1, <3>2, <3>6, <3>7
    <2> QED
      BY <2>1, <2>2
  <1>7. ASSUME NEW x \in Buffers
        PROVE  /\ IsFiniteSet(DOMAIN consumer_sync'[x]) /\ DOMAIN consumer_sync'[x] \subseteq TextureContexts
               /\ consumer_sync'[x] \in [DOMAIN consumer_sync'[x] -> Nat]
    <2>1. CASE x = b
      <3>1. consumer_sync'[x] = Nobody /\ DOMAIN Nobody = {} /\ Nobody \in [{} -> Nat]
        BY <1>2, <2>1 DEF Nobody
      <3> QED
        BY <3>1, FS_EmptySet
    <2>2. CASE x # b
      <3>1. consumer_sync'[x] = consumer_sync[x]
        BY <1>2, <2>2
      <3> QED
        BY <1>1, <3>1 DEF SyncsBehind
    <2> QED
      BY <2>1, <2>2
  <1>8. ASSUME NEW c \in TextureContexts, NEW x \in Buffers, NEW p \in Positions(c)', frame'[x] > 0,
               ReadsAt(c, p, x, frame[x])'
        PROVE  c \in DOMAIN consumer_sync'[x] /\ consumer_sync'[x][c] >= p
    <2>1. ReadsAt(c, p, x, frame'[x])
      <3>1. PICK f : f = frame'[x]
        OBVIOUS
      <3>2. ReadsAt(c, p, x, f)'
        BY <1>8, <3>1 DEF ReadsAt
      <3>3. commands'[c][p].op = "read"
        BY <3>2 DEF ReadsAt
      <3>4. commands'[w][m].op = "write"
        BY <1>2
      <3> QED
        BY <1>3, <3>1, <3>2, <3>3, <3>4
    <2>2. x # b
      <3>1. commands[c][p].frame = frame'[x] /\ commands[c][p].op = "read" /\ p \in Positions(c)
        BY <2>1 DEF ReadsAt
      <3>2. commands[c][p].frame <= frames
        BY <1>1, <3>1 DEF CommandsKnown
      <3>3. frame'[b] = frames + 1
        BY <1>2
      <3> QED
        BY <1>2, <3>1, <3>2, <3>3
    <2>3. frame'[x] = frame[x] /\ consumer_sync'[x] = consumer_sync[x]
      BY <1>2, <2>2
    <2>4. p \in Positions(c)
      BY <2>1 DEF ReadsAt
    <2> QED
      BY <1>1, <1>8, <2>1, <2>3, <2>4 DEF SyncsBehind
  <1> QED
    BY <1>5, <1>6, <1>7, <1>8 DEF SyncsBehind, TextureContexts

\* A buffer is taken by the context that filled it, or has been sampled.
OwnOrSampled(w, b) == frame[b] > 0 => producer_sync[b].on = w \/ DOMAIN consumer_sync[b] # {}

\* No frame of the buffer is later than the new one.
LEMMA RenderIsLast ==
    ASSUME TextureInv, NEW w \in Writers, NEW b \in Buffers, NEW m \in Nat, Rendered(w, b, m), NEW g, g = frames + 1
    PROVE  QueuedLast(w, m, b, g) /\ \A d \in TextureContexts : \A r, h : DrawsAt(d, r, b, h) => h <= frame[b]
  <1>1. TextureTypeOK /\ CommandsKnown /\ Extended(w, m) /\ frames \in Nat /\ frame[b] # Deleted
    BY DEF TextureInv, Rendered, TextureTypeOK
  <1>2. m \in Positions(w)'
    BY <1>1 DEF Extended, Positions, TextureTypeOK
  <1>3. WritesAt(w, m, b, g)'
    BY <1>2 DEF Rendered, WritesAt
  <1>4. \A d \in TextureContexts : \A r, h : DrawsAt(d, r, b, h) => h <= frame[b]
    <2> SUFFICES ASSUME NEW d \in TextureContexts, NEW r, NEW h, DrawsAt(d, r, b, h)
                 PROVE  h <= frame[b]
      OBVIOUS
    <2>1. r \in Positions(d) /\ commands[d][r].op # "wait" /\ commands[d][r].buffer = b /\ commands[d][r].frame = h
      BY <1>1, DrawTypes
    <2> QED
      BY <1>1, <2>1 DEF CommandsKnown
  <1>5. \A v \in Writers : \A q, h : WritesAt(v, q, b, h) => h <= g
    <2> SUFFICES ASSUME NEW v \in Writers, NEW q, NEW h, WritesAt(v, q, b, h)
                 PROVE  h <= g
      OBVIOUS
    <2>1. v \in TextureContexts /\ DrawsAt(v, q, b, h)
      BY DEF DrawsAt, TextureContexts
    <2>2. /\ q \in Positions(v) /\ commands[v][q].op # "wait" /\ commands[v][q].frame = h /\ h \in Nat
      BY <1>1, <2>1, DrawTypes
    <2>3. h <= frames
      BY <1>1, <2>1, <2>2 DEF CommandsKnown
    <2> QED
      BY <1>1, <2>2, <2>3
  <1> QED
    BY <1>1, <1>3, <1>4, <1>5 DEF QueuedLast, DrawsAt

\* The new frame comes after the one before it, and its readers.
LEMMA RenderComesBehind ==
    ASSUME TextureInv, NEW w \in Writers, NEW b \in Buffers, NEW m \in Nat, Rendered(w, b, m), OwnOrSampled(w, b),
           NEW g, g = frames + 1
    PROVE  WriteComesBehind(w, m, b, g)'
  <1>1. TextureTypeOK /\ CommandsKnown /\ SyncsBehind /\ Extended(w, m)
    BY DEF TextureInv, Rendered
  <1>2. /\ done' = done /\ frame[b] # Deleted /\ frame[b] \in Nat \cup {Deleted} /\ frames \in Nat /\ g \in Nat
        /\ \A d, u : frame[b] > 0 /\ d \in DOMAIN consumer_sync[b] /\ u = consumer_sync[b][d] => Behind(w, m, d, u)'
    BY <1>1 DEF Rendered, TextureTypeOK, Extended
  <1>3. /\ \A d, e, p, u : d \in TextureContexts /\ Behind(d, p, e, u) => Behind(d, p, e, u)'
        /\ \A v, p, x, f : WritesAt(v, p, x, f) => WritesAt(v, p, x, f)'
        /\ \A d, p, x, f : d \in TextureContexts /\ ReadsAt(d, p, x, f) => ReadsAt(d, p, x, f)'
        /\ \A d, p, x, f : d \in TextureContexts /\ ReadsAt(d, p, x, f)' => ReadsAt(d, p, x, f) \/ (d = w /\ p = m)
        /\ \A d, p, x, f : d \in TextureContexts /\ DrawsAt(d, p, x, f)' => DrawsAt(d, p, x, f) \/ (d = w /\ p = m)
    BY <1>1, ExtensionKeeps
  <1>4. \A d \in TextureContexts : \A r, h : DrawsAt(d, r, b, h)' => h = g \/ (DrawsAt(d, r, b, h) /\ h <= frame[b])
    <2>1. \A r, h : DrawsAt(w, m, b, h)' => h = g
      BY DEF DrawsAt, WritesAt, ReadsAt, Rendered
    <2> QED
      BY <1>3, <2>1, RenderIsLast
  <1>5. CASE frame[b] = 0
    <2>1. \A d \in TextureContexts : \A r, h : DrawsAt(d, r, b, h) => h \in Nat \ {0}
      BY <1>1, DrawTypes
    <2>2. \A d \in TextureContexts : \A r, h : DrawsAt(d, r, b, h)' => h >= g
      BY <1>2, <1>4, <1>5, <2>1
    <2> QED
      BY <2>2 DEF WriteComesBehind, TextureContexts
  <1>6. CASE frame[b] > 0
    <2>1. PICK v, p, f : v = producer_sync[b].on /\ p = producer_sync[b].upTo /\ f = frame[b]
      OBVIOUS
    <2>2. v \in Writers /\ WritesAt(v, p, b, f) /\ p \in Nat /\ p \in Positions(v)
      BY <1>1, <1>6, <2>1 DEF SyncsBehind, WritesAt
    <2>3. f \in Nat \ {0} /\ f < g
      BY <1>1, <1>2, <1>6, <2>1 DEF SyncsBehind, Deleted
    <2>4. \A d \in TextureContexts : \A r, h : DrawsAt(d, r, b, h)' => h <= f \/ h >= g
      BY <1>2, <1>4, <2>1
    <2>5. ASSUME NEW d \in TextureContexts, NEW r, ReadsAt(d, r, b, f)' PROVE Behind(w, m, d, r)'
      <3>1. ReadsAt(d, r, b, f)
        <4>1. d = w /\ r = m => FALSE
          BY <2>5 DEF ReadsAt, Rendered
        <4> QED
          BY <1>3, <2>5, <4>1
      <3>2. r \in Positions(d) /\ r \in Int
        BY <3>1 DEF ReadsAt, Positions
      <3>3. d \in DOMAIN consumer_sync[b] /\ consumer_sync[b][d] >= r
        BY <1>1, <1>6, <2>1, <3>1, <3>2 DEF SyncsBehind
      <3>4. consumer_sync[b][d] \in Nat
        BY <1>1, <3>3 DEF SyncsBehind
      <3>5. PICK u : u = consumer_sync[b][d] /\ u \in Int /\ r <= u
        BY <3>2, <3>3, <3>4
      <3>6. Behind(w, m, d, u)'
        BY <1>2, <1>6, <3>3, <3>5
      <3>7. PICK k \in Positions(w)' : /\ done'[w] < k /\ k < m /\ commands'[w][k].op = "wait"
                                       /\ commands'[w][k].on = d /\ commands'[w][k].upTo >= u
        BY <3>6 DEF Behind
      <3>8. commands'[w][k].upTo \in Int
        <4>1. commands'[w][k] \in Commands /\ w \in TextureContexts
          BY <1>1, <3>7 DEF Extended, Positions
        <4>2. commands'[w][k].upTo \in Nat
          BY <3>7, <4>1 DEF Commands, WaitCommands, DrawCommands
        <4> QED
          BY <4>2
      <3>9. commands'[w][k].upTo >= r
        BY <3>2, <3>5, <3>7, <3>8
      <3> QED
        BY <3>7, <3>9 DEF Behind
    <2>6. (v = w /\ p < m) \/ \E d \in TextureContexts : \E r : ReadsAt(d, r, b, f)'
      <3>1. CASE v = w
        BY <1>1, <2>2, <3>1 DEF Extended, Positions, TextureTypeOK
      <3>2. CASE DOMAIN consumer_sync[b] # {}
        <4>1. PICK d \in DOMAIN consumer_sync[b] : TRUE
          BY <3>2
        <4>2. d \in TextureContexts /\ ReadsAt(d, consumer_sync[b][d], b, f)
          BY <1>1, <1>6, <2>1, <4>1 DEF SyncsBehind
        <4> QED
          BY <1>3, <4>2
      <3> QED
        BY <1>6, <2>1, <3>1, <3>2 DEF OwnOrSampled
    <2>7. WritesAt(v, p, b, f)'
      BY <1>3, <2>2
    <2>8. ComesAfter(w, m, b, g, v, p, f)'
      BY <2>3, <2>4, <2>5, <2>6, <2>7 DEF ComesAfter, TextureContexts
    <2> QED
      BY <2>2, <2>3, <2>8 DEF WriteComesBehind
  <1> QED
    BY <1>2, <1>5, <1>6 DEF Deleted

\* Produce() keeps the order of reads and writes.
LEMMA RenderKeepsOrder ==
    ASSUME TextureInv, NEW w \in Writers, NEW b \in Buffers, NEW m \in Nat, Rendered(w, b, m), OwnOrSampled(w, b)
    PROVE  ReadAfterWrite' /\ WriteAfterRead' /\ EarlierDone'
  <1>1. /\ TextureTypeOK /\ CommandsKnown /\ EarlierDone /\ ReadAfterWrite /\ WriteAfterRead /\ Extended(w, m)
        /\ w \in TextureContexts /\ frames \in Nat
    BY DEF TextureInv, Rendered, Extended, TextureTypeOK
  <1>2. PICK g \in Int : g = frames + 1
    BY <1>1
  <1>3. QueuedLast(w, m, b, g) /\ WriteComesBehind(w, m, b, g)'
    BY <1>2, RenderIsLast, RenderComesBehind
  <1>4. /\ EarlierDone'
        /\ \A d \in TextureContexts, x \in Buffers, h \in Nat \ {0} : \A p :
              ReadsAt(d, p, x, h) => ReadComesBehind(d, p, x, h)'
        /\ \A v \in Writers, x \in Buffers, h \in Nat \ {0} : \A q :
              WritesAt(v, q, x, h) => WriteComesBehind(v, q, x, h)'
    BY <1>1, <1>3, OldOrderKept
  <1>5. /\ \A v, p, x, f : WritesAt(v, p, x, f)' => WritesAt(v, p, x, f) \/ (v = w /\ p = m)
        /\ \A d, p, x, f : d \in TextureContexts /\ ReadsAt(d, p, x, f)' => ReadsAt(d, p, x, f) \/ (d = w /\ p = m)
    BY <1>1, ExtensionKeeps
  <1>6. /\ \A x, f : WritesAt(w, m, x, f)' => x = b /\ f = g
        /\ \A x, f : ~ReadsAt(w, m, x, f)'
    BY <1>2 DEF WritesAt, ReadsAt, Rendered
  <1>7. ReadAfterWrite'
    BY <1>4, <1>5, <1>6 DEF ReadAfterWrite, TextureContexts
  <1>8. WriteAfterRead'
    BY <1>3, <1>4, <1>5, <1>6 DEF WriteAfterRead
  <1> QED
    BY <1>4, <1>7, <1>8

\* GetBuffer() keeps the pool's account.
LEMMA RenderKeepsPool ==
    ASSUME TextureInv, TextureAssumption, NEW w \in Writers, NEW b \in Buffers, NEW m \in Nat,
           NEW readers \in SUBSET Readers, Rendered(w, b, m), PoolTaken(w, b, readers)
    PROVE  TextureTypeOK' /\ PoolInv' /\ NoFrameTorn'
  <1>1. TextureTypeOK /\ PoolInv /\ PoolWithinKeepCount /\ Extended(w, m) /\ NoFrameTorn /\ w \in TextureContexts
        /\ KeepCount \in Nat
    BY DEF TextureInv, Rendered, PoolInv, Extended, TextureAssumption
  <1>2. /\ frame' = [frame EXCEPT ![b] = frames + 1] /\ frames' = frames + 1 /\ frames \in Nat
        /\ in_use' = in_use + 1 /\ in_use \in Nat /\ holders' = [holders EXCEPT ![b] = readers \cup {w}]
        /\ content' = content /\ torn' = torn /\ done' = done
        /\ available \in Seq(Buffers) /\ frame \in [Buffers -> Nat \cup {Deleted}]
        /\ holders \in [Buffers -> SUBSET TextureContexts]
    BY <1>1 DEF Rendered, PoolTaken, TextureTypeOK, Extended
  <1>3. readers \cup {w} \subseteq TextureContexts /\ readers \cup {w} # {}
    BY DEF TextureContexts
  <1>4. /\ available' \in Seq(Buffers) /\ holders[b] = {}
        /\ Len(available') <= Len(available)
        /\ available' # <<>> => available # <<>> /\ Len(available') = Len(available) - 1
        /\ \A i \in 1 .. Len(available') : i \in 1 .. Len(available) /\ available'[i] = available[i]
        /\ \A i \in 1 .. Len(available') : available'[i] # b
    <2>1. CASE available = <<>> /\ frame[b] = 0 /\ available' = <<>>
      <3>1. holders[b] = {}
        BY <1>1, <2>1 DEF PoolInv
      <3> QED
        BY <2>1, <3>1
    <2>2. CASE available # <<>> /\ b = Last(available) /\ available' = Front(available)
      <3>1. Len(available) \in Nat \ {0} /\ b = available[Len(available)]
        BY <1>2, <2>2 DEF Last
      <3>2. /\ available' \in Seq(Buffers) /\ Len(available') = Len(available) - 1
            /\ \A i \in 1 .. Len(available) - 1 : available'[i] = available[i]
        <4>1. available' = SubSeq(available, 1, Len(available) - 1)
          BY <2>2 DEF Front
        <4>2. Len(available) - 1 \in Nat /\ Len(available) - 1 <= Len(available)
          BY <3>1
        <4> QED
          BY <1>2, <4>1, <4>2, BeginningOf
      <3>3. holders[b] = {}
        BY <1>1, <3>1 DEF PoolWithinKeepCount, InPool
      <3>4. \A i \in 1 .. Len(available) - 1 : available[i] # b
        BY <1>1, <3>1 DEF PoolInv
      <3> QED
        BY <2>2, <3>1, <3>2, <3>3, <3>4
    <2> QED
      BY <2>1, <2>2 DEF PoolTaken
  <1>5. TextureTypeOK'
    <2>1. in_use' \in Nat /\ frames' \in Nat /\ frame' \in [Buffers -> Nat \cup {Deleted}]
          /\ holders' \in [Buffers -> SUBSET TextureContexts]
      BY <1>2, <1>3
    <2>2. DOMAIN producer_sync' = Buffers /\ DOMAIN consumer_sync' = Buffers
      BY <1>1 DEF Rendered, TextureTypeOK
    <2>3. TextureContexts' = TextureContexts /\ Commands' = Commands
      OBVIOUS
    <2> QED
      BY <1>1, <1>2, <1>4, <2>1, <2>2, <2>3 DEF TextureTypeOK, Extended
  <1> DEFINE held == {x \in Buffers : holders[x] # {}}
  <1>6. held' = held \cup {b} /\ b \notin held /\ IsFiniteSet(held) /\ in_use = Cardinality(held)
    BY <1>1, <1>2, <1>3, <1>4 DEF PoolInv, PoolWithinKeepCount
  <1>7. IsFiniteSet(held') /\ in_use' = Cardinality(held')
    <2> HIDE DEF held
    <2>1. IsFiniteSet(held \cup {b}) /\ Cardinality(held \cup {b}) = Cardinality(held) + 1
      BY <1>6, FS_AddElement
    <2> QED
      BY <1>2, <1>6, <2>1
  <1>8. InPool' \subseteq InPool /\ b \notin InPool'
    BY <1>4 DEF InPool
  <1>9. PoolWithinKeepCount'
    <2>1. available' # <<>> => Len(available') + in_use' <= KeepCount
      BY <1>1, <1>2, <1>4 DEF PoolWithinKeepCount
    <2>2. \A x \in InPool' : holders'[x] = {}
      BY <1>1, <1>2, <1>8 DEF PoolWithinKeepCount
    <2> QED
      BY <1>7, <2>1, <2>2 DEF PoolWithinKeepCount
  <1>10. \A i, j \in 1 .. Len(available') : available'[i] = available'[j] => i = j
    BY <1>1, <1>4 DEF PoolInv
  <1>11. \A x \in Buffers : holders'[x] # {} \/ x \in InPool' => frame'[x] > 0
    BY <1>1, <1>2, <1>8 DEF PoolInv
  <1>12. PoolInv'
    BY <1>7, <1>9, <1>10, <1>11 DEF PoolInv
  <1>13. NoFrameTorn'
    BY <1>1, <1>2 DEF NoFrameTorn
  <1> QED
    BY <1>5, <1>12, <1>13

\* No context takes over a buffer of another one that was never sampled.
TakesSampled ==
    \A w \in Writers, readers \in SUBSET Readers :
        Produce(w, readers) /\ available # <<>> =>
            producer_sync[Last(available)].on = w \/ DOMAIN consumer_sync[Last(available)] # {}

\* Produce() keeps the invariant.
LEMMA ProduceKeepsInv ==
    ASSUME TextureInv, TextureAssumption, TakesSampled, NEW w \in Writers, NEW readers \in SUBSET Readers,
           Produce(w, readers)
    PROVE  TextureInv'
  <1>1. PICK b \in Buffers, m \in Nat : Rendered(w, b, m) /\ PoolTaken(w, b, readers)
    BY ProduceRenders DEF TextureInv
  <1>2. OwnOrSampled(w, b)
    BY <1>1 DEF PoolTaken, TakesSampled, OwnOrSampled
  <1> QED
    BY <1>1, <1>2, RenderKeepsCommands, RenderKeepsSyncs, RenderKeepsOrder, RenderKeepsPool DEF TextureInv
-----------------------------------------------------------------------------
\* What Read() does: c samples b behind the write of its frame.
Sampled(c, b, m) ==
    /\ c \in TextureContexts /\ b \in Buffers /\ frame[b] > 0
    /\ Extended(c, m) /\ commands'[c][m] = [op |-> "read", buffer |-> b, frame |-> frame[b]]
    /\ \A d, u : d = producer_sync[b].on /\ u = producer_sync[b].upTo => Behind(c, m, d, u)'
    /\ consumer_sync' = [consumer_sync EXCEPT ![b] =
          [d \in DOMAIN @ \cup {c} |-> IF d = c THEN m ELSE @[d]]]
    /\ UNCHANGED <<content, torn, available, in_use, frame, holders, producer_sync, frames>>

\* GetReadView() queues a wait for the producer before the read.
LEMMA ReadSamples ==
    ASSUME TextureInv, NEW c \in Readers, NEW b \in Buffers, Read(c, b)
    PROVE  \E m \in Nat : Sampled(c, b, m)
  <1>1. /\ c \in TextureContexts /\ frame[b] > 0 /\ done' = done
        /\ TextureTypeOK /\ CommandsKnown /\ SyncsBehind /\ PoolInv
    BY DEF Read, TextureContexts, TextureInv, PoolInv, gpuVars
  <1>2. PICK w, u : /\ w = producer_sync[b].on /\ u = producer_sync[b].upTo
                    /\ w \in Writers /\ u \in Nat \ {0} /\ producer_sync[b] # NoSync
    BY <1>1 DEF SyncsBehind, NoSync
  <1>3. PICK n : n = Len(commands[c]) /\ n \in Nat /\ done[c] <= n /\ done[c] \in Nat
    <2>1. commands[c] \in Seq(Commands) /\ done[c] \in Nat
      BY <1>1 DEF TextureTypeOK
    <2>2. done[c] <= Len(commands[c])
      BY <1>1 DEF CommandsKnown
    <2>3. Len(commands[c]) \in Nat
      BY <2>1
    <2> QED
      BY <2>1, <2>2, <2>3
  <1> DEFINE waits == <<[op |-> "wait", on |-> w, upTo |-> u]>>
             last == [op |-> "read", buffer |-> b, frame |-> frame[b]]
             m == n + 2
  <1>4. ProducerWait(c, b) = waits
    BY <1>2 DEF ProducerWait, Wait
  <1>5. commands' = [commands EXCEPT ![c] = @ \o waits \o <<last>>]
    BY <1>4 DEF Read
  <1>6. waits \in Seq(WaitCommands) /\ Len(waits) = 1 /\ waits[1] = [op |-> "wait", on |-> w, upTo |-> u]
    <2>1. [op |-> "wait", on |-> w, upTo |-> u] \in WaitCommands
      BY <1>2 DEF WaitCommands, TextureContexts
    <2> QED
      BY <2>1
  <1>7. last \in Commands
    <2>1. frame[b] \in Nat \ {0}
      BY <1>1 DEF TextureTypeOK, Deleted
    <2> QED
      BY <2>1 DEF Commands, DrawCommands
  <1> HIDE DEF waits, last
  <1>8. Extended(c, m) /\ commands'[c][m] = last /\ commands'[c][n + 1] = waits[1]
    <2>1. LET k == Len(commands[c])
              l == k + Len(waits) + 1
          IN  /\ Extended(c, l) /\ commands'[c][l] = last
              /\ \A i \in 1 .. Len(waits) : commands'[c][k + i] = waits[i]
      BY <1>1, <1>5, <1>6, <1>7, ExtendedBy
    <2>2. Len(commands[c]) + Len(waits) + 1 = m
      BY <1>3, <1>6
    <2>3. 1 \in 1 .. Len(waits)
      BY <1>6
    <2> QED
      BY <1>3, <2>1, <2>2, <2>3
  <1>9. Len(commands'[c]) = m /\ m \in Nat
    BY <1>3, <1>8 DEF Extended
  <1>10. ASSUME NEW d, NEW v, d = w, v = u PROVE Behind(c, m, d, v)'
    <2>1. commands'[c][n + 1] = [op |-> "wait", on |-> d, upTo |-> v] /\ v \in Nat
      BY <1>2, <1>6, <1>8, <1>10
    <2>2. /\ commands'[c][n + 1].op = "wait" /\ commands'[c][n + 1].on = d
          /\ commands'[c][n + 1].upTo >= v
      BY <2>1
    <2>3. n + 1 \in 1 .. m /\ n + 1 < m /\ done'[c] < n + 1
      BY <1>1, <1>3
    <2> QED
      BY <1>9, <2>2, <2>3 DEF Behind, Positions
  <1>11. consumer_sync' = [consumer_sync EXCEPT ![b] =
            [d \in DOMAIN @ \cup {c} |-> IF d = c THEN m ELSE @[d]]]
    BY <1>9 DEF Read
  <1>12. UNCHANGED <<content, torn, available, in_use, frame, holders, producer_sync, frames>>
    BY DEF Read, gpuVars
  <1> HIDE DEF m
  <1> QED
    BY <1>1, <1>2, <1>8, <1>9, <1>10, <1>11, <1>12 DEF Sampled, last

\* DidRead() puts a sync point behind the read.
LEMMA SampleKeepsSyncs ==
    ASSUME TextureInv, NEW c, NEW b, NEW m \in Nat, Sampled(c, b, m)
    PROVE  SyncsBehind'
  <1>1. /\ TextureTypeOK /\ CommandsKnown /\ SyncsBehind /\ Extended(c, m)
        /\ c \in TextureContexts /\ b \in Buffers /\ frame[b] > 0
        /\ frame' = frame /\ frames' = frames /\ producer_sync' = producer_sync
    BY DEF TextureInv, Sampled
  <1>2. /\ \A v, p, x, f : WritesAt(v, p, x, f) => WritesAt(v, p, x, f)'
        /\ \A d, p, x, f : d \in TextureContexts /\ ReadsAt(d, p, x, f) => ReadsAt(d, p, x, f)'
        /\ \A d, p, x, f : d \in TextureContexts /\ ReadsAt(d, p, x, f)' => ReadsAt(d, p, x, f) \/ (d = c /\ p = m)
    BY <1>1, ExtensionKeeps
  <1>3. /\ consumer_sync'[b] = [d \in DOMAIN consumer_sync[b] \cup {c} |-> IF d = c THEN m ELSE consumer_sync[b][d]]
        /\ \A x \in Buffers : x # b => consumer_sync'[x] = consumer_sync[x]
    BY <1>1 DEF Sampled, TextureTypeOK
  <1>4. ASSUME NEW x \in Buffers, frame'[x] > 0
        PROVE  /\ producer_sync'[x] \in [on : Writers, upTo : Nat \ {0}]
               /\ WritesAt(producer_sync[x].on, producer_sync[x].upTo, x, frame[x])'
               /\ \A d \in DOMAIN consumer_sync'[x] : ReadsAt(d, consumer_sync[x][d], x, frame[x])'
    <2>1. producer_sync[x] \in [on : Writers, upTo : Nat \ {0}]
          /\ WritesAt(producer_sync[x].on, producer_sync[x].upTo, x, frame[x])
      BY <1>1, <1>4 DEF SyncsBehind
    <2>2. PICK v, p, f : v = producer_sync[x].on /\ p = producer_sync[x].upTo /\ f = frame[x]
      OBVIOUS
    <2>3. WritesAt(v, p, x, f)'
      BY <1>2, <2>1, <2>2
    <2>4. producer_sync'[x].on = v /\ producer_sync'[x].upTo = p /\ frame'[x] = f
      BY <1>1, <2>2
    <2>5. WritesAt(producer_sync[x].on, producer_sync[x].upTo, x, frame[x])'
      BY <2>3, <2>4 DEF WritesAt
    <2>6. ASSUME NEW d \in DOMAIN consumer_sync'[x] PROVE ReadsAt(d, consumer_sync[x][d], x, frame[x])'
      <3>1. CASE x = b /\ d = c
        <4>1. consumer_sync'[x][d] = m /\ m \in Positions(c)'
          BY <1>1, <1>3, <2>6, <3>1 DEF Extended, Positions, TextureTypeOK
        <4> QED
          BY <1>1, <3>1, <4>1 DEF ReadsAt, Sampled
      <3>2. CASE ~(x = b /\ d = c)
        <4>1. d \in DOMAIN consumer_sync[x] /\ consumer_sync'[x][d] = consumer_sync[x][d]
          BY <1>3, <2>6, <3>2
        <4>2. PICK r : r = consumer_sync[x][d]
          OBVIOUS
        <4>3. ReadsAt(d, r, x, f) /\ d \in TextureContexts
          BY <1>1, <1>4, <2>2, <4>1, <4>2 DEF SyncsBehind
        <4>4. ReadsAt(d, r, x, f)'
          BY <1>2, <4>3
        <4>5. consumer_sync'[x][d] = r
          BY <4>1, <4>2
        <4> QED
          BY <2>4, <4>4, <4>5 DEF ReadsAt
      <3> QED
        BY <3>1, <3>2
    <2> QED
      BY <1>1, <2>1, <2>5, <2>6
  <1>5. ASSUME NEW x \in Buffers
        PROVE  /\ IsFiniteSet(DOMAIN consumer_sync'[x]) /\ DOMAIN consumer_sync'[x] \subseteq TextureContexts
               /\ consumer_sync'[x] \in [DOMAIN consumer_sync'[x] -> Nat]
    <2> DEFINE S == DOMAIN consumer_sync[x]
    <2>1. IsFiniteSet(S) /\ S \subseteq TextureContexts /\ consumer_sync[x] \in [S -> Nat]
      BY <1>1 DEF SyncsBehind
    <2>2. CASE x = b
      <3>1. DOMAIN consumer_sync'[x] = S \cup {c} /\ consumer_sync'[x] \in [S \cup {c} -> Nat]
        BY <1>3, <2>1, <2>2
      <3>2. IsFiniteSet(S \cup {c})
        BY <2>1, FS_AddElement
      <3> QED
        BY <1>1, <2>1, <3>1, <3>2
    <2>3. CASE x # b
      BY <1>3, <2>1, <2>3
    <2> QED
      BY <2>2, <2>3
  <1>6. ASSUME NEW d \in TextureContexts, NEW x \in Buffers, NEW p \in Positions(d)', frame'[x] > 0,
               ReadsAt(d, p, x, frame[x])'
        PROVE  d \in DOMAIN consumer_sync'[x] /\ consumer_sync'[x][d] >= p
    <2>1. PICK f : f = frame[x] /\ frame'[x] = f
      BY <1>1
    <2>2. ReadsAt(d, p, x, f)'
      BY <1>6, <2>1 DEF ReadsAt
    <2>3. p \in Int /\ (d = c => p <= m)
      BY <1>1 DEF Positions, Extended
    <2>4. CASE d = c /\ x = b
      BY <1>3, <2>3, <2>4
    <2>5. CASE d # c \/ x # b
      <3>1. ReadsAt(d, p, x, f)
        <4>1. CASE d # c
          BY <1>2, <2>2, <4>1
        <4>2. CASE d = c /\ p = m /\ x # b
          <5>1. commands'[c][m].buffer = b
            BY DEF Sampled
          <5>2. commands'[d][p].buffer = x
            BY <2>2 DEF ReadsAt
          <5> QED
            BY <4>2, <5>1, <5>2
        <4> QED
          BY <1>2, <2>2, <2>5, <4>1, <4>2
      <3>2. p \in Positions(d)
        BY <3>1 DEF ReadsAt
      <3>3. d \in DOMAIN consumer_sync[x] /\ consumer_sync[x][d] >= p
        BY <1>1, <1>6, <2>1, <3>1, <3>2 DEF SyncsBehind
      <3> QED
        BY <1>1, <1>3, <2>5, <3>3
    <2> QED
      BY <2>4, <2>5
  <1>7. \A x \in Buffers : frame'[x] <= frames'
    BY <1>1 DEF SyncsBehind
  <1> QED
    BY <1>4, <1>5, <1>6, <1>7 DEF SyncsBehind, TextureContexts

\* Read() queues no write and leaves the pool alone.
LEMMA SampleKeepsCommands ==
    ASSUME TextureInv, NEW c, NEW b, NEW m \in Nat, Sampled(c, b, m)
    PROVE  TextureTypeOK' /\ CommandsKnown' /\ FramesUnique' /\ ContentLatest' /\ PoolInv' /\ NoFrameTorn'
  <1>1. /\ TextureTypeOK /\ CommandsKnown /\ SyncsBehind /\ Extended(c, m) /\ FramesUnique /\ ContentLatest
        /\ c \in TextureContexts /\ b \in Buffers /\ frame[b] > 0 /\ done' = done
        /\ UNCHANGED <<content, torn, available, in_use, frame, holders, producer_sync, frames>>
        /\ PoolInv /\ NoFrameTorn
    BY DEF TextureInv, Sampled, Extended
  <1>2. /\ commands'[c][m].op = "read" /\ commands'[c][m].buffer = b /\ commands'[c][m].frame = frame[b]
    BY DEF Sampled
  <1>3. /\ \A d \in TextureContexts : \A p \in Positions(d) : commands'[d][p] = commands[d][p]
        /\ \A d \in TextureContexts : \A p \in Positions(d)' :
              commands'[d][p].op # "wait" => p \in Positions(d) \/ (d = c /\ p = m)
    BY <1>1, ExtensionKeeps
  <1>4. TextureTypeOK'
    <2>1. DOMAIN consumer_sync' = Buffers
      BY <1>1 DEF Sampled, TextureTypeOK
    <2>2. TextureContexts' = TextureContexts /\ Commands' = Commands
      OBVIOUS
    <2> QED
      BY <1>1, <2>1, <2>2 DEF TextureTypeOK, Extended
  <1>5. CommandsKnown'
    <2>1. \A d \in TextureContexts : done'[d] <= Len(commands'[d])
      <3> TAKE d \in TextureContexts
      <3>1. done[d] \in Nat /\ Len(commands[d]) \in Nat /\ Len(commands'[d]) \in Nat /\ done[d] <= Len(commands[d])
        BY <1>1 DEF TextureTypeOK, CommandsKnown, Extended
      <3>2. Len(commands[d]) <= Len(commands'[d])
        BY <1>1, <3>1 DEF Extended
      <3> QED
        BY <1>1, <3>1, <3>2
    <2>2. ASSUME NEW d \in TextureContexts, NEW p \in Positions(d)'
          PROVE  /\ commands'[d][p].op = "write" => d \in Writers
                 /\ commands'[d][p].op # "wait" =>
                       /\ commands'[d][p].frame <= frames'
                       /\ \/ frame'[commands'[d][p].buffer] = Deleted
                          \/ commands'[d][p].frame <= frame'[commands'[d][p].buffer]
      <3>1. CASE d = c /\ p = m
        <4>1. frame[b] \in Nat /\ frame[b] <= frames
          BY <1>1 DEF TextureTypeOK, SyncsBehind, Deleted
        <4> QED
          BY <1>1, <1>2, <3>1, <4>1
      <3>2. CASE p \in Positions(d)
        BY <1>1, <1>3, <3>2 DEF CommandsKnown
      <3> QED
        BY <1>3, <3>1, <3>2, <2>2
    <2> QED
      BY <2>1, <2>2 DEF CommandsKnown, Positions
  <1>6. FramesUnique'
    <2>1. \A v \in Writers : \A p \in Positions(v)' : commands'[v][p].op = "write" =>
             p \in Positions(v) /\ commands'[v][p] = commands[v][p]
      BY <1>2, <1>3 DEF TextureContexts
    <2> QED
      BY <1>1, <2>1 DEF FramesUnique
  <1>7. ContentLatest'
    BY <1>1, ContentKept
  <1>8. PoolInv' /\ NoFrameTorn'
    BY <1>1 DEF PoolInv, PoolWithinKeepCount, InPool, NoFrameTorn
  <1> QED
    BY <1>4, <1>5, <1>6, <1>7, <1>8

\* Read() keeps the order of reads and writes.
LEMMA SampleKeepsOrder ==
    ASSUME TextureInv, NEW c, NEW b, NEW m \in Nat, Sampled(c, b, m)
    PROVE  ReadAfterWrite' /\ WriteAfterRead' /\ EarlierDone'
  <1>1. /\ TextureTypeOK /\ CommandsKnown /\ SyncsBehind /\ Extended(c, m)
        /\ EarlierDone /\ ReadAfterWrite /\ WriteAfterRead
        /\ c \in TextureContexts /\ b \in Buffers /\ frame[b] > 0 /\ done' = done
    BY DEF TextureInv, Sampled, Extended
  <1>0. frame[b] \in Nat \ {0} /\ frame[b] # Deleted
    BY <1>1 DEF TextureTypeOK, Deleted
  <1>2. PICK f \in Int : f = frame[b] /\ f \in Nat \ {0} /\ f # Deleted
    BY <1>0
  <1>3. ReadsAt(c, m, b, f)'
    <2>1. m \in Positions(c)'
      BY <1>1 DEF Extended, Positions, TextureTypeOK
    <2> QED
      BY <1>2, <2>1 DEF ReadsAt, Sampled
  <1>4. QueuedLast(c, m, b, f)
    <2> SUFFICES ASSUME NEW v \in Writers, NEW q, NEW h, WritesAt(v, q, b, h)
                 PROVE  h <= f
      BY <1>1, <1>3 DEF QueuedLast, DrawsAt
    <2>1. v \in TextureContexts /\ DrawsAt(v, q, b, h)
      BY DEF DrawsAt, TextureContexts
    <2>2. q \in Positions(v) /\ commands[v][q].op # "wait" /\ commands[v][q].buffer = b /\ commands[v][q].frame = h
      BY <1>1, <2>1, DrawTypes
    <2> QED
      BY <1>1, <1>2, <2>1, <2>2 DEF CommandsKnown
  <1>5. /\ EarlierDone'
        /\ \A d \in TextureContexts, x \in Buffers, h \in Nat \ {0} : \A p :
              ReadsAt(d, p, x, h) => ReadComesBehind(d, p, x, h)'
        /\ \A v \in Writers, x \in Buffers, h \in Nat \ {0} : \A q :
              WritesAt(v, q, x, h) => WriteComesBehind(v, q, x, h)'
    BY <1>1, <1>4, OldOrderKept
  <1>6. /\ \A v, p, x, h : WritesAt(v, p, x, h) => WritesAt(v, p, x, h)'
        /\ \A v, p, x, h : WritesAt(v, p, x, h)' => WritesAt(v, p, x, h) \/ (v = c /\ p = m)
        /\ \A d, p, x, h : d \in TextureContexts /\ ReadsAt(d, p, x, h)' => ReadsAt(d, p, x, h) \/ (d = c /\ p = m)
    BY <1>1, ExtensionKeeps
  <1>7. /\ \A x, h : ReadsAt(c, m, x, h)' => x = b /\ h = f
        /\ \A x, h : ~WritesAt(c, m, x, h)'
    BY <1>2 DEF WritesAt, ReadsAt, Sampled
  <1>8. ReadComesBehind(c, m, b, f)'
    <2>1. PICK v, q : /\ v = producer_sync[b].on /\ q = producer_sync[b].upTo
                      /\ v \in Writers /\ WritesAt(v, q, b, f)
      BY <1>1, <1>2 DEF SyncsBehind
    <2>2. Behind(c, m, v, q)' /\ WritesAt(v, q, b, f)' /\ q \in Positions(v)'
      BY <1>6, <2>1 DEF Sampled, WritesAt
    <2> QED
      BY <2>1, <2>2 DEF ReadComesBehind
  <1>9. ReadAfterWrite'
    BY <1>5, <1>6, <1>7, <1>8 DEF ReadAfterWrite, TextureContexts
  <1>10. WriteAfterRead'
    BY <1>5, <1>6, <1>7 DEF WriteAfterRead
  <1> QED
    BY <1>5, <1>9, <1>10

\* Read() keeps the invariant.
LEMMA ReadKeepsInv ==
    ASSUME TextureInv, NEW c \in Readers, NEW b \in Buffers, Read(c, b)
    PROVE  TextureInv'
  <1>1. PICK m \in Nat : Sampled(c, b, m)
    BY ReadSamples
  <1> QED
    BY <1>1, SampleKeepsSyncs, SampleKeepsCommands, SampleKeepsOrder DEF TextureInv
-----------------------------------------------------------------------------
\* What Drop() does: b has come back to the pool, which keeps the first of it.
Returned(b, all, kept) ==
    /\ all = Append(available, b) /\ kept \in Nat /\ kept <= Len(all) /\ kept <= Keep(in_use - 1)
    /\ in_use' = in_use - 1 /\ available' = SubSeq(all, 1, kept)
    /\ frame' = [x \in Buffers |-> IF x \in {all[i] : i \in kept + 1 .. Len(all)} THEN Deleted ELSE frame[x]]

\* Only what was in no one's hands is deleted.
TrimmedOnly == /\ frame' \in [Buffers -> Nat \cup {Deleted}]
               /\ \A x \in Buffers : frame'[x] = frame[x] \/ frame'[x] = Deleted

\* The last holder returns the buffer.
LEMMA DropReturns ==
    ASSUME TextureTypeOK, PoolInv, TextureAssumption, NEW c \in TextureContexts, NEW b \in Buffers,
           Drop(c, b), holders[b] = {c}
    PROVE  \E all, kept : Returned(b, all, kept)
  <1> DEFINE all == Append(available, b)
             kept == IF Len(all) > Keep(in_use - 1) THEN Keep(in_use - 1) ELSE Len(all)
  <1>1. /\ in_use' = in_use - 1 /\ available' = SubSeq(all, 1, kept)
        /\ frame' = [x \in Buffers |-> IF x \in {all[i] : i \in kept + 1 .. Len(all)} THEN Deleted ELSE frame[x]]
    BY DEF Drop
  <1>2. Len(all) \in Nat
    BY DEF TextureTypeOK
  <1>3. Keep(in_use - 1) \in Nat
    BY DEF Keep, TextureTypeOK, TextureAssumption
  <1>4. kept \in Nat /\ kept <= Len(all) /\ kept <= Keep(in_use - 1)
    BY <1>2, <1>3
  <1> QED
    BY <1>1, <1>4 DEF Returned

\* Return() and TrimAvailable() keep the pool's account.
LEMMA ReturnKeepsPool ==
    ASSUME TextureTypeOK, PoolInv, TextureAssumption, NEW c \in TextureContexts, NEW b \in Buffers,
           Drop(c, b), holders[b] = {c}, NEW all, NEW kept, Returned(b, all, kept)
    PROVE  PoolInv' /\ available' \in Seq(Buffers) /\ in_use' \in Nat /\ TrimmedOnly
  <1>1. /\ holders' = [holders EXCEPT ![b] = {}] /\ holders \in [Buffers -> SUBSET TextureContexts]
        /\ available \in Seq(Buffers) /\ in_use \in Nat /\ KeepCount \in Nat
        /\ frame \in [Buffers -> Nat \cup {Deleted}] /\ PoolWithinKeepCount
    BY DEF Drop, TextureTypeOK, TextureAssumption, PoolInv
  <1> DEFINE held == {x \in Buffers : holders[x] # {}}
  <1>2. held' = held \ {b} /\ b \in held /\ IsFiniteSet(held) /\ in_use = Cardinality(held)
    BY <1>1 DEF PoolInv, PoolWithinKeepCount
  <1>3. IsFiniteSet(held') /\ Cardinality(held') = in_use - 1 /\ in_use - 1 \in Nat /\ in_use' = in_use - 1
    <2> HIDE DEF held
    <2>1. IsFiniteSet(held \ {b}) /\ Cardinality(held \ {b}) = Cardinality(held) - 1
      BY <1>2, FS_RemoveElement
    <2>2. Cardinality(held \ {b}) \in Nat
      BY <2>1, FS_CardinalityType
    <2> QED
      BY <1>2, <2>1, <2>2 DEF Returned
  <1>4. /\ all \in Seq(Buffers) /\ Len(all) = Len(available) + 1 /\ all[Len(all)] = b
        /\ \A i \in 1 .. Len(available) : all[i] = available[i] /\ all[i] # b
    <2>1. /\ all = Append(available, b) /\ Len(available) \in Nat
      BY <1>1 DEF Returned
    <2>2. /\ all \in Seq(Buffers) /\ Len(all) = Len(available) + 1 /\ all[Len(all)] = b
          /\ \A i \in 1 .. Len(available) : all[i] = available[i]
      BY <1>1, <2>1
    <2>3. \A i \in 1 .. Len(available) : available[i] # b
      BY <1>1 DEF PoolWithinKeepCount, InPool
    <2> QED
      BY <2>2, <2>3
  <1>5. \A i, j \in 1 .. Len(all) : all[i] = all[j] => i = j
    <2>1. Len(available) \in Nat
      BY <1>1
    <2>2. \A i \in 1 .. Len(all) : i \in 1 .. Len(available) \/ i = Len(all)
      BY <1>4, <2>1
    <2> QED
      BY <1>4, <2>2 DEF PoolInv
  <1>6. kept \in Nat /\ kept <= Len(all) /\ kept <= Keep(in_use - 1) /\ available' = SubSeq(all, 1, kept)
    BY DEF Returned
  <1>7. /\ available' \in Seq(Buffers) /\ Len(available') = kept
        /\ \A i \in 1 .. kept : available'[i] = all[i] /\ i \in 1 .. Len(all)
    <2>1. \A i \in 1 .. kept : i \in 1 .. Len(all)
      BY <1>4, <1>6
    <2> QED
      BY <1>4, <1>6, <2>1, BeginningOf
  <1> DEFINE trimmed == {all[i] : i \in kept + 1 .. Len(all)}
  <1>8. \A x \in Buffers : frame'[x] = IF x \in trimmed THEN Deleted ELSE frame[x]
    BY DEF Returned
  <1>9. TrimmedOnly
    <2>1. frame' \in [Buffers -> Nat \cup {Deleted}]
      BY <1>1 DEF Returned
    <2> QED
      BY <1>8, <2>1 DEF TrimmedOnly
  <1>10. \A x \in InPool' : x \in Buffers /\ x \notin trimmed /\ (x = b \/ x \in InPool)
    <2> SUFFICES ASSUME NEW i \in 1 .. kept PROVE all[i] \in Buffers /\ all[i] \notin trimmed /\ (all[i] = b \/ all[i] \in InPool)
      BY <1>7 DEF InPool
    <2>1. i \in 1 .. Len(all) /\ all[i] \in Buffers /\ Len(available) \in Nat
      BY <1>1, <1>4, <1>7
    <2>2. all[i] \notin trimmed
      <3>1. \A j \in kept + 1 .. Len(all) : j \in 1 .. Len(all) /\ j # i
        BY <1>6, <2>1
      <3> QED
        BY <1>5, <2>1, <3>1
    <2>3. i \in 1 .. Len(available) \/ i = Len(all)
      BY <1>4, <2>1
    <2> QED
      BY <1>4, <2>1, <2>2, <2>3 DEF InPool
  <1>11. \A x \in held' : x \in held /\ x # b /\ x \notin trimmed
    <2>1. \A x \in held : x \notin InPool
      BY <1>1 DEF PoolWithinKeepCount
    <2>2. \A x \in trimmed : x = b \/ x \in InPool
      <3>1. \A i \in kept + 1 .. Len(all) : i \in 1 .. Len(available) \/ i = Len(all)
        BY <1>1, <1>4, <1>6
      <3> QED
        BY <1>4, <3>1 DEF InPool
    <2> QED
      BY <1>2, <2>1, <2>2
  <1>12. \A x \in Buffers : holders'[x] # {} \/ x \in InPool' => frame'[x] > 0
    <2> SUFFICES ASSUME NEW x \in Buffers, x \in held' \/ x \in InPool' PROVE frame'[x] > 0
      OBVIOUS
    <2>1. x \in held \/ x \in InPool
      BY <1>2, <1>10, <1>11
    <2>2. frame[x] > 0
      BY <2>1 DEF PoolInv
    <2> QED
      BY <1>8, <1>10, <1>11, <2>2
  <1>13. PoolWithinKeepCount'
    <2>1. available' # <<>> => Len(available') + in_use' <= KeepCount
      <3> SUFFICES ASSUME available' # <<>> PROVE Len(available') + in_use' <= KeepCount
        OBVIOUS
      <3>1. kept > 0
        BY <1>6, <1>7
      <3> QED
        BY <1>1, <1>3, <1>6, <1>7, <3>1 DEF Keep
    <2>2. \A x \in InPool' : holders'[x] = {}
      BY <1>1, <1>10 DEF PoolWithinKeepCount
    <2> QED
      BY <1>3, <2>1, <2>2 DEF PoolWithinKeepCount
  <1>14. \A i, j \in 1 .. Len(available') : available'[i] = available'[j] => i = j
    BY <1>5, <1>7
  <1>15. PoolInv'
    BY <1>3, <1>12, <1>13, <1>14 DEF PoolInv
  <1> QED
    BY <1>3, <1>7, <1>9, <1>15

\* Drop() keeps the pool's account, whoever drops.
LEMMA DropKeepsPool ==
    ASSUME TextureTypeOK, PoolInv, TextureAssumption, NEW c \in TextureContexts, NEW b \in Buffers, Drop(c, b)
    PROVE  PoolInv' /\ TextureTypeOK' /\ TrimmedOnly
  <1>1. /\ holders' = [holders EXCEPT ![b] = @ \ {c}] /\ c \in holders[b]
        /\ UNCHANGED <<commands, done, content, torn, producer_sync, consumer_sync, frames>>
    BY DEF Drop, gpuVars
  <1>2. PoolInv' /\ available' \in Seq(Buffers) /\ in_use' \in Nat /\ TrimmedOnly
    <2>1. CASE holders[b] = {c}
      BY <2>1, DropReturns, ReturnKeepsPool
    <2>2. CASE holders[b] # {c}
      <3>1. in_use' = in_use /\ available' = available /\ frame' = frame
        BY <2>2 DEF Drop
      <3>2. holders[b] \ {c} # {}
        BY <1>1, <2>2
      <3>3. \A x \in Buffers : (holders'[x] = {}) = (holders[x] = {})
        BY <1>1, <3>2 DEF TextureTypeOK
      <3>4. {x \in Buffers : holders'[x] # {}} = {x \in Buffers : holders[x] # {}}
        BY <3>3
      <3>5. InPool' = InPool /\ \A x \in InPool : x \in Buffers
        BY <3>1 DEF InPool, TextureTypeOK
      <3>6. PoolWithinKeepCount'
        BY <3>1, <3>3, <3>4, <3>5 DEF PoolInv, PoolWithinKeepCount
      <3>7. PoolInv'
        BY <3>1, <3>3, <3>4, <3>5, <3>6 DEF PoolInv
      <3> QED
        BY <3>1, <3>7 DEF TextureTypeOK, TrimmedOnly
    <2> QED
      BY <2>1, <2>2
  <1>3. holders' \in [Buffers -> SUBSET TextureContexts]
    BY <1>1 DEF TextureTypeOK
  <1>4. TextureTypeOK'
    BY <1>1, <1>2, <1>3 DEF TextureTypeOK, TrimmedOnly, Commands, WaitCommands, DrawCommands, TextureContexts
  <1> QED
    BY <1>2, <1>4

\* What is said of commands depends on the queues and the GPU only.
LEMMA OrderOfCommands ==
    ASSUME TextureInv, UNCHANGED <<commands, done, content, torn>>
    PROVE  FramesUnique' /\ ReadAfterWrite' /\ WriteAfterRead' /\ EarlierDone' /\ ContentLatest' /\ NoFrameTorn'
  <1>1. /\ \A c : Positions(c)' = Positions(c)
        /\ \A c, p, b, f : WritesAt(c, p, b, f)' = WritesAt(c, p, b, f)
        /\ \A c, p, b, f : ReadsAt(c, p, b, f)' = ReadsAt(c, p, b, f)
        /\ \A c, p, b, f : DrawsAt(c, p, b, f)' = DrawsAt(c, p, b, f)
        /\ \A c, p, d, u : Behind(c, p, d, u)' = Behind(c, p, d, u)
    BY DEF Positions, WritesAt, ReadsAt, DrawsAt, Behind
  <1>2. ReadAfterWrite'
    BY <1>1 DEF TextureInv, ReadAfterWrite, ReadComesBehind, TextureContexts
  <1>3. WriteAfterRead'
    <2>1. \A w, q, b, g, v, p, f : ComesAfter(w, q, b, g, v, p, f)' = ComesAfter(w, q, b, g, v, p, f)
      BY <1>1 DEF ComesAfter, TextureContexts
    <2>2. \A w, q, b, g : WriteComesBehind(w, q, b, g)' = WriteComesBehind(w, q, b, g)
      BY <1>1, <2>1 DEF WriteComesBehind, TextureContexts
    <2> QED
      BY <1>1, <2>2 DEF TextureInv, WriteAfterRead
  <1>4. FramesUnique' /\ NoFrameTorn'
    BY <1>1 DEF TextureInv, FramesUnique, NoFrameTorn
  <1>5. EarlierDone'
    BY <1>1 DEF TextureInv, EarlierDone, TextureContexts
  <1>6. ContentLatest'
    BY DEF TextureInv, ContentLatest, Positions, WritesAt
  <1> QED
    BY <1>2, <1>3, <1>4, <1>5, <1>6

\* Drop() keeps the invariant.
LEMMA DropKeepsInv ==
    ASSUME TextureInv, TextureAssumption, NEW c \in TextureContexts, NEW b \in Buffers, Drop(c, b)
    PROVE  TextureInv'
  <1>1. PoolInv' /\ TextureTypeOK' /\ TrimmedOnly
    BY DropKeepsPool DEF TextureInv
  <1>2. UNCHANGED <<commands, done, content, torn, producer_sync, consumer_sync, frames>>
    BY DEF Drop, gpuVars
  <1>3. FramesUnique' /\ ReadAfterWrite' /\ WriteAfterRead' /\ EarlierDone' /\ ContentLatest' /\ NoFrameTorn'
    BY <1>2, OrderOfCommands DEF TextureInv
  <1>4. TextureTypeOK /\ CommandsKnown /\ SyncsBehind
    BY DEF TextureInv
  <1>5. CommandsKnown'
    <2>1. ASSUME NEW d \in TextureContexts, NEW p \in Positions(d), commands[d][p].op # "wait"
          PROVE  frame'[commands[d][p].buffer] = Deleted \/ commands[d][p].frame <= frame'[commands[d][p].buffer]
      <3>1. commands[d][p].buffer \in Buffers
        BY <1>4, <2>1, CommandTypes
      <3> QED
        BY <1>1, <1>4, <2>1, <3>1 DEF TrimmedOnly, CommandsKnown
    <2> QED
      BY <1>2, <1>4, <2>1 DEF CommandsKnown, Positions, TextureContexts
  <1>6. SyncsBehind'
    <2>1. \A x \in Buffers : frame'[x] > 0 => frame'[x] = frame[x]
      BY <1>1 DEF TrimmedOnly, Deleted
    <2>2. \A x \in Buffers : frame'[x] <= frames'
      <3> TAKE x \in Buffers
      <3>1. frame[x] <= frames /\ frames \in Nat /\ (frame'[x] = frame[x] \/ frame'[x] = -1)
        BY <1>1, <1>4 DEF TrimmedOnly, SyncsBehind, Deleted, TextureTypeOK
      <3> QED
        BY <1>2, <3>1
    <2>3. \A x \in Buffers : frame'[x] > 0 =>
             /\ producer_sync'[x] \in [on : Writers, upTo : Nat \ {0}]
             /\ WritesAt(producer_sync[x].on, producer_sync[x].upTo, x, frame[x])'
             /\ \A d \in DOMAIN consumer_sync'[x] : ReadsAt(d, consumer_sync[x][d], x, frame[x])'
      BY <1>2, <1>4, <2>1 DEF SyncsBehind, WritesAt, ReadsAt, Positions
    <2>4. \A x \in Buffers :
             /\ IsFiniteSet(DOMAIN consumer_sync'[x]) /\ DOMAIN consumer_sync'[x] \subseteq TextureContexts'
             /\ consumer_sync'[x] \in [DOMAIN consumer_sync'[x] -> Nat]
      BY <1>2, <1>4 DEF SyncsBehind, TextureContexts
    <2>5. \A d \in TextureContexts', x \in Buffers : \A p \in Positions(d)' :
             frame'[x] > 0 /\ ReadsAt(d, p, x, frame[x])' =>
                d \in DOMAIN consumer_sync'[x] /\ consumer_sync'[x][d] >= p
      BY <1>2, <1>4, <2>1 DEF SyncsBehind, ReadsAt, Positions, TextureContexts
    <2> QED
      BY <2>2, <2>3, <2>4, <2>5 DEF SyncsBehind
  <1> QED
    BY <1>1, <1>3, <1>5, <1>6 DEF TextureInv
-----------------------------------------------------------------------------
\* The GPU goes on in one context, and queues nothing.
GoesOn(c) ==
    /\ c \in TextureContexts /\ done[c] + 1 \in Positions(c)
    /\ done' = [done EXCEPT ![c] = @ + 1] /\ commands' = commands
    /\ commands[c][done[c] + 1].op = "wait" =>
          done[commands[c][done[c] + 1].on] >= commands[c][done[c] + 1].upTo

\* Execute() counts a command and changes nothing of the host.
LEMMA ExecuteGoesOn ==
    ASSUME TextureTypeOK, NEW c \in TextureContexts, Execute(c)
    PROVE  /\ GoesOn(c) /\ \A d \in TextureContexts : done'[d] \in Nat /\ done[d] <= done'[d]
           /\ UNCHANGED <<available, in_use, frame, holders, producer_sync, consumer_sync, frames>>
  <1>1. done[c] \in Nat /\ Len(commands[c]) \in Nat /\ done[c] < Len(commands[c])
    BY DEF Execute, TextureTypeOK
  <1>2. done[c] + 1 \in Positions(c)
    BY <1>1 DEF Positions
  <1>3. done' = [done EXCEPT ![c] = @ + 1]
    BY DEF Execute
  <1>4. \A d \in TextureContexts : done'[d] \in Nat /\ done[d] <= done'[d]
    BY <1>3 DEF TextureTypeOK
  <1> QED
    BY <1>2, <1>3, <1>4 DEF Execute, GoesOn

\* A wait that is gone is over.
LEMMA BehindOrDone ==
    ASSUME TextureTypeOK, NEW c, GoesOn(c), NEW d \in TextureContexts, NEW p, NEW e, NEW u \in Int, Behind(d, p, e, u)
    PROVE  Behind(d, p, e, u)' \/ done'[e] >= u
  <1>1. PICK q \in Positions(d) : /\ done[d] < q /\ q < p /\ commands[d][q].op = "wait"
                                  /\ commands[d][q].on = e /\ commands[d][q].upTo >= u
    BY DEF Behind
  <1>2. q \in Int /\ done[d] \in Nat /\ done[c] \in Nat /\ c \in TextureContexts
    BY <1>1 DEF Positions, TextureTypeOK, GoesOn
  <1>3. done' = [done EXCEPT ![c] = @ + 1] /\ commands' = commands
    BY DEF GoesOn
  <1>4. CASE done'[d] < q
    BY <1>1, <1>3, <1>4 DEF Behind, Positions
  <1>5. CASE ~(done'[d] < q)
    <2>1. d = c /\ q = done[c] + 1
      BY <1>1, <1>2, <1>3, <1>5 DEF TextureTypeOK
    <2>2. e \in TextureContexts /\ commands[d][q].upTo \in Nat
      BY <1>1, CommandTypes
    <2>3. done[e] >= commands[d][q].upTo
      BY <1>1, <2>1 DEF GoesOn
    <2>4. done[e] \in Nat /\ done'[e] \in Nat /\ done'[e] >= done[e]
      BY <1>2, <1>3, <2>2 DEF TextureTypeOK
    <2> QED
      BY <1>1, <2>2, <2>3, <2>4
  <1> QED
    BY <1>4, <1>5

\* What the GPU has done need not be waited for.
LEMMA ExecuteKeepsOrder ==
    ASSUME TextureInv, NEW c \in TextureContexts, Execute(c)
    PROVE  /\ CommandsKnown' /\ SyncsBehind' /\ PoolInv' /\ FramesUnique'
           /\ ReadAfterWrite' /\ WriteAfterRead'
  <1>1. /\ TextureTypeOK /\ CommandsKnown /\ SyncsBehind /\ PoolInv /\ FramesUnique
        /\ ReadAfterWrite /\ WriteAfterRead
    BY DEF TextureInv
  <1>2. /\ GoesOn(c) /\ \A d \in TextureContexts : done'[d] \in Nat /\ done[d] <= done'[d] /\ done[d] \in Nat
        /\ commands' = commands /\ done' = [done EXCEPT ![c] = @ + 1]
        /\ UNCHANGED <<available, in_use, frame, holders, producer_sync, consumer_sync, frames>>
    BY <1>1, ExecuteGoesOn DEF GoesOn, TextureTypeOK
  <1>3. /\ SyncsBehind' /\ PoolInv' /\ FramesUnique'
    BY <1>1, <1>2 DEF SyncsBehind, PoolInv, PoolWithinKeepCount, InPool, FramesUnique, Positions, ReadsAt, WritesAt,
                      TextureContexts
  <1>4. CommandsKnown'
    <2>1. \A d \in TextureContexts : done'[d] <= Len(commands[d])
      <3> TAKE d \in TextureContexts
      <3>1. done[d] <= Len(commands[d])
        BY <1>1 DEF CommandsKnown
      <3>2. d = c => done[c] + 1 <= Len(commands[c])
        BY <1>2 DEF GoesOn, Positions
      <3> QED
        BY <1>1, <1>2, <3>1, <3>2 DEF TextureTypeOK
    <2> QED
      BY <1>1, <1>2, <2>1 DEF CommandsKnown, Positions, TextureContexts
  <1>5. /\ \A d : Positions(d)' = Positions(d)
        /\ \A v, p, x, f : WritesAt(v, p, x, f)' = WritesAt(v, p, x, f)
        /\ \A d, p, x, f : ReadsAt(d, p, x, f)' = ReadsAt(d, p, x, f)
        /\ \A d, p, x, f : DrawsAt(d, p, x, f)' = DrawsAt(d, p, x, f)
    BY <1>2 DEF Positions, ReadsAt, WritesAt, DrawsAt
  <1>6. \A d, e \in TextureContexts : \A p : \A u \in Int :
           Behind(d, p, e, u) \/ done[e] >= u => Behind(d, p, e, u)' \/ done'[e] >= u
    <2> TAKE d, e \in TextureContexts
    <2> TAKE p
    <2> TAKE u \in Int
    <2>1. Behind(d, p, e, u) => Behind(d, p, e, u)' \/ done'[e] >= u
      BY <1>1, <1>2, BehindOrDone
    <2>2. done[e] >= u => done'[e] >= u
      BY <1>2
    <2> QED
      BY <2>1, <2>2
  <1>7. \A d : \A p \in Positions(d) : p \in Int
    BY DEF Positions
  <1>8. ReadAfterWrite'
    <2> SUFFICES ASSUME NEW d \in TextureContexts, NEW x \in Buffers, NEW f \in Nat \ {0}, NEW p \in Positions(d),
                        ReadsAt(d, p, x, f)
                 PROVE  ReadComesBehind(d, p, x, f)'
      BY <1>5 DEF ReadAfterWrite, TextureContexts
    <2>1. PICK v \in Writers : \E q \in Positions(v) : WritesAt(v, q, x, f) /\ (done[v] >= q \/ Behind(d, p, v, q))
      BY <1>1 DEF ReadAfterWrite, ReadComesBehind
    <2>2. PICK q \in Positions(v) : WritesAt(v, q, x, f) /\ (done[v] >= q \/ Behind(d, p, v, q))
      BY <2>1
    <2>3. v \in TextureContexts
      BY DEF TextureContexts
    <2>4. done'[v] >= q \/ Behind(d, p, v, q)'
      BY <1>6, <1>7, <2>2, <2>3
    <2> QED
      BY <1>5, <2>2, <2>4 DEF ReadComesBehind
  <1>9. WriteAfterRead'
    <2> SUFFICES ASSUME NEW w \in Writers, NEW x \in Buffers, NEW g \in Nat \ {0}, NEW q \in Positions(w),
                        WritesAt(w, q, x, g)
                 PROVE  WriteComesBehind(w, q, x, g)'
      BY <1>5 DEF WriteAfterRead
    <2>1. WriteComesBehind(w, q, x, g)
      BY <1>1 DEF WriteAfterRead
    <2>2. CASE \A d \in TextureContexts : \A r, h : DrawsAt(d, r, x, h) => h >= g
      BY <1>5, <2>2 DEF WriteComesBehind, TextureContexts
    <2>3. CASE \E v \in Writers, e \in Nat \ {0}, p \in Nat : ComesAfter(w, q, x, g, v, p, e)
      <3>1. PICK v \in Writers, e \in Nat \ {0}, p \in Nat : ComesAfter(w, q, x, g, v, p, e)
        BY <2>3
      <3>2. \A d \in TextureContexts : \A r : ReadsAt(d, r, x, e) => done'[d] >= r \/ Behind(w, q, d, r)'
        <4> TAKE d \in TextureContexts
        <4> TAKE r
        <4> HAVE ReadsAt(d, r, x, e)
        <4>1. done[d] >= r \/ Behind(w, q, d, r)
          BY <3>1 DEF ComesAfter
        <4>2. r \in Int /\ w \in TextureContexts
          BY <1>7 DEF ReadsAt, TextureContexts
        <4> QED
          BY <1>6, <4>1, <4>2
      <3>3. ComesAfter(w, q, x, g, v, p, e)'
        BY <1>5, <3>1, <3>2 DEF ComesAfter, TextureContexts
      <3> QED
        BY <3>3 DEF WriteComesBehind
    <2> QED
      BY <2>1, <2>2, <2>3 DEF WriteComesBehind
  <1> QED
    BY <1>3, <1>4, <1>8, <1>9

\* A write that is executed finds everything done that is of an earlier frame.
LEMMA WriteFindsDone ==
    ASSUME TextureInv, NEW c \in Writers, NEW b \in Buffers, NEW g \in Nat \ {0}, NEW p,
           p = done[c] + 1, WritesAt(c, p, b, g),
           NEW d \in TextureContexts, NEW r, NEW h, DrawsAt(d, r, b, h), h < g
    PROVE  r <= done[d]
  <1>1. TextureTypeOK /\ ReadAfterWrite /\ WriteAfterRead /\ EarlierDone /\ FramesUnique
    BY DEF TextureInv
  <1>2. p \in Positions(c) /\ p \in Nat /\ done[c] \in Nat /\ c \in TextureContexts
    BY <1>1 DEF WritesAt, Positions, TextureTypeOK, TextureContexts
  <1>3. \A e, u : ~Behind(c, p, e, u)
    BY <1>2 DEF Behind, Positions
  <1>4. r \in Nat /\ h \in Nat /\ done[d] \in Nat
    BY <1>1, DrawTypes DEF TextureTypeOK
  <1>5. PICK v \in Writers, f \in Nat \ {0}, q \in Nat : ComesAfter(c, p, b, g, v, q, f)
    BY <1>1, <1>2, <1>4 DEF WriteAfterRead, WriteComesBehind
  <1>6. v \in TextureContexts /\ done[v] \in Nat /\ q \in Positions(v) /\ WritesAt(v, q, b, f)
    BY <1>1, <1>5 DEF ComesAfter, WritesAt, TextureTypeOK, TextureContexts
  <1>7. \A e \in TextureContexts : \A k : ReadsAt(e, k, b, f) => done[e] >= k
    BY <1>3, <1>5 DEF ComesAfter
  <1>8. \A w \in Writers : \A k : WritesAt(w, k, b, f) => w = v /\ k = q
    <2> SUFFICES ASSUME NEW w \in Writers, NEW k, WritesAt(w, k, b, f) PROVE w = v /\ k = q
      OBVIOUS
    <2>1. k \in Positions(w) /\ commands[w][k].op = "write" /\ commands[w][k].frame = f
      BY DEF WritesAt
    <2>2. commands[v][q].op = "write" /\ commands[v][q].frame = f
      BY <1>6 DEF WritesAt
    <2> QED
      BY <1>1, <1>6, <2>1, <2>2 DEF FramesUnique
  <1>9. q <= done[v]
    <2>1. CASE v = c /\ q < p
      BY <1>2, <2>1
    <2>2. CASE \E e \in TextureContexts : \E k : ReadsAt(e, k, b, f)
      <3>0. PICK e \in TextureContexts : \E k : ReadsAt(e, k, b, f)
        BY <2>2
      <3>1. PICK k : ReadsAt(e, k, b, f)
        BY <3>0
      <3>2. k \in Positions(e) /\ k \in Int /\ done[e] \in Nat /\ done[e] >= k
        BY <1>1, <1>7, <3>1 DEF ReadsAt, Positions, TextureTypeOK
      <3>3. PICK w \in Writers : \E i \in Positions(w) : WritesAt(w, i, b, f) /\ (done[w] >= i \/ Behind(e, k, w, i))
        BY <1>1, <3>1, <3>2 DEF ReadAfterWrite, ReadComesBehind
      <3>4. PICK i \in Positions(w) : WritesAt(w, i, b, f) /\ (done[w] >= i \/ Behind(e, k, w, i))
        BY <3>3
      <3>5. w = v /\ i = q
        BY <1>8, <3>4
      <3>6. \A u : ~Behind(e, k, w, u)
        BY <3>2 DEF Behind, Positions
      <3> QED
        BY <1>6, <3>4, <3>5, <3>6
    <2> QED
      BY <1>5, <2>1, <2>2 DEF ComesAfter
  <1>10. h <= f
    BY <1>4, <1>5 DEF ComesAfter
  <1>11. CASE h < f
    BY <1>1, <1>6, <1>9, <1>11 DEF EarlierDone
  <1>12. CASE h = f
    <2>1. CASE ReadsAt(d, r, b, h)
      BY <1>4, <1>7, <1>12, <2>1
    <2>2. CASE WritesAt(d, r, b, h)
      BY <1>8, <1>9, <1>12, <2>2 DEF WritesAt
    <2> QED
      BY <2>1, <2>2 DEF DrawsAt
  <1> QED
    BY <1>4, <1>10, <1>11, <1>12

\* A read that is executed finds the frame it was queued for.
LEMMA ReadFindsFrame ==
    ASSUME TextureInv, NEW c \in TextureContexts, NEW b \in Buffers, NEW f \in Nat \ {0}, NEW p,
           p = done[c] + 1, ReadsAt(c, p, b, f)
    PROVE  content[b] = f
  <1>1. TextureTypeOK /\ ReadAfterWrite /\ EarlierDone /\ ContentLatest
    BY DEF TextureInv
  <1>2. p \in Positions(c) /\ p \in Nat /\ done[c] \in Nat /\ content[b] \in Nat
    BY <1>1 DEF ReadsAt, TextureTypeOK
  <1>3. \A d, u : ~Behind(c, p, d, u)
    BY <1>2 DEF Behind, Positions
  <1>4. f <= content[b]
    <2>1. PICK w \in Writers : \E q \in Positions(w) : WritesAt(w, q, b, f) /\ done[w] >= q
      BY <1>1, <1>2, <1>3 DEF ReadAfterWrite, ReadComesBehind
    <2>2. PICK q \in Positions(w) : WritesAt(w, q, b, f) /\ done[w] >= q
      BY <2>1
    <2>3. commands[w][q].op = "write" /\ commands[w][q].buffer = b /\ commands[w][q].frame = f
      BY <2>2 DEF WritesAt
    <2>4. q \in Int /\ done[w] \in Int
      BY <1>1 DEF Positions, TextureTypeOK, TextureContexts
    <2>5. q <= done[w]
      BY <2>2, <2>4
    <2> QED
      BY <1>1, <2>3, <2>5 DEF ContentLatest
  <1>5. ~(f < content[b])
    <2> SUFFICES ASSUME f < content[b] PROVE FALSE
      OBVIOUS
    <2>1. content[b] # 0
      BY <1>2
    <2>2. PICK w \in Writers : \E q \in Positions(w) : q <= done[w] /\ WritesAt(w, q, b, content[b])
      BY <1>1, <2>1 DEF ContentLatest
    <2>3. PICK q \in Positions(w) : q <= done[w] /\ WritesAt(w, q, b, content[b])
      BY <2>2
    <2>4. DrawsAt(c, p, b, f)
      BY DEF DrawsAt
    <2>5. p <= done[c]
      BY <1>1, <2>3, <2>4 DEF EarlierDone
    <2> QED
      BY <1>2, <2>5
  <1> QED
    BY <1>2, <1>4, <1>5

\* The GPU renders frames of a texture in order, and samples the one that was meant.
LEMMA ExecuteKeepsFrames ==
    ASSUME TextureInv, NEW c \in TextureContexts, Execute(c)
    PROVE  TextureTypeOK' /\ EarlierDone' /\ ContentLatest' /\ NoFrameTorn'
  <1>1. TextureTypeOK /\ CommandsKnown /\ EarlierDone /\ ContentLatest /\ NoFrameTorn
    BY DEF TextureInv
  <1>2. /\ GoesOn(c) /\ commands' = commands /\ done' = [done EXCEPT ![c] = @ + 1]
        /\ UNCHANGED <<available, in_use, frame, holders, producer_sync, consumer_sync, frames>>
    BY <1>1, ExecuteGoesOn DEF GoesOn
  <1>3. PICK p : p = done[c] + 1 /\ p \in Positions(c) /\ p \in Nat /\ done[c] \in Nat
    BY <1>1, <1>2 DEF GoesOn, TextureTypeOK
  <1>4. PICK cmd : cmd = commands[c][p]
    OBVIOUS
  <1>5. /\ content' = IF cmd.op = "write" THEN [content EXCEPT ![cmd.buffer] = cmd.frame] ELSE content
        /\ torn' = (torn \/ (cmd.op = "read" /\ content[cmd.buffer] # cmd.frame))
    BY <1>3, <1>4 DEF Execute
  <1>6. /\ cmd.op \in {"wait", "write", "read"}
        /\ cmd.op = "write" => /\ cmd.buffer \in Buffers /\ cmd.frame \in Nat \ {0}
                               /\ cmd = [op |-> "write", buffer |-> cmd.buffer, frame |-> cmd.frame]
        /\ cmd.op = "read" => /\ cmd.buffer \in Buffers /\ cmd.frame \in Nat \ {0}
                              /\ cmd = [op |-> "read", buffer |-> cmd.buffer, frame |-> cmd.frame]
    BY <1>1, <1>3, <1>4, CommandTypes
  <1>7. TextureTypeOK'
    <2>1. content' \in [Buffers -> Nat] /\ torn' \in BOOLEAN
      BY <1>1, <1>5, <1>6 DEF TextureTypeOK
    <2>2. done' \in [TextureContexts -> Nat]
      BY <1>1, <1>2 DEF TextureTypeOK
    <2>3. TextureContexts' = TextureContexts /\ Commands' = Commands
      OBVIOUS
    <2> QED
      BY <1>1, <1>2, <2>1, <2>2, <2>3 DEF TextureTypeOK
  <1>8. NoFrameTorn'
    <2>1. cmd.op = "read" => ReadsAt(c, p, cmd.buffer, cmd.frame)
      BY <1>3, <1>4, <1>6 DEF ReadsAt
    <2>2. cmd.op = "read" => content[cmd.buffer] = cmd.frame
      BY <1>3, <1>6, <2>1, ReadFindsFrame
    <2> QED
      BY <1>1, <1>5, <2>2 DEF NoFrameTorn
  <1>9. \A v \in Writers : \A q \in Positions(v) : q <= done'[v] => q <= done[v] \/ (v = c /\ q = p)
    BY <1>1, <1>2, <1>3 DEF Positions, TextureTypeOK, TextureContexts
  <1>10. \A v \in Writers : \A q \in Positions(v) : q <= done[v] => q <= done'[v]
    BY <1>1, <1>2, <1>3 DEF Positions, TextureTypeOK, TextureContexts
  <1>11. ASSUME NEW x \in Buffers
         PROVE  /\ content'[x] # 0 => \E w \in Writers : \E q \in Positions(w) :
                      q <= done'[w] /\ WritesAt(w, q, x, content'[x])
                /\ \A w \in Writers : \A q \in Positions(w) :
                      q <= done'[w] /\ commands[w][q].op = "write" /\ commands[w][q].buffer = x =>
                         commands[w][q].frame <= content'[x]
    <2>1. CASE cmd.op = "write" /\ cmd.buffer = x
      <3>1. content'[x] = cmd.frame /\ cmd.frame \in Nat
        BY <1>1, <1>5, <1>6, <2>1 DEF TextureTypeOK
      <3>2. c \in Writers
        BY <1>1, <1>3, <1>4, <2>1 DEF CommandsKnown
      <3>3. WritesAt(c, p, x, content'[x]) /\ p <= done'[c]
        <4>1. p <= done'[c]
          BY <1>1, <1>2, <1>3 DEF TextureTypeOK
        <4> QED
          BY <1>3, <1>4, <1>6, <2>1, <3>1, <3>2, <4>1 DEF WritesAt
      <3>4. ASSUME NEW w \in Writers, NEW q \in Positions(w), q <= done'[w], commands[w][q].op = "write",
                   commands[w][q].buffer = x
            PROVE  commands[w][q].frame <= content'[x]
        <4>1. w \in TextureContexts /\ commands[w][q].frame \in Nat \ {0}
              /\ commands[w][q] = [op |-> "write", buffer |-> x, frame |-> commands[w][q].frame]
          <5>1. w \in TextureContexts
            BY DEF TextureContexts
          <5> QED
            BY <1>1, <3>4, <5>1, CommandTypes
        <4>2. WritesAt(w, q, x, commands[w][q].frame)
          BY <4>1 DEF WritesAt
        <4>3. CASE w = c /\ q = p
          BY <1>4, <3>1, <4>3
        <4>4. CASE q <= done[w]
          <5> SUFFICES ASSUME cmd.frame < commands[w][q].frame PROVE FALSE
            BY <3>1, <4>1
          <5>1. DrawsAt(c, p, x, cmd.frame)
            BY <3>1, <3>3 DEF DrawsAt, WritesAt
          <5>2. p <= done[c]
            BY <1>1, <4>2, <4>4, <5>1 DEF EarlierDone
          <5> QED
            BY <1>3, <5>2
        <4> QED
          BY <1>9, <3>4, <4>3, <4>4
      <3> QED
        BY <1>3, <3>2, <3>3, <3>4
    <2>2. CASE ~(cmd.op = "write" /\ cmd.buffer = x)
      <3>1. content'[x] = content[x]
        BY <1>1, <1>5, <1>6, <2>2 DEF TextureTypeOK
      <3>2. content'[x] # 0 => \E w \in Writers : \E q \in Positions(w) :
                      q <= done'[w] /\ WritesAt(w, q, x, content'[x])
        BY <1>1, <1>10, <3>1 DEF ContentLatest
      <3>3. ASSUME NEW w \in Writers, NEW q \in Positions(w), q <= done'[w], commands[w][q].op = "write",
                   commands[w][q].buffer = x
            PROVE  commands[w][q].frame <= content'[x]
        <4>1. ~(w = c /\ q = p)
          BY <1>4, <2>2, <3>3
        <4>2. q <= done[w]
          BY <1>9, <3>3, <4>1
        <4> QED
          BY <1>1, <3>1, <3>3, <4>2 DEF ContentLatest
      <3> QED
        BY <3>2, <3>3
    <2> QED
      BY <2>1, <2>2
  <1>12. ContentLatest'
    BY <1>2, <1>11 DEF ContentLatest, WritesAt, Positions
  <1>13. EarlierDone'
    <2> SUFFICES ASSUME NEW w \in Writers, NEW d \in TextureContexts, NEW x \in Buffers, NEW q, NEW g, NEW r, NEW h,
                        WritesAt(w, q, x, g), q <= done'[w], DrawsAt(d, r, x, h), h < g
                 PROVE  r <= done'[d]
      <3>1. /\ \A w, q, x, g : WritesAt(w, q, x, g)' = WritesAt(w, q, x, g)
            /\ \A d, r, x, h : DrawsAt(d, r, x, h)' = DrawsAt(d, r, x, h)
        BY <1>2 DEF DrawsAt, WritesAt, ReadsAt, Positions
      <3> QED
        BY <3>1 DEF EarlierDone, TextureContexts
    <2>1. r \in Nat /\ done[d] \in Nat /\ done'[d] \in Nat /\ done[d] <= done'[d]
      BY <1>1, <1>2, DrawTypes DEF TextureTypeOK
    <2>2. q \in Positions(w)
      BY DEF WritesAt
    <2>3. CASE q <= done[w]
      BY <1>1, <2>1, <2>3 DEF EarlierDone
    <2>4. CASE w = c /\ q = p
      <3>1. w \in TextureContexts /\ DrawsAt(w, q, x, g)
        BY DEF DrawsAt, TextureContexts
      <3>2. g \in Nat \ {0}
        BY <1>1, <3>1, DrawTypes
      <3>3. r <= done[d]
        BY <1>3, <2>4, <3>2, WriteFindsDone
      <3> QED
        BY <2>1, <3>3
    <2> QED
      BY <1>9, <2>2, <2>3, <2>4
  <1> QED
    BY <1>7, <1>8, <1>12, <1>13

-----------------------------------------------------------------------------
\* Every step keeps the invariant.
LEMMA TextureInvStep ==
    ASSUME TextureInv, [TextureNext]_textureVars, [TakesSampled]_textureVars
    PROVE  TextureInv'
  <1> USE TextureAssumption
  <1>1. CASE UNCHANGED textureVars
    <2>1. UNCHANGED <<commands, done, content, torn, available, in_use, frame, holders, producer_sync,
                      consumer_sync, frames>>
      BY <1>1 DEF textureVars
    <2>2. TextureTypeOK'
      BY <2>1 DEF TextureInv, TextureTypeOK, Commands, WaitCommands, DrawCommands, TextureContexts
    <2>3. PoolInv'
      BY <2>1 DEF TextureInv, PoolInv, PoolWithinKeepCount, InPool
    <2>4. CommandsKnown' /\ SyncsBehind'
      BY <2>1 DEF TextureInv, CommandsKnown, SyncsBehind, Positions, ReadsAt, WritesAt, TextureContexts
    <2> QED
      BY <2>1, <2>2, <2>3, <2>4, OrderOfCommands DEF TextureInv
  <1>2. CASE TakesSampled /\ \E c \in Writers, readers \in SUBSET Readers : Produce(c, readers)
    BY <1>2, ProduceKeepsInv
  <1>3. CASE \E c \in Readers, b \in Buffers : Len(commands[c]) < MaxReads /\ Read(c, b)
    BY <1>3, ReadKeepsInv
  <1>4. CASE \E c \in TextureContexts, b \in Buffers : Drop(c, b)
    BY <1>4, DropKeepsInv
  <1>5. CASE \E c \in TextureContexts : Execute(c)
    <2>1. PICK c \in TextureContexts : Execute(c)
      BY <1>5
    <2> QED
      BY <2>1, ExecuteKeepsOrder, ExecuteKeepsFrames DEF TextureInv
  <1> QED
    BY <1>1, <1>2, <1>3, <1>4, <1>5 DEF TextureNext

\* Whatever the GPU has still to do, and however many contexts render and
\* sample, every read finds the frame it was queued for and the pool keeps its
\* count (GetReadView, DidRead, Reuse, GetBuffer, Return, TrimAvailable), as
\* long as no context takes over a buffer that was filled by another one and
\* never sampled: GetWriteView() leaves that wait to be done.
THEOREM FramesStayWhole == TextureSpec /\ [][TakesSampled]_textureVars => []FramesWhole
  <1>1. TextureInit => TextureInv
    BY TextureInvHoldsFirst
  <1>2. TextureInv /\ [TextureNext]_textureVars /\ [TakesSampled]_textureVars => TextureInv'
    BY TextureInvStep
  <1>3. TextureInv => FramesWhole
    BY DEF TextureInv, PoolInv, FramesWhole
  <1> QED
    BY <1>1, <1>2, <1>3, PTL DEF TextureSpec

\* If one context renders into all buffers, as in a graph whose GL calculators
\* share theirs (PrepareGpuNode), nothing need be known of the samples.
THEOREM OneContextKeepsFrames ==
    (\A v, w \in Writers : v = w) => (TextureSpec => []FramesWhole)
  <1> SUFFICES ASSUME \A v, w \in Writers : v = w PROVE TextureSpec => []FramesWhole
    OBVIOUS
  <1>1. TextureInit => TextureInv
    BY TextureInvHoldsFirst
  <1>2. TextureInv /\ [TextureNext]_textureVars => TextureInv'
    <2> SUFFICES ASSUME TextureInv, [TextureNext]_textureVars PROVE TextureInv'
      OBVIOUS
    <2>1. TakesSampled
      <3> SUFFICES ASSUME NEW w \in Writers, available # <<>>
                   PROVE  producer_sync[Last(available)].on = w
        BY DEF TakesSampled
      <3>1. /\ available[Len(available)] = Last(available) /\ Len(available) \in 1 .. Len(available)
            /\ Last(available) \in Buffers
        BY DEF Last, TextureInv, TextureTypeOK
      <3>2. frame[Last(available)] > 0
        BY <3>1 DEF TextureInv, PoolInv, InPool
      <3>3. producer_sync[Last(available)].on \in Writers
        BY <3>1, <3>2 DEF TextureInv, SyncsBehind
      <3> QED
        BY <3>3
    <2> QED
      BY <2>1, TextureInvStep
  <1>3. TextureInv => FramesWhole
    BY DEF TextureInv, PoolInv, FramesWhole
  <1> QED
    BY <1>1, <1>2, <1>3, PTL DEF TextureSpec

-----------------------------------------------------------------------------
(* Packets.                                                                *)

Owners == {"nobody", "holder", "caller"} \cup PacketThreads

ConsumingType ==
    [PacketThreads -> {NotConsuming} \cup
        [op : {"Consume", "ConsumeOrCopy", "ConsumeAndVisit"}, slot : Slots, sole : BOOLEAN]]

PacketTypeOK ==
    /\ object \in [Objects -> [owner : Owners, value : {0, 1}]]
    /\ holder \in [Holders -> HolderRecords \cup {Empty}]
    /\ packet \in [PacketThreads -> [Variables -> Holders \cup {Empty}]]
    /\ synced \in Holders \cup {Empty}
    /\ consuming \in ConsumingType

\* Some variable or the SyncedPacket refers to the holder.
NamesHolder(h, packets, shared) ==
    shared = h \/ \E t \in PacketThreads, s \in Variables : packets[t][s] = h

\* A holder lives as long as it is referred to.
HoldersReferenced ==
    \A h \in Holders : holder[h] # Empty <=> NamesHolder(h, packet, synced)

\* The data of a holder is as it was packed, and belongs to it or the caller.
DataKept(those, objects) ==
    \A h \in Holders : those[h] \in HolderRecords =>
        /\ objects[those[h].ptr].value = those[h].value
        /\ objects[those[h].ptr].owner = IF those[h].foreign THEN "caller" ELSE "holder"

\* Two holders do not own the same data.
DataOwnedOnce(those) ==
    \A h, g \in Holders :
        /\ those[h] \in HolderRecords /\ ~those[h].foreign
        /\ those[g] \in HolderRecords /\ ~those[g].foreign
        /\ those[h].ptr = those[g].ptr
        => h = g

\* Data that is said to be owned by a holder is owned by one.
OwnerExists(those, objects) ==
    \A o \in Objects : objects[o].owner = "holder" =>
        \E h \in Holders :
            those[h] \in HolderRecords /\ ~those[h].foreign /\ those[h].ptr = o

\* References, holders and memory that Assign may be given.
Sound(packets, shared, those, objects) ==
    /\ packets \in [PacketThreads -> [Variables -> Holders \cup {Empty}]]
    /\ shared \in Holders \cup {Empty}
    /\ objects \in [Objects -> [owner : Owners, value : {0, 1}]]
    /\ \A h \in Holders : those[h] \in HolderRecords \cup {Empty} \/ those[h].ptr = Empty
    /\ \A h \in Holders : NamesHolder(h, packets, shared) => those[h] \in HolderRecords
    /\ DataKept(those, objects)
    /\ DataOwnedOnce(those)
    /\ OwnerExists(those, objects)

\* Only the variable s of t refers to the holder.
OnlyReference(h, t, s, packets, shared) ==
    /\ shared # h
    /\ \A u \in PacketThreads, v \in Variables : packets[u][v] = h => u = t /\ v = s

\* Between the two steps of Consume nobody else gets hold of the data.
ConsumersAlone ==
    \A t \in PacketThreads : consuming[t].op # "none" =>
        /\ packet[t][consuming[t].slot] # Empty
        /\ consuming[t].sole \/ consuming[t].op = "ConsumeOrCopy"
        /\ consuming[t].sole =>
             /\ ~holder[packet[t][consuming[t].slot]].foreign
             /\ OnlyReference(packet[t][consuming[t].slot], t, consuming[t].slot, packet, synced)

DataInv ==
    /\ PacketTypeOK
    /\ HoldersReferenced
    /\ DataKept(holder, object)
    /\ DataOwnedOnce(holder)
    /\ OwnerExists(holder, object)

PacketInv == DataInv /\ ConsumersAlone

-----------------------------------------------------------------------------
\* use_count is zero exactly if nothing refers to the holder, and one if and
\* only if one variable does.
LEMMA CountOfReferences ==
  ASSUME NEW h, NEW packets, NEW shared
  PROVE  /\ Refs(h, packets, shared) = 0 <=> ~NamesHolder(h, packets, shared)
         /\ \A t \in PacketThreads, s \in Variables :
              packets[t][s] = h /\ Refs(h, packets, shared) = 1
                => OnlyReference(h, t, s, packets, shared)
<1> DEFINE S == {x \in PacketThreads \X Variables : packets[x[1]][x[2]] = h}
<1>1. IsFiniteSet(S)
  <2>1. IsFiniteSet(Variables)
    BY PacketAssumption, FS_AddElement DEF Variables
  <2>2. IsFiniteSet(PacketThreads \X Variables)
    BY <2>1, PacketAssumption, FS_Product
  <2> QED
    BY <2>2, FS_Subset
<1>2. Cardinality(S) \in Nat /\ (Cardinality(S) = 0 <=> S = {})
  BY <1>1, FS_CardinalityType, FS_EmptySet
<1>3. Refs(h, packets, shared) = Cardinality(S) + (IF shared = h THEN 1 ELSE 0)
  BY DEF Refs
<1>4. S = {} <=> \A t \in PacketThreads, s \in Variables : packets[t][s] # h
  <2>1. ASSUME S = {}, NEW t \in PacketThreads, NEW s \in Variables PROVE packets[t][s] # h
    <3>1. <<t, s>> \notin S
      BY <2>1
    <3> QED
      BY <3>1
  <2>2. ASSUME \A t \in PacketThreads, s \in Variables : packets[t][s] # h PROVE S = {}
    BY <2>2
  <2> QED
    BY <2>1, <2>2
<1>5. Refs(h, packets, shared) = 0 <=> ~NamesHolder(h, packets, shared)
  <2> HIDE DEF S
  <2> QED
    BY <1>2, <1>3, <1>4 DEF NamesHolder
<1>6. ASSUME NEW t \in PacketThreads, NEW s \in Variables,
             packets[t][s] = h, Refs(h, packets, shared) = 1
      PROVE  OnlyReference(h, t, s, packets, shared)
  <2>1. <<t, s>> \in S
    BY <1>6
  <2>2. Cardinality(S) # 0
    <3> HIDE DEF S
    <3> QED
      BY <1>2, <2>1
  <2>3. shared # h /\ Cardinality(S) = 1
    <3> HIDE DEF S
    <3> QED
      BY <1>2, <1>3, <1>6, <2>2
  <2>4. PICK x : S = {x}
    <3> HIDE DEF S
    <3> QED
      BY <1>1, <2>3, FS_Singleton
  <2>5. ASSUME NEW u \in PacketThreads, NEW v \in Variables, packets[u][v] = h
        PROVE  u = t /\ v = s
    <3>1. <<u, v>> \in S
      BY <2>5
    <3>2. <<u, v>> = <<t, s>>
      <4> HIDE DEF S
      <4> QED
        BY <2>1, <2>4, <3>1
    <3> QED
      BY <3>2
  <2> QED
    BY <2>3, <2>5 DEF OnlyReference
<1> QED
  BY <1>5, <1>6

\* Destroying the holders that nothing refers to leaves the others intact.
LEMMA AssignKeepsData ==
  ASSUME NEW packets, NEW shared, NEW those, NEW objects,
         Sound(packets, shared, those, objects),
         Assign(packets, shared, those, objects),
         consuming' \in ConsumingType
  PROVE  /\ DataInv'
         /\ \A h \in Holders : NamesHolder(h, packets, shared) => holder'[h] = those[h]
<1> USE DEF Sound
<1>1. PICK dead : dead = {h \in Holders : those[h] # Empty /\ ~NamesHolder(h, packets, shared)}
  OBVIOUS
<1>2. dead = {h \in Holders : those[h] # Empty /\ Refs(h, packets, shared) = 0}
  BY <1>1, CountOfReferences
<1>3. /\ packet' = packets /\ synced' = shared
      /\ holder' = [h \in Holders |-> IF h \in dead THEN Empty ELSE those[h]]
      /\ object' = [o \in Objects |->
                      IF \E h \in dead : Deletes(those[h]) /\ those[h].ptr = o
                      THEN [owner |-> "nobody", value |-> 0] ELSE objects[o]]
  BY <1>2 DEF Assign
<1>4. \A h \in Holders : NamesHolder(h, packets, shared) => holder'[h] = those[h]
  BY <1>1, <1>3
<1>5. \A h \in Holders : ~NamesHolder(h, packets, shared) => holder'[h] = Empty
  BY <1>1, <1>3
<1>6. PacketTypeOK'
  <2>1. holder' \in [Holders -> HolderRecords \cup {Empty}]
    BY <1>3, <1>4, <1>5
  <2>2. object' \in [Objects -> [owner : Owners, value : {0, 1}]]
    BY <1>3 DEF Owners
  <2> QED
    BY <1>3, <2>1, <2>2 DEF PacketTypeOK
<1>7. HoldersReferenced'
  BY <1>3, <1>4, <1>5, PacketAssumption DEF HoldersReferenced
<1>8. DataKept(holder', object')
  <2> SUFFICES ASSUME NEW h \in Holders, holder'[h] \in HolderRecords
               PROVE  object'[holder'[h].ptr] = objects[those[h].ptr] /\ holder'[h] = those[h]
    BY <1>4, <1>5, PacketAssumption DEF DataKept
  <2>1. NamesHolder(h, packets, shared) /\ holder'[h] = those[h]
    BY <1>4, <1>5, PacketAssumption
  <2>2. those[h].ptr \in Objects
    BY <2>1 DEF HolderRecords
  <2>3. ASSUME NEW g \in dead, Deletes(those[g]), those[g].ptr = those[h].ptr
        PROVE  FALSE
    <3>1. g \in Holders /\ g # h /\ those[g] \in HolderRecords /\ ~those[g].foreign
      BY <1>1, <2>1, <2>3 DEF Deletes
    <3>2. CASE those[h].foreign
      BY <2>1, <2>3, <3>1, <3>2 DEF DataKept
    <3>3. CASE ~those[h].foreign
      BY <2>1, <2>3, <3>1, <3>3 DEF DataOwnedOnce
    <3> QED
      BY <3>2, <3>3
  <2> QED
    BY <1>3, <2>1, <2>2, <2>3
<1>9. DataOwnedOnce(holder')
  BY <1>4, <1>5, PacketAssumption DEF DataOwnedOnce
<1>10. OwnerExists(holder', object')
  <2> SUFFICES ASSUME NEW o \in Objects, object'[o].owner = "holder"
               PROVE  \E h \in Holders :
                        holder'[h] \in HolderRecords /\ ~holder'[h].foreign /\ holder'[h].ptr = o
    BY DEF OwnerExists
  <2>1. /\ object'[o] = objects[o]
        /\ \A h \in dead : ~(Deletes(those[h]) /\ those[h].ptr = o)
    BY <1>3
  <2>2. PICK h \in Holders :
          those[h] \in HolderRecords /\ ~those[h].foreign /\ those[h].ptr = o
    BY <2>1 DEF OwnerExists
  <2>3. h \notin dead
    BY <2>1, <2>2, PacketAssumption DEF Deletes
  <2> QED
    BY <1>3, <2>2, <2>3
<1> QED
  BY <1>4, <1>6, <1>7, <1>8, <1>9, <1>10 DEF DataInv

\* What t can put into a packet without getting at what others hold.
Reachable(h, t) ==
    \/ h \in {Empty, synced}
    \/ \E w \in Variables : packet[t][w] = h
    \/ ~NamesHolder(h, packet, synced)

\* The references of t come from its own packets, from the SyncedPacket or from
\* a new holder; what is referred to before and after stays as it is.
Allowed(t, packets, shared, those) ==
    /\ \A u \in PacketThreads \ {t} : packets[u] = packet[u]
    /\ \A v \in Variables : Reachable(packets[t][v], t)
    /\ Reachable(shared, t)
    /\ \A h \in Holders : NamesHolder(h, packet, synced) /\ NamesHolder(h, packets, shared)
                           => those[h] = holder[h]

\* Such a step of a thread keeps the invariant if it is in no Consume after it.
LEMMA AssignKeepsInv ==
  ASSUME PacketInv, NEW t \in PacketThreads,
         NEW packets, NEW shared, NEW those, NEW objects,
         Sound(packets, shared, those, objects),
         Allowed(t, packets, shared, those),
         Assign(packets, shared, those, objects),
         consuming' = [consuming EXCEPT ![t] = NotConsuming]
  PROVE  PacketInv'
<1>1. consuming' \in ConsumingType
  BY DEF PacketInv, DataInv, PacketTypeOK, ConsumingType
<1>2. /\ DataInv'
      /\ \A h \in Holders : NamesHolder(h, packets, shared) => holder'[h] = those[h]
  BY <1>1, AssignKeepsData
<1>3. packet' = packets /\ synced' = shared
  BY DEF Assign
<1>4. ASSUME NEW u \in PacketThreads, consuming'[u].op # "none"
      PROVE  LET h == packet'[u][consuming'[u].slot]
             IN  /\ h # Empty
                 /\ consuming'[u].sole \/ consuming'[u].op = "ConsumeOrCopy"
                 /\ consuming'[u].sole =>
                      /\ ~holder'[h].foreign
                      /\ OnlyReference(h, u, consuming'[u].slot, packet', synced')
  <2>1. u # t /\ consuming'[u] = consuming[u]
    BY <1>4 DEF PacketInv, DataInv, PacketTypeOK, ConsumingType, NotConsuming
  <2>2. consuming[u].slot \in Variables /\ packets[u] = packet[u]
    BY <1>4, <2>1 DEF Allowed, PacketInv, DataInv, PacketTypeOK, ConsumingType, Variables, NotConsuming
  <2>3. PICK s \in Variables : s = consuming[u].slot
    BY <2>2
  <2>4. PICK h : h = packet[u][s]
    OBVIOUS
  <2>5. /\ h # Empty
        /\ consuming[u].sole \/ consuming[u].op = "ConsumeOrCopy"
        /\ consuming[u].sole => ~holder[h].foreign /\ OnlyReference(h, u, s, packet, synced)
    BY <1>4, <2>1, <2>3, <2>4 DEF PacketInv, ConsumersAlone
  <2>6. h \in Holders /\ NamesHolder(h, packet, synced) /\ NamesHolder(h, packets, shared)
    BY <2>2, <2>4, <2>5 DEF Sound, NamesHolder
  <2>7. holder'[h] = holder[h]
    BY <1>2, <2>6 DEF Allowed
  <2>8. ASSUME consuming[u].sole PROVE OnlyReference(h, u, s, packets, shared)
    <3>1. OnlyReference(h, u, s, packet, synced)
      BY <2>5, <2>8
    <3>2. ~Reachable(h, t)
      BY <2>1, <2>5, <2>6, <3>1 DEF Reachable, OnlyReference
    <3>3. shared # h /\ \A v \in Variables : packets[t][v] # h
      BY <3>2 DEF Allowed
    <3> QED
      BY <3>1, <3>3 DEF OnlyReference, Allowed
  <2> QED
    BY <1>3, <2>1, <2>2, <2>3, <2>4, <2>5, <2>7, <2>8
<1>5. ConsumersAlone'
  BY <1>4 DEF ConsumersAlone
<1> QED
  BY <1>2, <1>5 DEF PacketInv

\* The references after a step of t that only copies, moves or drops some.
Moved(t, packets, shared) ==
    /\ packets \in [PacketThreads -> [Variables -> Holders \cup {Empty}]]
    /\ shared \in Holders \cup {Empty}
    /\ \A u \in PacketThreads \ {t} : packets[u] = packet[u]
    /\ \A v \in Variables : packets[t][v] \in {Empty, synced} \/
                            \E w \in Variables : packets[t][v] = packet[t][w]
    /\ shared \in {Empty, synced} \/ \E w \in Variables : shared = packet[t][w]

LEMMA MovingReferences ==
  ASSUME PacketInv, NEW t \in PacketThreads, NEW packets, NEW shared,
         Moved(t, packets, shared),
         Assign(packets, shared, holder, object),
         consuming' = [consuming EXCEPT ![t] = NotConsuming]
  PROVE  PacketInv'
<1> USE DEF Moved
<1>1. \A h \in Holders : NamesHolder(h, packets, shared) => NamesHolder(h, packet, synced)
  BY PacketAssumption DEF NamesHolder
<1>2. \A h \in Holders : NamesHolder(h, packets, shared) => holder[h] \in HolderRecords
  BY <1>1 DEF PacketInv, DataInv, HoldersReferenced, PacketTypeOK
<1>3. Allowed(t, packets, shared, holder)
  BY DEF Reachable, Allowed
<1>4. Sound(packets, shared, holder, object)
  BY <1>2 DEF Sound, PacketInv, DataInv, PacketTypeOK
<1> QED
  BY <1>3, <1>4, AssignKeepsInv

\* A new holder gets data that nobody else has, or points to the caller's.
LEMMA CreateKeepsInv ==
  ASSUME PacketInv, NEW t \in PacketThreads, NEW s \in Slots, NEW o \in Objects,
         NEW foreign \in BOOLEAN, NEW owner,
         IF foreign THEN object[o].owner = "caller" /\ owner = "caller"
                    ELSE object[o].owner \in {"nobody", t} /\ owner = "holder",
         Create(t, s, o, foreign, owner),
         consuming' = [consuming EXCEPT ![t] = NotConsuming]
  PROVE  PacketInv'
<1> USE DEF PacketInv, DataInv, PacketTypeOK
<1>1. PICK h \in Holders :
        /\ holder[h] = Empty
        /\ Assign([packet EXCEPT ![t][s] = h], synced,
                  [holder EXCEPT ![h] = [type |-> DataType[o], ptr |-> o,
                                         foreign |-> foreign, value |-> object[o].value]],
                  [object EXCEPT ![o].owner = owner])
  BY DEF Create
<1>2. PICK packets : packets = [packet EXCEPT ![t][s] = h]
  OBVIOUS
<1>3. PICK new : new = [type |-> DataType[o], ptr |-> o,
                        foreign |-> foreign, value |-> object[o].value]
  OBVIOUS
<1>4. PICK those : those = [holder EXCEPT ![h] = new]
  OBVIOUS
<1>5. PICK objects : objects = [object EXCEPT ![o].owner = owner]
  OBVIOUS
<1>6. Assign(packets, synced, those, objects)
  BY <1>1, <1>2, <1>3, <1>4, <1>5
<1>7. new \in HolderRecords /\ new.ptr = o /\ new.foreign = foreign /\ new.value = object[o].value
  BY <1>3 DEF HolderRecords
<1>8. /\ packets[t][s] = h
      /\ \A v \in Variables : v # s => packets[t][v] = packet[t][v]
      /\ \A u \in PacketThreads \ {t} : packets[u] = packet[u]
      /\ packets \in [PacketThreads -> [Variables -> Holders \cup {Empty}]]
  BY <1>2 DEF Variables
<1>9. /\ those[h] = new
      /\ \A g \in Holders \ {h} : those[g] = holder[g]
  BY <1>4
<1>10. /\ objects \in [Objects -> [owner : Owners, value : {0, 1}]]
       /\ objects[o].owner = owner /\ objects[o].value = object[o].value
       /\ \A p \in Objects \ {o} : objects[p] = object[p]
  <2>1. owner \in Owners
    BY DEF Owners
  <2> QED
    BY <1>5, <2>1
<1>11. h # Empty /\ ~NamesHolder(h, packet, synced)
  BY <1>1, PacketAssumption DEF HoldersReferenced
<1>12. \A g \in Holders \ {h} : NamesHolder(g, packets, synced) => NamesHolder(g, packet, synced)
  BY <1>8 DEF NamesHolder
<1>13. \A g \in Holders : NamesHolder(g, packet, synced) => holder[g] \in HolderRecords
  BY DEF HoldersReferenced
<1>14. ASSUME NEW g \in Holders \ {h}, holder[g] \in HolderRecords, holder[g].ptr = o
       PROVE  foreign /\ holder[g].foreign
  <2>1. object[o].owner = IF holder[g].foreign THEN "caller" ELSE "holder"
    BY <1>14 DEF DataKept
  <2>2. t \notin {"holder", "caller"}
    BY PacketAssumption
  <2> QED
    BY <2>1, <2>2
<1>15. DataKept(those, objects)
  <2> SUFFICES ASSUME NEW g \in Holders, those[g] \in HolderRecords
               PROVE  /\ objects[those[g].ptr].value = those[g].value
                      /\ objects[those[g].ptr].owner =
                            IF those[g].foreign THEN "caller" ELSE "holder"
    BY DEF DataKept
  <2>1. CASE g = h
    BY <2>1, <1>7, <1>9, <1>10
  <2>2. CASE g # h
    <3>1. those[g] = holder[g] /\ holder[g].ptr \in Objects
      BY <1>9, <2>2 DEF HolderRecords
    <3>2. /\ object[holder[g].ptr].value = holder[g].value
          /\ object[holder[g].ptr].owner = IF holder[g].foreign THEN "caller" ELSE "holder"
      BY <3>1 DEF DataKept
    <3>3. CASE holder[g].ptr = o
      BY <1>10, <1>14, <2>2, <3>1, <3>2, <3>3
    <3>4. CASE holder[g].ptr # o
      BY <1>10, <3>1, <3>2, <3>4
    <3> QED
      BY <3>3, <3>4
  <2> QED
    BY <2>1, <2>2
<1>16. DataOwnedOnce(those)
  <2> SUFFICES ASSUME NEW f \in Holders, NEW g \in Holders, f # g,
                      those[f] \in HolderRecords, ~those[f].foreign,
                      those[g] \in HolderRecords, ~those[g].foreign,
                      those[f].ptr = those[g].ptr
               PROVE  FALSE
    BY DEF DataOwnedOnce
  <2>1. CASE f = h
    BY <2>1, <1>7, <1>9, <1>14
  <2>2. CASE g = h
    BY <2>2, <1>7, <1>9, <1>14
  <2>3. CASE f # h /\ g # h
    BY <2>3, <1>9 DEF DataOwnedOnce
  <2> QED
    BY <2>1, <2>2, <2>3
<1>17. OwnerExists(those, objects)
  <2> SUFFICES ASSUME NEW p \in Objects, objects[p].owner = "holder"
               PROVE  \E g \in Holders :
                        those[g] \in HolderRecords /\ ~those[g].foreign /\ those[g].ptr = p
    BY DEF OwnerExists
  <2>1. CASE p = o
    BY <2>1, <1>7, <1>9, <1>10
  <2>2. CASE p # o
    <3>1. PICK g \in Holders :
            holder[g] \in HolderRecords /\ ~holder[g].foreign /\ holder[g].ptr = p
      BY <1>10, <2>2 DEF OwnerExists
    <3> QED
      BY <1>1, <1>9, <3>1, PacketAssumption
  <2> QED
    BY <2>1, <2>2
<1>18. Sound(packets, synced, those, objects)
  <2>1. \A g \in Holders : those[g] \in HolderRecords \cup {Empty}
    BY <1>7, <1>9
  <2>2. \A g \in Holders : NamesHolder(g, packets, synced) => those[g] \in HolderRecords
    BY <1>7, <1>9, <1>12, <1>13
  <2> QED
    BY <1>8, <1>10, <1>15, <1>16, <1>17, <2>1, <2>2 DEF Sound
<1>19. Allowed(t, packets, synced, those)
  BY <1>8, <1>9, <1>11 DEF Allowed, Reachable
<1> QED
  BY <1>6, <1>18, <1>19, AssignKeepsInv

\* A thread that was alone with the data of its packet takes it out.
LEMMA ReleaseKeepsInv ==
  ASSUME PacketInv, NEW t \in PacketThreads, NEW owner \in {"nobody", t},
         consuming[t].op # "none", consuming[t].sole,
         Release(t, owner),
         consuming' = [consuming EXCEPT ![t] = NotConsuming]
  PROVE  PacketInv'
<1> USE DEF PacketInv, DataInv, PacketTypeOK
<1>1. PICK s : s = consuming[t].slot
  OBVIOUS
<1>2. s \in Variables
  BY <1>1 DEF ConsumingType, NotConsuming, Variables
<1>3. PICK h : h = packet[t][s]
  OBVIOUS
<1>4. /\ h # Empty /\ ~holder[h].foreign
      /\ OnlyReference(h, t, s, packet, synced)
  BY <1>1, <1>3 DEF ConsumersAlone
<1>5. h \in Holders /\ NamesHolder(h, packet, synced) /\ holder[h] \in HolderRecords
  BY <1>2, <1>3, <1>4 DEF NamesHolder, HoldersReferenced
<1>6. PICK o \in Objects : o = holder[h].ptr
  BY <1>5 DEF HolderRecords
<1>7. PICK packets : packets = [packet EXCEPT ![t][s] = Empty]
  OBVIOUS
<1>8. PICK those : those = [holder EXCEPT ![h].ptr = Empty]
  OBVIOUS
<1>9. PICK objects : objects = [object EXCEPT ![o] =
                                  IF owner = "nobody" THEN [owner |-> owner, value |-> 0]
                                                      ELSE [@ EXCEPT !.owner = owner]]
  OBVIOUS
<1>10. Assign(packets, synced, those, objects)
  BY <1>1, <1>3, <1>6, <1>7, <1>8, <1>9 DEF Release
<1>11. /\ packets[t][s] = Empty
       /\ \A v \in Variables : v # s => packets[t][v] = packet[t][v]
       /\ \A u \in PacketThreads \ {t} : packets[u] = packet[u]
       /\ packets \in [PacketThreads -> [Variables -> Holders \cup {Empty}]]
  BY <1>2, <1>7
<1>12. /\ those[h].ptr = Empty /\ those[h] \notin HolderRecords
       /\ \A g \in Holders \ {h} : those[g] = holder[g]
  <2>1. those[h].ptr = Empty
    BY <1>5, <1>8 DEF HolderRecords
  <2>2. those[h] \notin HolderRecords
    BY <2>1, PacketAssumption DEF HolderRecords
  <2> QED
    BY <1>8, <2>1, <2>2
<1>13. /\ objects \in [Objects -> [owner : Owners, value : {0, 1}]]
       /\ objects[o].owner = owner
       /\ \A p \in Objects \ {o} : objects[p] = object[p]
  <2>1. owner \in Owners
    BY DEF Owners
  <2> QED
    BY <1>9, <2>1
<1>14. ~NamesHolder(h, packets, synced)
  BY <1>2, <1>4, <1>11 DEF OnlyReference, NamesHolder
<1>15. \A g \in Holders : NamesHolder(g, packets, synced) => NamesHolder(g, packet, synced)
  BY <1>11, PacketAssumption DEF NamesHolder
<1>16. object[o].owner = "holder"
  BY <1>4, <1>5, <1>6 DEF DataKept
<1>17. ASSUME NEW g \in Holders \ {h}, holder[g] \in HolderRecords PROVE holder[g].ptr # o
  BY <1>4, <1>5, <1>6, <1>16, <1>17 DEF DataKept, DataOwnedOnce
<1>18. DataKept(those, objects)
  <2> SUFFICES ASSUME NEW g \in Holders, those[g] \in HolderRecords
               PROVE  /\ g # h /\ those[g] = holder[g]
                      /\ objects[holder[g].ptr] = object[holder[g].ptr]
    BY DEF DataKept
  <2>1. g # h /\ those[g] = holder[g]
    BY <1>12
  <2>2. holder[g].ptr \in Objects
    BY <2>1 DEF HolderRecords
  <2> QED
    BY <1>13, <1>17, <2>1, <2>2
<1>19. DataOwnedOnce(those)
  BY <1>12 DEF DataOwnedOnce
<1>20. OwnerExists(those, objects)
  <2> SUFFICES ASSUME NEW p \in Objects, objects[p].owner = "holder"
               PROVE  \E g \in Holders :
                        those[g] \in HolderRecords /\ ~those[g].foreign /\ those[g].ptr = p
    BY DEF OwnerExists
  <2>1. p # o
    BY <1>13, PacketAssumption
  <2>2. PICK g \in Holders :
          holder[g] \in HolderRecords /\ ~holder[g].foreign /\ holder[g].ptr = p
    BY <1>13, <2>1 DEF OwnerExists
  <2> QED
    BY <1>6, <1>12, <2>1, <2>2
<1>21. Sound(packets, synced, those, objects)
  <2>1. \A g \in Holders : those[g] \in HolderRecords \cup {Empty} \/ those[g].ptr = Empty
    BY <1>12
  <2>2. \A g \in Holders : NamesHolder(g, packets, synced) => those[g] \in HolderRecords
    BY <1>12, <1>14, <1>15 DEF HoldersReferenced
  <2> QED
    BY <1>11, <1>13, <1>18, <1>19, <1>20, <2>1, <2>2 DEF Sound
<1>22. Allowed(t, packets, synced, those)
  BY <1>11, <1>12, <1>14 DEF Allowed, Reachable
<1> QED
  BY <1>10, <1>21, <1>22, AssignKeepsInv

-----------------------------------------------------------------------------
\* Memory that no holder points to may change as long as no holder is said to
\* own it.
LEMMA UnheldMemory ==
  ASSUME PacketInv, NEW o \in Objects,
         \A h \in Holders : holder[h] \in HolderRecords => holder[h].ptr # o,
         NEW new \in [owner : Owners \ {"holder"}, value : {0, 1}],
         NEW objects, objects = [object EXCEPT ![o] = new]
  PROVE  /\ objects \in [Objects -> [owner : Owners, value : {0, 1}]]
         /\ DataKept(holder, objects)
         /\ OwnerExists(holder, objects)
<1> USE DEF PacketInv, DataInv, PacketTypeOK
<1>1. objects \in [Objects -> [owner : Owners, value : {0, 1}]]
  BY DEF Owners
<1>2. \A h \in Holders : holder[h] \in HolderRecords => objects[holder[h].ptr] = object[holder[h].ptr]
  BY DEF HolderRecords
<1>3. DataKept(holder, objects)
  BY <1>2 DEF DataKept
<1>4. OwnerExists(holder, objects)
  BY DEF OwnerExists
<1> QED
  BY <1>1, <1>3, <1>4

\* What a unique_ptr or nobody owns is in no holder.
LEMMA UniqueIsUnheld ==
  ASSUME PacketInv, NEW o \in Objects, object[o].owner \notin {"holder", "caller"}
  PROVE  \A h \in Holders : holder[h] \in HolderRecords => holder[h].ptr # o
BY DEF PacketInv, DataInv, DataKept

\* Steps that change only memory.
LEMMA MemoryKeepsInv ==
  ASSUME PacketInv, object' \in [Objects -> [owner : Owners, value : {0, 1}]],
         DataKept(holder, object'), OwnerExists(holder, object'),
         UNCHANGED <<holder, packet, synced, consuming>>
  PROVE  PacketInv'
<1>1. DataKept(holder, object)' /\ OwnerExists(holder, object)' /\ DataOwnedOnce(holder)'
  BY DEF PacketInv, DataInv, DataKept, OwnerExists, DataOwnedOnce
<1>2. PacketTypeOK' /\ HoldersReferenced' /\ ConsumersAlone'
  BY DEF PacketInv, DataInv, PacketTypeOK, HoldersReferenced, ConsumersAlone, NamesHolder, OnlyReference
<1> QED
  BY <1>1, <1>2 DEF PacketInv, DataInv

LEMMA UseUniqueKeepsInv ==
  ASSUME PacketInv, NEW t \in PacketThreads, NEW o \in Objects, UseUnique(t, o)
  PROVE  PacketInv'
<1>1. t \notin {"nobody", "holder", "caller"} /\ object[o].owner = t
  BY PacketAssumption DEF UseUnique
<1>2. object[o] \in [owner : Owners, value : {0, 1}]
  BY DEF PacketInv, DataInv, PacketTypeOK
<1>3. PICK new \in [owner : Owners \ {"holder"}, value : {0, 1}] : object' = [object EXCEPT ![o] = new]
  <2>1. CASE object' = [object EXCEPT ![o].value = 1 - @]
    <3>1. [owner |-> t, value |-> 1 - object[o].value] \in [owner : Owners \ {"holder"}, value : {0, 1}]
      BY <1>1, <1>2 DEF Owners
    <3>2. [object[o] EXCEPT !.value = 1 - object[o].value] = [owner |-> t, value |-> 1 - object[o].value]
      BY <1>1, <1>2
    <3> QED
      BY <2>1, <3>1, <3>2
  <2>2. CASE object' = [object EXCEPT ![o] = [owner |-> "nobody", value |-> 0]]
    <3>1. [owner |-> "nobody", value |-> 0] \in [owner : Owners \ {"holder"}, value : {0, 1}]
      BY DEF Owners
    <3> QED
      BY <2>2, <3>1
  <2> QED
    BY <2>1, <2>2 DEF UseUnique
<1>4. \A h \in Holders : holder[h] \in HolderRecords => holder[h].ptr # o
  BY <1>1, UniqueIsUnheld
<1>5. /\ object' \in [Objects -> [owner : Owners, value : {0, 1}]]
      /\ DataKept(holder, object') /\ OwnerExists(holder, object')
  BY <1>3, <1>4, UnheldMemory
<1> QED
  BY <1>5, MemoryKeepsInv DEF UseUnique

LEMMA CallersMemoryKeepsInv ==
  ASSUME PacketInv, NEW o \in Objects, CallersMemory(o)
  PROVE  PacketInv'
<1>1. object[o] \in [owner : Owners, value : {0, 1}]
  BY DEF PacketInv, DataInv, PacketTypeOK
<1>2. PICK owner \in {"nobody", "caller"} : object' = [object EXCEPT ![o].owner = owner]
  BY DEF CallersMemory
<1>3. PICK new : new = [owner |-> owner, value |-> object[o].value]
  OBVIOUS
<1>4. new \in [owner : Owners \ {"holder"}, value : {0, 1}]
  BY <1>1, <1>3 DEF Owners
<1>5. [object[o] EXCEPT !.owner = owner] = new
  BY <1>1, <1>3
<1>6. object' = [object EXCEPT ![o] = new]
  BY <1>2, <1>5
<1>7. \A h \in Holders : holder[h] \in HolderRecords => holder[h].ptr # o
  BY PacketAssumption DEF CallersMemory
<1>8. /\ object' \in [Objects -> [owner : Owners, value : {0, 1}]]
      /\ DataKept(holder, object') /\ OwnerExists(holder, object')
  BY <1>4, <1>6, <1>7, UnheldMemory
<1> QED
  BY <1>8, MemoryKeepsInv DEF CallersMemory

\* ConsumeOrCopy of data that others have too: a copy, in memory of its own.
LEMMA CopyOutKeepsInv ==
  ASSUME PacketInv, NEW t \in PacketThreads, NEW s, s = consuming[t].slot,
         consuming[t].op # "none", NEW o \in Objects, NEW from \in Objects,
         object[o].owner = "nobody",
         Assign([packet EXCEPT ![t][s] = Empty], synced, holder,
                [object EXCEPT ![o] = [owner |-> t, value |-> object[from].value]]),
         consuming' = [consuming EXCEPT ![t] = NotConsuming]
  PROVE  PacketInv'
<1> USE DEF PacketInv, DataInv, PacketTypeOK
<1>1. s \in Variables
  BY DEF ConsumingType, NotConsuming, Variables
<1>2. PICK packets : packets = [packet EXCEPT ![t][s] = Empty]
  OBVIOUS
<1>3. PICK new : new = [owner |-> t, value |-> object[from].value]
  OBVIOUS
<1>4. PICK objects : objects = [object EXCEPT ![o] = new]
  OBVIOUS
<1>5. Assign(packets, synced, holder, objects)
  BY <1>2, <1>3, <1>4
<1>6. new \in [owner : Owners \ {"holder"}, value : {0, 1}]
  BY <1>3, PacketAssumption DEF Owners
<1>7. \A h \in Holders : holder[h] \in HolderRecords => holder[h].ptr # o
  BY UniqueIsUnheld
<1>8. /\ objects \in [Objects -> [owner : Owners, value : {0, 1}]]
      /\ DataKept(holder, objects) /\ OwnerExists(holder, objects)
  BY <1>4, <1>6, <1>7, UnheldMemory
<1>9. /\ packets[t][s] = Empty
      /\ \A v \in Variables : v # s => packets[t][v] = packet[t][v]
      /\ \A u \in PacketThreads \ {t} : packets[u] = packet[u]
      /\ packets \in [PacketThreads -> [Variables -> Holders \cup {Empty}]]
  BY <1>1, <1>2
<1>10. \A g \in Holders : NamesHolder(g, packets, synced) => NamesHolder(g, packet, synced)
  BY <1>9, PacketAssumption DEF NamesHolder
<1>11. Sound(packets, synced, holder, objects)
  BY <1>8, <1>9, <1>10 DEF Sound, HoldersReferenced
<1>12. Allowed(t, packets, synced, holder)
  BY <1>9 DEF Allowed, Reachable
<1> QED
  BY <1>5, <1>11, <1>12, AssignKeepsInv

\* The test of the owner: with a count of one nobody else can get at the data
\* before it is taken out.
LEMMA StartConsumeKeepsInv ==
  ASSUME PacketInv, NEW t \in PacketThreads, NEW s \in Slots, NEW T,
         NEW op \in {"Consume", "ConsumeOrCopy", "ConsumeAndVisit"},
         StartConsume(t, s, T, op)
  PROVE  PacketInv'
<1> USE DEF PacketInv, DataInv
<1>1. PICK h : h = packet[t][s]
  OBVIOUS
<1>2. PICK sole \in BOOLEAN : sole <=> ValidateAsType(h, T) /\ SoleOwner(h)
  OBVIOUS
<1>3. sole = (ValidateAsType(h, T) /\ SoleOwner(h))
  BY <1>2
<1>4. /\ h # Empty /\ (sole \/ op = "ConsumeOrCopy")
      /\ consuming' = [consuming EXCEPT ![t] = [op |-> op, slot |-> s, sole |-> sole]]
      /\ UNCHANGED <<object, holder, packet, synced>>
  BY <1>1, <1>3 DEF StartConsume, ValidateAsType
<1>5. sole => ~holder[h].foreign /\ OnlyReference(h, t, s, packet, synced)
  <2>1. s \in Variables
    BY DEF Variables
  <2> QED
    BY <1>1, <1>2, <2>1, CountOfReferences DEF SoleOwner
<1>6. PacketTypeOK'
  <2>1. [op |-> op, slot |-> s, sole |-> sole] \in
           [op : {"Consume", "ConsumeOrCopy", "ConsumeAndVisit"}, slot : Slots, sole : BOOLEAN]
    OBVIOUS
  <2>2. consuming' \in ConsumingType
    BY <1>4, <2>1 DEF PacketTypeOK, ConsumingType
  <2> QED
    BY <1>4, <2>2 DEF PacketTypeOK
<1>7. HoldersReferenced' /\ DataKept(holder, object)' /\ DataOwnedOnce(holder)' /\ OwnerExists(holder, object)'
  BY <1>4 DEF HoldersReferenced, DataKept, DataOwnedOnce, OwnerExists, NamesHolder
<1>8. ConsumersAlone'
  <2> SUFFICES ASSUME NEW u \in PacketThreads, consuming'[u].op # "none"
               PROVE  /\ packet[u][consuming'[u].slot] # Empty
                      /\ consuming'[u].sole \/ consuming'[u].op = "ConsumeOrCopy"
                      /\ consuming'[u].sole =>
                           /\ ~holder[packet[u][consuming'[u].slot]].foreign
                           /\ OnlyReference(packet[u][consuming'[u].slot], u,
                                            consuming'[u].slot, packet, synced)
    BY <1>4 DEF ConsumersAlone, OnlyReference
  <2>1. CASE u = t
    <3>1. consuming'[t] = [op |-> op, slot |-> s, sole |-> sole]
      BY <1>4 DEF PacketTypeOK, ConsumingType
    <3> QED
      BY <1>1, <1>4, <1>5, <2>1, <3>1
  <2>2. CASE u # t
    <3>1. consuming'[u] = consuming[u]
      BY <1>4, <2>2 DEF PacketTypeOK, ConsumingType
    <3> QED
      BY <3>1 DEF ConsumersAlone
  <2> QED
    BY <2>1, <2>2
<1> QED
  BY <1>6, <1>7, <1>8

-----------------------------------------------------------------------------
LEMMA InitPacketInv == PacketInit => PacketInv
<1> SUFFICES ASSUME PacketInit PROVE PacketInv
  OBVIOUS
<1> USE DEF PacketInit
<1>1. PacketTypeOK
  <2>1. [owner |-> "nobody", value |-> 0] \in [owner : Owners, value : {0, 1}]
    BY DEF Owners
  <2> QED
    BY <2>1 DEF PacketTypeOK, ConsumingType
<1>2. HoldersReferenced
  BY PacketAssumption DEF HoldersReferenced, NamesHolder
<1>3. DataKept(holder, object) /\ DataOwnedOnce(holder) /\ OwnerExists(holder, object)
  BY PacketAssumption DEF DataKept, DataOwnedOnce, OwnerExists
<1>4. ConsumersAlone
  BY DEF ConsumersAlone, NotConsuming
<1> QED
  BY <1>1, <1>2, <1>3, <1>4 DEF PacketInv, DataInv

LEMMA UsePacketKeepsInv ==
  ASSUME PacketInv, NEW t \in PacketThreads, UsePacket(t)
  PROVE  PacketInv'
<1>1. PICK s \in Slots :
          \/ /\ \/ \E o \in Objects : \/ MakePacket(t, s, o)
                                      \/ Adopt(t, s, o)
                                      \/ PointToForeign(t, s, o)
                                      \/ PacketFromDynamicProto(t, s, o)
                \/ \E to \in Slots : At(t, s, to)
                \/ SharedPtrWithPacket(t, s)
                \/ UpdatePacket(t, s)
                \/ GetSynced(t, s)
             /\ UNCHANGED consuming
          \/ \E T \in Requested :
                \E op \in {"Consume", "ConsumeOrCopy"} : StartConsume(t, s, T, op)
          \/ packet[t][s] # Empty /\ \E first, second \in Requested :
                StartConsume(t, s, VisitedType(packet[t][s], <<first, second>>),
                             "ConsumeAndVisit")
  BY DEF UsePacket
<1>2. packet \in [PacketThreads -> [Variables -> Holders \cup {Empty}]]
      /\ synced \in Holders \cup {Empty} /\ Slots \subseteq Variables /\ "shared" \in Variables
  BY DEF PacketInv, DataInv, PacketTypeOK, Variables
<1>3. UNCHANGED consuming => consuming' = [consuming EXCEPT ![t] = NotConsuming]
  BY DEF UsePacket, PacketInv, DataInv, PacketTypeOK, ConsumingType
<1>4. CASE UNCHANGED consuming /\ \E o \in Objects : \/ MakePacket(t, s, o)
                                      \/ Adopt(t, s, o)
                                      \/ PointToForeign(t, s, o)
                                      \/ PacketFromDynamicProto(t, s, o)
  <2>1. PICK o \in Objects : \/ MakePacket(t, s, o)
                             \/ Adopt(t, s, o)
                             \/ PointToForeign(t, s, o)
                             \/ PacketFromDynamicProto(t, s, o)
    BY <1>4
  <2>2. CASE MakePacket(t, s, o) \/ Adopt(t, s, o) \/ PacketFromDynamicProto(t, s, o)
    <3>1. object[o].owner \in {"nobody", t} /\ Create(t, s, o, FALSE, "holder")
      BY <2>2 DEF MakePacket, Adopt, PacketFromDynamicProto
    <3> QED
      BY <1>3, <1>4, <3>1, CreateKeepsInv
  <2>3. CASE PointToForeign(t, s, o)
    <3>1. object[o].owner = "caller" /\ Create(t, s, o, TRUE, "caller")
      BY <2>3 DEF PointToForeign
    <3> QED
      BY <1>3, <1>4, <3>1, CreateKeepsInv
  <2> QED
    BY <2>1, <2>2, <2>3
<1>5. CASE UNCHANGED consuming /\ \E to \in Slots : At(t, s, to)
  <2>1. PICK to \in Slots : CopyPacket(t, s, to) \/ MovePacket(t, s, to)
    BY <1>5 DEF At
  <2>2. PICK packets :
          /\ \/ packets = [packet EXCEPT ![t][to] = packet[t][s]]
             \/ packets = [packet EXCEPT ![t][to] = packet[t][s], ![t][s] = Empty]
          /\ Assign(packets, synced, holder, object)
    BY <2>1 DEF CopyPacket, MovePacket
  <2>3. Moved(t, packets, synced)
    BY <1>2, <2>2 DEF Moved
  <2> QED
    BY <1>2, <1>3, <1>5, <2>2, <2>3, MovingReferences
<1>6. CASE UNCHANGED consuming /\ SharedPtrWithPacket(t, s)
  <2>1. PICK packets : /\ packets = [packet EXCEPT ![t]["shared"] = packet[t][s]]
                       /\ Assign(packets, synced, holder, object)
    BY <1>6 DEF SharedPtrWithPacket
  <2>2. Moved(t, packets, synced)
    BY <1>2, <2>1 DEF Moved
  <2> QED
    BY <1>2, <1>3, <1>6, <2>1, <2>2, MovingReferences
<1>7. CASE UNCHANGED consuming /\ UpdatePacket(t, s)
  <2>1. PICK shared : shared = packet[t][s] /\ Assign(packet, shared, holder, object)
    BY <1>7 DEF UpdatePacket
  <2>2. Moved(t, packet, shared)
    BY <1>2, <2>1 DEF Moved
  <2> QED
    BY <1>2, <1>3, <1>7, <2>1, <2>2, MovingReferences
<1>8. CASE UNCHANGED consuming /\ GetSynced(t, s)
  <2>1. PICK packets : /\ packets = [packet EXCEPT ![t][s] = synced]
                       /\ Assign(packets, synced, holder, object)
    BY <1>8 DEF GetSynced
  <2>2. Moved(t, packets, synced)
    BY <1>2, <2>1 DEF Moved
  <2> QED
    BY <1>2, <1>3, <1>8, <2>1, <2>2, MovingReferences
<1>9. CASE \E T \in Requested :
             \E op \in {"Consume", "ConsumeOrCopy"} : StartConsume(t, s, T, op)
  BY <1>9, StartConsumeKeepsInv
<1>10. CASE \E first, second \in Requested :
                StartConsume(t, s, VisitedType(packet[t][s], <<first, second>>),
                             "ConsumeAndVisit")
  BY <1>10, StartConsumeKeepsInv
<1> QED
  BY <1>1, <1>4, <1>5, <1>6, <1>7, <1>8, <1>9, <1>10

LEMMA NextKeepsInv == PacketInv /\ [PacketNext]_packetVars => PacketInv'
<1> SUFFICES ASSUME PacketInv, [PacketNext]_packetVars PROVE PacketInv'
  OBVIOUS
<1>1. ASSUME NEW t \in PacketThreads, UsePacket(t) PROVE PacketInv'
  BY <1>1, UsePacketKeepsInv
<1>2. ASSUME NEW t \in PacketThreads, NEW s \in Variables,
             consuming[t] = NotConsuming, Clear(t, s), UNCHANGED consuming
      PROVE  PacketInv'
  <2>1. PICK packets : /\ packets = [packet EXCEPT ![t][s] = Empty]
                       /\ Assign(packets, synced, holder, object)
    BY <1>2 DEF Clear
  <2>2. Moved(t, packets, synced)
    BY <2>1 DEF Moved, PacketInv, DataInv, PacketTypeOK
  <2>3. consuming' = [consuming EXCEPT ![t] = NotConsuming]
    BY <1>2 DEF PacketInv, DataInv, PacketTypeOK, ConsumingType
  <2> QED
    BY <2>1, <2>2, <2>3, MovingReferences
<1>3. ASSUME NEW t \in PacketThreads, FinishConsume(t) \/ FinishVisit(t) PROVE PacketInv'
  <2>1. /\ consuming[t].op # "none" /\ consuming[t].sole
        /\ Release(t, t) \/ Release(t, "nobody")
        /\ consuming' = [consuming EXCEPT ![t] = NotConsuming]
    BY <1>3 DEF FinishConsume, FinishVisit, PacketInv, ConsumersAlone
  <2> QED
    BY <2>1, ReleaseKeepsInv
<1>4. ASSUME NEW t \in PacketThreads, FinishConsumeOrCopy(t) PROVE PacketInv'
  <2>1. consuming[t].op # "none" /\ consuming' = [consuming EXCEPT ![t] = NotConsuming]
    BY <1>4 DEF FinishConsumeOrCopy
  <2>2. CASE consuming[t].sole /\ Release(t, t)
    BY <2>1, <2>2, ReleaseKeepsInv
  <2>3. CASE ~(consuming[t].sole /\ Release(t, t))
    <3>1. PICK s : s = consuming[t].slot
      OBVIOUS
    <3>2. PICK from : from = holder[packet[t][s]].ptr
      OBVIOUS
    <3>3. PICK o \in Objects :
            /\ object[o].owner = "nobody"
            /\ Assign([packet EXCEPT ![t][s] = Empty], synced, holder,
                      [object EXCEPT ![o] = [owner |-> t, value |-> object[from].value]])
      BY <1>4, <2>3, <3>1, <3>2 DEF FinishConsumeOrCopy
    <3>4. s \in Variables /\ packet[t][s] # Empty
      BY <2>1, <3>1 DEF PacketInv, ConsumersAlone, DataInv, PacketTypeOK, ConsumingType,
                        NotConsuming, Variables
    <3>5. packet[t][s] \in Holders /\ NamesHolder(packet[t][s], packet, synced)
      BY <3>4 DEF PacketInv, DataInv, PacketTypeOK, NamesHolder
    <3>6. holder[packet[t][s]] \in HolderRecords
      BY <3>5 DEF PacketInv, DataInv, PacketTypeOK, HoldersReferenced
    <3>7. from \in Objects
      BY <3>2, <3>6 DEF HolderRecords
    <3> QED
      BY <2>1, <3>1, <3>3, <3>7, CopyOutKeepsInv
  <2> QED
    BY <2>2, <2>3
<1>5. CASE UNCHANGED packetVars
  BY <1>5 DEF packetVars, PacketInv, DataInv, PacketTypeOK, HoldersReferenced, DataKept,
              DataOwnedOnce, OwnerExists, ConsumersAlone, NamesHolder, OnlyReference
<1> QED
  BY <1>1, <1>2, <1>3, <1>4, <1>5, UseUniqueKeepsInv, CallersMemoryKeepsInv DEF PacketNext

LEMMA InvImpliesIntact == PacketInv => PacketDataIntact
<1> SUFFICES ASSUME PacketInv PROVE PacketDataIntact
  OBVIOUS
<1> USE DEF PacketInv, DataInv
<1>1. ASSUME NEW h, h \in ReferencedBy \ {Empty}
      PROVE  /\ h \in Holders /\ holder[h] \in HolderRecords
             /\ holder[h].ptr # Empty
             /\ object[holder[h].ptr].value = holder[h].value
             /\ object[holder[h].ptr].owner = IF holder[h].foreign THEN "caller" ELSE "holder"
  <2>1. h \in Holders /\ NamesHolder(h, packet, synced)
    BY <1>1 DEF ReferencedBy, NamesHolder, PacketTypeOK
  <2>2. holder[h] \in HolderRecords
    BY <2>1 DEF HoldersReferenced, PacketTypeOK
  <2>3. holder[h].ptr # Empty
    BY <2>2, PacketAssumption DEF HolderRecords
  <2> QED
    BY <2>1, <2>2, <2>3 DEF DataKept
<1>2. ASSUME NEW o \in Objects, object[o].owner = "holder"
      PROVE  Cardinality({h \in ReferencedBy \ {Empty} : holder[h].ptr = o}) = 1
  <2>1. PICK g \in Holders :
          holder[g] \in HolderRecords /\ ~holder[g].foreign /\ holder[g].ptr = o
    BY <1>2 DEF OwnerExists
  <2>2. g # Empty /\ holder[g] # Empty
    BY <2>1, PacketAssumption
  <2>3. g \in ReferencedBy
    BY <2>2 DEF HoldersReferenced, NamesHolder, ReferencedBy
  <2>4. ASSUME NEW h \in ReferencedBy \ {Empty}, holder[h].ptr = o PROVE h = g
    <3>1. h \in Holders /\ holder[h] \in HolderRecords /\ ~holder[h].foreign
      BY <1>1, <1>2, <2>4
    <3> QED
      BY <2>1, <2>4, <3>1 DEF DataOwnedOnce
  <2>5. {h \in ReferencedBy \ {Empty} : holder[h].ptr = o} = {g}
    BY <2>1, <2>2, <2>3, <2>4
  <2> QED
    BY <2>5, FS_Singleton
<1> QED
  BY <1>1, <1>2 DEF PacketDataIntact

\* Whoever copies, moves, shares or consumes, every packet finds its data as it
\* was packed, owned by its one holder or the foreign caller: the count that
\* Consume reads is still one when it takes the data out.
THEOREM PacketDataStaysIntact == PacketSpec => []PacketDataIntact
<1>1. PacketSpec => []PacketInv
  BY InitPacketInv, NextKeepsInv, PTL DEF PacketSpec
<1> QED
  BY <1>1, InvImpliesIntact, PTL
=============================================================================
