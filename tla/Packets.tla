------------------------------- MODULE Packets -------------------------------
(***************************************************************************)
(* Packet and its holder: who owns the data of a packet, and when it may   *)
(* be taken out again.                                                     *)
(*                                                                         *)
(* A packet is a counted reference to a holder, and the holder owns the    *)
(* data (Holder) or only points to it (ForeignHolder).  Consume and        *)
(* ConsumeOrCopy look at the count of references first and release the     *)
(* data of the holder after that: two steps, with the other threads' steps *)
(* in between.  A Packet is thread compatible, so a thread only uses the   *)
(* packets it has itself; what threads share they pass through a           *)
(* SyncedPacket.  Timestamps, which take no part in ownership, are left    *)
(* out: At on an lvalue copies and on an rvalue moves.                     *)
(***************************************************************************)
EXTENDS Naturals, FiniteSets, Sequences

CONSTANTS
    PacketThreads,        \* the threads that use packets
    Slots,          \* the packet variables of each thread
    Objects,        \* the pieces of memory that can hold data
    Holders,        \* the holders that can be allocated
    DataType,       \* the type of the data in each piece of memory
    Requested,      \* the types packets are asked for
    ProtoTypes,     \* the types that are registered protocol buffers
    Empty           \* no holder, no memory

\* What is known of a holder that has its data.
HolderRecords ==
    [type : {DataType[o] : o \in Objects}, ptr : Objects, foreign : BOOLEAN, value : {0, 1}]

ASSUME PacketAssumption ==
    /\ IsFiniteSet(PacketThreads) /\ IsFiniteSet(Slots)
    /\ PacketThreads \cap {"nobody", "holder", "caller"} = {}
    /\ Empty \notin Holders \cup Objects \cup HolderRecords

VARIABLES
    object,     \* memory: its owner and its value
    holder,     \* holders: [type, ptr, foreign, value when packed], or Empty
    packet,     \* the holder of every packet variable, or Empty
    synced,     \* the holder of the packet in the SyncedPacket, or Empty
    consuming   \* the Consume each thread is in, between its two steps

packetVars == <<object, holder, packet, synced, consuming>>

\* A std::shared_ptr<const T> of SharedPtrWithPacket is one more reference.
Variables == Slots \cup {"shared"}
NotConsuming == [op |-> "none"]

PacketInit ==
    /\ object = [o \in Objects |-> [owner |-> "nobody", value |-> 0]]
    /\ holder = [h \in Holders |-> Empty]
    /\ packet = [t \in PacketThreads |-> [s \in Variables |-> Empty]]
    /\ synced = Empty
    /\ consuming = [t \in PacketThreads |-> NotConsuming]

-----------------------------------------------------------------------------
\* std::shared_ptr::use_count of holder_.
Refs(h, packets, shared) ==
    Cardinality({x \in PacketThreads \X Variables : packets[x[1]][x[2]] = h})
    + (IF shared = h THEN 1 ELSE 0)

\* ~Holder deletes the data unless it was released; ~ForeignHolder clears the
\* pointer first, so that nothing is deleted.
Deletes(h) == h.ptr # Empty /\ ~h.foreign

\* The references become packets and shared: a holder without any is destroyed.
Assign(packets, shared, holders, objects) ==
    LET dead == {h \in Holders : holders[h] # Empty /\ Refs(h, packets, shared) = 0}
    IN  /\ packet' = packets
        /\ synced' = shared
        /\ holder' = [h \in Holders |-> IF h \in dead THEN Empty ELSE holders[h]]
        /\ object' = [o \in Objects |->
                        IF \E h \in dead : Deletes(holders[h]) /\ holders[h].ptr = o
                        THEN [owner |-> "nobody", value |-> 0] ELSE objects[o]]

\* Create: a packet whose holder_ is a new holder of the object.
Create(t, s, o, foreign, owner) ==
    \E h \in Holders :
        /\ holder[h] = Empty
        /\ Assign([packet EXCEPT ![t][s] = h], synced,
                  [holder EXCEPT ![h] = [type |-> DataType[o], ptr |-> o,
                                         foreign |-> foreign, value |-> object[o].value]],
                  [object EXCEPT ![o].owner = owner])

\* MakePacket, and api2::MakePacket: new data in a new holder.
MakePacket(t, s, o) ==
    /\ object[o].owner = "nobody"
    /\ Create(t, s, o, FALSE, "holder")

\* Adopt and api2::PacketAdopting: the data of a unique_ptr, given up by it.
Adopt(t, s, o) ==
    /\ object[o].owner = t
    /\ Create(t, s, o, FALSE, "holder")

\* PointToForeign: the data stays with the caller, who keeps it as long as
\* any packet points to it.
PointToForeign(t, s, o) ==
    /\ object[o].owner = "caller"
    /\ Create(t, s, o, TRUE, "caller")

\* GetProtoMessageLite of a holder: the data of a protocol buffer, else null.
GetProtoMessageLite(T) == T \in ProtoTypes

\* PacketFromDynamicProto: the holder made by the registered factory of the
\* type's name; a type that never was in a Packet is not registered.
PacketFromDynamicProto(t, s, o) ==
    /\ object[o].owner = "nobody"
    /\ GetProtoMessageLite(DataType[o])
    /\ Create(t, s, o, FALSE, "holder")

-----------------------------------------------------------------------------
\* The copy constructor and copy assignment, and the conversions of api2 from a
\* const packet.
CopyPacket(t, s, to) ==
    /\ s # to
    /\ Assign([packet EXCEPT ![t][to] = packet[t][s]], synced, holder, object)

\* The move constructor and move assignment, and the conversions of api2 from
\* an rvalue.  Moving a packet onto itself does nothing.
MovePacket(t, s, to) ==
    /\ s # to
    /\ Assign([packet EXCEPT ![t][to] = packet[t][s], ![t][s] = Empty],
              synced, holder, object)

\* At: a copy of an lvalue with a timestamp, or an rvalue moved to a new packet.
At(t, s, to) == CopyPacket(t, s, to) \/ MovePacket(t, s, to)

\* The destructor, or the assignment of an empty packet.
Clear(t, s) ==
    /\ packet[t][s] # Empty
    /\ Assign([packet EXCEPT ![t][s] = Empty], synced, holder, object)

\* SharedPtrWithPacket: the deleter of the pointer keeps a copy of the packet.
SharedPtrWithPacket(t, s) ==
    /\ packet[t][s] # Empty
    /\ Assign([packet EXCEPT ![t]["shared"] = packet[t][s]], synced, holder, object)

\* SyncedPacket::UpdatePacket, under the writer lock, and Get, under the
\* reader lock.
UpdatePacket(t, s) ==
    /\ synced # packet[t][s]
    /\ Assign(packet, packet[t][s], holder, object)

GetSynced(t, s) ==
    /\ packet[t][s] # synced
    /\ Assign([packet EXCEPT ![t][s] = synced], synced, holder, object)

-----------------------------------------------------------------------------
\* As<T> of a holder finds data of exactly that type.
As(h, T) == holder[h].type = T

\* ValidateAsType: not empty, and of the type.
ValidateAsType(h, T) == h # Empty /\ As(h, T)

\* Seeded fault: any packet may give its data away.
AnyOwner(h) == ~holder[h].foreign
\* The condition of Consume and ConsumeOrCopy.
SoleOwner(h) == ~holder[h].foreign /\ Refs(h, packet, synced) = 1

\* Consume<T> up to the test of the owner; the status is returned at once when
\* the type is wrong or another owner exists.  op tells Consume from
\* ConsumeOrCopy and from ConsumeAndVisit.
StartConsume(t, s, T, op) ==
    LET h == packet[t][s]
        sole == ValidateAsType(h, T) /\ SoleOwner(h)
    IN  /\ ValidateAsType(h, T) /\ (sole \/ op = "ConsumeOrCopy")
        /\ consuming' = [consuming EXCEPT ![t] =
               [op |-> op, slot |-> s, sole |-> sole]]
        /\ UNCHANGED <<object, holder, packet, synced>>

\* Release: the pointer leaves the holder; then holder_ is reset.
Release(t, owner) ==
    LET s == consuming[t].slot
        h == packet[t][s]
        o == holder[h].ptr
    IN  Assign([packet EXCEPT ![t][s] = Empty], synced,
               [holder EXCEPT ![h].ptr = Empty],
               [object EXCEPT ![o] = IF owner = "nobody"
                                     THEN [owner |-> owner, value |-> 0]
                                     ELSE [@ EXCEPT !.owner = owner]])

\* The rest of Consume: the data belongs to the caller's unique_ptr.
FinishConsume(t) ==
    /\ consuming[t].op = "Consume"
    /\ Release(t, t)
    /\ consuming' = [consuming EXCEPT ![t] = NotConsuming]

\* ConsumeAndVisit of a Packet<OneOf>: the visitor of the type it has takes the
\* unique_ptr, and the data goes when it returns.
FinishVisit(t) ==
    /\ consuming[t].op = "ConsumeAndVisit"
    /\ Release(t, "nobody")
    /\ consuming' = [consuming EXCEPT ![t] = NotConsuming]

\* The rest of ConsumeOrCopy: as Consume, or a copy of the data, and holder_
\* is reset either way.
FinishConsumeOrCopy(t) ==
    LET s == consuming[t].slot
        from == holder[packet[t][s]].ptr
    IN  /\ consuming[t].op = "ConsumeOrCopy"
        /\ \/ consuming[t].sole /\ Release(t, t)
           \/ /\ ~consuming[t].sole
              /\ \E o \in Objects :
                    /\ object[o].owner = "nobody" /\ DataType[o] = DataType[from]
                    /\ Assign([packet EXCEPT ![t][s] = Empty], synced, holder,
                              [object EXCEPT ![o] = [owner |-> t,
                                                     value |-> object[from].value]])
        /\ consuming' = [consuming EXCEPT ![t] = NotConsuming]

\* The types a Packet<OneOf<U, V>> is asked for: the one Has finds, in their
\* order, and the last when there is none.
VisitedType(h, alternatives) ==
    LET found == {i \in 1 .. Len(alternatives) : ValidateAsType(h, alternatives[i])}
    IN  IF found = {} THEN alternatives[Len(alternatives)]
        ELSE alternatives[CHOOSE i \in found : \A j \in found : i <= j]

\* What the owner of a unique_ptr may do: change the data, or delete it.
UseUnique(t, o) ==
    /\ object[o].owner = t
    /\ \/ object' = [object EXCEPT ![o].value = 1 - @]
       \/ object' = [object EXCEPT ![o] = [owner |-> "nobody", value |-> 0]]
    /\ UNCHANGED <<holder, packet, synced, consuming>>

\* The caller's memory exists before a packet points to it, and until no
\* packet does.
CallersMemory(o) ==
    /\ \A h \in Holders : holder[h] # Empty => holder[h].ptr # o
    /\ \/ object[o].owner = "nobody" /\ object' = [object EXCEPT ![o].owner = "caller"]
       \/ object[o].owner = "caller" /\ object' = [object EXCEPT ![o].owner = "nobody"]
    /\ UNCHANGED <<holder, packet, synced, consuming>>

-----------------------------------------------------------------------------
UsePacket(t) ==
    /\ consuming[t] = NotConsuming
    /\ \E s \in Slots :
          \/ /\ \/ \E o \in Objects : \/ MakePacket(t, s, o)
                                      \/ Adopt(t, s, o)
                                      \/ PointToForeign(t, s, o)
                                      \/ PacketFromDynamicProto(t, s, o)
                \/ \E to \in Slots : At(t, s, to)
                \/ SharedPtrWithPacket(t, s)
                \/ UpdatePacket(t, s)
                \/ GetSynced(t, s)
             /\ UNCHANGED consuming
          \/ \E T \in Requested :
                \E op \in {"Consume", "ConsumeOrCopy"} : StartConsume(t, s, T, op)
          \/ packet[t][s] # Empty /\ \E first, second \in Requested :
                StartConsume(t, s, VisitedType(packet[t][s], <<first, second>>),
                             "ConsumeAndVisit")

PacketNext ==
    \/ \E t \in PacketThreads :
          \/ UsePacket(t)
          \/ \E s \in Variables : consuming[t] = NotConsuming /\ Clear(t, s)
                                  /\ UNCHANGED consuming
          \/ FinishConsume(t) \/ FinishVisit(t) \/ FinishConsumeOrCopy(t)
          \/ \E o \in Objects : UseUnique(t, o)
    \/ \E o \in Objects : CallersMemory(o)

PacketSpec == PacketInit /\ [][PacketNext]_packetVars

-----------------------------------------------------------------------------
ReferencedBy == {packet[t][s] : t \in PacketThreads, s \in Variables} \cup {synced}

\* Every packet that is not empty still finds its data, unchanged since it was
\* packed and owned by nobody but its holder or the foreign caller, whatever
\* the other threads consume meanwhile; data a holder owns is in exactly one
\* holder, and none is left without one.
PacketDataIntact ==
    /\ \A h \in ReferencedBy \ {Empty} :
          /\ holder[h].ptr # Empty
          /\ object[holder[h].ptr].value = holder[h].value
          /\ object[holder[h].ptr].owner = IF holder[h].foreign THEN "caller" ELSE "holder"
    /\ \A o \in Objects : object[o].owner = "holder" =>
          Cardinality({h \in ReferencedBy \ {Empty} : holder[h].ptr = o}) = 1
==============================================================================
