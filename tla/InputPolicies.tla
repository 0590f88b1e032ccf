---------------------------- MODULE InputPolicies ----------------------------
(***************************************************************************)
(* The policies by which a node takes packets from its input streams       *)
(* (stream_handler/): all streams together, sets of them, each on its own, *)
(* behind a barrier, selected by a control stream, with offsets between    *)
(* their clocks, or only the newest packets.                               *)
(*                                                                         *)
(* GetNodeReadiness() and FillInputSet() are separate steps between which  *)
(* packets and bounds arrive.  A packet is its timestamp; streams are      *)
(* numbered in the order of their ids.                                     *)
(***************************************************************************)
EXTENDS Timestamp, Sequences, FiniteSets, FiniteSetsExt

CONSTANTS NumStreams,
          Policies,      \* [kind, bounds, sets]: the handlers and their options
          PolicyTimes,   \* timestamps of packets
          PolicyBounds,  \* bounds announced
          Selected,      \* the data stream a control packet selects, by time
          TriggerSize, TargetSize, \* options of FixedSizeInputStreamHandler
          MaxPackets     \* bound: packets of a stream

VARIABLES policy,
          q, bound, sel,   \* queue, bound and last selected time of each stream
          sync_sets,       \* [streams, last, ready]
          ready_index, ready_timestamp, \* of SyncSetInputStreamHandler
          pending, kept,   \* of FixedSizeInputStreamHandler
          offsets, offsets_initialized, \* of TimestampAlignInputStreamHandler
          decided,         \* the timestamp FillInputSet() will be called with
          answer,          \* what GetNodeReadiness() returned, "" once it is out of date
          accepted, got,   \* the packets of each stream, and those delivered
          input_sets,      \* [ts, streams]: the input sets made so far
          failed           \* a CHECK failed

arrivalVars == <<q, bound, accepted>>
fixedVars == <<pending, kept>>
alignVars == <<offsets, offsets_initialized>>
setVars == <<sync_sets, ready_index, ready_timestamp>>
policyVars == <<policy, arrivalVars, sel, setVars, fixedVars, alignVars, decided, answer,
                got, input_sets, failed>>

PolicyStreams == 1 .. NumStreams
Control == NumStreams
Base == 1
Least(S) == Min(S \cup {Done})
Front1(s) == IF q[s] = <<>> THEN bound[s] ELSE Head(q[s])
EmptySet == {s \in PolicyStreams : q[s] = <<>>}

\* PrepareForRun(): streams that no option names form the last sync set.
PolicyInit ==
    /\ policy \in Policies
    /\ q = [s \in PolicyStreams |-> <<>>] /\ accepted = q /\ got = q
    /\ bound = [s \in PolicyStreams |-> PreStream]
    /\ sel = [s \in PolicyStreams |-> Unstarted]
    /\ sync_sets = [i \in 1 .. Len(policy.sets) |->
                      [streams |-> policy.sets[i], last |-> Unset, ready |-> Unset]]
    /\ ready_index = 0 /\ ready_timestamp = Done
    /\ pending = FALSE /\ kept = Unset
    /\ offsets = [s \in PolicyStreams |-> 0] /\ offsets_initialized = (NumStreams = 1)
    /\ decided = Unset /\ answer = "" /\ input_sets = <<>> /\ failed = FALSE

-----------------------------------------------------------------------------

\* SyncSet::GetReadiness(): the readiness, the timestamp and last_processed_ts_
SyncSetReadiness(set, queues) ==
    LET empty == {s \in set.streams : queues[s] = <<>>}
        min_bound == Least({bound[s] : s \in empty})
        min_packet == Least({Head(queues[s]) : s \in set.streams \ empty})
        min == Earlier(min_bound, min_packet)
        settled == IF min_packet = PostStream /\ min_bound > min_packet THEN min_packet
                   ELSE PreviousAllowedInStream(min_bound)
        input == Earlier(min_packet, settled)
        Is(kind, ts, last) == [kind |-> kind, ts |-> ts, last |-> last]
    IN IF min >= OneOverPostStream THEN Is("close", Done, PreviousAllowedInStream(Done))
       ELSE IF ~policy.bounds /\ min_bound > min_packet THEN Is("process", min, min)
       ELSE IF policy.bounds /\ input > Later(set.last, Unstarted) THEN Is("process", input, input)
       ELSE Is("not", min, set.last)

Readiness(kind, ts) == [kind |-> kind, ts |-> ts]

\* What all handlers do with the answer
Answer(r) ==
    /\ decided' = IF r.kind = "process" THEN r.ts ELSE Unset
    /\ answer' = r.kind

DefaultReadiness ==
    LET r == SyncSetReadiness(sync_sets[1], q)
    IN /\ Answer(r)
       /\ sync_sets' = [sync_sets EXCEPT ![1].last = r.last]
       /\ UNCHANGED <<q, ready_index, ready_timestamp, fixedVars, alignVars, failed>>

\* One stream of ImmediateInputStreamHandler::GetNodeReadiness(): what it adds
\* to the two minima, and its new state.
ImmediateStream(i) ==
    LET set == sync_sets[i]
        r == SyncSetReadiness(set, q)
        ended == PreviousAllowedInStream(Done)
        Is(low, input, became, ready, last) ==
           [low |-> low, input |-> input, became |-> became,
            set |-> [set EXCEPT !.ready = ready, !.last = last]]
    IN IF set.ready > Unset THEN Is(set.ready, set.ready, FALSE, set.ready, set.last)
       ELSE IF r.kind = "process" THEN Is(r.ts, r.ts, FALSE, r.ts, r.last)
       ELSE IF r.kind = "not" THEN Is(r.ts, Done, FALSE, Unset, r.last)
       ELSE IF policy.bounds
            THEN IF set.last < ended THEN Is(ended, ended, FALSE, ended, r.last)
                 ELSE Is(Done, Done, FALSE, Done, r.last)
       ELSE Is(Done, Done, set.last < Done, IF set.last < Done THEN Done ELSE Unset, r.last)

ImmediateReadiness ==
    LET one == [i \in PolicyStreams |-> ImmediateStream(i)]
        min_bound == Least({one[i].low : i \in PolicyStreams})
        input == Least({one[i].input : i \in PolicyStreams})
    IN /\ Answer(IF min_bound = Done THEN Readiness("close", Done)
                 ELSE IF input < Done THEN Readiness("process", input)
                 ELSE IF \E i \in PolicyStreams : one[i].became THEN Readiness("process", min_bound)
                 ELSE Readiness("not", min_bound))
       /\ sync_sets' = [i \in PolicyStreams |-> one[i].set]
       /\ UNCHANGED <<q, ready_index, ready_timestamp, fixedVars, alignVars, failed>>

\* The sync sets that are not done, with their new last_processed_ts_
LiveSets(r) ==
    LET live == SelectSeq([i \in 1 .. Len(sync_sets) |-> i], LAMBDA i : r[i].kind # "close")
    IN [j \in 1 .. Len(live) |-> [sync_sets[live[j]] EXCEPT !.last = r[live[j]].last]]

\* SyncSetInputStreamHandler: the earliest of the ready sync sets is chosen.
SyncSetsReadiness ==
    /\ UNCHANGED <<q, fixedVars, alignVars, failed>>
    /\ \/ /\ ready_index > 0
          /\ Answer(Readiness("process", ready_timestamp)) /\ UNCHANGED setVars
       \/ /\ ready_index = 0
          /\ LET r == [i \in 1 .. Len(sync_sets) |-> SyncSetReadiness(sync_sets[i], q)]
                 live == SelectSeq(r, LAMBDA x : x.kind # "close")
                 ready == {j \in 1 .. Len(live) : live[j].kind = "process"}
                 first == Least({live[j].ts : j \in ready})
             IN /\ sync_sets' = LiveSets(r)
                /\ ready_index' = IF ready = {} THEN 0 ELSE Min({j \in ready : live[j].ts = first})
                /\ ready_timestamp' = first
                /\ Answer(IF ready # {} THEN Readiness("process", first)
                          ELSE IF live = <<>> THEN Readiness("close", Done)
                          ELSE Readiness("not", Unset))

\* BarrierInputStreamHandler and EarlyCloseInputStreamHandler: a stream that is
\* done closes the node whatever the others hold.
AnyDone == \E s \in EmptySet : bound[s] = Done

BarrierReadiness ==
    /\ Answer(IF AnyDone THEN Readiness("close", Done)
              ELSE IF EmptySet = {} THEN Readiness("process", Least({Front1(s) : s \in PolicyStreams}))
              ELSE Readiness("not", Unset))
    /\ UNCHANGED <<q, setVars, fixedVars, alignVars, failed>>

EarlyCloseReadiness ==
    LET min == Least({Front1(s) : s \in PolicyStreams})
        min_bound == Least({bound[s] : s \in EmptySet})
    IN /\ Answer(IF AnyDone THEN Readiness("close", Done)
                 ELSE IF min_bound > min THEN Readiness("process", min) ELSE Readiness("not", min))
       /\ failed' = (failed \/ (~AnyDone /\ (min = Done \/ min_bound < min)))
       /\ UNCHANGED <<q, setVars, fixedVars, alignVars>>

Erased(s, earlier) == SelectSeq(q[s], LAMBDA t : t >= earlier)

\* MuxInputStreamHandler: outdated packets of the selected stream are erased.
MuxReadiness ==
    LET t == Front1(Control)
        data == Selected[t]
        rest == Erased(data, t)
    IN /\ IF q[Control] = <<>>
          THEN /\ Answer(IF t = Done THEN Readiness("close", t) ELSE Readiness("not", t))
               /\ UNCHANGED q
          ELSE /\ Answer(IF rest = <<>> /\ bound[data] <= t THEN Readiness("not", t)
                         ELSE Readiness("process", t))
               /\ q' = [q EXCEPT ![data] = rest]
       /\ UNCHANGED <<setVars, fixedVars, alignVars, failed>>

\* TimestampAlignInputStreamHandler, before and after every stream had a packet
AlignReadiness ==
    LET base == Front1(Base)
        others == PolicyStreams \ {Base}
        Aligned(s) == IF IsRangeValue(Front1(s)) THEN Plus(Front1(s), offsets[s]) ELSE Front1(s)
        min == Least({Aligned(s) : s \in PolicyStreams})
        min_bound == Least({Aligned(s) : s \in EmptySet})
    IN /\ IF ~offsets_initialized
          THEN /\ Answer(Readiness(IF Base \in EmptySet THEN "not" ELSE "process", base))
               /\ IF Base \in EmptySet THEN UNCHANGED alignVars
                  ELSE /\ offsets' = [s \in PolicyStreams |->
                             IF s \in others \ EmptySet THEN base - Front1(s) ELSE offsets[s]]
                       /\ offsets_initialized' = (others \cap EmptySet = {})
               /\ UNCHANGED failed
          ELSE /\ Answer(IF min = Done THEN Readiness("close", min)
                         ELSE IF min_bound > min THEN Readiness("process", min)
                         ELSE Readiness("not", min))
               /\ failed' = (failed \/ (min # Done /\ min_bound < min))
               /\ UNCHANGED alignVars
       /\ UNCHANGED <<q, setVars, fixedVars>>

-----------------------------------------------------------------------------

\* GetMinTimestampAmongNLatest()
AmongLatest(queue, n) ==
    IF queue = <<>> THEN Unset ELSE queue[IF n >= Len(queue) THEN 1 ELSE Len(queue) - n + 1]

\* PreviousAllowedInStream() of FixedSizeInputStreamHandler
BeforeBound(b) == IF IsRangeValue(b) THEN Plus(b, -1) ELSE b

MinStreamBound(queues, bounds) ==
    Least({IF queues[s] # <<>> THEN NextAllowedInStream(queues[s][Len(queues[s])]) ELSE bounds[s]
             : s \in PolicyStreams})

\* EraseAnySurplus(): the first timestamp kept, for all streams the same
Surplus(queues, old) ==
    LET limit(s) == IF Len(queues[s]) >= TriggerSize THEN TargetSize ELSE TriggerSize - 1
    IN Max({old} \cup {NextAllowedInStream(AmongLatest(queues[s], limit(s) + 1)) :
                         s \in {x \in PolicyStreams : Len(queues[x]) > limit(x)}})

KeptTimestamp(queues, bounds, keep_one) ==
    IF keep_one THEN Earlier(Surplus(queues, kept), BeforeBound(MinStreamBound(queues, bounds)))
    ELSE Surplus(queues, kept)

\* EraseAllSurplus(): only when every stream has grown to the trigger size
FirstOfAll(queues) ==
    IF \E s \in PolicyStreams : Len(queues[s]) < TriggerSize THEN Unset
    ELSE Min({RangeMax} \cup {AmongLatest(queues[s], TargetSize) : s \in PolicyStreams})

\* Seeded fault: only a stream that has grown too long is truncated.
EraseLong(queues, first) ==
    [s \in PolicyStreams |->
       IF Len(queues[s]) >= TriggerSize THEN SelectSeq(queues[s], LAMBDA t : t >= first) ELSE queues[s]]

EraseFrom(queues, first) ==
    [s \in PolicyStreams |-> SelectSeq(queues[s], LAMBDA t : t >= first)]

\* EraseSurplusPackets(): the queues and kept_timestamp_ it leaves
EraseSurplus(queues, bounds, keep_one) ==
    IF policy.kind = "fixed_min" THEN [q |-> EraseFrom(queues, FirstOfAll(queues)), kept |-> kept]
    ELSE LET k == KeptTimestamp(queues, bounds, keep_one) IN [q |-> EraseFrom(queues, k), kept |-> k]

IsFixed == policy.kind \in {"fixed", "fixed_min"}

\* Nothing is erased between the promise of an input set and its delivery.  The
\* readiness is looked at once more if it is below kept_timestamp_.
FixedErase ==
    LET e == EraseSurplus(q, bound, FALSE)
    IN q' = e.q /\ kept' = e.kept

FixedReadiness ==
    /\ UNCHANGED <<ready_index, ready_timestamp, alignVars, failed>>
    /\ IF pending THEN Answer(Readiness("not", Unset)) /\ UNCHANGED <<q, kept, pending, sync_sets>>
       ELSE /\ FixedErase
            /\ LET r == SyncSetReadiness(sync_sets[1], q')
                   again == r.kind = "process" /\ r.ts < kept'
               IN /\ Answer(IF again THEN Readiness("not", r.ts) ELSE r)
                  /\ pending' = (r.kind = "process" /\ ~again)
                  /\ sync_sets' = [sync_sets EXCEPT ![1].last = r.last]

-----------------------------------------------------------------------------

\* PopPacketAtTimestamp() on the streams of `times`, from the queues given
PopAt(queues, times) ==
    LET popped == DOMAIN times
    IN /\ q' = [s \in PolicyStreams |->
               IF s \in popped THEN SelectSeq(queues[s], LAMBDA t : t > times[s]) ELSE queues[s]]
       /\ bound' = [s \in PolicyStreams |->
               IF s \in popped /\ bound[s] <= times[s] THEN NextAllowedInStream(times[s]) ELSE bound[s]]
       /\ sel' = [s \in PolicyStreams |-> IF s \in popped THEN times[s] ELSE sel[s]]
       /\ got' = [s \in PolicyStreams |->
               got[s] \o (IF s \in popped THEN SelectSeq(queues[s], LAMBDA t : t = times[s]) ELSE <<>>)]
       /\ failed' = (failed \/ \E s \in popped :
               \/ \E i \in 1 .. Len(queues[s]) : queues[s][i] < times[s]
               \/ sel[s] > times[s])

Together(streams) == [s \in streams |-> decided]

OffsetTime(s) == Plus(decided, -offsets[s])

DefaultFill == PopAt(q, Together(PolicyStreams)) /\ UNCHANGED <<setVars, fixedVars, alignVars>>

ImmediateFill ==
    /\ PopAt(q, Together({i \in PolicyStreams : sync_sets[i].ready = decided}))
    /\ sync_sets' = [i \in PolicyStreams |->
          IF sync_sets[i].ready = decided THEN [sync_sets[i] EXCEPT !.ready = Unset] ELSE sync_sets[i]]
    /\ UNCHANGED <<ready_index, ready_timestamp, fixedVars, alignVars>>

SyncSetsFill ==
    /\ PopAt(q, Together(sync_sets[ready_index].streams))
    /\ ready_index' = 0 /\ ready_timestamp' = Done
    /\ UNCHANGED <<sync_sets, fixedVars, alignVars>>

\* PopQueueHead() on every stream
BarrierFill ==
    /\ q' = [s \in PolicyStreams |-> Tail(q[s])]
    /\ got' = [s \in PolicyStreams |-> Append(got[s], Head(q[s]))]
    /\ UNCHANGED <<bound, sel, failed, setVars, fixedVars, alignVars>>

MuxFill ==
    LET data == Selected[decided]
        queues == [s \in PolicyStreams |->
            IF s \in {data, Control} THEN q[s] ELSE Erased(s, NextAllowedInStream(decided))]
    IN PopAt(queues, Together({data, Control})) /\ UNCHANGED <<setVars, fixedVars, alignVars>>

AlignFill ==
    /\ PopAt(q, IF offsets_initialized THEN [s \in PolicyStreams |-> OffsetTime(s)]
                ELSE Together({Base}))
    /\ UNCHANGED <<setVars, fixedVars, alignVars>>

\* MinTimestampToProcess(): the timestamp is computed again.
FixedFill ==
    LET e == EraseSurplus(q, bound, TRUE)
        time == Least({IF e.q[s] # <<>> THEN Head(e.q[s]) ELSE BeforeBound(bound[s]) : s \in PolicyStreams})
    IN /\ PopAt(e.q, [s \in PolicyStreams |-> time])
       /\ kept' = e.kept /\ pending' = FALSE
       /\ UNCHANGED <<setVars, alignVars>>

-----------------------------------------------------------------------------

Stale == answer' = IF answer = "not" THEN "" ELSE answer

\* A packet arrives; surplus packets are erased unless an input set is promised.
\* A barrier has no use for timestamps (DisableTimestamps).
Arrive(s, t) ==
    /\ Len(accepted[s]) < MaxPackets /\ bound[s] < Done
    /\ policy.kind # "barrier" => t >= bound[s]
    /\ t = PostStream => accepted[s] = <<>>
    /\ accepted' = [accepted EXCEPT ![s] = Append(@, t)] /\ Stale
    /\ bound' = [bound EXCEPT ![s] = NextAllowedInStream(t)]
    /\ LET added == [q EXCEPT ![s] = Append(@, t)]
           e == EraseSurplus(added, bound', FALSE)
       IN IF IsFixed /\ ~pending THEN q' = e.q /\ kept' = e.kept
          ELSE q' = added /\ UNCHANGED kept
    /\ UNCHANGED <<policy, sel, setVars, pending, alignVars, decided, got, input_sets, failed>>

Announce(s, b) ==
    /\ b > bound[s]
    /\ bound' = [bound EXCEPT ![s] = b] /\ Stale
    /\ UNCHANGED <<policy, q, accepted, sel, setVars, fixedVars, alignVars, decided, got, input_sets, failed>>

GetNodeReadiness ==
    /\ answer = ""
    /\ \/ policy.kind = "default" /\ DefaultReadiness
       \/ policy.kind = "immediate" /\ ImmediateReadiness
       \/ policy.kind = "sync_set" /\ SyncSetsReadiness
       \/ policy.kind = "barrier" /\ BarrierReadiness
       \/ policy.kind = "early_close" /\ EarlyCloseReadiness
       \/ policy.kind = "mux" /\ MuxReadiness
       \/ policy.kind = "align" /\ AlignReadiness
       \/ IsFixed /\ FixedReadiness
    /\ UNCHANGED <<policy, bound, accepted, sel, got, input_sets>>

FillInputSet ==
    /\ answer = "process"
    /\ \/ policy.kind \in {"default", "early_close"} /\ DefaultFill
       \/ policy.kind = "immediate" /\ ImmediateFill
       \/ policy.kind = "sync_set" /\ SyncSetsFill
       \/ policy.kind = "barrier" /\ BarrierFill
       \/ policy.kind = "mux" /\ MuxFill
       \/ policy.kind = "align" /\ AlignFill
       \/ IsFixed /\ FixedFill
    /\ input_sets' = Append(input_sets,
          [s \in {x \in PolicyStreams : sel'[x] # sel[x]} |-> sel'[s]])
    /\ decided' = Unset /\ answer' = ""
    /\ UNCHANGED <<policy, accepted>>

PolicyNext ==
    \/ \E s \in PolicyStreams, t \in PolicyTimes : Arrive(s, t)
    \/ \E s \in PolicyStreams, b \in PolicyBounds : Announce(s, b)
    \/ GetNodeReadiness \/ FillInputSet

-----------------------------------------------------------------------------

Held(seq) == {seq[i] : i \in 1 .. Len(seq)}

\* An input set holds every packet its streams have, or will ever have, at its
\* timestamp, whatever was dropped or arrived meanwhile: "each included
\* timestamp delivers the same packets as DefaultInputStreamHandler includes"
\* (fixed_size_input_stream_handler.cc:44), and the policies that drop nothing
\* deliver every packet once and in order (FillInputSet, ErasePacketsEarlierThan).
InputSetsComplete ==
    /\ policy.kind # "barrier" =>
          \A i \in 1 .. Len(input_sets) : \A s \in DOMAIN input_sets[i] :
             input_sets[i][s] \in Held(accepted[s]) => input_sets[i][s] \in Held(got[s])
    /\ ~IsFixed => \A s \in PolicyStreams :
          (policy.kind = "mux" => s = Control) => accepted[s] = got[s] \o q[s]

\* No CHECK of a handler fails: a pop never drops packets or goes back in time,
\* and the minima the readiness is made of agree (GetNodeReadiness, FillInputSet).
PolicyChecksHold == ~failed

Ended == \A s \in PolicyStreams : bound[s] = Done

\* A node whose streams have ended is never left waiting: it gets the input sets
\* that are left and is then told to close, with nothing behind unless the
\* policy closes early (GetNodeReadiness, kReadyForClose).
EndedNodeCloses ==
    /\ policy.kind # "align" /\ Ended => answer # "not"
    /\ answer = "close" =>
          \/ policy.kind \in {"barrier", "early_close", "mux"}
          \/ \A s \in PolicyStreams : q[s] = <<>> /\ bound[s] >= OneOverPostStream

\* Every policy gives a node the input sets its policy promises, meets the
\* CHECKs of its handler, and lets the node close after its streams.
PoliciesSound == InputSetsComplete /\ PolicyChecksHold /\ EndedNodeCloses
=============================================================================
