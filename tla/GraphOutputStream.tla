-------------------------- MODULE GraphOutputStream --------------------------
(***************************************************************************)
(* The two ways an application watches an output stream of the graph       *)
(* (graph_output_stream.cc): an observer, whose callback runs on the       *)
(* threads that emit packets, and a poller, whose Next() runs on a thread  *)
(* of the application.  Each has an input stream of its own, a mirror of   *)
(* the output stream; the run starts with PrepareForRun().                 *)
(***************************************************************************)
EXTENDS InputStreamManager

CONSTANTS Producers,     \* threads that emit packets
          MirrorTimes,   \* timestamps of the packets they emit
          MirrorBounds,  \* bounds they announce; Done closes the stream
          ObserveBounds, \* the values of observe_timestamp_bounds
          CallbacksFail  \* the observer's callback may return an error

Observer == "observer"
Poller == "poller"

ASSUME MirrorAssumption ==
    /\ Streams \subseteq {Observer, Poller}
    /\ MirrorTimes \subseteq Timestamps /\ MirrorBounds \subseteq Timestamps
    /\ ObserveBounds \subseteq BOOLEAN

VARIABLES observe_timestamp_bounds,
          at,                \* where a producer is in its call of the mirror
          min_timestamp,     \* what Notify() has read of the stream
          notifying,         \* notifying_
          last_processed_ts, \* last_processed_ts_
          polling,           \* where the application is in Next()
          output_timestamp,  \* output_timestamp_
          graph_has_error,   \* graph_has_error_
          emitted,           \* the packets each mirror was given
          received,          \* the packets the application got from it
          settledTimes       \* every timestamp the observer's callback got

observerVars == <<min_timestamp, notifying, last_processed_ts, settledTimes>>
pollerVars == <<polling, output_timestamp, graph_has_error>>
watcherVars == <<observe_timestamp_bounds, at, observerVars, pollerVars, emitted, received>>
mirrorVars == <<streamVars, watcherVars>>

\* The mirrors at PrepareForRun(), the streams themselves aside.
WatchersInit ==
    /\ observe_timestamp_bounds \in ObserveBounds
    /\ at = [p \in Producers |-> "idle"]
    /\ min_timestamp = [p \in Producers |-> Unset]
    /\ notifying = FALSE
    /\ last_processed_ts = Unstarted
    /\ polling = "out"
    /\ output_timestamp = RangeMin
    /\ graph_has_error = FALSE
    /\ emitted = [s \in Streams |-> <<>>]
    /\ received = [s \in Streams |-> <<>>]
    /\ settledTimes = <<>>

MirrorInit ==
    /\ StreamInit /\ WatchersInit
    /\ enable_timestamps = [s \in Streams |-> TRUE]

\* A producer's update reaches the mirror s (PropagateUpdatesToMirrors) and
\* the handler of s calls back if the update may matter to its reader.  What a
\* mirror would refuse is refused to the producer before.
EmitPacket(p, s, t) ==
    /\ at[p] = "idle" /\ AcceptsPacket(s, <<t>>, 1)
    /\ AddPackets(s, <<t>>)
    /\ emitted' = [emitted EXCEPT ![s] = Append(@, t)]
    /\ at' = [at EXCEPT ![p] = IF AddPacketsNotifies(s) THEN s ELSE "idle"]
    /\ UNCHANGED <<enable_timestamps, observe_timestamp_bounds, observerVars, pollerVars, received>>

EmitBound(p, s, bound) ==
    /\ at[p] = "idle" /\ bound > next_timestamp_bound[s]
    /\ SetNextTimestampBound(s, bound)
    /\ at' = [at EXCEPT ![p] = IF SetBoundNotifies(s, bound) THEN s ELSE "idle"]
    /\ UNCHANGED <<enable_timestamps, observe_timestamp_bounds, observerVars, pollerVars,
                   emitted, received>>

Goes(p, place) == at' = [at EXCEPT ![p] = place]

\* OutputStreamObserver::Notify(): one thread at a time is in the loop.
NotifyObserver(p) ==
    /\ at[p] = Observer
    /\ Goes(p, IF notifying THEN "idle" ELSE "loop")
    /\ notifying' = TRUE
    /\ UNCHANGED <<streamVars, observe_timestamp_bounds, min_timestamp, last_processed_ts,
                   settledTimes, pollerVars, emitted, received>>

ReadStream(p) ==
    /\ at[p] = "loop"
    /\ min_timestamp' = [min_timestamp EXCEPT ![p] = MinTimestampOrBound(Observer)]
    /\ Goes(p, IF queue[Observer] = <<>> THEN "settle" ELSE "pop")
    /\ UNCHANGED <<streamVars, observe_timestamp_bounds, notifying, last_processed_ts,
                   settledTimes, pollerVars, emitted, received>>

\* RecordError() tells the poller, too; NotifyError() of an observer is empty.
\* Notify() returns at once and leaves notifying_ set.
CallbackFails(p) ==
    /\ CallbacksFail
    /\ Goes(p, "idle")
    /\ graph_has_error' = TRUE
    /\ polling' = IF polling = "waiting" THEN "out" ELSE polling
    /\ UNCHANGED <<last_processed_ts, output_timestamp>>

PopForObserver(p) ==
    /\ at[p] = "pop"
    /\ PopPacketAtTimestamp(Observer, min_timestamp[p])
    /\ received' = [received EXCEPT ![Observer] = Append(@, Head(queue[Observer]))]
    /\ settledTimes' = Append(settledTimes, Head(queue[Observer]))
    /\ \/ CallbackFails(p)
       \/ /\ last_processed_ts' = min_timestamp[p]
          /\ Goes(p, "loop")
          /\ UNCHANGED pollerVars
    /\ UNCHANGED <<enable_timestamps, observe_timestamp_bounds, min_timestamp, notifying, emitted>>

\* Seeded fault: the bound itself is reported as settled.
SettleAtBound(min) == min

\* The timestamp an empty packet reports as settled.
Settled(min) == IF min = PostStream THEN PostStream ELSE PreviousAllowedInStream(min)

ObserveBound(p) ==
    /\ at[p] = "settle"
    /\ IF /\ observe_timestamp_bounds /\ min_timestamp[p] < Done
          /\ last_processed_ts < Settled(min_timestamp[p])
       THEN /\ settledTimes' = Append(settledTimes, Settled(min_timestamp[p]))
            /\ \/ CallbackFails(p)
               \/ /\ last_processed_ts' = Settled(min_timestamp[p])
                  /\ Goes(p, "check")
                  /\ UNCHANGED pollerVars
       ELSE Goes(p, "check") /\ UNCHANGED <<last_processed_ts, settledTimes, pollerVars>>
    /\ UNCHANGED <<streamVars, observe_timestamp_bounds, min_timestamp, notifying, emitted, received>>

\* Only the timestamp is compared, not whether the stream is still empty.
Unmoved(p) == MinTimestampOrBound(Observer) = min_timestamp[p]

\* Seeded fault: notifying_ is not reset at the end of the loop.
LastCheckOnly(p) ==
    /\ at[p] = "check"
    /\ Goes(p, IF Unmoved(p) THEN "idle" ELSE "loop")
    /\ UNCHANGED <<streamVars, observe_timestamp_bounds, min_timestamp, notifying,
                   last_processed_ts, settledTimes, pollerVars, emitted, received>>

LastCheck(p) ==
    /\ at[p] = "check"
    /\ notifying' = ~Unmoved(p)
    /\ Goes(p, IF Unmoved(p) THEN "idle" ELSE "loop")
    /\ UNCHANGED <<streamVars, observe_timestamp_bounds, min_timestamp, last_processed_ts,
                   settledTimes, pollerVars, emitted, received>>

\* Seeded fault: the condition variable is not signalled.
NobodyWoken(p) == polling

\* handler_condvar_.Signal(): the thread in Next() looks again.
Woken(p) == IF polling = "waiting" THEN "out" ELSE polling

\* OutputStreamPollerImpl::Notify()
NotifyPoller(p) ==
    /\ at[p] = Poller
    /\ Goes(p, "idle")
    /\ polling' = Woken(p)
    /\ UNCHANGED <<streamVars, observe_timestamp_bounds, observerVars, output_timestamp,
                   graph_has_error, emitted, received>>

BoundChanged ==
    observe_timestamp_bounds /\ output_timestamp < PreviousAllowedInStream(next_timestamp_bound[Poller])

\* OutputStreamPollerImpl::Next() up to the release of mutex_.  The return of
\* false ends polling: the stream is done, or the graph has failed and there
\* is nothing left to read.
PollerLooks ==
    /\ Poller \in Streams /\ polling = "out"
    /\ LET empty == queue[Poller] = <<>>
           min == MinTimestampOrBound(Poller)
           found == graph_has_error \/ ~empty \/ BoundChanged \/ min = Done
       IN /\ polling' = IF ~found THEN "waiting"
                        ELSE IF (graph_has_error /\ empty) \/ min = Done THEN "done"
                        ELSE IF empty THEN "out" ELSE "pop"
          /\ output_timestamp' = IF ~found \/ (graph_has_error /\ empty) THEN output_timestamp
                                 ELSE IF empty THEN PreviousAllowedInStream(min) ELSE min
    /\ UNCHANGED <<streamVars, observe_timestamp_bounds, at, observerVars, graph_has_error,
                   emitted, received>>

PollerPops ==
    /\ polling = "pop"
    /\ PopPacketAtTimestamp(Poller, output_timestamp)
    /\ received' = [received EXCEPT ![Poller] = Append(@, Head(queue[Poller]))]
    /\ polling' = "out"
    /\ UNCHANGED <<enable_timestamps, observe_timestamp_bounds, at, observerVars,
                   output_timestamp, graph_has_error, emitted>>

ProducerNotifies(p) ==
    \/ NotifyObserver(p) \/ ReadStream(p) \/ PopForObserver(p) \/ ObserveBound(p)
    \/ LastCheck(p) \/ NotifyPoller(p)

MirrorNext ==
    \/ \E p \in Producers :
          \/ \E s \in Streams, t \in MirrorTimes :
                num_packets_added[s] < MaxAdded /\ EmitPacket(p, s, t)
          \/ \E s \in Streams, b \in MirrorBounds : EmitBound(p, s, b)
          \/ ProducerNotifies(p)
    \/ PollerLooks \/ PollerPops

\* A producer that calls back runs on, and the application keeps polling.
MirrorSpec ==
    /\ MirrorInit /\ [][MirrorNext]_mirrorVars
    /\ \A p \in Producers : WF_mirrorVars(ProducerNotifies(p))
    /\ WF_mirrorVars(PollerLooks) /\ WF_mirrorVars(PollerPops)

-----------------------------------------------------------------------------

Watched(s) == IF s \in Streams THEN received[s] ELSE <<>>
Carried(s) == IF s \in Streams THEN emitted[s] ELSE <<>>

ObserverView == INSTANCE ObservedStream WITH
    Packets <- MirrorTimes, sent <- Carried(Observer), seen <- Watched(Observer),
    ended <- graph_has_error

PollerView == INSTANCE ObservedStream WITH
    Packets <- MirrorTimes, sent <- Carried(Poller), seen <- Watched(Poller),
    ended <- polling = "done"

\* The observer's callback gets every packet once and in order, until it fails:
\* Notify() hands packets over on one thread at a time and leaves none behind.
ObserverDelivers == ObserverView!ObservedSpec

\* Next() returns every packet once and in order, and no wakeup is lost: the
\* application blocked in Next() gets what arrives.
PollerDelivers == PollerView!ObservedSpec

\* The timestamps the observer's callback gets, settled bounds included, are
\* strictly increasing: no packet comes after it was reported as settled.
SettledIsFinal ==
    \A i, j \in 1 .. Len(settledTimes) : i < j => settledTimes[i] < settledTimes[j]

=============================================================================
