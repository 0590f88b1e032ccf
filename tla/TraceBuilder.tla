----------------------------- MODULE TraceBuilder -----------------------------
(***************************************************************************)
(* The traces made from the logged events: TraceBuilder turns the events   *)
(* of each window into calculator traces, whose stream, packet and time    *)
(* numbers have to mean the same in every window of a run.                 *)
(*   src/mediapipe/framework/profiler/trace_builder.cc, graph_tracer.cc    *)
(*                                                                         *)
(* How the events get into the log, and which a window finds there, is the *)
(* subject of TraceLog; here they are logged in the order of their times.  *)
(***************************************************************************)
EXTENDS Integers, Sequences, SequencesExt

CONSTANTS TracedNodes,     \* for each node the streams it reads and writes, in order
          TracedTimes,     \* timestamps of packets
          MaxLogged, MaxLogTime, MaxWindows   \* bounds of the exploration

VARIABLES logged,      \* the events of the TraceBuffer
          log_time,    \* the profiler's clock
          builder,     \* the TraceBuilder
          instant,     \* trace_log_instant_events: every event on its own
          log_end,     \* previous_log_end_time_
          made         \* the traces made so far, each with the events of its window

builderTraceVars == <<logged, log_time, builder, instant, log_end, made>>

\* Timestamp::Unset and Timestamp::Unstarted, which Open sees.
UnsetTime == -3
UnstartedTime == -2
NoStream == ""
Unassigned == <<>>

TracedEvent(type, finish, node, input, stream, packet) ==
    [time |-> log_time, type |-> type, finish |-> finish, node |-> node, input |-> input,
     stream |-> stream, packet |-> packet, data |-> IF stream = NoStream THEN 0 ELSE packet]

\* BasicTraceEventTypes: the packet events are stream events.
IsPacketEvent(e) == e.type \in {"OPEN", "PROCESS"}

-----------------------------------------------------------------------------
(* The builder.  Ids are handed out in order, id 0 is "unassigned".        *)

IdIn(ids, x) == (CHOOSE i \in DOMAIN ids : ids[i] = x) - 1
Identified(ids, xs) == FoldLeft(LAMBDA s, x : IF \E i \in DOMAIN s : s[i] = x THEN s ELSE Append(s, x), ids, xs)

NewBuilder == [tasks |-> <<>>, hops |-> <<>>, streams |-> <<NoStream>>, packets |-> <<0>>, base |-> <<>>]

TaskId(e) == <<e.node, e.input, e.type>>
HopId(e) == <<e.stream, e.packet, e.type>>
EventsOf(f, k) == IF k \in DOMAIN f THEN f[k] ELSE <<>>
Earliest(S) == CHOOSE x \in S : \A y \in S : x <= y
EarliestOrUnassigned(S) == IF S = {} THEN Unassigned ELSE <<Earliest(S)>>

\* SetBaseTime: by the first window, even one without events.
WithBaseTime(b, events) ==
    IF b.base # <<>> THEN b
    ELSE LET e == {events[i] : i \in DOMAIN events}
             stamps == ({x.input : x \in e} \cup {x.packet : x \in e}) \ {UnsetTime, UnstartedTime}
             times == {x.time : x \in e}
         IN  [b EXCEPT !.base = <<[time |-> IF times = {} THEN 0 ELSE Earliest(times),
                                   stamp |-> IF stamps = {} THEN 0 ELSE Earliest(stamps)]>>]

\* The index of the events by task and of the output events by stream hop.
Indexed(b, events) ==
    LET all == SelectSeq(events, IsPacketEvent)
        outputs == SelectSeq(all, LAMBDA e : e.finish)
        keys == {TaskId(all[i]) : i \in DOMAIN all}
        hops == {HopId(outputs[i]) : i \in DOMAIN outputs}
    IN  [b EXCEPT !.streams = Identified(@, [i \in DOMAIN all |-> all[i].stream]),
                  !.tasks = [k \in DOMAIN @ \cup keys |-> EventsOf(@, k) \o SelectSeq(all, LAMBDA e : TaskId(e) = k)],
                  !.hops = [h \in DOMAIN @ \cup hops |->
                              IF h \in hops THEN Last(SelectSeq(outputs, LAMBDA e : HopId(e) = h)) ELSE @[h]]]

LogTime(b, time) == time - b.base[1].time
LogTimestamp(b, ts) == ts - b.base[1].stamp
LoggedInput(b, e) == IF e.input = UnsetTime THEN Unassigned ELSE <<LogTimestamp(b, e.input)>>

\* BuildStreamTrace, and for the inputs of a task the time its packet was output.
StreamTrace(b, e) ==
    [stream |-> IdIn(b.streams, e.stream), stamp |-> LogTimestamp(b, e.packet), data |-> IdIn(b.packets, e.data),
     start |-> Unassigned, finish |-> Unassigned]
InputTrace(b, e) ==
    [StreamTrace(b, e) EXCEPT
        !.finish = <<LogTime(b, e.time)>>,
        !.start = IF HopId(e) \in DOMAIN b.hops THEN <<LogTime(b, b.hops[HopId(e)].time)>> ELSE Unassigned]

\* BuildCalculatorTrace.
CalculatorTrace(b, events) ==
    LET Times(finish) == {LogTime(b, events[i].time) : i \in {j \in DOMAIN events : events[j].finish = finish}}
        ins == SelectSeq(events, LAMBDA e : ~e.finish)
        outs == SelectSeq(events, LAMBDA e : e.finish)
    IN  [node |-> events[1].node, type |-> events[1].type, input |-> LoggedInput(b, events[1]),
         start |-> EarliestOrUnassigned(Times(FALSE)), finish |-> EarliestOrUnassigned(Times(TRUE)),
         ins |-> [i \in DOMAIN ins |-> InputTrace(b, ins[i])],
         outs |-> [i \in DOMAIN outs |-> StreamTrace(b, outs[i])]]

\* BuildEventLog.
EventLog(b, e) ==
    LET streams == IF IsPacketEvent(e) /\ e.stream # NoStream THEN <<StreamTrace(b, e)>> ELSE <<>>
        time == <<LogTime(b, e.time)>>
    IN  [node |-> e.node, type |-> e.type, input |-> LoggedInput(b, e),
         start |-> IF e.finish THEN Unassigned ELSE time, finish |-> IF e.finish THEN time ELSE Unassigned,
         ins |-> IF e.finish THEN <<>> ELSE streams, outs |-> IF e.finish THEN streams ELSE <<>>]

TraceOf(b, calculators) == [base |-> b.base[1], calculators |-> calculators, names |-> b.streams]

\* CreateTrace: each task where its first event is.
CreateTrace(b0, events) ==
    LET b == Indexed(WithBaseTime(b0, events), events)
        firsts == SelectSeq([i \in DOMAIN events |-> i],
                            LAMBDA i : ~IsPacketEvent(events[i])
                                         \/ \A j \in 1 .. i - 1 : TaskId(events[j]) # TaskId(events[i]))
        told == FlattenSeq([k \in DOMAIN firsts |->
                    IF IsPacketEvent(events[firsts[k]]) THEN b.tasks[TaskId(events[firsts[k]])] ELSE <<>>])
        c == [b EXCEPT !.packets = Identified(@, [i \in DOMAIN told |-> told[i].data])]
    IN  [builder |-> c,
         trace |-> TraceOf(c, [k \in DOMAIN firsts |->
                     LET e == events[firsts[k]]
                     IN  IF IsPacketEvent(e) THEN CalculatorTrace(c, c.tasks[TaskId(e)]) ELSE EventLog(c, e)])]

\* CreateLog.
CreateLog(b0, events) ==
    LET all == SelectSeq(events, IsPacketEvent)
        c == [WithBaseTime(b0, events) EXCEPT
                !.streams = Identified(@, [i \in DOMAIN all |-> all[i].stream]),
                !.packets = Identified(@, [i \in DOMAIN all |-> all[i].data])]
    IN  [builder |-> c, trace |-> TraceOf(c, [i \in DOMAIN events |-> EventLog(c, events[i])])]

\* Seeded fault: the index of a window is still there in the next one.
NotCleared(b) == b

\* Clear.
Cleared(b) == [b EXCEPT !.tasks = <<>>, !.hops = <<>>]

-----------------------------------------------------------------------------
(* The steps.                                                              *)

TraceBuilderOf(i) ==
    /\ logged = <<>> /\ log_time = 1 /\ builder = NewBuilder /\ instant = i /\ log_end = 0 /\ made = <<>>
TraceBuilderInit == \E i \in BOOLEAN : TraceBuilderOf(i)

Record(events) ==
    /\ events # <<>> /\ Len(logged) + Len(events) <= MaxLogged /\ Len(made) < MaxWindows
    /\ logged' = logged \o events
    /\ UNCHANGED <<log_time, builder, instant, log_end, made>>

PutOut(stream, ts) == \E i \in DOMAIN logged : logged[i].finish /\ logged[i].stream = stream /\ logged[i].packet = ts
TakenIn(n, ts) == \E i \in DOMAIN logged : logged[i].node = n /\ IsPacketEvent(logged[i])
                                              /\ ~logged[i].finish /\ logged[i].packet = ts

\* LogInputEvents: a packet some node has put out begins to be processed.
LogInputEvents(n, ts) ==
    LET ins == TracedNodes[n].ins
    IN  /\ \A k \in DOMAIN ins : PutOut(ins[k], ts)
        /\ \A later \in TracedTimes : TakenIn(n, later) => later < ts
        /\ Record([k \in DOMAIN ins |-> TracedEvent("PROCESS", FALSE, n, ts, ins[k], ts)])

\* LogOutputEvents: a source is known by the time of its first packet; Open has no
\* input timestamp.
LogOutputEvents(n, type, ts) ==
    LET ins == TracedNodes[n].ins
        outs == TracedNodes[n].outs
        input == IF ins = <<>> THEN ts ELSE IF type = "OPEN" THEN UnstartedTime ELSE ts
    IN  /\ \A k \in DOMAIN outs, later \in TracedTimes : PutOut(outs[k], later) => later < ts
        /\ type = "OPEN" => \A i \in DOMAIN logged : logged[i].node # n
        /\ type = "PROCESS" /\ ins # <<>> => TakenIn(n, ts)
        /\ Record([k \in DOMAIN outs |-> TracedEvent(type, TRUE, n, input, outs[k], ts)])

\* LogEvent of what the scheduler sees.
LogSchedulerEvent(n) == Record(<<TracedEvent("NOT_READY", FALSE, n, UnsetTime, NoStream, UnsetTime)>>)

\* GetTrace or GetLog, of the events since the last window.
CaptureTrace(end) ==
    LET events == SelectSeq(logged, LAMBDA e : e.time >= log_end /\ e.time < end)
        result == IF instant THEN CreateLog(builder, events) ELSE CreateTrace(builder, events)
    IN  /\ Len(made) < MaxWindows /\ end \in log_end .. log_time
        /\ made' = Append(made, [events |-> events, trace |-> result.trace])
        /\ builder' = Cleared(result.builder)
        /\ log_end' = end
        /\ UNCHANGED <<logged, log_time, instant>>

LogClock ==
    /\ log_time < MaxLogTime /\ Len(made) < MaxWindows /\ log_time' = log_time + 1
    /\ UNCHANGED <<logged, builder, instant, log_end, made>>

TraceBuilderNext ==
    \/ LogClock
    \/ \E n \in DOMAIN TracedNodes, ts \in TracedTimes :
          LogInputEvents(n, ts) \/ (\E type \in {"OPEN", "PROCESS"} : LogOutputEvents(n, type, ts))
    \/ \E n \in DOMAIN TracedNodes : LogSchedulerEvent(n)
    \/ \E end \in 0 .. MaxLogTime : CaptureTrace(end)

-----------------------------------------------------------------------------
\* The packet events a calculator trace tells of, as they were logged.
ToldBy(trace, c) ==
    LET Told(s, finish) ==
            [time |-> trace.base.time + (IF finish THEN c.finish[1] ELSE IF s.finish # <<>> THEN s.finish[1] ELSE c.start[1]),
             type |-> c.type, finish |-> finish, node |-> c.node, input |-> trace.base.stamp + c.input[1],
             stream |-> trace.names[s.stream + 1], packet |-> trace.base.stamp + s.stamp,
             data |-> builder.packets[s.data + 1]]
    IN  [i \in DOMAIN c.ins |-> Told(c.ins[i], FALSE)] \o [i \in DOMAIN c.outs |-> Told(c.outs[i], TRUE)]

\* A trace tells every packet event of its window, and none twice: its numbers lead
\* back to the stream, the packet and the times that were logged.
EventsTold ==
    \A w \in DOMAIN made :
        LET trace == made[w].trace
            told == FlattenSeq([i \in DOMAIN trace.calculators |-> ToldBy(trace, trace.calculators[i])])
            happened == SelectSeq(made[w].events, IsPacketEvent)
        IN  ToSet(told) = ToSet(happened) /\ Len(told) = Len(happened)

\* An input is linked to the event of its own window that put its packet out by a
\* call of the same kind, which came no later than the packet was read, and to none
\* if there was no such event.
InputsLinked ==
    \A w \in DOMAIN made : ~instant =>
        LET trace == made[w].trace
            outputs == {e \in ToSet(made[w].events) : IsPacketEvent(e) /\ e.finish}
        IN  \A c \in ToSet(trace.calculators) : \A s \in ToSet(c.ins) :
               LET sources == {e \in outputs : /\ e.type = c.type /\ e.stream = trace.names[s.stream + 1]
                                               /\ e.packet = trace.base.stamp + s.stamp}
               IN  /\ (s.start = <<>>) = (sources = {})
                   /\ s.start # <<>> => /\ s.start[1] <= s.finish[1]
                                        /\ \E e \in sources : e.time = trace.base.time + s.start[1]

\* All windows count from the same time and timestamp, and name streams alike.
WindowsAgree ==
    \A v, w \in DOMAIN made : v <= w =>
        made[v].trace.base = made[w].trace.base /\ IsPrefix(made[v].trace.names, made[w].trace.names)

\* The traces made of a run's events, window by window, tell what happened.
TracesTell == EventsTold /\ InputsLinked /\ WindowsAgree
=============================================================================
