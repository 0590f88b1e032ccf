---------------------------- MODULE SwitchRouting ----------------------------
(***************************************************************************)
(* A SwitchContainer sends each packet through one of several contained    *)
(* nodes, the one that is selected at the packet's timestamp.  The demux   *)
(* and the mux learn of the selection each by a stream of their own, that  *)
(* runs ahead of or behind the packets.                                    *)
(*   src/mediapipe/framework/tool/switch_container.cc,                     *)
(*   switch_demux_calculator.cc, switch_mux_calculator.cc, container_util  *)
(*                                                                         *)
(* One input and one output stream, two contained nodes that pass on what  *)
(* they get.  Both calculators take their input streams by the             *)
(* ImmediateInputStreamHandler with timestamp bounds (see InputPolicies).  *)
(* The PacketSequencerCalculator, not in this repository, puts a selection *)
(* just after the last packet it has seen.                                 *)
(***************************************************************************)
EXTENDS Integers, Sequences, FiniteSets, FiniteSetsExt, SequencesExt

CONSTANTS Channels,       \* 0 .. n - 1
          LastSwitchTime, \* bound: timestamps of packets are 1 .. LastSwitchTime
          MaxSelections   \* bound: selections

VARIABLES sent,        \* timestamps of the packets given to the container
          ticks,       \* those the sequencer has not processed yet
          ticked,      \* the last timestamp the sequencer has processed
          chosen,      \* the selections it made, in order
          toDemux,     \* a packet given to the sequencer and not yet to the demux
          toMux,       \* selection events given to the demux and not yet to the mux
          demuxSelect, demuxInput, muxSelect,  \* input streams
          muxInput,    \* channel -> input stream
          demux, mux,  \* the calculators' members
          carried,     \* channel -> events within the contained node
          routed,      \* packets the mux has output, with their channels
          unknown      \* the demux looked for a channel before its history

sourceVars == <<sent, ticks, ticked, chosen>>
switchVars == <<sourceVars, toDemux, toMux, demuxSelect, demuxInput, muxSelect, muxInput, demux, mux, carried, routed, unknown>>

BoundOnly == -1                                \* an empty packet: a timestamp bound
SwitchEvent(ts, value) == [ts |-> ts, value |-> value]
Never == LastSwitchTime + 2
NoInput == [events |-> <<>>, settled |-> 0]

\* Open: GetChannelIndex takes the channel from the options or a side packet.
Opened(channel, queue) == [channel |-> channel, queue |-> queue, history |-> <<[ts |-> 0, channel |-> channel]>>]

SwitchInit ==
  /\ sent = <<>> /\ ticks = <<>> /\ ticked = 0 /\ chosen = <<[ts |-> 0, channel |-> 0]>>
  /\ toDemux = <<>> /\ toMux = <<>>
  /\ demuxSelect = NoInput /\ demuxInput = NoInput /\ muxSelect = NoInput
  /\ muxInput = [c \in Channels |-> NoInput]
  /\ demux = Opened(0, <<>>) /\ mux = Opened(0, [c \in Channels |-> <<>>])
  /\ carried = [c \in Channels |-> <<>>] /\ routed = <<>> /\ unknown = FALSE

-----------------------------------------------------------------------------
\* An input stream: a bound gives way to what comes after it.
Arrived(s, e) ==
  IF s.events # <<>> /\ Last(s.events).value = BoundOnly
  THEN [s EXCEPT !.events = Append(Front(@), e)] ELSE [s EXCEPT !.events = Append(@, e)]

ReadyAt(s) == IF s.events = <<>> THEN Never ELSE Head(s.events).ts

SettledTimestamp(s) ==
  IF s.events = <<>> THEN s.settled
  ELSE IF Head(s.events).value = BoundOnly THEN Head(s.events).ts ELSE Head(s.events).ts - 1

\* What a call at timestamp T sees of a stream, and what is left of it.
ValueAt(s, T) == IF ReadyAt(s) = T THEN Head(s.events) ELSE SwitchEvent(SettledTimestamp(s), BoundOnly)
Taken(s, T) == IF ReadyAt(s) = T THEN [events |-> Tail(s.events), settled |-> T] ELSE s

\* GetChannelIndex after Open; RecordChannel: the new channel and its history.
Recorded(node, select, T) ==
  IF select.value # BoundOnly /\ select.ts = T /\ select.value # node.channel
  THEN [node EXCEPT !.channel = select.value, !.history = Append(@, [ts |-> T, channel |-> select.value])]
  ELSE node

-----------------------------------------------------------------------------
\* A packet is given to the container: the sequencer's stream gets it first.
SendInput(t) ==
  /\ toDemux = <<>> /\ (IF sent = <<>> THEN 0 ELSE Last(sent)) < t
  /\ sent' = Append(sent, t) /\ ticks' = Append(ticks, t) /\ toDemux' = <<t>>
  /\ UNCHANGED <<ticked, chosen, toMux, demuxSelect, demuxInput, muxSelect, muxInput, demux, mux, carried, routed, unknown>>

DeliverInput ==
  /\ toDemux # <<>> /\ toDemux' = <<>>
  /\ demuxInput' = Arrived(demuxInput, SwitchEvent(toDemux[1], 1))
  /\ UNCHANGED <<sourceVars, toMux, demuxSelect, muxSelect, muxInput, demux, mux, carried, routed, unknown>>

\* The sequencer's output goes to the demux, then to the mux.
EmitSelection(e) ==
  /\ demuxSelect' = Arrived(demuxSelect, e) /\ toMux' = Append(toMux, e)
  /\ UNCHANGED <<sent, toDemux, demuxInput, muxSelect, muxInput, demux, mux, carried, routed, unknown>>

TickSequencer ==
  /\ ticks # <<>> /\ ticks' = Tail(ticks) /\ ticked' = Head(ticks)
  /\ IF Head(ticks) > Last(chosen).ts THEN EmitSelection(SwitchEvent(Head(ticks), BoundOnly))
     ELSE UNCHANGED <<sent, toDemux, toMux, demuxSelect, demuxInput, muxSelect, muxInput, demux, mux, carried, routed, unknown>>
  /\ UNCHANGED chosen

SelectChannel(c) ==
  /\ ticked > 0 /\ ticked + 1 > Last(chosen).ts /\ c # Last(chosen).channel /\ Len(chosen) <= MaxSelections
  /\ chosen' = Append(chosen, [ts |-> ticked + 1, channel |-> c])
  /\ EmitSelection(SwitchEvent(ticked + 1, c))
  /\ UNCHANGED <<ticks, ticked>>

DeliverSelection ==
  /\ toMux # <<>> /\ toMux' = Tail(toMux)
  /\ muxSelect' = Arrived(muxSelect, Head(toMux))
  /\ UNCHANGED <<sourceVars, toDemux, demuxSelect, demuxInput, muxInput, demux, mux, carried, routed, unknown>>

-----------------------------------------------------------------------------
\* ChannelIndex: the last entry of the history up to a timestamp.
EntriesBefore(history, ts) == {i \in DOMAIN history : history[i].ts <= ts}
ChannelIndex(history, ts) == history[Max(EntriesBefore(history, ts))].channel

UpTo(queue, ts) == SelectSeq(queue, LAMBDA e : e.ts <= ts)
After(queue, ts) == SelectSeq(queue, LAMBDA e : e.ts > ts)

\* Seeded fault: packets are routed by the channel that is current.
CurrentChannel(node, e) == node.channel

Route(node, e) == ChannelIndex(node.history, e.ts)

\* RecordPackets, SendActivePackets.  input_settled is never lowered from Done, so
\* that only the last entry of the history is kept.  Without an entry for its
\* timestamp a packet finds no output stream.
DemuxProcess ==
  LET T == Min({ReadyAt(demuxSelect), ReadyAt(demuxInput)})
      select == ValueAt(demuxSelect, T)
      input == ValueAt(demuxInput, T)
      node == Recorded([demux EXCEPT !.queue = IF input.ts = T THEN Append(@, input) ELSE @], select, T)
      active == UpTo(node.queue, select.ts)
      known == SelectSeq(active, LAMBDA e : EntriesBefore(node.history, e.ts) # {}) IN
  /\ T < Never
  /\ demuxSelect' = Taken(demuxSelect, T) /\ demuxInput' = Taken(demuxInput, T)
  /\ demux' = [node EXCEPT !.queue = After(@, select.ts), !.history = <<Last(@)>>]
  /\ carried' = [c \in Channels |-> carried[c] \o SelectSeq(known, LAMBDA e : Route(node, e) = c)]
  /\ unknown' = (unknown \/ known # active)
  /\ UNCHANGED <<sourceVars, toDemux, toMux, muxSelect, muxInput, mux, routed>>

\* The contained node passes a packet or a bound on.
Carry(c) ==
  /\ carried[c] # <<>> /\ carried' = [carried EXCEPT ![c] = Tail(@)]
  /\ muxInput' = [muxInput EXCEPT ![c] = Arrived(@, Head(carried[c]))]
  /\ UNCHANGED <<sourceVars, toDemux, toMux, demuxSelect, demuxInput, muxSelect, demux, mux, routed, unknown>>

-----------------------------------------------------------------------------
\* A history entry is expired only if all streams have advanced past it.
StillAwaited(settled, channel_end) == settled + 1 < channel_end

RECURSIVE SendActivePackets(_, _, _, _, _, _)
\* The entries of the history from i on; settled: the streams of the channels.
SendActivePackets(history, i, queue, out, settled, selected) ==
  LET channel == history[i].channel
      newest == i = Len(history)
      channel_end == IF newest THEN selected + 1 ELSE history[i + 1].ts
      due == SelectSeq(UpTo(queue[channel], channel_end - 1), LAMBDA e : e.ts >= history[i].ts /\ e.value # BoundOnly)
      rest == [queue EXCEPT ![channel] = After(@, channel_end - 1)]
      output == out \o [k \in DOMAIN due |-> [ts |-> due[k].ts, channel |-> channel]] IN
  IF StillAwaited(settled[channel], channel_end) \/ newest
  THEN [queue |-> rest, out |-> output, history |-> SubSeq(history, i, Len(history))]
  ELSE SendActivePackets(history, i + 1, [c \in Channels |-> After(rest[c], channel_end - 1)], output, settled, selected)

MuxProcess ==
  LET T == Min({ReadyAt(muxSelect)} \cup {ReadyAt(muxInput[c]) : c \in Channels})
      select == ValueAt(muxSelect, T)
      Seen(c) == ValueAt(muxInput[c], T)
      node == Recorded([mux EXCEPT !.queue = [c \in Channels |-> IF Seen(c).ts = T THEN Append(@[c], Seen(c)) ELSE @[c]]], select, T)
      sending == SendActivePackets(node.history, 1, node.queue, <<>>, [c \in Channels |-> Seen(c).ts], select.ts) IN
  /\ T < Never
  /\ muxSelect' = Taken(muxSelect, T) /\ muxInput' = [c \in Channels |-> Taken(muxInput[c], T)]
  /\ mux' = [node EXCEPT !.queue = sending.queue, !.history = sending.history]
  /\ routed' = routed \o sending.out
  /\ UNCHANGED <<sourceVars, toDemux, toMux, demuxSelect, demuxInput, demux, carried, unknown>>

SwitchNext ==
  \/ \E t \in 1 .. LastSwitchTime : SendInput(t)
  \/ DeliverInput \/ TickSequencer \/ DeliverSelection \/ DemuxProcess \/ MuxProcess
  \/ \E c \in Channels : SelectChannel(c) \/ Carry(c)
-----------------------------------------------------------------------------
SwitchQuiet ==
  /\ ticks = <<>> /\ toDemux = <<>> /\ toMux = <<>> /\ \A c \in Channels : carried[c] = <<>> /\ muxInput[c].events = <<>>
  /\ demuxSelect.events = <<>> /\ demuxInput.events = <<>> /\ muxSelect.events = <<>>

Due(t) == [ts |-> t, channel |-> ChannelIndex(chosen, t)]

(***************************************************************************)
(* What leaves the container are the packets given to it, in order, each   *)
(* through the node that was selected at its timestamp, and all of them    *)
(* once nothing is under way: whatever the delays of the contained nodes   *)
(* and of the two selection streams, as long as the demux knew the channel *)
(* of every packet.                                                        *)
(***************************************************************************)
RoutedAsSelected ==
  ~unknown => LET all == [i \in DOMAIN sent |-> Due(sent[i])] IN
              IF SwitchQuiet THEN routed = all ELSE IsPrefix(routed, all)

=============================================================================
