--------------------------- MODULE CoreCalculators ---------------------------
(***************************************************************************)
(* The calculators of calculators/core, in the graph their comments        *)
(* describe: a CountingSourceCalculator numbers packets, a                 *)
(* RoundRobinDemuxCalculator deals them to branches of slow calculators,   *)
(* and a MuxCalculator behind a MuxInputStreamHandler puts them together   *)
(* again.  A GateCalculator passes what is left on or not, under a control *)
(* stream, and a PacketClonerCalculator repeats the latest of it at every  *)
(* packet of a tick stream.                                                *)
(*                                                                         *)
(* The branches run at their own pace, so the mux sees every interleaving. *)
(* A packet is its timestamp: the counting source gives each number the    *)
(* timestamp of that value.                                                *)
(***************************************************************************)
EXTENDS Integers, Sequences, SequencesExt

CONSTANTS
    NumBranches,    \* outputs of the demux
    Sources,        \* [max, errors, batch, initial, increment, failOpen]; -1 for unset
    Gates,          \* [by, decision, emptyAllows]: what decides, and the decision
    Cloners,        \* [waitForAll, boundsBefore]: the options of the cloner
    MaxTime         \* bound: timestamps 0 .. MaxTime

VARIABLES
    options,    \* [source, gate, cloner], fixed when the graph starts
    source,     \* [status, counter, batches], and what was sent
    signal,     \* the stream from the source to the demux
    demux,      \* output_data_stream_index_
    branch,     \* for each branch, what waits before the slow calculator
    mux,        \* its input streams: SELECT and, per branch, queue and bound;
                \* and, for the properties, what the branches did not answer
    muxed,      \* the mux's output: its packets and its bound
    input,      \* what the gate and the cloner were given: [data, control, tick]
    gate,       \* last_gate_state_, the closed outputs, and the outputs
    cloner      \* current_, the bound of the output, and the output

coreVars == <<options, source, signal, demux, branch, mux, muxed, input, gate, cloner>>

BranchIds == 0 .. NumBranches - 1
Times == 0 .. MaxTime
None == -1
CoreDone == MaxTime + 1
NothingCurrent == [data |-> None, control |-> "empty"]

CoreInit ==
    /\ options \in [source : Sources, gate : Gates, cloner : Cloners]
    /\ source = [status |-> "new", counter |-> 0, batches |-> 0, sent |-> <<>>]
    /\ signal = <<>>
    /\ demux = 0
    /\ branch = [b \in BranchIds |-> <<>>]
    /\ mux = [select |-> <<>>, data |-> [b \in BranchIds |-> [queue |-> <<>>, bound |-> 0]],
              closed |-> FALSE, skipped |-> {}]
    /\ muxed = [packets |-> <<>>, bound |-> 0]
    /\ input = <<>>
    /\ gate = [last |-> "uninitialized", closed |-> FALSE, out |-> <<>>, change |-> <<>>]
    /\ cloner = [current |-> NothingCurrent, bound |-> 0, out |-> <<>>]

-----------------------------------------------------------------------------
\* CountingSourceCalculator::GetContract and Open: one of the counts is given,
\* and the numbers make sense.
SourceOpens(s) ==
    /\ ~s.failOpen
    /\ s.errors >= 0 \/ s.max >= 0
    /\ s.batch > 0
    /\ s.increment > 0

SourceOpen ==
    /\ source.status = "new"
    /\ source' = [source EXCEPT !.counter = options.source.initial,
                                !.status = IF SourceOpens(options.source) THEN "open" ELSE "error"]
    /\ UNCHANGED <<options, signal, demux, branch, mux, muxed, input, gate, cloner>>

\* CountingSourceCalculator::Process: the error after so many batches comes
\* before the stop.
SourceProcess ==
    LET s == options.source
        batch == [i \in 1 .. s.batch |-> source.counter + (i - 1) * s.increment]
    IN  /\ source.status = "open"
        /\ \/ /\ s.errors >= 0 /\ source.batches >= s.errors
              /\ source' = [source EXCEPT !.status = "error"]
              /\ UNCHANGED signal
           \/ /\ ~(s.errors >= 0 /\ source.batches >= s.errors)
              /\ s.max >= 0 /\ source.batches >= s.max
              /\ source' = [source EXCEPT !.status = "done"]
              /\ UNCHANGED signal
           \/ /\ ~(s.errors >= 0 /\ source.batches >= s.errors)
              /\ ~(s.max >= 0 /\ source.batches >= s.max)
              /\ source' = [source EXCEPT !.counter = @ + s.batch * s.increment,
                                          !.batches = @ + 1,
                                          !.sent = @ \o batch]
              /\ signal' = signal \o batch
        /\ UNCHANGED <<options, demux, branch, mux, muxed, input, gate, cloner>>

-----------------------------------------------------------------------------
\* Seeded fault: SELECT names the next output.
SelectsNext(index) == (index + 1) % NumBranches
\* The index that RoundRobinDemuxCalculator::Process sends on SELECT.
MuxSelected(index) == index

\* RoundRobinDemuxCalculator::Process: the packet to the next output, and the
\* output's index on SELECT.
DemuxProcess ==
    /\ source.status # "error"
    /\ signal # <<>>
    /\ signal' = Tail(signal)
    /\ branch' = [branch EXCEPT ![demux] = Append(@, Head(signal))]
    /\ mux' = [mux EXCEPT !.select = Append(@, [at |-> Head(signal), value |-> MuxSelected(demux)])]
    /\ demux' = (demux + 1) % NumBranches
    /\ UNCHANGED <<options, source, muxed, input, gate, cloner>>

\* A slow calculator on a branch: each packet gives one at the same timestamp,
\* or only moves the bound.
SlowProcess(b) ==
    /\ source.status # "error"
    /\ branch[b] # <<>>
    /\ branch' = [branch EXCEPT ![b] = Tail(@)]
    /\ \/ mux' = [mux EXCEPT !.data[b] = [queue |-> Append(@.queue, Head(branch[b])),
                                          bound |-> Head(branch[b]) + 1]]
       \/ mux' = [mux EXCEPT !.data[b].bound = Head(branch[b]) + 1,
                             !.skipped = @ \cup {Head(branch[b])}]
    /\ UNCHANGED <<options, source, signal, demux, muxed, input, gate, cloner>>

\* The branch is closed behind its last packet.
BranchDone(b) == source.status = "done" /\ signal = <<>> /\ branch[b] = <<>>

EarlierErased(queue, time) == SelectSeq(queue, LAMBDA x : x >= time)

\* MuxInputStreamHandler::GetNodeReadiness: the selected stream has its packet,
\* or its bound has passed.
MuxReady ==
    /\ mux.select # <<>>
    /\ LET control == Head(mux.select)
           data == mux.data[control.value]
       IN  \/ EarlierErased(data.queue, control.at) # <<>>
           \/ data.bound > control.at
           \/ BranchDone(control.value)

\* FillInputSet, with the old packets of the other streams discarded, and
\* MuxCalculator::Process: the selected packet, if there is one, goes out.
MuxProcess ==
    LET control == Head(mux.select)
        chosen == EarlierErased(mux.data[control.value].queue, control.at)
        found == chosen # <<>> /\ Head(chosen) = control.at
    IN  /\ source.status # "error"
        /\ MuxReady
        /\ mux' = [mux EXCEPT !.select = Tail(@),
               !.data = [b \in BranchIds |->
                   [mux.data[b] EXCEPT !.queue = EarlierErased(@, control.at + 1)]]]
        /\ muxed' = IF found THEN [packets |-> Append(muxed.packets, control.at),
                                   bound |-> control.at + 1]
                    ELSE muxed
        /\ UNCHANGED <<options, source, signal, demux, branch, input, gate, cloner>>

\* The control stream is done: the mux closes, and its output with it.
MuxClose ==
    /\ source.status = "done" /\ signal = <<>> /\ mux.select = <<>> /\ ~mux.closed
    /\ mux' = [mux EXCEPT !.closed = TRUE]
    /\ muxed' = [muxed EXCEPT !.bound = CoreDone]
    /\ UNCHANGED <<options, source, signal, demux, branch, input, gate, cloner>>

-----------------------------------------------------------------------------
\* GateCalculator::Open picks what decides; Process looks at the stream only if
\* neither a side packet nor the options decide, and an empty packet counts as
\* empty_packets_as_allow says.  by = "allow" or "disallow" is the control stream.
Allows(g, control) ==
    CASE g.by \in {"option", "side packet"} -> g.decision
      [] control = "empty" -> g.emptyAllows
      [] OTHER -> (control = "true") <=> (g.by = "allow")

\* last_gate_state_ after Process.
Remembered(last, new) == new

\* GateCalculator::Process.  Passing a closed gate: the outputs are closed for
\* good when a side packet decided.
GateProcess(time, data, control) ==
    LET allow == Allows(options.gate, control)
        new == IF allow THEN "allow" ELSE "disallow"
    IN  gate' = [last |-> Remembered(gate.last, new),
                 closed |-> gate.closed \/ (~allow /\ options.gate.by = "side packet"),
                 out |-> IF allow /\ data # None THEN Append(gate.out, time) ELSE gate.out,
                 change |-> IF gate.last \notin {"uninitialized", new}
                            THEN Append(gate.change, [at |-> time, allow |-> allow])
                            ELSE gate.change]

\* PacketClonerCalculator: current_ keeps a packet until the next one.
Stored(old, new, empty) == IF new # empty THEN new ELSE old

\* PacketClonerCalculator::Process, cloning the data and the control stream:
\* the latest packets at the tick, and the bound of the outputs once the tick
\* stream is exactly at the timestamp.  A tick stream that is known to be ahead
\* of the timestamp reports a later one.
ClonerProcess(time, data, control, tick) ==
    LET current == [data |-> Stored(cloner.current.data, data, None),
                    control |-> Stored(cloner.current.control, control, "empty")]
        hasAll == current.data # None /\ current.control # "empty"
        sends == tick = "packet" /\ (hasAll \/ ~options.cloner.waitForAll)
        producing == hasAll \/ options.cloner.boundsBefore \/ ~options.cloner.waitForAll
    IN  cloner' = [current |-> current,
                   out |-> IF sends /\ current # NothingCurrent
                           THEN Append(cloner.out, [at |-> time, of |-> current])
                           ELSE cloner.out,
                   bound |-> IF tick # "ahead" /\ producing THEN time + 1 ELSE cloner.bound]

\* The default input stream handler in front of both: the next timestamp, once
\* the mux's output is past it, with the control and the tick packets there.
\* The cloner processes timestamp bounds too; the gate needs a packet.
NextInputs(control, tick) ==
    LET time == Len(input)
        data == IF time \in ToSet(muxed.packets) THEN time ELSE None
    IN  /\ source.status # "error"
        /\ time <= MaxTime
        /\ muxed.bound > time
        /\ input' = Append(input, [data |-> data, control |-> control, tick |-> tick])
        /\ IF data # None \/ control # "empty"
           THEN GateProcess(time, data, control) ELSE UNCHANGED gate
        /\ ClonerProcess(time, data, control, tick)
        /\ UNCHANGED <<options, source, signal, demux, branch, mux, muxed>>

CoreNext ==
    \/ SourceOpen \/ SourceProcess
    \/ DemuxProcess
    \/ \E b \in BranchIds : SlowProcess(b)
    \/ MuxProcess \/ MuxClose
    \/ \E control \in IF options.gate.by \in {"allow", "disallow"}
                      THEN {"empty", "true", "false"} ELSE {"empty"},
          tick \in {"packet", "none", "ahead"} :
          NextInputs(control, tick)

CoreSpec == CoreInit /\ [][CoreNext]_coreVars

-----------------------------------------------------------------------------
\* However the branches overtake one another, the mux gives back the source's
\* packets in their order, without losing, repeating or swapping one; and when
\* everything upstream is through, nothing is left waiting in it.
ParallelBranchesInOrder ==
    LET answered == ToSet(muxed.packets)
        through == signal = <<>> /\ \A b \in BranchIds : branch[b] = <<>>
    IN  /\ \A i \in 1 .. Len(muxed.packets) - 1 : muxed.packets[i] < muxed.packets[i + 1]
        /\ answered \subseteq ToSet(source.sent)
        /\ source.status = "done" /\ through /\ ~MuxReady => mux.select = <<>>
        /\ mux.closed => muxed.packets = SelectSeq(source.sent, LAMBDA x : x \notin mux.skipped)

\* The gate lets through exactly the packets whose decision allows them, says
\* STATE_CHANGE exactly when the decision differs from the one before, and
\* never sends after it closed its outputs.
GateFollowsControl ==
    LET Called(i) == input[i].data # None \/ input[i].control # "empty"
        Decision(i) == Allows(options.gate, input[i].control)
        Before(i) == {j \in 1 .. i - 1 : Called(j)}
        Changes(i) == /\ Called(i) /\ Before(i) # {}
                      /\ \E j \in Before(i) : /\ \A k \in Before(i) : k <= j
                                              /\ Decision(j) # Decision(i)
    IN  /\ ToSet(gate.out) = {i - 1 : i \in {j \in 1 .. Len(input) :
                                               input[j].data # None /\ Decision(j)}}
        /\ ToSet(gate.change) = {[at |-> i - 1, allow |-> Decision(i)] :
                                    i \in {j \in 1 .. Len(input) : Changes(j)}}
        /\ gate.closed => gate.out = <<>>

\* At every tick the cloner repeats the latest packet of each stream that is
\* not later, if it may send before it has them all; the bound it promises never
\* runs ahead of its inputs and is past every packet it sent.
ClonesLatest ==
    LET Latest(i, Given(_)) == {j \in 1 .. i : Given(j) /\ \A k \in j + 1 .. i : ~Given(k)}
        Data(i) == Latest(i, LAMBDA j : input[j].data # None)
        Control(i) == Latest(i, LAMBDA j : input[j].control # "empty")
        May(i) == IF options.cloner.waitForAll THEN Data(i) # {} /\ Control(i) # {}
                  ELSE Data(i) # {} \/ Control(i) # {}
        Clone(i) == [data |-> IF Data(i) = {} THEN None
                              ELSE CHOOSE t \in Times : \A j \in Data(i) : t = j - 1,
                     control |-> IF Control(i) = {} THEN "empty"
                                 ELSE input[CHOOSE j \in Control(i) : TRUE].control]
        Ticks == {i \in 1 .. Len(input) : input[i].tick = "packet" /\ May(i)}
    IN  /\ ToSet(cloner.out) = {[at |-> i - 1, of |-> Clone(i)] : i \in Ticks}
        /\ cloner.bound <= Len(input)
        /\ \A i \in 1 .. Len(cloner.out) : cloner.out[i].at < cloner.bound

\* Packets through demultiplexer, branches, multiplexer, gate and cloner come
\* out once, in order, and as the control streams say at their time.
CalculatorsSound == ParallelBranchesInOrder /\ GateFollowsControl /\ ClonesLatest
=============================================================================
