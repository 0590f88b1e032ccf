------------------------------- MODULE GraphRun -------------------------------
(***************************************************************************)
(* The life of a CalculatorGraph around its runs (calculator_graph.cc):    *)
(* executors and packet generators at Initialize(), services, generators,  *)
(* status handlers and side packets at the start of each run, errors and   *)
(* status handlers at its end.  Generators run in parallel on the default  *)
(* executor (packet_generator_graph.cc), or on the application's thread.   *)
(* Nodes here have side packets only; Scheduler has the streams.           *)
(*                                                                         *)
(* A packet is [by, from]: who made it, and from which input side packets. *)
(***************************************************************************)
EXTENDS Integers, Sequences, FiniteSets, TLC

CONSTANTS Generators,    \* names of the packet generators, a sequence
          SideNodes,     \* names of the calculators
          Ports,         \* name |-> [ins, outs], sets of side packet names
          OptionalNames, \* side packets every user of which is optional
          StatusHandlers,\* input side packets of each status handler, by name
          ExecutorSets,  \* configs of executors, sequences of [name, type]
          GivenExecutors,\* sets of names given to SetExecutor()
          InitPackets,   \* side packets given to Initialize(), maps
          RunPackets,    \* side packets given to a run, maps
          BadMakers,     \* packets made by these have the wrong type
          Failing,       \* generators, nodes and handlers that may fail
          Requests,      \* [service, optional, creatable] of the nodes
          PoolThreads,   \* threads of the default executor
          Main,          \* the thread of the application
          MaxRuns        \* bound: runs started

VARIABLES main,             \* what the application's thread is doing
          executors,        \* executors_, by name
          use_application_thread,
          services,         \* services that have a packet
          base_packets,     \* base_packets_
          non_base_generators,
          side_packets,     \* the map generators read and extend
          initial, scheduled_generators, num_tasks, generator_tasks, statuses, at,
          wrapped,          \* generators with a wrapper node
          wrappers_added,   \* packet_generator_nodes_added_
          errors, recorded, \* errors_, and every error of the run so far
          returned,         \* the errors the last run returned
          out_packet, initialized, \* of each OutputSidePacketImpl
          node_in, node_prev,      \* input side packets of this and the last run
          opened,           \* nodes opened in this run
          complete,         \* every run so far opened all its nodes
          runs

generatorVars == <<side_packets, scheduled_generators, num_tasks, generator_tasks, statuses, at>>
setupVars == <<executors, use_application_thread, services, base_packets, non_base_generators, initial>>
nodeVars == <<wrapped, wrappers_added, out_packet, initialized, node_in, node_prev, opened, complete>>
errorVars == <<errors, recorded, returned>>
runVars == <<main, setupVars, generatorVars, nodeVars, errorVars, runs>>

RunThreads == PoolThreads \cup {Main}
GenIndexes == 1 .. Len(Generators)
SideUnits == SideNodes \cup {Generators[i] : i \in GenIndexes}
Outputs == UNION {Ports[u].outs : u \in SideUnits}
NoPackets == <<>>
Null == [filled |-> FALSE, packets |-> NoPackets]
Restricted(f, S) == [n \in S \cap DOMAIN f |-> f[n]]
Bad(packets) == \E n \in DOMAIN packets : packets[n].by \in BadMakers
Working(t) == at[t].op # "idle"

RunInit ==
    /\ main = "new" /\ executors = <<>> /\ use_application_thread = FALSE /\ services = {}
    /\ base_packets = NoPackets /\ non_base_generators = {} /\ side_packets = NoPackets
    /\ initial = TRUE /\ scheduled_generators = {} /\ num_tasks = 0 /\ generator_tasks = <<>>
    /\ statuses = {} /\ at = [t \in RunThreads |-> [op |-> "idle"]]
    /\ wrapped = {} /\ wrappers_added = FALSE
    /\ errors = {} /\ recorded = {} /\ returned = {}
    /\ out_packet = NoPackets /\ initialized = {}
    /\ node_in = [u \in SideUnits |-> Null] /\ node_prev = [u \in SideUnits |-> Null]
    /\ opened = {} /\ complete = TRUE /\ runs = 0

-----------------------------------------------------------------------------

\* An entry of the config must name an executor that was given, the default
\* one, or have a type; "ApplicationThreadExecutor" is for the default only.
ExecutorRefused(config, given) ==
    \/ \E i \in DOMAIN config :
          \/ config[i].name \in given /\ config[i].type # ""
          \/ config[i].name \notin given /\ config[i].name # "" /\ config[i].type \in {"", "app"}

\* SetExecutor() for each given name, InitializeExecutors() and, if none was
\* made for "", InitializeDefaultExecutor()
InitializeExecutors(config, given) ==
    LET made == {config[i].name : i \in {j \in DOMAIN config :
                    config[j].name \notin given /\ config[j].type \notin {"", "app"}}}
        app == \E i \in DOMAIN config : config[i] = [name |-> "", type |-> "app"]
    IN [n \in given \cup made \cup {""} |->
          IF n \in given THEN "given"
          ELSE IF n # "" THEN "made"
          ELSE IF "" \in made THEN "made" ELSE IF app THEN "app" ELSE "pool"]

CanAcceptSidePackets(packets) == DOMAIN packets \cap Outputs = {}

\* ValidateRequiredSidePackets(): what no unit of the graph produces
ValidateRequiredSidePackets(packets) ==
    LET required == (UNION {Ports[u].ins : u \in SideUnits}) \ Outputs
    IN /\ required \ OptionalNames \subseteq DOMAIN packets
       /\ ~Bad(Restricted(packets, required))

\* The start of ExecuteGenerators(); a second pass has only the others left.
ExecuteGenerators(packets, first) ==
    /\ side_packets' = packets
    /\ initial' = first
    /\ scheduled_generators' = IF first THEN {} ELSE GenIndexes \ non_base_generators
    /\ num_tasks' = 0 /\ generator_tasks' = <<>> /\ statuses' = {}
    /\ at' = [at EXCEPT ![Main] = [op |-> "scan", next |-> 1]]

Initialize(config, given, packets) ==
    /\ main = "new"
    /\ IF ExecutorRefused(config, given) \/ ~CanAcceptSidePackets(packets)
       THEN /\ main' = "refused"
            /\ UNCHANGED <<executors, use_application_thread, initial, generatorVars>>
       ELSE /\ executors' = InitializeExecutors(config, given)
            /\ use_application_thread' = (executors'[""] = "app")
            /\ ExecuteGenerators(packets, TRUE)
            /\ main' = "generating"
    /\ UNCHANGED <<services, base_packets, non_base_generators, nodeVars, errorVars, runs>>

-----------------------------------------------------------------------------

Runnable(i) == Ports[Generators[i]].ins \subseteq DOMAIN side_packets
TypeError(i) == Bad(Restricted(side_packets, Ports[Generators[i]].ins))
LeastIndex(S) == CHOOSE i \in S : \A j \in S : i <= j
Rest(t) == IF t = Main THEN "wait" ELSE "idle"

\* ScheduleAllRunnableGenerators(): mutex_ is released for each Schedule().
Scan(t) ==
    /\ at[t].op = "scan"
    /\ LET open == {i \in at[t].next .. Len(Generators) : i \notin scheduled_generators}
           fit == {i \in open : Runnable(i) /\ ~TypeError(i)}
           wrong == {i \in open : TypeError(i) /\ (fit = {} \/ i < LeastIndex(fit))}
       IN /\ statuses' = statuses \cup {<<"type", i>> : i \in wrong}
          /\ IF fit = {}
             THEN /\ at' = [at EXCEPT ![t].op = IF "task" \in DOMAIN at[t] THEN "done" ELSE "wait"]
                  /\ UNCHANGED <<scheduled_generators, num_tasks, generator_tasks>>
             ELSE LET i == LeastIndex(fit)
                  IN /\ scheduled_generators' = scheduled_generators \cup {i}
                     /\ num_tasks' = num_tasks + 1
                     /\ generator_tasks' = Append(generator_tasks,
                           [generator |-> i, ins |-> Restricted(side_packets, Ports[Generators[i]].ins)])
                     /\ at' = [at EXCEPT ![t].next = i + 1]
    /\ UNCHANGED <<main, setupVars, side_packets, nodeVars, errorVars, runs>>

\* A thread of the executor, or Main in RunApplicationThreadTasks()
TakeGenerator(t) ==
    /\ generator_tasks # <<>>
    /\ IF use_application_thread THEN t = Main /\ at[t].op = "wait" ELSE t # Main /\ at[t].op = "idle"
    /\ generator_tasks' = Tail(generator_tasks)
    /\ at' = [at EXCEPT ![t] = [op |-> "check", task |-> Head(generator_tasks), next |-> 1]]
    /\ UNCHANGED <<main, setupVars, side_packets, scheduled_generators, num_tasks, statuses,
                   nodeVars, errorVars, runs>>

CheckStatuses(t) ==
    /\ at[t].op = "check"
    /\ at' = [at EXCEPT ![t].op = IF statuses = {} THEN "generate" ELSE "done"]
    /\ UNCHANGED <<main, setupVars, side_packets, scheduled_generators, num_tasks, generator_tasks,
                   statuses, nodeVars, errorVars, runs>>

\* Generate() has succeeded: its packets are added under mutex_, and all
\* generators are looked at again unless there are errors.
AddGenerated(t, name) ==
    LET twice == Ports[name].outs \cap DOMAIN side_packets
    IN /\ statuses' = statuses \cup {<<"twice", n>> : n \in twice}
       /\ side_packets' = side_packets @@
             [n \in Ports[name].outs |-> [by |-> name, from |-> at[t].task.ins]]
       /\ at' = [at EXCEPT ![t].op = IF statuses' = {} THEN "scan" ELSE "done"]

GenerateAndScheduleNext(t) ==
    /\ at[t].op = "generate"
    /\ LET i == at[t].task.generator
       IN \/ AddGenerated(t, Generators[i])
          \/ /\ Generators[i] \in Failing
             /\ statuses' = statuses \cup {<<"generate", i>>}
             /\ at' = [at EXCEPT ![t].op = "done"]
             /\ UNCHANGED side_packets
    /\ UNCHANGED <<main, setupVars, scheduled_generators, num_tasks, generator_tasks, nodeVars,
                   errorVars, runs>>

EndGenerator(t) ==
    /\ at[t].op = "done"
    /\ num_tasks' = num_tasks - 1
    /\ at' = [at EXCEPT ![t] = [op |-> Rest(t)]]
    /\ UNCHANGED <<main, setupVars, side_packets, scheduled_generators, generator_tasks, statuses,
                   nodeVars, errorVars, runs>>

\* WaitUntilIdle() and GetNonScheduledGenerators().  Only Initialize() keeps
\* the list and the packets for the runs to come.
GeneratorsDone ==
    /\ main = "generating" /\ at[Main].op = "wait"
    /\ IF use_application_thread THEN generator_tasks = <<>> ELSE num_tasks = 0
    /\ at' = [at EXCEPT ![Main] = [op |-> "idle"]]
    /\ main' = IF ~initial THEN "preRun" ELSE IF statuses = {} THEN "ready" ELSE "refused"
    /\ base_packets' = IF initial THEN side_packets ELSE base_packets
    /\ non_base_generators' =
          IF initial THEN GenIndexes \ scheduled_generators ELSE non_base_generators
    /\ UNCHANGED <<executors, use_application_thread, services, initial, side_packets,
                   scheduled_generators, num_tasks, generator_tasks, statuses, nodeVars, errorVars, runs>>

-----------------------------------------------------------------------------

MissingService == {r \in Requests : r.service \notin services}

\* PrepareServices() stops at a service nobody gave and nobody can make.
ServiceRefused == \E r \in MissingService : ~r.creatable /\ ~r.optional

\* RunGraphSetup(): the packets of the run beside those of Initialize()
SetupAccepted(extra) ==
    /\ DOMAIN extra \cap DOMAIN base_packets = {}
    /\ CanAcceptSidePackets(extra)
    /\ ValidateRequiredSidePackets(base_packets @@ extra)

\* StartRun() and PrepareForRun() up to the generators
StartRun(extra) ==
    /\ main = "ready" /\ runs < MaxRuns
    /\ runs' = runs + 1
    /\ errors' = {} /\ recorded' = {}
    /\ services' = services \cup {r.service : r \in {q \in MissingService : q.creatable}}
    /\ IF ServiceRefused
       THEN /\ returned' = {"service"} /\ main' = "ready"
            /\ UNCHANGED <<generatorVars, initial>>
       ELSE /\ UNCHANGED returned
            /\ IF SetupAccepted(extra)
               THEN main' = "generating" /\ ExecuteGenerators(base_packets @@ extra, FALSE)
               ELSE /\ main' = "preRun" /\ initial' = FALSE
                    /\ statuses' = {<<"packets", 0>>}
                    /\ side_packets' = base_packets @@ extra
                    /\ UNCHANGED <<scheduled_generators, num_tasks, generator_tasks, at>>
    /\ UNCHANGED <<executors, use_application_thread, base_packets, non_base_generators, nodeVars>>

\* CallStatusHandlers(): the errors it records.  A handler whose side packets
\* are missing is skipped; one that runs may fail.
HandlerErrors(state, failing) ==
    {<<state, h>> : h \in {k \in DOMAIN StatusHandlers :
        ~(StatusHandlers[k] \subseteq DOMAIN side_packets) \/ k \in failing}}

FailingHandlers == SUBSET (Failing \cap (DOMAIN StatusHandlers))

\* FillPacketSet() for a node, without its optional packets that are not given
NodeInputs(u) == Restricted(side_packets, Ports[u].ins)
Needed(u) == Ports[u].ins \ ((OptionalNames \ Outputs) \ DOMAIN side_packets)

\* InitializePacketGeneratorNodes(): the wrapper nodes of the first run that
\* gets here are used in all runs.
WrapperNodes ==
    IF wrappers_added THEN wrapped ELSE {Generators[i] : i \in GenIndexes \ scheduled_generators}

\* PrepareForRun() from the PRE_RUN handlers to the nodes
PrepareNodes(failing) ==
    /\ main = "preRun"
    /\ LET handlerErrors == HandlerErrors("preRun", failing)
           nodes == SideNodes \cup WrapperNodes
           nodeErrors == {<<"node", u>> : u \in {v \in nodes : Bad(NodeInputs(v))}}
       IN IF statuses # {} \/ handlerErrors # {}
          THEN /\ errors' = handlerErrors /\ recorded' = handlerErrors
               /\ returned' = IF statuses # {} THEN {"generators"} ELSE handlerErrors
               /\ main' = "ready"
               /\ UNCHANGED nodeVars
          ELSE /\ wrapped' = WrapperNodes /\ wrappers_added' = TRUE
               /\ initialized' = {} /\ opened' = {}
               /\ node_prev' = [u \in SideUnits |-> IF u \in nodes THEN node_in[u] ELSE node_prev[u]]
               /\ node_in' = [u \in SideUnits |->
                     IF u \notin nodes THEN node_in[u]
                     ELSE IF Bad(NodeInputs(u)) THEN Null ELSE [filled |-> TRUE, packets |-> NodeInputs(u)]]
               /\ errors' = nodeErrors /\ recorded' = nodeErrors
               /\ main' = IF nodeErrors = {} THEN "running" ELSE "ending"
               /\ UNCHANGED <<returned, out_packet, complete>>
    /\ UNCHANGED <<setupVars, generatorVars, runs>>

\* Seeded fault: packets set by other nodes count as unchanged.
ChangedAtStart(u) ==
    \/ ~node_prev[u].filled \/ ~node_in[u].filled
    \/ NodeInputs(u) # Restricted(node_prev[u].packets, DOMAIN NodeInputs(u))

InputSidePacketsChanged(u) ==
    ~node_prev[u].filled \/ ~node_in[u].filled \/ node_in[u] # node_prev[u]

\* OutputSidePacketImpl::SetInternal() and InputSidePacketHandler::SetInternal()
\* of its mirrors, which refuse a packet that is already there.
SetOutputs(u, new) ==
    LET names == DOMAIN new
        nodes == SideNodes \cup wrapped
        refusing == {v \in nodes : Ports[v].ins \cap names \cap DOMAIN node_in[v].packets # {}}
    IN /\ out_packet' = [n \in names \ initialized |-> new[n]] @@ out_packet
       /\ initialized' = initialized \cup names
       /\ node_in' = [v \in SideUnits |->
             IF v \notin nodes THEN node_in[v]
             ELSE [node_in[v] EXCEPT !.packets = @ @@ Restricted(new, Ports[v].ins)]]
       /\ errors' = errors \cup {<<"set", v>> : v \in refusing}
       /\ recorded' = recorded \cup errors'

\* OpenNode(): Open() sets the outputs, or those of the last run are resent.
OpenSideNode(u) ==
    /\ main = "running" /\ errors = {}
    /\ u \in (SideNodes \cup wrapped) \ opened
    /\ Needed(u) \subseteq DOMAIN node_in[u].packets
    /\ opened' = opened \cup {u}
    /\ LET made == [n \in Ports[u].outs |-> [by |-> u, from |-> node_in[u].packets]]
           resent == Restricted(out_packet, Ports[u].outs)
       IN \/ SetOutputs(u, IF InputSidePacketsChanged(u) THEN made ELSE resent)
          \/ /\ u \in Failing /\ InputSidePacketsChanged(u)
             /\ errors' = {<<"open", u>>} /\ recorded' = recorded \cup errors'
             /\ UNCHANGED <<out_packet, initialized, node_in>>
    /\ UNCHANGED <<main, setupVars, generatorVars, wrapped, wrappers_added, node_prev, complete,
                   returned, runs>>

Cancel ==
    /\ main = "running" /\ errors = {}
    /\ errors' = {<<"cancelled", Main>>} /\ recorded' = recorded \cup errors'
    /\ UNCHANGED <<main, setupVars, generatorVars, nodeVars, returned, runs>>

\* The scheduler has nothing left to open, or there is an error.
RunTerminates ==
    /\ main = "running"
    /\ errors # {} \/ ~\E u \in (SideNodes \cup wrapped) \ opened : Needed(u) \subseteq DOMAIN node_in[u].packets
    /\ main' = "ending"
    /\ UNCHANGED <<setupVars, generatorVars, nodeVars, errorVars, runs>>

\* CleanupAfterRun(): what the caller gets
StatusAfter(handlerErrors) == errors \cup handlerErrors

FinishRun(failing) ==
    /\ main = "ending"
    /\ LET handlerErrors == HandlerErrors("postRun", failing)
       IN returned' = StatusAfter(handlerErrors) /\ recorded' = recorded \cup handlerErrors
    /\ errors' = {}
    /\ complete' = (complete /\ opened = SideNodes \cup wrapped /\ errors = {})
    /\ main' = "ready"
    /\ UNCHANGED <<setupVars, generatorVars, wrapped, wrappers_added, out_packet, initialized,
                   node_in, node_prev, opened, runs>>

RunNext ==
    \/ \E config \in ExecutorSets, given \in GivenExecutors, packets \in InitPackets :
          Initialize(config, given, packets)
    \/ \E t \in RunThreads : Scan(t) \/ TakeGenerator(t) \/ CheckStatuses(t)
          \/ GenerateAndScheduleNext(t) \/ EndGenerator(t)
    \/ GeneratorsDone
    \/ \E extra \in RunPackets : StartRun(extra)
    \/ \E failing \in FailingHandlers : PrepareNodes(failing) \/ FinishRun(failing)
    \/ \E u \in SideUnits : OpenSideNode(u)
    \/ Cancel \/ RunTerminates

-----------------------------------------------------------------------------

\* When the generators have been waited for, no task of the scheduler is left
\* that could still touch it, and unless one failed exactly those have run
\* whose inputs are there, each on the packets the map now holds, however the
\* scans of the threads interleaved (GenerateAndScheduleNext, WaitUntilIdle).
GeneratorsSettled ==
    main \in {"ready", "preRun", "running"} =>
       /\ num_tasks = 0 /\ generator_tasks = <<>> /\ \A t \in RunThreads : ~Working(t)
       /\ statuses = {} =>
             \A i \in GenIndexes :
                /\ i \in scheduled_generators <=> Runnable(i)
                /\ i \in scheduled_generators =>
                      \A n \in Ports[Generators[i]].outs :
                         /\ n \in DOMAIN side_packets
                         /\ side_packets[n].from = Restricted(side_packets, Ports[Generators[i]].ins)

\* A run whose nodes were prepared returns every error recorded for it, those
\* of the status handlers after its end included, and leaves none to the next
\* run (RecordError, CleanupAfterRun).
ErrorsReturned ==
    main = "ready" /\ opened # {} /\ returned # {"generators"} /\ returned # {"service"} =>
       returned = recorded

\* "Returns true if all outputs will be identical to the previous graph run"
\* (calculator_node.h:286): what an opened node has set was made from the
\* inputs of this run, though it may have been resent.  It holds as long as
\* every earlier run has opened all its nodes (OutputsAreConstant,
\* ResendSidePackets).
ResentOutputsAreCurrent ==
    complete /\ main = "running" /\ errors = {} =>
       \A u \in opened : \A n \in Ports[u].outs :
          n \in DOMAIN out_packet /\ out_packet[n].from = node_in[u].packets

\* Side packets through the runs of a graph: every generator that can run has
\* run on current packets, every error comes back from its own run, and what is
\* sent again is what it would have been.
RunsSound == GeneratorsSettled /\ ErrorsReturned /\ ResentOutputsAreCurrent
=============================================================================
