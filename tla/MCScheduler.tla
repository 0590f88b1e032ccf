----------------------------- MODULE MCScheduler -----------------------------
(***************************************************************************)
(* Graphs for the scheduler, by the names of their nodes: s1, s2 and s3    *)
(* are sources, c1, c2 nodes with inputs, g1, g2 graph input streams.      *)
(* Each cfg chooses the sets; the functions below fit any choice.          *)
(***************************************************************************)
EXTENDS Scheduler

CONSTANTS
  OneQueue,       \* every node on the default executor
  SharedSink,     \* every producer feeds c1, else s2 and g2 feed c2
  TwoLayers,      \* s2 is in source layer 1, as s3 always is
  SourceNeedsSink \* s1 needs the side packet of c1 to be opened

MCItems == Nodes \X {"open", "process"}

MCId(n) ==
  CASE n = "s1" -> 0 [] n = "s2" -> 1 [] n = "s3" -> 2
    [] n = "c1" -> 3 [] OTHER -> 4

MCLayer ==
  [s \in Sources |-> IF s = "s3" \/ (TwoLayers /\ s = "s2") THEN 1 ELSE 0]

MCInfo ==
  [i \in MCItems |->
     [open   |-> i[2] = "open",
      source |-> i[1] \in Sources,
      layer  |-> IF i[1] \in Sources THEN MCLayer[i[1]] ELSE 0,
      order  |-> 0,
      id     |-> MCId(i[1]),
      queue  |-> IF OneQueue \/ i[1] \in Sources THEN "q1" ELSE "q2"]]

(* If s1 needs the side packet of c1, then c1 is fed by g1 or else by s2.  *)
MCDest ==
  [p \in Producers |->
     IF \/ SharedSink
        \/ p = "g1"
        \/ p = "s1" /\ ~SourceNeedsSink
        \/ p = "s2" /\ SourceNeedsSink /\ GraphInputs = {}
     THEN "c1" ELSE "c2"]

MCOpenNeeds ==
  [n \in Nodes |-> IF SourceNeedsSink /\ n = "s1" THEN {"c1"} ELSE {}]

MCThreads == Workers \cup {Main, Idler} \cup Control
=============================================================================
