---------------------------- MODULE ObservedStream ----------------------------
(***************************************************************************)
(* What an application that watches an output stream is promised: it gets  *)
(* the packets of the stream in the order they were sent, none twice and   *)
(* none left out, and it gets all of them unless watching ends early.      *)
(***************************************************************************)
EXTENDS Sequences, Naturals

CONSTANT Packets

VARIABLES sent,   \* the packets the stream has carried
          seen,   \* the packets handed to the application
          ended   \* watching has ended

observedVars == <<sent, seen, ended>>

ObservedInit == sent = <<>> /\ seen = <<>> /\ ended = FALSE

Send(p) == sent' = Append(sent, p) /\ UNCHANGED <<seen, ended>>

See ==
    /\ ~ended /\ Len(seen) < Len(sent)
    /\ seen' = Append(seen, sent[Len(seen) + 1])
    /\ \/ UNCHANGED ended
       \/ ended' = TRUE   \* the application fails on the packet
    /\ UNCHANGED sent

End == ended' = TRUE /\ UNCHANGED <<sent, seen>>

ObservedNext == See \/ End \/ \E p \in Packets : Send(p)

\* What is seen is right, though maybe not all; and all of it is seen.
ObservedSafety == ObservedInit /\ [][ObservedNext]_observedVars
ObservedSpec == ObservedSafety /\ WF_observedVars(See)
=============================================================================
