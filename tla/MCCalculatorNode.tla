-------------------------- MODULE MCCalculatorNode --------------------------
(***************************************************************************)
(* Instances of CalculatorNode for TLC; queue sizes are not limited.       *)
(***************************************************************************)
EXTENDS CalculatorNode

MCMaxQueueSizes == {-1}

\* Packets in the range, and the one packet a stream may have after it.
MCPacketTimes == {RangeMin, RangeMin + 1, PostStream}

=============================================================================
