------------------------------ MODULE MCGraph ------------------------------
(***************************************************************************)
(* Instances of NetworkGraph for TLC: S may have channels with P and Q and *)
(* reach T by way of either.  Both mediate; Q is dear.                     *)
(***************************************************************************)
EXTENDS NetworkGraph

CONSTANTS S, P, Q, T

MCPairs == {{S, P}, {S, Q}, {P, T}, {Q, T}}
MCExisting == <<{P, T}, {S, P}>>
MCFeeSchedules == {[n \in {S, P, Q, T} |-> IF n = Q THEN 2 ELSE 0]}
MCBadLists == {{}}
=============================================================================
