----------------------------- MODULE MCWithdraw -----------------------------
(***************************************************************************)
(* Instances of ChannelWithdraw for TLC.                                   *)
(***************************************************************************)
EXTENDS ChannelWithdraw, TLC

DepositOne == [n \in Node |-> 1]
DepositFirst == [n \in Node |-> IF n = A THEN 1 ELSE 0]

Symmetry == Permutations(Node)
=============================================================================
