----------------------------- MODULE MCTransfers -----------------------------
(***************************************************************************)
(* Instances of ChannelTransfers for TLC.                                  *)
(***************************************************************************)
EXTENDS ChannelTransfers, TLC

DepositTwo == [n \in Node |-> 2]

\* The participants play the same part; so do the secrets.
Symmetry == Permutations(Node) \cup Permutations(SecretHash)
=============================================================================
