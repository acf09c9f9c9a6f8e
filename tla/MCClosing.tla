------------------------------ MODULE MCClosing ------------------------------
(***************************************************************************)
(* An instance of ChannelClosing for TLC: A has sent B a lock.             *)
(***************************************************************************)
EXTENDS ChannelClosing

CONSTANT h1

DepositFirst == [n \in Node |-> IF n = A THEN 2 ELSE 0]
LockFirst ==
  [n \in Node |-> IF n = A
                  THEN {[secretHash |-> h1, amount |-> 1, expiration |-> 9]}
                  ELSE {}]
=============================================================================
