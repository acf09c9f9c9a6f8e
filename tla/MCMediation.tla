----------------------------- MODULE MCMediation -----------------------------
(***************************************************************************)
(* An instance of Mediation for TLC: I pays T through M, directly or by    *)
(* way of C.                                                               *)
(*                                                                         *)
(*      I --- M --- T                                                      *)
(*             \   /                                                       *)
(*               C                                                         *)
(***************************************************************************)
EXTENDS Mediation

CONSTANTS I, M, C, T

MCChannels == {{I, M}, {M, T}, {M, C}, {C, T}}
MCRoute == [n \in {I, M, C, T} |->
  IF n = I THEN {M} ELSE IF n = M THEN {C, T} ELSE IF n = C THEN {M, T} ELSE {}]

\* A mediator may or may not have tokens for a refund to its payer.
MCDeposits ==
  {[l \in Link |-> IF l \in {<<M, I>>, <<C, M>>} THEN d ELSE PaymentAmount] :
     d \in {0, PaymentAmount}}
=============================================================================
