------------------------------ MODULE Delivery ------------------------------
(***************************************************************************)
(* What the transport promises for one queue: the messages of a channel,   *)
(* numbered in the order in which the node produced them, reach the        *)
(* recipient for the first time in that order and without a gap.           *)
(* ChannelTransfers relies on it: its Receive takes the next message, and  *)
(* its ReceiveAgain, a message that had arrived before, changes nothing    *)
(* here.                                                                   *)
(***************************************************************************)
EXTENDS Naturals

VARIABLES
  produced,  \* how many messages the node has produced
  arrived    \* the messages that arrived at least once

Init == produced \in Nat /\ arrived = {}

Produce == produced' = produced + 1 /\ UNCHANGED arrived

\* Message m is the next one.
FirstArrival ==
  \E m \in 1 .. produced :
    /\ arrived = 1 .. (m - 1)
    /\ arrived' = 1 .. m
    /\ UNCHANGED produced

Next == Produce \/ FirstArrival
Spec == Init /\ [][Next]_<<produced, arrived>>
=============================================================================
