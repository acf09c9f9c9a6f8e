----------------------------- MODULE DurableLog -----------------------------
(***************************************************************************)
(* What the write-ahead log promises the rest of the node.  The state is   *)
(* the sequence of state changes that were applied, each with the number   *)
(* that seeds its message identifiers.  It only grows, whatever happens to *)
(* the process; and a message leaves the node only for a state change that *)
(* is part of it.                                                          *)
(*                                                                         *)
(* Nothing is promised from the moment a row could not be written in a     *)
(* form that can be read back.                                             *)
(***************************************************************************)
EXTENDS Naturals, Sequences, Functions

VARIABLES
  state,   \* the state changes a restart brings back
  sent,    \* the state changes whose messages were sent
  intact   \* every row can be read

Init == state = <<>> /\ sent = {} /\ intact = TRUE

Change ==
  /\ state' # <<>> /\ SubSeq(state', 1, Len(state') - 1) = state
  /\ state'[Len(state')].seed = Len(state')
  /\ UNCHANGED <<sent, intact>>

Emit ==
  /\ sent \subseteq sent' /\ \A e \in sent' \ sent : e \in Range(state)
  /\ UNCHANGED <<state, intact>>

Break == ~intact'

Next == Break \/ Emit \/ Change
Spec == Init /\ [][Next]_<<state, sent, intact>>
=============================================================================
