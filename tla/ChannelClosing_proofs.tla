----------------------- MODULE ChannelClosing_proofs -----------------------
(***************************************************************************)
(* A channel that one participant closes ends with the last proofs of both *)
(* and every node can start again, for any deposits, pending locks, number *)
(* of transfers, closings and restarts, and any speed of nodes and chain.  *)
(***************************************************************************)
EXTENDS ChannelClosing, EndState_proofs, SequenceTheorems

-----------------------------------------------------------------------------
(* What the transactions carry, and what has been said and has happened.   *)

Messages(n) == {sent[n][i] : i \in 1 .. Len(sent[n])}
Requested(n) == \E m \in Messages(n) : m.type = "CooperativeSettleRequest"
Answered(n) == \E m \in Messages(n) : m.type = "CooperativeSettle"
Answers(n) == {m \in Messages(n) : m.type = "CooperativeSettle"}

\* The values the contract's balance of p can have.
DepositsOf(p) == Totals \cup {Deposits[p]}

Happened(name, i) == i \in 1 .. Len(events) /\ events[i].name = name
HappenedBefore(name, i) == \E j \in 1 .. i - 1 : events[j].name = name

Event ==
  [name : {"Closed", "UpdateTransfer", "Settled", "CooperativeSettled",
           "Unlocked", "SetTotalDeposit"},
   participant : Node, value : Nat, block : Nat]

Contract ==
  [state : {"opened", "closed", "settled", "cooperativeSettled"},
   deposit : [Node -> Amount], closer : Node, closedAt : Nat,
   proof : [Node -> BalanceProof], payout : Balances, unlocked : SUBSET Node]

TransactionType ==
  {"Close", "UpdateTransfer", "Settle", "CooperativeSettle", "Unlock", "Withdraw"}

\* What n can hand to the contract, and why.
Backed(t) ==
  LET n == t.from
      proof == partnerState[n].balanceProof
  IN /\ n \in Node
     /\ t.type \in TransactionType
     /\ t.type = "Close" => closeTransaction[n] # "nil" /\ t.balanceProof = proof
     /\ t.type = "UpdateTransfer" =>
          closeTransaction[n] = "success" /\ t.balanceProof = proof /\ proof # NoBalanceProof
     /\ t.type = "Settle" => closeTransaction[n] = "success"
     /\ t.type = "CooperativeSettle" =>
          \E m \in Answers(Partner(n)) : t.balances = m.balances
     /\ t.type = "Withdraw" => t = Withdraw(n)

-----------------------------------------------------------------------------
(* The invariant.                                                          *)

\* An end state of p: its deposit is one p made, its locks are those of the start.
Side(end, p) ==
  /\ end \in EndStates /\ Books(end)
  /\ end.totalWithdraw = 0 /\ end.contractBalance \in DepositsOf(p)
  /\ PendingLocks(end) = Pending[p]

Sides ==
  /\ ourState \in [Node -> EndStates] /\ partnerState \in [Node -> EndStates]
  /\ \A n \in Node : Side(ourState[n], n) /\ Side(partnerState[n], Partner(n))

Statuses ==
  /\ exists \in [Node -> BOOLEAN]
  /\ closeTransaction \in [Node -> {"nil", "running", "success"}]
  /\ closedAt \in [Node -> Nat]
  /\ settleTransaction \in [Node -> {"nil", "running", "success"}]
  /\ updateTransaction \in [Node -> BOOLEAN]
  /\ ourUnlockTransaction \in [Node -> BOOLEAN]

DepositEvents ==
  {events[i] : i \in {j \in 1 .. Len(events) : events[j].name = "SetTotalDeposit"}}
Deposited == depositQueue \in [Node -> SUBSET DepositEvents]

Said ==
  /\ sent \in [Node -> Seq(Message)]
  /\ received \in [Node -> Nat] /\ \A n \in Node : received[n] <= Len(sent[n])

ContractType ==
  /\ contract \in Contract
  /\ \A n \in Node : contract.deposit[n] \in DepositsOf(n) /\ contract.deposit[n] >= Deposits[n]

EventsType ==
  /\ events \in Seq(Event)
  /\ \A i \in 1 .. Len(events) :
       /\ events[i].block <= height + 1
       /\ events[i].name = "SetTotalDeposit" => events[i].value \in DepositsOf(events[i].participant)
  /\ \A i, j \in 1 .. Len(events) : i <= j => events[i].block <= events[j].block

\* Nodes follow the chain, and transactions reach it in time.
Clock ==
  /\ height \in 0 .. MaxHeight
  /\ block \in [Node -> Nat]
  /\ \A n \in Node : block[n] <= height /\ height <= block[n] + MaxLag
  /\ pos \in [Node -> Nat]
  /\ \A n \in Node :
       /\ pos[n] <= Len(events)
       /\ \A i \in 1 .. Len(events) : pos[n] < i => block[n] < events[i].block

\* What waits to be mined has not waited too long.
Deadlines == \A s \in submitted : s.mineBy \in Nat /\ height < s.mineBy

Transactions ==
  /\ DOMAIN pending = Node
  /\ \A n \in Node : \A t \in pending[n] :
       t.from = n /\ t.type # "Unlock" /\ Backed(t)
  /\ \A s \in submitted : Backed(s.tx) /\ s.tx.type # "Withdraw"

\* Who asked for a cooperative settlement or agreed to one takes no part in
\* anything else, and only one of the two answers.
Agreement ==
  \A n \in Node :
    /\ n \notin takenBack /\ (Requested(n) \/ Answered(n)) =>
         settleTransaction[n] # "nil" /\ closeTransaction[n] = "nil"
    /\ n \in takenBack => Answered(Partner(n))
    /\ Answered(n) =>
         ~Requested(n) /\ ~Answered(Partner(n)) /\ Requested(Partner(n))
    /\ \A m, k \in Answers(n) : m = k

\* The events tell what happened to the contract, in order.
EventsTell ==
  /\ \A i \in 1 .. Len(events) :
       /\ events[i].name = "Closed" =>
            /\ contract.state \in {"closed", "settled"}
            /\ events[i].participant = contract.closer
            /\ events[i].block = contract.closedAt
       /\ events[i].name = "UpdateTransfer" =>
            contract.state \in {"closed", "settled"} /\ HappenedBefore("Closed", i)
       /\ events[i].name \in {"Settled", "Unlocked"} =>
            contract.state = "settled" /\ HappenedBefore("Closed", i)
       /\ events[i].name = "CooperativeSettled" => contract.state = "cooperativeSettled"
  /\ contract.state \in {"closed", "settled"} =>
       \E i \in 1 .. Len(events) : events[i].name = "Closed"

\* What a node knows happened.
Known ==
  \A n \in Node :
    /\ closeTransaction[n] = "success" =>
         contract.state \in {"closed", "settled"} /\ closedAt[n] = contract.closedAt
    /\ \A i \in 1 .. pos[n] : events[i].name = "Closed" =>
         closeTransaction[n] = "success" \/ n \in missed
    /\ updateTransaction[n] => closeTransaction[n] = "success" \/ n \in missed
    /\ settleTransaction[n] = "success" => contract.state \in {"settled", "cooperativeSettled"}
    /\ ~exists[n] =>
         contract.state = "cooperativeSettled" \/ closeTransaction[n] = "success" \/ n \in missed

\* What stays pending.
Waiting ==
  \A n \in Node :
    /\ n \notin takenBack => \A t \in pending[n] :
         t.type = "Close" => closeTransaction[n] = "running" /\ settleTransaction[n] = "nil"
    /\ n \in missed \ takenBack => settleTransaction[n] # "nil"
    /\ n \notin takenBack /\ (~exists[n] \/ settleTransaction[n] = "success") =>
         pending[n] \subseteq {Withdraw(n)}

\* An update of n that reaches the contract before the channel can be settled.
UpdateUnderWay(n) ==
  \E s \in submitted :
    /\ s.tx.type = "UpdateTransfer" /\ s.tx.from = n
    /\ s.mineBy <= contract.closedAt + SettleTimeout

\* The proofs in the contract are the last ones, the updater's in time; and a
\* channel is settled by both only if they agreed.
LastProofs ==
  /\ contract.state = "cooperativeSettled" => \E n \in Node : Answers(n) # {}
  /\ contract.state \in {"opened", "cooperativeSettled"} =>
       contract.proof = [n \in Node |-> NoBalanceProof]
  /\ contract.state \in {"closed", "settled"} =>
       LET c == contract.closer
           n == Partner(c)
       IN /\ closeTransaction[c] # "nil"
          /\ contract.proof[n] = partnerState[c].balanceProof
          /\ contract.proof[c] # NoBalanceProof =>
               /\ closeTransaction[n] = "success"
               /\ contract.proof[c] = partnerState[n].balanceProof
          /\ MaxLag + MaxInclusion <= SettleTimeout + 1 /\ n \notin missed
             /\ <<n, "UpdateTransfer">> \notin lost /\ closeTransaction[n] = "success" =>
               contract.proof[c] = partnerState[n].balanceProof \/ UpdateUnderWay(n)
          /\ contract.closedAt <= height + 1
  /\ contract.state = "settled" => height >= contract.closedAt + SettleTimeout

ClosingInv ==
  /\ Sides /\ Statuses /\ Deposited /\ Said /\ ContractType /\ EventsType
  /\ Clock /\ Deadlines /\ Transactions /\ Agreement /\ EventsTell /\ Known /\ Waiting
  /\ LastProofs
-----------------------------------------------------------------------------
(* The constants, and what does not change.                                *)

\* There are two participants.
LEMMA NodeFacts ==
  /\ A \in Node /\ B \in Node
  /\ \A n \in Node : /\ Partner(n) \in Node /\ Partner(n) # n
                     /\ Partner(Partner(n)) = n
  /\ \A n, k \in Node : k = n \/ k = Partner(n)
BY ClosingAssumption DEF Node, Partner

\* Deposits are amounts, and the two together fit a word.
LEMMA DepositFacts ==
  /\ \A n \in Node : /\ DepositsOf(n) \subseteq Amount /\ DepositsOf(n) \subseteq Nat
                     /\ Deposits[n] \in DepositsOf(n)
  /\ \A d \in DepositsOf(A), e \in DepositsOf(B) : d + e < MaxUint64
<1>1. \A n \in Node : Deposits[n] \in Amount
  BY ClosingAssumption
<1>2. Totals \subseteq Amount /\ Amount \subseteq Nat
  BY ClosingAssumption, AmountFacts
<1> QED BY <1>1, <1>2, ClosingAssumption DEF DepositsOf

\* A node does not say anything twice by saying more.
LEMMA SaysMore ==
  ASSUME sent \in [Node -> Seq(Message)], NEW n \in Node, NEW m \in Message,
         sent' = [sent EXCEPT ![n] = Append(@, m)]
  PROVE  /\ sent' \in [Node -> Seq(Message)]
         /\ Messages(n)' = Messages(n) \cup {m}
         /\ \A k \in Node : k # n => Messages(k)' = Messages(k)
         /\ \A k \in Node : Len(sent[k]) \in Nat /\ Len(sent'[k]) >= Len(sent[k])
<1>1. sent[n] \in Seq(Message) /\ Len(sent[n]) \in Nat
  BY LenProperties
<1>2. sent'[n] = Append(sent[n], m) /\ \A k \in Node : k # n => sent'[k] = sent[k]
  OBVIOUS
<1>3. /\ Len(sent'[n]) = Len(sent[n]) + 1 /\ sent'[n] \in Seq(Message)
      /\ \A i \in 1 .. Len(sent[n]) : sent'[n][i] = sent[n][i]
      /\ sent'[n][Len(sent[n]) + 1] = m
  BY <1>1, <1>2, AppendProperties
<1>4. 1 .. Len(sent'[n]) = (1 .. Len(sent[n])) \cup {Len(sent[n]) + 1}
  BY <1>1, <1>3
<1>5. Messages(n)' = Messages(n) \cup {m}
  BY <1>3, <1>4 DEF Messages
<1>6. \A k \in Node : Len(sent[k]) \in Nat
  BY LenProperties
<1>7. \A k \in Node : Len(sent'[k]) >= Len(sent[k])
  BY <1>2, <1>3, <1>6
<1> QED BY <1>2, <1>3, <1>5, <1>6, <1>7 DEF Messages

\* What a node said is a set of messages.
LEMMA MessageTypes ==
  ASSUME Said, NEW n \in Node
  PROVE  /\ Messages(n) \subseteq Message
         /\ \A i \in 1 .. Len(sent[n]) : sent[n][i] \in Messages(n)
<1>1. sent[n] \in Seq(Message)
  BY DEF Said
<1>2. \A i \in 1 .. Len(sent[n]) : sent[n][i] \in Message
  BY <1>1, ElementOfSeq
<1> QED BY <1>2 DEF Messages

\* The events of the contract are events.
LEMMA EventTypes ==
  ASSUME EventsType
  PROVE  \A i \in 1 .. Len(events) : events[i] \in Event
<1>1. events \in Seq(Event)
  BY DEF EventsType
<1> QED BY <1>1, ElementOfSeq

\* The parts of the invariant depend on few variables each.
LEMMA Frame ==
  /\ Sides /\ UNCHANGED <<ourState, partnerState>> => Sides'
  /\ Statuses /\ UNCHANGED <<exists, closeTransaction, closedAt, settleTransaction,
                             updateTransaction, ourUnlockTransaction>> => Statuses'
  /\ Deposited /\ UNCHANGED <<depositQueue, events>> => Deposited'
  /\ Said /\ UNCHANGED <<sent, received>> => Said'
  /\ ContractType /\ UNCHANGED contract => ContractType'
  /\ EventsType /\ UNCHANGED <<events, height>> => EventsType'
  /\ Clock /\ UNCHANGED <<height, block, pos, events>> => Clock'
  /\ Deadlines /\ UNCHANGED <<height, submitted>> => Deadlines'
  /\ Agreement /\ UNCHANGED <<takenBack, settleTransaction, closeTransaction, sent>>
       => Agreement'
  /\ EventsTell /\ UNCHANGED <<events, contract>> => EventsTell'
  /\ Known /\ UNCHANGED <<closeTransaction, contract, closedAt, pos, events, missed,
                          updateTransaction, settleTransaction, exists>> => Known'
  /\ Waiting /\ UNCHANGED <<takenBack, pending, closeTransaction, settleTransaction,
                            missed, exists>> => Waiting'
<1>1. Sides /\ UNCHANGED <<ourState, partnerState>> => Sides'
  BY DEF Sides, Side
<1>2. Statuses /\ UNCHANGED <<exists, closeTransaction, closedAt, settleTransaction,
                              updateTransaction, ourUnlockTransaction>> => Statuses'
  BY DEF Statuses
<1>3. Deposited /\ UNCHANGED <<depositQueue, events>> => Deposited'
  BY DEF Deposited, DepositEvents
<1>4. Said /\ UNCHANGED <<sent, received>> => Said'
  BY DEF Said
<1>5. ContractType /\ UNCHANGED contract => ContractType'
  BY DEF ContractType
<1>6. EventsType /\ UNCHANGED <<events, height>> => EventsType'
  BY DEF EventsType
<1>7. Clock /\ UNCHANGED <<height, block, pos, events>> => Clock'
  BY DEF Clock
<1>8. Agreement /\ UNCHANGED <<takenBack, settleTransaction, closeTransaction, sent>>
        => Agreement'
  BY DEF Agreement, Requested, Answered, Answers, Messages
<1>9. EventsTell /\ UNCHANGED <<events, contract>> => EventsTell'
  BY DEF EventsTell, HappenedBefore
<1>10. Known /\ UNCHANGED <<closeTransaction, contract, closedAt, pos, events, missed,
                            updateTransaction, settleTransaction, exists>> => Known'
  BY DEF Known
<1>11. Waiting /\ UNCHANGED <<takenBack, pending, closeTransaction, settleTransaction,
                              missed, exists>> => Waiting'
  BY DEF Waiting
<1>12. Deadlines /\ UNCHANGED <<height, submitted>> => Deadlines'
  BY DEF Deadlines
<1> QED
  BY <1>1, <1>2, <1>3, <1>4, <1>5, <1>6, <1>7, <1>8, <1>9, <1>10, <1>11, <1>12

-----------------------------------------------------------------------------
(* The start.                                                              *)

\* A side that sent locks has consistent books.
LEMMA SideAtStart ==
  ASSUME NEW n \in Node
  PROVE  Side(WithPending(Deposits[n], Pending[n]), n)
<1> DEFINE locks == Pending[n]
           new == NewNettingChannelEndState(Deposits[n])
           end == WithPending(Deposits[n], Pending[n])
<1>1. Deposits[n] \in Amount /\ locks \in LockSet
  BY ClosingAssumption
<1>2. new \in EndStates /\ Books(new)
  BY <1>1, NewBooks
<1>3. Deposits[n] \in DepositsOf(n)
  BY DepositFacts
<1>4. CASE locks = {}
  BY <1>2, <1>3, <1>4 DEF WithPending, NewNettingChannelEndState, Side, PendingLocks
<1>5. CASE locks # {}
  <2>1. IsFiniteSet(locks) /\ locks \subseteq Lock /\ {} \in LockSet
    BY <1>1, LockSetFacts
  <2>2. Cardinality(locks) \in Nat /\ Cardinality(locks) # 0
    BY <1>5, <2>1, FS_CardinalityType, FS_EmptySet
  <2>3. /\ SumAmounts(locks) \in Nat /\ SumAmounts(locks) <= Deposits[n]
        /\ SumAmounts({}) = 0
    BY <1>1, UnitsFinite, SumEmpty, ClosingAssumption
  <2>4. SumAmounts(locks) \in Amount /\ 0 + SumAmounts(locks) <= MaxUint64 /\ 0 \in Amount
    <3>1. Deposits[n] \in Nat /\ Deposits[n] <= MaxUint64 /\ MaxUint64 \in Nat
      BY <1>1, AmountFacts, EndStateAssumption
    <3> HIDE DEF locks
    <3>2. SumAmounts(locks) \in Nat /\ SumAmounts(locks) <= MaxUint64
      BY <2>3, <3>1
    <3> QED BY <3>1, <3>2 DEF Amount
  <2>5. end = [new EXCEPT
          !.balanceProof = [nonce |-> Cardinality(locks), transferredAmount |-> 0,
                            lockedAmount |-> SumAmounts(locks), locksRoot |-> locks],
          !.merkleTree = locks, !.lockedLocks = locks]
    BY <1>5 DEF WithPending
  <2>6. end.balanceProof \in BalanceProof
    BY <2>1, <2>2, <2>4, <2>5, <1>2 DEF BalanceProof, EndStates
  <2>7. end \in EndStates
    BY <2>5, <2>6, <1>1, <1>2 DEF EndStates
  <2>8. /\ end.contractBalance = Deposits[n] /\ end.totalWithdraw = 0
        /\ end.merkleTree = locks /\ end.lockedLocks = locks
        /\ end.unLockedLocks = {} /\ end.onChainUnLockedLocks = {}
        /\ end.balanceProof = [nonce |-> Cardinality(locks), transferredAmount |-> 0,
                            lockedAmount |-> SumAmounts(locks), locksRoot |-> locks]
    BY <2>5, <1>2 DEF EndStates, NewNettingChannelEndState
  <2>9. PendingLocks(end) = locks
    BY <2>8 DEF PendingLocks
  <2>10. \A l, k \in locks : l.secretHash = k.secretHash => l = k
    BY ClosingAssumption
  <2>11. Books(end)
    <3> HIDE DEF end, locks
    <3>1. end.balanceProof.nonce # 0
      BY <2>2, <2>8
    <3> QED BY <3>1, <2>4, <2>8, <2>9, <2>10 DEF Books
  <2> QED BY <1>3, <2>7, <2>8, <2>9, <2>11 DEF Side
<1> QED BY <1>4, <1>5

\* Nothing has happened at the start.
LEMMA ClosingInit == Init => ClosingInv
<1> SUFFICES ASSUME Init PROVE ClosingInv
  OBVIOUS
<1>1. Sides
  <2>1. \A n \in Node : WithPending(Deposits[n], Pending[n]) \in EndStates
    BY SideAtStart DEF Side
  <2> QED BY <2>1, SideAtStart, NodeFacts DEF Init, Sides
<1>2. Statuses
  BY DEF Init, Statuses
<1>3. Deposited
  BY DEF Init, Deposited
<1>4. Said /\ \A n \in Node : Messages(n) = {}
  BY DEF Init, Said, Messages
<1>5. ContractType
  <2>1. /\ NoBalanceProof \in BalanceProof /\ 0 \in Amount
        /\ A \in Node /\ Deposits \in [Node -> Amount]
    BY EndStateAssumption, ClosingAssumption, NodeFacts
       DEF NoBalanceProof, BalanceProof, Amount
  <2>2. contract \in Contract
    BY <2>1 DEF Init, Contract, Balances
  <2>3. \A n \in Node : contract.deposit[n] \in DepositsOf(n) /\ contract.deposit[n] >= Deposits[n]
    BY DepositFacts DEF Init
  <2> QED BY <2>2, <2>3 DEF ContractType
<1>6. EventsType
  BY ClosingAssumption DEF Init, EventsType
<1>7. Clock
  BY ClosingAssumption DEF Init, Clock
<1>8. Transactions /\ Deadlines
  BY DEF Init, Transactions, Deadlines
<1>9. Agreement
  BY <1>4 DEF Init, Agreement, Requested, Answered, Answers
<1>10. EventsTell
  BY DEF Init, EventsTell
<1>11. Known
  BY DEF Init, Known
<1>12. Waiting
  BY DEF Init, Waiting
<1>13. LastProofs
  BY DEF Init, LastProofs
<1> QED BY <1>1, <1>2, <1>3, <1>4, <1>5, <1>6, <1>7, <1>8, <1>9, <1>10, <1>11, <1>12,
           <1>13 DEF ClosingInv

-----------------------------------------------------------------------------
(* Transactions.                                                           *)

\* What transactions rely on is kept.
Keeps ==
  \A n \in Node :
    /\ closeTransaction[n] # "nil" =>
         /\ closeTransaction'[n] # "nil"
         /\ partnerState'[n].balanceProof = partnerState[n].balanceProof
    /\ closeTransaction[n] = "success" => closeTransaction'[n] = "success"
    /\ Answers(n) \subseteq Answers(n)'

\* A transaction stays backed.
LEMMA BackedKept ==
  ASSUME Keeps, NEW t, Backed(t)
  PROVE  Backed(t)'
<1> DEFINE n == t.from
<1>1. n \in Node /\ Partner(n) \in Node
  BY NodeFacts DEF Backed
<1>2. t.type = "CooperativeSettle" => \E m \in Answers(Partner(n))' : t.balances = m.balances
  BY <1>1 DEF Keeps, Backed
<1> QED BY <1>1, <1>2 DEF Keeps, Backed

\* u is what HandleContractSend makes of t.
Carries(u, t) ==
  /\ u.from = t.from /\ u.type = t.type /\ u.type # "Withdraw"
  /\ u.type \notin {"Settle", "Unlock"} => u = t

\* A handler hands over the transaction it was given, or what the contract
\* knows for it.
LEMMA HandsOver ==
  ASSUME NEW t, NEW u \in HandleContractSend(t),
         t.type \in TransactionType
  PROVE  Carries(u, t)
<1>1. CASE t.type = "Close"
  BY <1>1 DEF HandleContractSend, Carries
<1>2. CASE t.type = "UpdateTransfer"
  BY <1>2 DEF HandleContractSend, Carries
<1>3. CASE t.type = "CooperativeSettle"
  BY <1>3 DEF HandleContractSend, Carries
<1>4. CASE t.type = "Settle"
  <2>1. u = [type |-> "Settle", from |-> t.from, proof |-> contract.proof]
    BY <1>4 DEF HandleContractSend
  <2> QED BY <1>4, <2>1 DEF Carries
<1>5. CASE t.type = "Unlock"
  <2>1. u = [type |-> "Unlock", from |-> t.from,
             locks |-> contract.proof[Partner(t.from)].locksRoot]
    BY <1>5 DEF HandleContractSend
  <2> QED BY <1>5, <2>1 DEF Carries
<1>6. t.type # "Withdraw"
  BY DEF HandleContractSend
<1> QED BY <1>1, <1>2, <1>3, <1>4, <1>5, <1>6 DEF TransactionType

\* What carries a backed transaction is backed.
LEMMA CarriesBacked ==
  ASSUME NEW t, NEW u, Carries(u, t)
  PROVE  /\ Backed(t) => Backed(u)
         /\ Backed(t)' => Backed(u)'
BY DEF Carries, Backed

\* What is submitted came from a transaction that was handed over.
LEMMA Submitted ==
  ASSUME NEW txs, Submit(UNION {HandleContractSend(t) : t \in txs}),
         \A t \in txs : t.type \in TransactionType
  PROVE  /\ submitted \subseteq submitted'
         /\ \A s \in submitted' : s \notin submitted =>
              s.mineBy = height + MaxInclusion /\ \E t \in txs : Carries(s.tx, t)
<1>1. submitted' = submitted \cup
        {[tx |-> u, mineBy |-> height + MaxInclusion] :
           u \in UNION {HandleContractSend(t) : t \in txs}}
  BY DEF Submit
<1>2. ASSUME NEW s \in submitted', s \notin submitted
      PROVE  s.mineBy = height + MaxInclusion /\ \E t \in txs : Carries(s.tx, t)
  <2>1. PICK u \in UNION {HandleContractSend(t) : t \in txs} :
          s = [tx |-> u, mineBy |-> height + MaxInclusion]
    BY <1>1, <1>2
  <2>2. PICK t \in txs : u \in HandleContractSend(t)
    OBVIOUS
  <2>3. Carries(u, t)
    BY <2>2, HandsOver
  <2> QED BY <2>1, <2>3
<1> QED BY <1>1, <1>2

\* The transactions after n submitted the backed txs and keeps still pending.
LEMMA SendsBacked ==
  ASSUME Transactions, Keeps, NEW n \in Node, NEW txs, NEW still \in SUBSET pending[n],
         SendToContract(n, txs, still), \A t \in txs : t.from = n /\ Backed(t)'
  PROVE  /\ Transactions'
         /\ pending'[n] = still \cup {t \in txs : t.type # "Unlock"}
         /\ \A k \in Node : k # n => pending'[k] = pending[k]
         /\ submitted \subseteq submitted'
         /\ \A s \in submitted' : s \notin submitted =>
              s.mineBy = height + MaxInclusion /\ \E t \in txs : Carries(s.tx, t)
<1>1. /\ DOMAIN pending' = Node
      /\ pending'[n] = still \cup {t \in txs : t.type # "Unlock"}
      /\ \A k \in Node : k # n => pending'[k] = pending[k]
  BY DEF SendToContract, Remember, Transactions
<1>2. \A t \in txs : t.type \in TransactionType
  BY DEF Backed
<1>3. /\ submitted \subseteq submitted'
      /\ \A s \in submitted' : s \notin submitted =>
           s.mineBy = height + MaxInclusion /\ \E t \in txs : Carries(s.tx, t)
  BY <1>2, Submitted DEF SendToContract
<1>4. \A k \in Node : \A t \in pending[k] : t.from = k /\ t.type # "Unlock" /\ Backed(t)'
  BY BackedKept DEF Transactions
<1>5. ASSUME NEW k \in Node, NEW t \in pending'[k]
      PROVE  t.from = k /\ t.type # "Unlock" /\ Backed(t)'
  BY <1>1, <1>4
<1>6. ASSUME NEW s \in submitted'
      PROVE  Backed(s.tx)' /\ s.tx.type # "Withdraw"
  <2>1. CASE s \in submitted
    <3>1. Backed(s.tx) /\ s.tx.type # "Withdraw"
      BY <2>1 DEF Transactions
    <3> QED BY <3>1, BackedKept
  <2>2. CASE s \notin submitted
    <3>1. PICK t \in txs : Carries(s.tx, t)
      BY <1>3, <2>2
    <3>2. s.tx.type # "Withdraw"
      BY <3>1 DEF Carries
    <3> QED BY <3>1, <3>2, CarriesBacked
  <2> QED BY <2>1, <2>2
<1>7. Transactions'
  BY <1>1, <1>5, <1>6 DEF Transactions
<1> QED BY <1>1, <1>3, <1>7

\* The transactions when nothing is submitted.
LEMMA NothingSent ==
  ASSUME Transactions, Keeps, pending' = pending, submitted' \subseteq submitted
  PROVE  Transactions'
<1>1. \A n \in Node : \A t \in pending[n] : Backed(t)'
  BY BackedKept DEF Transactions
<1>2. ASSUME NEW s \in submitted' PROVE Backed(s.tx)' /\ s.tx.type # "Withdraw"
  <2>1. Backed(s.tx) /\ s.tx.type # "Withdraw"
    BY DEF Transactions
  <2> QED BY <2>1, BackedKept
<1> QED BY <1>1, <1>2 DEF Transactions

\* What is submitted now has time.
LEMMA NewDeadlines ==
  ASSUME Deadlines, height \in Nat, height' = height,
         \A s \in submitted' : s \notin submitted => s.mineBy = height + MaxInclusion
  PROVE  Deadlines'
BY ClosingAssumption DEF Deadlines

\* The proofs in the contract stay the last ones.
LEMMA ProofsKept ==
  ASSUME LastProofs, Keeps, ContractType, UNCHANGED <<contract, height>>,
         missed \subseteq missed', lost \subseteq lost', submitted \subseteq submitted',
         \A n \in Node : closeTransaction'[n] = "success" /\ contract.closer # n =>
            closeTransaction[n] = "success"
  PROVE  LastProofs'
<1> DEFINE c == contract.closer
<1>1. c \in Node /\ Partner(c) \in Node /\ Partner(c) # c
  BY NodeFacts DEF ContractType, Contract
<1>2. UpdateUnderWay(Partner(c)) => UpdateUnderWay(Partner(c))'
  BY DEF UpdateUnderWay
<1> QED BY <1>1, <1>2 DEF LastProofs, Keeps
\* What GetStatus says of the two transactions.
LEMMA StatusFacts ==
  ASSUME Statuses, NEW n \in Node
  PROVE  /\ GetStatus(n) = "settled" <=> settleTransaction[n] = "success"
         /\ GetStatus(n) = "settling" <=> settleTransaction[n] = "running"
         /\ GetStatus(n) = "closed" <=>
              settleTransaction[n] = "nil" /\ closeTransaction[n] = "success"
         /\ GetStatus(n) = "closing" <=>
              settleTransaction[n] = "nil" /\ closeTransaction[n] = "running"
         /\ GetStatus(n) = "opened" <=>
              settleTransaction[n] = "nil" /\ closeTransaction[n] = "nil"
         /\ GetStatus(n) \in {"opened", "closing"} <=>
              settleTransaction[n] = "nil" /\ closeTransaction[n] # "success"
<1>1. /\ settleTransaction[n] \in {"nil", "running", "success"}
      /\ closeTransaction[n] \in {"nil", "running", "success"}
  BY DEF Statuses
<1>2. CASE settleTransaction[n] = "success"
  BY <1>2 DEF GetStatus
<1>3. CASE settleTransaction[n] = "running"
  BY <1>3 DEF GetStatus
<1>4. CASE settleTransaction[n] = "nil"
  BY <1>1, <1>4 DEF GetStatus
<1> QED BY <1>1, <1>2, <1>3, <1>4

-----------------------------------------------------------------------------
(* Transfers.                                                              *)

\* A side that accepted or issued a direct transfer is still a side.
LEMMA SideWithTransfer ==
  ASSUME NEW p \in Node, NEW end, Side(end, p), NEW bp,
         Follows(WithTransfer(end, bp), end, bp),
         PendingLocks(WithTransfer(end, bp)) = PendingLocks(end)
  PROVE  Side(WithTransfer(end, bp), p) /\ WithTransfer(end, bp).balanceProof = bp
BY DEF Side, Follows, SameDeposit

\* A proof that is issued within the distributable amount.
LEMMA IssueDirect ==
  ASSUME NEW p \in Node, NEW end, Side(end, p), NEW other, Side(other, Partner(p)),
         NEW amount \in Amounts, amount <= GetDistributable(end, other)
  PROVE  LET bp == createSendDirectTransfer(end, amount)
         IN bp \in BalanceProof /\ Side(WithTransfer(end, bp), p)
<1> DEFINE T == end.balanceProof.transferredAmount
           L == end.balanceProof.lockedAmount
           bp == createSendDirectTransfer(end, amount)
<1>1. end \in EndStates /\ Books(end) /\ other \in EndStates
  BY DEF Side
<1>2. amount \in Amount /\ amount \in Nat /\ MaxUint64 \in Nat
  BY ClosingAssumption, AmountFacts
<1>3. T \in Nat /\ L \in Nat /\ end.balanceProof.nonce \in Nat
  BY <1>1, EndStateTypes, AmountFacts
<1>4. /\ GetDistributable(end, other) \in Nat
      /\ GetDistributable(end, other) <= MaxUint64 - T - L
  BY <1>1, DistributableLimit
<1>5. amount <= MaxUint64 - T - L
  <2> HIDE DEF T, L
  <2> QED BY <1>2, <1>3, <1>4
<1>6. /\ bp \in BalanceProof /\ bp.nonce = end.balanceProof.nonce + 1
      /\ bp.locksRoot = end.balanceProof.locksRoot /\ bp.lockedAmount = L
      /\ bp.transferredAmount = T + amount
  BY <1>1, <1>2, <1>5, DirectProof
<1>7. bp.transferredAmount + bp.lockedAmount <= MaxUint64 /\ bp.nonce # 0
  <2> HIDE DEF T, L, bp
  <2>1. end.balanceProof.nonce + 1 # 0
    BY <1>3
  <2> QED BY <1>2, <1>3, <1>5, <1>6, <2>1
<1>8. LET new == WithTransfer(end, bp)
      IN /\ new \in EndStates /\ Books(new) /\ PendingLocks(new) = PendingLocks(end)
         /\ SameDeposit(new, end)
  BY <1>1, <1>6, <1>7, TransferBooks, DepositKept
<1> QED BY <1>6, <1>8 DEF Side, SameDeposit

\* A node that is said a transfer hears nothing about a settlement.
LEMMA SaysTransfer ==
  ASSUME Said, NEW n \in Node, NEW m \in Message, m.type = "DirectTransfer",
         sent' = [sent EXCEPT ![n] = Append(@, m)]
  PROVE  \A k \in Node : /\ Answers(k)' = Answers(k)
                         /\ Requested(k)' <=> Requested(k)
                         /\ Answered(k)' <=> Answered(k)
<1>1. /\ Messages(n)' = Messages(n) \cup {m}
      /\ \A k \in Node : k # n => Messages(k)' = Messages(k)
  BY SaysMore DEF Said
<1> QED BY <1>1 DEF Answers, Requested, Answered

\* handleSendDirectTransfer.
LEMMA SendNext ==
  ASSUME ClosingInv, NEW n \in Node, NEW amount \in Amounts,
         handleSendDirectTransfer(n, amount)
  PROVE  ClosingInv'
<1> DEFINE bp == createSendDirectTransfer(ourState[n], amount)
           m == [type |-> "DirectTransfer", balanceProof |-> bp]
<1>1. /\ Statuses' /\ Deposited' /\ ContractType' /\ EventsType' /\ Clock' /\ Deadlines'
      /\ EventsTell' /\ Known' /\ Waiting'
  BY Frame DEF ClosingInv, handleSendDirectTransfer, chainVars, syncVars, historyVars
<1>2. bp \in BalanceProof /\ Side(WithTransfer(ourState[n], bp), n)
  BY IssueDirect DEF ClosingInv, Sides, handleSendDirectTransfer
<1>3. Sides'
  <2>1. /\ ourState' = [ourState EXCEPT ![n] = WithTransfer(ourState[n], bp)]
        /\ partnerState' = partnerState
    BY DEF handleSendDirectTransfer
  <2>2. WithTransfer(ourState[n], bp) \in EndStates
    BY <1>2 DEF Side
  <2>3. ourState' \in [Node -> EndStates] /\ partnerState' \in [Node -> EndStates]
    BY <2>1, <2>2 DEF ClosingInv, Sides
  <2>4. \A k \in Node : Side(ourState'[k], k) /\ Side(partnerState'[k], Partner(k))
    BY <1>2, <2>1 DEF ClosingInv, Sides
  <2> QED BY <2>3, <2>4 DEF Sides, Side
<1>4. m \in Message /\ sent' = [sent EXCEPT ![n] = Append(@, m)] /\ received' = received
  BY <1>2 DEF Message, handleSendDirectTransfer, Send
<1>5. \A k \in Node : /\ Answers(k)' = Answers(k)
                      /\ Requested(k)' <=> Requested(k)
                      /\ Answered(k)' <=> Answered(k)
  BY <1>4, SaysTransfer DEF ClosingInv
<1>6. Said'
  <2>1. /\ sent' \in [Node -> Seq(Message)]
        /\ \A k \in Node : Len(sent[k]) \in Nat /\ Len(sent'[k]) >= Len(sent[k])
    BY <1>4, SaysMore DEF ClosingInv, Said
  <2>2. \A k \in Node : Len(sent'[k]) \in Nat
    BY <2>1, LenProperties
  <2> QED BY <1>4, <2>1, <2>2 DEF ClosingInv, Said
<1>7. /\ UNCHANGED <<partnerState, closeTransaction, settleTransaction, takenBack, pending,
                     submitted, contract, height, missed, lost>>
  BY DEF handleSendDirectTransfer, chainVars, historyVars
<1>8. Keeps
  BY <1>5, <1>7 DEF Keeps
<1>9. Transactions' /\ LastProofs'
  BY <1>7, <1>8, NothingSent, ProofsKept DEF ClosingInv
<1>10. Agreement'
  BY <1>5, <1>7, NodeFacts DEF Agreement, ClosingInv
<1> QED BY <1>1, <1>3, <1>6, <1>9, <1>10 DEF ClosingInv
-----------------------------------------------------------------------------
(* Cooperative settlements.                                                *)

\* The balances of a cooperative settlement are amounts.
LEMMA SettleBalancesType ==
  ASSUME Sides, NEW n \in Node
  PROVE  GetCooprativeSettleBalances(n) \in Balances
<1>1. ASSUME NEW p, NEW q, NEW x, NEW y, Side(x, p), Side(y, q)
      PROVE  calculateCooperativeSettleBalance(x, y) \in Amount
  <2>1. /\ x.contractBalance \in Amount /\ x.totalWithdraw \in Amount
        /\ x.balanceProof.transferredAmount \in Amount
        /\ y.balanceProof.transferredAmount \in Amount
    BY <1>1, EndStateTypes DEF Side
  <2>2. currentLockedAmount(x) \in Amount /\ currentLockedAmount(y) \in Amount
    BY <1>1, LockedExact, EndStateTypes DEF Side
  <2> QED BY <2>1, <2>2, AmountFacts DEF calculateCooperativeSettleBalance
<1>2. Side(ourState[n], n) /\ Side(partnerState[n], Partner(n))
  BY DEF Sides
<1> QED BY <1>1, <1>2 DEF GetCooprativeSettleBalances, Balances

\* n begins to settle, by a request or an answer, and was neither settling nor
\* closing before.
Begins(n, m) ==
  /\ IsOpen(n)
  /\ settleTransaction' = [settleTransaction EXCEPT ![n] = "running"]
  /\ sent' = [sent EXCEPT ![n] = Append(@, m)]
  /\ m \in Message
  /\ UNCHANGED <<ourState, partnerState, exists, closeTransaction, closedAt,
                 updateTransaction, ourUnlockTransaction, depositQueue, pending,
                 submitted, chainVars, syncVars, historyVars>>

\* A node that begins to settle keeps the invariant.
LEMMA BeginsNext ==
  ASSUME ClosingInv, NEW n \in Node, NEW m, Begins(n, m),
         received' \in [Node -> Nat], \A k \in Node : received'[k] <= Len(sent[k]),
         \/ m.type = "CooperativeSettleRequest"
         \/ m.type = "CooperativeSettle" /\ Requested(Partner(n))
  PROVE  ClosingInv'
<1>1. /\ Sides' /\ Deposited' /\ ContractType' /\ EventsType' /\ Clock' /\ Deadlines'
      /\ EventsTell'
  BY Frame DEF ClosingInv, Begins, chainVars, syncVars, historyVars
<1>2. settleTransaction[n] = "nil" /\ closeTransaction[n] = "nil" /\ exists[n]
  BY StatusFacts DEF Begins, IsOpen, ClosingInv
<1>3. /\ settleTransaction'[n] = "running"
      /\ \A k \in Node : k # n => settleTransaction'[k] = settleTransaction[k]
      /\ settleTransaction' \in [Node -> {"nil", "running", "success"}]
  BY DEF Begins, ClosingInv, Statuses
<1>4. UNCHANGED <<partnerState, exists, closeTransaction, closedAt, updateTransaction,
                  ourUnlockTransaction, pending, submitted, contract, events, height,
                  pos, missed, takenBack, lost>>
  BY DEF Begins, chainVars, syncVars, historyVars
<1>5. Statuses'
  BY <1>3, <1>4 DEF Statuses, ClosingInv
<1>6. /\ Messages(n)' = Messages(n) \cup {m} /\ sent' \in [Node -> Seq(Message)]
      /\ \A k \in Node : k # n => Messages(k)' = Messages(k)
  BY SaysMore DEF ClosingInv, Said, Begins
<1>7. Said'
  <2>1. \A k \in Node : Len(sent[k]) \in Nat /\ Len(sent'[k]) >= Len(sent[k])
    BY SaysMore DEF ClosingInv, Said, Begins
  <2>2. sent' \in [Node -> Seq(Message)] /\ \A k \in Node : Len(sent'[k]) \in Nat
    BY <1>6, LenProperties
  <2> QED BY <1>6, <2>1, <2>2, SMTT(30) DEF Said
<1>8. Keeps
  BY <1>4, <1>6 DEF Keeps, Answers
<1>9. Transactions' /\ LastProofs'
  BY <1>4, <1>8, NothingSent, ProofsKept DEF ClosingInv
<1>10. Known'
  BY <1>3, <1>4 DEF Known, ClosingInv
<1>11. Waiting'
  BY <1>2, <1>3, <1>4, NodeFacts DEF Waiting, ClosingInv, Transactions, Known
<1>12. Agreement'
  <2> DEFINE p == Partner(n)
  <2>1. p \in Node /\ p # n /\ Partner(p) = n
    BY NodeFacts
  <2>2. ~Answered(n)
    BY <1>2, <2>1 DEF Agreement, ClosingInv
  <2>3. CASE m.type = "CooperativeSettleRequest"
    <3>1. \A k \in Node : /\ Answers(k)' = Answers(k)
                          /\ Answered(k)' <=> Answered(k)
                          /\ Requested(k)' <=> (Requested(k) \/ k = n)
      BY <1>6, <2>3 DEF Answers, Answered, Requested
    <3> QED BY <1>2, <1>3, <1>4, <2>1, <2>2, <3>1, NodeFacts DEF Agreement, ClosingInv
  <2>4. CASE m.type = "CooperativeSettle"
    <3>1. Requested(p)
      BY <2>4
    <3>2. ~Answered(p) /\ n \notin takenBack /\ ~Requested(n)
      BY <1>2, <2>1, <3>1 DEF Agreement, ClosingInv
    <3>3. /\ \A k \in Node : /\ Answered(k)' <=> (Answered(k) \/ k = n)
                             /\ Requested(k)' <=> Requested(k)
          /\ Answers(n)' = {m} /\ Answers(p)' = Answers(p)
      BY <1>6, <2>1, <2>2, <2>4 DEF Answers, Answered, Requested
    <3>4. p \notin takenBack
      BY <2>1, <2>2 DEF Agreement, ClosingInv
    <3>5. \A k \in Node : k = n \/ k = p
      BY NodeFacts
    <3> QED BY <1>2, <1>3, <1>4, <2>1, <2>2, <3>1, <3>2, <3>3, <3>4, <3>5
            DEF Agreement, ClosingInv
  <2> QED BY <2>3, <2>4
<1> QED BY <1>1, <1>5, <1>7, <1>9, <1>10, <1>11, <1>12 DEF ClosingInv

\* ChannelCooperativeSettle.
LEMMA RequestNext ==
  ASSUME ClosingInv, NEW n \in Node, ChannelCooperativeSettle(n)
  PROVE  ClosingInv'
<1> DEFINE m == [type |-> "CooperativeSettleRequest",
                 balances |-> GetCooprativeSettleBalances(n)]
<1>1. m \in Message
  BY SettleBalancesType DEF Message, ClosingInv
<1>2. Begins(n, m)
  BY <1>1 DEF ChannelCooperativeSettle, handleSendCooperativeSettleRequest, Begins, Send,
              chainVars, syncVars, historyVars
<1>3. received' \in [Node -> Nat] /\ \A k \in Node : received'[k] <= Len(sent[k])
  BY DEF ChannelCooperativeSettle, ClosingInv, Said
<1> QED BY <1>2, <1>3, BeginsNext

-----------------------------------------------------------------------------
(* Closing.                                                                *)

\* The transactions on their way when n hands over some more.
LEMMA SendsLater ==
  ASSUME ClosingInv, Keeps, NEW n \in Node, NEW txs, NEW still \in SUBSET pending[n],
         SendToContract(n, txs, still), \A t \in txs : t.from = n /\ Backed(t)',
         height' = height
  PROVE  /\ Transactions' /\ Deadlines'
         /\ pending'[n] = still \cup {t \in txs : t.type # "Unlock"}
         /\ \A k \in Node : k # n => pending'[k] = pending[k]
         /\ submitted \subseteq submitted'
         /\ \A s \in submitted' : s \notin submitted =>
              s.mineBy = height + MaxInclusion /\ \E t \in txs : Carries(s.tx, t)
<1>1. height \in Nat
  BY ClosingAssumption DEF ClosingInv, Clock
<1>2. /\ Transactions'
      /\ pending'[n] = still \cup {t \in txs : t.type # "Unlock"}
      /\ \A k \in Node : k # n => pending'[k] = pending[k]
      /\ submitted \subseteq submitted'
      /\ \A s \in submitted' : s \notin submitted =>
           s.mineBy = height + MaxInclusion /\ \E t \in txs : Carries(s.tx, t)
  BY SendsBacked DEF ClosingInv
<1>3. Deadlines'
  BY <1>1, <1>2, NewDeadlines DEF ClosingInv
<1> QED BY <1>2, <1>3

\* The transactions when n only forgets some that are pending.
LEMMA SendsNothing ==
  ASSUME ClosingInv, Keeps, NEW n \in Node, NEW still \in SUBSET pending[n],
         SendToContract(n, {}, still), height' = height
  PROVE  /\ Transactions' /\ Deadlines'
         /\ pending'[n] = still
         /\ \A k \in Node : k # n => pending'[k] = pending[k]
         /\ submitted \subseteq submitted'
<1>1. PICK txs : txs = {}
  OBVIOUS
<1>2. SendToContract(n, txs, still) /\ \A t \in txs : t.from = n /\ Backed(t)'
  BY <1>1
<1>3. /\ Transactions' /\ Deadlines'
      /\ pending'[n] = still \cup {t \in txs : t.type # "Unlock"}
      /\ \A k \in Node : k # n => pending'[k] = pending[k]
      /\ submitted \subseteq submitted'
  BY <1>2, SendsLater
<1> QED BY <1>1, <1>3

\* ChannelClose.
LEMMA CloseNext ==
  ASSUME ClosingInv, NEW n \in Node, ChannelClose(n)
  PROVE  ClosingInv'
<1> DEFINE tx == [type |-> "Close", from |-> n, balanceProof |-> partnerState[n].balanceProof]
<1>1. /\ Sides' /\ Deposited' /\ Said' /\ ContractType' /\ EventsType' /\ Clock'
      /\ EventsTell'
  BY Frame DEF ClosingInv, ChannelClose, chainVars, syncVars, historyVars, messageVars
<1>2. settleTransaction[n] = "nil" /\ closeTransaction[n] # "success" /\ exists[n]
  BY StatusFacts DEF ChannelClose, EventsForClose, ClosingInv
<1>3. /\ closeTransaction'[n] = "running"
      /\ \A k \in Node : k # n => closeTransaction'[k] = closeTransaction[k]
      /\ closeTransaction' \in [Node -> {"nil", "running", "success"}]
  BY DEF ChannelClose, EventsForClose, ClosingInv, Statuses
<1>4. /\ UNCHANGED <<partnerState, exists, closedAt, settleTransaction, updateTransaction,
                  ourUnlockTransaction, sent, contract, events, height,
                  pos, missed, takenBack, lost>>
      /\ SendToContract(n, {tx}, pending[n])
  BY DEF ChannelClose, EventsForClose, chainVars, syncVars, historyVars, messageVars
<1>5. Statuses'
  BY <1>3, <1>4 DEF Statuses, ClosingInv
<1>6. \A k \in Node : Messages(k)' = Messages(k)
  BY <1>4 DEF Messages
<1>7. Keeps
  BY <1>2, <1>3, <1>4, <1>6 DEF Keeps, Answers
<1>8. \A t \in {tx} : t.from = n /\ Backed(t)'
  BY <1>3, <1>4 DEF Backed, TransactionType
<1>9. /\ Transactions' /\ Deadlines'
      /\ pending'[n] = pending[n] \cup {t \in {tx} : t.type # "Unlock"}
      /\ \A k \in Node : k # n => pending'[k] = pending[k]
      /\ submitted \subseteq submitted'
  BY <1>4, <1>7, <1>8, SendsLater
<1>10. LastProofs'
  BY <1>3, <1>4, <1>7, <1>9, ProofsKept DEF ClosingInv
<1>11. Known'
  BY <1>2, <1>3, <1>4 DEF Known, ClosingInv
<1>12. Agreement'
  <2>1. \A k \in Node : /\ Answers(k)' = Answers(k)
                        /\ Requested(k)' <=> Requested(k)
                        /\ Answered(k)' <=> Answered(k)
    BY <1>6 DEF Answers, Requested, Answered
  <2> QED BY <1>2, <1>3, <1>4, <2>1, NodeFacts DEF Agreement, ClosingInv
<1>13. Waiting'
  BY <1>2, <1>3, <1>4, <1>9 DEF Waiting, ClosingInv
<1> QED BY <1>1, <1>5, <1>9, <1>10, <1>11, <1>12, <1>13 DEF ClosingInv

\* handleWithdrawReceived.
LEMMA WithdrawNext ==
  ASSUME ClosingInv, NEW n \in Node, handleWithdrawReceived(n)
  PROVE  ClosingInv'
<1>1. PICK txs : txs = {Withdraw(n)}
  OBVIOUS
<1>2. /\ IsOpen(n) /\ SendToContract(n, txs, pending[n])
      /\ UNCHANGED <<ourState, partnerState, exists, closeTransaction, closedAt,
                     settleTransaction, updateTransaction, ourUnlockTransaction,
                     depositQueue, sent, received, contract, events, height, block, pos,
                     missed, takenBack, lost>>
  BY <1>1 DEF handleWithdrawReceived, channelVars, messageVars, chainVars, syncVars, historyVars
<1>3. /\ Sides' /\ Statuses' /\ Deposited' /\ Said' /\ ContractType' /\ EventsType'
      /\ Clock' /\ Agreement' /\ EventsTell' /\ Known'
  BY <1>2, Frame DEF ClosingInv
<1>4. Keeps
  BY <1>2 DEF Keeps, Answers, Messages
<1>5. \A t \in txs : t.from = n /\ t.type = "Withdraw" /\ Backed(t)'
  BY <1>1 DEF Backed, Withdraw, TransactionType
<1>6. /\ Transactions' /\ Deadlines'
      /\ pending'[n] = pending[n] \cup {t \in txs : t.type # "Unlock"}
      /\ \A k \in Node : k # n => pending'[k] = pending[k]
      /\ submitted \subseteq submitted'
  BY <1>2, <1>4, <1>5, SendsLater
<1>7. LastProofs'
  BY <1>2, <1>4, <1>6, ProofsKept DEF ClosingInv
<1>8. exists[n] /\ settleTransaction[n] = "nil"
  BY <1>2, StatusFacts DEF IsOpen, ClosingInv
<1>9. Waiting'
  BY <1>2, <1>5, <1>6, <1>8 DEF Waiting, ClosingInv
<1> QED BY <1>3, <1>6, <1>7, <1>9 DEF ClosingInv

-----------------------------------------------------------------------------
(* Messages of the partner.                                                *)

\* handleReceiveDirectTransfer.
LEMMA TransferReceived ==
  ASSUME ClosingInv, NEW n \in Node, NEW m \in Messages(Partner(n)), HandleMessage(n, m),
         handleReceiveDirectTransfer(n, m),
         received' \in [Node -> Nat], \A k \in Node : received'[k] <= Len(sent[k])
  PROVE  ClosingInv'
<1> DEFINE new == WithTransfer(partnerState[n], m.balanceProof)
<1>1. /\ Statuses' /\ Deposited' /\ ContractType' /\ EventsType' /\ Clock' /\ Deadlines'
      /\ EventsTell' /\ Known' /\ Waiting' /\ Agreement'
  BY Frame DEF ClosingInv, HandleMessage, handleReceiveDirectTransfer, chainVars, syncVars,
               historyVars
<1>2. /\ UNCHANGED <<ourState, sent, closeTransaction, pending, submitted, contract, height,
                     missed, lost>>
  BY DEF HandleMessage, handleReceiveDirectTransfer, chainVars, historyVars
<1>3. Said'
  BY <1>2 DEF ClosingInv, Said
<1>4. m.balanceProof \in BalanceProof
  <2>1. m \in Message /\ m.type = "DirectTransfer"
    BY NodeFacts, MessageTypes DEF ClosingInv, handleReceiveDirectTransfer
  <2> QED BY <2>1 DEF Message
<1>5. CASE partnerState' = partnerState
  <2>1. Sides'
    BY <1>2, <1>5, Frame DEF ClosingInv
  <2>2. Keeps
    BY <1>2, <1>5 DEF Keeps, Answers, Messages
  <2>3. Transactions' /\ LastProofs'
    BY <1>2, <2>2, NothingSent, ProofsKept DEF ClosingInv
  <2> QED BY <1>1, <1>3, <2>1, <2>3 DEF ClosingInv
<1>6. CASE partnerState' # partnerState
  <2>1. /\ IsValidDirectTransfer(m.balanceProof, partnerState[n], ourState[n], IsOpen(n))
        /\ partnerState' = [partnerState EXCEPT ![n] = new]
    BY <1>6 DEF handleReceiveDirectTransfer
  <2>2. /\ IsOpen(n)
        /\ IsValidDirectTransfer(m.balanceProof, partnerState[n], ourState[n], TRUE)
    BY <2>1 DEF IsValidDirectTransfer, IsBalanceProofUsableOnChain
  <2>3. closeTransaction[n] = "nil"
    BY <2>2, StatusFacts DEF IsOpen, ClosingInv
  <2>4. Side(partnerState[n], Partner(n)) /\ Side(ourState[n], n)
    BY DEF ClosingInv, Sides
  <2>5. Follows(new, partnerState[n], m.balanceProof) /\ PendingLocks(new) = PendingLocks(partnerState[n])
    BY <1>4, <2>2, <2>4, AcceptDirect DEF Side
  <2>6. Side(new, Partner(n)) /\ new \in EndStates
    BY <2>4, <2>5, SideWithTransfer, NodeFacts DEF Follows
  <2>7. Sides'
    <3>1. partnerState' \in [Node -> EndStates] /\ ourState' \in [Node -> EndStates]
      BY <1>2, <2>1, <2>6 DEF ClosingInv, Sides
    <3>2. \A k \in Node : Side(ourState'[k], k) /\ Side(partnerState'[k], Partner(k))
      BY <1>2, <2>1, <2>6 DEF ClosingInv, Sides
    <3> QED BY <3>1, <3>2 DEF Sides, Side
  <2>8. Keeps
    BY <1>2, <2>1, <2>3 DEF Keeps, Answers, Messages, ClosingInv, Sides
  <2>9. Transactions' /\ LastProofs'
    BY <1>2, <2>8, NothingSent, ProofsKept DEF ClosingInv
  <2> QED BY <1>1, <1>3, <2>7, <2>9 DEF ClosingInv
<1> QED BY <1>5, <1>6

\* A message after which the channel is as it was.
LEMMA NothingReceived ==
  ASSUME ClosingInv, received' \in [Node -> Nat],
         \A k \in Node : received'[k] <= Len(sent[k]),
         UNCHANGED <<channelVars, pending, sent, submitted, chainVars, syncVars, historyVars>>
  PROVE  ClosingInv'
<1>1. /\ Sides' /\ Statuses' /\ Deposited' /\ ContractType' /\ EventsType' /\ Clock'
      /\ Deadlines' /\ EventsTell' /\ Known' /\ Waiting' /\ Agreement'
  BY Frame DEF ClosingInv, channelVars, chainVars, syncVars, historyVars
<1>2. /\ UNCHANGED <<partnerState, sent, closeTransaction, pending, submitted, contract,
                     height, missed, lost>>
  BY DEF channelVars, chainVars, historyVars
<1>3. Said'
  BY <1>2 DEF ClosingInv, Said
<1>4. Keeps
  BY <1>2 DEF Keeps, Answers, Messages
<1>5. Transactions' /\ LastProofs'
  BY <1>2, <1>4, NothingSent, ProofsKept DEF ClosingInv
<1> QED BY <1>1, <1>3, <1>5 DEF ClosingInv

\* handleCooperativeSettleRequestReceived.
LEMMA RequestReceived ==
  ASSUME ClosingInv, NEW n \in Node, NEW m \in Messages(Partner(n)), HandleMessage(n, m),
         handleCooperativeSettleRequestReceived(n, m),
         received' \in [Node -> Nat], \A k \in Node : received'[k] <= Len(sent[k])
  PROVE  ClosingInv'
<1> DEFINE answer == [m EXCEPT !.type = "CooperativeSettle"]
<1>1. m \in Message /\ m.type = "CooperativeSettleRequest"
  BY NodeFacts, MessageTypes DEF ClosingInv, handleCooperativeSettleRequestReceived
<1>2. CASE isValidCooperativeSettleRequest(n, m.balances)
  <2>1. answer \in Message /\ answer.type = "CooperativeSettle"
    BY <1>1 DEF Message
  <2>2. Requested(Partner(n))
    BY <1>1 DEF Requested
  <2>3. Begins(n, answer)
    BY <1>2, <2>1 DEF HandleMessage, handleCooperativeSettleRequestReceived,
       isValidCooperativeSettleRequest, Begins, Send, chainVars, syncVars, historyVars
  <2> QED BY <2>1, <2>2, <2>3, BeginsNext
<1>3. CASE ~isValidCooperativeSettleRequest(n, m.balances)
  BY <1>3, NothingReceived DEF HandleMessage, handleCooperativeSettleRequestReceived,
     channelVars, chainVars, syncVars, historyVars
<1> QED BY <1>2, <1>3

\* handleCooperativeSettleReceived.
LEMMA AnswerReceived ==
  ASSUME ClosingInv, NEW n \in Node, NEW m \in Messages(Partner(n)), HandleMessage(n, m),
         handleCooperativeSettleReceived(n, m),
         received' \in [Node -> Nat], \A k \in Node : received'[k] <= Len(sent[k])
  PROVE  ClosingInv'
<1> DEFINE tx == [type |-> "CooperativeSettle", from |-> n, balances |-> m.balances]
<1>1. m \in Answers(Partner(n))
  BY DEF Answers, handleCooperativeSettleReceived
<1>2. /\ UNCHANGED <<ourState, partnerState, exists, closeTransaction, closedAt,
                     updateTransaction, ourUnlockTransaction, depositQueue, sent,
                     contract, events, height, block, pos, missed, lost, panicked>>
  BY DEF HandleMessage, handleCooperativeSettleReceived, chainVars, syncVars
<1>3. /\ Sides' /\ Deposited' /\ ContractType' /\ EventsType' /\ Clock' /\ EventsTell'
  BY <1>2, Frame DEF ClosingInv
<1>4. Said'
  BY <1>2 DEF ClosingInv, Said
<1>5. Keeps
  BY <1>2 DEF Keeps, Answers, Messages
<1>6. \A k \in Node : /\ Answers(k)' = Answers(k)
                      /\ Requested(k)' <=> Requested(k)
                      /\ Answered(k)' <=> Answered(k)
  BY <1>2 DEF Answers, Requested, Answered, Messages
<1>7. CASE /\ exists[n] /\ isValidCooperativeSettle(n, m.balances)
           /\ SendToContract(n, {tx}, pending[n])
           /\ UNCHANGED <<settleTransaction, takenBack>>
  <2>1. Statuses' /\ Known' /\ Agreement'
    BY <1>2, <1>7, Frame DEF ClosingInv
  <2>2. \A t \in {tx} : t.from = n /\ Backed(t)'
    BY <1>1, <1>2, <1>6, NodeFacts DEF Backed, TransactionType
  <2>3. /\ Transactions' /\ Deadlines'
        /\ pending'[n] = pending[n] \cup {t \in {tx} : t.type # "Unlock"}
        /\ \A k \in Node : k # n => pending'[k] = pending[k]
        /\ submitted \subseteq submitted'
    BY <1>2, <1>5, <1>7, <2>2, SendsLater
  <2>4. LastProofs'
    BY <1>2, <1>5, <2>3, ProofsKept DEF ClosingInv
  <2>5. settleTransaction[n] = "running"
    BY <1>7, StatusFacts DEF ClosingInv, isValidCooperativeSettle
  <2>6. Waiting'
    BY <1>2, <1>7, <2>3, <2>5 DEF Waiting, ClosingInv
  <2> QED BY <1>3, <1>4, <2>1, <2>3, <2>4, <2>6 DEF ClosingInv
<1>8. CASE /\ exists[n] /\ ~isValidCooperativeSettle(n, m.balances)
           /\ settleTransaction' = [settleTransaction EXCEPT ![n] = "nil"]
           /\ takenBack' = takenBack \cup {n}
           /\ UNCHANGED <<pending, submitted>>
  <2>1. /\ settleTransaction'[n] = "nil"
        /\ \A k \in Node : k # n => settleTransaction'[k] = settleTransaction[k]
        /\ settleTransaction' \in [Node -> {"nil", "running", "success"}]
    BY <1>8 DEF ClosingInv, Statuses
  <2>2. Statuses'
    BY <1>2, <2>1 DEF ClosingInv, Statuses
  <2>3. Deadlines' /\ Transactions' /\ LastProofs'
    BY <1>2, <1>5, <1>8, Frame, NothingSent, ProofsKept DEF ClosingInv
  <2>4. Waiting'
    BY <1>2, <1>8, <2>1 DEF Waiting, ClosingInv
  <2>5. Known'
    BY <1>2, <2>1 DEF Known, ClosingInv
  <2>6. Answered(Partner(n))
    BY <1>1 DEF Answered, Answers
  <2>7. Agreement'
    BY <1>2, <1>6, <1>8, <2>1, <2>6, NodeFacts DEF Agreement, ClosingInv
  <2> QED BY <1>3, <1>4, <2>2, <2>3, <2>4, <2>5, <2>7 DEF ClosingInv
<1>9. CASE ~exists[n] /\ UNCHANGED <<settleTransaction, pending, submitted, takenBack>>
  BY <1>2, <1>9, NothingReceived DEF channelVars, chainVars, syncVars, historyVars
<1> QED BY <1>7, <1>8, <1>9 DEF handleCooperativeSettleReceived

\* stateTransitionForNetwork, for a message that arrives, once or again.
LEMMA MessageNext ==
  ASSUME ClosingInv, NEW n \in Node, Receive(n) \/ ReceiveAgain(n)
  PROVE  ClosingInv'
<1> DEFINE p == Partner(n)
<1>1. /\ p \in Node /\ received \in [Node -> Nat] /\ Len(sent[p]) \in Nat
      /\ \A k \in Node : received[k] <= Len(sent[k])
  <2>1. p \in Node /\ sent[p] \in Seq(Message)
    BY NodeFacts DEF ClosingInv, Said
  <2> QED BY <2>1, LenProperties DEF ClosingInv, Said
<1>2. ASSUME NEW m \in Messages(p), HandleMessage(n, m),
             received' \in [Node -> Nat], \A k \in Node : received'[k] <= Len(sent[k])
      PROVE  ClosingInv'
  BY <1>2, TransferReceived, RequestReceived, AnswerReceived
     DEF HandleMessage, stateTransitionForNetwork
<1>3. CASE Receive(n)
  <2> DEFINE i == received[p] + 1
  <2>1. i \in 1 .. Len(sent[p]) /\ received' = [received EXCEPT ![p] = received[p] + 1]
    BY <1>1, <1>3 DEF Receive
  <2>2. received' \in [Node -> Nat] /\ \A k \in Node : received'[k] <= Len(sent[k])
    BY <1>1, <2>1
  <2>3. sent[p][i] \in Messages(p) /\ HandleMessage(n, sent[p][i])
    BY <1>3, <2>1 DEF Messages, Receive
  <2> QED BY <1>2, <2>2, <2>3
<1>4. CASE ReceiveAgain(n)
  <2>1. PICK i \in 1 .. received[p] : HandleMessage(n, sent[p][i])
    BY <1>4 DEF ReceiveAgain
  <2>2. i \in 1 .. Len(sent[p])
    BY <1>1
  <2>3. sent[p][i] \in Messages(p) /\ received' = received
    BY <1>4, <2>2 DEF Messages, ReceiveAgain
  <2> QED BY <1>1, <1>2, <2>1, <2>3
<1> QED BY <1>3, <1>4
-----------------------------------------------------------------------------
(* The contract.                                                           *)

\* What holds of all nodes while the contract does something.
ChainActs == UNCHANGED <<channelVars, pending, messageVars, height, syncVars, historyVars>>

\* An event joins the others.
LEMMA EmitFacts ==
  ASSUME EventsType, height \in Nat, NEW name, NEW participant, NEW value,
         Emit(name, participant, value),
         [name |-> name, participant |-> participant, value |-> value,
          block |-> height + 1] \in Event
  PROVE  /\ events' \in Seq(Event) /\ Len(events) \in Nat /\ Len(events') = Len(events) + 1
         /\ \A i \in 1 .. Len(events) : events[i] \in Event /\ events'[i] = events[i]
         /\ events'[Len(events) + 1] =
              [name |-> name, participant |-> participant, value |-> value,
               block |-> height + 1]
<1> DEFINE e == [name |-> name, participant |-> participant, value |-> value,
                 block |-> height + 1]
<1>1. e \in Event /\ events' = Append(events, e) /\ events \in Seq(Event)
  BY DEF Emit, EventsType
<1> HIDE DEF e
<1>2. /\ events' \in Seq(Event) /\ Len(events) \in Nat /\ Len(events') = Len(events) + 1
      /\ \A i \in 1 .. Len(events) : events'[i] = events[i]
      /\ events'[Len(events) + 1] = e
  BY <1>1, AppendProperties, LenProperties
<1>3. \A i \in 1 .. Len(events) : events[i] \in Event
  BY <1>1, ElementOfSeq
<1> QED BY <1>2, <1>3 DEF e

\* What an event of the contract leaves as it is, whatever the contract does.
LEMMA ActsKept ==
  ASSUME ClosingInv, ChainActs, submitted' \subseteq submitted,
         NEW name, NEW participant, NEW value, Emit(name, participant, value),
         [name |-> name, participant |-> participant, value |-> value,
          block |-> height + 1] \in Event,
         name = "SetTotalDeposit" => value \in DepositsOf(participant)
  PROVE  /\ Sides' /\ Statuses' /\ Deposited' /\ Said' /\ EventsType' /\ Clock'
         /\ Deadlines' /\ Transactions' /\ Agreement' /\ Waiting'
<1>1. UNCHANGED <<ourState, partnerState, exists, closeTransaction, closedAt,
                  settleTransaction, updateTransaction, ourUnlockTransaction,
                  depositQueue, pending, sent, received, height, block, pos,
                  missed, takenBack, lost, panicked>>
  BY DEF ChainActs, channelVars, messageVars, syncVars, historyVars
<1>2. /\ Sides' /\ Statuses' /\ Said' /\ Agreement' /\ Waiting'
  BY <1>1, Frame DEF ClosingInv
<1>3. height \in Nat /\ EventsType /\ Clock
  BY ClosingAssumption DEF ClosingInv, Clock
<1>4. /\ events' \in Seq(Event) /\ Len(events) \in Nat /\ Len(events') = Len(events) + 1
      /\ \A i \in 1 .. Len(events) : events[i] \in Event /\ events'[i] = events[i]
      /\ events'[Len(events) + 1] =
           [name |-> name, participant |-> participant, value |-> value,
            block |-> height + 1]
  BY <1>3, EmitFacts
<1>5. 1 .. Len(events') = (1 .. Len(events)) \cup {Len(events) + 1}
  BY <1>4
<1>6. \A i \in 1 .. Len(events') : i \in 1 .. Len(events) \/ i = Len(events) + 1
  BY <1>5
<1>7. EventsType'
  <2>1. \A i \in 1 .. Len(events) : events[i].block \in Nat /\ events[i].block <= height + 1
    BY <1>3, <1>4 DEF EventsType, Event
  <2>2. \A i \in 1 .. Len(events') :
          /\ events'[i].block <= height' + 1
          /\ events'[i].name = "SetTotalDeposit" =>
               events'[i].value \in DepositsOf(events'[i].participant)
    BY <1>1, <1>3, <1>4, <1>6 DEF EventsType
  <2>3. \A i, j \in 1 .. Len(events') : i <= j => events'[i].block <= events'[j].block
    <3> SUFFICES ASSUME NEW i \in 1 .. Len(events'), NEW j \in 1 .. Len(events'), i <= j
                 PROVE  events'[i].block <= events'[j].block
      OBVIOUS
    <3>1. CASE j \in 1 .. Len(events)
      <4>1. i \in 1 .. Len(events)
        BY <1>4, <3>1
      <4> QED BY <3>1, <4>1, <1>3, <1>4 DEF EventsType
    <3>2. CASE j = Len(events) + 1
      <4>1. events'[j].block = height + 1
        BY <1>4, <3>2
      <4> QED BY <4>1, <2>2, <1>1
    <3> QED BY <1>6, <3>1, <3>2
  <2> QED BY <1>4, <2>2, <2>3 DEF EventsType
<1>8. Deposited'
  <2>1. DepositEvents \subseteq DepositEvents'
    BY <1>4, <1>5 DEF DepositEvents
  <2> QED BY <1>1, <2>1 DEF ClosingInv, Deposited
<1>9. Clock'
  <2>1. \A n \in Node : pos'[n] <= Len(events')
    BY <1>1, <1>3, <1>4 DEF Clock
  <2>2. ASSUME NEW n \in Node, NEW i \in 1 .. Len(events'), pos'[n] < i
        PROVE  block'[n] < events'[i].block
    <3>1. CASE i \in 1 .. Len(events)
      BY <1>1, <1>3, <1>4, <2>2, <3>1 DEF Clock
    <3>2. CASE i = Len(events) + 1
      <4>1. events'[i].block = height + 1 /\ block'[n] \in Nat /\ block'[n] <= height
        BY <1>1, <1>3, <1>4, <3>2 DEF Clock
      <4> QED BY <4>1, <1>3
    <3> QED BY <1>6, <3>1, <3>2
  <2> QED BY <1>1, <1>3, <2>1, <2>2 DEF Clock
<1>10. Keeps
  BY <1>1 DEF Keeps, Answers, Messages
<1>11. Deadlines' /\ Transactions'
  BY <1>1, <1>10, NothingSent DEF ClosingInv, Deadlines
<1> QED BY <1>2, <1>7, <1>8, <1>9, <1>11

\* The events after one more, and what it has to say.
LEMMA TellsMore ==
  ASSUME ClosingInv, ChainActs,
         NEW name, NEW participant, NEW value, Emit(name, participant, value),
         [name |-> name, participant |-> participant, value |-> value,
          block |-> height + 1] \in Event,
         \/ contract'.state = contract.state \/ contract.state = "opened"
         \/ contract.state = "closed" /\ contract'.state = "settled",
         contract.state # "opened" =>
           contract'.closer = contract.closer /\ contract'.closedAt = contract.closedAt,
         name = "Closed" =>
           /\ contract'.state = "closed" /\ contract'.closer = participant
           /\ contract'.closedAt = height + 1,
         name \in {"UpdateTransfer", "Settled", "Unlocked"} =>
           contract.state \in {"closed", "settled"},
         name \in {"Settled", "Unlocked"} => contract'.state = "settled",
         name = "CooperativeSettled" => contract'.state = "cooperativeSettled",
         contract.state = "opened" /\ contract'.state \in {"closed", "settled"} =>
           name = "Closed"
  PROVE  EventsTell' /\ Known'
<1>1. height \in Nat /\ EventsType
  BY ClosingAssumption DEF ClosingInv, Clock
<1>0. PICK last \in Nat \ {0} : last = Len(events) + 1
  BY <1>1, EmitFacts
<1>2. /\ events' \in Seq(Event) /\ Len(events) \in Nat /\ Len(events') = last
      /\ \A i \in 1 .. Len(events) : events[i] \in Event /\ events'[i] = events[i]
      /\ events'[last] =
           [name |-> name, participant |-> participant, value |-> value,
            block |-> height + 1]
  BY <1>0, <1>1, EmitFacts
<1>3. /\ 1 .. Len(events') = (1 .. Len(events)) \cup {last}
      /\ 1 .. Len(events) = 1 .. last - 1
  BY <1>0, <1>2
<1>4. ASSUME NEW i \in 1 .. Len(events), NEW nm, HappenedBefore(nm, i)
      PROVE  HappenedBefore(nm, i)'
  <2>1. PICK j \in 1 .. i - 1 : events[j].name = nm
    BY <1>4 DEF HappenedBefore
  <2>2. j \in 1 .. Len(events)
    BY <1>2
  <2> QED BY <1>2, <2>1, <2>2 DEF HappenedBefore
<1>5. contract.state \in {"closed", "settled"} =>
        HappenedBefore("Closed", last)'
  <2> SUFFICES ASSUME contract.state \in {"closed", "settled"}
               PROVE  HappenedBefore("Closed", last)'
    OBVIOUS
  <2>1. PICK j \in 1 .. Len(events) : events[j].name = "Closed"
    BY DEF ClosingInv, EventsTell
  <2>2. j \in 1 .. last - 1 /\ events'[j].name = "Closed"
    BY <1>2, <1>3, <2>1
  <2> QED BY <2>2 DEF HappenedBefore
<1>6. ASSUME NEW i \in 1 .. Len(events)
      PROVE  /\ events'[i].name = "Closed" =>
                  /\ contract'.state \in {"closed", "settled"}
                  /\ events'[i].participant = contract'.closer
                  /\ events'[i].block = contract'.closedAt
             /\ events'[i].name = "UpdateTransfer" =>
                  contract'.state \in {"closed", "settled"} /\ HappenedBefore("Closed", i)'
             /\ events'[i].name \in {"Settled", "Unlocked"} =>
                  contract'.state = "settled" /\ HappenedBefore("Closed", i)'
             /\ events'[i].name = "CooperativeSettled" =>
                  contract'.state = "cooperativeSettled"
  BY <1>2, <1>4 DEF ClosingInv, EventsTell
<1>7. LET e == events'[last]
      IN /\ e.name = "Closed" =>
              /\ contract'.state \in {"closed", "settled"}
              /\ e.participant = contract'.closer
              /\ e.block = contract'.closedAt
         /\ e.name = "UpdateTransfer" =>
              /\ contract'.state \in {"closed", "settled"}
              /\ HappenedBefore("Closed", last)'
         /\ e.name \in {"Settled", "Unlocked"} =>
              contract'.state = "settled" /\ HappenedBefore("Closed", last)'
         /\ e.name = "CooperativeSettled" => contract'.state = "cooperativeSettled"
  BY <1>2, <1>5
<1>8. contract'.state \in {"closed", "settled"} =>
        \E i \in 1 .. Len(events') : events'[i].name = "Closed"
  <2>1. CASE contract.state \in {"closed", "settled"}
    <3>1. PICK j \in 1 .. Len(events) : events[j].name = "Closed"
      BY <2>1 DEF ClosingInv, EventsTell
    <3> QED BY <1>2, <1>3, <3>1
  <2>2. CASE contract.state = "opened" /\ contract'.state \in {"closed", "settled"}
    <3>1. events'[last].name = "Closed" /\ last \in 1 .. Len(events')
      BY <1>2, <1>3, <2>2
    <3> QED BY <3>1
  <2> QED BY <2>1, <2>2
<1>9. \A i \in 1 .. Len(events') : i \in 1 .. Len(events) \/ i = last
  BY <1>3
<1>10. EventsTell'
  BY <1>6, <1>7, <1>8, <1>9 DEF EventsTell
<1>11. UNCHANGED <<exists, closeTransaction, closedAt, settleTransaction,
                   updateTransaction, pos, missed>>
  BY DEF ChainActs, channelVars, syncVars, historyVars
<1>12. ASSUME NEW n \in Node, NEW i \in 1 .. pos'[n]
       PROVE  i \in 1 .. Len(events) /\ i \in 1 .. pos[n] /\ events'[i] = events[i]
  <2>1. pos[n] \in Nat /\ pos[n] <= Len(events)
    BY DEF ClosingInv, Clock
  <2>2. i \in 1 .. pos[n]
    BY <1>11
  <2>3. i \in 1 .. Len(events)
    BY <1>2, <2>1, <2>2
  <2> QED BY <1>2, <2>2, <2>3
<1>13. \A n \in Node : closeTransaction[n] = "success" =>
         contract'.state \in {"closed", "settled"} /\ closedAt[n] = contract'.closedAt
  BY DEF ClosingInv, Known
<1>14. \A n \in Node :
         /\ settleTransaction[n] = "success" =>
              contract'.state \in {"settled", "cooperativeSettled"}
         /\ ~exists[n] => \/ contract'.state = "cooperativeSettled"
                          \/ closeTransaction[n] = "success" \/ n \in missed
  BY DEF ClosingInv, Known
<1>15. Known'
  BY <1>11, <1>12, <1>13, <1>14 DEF Known, ClosingInv
<1> QED BY <1>10, <1>15

\* Payout: the settled contract pays no more than it has.
LEMMA PayoutType ==
  ASSUME ClosingInv, contract.state = "closed", NEW n \in Node
  PROVE  Payout(n) \in Amount
<1> DEFINE p == Partner(n)
           own == contract.proof[n]
           other == contract.proof[p]
<1>1. n \in Node /\ p \in Node /\ p # n /\ contract.closer \in {n, p}
  BY NodeFacts DEF ClosingInv, ContractType, Contract
<1>2. ASSUME NEW q \in Node
      PROVE  /\ contract.proof[q].lockedAmount \in Nat
             /\ contract.proof[q].transferredAmount \in Nat
             /\ contract.proof[q].lockedAmount <= contract.deposit[q]
             /\ contract.deposit[q] \in DepositsOf(q) /\ contract.deposit[q] \in Nat
  <2> DEFINE side == partnerState[Partner(q)]
  <2>1. contract.proof[q] = NoBalanceProof \/ contract.proof[q] = side.balanceProof
    BY <1>1, NodeFacts DEF ClosingInv, LastProofs
  <2>2. Side(side, q)
    BY NodeFacts DEF ClosingInv, Sides
  <2>3. /\ side.balanceProof.lockedAmount = SumAmounts(Pending[q])
        /\ side.balanceProof.lockedAmount \in Nat /\ side.balanceProof.transferredAmount \in Nat
    BY <2>2, EndStateTypes, AmountFacts DEF Side, Books
  <2>4. SumAmounts(Pending[q]) <= Deposits[q] /\ Deposits[q] \in Nat
    BY ClosingAssumption, DepositFacts
  <2>5. /\ contract.deposit[q] \in DepositsOf(q) /\ contract.deposit[q] >= Deposits[q]
        /\ contract.deposit[q] \in Nat
    BY DepositFacts DEF ClosingInv, ContractType
  <2>6. /\ NoBalanceProof.lockedAmount = 0 /\ NoBalanceProof.transferredAmount = 0
    BY DEF NoBalanceProof
  <2> QED BY <2>1, <2>3, <2>4, <2>5, <2>6
<1>3. Total \in Nat /\ Total <= MaxUint64 /\ own.lockedAmount + other.lockedAmount <= Total
      /\ Total - (own.lockedAmount + other.lockedAmount) \in Nat
  <2>1. Total = contract.deposit[n] + contract.deposit[p]
    <3>1. (n = A /\ p = B) \/ (n = B /\ p = A)
      BY <1>1 DEF Node, Partner
    <3>2. contract.deposit[A] \in Nat /\ contract.deposit[B] \in Nat
      BY <1>2, NodeFacts
    <3> QED BY <3>1, <3>2 DEF Total
  <2>2. Total < MaxUint64 /\ MaxUint64 \in Nat
    BY <1>2, NodeFacts, DepositFacts, EndStateAssumption DEF Total
  <2> QED BY <1>1, <1>2, <2>1, <2>2
<1>4. contract.deposit[n] + other.transferredAmount - own.transferredAmount - own.lockedAmount \in Int
  BY <1>1, <1>2
<1> DEFINE locked == own.lockedAmount + other.lockedAmount
           amount == contract.deposit[n] + other.transferredAmount
                       - own.transferredAmount - own.lockedAmount
<1>5. amount \in Int /\ Total - locked \in Nat /\ Total - locked <= MaxUint64 /\ MaxUint64 \in Nat
  BY <1>1, <1>2, <1>3, EndStateAssumption
<1>6. Payout(n) = IF amount < 0 THEN 0 ELSE Min(amount, Total - locked)
  BY DEF Payout
<1> HIDE DEF amount, locked
<1> QED BY <1>5, <1>6 DEF Min, Amount

\* No state but that of the contract and its events.
MinedActs(s) == ChainActs /\ submitted' = submitted \ {s}

\* Mine of a Close.
LEMMA CloseMined ==
  ASSUME ClosingInv, NEW s \in submitted, MinedActs(s), s.tx.type = "Close",
         Accepts(s.tx), Execute(s.tx)
  PROVE  ClosingInv'
<1> DEFINE t == s.tx
           n == t.from
<1>1. /\ contract.state = "opened"
      /\ contract' = [contract EXCEPT !.state = "closed", !.closer = n,
              !.closedAt = height + 1, !.proof[Partner(n)] = t.balanceProof]
      /\ Emit("Closed", n, 0)
  BY DEF Accepts, Execute
<1>2. Backed(t) /\ n \in Node /\ Partner(n) \in Node /\ Partner(n) # n /\ height \in Nat
  BY NodeFacts, ClosingAssumption DEF ClosingInv, Transactions, Backed, Clock
<1>3. [name |-> "Closed", participant |-> n, value |-> 0, block |-> height + 1] \in Event
  BY <1>2 DEF Event
<1>4. t.balanceProof = partnerState[n].balanceProof /\ t.balanceProof \in BalanceProof
  BY <1>2, EndStateTypes DEF Backed, ClosingInv, Sides
<1>5. /\ contract'.state = "closed" /\ contract'.closer = n /\ contract'.closedAt = height + 1
      /\ contract'.proof = [contract.proof EXCEPT ![Partner(n)] = t.balanceProof]
      /\ contract'.deposit = contract.deposit /\ contract'.payout = contract.payout
      /\ contract'.unlocked = contract.unlocked /\ contract' \in Contract
  <2> HIDE DEF t, n
  <2> DEFINE newProof == [contract.proof EXCEPT ![Partner(n)] = t.balanceProof]
  <2>1. contract \in Contract /\ height + 1 \in Nat
    BY <1>2 DEF ClosingInv, ContractType
  <2>2. newProof \in [Node -> BalanceProof]
    BY <1>4, <2>1 DEF Contract
  <2>3. contract' = [contract EXCEPT !.state = "closed", !.closer = n,
                                     !.closedAt = height + 1, !.proof = newProof]
    BY <1>1, <2>1 DEF Contract
  <2> HIDE DEF newProof
  <2>4. /\ contract'.state = "closed" /\ contract'.closer = n /\ contract'.closedAt = height + 1
        /\ contract'.proof = newProof
        /\ contract'.deposit = contract.deposit /\ contract'.payout = contract.payout
        /\ contract'.unlocked = contract.unlocked
    BY <2>1, <2>3 DEF Contract
  <2>5. contract' \in Contract
    BY <1>2, <2>1, <2>2, <2>3 DEF Contract
  <2> QED BY <2>4, <2>5 DEF newProof
<1>6. /\ Sides' /\ Statuses' /\ Deposited' /\ Said' /\ EventsType' /\ Clock'
      /\ Deadlines' /\ Transactions' /\ Agreement' /\ Waiting'
  BY <1>1, <1>3, ActsKept DEF MinedActs
<1>7. EventsTell' /\ Known'
  BY <1>1, <1>3, <1>5, TellsMore DEF MinedActs
<1>8. ContractType'
  BY <1>5 DEF ContractType, ClosingInv
<1>9. UNCHANGED <<partnerState, closeTransaction, height, missed, lost>>
  BY DEF MinedActs, ChainActs, channelVars, historyVars
<1>10. /\ contract.proof[n] = NoBalanceProof /\ \A k \in Node : closeTransaction[k] # "success"
       /\ closeTransaction[n] # "nil"
  BY <1>1, <1>2 DEF ClosingInv, LastProofs, Known, Backed
<1>11. /\ contract'.proof[Partner(n)] = partnerState[n].balanceProof
       /\ contract'.proof[n] = NoBalanceProof
  BY <1>2, <1>4, <1>5, <1>10 DEF ClosingInv, ContractType, Contract
<1>12. LastProofs'
  BY <1>2, <1>5, <1>9, <1>10, <1>11 DEF LastProofs
<1> QED BY <1>6, <1>7, <1>8, <1>12 DEF ClosingInv

\* Mine of an UpdateTransfer.
LEMMA UpdateMined ==
  ASSUME ClosingInv, NEW s \in submitted, MinedActs(s), s.tx.type = "UpdateTransfer",
         Accepts(s.tx), Execute(s.tx)
  PROVE  ClosingInv'
<1> DEFINE t == s.tx
           n == t.from
           c == Partner(n)
<1>1. /\ contract.state = "closed" /\ contract.closer # n
      /\ contract' = [contract EXCEPT !.proof[c] = t.balanceProof]
      /\ Emit("UpdateTransfer", n, t.balanceProof.nonce)
  BY DEF Accepts, Execute
<1>2. /\ Backed(t) /\ n \in Node /\ c \in Node /\ c # n /\ height \in Nat
      /\ Partner(c) = n
  BY NodeFacts, ClosingAssumption DEF ClosingInv, Transactions, Backed, Clock
<1>3. /\ t.balanceProof = partnerState[n].balanceProof /\ t.balanceProof \in BalanceProof
      /\ t.balanceProof.nonce \in Nat /\ closeTransaction[n] = "success"
  BY <1>2, EndStateTypes DEF Backed, ClosingInv, Sides
<1>4. [name |-> "UpdateTransfer", participant |-> n, value |-> t.balanceProof.nonce,
       block |-> height + 1] \in Event
  BY <1>2, <1>3 DEF Event
<1>5. contract.closer = c
  BY <1>1, <1>2, NodeFacts DEF ClosingInv, ContractType, Contract
<1>6. /\ contract'.state = "closed" /\ contract'.closer = c
      /\ contract'.closedAt = contract.closedAt
      /\ contract'.proof = [contract.proof EXCEPT ![c] = t.balanceProof]
      /\ contract'.deposit = contract.deposit /\ contract' \in Contract
  <2> HIDE DEF t, n, c
  <2> DEFINE newProof == [contract.proof EXCEPT ![c] = t.balanceProof]
  <2>1. contract \in Contract
    BY DEF ClosingInv, ContractType
  <2>2. newProof \in [Node -> BalanceProof]
    BY <1>3, <2>1 DEF Contract
  <2>3. contract' = [contract EXCEPT !.proof = newProof]
    BY <1>1, <2>1 DEF Contract
  <2> HIDE DEF newProof
  <2>4. /\ contract'.state = "closed" /\ contract'.closer = c
        /\ contract'.closedAt = contract.closedAt
        /\ contract'.proof = newProof /\ contract'.deposit = contract.deposit
    BY <1>1, <1>5, <2>1, <2>3 DEF Contract
  <2>5. contract' \in Contract
    BY <2>1, <2>2, <2>3 DEF Contract
  <2> QED BY <2>4, <2>5 DEF newProof
<1>7. /\ Sides' /\ Statuses' /\ Deposited' /\ Said' /\ EventsType' /\ Clock'
      /\ Deadlines' /\ Transactions' /\ Agreement' /\ Waiting'
  BY <1>1, <1>4, ActsKept DEF MinedActs
<1>8. EventsTell' /\ Known'
  BY <1>1, <1>4, <1>5, <1>6, TellsMore DEF MinedActs
<1>9. ContractType'
  BY <1>6 DEF ContractType, ClosingInv
<1>10. UNCHANGED <<partnerState, closeTransaction, height, missed, lost>>
  BY DEF MinedActs, ChainActs, channelVars, historyVars
<1>11. /\ contract'.proof[c] = partnerState[n].balanceProof
       /\ contract'.proof[n] = contract.proof[n]
  BY <1>2, <1>3, <1>6 DEF ClosingInv, ContractType, Contract
<1>12. /\ closeTransaction[c] # "nil" /\ contract.proof[n] = partnerState[c].balanceProof
       /\ contract.closedAt <= height + 1
  BY <1>1, <1>2, <1>5 DEF ClosingInv, LastProofs
<1>13. LastProofs'
  BY <1>2, <1>3, <1>6, <1>10, <1>11, <1>12 DEF LastProofs
<1> QED BY <1>7, <1>8, <1>9, <1>13 DEF ClosingInv

\* The proofs that were brought to the contract when it only goes on.
LEMMA ProofsGoOn ==
  ASSUME ClosingInv, NEW s \in submitted, MinedActs(s), s.tx.type # "UpdateTransfer",
         contract.state # "opened", contract.state # "cooperativeSettled",
         contract'.state = "settled", height >= contract.closedAt + SettleTimeout,
         contract'.closer = contract.closer, contract'.closedAt = contract.closedAt,
         contract'.proof = contract.proof
  PROVE  LastProofs'
<1> DEFINE c == contract.closer
           n == Partner(c)
<1>1. c \in Node /\ n \in Node /\ contract.state \in {"closed", "settled"}
  BY NodeFacts DEF ClosingInv, ContractType, Contract
<1>2. /\ UNCHANGED <<partnerState, closeTransaction, height, missed, lost>>
      /\ submitted' = submitted \ {s}
  BY DEF MinedActs, ChainActs, channelVars, historyVars
<1>3. UpdateUnderWay(n) => UpdateUnderWay(n)'
  BY <1>2 DEF UpdateUnderWay
<1> QED BY <1>1, <1>2, <1>3 DEF ClosingInv, LastProofs

\* Mine of a Settle.
LEMMA SettleMined ==
  ASSUME ClosingInv, NEW s \in submitted, MinedActs(s), s.tx.type = "Settle",
         Accepts(s.tx), Execute(s.tx)
  PROVE  ClosingInv'
<1> DEFINE t == s.tx
           n == t.from
<1>1. /\ contract.state = "closed" /\ height + 1 > contract.closedAt + SettleTimeout
      /\ contract' = [contract EXCEPT !.state = "settled",
                                      !.payout = [k \in Node |-> Payout(k)]]
      /\ Emit("Settled", n, 0)
  BY DEF Accepts, Execute, SettleBlock
<1>2. n \in Node /\ height \in Nat /\ contract.closedAt \in Nat /\ SettleTimeout \in Nat
  BY ClosingAssumption
     DEF ClosingInv, Transactions, Backed, Clock, ContractType, Contract
<1>3. [name |-> "Settled", participant |-> n, value |-> 0, block |-> height + 1] \in Event
  BY <1>2 DEF Event
<1>4. [k \in Node |-> Payout(k)] \in Balances
  BY <1>1, PayoutType DEF Balances
<1>5. /\ contract'.state = "settled" /\ contract'.closer = contract.closer
      /\ contract'.closedAt = contract.closedAt /\ contract'.proof = contract.proof
      /\ contract'.deposit = contract.deposit /\ contract' \in Contract
  <2> DEFINE paid == [k \in Node |-> Payout(k)]
  <2>1. contract \in Contract /\ contract' = [contract EXCEPT !.state = "settled", !.payout = paid]
    BY <1>1 DEF ClosingInv, ContractType
  <2>2. paid \in Balances
    BY <1>4
  <2> HIDE DEF paid
  <2> QED BY <2>1, <2>2 DEF Contract
<1>6. /\ Sides' /\ Statuses' /\ Deposited' /\ Said' /\ EventsType' /\ Clock'
      /\ Deadlines' /\ Transactions' /\ Agreement' /\ Waiting'
  BY <1>1, <1>3, ActsKept DEF MinedActs
<1>7. EventsTell' /\ Known'
  BY <1>1, <1>3, <1>5, TellsMore DEF MinedActs
<1>8. ContractType'
  BY <1>5 DEF ContractType, ClosingInv
<1>9. height >= contract.closedAt + SettleTimeout
  BY <1>1, <1>2
<1>10. LastProofs'
  BY <1>1, <1>5, <1>9, ProofsGoOn
<1> QED BY <1>6, <1>7, <1>8, <1>10 DEF ClosingInv

\* Mine of a CooperativeSettle.
LEMMA CooperativeMined ==
  ASSUME ClosingInv, NEW s \in submitted, MinedActs(s), s.tx.type = "CooperativeSettle",
         Accepts(s.tx), Execute(s.tx)
  PROVE  ClosingInv'
<1> DEFINE t == s.tx
           n == t.from
<1>1. /\ contract.state = "opened"
      /\ contract' = [contract EXCEPT !.state = "cooperativeSettled", !.payout = t.balances]
      /\ Emit("CooperativeSettled", n, 0)
  BY DEF Accepts, Execute
<1>2. n \in Node /\ height \in Nat /\ \E m \in Answers(Partner(n)) : t.balances = m.balances
  BY ClosingAssumption DEF ClosingInv, Transactions, Backed, Clock
<1>3. [name |-> "CooperativeSettled", participant |-> n, value |-> 0, block |-> height + 1]
        \in Event
  BY <1>2 DEF Event
<1>4. t.balances \in Balances
  <2>1. PICK m \in Answers(Partner(n)) : t.balances = m.balances
    BY <1>2
  <2>2. m \in Message /\ m.type = "CooperativeSettle"
    BY <1>2, MessageTypes, NodeFacts DEF Answers, ClosingInv
  <2> QED BY <2>1, <2>2 DEF Message
<1>5. /\ contract'.state = "cooperativeSettled" /\ contract'.closer = contract.closer
      /\ contract'.closedAt = contract.closedAt /\ contract'.proof = contract.proof
      /\ contract'.deposit = contract.deposit /\ contract' \in Contract
  <2> HIDE DEF t
  <2>1. contract \in Contract
    BY DEF ClosingInv, ContractType
  <2> QED BY <1>1, <1>4, <2>1 DEF Contract
<1>6. /\ Sides' /\ Statuses' /\ Deposited' /\ Said' /\ EventsType' /\ Clock'
      /\ Deadlines' /\ Transactions' /\ Agreement' /\ Waiting'
  BY <1>1, <1>3, ActsKept DEF MinedActs
<1>7. EventsTell' /\ Known'
  BY <1>1, <1>3, <1>5, TellsMore DEF MinedActs
<1>8. ContractType'
  BY <1>5 DEF ContractType, ClosingInv
<1>9. LastProofs'
  <2>1. sent' = sent /\ Partner(n) \in Node /\ Answers(Partner(n)) # {}
    BY <1>2, NodeFacts DEF MinedActs, ChainActs, messageVars
  <2>2. Answers(Partner(n))' # {}
    BY <2>1 DEF Answers, Messages
  <2> QED BY <1>1, <1>5, <2>1, <2>2 DEF LastProofs, ClosingInv
<1> QED BY <1>6, <1>7, <1>8, <1>9 DEF ClosingInv

\* Mine of an Unlock.
LEMMA UnlockMined ==
  ASSUME ClosingInv, NEW s \in submitted, MinedActs(s), s.tx.type = "Unlock",
         Accepts(s.tx), Execute(s.tx)
  PROVE  ClosingInv'
<1> DEFINE t == s.tx
           n == t.from
<1>1. /\ contract.state = "settled"
      /\ contract' = [contract EXCEPT !.unlocked = @ \cup {n}]
      /\ Emit("Unlocked", n, 0)
  BY DEF Accepts, Execute
<1>2. n \in Node /\ height \in Nat
  BY ClosingAssumption DEF ClosingInv, Transactions, Backed, Clock
<1>3. [name |-> "Unlocked", participant |-> n, value |-> 0, block |-> height + 1] \in Event
  BY <1>2 DEF Event
<1>4. /\ contract'.state = "settled" /\ contract'.closer = contract.closer
      /\ contract'.closedAt = contract.closedAt /\ contract'.proof = contract.proof
      /\ contract'.deposit = contract.deposit /\ contract' \in Contract
  <2> HIDE DEF n
  <2>1. contract \in Contract
    BY DEF ClosingInv, ContractType
  <2> QED BY <1>1, <1>2, <2>1 DEF Contract
<1>5. /\ Sides' /\ Statuses' /\ Deposited' /\ Said' /\ EventsType' /\ Clock'
      /\ Deadlines' /\ Transactions' /\ Agreement' /\ Waiting'
  BY <1>1, <1>3, ActsKept DEF MinedActs
<1>6. EventsTell' /\ Known'
  BY <1>1, <1>3, <1>4, TellsMore DEF MinedActs
<1>7. ContractType'
  BY <1>4 DEF ContractType, ClosingInv
<1>8. LastProofs'
  BY <1>1, <1>4, ProofsGoOn DEF ClosingInv, LastProofs
<1> QED BY <1>5, <1>6, <1>7, <1>8 DEF ClosingInv

\* Mine.
LEMMA MineNext ==
  ASSUME ClosingInv, NEW s \in submitted, Mine(s)
  PROVE  ClosingInv'
<1>1. MinedActs(s) /\ Accepts(s.tx) /\ Execute(s.tx)
  BY DEF Mine, MinedActs, ChainActs
<1>2. s.tx.type \in {"Close", "UpdateTransfer", "Settle", "CooperativeSettle", "Unlock"}
  BY DEF ClosingInv, Transactions, Backed, TransactionType
<1> QED BY <1>1, <1>2, CloseMined, UpdateMined, SettleMined, CooperativeMined, UnlockMined

\* Refuse, and Fail: an update of the participant that did not close is lost
\* only if it is in lost, or if its proof is in the contract already.
LEMMA DropNext ==
  ASSUME ClosingInv, NEW s \in submitted, Refuse(s) \/ Fail(s)
  PROVE  ClosingInv'
<1>1. /\ UNCHANGED <<ourState, partnerState, exists, closeTransaction, closedAt,
                     settleTransaction, updateTransaction, ourUnlockTransaction,
                     depositQueue, pending, sent, received, contract, events, height,
                     block, pos, missed, takenBack, panicked>>
      /\ submitted' = submitted \ {s} /\ lost \subseteq lost'
      /\ s.tx.type = "UpdateTransfer" =>
           ~Accepts(s.tx) \/ <<s.tx.from, "UpdateTransfer">> \in lost'
  BY DEF Refuse, Fail, channelVars, messageVars, chainVars, syncVars, historyVars
<1>2. /\ Sides' /\ Statuses' /\ Deposited' /\ Said' /\ ContractType' /\ EventsType'
      /\ Clock' /\ Agreement' /\ EventsTell' /\ Known' /\ Waiting'
  BY <1>1, Frame DEF ClosingInv
<1>3. Deadlines'
  BY <1>1 DEF ClosingInv, Deadlines
<1>4. Keeps
  BY <1>1 DEF Keeps, Answers, Messages
<1>5. Transactions'
  BY <1>1, <1>4, NothingSent DEF ClosingInv
<1> DEFINE c == contract.closer
           n == Partner(c)
<1>6. c \in Node /\ n \in Node /\ n # c
  BY NodeFacts DEF ClosingInv, ContractType, Contract
<1>7. ASSUME contract.state \in {"closed", "settled"}, MaxLag + MaxInclusion <= SettleTimeout + 1,
             n \notin missed, <<n, "UpdateTransfer">> \notin lost', closeTransaction[n] = "success"
      PROVE  contract.proof[c] = partnerState[n].balanceProof \/ UpdateUnderWay(n)'
  <2>1. contract.proof[c] = partnerState[n].balanceProof \/ UpdateUnderWay(n)
    BY <1>1, <1>7 DEF ClosingInv, LastProofs
  <2>2. CASE UpdateUnderWay(n)
    <3>1. PICK u \in submitted :
            /\ u.tx.type = "UpdateTransfer" /\ u.tx.from = n
            /\ u.mineBy <= contract.closedAt + SettleTimeout
      BY <2>2 DEF UpdateUnderWay
    <3>2. CASE u # s
      BY <1>1, <3>1, <3>2 DEF UpdateUnderWay
    <3>3. CASE u = s
      <4> DEFINE t == u.tx
      <4>1. ~Accepts(t)
        BY <1>1, <1>7, <3>1, <3>3
      <4>2. /\ u.mineBy \in Nat /\ height < u.mineBy /\ height \in Nat
            /\ contract.closedAt \in Nat /\ SettleTimeout \in Nat
        BY ClosingAssumption DEF ClosingInv, Deadlines, Clock, ContractType, Contract
      <4>3. height + 1 <= contract.closedAt + SettleTimeout
        BY <3>1, <4>2
      <4>4. contract.state = "closed"
        <5>1. ~(height >= contract.closedAt + SettleTimeout)
          BY <4>2, <4>3
        <5> QED BY <1>7, <5>1 DEF ClosingInv, LastProofs
      <4>5. Backed(t) /\ t.from = n /\ Partner(n) = c
        BY <1>6, <3>1, NodeFacts DEF ClosingInv, Transactions
      <4>6. ~(t.balanceProof.nonce > contract.proof[c].nonce)
        BY <1>6, <3>1, <4>1, <4>3, <4>4, <4>5 DEF Accepts, SettleBlock
      <4>7. /\ t.balanceProof = partnerState[n].balanceProof
            /\ t.balanceProof # NoBalanceProof
        BY <3>1, <4>5 DEF Backed
      <4>8. contract.proof[c] # NoBalanceProof
        <5>1. Side(partnerState[n], Partner(n))
          BY <1>6 DEF ClosingInv, Sides
        <5>2. t.balanceProof.nonce \in Nat /\ t.balanceProof.nonce # 0
          BY <4>7, <5>1, EndStateTypes DEF Side, Books
        <5>3. NoBalanceProof.nonce = 0
          BY DEF NoBalanceProof
        <5> QED BY <4>6, <5>2, <5>3
      <4> QED BY <1>7, <4>8 DEF ClosingInv, LastProofs
    <3> QED BY <3>2, <3>3
  <2> QED BY <2>1, <2>2
<1>8. LastProofs'
  <2>1. \A k : Answers(k)' = Answers(k)
    BY <1>1 DEF Answers, Messages
  <2> QED BY <1>1, <1>7, <2>1 DEF LastProofs, ClosingInv
<1> QED BY <1>2, <1>3, <1>5, <1>8 DEF ClosingInv

\* SetTotalDeposit.
LEMMA DepositNext ==
  ASSUME ClosingInv, NEW n \in Node, NEW total \in Totals, SetTotalDeposit(n, total)
  PROVE  ClosingInv'
<1>1. /\ contract.state = "opened" /\ total > contract.deposit[n]
      /\ contract' = [contract EXCEPT !.deposit[n] = total]
      /\ Emit("SetTotalDeposit", n, total)
      /\ ChainActs /\ submitted' = submitted
  BY DEF SetTotalDeposit, ChainActs
<1>2. /\ total \in DepositsOf(n) /\ total \in Nat /\ total \in Amount /\ height \in Nat
      /\ Deposits[n] \in Nat /\ contract.deposit[n] \in Nat /\ contract.deposit[n] >= Deposits[n]
  BY DepositFacts, ClosingAssumption DEF DepositsOf, ClosingInv, Clock, ContractType
<1>3. [name |-> "SetTotalDeposit", participant |-> n, value |-> total, block |-> height + 1]
        \in Event
  BY <1>2 DEF Event
<1>4. /\ contract'.state = "opened" /\ contract'.closer = contract.closer
      /\ contract'.closedAt = contract.closedAt /\ contract'.proof = contract.proof
      /\ contract'.deposit = [contract.deposit EXCEPT ![n] = total]
      /\ contract' \in Contract
  <2> DEFINE deposits == [contract.deposit EXCEPT ![n] = total]
  <2>1. contract \in Contract
    BY DEF ClosingInv, ContractType
  <2>2. deposits \in [Node -> Amount] /\ contract' = [contract EXCEPT !.deposit = deposits]
    BY <1>1, <1>2, <2>1 DEF Contract
  <2> HIDE DEF deposits
  <2>3. /\ contract'.state = "opened" /\ contract'.closer = contract.closer
        /\ contract'.closedAt = contract.closedAt /\ contract'.proof = contract.proof
        /\ contract'.deposit = deposits
        /\ contract' \in Contract
    BY <1>1, <2>1, <2>2 DEF Contract
  <2> QED BY <2>3 DEF deposits
<1>5. /\ Sides' /\ Statuses' /\ Deposited' /\ Said' /\ EventsType' /\ Clock'
      /\ Deadlines' /\ Transactions' /\ Agreement' /\ Waiting'
  BY <1>1, <1>2, <1>3, ActsKept
<1>6. EventsTell' /\ Known'
  BY <1>1, <1>3, <1>4, TellsMore
<1>7. ContractType'
  BY <1>1, <1>2, <1>4 DEF ContractType, Contract, ClosingInv
<1>8. LastProofs'
  BY <1>1, <1>4 DEF LastProofs, ClosingInv
<1> QED BY <1>5, <1>6, <1>7, <1>8 DEF ClosingInv

\* MineBlock.
LEMMA BlockMined ==
  ASSUME ClosingInv, MineBlock
  PROVE  ClosingInv'
<1>1. /\ UNCHANGED <<ourState, partnerState, exists, closeTransaction, closedAt,
                     settleTransaction, updateTransaction, ourUnlockTransaction,
                     depositQueue, pending, sent, received, submitted, contract, events,
                     block, pos, missed, takenBack, lost, panicked>>
      /\ height' = height + 1 /\ height < MaxHeight
      /\ \A n \in Node : height - block[n] < MaxLag
      /\ \A s \in submitted : height + 1 < s.mineBy
  BY DEF MineBlock, channelVars, messageVars, syncVars, historyVars
<1>2. /\ Sides' /\ Statuses' /\ Deposited' /\ Said' /\ ContractType'
      /\ Agreement' /\ EventsTell' /\ Known' /\ Waiting'
  BY <1>1, Frame DEF ClosingInv
<1>3. height \in Nat /\ MaxHeight \in Nat /\ MaxLag \in Nat /\ SettleTimeout \in Nat
  BY ClosingAssumption DEF ClosingInv, Clock
<1>4. EventsType'
  <2>1. \A i \in 1 .. Len(events) : events[i].block \in Nat
    BY EventTypes DEF ClosingInv, Event
  <2>2. \A i \in 1 .. Len(events) : events[i].block <= height + 1
    BY DEF ClosingInv, EventsType
  <2>3. \A i \in 1 .. Len(events) : events[i].block <= (height + 1) + 1
    BY <1>3, <2>1, <2>2
  <2> QED BY <1>1, <2>3 DEF ClosingInv, EventsType
<1>5. Clock'
  <2>1. \A n \in Node : block[n] \in Nat /\ block[n] <= height
    BY DEF ClosingInv, Clock
  <2>2. \A n \in Node : block[n] <= height + 1 /\ height + 1 <= block[n] + MaxLag
    BY <1>1, <1>3, <2>1
  <2> QED BY <1>1, <1>3, <2>2 DEF ClosingInv, Clock
<1>6. Deadlines'
  BY <1>1 DEF ClosingInv, Deadlines
<1>7. Keeps
  BY <1>1 DEF Keeps, Answers, Messages
<1>8. Transactions'
  BY <1>1, <1>7, NothingSent DEF ClosingInv
<1>9. LastProofs'
  <2>1. contract.closedAt \in Nat
    BY DEF ClosingInv, ContractType, Contract
  <2>2. \A n : /\ UpdateUnderWay(n)' <=> UpdateUnderWay(n)
               /\ Answers(n)' = Answers(n)
    BY <1>1 DEF UpdateUnderWay, Answers, Messages
  <2> QED BY <1>1, <1>3, <2>1, <2>2 DEF ClosingInv, LastProofs
<1> QED BY <1>2, <1>4, <1>5, <1>6, <1>8, <1>9 DEF ClosingInv
-----------------------------------------------------------------------------
(* The events of a block, at a node that has the channel.                  *)

\* What handling an event leaves as it is.
LEMMA EventFrame ==
  ASSUME ClosingInv, NEW n \in Node, OnBlockchainEvent(n)
  PROVE  /\ Sides' /\ Said' /\ ContractType' /\ EventsType' /\ EventsTell' /\ Clock'
         /\ UNCHANGED <<partnerState, sent, contract, events, height, block, takenBack, lost>>
         /\ pos[n] + 1 \in 1 .. Len(events)
         /\ pos' = [pos EXCEPT ![n] = pos[n] + 1]
         /\ NextEvent(n) = events[pos[n] + 1] /\ NextEvent(n) \in Event
         /\ NextEvent(n).block = block[n] + 1
         /\ subDispatchToChannelById(n, NextEvent(n))
<1>1. /\ UNCHANGED <<ourState, partnerState, sent, received, contract, events, height,
                     block, takenBack, lost, panicked>>
      /\ pos' = [pos EXCEPT ![n] = pos[n] + 1] /\ HasEvent(n)
      /\ subDispatchToChannelById(n, NextEvent(n))
  BY DEF OnBlockchainEvent, messageVars, chainVars
<1>2. /\ Sides' /\ Said' /\ ContractType' /\ EventsType' /\ EventsTell'
  BY <1>1, Frame DEF ClosingInv
<1>3. pos[n] \in Nat /\ pos[n] < Len(events) /\ Len(events) \in Nat /\ EventsType
      /\ NextEvent(n).block = block[n] + 1
  BY <1>1, LenProperties DEF HasEvent, ClosingInv, Clock, EventsType
<1>4. pos[n] + 1 \in 1 .. Len(events) /\ NextEvent(n) \in Event
  BY <1>3, EventTypes DEF NextEvent
<1>5. Clock'
  <2>1. /\ pos' \in [Node -> Nat] /\ \A k \in Node : pos'[k] <= Len(events)
        /\ \A k \in Node : pos[k] \in Nat /\ pos[k] <= pos'[k]
    BY <1>1, <1>3 DEF ClosingInv, Clock
  <2>2. \A k \in Node : \A i \in 1 .. Len(events) : pos'[k] < i => pos[k] < i
    BY <2>1
  <2> QED BY <1>1, <2>1, <2>2 DEF ClosingInv, Clock
<1> QED BY <1>1, <1>2, <1>3, <1>4, <1>5 DEF NextEvent

\* n knows that the channel was closed.
Knows(n) == closeTransaction[n] = "success" \/ n \in missed

\* After the events that tell of something else, the nodes know as much.
LEMMA KnowsMore ==
  ASSUME ClosingInv, NEW n \in Node, OnBlockchainEvent(n),
         \A k \in Node : Knows(k) => Knows(k)',
         NextEvent(n).name = "Closed" => Knows(n)'
  PROVE  \A k \in Node : \A i \in 1 .. pos'[k] : events'[i].name = "Closed" => Knows(k)'
<1>1. /\ events' = events /\ pos' = [pos EXCEPT ![n] = pos[n] + 1]
      /\ NextEvent(n) = events[pos[n] + 1]
  BY EventFrame
<1>2. pos \in [Node -> Nat]
  BY DEF ClosingInv, Clock
<1>3. \A k \in Node : \A i \in 1 .. pos[k] : events[i].name = "Closed" => Knows(k)
  BY DEF ClosingInv, Known, Knows
<1>4. \A k \in Node : \A i \in 1 .. pos'[k] : i \in 1 .. pos[k] \/ (k = n /\ i = pos[n] + 1)
  BY <1>1, <1>2
<1> QED BY <1>1, <1>3, <1>4

\* What happened before the next event is known.
LEMMA KnowsBefore ==
  ASSUME ClosingInv, NEW n \in Node, OnBlockchainEvent(n),
         NEW i \in 1 .. Len(events), i = pos[n] + 1, HappenedBefore("Closed", i)
  PROVE  Knows(n)
<1>1. PICK j \in 1 .. i - 1 : events[j].name = "Closed"
  BY DEF HappenedBefore
<1>2. j \in 1 .. pos[n]
  BY DEF ClosingInv, Clock
<1> QED BY <1>1, <1>2 DEF ClosingInv, Known, Knows

\* Nothing is pending of an agreement when the channel was closed.
LEMMA ClosedAlone ==
  ASSUME ClosingInv, contract.state \in {"closed", "settled"},
         NEW n \in Node, n \notin takenBack, NEW t \in pending[n]
  PROVE  t.type # "CooperativeSettle"
<1> SUFFICES ASSUME t.type = "CooperativeSettle" PROVE FALSE
  OBVIOUS
<1> DEFINE p == Partner(n)
<1>1. p \in Node /\ Partner(p) = n /\ \A k \in Node : k = n \/ k = p
  BY NodeFacts
<1>2. Answered(p)
  BY DEF ClosingInv, Transactions, Backed, Answers, Answered
<1>3. Requested(n) /\ ~Answered(n)
  BY <1>1, <1>2 DEF ClosingInv, Agreement
<1>4. closeTransaction[n] = "nil"
  BY <1>3 DEF ClosingInv, Agreement
<1>5. p \notin takenBack
  BY <1>1, <1>3 DEF ClosingInv, Agreement
<1>6. closeTransaction[p] = "nil"
  BY <1>1, <1>2, <1>5 DEF ClosingInv, Agreement
<1>7. contract.closer \in Node /\ closeTransaction[contract.closer] # "nil"
  BY DEF ClosingInv, LastProofs, ContractType, Contract
<1> QED BY <1>1, <1>4, <1>6, <1>7

\* Nothing is pending of a closing when the channel was settled by both.
LEMMA AgreedAlone ==
  ASSUME ClosingInv, contract.state = "cooperativeSettled",
         NEW n \in Node, n \notin takenBack, NEW t \in pending[n]
  PROVE  t.type = "CooperativeSettle" \/ t = Withdraw(n)
<1>1. PICK k \in Node : Answered(k)
  BY DEF ClosingInv, LastProofs, Answers, Answered
<1>2. Requested(n) \/ Answered(n)
  BY <1>1, NodeFacts DEF ClosingInv, Agreement
<1>3. closeTransaction[n] = "nil"
  BY <1>2 DEF ClosingInv, Agreement
<1>4. t.type # "Close"
  BY <1>3 DEF ClosingInv, Waiting
<1>5. t.from = n /\ Backed(t) /\ t.type # "Unlock"
  BY DEF ClosingInv, Transactions
<1> QED BY <1>3, <1>4, <1>5 DEF Backed, TransactionType

\* handleChannelUpdatedTransfer.
LEMMA UpdateSeen ==
  ASSUME ClosingInv, NEW n \in Node, OnBlockchainEvent(n),
         handleChannelUpdatedTransfer(n, NextEvent(n))
  PROVE  ClosingInv'
<1> DEFINE e == NextEvent(n)
<1>1. /\ Sides' /\ Said' /\ ContractType' /\ EventsType' /\ EventsTell' /\ Clock'
      /\ UNCHANGED <<partnerState, sent, contract, events, height, block, takenBack, lost>>
      /\ pos[n] + 1 \in 1 .. Len(events) /\ e = events[pos[n] + 1]
  BY EventFrame
<1>2. /\ UNCHANGED <<exists, closeTransaction, closedAt, settleTransaction,
                     ourUnlockTransaction, depositQueue, missed>>
      /\ e.name = "UpdateTransfer"
      /\ updateTransaction' = [updateTransaction EXCEPT ![n] = TRUE]
      /\ SendToContract(n, {}, StillPending(n, e))
  BY DEF handleChannelUpdatedTransfer
<1>3. Deposited' /\ Agreement'
  BY <1>1, <1>2, Frame DEF ClosingInv
<1>4. Statuses'
  BY <1>2 DEF ClosingInv, Statuses
<1>5. Keeps
  BY <1>1, <1>2 DEF Keeps, Answers, Messages
<1>6. StillPending(n, e) \in SUBSET pending[n]
  BY DEF StillPending
<1>7. /\ Transactions' /\ Deadlines' /\ submitted \subseteq submitted'
      /\ pending'[n] = StillPending(n, e)
      /\ \A k \in Node : k # n => pending'[k] = pending[k]
  BY <1>1, <1>2, <1>5, <1>6, SendsNothing
<1>8. Waiting'
  BY <1>1, <1>2, <1>6, <1>7 DEF Waiting, ClosingInv
<1>9. LastProofs'
  BY <1>1, <1>2, <1>5, <1>7, ProofsKept DEF ClosingInv
<1>10. Knows(n)
  BY <1>1, <1>2, KnowsBefore DEF ClosingInv, EventsTell
<1>11. \A k \in Node : Knows(k)' <=> Knows(k)
  BY <1>2 DEF Knows
<1>12. \A k \in Node : \A i \in 1 .. pos'[k] : events'[i].name = "Closed" => Knows(k)'
  BY <1>2, <1>11, KnowsMore
<1>13. Known'
  BY <1>1, <1>2, <1>10, <1>12 DEF Known, Knows, ClosingInv, Statuses
<1> QED BY <1>1, <1>3, <1>4, <1>7, <1>8, <1>9, <1>13 DEF ClosingInv

\* handleChannelNewBalance.
LEMMA DepositSeen ==
  ASSUME ClosingInv, NEW n \in Node, OnBlockchainEvent(n),
         handleChannelNewBalance(n, NextEvent(n))
  PROVE  ClosingInv'
<1> DEFINE e == NextEvent(n)
<1>1. /\ Sides' /\ Said' /\ ContractType' /\ EventsType' /\ EventsTell' /\ Clock'
      /\ UNCHANGED <<partnerState, sent, contract, events, height, block, takenBack, lost>>
      /\ pos[n] + 1 \in 1 .. Len(events) /\ e = events[pos[n] + 1]
  BY EventFrame
<1>2. /\ UNCHANGED <<exists, closeTransaction, closedAt, settleTransaction,
                     updateTransaction, ourUnlockTransaction, missed>>
      /\ e.name = "SetTotalDeposit"
      /\ depositQueue' = [depositQueue EXCEPT ![n] = @ \cup {e}]
      /\ SendToContract(n, {}, StillPending(n, e))
  BY DEF handleChannelNewBalance
<1>3. Statuses' /\ Agreement'
  BY <1>1, <1>2, Frame DEF ClosingInv
<1>4. Deposited'
  <2>1. e \in DepositEvents /\ DepositEvents' = DepositEvents
    BY <1>1, <1>2 DEF DepositEvents
  <2> HIDE DEF e
  <2> QED BY <1>2, <2>1 DEF ClosingInv, Deposited
<1>5. Keeps
  BY <1>1, <1>2 DEF Keeps, Answers, Messages
<1>6. StillPending(n, e) \in SUBSET pending[n]
  BY DEF StillPending
<1>7. /\ Transactions' /\ Deadlines' /\ submitted \subseteq submitted'
      /\ pending'[n] = StillPending(n, e)
      /\ \A k \in Node : k # n => pending'[k] = pending[k]
  BY <1>1, <1>2, <1>5, <1>6, SendsNothing
<1>8. Waiting'
  BY <1>1, <1>2, <1>6, <1>7 DEF Waiting, ClosingInv
<1>9. LastProofs'
  BY <1>1, <1>2, <1>5, <1>7, ProofsKept DEF ClosingInv
<1>10. \A k \in Node : Knows(k)' <=> Knows(k)
  BY <1>2 DEF Knows
<1>11. \A k \in Node : \A i \in 1 .. pos'[k] : events'[i].name = "Closed" => Knows(k)'
  BY <1>2, <1>10, KnowsMore
<1>12. Known'
  BY <1>1, <1>2, <1>11 DEF Known, Knows, ClosingInv
<1> QED BY <1>1, <1>3, <1>4, <1>7, <1>8, <1>9, <1>12 DEF ClosingInv

\* handleChannelBatchUnlock.
LEMMA UnlockSeen ==
  ASSUME ClosingInv, NEW n \in Node, OnBlockchainEvent(n),
         handleChannelBatchUnlock(n, NextEvent(n))
  PROVE  ClosingInv'
<1> DEFINE e == NextEvent(n)
<1>1. /\ Sides' /\ Said' /\ ContractType' /\ EventsType' /\ EventsTell' /\ Clock'
      /\ UNCHANGED <<partnerState, sent, contract, events, height, block, takenBack, lost>>
      /\ pos[n] + 1 \in 1 .. Len(events) /\ e = events[pos[n] + 1]
  BY EventFrame
<1>2. /\ UNCHANGED <<closeTransaction, closedAt, settleTransaction, updateTransaction,
                     ourUnlockTransaction, depositQueue, pending, submitted, missed>>
      /\ e.name = "Unlocked"
      /\ exists' = [exists EXCEPT ![n] = GetStatus(n) # "settled"]
  BY DEF handleChannelBatchUnlock
<1>3. Deposited' /\ Agreement' /\ Deadlines'
  BY <1>1, <1>2, Frame DEF ClosingInv
<1>4. exists' \in [Node -> BOOLEAN] /\ \A k \in Node : k # n => exists'[k] = exists[k]
  BY <1>2 DEF ClosingInv, Statuses
<1>5. Statuses'
  BY <1>2, <1>4 DEF ClosingInv, Statuses
<1>6. Keeps
  BY <1>1, <1>2 DEF Keeps, Answers, Messages
<1>7. Transactions' /\ LastProofs'
  BY <1>1, <1>2, <1>6, NothingSent, ProofsKept DEF ClosingInv
<1>8. ~exists'[n] => settleTransaction[n] = "success"
  <2>1. exists'[n] <=> GetStatus(n) # "settled"
    BY <1>2 DEF ClosingInv, Statuses
  <2> QED BY <2>1, StatusFacts DEF ClosingInv
<1>9. Waiting'
  BY <1>1, <1>2, <1>4, <1>8 DEF Waiting, ClosingInv
<1>10. Knows(n)
  BY <1>1, <1>2, KnowsBefore DEF ClosingInv, EventsTell
<1>11. \A k \in Node : Knows(k)' <=> Knows(k)
  BY <1>2 DEF Knows
<1>12. \A k \in Node : \A i \in 1 .. pos'[k] : events'[i].name = "Closed" => Knows(k)'
  BY <1>2, <1>11, KnowsMore
<1>13. Known'
  BY <1>1, <1>2, <1>4, <1>10, <1>12 DEF Known, Knows, ClosingInv
<1> QED BY <1>1, <1>3, <1>5, <1>7, <1>9, <1>13 DEF ClosingInv

\* handleChannelClosed at a node that was not settling.
LEMMA ClosedSeen ==
  ASSUME ClosingInv, NEW n \in Node, OnBlockchainEvent(n),
         handleChannelClosed(n, NextEvent(n)), GetStatus(n) \in {"opened", "closing"},
         exists[n]
  PROVE  ClosingInv'
<1> DEFINE e == NextEvent(n)
           update == [type |-> "UpdateTransfer", from |-> n,
                      balanceProof |-> partnerState[n].balanceProof,
                      expiration |-> e.block + SettleTimeout]
           c == contract.closer
<1>1. /\ Sides' /\ Said' /\ ContractType' /\ EventsType' /\ EventsTell' /\ Clock'
      /\ UNCHANGED <<partnerState, sent, contract, events, height, block, takenBack, lost>>
      /\ pos[n] + 1 \in 1 .. Len(events) /\ e = events[pos[n] + 1]
      /\ e \in Event /\ e.block = block[n] + 1
  BY EventFrame
<1>2. PICK called \in BOOLEAN : called <=> CallUpdate(n, e)
  OBVIOUS
<1>3. PICK txs : txs = IF called THEN {update} ELSE {}
  OBVIOUS
<1>4. /\ UNCHANGED <<exists, settleTransaction, ourUnlockTransaction, depositQueue, missed>>
      /\ e.name = "Closed"
      /\ closeTransaction' = [closeTransaction EXCEPT ![n] = "success"]
      /\ closedAt' = [closedAt EXCEPT ![n] = e.block]
      /\ updateTransaction' = [updateTransaction EXCEPT ![n] = @ \/ called]
      /\ SendToContract(n, txs, StillPending(n, e))
  BY <1>2, <1>3 DEF handleChannelClosed, setClosed
<1>5. settleTransaction[n] = "nil" /\ closeTransaction[n] # "success"
  BY StatusFacts DEF ClosingInv
<1>6. /\ closeTransaction'[n] = "success" /\ closedAt'[n] = e.block
      /\ closeTransaction' \in [Node -> {"nil", "running", "success"}]
      /\ \A k \in Node : k # n => /\ closeTransaction'[k] = closeTransaction[k]
                                  /\ closedAt'[k] = closedAt[k]
                                  /\ updateTransaction'[k] = updateTransaction[k]
  BY <1>4 DEF ClosingInv, Statuses
<1>7. /\ contract.state \in {"closed", "settled"} /\ e.participant = c
      /\ e.block = contract.closedAt /\ c \in Node /\ contract.closedAt \in Nat
  BY <1>1, <1>4 DEF ClosingInv, EventsTell, ContractType, Contract
<1>8. Deposited'
  BY <1>1, <1>4, Frame DEF ClosingInv
<1>9. Statuses'
  <2>1. e.block \in Nat
    BY <1>7
  <2> HIDE DEF e
  <2> QED BY <1>4, <1>6, <2>1 DEF ClosingInv, Statuses
<1>10. Keeps
  BY <1>1, <1>5, <1>6 DEF Keeps, Answers, Messages
<1>11. StillPending(n, e) \in SUBSET pending[n]
  BY DEF StillPending
<1>12. \A t \in txs : t.from = n /\ Backed(t)'
  <2>1. PICK u : u = update
    OBVIOUS
  <2>2. u.from = n /\ u.type = "UpdateTransfer" /\ u.balanceProof = partnerState[n].balanceProof
    BY <2>1
  <2>3. called => Backed(u)'
    BY <1>1, <1>2, <1>6, <2>2 DEF CallUpdate, Backed, TransactionType
  <2>4. \A t \in txs : called /\ t = u
    BY <1>3, <2>1
  <2> QED BY <2>2, <2>3, <2>4
<1>13. /\ Transactions' /\ Deadlines' /\ submitted \subseteq submitted'
       /\ pending'[n] = StillPending(n, e) \cup {t \in txs : t.type # "Unlock"}
       /\ \A k \in Node : k # n => pending'[k] = pending[k]
  BY <1>1, <1>4, <1>10, <1>11, <1>12, SendsLater
<1>14. \A t \in pending'[n] : t.type # "Close"
  <2>1. \A t \in StillPending(n, e) : t.type # "Close"
    BY <1>4 DEF StillPending, isTransactionPending, isTransactionEffectSatisfied
  <2>2. \A t \in txs : t.type # "Close"
    BY <1>3
  <2> QED BY <1>13, <2>1, <2>2
<1>15. Waiting'
  BY <1>1, <1>4, <1>5, <1>6, <1>13, <1>14 DEF Waiting, ClosingInv
<1>16. Agreement'
  <2>1. \A k \in Node : /\ Answers(k)' = Answers(k)
                        /\ Requested(k)' <=> Requested(k)
                        /\ Answered(k)' <=> Answered(k)
    BY <1>1 DEF Answers, Requested, Answered, Messages
  <2> QED BY <1>1, <1>4, <1>5, <1>6, <2>1, NodeFacts DEF Agreement, ClosingInv
<1>17. Knows(n)' /\ \A k \in Node : Knows(k) => Knows(k)'
  BY <1>4, <1>6 DEF Knows
<1>18. \A k \in Node : \A i \in 1 .. pos'[k] : events'[i].name = "Closed" => Knows(k)'
  BY <1>17, KnowsMore
<1>19. Known'
  BY <1>1, <1>4, <1>6, <1>7, <1>17, <1>18 DEF Known, Knows, ClosingInv
<1>20. LastProofs'
  <2>1. CASE n = c
    BY <1>1, <1>4, <1>6, <1>10, <1>13, <2>1, ProofsKept DEF ClosingInv
  <2>2. CASE n # c
    <3>1. n = Partner(c) /\ Partner(n) = c
      BY <1>7, <2>2, NodeFacts
    <3>2. ASSUME MaxLag + MaxInclusion <= SettleTimeout + 1, n \notin missed
          PROVE  contract.proof[c] = partnerState[n].balanceProof \/ UpdateUnderWay(n)'
      <4>1. contract.proof[c] = NoBalanceProof
        BY <1>5, <1>7, <3>1 DEF ClosingInv, LastProofs
      <4>2. CASE partnerState[n].balanceProof = NoBalanceProof
        BY <4>1, <4>2
      <4>3. CASE partnerState[n].balanceProof # NoBalanceProof
        <5>1. ~updateTransaction[n]
          BY <1>5, <3>2 DEF ClosingInv, Known
        <5>2. called
          BY <1>2, <1>7, <2>2, <4>3, <5>1 DEF CallUpdate
        <5>3. height + MaxInclusion <= contract.closedAt + SettleTimeout /\ height \in Nat
          <6>1. /\ height \in Nat /\ block[n] \in Nat /\ height <= block[n] + MaxLag
                /\ MaxLag \in Nat /\ MaxInclusion \in Nat /\ SettleTimeout \in Nat
            BY ClosingAssumption DEF ClosingInv, Clock
          <6>2. contract.closedAt = block[n] + 1
            BY <1>1, <1>7
          <6> QED BY <3>2, <6>1, <6>2
        <5>4. contract.state = "closed"
          <6>1. ~(height >= contract.closedAt + SettleTimeout)
            BY <1>7, <5>3, ClosingAssumption
          <6> QED BY <1>7, <6>1 DEF ClosingInv, LastProofs
        <5>5. HandleContractSend(update) = {update}
          BY <5>4 DEF HandleContractSend, CheckForOutdatedChannel
        <5>6. [tx |-> update, mineBy |-> height + MaxInclusion] \in submitted'
          BY <1>3, <1>4, <5>2, <5>5 DEF SendToContract, Submit
        <5> QED BY <1>1, <5>3, <5>6 DEF UpdateUnderWay
      <4> QED BY <4>2, <4>3
    <3>3. /\ closeTransaction'[c] # "nil"
          /\ contract.proof[n] = partnerState[c].balanceProof
          /\ contract.proof[c] = NoBalanceProof
          /\ contract.closedAt <= height + 1
          /\ contract.state = "settled" => height >= contract.closedAt + SettleTimeout
      BY <1>5, <1>6, <1>7, <2>2, <3>1 DEF ClosingInv, LastProofs
    <3> QED BY <1>1, <1>4, <1>6, <1>7, <3>1, <3>2, <3>3 DEF LastProofs
  <2> QED BY <2>1, <2>2
<1> QED BY <1>1, <1>8, <1>9, <1>13, <1>15, <1>16, <1>19, <1>20 DEF ClosingInv

\* handleChannelClosed at a node that is settling, or has seen it before.
LEMMA ClosedMissed ==
  ASSUME ClosingInv, NEW n \in Node, OnBlockchainEvent(n),
         handleChannelClosed(n, NextEvent(n)), GetStatus(n) \notin {"opened", "closing"}
  PROVE  ClosingInv'
<1> DEFINE e == NextEvent(n)
<1>1. /\ Sides' /\ Said' /\ ContractType' /\ EventsType' /\ EventsTell' /\ Clock'
      /\ UNCHANGED <<partnerState, sent, contract, events, height, block, takenBack, lost>>
      /\ pos[n] + 1 \in 1 .. Len(events) /\ e = events[pos[n] + 1]
  BY EventFrame
<1>2. settleTransaction[n] # "nil" \/ closeTransaction[n] = "success"
  BY StatusFacts DEF ClosingInv
<1>3. /\ UNCHANGED <<exists, closeTransaction, closedAt, settleTransaction,
                     ourUnlockTransaction, depositQueue>>
      /\ updateTransaction' = [updateTransaction EXCEPT ![n] = @ \/ FALSE]
      /\ missed' = IF closeTransaction[n] = "success" THEN missed ELSE missed \cup {n}
      /\ SendToContract(n, {}, StillPending(n, e))
  BY DEF handleChannelClosed
<1>4. updateTransaction' = updateTransaction
  BY <1>3 DEF ClosingInv, Statuses
<1>5. Deposited' /\ Agreement' /\ Statuses'
  BY <1>1, <1>3, <1>4, Frame DEF ClosingInv
<1>6. Keeps
  BY <1>1, <1>3 DEF Keeps, Answers, Messages
<1>7. StillPending(n, e) \in SUBSET pending[n]
  BY DEF StillPending
<1>8. /\ Transactions' /\ Deadlines' /\ submitted \subseteq submitted'
      /\ pending'[n] = StillPending(n, e)
      /\ \A k \in Node : k # n => pending'[k] = pending[k]
  BY <1>1, <1>3, <1>6, <1>7, SendsNothing
<1>9. Waiting'
  BY <1>1, <1>2, <1>3, <1>7, <1>8 DEF Waiting, ClosingInv
<1>10. LastProofs'
  BY <1>1, <1>3, <1>6, <1>8, ProofsKept DEF ClosingInv
<1>11. Knows(n)' /\ \A k \in Node : Knows(k) => Knows(k)'
  BY <1>3 DEF Knows
<1>12. \A k \in Node : \A i \in 1 .. pos'[k] : events'[i].name = "Closed" => Knows(k)'
  BY <1>11, KnowsMore
<1>13. Known'
  BY <1>1, <1>3, <1>4, <1>11, <1>12 DEF Known, Knows, ClosingInv
<1> QED BY <1>1, <1>5, <1>8, <1>9, <1>10, <1>13 DEF ClosingInv

\* handleChannelSettled.
LEMMA SettledSeen ==
  ASSUME ClosingInv, NEW n \in Node, OnBlockchainEvent(n),
         handleChannelSettled(n, NextEvent(n))
  PROVE  ClosingInv'
<1> DEFINE e == NextEvent(n)
<1>1. /\ Sides' /\ Said' /\ ContractType' /\ EventsType' /\ EventsTell' /\ Clock'
      /\ UNCHANGED <<partnerState, sent, contract, events, height, block, takenBack, lost>>
      /\ pos[n] + 1 \in 1 .. Len(events) /\ e = events[pos[n] + 1]
  BY EventFrame
<1>2. PICK unlocks \in BOOLEAN : unlocks <=>
        ~ourUnlockTransaction[n]
        /\ partnerState[n].merkleTree \cap PendingLocks(partnerState[n]) # {}
  OBVIOUS
<1>3. PICK txs : txs = IF unlocks THEN {[type |-> "Unlock", from |-> n]} ELSE {}
  OBVIOUS
<1>4. /\ UNCHANGED <<closeTransaction, closedAt, updateTransaction, depositQueue, missed>>
      /\ e.name = "Settled"
      /\ settleTransaction' = [settleTransaction EXCEPT ![n] = "success"]
      /\ exists' = [exists EXCEPT ![n] = unlocks]
      /\ ourUnlockTransaction' = [ourUnlockTransaction EXCEPT ![n] = @ \/ unlocks]
      /\ SendToContract(n, txs, StillPending(n, e))
  BY <1>2, <1>3 DEF handleChannelSettled, setSettled
<1>5. Deposited'
  BY <1>1, <1>4, Frame DEF ClosingInv
<1>6. /\ settleTransaction'[n] = "success"
      /\ \A k \in Node : k # n => /\ settleTransaction'[k] = settleTransaction[k]
                                  /\ exists'[k] = exists[k]
  BY <1>4 DEF ClosingInv, Statuses
<1>7. Statuses'
  BY <1>4 DEF ClosingInv, Statuses
<1>8. Keeps
  BY <1>1, <1>4 DEF Keeps, Answers, Messages
<1>9. StillPending(n, e) \in SUBSET pending[n]
  BY DEF StillPending
<1>10. \A t \in txs : t.from = n /\ t.type = "Unlock" /\ Backed(t)'
  BY <1>3 DEF Backed, TransactionType
<1>11. /\ Transactions' /\ Deadlines' /\ submitted \subseteq submitted'
       /\ pending'[n] = StillPending(n, e) \cup {t \in txs : t.type # "Unlock"}
       /\ \A k \in Node : k # n => pending'[k] = pending[k]
  BY <1>1, <1>4, <1>8, <1>9, <1>10, SendsLater
<1>12. contract.state = "settled" /\ Knows(n)
  BY <1>1, <1>4, KnowsBefore DEF ClosingInv, EventsTell
<1>13. n \notin takenBack => pending'[n] \subseteq {Withdraw(n)}
  <2> SUFFICES ASSUME n \notin takenBack, NEW t \in StillPending(n, e) PROVE t = Withdraw(n)
    BY <1>10, <1>11
  <2>1. t \in pending[n] /\ isTransactionPending(n, t, e)
    BY <1>4 DEF StillPending
  <2>2. t.type \notin {"UpdateTransfer", "Settle"}
    BY <1>4, <2>1 DEF isTransactionPending, isTransactionEffectSatisfied, isTransactionInvalidated
  <2>3. t.type # "CooperativeSettle"
    BY <1>12, <2>1, ClosedAlone
  <2>4. t.type # "Close"
    BY <1>12, <2>1 DEF Knows, ClosingInv, Waiting
  <2>5. t.from = n /\ Backed(t) /\ t.type # "Unlock"
    BY <2>1 DEF ClosingInv, Transactions
  <2> QED BY <2>2, <2>3, <2>4, <2>5 DEF Backed, TransactionType
<1>14. Waiting'
  BY <1>1, <1>4, <1>6, <1>11, <1>13 DEF Waiting, ClosingInv, Withdraw
<1>15. Agreement'
  <2>1. \A k \in Node : /\ Answers(k)' = Answers(k)
                        /\ Requested(k)' <=> Requested(k)
                        /\ Answered(k)' <=> Answered(k)
    BY <1>1 DEF Answers, Requested, Answered, Messages
  <2> QED BY <1>1, <1>4, <1>6, <2>1, NodeFacts DEF Agreement, ClosingInv
<1>16. LastProofs'
  BY <1>1, <1>4, <1>8, <1>11, ProofsKept DEF ClosingInv
<1>17. \A k \in Node : Knows(k)' <=> Knows(k)
  BY <1>4 DEF Knows
<1>18. \A k \in Node : \A i \in 1 .. pos'[k] : events'[i].name = "Closed" => Knows(k)'
  BY <1>4, <1>17, KnowsMore
<1>19. Known'
  BY <1>1, <1>4, <1>6, <1>12, <1>18 DEF Known, Knows, ClosingInv
<1> QED BY <1>1, <1>5, <1>7, <1>11, <1>14, <1>15, <1>16, <1>19 DEF ClosingInv

\* handleChannelCooperativeSettled.
LEMMA CooperativeSettledSeen ==
  ASSUME ClosingInv, NEW n \in Node, OnBlockchainEvent(n),
         handleChannelCooperativeSettled(n, NextEvent(n))
  PROVE  ClosingInv'
<1> DEFINE e == NextEvent(n)
<1>1. /\ Sides' /\ Said' /\ ContractType' /\ EventsType' /\ EventsTell' /\ Clock'
      /\ UNCHANGED <<partnerState, sent, contract, events, height, block, takenBack, lost>>
      /\ pos[n] + 1 \in 1 .. Len(events) /\ e = events[pos[n] + 1]
  BY EventFrame
<1>2. /\ UNCHANGED <<closeTransaction, closedAt, updateTransaction,
                     ourUnlockTransaction, depositQueue, missed>>
      /\ e.name = "CooperativeSettled"
      /\ settleTransaction' = [settleTransaction EXCEPT ![n] = "success"]
      /\ exists' = [exists EXCEPT ![n] = FALSE]
      /\ SendToContract(n, {}, StillPending(n, e))
  BY DEF handleChannelCooperativeSettled, setSettled
<1>3. Deposited'
  BY <1>1, <1>2, Frame DEF ClosingInv
<1>4. /\ settleTransaction'[n] = "success"
      /\ \A k \in Node : k # n => /\ settleTransaction'[k] = settleTransaction[k]
                                  /\ exists'[k] = exists[k]
  BY <1>2 DEF ClosingInv, Statuses
<1>5. Statuses'
  BY <1>2 DEF ClosingInv, Statuses
<1>6. Keeps
  BY <1>1, <1>2 DEF Keeps, Answers, Messages
<1>7. StillPending(n, e) \in SUBSET pending[n]
  BY DEF StillPending
<1>8. /\ Transactions' /\ Deadlines' /\ submitted \subseteq submitted'
      /\ pending'[n] = StillPending(n, e)
      /\ \A k \in Node : k # n => pending'[k] = pending[k]
  BY <1>1, <1>2, <1>6, <1>7, SendsNothing
<1>9. contract.state = "cooperativeSettled"
  BY <1>1, <1>2 DEF ClosingInv, EventsTell
<1>10. n \notin takenBack => pending'[n] \subseteq {Withdraw(n)}
  <2> SUFFICES ASSUME n \notin takenBack, NEW t \in StillPending(n, e) PROVE t = Withdraw(n)
    BY <1>8
  <2>1. t \in pending[n] /\ isTransactionPending(n, t, e)
    BY <1>2 DEF StillPending
  <2>2. t.type # "CooperativeSettle"
    BY <1>2, <2>1 DEF isTransactionPending, isTransactionEffectSatisfied
  <2> QED BY <1>9, <2>1, <2>2, AgreedAlone
<1>11. Waiting'
  BY <1>1, <1>2, <1>4, <1>8, <1>10 DEF Waiting, ClosingInv, Withdraw
<1>12. Agreement'
  <2>1. \A k \in Node : /\ Answers(k)' = Answers(k)
                        /\ Requested(k)' <=> Requested(k)
                        /\ Answered(k)' <=> Answered(k)
    BY <1>1 DEF Answers, Requested, Answered, Messages
  <2> QED BY <1>1, <1>2, <1>4, <2>1, NodeFacts DEF Agreement, ClosingInv
<1>13. LastProofs'
  BY <1>1, <1>2, <1>6, <1>8, ProofsKept DEF ClosingInv
<1>14. \A k \in Node : Knows(k)' <=> Knows(k)
  BY <1>2 DEF Knows
<1>15. \A k \in Node : \A i \in 1 .. pos'[k] : events'[i].name = "Closed" => Knows(k)'
  BY <1>2, <1>14, KnowsMore
<1>16. Known'
  BY <1>1, <1>2, <1>4, <1>9, <1>15 DEF Known, Knows, ClosingInv
<1> QED BY <1>1, <1>3, <1>5, <1>8, <1>11, <1>12, <1>13, <1>16 DEF ClosingInv

\* An event of a channel that n does not have.
LEMMA EventIgnored ==
  ASSUME ClosingInv, NEW n \in Node, OnBlockchainEvent(n), ~exists[n]
  PROVE  ClosingInv'
<1> DEFINE e == NextEvent(n)
<1>1. /\ Sides' /\ Said' /\ ContractType' /\ EventsType' /\ EventsTell' /\ Clock'
      /\ UNCHANGED <<partnerState, sent, contract, events, height, block, takenBack, lost>>
      /\ pos[n] + 1 \in 1 .. Len(events) /\ e = events[pos[n] + 1]
      /\ subDispatchToChannelById(n, e)
  BY EventFrame
<1>2. UNCHANGED <<exists, closeTransaction, closedAt, settleTransaction,
                  updateTransaction, ourUnlockTransaction, depositQueue,
                  pending, submitted, missed>>
  BY <1>1 DEF subDispatchToChannelById
<1>3. Statuses' /\ Deposited' /\ Deadlines' /\ Agreement' /\ Waiting'
  BY <1>1, <1>2, Frame DEF ClosingInv
<1>4. Keeps
  BY <1>1, <1>2 DEF Keeps, Answers, Messages
<1>5. Transactions' /\ LastProofs'
  BY <1>1, <1>2, <1>4, NothingSent, ProofsKept DEF ClosingInv
<1>6. e.name = "Closed" => Knows(n)
  BY <1>1 DEF ClosingInv, EventsTell, Known, Knows
<1>7. \A k \in Node : Knows(k)' <=> Knows(k)
  BY <1>2 DEF Knows
<1>8. \A k \in Node : \A i \in 1 .. pos'[k] : events'[i].name = "Closed" => Knows(k)'
  BY <1>6, <1>7, KnowsMore
<1>9. Known'
  BY <1>1, <1>2, <1>8 DEF Known, Knows, ClosingInv
<1> QED BY <1>1, <1>3, <1>5, <1>9 DEF ClosingInv

\* OnBlockchainEvent.
LEMMA EventNext ==
  ASSUME ClosingInv, NEW n \in Node, OnBlockchainEvent(n)
  PROVE  ClosingInv'
<1>1. CASE ~exists[n]
  BY <1>1, EventIgnored
<1>2. CASE exists[n]
  <2>1. StateTransitionForChannel(n, NextEvent(n))
    BY <1>2, EventFrame DEF subDispatchToChannelById
  <2> QED BY <1>2, <2>1, ClosedSeen, ClosedMissed, UpdateSeen, SettledSeen,
             CooperativeSettledSeen, UnlockSeen, DepositSeen DEF StateTransitionForChannel
<1> QED BY <1>1, <1>2

-----------------------------------------------------------------------------
(* Blocks.                                                                 *)

\* Applying confirmed deposits of p to its side, which only raise it.
LEMMA DepositsApplied ==
  ASSUME EventsType, NEW p \in Node, NEW end, Side(end, p),
         NEW queue \in SUBSET DepositEvents
  PROVE  LET new == updateContractBalance(end, p, queue)
         IN /\ Side(new, p) /\ new.balanceProof = end.balanceProof
            /\ end.contractBalance <= new.contractBalance
            /\ new = end \/ \E d \in queue : /\ d.participant = p
                                           /\ d.value = new.contractBalance
                                           /\ end.contractBalance < d.value
<1> DEFINE totals == {end.contractBalance} \cup
                       {e.value : e \in {d \in queue : d.participant = p}}
           total == CHOOSE t \in totals : \A u \in totals : u <= t
           new == updateContractBalance(end, p, queue)
<1>1. \A d \in DepositEvents : d.value \in DepositsOf(d.participant)
  BY DEF EventsType, DepositEvents
<1>2. totals \subseteq DepositsOf(p) /\ totals # {}
  BY <1>1 DEF Side
<1>3. /\ DepositsOf(p) \subseteq Amount /\ DepositsOf(p) \subseteq Nat /\ MaxUint64 \in Nat
      /\ \A d \in DepositsOf(p) : d <= MaxUint64
  BY DepositFacts, AmountFacts, EndStateAssumption DEF Amount
<1>4. total \in totals /\ \A u \in totals : u <= total
  <2> HIDE DEF totals
  <2>1. totals \in SUBSET Nat /\ \A t \in totals : t <= MaxUint64
    BY <1>2, <1>3
  <2>2. \E t \in totals : \A u \in totals : u <= t
    BY <1>2, <1>3, <2>1, GreatestNatural
  <2> QED BY <2>2
<1>5. new = [end EXCEPT !.contractBalance = total]
  BY DEF updateContractBalance
<1>6. total \in Amount /\ total \in DepositsOf(p) /\ end \in EndStates /\ Books(end)
  BY <1>2, <1>3, <1>4 DEF Side
<1>11. end.contractBalance <= total /\ total \in Nat /\ end.contractBalance \in Nat
  BY <1>2, <1>3, <1>4
<1>12. total = end.contractBalance \/ \E d \in queue : d.participant = p /\ d.value = total
  BY <1>4
<1> HIDE DEF total, totals, new
<1>7. /\ new \in EndStates /\ new.contractBalance = total
      /\ new.totalWithdraw = end.totalWithdraw /\ new.balanceProof = end.balanceProof
      /\ new.merkleTree = end.merkleTree /\ new.lockedLocks = end.lockedLocks
      /\ new.unLockedLocks = end.unLockedLocks
      /\ new.onChainUnLockedLocks = end.onChainUnLockedLocks
  BY <1>5, <1>6 DEF EndStates
<1>8. PendingLocks(new) = PendingLocks(end)
  BY <1>7 DEF PendingLocks
<1>9. Books(new)
  BY <1>6, <1>7, <1>8 DEF Books
<1>10. Side(new, p)
  BY <1>6, <1>7, <1>8, <1>9 DEF Side
<1>13. total = end.contractBalance => new = end
  BY <1>5, <1>6 DEF EndStates
<1>14. new = end \/ \E d \in queue : /\ d.participant = p /\ d.value = new.contractBalance
                                     /\ end.contractBalance < d.value
  BY <1>7, <1>11, <1>12, <1>13
<1> QED BY <1>7, <1>10, <1>11, <1>14 DEF new

\* The deposits that wait are events.
LEMMA DepositTypes ==
  ASSUME EventsType
  PROVE  \A e \in DepositEvents : e.block \in Nat
BY EventTypes DEF DepositEvents, Event

\* n follows the chain by a block.
LEMMA BlockFollowed ==
  ASSUME ClosingInv, NEW n \in Node, block[n] < height, ~HasEvent(n),
         block' = [block EXCEPT ![n] = block[n] + 1], UNCHANGED <<height, pos, events>>
  PROVE  Clock'
<1>1. /\ height \in Nat /\ block \in [Node -> Nat] /\ pos \in [Node -> Nat] /\ MaxLag \in Nat
      /\ Len(events) \in Nat
  BY ClosingAssumption, LenProperties DEF ClosingInv, Clock, EventsType
<1>2. \A k \in Node : block'[k] \in Nat /\ block'[k] <= height /\ height <= block'[k] + MaxLag
  <2>1. /\ block'[n] = block[n] + 1 /\ \A k \in Node : k # n => block'[k] = block[k]
    BY <1>1
  <2>2. \A k \in Node : block[k] \in Nat /\ block[k] <= height /\ height <= block[k] + MaxLag
    BY DEF ClosingInv, Clock
  <2>3. \A k \in Node : k # n => block'[k] \in Nat /\ block'[k] <= height
                                 /\ height <= block'[k] + MaxLag
    BY <2>1, <2>2
  <2>4. block[n] + 1 \in Nat /\ block[n] + 1 <= height /\ height <= (block[n] + 1) + MaxLag
    BY <1>1, <2>2
  <2> QED BY <2>1, <2>3, <2>4
<1>3. ASSUME NEW i \in 1 .. Len(events), pos[n] < i
      PROVE  block[n] + 1 < events[i].block
  <2>1. pos[n] + 1 \in 1 .. Len(events) /\ pos[n] + 1 <= i /\ pos[n] < pos[n] + 1
    BY <1>1, <1>3
  <2>2. \A j \in 1 .. Len(events) : events[j].block \in Nat
    BY EventTypes DEF ClosingInv, Event
  <2>3. block[n] < events[pos[n] + 1].block
    BY <2>1 DEF ClosingInv, Clock
  <2>4. events[pos[n] + 1].block <= events[i].block
    BY <2>1 DEF ClosingInv, EventsType
  <2>5. events[pos[n] + 1].block # block[n] + 1
    BY <1>1, <2>1 DEF HasEvent, NextEvent
  <2> HIDE DEF ClosingInv
  <2> QED BY <1>1, <2>1, <2>2, <2>3, <2>4, <2>5
<1>4. block'[n] = block[n] + 1 /\ \A k \in Node : k # n => block'[k] = block[k]
  BY <1>1
<1>5. \A k \in Node : \A i \in 1 .. Len(events) : pos[k] < i => block'[k] < events[i].block
  BY <1>3, <1>4 DEF ClosingInv, Clock
<1> QED BY <1>1, <1>2, <1>5 DEF ClosingInv, Clock

\* handleBlock.
LEMMA BlockNext ==
  ASSUME ClosingInv, NEW n \in Node, handleBlock(n)
  PROVE  ClosingInv'
<1> DEFINE p == Partner(n)
<1>1. PICK settles \in BOOLEAN : settles <=> exists[n] /\ SettlementEnded(n, block[n] + 1)
  OBVIOUS
<1>2. PICK confirmed : confirmed =
        {e \in depositQueue[n] : block[n] + 1 > e.block + ConfirmBlockCount}
  OBVIOUS
<1>3. PICK txs : txs = IF settles THEN {[type |-> "Settle", from |-> n]} ELSE {}
  OBVIOUS
<1>4. /\ block[n] < height /\ ~HasEvent(n)
      /\ block' = [block EXCEPT ![n] = block[n] + 1]
      /\ settleTransaction' = [settleTransaction EXCEPT ![n] =
                                 IF settles THEN "running" ELSE settleTransaction[n]]
      /\ SendToContract(n, txs, pending[n])
      /\ ourState' = [ourState EXCEPT ![n] = updateContractBalance(@, n, confirmed)]
      /\ partnerState' = [partnerState EXCEPT ![n] = updateContractBalance(@, p, confirmed)]
      /\ depositQueue' = [depositQueue EXCEPT ![n] = @ \ confirmed]
      /\ UNCHANGED <<exists, closeTransaction, closedAt, updateTransaction,
                     ourUnlockTransaction, sent, received, contract, events, height, pos,
                     missed, takenBack, lost, panicked>>
  BY <1>1, <1>2, <1>3 DEF handleBlock, messageVars, chainVars, historyVars
<1>5. /\ Said' /\ ContractType' /\ EventsType' /\ EventsTell'
  BY <1>4, Frame DEF ClosingInv
<1>6. p \in Node /\ p # n /\ Partner(p) = n /\ confirmed \in SUBSET DepositEvents
  BY <1>2, NodeFacts DEF ClosingInv, Deposited
<1>7. /\ Side(updateContractBalance(ourState[n], n, confirmed), n)
      /\ Side(updateContractBalance(partnerState[n], p, confirmed), p)
      /\ updateContractBalance(partnerState[n], p, confirmed).balanceProof
           = partnerState[n].balanceProof
  <2>1. EventsType /\ Side(ourState[n], n) /\ Side(partnerState[n], p)
    BY DEF ClosingInv, Sides
  <2> HIDE DEF ClosingInv
  <2> QED BY <1>6, <2>1, DepositsApplied
<1>8. Sides'
  <2>1. /\ updateContractBalance(ourState[n], n, confirmed) \in EndStates
        /\ updateContractBalance(partnerState[n], p, confirmed) \in EndStates
    BY <1>7 DEF Side
  <2>2. ourState' \in [Node -> EndStates] /\ partnerState' \in [Node -> EndStates]
    BY <1>4, <2>1 DEF ClosingInv, Sides
  <2>3. \A k \in Node : Side(ourState'[k], k) /\ Side(partnerState'[k], Partner(k))
    BY <1>4, <1>7 DEF ClosingInv, Sides
  <2> QED BY <2>2, <2>3 DEF Sides, Side
<1>9. \A k \in Node : partnerState'[k].balanceProof = partnerState[k].balanceProof
  BY <1>4, <1>7 DEF ClosingInv, Sides
<1>10. Keeps
  BY <1>4, <1>9 DEF Keeps, Answers, Messages
<1>11. /\ settleTransaction'[n] = IF settles THEN "running" ELSE settleTransaction[n]
       /\ \A k \in Node : k # n => settleTransaction'[k] = settleTransaction[k]
       /\ settleTransaction' \in [Node -> {"nil", "running", "success"}]
  BY <1>4 DEF ClosingInv, Statuses
<1>12. Statuses'
  BY <1>4, <1>11 DEF ClosingInv, Statuses
<1>13. Deposited'
  BY <1>4 DEF ClosingInv, Deposited, DepositEvents
<1>14. Clock'
  BY <1>4, BlockFollowed
<1>15. settles => settleTransaction[n] = "nil" /\ closeTransaction[n] = "success" /\ exists[n]
  BY <1>1, StatusFacts DEF SettlementEnded, ClosingInv
<1>16. \A t \in txs : t.from = n /\ t.type = "Settle" /\ Backed(t)'
  <2>1. PICK u : u = [type |-> "Settle", from |-> n]
    OBVIOUS
  <2>2. settles => Backed(u)'
    BY <1>4, <1>15, <2>1 DEF Backed, TransactionType
  <2>3. \A t \in txs : settles /\ t = u
    BY <1>3, <2>1
  <2> QED BY <2>1, <2>2, <2>3
<1>17. /\ Transactions' /\ Deadlines' /\ submitted \subseteq submitted'
       /\ pending'[n] = pending[n] \cup {t \in txs : t.type # "Unlock"}
       /\ \A k \in Node : k # n => pending'[k] = pending[k]
  BY <1>4, <1>10, <1>16, SendsLater
<1>18. LastProofs'
  BY <1>4, <1>10, <1>17, ProofsKept DEF ClosingInv
<1>19. Known'
  BY <1>4, <1>11 DEF ClosingInv, Known
<1>20. Agreement'
  <2>1. \A k \in Node : /\ Answers(k)' = Answers(k)
                        /\ Requested(k)' <=> Requested(k)
                        /\ Answered(k)' <=> Answered(k)
    BY <1>4 DEF Answers, Requested, Answered, Messages
  <2> QED BY <1>4, <1>11, <2>1, NodeFacts DEF Agreement, ClosingInv
<1>21. Waiting'
  <2>1. CASE settles
    <3>1. n \notin takenBack => \A t \in pending[n] : t.type # "Close"
      BY <1>15, <2>1 DEF ClosingInv, Waiting
    <3> QED BY <1>4, <1>11, <1>15, <1>16, <1>17, <2>1, <3>1 DEF ClosingInv, Waiting
  <2>2. CASE ~settles
    <3>1. pending'[n] = pending[n] /\ settleTransaction'[n] = settleTransaction[n]
      BY <1>3, <1>11, <1>17, <2>2
    <3> QED BY <1>4, <1>11, <1>17, <3>1 DEF ClosingInv, Waiting
  <2> QED BY <2>1, <2>2
<1> QED BY <1>5, <1>8, <1>12, <1>13, <1>14, <1>17, <1>18, <1>19, <1>20, <1>21 DEF ClosingInv

-----------------------------------------------------------------------------
(* Restarts.                                                               *)

\* The events of the blocks that n has finished are the first ones, and n had
\* handled them.
LEMMA Rewound ==
  ASSUME EventsType, Clock, NEW n \in Node
  PROVE  LET k == Cardinality({i \in DOMAIN events : events[i].block <= block[n]})
         IN /\ k \in Nat /\ k <= pos[n]
            /\ \A i \in 1 .. Len(events) : k < i => block[n] < events[i].block
<1> DEFINE S == {i \in DOMAIN events : events[i].block <= block[n]}
<1>1. /\ Len(events) \in Nat /\ DOMAIN events = 1 .. Len(events)
      /\ pos[n] \in Nat /\ block[n] \in Nat
  BY LenProperties DEF EventsType, Clock
<1>2. \A i \in 1 .. Len(events) : events[i].block \in Nat
  BY EventTypes DEF Event
<1>3. \A i \in S : i \in 1 .. Len(events) /\ i <= pos[n]
  <2>1. \A i \in 1 .. Len(events) : pos[n] < i => block[n] < events[i].block
    BY DEF Clock
  <2> QED BY <1>1, <1>2, <2>1
<1>4. PICK k \in Nat : S = 1 .. k /\ k <= pos[n]
  <2>1. CASE S = {}
    BY <1>1, <2>1
  <2>2. CASE S # {}
    <3>1. PICK k \in S : \A i \in S : i <= k
      <4>1. S \in SUBSET Nat /\ \A i \in S : i <= pos[n]
        BY <1>1, <1>3
      <4> HIDE DEF S
      <4> QED BY <1>1, <2>2, <4>1, GreatestNatural
    <3>2. k \in 1 .. Len(events) /\ events[k].block <= block[n] /\ k <= pos[n]
      BY <1>1, <1>3
    <3>3. ASSUME NEW i \in 1 .. k PROVE i \in S
      <4>1. i \in 1 .. Len(events) /\ i <= k
        BY <1>1, <3>2
      <4>2. events[i].block <= events[k].block
        BY <3>2, <4>1 DEF EventsType
      <4>3. events[i].block \in Nat /\ events[k].block \in Nat
        BY <1>2, <3>2, <4>1
      <4>4. events[i].block <= block[n]
        BY <1>1, <3>2, <4>2, <4>3
      <4> QED BY <1>1, <4>1, <4>4
    <3>4. \A i \in S : i \in 1 .. k
      BY <1>1, <1>3, <3>1
    <3> QED BY <1>1, <3>2, <3>3, <3>4
  <2> QED BY <2>1, <2>2
<1>5. Cardinality(S) = k
  <2>1. Cardinality(1 .. k) = k
    BY <1>4, FS_Interval
  <2> QED BY <1>4, <2>1
<1>6. ASSUME NEW i \in 1 .. Len(events), k < i PROVE block[n] < events[i].block
  <2>1. i \notin S
    BY <1>4, <1>6
  <2> QED BY <1>1, <1>2, <2>1
<1> QED BY <1>4, <1>5, <1>6

\* Restart.
LEMMA RestartNext ==
  ASSUME ClosingInv, NEW n \in Node, Restart(n)
  PROVE  ClosingInv'
<1>1. PICK starts \in BOOLEAN : starts <=> pending[n] = {} \/ exists[n]
  OBVIOUS
<1>2. PICK k : k = Cardinality({i \in DOMAIN events : events[i].block <= block[n]})
  OBVIOUS
<1>3. /\ panicked' = IF starts THEN panicked ELSE panicked \cup {n}
      /\ IF starts THEN Submit(UNION {HandleContractSend(t) : t \in pending[n]})
         ELSE submitted' = submitted
      /\ pos' = [pos EXCEPT ![n] = k]
      /\ UNCHANGED <<ourState, partnerState, exists, closeTransaction, closedAt,
                     settleTransaction, updateTransaction, ourUnlockTransaction,
                     depositQueue, pending, sent, received, contract, events, height,
                     block, missed, takenBack, lost>>
  BY <1>1, <1>2 DEF Restart, channelVars, messageVars, chainVars
<1>4. /\ Sides' /\ Statuses' /\ Deposited' /\ Said' /\ ContractType' /\ EventsType'
      /\ Agreement' /\ EventsTell' /\ Waiting'
  BY <1>3, Frame DEF ClosingInv
<1>5. /\ k \in Nat /\ k <= pos[n]
      /\ \A i \in 1 .. Len(events) : k < i => block[n] < events[i].block
  BY <1>2, Rewound DEF ClosingInv
<1>6. pos' \in [Node -> Nat] /\ pos'[n] = k /\ \A j \in Node : j # n => pos'[j] = pos[j]
  BY <1>3, <1>5 DEF ClosingInv, Clock
<1>7. \A j \in Node : pos[j] \in Nat /\ pos'[j] \in Nat /\ pos'[j] <= pos[j]
  <2>1. \A j \in Node : pos[j] \in Nat
    BY DEF ClosingInv, Clock
  <2>2. ASSUME NEW j \in Node PROVE pos'[j] \in Nat /\ pos'[j] <= pos[j]
    BY <1>5, <1>6, <2>1
  <2> QED BY <2>1, <2>2
<1>8. Clock'
  <2>1. Len(events) \in Nat
    BY LenProperties DEF ClosingInv, EventsType
  <2>2. \A j \in Node : pos[j] <= Len(events)
    BY DEF ClosingInv, Clock
  <2>3. \A j \in Node : pos'[j] <= Len(events)
    BY <1>7, <2>1, <2>2
  <2> QED BY <1>3, <1>5, <1>6, <2>3 DEF ClosingInv, Clock
<1>9. Known'
  <2>1. \A j \in Node : 1 .. pos'[j] \subseteq 1 .. pos[j]
    BY <1>7
  <2> QED BY <1>3, <2>1 DEF ClosingInv, Known
<1>11. Keeps
  BY <1>3 DEF Keeps, Answers, Messages
<1>12. /\ submitted \subseteq submitted'
       /\ \A s \in submitted' : s \notin submitted =>
            s.mineBy = height + MaxInclusion /\ \E t \in pending[n] : Carries(s.tx, t)
  <2>1. \A t \in pending[n] : t.type \in TransactionType
    BY DEF ClosingInv, Transactions, Backed
  <2>2. CASE starts
    <3>1. PICK txs : txs = pending[n]
      OBVIOUS
    <3>2. /\ Submit(UNION {HandleContractSend(t) : t \in txs})
          /\ \A t \in txs : t.type \in TransactionType
      BY <1>3, <2>1, <2>2, <3>1
    <3> QED BY <3>1, <3>2, Submitted
  <2>3. CASE ~starts
    BY <1>3, <2>3
  <2> QED BY <2>2, <2>3
<1>13. Deadlines'
  <2>1. height \in Nat
    BY ClosingAssumption DEF ClosingInv, Clock
  <2> QED BY <1>3, <1>12, <2>1, NewDeadlines DEF ClosingInv
<1>14. Transactions'
  <2>1. \A j \in Node : \A t \in pending[j] : t.from = j /\ t.type # "Unlock" /\ Backed(t)'
    BY <1>11, BackedKept DEF ClosingInv, Transactions
  <2>2. ASSUME NEW s \in submitted' PROVE Backed(s.tx)' /\ s.tx.type # "Withdraw"
    <3>1. CASE s \in submitted
      <4>1. Backed(s.tx) /\ s.tx.type # "Withdraw"
        BY <3>1 DEF ClosingInv, Transactions
      <4> QED BY <1>11, <4>1, BackedKept
    <3>2. CASE s \notin submitted
      <4>1. PICK t \in pending[n] : Carries(s.tx, t)
        BY <1>12, <3>2
      <4>2. s.tx.type # "Withdraw"
        BY <4>1 DEF Carries
      <4> QED BY <2>1, <4>1, <4>2, CarriesBacked
    <3> QED BY <3>1, <3>2
  <2> QED BY <1>3, <2>1, <2>2 DEF ClosingInv, Transactions
<1>15. LastProofs'
  BY <1>3, <1>11, <1>12, ProofsKept DEF ClosingInv
<1> QED BY <1>4, <1>8, <1>9, <1>13, <1>14, <1>15 DEF ClosingInv

-----------------------------------------------------------------------------
(* The theorems.                                                           *)

\* Every action keeps the invariant.
LEMMA ClosingNext == ClosingInv /\ [Next]_vars => ClosingInv'
<1> SUFFICES ASSUME ClosingInv, [Next]_vars PROVE ClosingInv'
  OBVIOUS
<1>1. CASE \E n \in Node, amount \in Amounts : handleSendDirectTransfer(n, amount)
  BY <1>1, SendNext
<1>2. CASE \E n \in Node : ChannelCooperativeSettle(n)
  BY <1>2, RequestNext
<1>3. CASE \E n \in Node : ChannelClose(n)
  BY <1>3, CloseNext
<1>4. CASE \E n \in Node : Receive(n) \/ ReceiveAgain(n)
  BY <1>4, MessageNext
<1>5. CASE \E s \in submitted : Mine(s) \/ Refuse(s) \/ Fail(s)
  BY <1>5, MineNext, DropNext
<1>6. CASE \E n \in Node, total \in Totals : SetTotalDeposit(n, total)
  BY <1>6, DepositNext
<1>7. CASE MineBlock
  BY <1>7, BlockMined
<1>8. CASE \E n \in Node : OnBlockchainEvent(n) \/ handleBlock(n)
  BY <1>8, EventNext, BlockNext
<1>9. CASE \E n \in Node : Restart(n)
  BY <1>9, RestartNext
<1>10. CASE UNCHANGED vars
  <2>1. /\ UNCHANGED <<ourState, partnerState, exists, closeTransaction, closedAt,
                       settleTransaction, updateTransaction, ourUnlockTransaction,
                       depositQueue, pending, sent, received, submitted, contract, events,
                       height, block, pos, missed, takenBack, lost, panicked>>
    BY <1>10 DEF vars, channelVars, messageVars, chainVars, syncVars, historyVars
  <2>2. /\ Sides' /\ Statuses' /\ Deposited' /\ Said' /\ ContractType' /\ EventsType'
        /\ Clock' /\ Deadlines' /\ Agreement' /\ EventsTell' /\ Known' /\ Waiting'
    BY <2>1, Frame DEF ClosingInv
  <2>3. Keeps
    BY <2>1 DEF Keeps, Answers, Messages
  <2>4. Transactions' /\ LastProofs'
    BY <2>1, <2>3, NothingSent, ProofsKept DEF ClosingInv
  <2> QED BY <2>2, <2>4 DEF ClosingInv
<1>11. CASE \E n \in Withdrawing : handleWithdrawReceived(n)
  BY <1>11, ClosingAssumption, WithdrawNext
<1> QED BY <1>1, <1>2, <1>3, <1>4, <1>5, <1>6, <1>7, <1>8, <1>9, <1>10, <1>11 DEF Next

\* The invariant holds in every state.
LEMMA ClosingCorrect == Spec => []ClosingInv
BY ClosingInit, ClosingNext, PTL DEF Spec

\* The variables have their types, those of the end states too, whatever is
\* said, handed to the contract and mined in whatever order (ChannelClosing).
THEOREM ClosingTypes == Spec => []TypeOK
<1>1. ClosingInv => TypeOK
  <2> SUFFICES ASSUME ClosingInv PROVE TypeOK
    OBVIOUS
  <2>1. block \in [Node -> 0 .. MaxHeight]
    <3>1. \A n \in Node : block[n] \in 0 .. MaxHeight
      BY ClosingAssumption DEF ClosingInv, Clock
    <3> QED BY <3>1 DEF ClosingInv, Clock
  <2>2. pos \in [Node -> 0 .. Len(events)]
    <3>1. Len(events) \in Nat
      BY LenProperties DEF ClosingInv, EventsType
    <3>2. \A n \in Node : pos[n] \in 0 .. Len(events)
      BY <3>1 DEF ClosingInv, Clock
    <3> QED BY <3>2 DEF ClosingInv, Clock
  <2>3. \A n \in Node : \A i \in DOMAIN sent[n] : sent[n][i] \in Message
    BY DEF ClosingInv, Said
  <2>4. contract.payout \in Balances /\ height \in 0 .. MaxHeight /\ received \in [Node -> Nat]
    BY DEF ClosingInv, ContractType, Contract, Clock, Said
  <2>5. Statuses /\ ourState \in [Node -> EndStates] /\ partnerState \in [Node -> EndStates]
    BY DEF ClosingInv, Sides
  <2> QED BY <2>1, <2>2, <2>3, <2>4, <2>5 DEF TypeOK, Statuses
<1> QED BY <1>1, ClosingCorrect, PTL

\* A channel that one participant closed is settled with the last proof each of
\* them accepted (handleChannelClosed, updateTransfer, SettlementEnded), for any
\* timeout that leaves time to see the closing and to answer it.
THEOREM ClosedPaidInFull == Spec => []PaidInFull
<1>1. ClosingInv => PaidInFull
  <2> SUFFICES ASSUME ClosingInv, MaxLag + MaxInclusion <= SettleTimeout + 1,
                      NEW n \in Node, contract.state = "settled", n \notin missed,
                      <<n, "UpdateTransfer">> \notin lost
               PROVE  contract.proof[Partner(n)] = partnerState[n].balanceProof
    BY DEF PaidInFull
  <2> DEFINE c == contract.closer
  <2>1. c \in Node /\ (n = c \/ n = Partner(c)) /\ Partner(Partner(c)) = c
    BY NodeFacts DEF ClosingInv, ContractType, Contract
  <2>2. CASE n = c
    BY <2>2 DEF ClosingInv, LastProofs
  <2>3. CASE n = Partner(c)
    <3>1. /\ height >= contract.closedAt + SettleTimeout /\ height \in Nat
          /\ contract.closedAt \in Nat /\ SettleTimeout \in Nat
          /\ MaxLag \in Nat /\ MaxInclusion \in Nat /\ MaxInclusion >= 1
      BY ClosingAssumption DEF ClosingInv, LastProofs, ContractType, Contract, Clock
    <3>2. PICK i \in 1 .. Len(events) : events[i].name = "Closed"
      BY DEF ClosingInv, EventsTell
    <3>3. events[i].block = contract.closedAt
      BY <3>2 DEF ClosingInv, EventsTell
    <3>4. block[n] \in Nat /\ height <= block[n] + MaxLag /\ pos[n] \in Nat
      BY DEF ClosingInv, Clock
    <3>5. contract.closedAt <= block[n]
      <4> HIDE DEF ClosingInv
      <4> QED BY <3>1, <3>4
    <3>6. ~(pos[n] < i)
      <4>1. pos[n] < i => block[n] < events[i].block
        BY <3>2 DEF ClosingInv, Clock
      <4> HIDE DEF ClosingInv
      <4> QED BY <3>1, <3>3, <3>4, <3>5, <4>1
    <3>7. i \in 1 .. pos[n]
      BY <3>2, <3>4, <3>6
    <3>8. closeTransaction[n] = "success"
      BY <3>2, <3>7 DEF ClosingInv, Known
    <3>9. ~UpdateUnderWay(n)
      <4> SUFFICES ASSUME NEW s \in submitted,
                          s.mineBy <= contract.closedAt + SettleTimeout
                   PROVE  FALSE
        BY DEF UpdateUnderWay
      <4>1. s.mineBy \in Nat /\ height < s.mineBy
        BY DEF ClosingInv, Deadlines
      <4> HIDE DEF ClosingInv
      <4> QED BY <3>1, <4>1
    <3>10. contract.proof[c] = partnerState[n].balanceProof
      BY <2>3, <3>8, <3>9 DEF ClosingInv, LastProofs
    <3> QED BY <2>1, <2>3, <3>10
  <2> QED BY <2>1, <2>2, <2>3
<1> QED BY <1>1, ClosingCorrect, PTL

-----------------------------------------------------------------------------
(* Starting again.                                                         *)

\* A withdraw that is pending stays so, and what was taken back is not undone.
WithdrawsStay ==
  /\ \A n \in Node : Withdraw(n) \in pending[n] => Withdraw(n) \in pending'[n]
  /\ takenBack \subseteq takenBack'

\* Whoever could not start had an excuse, and has it still.
Starts == panicked \subseteq Node /\ StartsAgain

\* What n hands to the contract takes no withdraw off the list, if what it
\* keeps does not.
LEMMA WithdrawKept ==
  ASSUME Transactions, NEW n \in Node, NEW txs, NEW still, SendToContract(n, txs, still),
         Withdraw(n) \in pending[n] => Withdraw(n) \in still,
         takenBack \subseteq takenBack'
  PROVE  WithdrawsStay
BY DEF Transactions, SendToContract, Remember, WithdrawsStay

\* No event of the contract takes a withdraw that failed off the list
\* (isTransactionPending).
LEMMA WithdrawStillPending ==
  ASSUME NEW n, NEW e, Withdraw(n) \in pending[n]
  PROVE  Withdraw(n) \in StillPending(n, e)
<1>1. Withdraw(n).type = "Withdraw"
  BY DEF Withdraw
<1>2. isTransactionPending(n, Withdraw(n), e)
  BY <1>1 DEF isTransactionPending, isTransactionEffectSatisfied, isTransactionInvalidated,
              isTransactionExpired
<1> QED BY <1>2 DEF StillPending

\* OnBlockchainEvent takes no withdraw off the list.
LEMMA EventKeepsWithdraws ==
  ASSUME ClosingInv, NEW n \in Node, OnBlockchainEvent(n)
  PROVE  WithdrawsStay
<1> DEFINE e == NextEvent(n)
<1>1. takenBack' = takenBack /\ subDispatchToChannelById(n, e)
  BY DEF OnBlockchainEvent
<1>2. CASE pending' = pending
  BY <1>1, <1>2 DEF WithdrawsStay
<1>3. CASE \E txs : SendToContract(n, txs, StillPending(n, e))
  <2>1. PICK txs : SendToContract(n, txs, StillPending(n, e))
    BY <1>3
  <2>2. Withdraw(n) \in pending[n] => Withdraw(n) \in StillPending(n, e)
    BY WithdrawStillPending
  <2> QED BY <1>1, <2>1, <2>2, WithdrawKept DEF ClosingInv
<1> HIDE DEF e
<1>4. pending' = pending \/ \E txs : SendToContract(n, txs, StillPending(n, e))
  <2>1. CASE handleChannelClosed(n, e)
    BY <2>1 DEF handleChannelClosed
  <2>2. CASE handleChannelUpdatedTransfer(n, e)
    BY <2>2 DEF handleChannelUpdatedTransfer
  <2>3. CASE handleChannelSettled(n, e)
    BY <2>3 DEF handleChannelSettled
  <2>4. CASE handleChannelCooperativeSettled(n, e)
    BY <2>4 DEF handleChannelCooperativeSettled
  <2>5. CASE handleChannelBatchUnlock(n, e)
    BY <2>5 DEF handleChannelBatchUnlock
  <2>6. CASE handleChannelNewBalance(n, e)
    BY <2>6 DEF handleChannelNewBalance
  <2>7. CASE pending' = pending
    BY <2>7
  <2> QED BY <1>1, <2>1, <2>2, <2>3, <2>4, <2>5, <2>6, <2>7
          DEF subDispatchToChannelById, StateTransitionForChannel
<1> QED BY <1>2, <1>3, <1>4

\* Nor does any other action.
LEMMA WithdrawsStayNext ==
  ASSUME ClosingInv, [Next]_vars
  PROVE  WithdrawsStay
<1>1. Transactions
  BY DEF ClosingInv
<1>2. CASE pending' = pending /\ takenBack \subseteq takenBack'
  BY <1>2 DEF WithdrawsStay
<1>3. ASSUME NEW n \in Node, NEW txs, SendToContract(n, txs, pending[n]),
             takenBack \subseteq takenBack'
      PROVE  WithdrawsStay
  BY <1>1, <1>3, WithdrawKept
<1>4. CASE \E n \in Node, amount \in Amounts : handleSendDirectTransfer(n, amount)
  BY <1>2, <1>4 DEF handleSendDirectTransfer, historyVars
<1>5. CASE \E n \in Node : ChannelCooperativeSettle(n)
  BY <1>2, <1>5 DEF ChannelCooperativeSettle, historyVars
<1>6. CASE \E n \in Node : ChannelClose(n)
  BY <1>3, <1>6 DEF ChannelClose, EventsForClose, historyVars
<1>7. CASE \E n \in Withdrawing : handleWithdrawReceived(n)
  BY <1>3, <1>7, ClosingAssumption DEF handleWithdrawReceived, historyVars
<1>8. ASSUME NEW n \in Node, NEW m, HandleMessage(n, m)
      PROVE  WithdrawsStay
  <2>1. CASE handleReceiveDirectTransfer(n, m)
    BY <1>2, <2>1 DEF handleReceiveDirectTransfer
  <2>2. CASE handleCooperativeSettleRequestReceived(n, m)
    BY <1>2, <2>2 DEF handleCooperativeSettleRequestReceived
  <2>3. CASE handleCooperativeSettleReceived(n, m)
    BY <1>2, <1>3, <2>3 DEF handleCooperativeSettleReceived
  <2> QED BY <1>8, <2>1, <2>2, <2>3 DEF HandleMessage, stateTransitionForNetwork
<1>9. CASE \E n \in Node : Receive(n) \/ ReceiveAgain(n)
  BY <1>8, <1>9 DEF Receive, ReceiveAgain
<1>10. CASE \E s \in submitted : Mine(s) \/ Refuse(s) \/ Fail(s)
  BY <1>2, <1>10 DEF Mine, Refuse, Fail, historyVars
<1>11. CASE \E n \in Node, total \in Totals : SetTotalDeposit(n, total)
  BY <1>2, <1>11 DEF SetTotalDeposit, historyVars
<1>12. CASE MineBlock
  BY <1>2, <1>12 DEF MineBlock, historyVars
<1>13. CASE \E n \in Node : OnBlockchainEvent(n)
  BY <1>13, EventKeepsWithdraws
<1>14. CASE \E n \in Node : handleBlock(n)
  BY <1>3, <1>14 DEF handleBlock, historyVars
<1>15. CASE \E n \in Node : Restart(n)
  BY <1>2, <1>15 DEF Restart
<1>16. CASE UNCHANGED vars
  BY <1>2, <1>16 DEF vars, historyVars
<1> QED BY <1>4, <1>5, <1>6, <1>7, <1>9, <1>10, <1>11, <1>12, <1>13, <1>14, <1>15, <1>16 DEF Next

\* Whoever has an excuse keeps it, and who can not start now has one.
LEMMA StartsNext ==
  ASSUME ClosingInv, Starts, [Next]_vars
  PROVE  Starts'
<1>1. WithdrawsStay
  BY WithdrawsStayNext
<1>2. CASE panicked' = panicked
  BY <1>1, <1>2 DEF Starts, StartsAgain, WithdrawsStay
<1>3. ASSUME NEW n \in Node, Restart(n)
      PROVE  Starts'
  <2>1. /\ panicked' = IF pending[n] = {} \/ exists[n] THEN panicked ELSE panicked \cup {n}
        /\ pending' = pending /\ takenBack' = takenBack
    BY <1>3 DEF Restart
  <2>2. CASE pending[n] # {} /\ ~exists[n]
    <3>1. n \in takenBack \/ Withdraw(n) \in pending[n]
      BY <2>2 DEF ClosingInv, Waiting
    <3> QED BY <2>1, <3>1 DEF Starts, StartsAgain
  <2> QED BY <1>2, <2>1, <2>2
<1>4. CASE \E n \in Node : Restart(n)
  BY <1>3, <1>4
<1>5. CASE ~\E n \in Node : Restart(n)
  BY <1>2, <1>5
     DEF Next, vars, historyVars, handleSendDirectTransfer, ChannelCooperativeSettle,
         ChannelClose, handleWithdrawReceived, Receive, ReceiveAgain, HandleMessage, Mine,
         Refuse, Fail, SetTotalDeposit, MineBlock, OnBlockchainEvent, handleBlock
<1> QED BY <1>4, <1>5

\* A node can start again, whatever of the closing or settling of its channel
\* was under way when it stopped and however the channel ended, unless it took a
\* settlement back or a withdraw of it had failed: every other transaction is
\* off the list of the pending ones when the channel goes.
THEOREM NodesStartAgain == Spec => []StartsAgain
<1>1. Init => Starts
  BY DEF Init, Starts, StartsAgain
<1>2. ClosingInv /\ Starts /\ [Next]_vars => Starts'
  BY StartsNext
<1>3. Spec => []Starts
  BY <1>1, <1>2, ClosingCorrect, PTL DEF Spec
<1>4. Starts => StartsAgain
  BY DEF Starts
<1> QED BY <1>3, <1>4, PTL

-----------------------------------------------------------------------------
(* Agreements.  What both agreed on stays on the books of both, or can not *)
(* be settled any more, because a deposit came.                            *)

Requests(n) == {m \in Messages(n) : m.type = "CooperativeSettleRequest"}
Counted(n) == ourState[n].contractBalance + partnerState[n].contractBalance

\* The contract takes these balances neither now nor later.
Dead(b) == b[A] + b[B] < Total \/ MaxUint64 < b[A] + b[B]

\* The channel has not been closed by one participant.
Together == contract.state \in {"opened", "cooperativeSettled"}

\* Nobody counts more than was deposited.
DepositsCounted ==
  /\ \A n \in Node :
       /\ ourState[n].contractBalance <= contract.deposit[n]
       /\ partnerState[n].contractBalance <= contract.deposit[Partner(n)]
  /\ \A e \in DepositEvents : e.value <= contract.deposit[e.participant]

\* What n proposed is still on its books.
Proposed ==
  Together =>
    \A n \in Node \ takenBack : \A m \in Requests(n) :
      Dead(m.balances) \/ m.balances = GetCooprativeSettleBalances(n)

\* What p agreed to is on the books of both, and was not taken back.
Agreed ==
  Together =>
    \A p \in Node : \A m \in Answers(p) :
      \/ Dead(m.balances)
      \/ /\ Partner(p) \notin takenBack
         /\ \A n \in Node : m.balances = GetCooprativeSettleBalances(n)

\* The contract pays what was agreed to.
PaidAsAgreed ==
  contract.state = "cooperativeSettled" =>
    \E p \in Node : \E m \in Answers(p) : contract.payout = m.balances /\ ~Dead(m.balances)

\* Who saw that has the channel no more, and takes nothing back.
GoneOnceSeen ==
  contract.state = "cooperativeSettled" =>
    \A n \in Node : settleTransaction[n] = "success" => ~exists[n]

AgreementInv ==
  ClosingInv /\ DepositsCounted /\ Proposed /\ Agreed /\ PaidAsAgreed /\ GoneOnceSeen

\* A balance of a cooperative settlement wraps by at most two words.
LEMMA SettleBalanceCases ==
  ASSUME NEW c \in Amount, NEW r \in Amount, NEW t \in Amount, NEW l \in Amount, NEW k \in Amount,
         NEW b, b = Sub64(Add64(Sub64(Add64(Sub64(c, 0), r), t), l), k),
         NEW W, W = MaxUint64 + 1
  PROVE  /\ b \in Amount
         /\ b \in {c + r - t + l - k - W - W, c + r - t + l - k - W, c + r - t + l - k,
                   c + r - t + l - k + W, c + r - t + l - k + W + W}
<1>1. 0 \in Amount /\ Sub64(c, 0) = c
  BY SubExact, EndStateAssumption DEF Amount
<1>2. PICK a1 \in Amount : a1 = Add64(c, r) /\ (a1 = c + r \/ a1 = c + r - W)
  BY AddCases, AmountFacts
<1>3. PICK a2 \in Amount : a2 = Sub64(a1, t) /\ (a2 = a1 - t \/ a2 = a1 - t + W)
  BY SubCases, AmountFacts
<1>4. PICK a3 \in Amount : a3 = Add64(a2, l) /\ (a3 = a2 + l \/ a3 = a2 + l - W)
  BY AddCases, AmountFacts
<1>5. PICK a4 \in Amount : a4 = Sub64(a3, k) /\ (a4 = a3 - k \/ a4 = a3 - k + W)
  BY SubCases, AmountFacts
<1>6. /\ c \in Nat /\ r \in Nat /\ t \in Nat /\ l \in Nat /\ k \in Nat /\ W \in Nat
      /\ a1 \in Nat /\ a2 \in Nat /\ a3 \in Nat /\ a4 \in Nat
  BY EndStateAssumption, AmountFacts
<1>7. a4 = b
  BY <1>1, <1>2, <1>3, <1>4, <1>5
<1>8. a4 \in {c + r - t + l - k - W - W, c + r - t + l - k - W, c + r - t + l - k,
              c + r - t + l - k + W, c + r - t + l - k + W + W}
  BY <1>2, <1>3, <1>4, <1>5, <1>6
<1> QED BY <1>7, <1>8

\* The two balances add up to what is counted, if they fit a word together.
LEMMA SettleSumExact ==
  ASSUME Sides, NEW n \in Node
  PROVE  LET b == GetCooprativeSettleBalances(n)
         IN /\ b \in Balances /\ b[A] \in Nat /\ b[B] \in Nat /\ Counted(n) \in Nat
            /\ b[A] + b[B] <= MaxUint64 => b[A] + b[B] = Counted(n)
<1> DEFINE p == Partner(n)
           x == ourState[n]
           y == partnerState[n]
           c == x.contractBalance
           d == y.contractBalance
           t == x.balanceProof.transferredAmount
           r == y.balanceProof.transferredAmount
           k == currentLockedAmount(x)
           l == currentLockedAmount(y)
           u == calculateCooperativeSettleBalance(x, y)
           v == calculateCooperativeSettleBalance(y, x)
           b == GetCooprativeSettleBalances(n)
           W == MaxUint64 + 1
<1>1. p \in Node /\ p # n /\ n \in {A, B} /\ p \in {A, B}
  BY NodeFacts DEF Node
<1>2. /\ Side(x, n) /\ Side(y, p)
      /\ x \in EndStates /\ y \in EndStates /\ Books(x) /\ Books(y)
  BY DEF Sides, Side
<1>3. /\ c \in Amount /\ d \in Amount /\ t \in Amount /\ r \in Amount /\ k \in Amount /\ l \in Amount
      /\ x.totalWithdraw = 0 /\ y.totalWithdraw = 0
  BY <1>2, LockedExact, EndStateTypes DEF Side
<1>4. /\ c \in Nat /\ d \in Nat /\ t \in Nat /\ r \in Nat /\ k \in Nat /\ l \in Nat
      /\ MaxUint64 \in Nat /\ W \in Nat
  BY <1>3, AmountFacts, EndStateAssumption
<1>5. /\ u \in Amount
      /\ u \in {c + r - t + l - k - W - W, c + r - t + l - k - W, c + r - t + l - k,
                c + r - t + l - k + W, c + r - t + l - k + W + W}
  <2>1. u = Sub64(Add64(Sub64(Add64(Sub64(c, 0), r), t), l), k)
    BY <1>3 DEF calculateCooperativeSettleBalance
  <2>2. W = MaxUint64 + 1
    OBVIOUS
  <2> HIDE DEF c, d, t, r, k, l, u, v, x, y, W
  <2> QED BY <1>3, <2>1, <2>2, SettleBalanceCases
<1>6. /\ v \in Amount
      /\ v \in {d + t - r + k - l - W - W, d + t - r + k - l - W, d + t - r + k - l,
                d + t - r + k - l + W, d + t - r + k - l + W + W}
  <2>1. v = Sub64(Add64(Sub64(Add64(Sub64(d, 0), t), r), k), l)
    BY <1>3 DEF calculateCooperativeSettleBalance
  <2>2. W = MaxUint64 + 1
    OBVIOUS
  <2> HIDE DEF c, d, t, r, k, l, u, v, x, y, W
  <2> QED BY <1>3, <2>1, <2>2, SettleBalanceCases
<1>7. b \in Balances /\ b[n] = u /\ b[p] = v
  BY <1>1, SettleBalancesType DEF GetCooprativeSettleBalances
<1>8. c + d <= MaxUint64
  <2>1. \A e \in DepositsOf(A), f \in DepositsOf(B) : e \in Nat /\ f \in Nat /\ e + f < MaxUint64
    BY DepositFacts, NodeFacts
  <2>2. c \in DepositsOf(n) /\ d \in DepositsOf(p)
    BY <1>2 DEF Side
  <2>3. (n = A /\ p = B) \/ (n = B /\ p = A)
    BY <1>1
  <2> HIDE DEF c, d, p
  <2> QED BY <1>4, <2>1, <2>2, <2>3
<1>9. Counted(n) = c + d
  BY DEF Counted
<1> HIDE DEF c, d, t, r, k, l, u, v, x, y, b, p
<1>10. u \in Nat /\ v \in Nat /\ (u + v <= MaxUint64 => u + v = c + d)
  <2>1. u \in Nat /\ v \in Nat
    BY <1>5, <1>6, AmountFacts
  <2> QED BY <1>4, <1>5, <1>6, <1>8, <2>1
<1>11. b[A] \in Nat /\ b[B] \in Nat /\ b[A] + b[B] = u + v
  BY <1>1, <1>7, <1>10
<1>12. c + d \in Nat
  BY <1>4
<1> QED BY <1>7, <1>9, <1>10, <1>11, <1>12 DEF b

\* What is said of a settlement are amounts.
LEMMA SaidBalances ==
  ASSUME Said, NEW p \in Node, NEW m \in Requests(p) \cup Answers(p)
  PROVE  m.balances \in Balances /\ m.balances[A] \in Nat /\ m.balances[B] \in Nat
<1>1. m \in Message /\ m.type \in {"CooperativeSettleRequest", "CooperativeSettle"}
  BY MessageTypes DEF Requests, Answers
<1>2. m.balances \in Balances
  BY <1>1 DEF Message
<1> QED BY <1>2, NodeFacts, AmountFacts DEF Balances

\* Nobody counts more than the total of the deposits.
LEMMA CountedBounded ==
  Sides /\ ContractType /\ DepositsCounted =>
    \A n \in Node : Counted(n) \in Nat /\ Total \in Nat /\ Counted(n) <= Total
<1> SUFFICES ASSUME Sides, ContractType, DepositsCounted, NEW n \in Node
             PROVE  Counted(n) \in Nat /\ Total \in Nat /\ Counted(n) <= Total
  OBVIOUS
<1> DEFINE p == Partner(n)
           c == ourState[n].contractBalance
           d == partnerState[n].contractBalance
<1>1. (n = A /\ p = B) \/ (n = B /\ p = A)
  BY NodeFacts DEF Node, Partner
<1>2. contract.deposit[A] \in Nat /\ contract.deposit[B] \in Nat
  BY NodeFacts, DepositFacts DEF ContractType
<1>3. c \in Nat /\ d \in Nat
  BY NodeFacts, DepositFacts DEF Sides, Side
<1>4. c <= contract.deposit[n] /\ d <= contract.deposit[p]
  BY DEF DepositsCounted
<1>5. Counted(n) = c + d /\ Total = contract.deposit[A] + contract.deposit[B]
  BY DEF Counted, Total
<1> HIDE DEF c, d, p
<1> QED BY <1>1, <1>2, <1>3, <1>4, <1>5

\* Nor after a step that keeps the types.
LEMMA CountedNext ==
  (Sides /\ ContractType /\ DepositsCounted)' =>
    (\A n \in Node : Counted(n) \in Nat /\ Total \in Nat /\ Counted(n) <= Total)'
BY CountedBounded, PTL

\* Who proposed or agreed, and was not refused, is settling.
LEMMA PartiesSettle ==
  ASSUME ClosingInv, NEW p \in Node, Answered(p), Partner(p) \notin takenBack
  PROVE  \A k \in Node : settleTransaction[k] # "nil" /\ closeTransaction[k] = "nil"
                         /\ k \notin takenBack
<1> DEFINE n == Partner(p)
<1>1. n \in Node /\ \A k \in Node : k = p \/ k = n
  BY NodeFacts
<1>2. Requested(n) /\ ~Answered(n) /\ p \notin takenBack
  BY <1>1 DEF ClosingInv, Agreement
<1>3. settleTransaction[p] # "nil" /\ closeTransaction[p] = "nil"
  BY <1>2 DEF ClosingInv, Agreement
<1>4. settleTransaction[n] # "nil" /\ closeTransaction[n] = "nil"
  BY <1>1, <1>2 DEF ClosingInv, Agreement
<1> QED BY <1>1, <1>2, <1>3, <1>4

\* The books of n give the same balances, or n counts a deposit more.
CountsOn(n) ==
  \/ GetCooprativeSettleBalances(n)' = GetCooprativeSettleBalances(n)
  \/ Counted(n) < Counted(n)'

\* Balances on the books of n stay there or can not be settled any more.
LEMMA BalancesStay ==
  ASSUME Sides, Sides', ContractType, ContractType', DepositsCounted', Total <= Total',
         NEW n \in Node, CountsOn(n), NEW b, b[A] \in Nat, b[B] \in Nat,
         Dead(b) \/ b = GetCooprativeSettleBalances(n)
  PROVE  Dead(b)' \/ b = GetCooprativeSettleBalances(n)'
<1>1. Counted(n)' \in Nat /\ Total' \in Nat /\ Counted(n)' <= Total'
  BY CountedNext
<1>2. Total \in Nat /\ MaxUint64 \in Nat
  BY NodeFacts, DepositFacts, EndStateAssumption DEF ContractType, Total
<1>3. CASE Dead(b)
  BY <1>1, <1>2, <1>3 DEF Dead
<1>4. CASE b = GetCooprativeSettleBalances(n) /\ Counted(n) < Counted(n)'
  <2>1. Counted(n) \in Nat /\ (b[A] + b[B] <= MaxUint64 => b[A] + b[B] = Counted(n))
    BY <1>4, SettleSumExact
  <2> QED BY <1>1, <1>2, <1>4, <2>1 DEF Dead
<1>5. CASE b = GetCooprativeSettleBalances(n)
           /\ GetCooprativeSettleBalances(n)' = GetCooprativeSettleBalances(n)
  BY <1>5
<1> QED BY <1>3, <1>4, <1>5 DEF CountsOn

\* What was proposed and agreed to stays, when those who settle count on, and
\* who takes an agreement back does so because it can not be settled.
LEMMA StaysAgreed ==
  ASSUME AgreementInv, Sides', ContractType', DepositsCounted', Together' => Together,
         Total <= Total', takenBack \subseteq takenBack',
         \A n \in Node : Requests(n)' = Requests(n) /\ Answers(n)' = Answers(n),
         \A n \in Node : n \in takenBack' /\ Together' =>
            n \in takenBack \/ \A m \in Answers(Partner(n)) : Dead(m.balances),
         \A n \in Node : settleTransaction[n] # "nil" => CountsOn(n)
  PROVE  Proposed' /\ Agreed'
<1>1. Sides /\ ContractType /\ Said /\ Total \in Nat /\ Total' \in Nat
  <2>1. Sides /\ ContractType /\ Said
    BY DEF AgreementInv, ClosingInv
  <2>2. Total \in Nat /\ Total' \in Nat
    BY <2>1, NodeFacts, DepositFacts DEF ContractType, Total
  <2> QED BY <2>1, <2>2
<1>2. Proposed'
  <2> SUFFICES ASSUME Together', NEW n \in Node, n \notin takenBack', NEW m \in Requests(n)'
               PROVE  Dead(m.balances)' \/ m.balances = GetCooprativeSettleBalances(n)'
    BY DEF Proposed
  <2>1. m \in Requests(n) /\ n \notin takenBack /\ Together
    OBVIOUS
  <2>2. Dead(m.balances) \/ m.balances = GetCooprativeSettleBalances(n)
    BY <2>1 DEF AgreementInv, Proposed
  <2>3. settleTransaction[n] # "nil"
    BY <2>1 DEF AgreementInv, ClosingInv, Agreement, Requests, Requested
  <2>4. PICK b : b = m.balances
    OBVIOUS
  <2>5. b[A] \in Nat /\ b[B] \in Nat
    BY <1>1, <2>1, <2>4, SaidBalances
  <2>6. Dead(b)' \/ b = GetCooprativeSettleBalances(n)'
    BY <1>1, <2>2, <2>3, <2>4, <2>5, BalancesStay
  <2> QED BY <2>4, <2>6
<1>3. Agreed'
  <2> SUFFICES ASSUME Together', NEW p \in Node, NEW m \in Answers(p)', ~Dead(m.balances)'
               PROVE  /\ Partner(p) \notin takenBack'
                      /\ \A n \in Node : m.balances = GetCooprativeSettleBalances(n)'
    BY DEF Agreed
  <2>1. m \in Answers(p) /\ Together
    OBVIOUS
  <2>2. PICK b : b = m.balances
    OBVIOUS
  <2>3. b[A] \in Nat /\ b[B] \in Nat /\ ~Dead(b)' /\ MaxUint64 \in Nat
    BY <1>1, <2>1, <2>2, SaidBalances, EndStateAssumption
  <2>4. ~Dead(b)
    BY <1>1, <2>3 DEF Dead
  <2>5. /\ Partner(p) \notin takenBack
        /\ \A n \in Node : b = GetCooprativeSettleBalances(n)
    BY <2>1, <2>2, <2>4 DEF AgreementInv, Agreed
  <2>6. Partner(p) \notin takenBack'
    BY <2>1, <2>2, <2>4, <2>5, NodeFacts
  <2>7. \A n \in Node : CountsOn(n)
    <3>1. ClosingInv /\ Answered(p)
      BY <2>1 DEF AgreementInv, Answered, Answers
    <3> QED BY <2>5, <3>1, PartiesSettle
  <2>8. \A n \in Node : b = GetCooprativeSettleBalances(n)'
    BY <1>1, <2>3, <2>5, <2>7, BalancesStay
  <2> QED BY <2>2, <2>6, <2>8
<1> QED BY <1>2, <1>3

\* What the contract pays stays what was agreed to.
LEMMA StaysPaid ==
  ASSUME PaidAsAgreed, contract'.state = "cooperativeSettled" => contract' = contract,
         \A p \in Node : Answers(p) \subseteq Answers(p)'
  PROVE  PaidAsAgreed'
<1> SUFFICES ASSUME contract'.state = "cooperativeSettled"
             PROVE  \E p \in Node : \E m \in Answers(p)' :
                      contract'.payout = m.balances /\ ~Dead(m.balances)'
  BY DEF PaidAsAgreed
<1>1. contract' = contract
  OBVIOUS
<1>2. PICK p \in Node : \E m \in Answers(p) :
                           contract.payout = m.balances /\ ~Dead(m.balances)
  BY <1>1 DEF PaidAsAgreed
<1>3. PICK m \in Answers(p) : contract.payout = m.balances /\ ~Dead(m.balances)
  BY <1>2
<1>4. PICK b : b = m.balances
  OBVIOUS
<1>5. ~Dead(b)'
  BY <1>1, <1>3, <1>4 DEF Dead, Total
<1> QED BY <1>1, <1>3, <1>4, <1>5

\* Who saw the end of the channel stays without it.
LEMMA StaysGone ==
  ASSUME GoneOnceSeen, exists' = exists,
         contract'.state = "cooperativeSettled" => contract.state = "cooperativeSettled",
         \A n \in Node : settleTransaction'[n] = "success" => settleTransaction[n] = "success"
  PROVE  GoneOnceSeen'
BY DEF GoneOnceSeen

\* Steps that concern neither books nor messages nor the contract.
LEMMA NotAgreeing ==
  ASSUME AgreementInv, ClosingInv', GoneOnceSeen',
         UNCHANGED <<ourState, partnerState, sent, takenBack, contract, events>>
  PROVE  AgreementInv'
<1>1. /\ \A b : Dead(b)' <=> Dead(b)
      /\ Together' <=> Together
      /\ \A n : /\ GetCooprativeSettleBalances(n)' = GetCooprativeSettleBalances(n)
                /\ Requests(n)' = Requests(n) /\ Answers(n)' = Answers(n)
  BY DEF Dead, Total, Together, GetCooprativeSettleBalances, Requests, Answers, Messages
<1>2. DepositsCounted'
  BY DEF AgreementInv, DepositsCounted, DepositEvents
<1>3. Proposed' /\ Agreed' /\ PaidAsAgreed'
  BY <1>1 DEF AgreementInv, Proposed, Agreed, PaidAsAgreed
<1> QED BY <1>2, <1>3 DEF AgreementInv

\* A transfer of a node that is not settling, at this node or at its partner.
LEMMA TransferAgreed ==
  ASSUME AgreementInv, ClosingInv', NEW n \in Node, settleTransaction[n] = "nil",
         \A k \in Node : /\ ourState'[k].contractBalance = ourState[k].contractBalance
                         /\ partnerState'[k].contractBalance = partnerState[k].contractBalance
                         /\ Requests(k)' = Requests(k) /\ Answers(k)' = Answers(k),
         \A k \in Node : k # n => ourState'[k] = ourState[k] /\ partnerState'[k] = partnerState[k],
         UNCHANGED <<takenBack, contract, events, settleTransaction, exists>>
  PROVE  AgreementInv'
<1>1. DepositsCounted'
  BY DEF AgreementInv, DepositsCounted, DepositEvents
<1>2. \A k \in Node : settleTransaction[k] # "nil" => CountsOn(k)
  BY DEF CountsOn, GetCooprativeSettleBalances
<1>3. /\ Together' => Together
      /\ Total' = Total /\ Total \in Nat /\ Total <= Total'
  BY NodeFacts, DepositFacts DEF Together, Total, AgreementInv, ClosingInv, ContractType
<1>4. Sides' /\ ContractType'
  BY DEF ClosingInv
<1>5. Proposed' /\ Agreed'
  BY <1>1, <1>2, <1>3, <1>4, StaysAgreed
<1>6. PaidAsAgreed' /\ GoneOnceSeen'
  BY StaysPaid, StaysGone DEF AgreementInv
<1> QED BY <1>1, <1>5, <1>6 DEF AgreementInv

\* handleSendDirectTransfer.
LEMMA SendAgreed ==
  ASSUME AgreementInv, ClosingInv', NEW n \in Node, NEW amount \in Amounts,
         handleSendDirectTransfer(n, amount)
  PROVE  AgreementInv'
<1> DEFINE bp == createSendDirectTransfer(ourState[n], amount)
           m == [type |-> "DirectTransfer", balanceProof |-> bp]
<1>1. /\ UNCHANGED <<partnerState, takenBack, contract, events, settleTransaction, exists>>
      /\ ourState' = [ourState EXCEPT ![n] = WithTransfer(ourState[n], bp)]
      /\ sent' = [sent EXCEPT ![n] = Append(@, m)] /\ IsOpen(n)
      /\ amount <= GetDistributable(ourState[n], partnerState[n])
  BY DEF handleSendDirectTransfer, Send, chainVars, historyVars
<1>2. settleTransaction[n] = "nil"
  BY <1>1, StatusFacts DEF IsOpen, AgreementInv, ClosingInv
<1>3. m \in Message /\ m.type = "DirectTransfer"
  <2>1. Side(ourState[n], n) /\ Side(partnerState[n], Partner(n))
    BY DEF AgreementInv, ClosingInv, Sides
  <2>2. bp \in BalanceProof
    BY <1>1, <2>1, IssueDirect
  <2> QED BY <2>2 DEF Message
<1>4. \A k \in Node : Requests(k)' = Requests(k) /\ Answers(k)' = Answers(k)
  <2>1. sent \in [Node -> Seq(Message)]
    BY DEF AgreementInv, ClosingInv, Said
  <2> HIDE DEF m
  <2>2. /\ Messages(n)' = Messages(n) \cup {m}
        /\ \A k \in Node : k # n => Messages(k)' = Messages(k)
    BY <1>1, <1>3, <2>1, SaysMore
  <2> QED BY <1>3, <2>2 DEF Requests, Answers
<1>5. \A k \in Node : /\ ourState'[k].contractBalance = ourState[k].contractBalance
                      /\ k # n => ourState'[k] = ourState[k]
  <2>1. ourState \in [Node -> EndStates]
    BY DEF AgreementInv, ClosingInv, Sides
  <2>2. WithTransfer(ourState[n], bp).contractBalance = ourState[n].contractBalance
    BY <2>1, DepositKept DEF SameDeposit
  <2> QED BY <1>1, <2>1, <2>2
<1> QED BY <1>1, <1>2, <1>4, <1>5, TransferAgreed

\* A request, or an answer with the balances of a request.
LEMMA BeginsAgreed ==
  ASSUME AgreementInv, ClosingInv', NEW n \in Node, NEW m, Begins(n, m),
         m.balances = GetCooprativeSettleBalances(n),
         \/ m.type = "CooperativeSettleRequest"
         \/ /\ m.type = "CooperativeSettle"
            /\ \E r \in Requests(Partner(n)) : r.balances = m.balances
  PROVE  AgreementInv'
<1> DEFINE p == Partner(n)
<1>1. /\ UNCHANGED <<ourState, partnerState, exists, takenBack, contract, events>>
      /\ settleTransaction' = [settleTransaction EXCEPT ![n] = "running"]
      /\ sent' = [sent EXCEPT ![n] = Append(@, m)] /\ m \in Message /\ IsOpen(n)
  BY DEF Begins, chainVars, historyVars
<1>2. p \in Node /\ p # n /\ Partner(p) = n /\ \A k \in Node : k = n \/ k = p
  BY NodeFacts
<1>3. settleTransaction[n] = "nil"
  BY <1>1, StatusFacts DEF IsOpen, AgreementInv, ClosingInv
<1>4. ~Answered(n) /\ p \notin takenBack
  BY <1>2, <1>3 DEF AgreementInv, ClosingInv, Agreement
<1>5. /\ Messages(n)' = Messages(n) \cup {m}
      /\ \A k \in Node : k # n => Messages(k)' = Messages(k)
  BY <1>1, SaysMore DEF AgreementInv, ClosingInv, Said
<1>6. /\ \A b : Dead(b)' <=> Dead(b)
      /\ Together' <=> Together
      /\ \A k : GetCooprativeSettleBalances(k)' = GetCooprativeSettleBalances(k)
  BY <1>1 DEF Dead, Total, Together, GetCooprativeSettleBalances
<1>7. DepositsCounted'
  BY <1>1 DEF AgreementInv, DepositsCounted, DepositEvents
<1>8. Proposed'
  <2> SUFFICES ASSUME Together', NEW k \in Node, k \notin takenBack', NEW r \in Requests(k)'
               PROVE  Dead(r.balances)' \/ r.balances = GetCooprativeSettleBalances(k)'
    BY DEF Proposed
  <2>1. r \in Requests(k) \/ (k = n /\ r = m)
    BY <1>5 DEF Requests
  <2>2. r \in Requests(k) => Dead(r.balances) \/ r.balances = GetCooprativeSettleBalances(k)
    BY <1>1, <1>6 DEF AgreementInv, Proposed
  <2> QED BY <1>6, <2>1, <2>2
<1>9. Agreed'
  <2> SUFFICES ASSUME Together', NEW k \in Node, NEW r \in Answers(k)'
               PROVE  \/ Dead(r.balances)'
                      \/ /\ Partner(k) \notin takenBack'
                         /\ \A j \in Node : r.balances = GetCooprativeSettleBalances(j)'
    BY DEF Agreed
  <2>1. CASE r \in Answers(k)
    <3>1. \/ Dead(r.balances)
          \/ /\ Partner(k) \notin takenBack
             /\ \A j \in Node : r.balances = GetCooprativeSettleBalances(j)
      BY <1>6, <2>1 DEF AgreementInv, Agreed
    <3> QED BY <1>1, <1>6, <3>1
  <2>2. CASE r \notin Answers(k)
    <3>1. k = n /\ r = m /\ m.type = "CooperativeSettle"
      BY <1>5, <2>2 DEF Answers
    <3>2. PICK q \in Requests(p) : q.balances = m.balances
      BY <3>1
    <3>3. Dead(m.balances) \/ m.balances = GetCooprativeSettleBalances(p)
      BY <1>2, <1>4, <1>6, <3>2 DEF AgreementInv, Proposed
    <3>4. Dead(m.balances) \/ \A j \in Node : m.balances = GetCooprativeSettleBalances(j)
      BY <1>2, <3>3
    <3> QED BY <1>1, <1>4, <1>6, <3>1, <3>4
  <2> QED BY <2>1, <2>2
<1>10. PaidAsAgreed'
  <2>1. \A k \in Node : Answers(k) \subseteq Answers(k)'
    BY <1>5 DEF Answers
  <2> QED BY <1>1, <2>1, StaysPaid DEF AgreementInv
<1>11. GoneOnceSeen'
  <2>1. \A k \in Node : settleTransaction'[k] = "success" => settleTransaction[k] = "success"
    BY <1>1 DEF AgreementInv, ClosingInv, Statuses
  <2> QED BY <1>1, <2>1, StaysGone DEF AgreementInv
<1> QED BY <1>7, <1>8, <1>9, <1>10, <1>11 DEF AgreementInv

\* ChannelCooperativeSettle.
LEMMA RequestAgreed ==
  ASSUME AgreementInv, ClosingInv', NEW n \in Node, ChannelCooperativeSettle(n)
  PROVE  AgreementInv'
<1> DEFINE m == [type |-> "CooperativeSettleRequest",
                 balances |-> GetCooprativeSettleBalances(n)]
<1>1. m \in Message
  BY SettleBalancesType DEF Message, AgreementInv, ClosingInv
<1>2. Begins(n, m)
  BY <1>1 DEF ChannelCooperativeSettle, handleSendCooperativeSettleRequest, Begins, Send,
              chainVars, syncVars, historyVars
<1> QED BY <1>2, BeginsAgreed

\* An answer that does not suit is about balances that can not be settled.
LEMMA TakenBackDead ==
  ASSUME AgreementInv, Together, NEW n \in Node, NEW m \in Answers(Partner(n)), exists[n],
         ~isValidCooperativeSettle(n, m.balances)
  PROVE  Dead(m.balances)
<1> DEFINE p == Partner(n)
<1> SUFFICES ASSUME ~Dead(m.balances) PROVE FALSE
  OBVIOUS
<1>1. p \in Node /\ Partner(p) = n
  BY NodeFacts
<1>2. n \notin takenBack /\ m.balances = GetCooprativeSettleBalances(n)
  BY <1>1 DEF AgreementInv, Agreed
<1>3. ClosingInv /\ Answered(p)
  BY DEF AgreementInv, Answered, Answers
<1>4. settleTransaction[n] # "nil"
  BY <1>1, <1>2, <1>3, PartiesSettle
<1>5. settleTransaction[n] # "running"
  BY <1>2, <1>3, StatusFacts DEF isValidCooperativeSettle, ClosingInv
<1>6. settleTransaction[n] = "success"
  BY <1>3, <1>4, <1>5 DEF ClosingInv, Statuses
<1>7. contract.state = "cooperativeSettled"
  BY <1>3, <1>6 DEF ClosingInv, Known, Together
<1> QED BY <1>6, <1>7 DEF AgreementInv, GoneOnceSeen

\* stateTransitionForNetwork.
LEMMA MessageAgreed ==
  ASSUME AgreementInv, ClosingInv', NEW n \in Node, NEW m \in Messages(Partner(n)),
         HandleMessage(n, m)
  PROVE  AgreementInv'
<1> DEFINE p == Partner(n)
<1>1. UNCHANGED <<ourState, exists, contract, events>>
  BY DEF HandleMessage, chainVars
<1>2. p \in Node /\ Partner(p) = n /\ m \in Message
  BY NodeFacts, MessageTypes DEF AgreementInv, ClosingInv
<1>3. CASE handleReceiveDirectTransfer(n, m)
  <2>1. UNCHANGED <<settleTransaction, sent, takenBack>>
    BY <1>3 DEF handleReceiveDirectTransfer
  <2>2. CASE partnerState' = partnerState
    <3>1. GoneOnceSeen'
      BY <1>1, <2>1, StaysGone DEF AgreementInv
    <3> QED BY <1>1, <2>1, <2>2, <3>1, NotAgreeing
  <2>3. CASE partnerState' # partnerState
    <3>1. /\ IsOpen(n)
          /\ partnerState' = [partnerState EXCEPT ![n] = WithTransfer(@, m.balanceProof)]
      BY <1>3, <2>3 DEF handleReceiveDirectTransfer, IsValidDirectTransfer,
                        IsBalanceProofUsableOnChain
    <3>2. settleTransaction[n] = "nil"
      BY <3>1, StatusFacts DEF IsOpen, AgreementInv, ClosingInv
    <3>3. \A k \in Node : Requests(k)' = Requests(k) /\ Answers(k)' = Answers(k)
      BY <2>1 DEF Requests, Answers, Messages
    <3>4. partnerState \in [Node -> EndStates]
      BY DEF AgreementInv, ClosingInv, Sides
    <3>5. WithTransfer(partnerState[n], m.balanceProof).contractBalance
            = partnerState[n].contractBalance
      BY <3>4, DepositKept DEF SameDeposit
    <3>6. \A k \in Node : /\ partnerState'[k].contractBalance = partnerState[k].contractBalance
                          /\ k # n => partnerState'[k] = partnerState[k]
      BY <3>1, <3>4, <3>5
    <3> QED BY <1>1, <2>1, <3>2, <3>3, <3>6, TransferAgreed
  <2> QED BY <2>2, <2>3
<1>4. CASE handleCooperativeSettleRequestReceived(n, m)
  <2>1. m.type = "CooperativeSettleRequest" /\ UNCHANGED <<partnerState, takenBack>>
    BY <1>4 DEF handleCooperativeSettleRequestReceived
  <2>2. CASE isValidCooperativeSettleRequest(n, m.balances)
    <3> DEFINE answer == [m EXCEPT !.type = "CooperativeSettle"]
    <3>1. /\ answer \in Message /\ answer.type = "CooperativeSettle"
          /\ answer.balances = m.balances
      BY <1>2, <2>1 DEF Message
    <3>2. Begins(n, answer)
      BY <1>4, <2>2, <3>1 DEF HandleMessage, handleCooperativeSettleRequestReceived,
         isValidCooperativeSettleRequest, Begins, Send, chainVars, syncVars, historyVars
    <3>3. answer.balances = GetCooprativeSettleBalances(n) /\ m \in Requests(p)
      BY <2>1, <2>2, <3>1 DEF isValidCooperativeSettleRequest, Requests
    <3> QED BY <3>1, <3>2, <3>3, BeginsAgreed
  <2>3. CASE ~isValidCooperativeSettleRequest(n, m.balances)
    <3>1. UNCHANGED <<settleTransaction, sent>>
      BY <1>4, <2>3 DEF handleCooperativeSettleRequestReceived
    <3>2. GoneOnceSeen'
      BY <1>1, <3>1, StaysGone DEF AgreementInv
    <3> QED BY <1>1, <2>1, <3>1, <3>2, NotAgreeing
  <2> QED BY <2>2, <2>3
<1>5. CASE handleCooperativeSettleReceived(n, m)
  <2>1. /\ UNCHANGED <<partnerState, sent>> /\ m \in Answers(p)
        /\ \/ UNCHANGED <<settleTransaction, takenBack>>
           \/ /\ exists[n] /\ ~isValidCooperativeSettle(n, m.balances)
              /\ settleTransaction' = [settleTransaction EXCEPT ![n] = "nil"]
              /\ takenBack' = takenBack \cup {n}
    BY <1>5 DEF handleCooperativeSettleReceived, Answers
  <2>2. CASE UNCHANGED <<settleTransaction, takenBack>>
    <3>1. GoneOnceSeen'
      BY <1>1, <2>2, StaysGone DEF AgreementInv
    <3> QED BY <1>1, <2>1, <2>2, <3>1, NotAgreeing
  <2>3. CASE /\ exists[n] /\ ~isValidCooperativeSettle(n, m.balances)
             /\ settleTransaction' = [settleTransaction EXCEPT ![n] = "nil"]
             /\ takenBack' = takenBack \cup {n}
    <3>1. \A k \in Node : Requests(k)' = Requests(k) /\ Answers(k)' = Answers(k)
      BY <2>1 DEF Requests, Answers, Messages
    <3>2. /\ Together' <=> Together
          /\ Sides' /\ ContractType'
          /\ Total' = Total /\ Total \in Nat /\ Total <= Total'
      BY <1>1, NodeFacts, DepositFacts
         DEF Together, Total, AgreementInv, ClosingInv, ContractType
    <3>3. \A k \in Node : CountsOn(k)
      BY <1>1, <2>1 DEF CountsOn, GetCooprativeSettleBalances
    <3>4. Together => \A r \in Answers(p) : Dead(r.balances)
      <4>1. Together => Dead(m.balances)
        BY <2>1, <2>3, TakenBackDead
      <4>2. \A r \in Answers(p) : r = m
        BY <1>2, <2>1 DEF AgreementInv, ClosingInv, Agreement
      <4> QED BY <4>1, <4>2
    <3>5. DepositsCounted'
      BY <1>1, <2>1 DEF AgreementInv, DepositsCounted, DepositEvents
    <3>6. Proposed' /\ Agreed'
      <4>1. \A k \in Node : k \in takenBack' /\ Together' =>
              k \in takenBack \/ \A r \in Answers(Partner(k)) : Dead(r.balances)
        BY <2>3, <3>2, <3>4
      <4>2. takenBack \subseteq takenBack' /\ (Together' => Together)
        BY <2>3, <3>2
      <4>3. Sides' /\ ContractType' /\ Total <= Total'
        BY <3>2
      <4>4. \A k \in Node : settleTransaction[k] # "nil" => CountsOn(k)
        BY <3>3
      <4> HIDE DEF p
      <4> QED BY <3>1, <3>5, <4>1, <4>2, <4>3, <4>4, StaysAgreed
    <3>7. PaidAsAgreed'
      BY <1>1, <3>1, StaysPaid DEF AgreementInv
    <3>8. GoneOnceSeen'
      <4>1. \A k \in Node : settleTransaction'[k] = "success" => settleTransaction[k] = "success"
        BY <2>3 DEF AgreementInv, ClosingInv, Statuses
      <4> QED BY <1>1, <4>1, StaysGone DEF AgreementInv
    <3> QED BY <3>5, <3>6, <3>7, <3>8 DEF AgreementInv
  <2> QED BY <2>1, <2>2, <2>3
<1> QED BY <1>3, <1>4, <1>5 DEF HandleMessage, stateTransitionForNetwork

\* Nobody counts more after a block, and who counts a deposit counts on.
LEMMA BlockAgreed ==
  ASSUME AgreementInv, ClosingInv', NEW n \in Node, handleBlock(n)
  PROVE  AgreementInv'
<1> DEFINE p == Partner(n)
<1>1. PICK confirmed : confirmed =
        {e \in depositQueue[n] : block[n] + 1 > e.block + ConfirmBlockCount}
  OBVIOUS
<1>2. PICK our : our = updateContractBalance(ourState[n], n, confirmed)
  OBVIOUS
<1>3. PICK partner : partner = updateContractBalance(partnerState[n], p, confirmed)
  OBVIOUS
<1>4. /\ ourState' = [ourState EXCEPT ![n] = our]
      /\ partnerState' = [partnerState EXCEPT ![n] = partner]
      /\ UNCHANGED <<exists, sent, contract, events, takenBack>>
      /\ \A k \in Node : settleTransaction'[k] = "success" => settleTransaction[k] = "success"
  <2>1. /\ ourState' = [ourState EXCEPT ![n] = our]
        /\ partnerState' = [partnerState EXCEPT ![n] = partner]
        /\ UNCHANGED <<exists, sent, contract, events, takenBack>>
    BY <1>1, <1>2, <1>3 DEF handleBlock, messageVars, chainVars, historyVars
  <2>2. PICK b \in BOOLEAN :
          settleTransaction' = [settleTransaction EXCEPT ![n] = IF b THEN "running" ELSE @]
    BY DEF handleBlock
  <2>3. settleTransaction \in [Node -> {"nil", "running", "success"}]
    BY DEF AgreementInv, ClosingInv, Statuses
  <2> QED BY <2>1, <2>2, <2>3
<1>5. /\ p \in Node /\ p # n /\ confirmed \in SUBSET DepositEvents
      /\ \A k \in Node : k = n \/ k = p
  BY <1>1, NodeFacts DEF AgreementInv, ClosingInv, Deposited
<1>6. /\ EventsType /\ Side(ourState[n], n) /\ Side(partnerState[n], p)
      /\ ourState \in [Node -> EndStates] /\ partnerState \in [Node -> EndStates]
  BY DEF AgreementInv, ClosingInv, Sides
<1>7. /\ Side(our, n) /\ ourState[n].contractBalance <= our.contractBalance
      /\ our = ourState[n] \/ \E d \in confirmed : /\ d.participant = n
                                                   /\ d.value = our.contractBalance
                                                   /\ ourState[n].contractBalance < d.value
  BY <1>2, <1>5, <1>6, DepositsApplied
<1>8. /\ Side(partner, p) /\ partnerState[n].contractBalance <= partner.contractBalance
      /\ partner = partnerState[n] \/ \E d \in confirmed :
                                        /\ d.participant = p
                                        /\ d.value = partner.contractBalance
                                        /\ partnerState[n].contractBalance < d.value
  BY <1>3, <1>5, <1>6, DepositsApplied
<1>9. /\ our.contractBalance \in Nat /\ partner.contractBalance \in Nat
      /\ ourState[n].contractBalance \in Nat /\ partnerState[n].contractBalance \in Nat
  BY <1>5, <1>6, <1>7, <1>8, DepositFacts DEF Side
<1>10. DepositsCounted'
  <2>1. \A d \in confirmed : d.value <= contract.deposit[d.participant]
    BY <1>5 DEF AgreementInv, DepositsCounted
  <2>2. our.contractBalance <= contract.deposit[n]
    BY <1>7, <2>1 DEF AgreementInv, DepositsCounted
  <2>3. partner.contractBalance <= contract.deposit[p]
    BY <1>8, <2>1 DEF AgreementInv, DepositsCounted
  <2>4. \A k \in Node : /\ ourState'[k].contractBalance <= contract.deposit[k]
                        /\ partnerState'[k].contractBalance <= contract.deposit[Partner(k)]
    BY <1>4, <1>6, <2>2, <2>3 DEF AgreementInv, DepositsCounted
  <2> QED BY <1>4, <2>4 DEF AgreementInv, DepositsCounted, DepositEvents
<1>11. \A k \in Node : CountsOn(k)
  <2>1. CountsOn(n)
    <3>1. CASE our = ourState[n] /\ partner = partnerState[n]
      BY <1>4, <3>1 DEF CountsOn, GetCooprativeSettleBalances
    <3>2. CASE our # ourState[n] \/ partner # partnerState[n]
      <4>1. ourState[n].contractBalance + partnerState[n].contractBalance
              < our.contractBalance + partner.contractBalance
        BY <1>7, <1>8, <1>9, <3>2
      <4>2. ourState'[n] = our /\ partnerState'[n] = partner
        BY <1>4, <1>6
      <4> QED BY <4>1, <4>2 DEF CountsOn, Counted
    <3> QED BY <3>1, <3>2
  <2>2. CountsOn(p)
    <3>1. ourState'[p] = ourState[p] /\ partnerState'[p] = partnerState[p]
      BY <1>4, <1>5
    <3> QED BY <3>1 DEF CountsOn, GetCooprativeSettleBalances
  <2> QED BY <1>5, <2>1, <2>2
<1>12. /\ \A k \in Node : Requests(k)' = Requests(k) /\ Answers(k)' = Answers(k)
       /\ Together' => Together
       /\ Sides' /\ ContractType'
       /\ Total' = Total /\ Total \in Nat /\ Total <= Total'
  BY <1>4, NodeFacts, DepositFacts
     DEF Requests, Answers, Messages, Together, Total, AgreementInv, ClosingInv, ContractType
<1>13. Proposed' /\ Agreed'
  BY <1>4, <1>10, <1>11, <1>12, StaysAgreed
<1>14. PaidAsAgreed' /\ GoneOnceSeen'
  BY <1>4, <1>12, StaysPaid, StaysGone DEF AgreementInv
<1> QED BY <1>10, <1>13, <1>14 DEF AgreementInv

\* OnBlockchainEvent.
LEMMA EventAgreed ==
  ASSUME AgreementInv, ClosingInv', NEW n \in Node, OnBlockchainEvent(n)
  PROVE  AgreementInv'
<1> DEFINE e == NextEvent(n)
<1>1. ClosingInv
  BY DEF AgreementInv
<1>2. /\ UNCHANGED <<ourState, partnerState, sent, contract, events, takenBack>>
      /\ subDispatchToChannelById(n, e) /\ pos[n] + 1 \in 1 .. Len(events)
      /\ e = events[pos[n] + 1]
  BY <1>1, EventFrame DEF OnBlockchainEvent
<1>3. GoneOnceSeen'
  <2> SUFFICES ASSUME contract.state = "cooperativeSettled", NEW k \in Node,
                      settleTransaction'[k] = "success"
               PROVE  ~exists'[k]
    BY <1>2 DEF GoneOnceSeen
  <2>1. e.name \notin {"Settled", "Unlocked"}
    BY <1>1, <1>2 DEF ClosingInv, EventsTell
  <2>2. CASE UNCHANGED <<exists, settleTransaction>>
    BY <2>2 DEF AgreementInv, GoneOnceSeen
  <2>3. CASE handleChannelCooperativeSettled(n, e)
    <3>1. /\ exists' = [exists EXCEPT ![n] = FALSE]
          /\ settleTransaction' = [settleTransaction EXCEPT ![n] = "success"]
      BY <2>3 DEF handleChannelCooperativeSettled, setSettled
    <3>2. exists \in [Node -> BOOLEAN]
      BY <1>1 DEF ClosingInv, Statuses
    <3>3. k # n => settleTransaction[k] = "success" /\ exists'[k] = exists[k]
      BY <3>1, <3>2
    <3> QED BY <3>1, <3>2, <3>3 DEF AgreementInv, GoneOnceSeen
  <2>4. \/ UNCHANGED <<exists, settleTransaction>>
        \/ handleChannelCooperativeSettled(n, e)
    BY <1>2, <2>1 DEF subDispatchToChannelById, StateTransitionForChannel, handleChannelClosed,
       handleChannelUpdatedTransfer, handleChannelSettled, handleChannelBatchUnlock,
       handleChannelNewBalance
  <2> QED BY <2>2, <2>3, <2>4
<1> QED BY <1>2, <1>3, NotAgreeing

\* Deposits among the events after one more.
LEMMA MoreDeposits ==
  ASSUME EventsType, height \in Nat, NEW name, NEW participant, NEW value,
         Emit(name, participant, value),
         [name |-> name, participant |-> participant, value |-> value,
          block |-> height + 1] \in Event
  PROVE  \A e \in DepositEvents' :
           \/ e \in DepositEvents
           \/ name = "SetTotalDeposit" /\ e.participant = participant /\ e.value = value
<1> DEFINE new == [name |-> name, participant |-> participant, value |-> value,
                   block |-> height + 1]
<1>1. /\ Len(events) \in Nat /\ Len(events') = Len(events) + 1
      /\ \A i \in 1 .. Len(events) : events'[i] = events[i]
      /\ events'[Len(events) + 1] = new
  BY EmitFacts
<1>2. \A i \in 1 .. Len(events') : i \in 1 .. Len(events) \/ i = Len(events) + 1
  BY <1>1
<1>3. new.name = name /\ new.participant = participant /\ new.value = value
  OBVIOUS
<1> HIDE DEF new
<1> QED BY <1>1, <1>2, <1>3 DEF DepositEvents

\* SetTotalDeposit.
LEMMA DepositAgreed ==
  ASSUME AgreementInv, ClosingInv', NEW n \in Node, NEW total \in Totals, SetTotalDeposit(n, total)
  PROVE  AgreementInv'
<1>1. /\ contract.state = "opened" /\ total > contract.deposit[n]
      /\ contract' = [contract EXCEPT !.deposit[n] = total]
      /\ Emit("SetTotalDeposit", n, total)
      /\ UNCHANGED <<ourState, partnerState, sent, takenBack>>
  BY DEF SetTotalDeposit, channelVars, messageVars, historyVars
<1>2. ClosingInv /\ EventsType /\ height \in Nat /\ contract \in Contract
  BY ClosingAssumption DEF AgreementInv, ClosingInv, Clock, ContractType
<1>3. /\ total \in Nat /\ contract.deposit \in [Node -> Amount]
      /\ \A k \in Node : contract.deposit[k] \in Nat
  BY <1>2, ClosingAssumption, AmountFacts DEF Contract
<1>4. /\ contract'.state = "opened" /\ contract'.deposit[n] = total
      /\ \A k \in Node : k # n => contract'.deposit[k] = contract.deposit[k]
  BY <1>1, <1>2, <1>3 DEF Contract
<1>5. \A k \in Node : contract'.deposit[k] \in Nat /\ contract.deposit[k] <= contract'.deposit[k]
  BY <1>1, <1>3, <1>4
<1>6. DepositsCounted'
  <2>1. [name |-> "SetTotalDeposit", participant |-> n, value |-> total, block |-> height + 1]
          \in Event
    BY <1>2, <1>3 DEF Event
  <2>2. \A e \in DepositEvents' : e \in DepositEvents \/ (e.participant = n /\ e.value = total)
    BY <1>1, <1>2, <2>1, MoreDeposits
  <2>3. \A e \in DepositEvents : /\ e.participant \in Node /\ e.value \in Nat
                                 /\ e.value <= contract.deposit[e.participant]
    <3>1. \A e \in DepositEvents : e \in Event
      BY <1>2, EventTypes DEF DepositEvents
    <3> QED BY <3>1 DEF Event, AgreementInv, DepositsCounted
  <2>4. \A e \in DepositEvents' : e.value <= contract'.deposit[e.participant]
    <3>1. \A e \in DepositEvents : e.value <= contract'.deposit[e.participant]
      BY <1>3, <1>5, <2>3
    <3> QED BY <1>3, <1>4, <2>2, <3>1
  <2>5. \A k \in Node :
          /\ ourState[k].contractBalance \in Nat /\ partnerState[k].contractBalance \in Nat
          /\ ourState[k].contractBalance <= contract.deposit[k]
          /\ partnerState[k].contractBalance <= contract.deposit[Partner(k)]
    BY NodeFacts, DepositFacts DEF AgreementInv, DepositsCounted, ClosingInv, Sides, Side
  <2>6. \A k \in Node : /\ ourState[k].contractBalance <= contract'.deposit[k]
                        /\ partnerState[k].contractBalance <= contract'.deposit[Partner(k)]
    BY <1>3, <1>5, <2>5, NodeFacts
  <2> QED BY <1>1, <2>4, <2>6 DEF DepositsCounted
<1>7. /\ \A k \in Node : Requests(k)' = Requests(k) /\ Answers(k)' = Answers(k)
      /\ \A k \in Node : CountsOn(k)
      /\ Together' => Together
      /\ Sides' /\ ContractType'
  BY <1>1 DEF Requests, Answers, Messages, Together, CountsOn, GetCooprativeSettleBalances,
              ClosingInv
<1>8. Total <= Total'
  <2>1. Total' = contract'.deposit[A] + contract'.deposit[B]
    BY DEF Total
  <2> QED BY <1>3, <1>5, <2>1, NodeFacts DEF Total
<1>9. Proposed' /\ Agreed'
  BY <1>1, <1>6, <1>7, <1>8, StaysAgreed
<1>10. PaidAsAgreed' /\ GoneOnceSeen'
  BY <1>4 DEF PaidAsAgreed, GoneOnceSeen
<1> QED BY <1>6, <1>9, <1>10 DEF AgreementInv

\* Nobody counts more after an event that is not a deposit.
LEMMA DepositsStay ==
  ASSUME AgreementInv, NEW name, NEW participant, NEW value,
         Emit(name, participant, value), name # "SetTotalDeposit",
         [name |-> name, participant |-> participant, value |-> value,
          block |-> height + 1] \in Event,
         contract'.deposit = contract.deposit, UNCHANGED <<ourState, partnerState>>
  PROVE  DepositsCounted'
<1>1. EventsType /\ height \in Nat
  BY ClosingAssumption DEF AgreementInv, ClosingInv, Clock
<1>2. \A e \in DepositEvents' : e \in DepositEvents
  BY <1>1, MoreDeposits
<1> QED BY <1>2 DEF AgreementInv, DepositsCounted

\* A channel that one participant closed is not settled as agreed.
LEMMA ClosedAgreed ==
  ASSUME DepositsCounted', contract'.state \notin {"opened", "cooperativeSettled"},
         AgreementInv, ClosingInv'
  PROVE  AgreementInv'
BY DEF AgreementInv, Proposed, Agreed, PaidAsAgreed, GoneOnceSeen, Together

\* Mine of a transaction of a closing.
LEMMA ClosingMined ==
  ASSUME AgreementInv, ClosingInv', NEW s \in submitted, Mine(s),
         s.tx.type # "CooperativeSettle"
  PROVE  AgreementInv'
<1> DEFINE t == s.tx
           n == t.from
<1>1. /\ Accepts(t) /\ Execute(t) /\ UNCHANGED <<ourState, partnerState>>
      /\ contract \in Contract
  BY DEF Mine, channelVars, AgreementInv, ClosingInv, ContractType
<1>2. Backed(t) /\ n \in Node /\ height \in Nat
  BY ClosingAssumption DEF AgreementInv, ClosingInv, Transactions, Backed, Clock
<1>3. CASE t.type = "Close"
  <2>1. contract'.state = "closed" /\ contract'.deposit = contract.deposit
    BY <1>1, <1>3 DEF Execute, Contract
  <2>2. /\ Emit("Closed", n, 0)
        /\ [name |-> "Closed", participant |-> n, value |-> 0, block |-> height + 1] \in Event
    BY <1>1, <1>2, <1>3 DEF Execute, Event
  <2> QED BY <1>1, <2>1, <2>2, DepositsStay, ClosedAgreed
<1>4. CASE t.type = "UpdateTransfer"
  <2>1. contract'.state = "closed" /\ contract'.deposit = contract.deposit
    BY <1>1, <1>4 DEF Accepts, Execute, Contract
  <2>2. t.balanceProof.nonce \in Nat
    BY <1>2, <1>4, EndStateTypes DEF Backed, AgreementInv, ClosingInv, Sides
  <2>3. /\ Emit("UpdateTransfer", n, t.balanceProof.nonce)
        /\ [name |-> "UpdateTransfer", participant |-> n, value |-> t.balanceProof.nonce,
            block |-> height + 1] \in Event
    BY <1>1, <1>2, <1>4, <2>2 DEF Execute, Event
  <2> QED BY <1>1, <2>1, <2>3, DepositsStay, ClosedAgreed
<1>5. CASE t.type = "Settle"
  <2>1. contract'.state = "settled" /\ contract'.deposit = contract.deposit
    BY <1>1, <1>5 DEF Execute, Contract
  <2>2. /\ Emit("Settled", n, 0)
        /\ [name |-> "Settled", participant |-> n, value |-> 0, block |-> height + 1] \in Event
    BY <1>1, <1>2, <1>5 DEF Execute, Event
  <2> QED BY <1>1, <2>1, <2>2, DepositsStay, ClosedAgreed
<1>6. CASE t.type = "Unlock"
  <2>1. contract'.state = "settled" /\ contract'.deposit = contract.deposit
    BY <1>1, <1>6 DEF Accepts, Execute, Contract
  <2>2. /\ Emit("Unlocked", n, 0)
        /\ [name |-> "Unlocked", participant |-> n, value |-> 0, block |-> height + 1] \in Event
    BY <1>1, <1>2, <1>6 DEF Execute, Event
  <2> QED BY <1>1, <2>1, <2>2, DepositsStay, ClosedAgreed
<1>7. t.type # "Withdraw"
  BY DEF AgreementInv, ClosingInv, Transactions
<1> QED BY <1>2, <1>3, <1>4, <1>5, <1>6, <1>7 DEF Backed, TransactionType

\* Mine of what both agreed to: it adds up to what is deposited.
LEMMA CooperativeSettleMined ==
  ASSUME AgreementInv, ClosingInv', NEW s \in submitted, Mine(s),
         s.tx.type = "CooperativeSettle"
  PROVE  AgreementInv'
<1> DEFINE t == s.tx
           n == t.from
           b == t.balances
<1>1. /\ contract.state = "opened" /\ b[A] + b[B] = Total
      /\ contract' = [contract EXCEPT !.state = "cooperativeSettled", !.payout = b]
      /\ Emit("CooperativeSettled", n, 0)
      /\ contract \in Contract
      /\ UNCHANGED <<ourState, partnerState, exists, settleTransaction, sent, takenBack>>
  BY DEF Mine, Accepts, Execute, channelVars, messageVars, historyVars,
         AgreementInv, ClosingInv, ContractType
<1>2. Backed(t) /\ n \in Node /\ height \in Nat
  BY ClosingAssumption DEF AgreementInv, ClosingInv, Transactions, Backed, Clock
<1>3. PICK m \in Answers(Partner(n)) : b = m.balances
  BY <1>2 DEF Backed
<1> HIDE DEF t, n, b
<1>4. /\ contract'.state = "cooperativeSettled" /\ contract'.payout = b
      /\ contract'.deposit = contract.deposit
  BY <1>1 DEF Contract
<1>5. Total' = Total /\ Total \in Nat /\ Total < MaxUint64 /\ MaxUint64 \in Nat
  BY <1>4, NodeFacts, DepositFacts, EndStateAssumption
     DEF Total, AgreementInv, ClosingInv, ContractType
<1>6. DepositsCounted'
  <2>1. [name |-> "CooperativeSettled", participant |-> n, value |-> 0, block |-> height + 1]
          \in Event
    BY <1>2 DEF Event
  <2> QED BY <1>1, <1>4, <2>1, DepositsStay
<1>7. /\ \A k \in Node : Requests(k)' = Requests(k) /\ Answers(k)' = Answers(k)
      /\ \A k \in Node : CountsOn(k)
      /\ Together /\ Total <= Total' /\ Sides' /\ ContractType'
  BY <1>1, <1>5 DEF Requests, Answers, Messages, Together, CountsOn,
                    GetCooprativeSettleBalances, ClosingInv
<1>8. Proposed' /\ Agreed'
  BY <1>1, <1>6, <1>7, StaysAgreed
<1>9. PaidAsAgreed'
  <2>1. ~Dead(b)'
    BY <1>1, <1>5 DEF Dead
  <2> QED BY <1>2, <1>3, <1>4, <1>7, <2>1, NodeFacts DEF PaidAsAgreed
<1>10. GoneOnceSeen'
  <2>1. \A k \in Node : settleTransaction[k] # "success"
    BY <1>1 DEF AgreementInv, ClosingInv, Known
  <2> QED BY <1>1, <2>1 DEF GoneOnceSeen
<1> QED BY <1>6, <1>8, <1>9, <1>10 DEF AgreementInv

\* Nothing was agreed at the start.
LEMMA AgreementInit == Init => AgreementInv
<1> SUFFICES ASSUME Init PROVE AgreementInv
  OBVIOUS
<1>1. ClosingInv
  BY ClosingInit
<1>2. \A n \in Node : WithPending(Deposits[n], Pending[n]).contractBalance = Deposits[n]
  BY DEF WithPending, NewNettingChannelEndState
<1>3. DepositsCounted
  <2>1. contract.deposit = Deposits /\ DepositEvents = {}
    BY DEF Init, DepositEvents
  <2>2. \A n \in Node : /\ Deposits[n] \in Nat /\ Partner(n) \in Node
                        /\ ourState[n].contractBalance = Deposits[n]
                        /\ partnerState[n].contractBalance = Deposits[Partner(n)]
    BY <1>2, NodeFacts, DepositFacts DEF Init
  <2> QED BY <2>1, <2>2 DEF DepositsCounted
<1>4. \A n \in Node : Requests(n) = {} /\ Answers(n) = {}
  BY DEF Init, Requests, Answers, Messages
<1>5. Proposed /\ Agreed
  BY <1>4 DEF Proposed, Agreed
<1>6. PaidAsAgreed /\ GoneOnceSeen
  BY DEF Init, PaidAsAgreed, GoneOnceSeen
<1> QED BY <1>1, <1>3, <1>5, <1>6 DEF AgreementInv

\* Every action keeps what was agreed.
LEMMA AgreementNext == AgreementInv /\ [Next]_vars => AgreementInv'
<1> SUFFICES ASSUME AgreementInv, [Next]_vars PROVE AgreementInv'
  OBVIOUS
<1> USE DEF AgreementInv
<1>1. ClosingInv /\ ClosingInv' /\ GoneOnceSeen
  BY ClosingNext
<1> USE <1>1
<1>2. CASE \E n \in Node, amount \in Amounts : handleSendDirectTransfer(n, amount)
  BY <1>2, SendAgreed
<1>3. CASE \E n \in Node : ChannelCooperativeSettle(n)
  BY <1>3, RequestAgreed
<1>4. CASE \E n \in Node : ChannelClose(n)
  <2>1. UNCHANGED <<ourState, partnerState, exists, settleTransaction, sent, takenBack,
                    contract, events>>
    BY <1>4 DEF ChannelClose, messageVars, chainVars, historyVars
  <2> QED BY <2>1, NotAgreeing DEF GoneOnceSeen
<1>5. CASE \E n \in Node : Receive(n) \/ ReceiveAgain(n)
  <2> SUFFICES ASSUME NEW n \in Node, Receive(n) \/ ReceiveAgain(n) PROVE AgreementInv'
    BY <1>5
  <2> DEFINE p == Partner(n)
  <2>1. /\ p \in Node /\ received[p] \in Nat /\ Len(sent[p]) \in Nat
        /\ received[p] <= Len(sent[p])
    <3>1. p \in Node /\ sent[p] \in Seq(Message)
      BY NodeFacts DEF ClosingInv, Said
    <3> QED BY <3>1, LenProperties DEF ClosingInv, Said
  <2>2. PICK i \in 1 .. Len(sent[p]) : HandleMessage(n, sent[p][i])
    BY <2>1 DEF Receive, ReceiveAgain
  <2>3. sent[p][i] \in Messages(p)
    BY DEF Messages
  <2> QED BY <2>2, <2>3, MessageAgreed
<1>6. CASE \E s \in submitted : Mine(s) \/ Refuse(s) \/ Fail(s)
  <2> SUFFICES ASSUME NEW s \in submitted, Mine(s) \/ Refuse(s) \/ Fail(s) PROVE AgreementInv'
    BY <1>6
  <2>1. CASE Mine(s)
    BY <2>1, ClosingMined, CooperativeSettleMined
  <2>2. CASE Refuse(s) \/ Fail(s)
    <3>1. UNCHANGED <<ourState, partnerState, exists, settleTransaction, sent, takenBack,
                      contract, events>>
      BY <2>2 DEF Refuse, Fail, channelVars, messageVars, chainVars, historyVars
    <3> QED BY <3>1, NotAgreeing DEF GoneOnceSeen
  <2> QED BY <2>1, <2>2
<1>7. CASE \E n \in Node, total \in Totals : SetTotalDeposit(n, total)
  BY <1>7, DepositAgreed
<1>8. CASE MineBlock
  <2>1. UNCHANGED <<ourState, partnerState, exists, settleTransaction, sent, takenBack,
                    contract, events>>
    BY <1>8 DEF MineBlock, channelVars, messageVars, historyVars
  <2> QED BY <2>1, NotAgreeing DEF GoneOnceSeen
<1>9. CASE \E n \in Node : OnBlockchainEvent(n)
  BY <1>9, EventAgreed
<1>10. CASE \E n \in Node : handleBlock(n)
  BY <1>10, BlockAgreed
<1>11. CASE \E n \in Node : Restart(n)
  <2>1. UNCHANGED <<ourState, partnerState, exists, settleTransaction, sent, takenBack,
                    contract, events>>
    BY <1>11 DEF Restart, channelVars, messageVars, chainVars
  <2> QED BY <2>1, NotAgreeing DEF GoneOnceSeen
<1>12. CASE UNCHANGED vars
  <2>1. UNCHANGED <<ourState, partnerState, exists, settleTransaction, sent, takenBack,
                    contract, events>>
    BY <1>12 DEF vars, channelVars, messageVars, chainVars, historyVars
  <2> QED BY <2>1, NotAgreeing DEF GoneOnceSeen
<1>13. CASE \E n \in Withdrawing : handleWithdrawReceived(n)
  <2>1. UNCHANGED <<ourState, partnerState, exists, settleTransaction, sent, takenBack,
                    contract, events>>
    BY <1>13 DEF handleWithdrawReceived, channelVars, messageVars, chainVars, historyVars
  <2> QED BY <2>1, NotAgreeing DEF GoneOnceSeen
<1> QED BY <1>2, <1>3, <1>4, <1>5, <1>6, <1>7, <1>8, <1>9, <1>10, <1>11, <1>12, <1>13 DEF Next

\* The contract pays a cooperative settlement as it is on the books of both,
\* however late, repeated or taken back request and answer were
\* (handleCooperativeSettleReceived), and whenever deposits were counted.
THEOREM SettledAsAgreed == Spec => []CooperativeAgreed
<1>1. AgreementInv => CooperativeAgreed
  <2> SUFFICES ASSUME AgreementInv, contract.state = "cooperativeSettled", NEW n \in Node
               PROVE  contract.payout = GetCooprativeSettleBalances(n)
    BY DEF CooperativeAgreed
  <2>1. PICK p \in Node : \E m \in Answers(p) :
                             contract.payout = m.balances /\ ~Dead(m.balances)
    BY DEF AgreementInv, PaidAsAgreed
  <2> QED BY <2>1 DEF AgreementInv, Agreed, Together
<1>2. Spec => []AgreementInv
  BY AgreementInit, AgreementNext, PTL DEF Spec
<1> QED BY <1>1, <1>2, PTL
=============================================================================
