------------------------ MODULE ChannelWithdraw_proofs ------------------------
(***************************************************************************)
(* Withdraws and deposits of an open channel, for any deposits, amounts,   *)
(* totals, timeouts and any number of messages, withdraws and restarts:    *)
(* what a node took out and signed away is covered unless it raced.        *)
(***************************************************************************)
EXTENDS ChannelWithdraw, EndState_proofs

-----------------------------------------------------------------------------
(* The invariant.                                                          *)

\* A side without locks, whose books are in order.
Plain(end) == Books(end) /\ PendingLocks(end) = {}

\* n's proofs are numbered, lock nothing and transfer more and more; what its
\* partner knows is one of those that arrived, or none.
Chained(n) ==
  LET our == ourState[n].balanceProof
      known == partnerState[Partner(n)].balanceProof
  IN /\ our.nonce = Len(sent[n])
     /\ received[n] <= Len(sent[n])
     /\ \A i \in 1 .. Len(sent[n]) :
          /\ sent[n][i].nonce = i /\ sent[n][i].locksRoot = {}
          /\ sent[n][i].lockedAmount = 0
          /\ sent[n][i].transferredAmount > 0
          /\ sent[n][i].transferredAmount <= our.transferredAmount
     /\ \A i, j \in 1 .. Len(sent[n]) :
          i < j => sent[n][i].transferredAmount < sent[n][j].transferredAmount
     /\ known.nonce <= received[n]
     /\ known.nonce # 0 => known = sent[n][known.nonce]

SideTypes ==
  /\ ourState \in [Node -> EndStates] /\ partnerState \in [Node -> EndStates]
  /\ sent \in [Node -> Seq(BalanceProof)] /\ received \in [Node -> Nat]

Sides ==
  /\ SideTypes
  /\ \A n \in Node : Plain(ourState[n]) /\ Plain(partnerState[n]) /\ Chained(n)

ChainTypes ==
  /\ depositQueue \in [Node -> SUBSET ContractEvent]
  /\ mail \subseteq WithdrawMessage /\ submitted \subseteq Transaction
  /\ deposit \in [Node -> Amount] /\ withdrawn \in [Node -> Amount]
  /\ events \in Seq(ContractEvent)
  /\ asked \in [Node -> Amount] /\ raced \subseteq Node

ClockTypes ==
  /\ withdrawTransaction \in [Node -> Nat \cup {NoTransaction}]
  /\ logged \in [Node -> Nat \cup {NoTransaction}]
  /\ status \in [Node -> BOOLEAN] /\ notifying \in [Node -> Nat]
  /\ calls \in Nat
  /\ height \in Nat /\ block \in [Node -> Nat] /\ pos \in [Node -> Nat]
  /\ restarts \in Nat

\* Whatever is withdrawn, or on its way to be, was asked for by its owner.
MailAsked == \A m \in mail : m.total <= asked[m.participant]
SubmittedAsked == \A tx \in submitted : tx.total <= asked[tx.participant]
WithdrawnAsked == \A n \in Node : withdrawn[n] <= asked[n]
CountedAsked ==
  \A n \in Node : /\ ourState[n].totalWithdraw <= asked[n]
                  /\ partnerState[n].totalWithdraw <= asked[Partner(n)]

\* An event tells what its participant asked for or deposited.
Credible(e, requests, deposits) ==
  \/ e.name = "SetTotalWithdraw" /\ e.total <= requests[e.participant]
  \/ e.name = "SetTotalDeposit" /\ e.total <= deposits[e.participant]
EventsCredible ==
  \A i \in 1 .. Len(events) : Credible(events[i], asked, deposit)
QueuesCredible ==
  \A n \in Node : \A e \in depositQueue[n] : e.total <= deposit[e.participant]

\* No node counts more than was deposited, and that is bounded.
DepositsBounded == \A n \in Node : deposit[n] <= MaxDeposit
DepositsCounted ==
  \A n \in Node : /\ ourState[n].contractBalance <= deposit[n]
                  /\ partnerState[n].contractBalance <= deposit[Partner(n)]

\* What a node asked for and what it signed away are covered by the deposit it
\* counts and what it received.  CoveredUnlessRaced alone is not inductive: a
\* request covered by nothing would only be noticed at the contract.
Funded(n) ==
  asked[n] + ourState[n].balanceProof.transferredAmount
    <= ourState[n].contractBalance
         + partnerState[n].balanceProof.transferredAmount
FundedUnlessRaced == \A n \in Node : Funded(n) \/ n \in raced

Claims ==
  /\ ChainTypes /\ MailAsked /\ SubmittedAsked /\ WithdrawnAsked /\ CountedAsked
  /\ EventsCredible /\ QueuesCredible /\ DepositsBounded /\ DepositsCounted

WithdrawInv == Sides /\ Claims /\ ClockTypes /\ FundedUnlessRaced

-----------------------------------------------------------------------------
(* Nodes and sides.                                                        *)

\* The channel has two participants, each the partner of the other.
LEMMA Partners ==
  /\ A # B
  /\ \A n \in Node : /\ Partner(n) \in Node /\ Partner(n) # n
                     /\ Partner(Partner(n)) = n
  /\ \A n, k \in Node : k # n => k = Partner(n)
BY WithdrawAssumption DEF Node, Partner

\* getBalance is exact when it fits a word, and never more than the exact
\* balance as long as that one is not negative: sums and differences wrap at
\* most by one word each.
LEMMA BalanceExact ==
  ASSUME NEW c \in Amount, NEW w \in Amount, NEW t \in Amount, NEW r \in Amount,
         w + t <= c + r
  PROVE  LET b == Add64(Sub64(Sub64(c, w), t), r)
         IN /\ b \in Amount /\ b <= c + r - w - t
            /\ c + r - w - t <= MaxUint64 => b = c + r - w - t
<1> DEFINE W == MaxUint64 + 1
<1>1. /\ c \in Nat /\ w \in Nat /\ t \in Nat /\ r \in Nat /\ W \in Nat
      /\ c < W /\ w < W /\ t < W /\ r < W
  BY EndStateAssumption DEF Amount
<1>4. PICK a \in Amount : a = Sub64(c, w) /\ (a = c - w \/ a = c - w + W)
  BY SubCases, AmountFacts
<1>5. PICK d \in Amount : d = Sub64(a, t) /\ (d = a - t \/ d = a - t + W)
  BY SubCases, AmountFacts
<1>6. PICK b \in Amount : b = Add64(d, r) /\ (b = d + r \/ b = d + r - W)
  BY AddCases, AmountFacts
<1>7. a \in Nat /\ d \in Nat /\ b \in Nat /\ b < W
  BY EndStateAssumption DEF Amount
<1>8. b <= c + r - w - t /\ (c + r - w - t < W => b = c + r - w - t)
  <2> HIDE DEF W
  <2> QED BY <1>1, <1>4, <1>5, <1>6, <1>7
<1>9. Add64(Sub64(Sub64(c, w), t), r) = b
  BY <1>4, <1>5, <1>6
<1> QED BY <1>1, <1>8, <1>9, EndStateAssumption

\* A plain side has nothing locked.
LEMMA PlainFields ==
  ASSUME NEW end \in EndStates, Plain(end)
  PROVE  /\ end.balanceProof.lockedAmount = 0 /\ end.balanceProof.locksRoot = {}
         /\ getAmountLocked(end) = 0 /\ currentLockedAmount(end) = 0
         /\ end.balanceProof.nonce = 0 => end.balanceProof.transferredAmount = 0
<1>1. Books(end) /\ PendingLocks(end) = {}
  BY DEF Plain
<1>2. /\ end.balanceProof.lockedAmount = 0 /\ end.balanceProof.locksRoot = {}
      /\ end.balanceProof.nonce = 0 => end.balanceProof.transferredAmount = 0
  BY <1>1, SumEmpty DEF Books, NoBalanceProof
<1>3. /\ getAmountLocked(end) = end.balanceProof.lockedAmount
      /\ currentLockedAmount(end) = end.balanceProof.lockedAmount
  BY <1>1, LockedExact
<1> QED BY <1>2, <1>3

\* What a plain side may spend: no more than what is left of the deposit and of
\* what was received, once withdraws and transfers are taken out, if that is
\* not negative; and exactly that if it fits a word.
LEMMA Distributable ==
  ASSUME NEW sender \in EndStates, Plain(sender), NEW receiver \in EndStates,
         sender.totalWithdraw + sender.balanceProof.transferredAmount
           <= sender.contractBalance + receiver.balanceProof.transferredAmount
  PROVE  LET left == sender.contractBalance
                       + receiver.balanceProof.transferredAmount
                       - sender.totalWithdraw
                       - sender.balanceProof.transferredAmount
             limit == MaxUint64 - sender.balanceProof.transferredAmount
         IN /\ GetDistributable(sender, receiver) \in Nat
            /\ GetDistributable(sender, receiver) <= left
            /\ GetDistributable(sender, receiver) <= limit
            /\ left <= MaxUint64 =>
                 GetDistributable(sender, receiver) = Min(limit, left)
<1> DEFINE c == sender.contractBalance
           w == sender.totalWithdraw
           t == sender.balanceProof.transferredAmount
           r == receiver.balanceProof.transferredAmount
           b == Add64(Sub64(Sub64(c, w), t), r)
<1>1. c \in Amount /\ w \in Amount /\ t \in Amount /\ r \in Amount
      /\ w + t <= c + r
  BY EndStateTypes
<1>2. getAmountLocked(sender) = 0 /\ currentLockedAmount(sender) = 0
  BY PlainFields
<1>3. getBalance(sender, receiver) = b
  BY DEF getBalance
<1>4. GetDistributable(sender, receiver)
        = Min(Sub64(Sub64(MaxUint64, t), 0), Sub64(b, 0))
  BY <1>2, <1>3 DEF GetDistributable
<1> HIDE DEF c, w, t, r
<1>5. /\ b \in Amount /\ b <= c + r - w - t
      /\ c + r - w - t <= MaxUint64 => b = c + r - w - t
  BY <1>1, BalanceExact
<1> HIDE DEF b
<1>6. b \in Nat /\ t \in Nat /\ t <= MaxUint64 /\ MaxUint64 \in Nat
      /\ c \in Nat /\ w \in Nat /\ r \in Nat
  BY <1>1, <1>5, AmountFacts
<1>7. Sub64(b, 0) = b
  BY <1>5, <1>6, SubExact
<1>8. Sub64(MaxUint64, t) = MaxUint64 - t /\ MaxUint64 - t \in Amount
  BY <1>6, AmountFacts, SubExact DEF Amount
<1>9. Sub64(MaxUint64 - t, 0) = MaxUint64 - t
  BY <1>6, <1>8, SubExact
<1>10. GetDistributable(sender, receiver) = Min(MaxUint64 - t, b)
  BY <1>4, <1>7, <1>8, <1>9
<1>11. /\ GetDistributable(sender, receiver) \in Nat
       /\ GetDistributable(sender, receiver) <= c + r - w - t
       /\ GetDistributable(sender, receiver) <= MaxUint64 - t
       /\ c + r - w - t <= MaxUint64 =>
            GetDistributable(sender, receiver) = Min(MaxUint64 - t, c + r - w - t)
  BY <1>5, <1>6, <1>10 DEF Min
<1> QED BY <1>11 DEF c, w, t, r

\* new is side end with another deposit or withdrawn amount.
Revalued(new, end) ==
  /\ new \in EndStates /\ new.balanceProof = end.balanceProof
  /\ Plain(end) => Plain(new)

\* Counting a withdraw, as the event tells it.
LEMMA WithdrawCounted ==
  ASSUME NEW end \in EndStates, NEW total \in Amount
  PROVE  LET new == WithTotalWithdraw(end, total)
         IN /\ Revalued(new, end) /\ new.totalWithdraw = total
            /\ new.contractBalance = end.contractBalance
<1> DEFINE new == WithTotalWithdraw(end, total)
<1>1. /\ new \in EndStates /\ new.balanceProof = end.balanceProof
      /\ new.totalWithdraw = total /\ new.contractBalance = end.contractBalance
  BY DEF WithTotalWithdraw, EndStates
<1>2. /\ new.merkleTree = end.merkleTree /\ new.lockedLocks = end.lockedLocks
      /\ new.unLockedLocks = end.unLockedLocks
      /\ new.onChainUnLockedLocks = end.onChainUnLockedLocks
  BY DEF WithTotalWithdraw, EndStates
<1>3. Plain(end) => Plain(new)
  BY <1>1, <1>2 DEF Plain, Books, PendingLocks
<1> QED BY <1>1, <1>3 DEF Revalued

\* Counting confirmed deposits raises the balance, to one of their totals.
LEMMA DepositsApplied ==
  ASSUME NEW end \in EndStates, NEW n \in Node, NEW queue \in SUBSET ContractEvent,
         NEW d \in Amount, end.contractBalance <= d,
         \A e \in queue : e.participant = n => e.total <= d
  PROVE  LET new == updateContractBalance(end, n, queue)
         IN /\ Revalued(new, end) /\ new.totalWithdraw = end.totalWithdraw
            /\ end.contractBalance <= new.contractBalance
            /\ new.contractBalance <= d
<1> DEFINE totals == {end.contractBalance} \cup
                       {e.total : e \in {e \in queue : e.participant = n}}
           top == CHOOSE t \in totals : \A u \in totals : u <= t
           new == updateContractBalance(end, n, queue)
<1>1. \A e \in queue : e.total \in Amount
  BY DEF ContractEvent
<1>2. end.contractBalance \in Amount
  BY EndStateTypes
<1>3. \A u \in totals : u \in Amount /\ u <= d
  BY <1>1, <1>2
<1>4. totals \in SUBSET Nat /\ d \in Nat
  BY <1>3, AmountFacts
<1>5. \E t \in totals : \A u \in totals : u <= t
  <2>1. end.contractBalance \in totals
    OBVIOUS
  <2> HIDE DEF totals
  <2> QED BY <1>3, <1>4, <2>1, GreatestNatural
<1>6. top \in totals /\ \A u \in totals : u <= top
  BY <1>5
<1>7. new = [end EXCEPT !.contractBalance = top]
  BY DEF updateContractBalance
<1>8. top \in Amount /\ end.contractBalance <= top /\ top <= d
  BY <1>3, <1>6
<1> HIDE DEF top
<1>9. /\ new \in EndStates /\ new.balanceProof = end.balanceProof
      /\ new.totalWithdraw = end.totalWithdraw /\ new.contractBalance = top
  BY <1>7, <1>8 DEF EndStates
<1>10. /\ new.merkleTree = end.merkleTree /\ new.lockedLocks = end.lockedLocks
       /\ new.unLockedLocks = end.unLockedLocks
       /\ new.onChainUnLockedLocks = end.onChainUnLockedLocks
  BY <1>7 DEF EndStates
<1>11. Plain(end) => Plain(new)
  BY <1>9, <1>10 DEF Plain, Books, PendingLocks
<1> QED BY <1>8, <1>9, <1>11 DEF Revalued

-----------------------------------------------------------------------------
(* Transfers.                                                              *)

\* The two sides of a node, typed, and what they mean for its amounts.
LEMMA SideAmounts ==
  ASSUME Sides, NEW n \in Node
  PROVE  /\ ourState[n] \in EndStates /\ Plain(ourState[n])
         /\ partnerState[n] \in EndStates /\ Plain(partnerState[n])
         /\ sent[n] \in Seq(BalanceProof) /\ Len(sent[n]) \in Nat
         /\ received[n] \in Nat /\ Chained(n)
         /\ \A i \in 1 .. Len(sent[n]) :
              /\ sent[n][i] \in BalanceProof /\ sent[n][i].nonce \in Nat
              /\ sent[n][i].transferredAmount \in Nat
         /\ ourState[n].balanceProof.nonce \in Nat
         /\ ourState[n].balanceProof.transferredAmount \in Nat
         /\ ourState[n].contractBalance \in Nat
         /\ ourState[n].totalWithdraw \in Nat
         /\ partnerState[n].balanceProof.nonce \in Nat
         /\ partnerState[n].balanceProof.transferredAmount \in Nat
         /\ partnerState[n].contractBalance \in Nat
         /\ partnerState[n].totalWithdraw \in Nat
<1>1. /\ ourState[n] \in EndStates /\ Plain(ourState[n])
      /\ partnerState[n] \in EndStates /\ Plain(partnerState[n])
      /\ sent[n] \in Seq(BalanceProof) /\ received[n] \in Nat /\ Chained(n)
  BY DEF Sides, SideTypes
<1>2. Len(sent[n]) \in Nat /\ \A i \in 1 .. Len(sent[n]) : sent[n][i] \in BalanceProof
  BY <1>1
<1>3. \A bp \in BalanceProof : bp.nonce \in Nat /\ bp.transferredAmount \in Nat
  BY AmountFacts DEF BalanceProof
<1> QED BY <1>1, <1>2, <1>3, EndStateTypes, AmountFacts

\* What a node knows of its partner is not more than the partner signed.
LEMMA KnownBehind ==
  ASSUME Sides, NEW n \in Node
  PROVE  partnerState[Partner(n)].balanceProof.transferredAmount
           <= ourState[n].balanceProof.transferredAmount
<1> DEFINE known == partnerState[Partner(n)].balanceProof
<1>1. Partner(n) \in Node
  BY Partners
<1>2. /\ Plain(partnerState[Partner(n)]) /\ known.nonce \in Nat
      /\ partnerState[Partner(n)] \in EndStates
      /\ ourState[n].balanceProof.transferredAmount \in Nat
      /\ Len(sent[n]) \in Nat /\ received[n] \in Nat
  BY <1>1, SideAmounts
<1>3. CASE known.nonce = 0
  BY <1>2, <1>3, PlainFields
<1>4. CASE known.nonce # 0
  <2>1. /\ known = sent[n][known.nonce] /\ known.nonce <= received[n]
        /\ received[n] <= Len(sent[n])
    BY <1>4, SideAmounts DEF Chained
  <2>2. known.nonce \in 1 .. Len(sent[n])
    BY <1>2, <1>4, <2>1
  <2> QED BY <2>1, <2>2, SideAmounts DEF Chained
<1> QED BY <1>3, <1>4

\* Sending a direct transfer.
LEMMA SendStep ==
  ASSUME WithdrawInv, NEW n \in Node, NEW amount \in Amounts,
         handleSendDirectTransfer(n, amount)
  PROVE  Sides' /\ FundedUnlessRaced' /\ CountedAsked' /\ DepositsCounted'
<1> DEFINE our == ourState[n]
           p == Partner(n)
           bp == createSendDirectTransfer(our, amount)
           t == our.balanceProof.transferredAmount
           new == WithTransfer(our, bp)
<1>1. /\ Sides /\ FundedUnlessRaced /\ CountedAsked /\ DepositsCounted
      /\ ChainTypes
  BY DEF WithdrawInv, Claims
<1>2. p \in Node /\ p # n /\ Partner(p) = n /\ \A k \in Node : k = n \/ k = p
  BY Partners
<1>3. /\ our \in EndStates /\ Books(our) /\ PendingLocks(our) = {}
      /\ Plain(our) /\ partnerState[n] \in EndStates /\ t \in Nat
      /\ our.balanceProof.nonce \in Nat /\ Len(sent[n]) \in Nat
      /\ sent[n] \in Seq(BalanceProof)
  BY <1>1, SideAmounts DEF Plain
<1>4. amount \in Amount /\ amount \in Nat /\ amount > 0
  BY AmountFacts, WithdrawAssumption DEF handleSendDirectTransfer
<1>5. /\ our.balanceProof.lockedAmount = 0 /\ our.balanceProof.locksRoot = {}
  BY <1>3, PlainFields
<1>6. /\ GetDistributable(our, partnerState[n]) \in Nat
      /\ GetDistributable(our, partnerState[n]) <= MaxUint64 - t
      /\ amount <= GetDistributable(our, partnerState[n])
  <2>1. /\ GetDistributable(our, partnerState[n]) \in Nat
        /\ GetDistributable(our, partnerState[n])
             <= MaxUint64 - t - our.balanceProof.lockedAmount
    BY <1>3, DistributableLimit
  <2> QED BY <1>3, <1>5, <2>1, AmountFacts DEF handleSendDirectTransfer
<1>7. /\ t + amount \in Nat /\ t + amount <= MaxUint64
      /\ amount <= MaxUint64 - t - our.balanceProof.lockedAmount
  <2> HIDE DEF our, t
  <2>1. MaxUint64 \in Nat
    BY AmountFacts
  <2> QED BY <1>3, <1>4, <1>5, <1>6, <2>1
<1>8. /\ bp \in BalanceProof /\ bp.nonce = our.balanceProof.nonce + 1
      /\ bp.locksRoot = {} /\ bp.lockedAmount = 0
      /\ bp.transferredAmount = t + amount
  BY <1>3, <1>4, <1>5, <1>7, DirectProof
<1>9. /\ bp.nonce # 0 /\ bp.transferredAmount + bp.lockedAmount <= MaxUint64
  <2> HIDE DEF our, t, bp
  <2> QED BY <1>3, <1>7, <1>8
<1>10. /\ ourState' = [ourState EXCEPT ![n] = new]
       /\ sent' = [sent EXCEPT ![n] = Append(sent[n], bp)]
       /\ partnerState' = partnerState /\ received' = received
       /\ asked' = asked /\ deposit' = deposit
       /\ raced' = IF Outstanding(n) THEN raced \cup {n} ELSE raced
  BY DEF handleSendDirectTransfer, transferVars, historyVars, chainVars, contractVars
<1> HIDE DEF bp
<1>11. /\ new \in EndStates /\ Plain(new) /\ new.balanceProof = bp
  BY <1>3, <1>5, <1>8, <1>9, TransferBooks DEF Plain
<1>12. SameDeposit(new, our)
  BY <1>3, DepositKept
<1> HIDE DEF new
<1>13. /\ ourState' \in [Node -> EndStates] /\ ourState'[n] = new
       /\ ourState'[p] = ourState[p]
  BY <1>1, <1>2, <1>10, <1>11 DEF Sides, SideTypes
<1>14. /\ sent' \in [Node -> Seq(BalanceProof)]
       /\ sent'[n] = Append(sent[n], bp) /\ sent'[p] = sent[p]
  BY <1>1, <1>2, <1>3, <1>8, <1>10 DEF Sides, SideTypes
<1>15. SideTypes'
  BY <1>1, <1>10, <1>13, <1>14 DEF Sides, SideTypes
<1>16. Chained(n)'
  <2>1. /\ Len(sent'[n]) = Len(sent[n]) + 1
        /\ \A i \in 1 .. Len(sent[n]) : sent'[n][i] = sent[n][i]
        /\ sent'[n][Len(sent[n]) + 1] = bp
    BY <1>3, <1>8, <1>14
  <2>2. /\ our.balanceProof.nonce = Len(sent[n]) /\ received[n] <= Len(sent[n])
        /\ \A i \in 1 .. Len(sent[n]) :
             /\ sent[n][i].nonce = i /\ sent[n][i].locksRoot = {}
             /\ sent[n][i].lockedAmount = 0
             /\ sent[n][i].transferredAmount > 0
             /\ sent[n][i].transferredAmount <= t
        /\ \A i, j \in 1 .. Len(sent[n]) :
             i < j => sent[n][i].transferredAmount < sent[n][j].transferredAmount
        /\ partnerState[p].balanceProof.nonce <= received[n]
        /\ partnerState[p].balanceProof.nonce # 0 =>
             partnerState[p].balanceProof
               = sent[n][partnerState[p].balanceProof.nonce]
    BY <1>1, SideAmounts DEF Chained
  <2>3. received[n] \in Nat /\ partnerState[p].balanceProof.nonce \in Nat
    BY <1>1, <1>2, SideAmounts
  <2>4. \A i \in 1 .. Len(sent[n]) : sent[n][i].transferredAmount \in Nat
    BY <1>1, SideAmounts
  <2>5. bp.transferredAmount > t /\ bp.transferredAmount > 0
        /\ bp.transferredAmount \in Nat
    BY <1>3, <1>4, <1>8
  <2>6. \A i \in 1 .. Len(sent'[n]) : i \in 1 .. Len(sent[n]) \/ i = Len(sent[n]) + 1
    BY <1>3, <2>1
  <2>7. new.balanceProof.nonce = Len(sent'[n]) /\ received[n] <= Len(sent'[n])
    BY <1>3, <1>8, <1>11, <2>1, <2>2, <2>3
  <2>8. \A i \in 1 .. Len(sent'[n]) :
          /\ sent'[n][i].nonce = i /\ sent'[n][i].locksRoot = {}
          /\ sent'[n][i].lockedAmount = 0
          /\ sent'[n][i].transferredAmount > 0
          /\ sent'[n][i].transferredAmount <= bp.transferredAmount
    <3> SUFFICES ASSUME NEW i \in 1 .. Len(sent'[n])
                 PROVE  <2>8!(i)
      OBVIOUS
    <3>1. CASE i \in 1 .. Len(sent[n])
      <4>1. sent[n][i].transferredAmount <= bp.transferredAmount
        <5>1. sent[n][i].transferredAmount <= t /\ sent[n][i].transferredAmount \in Nat
          BY <2>2, <2>4, <3>1
        <5> HIDE DEF t
        <5> QED BY <1>3, <2>5, <5>1
      <4> QED BY <2>1, <2>2, <3>1, <4>1
    <3>2. CASE i = Len(sent[n]) + 1
      <4>1. bp.nonce = i
        BY <1>8, <2>2, <3>2
      <4>2. bp.transferredAmount <= bp.transferredAmount
        BY <2>5
      <4> QED BY <1>8, <2>1, <2>5, <3>2, <4>1, <4>2, Zenon
    <3> QED BY <2>6, <3>1, <3>2
  <2>9. \A i, j \in 1 .. Len(sent'[n]) :
          i < j => sent'[n][i].transferredAmount < sent'[n][j].transferredAmount
    <3> SUFFICES ASSUME NEW i \in 1 .. Len(sent'[n]),
                        NEW j \in 1 .. Len(sent'[n]), i < j
                 PROVE  sent'[n][i].transferredAmount < sent'[n][j].transferredAmount
      OBVIOUS
    <3>1. i \in 1 .. Len(sent[n])
      BY <1>3, <2>1
    <3>2. CASE j \in 1 .. Len(sent[n])
      BY <2>1, <2>2, <3>1, <3>2
    <3>3. CASE j = Len(sent[n]) + 1
      <4>1. sent[n][i].transferredAmount <= t /\ sent[n][i].transferredAmount \in Nat
        BY <2>2, <2>4, <3>1
      <4>2. sent[n][i].transferredAmount < bp.transferredAmount
        <5> HIDE DEF t
        <5> QED BY <1>3, <2>5, <4>1
      <4> QED BY <2>1, <3>1, <3>3, <4>2
    <3> QED BY <2>6, <3>2, <3>3
  <2>10. partnerState[p].balanceProof.nonce # 0 =>
           partnerState[p].balanceProof
             = sent'[n][partnerState[p].balanceProof.nonce]
    <3> SUFFICES ASSUME partnerState[p].balanceProof.nonce # 0
                 PROVE  partnerState[p].balanceProof
                          = sent'[n][partnerState[p].balanceProof.nonce]
      OBVIOUS
    <3>1. partnerState[p].balanceProof.nonce \in 1 .. Len(sent[n])
      BY <1>3, <2>2, <2>3
    <3> QED BY <2>1, <2>2, <3>1
  <2>11. /\ received'[n] = received[n] /\ partnerState' = partnerState
         /\ ourState'[n].balanceProof = bp /\ ourState'[n] = new
    BY <1>10, <1>11, <1>13
  <2> HIDE DEF p
  <2>12. /\ ourState'[n].balanceProof.nonce = Len(sent'[n])
         /\ received'[n] <= Len(sent'[n])
         /\ \A i \in 1 .. Len(sent'[n]) :
              /\ sent'[n][i].nonce = i /\ sent'[n][i].locksRoot = {}
              /\ sent'[n][i].lockedAmount = 0
              /\ sent'[n][i].transferredAmount > 0
              /\ sent'[n][i].transferredAmount
                   <= ourState'[n].balanceProof.transferredAmount
    BY <2>7, <2>8, <2>11, <1>11, Zenon
  <2>13. /\ partnerState'[p].balanceProof.nonce <= received'[n]
         /\ partnerState'[p].balanceProof.nonce # 0 =>
              partnerState'[p].balanceProof
                = sent'[n][partnerState'[p].balanceProof.nonce]
    BY <2>2, <2>10, <2>11, Zenon
  <2>14. Partner(n) = p
    BY Zenon DEF p
  <2>15. /\ partnerState'[Partner(n)].balanceProof.nonce <= received'[n]
         /\ partnerState'[Partner(n)].balanceProof.nonce # 0 =>
              partnerState'[Partner(n)].balanceProof
                = sent'[n][partnerState'[Partner(n)].balanceProof.nonce]
    BY <2>13, <2>14, Zenon
  <2> QED BY <2>9, <2>12, <2>15, Zenon DEF Chained
<1>17. Chained(p)'
  <2>1. Chained(p)
    BY <1>1, <1>2 DEF Sides
  <2>2. /\ ourState'[p] = ourState[p] /\ sent'[p] = sent[p]
        /\ received' = received /\ partnerState' = partnerState
    BY <1>10, <1>13, <1>14
  <2> HIDE DEF p
  <2> QED BY <2>1, <2>2, SMTT(20) DEF Chained
<1>18. Sides'
  BY <1>1, <1>2, <1>10, <1>11, <1>13, <1>15, <1>16, <1>17 DEF Sides
<1>19. CountedAsked' /\ DepositsCounted'
  BY <1>1, <1>2, <1>10, <1>12, <1>13 DEF CountedAsked, DepositsCounted, SameDeposit
<1>20. Funded(n)' \/ n \in raced'
  <2> SUFFICES ASSUME n \notin raced'
               PROVE  Funded(n)'
    OBVIOUS
  <2>1. n \notin raced /\ ~Outstanding(n)
    BY <1>10
  <2>2. /\ asked[n] \in Nat /\ our.totalWithdraw \in Nat
        /\ our.contractBalance \in Nat
        /\ partnerState[n].balanceProof.transferredAmount \in Nat
    BY <1>1, SideAmounts, AmountFacts DEF ChainTypes
  <2>3. /\ asked[n] + t <= our.contractBalance
                             + partnerState[n].balanceProof.transferredAmount
        /\ our.totalWithdraw <= asked[n] /\ asked[n] <= our.totalWithdraw
    BY <1>1, <2>1, <2>2 DEF FundedUnlessRaced, Funded, CountedAsked, Outstanding
  <2>4. our.totalWithdraw + t
          <= our.contractBalance + partnerState[n].balanceProof.transferredAmount
    <3> HIDE DEF our, t
    <3> QED BY <1>3, <2>2, <2>3
  <2>5. GetDistributable(our, partnerState[n])
          <= our.contractBalance + partnerState[n].balanceProof.transferredAmount
               - our.totalWithdraw - t
    BY <1>3, <2>4, Distributable
  <2>6. asked[n] + (t + amount)
          <= our.contractBalance + partnerState[n].balanceProof.transferredAmount
    <3> DEFINE s == partnerState[n].balanceProof.transferredAmount
               d == GetDistributable(our, partnerState[n])
               c == our.contractBalance
               w == our.totalWithdraw
               a == asked[n]
    <3>1. /\ t \in Nat /\ amount \in Nat /\ amount <= d /\ d \in Nat
      BY <1>3, <1>4, <1>6
    <3>2. /\ a \in Nat /\ w \in Nat /\ c \in Nat /\ s \in Nat
          /\ w <= a /\ a <= w /\ d <= c + s - w - t
      BY <2>2, <2>3, <2>5
    <3> HIDE DEF t, s, d, c, w, a
    <3>3. a + (t + amount) <= c + s
      BY <3>1, <3>2
    <3> QED BY <3>3 DEF s, c, a
  <2>7. new.contractBalance = our.contractBalance
    BY <1>12 DEF SameDeposit
  <2> QED BY <1>8, <1>10, <1>11, <1>13, <2>6, <2>7 DEF Funded
<1>21. Funded(p)' \/ p \in raced'
  BY <1>1, <1>2, <1>10, <1>13 DEF FundedUnlessRaced, Funded
<1> QED BY <1>2, <1>18, <1>19, <1>20, <1>21 DEF FundedUnlessRaced

\* Receiving a direct transfer, whether or not it is accepted.
LEMMA ReceiveStep ==
  ASSUME WithdrawInv, NEW n \in Node, handleReceiveDirectTransfer(n)
  PROVE  Sides' /\ FundedUnlessRaced' /\ CountedAsked' /\ DepositsCounted'
<1> DEFINE p == Partner(n)
           bp == sent[p][received[p] + 1]
           new == IF IsValidDirectTransfer(bp, partnerState[n], ourState[n], TRUE)
                  THEN WithTransfer(partnerState[n], bp) ELSE partnerState[n]
<1>1. /\ Sides /\ FundedUnlessRaced /\ CountedAsked /\ DepositsCounted
      /\ ChainTypes
  BY DEF WithdrawInv, Claims
<1>2. p \in Node /\ p # n /\ Partner(p) = n /\ \A k \in Node : k = n \/ k = p
  BY Partners
<1>3. /\ ourState[n] \in EndStates /\ Plain(ourState[n])
      /\ partnerState[n] \in EndStates /\ Plain(partnerState[n])
      /\ received[p] \in Nat /\ Len(sent[p]) \in Nat
      /\ partnerState[n].balanceProof.nonce \in Nat
      /\ partnerState[n].balanceProof.transferredAmount \in Nat
  BY <1>1, <1>2, SideAmounts
<1>4. received[p] + 1 \in 1 .. Len(sent[p])
  BY <1>3 DEF handleReceiveDirectTransfer
<1>5. bp \in BalanceProof /\ bp.nonce = received[p] + 1
      /\ bp.transferredAmount \in Nat
  BY <1>1, <1>2, <1>4, SideAmounts DEF Chained
<1>6. /\ ourState' = ourState /\ sent' = sent
      /\ received' = [received EXCEPT ![p] = @ + 1]
      /\ asked' = asked /\ raced' = raced /\ deposit' = deposit
  BY DEF handleReceiveDirectTransfer, chainVars, contractVars, historyVars
<1>7. partnerState' = [partnerState EXCEPT ![n] = new]
  <2>1. /\ DOMAIN partnerState = Node
        /\ partnerState = [partnerState EXCEPT ![n] = partnerState[n]]
    BY <1>1 DEF Sides, SideTypes
  <2> QED BY <2>1 DEF handleReceiveDirectTransfer
<1>8. /\ new \in EndStates /\ Plain(new) /\ SameDeposit(new, partnerState[n])
      /\ \/ new.balanceProof = partnerState[n].balanceProof
         \/ /\ new.balanceProof = bp
            /\ bp.transferredAmount
                 >= partnerState[n].balanceProof.transferredAmount
  <2>1. CASE IsValidDirectTransfer(bp, partnerState[n], ourState[n], TRUE)
    <3> HIDE DEF bp
    <3> DEFINE nw == WithTransfer(partnerState[n], bp)
    <3>1. /\ Follows(nw, partnerState[n], bp)
          /\ PendingLocks(nw) = PendingLocks(partnerState[n])
      BY <1>3, <1>5, <2>1, AcceptDirect DEF Plain
    <3> HIDE DEF nw
    <3>2. /\ nw \in EndStates /\ Plain(nw) /\ SameDeposit(nw, partnerState[n])
          /\ nw.balanceProof = bp
          /\ bp.transferredAmount
               >= partnerState[n].balanceProof.transferredAmount
      BY <1>3, <3>1 DEF Follows, Plain
    <3>3. new = nw
      BY <2>1 DEF nw
    <3> QED BY <3>2, <3>3
  <2>2. CASE ~IsValidDirectTransfer(bp, partnerState[n], ourState[n], TRUE)
    BY <1>3, <2>2 DEF SameDeposit
  <2> QED BY <2>1, <2>2
<1> HIDE DEF bp, new
<1>9. /\ partnerState' \in [Node -> EndStates] /\ partnerState'[n] = new
      /\ partnerState'[p] = partnerState[p]
      /\ received' \in [Node -> Nat] /\ received'[p] = received[p] + 1
      /\ received'[n] = received[n]
  BY <1>1, <1>2, <1>3, <1>6, <1>7, <1>8 DEF Sides, SideTypes
<1>10. SideTypes'
  BY <1>1, <1>6, <1>9 DEF Sides, SideTypes
<1>11. Chained(p)'
  <2>1. /\ partnerState[n].balanceProof.nonce <= received[p]
        /\ partnerState[n].balanceProof.nonce # 0 =>
             partnerState[n].balanceProof
               = sent[p][partnerState[n].balanceProof.nonce]
    BY <1>1, <1>2, SideAmounts DEF Chained
  <2>2. received'[p] <= Len(sent[p]) /\ new.balanceProof.nonce <= received'[p]
    BY <1>3, <1>4, <1>5, <1>8, <1>9, <2>1
  <2>3. new.balanceProof.nonce # 0 =>
          new.balanceProof = sent[p][new.balanceProof.nonce]
    BY <1>5, <1>8, <2>1 DEF bp
  <2> QED BY <1>1, <1>2, <1>6, <1>9, <2>2, <2>3, SideAmounts DEF Chained
<1>12. Chained(n)'
  BY <1>1, <1>2, <1>6, <1>9, SideAmounts DEF Chained
<1>13. Sides'
  BY <1>1, <1>2, <1>6, <1>8, <1>9, <1>10, <1>11, <1>12 DEF Sides
<1>14. CountedAsked' /\ DepositsCounted'
  BY <1>1, <1>2, <1>6, <1>8, <1>9 DEF CountedAsked, DepositsCounted, SameDeposit
<1>15. Funded(n) => Funded(n)'
  <2>1. /\ asked[n] \in Nat
        /\ ourState[n].balanceProof.transferredAmount \in Nat
        /\ ourState[n].contractBalance \in Nat
        /\ partnerState[n].balanceProof.transferredAmount \in Nat
        /\ new.balanceProof.transferredAmount \in Nat
    BY <1>1, <1>5, <1>8, SideAmounts, AmountFacts DEF ChainTypes
  <2>2. partnerState[n].balanceProof.transferredAmount
          <= new.balanceProof.transferredAmount
    BY <1>8, <2>1
  <2>3. Funded(n) =>
          asked[n] + ourState[n].balanceProof.transferredAmount
            <= ourState[n].contractBalance + new.balanceProof.transferredAmount
    BY <2>1, <2>2 DEF Funded
  <2> QED BY <1>6, <1>9, <2>3 DEF Funded
<1>16. Funded(p) => Funded(p)'
  BY <1>6, <1>9 DEF Funded
<1> QED BY <1>1, <1>2, <1>6, <1>13, <1>14, <1>15, <1>16 DEF FundedUnlessRaced

-----------------------------------------------------------------------------
(* Withdraws.                                                              *)

\* Steps that leave both sides and the transfers alone.
LEMMA SidesKept ==
  ASSUME Sides, UNCHANGED <<channelVars, transferVars>>
  PROVE  Sides'
BY DEF Sides, SideTypes, Chained, channelVars, transferVars

\* Steps that neither ask for more nor race.
LEMMA FundedKept ==
  ASSUME FundedUnlessRaced, UNCHANGED <<channelVars, asked, raced>>
  PROVE  FundedUnlessRaced'
BY DEF FundedUnlessRaced, Funded, channelVars

\* The contract's events, typed.
LEMMA EventTypes ==
  ASSUME ChainTypes, NEW i \in 1 .. Len(events)
  PROVE  /\ events[i] \in ContractEvent /\ events[i].participant \in Node
         /\ events[i].total \in Amount /\ events[i].total \in Nat
         /\ events[i].block \in Nat
<1>1. events[i] \in ContractEvent
  BY DEF ChainTypes
<1> QED BY <1>1, AmountFacts DEF ContractEvent

\* Steps after which every claim was there before, or may be made: fewer
\* messages and transactions, and nobody asked for less.
LEMMA ClaimsKept ==
  ASSUME Claims, UNCHANGED <<channelVars, contractVars, asked, raced, depositQueue>>,
         mail' \subseteq WithdrawMessage, submitted' \subseteq Transaction,
         \A m \in mail' : m.total <= asked[m.participant],
         \A tx \in submitted' : tx.total <= asked[tx.participant]
  PROVE  Claims'
<1>1. ChainTypes' /\ MailAsked' /\ SubmittedAsked'
  BY DEF Claims, ChainTypes, MailAsked, SubmittedAsked, contractVars
<1>2. WithdrawnAsked' /\ CountedAsked' /\ DepositsBounded' /\ DepositsCounted'
  BY DEF Claims, WithdrawnAsked, CountedAsked, DepositsBounded, DepositsCounted,
     contractVars, channelVars
<1>3. EventsCredible' /\ QueuesCredible'
  BY DEF Claims, EventsCredible, Credible, QueuesCredible, contractVars
<1> QED BY <1>1, <1>2, <1>3 DEF Claims

\* A request that the node's own books allow is covered, unless it raced.
LEMMA RequestFunded ==
  ASSUME WithdrawInv, NEW n \in Node, NEW total \in Amount, Funded(n),
         isValidWithdrawAmount(ourState[n], partnerState[n], total)
  PROVE  total + ourState[n].balanceProof.transferredAmount
           <= ourState[n].contractBalance
                + partnerState[n].balanceProof.transferredAmount
<1> DEFINE our == ourState[n]
           t == our.balanceProof.transferredAmount
           r == partnerState[n].balanceProof.transferredAmount
           g == GetDistributable(our, partnerState[n])
<1>1. /\ our \in EndStates /\ Plain(our) /\ partnerState[n] \in EndStates
      /\ t \in Nat /\ r \in Nat
      /\ our.contractBalance \in Nat /\ our.totalWithdraw \in Nat
      /\ total \in Nat /\ asked[n] \in Nat
  BY SideAmounts, AmountFacts DEF WithdrawInv, Claims, ChainTypes
<1>2. /\ asked[n] + t <= our.contractBalance + r
      /\ our.totalWithdraw <= asked[n]
  BY DEF Funded, WithdrawInv, Claims, CountedAsked
<1>3. our.totalWithdraw + t <= our.contractBalance + r
  <2> HIDE DEF our, t, r
  <2> QED BY <1>1, <1>2
<1>4. g \in Nat /\ g <= our.contractBalance + r - our.totalWithdraw - t
  BY <1>1, <1>3, Distributable
<1>5. total > our.totalWithdraw /\ Sub64(total, our.totalWithdraw) <= g
  BY DEF isValidWithdrawAmount
<1>6. Sub64(total, our.totalWithdraw) = total - our.totalWithdraw
  BY <1>1, <1>5, SubExact
<1> HIDE DEF our, t, r, g
<1>7. total + t <= our.contractBalance + r
  BY <1>1, <1>4, <1>5, <1>6
<1> QED BY <1>7 DEF our, t, r

\* Asking for a withdraw.
LEMMA AskStep ==
  ASSUME WithdrawInv, NEW n \in Node, NEW total \in Totals, Withdraw(n, total)
  PROVE  Sides' /\ FundedUnlessRaced' /\ Claims'
<1> DEFINE request == [type |-> "WithdrawRequest", participant |-> n, total |-> total]
           grows == request \in mail' /\ total > asked[n]
<1>1. total \in Amount /\ total \in Nat /\ request \in WithdrawMessage
  BY WithdrawAssumption, AmountFacts DEF WithdrawMessage
<1>2. Sides /\ FundedUnlessRaced /\ Claims /\ ChainTypes
  BY DEF WithdrawInv, Claims
<1>3. \A k \in Node : asked[k] \in Nat
  BY <1>2, AmountFacts DEF ChainTypes
<1>4. /\ UNCHANGED <<channelVars, transferVars>>
      /\ ourState' = ourState /\ partnerState' = partnerState
      /\ submitted' = submitted /\ deposit' = deposit /\ withdrawn' = withdrawn
      /\ events' = events /\ depositQueue' = depositQueue /\ raced' = raced
  BY DEF Withdraw, channelVars, transferVars, chainVars, contractVars, syncVars
<1>5. asked' = IF grows THEN [asked EXCEPT ![n] = total] ELSE asked
  BY DEF Withdraw
<1>6. \/ mail' = mail
      \/ /\ mail' = mail \cup {request}
         /\ isValidWithdrawAmount(ourState[n], partnerState[n], total)
  BY DEF Withdraw, handleSendWithdrawRequest, HandleSendWithdrawRequest
<1>7. /\ asked' \in [Node -> Amount]
      /\ \A k \in Node : asked[k] <= asked'[k]
      /\ \A k \in Node : k # n => asked'[k] = asked[k]
      /\ request \in mail' => total <= asked'[n]
  BY <1>1, <1>2, <1>3, <1>5 DEF ChainTypes
<1>8. \A k \in Node : asked'[k] \in Nat
  BY <1>7, AmountFacts
<1>9. MailAsked'
  <2> SUFFICES ASSUME NEW m \in mail' PROVE m.total <= asked'[m.participant]
    BY DEF MailAsked
  <2>1. CASE m \in mail
    <3>1. m.total <= asked[m.participant] /\ m.participant \in Node /\ m.total \in Nat
      BY <1>2, <2>1, AmountFacts DEF Claims, MailAsked, ChainTypes, WithdrawMessage
    <3> QED BY <1>3, <1>7, <1>8, <3>1
  <2>2. CASE m = request
    BY <1>7, <2>2
  <2> QED BY <1>6, <2>1, <2>2
<1>10. SubmittedAsked'
  <2> SUFFICES ASSUME NEW tx \in submitted PROVE tx.total <= asked'[tx.participant]
    BY <1>4 DEF SubmittedAsked
  <2>1. tx.total <= asked[tx.participant] /\ tx.participant \in Node /\ tx.total \in Nat
    BY <1>2, AmountFacts DEF Claims, SubmittedAsked, ChainTypes, Transaction
  <2> QED BY <1>3, <1>7, <1>8, <2>1
<1>11. WithdrawnAsked'
  <2>1. \A k \in Node : withdrawn[k] <= asked[k] /\ withdrawn[k] \in Nat
    BY <1>2, AmountFacts DEF Claims, WithdrawnAsked, ChainTypes
  <2> QED BY <1>3, <1>4, <1>7, <1>8, <2>1 DEF WithdrawnAsked
<1>12. CountedAsked'
  <2> SUFFICES ASSUME NEW k \in Node
               PROVE  /\ ourState[k].totalWithdraw <= asked'[k]
                      /\ partnerState[k].totalWithdraw <= asked'[Partner(k)]
    BY <1>4 DEF CountedAsked
  <2>1. /\ ourState[k].totalWithdraw <= asked[k]
        /\ partnerState[k].totalWithdraw <= asked[Partner(k)]
        /\ ourState[k].totalWithdraw \in Nat
        /\ partnerState[k].totalWithdraw \in Nat
    BY <1>2, SideAmounts DEF Claims, CountedAsked
  <2> QED BY <1>3, <1>7, <1>8, <2>1, Partners
<1>13. EventsCredible'
  <2> SUFFICES ASSUME NEW i \in 1 .. Len(events) PROVE Credible(events[i], asked', deposit)
    BY <1>4 DEF EventsCredible
  <2>1. /\ Credible(events[i], asked, deposit) /\ events[i].participant \in Node
        /\ events[i].total \in Nat
    BY <1>2, EventTypes DEF Claims, EventsCredible
  <2>2. events[i].total <= asked[events[i].participant] =>
          events[i].total <= asked'[events[i].participant]
    BY <1>3, <1>7, <1>8, <2>1
  <2> QED BY <2>1, <2>2 DEF Credible
<1>14. ChainTypes'
  BY <1>1, <1>2, <1>4, <1>6, <1>7 DEF ChainTypes
<1>15. QueuesCredible' /\ DepositsBounded' /\ DepositsCounted'
  BY <1>2, <1>4 DEF Claims, QueuesCredible, DepositsBounded, DepositsCounted
<1>16. Claims'
  BY <1>9, <1>10, <1>11, <1>12, <1>13, <1>14, <1>15 DEF Claims
<1>17. FundedUnlessRaced'
  <2> SUFFICES ASSUME NEW k \in Node, Funded(k) PROVE Funded(k)'
    BY <1>2, <1>4 DEF FundedUnlessRaced
  <2>1. CASE asked'[k] = asked[k]
    BY <1>4, <2>1 DEF Funded
  <2>2. CASE asked'[k] # asked[k]
    <3>1. grows /\ k = n /\ asked'[n] = total
      BY <1>2, <1>5, <1>7, <2>2 DEF ChainTypes
    <3>2. request \notin mail
      <4>1. request \in mail => total <= asked[n]
        BY <1>2 DEF Claims, MailAsked
      <4> QED BY <1>1, <1>3, <3>1, <4>1
    <3>3. isValidWithdrawAmount(ourState[n], partnerState[n], total)
      BY <1>6, <3>1, <3>2
    <3>4. total + ourState[n].balanceProof.transferredAmount
            <= ourState[n].contractBalance
                 + partnerState[n].balanceProof.transferredAmount
      BY <1>1, <3>1, <3>3, RequestFunded
    <3> QED BY <1>4, <3>1, <3>4 DEF Funded
  <2> QED BY <2>1, <2>2
<1> QED BY <1>2, <1>4, <1>16, <1>17, SidesKept

\* Messages that arrive or get lost, and a proxy that gives up.
LEMMA MailStep ==
  ASSUME WithdrawInv,
         \/ \E m \in mail : Lose(m)
         \/ \E n \in Node, m \in mail :
              HandleMessageWithdrawRequest(n, m) \/ HandleMessageWithdraw(n, m)
         \/ \E tx \in submitted : WithdrawProxyFails(tx)
  PROVE  Sides' /\ FundedUnlessRaced' /\ Claims'
<1>1. /\ Sides /\ FundedUnlessRaced /\ Claims
      /\ mail \subseteq WithdrawMessage /\ submitted \subseteq Transaction
      /\ \A m \in mail : m.total <= asked[m.participant]
      /\ \A tx \in submitted : tx.total <= asked[tx.participant]
  BY DEF WithdrawInv, Claims, ChainTypes, MailAsked, SubmittedAsked
<1> DEFINE Quiet == /\ UNCHANGED <<channelVars, transferVars, contractVars>>
                    /\ UNCHANGED <<asked, raced, depositQueue>>
           MailOK == /\ mail' \subseteq WithdrawMessage
                     /\ \A m \in mail' : m.total <= asked[m.participant]
           SubmittedOK ==
             /\ submitted' \subseteq Transaction
             /\ \A tx \in submitted' : tx.total <= asked[tx.participant]
<1>2. ASSUME NEW m \in mail, Lose(m)
      PROVE  Quiet /\ MailOK /\ SubmittedOK
  BY <1>1, <1>2 DEF Lose, chainVars, syncVars, historyVars
<1>3. ASSUME NEW n \in Node, NEW m \in mail, HandleMessageWithdrawRequest(n, m)
      PROVE  Quiet /\ MailOK /\ SubmittedOK
  <2> DEFINE answer == HandleSendWithdraw(m)
  <2>1. Quiet /\ SubmittedOK
    BY <1>1, <1>3 DEF HandleMessageWithdrawRequest, chainVars, syncVars, historyVars
  <2>2. m \in WithdrawMessage /\ m.total <= asked[m.participant]
    BY <1>1
  <2>3. /\ answer \in WithdrawMessage /\ answer.total = m.total
        /\ answer.participant = m.participant
    BY <2>2 DEF HandleSendWithdraw, WithdrawMessage
  <2> HIDE DEF answer
  <2>4. mail' \subseteq mail \cup {answer}
    BY <1>3 DEF HandleMessageWithdrawRequest, handleWithdrawRequestReceived, answer
  <2>5. MailOK
    BY <1>1, <2>2, <2>3, <2>4
  <2> QED BY <2>1, <2>5
<1>4. ASSUME NEW n \in Node, NEW m \in mail, HandleMessageWithdraw(n, m)
      PROVE  Quiet /\ MailOK /\ SubmittedOK
  <2> DEFINE tx == [participant |-> n, total |-> m.total]
  <2>1. Quiet /\ MailOK
    BY <1>1, <1>4 DEF HandleMessageWithdraw, syncVars, historyVars
  <2>2. m \in WithdrawMessage /\ m.total <= asked[m.participant] /\ m.participant = n
    BY <1>1, <1>4 DEF HandleMessageWithdraw
  <2>3. tx \in Transaction /\ tx.total <= asked[tx.participant]
    BY <2>2 DEF WithdrawMessage, Transaction
  <2>4. submitted' \subseteq submitted \cup {tx}
    BY <1>4 DEF HandleMessageWithdraw, handleWithdrawReceived
  <2> HIDE DEF tx
  <2>5. SubmittedOK
    BY <1>1, <2>3, <2>4
  <2> QED BY <2>1, <2>5
<1>5. ASSUME NEW tx \in submitted, WithdrawProxyFails(tx)
      PROVE  Quiet /\ MailOK /\ SubmittedOK
  <2>1. Quiet /\ MailOK /\ submitted' \subseteq submitted
    BY <1>1, <1>5 DEF WithdrawProxyFails, syncVars, historyVars
  <2> QED BY <1>1, <2>1
<1>6. Quiet /\ MailOK /\ SubmittedOK
  BY <1>2, <1>3, <1>4, <1>5
<1>7. Sides' /\ FundedUnlessRaced'
  BY <1>1, <1>6, SidesKept, FundedKept
<1>8. Claims'
  BY <1>1, <1>6, ClaimsKept
<1> QED BY <1>7, <1>8

-----------------------------------------------------------------------------
(* The contract.                                                           *)

\* An event that is credible joins the contract's events.
LEMMA EmitCredible ==
  ASSUME ChainTypes, NEW e \in ContractEvent, events' = Append(events, e),
         \A i \in 1 .. Len(events) : Credible(events[i], asked', deposit'),
         Credible(e, asked', deposit')
  PROVE  events' \in Seq(ContractEvent) /\ EventsCredible'
<1>1. events \in Seq(ContractEvent)
  BY DEF ChainTypes
<1>2. /\ Len(events) \in Nat /\ Len(events') = Len(events) + 1
      /\ events' \in Seq(ContractEvent)
      /\ \A i \in 1 .. Len(events) : events'[i] = events[i]
      /\ events'[Len(events) + 1] = e
  BY <1>1
<1>3. ASSUME NEW i \in 1 .. Len(events')
      PROVE  Credible(events'[i], asked', deposit')
  <2>1. i \in 1 .. Len(events) \/ i = Len(events) + 1
    BY <1>2
  <2> QED BY <1>2, <2>1
<1>4. EventsCredible'
  BY <1>3 DEF EventsCredible
<1> QED BY <1>2, <1>4

\* The contract pays out what was asked for.
LEMMA PayoutStep ==
  ASSUME WithdrawInv, NEW tx \in submitted, SetTotalWithdraw(tx)
  PROVE  Sides' /\ FundedUnlessRaced' /\ Claims'
<1> DEFINE n == tx.participant
           e == [name |-> "SetTotalWithdraw", participant |-> n, total |-> tx.total,
                 block |-> height + 1]
<1>1. Sides /\ FundedUnlessRaced /\ Claims /\ ChainTypes /\ height \in Nat
  BY DEF WithdrawInv, Claims, ClockTypes
<1>2. n \in Node /\ tx.total \in Amount /\ tx.total <= asked[n]
  BY <1>1 DEF Claims, ChainTypes, Transaction, SubmittedAsked
<1>3. /\ UNCHANGED <<channelVars, transferVars>> /\ UNCHANGED <<asked, raced>>
      /\ ourState' = ourState /\ partnerState' = partnerState
      /\ mail' = mail /\ deposit' = deposit /\ depositQueue' = depositQueue
      /\ withdrawn' = [withdrawn EXCEPT ![n] = tx.total]
      /\ submitted' \subseteq submitted /\ events' = Append(events, e)
  BY DEF SetTotalWithdraw, Emit, channelVars, syncVars, historyVars
<1>4. e \in ContractEvent
  BY <1>1, <1>2 DEF ContractEvent
<1>5. Credible(e, asked', deposit')
  BY <1>2, <1>3 DEF Credible
<1>6. \A i \in 1 .. Len(events) : Credible(events[i], asked', deposit')
  BY <1>1, <1>3 DEF Claims, EventsCredible
<1> HIDE DEF e
<1>7. events' \in Seq(ContractEvent) /\ EventsCredible'
  BY <1>1, <1>3, <1>4, <1>5, <1>6, EmitCredible
<1>8. WithdrawnAsked'
  BY <1>1, <1>2, <1>3 DEF Claims, ChainTypes, WithdrawnAsked
<1>9. ChainTypes' /\ MailAsked' /\ SubmittedAsked' /\ QueuesCredible'
  BY <1>1, <1>2, <1>3, <1>7
     DEF Claims, ChainTypes, MailAsked, SubmittedAsked, QueuesCredible
<1>10. CountedAsked' /\ DepositsBounded' /\ DepositsCounted'
  BY <1>1, <1>3 DEF Claims, CountedAsked, DepositsBounded, DepositsCounted
<1>11. Claims'
  BY <1>7, <1>8, <1>9, <1>10 DEF Claims
<1> QED BY <1>1, <1>3, <1>11, SidesKept, FundedKept

\* A participant adds to its deposit, within the bound.
LEMMA DepositStep ==
  ASSUME WithdrawInv, NEW n \in Node, NEW total \in 0 .. MaxDeposit,
         SetTotalDeposit(n, total)
  PROVE  Sides' /\ FundedUnlessRaced' /\ Claims'
<1> DEFINE e == [name |-> "SetTotalDeposit", participant |-> n, total |-> total,
                 block |-> height + 1]
<1>1. Sides /\ FundedUnlessRaced /\ Claims /\ ChainTypes /\ height \in Nat
  BY DEF WithdrawInv, Claims, ClockTypes
<1>2. total \in Amount /\ total \in Nat /\ total <= MaxDeposit
  BY WithdrawAssumption, EndStateAssumption DEF Amount
<1>3. /\ UNCHANGED <<channelVars, transferVars>> /\ UNCHANGED <<asked, raced>>
      /\ ourState' = ourState /\ partnerState' = partnerState
      /\ mail' = mail /\ submitted' = submitted /\ withdrawn' = withdrawn
      /\ depositQueue' = depositQueue
      /\ deposit' = [deposit EXCEPT ![n] = total] /\ total > deposit[n]
      /\ events' = Append(events, e)
  BY DEF SetTotalDeposit, Emit, channelVars, syncVars, historyVars
<1>4. e \in ContractEvent
  BY <1>1, <1>2 DEF ContractEvent
<1>5. /\ deposit' \in [Node -> Amount] /\ deposit'[n] = total
      /\ \A k \in Node : deposit[k] \in Nat /\ deposit'[k] \in Nat
      /\ \A k \in Node : deposit[k] <= deposit'[k]
  <2>1. deposit' \in [Node -> Amount] /\ deposit'[n] = total
    BY <1>1, <1>2, <1>3 DEF ChainTypes
  <2>2. \A k \in Node : deposit[k] \in Nat /\ deposit'[k] \in Nat
    BY <1>1, <2>1, AmountFacts DEF ChainTypes
  <2>3. \A k \in Node : deposit[k] <= deposit'[k]
    BY <1>1, <1>2, <1>3, <2>2 DEF ChainTypes
  <2> QED BY <2>1, <2>2, <2>3
<1>6. Credible(e, asked', deposit')
  BY <1>2, <1>5 DEF Credible
<1>7. \A i \in 1 .. Len(events) : Credible(events[i], asked', deposit')
  <2> SUFFICES ASSUME NEW i \in 1 .. Len(events)
               PROVE  Credible(events[i], asked, deposit')
    BY <1>3
  <2>1. /\ Credible(events[i], asked, deposit) /\ events[i].participant \in Node
        /\ events[i].total \in Nat
    BY <1>1, EventTypes DEF Claims, EventsCredible
  <2>2. events[i].total <= deposit[events[i].participant] =>
          events[i].total <= deposit'[events[i].participant]
    BY <1>5, <2>1
  <2> QED BY <2>1, <2>2 DEF Credible
<1> HIDE DEF e
<1>8. events' \in Seq(ContractEvent) /\ EventsCredible'
  BY <1>1, <1>3, <1>4, <1>6, <1>7, EmitCredible
<1>9. QueuesCredible'
  <2> SUFFICES ASSUME NEW k \in Node, NEW d \in depositQueue[k]
               PROVE  d.total <= deposit'[d.participant]
    BY <1>3 DEF QueuesCredible
  <2>1. /\ d.total <= deposit[d.participant] /\ d.participant \in Node
        /\ d.total \in Nat
    BY <1>1, AmountFacts DEF Claims, QueuesCredible, ChainTypes, ContractEvent
  <2> QED BY <1>5, <2>1
<1>10. DepositsBounded'
  BY <1>1, <1>2, <1>3, <1>5 DEF Claims, DepositsBounded, ChainTypes
<1>11. DepositsCounted'
  <2> SUFFICES ASSUME NEW k \in Node
               PROVE  /\ ourState[k].contractBalance <= deposit'[k]
                      /\ partnerState[k].contractBalance <= deposit'[Partner(k)]
    BY <1>3 DEF DepositsCounted
  <2>1. /\ ourState[k].contractBalance <= deposit[k]
        /\ partnerState[k].contractBalance <= deposit[Partner(k)]
        /\ ourState[k].contractBalance \in Nat
        /\ partnerState[k].contractBalance \in Nat
    BY <1>1, SideAmounts DEF Claims, DepositsCounted
  <2> QED BY <1>5, <2>1, Partners
<1>12. ChainTypes' /\ MailAsked' /\ SubmittedAsked' /\ WithdrawnAsked' /\ CountedAsked'
  BY <1>1, <1>3, <1>5, <1>8
     DEF Claims, ChainTypes, MailAsked, SubmittedAsked, WithdrawnAsked, CountedAsked
<1>13. Claims'
  BY <1>8, <1>9, <1>10, <1>11, <1>12 DEF Claims
<1> QED BY <1>1, <1>3, <1>13, SidesKept, FundedKept

-----------------------------------------------------------------------------
(* Blocks.                                                                 *)

\* Counting deposits and withdraws at node n leaves proofs as they are.
LEMMA RevaluedStep ==
  ASSUME WithdrawInv, NEW n \in Node, NEW our, NEW partner,
         Revalued(our, ourState[n]), Revalued(partner, partnerState[n]),
         ourState' = [ourState EXCEPT ![n] = our],
         partnerState' = [partnerState EXCEPT ![n] = partner],
         our.totalWithdraw <= asked[n],
         partner.totalWithdraw <= asked[Partner(n)],
         our.contractBalance >= ourState[n].contractBalance,
         our.contractBalance <= deposit[n],
         partner.contractBalance <= deposit[Partner(n)],
         UNCHANGED <<transferVars, contractVars, mail, submitted, asked, raced>>,
         depositQueue' \in [Node -> SUBSET ContractEvent], QueuesCredible'
  PROVE  Sides' /\ FundedUnlessRaced' /\ Claims'
<1> DEFINE p == Partner(n)
<1>1. p \in Node /\ p # n /\ Partner(p) = n /\ \A k \in Node : k = n \/ k = p
  BY Partners
<1>2. Sides /\ FundedUnlessRaced /\ Claims /\ ChainTypes
  BY DEF WithdrawInv, Claims
<1>3. /\ our \in EndStates /\ our.balanceProof = ourState[n].balanceProof
      /\ partner \in EndStates
      /\ partner.balanceProof = partnerState[n].balanceProof
      /\ Plain(our) /\ Plain(partner)
  BY <1>2, SideAmounts DEF Revalued
<1>4. /\ ourState' \in [Node -> EndStates] /\ partnerState' \in [Node -> EndStates]
      /\ ourState'[n] = our /\ ourState'[p] = ourState[p]
      /\ partnerState'[n] = partner /\ partnerState'[p] = partnerState[p]
      /\ sent' = sent /\ received' = received
  BY <1>1, <1>2, <1>3 DEF Sides, SideTypes, transferVars
<1>5. Chained(n)' /\ Chained(p)'
  BY <1>1, <1>2, <1>3, <1>4 DEF Sides, Chained
<1>6. Sides'
  BY <1>1, <1>2, <1>3, <1>4, <1>5 DEF Sides, SideTypes
<1>7. Funded(n) => Funded(n)'
  <2>1. /\ asked[n] \in Nat
        /\ ourState[n].balanceProof.transferredAmount \in Nat
        /\ ourState[n].contractBalance \in Nat
        /\ partnerState[n].balanceProof.transferredAmount \in Nat
        /\ our.contractBalance \in Nat
    BY <1>2, <1>3, SideAmounts, EndStateTypes, AmountFacts DEF ChainTypes
  <2>2. Funded(n) =>
          asked[n] + ourState[n].balanceProof.transferredAmount
            <= our.contractBalance + partnerState[n].balanceProof.transferredAmount
    BY <2>1 DEF Funded
  <2> QED BY <1>3, <1>4, <2>2 DEF Funded
<1>8. Funded(p) => Funded(p)'
  BY <1>4 DEF Funded
<1>9. FundedUnlessRaced'
  BY <1>1, <1>2, <1>7, <1>8 DEF FundedUnlessRaced
<1>10. CountedAsked' /\ DepositsCounted'
  BY <1>1, <1>2, <1>4
     DEF Claims, CountedAsked, DepositsCounted, contractVars
<1>11. ChainTypes' /\ MailAsked' /\ SubmittedAsked' /\ WithdrawnAsked'
  BY <1>2 DEF Claims, ChainTypes, MailAsked, SubmittedAsked, WithdrawnAsked,
     contractVars
<1>12. EventsCredible' /\ DepositsBounded'
  BY <1>2 DEF Claims, EventsCredible, DepositsBounded, contractVars
<1>13. Claims'
  BY <1>10, <1>11, <1>12 DEF Claims
<1> QED BY <1>6, <1>9, <1>13

\* A node sees that somebody withdrew.
LEMMA CountWithdrawStep ==
  ASSUME WithdrawInv, NEW n \in Node, HandleChannelWithdraw(n)
  PROVE  Sides' /\ FundedUnlessRaced' /\ Claims'
<1> DEFINE e == NextEvent(n)
           ours == WithTotalWithdraw(ourState[n], e.total)
           theirs == WithTotalWithdraw(partnerState[n], e.total)
<1>1. /\ Sides /\ Claims /\ ChainTypes /\ pos[n] \in Nat
      /\ ourState \in [Node -> EndStates] /\ partnerState \in [Node -> EndStates]
      /\ ourState[n] \in EndStates /\ partnerState[n] \in EndStates
  BY DEF WithdrawInv, Claims, ClockTypes, Sides, SideTypes
<1>2. Len(events) \in Nat
  BY <1>1 DEF ChainTypes
<1>3. pos[n] + 1 \in 1 .. Len(events) /\ e = events[pos[n] + 1]
  BY <1>1, <1>2 DEF HandleChannelWithdraw, HasEvent, NextEvent
<1>4. /\ e.total \in Amount /\ e.participant \in Node
      /\ e.total <= asked[e.participant]
  BY <1>1, <1>3, EventTypes
     DEF Claims, EventsCredible, Credible, HandleChannelWithdraw
<1>5. /\ Revalued(ours, ourState[n]) /\ ours.totalWithdraw = e.total
      /\ ours.contractBalance = ourState[n].contractBalance
      /\ Revalued(theirs, partnerState[n]) /\ theirs.totalWithdraw = e.total
      /\ theirs.contractBalance = partnerState[n].contractBalance
  BY <1>1, <1>4, WithdrawCounted
<1>6. /\ UNCHANGED <<transferVars, contractVars, mail, submitted, asked, raced>>
      /\ depositQueue' = depositQueue
  BY DEF HandleChannelWithdraw, chainVars, historyVars
<1>7. depositQueue' \in [Node -> SUBSET ContractEvent] /\ QueuesCredible'
  BY <1>1, <1>6 DEF Claims, ChainTypes, QueuesCredible, contractVars
<1>8. /\ ourState[n].totalWithdraw <= asked[n]
      /\ partnerState[n].totalWithdraw <= asked[Partner(n)]
      /\ ourState[n].contractBalance <= deposit[n]
      /\ partnerState[n].contractBalance <= deposit[Partner(n)]
  BY <1>1 DEF Claims, CountedAsked, DepositsCounted
<1>9. /\ ourState[n].contractBalance >= ourState[n].contractBalance
      /\ Revalued(ourState[n], ourState[n])
      /\ Revalued(partnerState[n], partnerState[n])
  BY <1>1, SideAmounts DEF Revalued
<1>10. /\ ourState = [ourState EXCEPT ![n] = ourState[n]]
       /\ partnerState = [partnerState EXCEPT ![n] = partnerState[n]]
  BY <1>1
<1>11. \/ /\ e.participant = n /\ ourState' = [ourState EXCEPT ![n] = ours]
          /\ partnerState' = partnerState
       \/ /\ e.participant # n /\ ourState' = ourState
          /\ partnerState' = [partnerState EXCEPT ![n] = theirs]
  BY DEF HandleChannelWithdraw, handleChannelWithdraw
<1> HIDE DEF e, ours, theirs
<1>12. CASE e.participant = n
  <2>1. ourState' = [ourState EXCEPT ![n] = ours]
        /\ partnerState' = [partnerState EXCEPT ![n] = partnerState[n]]
    BY <1>10, <1>11, <1>12
  <2> QED BY <1>4, <1>5, <1>6, <1>7, <1>8, <1>9, <1>12, <2>1, RevaluedStep
<1>13. CASE e.participant # n
  <2>1. ourState' = [ourState EXCEPT ![n] = ourState[n]]
        /\ partnerState' = [partnerState EXCEPT ![n] = theirs]
    BY <1>10, <1>11, <1>13
  <2>2. e.participant = Partner(n)
    BY <1>4, <1>13, Partners
  <2> QED BY <1>4, <1>5, <1>6, <1>7, <1>8, <1>9, <2>1, <2>2, RevaluedStep
<1> QED BY <1>12, <1>13

\* A node counts confirmed deposits, queued or not.
LEMMA ApplyStep ==
  ASSUME WithdrawInv, NEW n \in Node, NEW queue \in SUBSET ContractEvent,
         \A e \in queue : e.total <= deposit[e.participant],
         applyChannelNewBalance(n, queue),
         UNCHANGED <<transferVars, contractVars, mail, submitted, asked, raced>>,
         depositQueue' \in [Node -> SUBSET ContractEvent], QueuesCredible'
  PROVE  Sides' /\ FundedUnlessRaced' /\ Claims'
<1> DEFINE p == Partner(n)
           our == updateContractBalance(ourState[n], n, queue)
           partner == updateContractBalance(partnerState[n], p, queue)
<1>1. /\ ourState[n] \in EndStates /\ partnerState[n] \in EndStates
      /\ p \in Node /\ deposit[n] \in Amount /\ deposit[p] \in Amount
  BY Partners DEF WithdrawInv, Claims, ChainTypes, Sides, SideTypes
<1>2. /\ ourState[n].totalWithdraw <= asked[n]
      /\ partnerState[n].totalWithdraw <= asked[p]
      /\ ourState[n].contractBalance <= deposit[n]
      /\ partnerState[n].contractBalance <= deposit[p]
  BY DEF WithdrawInv, Claims, CountedAsked, DepositsCounted
<1>3. /\ Revalued(our, ourState[n]) /\ our.totalWithdraw = ourState[n].totalWithdraw
      /\ ourState[n].contractBalance <= our.contractBalance
      /\ our.contractBalance <= deposit[n]
  BY <1>1, <1>2, DepositsApplied
<1>4. /\ Revalued(partner, partnerState[n])
      /\ partner.totalWithdraw = partnerState[n].totalWithdraw
      /\ partner.contractBalance <= deposit[p]
  BY <1>1, <1>2, DepositsApplied
<1>5. /\ ourState' = [ourState EXCEPT ![n] = our]
      /\ partnerState' = [partnerState EXCEPT ![n] = partner]
  BY DEF applyChannelNewBalance
<1>6. our.contractBalance >= ourState[n].contractBalance
  BY <1>1, <1>3, EndStateTypes, AmountFacts DEF Revalued
<1> HIDE DEF our, partner
<1> QED BY <1>2, <1>3, <1>4, <1>5, <1>6, RevaluedStep

\* A node sees a deposit: it counts it at once or waits for blocks to confirm it.
LEMMA CountDepositStep ==
  ASSUME WithdrawInv, NEW n \in Node, HandleChannelNewBalance(n)
  PROVE  Sides' /\ FundedUnlessRaced' /\ Claims'
<1> DEFINE e == NextEvent(n)
<1>1. /\ Sides /\ FundedUnlessRaced /\ Claims /\ ChainTypes /\ pos[n] \in Nat
  BY DEF WithdrawInv, Claims, ClockTypes
<1>2. Len(events) \in Nat
  BY <1>1 DEF ChainTypes
<1>3. pos[n] + 1 \in 1 .. Len(events) /\ e = events[pos[n] + 1]
  BY <1>1, <1>2 DEF HandleChannelNewBalance, HasEvent, NextEvent
<1>4. e \in ContractEvent /\ e.total <= deposit[e.participant]
  BY <1>1, <1>3, EventTypes
     DEF Claims, EventsCredible, Credible, HandleChannelNewBalance
<1>5. UNCHANGED <<transferVars, contractVars, mail, submitted, asked, raced>>
  BY DEF HandleChannelNewBalance, chainVars, historyVars
<1>6. \/ applyChannelNewBalance(n, {e}) /\ depositQueue' = depositQueue
      \/ /\ depositQueue' = [depositQueue EXCEPT ![n] = @ \cup {e}]
         /\ UNCHANGED channelVars
  BY DEF HandleChannelNewBalance, handleChannelNewBalance
<1>7. /\ depositQueue \in [Node -> SUBSET ContractEvent]
      /\ deposit' = deposit
      /\ \A k \in Node : \A d \in depositQueue[k] : d.total <= deposit[d.participant]
  BY <1>1, <1>5 DEF Claims, ChainTypes, QueuesCredible, contractVars
<1> HIDE DEF e
<1>8. depositQueue' \in [Node -> SUBSET ContractEvent] /\ QueuesCredible'
  <2>1. CASE depositQueue' = depositQueue
    BY <1>7, <2>1 DEF QueuesCredible
  <2>2. CASE depositQueue' = [depositQueue EXCEPT ![n] = @ \cup {e}]
    <3>1. depositQueue' \in [Node -> SUBSET ContractEvent]
      BY <1>4, <1>7, <2>2
    <3>2. \A k \in Node : depositQueue'[k] \subseteq depositQueue[k] \cup {e}
      BY <1>7, <2>2
    <3> QED BY <1>4, <1>7, <3>1, <3>2 DEF QueuesCredible
  <2> QED BY <1>6, <2>1, <2>2
<1>9. CASE applyChannelNewBalance(n, {e})
  <2>1. {e} \in SUBSET ContractEvent /\ \A d \in {e} : d.total <= deposit[d.participant]
    BY <1>4
  <2> QED BY <1>5, <1>8, <1>9, <2>1, ApplyStep
<1>10. CASE UNCHANGED channelVars
  <2>1. Sides' /\ FundedUnlessRaced'
    BY <1>1, <1>5, <1>10, SidesKept, FundedKept
  <2>2. /\ ChainTypes' /\ MailAsked' /\ SubmittedAsked' /\ WithdrawnAsked'
        /\ EventsCredible' /\ DepositsBounded'
    BY <1>1, <1>5, <1>8
       DEF Claims, ChainTypes, MailAsked, SubmittedAsked, WithdrawnAsked,
           EventsCredible, DepositsBounded, contractVars
  <2>3. CountedAsked' /\ DepositsCounted'
    BY <1>1, <1>5, <1>10
       DEF Claims, CountedAsked, DepositsCounted, contractVars, channelVars
  <2> QED BY <1>8, <2>1, <2>2, <2>3 DEF Claims
<1> QED BY <1>6, <1>9, <1>10

\* A new block at a node: deposits it confirms are counted.
LEMMA BlockStep ==
  ASSUME WithdrawInv, NEW n \in Node, handleBlock(n)
  PROVE  Sides' /\ FundedUnlessRaced' /\ Claims'
<1> DEFINE confirmed ==
             {e \in depositQueue[n] : IsTransactionConfirmed(e.block, block[n] + 1)}
<1>1. /\ depositQueue \in [Node -> SUBSET ContractEvent]
      /\ \A k \in Node : \A d \in depositQueue[k] : d.total <= deposit[d.participant]
  BY DEF WithdrawInv, Claims, ChainTypes, QueuesCredible
<1>2. /\ applyChannelNewBalance(n, confirmed)
      /\ depositQueue' = [depositQueue EXCEPT ![n] = @ \ confirmed]
      /\ UNCHANGED <<transferVars, contractVars, mail, submitted, asked, raced>>
  BY DEF handleBlock, chainVars, historyVars
<1>3. /\ confirmed \in SUBSET ContractEvent
      /\ \A e \in confirmed : e.total <= deposit[e.participant]
  BY <1>1
<1> HIDE DEF confirmed
<1>4. depositQueue' \in [Node -> SUBSET ContractEvent] /\ QueuesCredible'
  <2>1. depositQueue' \in [Node -> SUBSET ContractEvent]
    BY <1>1, <1>2
  <2>2. deposit' = deposit /\ \A k \in Node : depositQueue'[k] \subseteq depositQueue[k]
    BY <1>1, <1>2 DEF contractVars
  <2> QED BY <1>1, <2>1, <2>2 DEF QueuesCredible
<1> QED BY <1>2, <1>3, <1>4, ApplyStep

-----------------------------------------------------------------------------
(* The other variables, and the induction.                                 *)

\* Steps that change none of the variables of sides and claims.
LEMMA OtherStep ==
  ASSUME WithdrawInv,
         UNCHANGED <<channelVars, transferVars, mail, submitted, contractVars,
                     depositQueue, asked, raced>>
  PROVE  Sides' /\ FundedUnlessRaced' /\ Claims'
<1>1. /\ Sides /\ FundedUnlessRaced /\ Claims
      /\ mail \subseteq WithdrawMessage /\ submitted \subseteq Transaction
      /\ \A m \in mail : m.total <= asked[m.participant]
      /\ \A tx \in submitted : tx.total <= asked[tx.participant]
  BY DEF WithdrawInv, Claims, ChainTypes, MailAsked, SubmittedAsked
<1>2. Sides' /\ FundedUnlessRaced'
  BY <1>1, SidesKept, FundedKept
<1>3. Claims'
  BY <1>1, ClaimsKept
<1> QED BY <1>2, <1>3

\* Setting or clearing the flag of one node.
LEMMA FlagSet ==
  \A f \in [Node -> BOOLEAN] : \A n \in Node :
    /\ [f EXCEPT ![n] = TRUE] \in [Node -> BOOLEAN]
    /\ [f EXCEPT ![n] = FALSE] \in [Node -> BOOLEAN]
OBVIOUS

\* Every step keeps the types of what a node keeps beside its channel.
LEMMA ClockStep ==
  ASSUME WithdrawInv, Next
  PROVE  ClockTypes'
<1> USE DEF WithdrawInv, ClockTypes, withdrawVars, syncVars, contractVars, chainVars
<1>1. ASSUME NEW n \in Node, NEW amount \in Amounts, handleSendDirectTransfer(n, amount)
      PROVE  ClockTypes'
  BY <1>1 DEF handleSendDirectTransfer
<1>2. ASSUME NEW n \in Node, handleReceiveDirectTransfer(n)
      PROVE  ClockTypes'
  BY <1>2 DEF handleReceiveDirectTransfer
<1>3. ASSUME NEW n \in Node, NEW total \in Totals, Withdraw(n, total)
      PROVE  ClockTypes'
  <2>1. /\ \/ withdrawTransaction' = [withdrawTransaction EXCEPT ![n] = block[n]]
           \/ withdrawTransaction' = [withdrawTransaction EXCEPT ![n] = NoTransaction]
        /\ \/ status' = [status EXCEPT ![n] = TRUE]
           \/ status' = [status EXCEPT ![n] = FALSE]
        /\ logged' = logged \/ logged' = [logged EXCEPT ![n] = block[n]]
        /\ calls' = calls \/ calls' = calls + 1
    BY <1>3 DEF Withdraw, handleSendWithdrawRequest, HandleSendWithdrawRequest,
       handleWithdrawFailure, WithdrawResultNotify
  <2>2. /\ height' = height /\ block' = block /\ pos' = pos
        /\ notifying' = notifying /\ restarts' = restarts
    BY <1>3 DEF Withdraw
  <2>3. /\ withdrawTransaction' \in [Node -> Nat \cup {NoTransaction}]
        /\ logged' \in [Node -> Nat \cup {NoTransaction}]
    BY <2>1
  <2>4. calls' \in Nat
    BY <2>1
  <2>5. status' \in [Node -> BOOLEAN]
    BY <2>1, FlagSet
  <2> QED BY <2>2, <2>3, <2>4, <2>5
<1>4. ASSUME NEW m \in mail, Lose(m)
      PROVE  ClockTypes'
  BY <1>4 DEF Lose
<1>5. ASSUME NEW n \in Node, NEW m \in mail,
             HandleMessageWithdrawRequest(n, m) \/ HandleMessageWithdraw(n, m)
      PROVE  ClockTypes'
  BY <1>5 DEF HandleMessageWithdrawRequest, HandleMessageWithdraw
<1>6. ASSUME NEW tx \in submitted, WithdrawProxyFails(tx) \/ SetTotalWithdraw(tx)
      PROVE  ClockTypes'
  BY <1>6 DEF WithdrawProxyFails, WithdrawResultNotify, SetTotalWithdraw
<1>7. ASSUME NEW n \in Node, NEW total \in 0 .. MaxDeposit, SetTotalDeposit(n, total)
      PROVE  ClockTypes'
  BY <1>7 DEF SetTotalDeposit
<1>8. ASSUME MineBlock
      PROVE  ClockTypes'
  BY <1>8 DEF MineBlock
<1>9. ASSUME NEW n \in Node, HandleChannelWithdraw(n)
      PROVE  ClockTypes'
  BY <1>9 DEF HandleChannelWithdraw, handleChannelWithdraw
<1>10. ASSUME NEW n \in Node, HandleChannelNewBalance(n)
       PROVE  ClockTypes'
  BY <1>10 DEF HandleChannelNewBalance
<1>11. ASSUME NEW n \in Node, HandleWithdrawSuccess(n)
       PROVE  ClockTypes'
  BY <1>11 DEF HandleWithdrawSuccess, WithdrawResultNotify
<1>12. ASSUME NEW n \in Node, handleBlock(n)
       PROVE  ClockTypes'
  <2>1. /\ \/ /\ withdrawTransaction' = withdrawTransaction
              /\ status' = status
           \/ /\ withdrawTransaction' =
                   [withdrawTransaction EXCEPT ![n] = NoTransaction]
              /\ status' = [status EXCEPT ![n] = FALSE]
        /\ block' = [block EXCEPT ![n] = block[n] + 1]
    BY <1>12 DEF handleBlock, handleWithdrawFailure, WithdrawResultNotify
  <2>2. /\ height' = height /\ pos' = pos /\ calls' = calls /\ logged' = logged
        /\ notifying' = notifying /\ restarts' = restarts
    BY <1>12 DEF handleBlock
  <2>3. withdrawTransaction' \in [Node -> Nat \cup {NoTransaction}]
    BY <2>1
  <2>4. block' \in [Node -> Nat]
    BY <2>1
  <2>5. status' \in [Node -> BOOLEAN]
    BY <2>1, FlagSet
  <2> QED BY <2>2, <2>3, <2>4, <2>5
<1>13. ASSUME NEW n \in Node, Restart(n)
       PROVE  ClockTypes'
  <2> DEFINE old == {i \in DOMAIN events : events[i].block <= block[n]}
  <2>1. DOMAIN events = 1 .. Len(events) /\ Len(events) \in Nat
    BY DEF Claims, ChainTypes
  <2>2. Cardinality(old) \in Nat
    <3>1. IsFiniteSet(1 .. Len(events))
      BY <2>1, FS_Interval
    <3>2. old \in SUBSET (1 .. Len(events))
      BY <2>1
    <3> HIDE DEF old
    <3>3. IsFiniteSet(old)
      BY <3>1, <3>2, FS_Subset
    <3> QED BY <3>3, FS_CardinalityType
  <2> HIDE DEF old
  <2>3. pos' = [pos EXCEPT ![n] = Cardinality(old)]
    BY <1>13 DEF Restart, old
  <2> QED BY <1>13, <2>2, <2>3 DEF Restart
<1> QED BY <1>1, <1>2, <1>3, <1>4, <1>5, <1>6, <1>7, <1>8, <1>9, <1>10, <1>11,
        <1>12, <1>13 DEF Next

\* The invariant holds in the initial states.
LEMMA WithdrawInit == Init => WithdrawInv
<1> SUFFICES ASSUME Init PROVE WithdrawInv
  OBVIOUS
<1> USE DEF Init
<1>1. \A n \in Node : /\ Deposits[n] \in Amount /\ Deposits[n] \in Nat
                     /\ Deposits[n] <= MaxDeposit
                     /\ Partner(n) \in Node
  BY WithdrawAssumption, AmountFacts, Partners
<1>2. \A d \in Amount : LET end == NewNettingChannelEndState(d)
                       IN /\ end \in EndStates /\ Plain(end)
                          /\ end.balanceProof = NoBalanceProof
                          /\ end.contractBalance = d /\ end.totalWithdraw = 0
  <2> TAKE d \in Amount
  <2>1. NewNettingChannelEndState(d) \in EndStates /\ Books(NewNettingChannelEndState(d))
    BY NewBooks
  <2> QED BY <2>1 DEF NewNettingChannelEndState, Plain, PendingLocks
<1>3. \A n \in Node :
        /\ ourState[n] = NewNettingChannelEndState(Deposits[n])
        /\ partnerState[n] = NewNettingChannelEndState(Deposits[Partner(n)])
        /\ sent[n] = <<>> /\ received[n] = 0 /\ asked[n] = 0
  OBVIOUS
<1>4. /\ ourState \in [Node -> EndStates] /\ partnerState \in [Node -> EndStates]
      /\ \A n \in Node : /\ Plain(ourState[n]) /\ Plain(partnerState[n])
                        /\ ourState[n].balanceProof = NoBalanceProof
                        /\ partnerState[n].balanceProof = NoBalanceProof
                        /\ ourState[n].contractBalance = Deposits[n]
                        /\ partnerState[n].contractBalance = Deposits[Partner(n)]
                        /\ ourState[n].totalWithdraw = 0
                        /\ partnerState[n].totalWithdraw = 0
  <2> HIDE DEF Init
  <2>1. /\ ourState = [n \in Node |-> NewNettingChannelEndState(Deposits[n])]
        /\ partnerState =
             [n \in Node |-> NewNettingChannelEndState(Deposits[Partner(n)])]
    BY DEF Init
  <2> QED BY <1>1, <1>2, <2>1
<1>5. sent \in [Node -> Seq(BalanceProof)] /\ received \in [Node -> Nat]
  OBVIOUS
<1>6. \A n \in Node : Chained(n)
  <2> SUFFICES ASSUME NEW n \in Node PROVE Chained(n)
    OBVIOUS
  <2>1. /\ ourState[n].balanceProof.nonce = 0
        /\ partnerState[Partner(n)].balanceProof.nonce = 0
    BY <1>1, <1>4 DEF NoBalanceProof
  <2>2. Len(sent[n]) = 0 /\ 1 .. Len(sent[n]) = {}
    BY <1>3
  <2> QED BY <1>3, <2>1, <2>2 DEF Chained
<1>7. Sides
  BY <1>4, <1>5, <1>6 DEF Sides, SideTypes
<1>8. 0 \in Amount
  BY AmountFacts
<1>9. ChainTypes
  BY <1>1, <1>8, WithdrawAssumption DEF ChainTypes
<1>10. MailAsked /\ SubmittedAsked /\ EventsCredible /\ QueuesCredible
  BY DEF MailAsked, SubmittedAsked, EventsCredible, QueuesCredible
<1>11. WithdrawnAsked /\ CountedAsked
  BY <1>1, <1>3, <1>4 DEF WithdrawnAsked, CountedAsked
<1>12. DepositsBounded /\ DepositsCounted
  BY <1>1, <1>4 DEF DepositsBounded, DepositsCounted
<1>13. FundedUnlessRaced
  BY <1>1, <1>3, <1>4 DEF FundedUnlessRaced, Funded, NoBalanceProof
<1>14. ClockTypes
  BY DEF ClockTypes
<1> QED BY <1>7, <1>9, <1>10, <1>11, <1>12, <1>13, <1>14 DEF WithdrawInv, Claims

\* Every step keeps the invariant.
LEMMA WithdrawNext == WithdrawInv /\ [Next]_vars => WithdrawInv'
<1> SUFFICES ASSUME WithdrawInv, [Next]_vars PROVE WithdrawInv'
  OBVIOUS
<1> DEFINE Goal == Sides' /\ FundedUnlessRaced' /\ Claims'
<1>1. ASSUME NEW n \in Node,
             \/ \E amount \in Amounts : handleSendDirectTransfer(n, amount)
             \/ handleReceiveDirectTransfer(n)
      PROVE  Goal
  <2>1. Sides' /\ FundedUnlessRaced' /\ CountedAsked' /\ DepositsCounted'
    BY <1>1, SendStep, ReceiveStep
  <2>2. /\ UNCHANGED <<mail, submitted, deposit, withdrawn, events, depositQueue,
                       asked>>
        /\ raced' \subseteq raced \cup {n}
    BY <1>1 DEF handleSendDirectTransfer, handleReceiveDirectTransfer, chainVars,
       contractVars, syncVars, historyVars
  <2>3. /\ ChainTypes' /\ MailAsked' /\ SubmittedAsked' /\ WithdrawnAsked'
        /\ EventsCredible' /\ QueuesCredible' /\ DepositsBounded'
    BY <2>2 DEF WithdrawInv, Claims, ChainTypes, MailAsked, SubmittedAsked,
       WithdrawnAsked, EventsCredible, QueuesCredible, DepositsBounded
  <2> QED BY <2>1, <2>3 DEF Claims
<1>2. ASSUME NEW n \in Node, NEW total \in Totals, Withdraw(n, total)
      PROVE  Goal
  BY <1>2, AskStep
<1>3. ASSUME \/ \E m \in mail : Lose(m)
             \/ \E n \in Node, m \in mail :
                  HandleMessageWithdrawRequest(n, m) \/ HandleMessageWithdraw(n, m)
             \/ \E tx \in submitted : WithdrawProxyFails(tx)
      PROVE  Goal
  BY <1>3, MailStep
<1>4. ASSUME NEW tx \in submitted, SetTotalWithdraw(tx)
      PROVE  Goal
  BY <1>4, PayoutStep
<1>5. ASSUME NEW n \in Node, NEW total \in 0 .. MaxDeposit, SetTotalDeposit(n, total)
      PROVE  Goal
  BY <1>5, DepositStep
<1>6. ASSUME NEW n \in Node, HandleChannelWithdraw(n)
      PROVE  Goal
  BY <1>6, CountWithdrawStep
<1>7. ASSUME NEW n \in Node, HandleChannelNewBalance(n)
      PROVE  Goal
  BY <1>7, CountDepositStep
<1>8. ASSUME NEW n \in Node, handleBlock(n)
      PROVE  Goal
  BY <1>8, BlockStep
<1>9. ASSUME \/ MineBlock \/ UNCHANGED vars
             \/ \E n \in Node : HandleWithdrawSuccess(n) \/ Restart(n)
      PROVE  Goal
  <2>1. UNCHANGED <<channelVars, transferVars, mail, submitted, contractVars,
                    depositQueue, asked, raced>>
    BY <1>9 DEF MineBlock, HandleWithdrawSuccess, Restart, vars, chainVars, syncVars,
       historyVars
  <2> QED BY <2>1, OtherStep
<1>10. Goal
  BY <1>1, <1>2, <1>3, <1>4, <1>5, <1>6, <1>7, <1>8, <1>9 DEF Next
<1>11. ClockTypes'
  <2>1. CASE UNCHANGED vars
    BY <2>1 DEF vars, WithdrawInv, ClockTypes, withdrawVars, chainVars, contractVars,
       syncVars
  <2> QED BY <2>1, ClockStep
<1> QED BY <1>10, <1>11 DEF WithdrawInv

-----------------------------------------------------------------------------
(* The results.                                                            *)

\* What a node asked for is covered in every behaviour, unless it raced.
THEOREM WithdrawCorrect == Spec => []WithdrawInv
BY WithdrawInit, WithdrawNext, PTL DEF Spec

\* The variables keep their types, for withdraws in any order and number.
THEOREM WithdrawTypes == Spec => []TypeOK
<1>1. WithdrawInv => TypeOK
  BY DEF WithdrawInv, Sides, SideTypes, Claims, ChainTypes, ClockTypes, TypeOK
<1> QED BY <1>1, WithdrawCorrect, PTL

\* What a participant took out and what it signed away stay covered unless it
\* sent transfers while a request of it was open.
THEOREM WithdrawsCovered == Spec => []CoveredUnlessRaced
<1>1. ASSUME WithdrawInv PROVE CoveredUnlessRaced
  <2> SUFFICES ASSUME NEW n \in Node, n \notin raced PROVE Covered(n)
    BY DEF CoveredUnlessRaced
  <2>1. /\ asked[n] \in Nat /\ withdrawn[n] \in Nat /\ deposit[n] \in Nat
        /\ ourState[n].balanceProof.transferredAmount \in Nat
        /\ partnerState[n].balanceProof.transferredAmount \in Nat
        /\ ourState[n].contractBalance \in Nat
    BY <1>1, SideAmounts, AmountFacts DEF WithdrawInv, Claims, ChainTypes
  <2>2. /\ withdrawn[n] <= asked[n] /\ ourState[n].contractBalance <= deposit[n]
        /\ Funded(n)
    BY <1>1 DEF WithdrawInv, Claims, WithdrawnAsked, DepositsCounted, FundedUnlessRaced
  <2> QED BY <2>1, <2>2 DEF Covered, Funded
<1> QED BY <1>1, WithdrawCorrect, PTL

\* What node n's books say of a side that has not spent more than it has is
\* exact: nothing wraps around.
LEMMA SettleExact ==
  ASSUME NEW c \in Amount, NEW w \in Amount, NEW t \in Amount, NEW r \in Amount,
         w + t <= c + r, c + r - t <= MaxUint64
  PROVE  Sub64(Add64(Sub64(c, w), r), t) = c - w + r - t
<1> DEFINE W == MaxUint64 + 1
<1>1. /\ c \in Nat /\ w \in Nat /\ t \in Nat /\ r \in Nat /\ W \in Nat
      /\ c < W /\ w < W /\ t < W /\ r < W
  BY EndStateAssumption DEF Amount
<1>2. PICK a \in Amount : a = Sub64(c, w) /\ (a = c - w \/ a = c - w + W)
  BY SubCases, AmountFacts
<1>3. PICK d \in Amount : d = Add64(a, r) /\ (d = a + r \/ d = a + r - W)
  BY AddCases, AmountFacts
<1>4. PICK b \in Amount : b = Sub64(d, t) /\ (b = d - t \/ b = d - t + W)
  BY SubCases, AmountFacts
<1>5. a \in Nat /\ d \in Nat /\ b \in Nat /\ b < W /\ MaxUint64 = W - 1
  BY EndStateAssumption DEF Amount
<1>6. b = c - w + r - t
  <2> HIDE DEF W
  <2> QED BY <1>1, <1>2, <1>3, <1>4, <1>5
<1> QED BY <1>2, <1>3, <1>4, <1>6

\* When nobody raced and n counts what its partner counts, each side of n is
\* covered in n's books, and no balance exceeds both deposits.
LEMMA BothCovered ==
  ASSUME WithdrawInv, raced = {}, NEW n \in Node, ~Behind(n)
  PROVE  LET our == ourState[n]
             partner == partnerState[n]
             peer == ourState[Partner(n)]
             t == our.balanceProof.transferredAmount
             r == partner.balanceProof.transferredAmount
             s == peer.balanceProof.transferredAmount
         IN /\ our.totalWithdraw + t <= our.contractBalance + r
            /\ partner.totalWithdraw + s <= partner.contractBalance + t
            /\ r <= s
            /\ our.contractBalance + r - t <= MaxUint64
            /\ partner.contractBalance + t - r <= MaxUint64
<1> DEFINE p == Partner(n)
           our == ourState[n]
           partner == partnerState[n]
           peer == ourState[p]
           t == our.balanceProof.transferredAmount
           r == partner.balanceProof.transferredAmount
           s == peer.balanceProof.transferredAmount
           q == partnerState[p].balanceProof.transferredAmount
           D == MaxDeposit
<1>1. p \in Node /\ Partner(p) = n
  BY Partners
<1>2. /\ our.contractBalance \in Nat /\ our.totalWithdraw \in Nat /\ t \in Nat
      /\ partner.contractBalance \in Nat /\ partner.totalWithdraw \in Nat
      /\ r \in Nat /\ peer.contractBalance \in Nat /\ s \in Nat /\ q \in Nat
  BY <1>1, SideAmounts DEF WithdrawInv
<1>3. /\ asked[n] \in Nat /\ asked[p] \in Nat /\ D \in Nat /\ MaxUint64 \in Nat
      /\ deposit[n] \in Nat /\ deposit[p] \in Nat /\ 2 * D < MaxUint64
  BY <1>1, AmountFacts, WithdrawAssumption DEF WithdrawInv, Claims, ChainTypes
<1>4. /\ asked[n] + t <= our.contractBalance + r
      /\ asked[p] + s <= peer.contractBalance + q
  BY <1>1 DEF WithdrawInv, FundedUnlessRaced, Funded
<1>5. r <= s /\ q <= t
  BY <1>1, KnownBehind DEF WithdrawInv
<1>6. /\ our.totalWithdraw <= asked[n] /\ partner.totalWithdraw <= asked[p]
      /\ our.contractBalance <= deposit[n] /\ deposit[n] <= D
      /\ partner.contractBalance <= deposit[p] /\ deposit[p] <= D
      /\ peer.contractBalance <= deposit[p]
  BY <1>1 DEF WithdrawInv, Claims, CountedAsked, DepositsCounted, DepositsBounded
<1>7. peer.contractBalance <= partner.contractBalance
  BY <1>2 DEF Behind
<1> HIDE DEF p, our, partner, peer, t, r, s, q, D
<1>8. /\ our.totalWithdraw + t <= our.contractBalance + r
      /\ partner.totalWithdraw + s <= partner.contractBalance + t
  BY <1>2, <1>3, <1>4, <1>5, <1>6, <1>7
<1>9. /\ our.contractBalance + r - t <= 2 * D
      /\ partner.contractBalance + t - r <= 2 * D
  BY <1>2, <1>3, <1>4, <1>5, <1>6
<1>10. /\ our.contractBalance + r - t <= MaxUint64
       /\ partner.contractBalance + t - r <= MaxUint64
  BY <1>2, <1>3, <1>9
<1> QED BY <1>5, <1>8, <1>10 DEF p, our, partner, peer, t, r, s

\* The two balances of a cooperative settlement add up to what is left in the
\* channel, unless somebody raced or one of them counts a deposit alone.
THEOREM BalancesAddUpUnlessRaced == Spec => []AddUpUnlessRaced
<1>1. ASSUME WithdrawInv PROVE AddUpUnlessRaced
  <2> SUFFICES ASSUME NEW n \in Node, raced = {}, ~Behind(n) PROVE AddUp(n)
    BY DEF AddUpUnlessRaced
  <2> DEFINE our == ourState[n]
             partner == partnerState[n]
             c == our.contractBalance
             w == our.totalWithdraw
             t == our.balanceProof.transferredAmount
             d == partner.contractBalance
             v == partner.totalWithdraw
             r == partner.balanceProof.transferredAmount
             s == ourState[Partner(n)].balanceProof.transferredAmount
  <2>1. our \in EndStates /\ partner \in EndStates /\ s \in Nat
    BY <1>1, SideAmounts, Partners DEF WithdrawInv
  <2>2. /\ c \in Amount /\ w \in Amount /\ t \in Amount
        /\ d \in Amount /\ v \in Amount /\ r \in Amount
    BY <2>1, EndStateTypes
  <2>3. /\ w + t <= c + r /\ v + s <= d + t /\ r <= s
        /\ c + r - t <= MaxUint64 /\ d + t - r <= MaxUint64
    BY <1>1, BothCovered
  <2>4. AddUp(n) <=> Sub64(Add64(Sub64(c, w), r), t)
                       + Sub64(Add64(Sub64(d, v), t), r) + w + v = c + d
    BY DEF AddUp, calculateCooperativeSettleBalance
  <2> HIDE DEF our, partner, c, w, t, d, v, r, s
  <2>5. /\ c \in Nat /\ w \in Nat /\ t \in Nat /\ d \in Nat /\ v \in Nat /\ r \in Nat
    BY <2>2, AmountFacts
  <2>6. v + r <= d + t
    BY <2>1, <2>3, <2>5
  <2>7. Sub64(Add64(Sub64(c, w), r), t) = c - w + r - t
    BY <2>2, <2>3, SettleExact
  <2>8. Sub64(Add64(Sub64(d, v), t), r) = d - v + t - r
    BY <2>2, <2>3, <2>6, SettleExact
  <2> QED BY <2>4, <2>5, <2>7, <2>8
<1> QED BY <1>1, WithdrawCorrect, PTL

\* A transfer that arrives in order passes the checks of a node that counts
\* what its partner counts, as long as nobody raced.
LEMMA InOrderIsValid ==
  ASSUME WithdrawInv, raced = {}, NEW n \in Node, ~Behind(n),
         received[Partner(n)] < Len(sent[Partner(n)]),
         partnerState[n].balanceProof.nonce >= received[Partner(n)]
  PROVE  IsValidDirectTransfer(sent[Partner(n)][received[Partner(n)] + 1],
                               partnerState[n], ourState[n], TRUE)
<1> DEFINE p == Partner(n)
           i == received[p] + 1
           bp == sent[p][i]
           sender == partnerState[n]
           known == sender.balanceProof
           t == known.transferredAmount
           left == sender.contractBalance
                     + ourState[n].balanceProof.transferredAmount
                     - sender.totalWithdraw - t
<1>1. p \in Node /\ Partner(p) = n /\ Sides
  BY Partners DEF WithdrawInv
<1>2. /\ sender \in EndStates /\ Plain(sender) /\ ourState[n] \in EndStates
      /\ known.nonce \in Nat /\ t \in Nat /\ received[p] \in Nat
      /\ Len(sent[p]) \in Nat
      /\ sender.contractBalance \in Nat /\ sender.totalWithdraw \in Nat
      /\ ourState[n].balanceProof.transferredAmount \in Nat
      /\ ourState[p].balanceProof.transferredAmount \in Nat
  BY <1>1, SideAmounts
<1>3. i \in 1 .. Len(sent[p])
  BY <1>2
<1>4. /\ bp \in BalanceProof /\ bp.nonce = i /\ bp.locksRoot = {}
      /\ bp.lockedAmount = 0 /\ bp.transferredAmount \in Nat
      /\ bp.transferredAmount > 0
      /\ bp.transferredAmount <= ourState[p].balanceProof.transferredAmount
  BY <1>1, <1>3, SideAmounts DEF Chained
<1>5. known.nonce = received[p] /\ (known.nonce # 0 => known = sent[p][received[p]])
  <2>1. /\ known.nonce <= received[p]
        /\ known.nonce # 0 => known = sent[p][known.nonce]
    BY <1>1, SideAmounts DEF Chained
  <2>2. known.nonce = received[p]
    <3>1. known.nonce >= received[p]
      OBVIOUS
    <3> HIDE DEF known, p
    <3> QED BY <1>2, <2>1, <3>1
  <2> QED BY <2>1, <2>2
<1>6. bp.transferredAmount > t
  <2>1. CASE known.nonce = 0
    BY <1>2, <1>4, <2>1, PlainFields
  <2>2. CASE known.nonce # 0
    <3>1. received[p] \in 1 .. Len(sent[p]) /\ received[p] < i
      BY <1>2, <1>5, <2>2
    <3>2. sent[p][received[p]].transferredAmount < bp.transferredAmount
      BY <1>1, <1>3, <3>1, SideAmounts DEF Chained
    <3>3. t = sent[p][received[p]].transferredAmount
      BY <1>5, <2>2
    <3> HIDE DEF t, bp
    <3> QED BY <1>2, <1>4, <3>2, <3>3
  <2> QED BY <2>1, <2>2
<1>7. /\ known.lockedAmount = 0 /\ known.locksRoot = {}
      /\ currentLockedAmount(sender) = 0 /\ getNextNonce(sender) = i
  BY <1>2, <1>5, PlainFields DEF getNextNonce
<1>8. /\ sender.totalWithdraw + ourState[p].balanceProof.transferredAmount
           <= sender.contractBalance + ourState[n].balanceProof.transferredAmount
      /\ t <= ourState[p].balanceProof.transferredAmount
      /\ sender.contractBalance + ourState[n].balanceProof.transferredAmount - t
           <= MaxUint64
  BY BothCovered
<1> HIDE DEF p, bp, t, known
<1>9. sender.totalWithdraw + t
        <= sender.contractBalance + ourState[n].balanceProof.transferredAmount
  <2> HIDE DEF sender
  <2> QED BY <1>2, <1>8
<1>10. left <= MaxUint64 /\ bp.transferredAmount - t <= left
  <2>1. MaxUint64 \in Nat
    BY AmountFacts
  <2> DEFINE c == sender.contractBalance
             w == sender.totalWithdraw
             u == ourState[n].balanceProof.transferredAmount
             s == ourState[p].balanceProof.transferredAmount
             b == bp.transferredAmount
  <2>2. /\ c \in Nat /\ w \in Nat /\ u \in Nat /\ s \in Nat /\ t \in Nat
        /\ b \in Nat /\ b <= s /\ w + s <= c + u /\ c + u - t <= MaxUint64
    BY <1>2, <1>4, <1>8
  <2>3. left = c + u - w - t
    OBVIOUS
  <2> HIDE DEF left, c, w, u, s, b
  <2>4. left <= MaxUint64 /\ b - t <= left
    BY <2>1, <2>2, <2>3
  <2> QED BY <2>4 DEF b
<1>11. GetDistributable(sender, ourState[n]) = Min(MaxUint64 - t, left)
  BY <1>2, <1>9, <1>10, Distributable DEF t, known
<1>12. /\ bp.transferredAmount \in Amount /\ MaxUint64 \in Nat
       /\ bp.transferredAmount <= MaxUint64
  BY <1>4, AmountFacts DEF BalanceProof
<1>13. Sub64(bp.transferredAmount, t) = bp.transferredAmount - t
  BY <1>2, <1>4, <1>6, <1>12, SubExact
<1>14. Sub64(bp.transferredAmount, t) <= GetDistributable(sender, ourState[n])
  <2> HIDE DEF left
  <2> QED BY <1>2, <1>4, <1>10, <1>11, <1>12, <1>13 DEF Min
<1>15. IsBalanceProofUsableOnChain(bp, sender, TRUE)
  BY <1>4, <1>7, <1>12, AddExact
     DEF IsBalanceProofUsableOnChain, IsBalanceProofSafeForOnchainOperations
<1> QED BY <1>4, <1>6, <1>7, <1>14, <1>15 DEF IsValidDirectTransfer, p, bp, t, known

\* A transfer is refused only by a node that is behind, after another refusal,
\* or after somebody raced.
THEOREM RefusalsExplained == Spec => RefusedOnlyWhenBehind
<1>1. ASSUME WithdrawInv, [Next]_vars
      PROVE  [\A n \in Node :
                LET p == Partner(n)
                IN handleReceiveDirectTransfer(n) /\ UNCHANGED partnerState =>
                     \/ Behind(n)
                     \/ partnerState[n].balanceProof.nonce < received[p]
                     \/ raced # {}]_vars
  <2> SUFFICES ASSUME NEW n \in Node, handleReceiveDirectTransfer(n),
                      UNCHANGED partnerState, ~Behind(n), raced = {},
                      ~(partnerState[n].balanceProof.nonce < received[Partner(n)])
               PROVE  FALSE
    OBVIOUS
  <2> DEFINE p == Partner(n)
             bp == sent[p][received[p] + 1]
  <2>1. /\ partnerState[n] \in EndStates /\ received[p] \in Nat
        /\ partnerState[n].balanceProof.nonce \in Nat
        /\ partnerState \in [Node -> EndStates] /\ p \in Node
    BY <1>1, Partners, SideAmounts DEF WithdrawInv, Sides, SideTypes
  <2>2. partnerState[n].balanceProof.nonce >= received[p]
    <3> HIDE DEF p
    <3>1. ~(partnerState[n].balanceProof.nonce < received[p])
      BY DEF p
    <3> QED BY <2>1, <3>1
  <2>3. received[p] < Len(sent[p])
    BY DEF handleReceiveDirectTransfer
  <2>4. IsValidDirectTransfer(bp, partnerState[n], ourState[n], TRUE)
    BY <1>1, <2>2, <2>3, InOrderIsValid
  <2>5. partnerState' = [partnerState EXCEPT ![n] = WithTransfer(partnerState[n], bp)]
    BY <2>4 DEF handleReceiveDirectTransfer
  <2> HIDE DEF bp
  <2>6. partnerState[n].balanceProof = bp
    BY <2>1, <2>5 DEF WithTransfer, EndStates
  <2>7. bp.nonce = partnerState[n].balanceProof.nonce + 1
    BY <2>1, <2>4, NextNonce DEF IsValidDirectTransfer, IsBalanceProofUsableOnChain
  <2> QED BY <2>1, <2>6, <2>7
<1> QED BY <1>1, WithdrawCorrect, PTL DEF Spec, RefusedOnlyWhenBehind
=============================================================================
