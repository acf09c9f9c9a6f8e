--------------------------- MODULE ChannelWithdraw ---------------------------
(***************************************************************************)
(* Funds enter and leave an open channel while its participants pay each   *)
(* other directly.                                                         *)
(*                                                                         *)
(* A withdraw takes four steps: the participant signs a request, its       *)
(* partner countersigns (Withdraw), the participant hands both signatures  *)
(* to the contract, and both nodes see the contract's event.  Request and  *)
(* answer are sent once, outside of the transport's queues: they overtake  *)
(* transfers and get lost.  A request that takes too long is given up at a *)
(* block.  Nothing is reserved for it meanwhile.                           *)
(*                                                                         *)
(* A deposit is made at the contract; each node counts it once its own     *)
(* block height confirms it.                                               *)
(*                                                                         *)
(* One action is one state change with the events it leads to, as in       *)
(* ChannelTransfers.  Hash-locked transfers are left out: to this module   *)
(* a lock is a transfer that is not there yet.                             *)
(***************************************************************************)
EXTENDS EndState, Sequences

CONSTANTS
  A, B,             \* the participants
  Deposits,         \* the contract balance of each when the channel opened
  Amounts,          \* the amounts users ask to transfer
  Totals,           \* the totals users ask to withdraw
  WithdrawTimeout,  \* common.Config.WithdrawTimeout
  MaxHeight,        \* bound: the last block of the chain
  MaxLag,           \* bound: how many blocks a node may be behind
  MaxDirect,        \* bound: transfers of each node
  MaxCalls,         \* bound: valid withdraws users ask for
  MaxDeposit,       \* bound: the contract balance of each
  MaxRestarts       \* bound: restarts of nodes

Node == {A, B}
Partner(n) == IF n = A THEN B ELSE A

ASSUME WithdrawAssumption ==
  /\ A # B
  /\ Deposits \in [Node -> Amount]
  /\ Amounts \subseteq Amount
  /\ Totals \subseteq Amount
  /\ WithdrawTimeout \in Nat
  /\ MaxHeight \in Nat
  /\ MaxLag \in Nat
  /\ MaxDirect \in Nat
  /\ MaxCalls \in Nat
  /\ MaxDeposit \in Amount
  /\ \A n \in Node : Deposits[n] <= MaxDeposit
  /\ 2 * MaxDeposit < MaxUint64
  /\ MaxRestarts \in Nat

VARIABLES
  ourState,             \* ourState[n]: OurState of n's channel
  partnerState,         \* partnerState[n]: PartnerState of n's channel
  withdrawTransaction,  \* block at which n asked, or NoTransaction
  logged,               \* what the write-ahead log makes of it
  depositQueue,         \* deposits n saw that are not confirmed yet
  status,               \* channelWithdrawStatus: n's user waits for a result
  notifying,            \* goroutines of HandleWithdrawSuccess at n
  calls,                \* valid withdraws users asked for
  sent, received,       \* transfers of n, and how many the partner has
  mail,                 \* withdraw messages on their way
  submitted,            \* transactions on their way to the contract
  deposit, withdrawn,   \* the contract: totals of each participant
  events,               \* the contract's events
  height,               \* the chain's height
  block, pos,           \* n's height, and how many of the events it handled
  asked,                \* history: the largest total n signed a request for
  raced,                \* history: who sent transfers in spite of it
  restarts

channelVars == <<ourState, partnerState>>
withdrawVars == <<withdrawTransaction, logged, status, notifying, calls>>
transferVars == <<sent, received>>
contractVars == <<deposit, withdrawn, events>>
chainVars == <<submitted, contractVars, height>>
syncVars == <<block, pos, depositQueue>>
historyVars == <<asked, raced>>
vars == <<channelVars, withdrawVars, transferVars, mail, chainVars, syncVars,
          historyVars, restarts>>

NoTransaction == -1

WithdrawMessage ==
  [type : {"WithdrawRequest", "Withdraw"}, participant : Node, total : Amount]
Transaction == [participant : Node, total : Amount]
ContractEvent ==
  [name : {"SetTotalDeposit", "SetTotalWithdraw"}, participant : Node,
   total : Amount, block : Nat]

Init ==
  /\ ourState = [n \in Node |-> NewNettingChannelEndState(Deposits[n])]
  /\ partnerState = [n \in Node |-> NewNettingChannelEndState(Deposits[Partner(n)])]
  /\ withdrawTransaction = [n \in Node |-> NoTransaction]
  /\ logged = [n \in Node |-> NoTransaction]
  /\ depositQueue = [n \in Node |-> {}]
  /\ status = [n \in Node |-> FALSE]
  /\ notifying = [n \in Node |-> 0]
  /\ calls = 0
  /\ sent = [n \in Node |-> <<>>] /\ received = [n \in Node |-> 0]
  /\ mail = {} /\ submitted = {}
  /\ deposit = Deposits /\ withdrawn = [n \in Node |-> 0] /\ events = <<>>
  /\ height = 0
  /\ block = [n \in Node |-> 0] /\ pos = [n \in Node |-> 0]
  /\ asked = [n \in Node |-> 0] /\ raced = {}
  /\ restarts = 0

-----------------------------------------------------------------------------
(* Transfers.                                                              *)

\* A request n signed may still be taken to the contract.
Outstanding(n) == asked[n] > ourState[n].totalWithdraw

handleSendDirectTransfer(n, amount) ==
  LET our == ourState[n]
      bp == createSendDirectTransfer(our, amount)
  IN /\ Len(sent[n]) < MaxDirect
     /\ amount > 0
     /\ Add64(our.balanceProof.transferredAmount, amount) < MaxUint64
     /\ amount <= GetDistributable(our, partnerState[n])
     /\ ourState' = [ourState EXCEPT ![n] = WithTransfer(our, bp)]
     /\ sent' = [sent EXCEPT ![n] = Append(@, bp)]
     /\ raced' = IF Outstanding(n) THEN raced \cup {n} ELSE raced
     /\ UNCHANGED <<partnerState, withdrawVars, received, mail, chainVars,
                    syncVars, asked, restarts>>

handleReceiveDirectTransfer(n) ==
  LET p == Partner(n)
      bp == sent[p][received[p] + 1]
  IN /\ received[p] < Len(sent[p])
     /\ received' = [received EXCEPT ![p] = @ + 1]
     /\ partnerState' =
          IF IsValidDirectTransfer(bp, partnerState[n], ourState[n], TRUE)
          THEN [partnerState EXCEPT ![n] = WithTransfer(@, bp)]
          ELSE partnerState
     /\ UNCHANGED <<ourState, withdrawVars, sent, mail, chainVars, syncVars,
                    historyVars, restarts>>

-----------------------------------------------------------------------------
(* Withdraws.                                                              *)

\* Mutant: the amount is not compared with what can be spent.
WithinDeposits(participant, partner, total) ==
  /\ total > participant.totalWithdraw
  /\ Add64(total, partner.totalWithdraw)
       <= Add64(participant.contractBalance, partner.contractBalance)

isValidWithdrawAmount(participant, partner, total) ==
  /\ total > participant.totalWithdraw
  /\ Add64(total, partner.totalWithdraw)
       <= Add64(participant.contractBalance, partner.contractBalance)
  /\ Sub64(total, participant.totalWithdraw) <= GetDistributable(participant, partner)

\* WithdrawResultNotify: the user who waits, if any, has a result.
WithdrawResultNotify(n) == status' = [status EXCEPT ![n] = FALSE]

\* The result is a failure, and the transaction is forgotten, in the memory of
\* the node only: this is no state change.
handleWithdrawFailure(n) ==
  /\ WithdrawResultNotify(n)
  /\ withdrawTransaction' = [withdrawTransaction EXCEPT ![n] = NoTransaction]

\* The request is recorded and sent; the user waits.  The peer-to-peer layer
\* may report an error although the request is on its way.
HandleSendWithdrawRequest(n, request) ==
  \/ /\ withdrawTransaction' = [withdrawTransaction EXCEPT ![n] = block[n]]
     /\ status' = [status EXCEPT ![n] = TRUE]
     /\ mail' = mail \cup {request}
  \/ /\ handleWithdrawFailure(n)
     /\ mail' \in {mail, mail \cup {request}}

handleSendWithdrawRequest(n, request) ==
  LET valid == isValidWithdrawAmount(ourState[n], partnerState[n], request.total)
  IN \/ /\ valid
        /\ calls < MaxCalls
        /\ calls' = calls + 1
        /\ logged' = [logged EXCEPT ![n] = block[n]]
        /\ HandleSendWithdrawRequest(n, request)
     \/ /\ ~valid
        /\ handleWithdrawFailure(n)
        /\ UNCHANGED <<calls, logged, mail>>

\* The user asks, and waits until there is a result.
Withdraw(n, total) ==
  LET request == [type |-> "WithdrawRequest", participant |-> n, total |-> total]
  IN /\ ~status[n]
     /\ handleSendWithdrawRequest(n, request)
     /\ asked' = IF request \in mail' /\ total > asked[n]
                 THEN [asked EXCEPT ![n] = total] ELSE asked
     /\ UNCHANGED <<channelVars, notifying, transferVars, chainVars, syncVars,
                    raced, restarts>>

\* The answer, countersigned, is sent once and may fail to leave the node.
HandleSendWithdraw(m) == [m EXCEPT !.type = "Withdraw"]

\* The partner countersigns what its own books allow.  A request that they do
\* not allow is not answered.
handleWithdrawRequestReceived(n, m) ==
  IF isValidWithdrawAmount(partnerState[n], ourState[n], m.total)
  THEN {HandleSendWithdraw(m)} ELSE {}

HandleMessageWithdrawRequest(n, m) ==
  /\ m \in mail /\ m.type = "WithdrawRequest" /\ m.participant = Partner(n)
  /\ mail' = (mail \ {m}) \cup handleWithdrawRequestReceived(n, m)
  /\ UNCHANGED <<channelVars, withdrawVars, transferVars, chainVars, syncVars,
                 historyVars, restarts>>

\* The amount is not looked at again.
handleWithdrawReceived(n, m) ==
  submitted' = submitted \cup {[participant |-> n, total |-> m.total]}

\* An answer is good for whatever request is open.
HandleMessageWithdraw(n, m) ==
  /\ m \in mail /\ m.type = "Withdraw" /\ m.participant = n
  /\ mail' = mail \ {m}
  /\ \/ /\ withdrawTransaction[n] # NoTransaction
        /\ handleWithdrawReceived(n, m)
     \/ /\ withdrawTransaction[n] = NoTransaction
        /\ UNCHANGED submitted
  /\ UNCHANGED <<channelVars, withdrawVars, transferVars, contractVars, height,
                 syncVars, historyVars, restarts>>

Lose(m) ==
  /\ m \in mail
  /\ mail' = mail \ {m}
  /\ UNCHANGED <<channelVars, withdrawVars, transferVars, chainVars, syncVars,
                 historyVars, restarts>>

\* HandleContractSendChannelWithdraw: the proxy returns an error when the
\* transaction fails, and also when it waits too long for a good one.
WithdrawProxyFails(tx) ==
  /\ tx \in submitted
  /\ submitted' \in {submitted, submitted \ {tx}}
  /\ WithdrawResultNotify(tx.participant)
  /\ UNCHANGED <<channelVars, withdrawTransaction, logged, notifying, calls,
                 transferVars, mail, contractVars, height, syncVars, historyVars,
                 restarts>>

-----------------------------------------------------------------------------
(* The contract.  Its events belong to the block that comes next.          *)

Emit(name, n, total) ==
  events' = Append(events, [name |-> name, participant |-> n, total |-> total,
                            block |-> height + 1])

SetTotalWithdraw(tx) ==
  LET p == Partner(tx.participant)
  IN /\ tx \in submitted
     /\ height < MaxHeight
     /\ tx.total > withdrawn[tx.participant]
     /\ tx.total + withdrawn[p] <= deposit[A] + deposit[B]
     /\ withdrawn' = [withdrawn EXCEPT ![tx.participant] = tx.total]
     /\ submitted' = submitted \ {tx}
     /\ Emit("SetTotalWithdraw", tx.participant, tx.total)
     /\ UNCHANGED <<channelVars, withdrawVars, transferVars, mail, deposit, height,
                    syncVars, historyVars, restarts>>

\* The user adds to the deposit; so does JoinChannel when the partner did.
SetTotalDeposit(n, total) ==
  /\ height < MaxHeight
  /\ total >= ourState[n].contractBalance
  /\ total > deposit[n]
  /\ deposit' = [deposit EXCEPT ![n] = total]
  /\ Emit("SetTotalDeposit", n, total)
  /\ UNCHANGED <<channelVars, withdrawVars, transferVars, mail, submitted,
                 withdrawn, height, syncVars, historyVars, restarts>>

MineBlock ==
  /\ height < MaxHeight
  /\ \A n \in Node : height - block[n] < MaxLag
  /\ height' = height + 1
  /\ UNCHANGED <<channelVars, withdrawVars, transferVars, mail, submitted,
                 contractVars, syncVars, historyVars, restarts>>

-----------------------------------------------------------------------------
(* Blocks.  CallbackNewBlock hands over the events of the next block, then *)
(* the block.                                                              *)

NextEvent(n) == events[pos[n] + 1]

HasEvent(n) ==
  /\ pos[n] < Len(events)
  /\ NextEvent(n).block = block[n] + 1
  /\ block[n] < height

\* Mutant: the event's total is taken for an increment.
AddsWithdraw(end, total) == [end EXCEPT !.totalWithdraw = Add64(@, total)]

WithTotalWithdraw(end, total) == [end EXCEPT !.totalWithdraw = total]

\* The transaction is forgotten whoever withdrew.
handleChannelWithdraw(n, e) ==
  /\ \/ /\ e.participant = n
        /\ ourState' = [ourState EXCEPT ![n] = WithTotalWithdraw(@, e.total)]
        /\ UNCHANGED partnerState
     \/ /\ e.participant # n
        /\ partnerState' = [partnerState EXCEPT ![n] = WithTotalWithdraw(@, e.total)]
        /\ UNCHANGED ourState
  /\ withdrawTransaction' = [withdrawTransaction EXCEPT ![n] = NoTransaction]
  /\ logged' = [logged EXCEPT ![n] = NoTransaction]

\* The node that withdrew starts a goroutine that tells its user.
HandleChannelWithdraw(n) ==
  LET e == NextEvent(n)
  IN /\ HasEvent(n) /\ e.name = "SetTotalWithdraw"
     /\ pos' = [pos EXCEPT ![n] = @ + 1]
     /\ notifying' = [notifying EXCEPT ![n] = IF e.participant = n THEN @ + 1 ELSE @]
     /\ handleChannelWithdraw(n, e)
     /\ UNCHANGED <<status, calls, transferVars, mail, chainVars, block,
                    depositQueue, historyVars, restarts>>

\* Mutant: a result is told whether or not there was a withdraw.
NotifiesAnyway(n) ==
  /\ notifying' = [notifying EXCEPT ![n] = @ - 1]
  /\ WithdrawResultNotify(n)
  /\ UNCHANGED <<channelVars, withdrawTransaction, logged, calls, transferVars,
                 mail, chainVars, syncVars, historyVars, restarts>>

HandleWithdrawSuccess(n) ==
  /\ notifying[n] > 0
  /\ notifying' = [notifying EXCEPT ![n] = @ - 1]
  /\ WithdrawResultNotify(n)
  /\ UNCHANGED <<channelVars, withdrawTransaction, logged, calls, transferVars,
                 mail, chainVars, syncVars, historyVars, restarts>>

IsTransactionConfirmed(transactionBlock, blockNumber) ==
  blockNumber > transactionBlock + ConfirmBlockCount

\* The state after the deposits in queue were applied, which only raise it.
updateContractBalance(end, participant, queue) ==
  LET totals == {end.contractBalance} \cup
                  {e.total : e \in {d \in queue : d.participant = participant}}
  IN [end EXCEPT !.contractBalance =
        CHOOSE t \in totals : \A u \in totals : u <= t]

applyChannelNewBalance(n, queue) ==
  /\ ourState' = [ourState EXCEPT ![n] = updateContractBalance(@, n, queue)]
  /\ partnerState' =
       [partnerState EXCEPT ![n] = updateContractBalance(@, Partner(n), queue)]

handleChannelNewBalance(n, e) ==
  \/ /\ IsTransactionConfirmed(e.block, block[n])
     /\ applyChannelNewBalance(n, {e})
     /\ UNCHANGED depositQueue
  \/ /\ ~IsTransactionConfirmed(e.block, block[n])
     /\ depositQueue' = [depositQueue EXCEPT ![n] = @ \cup {e}]
     /\ UNCHANGED channelVars

HandleChannelNewBalance(n) ==
  LET e == NextEvent(n)
  IN /\ HasEvent(n) /\ e.name = "SetTotalDeposit"
     /\ pos' = [pos EXCEPT ![n] = @ + 1]
     /\ handleChannelNewBalance(n, e)
     /\ UNCHANGED <<withdrawVars, transferVars, mail, chainVars, block,
                    historyVars, restarts>>

\* Mutant: a withdraw is never given up.
NeverTooLong(n, blockNumber) == FALSE

TooLong(n, blockNumber) ==
  /\ withdrawTransaction[n] # NoTransaction
  /\ withdrawTransaction[n] + WithdrawTimeout < blockNumber

handleBlock(n) ==
  LET next == block[n] + 1
      confirmed == {e \in depositQueue[n] : IsTransactionConfirmed(e.block, next)}
  IN /\ block[n] < height
     /\ ~HasEvent(n)
     /\ block' = [block EXCEPT ![n] = next]
     /\ applyChannelNewBalance(n, confirmed)
     /\ depositQueue' = [depositQueue EXCEPT ![n] = @ \ confirmed]
     /\ \/ TooLong(n, next) /\ handleWithdrawFailure(n)
        \/ ~TooLong(n, next) /\ UNCHANGED <<withdrawTransaction, status>>
     /\ UNCHANGED <<logged, notifying, calls, transferVars, mail, chainVars, pos,
                    historyVars, restarts>>

\* A restart loses the goroutines and the users who wait.  The transaction is
\* what the last snapshot and the log after it say: a failure is not logged.
\* The events of an unfinished block are read again.
Restart(n) ==
  /\ restarts < MaxRestarts
  /\ restarts' = restarts + 1
  /\ status' = [status EXCEPT ![n] = FALSE]
  /\ notifying' = [notifying EXCEPT ![n] = 0]
  /\ \E tx \in {logged[n], withdrawTransaction[n]} :
       withdrawTransaction' = [withdrawTransaction EXCEPT ![n] = tx]
  /\ pos' = [pos EXCEPT ![n] =
       Cardinality({i \in DOMAIN events : events[i].block <= block[n]})]
  /\ UNCHANGED <<channelVars, logged, calls, transferVars, mail, chainVars, block,
                 depositQueue, historyVars>>

-----------------------------------------------------------------------------
\* Bound: a withdraw starts early enough to be given up in the model.
SoonEnough(n) == block[n] + WithdrawTimeout + 1 <= MaxHeight

Next ==
  \/ \E n \in Node, amount \in Amounts : handleSendDirectTransfer(n, amount)
  \/ \E n \in Node : handleReceiveDirectTransfer(n)
  \/ \E n \in Node, total \in Totals : SoonEnough(n) /\ Withdraw(n, total)
  \/ \E m \in mail : Lose(m)
  \/ \E n \in Node, m \in mail :
       HandleMessageWithdrawRequest(n, m) \/ HandleMessageWithdraw(n, m)
  \/ \E tx \in submitted : WithdrawProxyFails(tx) \/ SetTotalWithdraw(tx)
  \/ \E n \in Node, total \in 0 .. MaxDeposit : SetTotalDeposit(n, total)
  \/ MineBlock
  \/ \E n \in Node : HandleChannelWithdraw(n) \/ HandleChannelNewBalance(n)
  \/ \E n \in Node : HandleWithdrawSuccess(n)
  \/ \E n \in Node : handleBlock(n)
  \/ \E n \in Node : Restart(n)

Spec == Init /\ [][Next]_vars

\* The chain goes on, nodes follow it and goroutines end.  No message arrives
\* and no transaction is mined by fairness.
Fairness ==
  /\ WF_vars(MineBlock)
  /\ \A n \in Node :
       /\ WF_vars(HandleChannelWithdraw(n) \/ HandleChannelNewBalance(n))
       /\ WF_vars(handleBlock(n))
       /\ WF_vars(HandleWithdrawSuccess(n))
FairSpec == Spec /\ Fairness

-----------------------------------------------------------------------------
(* Properties.                                                             *)

\* Every variable holds values of its type.
TypeOK ==
  /\ ourState \in [Node -> EndStates] /\ partnerState \in [Node -> EndStates]
  /\ withdrawTransaction \in [Node -> Nat \cup {NoTransaction}]
  /\ logged \in [Node -> Nat \cup {NoTransaction}]
  /\ depositQueue \in [Node -> SUBSET ContractEvent]
  /\ status \in [Node -> BOOLEAN] /\ notifying \in [Node -> Nat]
  /\ calls \in Nat
  /\ sent \in [Node -> Seq(BalanceProof)] /\ received \in [Node -> Nat]
  /\ mail \subseteq WithdrawMessage /\ submitted \subseteq Transaction
  /\ deposit \in [Node -> Amount] /\ withdrawn \in [Node -> Amount]
  /\ events \in Seq(ContractEvent)
  /\ height \in Nat /\ block \in [Node -> Nat] /\ pos \in [Node -> Nat]
  /\ asked \in [Node -> Amount] /\ raced \subseteq Node /\ restarts \in Nat

\* What a participant took out of the contract and what it signed away are
\* covered by its deposit and what it got, unless it sent transfers while one of
\* its requests could still be taken to the contract.  Requests given up,
\* answers that come late or to another request, events read twice and
\* withdraws of both at the same time do no harm.
Covered(n) ==
  withdrawn[n] + ourState[n].balanceProof.transferredAmount
    <= deposit[n] + partnerState[n].balanceProof.transferredAmount
CoveredUnlessRaced == \A n \in Node : Covered(n) \/ n \in raced

\* The comment in GetCooprativeSettleBalances, "B1 + B2 = TAD" with B1 = D1 - W1
\* + T2 - T1 and B2 alike: on every node the two balances add up to what is
\* left in the channel.
calculateCooperativeSettleBalance(participant1, participant2) ==
  Sub64(Add64(Sub64(participant1.contractBalance, participant1.totalWithdraw),
              participant2.balanceProof.transferredAmount),
        participant1.balanceProof.transferredAmount)
AddUp(n) ==
  LET our == ourState[n]
      partner == partnerState[n]
  IN calculateCooperativeSettleBalance(our, partner)
       + calculateCooperativeSettleBalance(partner, our)
       + our.totalWithdraw + partner.totalWithdraw
     = our.contractBalance + partner.contractBalance
BalancesAddUp == \A n \in Node : AddUp(n)

\* n does not count a deposit of its partner that the partner counts already.
Behind(n) == partnerState[n].contractBalance < ourState[Partner(n)].contractBalance

\* They do unless somebody raced or a deposit is counted by one of them only.
AddUpUnlessRaced == \A n \in Node : AddUp(n) \/ raced # {} \/ Behind(n)

\* A transfer is refused only by a node that is behind, or after another one
\* was refused, or if somebody raced: what the one that did may spend wraps
\* around, and so does what its partner seems to have got from it.
RefusedOnlyWhenBehind ==
  [][\A n \in Node :
       LET p == Partner(n)
       IN handleReceiveDirectTransfer(n) /\ UNCHANGED partnerState =>
            \/ Behind(n)
            \/ partnerState[n].balanceProof.nonce < received[p]
            \/ raced # {}]_vars

\* Nobody waits for a withdraw for ever, except when the partner's withdraw
\* made the node forget the transaction, and with it the timeout.
Forgotten(n) ==
  status[n] /\ withdrawTransaction[n] = NoTransaction /\ notifying[n] = 0
WithdrawEnds == \A n \in Node : status[n] ~> (~status[n] \/ Forgotten(n))
=============================================================================
