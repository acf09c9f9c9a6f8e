--------------------------- MODULE ChannelClosing ---------------------------
(***************************************************************************)
(* The end of a channel.  It has two forms.                                *)
(*                                                                         *)
(* Cooperative: one participant proposes final balances, its partner signs *)
(* them if its own books give the same, the first takes both signatures to *)
(* the contract.  The two messages go through the queue of the channel, in *)
(* order with the transfers; each node takes part in no transfer from the  *)
(* moment it proposed or signed.  There is no timeout.                     *)
(*                                                                         *)
(* Alone: one participant closes with the last proof it holds, the other   *)
(* answers with the last one it holds (update), after the settle timeout   *)
(* either of them settles, and each unlocks the locks it was sent.         *)
(*                                                                         *)
(* One action is one state change with the events it leads to.  A node     *)
(* waits for most of its transactions, up to a minute; as it may give up   *)
(* waiting at any moment, it is free at once here.  Locks are those that   *)
(* are pending from the start; new payments are direct transfers.  Of a    *)
(* withdraw there is only what it leaves pending when its transaction      *)
(* fails; one that is mined is the subject of ChannelWithdraw.             *)
(***************************************************************************)
EXTENDS EndState, Sequences

CONSTANTS
  A, B,           \* the participants
  Deposits,       \* the contract balance of each
  Pending,        \* the locks each had sent, and the other had received
  Amounts,        \* the amounts users ask to transfer
  Totals,         \* the totals users deposit
  SettleTimeout,  \* blocks between closing and settling
  MaxLag,         \* how many blocks a node may be behind the chain
  MaxInclusion,   \* how many blocks a transaction may wait to be mined
  MaxHeight,      \* bound: the last block of the chain
  MaxDirect,      \* bound: transfers of each node
  MaxCalls,       \* bound: cooperative settlements, closings and withdraws
  Withdrawing,    \* bound: the nodes whose users withdraw
  MaxRestarts     \* bound: restarts of nodes

Node == {A, B}
Partner(n) == IF n = A THEN B ELSE A

ASSUME ClosingAssumption ==
  /\ A # B
  /\ Deposits \in [Node -> Amount]
  /\ Pending \in [Node -> LockSet]
  /\ \A n \in Node : SumAmounts(Pending[n]) <= Deposits[n]
  /\ \A n \in Node : \A l, k \in Pending[n] : l.secretHash = k.secretHash => l = k
  /\ Amounts \subseteq Amount
  /\ SettleTimeout \in Nat /\ MaxLag \in Nat /\ MaxInclusion \in Nat \ {0}
  /\ MaxHeight \in Nat /\ MaxDirect \in Nat /\ MaxCalls \in Nat
  /\ Totals \subseteq Amount /\ MaxRestarts \in Nat /\ Withdrawing \subseteq Node
  \* All deposits are of one token, whose supply fits a word.
  /\ \A d \in Totals \cup {Deposits[A]}, e \in Totals \cup {Deposits[B]} : d + e < MaxUint64

VARIABLES
  ourState, partnerState,  \* the end states of n's channel
  exists,                  \* n has the channel in its ChannelsMap
  closeTransaction,        \* "nil", "running" or "success"
  closedAt,                \* its FinishedBlockHeight
  settleTransaction,       \* "nil", "running" or "success"
  updateTransaction, ourUnlockTransaction,  \* not nil
  depositQueue,            \* deposits n saw that are not confirmed yet
  pending,                 \* ChainState.PendingTransactions of n
  sent, received,          \* messages of n, and how many the partner has
  submitted,               \* transactions on their way to the contract
  contract,                \* the channel in the contract
  events,                  \* the contract's events
  height,                  \* the chain's height
  block, pos,              \* n's height, and how many of the events it handled
  calls, restarts,
  missed,                  \* history: who ignored that the channel was closed
  takenBack,               \* history: who took its settlement back
  lost,                    \* history: whose updates, settlements, unlocks failed
  panicked                 \* nodes that can not start any more; without the
                           \* channel they have no other part in this

channelVars == <<ourState, partnerState, exists, closeTransaction, closedAt,
                 settleTransaction, updateTransaction, ourUnlockTransaction,
                 depositQueue>>
messageVars == <<sent, received>>
chainVars == <<contract, events, height>>
syncVars == <<block, pos>>
boundVars == <<calls, restarts>>
historyVars == <<missed, takenBack, lost, panicked>>
vars == <<channelVars, pending, messageVars, submitted, chainVars, syncVars,
          boundVars, historyVars>>

Balances == [Node -> Amount]
Message ==
  [type : {"DirectTransfer"}, balanceProof : BalanceProof] \cup
  [type : {"CooperativeSettleRequest", "CooperativeSettle"}, balances : Balances]

\* The side of a participant that sent locks, all with one transfer each.
WithPending(deposit, locks) ==
  IF locks = {} THEN NewNettingChannelEndState(deposit)
  ELSE [NewNettingChannelEndState(deposit) EXCEPT
          !.balanceProof = [nonce |-> Cardinality(locks), transferredAmount |-> 0,
                            lockedAmount |-> SumAmounts(locks), locksRoot |-> locks],
          !.merkleTree = locks, !.lockedLocks = locks]

Init ==
  /\ ourState = [n \in Node |-> WithPending(Deposits[n], Pending[n])]
  /\ partnerState = [n \in Node |-> ourState[Partner(n)]]
  /\ exists = [n \in Node |-> TRUE]
  /\ closeTransaction = [n \in Node |-> "nil"]
  /\ closedAt = [n \in Node |-> 0]
  /\ settleTransaction = [n \in Node |-> "nil"]
  /\ updateTransaction = [n \in Node |-> FALSE]
  /\ ourUnlockTransaction = [n \in Node |-> FALSE]
  /\ depositQueue = [n \in Node |-> {}]
  /\ pending = [n \in Node |-> {}]
  /\ sent = [n \in Node |-> <<>>] /\ received = [n \in Node |-> 0]
  /\ submitted = {}
  /\ contract = [state |-> "opened", deposit |-> Deposits, closer |-> A,
                 closedAt |-> 0, proof |-> [n \in Node |-> NoBalanceProof],
                 payout |-> [n \in Node |-> 0], unlocked |-> {}]
  /\ events = <<>> /\ height = 0
  /\ block = [n \in Node |-> 0] /\ pos = [n \in Node |-> 0]
  /\ calls = 0 /\ restarts = 0
  /\ missed = {} /\ takenBack = {} /\ lost = {} /\ panicked = {}

-----------------------------------------------------------------------------
GetStatus(n) ==
  CASE settleTransaction[n] = "success" -> "settled"
    [] settleTransaction[n] = "running" -> "settling"
    [] settleTransaction[n] = "nil" /\ closeTransaction[n] = "success" -> "closed"
    [] settleTransaction[n] = "nil" /\ closeTransaction[n] = "running" -> "closing"
    [] OTHER -> "opened"

IsOpen(n) == exists[n] /\ GetStatus(n) = "opened"

\* Mutant: signed integers, and the locks of the two swapped.
SwappedLocks(participant1, participant2) ==
  participant1.contractBalance - participant1.totalWithdraw
    + participant2.balanceProof.transferredAmount
    - participant1.balanceProof.transferredAmount
    + currentLockedAmount(participant1) - currentLockedAmount(participant2)

\* Locks count as transferred to the one they were sent to.
calculateCooperativeSettleBalance(participant1, participant2) ==
  LET bp1 == participant1.balanceProof
      bp2 == participant2.balanceProof
  IN Sub64(Add64(Sub64(Add64(Sub64(participant1.contractBalance,
                                   participant1.totalWithdraw),
                             bp2.transferredAmount),
                       bp1.transferredAmount),
                 currentLockedAmount(participant2)),
           currentLockedAmount(participant1))

\* Mutant: the partner's balance is what it could spend.
PartnerWithoutLocks(n) ==
  [p \in Node |->
     IF p = n THEN calculateCooperativeSettleBalance(ourState[n], partnerState[n])
     ELSE GetDistributable(partnerState[n], ourState[n])]

\* The final balances on the books of n.
GetCooprativeSettleBalances(n) ==
  [p \in Node |->
     IF p = n THEN calculateCooperativeSettleBalance(ourState[n], partnerState[n])
     ELSE calculateCooperativeSettleBalance(partnerState[n], ourState[n])]

-----------------------------------------------------------------------------
(* Transactions.  What a node hands to the contract carries the latest     *)
(* block in which it can be mined.                                         *)

Submit(txs) ==
  submitted' = submitted \cup
    {[tx |-> t, mineBy |-> height + MaxInclusion] : t \in txs}

\* The contract still has the channel, and it can be closed there.
CheckForOutdatedChannel == contract.state \in {"opened", "closed"}
checkChannelStateForClose == contract.state = "opened"

\* The transaction that the handler of event t hands to the contract, if any.
\* Close looks at the contract's state first; Settle and Unlock read the
\* proofs that the contract has.
HandleContractSend(t) ==
  LET proof == contract.proof
      p == Partner(t.from)
  IN CASE t.type = "Close" -> IF checkChannelStateForClose THEN {t} ELSE {}
       [] t.type = "UpdateTransfer" -> IF CheckForOutdatedChannel THEN {t} ELSE {}
       [] t.type = "CooperativeSettle" -> IF CheckForOutdatedChannel THEN {t} ELSE {}
       [] t.type = "Settle" ->
            IF CheckForOutdatedChannel THEN {[type |-> "Settle", from |-> t.from, proof |-> proof]}
            ELSE {}
       [] t.type = "Unlock" ->
            IF proof[p].locksRoot = {} \/ t.from \in contract.unlocked THEN {}
            ELSE {[type |-> "Unlock", from |-> t.from, locks |-> proof[p].locksRoot]}
       [] t.type = "Withdraw" -> {}  \* its transaction fails

\* updateQueues: what is sent to the contract is remembered, unlocks excepted.
Remember(n, txs, still) ==
  pending' = [pending EXCEPT ![n] = still \cup {t \in txs : t.type # "Unlock"}]

\* The state change of n leads to the transactions txs.
SendToContract(n, txs, still) ==
  /\ Remember(n, txs, still)
  /\ Submit(UNION {HandleContractSend(t) : t \in txs})

\* Mutant: a settlement is still wanted when the channel is settled.
SettleNeverSatisfied(t, e) ==
  \/ e.name = "UpdateTransfer" /\ t.type = "UpdateTransfer"
     /\ e.value = t.balanceProof.nonce
  \/ e.name = "Closed" /\ t.type = "Close"
  \/ e.name = "CooperativeSettled" /\ t.type = "CooperativeSettle"

isTransactionEffectSatisfied(t, e) ==
  \/ e.name = "UpdateTransfer" /\ t.type = "UpdateTransfer"
     /\ e.value = t.balanceProof.nonce
  \/ e.name = "Closed" /\ t.type = "Close"
  \/ e.name = "Settled" /\ t.type = "Settle"
  \/ e.name = "CooperativeSettled" /\ t.type = "CooperativeSettle"

isTransactionInvalidated(t, e) == e.name = "Settled" /\ t.type = "UpdateTransfer"

isTransactionExpired(n, t) ==
  t.type = "UpdateTransfer" /\ t.expiration < block[n]

isTransactionPending(n, t, e) ==
  /\ ~isTransactionEffectSatisfied(t, e)
  /\ ~isTransactionInvalidated(t, e)
  /\ ~isTransactionExpired(n, t)

StillPending(n, e) ==
  IF e.name = "Unlocked" THEN pending[n]
  ELSE {t \in pending[n] : isTransactionPending(n, t, e)}

-----------------------------------------------------------------------------
(* What users ask for.                                                     *)

\* The transport keeps what n sends in order.
Send(n, m) == sent' = [sent EXCEPT ![n] = Append(@, m)]

handleSendDirectTransfer(n, amount) ==
  LET our == ourState[n]
      bp == createSendDirectTransfer(our, amount)
  IN /\ Len(SelectSeq(sent[n], LAMBDA m : m.type = "DirectTransfer")) < MaxDirect
     /\ IsOpen(n)
     /\ amount > 0
     /\ Add64(Add64(our.balanceProof.transferredAmount, amount),
              currentLockedAmount(our)) < MaxUint64
     /\ amount <= GetDistributable(our, partnerState[n])
     /\ ourState' = [ourState EXCEPT ![n] = WithTransfer(our, bp)]
     /\ Send(n, [type |-> "DirectTransfer", balanceProof |-> bp])
     /\ UNCHANGED <<partnerState, exists, closeTransaction, closedAt,
                    settleTransaction, updateTransaction, ourUnlockTransaction,
                    depositQueue, pending, received, submitted, chainVars,
                    syncVars, boundVars, historyVars>>

\* From now on n takes part in no transfer.
handleSendCooperativeSettleRequest(n) ==
  /\ settleTransaction' = [settleTransaction EXCEPT ![n] = "running"]
  /\ Send(n, [type |-> "CooperativeSettleRequest",
              balances |-> GetCooprativeSettleBalances(n)])

\* handleActionCooperativeSettle asks for an open channel.
ChannelCooperativeSettle(n) ==
  /\ calls < MaxCalls
  /\ IsOpen(n)
  /\ calls' = calls + 1
  /\ handleSendCooperativeSettleRequest(n)
  /\ UNCHANGED <<ourState, partnerState, exists, closeTransaction, closedAt,
                 updateTransaction, ourUnlockTransaction, depositQueue, pending,
                 received, submitted, chainVars, syncVars, restarts, historyVars>>

\* A user may ask again while the channel is closing.
EventsForClose(n) ==
  /\ GetStatus(n) \in {"opened", "closing"}
  /\ closeTransaction' = [closeTransaction EXCEPT ![n] = "running"]
  /\ SendToContract(n, {[type |-> "Close", from |-> n,
                         balanceProof |-> partnerState[n].balanceProof]},
                    pending[n])

ChannelClose(n) ==
  /\ calls < MaxCalls
  /\ exists[n]
  /\ calls' = calls + 1
  /\ EventsForClose(n)
  /\ UNCHANGED <<ourState, partnerState, exists, closedAt, settleTransaction,
                 updateTransaction, ourUnlockTransaction, depositQueue,
                 messageVars, chainVars, syncVars, restarts, historyVars>>

\* The transaction of a withdraw of n.
Withdraw(n) == [type |-> "Withdraw", from |-> n]

\* The partner signed a withdraw that n had asked for, which both find n's
\* balance to allow.  Its transaction is pending until the contract tells of it.
handleWithdrawReceived(n) ==
  LET p == Partner(n)
  IN /\ IsOpen(n) /\ IsOpen(p)
     /\ GetDistributable(ourState[n], partnerState[n]) > 0
     /\ GetDistributable(partnerState[p], ourState[p]) > 0
     /\ calls < MaxCalls
     /\ calls' = calls + 1
     /\ SendToContract(n, {Withdraw(n)}, pending[n])
     /\ UNCHANGED <<channelVars, messageVars, chainVars, syncVars, restarts,
                    historyVars>>

-----------------------------------------------------------------------------
(* Messages of the partner.                                                *)

handleReceiveDirectTransfer(n, m) ==
  /\ m.type = "DirectTransfer"
  /\ partnerState' =
       IF exists[n] /\ IsValidDirectTransfer(m.balanceProof, partnerState[n],
                                             ourState[n], IsOpen(n))
       THEN [partnerState EXCEPT ![n] = WithTransfer(@, m.balanceProof)]
       ELSE partnerState
  /\ UNCHANGED <<settleTransaction, sent, pending, submitted, takenBack>>

\* Mutant: the balances of the request are not compared.
AnyBalances(n, balances) == IsOpen(n)

isValidCooperativeSettleRequest(n, balances) ==
  /\ IsOpen(n)
  /\ balances = GetCooprativeSettleBalances(n)

\* A request that does not suit is not answered.
handleCooperativeSettleRequestReceived(n, m) ==
  /\ m.type = "CooperativeSettleRequest"
  /\ IF isValidCooperativeSettleRequest(n, m.balances)
     THEN /\ settleTransaction' = [settleTransaction EXCEPT ![n] = "running"]
          /\ Send(n, [m EXCEPT !.type = "CooperativeSettle"])
     ELSE UNCHANGED <<settleTransaction, sent>>
  /\ UNCHANGED <<partnerState, pending, submitted, takenBack>>

isValidCooperativeSettle(n, balances) ==
  /\ GetStatus(n) = "settling"
  /\ balances = GetCooprativeSettleBalances(n)

\* Whether n asked for it is not checked.  An answer that does not suit ends
\* the settlement on this side only.
handleCooperativeSettleReceived(n, m) ==
  /\ m.type = "CooperativeSettle"
  /\ \/ /\ exists[n] /\ isValidCooperativeSettle(n, m.balances)
        /\ SendToContract(n, {[type |-> "CooperativeSettle", from |-> n,
                               balances |-> m.balances]}, pending[n])
        /\ UNCHANGED <<settleTransaction, takenBack>>
     \/ /\ exists[n] /\ ~isValidCooperativeSettle(n, m.balances)
        /\ settleTransaction' = [settleTransaction EXCEPT ![n] = "nil"]
        /\ takenBack' = takenBack \cup {n}
        /\ UNCHANGED <<pending, submitted>>
     \/ /\ ~exists[n]
        /\ UNCHANGED <<settleTransaction, pending, submitted, takenBack>>
  /\ UNCHANGED <<partnerState, sent>>

stateTransitionForNetwork(n, m) ==
  \/ handleReceiveDirectTransfer(n, m)
  \/ handleCooperativeSettleRequestReceived(n, m)
  \/ handleCooperativeSettleReceived(n, m)

HandleMessage(n, m) ==
  /\ stateTransitionForNetwork(n, m)
  /\ UNCHANGED <<ourState, exists, closeTransaction, closedAt, updateTransaction,
                 ourUnlockTransaction, depositQueue, chainVars, syncVars,
                 boundVars, missed, lost, panicked>>

Receive(n) ==
  LET p == Partner(n)
  IN /\ received[p] < Len(sent[p])
     /\ received' = [received EXCEPT ![p] = @ + 1]
     /\ HandleMessage(n, sent[p][received[p] + 1])

\* Acknowledgements get lost, and messages without a Processed, as the answer
\* and a request that was refused, are sent again after a restart.
ReceiveAgain(n) ==
  /\ \E i \in 1 .. received[Partner(n)] : HandleMessage(n, sent[Partner(n)][i])
  /\ UNCHANGED received

-----------------------------------------------------------------------------
(* The contract.  Its events belong to the block that comes next.          *)

Emit(name, participant, value) ==
  events' = Append(events, [name |-> name, participant |-> participant,
                            value |-> value, block |-> height + 1])

Total == contract.deposit[A] + contract.deposit[B]
SettleBlock == contract.closedAt + SettleTimeout

\* What n has from the proofs submitted, the locks set aside.
Payout(n) ==
  LET own == contract.proof[n]
      other == contract.proof[Partner(n)]
      locked == own.lockedAmount + other.lockedAmount
      amount == contract.deposit[n] + other.transferredAmount
                  - own.transferredAmount - own.lockedAmount
  IN IF amount < 0 THEN 0 ELSE Min(amount, Total - locked)

\* The contract takes the transaction.
Accepts(t) ==
  CASE t.type = "Close" -> contract.state = "opened"
    [] t.type = "UpdateTransfer" ->
         /\ contract.state = "closed" /\ contract.closer # t.from
         /\ height + 1 <= SettleBlock
         /\ t.balanceProof.nonce > contract.proof[Partner(t.from)].nonce
    [] t.type = "Settle" ->
         /\ contract.state = "closed" /\ height + 1 > SettleBlock
         /\ t.proof = contract.proof
    [] t.type = "CooperativeSettle" ->
         contract.state = "opened" /\ t.balances[A] + t.balances[B] = Total
    [] t.type = "Unlock" ->
         contract.state = "settled" /\ t.from \notin contract.unlocked

Execute(t) ==
  CASE t.type = "Close" ->
         /\ contract' = [contract EXCEPT !.state = "closed", !.closer = t.from,
              !.closedAt = height + 1, !.proof[Partner(t.from)] = t.balanceProof]
         /\ Emit("Closed", t.from, 0)
    [] t.type = "UpdateTransfer" ->
         /\ contract' = [contract EXCEPT !.proof[Partner(t.from)] = t.balanceProof]
         /\ Emit("UpdateTransfer", t.from, t.balanceProof.nonce)
    [] t.type = "Settle" ->
         /\ contract' = [contract EXCEPT !.state = "settled",
                                         !.payout = [n \in Node |-> Payout(n)]]
         /\ Emit("Settled", t.from, 0)
    [] t.type = "CooperativeSettle" ->
         /\ contract' = [contract EXCEPT !.state = "cooperativeSettled",
                                         !.payout = t.balances]
         /\ Emit("CooperativeSettled", t.from, 0)
    [] t.type = "Unlock" ->
         /\ contract' = [contract EXCEPT !.unlocked = @ \cup {t.from}]
         /\ Emit("Unlocked", t.from, 0)

Mine(s) ==
  /\ height < MaxHeight
  /\ Accepts(s.tx)
  /\ Execute(s.tx)
  /\ submitted' = submitted \ {s}
  /\ UNCHANGED <<channelVars, pending, messageVars, height, syncVars, boundVars,
                 historyVars>>

\* The contract refuses it.
Refuse(s) ==
  /\ ~Accepts(s.tx)
  /\ submitted' = submitted \ {s}
  /\ UNCHANGED <<channelVars, pending, messageVars, chainVars, syncVars,
                 boundVars, historyVars>>

\* It does not reach the contract: the proxy has an error, or the node stops
\* before it gets there.
Fail(s) ==
  /\ submitted' = submitted \ {s}
  /\ lost' = IF s.tx.type \in {"UpdateTransfer", "Settle", "Unlock"}
             THEN lost \cup {<<s.tx.from, s.tx.type>>} ELSE lost
  /\ UNCHANGED <<channelVars, pending, messageVars, chainVars, syncVars,
                 boundVars, missed, takenBack, panicked>>

SetTotalDeposit(n, total) ==
  /\ height < MaxHeight
  /\ contract.state = "opened"
  /\ exists[n]
  /\ total > contract.deposit[n]
  /\ contract' = [contract EXCEPT !.deposit[n] = total]
  /\ Emit("SetTotalDeposit", n, total)
  /\ UNCHANGED <<channelVars, pending, messageVars, submitted, height, syncVars,
                 boundVars, historyVars>>

MineBlock ==
  /\ height < MaxHeight
  /\ \A n \in Node : height - block[n] < MaxLag
  /\ \A s \in submitted : height + 1 < s.mineBy
  /\ height' = height + 1
  /\ UNCHANGED <<channelVars, pending, messageVars, submitted, contract, events,
                 syncVars, boundVars, historyVars>>

-----------------------------------------------------------------------------
(* Blocks.  CallbackNewBlock hands over the events of the next block, then *)
(* the block.  Events of a channel that n does not have are not its.       *)

NextEvent(n) == events[pos[n] + 1]

HasEvent(n) ==
  /\ pos[n] < Len(events)
  /\ NextEvent(n).block = block[n] + 1
  /\ block[n] < height

\* Mutant: the closing is not answered.
NoUpdate(n, e) == FALSE

\* n did not close the channel itself, and has a proof to answer with.
CallUpdate(n, e) ==
  /\ e.participant # n
  /\ partnerState[n].balanceProof # NoBalanceProof
  /\ ~updateTransaction[n]

setClosed(n, blockNumber) ==
  /\ closeTransaction' = [closeTransaction EXCEPT ![n] = "success"]
  /\ closedAt' = [closedAt EXCEPT ![n] = blockNumber]

setSettled(n) == settleTransaction' = [settleTransaction EXCEPT ![n] = "success"]

\* The closing is ignored by a node that is settling.
handleChannelClosed(n, e) ==
  LET justClosed == GetStatus(n) \in {"opened", "closing"}
      update == [type |-> "UpdateTransfer", from |-> n,
                 balanceProof |-> partnerState[n].balanceProof,
                 expiration |-> e.block + SettleTimeout]
      callUpdate == justClosed /\ CallUpdate(n, e)
  IN /\ e.name = "Closed"
     /\ IF justClosed
        THEN setClosed(n, e.block) /\ UNCHANGED missed
        ELSE /\ missed' = IF closeTransaction[n] = "success" THEN missed
                          ELSE missed \cup {n}
             /\ UNCHANGED <<closeTransaction, closedAt>>
     /\ updateTransaction' = [updateTransaction EXCEPT ![n] = @ \/ callUpdate]
     /\ SendToContract(n, IF callUpdate THEN {update} ELSE {}, StillPending(n, e))
     /\ UNCHANGED <<exists, settleTransaction, ourUnlockTransaction, depositQueue>>

\* Whoever updated.
handleChannelUpdatedTransfer(n, e) ==
  /\ e.name = "UpdateTransfer"
  /\ updateTransaction' = [updateTransaction EXCEPT ![n] = TRUE]
  /\ SendToContract(n, {}, StillPending(n, e))
  /\ UNCHANGED <<exists, closeTransaction, closedAt, settleTransaction,
                 ourUnlockTransaction, depositQueue, missed>>

\* The channel is forgotten unless there are locks to claim.
handleChannelSettled(n, e) ==
  LET unlocks == ~ourUnlockTransaction[n]
                 /\ partnerState[n].merkleTree \cap PendingLocks(partnerState[n]) # {}
  IN /\ e.name = "Settled"
     /\ setSettled(n)
     /\ exists' = [exists EXCEPT ![n] = unlocks]
     /\ ourUnlockTransaction' = [ourUnlockTransaction EXCEPT ![n] = @ \/ unlocks]
     /\ SendToContract(n, IF unlocks THEN {[type |-> "Unlock", from |-> n]} ELSE {},
                       StillPending(n, e))
     /\ UNCHANGED <<closeTransaction, closedAt, updateTransaction, depositQueue,
                    missed>>

handleChannelCooperativeSettled(n, e) ==
  /\ e.name = "CooperativeSettled"
  /\ setSettled(n)
  /\ exists' = [exists EXCEPT ![n] = FALSE]
  /\ SendToContract(n, {}, StillPending(n, e))
  /\ UNCHANGED <<closeTransaction, closedAt, updateTransaction,
                 ourUnlockTransaction, depositQueue, missed>>

\* Whoever unlocked: the channel is forgotten.
handleChannelBatchUnlock(n, e) ==
  /\ e.name = "Unlocked"
  /\ exists' = [exists EXCEPT ![n] = GetStatus(n) # "settled"]
  /\ UNCHANGED <<closeTransaction, closedAt, settleTransaction, updateTransaction,
                 ourUnlockTransaction, depositQueue, pending, submitted, missed>>

\* The event is of the block after n's: it is never confirmed at once.
handleChannelNewBalance(n, e) ==
  /\ e.name = "SetTotalDeposit"
  /\ depositQueue' = [depositQueue EXCEPT ![n] = @ \cup {e}]
  /\ SendToContract(n, {}, StillPending(n, e))
  /\ UNCHANGED <<exists, closeTransaction, closedAt, settleTransaction,
                 updateTransaction, ourUnlockTransaction, missed>>

StateTransitionForChannel(n, e) ==
  \/ handleChannelClosed(n, e)
  \/ handleChannelUpdatedTransfer(n, e)
  \/ handleChannelSettled(n, e)
  \/ handleChannelCooperativeSettled(n, e)
  \/ handleChannelBatchUnlock(n, e)
  \/ handleChannelNewBalance(n, e)

subDispatchToChannelById(n, e) ==
  \/ exists[n] /\ StateTransitionForChannel(n, e)
  \/ /\ ~exists[n]
     /\ UNCHANGED <<exists, closeTransaction, closedAt, settleTransaction,
                    updateTransaction, ourUnlockTransaction, depositQueue,
                    pending, submitted, missed>>

OnBlockchainEvent(n) ==
  LET e == NextEvent(n)
  IN /\ HasEvent(n)
     /\ pos' = [pos EXCEPT ![n] = @ + 1]
     /\ subDispatchToChannelById(n, e)
     /\ UNCHANGED <<ourState, partnerState, messageVars, chainVars, block,
                    boundVars, takenBack, lost, panicked>>

\* Mutant: the channel is settled while the closing is not known.
SettlesWhileClosing(n, blockNumber) ==
  /\ GetStatus(n) = "closing"
  /\ blockNumber > closedAt[n] + SettleTimeout

SettlementEnded(n, blockNumber) ==
  /\ GetStatus(n) = "closed"
  /\ blockNumber > closedAt[n] + SettleTimeout

\* The state after the deposits in queue were applied, which only raise it.
updateContractBalance(end, participant, queue) ==
  LET totals == {end.contractBalance} \cup
                  {e.value : e \in {d \in queue : d.participant = participant}}
  IN [end EXCEPT !.contractBalance =
        CHOOSE t \in totals : \A u \in totals : u <= t]

handleBlock(n) ==
  LET next == block[n] + 1
      settles == exists[n] /\ SettlementEnded(n, next)
      confirmed == {e \in depositQueue[n] : next > e.block + ConfirmBlockCount}
  IN /\ block[n] < height
     /\ ~HasEvent(n)
     /\ block' = [block EXCEPT ![n] = next]
     /\ settleTransaction' = [settleTransaction EXCEPT ![n] =
                                IF settles THEN "running" ELSE @]
     /\ SendToContract(n, IF settles THEN {[type |-> "Settle", from |-> n]} ELSE {},
                       pending[n])
     /\ ourState' = [ourState EXCEPT ![n] = updateContractBalance(@, n, confirmed)]
     /\ partnerState' = [partnerState EXCEPT ![n] =
                           updateContractBalance(@, Partner(n), confirmed)]
     /\ depositQueue' = [depositQueue EXCEPT ![n] = @ \ confirmed]
     /\ UNCHANGED <<exists, closeTransaction, closedAt, updateTransaction,
                    ourUnlockTransaction, messageVars, chainVars, pos, boundVars,
                    historyVars>>

\* The log gives the state back.  Pending transactions are handled once more,
\* which panics without the channel.  The events of an unfinished block are
\* read again.
Restart(n) ==
  LET starts == pending[n] = {} \/ exists[n]
  IN /\ restarts < MaxRestarts
     /\ restarts' = restarts + 1
     /\ panicked' = IF starts THEN panicked ELSE panicked \cup {n}
     /\ IF starts THEN Submit(UNION {HandleContractSend(t) : t \in pending[n]})
        ELSE UNCHANGED submitted
     /\ pos' = [pos EXCEPT ![n] =
          Cardinality({i \in DOMAIN events : events[i].block <= block[n]})]
     /\ UNCHANGED <<channelVars, pending, messageVars, chainVars, block, calls,
                    missed, takenBack, lost>>

-----------------------------------------------------------------------------
\* Bound: a channel is closed early enough for its end to be seen.
SoonEnough == height + SettleTimeout + 2 * (MaxLag + MaxInclusion) <= MaxHeight

Next ==
  \/ \E n \in Node, amount \in Amounts : handleSendDirectTransfer(n, amount)
  \/ \E n \in Node : ChannelCooperativeSettle(n)
  \/ \E n \in Node : SoonEnough /\ ChannelClose(n)
  \/ \E n \in Withdrawing : handleWithdrawReceived(n)
  \/ \E n \in Node : Receive(n) \/ ReceiveAgain(n)
  \/ \E s \in submitted : Mine(s) \/ Refuse(s) \/ Fail(s)
  \/ \E n \in Node, total \in Totals : SetTotalDeposit(n, total)
  \/ MineBlock
  \/ \E n \in Node : OnBlockchainEvent(n) \/ handleBlock(n)
  \/ \E n \in Node :
       /\ SoonEnough \/ \A t \in pending[n] : t.type # "Close"
       /\ Restart(n)

Spec == Init /\ [][Next]_vars

\* The chain goes on and nodes follow it.  A transaction is mined, refused or
\* lost before its last block.
Fairness ==
  /\ WF_vars(MineBlock)
  /\ WF_vars(\E s \in submitted : Mine(s) \/ Refuse(s) \/ Fail(s))
  /\ \A n \in Node : WF_vars(OnBlockchainEvent(n)) /\ WF_vars(handleBlock(n))
FairSpec == Spec /\ Fairness

-----------------------------------------------------------------------------
(* Properties.                                                             *)

\* The variables have their types.
TypeOK ==
  /\ ourState \in [Node -> EndStates] /\ partnerState \in [Node -> EndStates]
  /\ exists \in [Node -> BOOLEAN]
  /\ closeTransaction \in [Node -> {"nil", "running", "success"}]
  /\ closedAt \in [Node -> Nat]
  /\ settleTransaction \in [Node -> {"nil", "running", "success"}]
  /\ updateTransaction \in [Node -> BOOLEAN]
  /\ ourUnlockTransaction \in [Node -> BOOLEAN]
  /\ \A n \in Node : \A i \in DOMAIN sent[n] : sent[n][i] \in Message
  /\ received \in [Node -> Nat]
  /\ height \in 0 .. MaxHeight
  /\ block \in [Node -> 0 .. MaxHeight]
  /\ pos \in [Node -> 0 .. Len(events)]
  /\ contract.payout \in Balances

\* A channel that was closed is settled with the last proof each participant
\* accepted, if nodes and transactions are fast enough for the settle timeout
\* (handleBlock waits for more than it): whoever closed, and whatever transfers,
\* closings or requests were on their way.  Excepted is a node that was settling
\* when it saw the closing, and one whose update failed.
PaidInFull ==
  MaxLag + MaxInclusion <= SettleTimeout + 1 =>
    \A n \in Node :
      contract.state = "settled" /\ n \notin missed
        /\ <<n, "UpdateTransfer">> \notin lost =>
        contract.proof[Partner(n)] = partnerState[n].balanceProof

\* What a cooperative settlement pays is what both nodes have on their books,
\* although the answer may be old, repeated, or come after the settlement was
\* taken back, and deposits are counted at different times.
CooperativeAgreed ==
  contract.state = "cooperativeSettled" =>
    \A n \in Node : contract.payout = GetCooprativeSettleBalances(n)

\* A node that starts finds the channel of every transaction that is pending
\* (the handlers of contract events panic otherwise), however the channel ended
\* and whatever was lost, with two exceptions, each a transaction that nothing
\* takes off the list: the cooperative settlement of a node that took it back,
\* and a withdraw that failed.
StartsAgain ==
  \A n \in panicked : n \in takenBack \/ Withdraw(n) \in pending[n]

\* A request is left without an answer, for which nothing makes up, only if the
\* partner was not open any more or something had crossed the request: a
\* transfer that did not arrive or was refused, or a deposit that one of them
\* counted for it and the other not.
RefusedOnlyWhenCrossed ==
  [][\A n \in Node :
       LET p == Partner(n)
           m == sent[p][received[p] + 1]
       IN received'[p] > received[p] /\ m.type = "CooperativeSettleRequest"
            /\ sent'[n] = sent[n] =>
            \/ ~IsOpen(n)
            \/ ourState[n].balanceProof # partnerState[p].balanceProof
            \/ ourState[p].balanceProof # partnerState[n].balanceProof
            \/ m.balances[A] + m.balances[B]
                 # ourState[n].contractBalance + partnerState[n].contractBalance]_vars

\* A channel that was closed is settled, the locks in it are claimed, and both
\* nodes forget it, unless all of them failed to settle, or one failed to unlock
\* or to bring its proof to the contract: nothing of this is tried again by a
\* node that stays up, and an unlock not even after a restart.  Excepted is a
\* node that took a settlement back: an answer that comes again makes it forget
\* that the channel is settled.
ClosedEnds ==
  contract.state = "closed" ~>
    \/ \A n \in Node : n \in missed \/ <<n, "Settle">> \in lost
    \/ \A n \in Node : \/ ~exists[n]
                        \/ n \in missed \cup takenBack
                        \/ <<n, "Unlock">> \in lost \/ <<n, "UpdateTransfer">> \in lost
=============================================================================
