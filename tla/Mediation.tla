----------------------------- MODULE Mediation -----------------------------
(***************************************************************************)
(* One payment over several channels: an initiator, the mediators of       *)
(* mediator.go and a target.  Every node keeps its own copy of each of its *)
(* channels, runs one payment task for the secret hash and learns of       *)
(* blocks and of the registered secret at its own pace.                    *)
(*                                                                         *)
(* A node handles one state change at a time, so an action is one state    *)
(* change.  There is one payment, hence at most one task per node, and a   *)
(* Block is dispatched to it in the same step.                             *)
(*                                                                         *)
(* ourState and partnerState are indexed by directed links: <<n, p>> is    *)
(* node n's end of its channel with p.  Messages from n to p go through    *)
(* the queue sent[<<n, p>>].  A mediator puts its RevealSecret into the    *)
(* global queue of the recipient and not into that of the channel, but     *)
(* never sends the payer anything else that it could overtake.             *)
(***************************************************************************)
EXTENDS EndState, Sequences, Functions

CONSTANTS
  Initiator, Target,  \* the ends of the payment
  Mediators,          \* the nodes in between
  Channels,           \* the open channels, as sets of two nodes
  Deposits,           \* the deposits the model starts from: functions on Link
  Route,              \* Route[n]: the next hops GetBestRoutes can answer at n
  secretHash,         \* the secret hash of the payment
  PaymentAmount,      \* what the initiator locks
  Flat,               \* the mediators' fee schedule: flat fee,
  Proportional,       \*   proportional fee per FeeUnit tokens,
  FeeUnit,            \*   and the largest fee,
  FeeLimitDivisor,    \*   amount / FeeLimitDivisor (DefaultMediationFeeLimit)
  RevealTimeout, SettleTimeout,
  DefaultNumberOfBlockConfirmations,
  MaxStart,           \* bound: the last block at which the payment may start
  MaxHeight,          \* bound: the last block of the chain
  MaxLag,             \* how many blocks a node may be behind the chain
  MaxInclusion        \* how many blocks a registration may wait to be mined

Node == {Initiator, Target} \cup Mediators
Link == {l \in Node \X Node : {l[1], l[2]} \in Channels}
Mirror(l) == <<l[2], l[1]>>

ASSUME MediationAssumption ==
  /\ Initiator # Target
  /\ {Initiator, Target} \cap Mediators = {}
  /\ \A c \in Channels : c \subseteq Node /\ Cardinality(c) = 2
  /\ Deposits \subseteq [Link -> Amount]
  /\ \A n \in Node : Route[n] \subseteq {p \in Node : {n, p} \in Channels}
  /\ secretHash \in SecretHash
  /\ PaymentAmount \in Amount \ {0}
  /\ RevealTimeout \in Nat /\ SettleTimeout \in Nat
  /\ Flat \in Nat /\ Proportional \in Nat
  /\ FeeUnit \in Nat \ {0} /\ FeeLimitDivisor \in Nat \ {0}
  /\ DefaultNumberOfBlockConfirmations \in Nat
  /\ MaxHeight \in Nat /\ MaxLag \in Nat
  /\ MaxInclusion \in Nat \ {0}  \* a registration is mined in a later block

VARIABLES
  deposit,       \* the deposits, fixed by Init
  ourState,      \* ourState[<<n, p>>]: OurState of n's channel with p
  partnerState,  \* partnerState[<<n, p>>]: PartnerState of that channel
  task,          \* task[n]: n's payment task
  notices,       \* notices[n]: what n's user was told
  sent,          \* sent[<<n, p>>]: the messages n sent to p
  received,      \* received[<<n, p>>]: how many of them p got
  block,         \* block[n]: the height of the last block n processed
  seen,          \* seen[n]: n has processed the registration of the secret
  height,        \* the height of the chain
  mined,         \* the block that registered the secret, or 0
  mineBy         \* the last block for a registration on its way, or 0

endVars == <<ourState, partnerState>>
nodeVars == <<endVars, task, notices>>
chainVars == <<height, mined, mineBy>>
vars == <<deposit, nodeVars, sent, received, block, seen, chainVars>>

-----------------------------------------------------------------------------
(* Payment tasks.                                                          *)

NoTask == [type |-> "none"]
InitiatorTask(to, lock) == [type |-> "initiator", to |-> to, lock |-> lock]
TargetTask(from, lock, state) ==
  [type |-> "target", from |-> from, lock |-> lock, state |-> state]

\* MediatorTransferState with its one MediationPairState.  A refund has the
\* payer as payee too.
PairTask(payer, payee, lock) ==
  [type |-> "mediator", payer |-> payer, payee |-> payee, lock |-> lock,
   payerState |-> "payer_pending", payeeState |-> "payee_pending",
   secretKnown |-> FALSE]

\* MediatorTransferState with a WaitingTransfer and no pair.
WaitingTask(payer, lock) ==
  [type |-> "waiting", payer |-> payer, lock |-> lock, state |-> "waiting"]

PayerStates == {"payer_pending", "payer_secret_revealed",
  "payer_waiting_secret_reveal", "payer_balance_proof", "payer_expired"}
PayeeStates == {"payee_pending", "payee_secret_revealed",
  "payee_balance_proof", "payee_expired"}
STATE_TRANSFER_FINAL == {"payee_balance_proof", "payee_expired",
                         "payer_balance_proof", "payer_expired"}
STATE_SECRET_KNOWN == {"payee_secret_revealed", "payee_balance_proof",
                       "payer_secret_revealed", "payer_balance_proof"}

Tasks ==
  {NoTask}
  \cup [type : {"initiator"}, to : Node, lock : Lock]
  \cup [type : {"target"}, from : Node, lock : Lock,
        state : {"reveal_secret", "onchain_secret_reveal", "expired"}]
  \cup [type : {"waiting"}, payer : Node, lock : Lock,
        state : {"waiting", "expired"}]
  \cup [type : {"mediator"}, payer : Node, payee : Node, lock : Lock,
        payerState : PayerStates, payeeState : PayeeStates,
        secretKnown : BOOLEAN]

Notice == {"PaymentSentSuccess", "PaymentSentFailed",
           "PaymentReceivedSuccess", "UnlockClaimFailed"}

Message ==
  [type : {"LockedTransfer", "RefundTransfer"}, bp : BalanceProof, lock : Lock,
   mediators : SUBSET Node]
  \cup [type : {"Unlock", "LockExpired"}, bp : BalanceProof]
  \cup [type : {"RevealSecret"}]

-----------------------------------------------------------------------------
Init ==
  /\ deposit \in Deposits
  /\ ourState = [l \in Link |-> NewNettingChannelEndState(deposit[l])]
  /\ partnerState = [l \in Link |-> NewNettingChannelEndState(deposit[Mirror(l)])]
  /\ task = [n \in Node |-> NoTask]
  /\ notices = [n \in Node |-> {}]
  /\ sent = [l \in Link |-> <<>>]
  /\ received = [l \in Link |-> 0]
  /\ block = [n \in Node |-> 0]
  /\ seen = [n \in Node |-> FALSE]
  /\ height = 0 /\ mined = 0 /\ mineBy = 0

SetTask(n, t) == task' = [task EXCEPT ![n] = t]
Tell(n, what) == notices' = [notices EXCEPT ![n] = @ \cup what]
Send(l, m) == sent' = [sent EXCEPT ![l] = Append(@, m)]

MdIsSafeToWait(lock, blockNumber) ==
  lock.expiration >= blockNumber /\ lock.expiration - blockNumber > RevealTimeout

TransferExpired(l, lock, blockNumber) ==
  IsLockExpired(ourState[l], lock, blockNumber,
                lock.expiration + 2 * ConfirmBlockCount)

RegisterSecret ==
  mineBy' = IF mined = 0 /\ mineBy = 0 THEN height + MaxInclusion ELSE mineBy

\* A locked transfer that is accepted, and the partner's end afterwards.
IsValidLockedTransfer(l, m) ==
  ValidLockedTransferCheck(m.bp, m.lock, partnerState[l], ourState[l], TRUE)

HandleReceiveLockedTransfer(l, m) == WithLock(partnerState[l], m.bp, m.lock)

-----------------------------------------------------------------------------
(* The initiator.                                                          *)

IsValidAmount(end, amount) ==
  Add64(Add64(end.balanceProof.transferredAmount, currentLockedAmount(end)),
        amount) <= MaxUint64

\* InitSendLockedTransfer: the lock of the payment.
InitialLock(n) ==
  [secretHash |-> secretHash, amount |-> PaymentAmount,
   expiration |-> block[n] + 2 * RevealTimeout]

\* The channel of the route can carry the payment.
InitNextChannelFromRoutes(l) ==
  /\ MerkleTreeWidth(ourState[l].merkleTree) < MAXIMUM_PENDING_TRANSFERS
  /\ PaymentAmount <= GetDistributable(ourState[l], partnerState[l])
  /\ IsValidAmount(ourState[l], PaymentAmount)

InitTryNewRoute(n, hop) ==
  LET l == <<n, hop>>
      lock == InitialLock(n)
      bp == createSendLockedTransfer(ourState[l], lock)
  IN IF InitNextChannelFromRoutes(l)
     THEN /\ ourState' = [ourState EXCEPT ![l] = WithLock(@, bp, lock)]
          /\ SetTask(n, InitiatorTask(hop, lock))
          /\ Send(l, [type |-> "LockedTransfer", bp |-> bp, lock |-> lock,
                      mediators |-> {}])
          /\ UNCHANGED notices
     ELSE /\ Tell(n, {"PaymentSentFailed"})
          /\ UNCHANGED <<ourState, task, sent>>

\* The user pays: GetBestRoutes answers with one next hop, and the payment fails
\* when that one can not be used.
MediaTransfer(hop) ==
  /\ hop \in Route[Initiator]
  /\ block[Initiator] <= MaxStart
  /\ notices[Initiator] = {} /\ \A l \in Link : sent[l] = <<>>
  /\ InitTryNewRoute(Initiator, hop)
  /\ UNCHANGED <<deposit, partnerState, received, block, seen, chainVars>>

\* InitEventsForUnlockLock: report success whether or not the lock is there.
InitEventsForUnlockLock(n) ==
  LET l == <<n, task[n].to>>
      our == ourState[l]
      lock == GetLock(our, secretHash)
      bp == CreateUnlock(our, lock)
  IN /\ IF IsLockPending(our, secretHash)
        THEN /\ ourState' = [ourState EXCEPT ![l] = WithUnlock(our, bp, lock)]
             /\ Send(l, [type |-> "Unlock", bp |-> bp])
        ELSE UNCHANGED <<ourState, sent>>
     /\ Tell(n, {"PaymentSentSuccess"})
     /\ SetTask(n, NoTask)
     /\ UNCHANGED partnerState

ImHandleOffchainSecretReveal(n, p) ==
  /\ task[n].type = "initiator"
  /\ IF p = task[n].to THEN InitEventsForUnlockLock(n)
                       ELSE UNCHANGED <<nodeVars, sent>>

ImHandleOnChainSecretReveal(n) ==
  /\ task[n].type = "initiator"
  /\ IF mined <= task[n].lock.expiration THEN InitEventsForUnlockLock(n)
                                         ELSE UNCHANGED <<nodeVars, sent>>

\* The refund is for the transfer that was sent.
RefundTransferMatchesReceived(n, p, m) ==
  p = task[n].to /\ p # Target /\ m.lock = task[n].lock

\* The route is cancelled, no other is tried (init is false), and the payment
\* failed.  The lock that was sent stays in the channel.
ImHandleCancelRoute(n) ==
  /\ Tell(n, {"PaymentSentFailed"})
  /\ SetTask(n, NoTask)
  /\ UNCHANGED <<ourState, sent>>

\* A refund for the transfer is taken as a lock of the partner.
ImHandleTransferRefundCancelRoute(n, p, m) ==
  LET l == <<n, p>>
  IN /\ task[n].type = "initiator"
     /\ IF RefundTransferMatchesReceived(n, p, m) /\ IsValidLockedTransfer(l, m)
        THEN /\ partnerState' = [partnerState EXCEPT ![l] = HandleReceiveLockedTransfer(l, m)]
             /\ ImHandleCancelRoute(n)
        ELSE UNCHANGED <<nodeVars, sent>>

\* handleReceiveLockExpired: a side of node n's channel after a LockExpired.
\* A balance proof of another channel is not valid.
AfterLockExpired(l, p, m, blockNumber) ==
  LET partner == partnerState[l]
  IN IF /\ l[2] = p
        /\ IsValidLockExpired(m.bp, secretHash, partner, ourState[l],
                              blockNumber, TRUE)
     THEN WithoutExpired(partner, m.bp, GetLock(partner, secretHash))
     ELSE partner

\* Only a refund makes the partner of an initiator send a LockExpired, and the
\* initiator has no task any more once it accepted the refund.
ImHandleLockExpired(n, p, m) ==
  LET l == <<n, task[n].to>>
      result == AfterLockExpired(l, p, m, block[n])
  IN /\ task[n].type = "initiator"
     /\ partnerState' = [partnerState EXCEPT ![l] = result]
     /\ Tell(n, IF IsLockPending(result, secretHash)
                THEN {"UnlockClaimFailed"} ELSE {})
     /\ UNCHANGED <<ourState, task, sent>>

\* Mutant: the failure is reported while the secret can still be registered.
FailsTooEarly(n) ==
  LET expired == ~MdIsSafeToWait(task[n].lock, block'[n])
  IN /\ task[n].type = "initiator"
     /\ SetTask(n, IF expired THEN NoTask ELSE task[n])
     /\ Tell(n, IF expired THEN {"PaymentSentFailed"} ELSE {})
     /\ UNCHANGED <<endVars, sent, mineBy>>

\* Mutant: an expired lock is waited for.
NeverGivenUp(n) ==
  /\ task[n].type = "initiator"
  /\ UNCHANGED <<nodeVars, sent, mineBy>>

LockExistsInEitherChannelSide(our, partner) ==
  IsLockLocked(our, secretHash) \/ IsLockLocked(partner, secretHash)

\* ImHandleBlock: the payment is given up once its lock expired.
ImHandleBlock(n) ==
  LET l == <<n, task[n].to>>
      our == ourState[l]
      partner == partnerState[l]
      lock == task[n].lock
      bp == createSendExpiredLock(our, lock)
      expired == /\ IsLockLocked(our, secretHash)
                 /\ IsLockExpired(our, lock, block'[n],
                                  lock.expiration + 2 * ConfirmBlockCount)
      kept == IF expired THEN IsLockPending(partner, secretHash)
              ELSE LockExistsInEitherChannelSide(our, partner)
  IN /\ task[n].type = "initiator"
     /\ SetTask(n, IF kept THEN task[n] ELSE NoTask)
     /\ IF expired
        THEN /\ ourState' = [ourState EXCEPT ![l] = WithoutExpired(our, bp, lock)]
             /\ Send(l, [type |-> "LockExpired", bp |-> bp])
             /\ Tell(n, {"PaymentSentFailed"})
        ELSE UNCHANGED <<ourState, sent, notices>>
     /\ UNCHANGED <<partnerState, mineBy>>

-----------------------------------------------------------------------------
(* The target.                                                             *)

HandleInitTarget(n, p, m) ==
  LET l == <<n, p>>
      accepted == HandleReceiveLockedTransfer(l, m)
      valid == IsValidLockedTransfer(l, m)
      timely == /\ MdIsSafeToWait(m.lock, block[n])
                /\ ~TransferExpired(l, m.lock, block[n])
  IN /\ n = Target
     /\ IF task[n] # NoTask THEN UNCHANGED <<nodeVars, sent>>
        ELSE /\ partnerState' = [partnerState EXCEPT
                  ![l] = IF ~valid THEN @
                         ELSE IF timely THEN RegisterSecretEndState(accepted, secretHash)
                         ELSE accepted]
             /\ IF valid /\ timely
                THEN /\ SetTask(n, TargetTask(p, m.lock, "reveal_secret"))
                     /\ Send(<<n, p>>, [type |-> "RevealSecret"])
                     /\ UNCHANGED notices
                ELSE Tell(n, {"UnlockClaimFailed"}) /\ UNCHANGED <<task, sent>>
             /\ ourState' = IF valid /\ timely
                  THEN [ourState EXCEPT ![l] = RegisterSecretEndState(@, secretHash)]
                  ELSE ourState

TgHandleOnChainSecretReveal(n) ==
  LET l == <<n, task[n].from>>
  IN /\ task[n].type = "target"
     /\ partnerState' = [partnerState EXCEPT
          ![l] = RegisterOnChainSecretEndState(@, secretHash, mined)]
     /\ ourState' = [ourState EXCEPT
          ![l] = RegisterOnChainSecretEndState(@, secretHash, mined)]
     /\ SetTask(n, [task[n] EXCEPT !.state = "reveal_secret"])
     /\ UNCHANGED <<notices, sent>>

TgHandleUnlock(n, p, m) ==
  LET l == <<n, task[n].from>>
  IN /\ task[n].type = "target"
     /\ IF p = task[n].from /\ IsValidUnlock(m.bp, secretHash, partnerState[l], TRUE)
        THEN /\ partnerState' = [partnerState EXCEPT
                  ![l] = WithUnlock(@, m.bp, GetLock(@, secretHash))]
             /\ SetTask(n, NoTask)
             /\ Tell(n, {"PaymentReceivedSuccess"})
             /\ UNCHANGED <<ourState, sent>>
        ELSE UNCHANGED <<nodeVars, sent>>

TgHandleLockExpired(n, p, m) ==
  LET l == <<n, task[n].from>>
      result == AfterLockExpired(l, p, m, block[n])
  IN /\ task[n].type = "target"
     /\ partnerState' = [partnerState EXCEPT ![l] = result]
     /\ IF IsLockPending(result, secretHash)
        THEN SetTask(n, NoTask) /\ Tell(n, {"UnlockClaimFailed"})
        ELSE UNCHANGED <<task, notices>>
     /\ UNCHANGED <<ourState, sent>>

\* The lock is about to expire, and nothing was sent to the chain yet.
TgEventsForOnChainSecretReveal(l, t, blockNumber) ==
  /\ ~MdIsSafeToWait(t.lock, blockNumber)
  /\ IsSecretKnownOffChain(partnerState[l], secretHash)
  /\ t.state # "onchain_secret_reveal"

TgHandleBlock(n) ==
  LET t == task[n]
      l == <<n, t.from>>
      expired == /\ t.state # "expired"
                 /\ IsLockExpired(ourState[l], t.lock, block'[n],
                      t.lock.expiration + DefaultNumberOfBlockConfirmations)
      reveal == ~expired /\ TgEventsForOnChainSecretReveal(l, t, block'[n])
  IN /\ t.type = "target"
     /\ SetTask(n, IF expired THEN [t EXCEPT !.state = "expired"]
                   ELSE IF reveal THEN [t EXCEPT !.state = "onchain_secret_reveal"]
                   ELSE t)
     /\ Tell(n, IF expired THEN {"UnlockClaimFailed"} ELSE {})
     /\ IF reveal THEN RegisterSecret ELSE UNCHANGED mineBy
     /\ UNCHANGED <<endVars, sent>>

-----------------------------------------------------------------------------
(* The mediator.                                                           *)

\* The payer's fee: flat and proportional, at most a share of the amount.
GetAmountWithoutFees(amount) ==
  LET fee == Flat + (amount * Proportional) \div FeeUnit
  IN Sub64(amount, IF fee * FeeLimitDivisor <= amount THEN fee
                   ELSE amount \div FeeLimitDivisor)

MdIsChannelUsable(our, partner, amount, lockTimeout) ==
  /\ lockTimeout > 0
  /\ SettleTimeout >= lockTimeout
  /\ RevealTimeout < lockTimeout
  /\ MerkleTreeWidth(our.merkleTree) < MAXIMUM_PENDING_TRANSFERS
  /\ amount <= GetDistributable(our, partner)
  /\ IsValidAmount(our, amount)

\* The ends of the pair: the channel to the payer and the one to the payee.
PayerLink(n, t) == <<n, t.payer>>
PayeeLink(n, t) == <<n, t.payee>>

\* The pair is pending while one of its states is not final.
GetPendingTransferPairs(t) ==
  {t.payerState, t.payeeState} \ STATE_TRANSFER_FINAL # {}

\* One side f of the node's channels when the secret is set in those of the task,
\* by a RevealSecret or by the registration that was mined.
setOffChainSecret(f, n, t) ==
  [l \in Link |-> IF l \in {PayerLink(n, t), PayeeLink(n, t)}
                  THEN RegisterSecretEndState(f[l], secretHash) ELSE f[l]]

setOnChainSecret(f, n, t) ==
  LET set == IF t.type = "waiting" THEN {PayerLink(n, t)}
             ELSE {PayerLink(n, t), PayeeLink(n, t)}
  IN [l \in Link |-> IF l \in set
                     THEN RegisterOnChainSecretEndState(f[l], secretHash, mined)
                     ELSE f[l]]

\* The task goes when its locks are gone from the channels.
clearIfFinalized(n, t) ==
  SetTask(n,
    IF \/ IsLockPending(partnerState'[PayerLink(n, t)], secretHash)
       \/ t.type = "mediator" /\ IsLockPending(ourState'[PayeeLink(n, t)], secretHash)
    THEN t ELSE NoTask)

\* How many blocks are left for a lock.
Remaining(n, lock) ==
  IF lock.expiration > block[n] THEN lock.expiration - block[n] ELSE 0

\* Mutant: the lock is signed and sent but not put among the pending ones.
LockNotKept(l, type, lock, mediators) ==
  LET bp == createSendLockedTransfer(ourState[l], lock)
  IN /\ ourState' = [ourState EXCEPT ![l].balanceProof = bp]
     /\ Send(l, [type |-> type, bp |-> bp, lock |-> lock, mediators |-> mediators])

\* sendLockedTransfer and sendRefundTransfer.
SendTransfer(l, type, lock, mediators) ==
  LET bp == createSendLockedTransfer(ourState[l], lock)
  IN /\ ourState' = [ourState EXCEPT ![l] = WithLock(@, bp, lock)]
     /\ Send(l, [type |-> type, bp |-> bp, lock |-> lock, mediators |-> mediators])

\* A lock for the payee that expires with the payer's, less the fee.
forwardTransferPair(n, p, q, m) ==
  /\ SendTransfer(<<n, q>>, "LockedTransfer",
                  [m.lock EXCEPT !.amount = GetAmountWithoutFees(@)],
                  m.mediators \cup {n})
  /\ SetTask(n, PairTask(p, q, m.lock))

\* The same lock back to the payer.
backwardTransferPair(n, p, m) ==
  /\ SendTransfer(<<n, p>>, "RefundTransfer", m.lock, {})
  /\ SetTask(n, PairTask(p, p, m.lock))

\* The channel the route service named can still be used; n stands for none.
nextChannelFromRoutes(n, q, lock) ==
  /\ q # n
  /\ MdIsChannelUsable(ourState[<<n, q>>], partnerState[<<n, q>>], lock.amount,
                       Remaining(n, lock))

\* MediatorInit asks for routes before the state change is dispatched, and gets
\* one next hop or none, but no node the transfer went through.
MediatorInit(n, m) == (Route[n] \ ({Initiator} \cup m.mediators)) \cup {n}

\* The transfer is forwarded to q if that channel is usable now; else it is sent
\* back, or else it waits.  accepted is the payer's end of its channel.
mediateTransfer(n, p, q, m, accepted) ==
  LET forward == nextChannelFromRoutes(n, q, m.lock)
      backward == MdIsChannelUsable(ourState[<<n, p>>], accepted, m.lock.amount,
                                    Remaining(n, m.lock))
  IN \/ forward /\ forwardTransferPair(n, p, q, m)
     \/ ~forward /\ backward /\ backwardTransferPair(n, p, m)
     \/ /\ ~forward /\ ~backward
        /\ SetTask(n, WaitingTask(p, m.lock))
        /\ UNCHANGED <<ourState, sent>>

HandleInitMediator(n, p, m) ==
  LET l == <<n, p>>
      accepted == HandleReceiveLockedTransfer(l, m)
  IN /\ n \in Mediators
     /\ IF task[n] # NoTask \/ ~IsValidLockedTransfer(l, m)
        THEN UNCHANGED <<nodeVars, sent>>
        ELSE /\ partnerState' = [partnerState EXCEPT ![l] = accepted]
             /\ \E q \in MediatorInit(n, m) : mediateTransfer(n, p, q, m, accepted)
             /\ UNCHANGED notices

\* Mutant: a payee that knows the secret is paid however late it is.
PaysAnyTime(t, blockNumber) ==
  /\ t.payeeState \in STATE_SECRET_KNOWN
  /\ t.payeeState # "payee_balance_proof"

\* While it is safe to wait for the payer, a payee that knows the secret is
\* paid off the chain.
PaysPayee(t, blockNumber) ==
  /\ MdIsSafeToWait(t.lock, blockNumber)
  /\ t.payeeState \in STATE_SECRET_KNOWN
  /\ t.payeeState # "payee_balance_proof"

\* eventsForBalanceProof with the SendUnlock it makes, after the secret was
\* registered in the channels (our) and reveal is on its way to the payer.
eventsForBalanceProof(n, t, our, blockNumber, reveal) ==
  LET q == PayeeLink(n, t)
      lock == GetLock(our[q], secretHash)
      bp == CreateUnlock(our[q], lock)
      pays == PaysPayee(t, blockNumber)
      unlocks == pays /\ IsLockPending(our[q], secretHash)
  IN /\ ourState' = IF unlocks THEN [our EXCEPT ![q] = WithUnlock(@, bp, lock)] ELSE our
     /\ sent' = [sent EXCEPT
          ![PayerLink(n, t)] = @ \o reveal,
          ![q] = @ \o IF unlocks THEN <<[type |-> "Unlock", bp |-> bp]>> ELSE <<>>]
     /\ clearIfFinalized(n, IF pays THEN [t EXCEPT !.payeeState = "payee_balance_proof"]
                            ELSE t)

\* Mutant: a reveal that comes again is passed on again.
EveryRevealCounts(n, p) ==
  LET t == task[n]
  IN /\ t.type = "mediator"
     /\ UNCHANGED <<partnerState, notices>>
     /\ eventsForBalanceProof(n, [t EXCEPT !.secretKnown = TRUE], ourState, block[n],
                              <<[type |-> "RevealSecret"]>>)

\* The payee that reveals the secret knows it.
setOffchainRevealState(t, p) ==
  IF p = t.payee THEN [t EXCEPT !.payeeState = "payee_secret_revealed"] ELSE t

\* The secret is passed on to a payer that waits once the payee knows it.
eventsForSecretReveal(t) ==
  t.payeeState \in STATE_SECRET_KNOWN /\ t.payerState = "payer_pending"

\* The secret is set in both channels, passed on to the payer, and the payee is
\* paid.
secretLearned(n, p) ==
  LET t == setOffchainRevealState([task[n] EXCEPT !.secretKnown = TRUE], p)
      reveal == eventsForSecretReveal(t)
  IN /\ partnerState' = setOffChainSecret(partnerState, n, t)
     /\ eventsForBalanceProof(n,
          IF reveal THEN [t EXCEPT !.payerState = "payer_secret_revealed"] ELSE t,
          setOffChainSecret(ourState, n, t), block[n],
          IF reveal THEN <<[type |-> "RevealSecret"]>> ELSE <<>>)
     /\ UNCHANGED notices

\* A reveal counts once, as long as the secret is unknown and the payer's lock
\* has not expired.
handleOffChainSecretReveal(n, p) ==
  LET t == task[n]
  IN /\ t.type = "mediator"
     /\ IF t.secretKnown \/ TransferExpired(PayerLink(n, t), t.lock, block[n])
        THEN UNCHANGED <<nodeVars, sent>>
        ELSE secretLearned(n, p)

\* The payee's state is left alone: a payee that has not shown the secret itself
\* is not paid here, and its later reveal is ignored.
handleOnChainSecretReveal(n) ==
  LET t == task[n]
      our == setOnChainSecret(ourState, n, t)
  IN /\ t.type \in {"mediator", "waiting"}
     /\ partnerState' = setOnChainSecret(partnerState, n, t)
     /\ IF t.type = "waiting"
        THEN ourState' = our /\ clearIfFinalized(n, t) /\ UNCHANGED sent
        ELSE eventsForBalanceProof(n, [t EXCEPT !.secretKnown = TRUE], our, mined, <<>>)
     /\ UNCHANGED notices

\* Mutant: the Unlock is expected from the payee.
UnlockFromPayee(n, p, m) ==
  /\ task[n].type \in {"mediator", "waiting"}
  /\ UNCHANGED <<nodeVars, sent>>

handleUnlock(n, p, m) ==
  LET t == task[n]
      l == PayerLink(n, t)
      valid == /\ t.type = "mediator" /\ p = t.payer
               /\ IsValidUnlock(m.bp, secretHash, partnerState[l], TRUE)
  IN /\ t.type \in {"mediator", "waiting"}
     /\ IF valid
        THEN /\ partnerState' = [partnerState EXCEPT
                  ![l] = WithUnlock(@, m.bp, GetLock(@, secretHash))]
             /\ UNCHANGED ourState
             /\ clearIfFinalized(n, [t EXCEPT !.payerState = "payer_balance_proof"])
             /\ UNCHANGED <<notices, sent>>
        ELSE UNCHANGED <<nodeVars, sent>>

\* The message is held against the payer's channel whoever sent it, and the
\* payer counts as expired when its lock is still there afterwards.
handleLockExpired(n, p, m) ==
  LET t == task[n]
      l == PayerLink(n, t)
      result == AfterLockExpired(l, p, m, block[n])
  IN /\ t.type \in {"mediator", "waiting"}
     /\ partnerState' = [partnerState EXCEPT ![l] = result]
     /\ UNCHANGED ourState
     /\ clearIfFinalized(n,
          IF t.type = "mediator" /\ IsLockPending(result, secretHash)
          THEN [t EXCEPT !.payerState = "payer_expired"] ELSE t)
     /\ UNCHANGED <<notices, sent>>

\* The channel of the refund exists, and for that reason the refund is ignored.
MdHandleRefundTransfer(n) ==
  /\ task[n].type = "mediator"
  /\ UNCHANGED <<nodeVars, sent>>

\* The locks of the payee that have expired.
eventsToRemoveExpiredLocks(n, t, blockNumber) ==
  LET our == ourState[PayeeLink(n, t)]
  IN {lock \in LocksOf(our.lockedLocks \cup our.unLockedLocks, secretHash) :
        IsLockExpired(our, lock, blockNumber, lock.expiration + 2 * ConfirmBlockCount)}

MdHasSecretRegistrationStarted(n, t) ==
  \/ IsSecretKnownOnChain(partnerState[PayerLink(n, t)], secretHash)
  \/ t.payerState = "payer_waiting_secret_reveal"

\* The payer's lock is about to expire and the secret is known.
eventsForOnChainSecretRevealIfDangerzone(n, t, blockNumber) ==
  /\ GetPendingTransferPairs(t)
  /\ ~MdIsSafeToWait(t.lock, blockNumber)
  /\ IsSecretKnown(partnerState[PayerLink(n, t)], secretHash)

\* The payer's lock has expired.  our is the node's end of the payer's channel.
eventsForExpiredPairs(t, our, blockNumber) ==
  /\ GetPendingTransferPairs(t)
  /\ IsLockExpired(our, t.lock, blockNumber, t.lock.expiration + 2 * ConfirmBlockCount)

\* MdHandleBlock for a pair: expired locks are taken from the payee, the secret
\* goes to the chain, and the payer's expiry is noted, each on the states the
\* one before left.
MdHandleBlock(n) ==
  LET t == task[n]
      q == PayeeLink(n, t)
      expired == eventsToRemoveExpiredLocks(n, t, block'[n])
      lock == CHOOSE k \in expired : TRUE
      bp == createSendExpiredLock(ourState[q], lock)
      t1 == IF expired # {} THEN [t EXCEPT !.payeeState = "payee_expired"] ELSE t
      danger == eventsForOnChainSecretRevealIfDangerzone(n, t1, block'[n])
      t2 == IF danger THEN [t1 EXCEPT !.payerState = "payer_waiting_secret_reveal"]
            ELSE t1
      late == eventsForExpiredPairs(t2, ourState'[PayerLink(n, t)], block'[n])
  IN /\ t.type = "mediator"
     /\ IF expired # {}
        THEN /\ ourState' = [ourState EXCEPT ![q] = WithoutExpired(@, bp, lock)]
             /\ Send(q, [type |-> "LockExpired", bp |-> bp])
        ELSE UNCHANGED <<ourState, sent>>
     /\ IF danger /\ ~MdHasSecretRegistrationStarted(n, t)
        THEN RegisterSecret ELSE UNCHANGED mineBy
     /\ UNCHANGED partnerState
     /\ Tell(n, IF late THEN {"UnlockClaimFailed"} ELSE {})
     /\ clearIfFinalized(n, IF late THEN [t2 EXCEPT !.payerState = "payer_expired"] ELSE t2)

\* Mutant: the waiting transfer is marked like the payer of a pair.
WaitingPayerExpired(n) ==
  /\ task[n].type = "waiting"
  /\ UNCHANGED <<endVars, notices, sent, mineBy>>
  /\ clearIfFinalized(n, [task[n] EXCEPT !.state = "payer_expired"])

\* MdHandleBlock for a waiting transfer: the first block marks it as expired.
MdHandleBlockWaiting(n) ==
  LET t == task[n]
  IN /\ t.type = "waiting"
     /\ Tell(n, IF t.state # "expired" THEN {"UnlockClaimFailed"} ELSE {})
     /\ UNCHANGED <<endVars, sent, mineBy>>
     /\ clearIfFinalized(n, [t EXCEPT !.state = "expired"])

-----------------------------------------------------------------------------
(* Dispatch: the message or event goes to the task of the node, if any.    *)

ImStateTransition(n, p, m) ==
  \/ m.type = "RefundTransfer" /\ ImHandleTransferRefundCancelRoute(n, p, m)
  \/ m.type = "RevealSecret" /\ ImHandleOffchainSecretReveal(n, p)
  \/ m.type = "LockExpired" /\ ImHandleLockExpired(n, p, m)

\* No node reveals the secret to the target, which knows it first.
TgStateTransition(n, p, m) ==
  \/ m.type = "LockedTransfer" /\ HandleInitTarget(n, p, m)
  \/ m.type = "Unlock" /\ TgHandleUnlock(n, p, m)
  \/ m.type = "LockExpired" /\ TgHandleLockExpired(n, p, m)

MdStateTransition(n, p, m) ==
  \/ m.type = "LockedTransfer" /\ HandleInitMediator(n, p, m)
  \/ m.type = "RefundTransfer" /\ MdHandleRefundTransfer(n)
  \/ m.type = "RevealSecret" /\ handleOffChainSecretReveal(n, p)
  \/ m.type = "Unlock" /\ handleUnlock(n, p, m)
  \/ m.type = "LockExpired" /\ handleLockExpired(n, p, m)

Handle(n, p, m) ==
  \/ ImStateTransition(n, p, m)
  \/ TgStateTransition(n, p, m)
  \/ MdStateTransition(n, p, m)
  \/ m.type # "LockedTransfer" /\ task[n] = NoTask /\ UNCHANGED <<nodeVars, sent>>

Receive(l) ==
  /\ received[l] < Len(sent[l])
  /\ received' = [received EXCEPT ![l] = @ + 1]
  /\ Handle(l[2], l[1], sent[l][received[l] + 1])
  /\ UNCHANGED <<deposit, block, seen, chainVars>>

\* The transport retries until it sees the Delivered.
ReceiveAgain(l) ==
  /\ UNCHANGED <<deposit, received, block, seen, chainVars>>
  /\ \E i \in 1 .. received[l] : Handle(l[2], l[1], sent[l][i])

HandleSecretRevealed(n) ==
  /\ mined = block[n] + 1
  /\ ~seen[n]
  /\ seen' = [seen EXCEPT ![n] = TRUE]
  /\ \/ ImHandleOnChainSecretReveal(n)
     \/ TgHandleOnChainSecretReveal(n)
     \/ handleOnChainSecretReveal(n)
     \/ task[n] = NoTask /\ UNCHANGED <<nodeVars, sent>>
  /\ UNCHANGED <<deposit, received, block, chainVars>>

handleBlockForNode(n) ==
  /\ block[n] < height
  /\ mined = block[n] + 1 => seen[n]
  /\ block' = [block EXCEPT ![n] = @ + 1]
  /\ \/ ImHandleBlock(n)
     \/ TgHandleBlock(n)
     \/ MdHandleBlock(n)
     \/ MdHandleBlockWaiting(n)
     \/ task[n] = NoTask /\ UNCHANGED <<nodeVars, sent, mineBy>>
  /\ UNCHANGED <<deposit, received, seen, height, mined>>

\* A registration is mined at any block up to its last one.
MineBlock ==
  /\ height < MaxHeight
  /\ \A n \in Node : height - block[n] < MaxLag
  /\ height' = height + 1
  /\ \/ mineBy # 0 /\ mined' = height' /\ mineBy' = 0
     \/ mineBy # height' /\ UNCHANGED <<mined, mineBy>>
  /\ UNCHANGED <<deposit, nodeVars, sent, received, block, seen>>

Next ==
  \/ \E hop \in Node : MediaTransfer(hop)
  \/ \E l \in Link : Receive(l)
  \/ \E l \in Link : ReceiveAgain(l)
  \/ \E n \in Node : HandleSecretRevealed(n)
  \/ \E n \in Node : handleBlockForNode(n)
  \/ MineBlock

Spec == Init /\ [][Next]_vars

\* The chain grows, the transport delivers and the nodes process what they see.
\* Nothing forces a payment to start or a message to be delivered twice.  One
\* step of these at a time is enough: each of them can only happen so often.
Fairness ==
  WF_vars(\/ MineBlock
          \/ \E l \in Link : Receive(l)
          \/ \E n \in Node : HandleSecretRevealed(n) \/ handleBlockForNode(n))
FairSpec == Spec /\ Fairness

-----------------------------------------------------------------------------
(* Properties.                                                             *)

\* Every variable holds values of its type.
TypeOK ==
  /\ deposit \in Deposits
  /\ ourState \in [Link -> EndStates]
  /\ partnerState \in [Link -> EndStates]
  /\ task \in [Node -> Tasks]
  /\ notices \in [Node -> SUBSET Notice]
  /\ sent \in [Link -> Seq(Message)]
  /\ received \in [Link -> Nat]
  /\ block \in [Node -> Nat] /\ seen \in [Node -> BOOLEAN]
  /\ height \in Nat /\ mined \in Nat /\ mineBy \in Nat

Sent(l, type) == \E m \in Range(sent[l]) : m.type = type

\* The timing the reveal timeout was chosen for.
InTime == MaxLag + MaxInclusion <= RevealTimeout

\* A mediator that paid its payee (SendUnlock) is not left without the payer's
\* tokens: the payer never takes its lock back.  Holds because the danger zone
\* of the mediator's block handler begins where eventsForBalanceProof stops
\* paying, and every lock of the payment expires with the payer's.
MediatorCovered ==
  InTime => \A m \in Mediators : \A p, q \in Node :
    /\ p # q /\ <<p, m>> \in Link /\ <<m, q>> \in Link
    /\ Sent(<<m, q>>, "Unlock")
    => ~Sent(<<p, m>>, "LockExpired")

\* A target that gave the secret away is not cheated by its mediator: the lock
\* it was promised is not taken back as long as its task lives.
TargetCovered ==
  InTime /\ task[Target].type = "target" =>
    ~Sent(<<task[Target].from, Target>>, "LockExpired")

\* Whoever let go of tokens or of the secret is covered by the node before it.
NobodyCheated == MediatorCovered /\ TargetCovered

\* Along the whole path the payment happens or does not: an initiator that
\* reports failure did not also report success, the target did not receive the
\* payment, and no mediator paid for it.
PaymentAtomic ==
  InTime /\ "PaymentSentFailed" \in notices[Initiator] =>
    /\ "PaymentSentSuccess" \notin notices[Initiator]
    /\ "PaymentReceivedSuccess" \notin notices[Target]
    /\ \A m \in Mediators, q \in Node :
         <<m, q>> \in Link => ~Sent(<<m, q>>, "Unlock")

\* The two copies of every direction and the lock maps in them stay consistent
\* through forwarding, refunds and expiry.
BooksAgree == \A l \in Link : Books(ourState[l]) /\ Books(partnerState[l])

\* The delay IsValidLockExpired grants: a node that is behind by no more than this
\* has reached the threshold of every LockExpired it is sent.
WithinBlockDelay == MaxLag <= MaxBlockDelay + ConfirmBlockCount

\* A message delivered a second time changes neither channel nor task.  (A node
\* that is further behind than WithinBlockDelay refuses a LockExpired that comes
\* too early for it and takes the same message when it is repeated.)
DuplicatesHarmless ==
  [][WithinBlockDelay =>
       \/ UNCHANGED <<endVars, task, sent>>
       \/ ~ \E l \in Link : ReceiveAgain(l)]_vars

\* A payment does not stay pending at its initiator.
PaymentResolves ==
  task[Initiator].type = "initiator" ~>
    notices[Initiator] \cap {"PaymentSentSuccess", "PaymentSentFailed"} # {}

\* The node whose LockedTransfer a mediator got.
Payer(m) == {p \in Node : <<p, m>> \in Link /\ Sent(<<p, m>>, "LockedTransfer")}

\* A mediator that paid its payee is paid in turn: it accepts the payer's
\* Unlock.  A payer that is itself a mediator may have seen the secret on the
\* chain before its payee revealed it, and then never sends an Unlock; but in
\* that case the secret is registered and the lock can be claimed on the chain.
MediatorPaid ==
  \A m \in Mediators :
    task[m].type = "mediator" /\ task[m].payeeState = "payee_balance_proof"
      ~> \E p \in Payer(m) :
           \/ partnerState[<<m, p>>].balanceProof.transferredAmount > 0
           \/ p # Initiator /\ seen[m]
=============================================================================
