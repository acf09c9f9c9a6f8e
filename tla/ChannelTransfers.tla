-------------------------- MODULE ChannelTransfers --------------------------
(***************************************************************************)
(* The two participants of an open channel pay each other, directly and by *)
(* hash-locked transfers whose target is the other participant.  Each node *)
(* runs the payment tasks of mediated_initiator.go and mediated_target.go  *)
(* on its own copy of the channel and learns of blocks and of registered   *)
(* secrets at its own pace.                                                *)
(*                                                                         *)
(* A node handles one state change at a time (StateManager.Dispatch under  *)
(* the service's lock), so an action is one state change.  The one that is *)
(* split is the Block: it is dispatched to every payment task in turn, and *)
(* todo[n] holds the tasks node n still has to visit.  Nothing else        *)
(* happens at n before the last of them was visited.                       *)
(*                                                                         *)
(* Messages of a channel go through one queue per direction.  The          *)
(* transport delivers them in order and may deliver one again: sent[n] is  *)
(* everything n ever sent to its partner and received[n] how much of it    *)
(* the partner has got.                                                    *)
(***************************************************************************)
EXTENDS EndState, Sequences, Functions

CONSTANTS
  A, B,             \* the participants
  Deposit,          \* the contract balance of each
  Amounts,          \* the amounts users ask to transfer
  RevealTimeout,    \* the channel's reveal timeout, in blocks
  DefaultNumberOfBlockConfirmations,  \* the target's delay before expiry (5)
  MaxHeight,        \* bound: the last block of the chain
  MaxDirect,        \* bound: direct transfers each node may send
  MaxLag,           \* how many blocks a node may be behind the chain
  MaxInclusion      \* how many blocks a registration may wait to be mined

Node == {A, B}
Partner(n) == IF n = A THEN B ELSE A

ASSUME TransfersAssumption ==
  /\ A # B
  /\ Deposit \in [Node -> Amount]
  /\ Deposit[A] + Deposit[B] < MaxUint64
  /\ Amounts \subseteq Amount
  /\ RevealTimeout \in Nat
  /\ DefaultNumberOfBlockConfirmations \in Nat
  /\ MaxHeight \in Nat
  /\ MaxDirect \in Nat
  /\ MaxLag \in Nat
  /\ MaxInclusion \in Nat \ {0}

\* What PaymentMapping holds for a secret hash: nothing, an initiator's task,
\* or a target's task in one of its states.
TaskState ==
  {"none", "initiator", "reveal_secret", "onchain_secret_reveal", "expired"}
TargetState == {"reveal_secret", "onchain_secret_reveal", "expired"}

\* What the user of a node is told about a payment.
Notice == {"PaymentSentSuccess", "PaymentSentFailed",
           "PaymentReceivedSuccess", "UnlockClaimFailed"}

ProofMessage ==
  [type : {"DirectTransfer"}, bp : BalanceProof]
  \cup [type : {"LockedTransfer"}, bp : BalanceProof, lock : Lock]
  \cup [type : {"Unlock", "LockExpired"}, bp : BalanceProof,
        secretHash : SecretHash]
RevealMessage == [type : {"RevealSecret"}, secretHash : SecretHash]
Message == ProofMessage \cup RevealMessage
HasProof(m) == m.type # "RevealSecret"

VARIABLES
  ourState,      \* ourState[n]: OurState of n's channel
  partnerState,  \* partnerState[n]: PartnerState of n's channel
  task,          \* task[n][h]: n's payment task for secret hash h
  notices,       \* notices[n][h]: what n's user was told about h
  sent,          \* sent[n]: the messages n sent to its partner
  received,      \* received[n]: how many of them the partner got
  block,         \* block[n]: the height of the last block n processed
  todo,          \* todo[n]: tasks n has yet to visit for that block
  height,        \* the height of the chain
  mined,         \* mined[h]: the block that registered h's secret, or 0
  mineBy,        \* mineBy[h]: the last block for a registration on its way, or 0
  seen           \* seen[n]: the registrations n has processed

nodeVars == <<ourState, partnerState, task, notices>>
netVars == <<sent, received>>
blockVars == <<block, todo, seen>>
chainVars == <<height, mined, mineBy>>
vars == <<nodeVars, netVars, blockVars, chainVars>>

-----------------------------------------------------------------------------
Init ==
  /\ ourState = [n \in Node |-> NewNettingChannelEndState(Deposit[n])]
  /\ partnerState = [n \in Node |-> NewNettingChannelEndState(Deposit[Partner(n)])]
  /\ task = [n \in Node |-> [h \in SecretHash |-> "none"]]
  /\ notices = [n \in Node |-> [h \in SecretHash |-> {}]]
  /\ sent = [n \in Node |-> <<>>]
  /\ received = [n \in Node |-> 0]
  /\ block = [n \in Node |-> 0]
  /\ todo = [n \in Node |-> {}]
  /\ height = 0
  /\ mined = [h \in SecretHash |-> 0]
  /\ mineBy = [h \in SecretHash |-> 0]
  /\ seen = [n \in Node |-> {}]

Idle(n) == todo[n] = {}
Send(n, m) == sent' = [sent EXCEPT ![n] = Append(@, m)]
Tell(n, h, what) == notices' = [notices EXCEPT ![n][h] = @ \cup {what}]
SetTask(n, h, state) == task' = [task EXCEPT ![n][h] = state]

\* A payment draws a new random secret, so its hash was never used before.
Fresh(h) ==
  \A n \in Node :
    /\ notices[n][h] = {}
    /\ \A m \in Range(sent[n]) :
         m.type = "LockedTransfer" => m.lock.secretHash # h

\* The lock of the transfer for h, which a payment task keeps with it.
TransferLock(h) ==
  LET transfers == UNION {{m \in Range(sent[n]) : m.type = "LockedTransfer"} :
                            n \in Node}
  IN (CHOOSE m \in transfers : m.lock.secretHash = h).lock

-----------------------------------------------------------------------------
(* Sending.                                                                *)

handleSendDirectTransfer(n, amount) ==
  LET our == ourState[n]
      bp == createSendDirectTransfer(our, amount)
  IN /\ Idle(n)
     /\ amount > 0
     /\ Add64(Add64(our.balanceProof.transferredAmount, amount),
              currentLockedAmount(our)) < MaxUint64
     /\ amount <= GetDistributable(our, partnerState[n])
     /\ ourState' = [ourState EXCEPT ![n] = WithTransfer(our, bp)]
     /\ Send(n, [type |-> "DirectTransfer", bp |-> bp])
     /\ UNCHANGED <<partnerState, task, notices, received, blockVars, chainVars>>

\* Mutant: the expiration before the block.
ExpirationInThePast(n) == block[n] - 2 * RevealTimeout

InitGetInitialLockExpiration(n) == block[n] + 2 * RevealTimeout

\* ActionInitInitiator: the only route is the channel to the partner.  When it
\* can not be used there is no task, and the payment has failed.
InitTryNewRoute(n, h, amount) ==
  LET our == ourState[n]
      lock == [secretHash |-> h, amount |-> amount,
               expiration |-> InitGetInitialLockExpiration(n)]
      bp == createSendLockedTransfer(our, lock)
      usable == /\ MerkleTreeWidth(our.merkleTree) < MAXIMUM_PENDING_TRANSFERS
                /\ amount <= GetDistributable(our, partnerState[n])
  IN /\ Idle(n)
     /\ Fresh(h)
     /\ \/ /\ usable
           /\ ourState' = [ourState EXCEPT ![n] = WithLock(our, bp, lock)]
           /\ SetTask(n, h, "initiator")
           /\ Send(n, [type |-> "LockedTransfer", bp |-> bp, lock |-> lock])
           /\ UNCHANGED notices
        \/ /\ ~usable
           /\ Tell(n, h, "PaymentSentFailed")
           /\ UNCHANGED <<ourState, task, sent>>
     /\ UNCHANGED <<partnerState, received, blockVars, chainVars>>

\* InitEventsForUnlockLock with the SendUnlock it makes.  When the lock is
\* gone SendUnlock sends nothing; the initiator reports success all the same.
InitEventsForUnlockLock(n, h) ==
  LET our == ourState[n]
      lock == GetLock(our, h)
      bp == CreateUnlock(our, lock)
  IN /\ IF IsLockPending(our, h)
        THEN /\ ourState' = [ourState EXCEPT ![n] = WithUnlock(our, bp, lock)]
             /\ Send(n, [type |-> "Unlock", bp |-> bp, secretHash |-> h])
        ELSE UNCHANGED <<ourState, sent>>
     /\ Tell(n, h, "PaymentSentSuccess")
     /\ SetTask(n, h, "none")

-----------------------------------------------------------------------------
(* Receiving.  Handle(n, m) is everything node n does on message m.        *)

handleReceiveDirectTransfer(n, m) ==
  /\ m.type = "DirectTransfer"
  /\ IF IsValidDirectTransfer(m.bp, partnerState[n], ourState[n], TRUE)
     THEN partnerState' = [partnerState EXCEPT ![n] = WithTransfer(@, m.bp)]
     ELSE UNCHANGED partnerState
  /\ UNCHANGED <<ourState, task, notices, sent>>

\* Mutant: the reveal timeout itself still counts as safe.
SafeAtTheTimeout(expiration, blockNumber) ==
  expiration >= blockNumber /\ expiration - blockNumber >= RevealTimeout

MdIsSafeToWait(expiration, blockNumber) ==
  expiration >= blockNumber /\ expiration - blockNumber > RevealTimeout

TransferExpired(lock, our, blockNumber) ==
  IsLockExpired(our, lock, blockNumber, lock.expiration + 2 * ConfirmBlockCount)

\* Mutant: the check for an existing task is missing.
AnyTask(n, h) == h \in SecretHash

\* TgStateTransition starts a target's task only where there is none.
NoTask(n, h) == task[n][h] = "none"

\* The target keeps a lock it accepted even when it is too late to use it,
\* but then it has no task for it.
HandleInitTarget(n, m) ==
  LET h == m.lock.secretHash
      accepted == WithLock(partnerState[n], m.bp, m.lock)
      valid == ValidLockedTransferCheck(m.bp, m.lock, partnerState[n],
                                        ourState[n], TRUE)
      timely == /\ MdIsSafeToWait(m.lock.expiration, block[n])
                /\ ~TransferExpired(m.lock, ourState[n], block[n])
  IN /\ m.type = "LockedTransfer"
     /\ \/ /\ NoTask(n, h) /\ valid /\ timely
           /\ partnerState' = [partnerState EXCEPT
                ![n] = RegisterSecretEndState(accepted, h)]
           /\ ourState' = [ourState EXCEPT ![n] = RegisterSecretEndState(@, h)]
           /\ SetTask(n, h, "reveal_secret")
           /\ Send(n, [type |-> "RevealSecret", secretHash |-> h])
           /\ UNCHANGED notices
        \/ /\ NoTask(n, h) /\ ~(valid /\ timely)
           /\ partnerState' = IF valid THEN [partnerState EXCEPT ![n] = accepted]
                                       ELSE partnerState
           /\ SetTask(n, h, "none")
           /\ Tell(n, h, "UnlockClaimFailed")
           /\ UNCHANGED <<ourState, sent>>
        \/ /\ ~NoTask(n, h)
           /\ UNCHANGED <<nodeVars, sent>>

\* ReceiveSecretReveal: the initiator unlocks as soon as the partner shows
\* that it knows the secret.
InitHandleOffChainSecretReveal(n, m) ==
  /\ m.type = "RevealSecret"
  /\ IF task[n][m.secretHash] = "initiator"
     THEN InitEventsForUnlockLock(n, m.secretHash) /\ UNCHANGED partnerState
     ELSE UNCHANGED <<nodeVars, sent>>

\* ReceiveUnlock reaches the channel through the target's task only.
TgHandleUnlock(n, m) ==
  LET partner == partnerState[n]
      h == m.secretHash
  IN /\ m.type = "Unlock"
     /\ IF task[n][h] \in TargetState /\ IsValidUnlock(m.bp, h, partner, TRUE)
        THEN /\ partnerState' = [partnerState EXCEPT
                  ![n] = WithUnlock(@, m.bp, GetLock(partner, h))]
             /\ SetTask(n, h, "none")
             /\ Tell(n, h, "PaymentReceivedSuccess")
             /\ UNCHANGED <<ourState, sent>>
        ELSE UNCHANGED <<nodeVars, sent>>

\* So does ReceiveLockExpired.  The task goes when the lock is still there
\* afterwards, and stays when it was removed.
TgHandleLockExpired(n, m) ==
  LET partner == partnerState[n]
      h == m.secretHash
      expired == WithoutExpired(partner, m.bp, GetLock(partner, h))
      result == IF IsValidLockExpired(m.bp, h, partner, ourState[n],
                                      block[n], TRUE)
                THEN expired ELSE partner
  IN /\ m.type = "LockExpired"
     /\ IF task[n][h] \in TargetState
        THEN /\ partnerState' = [partnerState EXCEPT ![n] = result]
             /\ IF IsLockPending(result, h)
                THEN SetTask(n, h, "none") /\ Tell(n, h, "UnlockClaimFailed")
                ELSE UNCHANGED <<task, notices>>
        ELSE UNCHANGED <<partnerState, task, notices>>
     /\ UNCHANGED <<ourState, sent>>

Handle(n, m) ==
  \/ handleReceiveDirectTransfer(n, m)
  \/ HandleInitTarget(n, m)
  \/ InitHandleOffChainSecretReveal(n, m)
  \/ TgHandleUnlock(n, m)
  \/ TgHandleLockExpired(n, m)

\* The next message of the queue arrives.
Receive(n) ==
  LET p == Partner(n)
  IN /\ Idle(n)
     /\ received[p] < Len(sent[p])
     /\ Handle(n, sent[p][received[p] + 1])
     /\ received' = [received EXCEPT ![p] = @ + 1]
     /\ UNCHANGED <<blockVars, chainVars>>

\* The transport retries until it sees the Delivered: n gets one again.
ReceiveAgain(n) ==
  LET p == Partner(n)
  IN /\ Idle(n)
     /\ \E i \in 1 .. received[p] : Handle(n, sent[p][i])
     /\ UNCHANGED <<received, blockVars, chainVars>>

-----------------------------------------------------------------------------
(* Blocks.  CallbackNewBlock hands the events of a block to the node before*)
(* the block itself.                                                       *)

MineBlock ==
  /\ height < MaxHeight
  /\ \A n \in Node : height - block[n] < MaxLag
  /\ height' = height + 1
  /\ \E confirmed \in SUBSET {h \in SecretHash : mineBy[h] # 0} :
       /\ \A h \in SecretHash : mineBy[h] = height' => h \in confirmed
       /\ mined' = [h \in SecretHash |->
                      IF h \in confirmed THEN height' ELSE mined[h]]
       /\ mineBy' = [h \in SecretHash |->
                      IF h \in confirmed THEN 0 ELSE mineBy[h]]
  /\ UNCHANGED <<nodeVars, netVars, blockVars>>

\* ContractReceiveSecretReveal for a secret registered in the next block.
HandleSecretRevealed(n, h) ==
  /\ Idle(n)
  /\ mined[h] = block[n] + 1
  /\ h \notin seen[n]
  /\ seen' = [seen EXCEPT ![n] = @ \cup {h}]
  /\ \/ \* InitHandleOnChainSecretReveal
        /\ task[n][h] = "initiator"
        /\ IF mined[h] <= TransferLock(h).expiration
           THEN InitEventsForUnlockLock(n, h)
           ELSE UNCHANGED <<ourState, task, notices, sent>>
        /\ UNCHANGED partnerState
     \/ \* TgHandleOnChainSecretReveal
        /\ task[n][h] \in TargetState
        /\ ourState' = [ourState EXCEPT
             ![n] = RegisterOnChainSecretEndState(@, h, mined[h])]
        /\ partnerState' = [partnerState EXCEPT
             ![n] = RegisterOnChainSecretEndState(@, h, mined[h])]
        /\ SetTask(n, h, "reveal_secret")
        /\ UNCHANGED <<notices, sent>>
     \/ /\ task[n][h] = "none"
        /\ UNCHANGED <<nodeVars, sent>>
  /\ UNCHANGED <<received, block, todo, chainVars>>

handleBlockForNode(n) ==
  /\ Idle(n)
  /\ block[n] < height
  /\ \A h \in SecretHash : mined[h] = block[n] + 1 => h \in seen[n]
  /\ block' = [block EXCEPT ![n] = @ + 1]
  /\ todo' = [todo EXCEPT ![n] = {h \in SecretHash : task[n][h] # "none"}]
  /\ UNCHANGED <<nodeVars, netVars, seen, chainVars>>

\* The initiator gives the payment up once the lock expired.  Its task stays
\* as long as a lock with this secret hash is on either side.
InitHandleBlock(n, h) ==
  LET our == ourState[n]
      partner == partnerState[n]
      lock == CHOOSE l \in our.lockedLocks : l.secretHash = h
      bp == createSendExpiredLock(our, lock)
      without == WithoutExpired(our, bp, lock)
      expired == /\ IsLockLocked(our, h)
                 /\ IsLockExpired(our, lock, block[n],
                                  lock.expiration + 2 * ConfirmBlockCount)
  IN /\ task[n][h] = "initiator"
     /\ \/ /\ expired
           /\ ourState' = [ourState EXCEPT ![n] = without]
           /\ Send(n, [type |-> "LockExpired", bp |-> bp, secretHash |-> h])
           /\ Tell(n, h, "PaymentSentFailed")
           /\ SetTask(n, h, IF IsLockPending(without, h) \/ IsLockPending(partner, h)
                            THEN "initiator" ELSE "none")
        \/ /\ ~expired
           /\ SetTask(n, h, IF IsLockLocked(our, h) \/ IsLockLocked(partner, h)
                            THEN "initiator" ELSE "none")
           /\ UNCHANGED <<ourState, notices, sent>>
     /\ UNCHANGED <<partnerState, mineBy>>

\* Sent by a goroutine; the contract keeps the first registration only.
RegisterSecret(h) ==
  mineBy' = IF mined[h] = 0 /\ mineBy[h] = 0
            THEN [mineBy EXCEPT ![h] = height + MaxInclusion] ELSE mineBy

\* The target takes the secret to the chain when the lock is about to expire.
TgHandleBlock(n, h) ==
  LET lock == TransferLock(h)
      expired == IsLockExpired(ourState[n], lock, block[n],
                   lock.expiration + DefaultNumberOfBlockConfirmations)
      reveal == /\ ~MdIsSafeToWait(lock.expiration, block[n])
                /\ IsSecretKnown(partnerState[n], h)
                /\ IsSecretKnownOffChain(partnerState[n], h)
                /\ task[n][h] # "onchain_secret_reveal"
  IN /\ task[n][h] \in TargetState
     /\ \/ /\ expired /\ task[n][h] # "expired"
           /\ SetTask(n, h, "expired")
           /\ Tell(n, h, "UnlockClaimFailed")
           /\ UNCHANGED mineBy
        \/ /\ ~expired \/ task[n][h] = "expired"
           /\ reveal
           /\ SetTask(n, h, "onchain_secret_reveal")
           /\ RegisterSecret(h)
           /\ UNCHANGED notices
        \/ /\ ~expired \/ task[n][h] = "expired"
           /\ ~reveal
           /\ UNCHANGED <<task, notices, mineBy>>
     /\ UNCHANGED <<ourState, partnerState, sent>>

\* subDispatchToAllLockedTransfers visits the tasks in no particular order.
HandleBlockForTask(n) ==
  \E h \in todo[n] :
    /\ todo' = [todo EXCEPT ![n] = @ \ {h}]
    /\ InitHandleBlock(n, h) \/ TgHandleBlock(n, h)
    /\ UNCHANGED <<received, block, seen, height, mined>>

-----------------------------------------------------------------------------
DirectSent(n) ==
  Cardinality({i \in DOMAIN sent[n] : sent[n][i].type = "DirectTransfer"})

\* Bound: a payment starts early enough for its lock to expire in the model.
SoonEnough(n) ==
  InitGetInitialLockExpiration(n) + 2 * ConfirmBlockCount <= MaxHeight

Next ==
  \/ \E n \in Node, amount \in Amounts :
       DirectSent(n) < MaxDirect /\ handleSendDirectTransfer(n, amount)
  \/ \E n \in Node, h \in SecretHash, amount \in Amounts :
       SoonEnough(n) /\ InitTryNewRoute(n, h, amount)
  \/ \E n \in Node : Receive(n)
  \/ \E n \in Node : ReceiveAgain(n)
  \/ \E n \in Node, h \in SecretHash : HandleSecretRevealed(n, h)
  \/ \E n \in Node : handleBlockForNode(n)
  \/ \E n \in Node : HandleBlockForTask(n)
  \/ MineBlock

Spec == Init /\ [][Next]_vars

-----------------------------------------------------------------------------
(* Properties.                                                             *)

\* Every variable holds values of its type.
TypeOK ==
  /\ ourState \in [Node -> EndStates]
  /\ partnerState \in [Node -> EndStates]
  /\ task \in [Node -> [SecretHash -> TaskState]]
  /\ notices \in [Node -> [SecretHash -> SUBSET Notice]]
  /\ sent \in [Node -> Seq(Message)]
  /\ received \in [Node -> Nat]
  /\ block \in [Node -> Nat]
  /\ todo \in [Node -> SUBSET SecretHash]
  /\ height \in Nat
  /\ mined \in [SecretHash -> Nat]
  /\ mineBy \in [SecretHash -> Nat]
  /\ seen \in [Node -> SUBSET SecretHash]

\* Both sides a node keeps are consistent after every state change, although
\* each handler updates the proof, the tree and the three maps one by one.
BooksAgree == \A n \in Node : Books(ourState[n]) /\ Books(partnerState[n])

\* Every proof a node ever signed is covered: what the partner could claim with
\* it is at most the node's deposit and what the node can claim in return.
\* GetDistributable computes this on each side from a view that may be old.
ProofsCovered ==
  \A n \in Node : \A m \in Range(sent[n]) :
    HasProof(m) =>
      m.bp.transferredAmount + m.bp.lockedAmount
        <= Deposit[n] + partnerState[n].balanceProof.transferredAmount

\* What a node signed away is in its books, and nothing its partner recorded is
\* ahead of it, whatever is still on its way: the partner's record of the
\* transferred amount, and that of every proof sent, is at most the sender's.
RecordsBehind ==
  \A n \in Node :
    LET T == ourState[n].balanceProof.transferredAmount
    IN /\ partnerState[Partner(n)].balanceProof.transferredAmount <= T
       /\ \A m \in Range(sent[n]) : HasProof(m) => m.bp.transferredAmount <= T

\* A side never promises more than it has on its own view of the channel.
Funded ==
  \A n \in Node :
    ourState[n].balanceProof.transferredAmount + ourState[n].balanceProof.lockedAmount
      <= Deposit[n] + partnerState[n].balanceProof.transferredAmount

\* The deposits are those of the contract on both sides.
DepositsKept ==
  \A n \in Node :
    /\ ourState[n].contractBalance = Deposit[n]
    /\ ourState[n].totalWithdraw = 0
    /\ partnerState[n].contractBalance = Deposit[Partner(n)]
    /\ partnerState[n].totalWithdraw = 0

\* Every lock in the books of n's side, on either node, came with a transfer
\* that n sent, not later than the proof of those books.
Announced(n, end) ==
  \A l \in PendingLocks(end) : \E m \in Range(sent[n]) :
    /\ m.type = "LockedTransfer" /\ m.lock = l
    /\ m.bp.nonce <= end.balanceProof.nonce
LocksAnnounced ==
  \A n \in Node : Announced(n, ourState[n]) /\ Announced(n, partnerState[Partner(n)])

\* A secret hash is used for one transfer.
OneTransferPerSecret ==
  \A n \in Node : \A m, k \in Range(sent[n]) :
    /\ m.type = "LockedTransfer" /\ k.type = "LockedTransfer"
    /\ m.lock.secretHash = k.lock.secretHash
    => m = k

\* Nothing is received that was not sent.
ReceivedWasSent == \A n \in Node : received[n] <= Len(sent[n])

\* The inductive invariant: BooksAgree and ProofsCovered hold because neither
\* node's view of the other direction runs ahead of what was signed there, so
\* the wrapping arithmetic of getBalance and GetDistributable stays exact, and
\* because a lock can not enter the books twice.
LedgerInv ==
  /\ TypeOK /\ BooksAgree /\ ProofsCovered
  /\ DepositsKept /\ Funded /\ RecordsBehind
  /\ LocksAnnounced /\ OneTransferPerSecret /\ ReceivedWasSent

\* A delivered message that the receiver should have applied and did not.
\* The nonce it waits for is the one of this message.
Rejected(n, i) ==
  /\ i <= received[n]
  /\ HasProof(sent[n][i])
  /\ sent[n][i].bp.nonce = getNextNonce(partnerState[Partner(n)])

\* Nothing a node sends is refused by the checks of IsValidDirectTransfer,
\* ValidLockedTransferCheck and IsValidUnlock on the other side, however the
\* two directions interleave.  (A LockExpired is refused by a target that took
\* the transfer too late and has no task for it, by one that knows the secret,
\* and by one whose block height is behind.)
OnlyLockExpiredRejected ==
  \A n \in Node : \A i \in DOMAIN sent[n] :
    Rejected(n, i) => sent[n][i].type = "LockExpired"

\* A payment that its initiator reports as failed was not also reported as
\* sent, was not received, and can not be claimed on the chain; one that was
\* received was sent.
PaymentAtomic ==
  \A n \in Node, h \in SecretHash :
    LET p == Partner(n)
    IN /\ "PaymentSentFailed" \in notices[n][h] =>
            /\ "PaymentSentSuccess" \notin notices[n][h]
            /\ "PaymentReceivedSuccess" \notin notices[p][h]
            /\ ~IsSecretKnownOnChain(partnerState[p], h)
       /\ "PaymentReceivedSuccess" \in notices[p][h] =>
            "PaymentSentSuccess" \in notices[n][h]

\* A target that gave the secret away is paid if its node keeps up with the
\* chain and registrations are mined in time: the reveal timeout is enough for
\* HandleInitTarget to accept, TgHandleBlock to register and InitHandleBlock to
\* wait, at every boundary of the three comparisons.
RevealTimeoutSuffices ==
  MaxLag + MaxInclusion <= RevealTimeout =>
    \A n \in Node, h \in SecretHash :
      task[Partner(n)][h] \in TargetState =>
        "PaymentSentFailed" \notin notices[n][h]

\* A message delivered a second time changes neither channel nor task.
DuplicatesHarmless ==
  [][(\E n \in Node : ReceiveAgain(n)) =>
       UNCHANGED <<ourState, partnerState, task, sent>>]_vars

\* What the initiator reports as paid, the target has got once it has all of the
\* initiator's messages: neither the secret on the chain before the Unlock, nor
\* a block in between, makes the target refuse or forget it.  The exception is
\* an earlier LockExpired the target refused: the nonces differ from then on and
\* no later message of that direction is taken.
PaymentArrives ==
  \A n \in Node, h \in SecretHash :
    "PaymentSentSuccess" \in notices[n][h] /\ received[n] = Len(sent[n]) =>
      \/ "PaymentReceivedSuccess" \in notices[Partner(n)][h]
      \/ \E i \in DOMAIN sent[n] : Rejected(n, i) /\ sent[n][i].type = "LockExpired"
=============================================================================
