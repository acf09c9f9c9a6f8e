-------------------------- MODULE Mediation_proofs --------------------------
(***************************************************************************)
(* The books of a mediated payment, for every graph of nodes and channels, *)
(* every amount, fee, deposit and timeout.  The inductive invariant Base   *)
(* says, beside the types and the books,                                   *)
(*                                                                         *)
(*   LinkInv         per link: the sender promises once and settles once,  *)
(*                   and both copies of its side are where its messages    *)
(*                   have got to                                           *)
(*   TransferOrigin, where promises come from: the transfers form one path *)
(*   TransferOrder,  out of the initiator, and a refund goes back along it *)
(*   PromiseOrigin                                                         *)
(*   RevealOrigin,   a secret is revealed to who has a promise, a promise  *)
(*   ExpiredLate     is taken back only once its lock has expired          *)
(*   TaskInv         the initiator's, the mediators' and the target's task *)
(*                   fit what their links show                             *)
(*                                                                         *)
(* Every handler is first brought to what it does to the links and to the  *)
(* node's task (its effect), and the invariant is kept by the effects.     *)
(***************************************************************************)
EXTENDS Mediation, EndState_proofs

-----------------------------------------------------------------------------
(* One side of a channel of the payment.  Before the promise it holds      *)
(* nothing, after it one lock, and nothing again once that is settled.     *)

\* A side whose books are in order.
Good(end) == end \in EndStates /\ Books(end)

\* What is pending on a side is what its proof says.
LEMMA PendingIsRoot ==
  ASSUME NEW end, Good(end)
  PROVE  /\ PendingLocks(end) = end.balanceProof.locksRoot
         /\ end.merkleTree = end.balanceProof.locksRoot
         /\ end.balanceProof.nonce \in Nat
         /\ end.balanceProof.nonce = 0 => end.balanceProof.locksRoot = {}
         /\ end \in EndStates /\ Books(end)
BY EndStateTypes DEF Good, Books, NoBalanceProof

\* The only pending lock is the one that is found.
LEMMA OneLock ==
  ASSUME NEW end, Good(end), NEW lock, end.balanceProof.locksRoot = {lock}
  PROVE  /\ IsLockPending(end, lock.secretHash)
         /\ GetLock(end, lock.secretHash) = lock
         /\ lock \in PendingLocks(end) /\ lock \in Lock
<1>1. PendingLocks(end) = {lock} /\ end \in EndStates /\ Books(end)
  BY PendingIsRoot, Zenon
<1>2. IsLockPending(end, lock.secretHash)
  BY <1>1 DEF IsLockPending, LocksOf
<1>3. GetLock(end, lock.secretHash) \in PendingLocks(end)
  BY <1>1, <1>2, TheLock, Zenon
<1> QED BY <1>1, <1>2, <1>3, PendingType

\* Nothing is pending on a side whose proof has an empty root.
LEMMA NoLock ==
  ASSUME NEW end, Good(end), end.balanceProof.locksRoot = {}, NEW h
  PROVE  ~IsLockPending(end, h) /\ ~IsSecretKnown(end, h)
<1>1. PendingLocks(end) = {}
  BY PendingIsRoot, Zenon
<1> QED BY <1>1 DEF IsLockPending, IsSecretKnown, IsSecretKnownOffChain,
                    IsSecretKnownOnChain, LocksOf, PendingLocks

\* A lock that was just taken is a locked one.
LEMMA NewLockUnknown ==
  ASSUME NEW end, Good(end), end.balanceProof.locksRoot = {},
         NEW bp, NEW lock, NEW h
  PROVE  ~IsSecretKnown(WithLock(end, bp, lock), h)
<1> DEFINE new == WithLock(end, bp, lock)
<1>1. PendingLocks(end) = {} /\ end \in EndStates
  BY PendingIsRoot, Zenon
<1>2. end.unLockedLocks = {} /\ end.onChainUnLockedLocks = {}
  BY <1>1 DEF PendingLocks
<1>3. /\ new.unLockedLocks = end.unLockedLocks
      /\ new.onChainUnLockedLocks = end.onChainUnLockedLocks
  BY <1>1 DEF WithLock, EndStates
<1> HIDE DEF new
<1>4. ~IsSecretKnown(new, h)
  BY <1>2, <1>3 DEF IsSecretKnown, IsSecretKnownOffChain, IsSecretKnownOnChain, LocksOf
<1> QED BY <1>4 DEF new

\* The promise of a side that has sent nothing yet.
LEMMA PromiseEnd ==
  ASSUME NEW end, Good(end), end.balanceProof.nonce = 0,
         NEW lock \in Lock,
         lock.amount <= MaxUint64 - end.balanceProof.transferredAmount
                          - end.balanceProof.lockedAmount,
         NEW bp, bp = createSendLockedTransfer(end, lock)
  PROVE  /\ bp \in BalanceProof /\ bp.nonce = 1 /\ bp.locksRoot = {lock}
         /\ Good(WithLock(end, bp, lock))
         /\ WithLock(end, bp, lock).balanceProof = bp
         /\ \A h : ~IsSecretKnown(WithLock(end, bp, lock), h)
<1>1. /\ end \in EndStates /\ Books(end)
      /\ end.balanceProof.locksRoot = {} /\ end.merkleTree = {}
      /\ PendingLocks(end) = {}
  BY PendingIsRoot
<1>2. /\ bp \in BalanceProof
      /\ bp.nonce = end.balanceProof.nonce + 1
      /\ bp.locksRoot = end.merkleTree \cup {lock}
      /\ bp.lockedAmount = end.balanceProof.lockedAmount + lock.amount
      /\ bp.transferredAmount = end.balanceProof.transferredAmount
  BY <1>1, LockedProof
<1>3. bp.transferredAmount + bp.lockedAmount <= MaxUint64
  <2>1. /\ end.balanceProof.transferredAmount \in Nat
        /\ end.balanceProof.lockedAmount \in Nat
        /\ lock.amount \in Nat /\ MaxUint64 \in Nat
    BY <1>1, EndStateTypes, AmountFacts DEF Lock
  <2> QED BY <1>2, <2>1
<1>4. ~IsLockPending(end, lock.secretHash)
  BY <1>1, NoLock
<1>5. bp.nonce = 1 /\ bp.nonce # 0
  BY <1>2
<1>6. /\ WithLock(end, bp, lock) \in EndStates /\ Books(WithLock(end, bp, lock))
      /\ WithLock(end, bp, lock).balanceProof = bp
  BY <1>1, <1>2, <1>3, <1>4, <1>5, LockBooks
<1>7. \A h : ~IsSecretKnown(WithLock(end, bp, lock), h)
  BY <1>1, NewLockUnknown, Zenon
<1> QED BY <1>1, <1>2, <1>5, <1>6, <1>7 DEF Good

\* The unlock of a side that has promised.
LEMMA UnlockEnd ==
  ASSUME NEW end, Good(end), end.balanceProof.nonce = 1,
         NEW lock, end.balanceProof.locksRoot = {lock},
         NEW bp, bp = CreateUnlock(end, lock)
  PROVE  /\ bp \in BalanceProof /\ bp.nonce = 2 /\ bp.locksRoot = {}
         /\ Good(WithUnlock(end, bp, lock))
         /\ WithUnlock(end, bp, lock).balanceProof = bp
<1>1. end \in EndStates /\ Books(end) /\ end.merkleTree = {lock}
  BY PendingIsRoot
<1>2. /\ IsLockPending(end, lock.secretHash)
      /\ GetLock(end, lock.secretHash) = lock
      /\ lock \in PendingLocks(end)
  BY OneLock
<1>3. /\ bp \in BalanceProof
      /\ bp.nonce = end.balanceProof.nonce + 1
      /\ bp.locksRoot = end.merkleTree \ {lock}
      /\ bp.lockedAmount = end.balanceProof.lockedAmount - lock.amount
      /\ bp.transferredAmount = end.balanceProof.transferredAmount + lock.amount
  BY <1>1, <1>2, UnlockProof
<1>4. bp.transferredAmount + bp.lockedAmount <= MaxUint64
  <2>1. /\ end.balanceProof.transferredAmount \in Nat
        /\ end.balanceProof.lockedAmount \in Nat /\ MaxUint64 \in Nat
        /\ end.balanceProof.transferredAmount + end.balanceProof.lockedAmount <= MaxUint64
        /\ lock.amount \in Nat
    BY <1>1, <1>2, EndStateTypes, AmountFacts, LockAmount DEF Books
  <2> QED BY <1>3, <2>1
<1>5. bp.nonce = 2 /\ bp.nonce # 0
  BY <1>3
<1>6. /\ WithUnlock(end, bp, lock) \in EndStates /\ Books(WithUnlock(end, bp, lock))
      /\ WithUnlock(end, bp, lock).balanceProof = bp
  BY <1>1, <1>2, <1>3, <1>4, <1>5, UnlockBooks
<1> QED BY <1>1, <1>3, <1>5, <1>6 DEF Good

\* The expiry of a side that has promised.
LEMMA ExpireEnd ==
  ASSUME NEW end, Good(end), end.balanceProof.nonce = 1,
         NEW lock, end.balanceProof.locksRoot = {lock},
         ~IsSecretKnownOnChain(end, lock.secretHash),
         NEW bp, bp = createSendExpiredLock(end, lock)
  PROVE  /\ bp \in BalanceProof /\ bp.nonce = 2 /\ bp.locksRoot = {}
         /\ Good(WithoutExpired(end, bp, lock))
         /\ WithoutExpired(end, bp, lock).balanceProof = bp
<1>1. end \in EndStates /\ Books(end) /\ end.merkleTree = {lock}
  BY PendingIsRoot
<1>2. /\ IsLockPending(end, lock.secretHash)
      /\ GetLock(end, lock.secretHash) = lock
      /\ lock \in PendingLocks(end)
  BY OneLock
<1>3. /\ bp \in BalanceProof
      /\ bp.nonce = end.balanceProof.nonce + 1
      /\ bp.locksRoot = end.merkleTree \ {lock}
      /\ bp.lockedAmount = end.balanceProof.lockedAmount - lock.amount
      /\ bp.transferredAmount = end.balanceProof.transferredAmount
  BY <1>1, <1>2, ExpiredProof
<1>4. bp.transferredAmount + bp.lockedAmount <= MaxUint64
  <2>1. /\ end.balanceProof.transferredAmount \in Nat
        /\ end.balanceProof.lockedAmount \in Nat /\ MaxUint64 \in Nat
        /\ end.balanceProof.transferredAmount + end.balanceProof.lockedAmount <= MaxUint64
        /\ lock.amount \in Nat
    BY <1>1, <1>2, EndStateTypes, AmountFacts, LockAmount DEF Books
  <2> QED BY <1>3, <2>1
<1>5. bp.nonce = 2 /\ bp.nonce # 0
  BY <1>3
<1>6. /\ WithoutExpired(end, bp, lock) \in EndStates
      /\ Books(WithoutExpired(end, bp, lock))
      /\ WithoutExpired(end, bp, lock).balanceProof = bp
  BY <1>1, <1>2, <1>3, <1>4, <1>5, ExpiredBooks
<1> QED BY <1>1, <1>3, <1>5, <1>6 DEF Good

\* A side that accepts a promise had sent nothing before, if the promise is the
\* first proof.
LEMMA AcceptPromiseEnd ==
  ASSUME NEW end, Good(end), NEW receiver \in EndStates,
         NEW bp \in BalanceProof, bp.nonce = 1, NEW lock \in Lock,
         ValidLockedTransferCheck(bp, lock, end, receiver, TRUE)
  PROVE  /\ end.balanceProof.nonce = 0
         /\ Good(WithLock(end, bp, lock))
         /\ WithLock(end, bp, lock).balanceProof = bp
         /\ \A h : ~IsSecretKnown(WithLock(end, bp, lock), h)
<1>1. end \in EndStates /\ Books(end) /\ end.balanceProof.nonce \in Nat
  BY PendingIsRoot
<1>2. bp.nonce = end.balanceProof.nonce + 1
  BY <1>1, NextNonce
     DEF ValidLockedTransferCheck, IsBalanceProofUsableOnChain
<1>3. end.balanceProof.nonce = 0
  BY <1>1, <1>2
<1>4. end.balanceProof.locksRoot = {}
  BY <1>3, PendingIsRoot
<1>5. ~IsLockPending(end, lock.secretHash)
  BY <1>4, NoLock, Zenon
<1>6. Follows(WithLock(end, bp, lock), end, bp)
  BY <1>1, <1>5, AcceptLocked
<1>7. \A h : ~IsSecretKnown(WithLock(end, bp, lock), h)
  BY <1>4, NewLockUnknown, Zenon
<1> QED BY <1>3, <1>6, <1>7 DEF Follows, Good

\* A side that accepts an unlock has a promise pending.
LEMMA AcceptUnlockEnd ==
  ASSUME NEW end, Good(end), NEW bp \in BalanceProof, NEW h,
         IsValidUnlock(bp, h, end, TRUE),
         NEW new, new = WithUnlock(end, bp, GetLock(end, h))
  PROVE  /\ Good(new) /\ new.balanceProof = bp
         /\ bp.nonce = end.balanceProof.nonce + 1
         /\ end.balanceProof.locksRoot # {}
<1>1. end \in EndStates /\ Books(end)
  BY PendingIsRoot
<1>2. Follows(new, end, bp)
  BY <1>1, AcceptUnlock
<1>3. IsLockPending(end, h)
  BY DEF IsValidUnlock
<1>4. end.balanceProof.locksRoot # {}
  BY <1>3, NoLock
<1> QED BY <1>2, <1>4 DEF Follows, Good

\* A lock-expired message with the balance proof bp is accepted by the side end.
ExpiryTaken(new, end, receiver, b, bp, h) ==
  /\ Good(end) /\ bp \in BalanceProof
  /\ IsValidLockExpired(bp, h, end, receiver, b, TRUE)
  /\ new = WithoutExpired(end, bp, GetLock(end, h))

\* A side that accepts an expiry has a promise pending.
LEMMA AcceptExpiredEnd ==
  ASSUME NEW new, NEW end, NEW receiver, NEW b, NEW bp, NEW h,
         ExpiryTaken(new, end, receiver, b, bp, h)
  PROVE  /\ Good(new) /\ new.balanceProof = bp
         /\ bp.nonce = end.balanceProof.nonce + 1
         /\ end.balanceProof.locksRoot # {}
<1>0. /\ Good(end) /\ bp \in BalanceProof
      /\ IsValidLockExpired(bp, h, end, receiver, b, TRUE)
      /\ new = WithoutExpired(end, bp, GetLock(end, h))
  BY DEF ExpiryTaken
<1>1. end \in EndStates /\ Books(end)
  BY <1>0, PendingIsRoot
<1>2. Follows(new, end, bp)
  BY <1>0, <1>1, AcceptExpired
<1>3. IsLockPending(end, h)
  BY <1>0 DEF IsValidLockExpired, IsLockLocked, IsLockPending, LocksOf, PendingLocks
<1>4. end.balanceProof.locksRoot # {}
  BY <1>0, <1>3, NoLock
<1> QED BY <1>0, <1>2, <1>4 DEF Follows, Good

\* A side that only moves its locks between the maps, as it learns the secret:
\* what is known stays known, and nothing is known from a chain without it.
Kept(new, end) ==
  /\ Good(new) /\ new.balanceProof = end.balanceProof
  /\ IsSecretKnown(end, secretHash) => IsSecretKnown(new, secretHash)
  /\ IsSecretKnownOnChain(end, secretHash) => IsSecretKnownOnChain(new, secretHash)
  /\ IsSecretKnownOnChain(new, secretHash) =>
       IsSecretKnownOnChain(end, secretHash) \/ mined # 0

\* A side that is left alone is kept.
LEMMA KeptSame == ASSUME NEW end, Good(end) PROVE Kept(end, end)
BY DEF Kept

\* RegisterSecretEndState: a pending lock becomes known.
LEMMA KeptOffChain ==
  ASSUME NEW end, Good(end)
  PROVE  LET new == RegisterSecretEndState(end, secretHash)
         IN /\ Kept(new, end)
            /\ IsLockPending(end, secretHash) => IsSecretKnown(new, secretHash)
            /\ IsSecretKnownOnChain(new, secretHash) =>
                 IsSecretKnownOnChain(end, secretHash)
<1> DEFINE new == RegisterSecretEndState(end, secretHash)
           moved == LocksOf(end.lockedLocks, secretHash)
<1>1. end \in EndStates /\ Books(end)
  BY PendingIsRoot
<1>2. Good(new) /\ new.balanceProof = end.balanceProof
  BY <1>1, RegisterBooks DEF Good
<1>3. /\ new.unLockedLocks = end.unLockedLocks \cup moved
      /\ new.onChainUnLockedLocks = end.onChainUnLockedLocks
  BY <1>1 DEF RegisterSecretEndState, EndStates
<1> HIDE DEF new
<1>4. IsSecretKnownOnChain(new, secretHash) <=> IsSecretKnownOnChain(end, secretHash)
  BY <1>3 DEF IsSecretKnownOnChain
<1>5. IsSecretKnownOffChain(end, secretHash) => IsSecretKnownOffChain(new, secretHash)
  BY <1>3 DEF IsSecretKnownOffChain, LocksOf
<1>6. IsLockPending(end, secretHash) =>
        IsSecretKnownOffChain(new, secretHash) \/ IsSecretKnownOnChain(new, secretHash)
  BY <1>3 DEF IsLockPending, IsSecretKnownOffChain, IsSecretKnownOnChain,
              PendingLocks, LocksOf
<1>7. Kept(new, end)
  BY <1>2, <1>4, <1>5 DEF Kept, IsSecretKnown
<1> QED BY <1>4, <1>6, <1>7 DEF new, IsSecretKnown

\* RegisterOnChainSecretEndState: a pending lock that was revealed in time is
\* known from the chain.
LEMMA KeptOnChain ==
  ASSUME NEW end, Good(end), mined \in Nat, mined # 0
  PROVE  LET new == RegisterOnChainSecretEndState(end, secretHash, mined)
         IN /\ Kept(new, end)
            /\ \A lock : end.balanceProof.locksRoot = {lock}
                         /\ lock.secretHash = secretHash /\ mined <= lock.expiration
                           => IsSecretKnownOnChain(new, secretHash)
<1> DEFINE new == RegisterOnChainSecretEndState(end, secretHash, mined)
           off == LocksOf(end.lockedLocks \cup end.unLockedLocks, secretHash)
           pending == {l \in off : l.expiration >= mined}
<1>1. end \in EndStates /\ Books(end)
  BY PendingIsRoot
<1>2. Good(new) /\ new.balanceProof = end.balanceProof
  BY <1>1, RegisterOnChainBooks DEF Good
<1>3. CASE pending = {}
  <2>1. new = end
    BY <1>3 DEF RegisterOnChainSecretEndState
  <2>2. ASSUME NEW lock, end.balanceProof.locksRoot = {lock},
               lock.secretHash = secretHash, mined <= lock.expiration
        PROVE  IsSecretKnownOnChain(end, secretHash)
    <3>1. PendingLocks(end) = {lock} /\ lock \in Lock /\ lock.expiration \in Nat
      BY <2>2, OneLock, PendingIsRoot DEF Lock
    <3>2. lock \notin off
      BY <1>3, <2>2, <3>1
    <3>3. lock \in end.onChainUnLockedLocks
      BY <2>2, <3>1, <3>2 DEF LocksOf, PendingLocks
    <3> QED BY <2>2, <3>3 DEF IsSecretKnownOnChain, LocksOf
  <2> QED BY <2>1, <2>2, KeptSame
<1>4. CASE pending # {}
  <2>1. /\ new.onChainUnLockedLocks =
             (end.onChainUnLockedLocks \ LocksOf(end.onChainUnLockedLocks, secretHash))
               \cup pending
    BY <1>1, <1>4 DEF RegisterOnChainSecretEndState, DelLock, DelUnclaimedLock, EndStates
  <2>2. \A l \in pending : l.secretHash = secretHash
    BY DEF LocksOf
  <2> HIDE DEF new
  <2>3. IsSecretKnownOnChain(new, secretHash)
    BY <1>4, <2>1, <2>2 DEF IsSecretKnownOnChain, LocksOf
  <2>4. Kept(new, end)
    BY <1>2, <2>3 DEF Kept, IsSecretKnown
  <2> QED BY <2>3, <2>4 DEF new
<1> QED BY <1>3, <1>4

-----------------------------------------------------------------------------
(* Links, messages and tasks.                                              *)

\* A link and its mirror image.
LEMMA LinkFacts ==
  ASSUME NEW l \in Link
  PROVE  /\ l[1] \in Node /\ l[2] \in Node /\ l[1] # l[2] /\ l = <<l[1], l[2]>>
         /\ Mirror(l) \in Link /\ Mirror(l) = <<l[2], l[1]>>
         /\ Mirror(Mirror(l)) = l /\ Mirror(l) # l
<1>1. l \in Node \X Node /\ {l[1], l[2]} \in Channels
  BY DEF Link
<1>2. l = <<l[1], l[2]>> /\ l[1] \in Node /\ l[2] \in Node
  BY <1>1
<1>3. l[1] # l[2]
  <2> SUFFICES ASSUME l[1] = l[2] PROVE FALSE
    OBVIOUS
  <2>1. Cardinality({l[1]}) = 2
    <3>1. {l[1]} = {l[1], l[2]}
      OBVIOUS
    <3> QED BY <1>1, <3>1, MediationAssumption
  <2>2. Cardinality({l[1]}) = 1
    BY FS_Singleton
  <2> QED BY <2>1, <2>2
<1>4. {l[2], l[1]} \in Channels
  <2>1. {l[2], l[1]} = {l[1], l[2]}
    OBVIOUS
  <2> QED BY <1>1, <2>1
<1>5. <<l[2], l[1]>> \in Link
  BY <1>2, <1>4 DEF Link
<1> QED BY <1>2, <1>3, <1>5 DEF Mirror

\* A next hop of a route is a neighbour.
LEMMA RouteLink ==
  ASSUME NEW n \in Node, NEW p \in Route[n]
  PROVE  <<n, p>> \in Link
<1>1. p \in Node /\ {n, p} \in Channels
  BY MediationAssumption
<1> QED BY <1>1 DEF Link

\* Every node has a part of its own.
LEMMA NodeFacts ==
  /\ Initiator \in Node /\ Target \in Node /\ Mediators \subseteq Node
  /\ Initiator # Target /\ Initiator \notin Mediators /\ Target \notin Mediators
  /\ \A n \in Node : n = Initiator \/ n = Target \/ n \in Mediators
BY MediationAssumption DEF Node

\* What the messages carry.
LEMMA MessageTypes ==
  ASSUME NEW m \in Message
  PROVE  /\ m.type \in {"LockedTransfer", "RefundTransfer", "Unlock",
                        "LockExpired", "RevealSecret"}
         /\ m.type \in {"LockedTransfer", "RefundTransfer"} =>
              m.bp \in BalanceProof /\ m.lock \in Lock /\ m.mediators \subseteq Node
         /\ m.type \in {"Unlock", "LockExpired"} => m.bp \in BalanceProof
BY DEF Message

\* The messages the nodes make.
LEMMA MakeMessage ==
  ASSUME NEW bp \in BalanceProof
  PROVE  /\ \A lock \in Lock, mediators \in SUBSET Node :
              \A type \in {"LockedTransfer", "RefundTransfer"} :
                [type |-> type, bp |-> bp, lock |-> lock, mediators |-> mediators]
                  \in Message
         /\ [type |-> "Unlock", bp |-> bp] \in Message
         /\ [type |-> "LockExpired", bp |-> bp] \in Message
BY DEF Message

\* The secret is a message.
LEMMA RevealMessage == [type |-> "RevealSecret"] \in Message
BY DEF Message

\* What the tasks hold.
LEMMA TaskTypes ==
  ASSUME NEW t \in Tasks
  PROVE  /\ t.type \in {"none", "initiator", "target", "waiting", "mediator"}
         /\ t.type = "none" <=> t = NoTask
         /\ t.type = "initiator" => t.to \in Node /\ t.lock \in Lock
         /\ t.type = "target" => /\ t.from \in Node /\ t.lock \in Lock
                                 /\ t.state \in {"reveal_secret", "onchain_secret_reveal",
                                                 "expired"}
         /\ t.type = "waiting" => t.payer \in Node /\ t.lock \in Lock
         /\ t.type = "mediator" => /\ t.payer \in Node /\ t.payee \in Node /\ t.lock \in Lock
                                   /\ t.payerState \in PayerStates
                                   /\ t.payeeState \in PayeeStates
                                   /\ t.secretKnown \in BOOLEAN
BY DEF Tasks, NoTask

\* The tasks the nodes make.
LEMMA MakeTask ==
  ASSUME NEW p \in Node, NEW lock \in Lock
  PROVE  /\ NoTask \in Tasks /\ InitiatorTask(p, lock) \in Tasks
         /\ TargetTask(p, lock, "reveal_secret") \in Tasks
         /\ WaitingTask(p, lock) \in Tasks
         /\ \A q \in Node : PairTask(p, q, lock) \in Tasks
BY DEF Tasks, NoTask, InitiatorTask, TargetTask, WaitingTask, PairTask, PayerStates,
       PayeeStates

-----------------------------------------------------------------------------
(* What was sent.                                                          *)

\* The transfers and refunds on a link, the transfers, and what settled them.
Promises(l) == {m \in Range(sent[l]) : m.type \in {"LockedTransfer", "RefundTransfer"}}
Transfers(l) == {m \in Range(sent[l]) : m.type = "LockedTransfer"}
Ends(l) == {m \in Range(sent[l]) : m.type \in {"Unlock", "LockExpired"}}

\* Some of a link's messages stay as they are in a step.
PromisesKept(l) == Promises(l)' = Promises(l) /\ Transfers(l)' = Transfers(l)
EndsKept(l) ==
  /\ Ends(l)' = Ends(l)
  /\ Sent(l, "Unlock")' <=> Sent(l, "Unlock")
  /\ Sent(l, "LockExpired")' <=> Sent(l, "LockExpired")
RevealKept(l) == Sent(l, "RevealSecret")' <=> Sent(l, "RevealSecret")
SentKept(l) == PromisesKept(l) /\ EndsKept(l) /\ RevealKept(l)

\* A message in a sequence is there by one of its places.
LEMMA RangeSeq ==
  ASSUME NEW S, NEW s \in Seq(S)
  PROVE  /\ Range(s) = {s[i] : i \in 1 .. Len(s)} /\ Range(s) \subseteq S
         /\ \A x \in S : /\ Append(s, x) \in Seq(S)
                         /\ Range(Append(s, x)) = Range(s) \cup {x}
                         /\ Len(Append(s, x)) = Len(s) + 1
<1>1. Range(s) = {s[i] : i \in 1 .. Len(s)}
  BY DEF Range
<1>2. ASSUME NEW x \in S
      PROVE  /\ Append(s, x) \in Seq(S)
             /\ Range(Append(s, x)) = Range(s) \cup {x}
             /\ Len(Append(s, x)) = Len(s) + 1
  <2>1. /\ Append(s, x) \in Seq(S) /\ Len(Append(s, x)) = Len(s) + 1
        /\ \A i \in 1 .. Len(s) : Append(s, x)[i] = s[i]
        /\ Append(s, x)[Len(s) + 1] = x /\ Len(s) \in Nat
    OBVIOUS
  <2>2. Range(Append(s, x)) = {Append(s, x)[i] : i \in 1 .. Len(s) + 1}
    BY <2>1 DEF Range
  <2>3. 1 .. Len(s) + 1 = (1 .. Len(s)) \cup {Len(s) + 1}
    BY <2>1
  <2> HIDE DEF Append
  <2> QED BY <1>1, <2>1, <2>2, <2>3
<1> QED BY <1>1, <1>2

\* Nothing is put on a link.
LEMMA PostedNothing ==
  ASSUME NEW l, Range(sent[l])' = Range(sent[l])
  PROVE  SentKept(l)
BY DEF SentKept, PromisesKept, EndsKept, RevealKept, Promises, Transfers, Ends, Sent

\* A promise is put on a link.
SentPromise(l, m) ==
  /\ Promises(l)' = Promises(l) \cup {m}
  /\ m.type = "LockedTransfer" => Transfers(l)' = Transfers(l) \cup {m}
  /\ m.type # "LockedTransfer" => Transfers(l)' = Transfers(l)
  /\ EndsKept(l) /\ RevealKept(l)

\* Putting a transfer or a refund on a link is that.
LEMMA PostedPromise ==
  ASSUME NEW l, NEW m, m.type \in {"LockedTransfer", "RefundTransfer"},
         Range(sent[l])' = Range(sent[l]) \cup {m}
  PROVE  SentPromise(l, m)
BY DEF SentPromise, EndsKept, RevealKept, Promises, Transfers, Ends, Sent

\* An unlock or an expiry is put on a link.
SentEnd(l, m) ==
  /\ Ends(l)' = Ends(l) \cup {m}
  /\ Sent(l, "Unlock")' <=> Sent(l, "Unlock") \/ m.type = "Unlock"
  /\ Sent(l, "LockExpired")' <=> Sent(l, "LockExpired") \/ m.type = "LockExpired"
  /\ PromisesKept(l)

\* Putting an unlock or an expiry on a link is that.
LEMMA PostedEnd ==
  ASSUME NEW l, NEW m, m.type \in {"Unlock", "LockExpired"},
         Range(sent[l])' = Range(sent[l]) \cup {m}
  PROVE  SentEnd(l, m) /\ RevealKept(l)
BY DEF SentEnd, PromisesKept, RevealKept, Promises, Transfers, Ends, Sent

\* The secret is put on a link.
LEMMA PostedReveal ==
  ASSUME NEW l, Range(sent[l])' = Range(sent[l]) \cup {[type |-> "RevealSecret"]}
  PROVE  PromisesKept(l) /\ EndsKept(l) /\ Sent(l, "RevealSecret")'
<1> DEFINE r == [type |-> "RevealSecret"]
<1>1. r.type = "RevealSecret" /\ Range(sent[l])' = Range(sent[l]) \cup {r}
  OBVIOUS
<1> HIDE DEF r
<1> QED BY <1>1 DEF PromisesKept, EndsKept, Promises, Transfers, Ends, Sent

-----------------------------------------------------------------------------
(* The two copies of a link.                                               *)

\* A side agrees with the message it stands at.
Holds(end, l) ==
  /\ end.balanceProof.nonce \in {0, 1, 2}
  /\ end.balanceProof.nonce = 1 => \A m \in Promises(l) : end.balanceProof = m.bp
  /\ end.balanceProof.nonce = 2 => \A m \in Ends(l) : end.balanceProof = m.bp

\* At most one promise is made on a link and at most one message settles it, and
\* the receiver's copy is at most behind the sender's.
LinkOK(l) ==
  /\ \A m, k \in Promises(l) : m = k
  /\ \A m \in Promises(l) : /\ m.bp.nonce = 1 /\ m.bp.locksRoot = {m.lock}
                            /\ m.lock.secretHash = secretHash
  /\ \A m, k \in Ends(l) : m = k
  /\ \A m \in Ends(l) : m.bp.nonce = 2 /\ m.bp.locksRoot = {}
  /\ Promises(l) # {} <=> ourState[l].balanceProof.nonce # 0
  /\ Ends(l) # {} <=> ourState[l].balanceProof.nonce = 2
  /\ Holds(ourState[l], l) /\ Holds(partnerState[Mirror(l)], l)
  /\ partnerState[Mirror(l)].balanceProof.nonce <= ourState[l].balanceProof.nonce
LinkInv == \A l \in Link : LinkOK(l) /\ received[l] <= Len(sent[l])

\* Some node has revealed the secret.
SecretOut == \E l \in Link : Sent(l, "RevealSecret")

\* What can happen to the two copies of a link.
OurKept(l) == Kept(ourState'[l], ourState[l])
RecKept(l) ==
  /\ Kept(partnerState'[Mirror(l)], partnerState[Mirror(l)])
  /\ IsSecretKnown(partnerState'[Mirror(l)], secretHash) =>
       IsSecretKnown(partnerState[Mirror(l)], secretHash) \/ mined # 0 \/ SecretOut

\* The sender of a link makes its promise: the first balance proof, with one lock.
OurPromises(l, m) ==
  /\ ourState[l].balanceProof.nonce = 0
  /\ m \in Message /\ m.type \in {"LockedTransfer", "RefundTransfer"}
  /\ m.bp.nonce = 1 /\ m.bp.locksRoot = {m.lock} /\ m.lock.secretHash = secretHash
  /\ Good(ourState'[l]) /\ ourState'[l].balanceProof = m.bp
  /\ ~IsSecretKnown(ourState'[l], secretHash)
  /\ SentPromise(l, m)

\* The sender of a link settles its promise: the second balance proof, with none.
OurSettles(l, m) ==
  /\ ourState[l].balanceProof.nonce = 1
  /\ m \in Message /\ m.type \in {"Unlock", "LockExpired"}
  /\ m.bp.nonce = 2 /\ m.bp.locksRoot = {}
  /\ Good(ourState'[l]) /\ ourState'[l].balanceProof = m.bp
  /\ SentEnd(l, m)

\* The receiver of a link takes a message over its copy of the sender's side.
RecTakes(l, m) ==
  /\ m \in Range(sent[l]) /\ m.type # "RevealSecret"
  /\ Good(partnerState'[Mirror(l)])
  /\ partnerState'[Mirror(l)].balanceProof = m.bp
  /\ m.bp.nonce = partnerState[Mirror(l)].balanceProof.nonce + 1

\* A step of the sender's copy, and of the receiver's copy.
OurStep(l) ==
  \/ OurKept(l) /\ PromisesKept(l) /\ EndsKept(l)
  \/ \E m : OurPromises(l, m)
  \/ \E m : OurSettles(l, m)
RecStep(l) == RecKept(l) \/ \E m : RecTakes(l, m)

\* The sender's own copy goes along with what it sends.
LEMMA OurStepOK ==
  ASSUME NEW l \in Link, LinkOK(l), OurStep(l)
  PROVE  /\ \A m, k \in Promises(l)' : m = k
         /\ \A m \in Promises(l)' : /\ m.bp.nonce = 1 /\ m.bp.locksRoot = {m.lock}
                                    /\ m.lock.secretHash = secretHash
         /\ \A m, k \in Ends(l)' : m = k
         /\ \A m \in Ends(l)' : m.bp.nonce = 2 /\ m.bp.locksRoot = {}
         /\ Promises(l)' # {} <=> ourState'[l].balanceProof.nonce # 0
         /\ Ends(l)' # {} <=> ourState'[l].balanceProof.nonce = 2
         /\ Good(ourState'[l])
         /\ ourState'[l].balanceProof.nonce \in {0, 1, 2}
         /\ ourState'[l].balanceProof.nonce = 1 =>
              \A m \in Promises(l)' : ourState'[l].balanceProof = m.bp
         /\ ourState'[l].balanceProof.nonce = 2 =>
              \A m \in Ends(l)' : ourState'[l].balanceProof = m.bp
         /\ ourState[l].balanceProof.nonce <= ourState'[l].balanceProof.nonce
         /\ Promises(l) \subseteq Promises(l)' /\ Ends(l) \subseteq Ends(l)'
         /\ ourState[l].balanceProof.nonce # 0 => Promises(l)' = Promises(l)
         /\ ourState[l].balanceProof.nonce = 2 => Ends(l)' = Ends(l)
<1>1. CASE OurKept(l) /\ PromisesKept(l) /\ EndsKept(l)
  BY <1>1 DEF LinkOK, Holds, OurKept, Kept, PromisesKept, EndsKept
<1>2. CASE \E m : OurPromises(l, m)
  <2>1. PICK m : OurPromises(l, m)
    BY <1>2
  <2>2. Promises(l) = {} /\ Ends(l) = {}
    BY <2>1 DEF LinkOK, OurPromises
  <2>3. Promises(l)' = {m} /\ Ends(l)' = {}
    BY <2>1, <2>2 DEF OurPromises, SentPromise, EndsKept
  <2> QED BY <2>1, <2>2, <2>3 DEF OurPromises
<1>3. CASE \E m : OurSettles(l, m)
  <2>1. PICK m : OurSettles(l, m)
    BY <1>3
  <2>2. Promises(l) # {} /\ Ends(l) = {}
    BY <2>1 DEF LinkOK, OurSettles
  <2>3. Promises(l)' = Promises(l) /\ Ends(l)' = {m}
    BY <2>1, <2>2 DEF OurSettles, SentEnd, PromisesKept
  <2> QED BY <2>1, <2>2, <2>3 DEF OurSettles, LinkOK
<1> QED BY <1>1, <1>2, <1>3 DEF OurStep

\* The receiver's copy takes one message after the other.
LEMMA RecStepOK ==
  ASSUME NEW l \in Link, LinkOK(l), OurStep(l), RecStep(l),
         \A m \in Range(sent[l]) : m \in Message
  PROVE  LinkOK(l)' /\ Good(ourState'[l]) /\ Good(partnerState'[Mirror(l)])
<1> DEFINE rec == partnerState[Mirror(l)]
           new == partnerState'[Mirror(l)]
<1>1. /\ Holds(rec, l) /\ rec.balanceProof.nonce <= ourState[l].balanceProof.nonce
      /\ ourState[l].balanceProof.nonce \in {0, 1, 2}
      /\ rec.balanceProof.nonce \in {0, 1, 2}
  BY DEF LinkOK, Holds
<1>2. /\ Good(new) /\ new.balanceProof.nonce \in {0, 1, 2}
      /\ new.balanceProof.nonce = 1 => \A m \in Promises(l)' : new.balanceProof = m.bp
      /\ new.balanceProof.nonce = 2 => \A m \in Ends(l)' : new.balanceProof = m.bp
      /\ new.balanceProof.nonce <= ourState'[l].balanceProof.nonce
  <2>1. CASE RecKept(l)
    <3>1. Good(new) /\ new.balanceProof = rec.balanceProof
      BY <2>1 DEF RecKept, Kept
    <3>2. CASE rec.balanceProof.nonce = 0
      BY <1>1, <3>1, <3>2, OurStepOK
    <3>3. CASE rec.balanceProof.nonce = 1
      <4>1. ourState[l].balanceProof.nonce # 0 /\ Promises(l)' = Promises(l)
        BY <1>1, <3>3, OurStepOK
      <4> QED BY <1>1, <3>1, <3>3, <4>1, OurStepOK DEF Holds
    <3>4. CASE rec.balanceProof.nonce = 2
      <4>1. ourState[l].balanceProof.nonce = 2 /\ Ends(l)' = Ends(l)
        BY <1>1, <3>4, OurStepOK
      <4> QED BY <1>1, <3>1, <3>4, <4>1, OurStepOK DEF Holds
    <3> QED BY <1>1, <3>2, <3>3, <3>4
  <2>2. CASE \E m : RecTakes(l, m)
    <3>1. PICK m : RecTakes(l, m)
      BY <2>2
    <3>2. m \in Promises(l) \/ m \in Ends(l)
      BY <3>1, MessageTypes DEF RecTakes, Promises, Ends
    <3>3. CASE m \in Promises(l)
      <4>1. m.bp.nonce = 1 /\ ourState[l].balanceProof.nonce \in {1, 2}
        BY <1>1, <3>3 DEF LinkOK
      <4>2. \A k \in Promises(l)' : k = m
        BY <3>3, OurStepOK
      <4> QED BY <1>1, <3>1, <4>1, <4>2, OurStepOK DEF RecTakes
    <3>4. CASE m \in Ends(l)
      <4>1. m.bp.nonce = 2 /\ ourState[l].balanceProof.nonce = 2
        BY <3>4 DEF LinkOK
      <4>2. \A k \in Ends(l)' : k = m
        BY <3>4, OurStepOK
      <4> QED BY <1>1, <3>1, <4>1, <4>2, OurStepOK DEF RecTakes
    <3> QED BY <3>2, <3>3, <3>4
  <2> QED BY <2>1, <2>2 DEF RecStep
<1> QED BY <1>2, OurStepOK DEF LinkOK, Holds

-----------------------------------------------------------------------------
(* Where promises come from.                                               *)

\* The receiver of a link has taken its promise.
Accepted(l) == partnerState[Mirror(l)].balanceProof.nonce # 0

\* A transfer is the initiator's, or passes one on that its sender has taken.
Origin(l, m) ==
  /\ l[1] # Target /\ l[2] # Initiator
  /\ l[2] \notin m.mediators /\ m.mediators \subseteq Mediators
  /\ l[1] = Initiator => m.mediators = {}
  /\ l[1] # Initiator =>
       \E k \in Link : \E x \in Transfers(k) :
         /\ k[2] = l[1] /\ Accepted(k)
         /\ m.mediators = x.mediators \cup {l[1]}
         /\ m.lock.expiration = x.lock.expiration
  /\ \A n \in m.mediators : \E k \in Link : k[1] = n /\ Transfers(k) # {}
TransferOrigin == \A l \in Link : \A m \in Transfers(l) : Origin(l, m)

\* The transfers form one path: of two of them one came before the other.
TransferOrder ==
  \A l, k \in Link : \A m \in Transfers(l), x \in Transfers(k) :
    /\ l = k \/ l[2] \in x.mediators \/ k[2] \in m.mediators
    /\ l[2] \in x.mediators => m.mediators \subseteq x.mediators
    /\ m.lock.expiration = x.lock.expiration

\* A node makes one promise, after it took a transfer; what is not a transfer is
\* a refund of that one.
PromiseOrigin ==
  /\ \A l, k \in Link : l[1] = k[1] /\ Promises(l) # {} /\ Promises(k) # {} => l = k
  /\ \A l \in Link : Promises(l) # {} =>
       /\ l[1] # Target
       /\ l[1] \in Mediators =>
            \E k \in Link : k[2] = l[1] /\ Transfers(k) # {} /\ Accepted(k)
  /\ \A l \in Link : \A m \in Promises(l) : m.type # "LockedTransfer" =>
       /\ Transfers(Mirror(l)) # {} /\ l[1] \in Mediators
       /\ \A x \in Transfers(Mirror(l)) : m.lock.expiration = x.lock.expiration

\* The secret is revealed to whoever sent a transfer that was taken.
RevealOrigin ==
  \A l \in Link : Sent(l, "RevealSecret") =>
    Transfers(Mirror(l)) # {} /\ Accepted(Mirror(l))

\* A lock is taken back at its expiration or later.
ExpiredLate ==
  \A l \in Link : Sent(l, "LockExpired") =>
    \A m \in Promises(l) : block[l[1]] >= m.lock.expiration

\* Lock lock was promised on link l and taken.
Got(l, lock) ==
  /\ l \in Link /\ Transfers(l) # {} /\ Accepted(l)
  /\ \A m \in Transfers(l) : m.lock = lock

\* Every task is about a lock of the channels.
InitiatorTaskOK(t) ==
  /\ t.type \in {"none", "initiator"}
  /\ t.type = "initiator" =>
       /\ <<Initiator, t.to>> \in Link
       /\ Transfers(<<Initiator, t.to>>) # {}
       /\ \A m \in Transfers(<<Initiator, t.to>>) : m.lock = t.lock
       /\ ourState[<<Initiator, t.to>>].balanceProof.nonce = 1
       /\ partnerState[<<Initiator, t.to>>].balanceProof.nonce = 0
TargetTaskOK(t) ==
  /\ t.type \in {"none", "target"}
  /\ t.type = "target" => Got(<<t.from, Target>>, t.lock)
MediatorTaskOK(n, t) ==
  /\ t.type \in {"none", "mediator", "waiting"}
  /\ t.type # "none" => Got(<<t.payer, n>>, t.lock)
  /\ t.type = "mediator" =>
       /\ <<n, t.payee>> \in Link /\ Promises(<<n, t.payee>>) # {}
       /\ t.payeeState \in {"payee_secret_revealed", "payee_balance_proof"} => t.secretKnown
       /\ t.payerState = "payer_secret_revealed" => t.secretKnown
       /\ t.payeeState = "payee_balance_proof" <=> Sent(<<n, t.payee>>, "Unlock")
       /\ t.payeeState = "payee_secret_revealed" =>
            block[n] + RevealTimeout >= t.lock.expiration
  /\ t.type = "waiting" => \A l \in Link : l[1] = n => Promises(l) = {}
  /\ t.type = "none" => \A l \in Link :
       /\ l[1] = n /\ Promises(l) # {} => ourState[l].balanceProof.nonce = 2
       /\ l[2] = n /\ Transfers(l) # {} /\ Accepted(l) =>
            partnerState[Mirror(l)].balanceProof.nonce = 2

\* Every node has a task that fits what its links show.
TaskInv ==
  /\ InitiatorTaskOK(task[Initiator]) /\ TargetTaskOK(task[Target])
  /\ \A n \in Mediators : MediatorTaskOK(n, task[n])

\* The part of the inductive invariant that no clock is needed for.
Base ==
  /\ TypeOK /\ BooksAgree /\ LinkInv
  /\ TransferOrigin /\ TransferOrder /\ PromiseOrigin
  /\ RevealOrigin /\ ExpiredLate /\ TaskInv

-----------------------------------------------------------------------------
(* What follows from it.                                                   *)

\* Both copies of a link are in order.
LEMMA LinkGood ==
  ASSUME Base, NEW l \in Link
  PROVE  /\ Good(ourState[l]) /\ Good(partnerState[l]) /\ Good(partnerState[Mirror(l)])
         /\ ourState[l].balanceProof.nonce \in {0, 1, 2}
         /\ partnerState[Mirror(l)].balanceProof.nonce \in {0, 1, 2}
         /\ partnerState[Mirror(l)].balanceProof.nonce <= ourState[l].balanceProof.nonce
         /\ Promises(l) # {} <=> ourState[l].balanceProof.nonce # 0
         /\ Ends(l) # {} <=> ourState[l].balanceProof.nonce = 2
         /\ LinkOK(l) /\ Transfers(l) \subseteq Promises(l)
         /\ \A m \in Range(sent[l]) : m \in Message
<1>1. Mirror(l) \in Link
  BY LinkFacts
<1>2. \A k \in Link : ourState[k] \in EndStates /\ partnerState[k] \in EndStates
  BY DEF Base, TypeOK
<1>3. \A k \in Link : Good(ourState[k]) /\ Good(partnerState[k])
  BY <1>2 DEF Base, BooksAgree, Good
<1>4. LinkOK(l)
  BY DEF Base, LinkInv
<1>5. \A m \in Range(sent[l]) : m \in Message
  <2>1. sent[l] \in Seq(Message)
    BY DEF Base, TypeOK
  <2> QED BY <2>1, RangeSeq
<1> QED BY <1>1, <1>3, <1>4, <1>5 DEF LinkOK, Holds, Transfers, Promises

\* What is pending on a copy of a link is the lock of its promise.
LEMMA LinkLocks ==
  ASSUME Base, NEW l \in Link, NEW m \in Promises(l)
  PROVE  /\ m.lock \in Lock /\ m.lock.secretHash = secretHash /\ m.lock.expiration \in Nat
         /\ \A k \in Promises(l) : k = m
         /\ ourState[l].balanceProof.nonce \in {1, 2}
         /\ ourState[l].balanceProof.nonce = 1 =>
              ourState[l].balanceProof.locksRoot = {m.lock}
         /\ partnerState[Mirror(l)].balanceProof.nonce = 1 =>
              partnerState[Mirror(l)].balanceProof.locksRoot = {m.lock}
<1>1. /\ m.type \in {"LockedTransfer", "RefundTransfer"} /\ m \in Message
  BY LinkGood DEF Promises
<1>2. m.lock \in Lock /\ m.lock.expiration \in Nat
  BY <1>1, MessageTypes DEF Lock
<1> QED BY <1>2, LinkGood DEF LinkOK, Holds

\* A copy that stands at no promise has nothing pending.
LEMMA LinkNoLocks ==
  ASSUME Base, NEW l \in Link
  PROVE  /\ ourState[l].balanceProof.nonce # 1 => ourState[l].balanceProof.locksRoot = {}
         /\ partnerState[Mirror(l)].balanceProof.nonce # 1 =>
              partnerState[Mirror(l)].balanceProof.locksRoot = {}
<1>1. /\ Good(ourState[l]) /\ Good(partnerState[Mirror(l)])
      /\ ourState[l].balanceProof.nonce \in {0, 1, 2}
      /\ partnerState[Mirror(l)].balanceProof.nonce \in {0, 1, 2}
      /\ partnerState[Mirror(l)].balanceProof.nonce <= ourState[l].balanceProof.nonce
      /\ Ends(l) # {} <=> ourState[l].balanceProof.nonce = 2
      /\ LinkOK(l)
  BY LinkGood
<1>2. ourState[l].balanceProof.nonce = 0 => ourState[l].balanceProof.locksRoot = {}
  BY <1>1, PendingIsRoot
<1>3. partnerState[Mirror(l)].balanceProof.nonce = 0 =>
        partnerState[Mirror(l)].balanceProof.locksRoot = {}
  BY <1>1, PendingIsRoot
<1>4. partnerState[Mirror(l)].balanceProof.nonce = 2 => ourState[l].balanceProof.nonce = 2
  BY <1>1
<1> QED BY <1>1, <1>2, <1>3, <1>4 DEF LinkOK, Holds

\* A lock is pending on a copy that stands at a promise, and only there.
LEMMA LinkPending ==
  ASSUME Base, NEW l \in Link
  PROVE  /\ IsLockPending(ourState[l], secretHash) <=> ourState[l].balanceProof.nonce = 1
         /\ IsLockPending(partnerState[Mirror(l)], secretHash) <=>
              partnerState[Mirror(l)].balanceProof.nonce = 1
         /\ IsSecretKnown(ourState[l], secretHash) => ourState[l].balanceProof.nonce = 1
         /\ IsSecretKnown(partnerState[Mirror(l)], secretHash) =>
              partnerState[Mirror(l)].balanceProof.nonce = 1
         /\ \A m \in Promises(l) :
              /\ ourState[l].balanceProof.nonce = 1 =>
                   GetLock(ourState[l], secretHash) = m.lock
              /\ partnerState[Mirror(l)].balanceProof.nonce = 1 =>
                   GetLock(partnerState[Mirror(l)], secretHash) = m.lock
<1>1. Good(ourState[l]) /\ Good(partnerState[Mirror(l)])
  BY LinkGood
<1>2. /\ ourState[l].balanceProof.nonce # 1 =>
           /\ ~IsLockPending(ourState[l], secretHash)
           /\ ~IsSecretKnown(ourState[l], secretHash)
      /\ partnerState[Mirror(l)].balanceProof.nonce # 1 =>
           /\ ~IsLockPending(partnerState[Mirror(l)], secretHash)
           /\ ~IsSecretKnown(partnerState[Mirror(l)], secretHash)
  BY <1>1, LinkNoLocks, NoLock
<1>3. \A m \in Promises(l) :
        /\ m.lock.secretHash = secretHash
        /\ ourState[l].balanceProof.nonce = 1 =>
             ourState[l].balanceProof.locksRoot = {m.lock}
        /\ partnerState[Mirror(l)].balanceProof.nonce = 1 =>
             partnerState[Mirror(l)].balanceProof.locksRoot = {m.lock}
  BY LinkLocks
<1>4. \A m \in Promises(l) :
        /\ ourState[l].balanceProof.nonce = 1 =>
             /\ IsLockPending(ourState[l], secretHash)
             /\ GetLock(ourState[l], secretHash) = m.lock
        /\ partnerState[Mirror(l)].balanceProof.nonce = 1 =>
             /\ IsLockPending(partnerState[Mirror(l)], secretHash)
             /\ GetLock(partnerState[Mirror(l)], secretHash) = m.lock
  <2> TAKE m \in Promises(l)
  <2>1. ASSUME ourState[l].balanceProof.nonce = 1
        PROVE  /\ IsLockPending(ourState[l], secretHash)
               /\ GetLock(ourState[l], secretHash) = m.lock
    <3>1. /\ IsLockPending(ourState[l], m.lock.secretHash)
          /\ GetLock(ourState[l], m.lock.secretHash) = m.lock
      BY <1>1, <1>3, <2>1, OneLock, Zenon
    <3> QED BY <1>3, <3>1
  <2>2. ASSUME partnerState[Mirror(l)].balanceProof.nonce = 1
        PROVE  /\ IsLockPending(partnerState[Mirror(l)], secretHash)
               /\ GetLock(partnerState[Mirror(l)], secretHash) = m.lock
    <3>1. /\ IsLockPending(partnerState[Mirror(l)], m.lock.secretHash)
          /\ GetLock(partnerState[Mirror(l)], m.lock.secretHash) = m.lock
      BY <1>1, <1>3, <2>2, OneLock, Zenon
    <3> QED BY <1>3, <3>1
  <2> QED BY <2>1, <2>2
<1>5. ourState[l].balanceProof.nonce = 1 \/ partnerState[Mirror(l)].balanceProof.nonce = 1
        => Promises(l) # {}
  BY LinkGood
<1> QED BY <1>2, <1>4, <1>5

\* A link is not both unlocked and expired, and only a promise is.
LEMMA OneEnd ==
  ASSUME Base, NEW l \in Link
  PROVE  /\ Sent(l, "Unlock") => /\ ~Sent(l, "LockExpired") /\ Ends(l) # {}
                                 /\ Promises(l) # {} /\ ourState[l].balanceProof.nonce = 2
         /\ Sent(l, "LockExpired") => /\ Ends(l) # {} /\ Promises(l) # {}
                                      /\ ourState[l].balanceProof.nonce = 2
         /\ Ends(l) # {} => Sent(l, "Unlock") \/ Sent(l, "LockExpired")
<1>1. \A m, k \in Ends(l) : m = k
  BY LinkGood DEF LinkOK
<1>2. Sent(l, "Unlock") /\ Sent(l, "LockExpired") => FALSE
  BY <1>1 DEF Sent, Ends
<1>3. (Sent(l, "Unlock") => Ends(l) # {}) /\ (Sent(l, "LockExpired") => Ends(l) # {})
  BY DEF Sent, Ends
<1>4. Ends(l) # {} => Sent(l, "Unlock") \/ Sent(l, "LockExpired")
  BY DEF Sent, Ends
<1>5. Ends(l) # {} => ourState[l].balanceProof.nonce = 2 /\ Promises(l) # {}
  BY LinkGood
<1> QED BY <1>2, <1>3, <1>4, <1>5

\* A node is the receiver of one transfer.
LEMMA OneTransfer ==
  ASSUME Base, NEW l \in Link, NEW k \in Link, l[2] = k[2],
         Transfers(l) # {}, Transfers(k) # {}
  PROVE  l = k
<1>1. PICK m \in Transfers(l) : TRUE
  OBVIOUS
<1>2. PICK x \in Transfers(k) : TRUE
  OBVIOUS
<1>3. l = k \/ l[2] \in x.mediators \/ k[2] \in m.mediators
  BY DEF Base, TransferOrder
<1>4. l[2] \notin m.mediators /\ k[2] \notin x.mediators
  BY DEF Base, TransferOrigin, Origin
<1> QED BY <1>3, <1>4

\* A node makes one promise.
LEMMA OnePromise ==
  ASSUME Base, NEW l \in Link, NEW k \in Link, l[1] = k[1],
         Promises(l) # {}, Promises(k) # {}
  PROVE  l = k
BY DEF Base, PromiseOrigin

\* Every promise of the payment expires with every other.
LEMMA OneExpiration ==
  ASSUME Base, NEW l \in Link, NEW k \in Link, NEW m \in Promises(l), NEW x \in Promises(k)
  PROVE  m.lock.expiration = x.lock.expiration
<1>1. ASSUME NEW j \in Link, NEW y \in Promises(j)
      PROVE  \E i \in Link : \E z \in Transfers(i) : z.lock.expiration = y.lock.expiration
  <2>1. CASE y.type = "LockedTransfer"
    BY <2>1 DEF Promises, Transfers
  <2>2. CASE y.type # "LockedTransfer"
    <3>1. /\ Transfers(Mirror(j)) # {}
          /\ \A z \in Transfers(Mirror(j)) : y.lock.expiration = z.lock.expiration
      BY <2>2 DEF Base, PromiseOrigin
    <3>2. Mirror(j) \in Link
      BY LinkFacts
    <3> QED BY <3>1, <3>2
  <2> QED BY <2>1, <2>2
<1>2. PICK i \in Link : \E z \in Transfers(i) : z.lock.expiration = m.lock.expiration
  BY <1>1
<1>3. PICK z \in Transfers(i) : z.lock.expiration = m.lock.expiration
  BY <1>2
<1>4. PICK j \in Link : \E y \in Transfers(j) : y.lock.expiration = x.lock.expiration
  BY <1>1
<1>5. PICK y \in Transfers(j) : y.lock.expiration = x.lock.expiration
  BY <1>4
<1>6. z.lock.expiration = y.lock.expiration
  BY DEF Base, TransferOrder
<1> QED BY <1>3, <1>5, <1>6

\* A transfer is not answered by a transfer.
LEMMA NoTurn ==
  ASSUME Base, NEW l \in Link, Transfers(l) # {}
  PROVE  Transfers(Mirror(l)) = {}
<1> SUFFICES ASSUME NEW x \in Transfers(Mirror(l)) PROVE FALSE
  OBVIOUS
<1>1. PICK m \in Transfers(l) : TRUE
  OBVIOUS
<1>2. Mirror(l) \in Link /\ Mirror(l)[1] = l[2] /\ Mirror(l)[2] = l[1]
  BY LinkFacts
<1>3. Origin(l, m) /\ Origin(Mirror(l), x)
  BY <1>2 DEF Base, TransferOrigin
<1>4. l[1] \in m.mediators /\ l[2] \in x.mediators /\ l[1] \notin x.mediators
  BY <1>2, <1>3 DEF Origin
<1>5. m.mediators \subseteq x.mediators
  BY <1>2, <1>4 DEF Base, TransferOrder
<1> QED BY <1>4, <1>5

\* Which node runs which task.
LEMMA TaskNode ==
  ASSUME Base, NEW n \in Node
  PROVE  /\ task[n] \in Tasks
         /\ task[n].type = "initiator" => n = Initiator
         /\ task[n].type = "target" => n = Target
         /\ task[n].type \in {"mediator", "waiting"} => n \in Mediators
<1>1. task[n] \in Tasks
  BY DEF Base, TypeOK
<1>2. n = Initiator \/ n = Target \/ n \in Mediators
  BY NodeFacts
<1> QED BY <1>1, <1>2
        DEF Base, TaskInv, InitiatorTaskOK, TargetTaskOK, MediatorTaskOK

-----------------------------------------------------------------------------
(* What a step does to the variables of the nodes.                         *)

\* All links but those named keep what they are.
KeptBut(O, R, S) ==
  \A l \in Link :
    /\ l \notin O => OurKept(l) /\ PromisesKept(l) /\ EndsKept(l)
    /\ l \notin R => RecKept(l)
    /\ l \notin S => RevealKept(l)

\* The types, and no message is taken off a queue.
Shape ==
  /\ ourState' \in [Link -> EndStates] /\ partnerState' \in [Link -> EndStates]
  /\ task' \in [Node -> Tasks] /\ notices' \in [Node -> SUBSET Notice]
  /\ sent' \in [Link -> Seq(Message)]
  /\ \A l \in Link : Len(sent[l]) <= Len(sent'[l])

\* The tasks stay, or one of them changes.
TasksKept == \A k \in Node : task'[k] = task[k]
TaskSet(n, t) == task'[n] = t /\ \A k \in Node : k # n => task'[k] = task[k]

\* The notices the properties are about.
Marks == {"PaymentSentSuccess", "PaymentSentFailed", "PaymentReceivedSuccess"}
NoticesKept == \A k \in Node, w \in Marks : w \in notices'[k] <=> w \in notices[k]
Told(n, what) ==
  \A k \in Node, w \in Marks :
    w \in notices'[k] <=> w \in notices[k] \/ (k = n /\ w = what)

\* A node's own copy of one link changes.
LEMMA OurOnly ==
  ASSUME Base, NEW k \in Link, NEW e \in EndStates,
         ourState' = [ourState EXCEPT ![k] = e]
  PROVE  /\ ourState' \in [Link -> EndStates] /\ ourState'[k] = e
         /\ \A l \in Link : l # k => ourState'[l] = ourState[l] /\ OurKept(l)
<1>1. ourState \in [Link -> EndStates]
  BY DEF Base, TypeOK
<1>2. ourState' \in [Link -> EndStates] /\ ourState'[k] = e
      /\ \A l \in Link : l # k => ourState'[l] = ourState[l]
  BY <1>1
<1>3. ASSUME NEW l \in Link, l # k PROVE OurKept(l)
  <2>1. Good(ourState[l]) /\ ourState'[l] = ourState[l]
    BY <1>2, <1>3, LinkGood
  <2> QED BY <2>1, KeptSame DEF OurKept
<1> QED BY <1>2, <1>3

\* A node's record of one link changes.
LEMMA RecOnly ==
  ASSUME Base, NEW k \in Link, NEW e \in EndStates,
         partnerState' = [partnerState EXCEPT ![Mirror(k)] = e]
  PROVE  /\ partnerState' \in [Link -> EndStates] /\ partnerState'[Mirror(k)] = e
         /\ \A l \in Link : l # k =>
              partnerState'[Mirror(l)] = partnerState[Mirror(l)] /\ RecKept(l)
<1>1. partnerState \in [Link -> EndStates] /\ Mirror(k) \in Link
  BY LinkFacts DEF Base, TypeOK
<1>2. partnerState' \in [Link -> EndStates] /\ partnerState'[Mirror(k)] = e
      /\ \A l \in Link : l # Mirror(k) => partnerState'[l] = partnerState[l]
  BY <1>1
<1>3. ASSUME NEW l \in Link, l # k
      PROVE  partnerState'[Mirror(l)] = partnerState[Mirror(l)] /\ RecKept(l)
  <2>1. Mirror(l) \in Link /\ Mirror(l) # Mirror(k)
    BY <1>3, LinkFacts
  <2>2. partnerState'[Mirror(l)] = partnerState[Mirror(l)]
    BY <1>2, <2>1
  <2>3. Good(partnerState[Mirror(l)])
    BY LinkGood
  <2> QED BY <2>2, <2>3, KeptSame DEF RecKept
<1> QED BY <1>2, <1>3

\* No copy changes.
LEMMA OurNone ==
  ASSUME Base, ourState' = ourState
  PROVE  ourState' \in [Link -> EndStates] /\ \A l \in Link : OurKept(l)
<1>1. \A l \in Link : Good(ourState[l]) /\ ourState'[l] = ourState[l]
  BY LinkGood
<1> QED BY <1>1, KeptSame DEF OurKept, Base, TypeOK

\* No copy of a partner changes.
LEMMA RecNone ==
  ASSUME Base, partnerState' = partnerState
  PROVE  partnerState' \in [Link -> EndStates] /\ \A l \in Link : RecKept(l)
<1>1. \A l \in Link : Good(partnerState[Mirror(l)]) /\
        partnerState'[Mirror(l)] = partnerState[Mirror(l)]
  BY LinkGood
<1> QED BY <1>1, KeptSame DEF RecKept, Base, TypeOK

\* One message is sent.
LEMMA SentOnly ==
  ASSUME Base, NEW k \in Link, NEW m \in Message, Send(k, m)
  PROVE  /\ sent' \in [Link -> Seq(Message)]
         /\ Range(sent[k])' = Range(sent[k]) \cup {m}
         /\ \A l \in Link : Len(sent[l]) <= Len(sent'[l]) /\ (l # k => SentKept(l))
<1>1. sent \in [Link -> Seq(Message)]
  BY DEF Base, TypeOK
<1>2. /\ Append(sent[k], m) \in Seq(Message)
      /\ Range(Append(sent[k], m)) = Range(sent[k]) \cup {m}
      /\ Len(Append(sent[k], m)) = Len(sent[k]) + 1 /\ Len(sent[k]) \in Nat
  BY <1>1, RangeSeq
<1>3. /\ sent' \in [Link -> Seq(Message)] /\ sent'[k] = Append(sent[k], m)
      /\ \A l \in Link : l # k => sent'[l] = sent[l]
  BY <1>1, <1>2 DEF Send
<1>4. Range(sent[k])' = Range(sent[k]) \cup {m}
  BY <1>2, <1>3
<1>5. ASSUME NEW l \in Link, l # k PROVE Len(sent[l]) <= Len(sent'[l]) /\ SentKept(l)
  <2>1. sent'[l] = sent[l] /\ Len(sent[l]) \in Nat
    BY <1>1, <1>3, <1>5
  <2>2. Range(sent[l])' = Range(sent[l])
    BY <2>1
  <2> QED BY <2>1, <2>2, PostedNothing
<1>6. Len(sent[k]) <= Len(sent'[k])
  BY <1>2, <1>3
<1> QED BY <1>3, <1>4, <1>5, <1>6

\* No message is sent.
LEMMA SentNone ==
  ASSUME Base, sent' = sent
  PROVE  /\ sent' \in [Link -> Seq(Message)]
         /\ \A l \in Link : Len(sent[l]) <= Len(sent'[l]) /\ SentKept(l)
<1>1. sent \in [Link -> Seq(Message)]
  BY DEF Base, TypeOK
<1>2. ASSUME NEW l \in Link PROVE Len(sent[l]) <= Len(sent'[l]) /\ SentKept(l)
  <2>1. sent'[l] = sent[l] /\ Len(sent[l]) \in Nat
    BY <1>1
  <2>2. Range(sent[l])' = Range(sent[l])
    BY <2>1
  <2> QED BY <2>1, <2>2, PostedNothing
<1> QED BY <1>1, <1>2

\* One task changes.
LEMMA TaskOnly ==
  ASSUME Base, NEW n \in Node, NEW t \in Tasks, SetTask(n, t)
  PROVE  task' \in [Node -> Tasks] /\ TaskSet(n, t)
BY DEF Base, TypeOK, SetTask, TaskSet

\* No task changes.
LEMMA TaskNone ==
  ASSUME Base, task' = task
  PROVE  task' \in [Node -> Tasks] /\ TasksKept
BY DEF Base, TypeOK, TasksKept

\* The user is told.
LEMMA TellOnly ==
  ASSUME Base, NEW n \in Node, NEW what \in Notice, Tell(n, {what})
  PROVE  notices' \in [Node -> SUBSET Notice] /\ Told(n, what)
BY DEF Base, TypeOK, Tell, Told, Marks, Notice

\* No notice the properties are about is given.
LEMMA TellNone ==
  ASSUME Base, NEW n \in Node,
         notices' = notices \/ Tell(n, {}) \/ Tell(n, {"UnlockClaimFailed"})
  PROVE  notices' \in [Node -> SUBSET Notice] /\ NoticesKept
<1>1. notices \in [Node -> SUBSET Notice] /\ "UnlockClaimFailed" \in Notice
      /\ "UnlockClaimFailed" \notin Marks
  BY DEF Base, TypeOK, Notice, Marks
<1> QED BY <1>1 DEF Tell, NoticesKept

\* Nothing happens.
Idle == KeptBut({}, {}, {}) /\ TasksKept /\ NoticesKept

\* A step that changes no copy, no task and no message is idle.
LEMMA IdleStep ==
  ASSUME Base, UNCHANGED <<endVars, task, sent>>, NEW n \in Node,
         notices' = notices \/ Tell(n, {}) \/ Tell(n, {"UnlockClaimFailed"})
  PROVE  Shape /\ Idle
<1>1. ourState' = ourState /\ partnerState' = partnerState /\ task' = task /\ sent' = sent
  BY DEF endVars
<1>2. /\ ourState' \in [Link -> EndStates] /\ partnerState' \in [Link -> EndStates]
      /\ \A l \in Link : OurKept(l) /\ RecKept(l)
  BY <1>1, OurNone, RecNone
<1>3. /\ sent' \in [Link -> Seq(Message)]
      /\ \A l \in Link : Len(sent[l]) <= Len(sent'[l]) /\ SentKept(l)
  BY <1>1, SentNone
<1>4. task' \in [Node -> Tasks] /\ TasksKept
  BY <1>1, TaskNone
<1>5. notices' \in [Node -> SUBSET Notice] /\ NoticesKept
  BY TellNone
<1> QED BY <1>2, <1>3, <1>4, <1>5 DEF Shape, Idle, KeptBut, SentKept

-----------------------------------------------------------------------------
(* The initiator.                                                          *)

\* Nothing was sent yet.
NothingSent ==
  \A k \in Link : Promises(k) = {} /\ Ends(k) = {} /\ ~Sent(k, "RevealSecret")

\* The initiator starts the payment, or refuses it.
Starts(l, m) ==
  /\ NothingSent /\ l \in Link /\ l[1] = Initiator
  /\ m.type = "LockedTransfer" /\ m.mediators = {}
  /\ OurPromises(l, m) /\ KeptBut({l}, {}, {})
  /\ TaskSet(Initiator, InitiatorTask(l[2], m.lock)) /\ NoticesKept
Refused ==
  /\ NothingSent /\ KeptBut({}, {}, {})
  /\ TasksKept /\ Told(Initiator, "PaymentSentFailed")

\* A transfer of an amount that the channel can carry is a promise.
LEMMA SendPromise ==
  ASSUME Base, NEW l \in Link, ourState[l].balanceProof.nonce = 0,
         NEW lock \in Lock, lock.secretHash = secretHash,
         NEW receiver \in EndStates, NEW amount \in Nat, lock.amount <= amount,
         amount <= GetDistributable(ourState[l], receiver),
         NEW mediators \in SUBSET Node,
         NEW type \in {"LockedTransfer", "RefundTransfer"},
         NEW bp, bp = createSendLockedTransfer(ourState[l], lock),
         NEW m, m = [type |-> type, bp |-> bp, lock |-> lock, mediators |-> mediators],
         ourState' = [ourState EXCEPT ![l] = WithLock(@, bp, lock)],
         Send(l, m)
  PROVE  /\ OurPromises(l, m)
         /\ ourState' \in [Link -> EndStates] /\ sent' \in [Link -> Seq(Message)]
         /\ \A k \in Link : /\ Len(sent[k]) <= Len(sent'[k])
                            /\ k # l => OurKept(k) /\ SentKept(k)
         /\ RevealKept(l)
<1> DEFINE end == ourState[l]
           new == WithLock(end, bp, lock)
<1>1. Good(end) /\ end \in EndStates /\ Books(end)
  BY LinkGood, PendingIsRoot
<1>2. lock.amount <= MaxUint64 - end.balanceProof.transferredAmount
                          - end.balanceProof.lockedAmount
  <2>1. /\ GetDistributable(end, receiver) \in Nat
        /\ GetDistributable(end, receiver)
             <= MaxUint64 - end.balanceProof.transferredAmount
                  - end.balanceProof.lockedAmount
    BY <1>1, DistributableLimit
  <2>2. /\ end.balanceProof.transferredAmount \in Nat
        /\ end.balanceProof.lockedAmount \in Nat
        /\ MaxUint64 \in Nat /\ lock.amount \in Nat
    BY <1>1, EndStateTypes, AmountFacts DEF Lock
  <2>3. amount <= GetDistributable(end, receiver)
    OBVIOUS
  <2> HIDE DEF end
  <2> QED BY <2>1, <2>2, <2>3
<1>3. /\ bp \in BalanceProof /\ bp.nonce = 1 /\ bp.locksRoot = {lock}
      /\ Good(new) /\ new.balanceProof = bp /\ ~IsSecretKnown(new, secretHash)
  BY <1>1, <1>2, PromiseEnd
<1>4. new \in EndStates
  BY <1>3 DEF Good
<1>5. m \in Message /\ m.type = type /\ m.bp = bp /\ m.lock = lock
  BY <1>3, MakeMessage
<1>6. ourState' = [ourState EXCEPT ![l] = new]
  BY DEF Base, TypeOK
<1> HIDE DEF new, end
<1>7. /\ ourState' \in [Link -> EndStates] /\ ourState'[l] = new
      /\ \A k \in Link : k # l => OurKept(k)
  BY <1>4, <1>6, OurOnly
<1>8. /\ sent' \in [Link -> Seq(Message)]
      /\ Range(sent[l])' = Range(sent[l]) \cup {m}
      /\ \A k \in Link : Len(sent[k]) <= Len(sent'[k]) /\ (k # l => SentKept(k))
  BY <1>5, SentOnly
<1>9. SentPromise(l, m)
  BY <1>5, <1>8, PostedPromise
<1>10. OurPromises(l, m)
  BY <1>3, <1>5, <1>7, <1>9 DEF OurPromises
<1> QED BY <1>7, <1>8, <1>9, <1>10 DEF SentPromise

\* MediaTransfer starts the payment or refuses it.
LEMMA MediaTransferEffect ==
  ASSUME Base, NEW hop \in Node, MediaTransfer(hop)
  PROVE  /\ Shape /\ notices[Initiator] = {}
         /\ (\E m : Starts(<<Initiator, hop>>, m)) \/ Refused
<1> DEFINE n == Initiator
           l == <<n, hop>>
           lock == InitialLock(n)
           bp == createSendLockedTransfer(ourState[l], lock)
           m == [type |-> "LockedTransfer", bp |-> bp, lock |-> lock, mediators |-> {}]
<1>1. /\ hop \in Route[n] /\ notices[n] = {} /\ \A k \in Link : sent[k] = <<>>
      /\ InitTryNewRoute(n, hop) /\ partnerState' = partnerState
  BY DEF MediaTransfer
<1>2. n \in Node /\ l \in Link
  BY <1>1, NodeFacts, RouteLink
<1>3. NothingSent
  <2>1. \A k \in Link : Range(sent[k]) = {}
    BY <1>1 DEF Range
  <2> QED BY <2>1 DEF NothingSent, Promises, Ends, Sent
<1>4. ourState[l].balanceProof.nonce = 0
  BY <1>2, <1>3, LinkGood DEF NothingSent
<1>5. lock \in Lock /\ lock.secretHash = secretHash /\ lock.amount = PaymentAmount
  <2>1. block[n] \in Nat
    BY <1>2 DEF Base, TypeOK
  <2>2. block[n] + 2 * RevealTimeout \in Nat /\ PaymentAmount \in Amount
        /\ secretHash \in SecretHash
    BY <2>1, MediationAssumption
  <2> QED BY <2>2 DEF InitialLock, Lock
<1>6. \A k \in Link : RecKept(k)
  BY <1>1, RecNone
<1>7. partnerState' \in [Link -> EndStates]
  BY <1>1, RecNone
<1>8. CASE InitNextChannelFromRoutes(l)
  <2>1. /\ ourState' = [ourState EXCEPT ![l] = WithLock(@, bp, lock)]
        /\ SetTask(n, InitiatorTask(hop, lock)) /\ Send(l, m) /\ notices' = notices
    BY <1>1, <1>8 DEF InitTryNewRoute
  <2>2. PaymentAmount <= GetDistributable(ourState[l], partnerState[l])
    BY <1>8 DEF InitNextChannelFromRoutes
  <2>3. partnerState[l] \in EndStates /\ PaymentAmount \in Nat
    BY <1>2, MediationAssumption, AmountFacts DEF Base, TypeOK
  <2>4. InitiatorTask(hop, lock) \in Tasks
    BY <1>5, MakeTask
  <2>5. task' \in [Node -> Tasks] /\ TaskSet(n, InitiatorTask(hop, lock))
    BY <1>2, <2>1, <2>4, TaskOnly
  <2>6. notices' \in [Node -> SUBSET Notice] /\ NoticesKept
    BY <1>2, <2>1, TellNone
  <2>7. l[1] = n /\ l[2] = hop /\ m.type = "LockedTransfer" /\ m.mediators = {}
        /\ m.lock = lock /\ lock.amount <= PaymentAmount
    BY <1>5, <2>3
  <2>8. bp = createSendLockedTransfer(ourState[l], lock)
        /\ m = [type |-> "LockedTransfer", bp |-> bp, lock |-> lock, mediators |-> {}]
    OBVIOUS
  <2> HIDE DEF l, lock, bp, m, n
  <2>9. /\ OurPromises(l, m)
        /\ ourState' \in [Link -> EndStates] /\ sent' \in [Link -> Seq(Message)]
        /\ \A k \in Link : /\ Len(sent[k]) <= Len(sent'[k])
                           /\ k # l => OurKept(k) /\ SentKept(k)
        /\ RevealKept(l)
    BY <1>2, <1>4, <1>5, <2>1, <2>2, <2>3, <2>7, <2>8, SendPromise
  <2>10. Shape
    BY <1>7, <2>5, <2>6, <2>9 DEF Shape
  <2>11. KeptBut({l}, {}, {})
    BY <1>6, <2>9 DEF KeptBut, SentKept
  <2>12. Starts(l, m)
    BY <1>2, <1>3, <2>5, <2>6, <2>7, <2>9, <2>11 DEF Starts, n
  <2> QED BY <1>1, <2>10, <2>12 DEF l, n
<1>9. CASE ~InitNextChannelFromRoutes(l)
  <2>1. Tell(n, {"PaymentSentFailed"}) /\ ourState' = ourState /\ task' = task
        /\ sent' = sent
    BY <1>1, <1>9 DEF InitTryNewRoute
  <2>2. notices' \in [Node -> SUBSET Notice] /\ Told(n, "PaymentSentFailed")
    BY <1>2, <2>1, TellOnly DEF Notice
  <2>3. /\ ourState' \in [Link -> EndStates] /\ \A k \in Link : OurKept(k)
        /\ sent' \in [Link -> Seq(Message)]
        /\ \A k \in Link : Len(sent[k]) <= Len(sent'[k]) /\ SentKept(k)
        /\ task' \in [Node -> Tasks] /\ TasksKept
    BY <2>1, OurNone, SentNone, TaskNone
  <2>4. Shape /\ KeptBut({}, {}, {})
    BY <1>6, <1>7, <2>2, <2>3 DEF Shape, KeptBut, SentKept
  <2> QED BY <1>1, <1>3, <2>2, <2>3, <2>4 DEF Refused
<1> QED BY <1>8, <1>9

\* The initiator pays its first hop and is done.
InitiatorUnlocks(l) ==
  /\ l = <<Initiator, task[Initiator].to>> /\ task[Initiator].type = "initiator"
  /\ l \in Link /\ \E m : m.type = "Unlock" /\ OurSettles(l, m)
  /\ KeptBut({l}, {}, {})
  /\ TaskSet(Initiator, NoTask) /\ Told(Initiator, "PaymentSentSuccess")

\* The promise the initiator's task is about.
LEMMA InitiatorFacts ==
  ASSUME Base, task[Initiator].type = "initiator",
         NEW l, l = <<Initiator, task[Initiator].to>>
  PROVE  /\ l \in Link /\ Transfers(l) # {} /\ task[Initiator].lock \in Lock
         /\ \A m \in Promises(l) : m \in Transfers(l) /\ m.lock = task[Initiator].lock
         /\ ourState[l].balanceProof.nonce = 1 /\ partnerState[l].balanceProof.nonce = 0
         /\ ourState[l].balanceProof.locksRoot = {task[Initiator].lock}
         /\ task[Initiator].lock.secretHash = secretHash
         /\ IsLockPending(ourState[l], secretHash)
         /\ GetLock(ourState[l], secretHash) = task[Initiator].lock
         /\ ~IsLockPending(partnerState[l], secretHash)
<1> DEFINE t == task[Initiator]
<1>1. /\ l \in Link /\ Transfers(l) # {}
      /\ \A m \in Transfers(l) : m.lock = t.lock
      /\ ourState[l].balanceProof.nonce = 1 /\ partnerState[l].balanceProof.nonce = 0
  BY DEF Base, TaskInv, InitiatorTaskOK
<1>2. PICK m \in Transfers(l) : m \in Promises(l)
  BY <1>1 DEF Transfers, Promises
<1>3. /\ \A k \in Promises(l) : k = m
      /\ m.lock \in Lock /\ m.lock.secretHash = secretHash
      /\ ourState[l].balanceProof.locksRoot = {m.lock}
  BY <1>1, <1>2, LinkLocks
<1>4. /\ IsLockPending(ourState[l], secretHash)
      /\ GetLock(ourState[l], secretHash) = m.lock
  BY <1>1, <1>2, LinkPending
<1>5. ~IsLockPending(partnerState[l], secretHash)
  <2>1. Mirror(l) \in Link /\ Mirror(Mirror(l)) = l
    BY <1>1, LinkFacts
  <2>2. IsLockPending(partnerState[Mirror(Mirror(l))], secretHash) <=>
          partnerState[Mirror(Mirror(l))].balanceProof.nonce = 1
    BY <2>1, LinkPending
  <2> QED BY <1>1, <2>1, <2>2
<1> QED BY <1>1, <1>2, <1>3, <1>4, <1>5

\* A message that settles a promise, and the copy of the one who sends it.
LEMMA SendEnd ==
  ASSUME Base, NEW l \in Link, ourState[l].balanceProof.nonce = 1,
         NEW e, Good(e), NEW bp \in BalanceProof, bp.nonce = 2, bp.locksRoot = {},
         e.balanceProof = bp, NEW type \in {"Unlock", "LockExpired"},
         NEW m, m = [type |-> type, bp |-> bp],
         ourState' = [ourState EXCEPT ![l] = e], Send(l, m)
  PROVE  /\ OurSettles(l, m) /\ m.type = type
         /\ ourState' \in [Link -> EndStates] /\ sent' \in [Link -> Seq(Message)]
         /\ \A k \in Link : /\ Len(sent[k]) <= Len(sent'[k])
                            /\ k # l => OurKept(k) /\ SentKept(k)
         /\ RevealKept(l)
<1>1. m \in Message /\ m.type = type /\ m.bp = bp
  BY MakeMessage
<1>2. e \in EndStates
  BY DEF Good
<1>3. /\ ourState' \in [Link -> EndStates] /\ ourState'[l] = e
      /\ \A k \in Link : k # l => OurKept(k)
  BY <1>2, OurOnly
<1>4. /\ sent' \in [Link -> Seq(Message)]
      /\ Range(sent[l])' = Range(sent[l]) \cup {m}
      /\ \A k \in Link : Len(sent[k]) <= Len(sent'[k]) /\ (k # l => SentKept(k))
  BY <1>1, SentOnly
<1>5. SentEnd(l, m) /\ RevealKept(l)
  <2>1. m.type \in {"Unlock", "LockExpired"} /\ Range(sent[l])' = Range(sent[l]) \cup {m}
    BY <1>1, <1>4
  <2> QED BY ONLY <2>1, PostedEnd
<1>6. OurSettles(l, m)
  BY <1>1, <1>3, <1>5 DEF OurSettles
<1> QED BY <1>1, <1>3, <1>4, <1>5, <1>6

\* InitEventsForUnlockLock unlocks the transfer of the task.
LEMMA UnlockLockEffect ==
  ASSUME Base, NEW n \in Node, task[n].type = "initiator", InitEventsForUnlockLock(n)
  PROVE  Shape /\ InitiatorUnlocks(<<Initiator, task[Initiator].to>>)
<1> DEFINE l == <<Initiator, task[Initiator].to>>
           our == ourState[l]
           lock == GetLock(our, secretHash)
           bp == CreateUnlock(our, lock)
           e == WithUnlock(our, bp, lock)
           m == [type |-> "Unlock", bp |-> bp]
<1>1. n = Initiator
  BY TaskNode
<1>2. /\ l \in Link /\ our.balanceProof.nonce = 1
      /\ our.balanceProof.locksRoot = {lock} /\ IsLockPending(our, secretHash)
  BY <1>1, InitiatorFacts
<1>3. /\ ourState' = [ourState EXCEPT ![l] = e] /\ Send(l, m)
      /\ Tell(n, {"PaymentSentSuccess"}) /\ SetTask(n, NoTask)
      /\ partnerState' = partnerState
  BY <1>1, <1>2 DEF InitEventsForUnlockLock
<1>4. Good(our)
  BY <1>2, LinkGood
<1>5. bp \in BalanceProof /\ bp.nonce = 2 /\ bp.locksRoot = {} /\ Good(e)
      /\ e.balanceProof = bp
  <2> HIDE DEF our, lock
  <2> QED BY <1>2, <1>4, UnlockEnd
<1>6. m = [type |-> "Unlock", bp |-> bp]
  OBVIOUS
<1> HIDE DEF e, bp, m
<1>7. /\ OurSettles(l, m) /\ m.type = "Unlock"
      /\ ourState' \in [Link -> EndStates] /\ sent' \in [Link -> Seq(Message)]
      /\ \A k \in Link : /\ Len(sent[k]) <= Len(sent'[k])
                         /\ k # l => OurKept(k) /\ SentKept(k)
      /\ RevealKept(l)
  <2> HIDE DEF l
  <2>1. ourState[l].balanceProof.nonce = 1
    BY <1>2
  <2> HIDE DEF our, lock
  <2> QED BY <1>2, <1>3, <1>5, <1>6, <2>1, SendEnd
<1>8. partnerState' \in [Link -> EndStates] /\ \A k \in Link : RecKept(k)
  BY <1>3, RecNone
<1>9. task' \in [Node -> Tasks] /\ TaskSet(n, NoTask)
  BY <1>3, TaskOnly DEF Tasks
<1>10. notices' \in [Node -> SUBSET Notice] /\ Told(n, "PaymentSentSuccess")
  BY <1>3, TellOnly DEF Notice
<1>11. Shape
  BY <1>7, <1>8, <1>9, <1>10 DEF Shape
<1>12. KeptBut({l}, {}, {})
  BY <1>7, <1>8 DEF KeptBut, SentKept
<1> QED BY <1>1, <1>2, <1>7, <1>9, <1>10, <1>11, <1>12 DEF InitiatorUnlocks

\* ImHandleOffchainSecretReveal.
LEMMA ImRevealEffect ==
  ASSUME Base, NEW n \in Node, NEW p, ImHandleOffchainSecretReveal(n, p)
  PROVE  /\ Shape /\ n = Initiator
         /\ \/ Idle
            \/ p = task[Initiator].to /\ InitiatorUnlocks(<<Initiator, p>>)
<1>1. task[n].type = "initiator" /\ n = Initiator
  BY TaskNode DEF ImHandleOffchainSecretReveal
<1>2. CASE p = task[n].to
  BY <1>1, <1>2, UnlockLockEffect DEF ImHandleOffchainSecretReveal
<1>3. CASE p # task[n].to
  BY <1>1, <1>3, IdleStep DEF ImHandleOffchainSecretReveal, nodeVars
<1> QED BY <1>2, <1>3

\* ImHandleOnChainSecretReveal.
LEMMA ImOnChainEffect ==
  ASSUME Base, NEW n \in Node, ImHandleOnChainSecretReveal(n)
  PROVE  /\ Shape /\ n = Initiator
         /\ \/ Idle /\ ~(mined <= task[Initiator].lock.expiration)
            \/ InitiatorUnlocks(<<Initiator, task[Initiator].to>>)
<1>1. task[n].type = "initiator" /\ n = Initiator
  BY TaskNode DEF ImHandleOnChainSecretReveal
<1>2. CASE mined <= task[n].lock.expiration
  BY <1>1, <1>2, UnlockLockEffect DEF ImHandleOnChainSecretReveal
<1>3. CASE ~(mined <= task[n].lock.expiration)
  BY <1>1, <1>3, IdleStep DEF ImHandleOnChainSecretReveal, nodeVars
<1> QED BY <1>2, <1>3

\* The initiator takes a refund from its first hop.
RefundTaken(l, m) ==
  /\ l \in Link /\ l[2] = Initiator /\ task[Initiator].type = "initiator"
  /\ l[1] = task[Initiator].to
  /\ m \in Promises(l) /\ m.type = "RefundTransfer" /\ RecTakes(l, m)
  /\ ~IsSecretKnown(partnerState'[Mirror(l)], secretHash)
  /\ KeptBut({}, {l}, {})
  /\ TaskSet(Initiator, NoTask) /\ Told(Initiator, "PaymentSentFailed")

\* A promise that is accepted.
LEMMA TakePromise ==
  ASSUME Base, NEW l \in Link, NEW m \in Promises(l),
         IsValidLockedTransfer(Mirror(l), m)
  PROVE  LET e == HandleReceiveLockedTransfer(Mirror(l), m)
         IN /\ Good(e) /\ e.balanceProof = m.bp
            /\ m.bp.nonce = partnerState[Mirror(l)].balanceProof.nonce + 1
            /\ partnerState[Mirror(l)].balanceProof.nonce = 0
            /\ m.bp.locksRoot = {m.lock} /\ m.lock.secretHash = secretHash
            /\ m \in Range(sent[l]) /\ m.type # "RevealSecret"
            /\ \A h : ~IsSecretKnown(e, h)
<1> DEFINE r == Mirror(l)
<1>1. /\ m \in Range(sent[l]) /\ m.type \in {"LockedTransfer", "RefundTransfer"}
      /\ m \in Message
  BY LinkGood DEF Promises
<1>2. m.bp \in BalanceProof /\ m.lock \in Lock
  BY <1>1, MessageTypes
<1>3. m.bp.nonce = 1 /\ m.bp.locksRoot = {m.lock} /\ m.lock.secretHash = secretHash
  BY DEF Base, LinkInv, LinkOK
<1>4. Good(partnerState[r]) /\ ourState[r] \in EndStates
  BY LinkFacts, LinkGood DEF Good
<1>5. ValidLockedTransferCheck(m.bp, m.lock, partnerState[r], ourState[r], TRUE)
  BY DEF IsValidLockedTransfer
<1> HIDE DEF r
<1>6. /\ partnerState[r].balanceProof.nonce = 0
      /\ Good(WithLock(partnerState[r], m.bp, m.lock))
      /\ WithLock(partnerState[r], m.bp, m.lock).balanceProof = m.bp
      /\ \A h : ~IsSecretKnown(WithLock(partnerState[r], m.bp, m.lock), h)
  BY <1>2, <1>3, <1>4, <1>5, AcceptPromiseEnd
<1>7. m.bp.nonce = partnerState[r].balanceProof.nonce + 1
  BY <1>3, <1>6
<1> QED BY <1>1, <1>3, <1>6, <1>7 DEF HandleReceiveLockedTransfer, r

\* ImHandleTransferRefundCancelRoute.
LEMMA ImRefundEffect ==
  ASSUME Base, NEW l \in Link, NEW m \in Range(sent[l]), m.type = "RefundTransfer",
         ImHandleTransferRefundCancelRoute(l[2], l[1], m)
  PROVE  Shape /\ l[2] = Initiator /\ (Idle \/ RefundTaken(l, m))
<1> DEFINE n == l[2]
           r == Mirror(l)
           e == HandleReceiveLockedTransfer(r, m)
<1>1. n \in Node /\ r \in Link /\ r = <<l[2], l[1]>>
  BY LinkFacts
<1>2. task[n].type = "initiator" /\ n = Initiator
  BY <1>1, TaskNode DEF ImHandleTransferRefundCancelRoute
<1>3. m \in Promises(l)
  BY DEF Promises
<1>4. CASE RefundTransferMatchesReceived(n, l[1], m) /\ IsValidLockedTransfer(r, m)
  <2>1. /\ partnerState' = [partnerState EXCEPT ![r] = e] /\ ImHandleCancelRoute(n)
    BY <1>1, <1>4 DEF ImHandleTransferRefundCancelRoute
  <2>2. /\ Tell(n, {"PaymentSentFailed"}) /\ SetTask(n, NoTask)
        /\ ourState' = ourState /\ sent' = sent
    BY <2>1 DEF ImHandleCancelRoute
  <2>3. /\ Good(e) /\ e.balanceProof = m.bp
        /\ m.bp.nonce = partnerState[r].balanceProof.nonce + 1
        /\ m \in Range(sent[l]) /\ m.type # "RevealSecret"
        /\ \A h : ~IsSecretKnown(e, h)
    BY <1>3, <1>4, TakePromise
  <2>4. e \in EndStates
    BY <2>3 DEF Good
  <2> HIDE DEF e
  <2>5. /\ partnerState' \in [Link -> EndStates] /\ partnerState'[r] = e
        /\ \A k \in Link : k # l => RecKept(k)
    BY <2>1, <2>4, RecOnly
  <2>6. RecTakes(l, m)
    BY <2>3, <2>5 DEF RecTakes
  <2>7. /\ ourState' \in [Link -> EndStates] /\ \A k \in Link : OurKept(k)
        /\ sent' \in [Link -> Seq(Message)]
        /\ \A k \in Link : Len(sent[k]) <= Len(sent'[k]) /\ SentKept(k)
    BY <2>2, OurNone, SentNone
  <2>8. task' \in [Node -> Tasks] /\ TaskSet(n, NoTask)
    BY <1>1, <2>2, TaskOnly DEF Tasks
  <2>9. notices' \in [Node -> SUBSET Notice] /\ Told(n, "PaymentSentFailed")
    BY <1>1, <2>2, TellOnly DEF Notice
  <2>10. Shape /\ KeptBut({}, {l}, {})
    BY <2>5, <2>7, <2>8, <2>9 DEF Shape, KeptBut, SentKept
  <2>11. l[1] = task[Initiator].to /\ ~IsSecretKnown(partnerState'[r], secretHash)
    BY <1>2, <1>4, <2>3, <2>5 DEF RefundTransferMatchesReceived
  <2> QED BY <1>2, <1>3, <2>6, <2>8, <2>9, <2>10, <2>11 DEF RefundTaken
<1>5. CASE ~(RefundTransferMatchesReceived(n, l[1], m) /\ IsValidLockedTransfer(r, m))
  <2>1. UNCHANGED <<nodeVars, sent>>
    BY <1>1, <1>5 DEF ImHandleTransferRefundCancelRoute
  <2> QED BY <1>1, <1>2, <2>1, IdleStep DEF nodeVars
<1> QED BY <1>4, <1>5

\* A locked lock is pending.
LEMMA LockedIsPending ==
  ASSUME NEW end, NEW h
  PROVE  IsLockLocked(end, h) => IsLockPending(end, h)
BY DEF IsLockLocked, IsLockPending, LocksOf, PendingLocks

\* handleReceiveLockExpired leaves the copy alone or takes the message.
LEMMA AfterExpiry ==
  ASSUME Base, NEW k \in Link, NEW l \in Link, l[2] = k[2],
         NEW m \in Range(sent[l]), m.type = "LockExpired", NEW b
  PROVE  LET e == AfterLockExpired(Mirror(k), l[1], m, b)
         IN \/ e = partnerState[Mirror(k)]
            \/ /\ k = l /\ m \in Ends(l) /\ Good(e) /\ e.balanceProof = m.bp
               /\ m.bp.nonce = partnerState[Mirror(k)].balanceProof.nonce + 1
               /\ m.bp.nonce = 2 /\ m.bp.locksRoot = {}
               /\ ~IsLockPending(e, secretHash)
<1> DEFINE r == Mirror(k)
           e == AfterLockExpired(r, l[1], m, b)
<1>1. CASE /\ r[2] = l[1]
           /\ IsValidLockExpired(m.bp, secretHash, partnerState[r], ourState[r], b, TRUE)
  <2>1. k = l
    BY <1>1, LinkFacts
  <2>2. m \in Ends(l) /\ m \in Message
    BY LinkGood DEF Ends
  <2>3. m.bp \in BalanceProof /\ m.bp.nonce = 2 /\ m.bp.locksRoot = {}
    BY <2>2, LinkGood, MessageTypes DEF LinkOK
  <2>4. Good(partnerState[r])
    BY LinkGood
  <2>5. e = WithoutExpired(partnerState[r], m.bp, GetLock(partnerState[r], secretHash))
    BY <1>1 DEF AfterLockExpired
  <2>8. IsValidLockExpired(m.bp, secretHash, partnerState[r], ourState[r], b, TRUE)
    BY <1>1
  <2> HIDE DEF r, e
  <2>6. /\ Good(e) /\ e.balanceProof = m.bp
        /\ m.bp.nonce = partnerState[r].balanceProof.nonce + 1
    <3>1. PICK bp, rec, our, end :
            bp = m.bp /\ rec = partnerState[r] /\ our = ourState[r] /\ end = e
      OBVIOUS
    <3>2. /\ bp \in BalanceProof /\ Good(rec)
          /\ IsValidLockExpired(bp, secretHash, rec, our, b, TRUE)
          /\ end = WithoutExpired(rec, bp, GetLock(rec, secretHash))
      BY <2>3, <2>4, <2>5, <2>8, <3>1
    <3>3. ExpiryTaken(end, rec, our, b, bp, secretHash)
      BY ONLY <3>2 DEF ExpiryTaken
    <3>4. /\ Good(end) /\ end.balanceProof = bp
          /\ bp.nonce = rec.balanceProof.nonce + 1
      BY <3>3, AcceptExpiredEnd
    <3> QED BY <3>1, <3>4
  <2>7. ~IsLockPending(e, secretHash)
    BY <2>3, <2>6, NoLock
  <2> QED BY <2>1, <2>2, <2>3, <2>6, <2>7 DEF r, e
<1>2. CASE ~(/\ r[2] = l[1]
             /\ IsValidLockExpired(m.bp, secretHash, partnerState[r], ourState[r], b, TRUE))
  BY <1>2 DEF AfterLockExpired
<1> QED BY <1>1, <1>2

\* ImHandleLockExpired finds nothing to take back.
LEMMA ImExpiredEffect ==
  ASSUME Base, NEW n \in Node, NEW p, NEW m, ImHandleLockExpired(n, p, m)
  PROVE  Shape /\ n = Initiator /\ Idle
<1> DEFINE l == <<n, task[n].to>>
           result == AfterLockExpired(l, p, m, block[n])
<1>1. task[n].type = "initiator" /\ n = Initiator
  BY TaskNode DEF ImHandleLockExpired
<1>2. l \in Link /\ ~IsLockPending(partnerState[l], secretHash)
  BY <1>1, InitiatorFacts
<1>3. ~IsLockLocked(partnerState[l], secretHash)
  BY <1>2, LockedIsPending
<1>4. result = partnerState[l]
  BY <1>3 DEF AfterLockExpired, IsValidLockExpired
<1> HIDE DEF result
<1>5. /\ partnerState' = [partnerState EXCEPT ![l] = result]
      /\ Tell(n, {}) /\ UNCHANGED <<ourState, task, sent>>
  <2>1. ~IsLockPending(result, secretHash)
    BY <1>2, <1>4
  <2> QED BY <2>1 DEF ImHandleLockExpired, result
<1>6. partnerState' = partnerState
  BY <1>2, <1>4, <1>5 DEF Base, TypeOK
<1> QED BY <1>1, <1>5, <1>6, IdleStep DEF endVars

\* The initiator takes its promise back, or gives a canceled payment up.
InitiatorExpires(l) ==
  /\ l = <<Initiator, task[Initiator].to>> /\ task[Initiator].type = "initiator"
  /\ l \in Link /\ \E m : m.type = "LockExpired" /\ OurSettles(l, m)
  /\ block'[Initiator] >= task[Initiator].lock.expiration
  /\ KeptBut({l}, {}, {})
  /\ TaskSet(Initiator, NoTask) /\ Told(Initiator, "PaymentSentFailed")
InitiatorForgets ==
  /\ task[Initiator].type = "initiator"
  /\ KeptBut({}, {}, {}) /\ TaskSet(Initiator, NoTask) /\ NoticesKept

\* ImHandleBlock.
LEMMA ImBlockEffect ==
  ASSUME Base, NEW n \in Node, ImHandleBlock(n), block'[n] \in Nat
  PROVE  /\ Shape /\ n = Initiator /\ mineBy' = mineBy
         /\ \/ Idle \/ InitiatorForgets
            \/ InitiatorExpires(<<Initiator, task[Initiator].to>>)
<1> DEFINE l == <<n, task[n].to>>
           our == ourState[l]
           lock == task[n].lock
           bp == createSendExpiredLock(our, lock)
           expired == /\ IsLockLocked(our, secretHash)
                      /\ IsLockExpired(our, lock, block'[n],
                                       lock.expiration + 2 * ConfirmBlockCount)
           e == WithoutExpired(our, bp, lock)
           m == [type |-> "LockExpired", bp |-> bp]
<1>1. task[n].type = "initiator" /\ n = Initiator
  BY TaskNode DEF ImHandleBlock
<1>2. /\ l \in Link /\ our.balanceProof.nonce = 1 /\ our.balanceProof.locksRoot = {lock}
      /\ ~IsLockPending(partnerState[l], secretHash)
      /\ lock \in Lock /\ lock.secretHash = secretHash
  BY <1>1, InitiatorFacts
<1>3. partnerState' = partnerState /\ mineBy' = mineBy
  BY DEF ImHandleBlock
<1>4. partnerState' \in [Link -> EndStates] /\ \A k \in Link : RecKept(k)
  BY <1>3, RecNone
<1>5. CASE expired
  <2>1. /\ SetTask(n, NoTask) /\ Tell(n, {"PaymentSentFailed"})
        /\ ourState' = [ourState EXCEPT ![l] = e] /\ Send(l, m)
    BY <1>2, <1>5 DEF ImHandleBlock
  <2>2. /\ ~IsSecretKnownOnChain(our, lock.secretHash)
        /\ block'[n] >= lock.expiration + 2 * ConfirmBlockCount
    BY <1>5 DEF IsLockExpired
  <2>3. block'[n] >= lock.expiration
    <3>1. lock.expiration \in Nat /\ ConfirmBlockCount \in Nat
      BY <1>2, EndStateAssumption DEF Lock
    <3> QED BY <2>2, <3>1
  <2>4. Good(our)
    BY <1>2, LinkGood
  <2>5. bp \in BalanceProof /\ bp.nonce = 2 /\ bp.locksRoot = {} /\ Good(e)
        /\ e.balanceProof = bp
    <3> HIDE DEF our, lock
    <3> QED BY <1>2, <2>2, <2>4, ExpireEnd
  <2>6. m = [type |-> "LockExpired", bp |-> bp] /\ ourState[l].balanceProof.nonce = 1
    BY <1>2
  <2> HIDE DEF e, bp, m, our, lock
  <2>7. /\ OurSettles(l, m) /\ m.type = "LockExpired"
        /\ ourState' \in [Link -> EndStates] /\ sent' \in [Link -> Seq(Message)]
        /\ \A k \in Link : /\ Len(sent[k]) <= Len(sent'[k])
                           /\ k # l => OurKept(k) /\ SentKept(k)
        /\ RevealKept(l)
    <3> HIDE DEF l
    <3> QED BY <1>2, <2>1, <2>5, <2>6, SendEnd
  <2>8. task' \in [Node -> Tasks] /\ TaskSet(n, NoTask)
    BY <2>1, TaskOnly DEF Tasks
  <2>9. notices' \in [Node -> SUBSET Notice] /\ Told(n, "PaymentSentFailed")
    BY <2>1, TellOnly DEF Notice
  <2>10. Shape /\ KeptBut({l}, {}, {})
    BY <1>4, <2>7, <2>8, <2>9 DEF Shape, KeptBut, SentKept
  <2>11. InitiatorExpires(l)
    BY <1>1, <1>2, <2>3, <2>7, <2>8, <2>9, <2>10 DEF InitiatorExpires, lock
  <2> QED BY <1>1, <1>3, <2>10, <2>11
<1>6. CASE ~expired
  <2>1. UNCHANGED <<ourState, sent, notices>>
        /\ (SetTask(n, task[n]) \/ SetTask(n, NoTask))
    BY <1>6 DEF ImHandleBlock
  <2>2. /\ ourState' \in [Link -> EndStates] /\ \A k \in Link : OurKept(k)
        /\ sent' \in [Link -> Seq(Message)]
        /\ \A k \in Link : Len(sent[k]) <= Len(sent'[k]) /\ SentKept(k)
    BY <2>1, OurNone, SentNone
  <2>3. notices' \in [Node -> SUBSET Notice] /\ NoticesKept
    BY <2>1, TellNone
  <2>4. KeptBut({}, {}, {})
    BY <1>4, <2>2 DEF KeptBut, SentKept
  <2>5. CASE SetTask(n, NoTask)
    <3>1. task' \in [Node -> Tasks] /\ TaskSet(n, NoTask)
      BY <2>5, TaskOnly DEF Tasks
    <3> QED BY <1>1, <1>3, <1>4, <2>2, <2>3, <2>4, <3>1 DEF Shape, InitiatorForgets
  <2>6. CASE SetTask(n, task[n])
    <3>1. task' = task
      BY <2>6 DEF SetTask, Base, TypeOK
    <3>2. task' \in [Node -> Tasks] /\ TasksKept
      BY <3>1, TaskNone
    <3> QED BY <1>1, <1>3, <1>4, <2>2, <2>3, <2>4, <3>2 DEF Shape, Idle
  <2> QED BY <2>1, <2>5, <2>6
<1> QED BY <1>5, <1>6
-----------------------------------------------------------------------------
(* The target.                                                             *)

\* A lock that was got.
LEMMA GotFacts ==
  ASSUME Base, NEW l, NEW lock, Got(l, lock)
  PROVE  /\ l \in Link /\ Transfers(l) # {} /\ Promises(l) # {} /\ Accepted(l)
         /\ \A m \in Promises(l) : m \in Transfers(l) /\ m.lock = lock
         /\ lock \in Lock /\ lock.secretHash = secretHash /\ lock.expiration \in Nat
         /\ partnerState[Mirror(l)].balanceProof.nonce \in {1, 2}
         /\ ourState[l].balanceProof.nonce \in {1, 2}
<1>1. /\ l \in Link /\ Transfers(l) # {} /\ Accepted(l)
      /\ \A m \in Transfers(l) : m.lock = lock
  BY DEF Got
<1>2. PICK m \in Transfers(l) : m \in Promises(l)
  BY <1>1, LinkGood
<1>3. /\ \A k \in Promises(l) : k = m
      /\ m.lock \in Lock /\ m.lock.secretHash = secretHash /\ m.lock.expiration \in Nat
      /\ ourState[l].balanceProof.nonce \in {1, 2}
  BY <1>1, <1>2, LinkLocks
<1>4. partnerState[Mirror(l)].balanceProof.nonce \in {1, 2}
  BY <1>1, LinkGood DEF Accepted
<1> QED BY <1>1, <1>2, <1>3, <1>4

\* It is safe to wait as long as more than the reveal timeout is left.
LEMMA SafeIsEarly ==
  ASSUME NEW lock, lock.expiration \in Nat, NEW b \in Nat
  PROVE  MdIsSafeToWait(lock, b) <=> b + RevealTimeout < lock.expiration
<1>1. RevealTimeout \in Nat
  BY MediationAssumption
<1> QED BY <1>1 DEF MdIsSafeToWait

\* The transfer of the target's task.
LEMMA TargetFacts ==
  ASSUME Base, task[Target].type = "target", NEW l, l = <<task[Target].from, Target>>
  PROVE  /\ Got(l, task[Target].lock) /\ l \in Link /\ Mirror(l) = <<Target, task[Target].from>>
         /\ l[1] = task[Target].from /\ l[2] = Target
         /\ \A s \in {"reveal_secret", "onchain_secret_reveal", "expired"} :
              /\ [task[Target] EXCEPT !.state = s]
                   = TargetTask(task[Target].from, task[Target].lock, s)
              /\ TargetTask(task[Target].from, task[Target].lock, s) \in Tasks
         /\ task[Target] = TargetTask(task[Target].from, task[Target].lock, task[Target].state)
         /\ task[Target].state \in {"reveal_secret", "onchain_secret_reveal", "expired"}
<1>1. Got(l, task[Target].lock) /\ l \in Link
  BY DEF Base, TaskInv, TargetTaskOK, Got
<1>2. task[Target] \in [type : {"target"}, from : Node, lock : Lock,
                        state : {"reveal_secret", "onchain_secret_reveal", "expired"}]
  <2>1. task[Target] \in Tasks
    BY NodeFacts, TaskNode
  <2> QED BY <2>1 DEF Tasks, NoTask
<1>3. ASSUME NEW s \in {"reveal_secret", "onchain_secret_reveal", "expired"}
      PROVE  /\ [task[Target] EXCEPT !.state = s]
                  = TargetTask(task[Target].from, task[Target].lock, s)
             /\ TargetTask(task[Target].from, task[Target].lock, s) \in Tasks
  BY <1>2, <1>3 DEF TargetTask, Tasks
<1>4. task[Target] = TargetTask(task[Target].from, task[Target].lock, task[Target].state)
  BY <1>2 DEF TargetTask
<1>5. task[Target].state \in {"reveal_secret", "onchain_secret_reveal", "expired"}
  BY <1>2
<1> QED BY <1>1, <1>3, <1>4, <1>5 DEF Mirror

\* The target takes a transfer in time and reveals the secret, or takes it too
\* late to do so.
TargetTakes(l, m) ==
  /\ l \in Link /\ l[2] = Target /\ m \in Transfers(l) /\ RecTakes(l, m)
  /\ task[Target] = NoTask
  /\ IsSecretKnown(partnerState'[Mirror(l)], secretHash)
  /\ ~IsSecretKnownOnChain(partnerState'[Mirror(l)], secretHash)
  /\ block[Target] + RevealTimeout < m.lock.expiration
  /\ Sent(Mirror(l), "RevealSecret")'
  /\ KeptBut({}, {l}, {Mirror(l)})
  /\ TaskSet(Target, TargetTask(l[1], m.lock, "reveal_secret")) /\ NoticesKept
TargetTakesLate(l, m) ==
  /\ l \in Link /\ l[2] = Target /\ m \in Transfers(l) /\ RecTakes(l, m)
  /\ task[Target] = NoTask
  /\ ~IsSecretKnown(partnerState'[Mirror(l)], secretHash)
  /\ KeptBut({}, {l}, {}) /\ TasksKept /\ NoticesKept

\* HandleInitTarget.
LEMMA TargetInitEffect ==
  ASSUME Base, NEW l \in Link, NEW m \in Range(sent[l]), m.type = "LockedTransfer",
         HandleInitTarget(l[2], l[1], m)
  PROVE  Shape /\ (Idle \/ TargetTakes(l, m) \/ TargetTakesLate(l, m))
<1> DEFINE n == l[2]
           r == Mirror(l)
           e == HandleReceiveLockedTransfer(r, m)
           known == RegisterSecretEndState(e, secretHash)
           timely == /\ MdIsSafeToWait(m.lock, block[n])
                     /\ ~TransferExpired(r, m.lock, block[n])
           reveal == [type |-> "RevealSecret"]
<1>1. n \in Node /\ n = Target /\ r \in Link /\ r = <<n, l[1]>> /\ l[1] \in Node
  BY LinkFacts DEF HandleInitTarget
<1>2. m \in Promises(l) /\ m \in Transfers(l)
  BY DEF Promises, Transfers
<1>3. CASE task[n] # NoTask
  BY <1>1, <1>3, IdleStep DEF HandleInitTarget, nodeVars
<1>4. CASE task[n] = NoTask /\ ~IsValidLockedTransfer(r, m)
  <2>1. /\ partnerState' = [partnerState EXCEPT ![r] = @]
        /\ Tell(n, {"UnlockClaimFailed"}) /\ UNCHANGED <<task, sent>>
        /\ ourState' = ourState
    BY <1>1, <1>4 DEF HandleInitTarget
  <2>2. partnerState' = partnerState
    BY <2>1 DEF Base, TypeOK
  <2> QED BY <1>1, <2>1, <2>2, IdleStep DEF endVars
<1>5. CASE task[n] = NoTask /\ IsValidLockedTransfer(r, m) /\ ~timely
  <2>1. /\ partnerState' = [partnerState EXCEPT ![r] = e]
        /\ Tell(n, {"UnlockClaimFailed"}) /\ UNCHANGED <<task, sent>>
        /\ ourState' = ourState
    BY <1>1, <1>5 DEF HandleInitTarget
  <2>2. /\ Good(e) /\ e.balanceProof = m.bp
        /\ m.bp.nonce = partnerState[r].balanceProof.nonce + 1
        /\ \A h : ~IsSecretKnown(e, h)
    BY <1>2, <1>5, TakePromise
  <2>3. e \in EndStates
    BY <2>2 DEF Good
  <2> HIDE DEF e
  <2>4. /\ partnerState' \in [Link -> EndStates] /\ partnerState'[r] = e
        /\ \A k \in Link : k # l => RecKept(k)
    BY <2>1, <2>3, RecOnly
  <2>5. RecTakes(l, m)
    BY <2>2, <2>4 DEF RecTakes
  <2>6. /\ ourState' \in [Link -> EndStates] /\ \A k \in Link : OurKept(k)
        /\ sent' \in [Link -> Seq(Message)]
        /\ \A k \in Link : Len(sent[k]) <= Len(sent'[k]) /\ SentKept(k)
        /\ task' \in [Node -> Tasks] /\ TasksKept
    BY <2>1, OurNone, SentNone, TaskNone
  <2>7. notices' \in [Node -> SUBSET Notice] /\ NoticesKept
    BY <1>1, <2>1, TellNone
  <2>8. Shape /\ KeptBut({}, {l}, {})
    BY <2>4, <2>6, <2>7 DEF Shape, KeptBut, SentKept
  <2>9. ~IsSecretKnown(partnerState'[r], secretHash)
    BY <2>2, <2>4
  <2> QED BY <1>1, <1>2, <1>5, <2>5, <2>6, <2>7, <2>8, <2>9 DEF TargetTakesLate
<1>6. CASE task[n] = NoTask /\ IsValidLockedTransfer(r, m) /\ timely
  <2>1. /\ partnerState' = [partnerState EXCEPT ![r] = known]
        /\ SetTask(n, TargetTask(l[1], m.lock, "reveal_secret"))
        /\ Send(r, reveal) /\ notices' = notices
        /\ ourState' = [ourState EXCEPT ![r] = RegisterSecretEndState(@, secretHash)]
    BY <1>1, <1>6 DEF HandleInitTarget
  <2>2. /\ Good(e) /\ e.balanceProof = m.bp
        /\ m.bp.nonce = partnerState[r].balanceProof.nonce + 1
        /\ m.bp.locksRoot = {m.lock} /\ m.lock.secretHash = secretHash
        /\ \A h : ~IsSecretKnown(e, h)
    BY <1>2, <1>6, TakePromise
  <2>3. IsLockPending(e, secretHash) /\ ~IsSecretKnownOnChain(e, secretHash)
    <3>1. e.balanceProof.locksRoot = {m.lock}
      BY <2>2
    <3>2. IsLockPending(e, m.lock.secretHash)
      BY <2>2, <3>1, OneLock
    <3>3. ~IsSecretKnown(e, secretHash)
      BY <2>2
    <3> QED BY <2>2, <3>2, <3>3 DEF IsSecretKnown
  <2> HIDE DEF e
  <2>4. /\ Kept(known, e) /\ IsSecretKnown(known, secretHash)
        /\ ~IsSecretKnownOnChain(known, secretHash)
    BY <2>2, <2>3, KeptOffChain
  <2> HIDE DEF known
  <2>5. Good(known) /\ known.balanceProof = m.bp /\ known \in EndStates
    BY <2>2, <2>4 DEF Kept, Good
  <2>6. /\ partnerState' \in [Link -> EndStates] /\ partnerState'[r] = known
        /\ \A k \in Link : k # l => RecKept(k)
    BY <2>1, <2>5, RecOnly
  <2>7. RecTakes(l, m)
    BY <2>2, <2>5, <2>6 DEF RecTakes
  <2>8. PICK our : our = RegisterSecretEndState(ourState[r], secretHash)
    OBVIOUS
  <2>9. Good(ourState[r])
    BY <1>1, LinkGood
  <2>10. Kept(our, ourState[r]) /\ our \in EndStates
    BY <2>8, <2>9, KeptOffChain DEF Kept, Good
  <2>11. ourState' = [ourState EXCEPT ![r] = our]
    BY <2>1, <2>8
  <2>12. ourState' \in [Link -> EndStates] /\ \A k \in Link : OurKept(k)
    BY <1>1, <2>10, <2>11, OurOnly DEF OurKept
  <2>13. /\ sent' \in [Link -> Seq(Message)]
         /\ Range(sent[r])' = Range(sent[r]) \cup {reveal}
         /\ \A k \in Link : Len(sent[k]) <= Len(sent'[k]) /\ (k # r => SentKept(k))
    BY <1>1, <2>1, RevealMessage, SentOnly
  <2>14. PromisesKept(r) /\ EndsKept(r) /\ Sent(r, "RevealSecret")'
    BY <2>13, PostedReveal
  <2>15. m.lock \in Lock /\ m.lock.expiration \in Nat
    BY <1>2, LinkLocks
  <2>16. task' \in [Node -> Tasks] /\ TaskSet(n, TargetTask(l[1], m.lock, "reveal_secret"))
    BY <1>1, <2>1, <2>15, MakeTask, TaskOnly
  <2>17. notices' \in [Node -> SUBSET Notice] /\ NoticesKept
    BY <1>1, <2>1, TellNone
  <2> HIDE DEF r
  <2>18. Shape /\ KeptBut({}, {l}, {r})
    BY <2>6, <2>12, <2>13, <2>14, <2>16, <2>17 DEF Shape, KeptBut, SentKept
  <2>19. block[Target] + RevealTimeout < m.lock.expiration
    <3>1. block[n] \in Nat
      BY <1>1 DEF Base, TypeOK
    <3> QED BY <1>1, <1>6, <2>15, <3>1, SafeIsEarly
  <2>20. /\ IsSecretKnown(partnerState'[r], secretHash)
         /\ ~IsSecretKnownOnChain(partnerState'[r], secretHash)
    BY <2>4, <2>6
  <2> QED BY <1>1, <1>2, <1>6, <2>7, <2>14, <2>16, <2>17, <2>18, <2>19, <2>20
          DEF TargetTakes, r
<1> QED BY <1>3, <1>4, <1>5, <1>6

\* The target's task moves on, and its channels learn at most the secret.
TargetMoves(s) ==
  /\ task[Target].type = "target" /\ KeptBut({}, {}, {})
  /\ TaskSet(Target, TargetTask(task[Target].from, task[Target].lock, s))
  /\ NoticesKept

\* TgHandleOnChainSecretReveal.
LEMMA TargetOnChainEffect ==
  ASSUME Base, NEW n \in Node, TgHandleOnChainSecretReveal(n), mined # 0
  PROVE  Shape /\ n = Target /\ TargetMoves("reveal_secret")
<1> DEFINE l == <<task[Target].from, Target>>
           r == <<Target, task[Target].from>>
<1>1. task[n].type = "target" /\ n = Target
  BY TaskNode DEF TgHandleOnChainSecretReveal
<1>2. /\ l \in Link /\ r = Mirror(l) /\ r \in Link
      /\ [task[Target] EXCEPT !.state = "reveal_secret"]
           = TargetTask(task[Target].from, task[Target].lock, "reveal_secret")
      /\ TargetTask(task[Target].from, task[Target].lock, "reveal_secret") \in Tasks
  BY <1>1, TargetFacts, LinkFacts
<1>3. PICK rec : rec = RegisterOnChainSecretEndState(partnerState[r], secretHash, mined)
  OBVIOUS
<1>4. PICK our : our = RegisterOnChainSecretEndState(ourState[r], secretHash, mined)
  OBVIOUS
<1>5. /\ partnerState' = [partnerState EXCEPT ![r] = rec]
      /\ ourState' = [ourState EXCEPT ![r] = our]
      /\ SetTask(n, [task[n] EXCEPT !.state = "reveal_secret"])
      /\ UNCHANGED <<notices, sent>>
  BY <1>1, <1>3, <1>4 DEF TgHandleOnChainSecretReveal
<1>6. Good(partnerState[r]) /\ Good(ourState[r]) /\ mined \in Nat
  BY <1>2, LinkGood DEF Base, TypeOK
<1>7. Kept(rec, partnerState[r]) /\ rec \in EndStates
  BY <1>3, <1>6, KeptOnChain DEF Kept, Good
<1>8. Kept(our, ourState[r]) /\ our \in EndStates
  BY <1>4, <1>6, KeptOnChain DEF Kept, Good
<1> HIDE DEF r, l
<1>9. partnerState' \in [Link -> EndStates] /\ \A k \in Link : RecKept(k)
  BY <1>2, <1>5, <1>7, RecOnly DEF RecKept
<1>10. ourState' \in [Link -> EndStates] /\ \A k \in Link : OurKept(k)
  BY <1>2, <1>5, <1>8, OurOnly DEF OurKept
<1>11. /\ sent' \in [Link -> Seq(Message)]
       /\ \A k \in Link : Len(sent[k]) <= Len(sent'[k]) /\ SentKept(k)
  BY <1>5, SentNone
<1>12. /\ task' \in [Node -> Tasks]
       /\ TaskSet(Target, TargetTask(task[Target].from, task[Target].lock, "reveal_secret"))
  BY <1>1, <1>2, <1>5, TaskOnly
<1>13. notices' \in [Node -> SUBSET Notice] /\ NoticesKept
  BY <1>5, TellNone
<1>14. Shape /\ KeptBut({}, {}, {})
  BY <1>9, <1>10, <1>11, <1>12, <1>13 DEF Shape, KeptBut, SentKept
<1> QED BY <1>1, <1>12, <1>13, <1>14 DEF TargetMoves

\* A copy that takes an unlock.
LEMMA TakeUnlock ==
  ASSUME Base, NEW l \in Link, NEW m \in Range(sent[l]), m.type = "Unlock",
         IsValidUnlock(m.bp, secretHash, partnerState[Mirror(l)], TRUE),
         NEW e, e = WithUnlock(partnerState[Mirror(l)], m.bp,
                               GetLock(partnerState[Mirror(l)], secretHash))
  PROVE  /\ m \in Ends(l) /\ Good(e) /\ e.balanceProof = m.bp
         /\ m.bp.nonce = partnerState[Mirror(l)].balanceProof.nonce + 1
         /\ m.bp.nonce = 2 /\ m.bp.locksRoot = {}
         /\ ~IsLockPending(e, secretHash)
<1>1. m \in Ends(l) /\ m \in Message
  BY LinkGood DEF Ends
<1>2. m.bp \in BalanceProof /\ m.bp.nonce = 2 /\ m.bp.locksRoot = {}
  BY <1>1, LinkGood, MessageTypes DEF LinkOK
<1>3. Good(partnerState[Mirror(l)])
  BY LinkGood
<1>4. PICK bp, rec : bp = m.bp /\ rec = partnerState[Mirror(l)]
  OBVIOUS
<1>5. /\ bp \in BalanceProof /\ Good(rec) /\ IsValidUnlock(bp, secretHash, rec, TRUE)
      /\ e = WithUnlock(rec, bp, GetLock(rec, secretHash))
  BY <1>2, <1>3, <1>4
<1>6. Good(e) /\ e.balanceProof = bp /\ bp.nonce = rec.balanceProof.nonce + 1
  BY ONLY <1>5, AcceptUnlockEnd
<1>7. ~IsLockPending(e, secretHash)
  <2>1. e.balanceProof.locksRoot = {}
    BY <1>2, <1>4, <1>6
  <2> QED BY <1>6, <2>1, NoLock
<1> QED BY <1>1, <1>2, <1>4, <1>6, <1>7

\* What a node takes, the rest staying as it is.
LEMMA TakeEffect ==
  ASSUME Base, NEW l \in Link, NEW m \in Ends(l), NEW e, Good(e), e.balanceProof = m.bp,
         m.bp.nonce = partnerState[Mirror(l)].balanceProof.nonce + 1,
         partnerState' = [partnerState EXCEPT ![Mirror(l)] = e],
         ourState' = ourState, sent' = sent
  PROVE  /\ RecTakes(l, m) /\ KeptBut({}, {l}, {}) /\ partnerState'[Mirror(l)] = e
         /\ ourState' \in [Link -> EndStates] /\ partnerState' \in [Link -> EndStates]
         /\ sent' \in [Link -> Seq(Message)]
         /\ \A k \in Link : Len(sent[k]) <= Len(sent'[k])
<1>1. e \in EndStates
  BY DEF Good
<1>2. /\ partnerState' \in [Link -> EndStates] /\ partnerState'[Mirror(l)] = e
      /\ \A k \in Link : k # l => RecKept(k)
  BY <1>1, RecOnly
<1>3. /\ ourState' \in [Link -> EndStates] /\ \A k \in Link : OurKept(k)
      /\ sent' \in [Link -> Seq(Message)]
      /\ \A k \in Link : Len(sent[k]) <= Len(sent'[k]) /\ SentKept(k)
  BY OurNone, SentNone
<1>4. m \in Range(sent[l]) /\ m.type # "RevealSecret"
  BY DEF Ends
<1>5. RecTakes(l, m)
  BY <1>2, <1>4 DEF RecTakes
<1> QED BY <1>2, <1>3, <1>5 DEF KeptBut, SentKept

\* The target takes the unlock and is done.
TargetIsPaid(l, m) ==
  /\ task[Target].type = "target" /\ l = <<task[Target].from, Target>>
  /\ l \in Link /\ m \in Ends(l) /\ m.type = "Unlock" /\ RecTakes(l, m)
  /\ KeptBut({}, {l}, {})
  /\ TaskSet(Target, NoTask) /\ Told(Target, "PaymentReceivedSuccess")

\* TgHandleUnlock.
LEMMA TargetUnlockEffect ==
  ASSUME Base, NEW l \in Link, NEW m \in Range(sent[l]), m.type = "Unlock",
         TgHandleUnlock(l[2], l[1], m)
  PROVE  Shape /\ l[2] = Target /\ (Idle \/ TargetIsPaid(l, m))
<1> DEFINE n == l[2]
           r == <<n, task[n].from>>
<1>1. n \in Node /\ task[n].type = "target" /\ n = Target /\ l = <<l[1], n>>
  BY LinkFacts, TaskNode DEF TgHandleUnlock
<1>2. CASE l[1] = task[n].from /\ IsValidUnlock(m.bp, secretHash, partnerState[r], TRUE)
  <2>1. r = Mirror(l) /\ r \in Link
    BY <1>1, <1>2, LinkFacts
  <2>2. PICK e : e = WithUnlock(partnerState[r], m.bp, GetLock(partnerState[r], secretHash))
    OBVIOUS
  <2>3. /\ partnerState' = [partnerState EXCEPT ![r] = e]
        /\ SetTask(n, NoTask) /\ Tell(n, {"PaymentReceivedSuccess"})
        /\ UNCHANGED <<ourState, sent>>
    BY <1>1, <1>2, <2>2 DEF TgHandleUnlock
  <2>6. IsValidUnlock(m.bp, secretHash, partnerState[r], TRUE)
    BY <1>2
  <2> HIDE DEF r
  <2>4. /\ m \in Ends(l) /\ Good(e) /\ e.balanceProof = m.bp
        /\ m.bp.nonce = partnerState[r].balanceProof.nonce + 1
    BY <2>1, <2>2, <2>6, TakeUnlock
  <2>5. /\ RecTakes(l, m) /\ KeptBut({}, {l}, {})
        /\ ourState' \in [Link -> EndStates] /\ partnerState' \in [Link -> EndStates]
        /\ sent' \in [Link -> Seq(Message)]
        /\ \A k \in Link : Len(sent[k]) <= Len(sent'[k])
    BY <2>1, <2>3, <2>4, TakeEffect
  <2>7. task' \in [Node -> Tasks] /\ TaskSet(n, NoTask)
    BY <1>1, <2>3, TaskOnly DEF Tasks
  <2>8. notices' \in [Node -> SUBSET Notice] /\ Told(n, "PaymentReceivedSuccess")
    BY <1>1, <2>3, TellOnly DEF Notice
  <2>9. Shape
    BY <2>5, <2>7, <2>8 DEF Shape
  <2>10. TargetIsPaid(l, m)
    BY <1>1, <1>2, <2>4, <2>5, <2>7, <2>8 DEF TargetIsPaid
  <2> QED BY <1>1, <2>9, <2>10
<1>3. CASE ~(l[1] = task[n].from /\ IsValidUnlock(m.bp, secretHash, partnerState[r], TRUE))
  <2>1. UNCHANGED <<nodeVars, sent>>
    BY <1>1, <1>3 DEF TgHandleUnlock
  <2> QED BY <1>1, <2>1, IdleStep DEF nodeVars
<1> QED BY <1>2, <1>3

\* The target's lock is taken back, or it is not and the target gives up.
TargetLoses(l, m) ==
  /\ task[Target].type = "target" /\ l = <<task[Target].from, Target>>
  /\ l \in Link /\ m \in Ends(l) /\ m.type = "LockExpired" /\ RecTakes(l, m)
  /\ KeptBut({}, {l}, {}) /\ TasksKept /\ NoticesKept
TargetGivesUp(l) ==
  /\ task[Target].type = "target" /\ l \in Link /\ l[2] = Target /\ Sent(l, "LockExpired")
  /\ KeptBut({}, {}, {}) /\ TaskSet(Target, NoTask) /\ NoticesKept

\* TgHandleLockExpired.
LEMMA TargetExpiredEffect ==
  ASSUME Base, NEW l \in Link, NEW m \in Range(sent[l]), m.type = "LockExpired",
         TgHandleLockExpired(l[2], l[1], m)
  PROVE  Shape /\ l[2] = Target /\ (Idle \/ TargetLoses(l, m) \/ TargetGivesUp(l))
<1> DEFINE n == l[2]
           r == <<n, task[n].from>>
<1>1. n \in Node /\ task[n].type = "target" /\ n = Target /\ l = <<l[1], n>>
  BY LinkFacts, TaskNode DEF TgHandleLockExpired
<1>2. PICK k : k = <<task[Target].from, Target>>
  OBVIOUS
<1>3. k \in Link /\ k[2] = Target /\ r = Mirror(k) /\ r \in Link
  BY <1>1, <1>2, TargetFacts, LinkFacts
<1>4. PICK e : e = AfterLockExpired(r, l[1], m, block[n])
  OBVIOUS
<1>5. /\ partnerState' = [partnerState EXCEPT ![r] = e]
      /\ IF IsLockPending(e, secretHash)
         THEN SetTask(n, NoTask) /\ Tell(n, {"UnlockClaimFailed"})
         ELSE UNCHANGED <<task, notices>>
      /\ UNCHANGED <<ourState, sent>>
  BY <1>4 DEF TgHandleLockExpired
<1> HIDE DEF r
<1>6. \/ e = partnerState[r]
      \/ /\ k = l /\ m \in Ends(l) /\ Good(e) /\ e.balanceProof = m.bp
         /\ m.bp.nonce = partnerState[r].balanceProof.nonce + 1
         /\ ~IsLockPending(e, secretHash)
  BY <1>1, <1>3, <1>4, AfterExpiry
<1>7. CASE k = l /\ m \in Ends(l) /\ Good(e) /\ e.balanceProof = m.bp
           /\ m.bp.nonce = partnerState[r].balanceProof.nonce + 1
           /\ ~IsLockPending(e, secretHash)
  <2>1. /\ RecTakes(l, m) /\ KeptBut({}, {l}, {})
        /\ ourState' \in [Link -> EndStates] /\ partnerState' \in [Link -> EndStates]
        /\ sent' \in [Link -> Seq(Message)]
        /\ \A j \in Link : Len(sent[j]) <= Len(sent'[j])
    BY <1>3, <1>5, <1>7, TakeEffect
  <2>2. task' \in [Node -> Tasks] /\ TasksKept /\ notices' = notices
    BY <1>5, <1>7, TaskNone
  <2>3. notices' \in [Node -> SUBSET Notice] /\ NoticesKept
    BY <1>1, <2>2, TellNone
  <2>4. Shape
    BY <2>1, <2>2, <2>3 DEF Shape
  <2>5. TargetLoses(l, m)
    BY <1>1, <1>2, <1>7, <2>1, <2>2, <2>3 DEF TargetLoses
  <2> QED BY <1>1, <2>4, <2>5
<1>8. CASE e = partnerState[r]
  <2>1. partnerState' = partnerState
    BY <1>3, <1>5, <1>8 DEF Base, TypeOK
  <2>2. CASE ~IsLockPending(e, secretHash)
    BY <1>1, <1>5, <2>1, <2>2, IdleStep DEF endVars
  <2>3. CASE IsLockPending(e, secretHash)
    <3>1. /\ ourState' \in [Link -> EndStates] /\ partnerState' \in [Link -> EndStates]
          /\ \A j \in Link : OurKept(j) /\ RecKept(j)
          /\ sent' \in [Link -> Seq(Message)]
          /\ \A j \in Link : Len(sent[j]) <= Len(sent'[j]) /\ SentKept(j)
      BY <1>5, <2>1, OurNone, RecNone, SentNone
    <3>2. task' \in [Node -> Tasks] /\ TaskSet(n, NoTask)
      BY <1>1, <1>5, <2>3, TaskOnly DEF Tasks
    <3>3. notices' \in [Node -> SUBSET Notice] /\ NoticesKept
      BY <1>1, <1>5, <2>3, TellNone
    <3>4. Sent(l, "LockExpired")
      BY DEF Sent
    <3>5. Shape /\ KeptBut({}, {}, {})
      BY <3>1, <3>2, <3>3 DEF Shape, KeptBut, SentKept
    <3> QED BY <1>1, <3>2, <3>3, <3>4, <3>5 DEF TargetGivesUp
  <2> QED BY <2>2, <2>3
<1> QED BY <1>6, <1>7, <1>8

\* TgHandleBlock: the target waits while that is safe, and registers the secret
\* when it is not.
TargetTicks ==
  \/ TargetMoves("expired") /\ mineBy' = mineBy
     /\ block'[Target] >= task[Target].lock.expiration
  \/ /\ TargetMoves("onchain_secret_reveal") /\ RegisterSecret
     /\ IsSecretKnownOffChain(partnerState[<<Target, task[Target].from>>], secretHash)
  \/ /\ TargetMoves(task[Target].state) /\ mineBy' = mineBy
     /\ \/ block'[Target] + RevealTimeout < task[Target].lock.expiration
        \/ ~IsSecretKnownOffChain(partnerState[<<Target, task[Target].from>>], secretHash)
        \/ task[Target].state = "onchain_secret_reveal"

\* TgHandleBlock.
LEMMA TargetBlockEffect ==
  ASSUME Base, NEW n \in Node, TgHandleBlock(n), block'[n] \in Nat
  PROVE  Shape /\ n = Target /\ TargetTicks
<1> DEFINE t == task[Target]
           r == <<Target, t.from>>
           b == block'[Target]
           expired == /\ t.state # "expired"
                      /\ IsLockExpired(ourState[r], t.lock, b,
                           t.lock.expiration + DefaultNumberOfBlockConfirmations)
           reveal == ~expired /\ TgEventsForOnChainSecretReveal(r, t, b)
           s == IF expired THEN "expired"
                ELSE IF reveal THEN "onchain_secret_reveal" ELSE t.state
<1>1. task[n].type = "target" /\ n = Target
  BY TaskNode DEF TgHandleBlock
<1>2. /\ SetTask(Target, IF expired THEN [t EXCEPT !.state = "expired"]
                         ELSE IF reveal THEN [t EXCEPT !.state = "onchain_secret_reveal"]
                         ELSE t)
      /\ Tell(Target, IF expired THEN {"UnlockClaimFailed"} ELSE {})
      /\ IF reveal THEN RegisterSecret ELSE UNCHANGED mineBy
      /\ UNCHANGED <<endVars, sent>>
  BY <1>1 DEF TgHandleBlock
<1>3. /\ \A x \in {"reveal_secret", "onchain_secret_reveal", "expired"} :
           [t EXCEPT !.state = x] = TargetTask(t.from, t.lock, x)
           /\ TargetTask(t.from, t.lock, x) \in Tasks
      /\ t = TargetTask(t.from, t.lock, t.state)
      /\ t.state \in {"reveal_secret", "onchain_secret_reveal", "expired"}
  BY <1>1, TargetFacts
<1>4. t.lock.expiration \in Nat
  BY <1>1, TargetFacts, GotFacts
<1>5. b \in Nat
  BY <1>1
<1>6. MdIsSafeToWait(t.lock, b) <=> b + RevealTimeout < t.lock.expiration
  BY <1>4, <1>5, SafeIsEarly
<1>7. expired => b >= t.lock.expiration
  <2>1. DefaultNumberOfBlockConfirmations \in Nat
    BY MediationAssumption
  <2> QED BY <1>4, <1>5, <2>1 DEF IsLockExpired
<1>8. reveal \/ \/ b + RevealTimeout < t.lock.expiration
                \/ ~IsSecretKnownOffChain(partnerState[r], secretHash)
                \/ t.state = "onchain_secret_reveal"
                \/ expired
  BY <1>6 DEF TgEventsForOnChainSecretReveal
<1>9. /\ SetTask(Target, TargetTask(t.from, t.lock, s))
      /\ s \in {"reveal_secret", "onchain_secret_reveal", "expired"}
  <2> HIDE DEF t, expired, reveal
  <2> QED BY <1>2, <1>3
<1>10. ~(expired /\ reveal)
  OBVIOUS
<1>20. reveal => IsSecretKnownOffChain(partnerState[r], secretHash)
  BY DEF TgEventsForOnChainSecretReveal
<1> HIDE DEF expired, reveal, b
<1>11. /\ ourState' \in [Link -> EndStates] /\ partnerState' \in [Link -> EndStates]
       /\ \A j \in Link : OurKept(j) /\ RecKept(j)
       /\ sent' \in [Link -> Seq(Message)]
       /\ \A j \in Link : Len(sent[j]) <= Len(sent'[j]) /\ SentKept(j)
  BY <1>2, OurNone, RecNone, SentNone DEF endVars
<1>12. TargetTask(t.from, t.lock, s) \in Tasks
  BY <1>3, <1>9, Zenon
<1> HIDE DEF s
<1>13. task' \in [Node -> Tasks] /\ TaskSet(Target, TargetTask(t.from, t.lock, s))
  BY <1>1, <1>9, <1>12, TaskOnly
<1>14. notices' \in [Node -> SUBSET Notice] /\ NoticesKept
  BY <1>1, <1>2, TellNone
<1>15. Shape /\ KeptBut({}, {}, {})
  BY <1>11, <1>13, <1>14 DEF Shape, KeptBut, SentKept
<1>16. TargetMoves(s)
  BY <1>1, <1>13, <1>14, <1>15 DEF TargetMoves
<1>17. CASE expired
  <2>1. s = "expired" /\ ~reveal
    BY <1>10, <1>17 DEF s
  <2> QED BY <1>1, <1>2, <1>7, <1>15, <1>16, <1>17, <2>1 DEF TargetTicks, b
<1>18. CASE reveal
  <2>1. s = "onchain_secret_reveal"
    BY <1>10, <1>18 DEF s
  <2> QED BY <1>1, <1>2, <1>15, <1>16, <1>18, <1>20, <2>1 DEF TargetTicks
<1>19. CASE ~expired /\ ~reveal
  <2>1. s = t.state
    BY <1>19 DEF s
  <2> QED BY <1>1, <1>2, <1>8, <1>15, <1>16, <1>19, <2>1 DEF TargetTicks, b
<1> QED BY <1>17, <1>18, <1>19

-----------------------------------------------------------------------------
(* The mediator's tasks.                                                   *)

\* A pair in given states.
MdState(t, x, y, z) ==
  [type |-> "mediator", payer |-> t.payer, payee |-> t.payee, lock |-> t.lock,
   payerState |-> x, payeeState |-> y, secretKnown |-> z]

\* A pair by its states, and the pairs made from it.
LEMMA MdStateFacts ==
  ASSUME NEW t \in Tasks, t.type = "mediator"
  PROVE  /\ t = MdState(t, t.payerState, t.payeeState, t.secretKnown)
         /\ \A x \in PayerStates, y \in PayeeStates, z \in BOOLEAN :
              MdState(t, x, y, z) \in Tasks
<1>1. t \in [type : {"mediator"}, payer : Node, payee : Node, lock : Lock,
             payerState : PayerStates, payeeState : PayeeStates, secretKnown : BOOLEAN]
  BY DEF Tasks, NoTask
<1>2. t = MdState(t, t.payerState, t.payeeState, t.secretKnown)
  BY <1>1 DEF MdState
<1>3. ASSUME NEW x \in PayerStates, NEW y \in PayeeStates, NEW z \in BOOLEAN
      PROVE  MdState(t, x, y, z) \in Tasks
  BY <1>1 DEF MdState, Tasks
<1> QED BY <1>2, <1>3

\* The links of a mediator's task.
LEMMA MediatorFacts ==
  ASSUME Base, NEW n \in Node, task[n].type \in {"mediator", "waiting"},
         NEW k, k = <<task[n].payer, n>>
  PROVE  /\ n \in Mediators /\ MediatorTaskOK(n, task[n]) /\ Got(k, task[n].lock)
         /\ k \in Link /\ k[1] = task[n].payer /\ k[2] = n
         /\ Mirror(k) = <<n, task[n].payer>> /\ Mirror(k) \in Link
         /\ task[n] \in Tasks
<1>1. n \in Mediators /\ task[n] \in Tasks
  BY TaskNode
<1>2. MediatorTaskOK(n, task[n])
  BY <1>1 DEF Base, TaskInv
<1>3. Got(k, task[n].lock)
  BY <1>2 DEF MediatorTaskOK
<1>4. k \in Link
  BY <1>3 DEF Got
<1> QED BY <1>1, <1>2, <1>3, <1>4, LinkFacts DEF Mirror
\* The promise of a pair.
LEMMA PairFacts ==
  ASSUME Base, NEW n \in Node, task[n].type = "mediator",
         NEW q, q = <<n, task[n].payee>>
  PROVE  /\ q \in Link /\ q[1] = n /\ q[2] = task[n].payee /\ Promises(q) # {}
         /\ ourState[q].balanceProof.nonce \in {1, 2}
         /\ \A x \in Promises(q) : /\ x.lock \in Lock /\ x.lock.secretHash = secretHash
                                   /\ x.lock.expiration = task[n].lock.expiration
                                   /\ \A y \in Promises(q) : y = x
         /\ task[n].lock.expiration \in Nat
         /\ task[n].payerState \in PayerStates /\ task[n].payeeState \in PayeeStates
         /\ task[n].secretKnown \in BOOLEAN
<1>1. PICK k : k = <<task[n].payer, n>>
  OBVIOUS
<1>2. /\ MediatorTaskOK(n, task[n]) /\ Got(k, task[n].lock) /\ task[n] \in Tasks
  BY <1>1, MediatorFacts
<1>3. q \in Link /\ Promises(q) # {}
  BY <1>2 DEF MediatorTaskOK
<1>4. /\ k \in Link /\ Promises(k) # {} /\ \A x \in Promises(k) : x.lock = task[n].lock
      /\ task[n].lock.expiration \in Nat
  BY <1>2, GotFacts
<1>5. ASSUME NEW x \in Promises(q)
      PROVE  /\ x.lock \in Lock /\ x.lock.secretHash = secretHash
             /\ x.lock.expiration = task[n].lock.expiration
             /\ \A y \in Promises(q) : y = x
             /\ ourState[q].balanceProof.nonce \in {1, 2}
  <2>1. /\ x.lock \in Lock /\ x.lock.secretHash = secretHash
        /\ \A y \in Promises(q) : y = x
        /\ ourState[q].balanceProof.nonce \in {1, 2}
    BY <1>3, LinkLocks
  <2>2. PICK y \in Promises(k) : y.lock = task[n].lock
    BY <1>4
  <2>3. x.lock.expiration = y.lock.expiration
    BY <1>3, <1>4, <2>2, OneExpiration
  <2> QED BY <2>1, <2>2, <2>3
<1>6. q[1] = n /\ q[2] = task[n].payee
  OBVIOUS
<1> QED BY <1>2, <1>3, <1>4, <1>5, <1>6, TaskTypes

\* What happens to each link is a step of it.
StepsOK == \A l \in Link : OurStep(l) /\ RecStep(l)

\* A lock is pending afterwards on a copy that stands at a promise, and only there.
LEMMA PendingAfter ==
  ASSUME Base, StepsOK, NEW l \in Link
  PROVE  /\ IsLockPending(ourState'[l], secretHash) <=> ourState'[l].balanceProof.nonce = 1
         /\ IsLockPending(partnerState'[Mirror(l)], secretHash) <=>
              partnerState'[Mirror(l)].balanceProof.nonce = 1
         /\ LinkOK(l)' /\ Good(ourState'[l]) /\ Good(partnerState'[Mirror(l)])
         /\ ourState'[l].balanceProof.nonce \in {0, 1, 2}
         /\ partnerState'[Mirror(l)].balanceProof.nonce \in {0, 1, 2}
<1> DEFINE our == ourState'[l]
           rec == partnerState'[Mirror(l)]
<1>1. LinkOK(l) /\ \A m \in Range(sent[l]) : m \in Message
  BY LinkGood
<1>2. OurStep(l) /\ RecStep(l)
  BY DEF StepsOK
<1>3. LinkOK(l)' /\ Good(our) /\ Good(rec)
  BY <1>1, <1>2, RecStepOK
<1>4. /\ \A m \in Promises(l)' : m.bp.locksRoot = {m.lock} /\ m.lock.secretHash = secretHash
      /\ \A m \in Ends(l)' : m.bp.locksRoot = {}
      /\ Promises(l)' # {} <=> our.balanceProof.nonce # 0
      /\ Ends(l)' # {} <=> our.balanceProof.nonce = 2
      /\ our.balanceProof.nonce \in {0, 1, 2} /\ rec.balanceProof.nonce \in {0, 1, 2}
      /\ our.balanceProof.nonce = 1 => \A m \in Promises(l)' : our.balanceProof = m.bp
      /\ our.balanceProof.nonce = 2 => \A m \in Ends(l)' : our.balanceProof = m.bp
      /\ rec.balanceProof.nonce = 1 => \A m \in Promises(l)' : rec.balanceProof = m.bp
      /\ rec.balanceProof.nonce = 2 => \A m \in Ends(l)' : rec.balanceProof = m.bp
      /\ rec.balanceProof.nonce <= our.balanceProof.nonce
  BY <1>3 DEF LinkOK, Holds
<1> HIDE DEF our, rec
<1>5. ASSUME NEW end \in {our, rec} PROVE IsLockPending(end, secretHash) <=>
                                          end.balanceProof.nonce = 1
  <2>1. Good(end) /\ end.balanceProof.nonce \in {0, 1, 2}
    BY <1>3, <1>4 DEF our, rec
  <2>2. CASE end.balanceProof.nonce = 1
    <3>1. \A m \in Promises(l)' : end.balanceProof = m.bp
      BY <1>4, <2>2
    <3>2. PICK m \in Promises(l)' : m.bp.locksRoot = {m.lock} /\ m.lock.secretHash = secretHash
      BY <1>4, <2>2
    <3>3. end.balanceProof.locksRoot = {m.lock}
      BY <3>1, <3>2
    <3>4. IsLockPending(end, m.lock.secretHash)
      BY <2>1, <3>3, OneLock
    <3> QED BY <2>2, <3>2, <3>4
  <2>3. CASE end.balanceProof.nonce = 2
    <3>1. end.balanceProof.locksRoot = {}
      BY <1>4, <2>3
    <3> QED BY <2>1, <2>3, <3>1, NoLock
  <2>4. CASE end.balanceProof.nonce = 0
    <3>1. end.balanceProof.locksRoot = {}
      BY <2>1, <2>4, PendingIsRoot
    <3> QED BY <2>1, <2>4, <3>1, NoLock
  <2> QED BY <2>1, <2>2, <2>3, <2>4
<1> QED BY <1>3, <1>4, <1>5 DEF our, rec

\* The task t is kept, or dropped since its locks are gone.
MdTask(n, t) ==
  \/ TaskSet(n, t)
  \/ /\ TaskSet(n, NoTask)
     /\ partnerState'[<<n, t.payer>>].balanceProof.nonce # 1
     /\ t.type = "mediator" => ourState'[<<n, t.payee>>].balanceProof.nonce # 1

\* clearIfFinalized.
LEMMA FinalizeEffect ==
  ASSUME Base, StepsOK, NEW n \in Node, NEW t \in Tasks, clearIfFinalized(n, t),
         <<t.payer, n>> \in Link, t.type = "mediator" => <<n, t.payee>> \in Link
  PROVE  task' \in [Node -> Tasks] /\ MdTask(n, t)
<1> DEFINE k == <<t.payer, n>>
           q == <<n, t.payee>>
           r == <<n, t.payer>>
           pending == \/ IsLockPending(partnerState'[r], secretHash)
                      \/ t.type = "mediator" /\ IsLockPending(ourState'[q], secretHash)
<1>1. SetTask(n, IF pending THEN t ELSE NoTask)
  BY DEF clearIfFinalized, PayerLink, PayeeLink
<1>2. Mirror(k) = r
  BY DEF Mirror
<1>3. IsLockPending(partnerState'[r], secretHash) <=> partnerState'[r].balanceProof.nonce = 1
  BY <1>2, PendingAfter
<1>4. t.type = "mediator" =>
        (IsLockPending(ourState'[q], secretHash) <=> ourState'[q].balanceProof.nonce = 1)
  BY PendingAfter
<1>5. CASE pending
  <2>1. SetTask(n, t)
    BY <1>1, <1>5
  <2> QED BY <2>1, TaskOnly DEF MdTask
<1>6. CASE ~pending
  <2>1. SetTask(n, NoTask)
    BY <1>1, <1>6
  <2>2. task' \in [Node -> Tasks] /\ TaskSet(n, NoTask)
    BY <2>1, TaskOnly DEF Tasks
  <2> QED BY <1>3, <1>4, <1>6, <2>2 DEF MdTask
<1> QED BY <1>5, <1>6

\* Steps of the links from what is kept.
LEMMA KeptSteps ==
  ASSUME NEW O, NEW R, NEW S, KeptBut(O, R, S),
         \A l \in Link : l \in O => OurStep(l), \A l \in Link : l \in R => RecStep(l)
  PROVE  StepsOK
<1> SUFFICES ASSUME NEW l \in Link PROVE OurStep(l) /\ RecStep(l)
  BY DEF StepsOK
<1>1. l \notin O => OurStep(l)
  BY DEF KeptBut, OurStep
<1>2. l \notin R => RecStep(l)
  BY DEF KeptBut, RecStep
<1> QED BY <1>1, <1>2

-----------------------------------------------------------------------------
(* The mediator takes a transfer.                                          *)

\* The fee is a part of the amount.
LEMMA FeeLimit ==
  ASSUME NEW amount \in Amount
  PROVE  GetAmountWithoutFees(amount) \in Amount /\ GetAmountWithoutFees(amount) <= amount
<1> DEFINE fee == Flat + (amount * Proportional) \div FeeUnit
           cap == amount \div FeeLimitDivisor
           taken == IF fee * FeeLimitDivisor <= amount THEN fee ELSE cap
<1>1. /\ Flat \in Nat /\ Proportional \in Nat /\ amount \in Nat
      /\ FeeUnit \in Nat /\ FeeUnit >= 1 /\ FeeLimitDivisor \in Nat /\ FeeLimitDivisor >= 1
  BY MediationAssumption, AmountFacts
<1>2. fee \in Nat
  <2>1. amount * Proportional \in Nat
    BY <1>1
  <2>2. (amount * Proportional) \div FeeUnit \in Nat
    <3> DEFINE x == amount * Proportional
    <3>1. x \in Nat
      BY <2>1
    <3> HIDE DEF x
    <3>2. x \div FeeUnit \in Nat
      BY <1>1, <3>1
    <3> QED BY <3>2 DEF x
  <2> HIDE DEF fee
  <2> QED BY <1>1, <2>2 DEF fee
<1>3. cap \in Nat /\ cap <= amount
  <2>1. cap \in Nat /\ cap * FeeLimitDivisor <= amount
    BY <1>1
  <2> HIDE DEF cap
  <2>2. cap * 1 <= cap * FeeLimitDivisor
    BY <1>1, <2>1
  <2> QED BY <1>1, <2>1, <2>2
<1> HIDE DEF fee, cap
<1>4. taken \in Nat /\ taken <= amount
  <2>1. fee <= fee * FeeLimitDivisor
    BY <1>1, <1>2
  <2> QED BY <1>1, <1>2, <1>3, <2>1
<1>5. GetAmountWithoutFees(amount) = Sub64(amount, taken)
  BY DEF GetAmountWithoutFees, fee, cap
<1> HIDE DEF taken
<1>6. taken \in Amount
  <2>1. amount <= MaxUint64 /\ MaxUint64 \in Nat
    BY AmountFacts
  <2> QED BY <1>1, <1>4, <2>1 DEF Amount
<1>7. Sub64(amount, taken) = amount - taken
  BY <1>4, <1>6, SubExact
<1>8. Sub64(amount, taken) \in Amount
  BY <1>6, AmountFacts
<1> QED BY <1>1, <1>4, <1>5, <1>7, <1>8

\* The mediator takes transfer m of link l and passes it on, sends it back or
\* waits.
MediatorTakes(l, m) ==
  /\ l \in Link /\ l[2] \in Mediators /\ m \in Transfers(l) /\ RecTakes(l, m)
  /\ ~IsSecretKnown(partnerState'[Mirror(l)], secretHash)
  /\ task[l[2]] = NoTask
  /\ \A k \in Link : k[1] = l[2] => Promises(k) = {}
  /\ NoticesKept
MediatorForwards(l, m, k, x) ==
  /\ MediatorTakes(l, m)
  /\ k \in Link /\ k[1] = l[2] /\ k[2] # Initiator /\ k[2] \notin m.mediators
  /\ x.type = "LockedTransfer" /\ x.mediators = m.mediators \cup {l[2]}
  /\ x.lock.expiration = m.lock.expiration
  /\ OurPromises(k, x) /\ KeptBut({k}, {l}, {})
  /\ TaskSet(l[2], PairTask(l[1], k[2], m.lock))
MediatorRefunds(l, m, x) ==
  /\ MediatorTakes(l, m)
  /\ x.type = "RefundTransfer" /\ x.lock = m.lock
  /\ OurPromises(Mirror(l), x) /\ KeptBut({Mirror(l)}, {l}, {})
  /\ TaskSet(l[2], PairTask(l[1], l[1], m.lock))
MediatorWaits(l, m) ==
  /\ MediatorTakes(l, m)
  /\ KeptBut({}, {l}, {}) /\ TaskSet(l[2], WaitingTask(l[1], m.lock))

\* A node that has not taken its transfer has not promised anything either.
LEMMA NotYetPromised ==
  ASSUME Base, NEW l \in Link, Transfers(l) # {}, ~Accepted(l), l[2] \in Mediators
  PROVE  \A k \in Link : k[1] = l[2] =>
           /\ Promises(k) = {} /\ ourState[k].balanceProof.nonce = 0
<1> SUFFICES ASSUME NEW k \in Link, k[1] = l[2]
             PROVE  Promises(k) = {} /\ ourState[k].balanceProof.nonce = 0
  OBVIOUS
<1>1. ASSUME Promises(k) # {} PROVE FALSE
  <2>1. PICK j \in Link : j[2] = k[1] /\ Transfers(j) # {} /\ Accepted(j)
    BY <1>1 DEF Base, PromiseOrigin
  <2>2. j = l
    BY <2>1, OneTransfer
  <2> QED BY <2>1, <2>2
<1> QED BY <1>1, LinkGood

\* HandleInitMediator.
LEMMA MediatorInitEffect ==
  ASSUME Base, NEW l \in Link, NEW m \in Range(sent[l]), m.type = "LockedTransfer",
         HandleInitMediator(l[2], l[1], m)
  PROVE  /\ Shape
         /\ \/ Idle \/ MediatorWaits(l, m) \/ (\E x : MediatorRefunds(l, m, x))
            \/ (\E k, x : MediatorForwards(l, m, k, x))
<1> DEFINE n == l[2]
           p == l[1]
           r == Mirror(l)
           e == HandleReceiveLockedTransfer(r, m)
<1>1. n \in Node /\ n \in Mediators /\ r \in Link /\ r = <<n, p>> /\ p \in Node
  BY LinkFacts DEF HandleInitMediator
<1>2. m \in Promises(l) /\ m \in Transfers(l) /\ m \in Message
  BY LinkGood DEF Promises, Transfers
<1>3. CASE task[n] # NoTask \/ ~IsValidLockedTransfer(r, m)
  BY <1>1, <1>3, IdleStep DEF HandleInitMediator, nodeVars
<1>4. CASE task[n] = NoTask /\ IsValidLockedTransfer(r, m)
  <2>1. /\ partnerState' = [partnerState EXCEPT ![r] = e] /\ notices' = notices
        /\ \E q \in MediatorInit(n, m) : mediateTransfer(n, p, q, m, e)
    BY <1>1, <1>4 DEF HandleInitMediator
  <2>2. /\ Good(e) /\ e.balanceProof = m.bp
        /\ m.bp.nonce = partnerState[r].balanceProof.nonce + 1
        /\ partnerState[r].balanceProof.nonce = 0
        /\ m \in Range(sent[l]) /\ m.type # "RevealSecret"
        /\ \A h : ~IsSecretKnown(e, h)
    BY <1>2, <1>4, TakePromise
  <2>3. e \in EndStates
    BY <2>2 DEF Good
  <2>4. \A k \in Link : k[1] = n => Promises(k) = {} /\ ourState[k].balanceProof.nonce = 0
    BY <1>1, <1>2, <2>2, NotYetPromised DEF Accepted
  <2> HIDE DEF e
  <2>5. /\ partnerState' \in [Link -> EndStates] /\ partnerState'[r] = e
        /\ \A k \in Link : k # l => RecKept(k)
    BY <2>1, <2>3, RecOnly
  <2>6. RecTakes(l, m)
    BY <2>2, <2>5 DEF RecTakes
  <2>7. notices' \in [Node -> SUBSET Notice] /\ NoticesKept
    BY <1>1, <2>1, TellNone
  <2>8. MediatorTakes(l, m)
    BY <1>1, <1>2, <1>4, <2>2, <2>4, <2>5, <2>6, <2>7 DEF MediatorTakes
  <2>9. /\ m.lock \in Lock /\ m.lock.secretHash = secretHash /\ m.lock.expiration \in Nat
        /\ m.lock.amount \in Amount /\ m.lock.amount \in Nat
        /\ m.mediators \in SUBSET Node
    <3>1. m.lock \in Lock /\ m.lock.secretHash = secretHash /\ m.lock.expiration \in Nat
      BY <1>2, LinkLocks
    <3>2. m.mediators \subseteq Node
      BY <1>2, MessageTypes
    <3> QED BY <3>1, <3>2, AmountFacts DEF Lock
  <2>10. PICK q \in MediatorInit(n, m) : mediateTransfer(n, p, q, m, e)
    BY <2>1
  <2>11. CASE nextChannelFromRoutes(n, q, m.lock) /\ forwardTransferPair(n, p, q, m)
    <3> DEFINE k == <<n, q>>
               lock == [m.lock EXCEPT !.amount = GetAmountWithoutFees(@)]
               bp == createSendLockedTransfer(ourState[k], lock)
               x == [type |-> "LockedTransfer", bp |-> bp, lock |-> lock,
                     mediators |-> m.mediators \cup {n}]
    <3>1. q \in Route[n] /\ q # Initiator /\ q \notin m.mediators
      BY <2>10, <2>11 DEF MediatorInit, nextChannelFromRoutes
    <3>2. k \in Link /\ k[1] = n /\ k[2] = q /\ q \in Node
      BY <1>1, <3>1, RouteLink, LinkFacts
    <3>3. /\ ourState' = [ourState EXCEPT ![k] = WithLock(@, bp, lock)]
          /\ Send(k, x) /\ SetTask(n, PairTask(p, q, m.lock))
      BY <2>11 DEF forwardTransferPair, SendTransfer
    <3>4. m.lock.amount <= GetDistributable(ourState[k], partnerState[k])
      BY <2>11 DEF nextChannelFromRoutes, MdIsChannelUsable
    <3>5. /\ lock \in Lock /\ lock.secretHash = secretHash
          /\ lock.expiration = m.lock.expiration /\ lock.amount <= m.lock.amount
      <4>1. /\ GetAmountWithoutFees(m.lock.amount) \in Amount
            /\ GetAmountWithoutFees(m.lock.amount) <= m.lock.amount
        BY <2>9, FeeLimit
      <4> QED BY <2>9, <4>1 DEF Lock
    <3>6. partnerState[k] \in EndStates
      BY <3>2 DEF Base, TypeOK
    <3>7. /\ x.type = "LockedTransfer" /\ x.lock = lock /\ x.mediators = m.mediators \cup {n}
          /\ x = [type |-> "LockedTransfer", bp |-> bp, lock |-> lock,
                  mediators |-> m.mediators \cup {n}]
          /\ bp = createSendLockedTransfer(ourState[k], lock)
          /\ m.mediators \cup {n} \in SUBSET Node
      BY <1>1, <2>9
    <3>8. ourState[k].balanceProof.nonce = 0
      BY <2>4, <3>2
    <3> HIDE DEF k, lock, bp, x, n
    <3>9. /\ OurPromises(k, x)
          /\ ourState' \in [Link -> EndStates] /\ sent' \in [Link -> Seq(Message)]
          /\ \A j \in Link : /\ Len(sent[j]) <= Len(sent'[j])
                             /\ j # k => OurKept(j) /\ SentKept(j)
          /\ RevealKept(k)
      BY <2>9, <3>2, <3>3, <3>4, <3>5, <3>6, <3>7, <3>8, SendPromise
    <3>10. PairTask(p, q, m.lock) \in Tasks
      BY <1>1, <2>9, <3>2, MakeTask
    <3>11. task' \in [Node -> Tasks] /\ TaskSet(n, PairTask(p, q, m.lock))
      BY <1>1, <3>3, <3>10, TaskOnly
    <3>12. Shape /\ KeptBut({k}, {l}, {})
      BY <2>5, <2>7, <3>9, <3>11 DEF Shape, KeptBut, SentKept
    <3>13. MediatorForwards(l, m, k, x)
      BY <2>8, <3>1, <3>2, <3>5, <3>7, <3>9, <3>11, <3>12 DEF MediatorForwards, n
    <3> QED BY <3>12, <3>13
  <2>12. CASE /\ MdIsChannelUsable(ourState[r], e, m.lock.amount, Remaining(n, m.lock))
              /\ backwardTransferPair(n, p, m)
    <3> DEFINE bp == createSendLockedTransfer(ourState[r], m.lock)
               x == [type |-> "RefundTransfer", bp |-> bp, lock |-> m.lock, mediators |-> {}]
    <3>1. /\ ourState' = [ourState EXCEPT ![r] = WithLock(@, bp, m.lock)]
          /\ Send(r, x) /\ SetTask(n, PairTask(p, p, m.lock))
      BY <1>1, <2>12 DEF backwardTransferPair, SendTransfer
    <3>2. m.lock.amount <= GetDistributable(ourState[r], e)
      BY <2>12 DEF MdIsChannelUsable
    <3>3. /\ x.type = "RefundTransfer" /\ x.lock = m.lock
          /\ x = [type |-> "RefundTransfer", bp |-> bp, lock |-> m.lock, mediators |-> {}]
          /\ bp = createSendLockedTransfer(ourState[r], m.lock)
          /\ m.lock.amount <= m.lock.amount
      BY <2>9
    <3>4. ourState[r].balanceProof.nonce = 0 /\ r[1] = n
      BY <1>1, <2>4
    <3> HIDE DEF r, bp, x, n
    <3>5. /\ OurPromises(r, x)
          /\ ourState' \in [Link -> EndStates] /\ sent' \in [Link -> Seq(Message)]
          /\ \A j \in Link : /\ Len(sent[j]) <= Len(sent'[j])
                             /\ j # r => OurKept(j) /\ SentKept(j)
          /\ RevealKept(r)
      BY <1>1, <2>3, <2>9, <3>1, <3>2, <3>3, <3>4, SendPromise
    <3>6. task' \in [Node -> Tasks] /\ TaskSet(n, PairTask(p, p, m.lock))
      BY <1>1, <2>9, <3>1, MakeTask, TaskOnly
    <3>7. Shape /\ KeptBut({r}, {l}, {})
      BY <2>5, <2>7, <3>5, <3>6 DEF Shape, KeptBut, SentKept
    <3>8. MediatorRefunds(l, m, x)
      BY <2>8, <3>3, <3>5, <3>6, <3>7 DEF MediatorRefunds, n, r
    <3> QED BY <3>7, <3>8
  <2>13. CASE SetTask(n, WaitingTask(p, m.lock)) /\ UNCHANGED <<ourState, sent>>
    <3>1. /\ ourState' \in [Link -> EndStates] /\ \A k \in Link : OurKept(k)
          /\ sent' \in [Link -> Seq(Message)]
          /\ \A k \in Link : Len(sent[k]) <= Len(sent'[k]) /\ SentKept(k)
      BY <2>13, OurNone, SentNone
    <3>2. task' \in [Node -> Tasks] /\ TaskSet(n, WaitingTask(p, m.lock))
      BY <1>1, <2>9, <2>13, MakeTask, TaskOnly
    <3>3. Shape /\ KeptBut({}, {l}, {})
      BY <2>5, <2>7, <3>1, <3>2 DEF Shape, KeptBut, SentKept
    <3>4. MediatorWaits(l, m)
      BY <2>8, <3>2, <3>3 DEF MediatorWaits
    <3> QED BY <3>3, <3>4
  <2> QED BY <1>1, <2>10, <2>11, <2>12, <2>13 DEF mediateTransfer
<1> QED BY <1>3, <1>4

-----------------------------------------------------------------------------
(* The mediator learns the secret.                                         *)

\* The secret is set in the channels of the task: the copies are kept.
LEMMA SetOffKept ==
  ASSUME NEW f, \A l \in Link : Good(f[l]), NEW n, NEW t,
         NEW g, g = setOffChainSecret(f, n, t)
  PROVE  /\ g \in [Link -> EndStates]
         /\ \A l \in Link :
              /\ Kept(g[l], f[l]) /\ Good(g[l])
              /\ l = <<n, t.payer>> /\ IsLockPending(f[l], secretHash) =>
                   IsSecretKnown(g[l], secretHash)
<1>1. ASSUME NEW l \in Link
      PROVE  /\ Kept(g[l], f[l]) /\ Good(g[l]) /\ g[l] \in EndStates
             /\ l = <<n, t.payer>> /\ IsLockPending(f[l], secretHash) =>
                  IsSecretKnown(g[l], secretHash)
  <2>1. Good(f[l])
    OBVIOUS
  <2>2. CASE l \in {PayerLink(n, t), PayeeLink(n, t)}
    <3>1. g[l] = RegisterSecretEndState(f[l], secretHash)
      BY <2>2 DEF setOffChainSecret
    <3> QED BY <2>1, <3>1, KeptOffChain DEF Kept, Good
  <2>3. CASE l \notin {PayerLink(n, t), PayeeLink(n, t)}
    <3>1. g[l] = f[l] /\ l # <<n, t.payer>>
      BY <2>3 DEF setOffChainSecret, PayerLink
    <3> QED BY <2>1, <3>1, KeptSame DEF Good
  <2> QED BY <2>2, <2>3
<1>2. g = [l \in Link |-> g[l]]
  BY DEF setOffChainSecret
<1> QED BY <1>1, <1>2

\* The same from the chain, where it counts if it was mined in time.
LEMMA SetOnKept ==
  ASSUME NEW f, \A l \in Link : Good(f[l]), NEW n, NEW t, mined \in Nat, mined # 0,
         NEW g, g = setOnChainSecret(f, n, t)
  PROVE  /\ g \in [Link -> EndStates]
         /\ \A l \in Link :
              /\ Kept(g[l], f[l])
              /\ \A lock : /\ l = <<n, t.payer>> \/ (t.type = "mediator" /\ l = <<n, t.payee>>)
                           /\ f[l].balanceProof.locksRoot = {lock}
                           /\ lock.secretHash = secretHash /\ mined <= lock.expiration
                           => IsSecretKnownOnChain(g[l], secretHash)
<1> DEFINE set == IF t.type = "waiting" THEN {PayerLink(n, t)}
                  ELSE {PayerLink(n, t), PayeeLink(n, t)}
<1>1. g = [l \in Link |-> IF l \in set
             THEN RegisterOnChainSecretEndState(f[l], secretHash, mined) ELSE f[l]]
  BY DEF setOnChainSecret
<1>2. \A l : l = <<n, t.payer>> \/ (t.type = "mediator" /\ l = <<n, t.payee>>) => l \in set
  BY DEF PayerLink, PayeeLink
<1> HIDE DEF set
<1>3. ASSUME NEW l \in Link
      PROVE  /\ Kept(g[l], f[l]) /\ g[l] \in EndStates
             /\ \A lock : /\ l \in set
                          /\ f[l].balanceProof.locksRoot = {lock}
                          /\ lock.secretHash = secretHash /\ mined <= lock.expiration
                          => IsSecretKnownOnChain(g[l], secretHash)
  <2>1. Good(f[l])
    OBVIOUS
  <2>2. CASE l \in set
    <3>1. g[l] = RegisterOnChainSecretEndState(f[l], secretHash, mined)
      BY <1>1, <2>2
    <3> QED BY <2>1, <3>1, KeptOnChain DEF Kept, Good
  <2>3. CASE l \notin set
    <3>1. g[l] = f[l]
      BY <1>1, <2>3
    <3> QED BY <2>1, <2>3, <3>1, KeptSame DEF Good
  <2> QED BY <2>2, <2>3
<1>4. g = [l \in Link |-> g[l]]
  BY <1>1
<1> QED BY <1>2, <1>3, <1>4

\* The messages of a sequence and of one behind it.
LEMMA RangeConcat ==
  ASSUME NEW S, NEW s \in Seq(S), NEW a \in Seq(S)
  PROVE  /\ s \o a \in Seq(S) /\ Range(s \o a) = Range(s) \cup Range(a)
         /\ Len(s) <= Len(s \o a)
<1> DEFINE c == s \o a
<1>1. /\ c \in Seq(S) /\ Len(c) = Len(s) + Len(a) /\ Len(s) \in Nat /\ Len(a) \in Nat
      /\ \A i \in 1 .. Len(s) : c[i] = s[i]
      /\ \A i \in 1 .. Len(a) : c[Len(s) + i] = a[i]
      /\ \A i \in 1 .. Len(c) : i <= Len(s) \/ (i - Len(s) \in 1 .. Len(a)
                                               /\ c[i] = a[i - Len(s)])
  OBVIOUS
<1> HIDE DEF c
<1>2. /\ Range(c) = {c[i] : i \in 1 .. Len(c)} /\ Range(s) = {s[i] : i \in 1 .. Len(s)}
      /\ Range(a) = {a[i] : i \in 1 .. Len(a)}
  BY <1>1, RangeSeq
<1>3. Range(c) \subseteq Range(s) \cup Range(a)
  <2> SUFFICES ASSUME NEW i \in 1 .. Len(c) PROVE c[i] \in Range(s) \cup Range(a)
    BY <1>2
  <2>1. CASE i <= Len(s)
    <3>1. i \in 1 .. Len(s) /\ c[i] = s[i]
      BY <1>1, <2>1
    <3> QED BY <1>2, <3>1
  <2>2. CASE ~(i <= Len(s))
    <3>1. i - Len(s) \in 1 .. Len(a) /\ c[i] = a[i - Len(s)]
      BY <1>1, <2>2
    <3> QED BY <1>2, <3>1
  <2> QED BY <2>1, <2>2
<1>4. Range(s) \subseteq Range(c)
  <2>1. \A i \in 1 .. Len(s) : i \in 1 .. Len(c)
    BY <1>1
  <2> QED BY <1>1, <1>2, <2>1
<1>5. Range(a) \subseteq Range(c)
  <2>1. \A i \in 1 .. Len(a) : Len(s) + i \in 1 .. Len(c)
    BY <1>1
  <2> QED BY <1>1, <1>2, <2>1
<1> QED BY <1>1, <1>3, <1>4, <1>5 DEF c

\* What is put on two links at once.
LEMMA SentBoth ==
  ASSUME Base, NEW r \in Link, NEW q \in Link, r # q,
         NEW a \in Seq(Message), NEW b \in Seq(Message),
         sent' = [sent EXCEPT ![r] = @ \o a, ![q] = @ \o b]
  PROVE  /\ sent' \in [Link -> Seq(Message)]
         /\ Range(sent[r])' = Range(sent[r]) \cup Range(a)
         /\ Range(sent[q])' = Range(sent[q]) \cup Range(b)
         /\ \A l \in Link : /\ Len(sent[l]) <= Len(sent'[l])
                            /\ l # r /\ l # q => SentKept(l)
<1>1. sent \in [Link -> Seq(Message)]
  BY DEF Base, TypeOK
<1>2. /\ sent[r] \o a \in Seq(Message) /\ Range(sent[r] \o a) = Range(sent[r]) \cup Range(a)
      /\ Len(sent[r]) <= Len(sent[r] \o a)
      /\ sent[q] \o b \in Seq(Message) /\ Range(sent[q] \o b) = Range(sent[q]) \cup Range(b)
      /\ Len(sent[q]) <= Len(sent[q] \o b)
  BY <1>1, RangeConcat
<1>3. /\ sent' \in [Link -> Seq(Message)] /\ sent'[r] = sent[r] \o a /\ sent'[q] = sent[q] \o b
      /\ \A l \in Link : l # r /\ l # q => sent'[l] = sent[l]
  BY <1>1, <1>2
<1>4. ASSUME NEW l \in Link, l # r, l # q PROVE Len(sent[l]) <= Len(sent'[l]) /\ SentKept(l)
  <2>1. sent'[l] = sent[l] /\ Len(sent[l]) \in Nat
    BY <1>1, <1>3, <1>4
  <2>2. Range(sent[l])' = Range(sent[l])
    BY <2>1
  <2>3. SentKept(l)
    BY ONLY <2>2, PostedNothing
  <2>4. Len(sent[l]) <= Len(sent'[l])
    BY ONLY <2>1
  <2> QED BY <2>3, <2>4
<1>5. /\ Range(sent[r])' = Range(sent[r]) \cup Range(a)
      /\ Range(sent[q])' = Range(sent[q]) \cup Range(b)
      /\ Len(sent[r]) <= Len(sent'[r]) /\ Len(sent[q]) <= Len(sent'[q])
  BY <1>2, <1>3
<1> QED BY <1>3, <1>4, <1>5

\* The mediator learns the secret from its payee, tells its payer, and pays the
\* payee if there is time for it.
MediatorLearns(n, k, q, x) ==
  /\ n \in Mediators /\ task[n].type = "mediator" /\ ~task[n].secretKnown
  /\ k = <<task[n].payer, n>> /\ q = <<n, task[n].payee>> /\ k \in Link /\ q \in Link
  /\ task[n].payee # task[n].payer
  /\ Transfers(q) # {} /\ Sent(Mirror(q), "RevealSecret")
  /\ partnerState'[Mirror(k)].balanceProof.nonce = 1 =>
       IsSecretKnown(partnerState'[Mirror(k)], secretHash)
  /\ \/ /\ task[n].payerState = "payer_pending" /\ x = "payer_secret_revealed"
        /\ Sent(Mirror(k), "RevealSecret")'
     \/ /\ task[n].payerState # "payer_pending" /\ x = task[n].payerState
        /\ RevealKept(Mirror(k))
  /\ NoticesKept
MediatorPays(n, k, q, x) ==
  /\ MediatorLearns(n, k, q, x)
  /\ block[n] + RevealTimeout < task[n].lock.expiration
  /\ \E m : m.type = "Unlock" /\ OurSettles(q, m)
  /\ KeptBut({q}, {}, {Mirror(k)})
  /\ MdTask(n, MdState(task[n], x, "payee_balance_proof", TRUE))
MediatorTooLate(n, k, q, x) ==
  /\ MediatorLearns(n, k, q, x)
  /\ block[n] + RevealTimeout >= task[n].lock.expiration
  /\ KeptBut({}, {}, {Mirror(k)})
  /\ MdTask(n, MdState(task[n], x, "payee_secret_revealed", TRUE))

\* Who reveals the secret to a mediator is its payee, and not its payer.
LEMMA RevealFromPayee ==
  ASSUME Base, NEW l \in Link, NEW n, n = l[2], task[n].type = "mediator",
         Sent(l, "RevealSecret")
  PROVE  /\ l[1] = task[n].payee /\ task[n].payee # task[n].payer
         /\ Mirror(l) = <<n, task[n].payee>> /\ Transfers(Mirror(l)) # {}
<1> DEFINE k == <<task[n].payer, n>>
           q == <<n, task[n].payee>>
<1>1. n \in Node /\ Mirror(l) \in Link /\ Mirror(l) = <<n, l[1]>> /\ Mirror(l)[1] = n
  BY LinkFacts
<1>2. Transfers(Mirror(l)) # {}
  BY DEF Base, RevealOrigin
<1>3. q \in Link /\ q[1] = n /\ Promises(q) # {}
  BY <1>1, PairFacts
<1>4. Promises(Mirror(l)) # {}
  BY <1>1, <1>2, LinkGood
<1>5. Mirror(l) = q
  BY <1>1, <1>3, <1>4, OnePromise
<1>6. k \in Link /\ Mirror(k) = <<n, task[n].payer>> /\ Transfers(k) # {}
  BY <1>1, MediatorFacts, GotFacts
<1>7. Transfers(Mirror(k)) = {}
  BY <1>6, NoTurn
<1>8. task[n].payee # task[n].payer
  BY <1>2, <1>5, <1>6, <1>7
<1> QED BY <1>1, <1>2, <1>5, <1>8

\* A pair with one of its states set.
LEMMA MdSetPayer ==
  ASSUME NEW t, NEW x, NEW y, NEW z, NEW s, s = MdState(t, x, y, z), NEW v
  PROVE  [s EXCEPT !.payerState = v] = MdState(t, v, y, z)
BY DEF MdState

\* The same of the payee's state.
LEMMA MdSetPayee ==
  ASSUME NEW t, NEW x, NEW y, NEW z, NEW s, s = MdState(t, x, y, z), NEW v
  PROVE  [s EXCEPT !.payeeState = v] = MdState(t, x, v, z)
BY DEF MdState

\* The same of what is known.
LEMMA MdSetKnown ==
  ASSUME NEW t, NEW x, NEW y, NEW z, NEW s, s = MdState(t, x, y, z), NEW v
  PROVE  [s EXCEPT !.secretKnown = v] = MdState(t, x, y, v)
BY DEF MdState

\* The states of a pair.
LEMMA MdGet ==
  ASSUME NEW t, NEW x, NEW y, NEW z, NEW s, s = MdState(t, x, y, z)
  PROVE  /\ s.type = "mediator" /\ s.payer = t.payer /\ s.payee = t.payee
         /\ s.lock = t.lock /\ s.payerState = x /\ s.payeeState = y /\ s.secretKnown = z
BY DEF MdState

\* handleOffChainSecretReveal.
LEMMA MediatorLearnEffect ==
  ASSUME Base, NEW l \in Link, Sent(l, "RevealSecret"),
         handleOffChainSecretReveal(l[2], l[1]),
         NEW k, k = <<task[l[2]].payer, l[2]>>, NEW q, q = <<l[2], task[l[2]].payee>>
  PROVE  /\ Shape
         /\ \/ Idle
            \/ \E x : MediatorPays(l[2], k, q, x) \/ MediatorTooLate(l[2], k, q, x)
<1> DEFINE n == l[2]
           t == task[n]
           r == Mirror(k)
           x == IF t.payerState = "payer_pending" THEN "payer_secret_revealed"
                ELSE t.payerState
           secret == [type |-> "RevealSecret"]
           reveal == IF t.payerState = "payer_pending" THEN <<secret>> ELSE <<>>
           t3 == MdState(t, x, "payee_balance_proof", TRUE)
           b == block[n]
<1>1. n \in Node /\ t.type = "mediator"
  BY LinkFacts DEF handleOffChainSecretReveal
<1>2. CASE t.secretKnown \/ TransferExpired(PayerLink(n, t), t.lock, b)
  BY <1>1, <1>2, IdleStep DEF handleOffChainSecretReveal, nodeVars
<1>3. CASE ~(t.secretKnown \/ TransferExpired(PayerLink(n, t), t.lock, b))
  <2>1. secretLearned(n, l[1]) /\ ~t.secretKnown
    BY <1>3 DEF handleOffChainSecretReveal
  <2>2. /\ l[1] = t.payee /\ t.payee # t.payer /\ Mirror(l) = q /\ Transfers(q) # {}
    BY <1>1, RevealFromPayee
  <2>3. /\ n \in Mediators /\ Got(k, t.lock) /\ k \in Link /\ k[1] = t.payer /\ k[2] = n
        /\ r = <<n, t.payer>> /\ r \in Link /\ t \in Tasks /\ MediatorTaskOK(n, t)
    BY <1>1, MediatorFacts
  <2>4. /\ q \in Link /\ q[1] = n /\ q[2] = t.payee /\ Promises(q) # {}
        /\ t.payerState \in PayerStates /\ t.payeeState \in PayeeStates
        /\ t.secretKnown \in BOOLEAN /\ t.lock.expiration \in Nat
    BY <1>1, PairFacts
  <2>5. t = MdState(t, t.payerState, t.payeeState, t.secretKnown)
    BY <1>1, <2>3, MdStateFacts
  <2>6. /\ x \in PayerStates /\ "payee_secret_revealed" \in PayeeStates
        /\ "payee_balance_proof" \in PayeeStates /\ TRUE \in BOOLEAN
    BY <2>4 DEF PayerStates, PayeeStates
  <2>7. setOffchainRevealState([t EXCEPT !.secretKnown = TRUE], l[1])
          = MdState(t, t.payerState, "payee_secret_revealed", TRUE)
    <3>1. PICK s, d, a, c, z, v, w :
            /\ s = t /\ d = t /\ a = t.payerState /\ c = t.payeeState
            /\ z = t.secretKnown /\ v = TRUE /\ w = "payee_secret_revealed"
      OBVIOUS
    <3>2. s = MdState(d, a, c, z)
      BY <2>5, <3>1
    <3>3. [s EXCEPT !.secretKnown = v] = MdState(d, a, c, v)
      BY ONLY <3>2, MdSetKnown
    <3>4. PICK u : u = MdState(d, a, c, v)
      OBVIOUS
    <3>5. u.payee = d.payee
      BY ONLY <3>4, MdGet
    <3>6. [u EXCEPT !.payeeState = w] = MdState(d, a, w, v)
      BY ONLY <3>4, MdSetPayee
    <3>7. setOffchainRevealState(u, l[1]) = MdState(d, a, w, v)
      BY <2>2, <3>1, <3>5, <3>6 DEF setOffchainRevealState
    <3> QED BY <3>1, <3>3, <3>4, <3>7
  <2>8. PICK u : u = MdState(t, t.payerState, "payee_secret_revealed", TRUE)
    OBVIOUS
  <2>9. /\ u.payer = t.payer /\ u.payee = t.payee /\ u.lock = t.lock
        /\ u.payerState = t.payerState /\ u.payeeState = "payee_secret_revealed"
        /\ [u EXCEPT !.payerState = "payer_secret_revealed"]
             = MdState(t, "payer_secret_revealed", "payee_secret_revealed", TRUE)
    <3>1. PICK s, a, c, z, v :
            /\ s = t /\ a = t.payerState /\ c = "payee_secret_revealed" /\ z = TRUE
            /\ v = "payer_secret_revealed"
      OBVIOUS
    <3>2. u = MdState(s, a, c, z)
      BY <2>8, <3>1
    <3>3. /\ u.payer = s.payer /\ u.payee = s.payee /\ u.lock = s.lock
          /\ u.payerState = a /\ u.payeeState = c
      BY ONLY <3>2, MdGet
    <3>4. [u EXCEPT !.payerState = v] = MdState(s, v, c, z)
      BY ONLY <3>2, MdSetPayer
    <3> QED BY <3>1, <3>3, <3>4
  <2>10. PICK rec, our : rec = setOffChainSecret(partnerState, n, u)
                         /\ our = setOffChainSecret(ourState, n, u)
    OBVIOUS
  <2>11. eventsForSecretReveal(u) <=> t.payerState = "payer_pending"
    BY <2>9 DEF eventsForSecretReveal, STATE_SECRET_KNOWN
  <2>12. PICK v : v = IF eventsForSecretReveal(u)
                      THEN [u EXCEPT !.payerState = "payer_secret_revealed"] ELSE u
    OBVIOUS
  <2>13. v = MdState(t, x, "payee_secret_revealed", TRUE)
    BY <2>8, <2>9, <2>11, <2>12
  <2>14. /\ v \in Tasks /\ v.type = "mediator" /\ v.payer = t.payer /\ v.payee = t.payee
         /\ v.lock = t.lock /\ v.payeeState = "payee_secret_revealed"
         /\ [v EXCEPT !.payeeState = "payee_balance_proof"] = t3
    <3>1. v \in Tasks
      BY <1>1, <2>3, <2>6, <2>13, MdStateFacts
    <3>2. PICK y, s, c, z, w :
            /\ y = x /\ s = t /\ c = "payee_secret_revealed" /\ z = TRUE
            /\ w = "payee_balance_proof"
      OBVIOUS
    <3>3. v = MdState(s, y, c, z)
      BY <2>13, <3>2
    <3>4. /\ v.type = "mediator" /\ v.payer = s.payer /\ v.payee = s.payee
          /\ v.lock = s.lock /\ v.payeeState = c
      BY ONLY <3>3, MdGet
    <3>5. [v EXCEPT !.payeeState = w] = MdState(s, y, w, z)
      BY ONLY <3>3, MdSetPayee
    <3> QED BY <3>1, <3>2, <3>4, <3>5
  <2>15. t3 \in Tasks /\ t3.type = "mediator" /\ t3.payer = t.payer /\ t3.payee = t.payee
    <3>1. t3 \in Tasks
      BY <1>1, <2>3, <2>6, MdStateFacts
    <3>2. PICK y, s, u3 : y = x /\ s = t /\ u3 = t3
      OBVIOUS
    <3>3. u3 = MdState(s, y, "payee_balance_proof", TRUE)
      BY <3>2
    <3>4. u3.type = "mediator" /\ u3.payer = s.payer /\ u3.payee = s.payee
      BY ONLY <3>3 DEF MdState
    <3> QED BY <3>1, <3>2, <3>4
  <2> HIDE DEF t3
  <2>16. /\ partnerState' = rec /\ notices' = notices
         /\ eventsForBalanceProof(n, v, our, b, reveal)
    BY <2>1, <2>7, <2>8, <2>10, <2>11, <2>12 DEF secretLearned
  <2>17. \A j \in Link : Good(ourState[j]) /\ Good(partnerState[j])
    BY LinkGood
  <2>18. /\ rec \in [Link -> EndStates]
         /\ \A j \in Link :
              /\ Kept(rec[j], partnerState[j])
              /\ j = <<n, u.payer>> /\ IsLockPending(partnerState[j], secretHash) =>
                   IsSecretKnown(rec[j], secretHash)
    BY <2>10, <2>17, SetOffKept
  <2>19. our \in [Link -> EndStates] /\ \A j \in Link : Kept(our[j], ourState[j]) /\ Good(our[j])
    BY <2>10, <2>17, SetOffKept
  <2>20. partnerState' \in [Link -> EndStates] /\ \A j \in Link : RecKept(j)
    BY <2>16, <2>18, LinkFacts DEF RecKept, SecretOut
  <2>21. partnerState'[r].balanceProof.nonce = 1 => IsSecretKnown(partnerState'[r], secretHash)
    <3>1. partnerState'[r].balanceProof = partnerState[r].balanceProof
      BY <2>3, <2>16, <2>18 DEF Kept
    <3>2. IsLockPending(partnerState[r], secretHash) <=> partnerState[r].balanceProof.nonce = 1
      BY <2>3, LinkPending
    <3> QED BY <2>3, <2>9, <2>16, <2>18, <3>1, <3>2
  <2>22. notices' \in [Node -> SUBSET Notice] /\ NoticesKept
    BY <1>1, <2>16, TellNone
  <2>23. /\ PayerLink(n, v) = r /\ PayeeLink(n, v) = q /\ r # q
    BY <2>2, <2>3, <2>14 DEF PayerLink, PayeeLink
  <2>24. reveal \in Seq(Message) /\ (Range(reveal) = {secret} \/ Range(reveal) = {})
         /\ (t.payerState = "payer_pending" => Range(reveal) = {secret})
         /\ (t.payerState # "payer_pending" => Range(reveal) = {})
    <3>1. Range(<<secret>>) = {secret} /\ Range(<<>>) = {} /\ <<secret>> \in Seq(Message)
          /\ <<>> \in Seq(Message)
      BY RevealMessage DEF Range
    <3> HIDE DEF secret
    <3> QED BY <3>1
  <2>25. PaysPayee(v, b) <=> b + RevealTimeout < t.lock.expiration
    <3>1. b \in Nat
      BY <1>1 DEF Base, TypeOK
    <3>2. MdIsSafeToWait(t.lock, b) <=> b + RevealTimeout < t.lock.expiration
      BY <2>4, <3>1, SafeIsEarly
    <3> QED BY <2>14, <3>2 DEF PaysPayee, STATE_SECRET_KNOWN
  <2>26. ASSUME Range(sent[r])' = Range(sent[r]) \cup Range(reveal),
                NoticesKept
         PROVE  /\ PromisesKept(r) /\ EndsKept(r)
                /\ MediatorLearns(n, k, q, x)
    <3>1. /\ PromisesKept(r) /\ EndsKept(r)
          /\ \/ t.payerState = "payer_pending" /\ x = "payer_secret_revealed"
                /\ Sent(r, "RevealSecret")'
             \/ t.payerState # "payer_pending" /\ x = t.payerState /\ RevealKept(r)
      <4>1. CASE t.payerState = "payer_pending"
        <5>1. Range(sent[r])' = Range(sent[r]) \cup {secret}
          BY <2>24, <2>26, <4>1
        <5>2. PromisesKept(r) /\ EndsKept(r) /\ Sent(r, "RevealSecret")'
          BY <5>1, PostedReveal
        <5> QED BY <4>1, <5>2
      <4>2. CASE t.payerState # "payer_pending"
        <5>1. Range(sent[r])' = Range(sent[r])
          BY <2>24, <2>26, <4>2
        <5>2. PromisesKept(r) /\ EndsKept(r) /\ RevealKept(r)
          BY <5>1, PostedNothing DEF SentKept
        <5> QED BY <4>2, <5>2
      <4> QED BY <4>1, <4>2
    <3>2. Sent(Mirror(q), "RevealSecret")
      BY <2>2, LinkFacts
    <3> QED BY <1>1, <2>1, <2>2, <2>3, <2>4, <2>21, <2>26, <3>1, <3>2 DEF MediatorLearns
  <2>27. PICK lock, bp : lock = GetLock(our[q], secretHash) /\ bp = CreateUnlock(our[q], lock)
    OBVIOUS
  <2>28. PICK y : y = MdTask(n, v) \/ y = MdTask(n, t3)
    OBVIOUS
  <2>29. /\ ourState' = IF PaysPayee(v, b) /\ IsLockPending(our[q], secretHash)
                        THEN [our EXCEPT ![q] = WithUnlock(@, bp, lock)] ELSE our
         /\ sent' = [sent EXCEPT ![r] = @ \o reveal,
                ![q] = @ \o IF PaysPayee(v, b) /\ IsLockPending(our[q], secretHash)
                            THEN <<[type |-> "Unlock", bp |-> bp]>> ELSE <<>>]
         /\ clearIfFinalized(n, IF PaysPayee(v, b)
                                THEN [v EXCEPT !.payeeState = "payee_balance_proof"] ELSE v)
    BY <2>16, <2>23, <2>27 DEF eventsForBalanceProof
  <2> HIDE DEF r, x, reveal, secret, b
  <2>30. CASE ~PaysPayee(v, b)
    <3>1. ourState' = our /\ clearIfFinalized(n, v)
          /\ sent' = [sent EXCEPT ![r] = @ \o reveal, ![q] = @ \o <<>>]
      BY <2>29, <2>30
    <3>2. <<>> \in Seq(Message) /\ Range(<<>>) = {}
      BY DEF Range
    <3>3. /\ sent' \in [Link -> Seq(Message)]
          /\ Range(sent[r])' = Range(sent[r]) \cup Range(reveal)
          /\ Range(sent[q])' = Range(sent[q]) \cup Range(<<>>)
          /\ \A j \in Link : /\ Len(sent[j]) <= Len(sent'[j])
                             /\ j # r /\ j # q => SentKept(j)
      BY <2>3, <2>4, <2>23, <2>24, <3>1, <3>2, SentBoth
    <3>4. SentKept(q)
      <4>1. Range(sent[q])' = Range(sent[q])
        BY <3>2, <3>3
      <4> QED BY <4>1, PostedNothing
    <3>5. ourState' \in [Link -> EndStates] /\ \A j \in Link : OurKept(j)
      BY <2>19, <3>1 DEF OurKept
    <3>6. PromisesKept(r) /\ EndsKept(r) /\ MediatorLearns(n, k, q, x)
      BY <2>22, <2>26, <3>3
    <3>7. KeptBut({}, {}, {r})
      BY <2>20, <3>3, <3>4, <3>5, <3>6 DEF KeptBut, SentKept
    <3>8. task' \in [Node -> Tasks] /\ MdTask(n, v)
      <4>1. StepsOK
        BY <3>7, KeptSteps
      <4> QED BY <1>1, <2>3, <2>4, <2>14, <3>1, <4>1, FinalizeEffect
    <3>9. Shape
      BY <2>20, <2>22, <3>3, <3>5, <3>8 DEF Shape
    <3>10. MediatorTooLate(n, k, q, x)
      <4>1. b + RevealTimeout >= t.lock.expiration
        <5>1. b \in Nat /\ RevealTimeout \in Nat
          BY <1>1, MediationAssumption DEF Base, TypeOK, b
        <5> QED BY <2>4, <2>25, <2>30, <5>1
      <4> QED BY <2>13, <3>6, <3>7, <3>8, <4>1 DEF MediatorTooLate, b, r
    <3> QED BY <3>9, <3>10
  <2>31. CASE PaysPayee(v, b)
    <3>1. b + RevealTimeout < t.lock.expiration
      BY <2>25, <2>31
    <3>2. b < t.lock.expiration
      <4>1. b \in Nat /\ RevealTimeout \in Nat
        BY <1>1, MediationAssumption DEF Base, TypeOK, b
      <4> QED BY <2>4, <3>1, <4>1
    <3>3. ourState[q].balanceProof.nonce = 1
      <4>1. Sent(q, "Unlock") => FALSE
        <5>1. t.payeeState = "payee_balance_proof" <=> Sent(q, "Unlock")
          BY <1>1, <2>3 DEF MediatorTaskOK
        <5>2. t.payeeState = "payee_balance_proof" => t.secretKnown
          BY <1>1, <2>3 DEF MediatorTaskOK
        <5> QED BY <2>1, <5>1, <5>2
      <4>2. Sent(q, "LockExpired") => FALSE
        <5>1. PICK y1 \in Promises(q) : y1.lock.expiration = t.lock.expiration
          BY <1>1, <2>4, PairFacts
        <5>2. Sent(q, "LockExpired") => block[n] >= t.lock.expiration
          BY <2>4, <5>1 DEF Base, ExpiredLate
        <5>3. block[n] \in Nat
          BY <1>1 DEF Base, TypeOK
        <5> QED BY <2>4, <3>2, <5>2, <5>3 DEF b
      <4>3. Ends(q) = {}
        BY <2>4, <4>1, <4>2, OneEnd
      <4> QED BY <2>4, <4>3, LinkGood
    <3>4. PICK w \in Promises(q) : /\ w.lock.secretHash = secretHash
                                   /\ ourState[q].balanceProof.locksRoot = {w.lock}
      BY <2>4, <3>3, LinkLocks
    <3>5. /\ Good(our[q]) /\ our[q].balanceProof.nonce = 1
          /\ our[q].balanceProof.locksRoot = {w.lock}
      BY <2>4, <2>19, <3>3, <3>4 DEF Kept
    <3>6. IsLockPending(our[q], secretHash) /\ lock = w.lock
      <4>1. /\ IsLockPending(our[q], w.lock.secretHash)
            /\ GetLock(our[q], w.lock.secretHash) = w.lock
        BY <3>5, OneLock
      <4> QED BY <2>27, <3>4, <4>1
    <3>7. PICK e : e = WithUnlock(our[q], bp, lock)
      OBVIOUS
    <3>8. /\ bp \in BalanceProof /\ bp.nonce = 2 /\ bp.locksRoot = {} /\ Good(e)
          /\ e.balanceProof = bp
      <4>1. PICK end : end = our[q]
        OBVIOUS
      <4>2. /\ Good(end) /\ end.balanceProof.nonce = 1 /\ end.balanceProof.locksRoot = {lock}
            /\ bp = CreateUnlock(end, lock) /\ e = WithUnlock(end, bp, lock)
        BY <2>27, <3>5, <3>6, <3>7, <4>1
      <4> QED BY ONLY <4>2, UnlockEnd
    <3>9. PICK m : m = [type |-> "Unlock", bp |-> bp]
      OBVIOUS
    <3>10. m \in Message /\ m.type = "Unlock" /\ m.bp = bp /\ <<m>> \in Seq(Message)
           /\ Range(<<m>>) = {m}
      <4>1. m \in Message
        BY <3>8, <3>9, MakeMessage
      <4>2. m.type = "Unlock" /\ m.bp = bp
        BY <3>9
      <4>3. <<m>> \in Seq(Message)
        BY ONLY <4>1
      <4>4. Range(<<m>>) = {m}
        BY DEF Range
      <4> QED BY <4>1, <4>2, <4>3, <4>4
    <3>11. /\ ourState' = [our EXCEPT ![q] = e] /\ clearIfFinalized(n, t3)
           /\ sent' = [sent EXCEPT ![r] = @ \o reveal, ![q] = @ \o <<m>>]
      BY <2>14, <2>19, <2>29, <2>31, <3>6, <3>7, <3>9
    <3>12. /\ ourState' \in [Link -> EndStates] /\ ourState'[q] = e
           /\ \A j \in Link : j # q => OurKept(j)
      <4>1. e \in EndStates
        BY <3>8 DEF Good
      <4>2. /\ ourState' \in [Link -> EndStates] /\ ourState'[q] = e
            /\ \A j \in Link : j # q => ourState'[j] = our[j]
        BY <2>4, <2>19, <3>11, <4>1
      <4> QED BY <2>19, <4>2 DEF OurKept
    <3>13. /\ sent' \in [Link -> Seq(Message)]
           /\ Range(sent[r])' = Range(sent[r]) \cup Range(reveal)
           /\ Range(sent[q])' = Range(sent[q]) \cup {m}
           /\ \A j \in Link : /\ Len(sent[j]) <= Len(sent'[j])
                              /\ j # r /\ j # q => SentKept(j)
      <4>1. PICK a : a = <<m>>
        OBVIOUS
      <4>2. a \in Seq(Message) /\ Range(a) = {m}
            /\ sent' = [sent EXCEPT ![r] = @ \o reveal, ![q] = @ \o a]
        BY <3>10, <3>11, <4>1
      <4>3. Base /\ r \in Link /\ q \in Link /\ r # q /\ reveal \in Seq(Message)
        BY <2>3, <2>4, <2>23, <2>24
      <4>4. /\ sent' \in [Link -> Seq(Message)]
            /\ Range(sent[r])' = Range(sent[r]) \cup Range(reveal)
            /\ Range(sent[q])' = Range(sent[q]) \cup Range(a)
            /\ \A j \in Link : /\ Len(sent[j]) <= Len(sent'[j])
                               /\ j # r /\ j # q => SentKept(j)
        BY ONLY <4>2, <4>3, SentBoth
      <4> QED BY <4>2, <4>4
    <3>14. SentEnd(q, m) /\ RevealKept(q)
      <4>1. m.type \in {"Unlock", "LockExpired"} /\ Range(sent[q])' = Range(sent[q]) \cup {m}
        BY <3>10, <3>13
      <4> QED BY ONLY <4>1, PostedEnd
    <3>15. OurSettles(q, m)
      BY <3>3, <3>8, <3>10, <3>12, <3>14 DEF OurSettles
    <3>16. PromisesKept(r) /\ EndsKept(r) /\ MediatorLearns(n, k, q, x)
      BY <2>22, <2>26, <3>13
    <3>17. KeptBut({q}, {}, {r})
      BY <2>20, <3>12, <3>13, <3>14, <3>16 DEF KeptBut, SentKept
    <3>18. task' \in [Node -> Tasks] /\ MdTask(n, t3)
      <4>1. OurStep(q)
        BY <3>15 DEF OurStep
      <4>2. StepsOK
        BY <3>17, <4>1, KeptSteps
      <4> QED BY <1>1, <2>3, <2>4, <2>15, <3>11, <4>2, FinalizeEffect
    <3>19. Shape
      BY <2>20, <2>22, <3>12, <3>13, <3>18 DEF Shape
    <3>20. MediatorPays(n, k, q, x)
      BY <3>1, <3>10, <3>15, <3>16, <3>17, <3>18 DEF MediatorPays, b, r, t3
    <3> QED BY <3>19, <3>20
  <2> QED BY <2>30, <2>31
<1> QED BY <1>2, <1>3

\* A node's pair by its states.
LEMMA PairSelf ==
  ASSUME Base, NEW n \in Node, task[n].type = "mediator", NEW t, t = task[n],
         NEW d, d = t, NEW x, x = t.payerState, NEW y, y = t.payeeState,
         NEW z, z = t.secretKnown
  PROVE  t = MdState(d, x, y, z)
<1>1. t \in Tasks
  BY TaskNode
<1> QED BY <1>1, MdStateFacts

\* A pair with other states is a task.
LEMMA PairTyped ==
  ASSUME Base, NEW n \in Node, task[n].type = "mediator",
         NEW x \in PayerStates, NEW y \in PayeeStates, NEW z \in BOOLEAN,
         NEW t, t = task[n], NEW s, s = MdState(t, x, y, z)
  PROVE  /\ s \in Tasks /\ s.type = "mediator" /\ s.payer = t.payer /\ s.payee = t.payee
         /\ s.lock = t.lock /\ s.payerState = x /\ s.payeeState = y /\ s.secretKnown = z
<1>1. t \in Tasks
  BY TaskNode
<1>2. s \in Tasks
  BY <1>1, MdStateFacts
<1>3. /\ s.type = "mediator" /\ s.payer = t.payer /\ s.payee = t.payee
      /\ s.lock = t.lock /\ s.payerState = x /\ s.payeeState = y /\ s.secretKnown = z
  BY MdGet
<1> QED BY <1>2, <1>3

\* A mediator sees the registered secret, with a pair or with a waiting transfer.
MediatorSees(n) ==
  /\ n \in Mediators /\ task[n].type = "mediator"
  /\ KeptBut({}, {}, {}) /\ NoticesKept
  /\ MdTask(n, MdState(task[n], task[n].payerState, task[n].payeeState, TRUE))
  /\ mined <= task[n].lock.expiration =>
       /\ ourState'[<<n, task[n].payee>>].balanceProof.nonce = 1 =>
            IsSecretKnownOnChain(ourState'[<<n, task[n].payee>>], secretHash)
       /\ partnerState'[<<n, task[n].payer>>].balanceProof.nonce = 1 =>
            IsSecretKnownOnChain(partnerState'[<<n, task[n].payer>>], secretHash)
WaiterMoves(n) ==
  /\ n \in Mediators /\ task[n].type = "waiting"
  /\ KeptBut({}, {}, {}) /\ NoticesKept
  /\ \E t \in Tasks : /\ t.type = "waiting" /\ t.payer = task[n].payer
                      /\ t.lock = task[n].lock /\ MdTask(n, t)

\* The secret of the chain is set in the channels of a task.
LEMMA SeenInChannels ==
  ASSUME Base, NEW n \in Node, task[n].type \in {"mediator", "waiting"}, mined # 0,
         NEW t, t = task[n],
         NEW k, k = <<t.payer, n>>, NEW our, our = setOnChainSecret(ourState, n, t),
         NEW rec, rec = setOnChainSecret(partnerState, n, t)
  PROVE  /\ our \in [Link -> EndStates] /\ rec \in [Link -> EndStates]
         /\ \A j \in Link : Kept(our[j], ourState[j]) /\ Kept(rec[j], partnerState[j])
         /\ mined <= t.lock.expiration =>
              /\ rec[Mirror(k)].balanceProof.nonce = 1 =>
                   IsSecretKnownOnChain(rec[Mirror(k)], secretHash)
              /\ t.type = "mediator" /\ our[<<n, t.payee>>].balanceProof.nonce = 1 =>
                   IsSecretKnownOnChain(our[<<n, t.payee>>], secretHash)
<1>1. mined \in Nat /\ \A j \in Link : Good(ourState[j]) /\ Good(partnerState[j])
  BY LinkGood DEF Base, TypeOK
<1>2. /\ our \in [Link -> EndStates]
      /\ \A j \in Link : Kept(our[j], ourState[j])
      /\ \A lock : \A j \in Link :
           /\ t.type = "mediator" /\ j = <<n, t.payee>>
           /\ ourState[j].balanceProof.locksRoot = {lock}
           /\ lock.secretHash = secretHash /\ mined <= lock.expiration
           => IsSecretKnownOnChain(our[j], secretHash)
  BY <1>1, SetOnKept
<1>3. /\ rec \in [Link -> EndStates]
      /\ \A j \in Link : Kept(rec[j], partnerState[j])
      /\ \A lock : \A j \in Link :
           /\ j = <<n, t.payer>> /\ partnerState[j].balanceProof.locksRoot = {lock}
           /\ lock.secretHash = secretHash /\ mined <= lock.expiration
           => IsSecretKnownOnChain(rec[j], secretHash)
  <2>1. PICK d : d = t
    OBVIOUS
  <2>2. /\ mined \in Nat /\ mined # 0 /\ \A j \in Link : Good(partnerState[j])
        /\ rec = setOnChainSecret(partnerState, n, d)
    BY <1>1, <2>1
  <2>3. /\ rec \in [Link -> EndStates]
        /\ \A j \in Link :
             /\ Kept(rec[j], partnerState[j])
             /\ \A lock : /\ j = <<n, d.payer>> \/ (d.type = "mediator" /\ j = <<n, d.payee>>)
                          /\ partnerState[j].balanceProof.locksRoot = {lock}
                          /\ lock.secretHash = secretHash /\ mined <= lock.expiration
                          => IsSecretKnownOnChain(rec[j], secretHash)
    BY ONLY <2>2, SetOnKept
  <2> QED BY <2>1, <2>3
<1>4. k \in Link /\ Mirror(k) = <<n, t.payer>> /\ Mirror(k) \in Link /\ Got(k, t.lock)
  BY MediatorFacts
<1>5. ASSUME mined <= t.lock.expiration, rec[Mirror(k)].balanceProof.nonce = 1
      PROVE  IsSecretKnownOnChain(rec[Mirror(k)], secretHash)
  <2>1. partnerState[Mirror(k)].balanceProof.nonce = 1
    BY <1>3, <1>4, <1>5 DEF Kept
  <2>2. /\ Promises(k) # {} /\ t.lock.secretHash = secretHash
        /\ \A m \in Promises(k) : m.lock = t.lock
    BY <1>4, GotFacts
  <2>3. partnerState[Mirror(k)].balanceProof.locksRoot = {t.lock}
    BY <1>4, <2>1, <2>2, LinkLocks
  <2> QED BY <1>3, <1>4, <1>5, <2>2, <2>3
<1>6. ASSUME mined <= t.lock.expiration, t.type = "mediator",
             our[<<n, t.payee>>].balanceProof.nonce = 1
      PROVE  IsSecretKnownOnChain(our[<<n, t.payee>>], secretHash)
  <2>1. PICK q : q = <<n, t.payee>>
    OBVIOUS
  <2>2. /\ q \in Link /\ Promises(q) # {}
        /\ \A x \in Promises(q) : /\ x.lock.secretHash = secretHash
                                  /\ x.lock.expiration = t.lock.expiration
    BY <1>6, <2>1, PairFacts
  <2>3. ourState[q].balanceProof.nonce = 1
    BY <1>2, <1>6, <2>1, <2>2 DEF Kept
  <2>4. PICK x \in Promises(q) : ourState[q].balanceProof.locksRoot = {x.lock}
    BY <2>2, <2>3, LinkLocks
  <2> QED BY <1>2, <1>6, <2>1, <2>2, <2>4
<1> QED BY <1>2, <1>3, <1>5, <1>6

\* handleOnChainSecretReveal: a payee that showed the secret late is not paid now.
LEMMA MediatorOnChainEffect ==
  ASSUME Base, NEW n \in Node, handleOnChainSecretReveal(n), mined = block[n] + 1
  PROVE  Shape /\ (MediatorSees(n) \/ WaiterMoves(n))
<1>1. PICK t, k, q : t = task[n] /\ k = <<t.payer, n>> /\ q = <<n, t.payee>>
  OBVIOUS
<1>2. /\ t.type \in {"mediator", "waiting"} /\ t \in Tasks /\ n \in Mediators
      /\ k \in Link /\ Mirror(k) = <<n, t.payer>> /\ Mirror(k) \in Link
      /\ Got(k, t.lock) /\ MediatorTaskOK(n, t)
  BY <1>1, MediatorFacts DEF handleOnChainSecretReveal
<1>3. mined # 0 /\ block[n] \in Nat /\ RevealTimeout \in Nat /\ t.lock.expiration \in Nat
  BY <1>2, GotFacts, MediationAssumption DEF Base, TypeOK
<1>4. PICK our, rec : /\ our = setOnChainSecret(ourState, n, t)
                      /\ rec = setOnChainSecret(partnerState, n, t)
  OBVIOUS
<1>5. /\ our \in [Link -> EndStates] /\ rec \in [Link -> EndStates]
      /\ \A j \in Link : Kept(our[j], ourState[j]) /\ Kept(rec[j], partnerState[j])
      /\ mined <= t.lock.expiration =>
           /\ rec[Mirror(k)].balanceProof.nonce = 1 =>
                IsSecretKnownOnChain(rec[Mirror(k)], secretHash)
           /\ t.type = "mediator" /\ our[<<n, t.payee>>].balanceProof.nonce = 1 =>
                IsSecretKnownOnChain(our[<<n, t.payee>>], secretHash)
  BY <1>1, <1>2, <1>3, <1>4, SeenInChannels
<1>6. partnerState' = rec /\ notices' = notices
  BY <1>1, <1>4 DEF handleOnChainSecretReveal
<1>7. notices' \in [Node -> SUBSET Notice] /\ NoticesKept
  BY <1>6, TellNone
<1>8. ASSUME ourState' = our, sent' = sent
      PROVE  /\ KeptBut({}, {}, {}) /\ StepsOK
             /\ ourState' \in [Link -> EndStates] /\ partnerState' \in [Link -> EndStates]
             /\ sent' \in [Link -> Seq(Message)]
             /\ \A j \in Link : Len(sent[j]) <= Len(sent'[j])
  <2>1. \A j \in Link : OurKept(j) /\ RecKept(j)
    BY <1>3, <1>5, <1>6, <1>8, LinkFacts DEF OurKept, RecKept
  <2>2. /\ sent' \in [Link -> Seq(Message)]
        /\ \A j \in Link : Len(sent[j]) <= Len(sent'[j]) /\ SentKept(j)
    BY <1>8, SentNone
  <2>3. KeptBut({}, {}, {})
    BY <2>1, <2>2 DEF KeptBut, SentKept
  <2>4. StepsOK
    BY <2>3, KeptSteps
  <2> QED BY <1>5, <1>6, <1>8, <2>2, <2>3, <2>4
<1>9. CASE t.type = "waiting"
  <2>1. ourState' = our /\ sent' = sent /\ clearIfFinalized(n, t)
    BY <1>1, <1>4, <1>9 DEF handleOnChainSecretReveal
  <2>2. task' \in [Node -> Tasks] /\ MdTask(n, t)
    BY <1>1, <1>2, <1>8, <1>9, <2>1, FinalizeEffect
  <2>3. Shape
    BY <1>7, <1>8, <2>1, <2>2 DEF Shape
  <2> QED BY <1>1, <1>2, <1>7, <1>8, <1>9, <2>1, <2>2, <2>3 DEF WaiterMoves
<1>10. CASE t.type = "mediator"
  <2>1. /\ q \in Link /\ t.payerState \in PayerStates /\ t.payeeState \in PayeeStates
        /\ TRUE \in BOOLEAN
    BY <1>1, <1>10, PairFacts
  <2>12. PICK x, y, z : x = t.payerState /\ y = t.payeeState /\ z = TRUE
    OBVIOUS
  <2>2. PICK s : s = MdState(t, x, y, z)
    OBVIOUS
  <2>13. /\ Base /\ n \in Node /\ task[n].type = "mediator" /\ t = task[n]
         /\ x \in PayerStates /\ y \in PayeeStates /\ z \in BOOLEAN
    BY <1>1, <1>10, <2>1, <2>12
  <2>3. /\ s \in Tasks /\ s.type = "mediator" /\ s.payer = t.payer /\ s.payee = t.payee
        /\ s.lock = t.lock /\ s.payeeState = t.payeeState
    <3>1. /\ s \in Tasks /\ s.type = "mediator" /\ s.payer = t.payer /\ s.payee = t.payee
          /\ s.lock = t.lock /\ s.payeeState = y
      BY ONLY <2>2, <2>13, PairTyped
    <3> QED BY <2>12, <3>1
  <2>4. [t EXCEPT !.secretKnown = TRUE] = s
    <3>1. PICK d, w : d = t /\ w = t.secretKnown
      OBVIOUS
    <3>2. t = MdState(d, x, y, w)
      BY <2>12, <2>13, <3>1, PairSelf
    <3>3. [t EXCEPT !.secretKnown = z] = MdState(d, x, y, z)
      BY ONLY <3>2, MdSetKnown
    <3> QED BY <2>2, <2>12, <3>1, <3>3
  <2>5. eventsForBalanceProof(n, s, our, mined, <<>>)
    BY <1>1, <1>4, <1>10, <2>4 DEF handleOnChainSecretReveal
  <2>6. ~PaysPayee(s, mined)
    <3>1. t.payeeState = "payee_secret_revealed" =>
            block[n] + RevealTimeout >= t.lock.expiration
      BY <1>2, <1>10 DEF MediatorTaskOK
    <3>2. MdIsSafeToWait(t.lock, mined) <=> mined + RevealTimeout < t.lock.expiration
      BY <1>3, SafeIsEarly
    <3> QED BY <1>3, <2>1, <2>3, <3>1, <3>2
            DEF PaysPayee, STATE_SECRET_KNOWN, PayeeStates
  <2>7. /\ ourState' = our /\ clearIfFinalized(n, s)
        /\ sent' = [sent EXCEPT ![PayerLink(n, s)] = @ \o <<>>,
                                ![PayeeLink(n, s)] = @ \o <<>>]
    BY <2>5, <2>6 DEF eventsForBalanceProof
  <2>8. sent' = sent
    <3>1. PICK i, j : i = PayerLink(n, s) /\ j = PayeeLink(n, s)
      OBVIOUS
    <3>2. i \in Link /\ j \in Link
      BY <1>1, <1>2, <2>1, <2>3, <3>1 DEF PayerLink, PayeeLink
    <3>3. sent[i] \o <<>> = sent[i] /\ sent[j] \o <<>> = sent[j]
      BY <3>2 DEF Base, TypeOK
    <3>4. sent' = [sent EXCEPT ![i] = sent[i], ![j] = sent[j]]
      BY <2>7, <3>1, <3>2, <3>3 DEF Base, TypeOK
    <3> QED BY <3>2, <3>4 DEF Base, TypeOK
  <2>9. task' \in [Node -> Tasks] /\ MdTask(n, s)
    BY <1>1, <1>2, <1>8, <2>1, <2>3, <2>7, <2>8, FinalizeEffect
  <2>10. Shape
    BY <1>7, <1>8, <2>7, <2>8, <2>9 DEF Shape
  <2>11. MediatorSees(n)
    <3>1. /\ n \in Mediators /\ task[n].type = "mediator"
          /\ KeptBut({}, {}, {}) /\ NoticesKept
          /\ MdTask(n, MdState(task[n], task[n].payerState, task[n].payeeState, TRUE))
      BY <1>1, <1>2, <1>7, <1>8, <1>10, <2>2, <2>12, <2>7, <2>8, <2>9
    <3>2. mined <= task[n].lock.expiration =>
            /\ ourState'[<<n, task[n].payee>>].balanceProof.nonce = 1 =>
                 IsSecretKnownOnChain(ourState'[<<n, task[n].payee>>], secretHash)
            /\ partnerState'[<<n, task[n].payer>>].balanceProof.nonce = 1 =>
                 IsSecretKnownOnChain(partnerState'[<<n, task[n].payer>>], secretHash)
      BY <1>1, <1>2, <1>5, <1>6, <1>10, <2>7
    <3> QED BY <3>1, <3>2 DEF MediatorSees
  <2> QED BY <2>10, <2>11
<1> QED BY <1>2, <1>9, <1>10

\* A mediator is paid by its payer.
MediatorIsPaid(l, m) ==
  /\ l \in Link /\ l[2] \in Mediators /\ task[l[2]].type = "mediator"
  /\ l[1] = task[l[2]].payer
  /\ m \in Ends(l) /\ m.type = "Unlock" /\ RecTakes(l, m)
  /\ KeptBut({}, {l}, {}) /\ NoticesKept
  /\ MdTask(l[2], MdState(task[l[2]], "payer_balance_proof", task[l[2]].payeeState,
                          task[l[2]].secretKnown))

\* handleUnlock.
LEMMA MediatorUnlockEffect ==
  ASSUME Base, NEW l \in Link, NEW m \in Range(sent[l]), m.type = "Unlock",
         handleUnlock(l[2], l[1], m)
  PROVE  Shape /\ (Idle \/ MediatorIsPaid(l, m))
<1>1. PICK n, p, t, r : n = l[2] /\ p = l[1] /\ t = task[n] /\ r = <<n, t.payer>>
  OBVIOUS
<1>2. n \in Node /\ t.type \in {"mediator", "waiting"} /\ l = <<p, n>> /\ Mirror(l) = <<n, p>>
  BY <1>1, LinkFacts DEF handleUnlock
<1>3. CASE ~(/\ t.type = "mediator" /\ p = t.payer
             /\ IsValidUnlock(m.bp, secretHash, partnerState[r], TRUE))
  <2>1. UNCHANGED <<nodeVars, sent>>
    BY <1>1, <1>3 DEF handleUnlock, PayerLink
  <2> QED BY <1>2, <2>1, IdleStep DEF nodeVars
<1>4. CASE /\ t.type = "mediator" /\ p = t.payer
           /\ IsValidUnlock(m.bp, secretHash, partnerState[r], TRUE)
  <2>1. /\ r = Mirror(l) /\ n \in Mediators /\ <<t.payer, n>> \in Link
    BY <1>1, <1>2, <1>4, MediatorFacts
  <2>2. PICK e : e = WithUnlock(partnerState[r], m.bp, GetLock(partnerState[r], secretHash))
    OBVIOUS
  <2>3. PICK x, y, z, v : /\ x = t.payerState /\ y = t.payeeState /\ z = t.secretKnown
                          /\ v = "payer_balance_proof"
    OBVIOUS
  <2>4. PICK d : d = t
    OBVIOUS
  <2>5. t = MdState(d, x, y, z)
    BY <1>1, <1>2, <1>4, <2>3, <2>4, PairSelf
  <2>6. [t EXCEPT !.payerState = v] = MdState(d, v, y, z)
    BY ONLY <2>5, MdSetPayer
  <2>7. PICK s : s = MdState(d, v, y, z)
    OBVIOUS
  <2>8. /\ partnerState' = [partnerState EXCEPT ![r] = e] /\ clearIfFinalized(n, s)
        /\ UNCHANGED <<ourState, sent, notices>>
    BY <1>1, <1>2, <1>4, <2>2, <2>3, <2>6, <2>7 DEF handleUnlock, PayerLink
  <2>9. /\ <<n, t.payee>> \in Link /\ x \in PayerStates /\ y \in PayeeStates /\ z \in BOOLEAN
        /\ v \in PayerStates
    BY <1>1, <1>2, <1>4, <2>3, PairFacts DEF PayerStates
  <2>10. s \in Tasks /\ s.type = "mediator" /\ s.payer = t.payer /\ s.payee = t.payee
    BY <1>1, <1>2, <1>4, <2>4, <2>7, <2>9, PairTyped
  <2>11. /\ m \in Ends(l) /\ Good(e) /\ e.balanceProof = m.bp
         /\ m.bp.nonce = partnerState[r].balanceProof.nonce + 1
    BY <1>4, <2>1, <2>2, TakeUnlock
  <2>12. /\ RecTakes(l, m) /\ KeptBut({}, {l}, {})
         /\ ourState' \in [Link -> EndStates] /\ partnerState' \in [Link -> EndStates]
         /\ sent' \in [Link -> Seq(Message)]
         /\ \A k \in Link : Len(sent[k]) <= Len(sent'[k])
    BY <2>1, <2>8, <2>11, TakeEffect
  <2>13. StepsOK
    <3>1. RecStep(l)
      BY <2>12 DEF RecStep
    <3> QED BY <2>12, <3>1, KeptSteps
  <2>14. task' \in [Node -> Tasks] /\ MdTask(n, s)
    BY <1>2, <2>1, <2>8, <2>9, <2>10, <2>13, FinalizeEffect
  <2>15. notices' \in [Node -> SUBSET Notice] /\ NoticesKept
    BY <1>2, <2>8, TellNone
  <2>16. Shape
    BY <2>12, <2>14, <2>15 DEF Shape
  <2>17. MediatorIsPaid(l, m)
    <3>1. MdTask(n, MdState(t, "payer_balance_proof", t.payeeState, t.secretKnown))
      BY <2>3, <2>4, <2>7, <2>14
    <3> QED BY <1>1, <1>4, <2>1, <2>11, <2>12, <2>15, <3>1 DEF MediatorIsPaid
  <2> QED BY <2>16, <2>17
<1> QED BY <1>3, <1>4

\* The payer takes its lock back, or says so and the mediator does not agree.
MediatorLoses(l, m) ==
  /\ l \in Link /\ l[2] \in Mediators /\ task[l[2]].type \in {"mediator", "waiting"}
  /\ l[1] = task[l[2]].payer
  /\ m \in Ends(l) /\ m.type = "LockExpired" /\ RecTakes(l, m)
  /\ KeptBut({}, {l}, {}) /\ NoticesKept /\ MdTask(l[2], task[l[2]])
MediatorMisses(l, x) ==
  /\ l \in Link /\ l[2] \in Mediators /\ task[l[2]].type = "mediator"
  /\ Sent(l, "LockExpired") /\ KeptBut({}, {}, {}) /\ NoticesKept
  /\ x \in {task[l[2]].payerState, "payer_expired"}
  /\ MdTask(l[2], MdState(task[l[2]], x, task[l[2]].payeeState, task[l[2]].secretKnown))

\* handleLockExpired.
LEMMA MediatorExpiredEffect ==
  ASSUME Base, NEW l \in Link, NEW m \in Range(sent[l]), m.type = "LockExpired",
         handleLockExpired(l[2], l[1], m)
  PROVE  /\ Shape
         /\ \/ MediatorLoses(l, m) \/ WaiterMoves(l[2])
            \/ \E x : MediatorMisses(l, x)
<1>1. PICK n, t, k, r : n = l[2] /\ t = task[n] /\ k = <<t.payer, n>> /\ r = <<n, t.payer>>
  OBVIOUS
<1>2. n \in Node /\ t.type \in {"mediator", "waiting"}
  BY <1>1, LinkFacts DEF handleLockExpired
<1>3. /\ n \in Mediators /\ k \in Link /\ k[1] = t.payer /\ k[2] = n /\ t \in Tasks
      /\ Mirror(k) = r /\ r \in Link
  BY <1>1, <1>2, MediatorFacts
<1>4. PICK e : e = AfterLockExpired(r, l[1], m, block[n])
  OBVIOUS
<1>5. PICK s : s = IF t.type = "mediator" /\ IsLockPending(e, secretHash)
                   THEN [t EXCEPT !.payerState = "payer_expired"] ELSE t
  OBVIOUS
<1>6. /\ partnerState' = [partnerState EXCEPT ![r] = e] /\ ourState' = ourState
      /\ clearIfFinalized(n, s) /\ notices' = notices /\ sent' = sent
  BY <1>1, <1>4, <1>5 DEF handleLockExpired, PayerLink
<1>7. \/ e = partnerState[r]
      \/ /\ k = l /\ m \in Ends(l) /\ Good(e) /\ e.balanceProof = m.bp
         /\ m.bp.nonce = partnerState[r].balanceProof.nonce + 1
         /\ ~IsLockPending(e, secretHash)
  BY <1>1, <1>3, <1>4, AfterExpiry
<1>8. notices' \in [Node -> SUBSET Notice] /\ NoticesKept
  BY <1>2, <1>6, TellNone
<1>9. t.type = "mediator" => <<n, t.payee>> \in Link
  BY <1>1, <1>2, PairFacts
<1>10. CASE k = l /\ m \in Ends(l) /\ Good(e) /\ e.balanceProof = m.bp
            /\ m.bp.nonce = partnerState[r].balanceProof.nonce + 1
            /\ ~IsLockPending(e, secretHash)
  <2>1. /\ RecTakes(l, m) /\ KeptBut({}, {l}, {})
        /\ ourState' \in [Link -> EndStates] /\ partnerState' \in [Link -> EndStates]
        /\ sent' \in [Link -> Seq(Message)]
        /\ \A j \in Link : Len(sent[j]) <= Len(sent'[j])
    BY <1>3, <1>6, <1>10, TakeEffect
  <2>2. StepsOK
    <3>1. RecStep(l)
      BY <2>1 DEF RecStep
    <3> QED BY <2>1, <3>1, KeptSteps
  <2>3. s = t
    BY <1>5, <1>10
  <2>4. task' \in [Node -> Tasks] /\ MdTask(n, t)
    BY <1>1, <1>2, <1>3, <1>6, <1>9, <2>2, <2>3, FinalizeEffect
  <2>5. Shape
    BY <1>8, <2>1, <2>4 DEF Shape
  <2> QED BY <1>1, <1>2, <1>3, <1>8, <1>10, <2>1, <2>4, <2>5 DEF MediatorLoses
<1>11. CASE e = partnerState[r]
  <2>1. partnerState' = partnerState
    BY <1>3, <1>6, <1>11 DEF Base, TypeOK
  <2>2. /\ ourState' \in [Link -> EndStates] /\ partnerState' \in [Link -> EndStates]
        /\ \A j \in Link : OurKept(j) /\ RecKept(j)
        /\ sent' \in [Link -> Seq(Message)]
        /\ \A j \in Link : Len(sent[j]) <= Len(sent'[j]) /\ SentKept(j)
    BY <1>6, <2>1, OurNone, RecNone, SentNone
  <2>3. KeptBut({}, {}, {})
    BY <2>2 DEF KeptBut, SentKept
  <2>4. StepsOK
    BY <2>3, KeptSteps
  <2>5. CASE t.type = "waiting"
    <3>1. s = t
      BY <1>5, <2>5
    <3>2. task' \in [Node -> Tasks] /\ MdTask(n, t)
      BY <1>1, <1>2, <1>3, <1>6, <1>9, <2>4, <3>1, FinalizeEffect
    <3>3. Shape
      BY <1>8, <2>2, <3>2 DEF Shape
    <3> QED BY <1>1, <1>3, <1>8, <2>3, <2>5, <3>2, <3>3 DEF WaiterMoves
  <2>6. CASE t.type = "mediator"
    <3>1. PICK d, x, y, z, v : /\ d = t /\ x = t.payerState /\ y = t.payeeState
                               /\ z = t.secretKnown /\ v = "payer_expired"
      OBVIOUS
    <3>2. t = MdState(d, x, y, z)
      BY <1>1, <1>2, <2>6, <3>1, PairSelf
    <3>3. [t EXCEPT !.payerState = v] = MdState(d, v, y, z)
      BY ONLY <3>2, MdSetPayer
    <3>4. PICK w \in {x, v} : s = MdState(d, w, y, z)
      BY <1>5, <3>1, <3>2, <3>3
    <3>5. /\ x \in PayerStates /\ v \in PayerStates /\ w \in PayerStates
          /\ y \in PayeeStates /\ z \in BOOLEAN
      BY <1>1, <1>2, <2>6, <3>1, <3>4, PairFacts DEF PayerStates
    <3>6. s \in Tasks /\ s.type = "mediator" /\ s.payer = t.payer /\ s.payee = t.payee
      BY <1>1, <1>2, <2>6, <3>1, <3>4, <3>5, PairTyped
    <3>7. task' \in [Node -> Tasks] /\ MdTask(n, s)
      BY <1>1, <1>2, <1>3, <1>6, <1>9, <2>4, <2>6, <3>6, FinalizeEffect
    <3>8. Shape
      BY <1>8, <2>2, <3>7 DEF Shape
    <3>9. Sent(l, "LockExpired")
      BY DEF Sent
    <3>10. MdTask(n, MdState(t, w, t.payeeState, t.secretKnown))
      BY <3>1, <3>4, <3>7
    <3>11. MediatorMisses(l, w)
      BY <1>1, <1>3, <1>8, <2>3, <2>6, <3>1, <3>4, <3>9, <3>10 DEF MediatorMisses
    <3> QED BY <3>8, <3>11
  <2> QED BY <1>2, <2>5, <2>6
<1> QED BY <1>7, <1>10, <1>11

\* MdHandleRefundTransfer.
LEMMA MediatorRefundEffect ==
  ASSUME Base, NEW n \in Node, MdHandleRefundTransfer(n)
  PROVE  Shape /\ Idle
<1>1. UNCHANGED <<nodeVars, sent>>
  BY DEF MdHandleRefundTransfer
<1> QED BY <1>1, IdleStep DEF nodeVars

\* The locks that are to be taken from a payee: none, or the one of the promise.
LEMMA ToRemove ==
  ASSUME Base, NEW n \in Node, task[n].type = "mediator", NEW b \in Nat,
         NEW t, t = task[n], NEW q, q = <<n, t.payee>>,
         NEW lock \in eventsToRemoveExpiredLocks(n, t, b)
  PROVE  /\ ourState[q].balanceProof.nonce = 1
         /\ ourState[q].balanceProof.locksRoot = {lock}
         /\ ~IsSecretKnownOnChain(ourState[q], lock.secretHash)
         /\ lock.secretHash = secretHash /\ b >= t.lock.expiration
<1>2. /\ lock \in PendingLocks(ourState[q])
      /\ IsLockExpired(ourState[q], lock, b, lock.expiration + 2 * ConfirmBlockCount)
  BY DEF eventsToRemoveExpiredLocks, PayeeLink, LocksOf, PendingLocks
<1>3. /\ q \in Link /\ Promises(q) # {}
      /\ \A x \in Promises(q) : /\ x.lock \in Lock /\ x.lock.secretHash = secretHash
                                /\ x.lock.expiration = t.lock.expiration
  BY PairFacts
<1>4. Good(ourState[q])
  BY <1>3, LinkGood
<1>5. lock \in ourState[q].balanceProof.locksRoot
  BY <1>2, <1>4, PendingIsRoot
<1>6. ourState[q].balanceProof.nonce = 1
  BY <1>3, <1>5, LinkNoLocks
<1>7. PICK x \in Promises(q) : ourState[q].balanceProof.locksRoot = {x.lock}
  BY <1>3, <1>6, LinkLocks
<1>8. lock = x.lock /\ lock.secretHash = secretHash /\ lock.expiration = t.lock.expiration
      /\ lock.expiration \in Nat
  BY <1>3, <1>5, <1>7 DEF Lock
<1>9. b >= lock.expiration
  <2>1. ConfirmBlockCount \in Nat
    BY EndStateAssumption
  <2> QED BY <1>2, <1>8, <2>1 DEF IsLockExpired
<1> QED BY <1>2, <1>6, <1>7, <1>8, <1>9 DEF IsLockExpired

\* A mediator handles a block: x and y are the states of the pair afterwards.
PayeeExpires(n, y) ==
  LET q == <<n, task[n].payee>>
  IN \/ /\ y = "payee_expired" /\ block'[n] >= task[n].lock.expiration
        /\ ~IsSecretKnownOnChain(ourState[q], secretHash)
        /\ \E m : m.type = "LockExpired" /\ OurSettles(q, m)
        /\ KeptBut({q}, {}, {})
     \/ y = task[n].payeeState /\ KeptBut({}, {}, {})
PayerMoves(n, x) ==
  LET rec == partnerState[<<n, task[n].payer>>]
      started == \/ RegisterSecret \/ IsSecretKnownOnChain(rec, secretHash)
                 \/ task[n].payerState = "payer_waiting_secret_reveal"
  IN /\ x \in {task[n].payerState, "payer_waiting_secret_reveal", "payer_expired"}
     /\ x = "payer_waiting_secret_reveal" => started
     /\ x = "payer_expired" => \/ task[n].payerState = "payer_expired"
                               \/ block'[n] >= task[n].lock.expiration
     /\ mineBy' = mineBy \/ (RegisterSecret /\ IsSecretKnown(rec, secretHash))
     /\ /\ block'[n] + RevealTimeout >= task[n].lock.expiration
        /\ IsSecretKnown(rec, secretHash)
        /\ task[n].payerState \notin {"payer_balance_proof", "payer_expired"}
        => started
MediatorTicks(n, x, y) ==
  /\ n \in Mediators /\ task[n].type = "mediator"
  /\ PayeeExpires(n, y) /\ PayerMoves(n, x) /\ NoticesKept
  /\ MdTask(n, MdState(task[n], x, y, task[n].secretKnown))

\* MdHandleBlock.
LEMMA MediatorBlockEffect ==
  ASSUME Base, NEW n \in Node, MdHandleBlock(n), block'[n] \in Nat
  PROVE  Shape /\ \E x, y : MediatorTicks(n, x, y)
<1>1. PICK t, k, q, r, b : /\ t = task[n] /\ k = <<t.payer, n>> /\ q = <<n, t.payee>>
                           /\ r = <<n, t.payer>> /\ b = block'[n]
  OBVIOUS
<1>2. /\ t.type = "mediator" /\ n \in Mediators /\ t \in Tasks /\ k \in Link
      /\ Mirror(k) = r /\ r \in Link /\ b \in Nat
  BY <1>1, MediatorFacts DEF MdHandleBlock
<1>3. /\ q \in Link /\ t.payerState \in PayerStates /\ t.payeeState \in PayeeStates
      /\ t.secretKnown \in BOOLEAN /\ t.lock.expiration \in Nat /\ Promises(q) # {}
  BY <1>1, <1>2, PairFacts
<1>4. PICK d, px, py, z : /\ d = t /\ px = t.payerState /\ py = t.payeeState
                          /\ z = t.secretKnown
  OBVIOUS
<1>5. t = MdState(d, px, py, z)
  BY <1>1, <1>2, <1>4, PairSelf
<1>6. PICK locks : locks = eventsToRemoveExpiredLocks(n, t, b)
  OBVIOUS
<1>7. PICK lock, bp : /\ lock = CHOOSE j \in locks : TRUE
                      /\ bp = createSendExpiredLock(ourState[q], lock)
  OBVIOUS
<1>8. PICK v, w, u : v = "payee_expired" /\ w = "payer_waiting_secret_reveal"
                     /\ u = "payer_expired"
  OBVIOUS
<1>9. PICK y : y = IF locks # {} THEN v ELSE py
  OBVIOUS
<1>10. PICK t1 : t1 = IF locks # {} THEN [t EXCEPT !.payeeState = v] ELSE t
  OBVIOUS
<1>11. t1 = MdState(d, px, y, z)
  <2>1. [t EXCEPT !.payeeState = v] = MdState(d, px, v, z)
    BY ONLY <1>5, MdSetPayee
  <2> QED BY <1>5, <1>9, <1>10, <2>1
<1>12. PICK x1 : x1 = IF eventsForOnChainSecretRevealIfDangerzone(n, t1, b) THEN w ELSE px
  OBVIOUS
<1>13. PICK t2 : t2 = IF eventsForOnChainSecretRevealIfDangerzone(n, t1, b)
                      THEN [t1 EXCEPT !.payerState = w] ELSE t1
  OBVIOUS
<1>14. t2 = MdState(d, x1, y, z)
  <2>1. [t1 EXCEPT !.payerState = w] = MdState(d, w, y, z)
    BY ONLY <1>11, MdSetPayer
  <2> QED BY <1>11, <1>12, <1>13, <2>1
<1>15. PICK o : o = ourState'[r]
  OBVIOUS
<1>16. PICK x : x = IF eventsForExpiredPairs(t2, o, b) THEN u ELSE x1
  OBVIOUS
<1>17. PICK s : s = IF eventsForExpiredPairs(t2, o, b)
                    THEN [t2 EXCEPT !.payerState = u] ELSE t2
  OBVIOUS
<1>18. s = MdState(d, x, y, z)
  <2>1. [t2 EXCEPT !.payerState = u] = MdState(d, u, y, z)
    BY ONLY <1>14, MdSetPayer
  <2> QED BY <1>14, <1>16, <1>17, <2>1
<1>19. /\ IF locks # {}
          THEN /\ ourState' = [ourState EXCEPT ![q] = WithoutExpired(@, bp, lock)]
               /\ Send(q, [type |-> "LockExpired", bp |-> bp])
          ELSE UNCHANGED <<ourState, sent>>
       /\ IF /\ eventsForOnChainSecretRevealIfDangerzone(n, t1, b)
             /\ ~MdHasSecretRegistrationStarted(n, t)
          THEN RegisterSecret ELSE UNCHANGED mineBy
       /\ partnerState' = partnerState
       /\ Tell(n, {"UnlockClaimFailed"}) \/ Tell(n, {})
       /\ clearIfFinalized(n, s)
  BY <1>1, <1>6, <1>7, <1>8, <1>10, <1>13, <1>15, <1>17
     DEF MdHandleBlock, PayerLink, PayeeLink
<1>20. notices' \in [Node -> SUBSET Notice] /\ NoticesKept
  BY <1>19, TellNone
<1>21. partnerState' \in [Link -> EndStates] /\ \A j \in Link : RecKept(j)
  BY <1>19, RecNone
<1>22. /\ PayeeExpires(n, y) /\ StepsOK
       /\ ourState' \in [Link -> EndStates] /\ sent' \in [Link -> Seq(Message)]
       /\ \A j \in Link : Len(sent[j]) <= Len(sent'[j])
  <2>1. CASE locks = {}
    <3>1. /\ ourState' \in [Link -> EndStates] /\ \A j \in Link : OurKept(j)
          /\ sent' \in [Link -> Seq(Message)]
          /\ \A j \in Link : Len(sent[j]) <= Len(sent'[j]) /\ SentKept(j)
      BY <1>19, <2>1, OurNone, SentNone
    <3>2. KeptBut({}, {}, {})
      BY <1>21, <3>1 DEF KeptBut, SentKept
    <3>3. StepsOK
      BY <3>2, KeptSteps
    <3> QED BY <1>1, <1>4, <1>9, <2>1, <3>1, <3>2, <3>3 DEF PayeeExpires
  <2>2. CASE locks # {}
    <3>1. /\ ourState[q].balanceProof.nonce = 1
          /\ ourState[q].balanceProof.locksRoot = {lock}
          /\ ~IsSecretKnownOnChain(ourState[q], lock.secretHash)
          /\ lock.secretHash = secretHash /\ b >= t.lock.expiration
      <4>1. lock \in eventsToRemoveExpiredLocks(n, t, b)
        BY <1>6, <1>7, <2>2
      <4> QED BY <1>1, <1>2, <4>1, ToRemove
    <3>2. PICK e : e = WithoutExpired(ourState[q], bp, lock)
      OBVIOUS
    <3>3. Good(ourState[q])
      BY <1>3, LinkGood
    <3>4. /\ bp \in BalanceProof /\ bp.nonce = 2 /\ bp.locksRoot = {} /\ Good(e)
          /\ e.balanceProof = bp
      <4>1. PICK our : our = ourState[q]
        OBVIOUS
      <4>2. /\ Good(our) /\ our.balanceProof.nonce = 1
            /\ our.balanceProof.locksRoot = {lock}
            /\ ~IsSecretKnownOnChain(our, lock.secretHash)
            /\ bp = createSendExpiredLock(our, lock) /\ e = WithoutExpired(our, bp, lock)
        BY <1>7, <3>1, <3>2, <3>3, <4>1
      <4> QED BY ONLY <4>2, ExpireEnd
    <3>5. PICK m : m = [type |-> "LockExpired", bp |-> bp]
      OBVIOUS
    <3>6. ourState' = [ourState EXCEPT ![q] = e] /\ Send(q, m)
      BY <1>19, <2>2, <3>2, <3>5
    <3>7. /\ OurSettles(q, m) /\ m.type = "LockExpired"
          /\ ourState' \in [Link -> EndStates] /\ sent' \in [Link -> Seq(Message)]
          /\ \A j \in Link : /\ Len(sent[j]) <= Len(sent'[j])
                             /\ j # q => OurKept(j) /\ SentKept(j)
          /\ RevealKept(q)
      BY <1>3, <3>1, <3>4, <3>5, <3>6, SendEnd
    <3>8. KeptBut({q}, {}, {})
      BY <1>21, <3>7 DEF KeptBut, SentKept
    <3>9. StepsOK
      <4>1. OurStep(q)
        BY <3>7 DEF OurStep
      <4> QED BY <3>8, <4>1, KeptSteps
    <3>10. PayeeExpires(n, y)
      BY <1>1, <1>8, <1>9, <2>2, <3>1, <3>7, <3>8 DEF PayeeExpires
    <3> QED BY <3>7, <3>9, <3>10
  <2> QED BY <2>1, <2>2
<1>23. /\ x1 \in PayerStates /\ x \in PayerStates /\ y \in PayeeStates /\ z \in BOOLEAN
       /\ px \in PayerStates
  BY <1>3, <1>4, <1>8, <1>9, <1>12, <1>16 DEF PayerStates, PayeeStates
<1>24. /\ s \in Tasks /\ s.type = "mediator" /\ s.payer = t.payer /\ s.payee = t.payee
  BY <1>1, <1>2, <1>4, <1>18, <1>23, PairTyped
<1>25. task' \in [Node -> Tasks] /\ MdTask(n, s)
  BY <1>1, <1>2, <1>3, <1>19, <1>22, <1>24, FinalizeEffect
<1>26. /\ t1.payerState = px /\ t1.payeeState = y /\ t1.lock = t.lock /\ t1.payer = t.payer
       /\ t2.lock = t.lock
  <2>1. t1.payerState = px /\ t1.payeeState = y /\ t1.lock = d.lock /\ t1.payer = d.payer
    BY ONLY <1>11, MdGet
  <2>2. t2.lock = d.lock
    BY ONLY <1>14, MdGet
  <2> QED BY <1>4, <2>1, <2>2
<1>27. PICK rec : rec = partnerState[r]
  OBVIOUS
<1>28. /\ eventsForOnChainSecretRevealIfDangerzone(n, t1, b) => IsSecretKnown(rec, secretHash)
       /\ /\ b + RevealTimeout >= t.lock.expiration /\ IsSecretKnown(rec, secretHash)
          /\ px \notin {"payer_balance_proof", "payer_expired"}
          => eventsForOnChainSecretRevealIfDangerzone(n, t1, b)
  <2>1. MdIsSafeToWait(t.lock, b) <=> b + RevealTimeout < t.lock.expiration
    BY <1>2, <1>3, SafeIsEarly
  <2>2. RevealTimeout \in Nat
    BY MediationAssumption
  <2>3. px \notin {"payer_balance_proof", "payer_expired"} => GetPendingTransferPairs(t1)
    BY <1>23, <1>26 DEF GetPendingTransferPairs, STATE_TRANSFER_FINAL, PayerStates
  <2>4. b + RevealTimeout >= t.lock.expiration => ~MdIsSafeToWait(t1.lock, b)
    BY <1>2, <1>3, <1>26, <2>1, <2>2
  <2>5. partnerState[PayerLink(n, t1)] = rec
    BY <1>1, <1>26, <1>27 DEF PayerLink
  <2> QED BY <2>3, <2>4, <2>5 DEF eventsForOnChainSecretRevealIfDangerzone
<1>29. eventsForExpiredPairs(t2, o, b) => b >= t.lock.expiration
  <2>1. ConfirmBlockCount \in Nat
    BY EndStateAssumption
  <2>2. eventsForExpiredPairs(t2, o, b) => b >= t2.lock.expiration + 2 * ConfirmBlockCount
    BY DEF eventsForExpiredPairs, IsLockExpired
  <2> QED BY <1>2, <1>3, <1>26, <2>1, <2>2
<1>30. PayerMoves(n, x)
  <2>1. MdHasSecretRegistrationStarted(n, t) <=>
          IsSecretKnownOnChain(rec, secretHash) \/ t.payerState = "payer_waiting_secret_reveal"
    BY <1>1, <1>27 DEF MdHasSecretRegistrationStarted, PayerLink
  <2>2. eventsForOnChainSecretRevealIfDangerzone(n, t1, b) =>
          \/ RegisterSecret \/ IsSecretKnownOnChain(rec, secretHash)
          \/ t.payerState = "payer_waiting_secret_reveal"
    BY <1>19, <2>1
  <2>3. mineBy' = mineBy \/ (RegisterSecret /\ IsSecretKnown(rec, secretHash))
    BY <1>19, <1>28
  <2>4. /\ x \in {t.payerState, "payer_waiting_secret_reveal", "payer_expired"}
        /\ x = "payer_waiting_secret_reveal" =>
             \/ eventsForOnChainSecretRevealIfDangerzone(n, t1, b)
             \/ t.payerState = "payer_waiting_secret_reveal"
        /\ x = "payer_expired" => t.payerState = "payer_expired" \/ b >= t.lock.expiration
    BY <1>4, <1>8, <1>12, <1>16, <1>29
  <2> QED BY <1>1, <1>4, <1>27, <1>28, <2>2, <2>3, <2>4 DEF PayerMoves
<1>31. Shape
  BY <1>20, <1>21, <1>22, <1>25 DEF Shape
<1>32. MediatorTicks(n, x, y)
  <2>1. MdTask(n, MdState(task[n], x, y, task[n].secretKnown))
    BY <1>1, <1>4, <1>18, <1>25
  <2> QED BY <1>1, <1>2, <1>20, <1>22, <1>30, <2>1 DEF MediatorTicks
<1> QED BY <1>31, <1>32

\* MdHandleBlockWaiting.
LEMMA WaiterBlockEffect ==
  ASSUME Base, NEW n \in Node, MdHandleBlockWaiting(n)
  PROVE  Shape /\ WaiterMoves(n) /\ mineBy' = mineBy
<1>1. PICK t, k, s : /\ t = task[n] /\ k = <<t.payer, n>>
                     /\ s = [t EXCEPT !.state = "expired"]
  OBVIOUS
<1>2. /\ t.type = "waiting" /\ n \in Mediators /\ t \in Tasks /\ k \in Link
  BY <1>1, MediatorFacts DEF MdHandleBlockWaiting
<1>3. s \in Tasks /\ s.type = "waiting" /\ s.payer = t.payer /\ s.lock = t.lock
  <2>1. t \in [type : {"waiting"}, payer : Node, lock : Lock,
               state : {"waiting", "expired"}]
    BY <1>2 DEF Tasks, NoTask
  <2>2. s \in [type : {"waiting"}, payer : Node, lock : Lock,
               state : {"waiting", "expired"}]
        /\ s.payer = t.payer /\ s.lock = t.lock
    BY <1>1, <2>1
  <2> QED BY <2>2 DEF Tasks
<1>4. /\ ourState' = ourState /\ partnerState' = partnerState /\ sent' = sent
      /\ mineBy' = mineBy /\ clearIfFinalized(n, s)
      /\ Tell(n, {"UnlockClaimFailed"}) \/ Tell(n, {})
  BY <1>1 DEF MdHandleBlockWaiting, endVars
<1>5. notices' \in [Node -> SUBSET Notice] /\ NoticesKept
  BY <1>4, TellNone
<1>6. /\ ourState' \in [Link -> EndStates] /\ partnerState' \in [Link -> EndStates]
      /\ \A j \in Link : OurKept(j) /\ RecKept(j)
      /\ sent' \in [Link -> Seq(Message)]
      /\ \A j \in Link : Len(sent[j]) <= Len(sent'[j]) /\ SentKept(j)
  BY <1>4, OurNone, RecNone, SentNone
<1>7. KeptBut({}, {}, {})
  BY <1>6 DEF KeptBut, SentKept
<1>8. StepsOK
  BY <1>7, KeptSteps
<1>9. task' \in [Node -> Tasks] /\ MdTask(n, s)
  BY <1>1, <1>2, <1>3, <1>4, <1>8, FinalizeEffect
<1>10. Shape
  BY <1>5, <1>6, <1>9 DEF Shape
<1> QED BY <1>1, <1>2, <1>3, <1>4, <1>5, <1>7, <1>9, <1>10 DEF WaiterMoves

-----------------------------------------------------------------------------
(* What every step leaves of the invariant.                                *)

\* The path of the transfers, as a part of the invariant of its own.
Path == TransferOrigin /\ TransferOrder /\ PromiseOrigin

\* What every step does: links make their steps, clocks do not go back.
Clocks ==
  /\ deposit' = deposit
  /\ block' \in [Node -> Nat] /\ \A n \in Node : block[n] <= block'[n]
  /\ received' \in [Link -> Nat] /\ \A l \in Link : received'[l] <= Len(sent'[l])
  /\ seen' \in [Node -> BOOLEAN] /\ height' \in Nat /\ mined' \in Nat /\ mineBy' \in Nat
Onward == Shape /\ StepsOK /\ Clocks

\* Types and books.
LEMMA OnwardBase ==
  ASSUME Base, Onward
  PROVE  TypeOK' /\ BooksAgree' /\ LinkInv'
<1>1. \A l \in Link : /\ LinkOK(l)' /\ Good(ourState'[l]) /\ Good(partnerState'[Mirror(l)])
  BY PendingAfter DEF Onward
<1>2. TypeOK'
  BY DEF Base, TypeOK, Onward, Clocks, Shape
<1>3. \A l \in Link : Books(ourState'[l]) /\ Books(partnerState'[Mirror(l)])
  BY <1>1 DEF Good
<1>4. \A l \in Link : Books(partnerState'[l])
  BY <1>3, LinkFacts
<1>5. BooksAgree'
  BY <1>3, <1>4 DEF BooksAgree
<1>6. LinkInv'
  BY <1>1 DEF Onward, Clocks, LinkInv
<1> QED BY <1>2, <1>5, <1>6

\* What was promised and accepted stays so.
LEMMA LinkOnward ==
  ASSUME Base, StepsOK, NEW l \in Link
  PROVE  /\ Promises(l) \subseteq Promises(l)' /\ Transfers(l) \subseteq Transfers(l)'
         /\ Transfers(l)' \subseteq Promises(l)'
         /\ Ends(l) \subseteq Ends(l)'
         /\ Promises(l) # {} => Promises(l)' = Promises(l) /\ Transfers(l)' = Transfers(l)
         /\ Ends(l) # {} => Ends(l)' = Ends(l)
         /\ Accepted(l) => Accepted(l)' /\ Promises(l) # {}
         /\ partnerState[Mirror(l)].balanceProof.nonce
              <= partnerState'[Mirror(l)].balanceProof.nonce
         /\ ourState[l].balanceProof.nonce <= ourState'[l].balanceProof.nonce
<1>1. OurStep(l) /\ RecStep(l) /\ LinkOK(l)
  BY LinkGood DEF StepsOK
<1>2. /\ Promises(l) \subseteq Promises(l)' /\ Ends(l) \subseteq Ends(l)'
      /\ ourState[l].balanceProof.nonce # 0 => Promises(l)' = Promises(l)
      /\ ourState[l].balanceProof.nonce = 2 => Ends(l)' = Ends(l)
      /\ ourState[l].balanceProof.nonce <= ourState'[l].balanceProof.nonce
  BY <1>1, OurStepOK
<1>3. /\ Transfers(l) = {m \in Promises(l) : m.type = "LockedTransfer"}
      /\ Transfers(l)' = {m \in Promises(l)' : m.type = "LockedTransfer"}
  BY DEF Transfers, Promises
<1>4. /\ Promises(l) # {} <=> ourState[l].balanceProof.nonce # 0
      /\ Ends(l) # {} <=> ourState[l].balanceProof.nonce = 2
      /\ partnerState[Mirror(l)].balanceProof.nonce \in {0, 1, 2}
      /\ ourState[l].balanceProof.nonce \in {0, 1, 2}
      /\ partnerState[Mirror(l)].balanceProof.nonce <= ourState[l].balanceProof.nonce
  BY LinkGood
<1>5. partnerState[Mirror(l)].balanceProof.nonce
        <= partnerState'[Mirror(l)].balanceProof.nonce
  BY <1>1, <1>4 DEF RecStep, RecKept, Kept, RecTakes
<1>6. partnerState'[Mirror(l)].balanceProof.nonce \in {0, 1, 2}
  BY PendingAfter
<1>7. Accepted(l) => Accepted(l)' /\ Promises(l) # {}
  BY <1>4, <1>5, <1>6 DEF Accepted
<1> QED BY <1>2, <1>3, <1>4, <1>5, <1>7

\* What a task got it keeps.
LEMMA GotOnward ==
  ASSUME Base, StepsOK, NEW l, NEW lock, Got(l, lock)
  PROVE  Got(l, lock)'
BY LinkOnward DEF Got

\* An origin stays an origin.
LEMMA OriginOnward ==
  ASSUME Base, StepsOK, NEW l \in Link, NEW m, Origin(l, m)
  PROVE  Origin(l, m)'
<1>1. ASSUME NEW k \in Link
      PROVE  /\ Accepted(k) => Accepted(k)'
             /\ Transfers(k) \subseteq Transfers(k)'
  BY LinkOnward
<1> QED BY <1>1 DEF Origin

\* No promise, and the path is what it was.
LEMMA SamePath ==
  ASSUME Base, StepsOK, \A l \in Link : PromisesKept(l)
  PROVE  Path'
<1>1. TransferOrigin'
  BY OriginOnward DEF Base, TransferOrigin, PromisesKept
<1>2. TransferOrder'
  BY DEF Base, TransferOrder, PromisesKept
<1>3. PromiseOrigin'
  <2>1. \A l \in Link : /\ Promises(l)' = Promises(l) /\ Transfers(l)' = Transfers(l)
                        /\ Accepted(l) => Accepted(l)'
                        /\ Transfers(Mirror(l))' = Transfers(Mirror(l))
    BY LinkOnward, LinkFacts DEF PromisesKept
  <2> QED BY <2>1 DEF Base, PromiseOrigin
<1> QED BY <1>1, <1>2, <1>3 DEF Path

\* The first transfer is a path.
LEMMA StartPath ==
  ASSUME Base, StepsOK, NEW l, NEW m, Starts(l, m)
  PROVE  Path'
<1>1. /\ l \in Link /\ l[1] = Initiator /\ l[2] # Initiator /\ Initiator # Target
      /\ Initiator \notin Mediators
  BY LinkFacts, NodeFacts DEF Starts
<1>2. Promises(l)' = {m} /\ Transfers(l)' = {m}
  BY <1>1 DEF Starts, NothingSent, OurPromises, SentPromise, Transfers, Promises
<1>3. \A k \in Link : k # l => Promises(k)' = {} /\ Transfers(k)' = {}
  BY <1>1 DEF Starts, NothingSent, KeptBut, PromisesKept, Transfers, Promises
<1>4. m.type = "LockedTransfer" /\ m.mediators = {}
  BY DEF Starts
<1>5. Origin(l, m)'
  BY <1>1, <1>4 DEF Origin
<1>6. TransferOrigin'
  BY <1>2, <1>3, <1>5 DEF TransferOrigin
<1>7. TransferOrder'
  <2> SUFFICES ASSUME NEW j \in Link, NEW k \in Link,
                      NEW x \in Transfers(j)', NEW y \in Transfers(k)'
               PROVE  /\ j = k \/ j[2] \in y.mediators \/ k[2] \in x.mediators
                      /\ j[2] \in y.mediators => x.mediators \subseteq y.mediators
                      /\ x.lock.expiration = y.lock.expiration
    BY DEF TransferOrder
  <2>1. j = l /\ k = l /\ x = m /\ y = m
    BY <1>2, <1>3
  <2> QED BY <2>1, <1>4
<1>8. PromiseOrigin'
  BY <1>1, <1>2, <1>3, <1>4 DEF PromiseOrigin
<1> QED BY <1>6, <1>7, <1>8 DEF Path

\* A transfer that is passed on makes the path one longer.
LEMMA ForwardPath ==
  ASSUME Base, StepsOK, NEW l, NEW m, NEW k, NEW x, MediatorForwards(l, m, k, x)
  PROVE  Path'
<1>1. /\ l \in Link /\ k \in Link /\ m \in Transfers(l) /\ RecTakes(l, m)
      /\ l[2] \in Mediators /\ k[1] = l[2] /\ k[2] # Initiator /\ k[2] \notin m.mediators
      /\ x.type = "LockedTransfer" /\ x.mediators = m.mediators \cup {l[2]}
      /\ x.lock.expiration = m.lock.expiration
      /\ OurPromises(k, x) /\ KeptBut({k}, {l}, {})
      /\ \A j \in Link : j[1] = l[2] => Promises(j) = {}
  BY DEF MediatorForwards, MediatorTakes
<1>2. Promises(k)' = {x} /\ Transfers(k)' = {x}
  <2>1. Promises(k) = {} /\ Transfers(k) = {}
    BY <1>1, LinkGood
  <2> QED BY <1>1, <2>1 DEF OurPromises, SentPromise
<1>3. \A j \in Link : j # k => Promises(j)' = Promises(j) /\ Transfers(j)' = Transfers(j)
  BY <1>1 DEF KeptBut, PromisesKept
<1>4. /\ l # k /\ l[2] # Target /\ l[2] # Initiator /\ k[1] # k[2]
  BY <1>1, NodeFacts, LinkFacts
<1>5. Accepted(l)' /\ m \in Transfers(l)'
  <2>1. partnerState'[Mirror(l)].balanceProof = m.bp /\ m.bp.nonce = 1
    BY <1>1, LinkGood DEF RecTakes, LinkOK
  <2> QED BY <1>1, <1>3, <1>4, <2>1 DEF Accepted
<1>6. Origin(l, m)
  BY <1>1 DEF Base, TransferOrigin
<1>7. Origin(k, x)'
  <2>1. /\ k[1] # Target /\ k[2] # Initiator /\ k[2] \notin x.mediators
        /\ x.mediators \subseteq Mediators /\ k[1] # Initiator
    BY <1>1, <1>4, <1>6 DEF Origin
  <2>2. \A n \in x.mediators : \E j \in Link : j[1] = n /\ Transfers(j)' # {}
    <3> TAKE n \in x.mediators
    <3>1. CASE n = l[2]
      BY <1>1, <1>2, <3>1
    <3>2. CASE n \in m.mediators
      <4>1. PICK j \in Link : j[1] = n /\ Transfers(j) # {}
        BY <1>6, <3>2 DEF Origin
      <4>2. Transfers(j)' # {}
        BY <1>2, <1>3, <4>1
      <4> QED BY <4>1, <4>2
    <3> QED BY <1>1, <3>1, <3>2
  <2>3. \E j \in Link : \E y \in Transfers(j)' :
          /\ j[2] = k[1] /\ Accepted(j)'
          /\ x.mediators = y.mediators \cup {k[1]}
          /\ x.lock.expiration = y.lock.expiration
    BY <1>1, <1>5
  <2> QED BY <2>1, <2>2, <2>3 DEF Origin
<1>8. TransferOrigin'
  <2>1. ASSUME NEW j \in Link, NEW y \in Transfers(j)', j # k
        PROVE  Origin(j, y)'
    <3>1. Origin(j, y)
      BY <1>3, <2>1 DEF Base, TransferOrigin
    <3> QED BY <3>1, OriginOnward
  <2>2. \A y \in Transfers(k)' : Origin(k, y)'
    BY <1>2, <1>7
  <2> QED BY <2>1, <2>2 DEF TransferOrigin
<1>9. ASSUME NEW j \in Link, NEW y \in Transfers(j), j # k
      PROVE  /\ j[2] \in x.mediators /\ y.mediators \subseteq x.mediators
             /\ k[2] \notin y.mediators /\ x.lock.expiration = y.lock.expiration
  <2>1. /\ l = j \/ l[2] \in y.mediators \/ j[2] \in m.mediators
        /\ m.lock.expiration = y.lock.expiration
    BY <1>1 DEF Base, TransferOrder
  <2>2. j[2] \in m.mediators => y.mediators \subseteq m.mediators
    BY <1>1 DEF Base, TransferOrder
  <2>3. l[2] \notin y.mediators
    <3>1. Origin(j, y)
      BY DEF Base, TransferOrigin
    <3>2. l[2] \in y.mediators => \E i \in Link : i[1] = l[2] /\ Transfers(i) # {}
      BY <3>1 DEF Origin
    <3> QED BY <1>1, <3>2, LinkGood
  <2>4. l = j => y = m
    BY <1>1, LinkGood DEF LinkOK
  <2>5. j[2] \in x.mediators /\ y.mediators \subseteq x.mediators
    BY <1>1, <2>1, <2>2, <2>3, <2>4
  <2> QED BY <1>1, <1>4, <2>1, <2>5
<1>10. TransferOrder'
  <2> SUFFICES ASSUME NEW i \in Link, NEW j \in Link,
                      NEW z \in Transfers(i)', NEW y \in Transfers(j)'
               PROVE  /\ i = j \/ i[2] \in y.mediators \/ j[2] \in z.mediators
                      /\ i[2] \in y.mediators => z.mediators \subseteq y.mediators
                      /\ z.lock.expiration = y.lock.expiration
    BY DEF TransferOrder
  <2>1. CASE i # k /\ j # k
    BY <1>3, <2>1 DEF Base, TransferOrder
  <2>2. CASE i = k /\ j = k
    BY <1>2, <2>2
  <2>3. CASE i = k /\ j # k
    <3>1. z = x /\ y \in Transfers(j)
      BY <1>2, <1>3, <2>3
    <3> QED BY <1>9, <2>3, <3>1
  <2>4. CASE i # k /\ j = k
    <3>1. y = x /\ z \in Transfers(i)
      BY <1>2, <1>3, <2>4
    <3> QED BY <1>9, <2>4, <3>1
  <2> QED BY <2>1, <2>2, <2>3, <2>4
<1>11. PromiseOrigin'
  <2>1. \A i, j \in Link : i[1] = j[1] /\ Promises(i)' # {} /\ Promises(j)' # {} => i = j
    BY <1>1, <1>2, <1>3 DEF Base, PromiseOrigin
  <2>2. ASSUME NEW j \in Link, Promises(j)' # {}
        PROVE  /\ j[1] # Target
               /\ j[1] \in Mediators =>
                    \E i \in Link : i[2] = j[1] /\ Transfers(i)' # {} /\ Accepted(i)'
    <3>1. CASE j = k
      BY <1>1, <1>4, <1>5, <3>1
    <3>2. CASE j # k
      <4>1. Promises(j) # {}
        BY <1>3, <2>2, <3>2
      <4>2. j[1] # Target
        BY <4>1 DEF Base, PromiseOrigin
      <4>3. ASSUME j[1] \in Mediators
            PROVE  \E i \in Link : i[2] = j[1] /\ Transfers(i)' # {} /\ Accepted(i)'
        <5>1. PICK i \in Link : i[2] = j[1] /\ Transfers(i) # {} /\ Accepted(i)
          BY <4>1, <4>3 DEF Base, PromiseOrigin
        <5> QED BY <5>1, LinkOnward
      <4> QED BY <4>2, <4>3
    <3> QED BY <3>1, <3>2
  <2>3. ASSUME NEW j \in Link, NEW y \in Promises(j)', y.type # "LockedTransfer"
        PROVE  /\ Transfers(Mirror(j))' # {} /\ j[1] \in Mediators
               /\ \A z \in Transfers(Mirror(j))' : y.lock.expiration = z.lock.expiration
    <3>1. j # k /\ y \in Promises(j)
      BY <1>1, <1>2, <1>3, <2>3
    <3>2. /\ Transfers(Mirror(j)) # {} /\ j[1] \in Mediators
          /\ \A z \in Transfers(Mirror(j)) : y.lock.expiration = z.lock.expiration
      BY <2>3, <3>1 DEF Base, PromiseOrigin
    <3>3. Mirror(j) \in Link /\ Promises(Mirror(j)) # {}
      BY <3>2, LinkFacts, LinkGood
    <3>4. Transfers(Mirror(j))' = Transfers(Mirror(j))
      BY <3>3, LinkOnward
    <3> QED BY <3>2, <3>4
  <2> QED BY <2>1, <2>2, <2>3 DEF PromiseOrigin
<1> QED BY <1>8, <1>10, <1>11 DEF Path

\* A refund leaves the path alone.
LEMMA RefundPath ==
  ASSUME Base, StepsOK, NEW l, NEW m, NEW x, MediatorRefunds(l, m, x)
  PROVE  Path'
<1> DEFINE k == Mirror(l)
<1>1. /\ l \in Link /\ m \in Transfers(l) /\ RecTakes(l, m)
      /\ l[2] \in Mediators
      /\ x.type = "RefundTransfer" /\ x.lock = m.lock
      /\ OurPromises(k, x) /\ KeptBut({k}, {l}, {})
      /\ \A j \in Link : j[1] = l[2] => Promises(j) = {}
  BY DEF MediatorRefunds, MediatorTakes
<1>2. k \in Link /\ k[1] = l[2] /\ k[2] = l[1] /\ Mirror(k) = l /\ k # l
  BY <1>1, LinkFacts
<1> HIDE DEF k
<1>3. Promises(k)' = {x} /\ Transfers(k)' = {} /\ Transfers(k) = {}
  <2>1. Promises(k) = {} /\ Transfers(k) = {}
    BY <1>1, <1>2, LinkGood
  <2> QED BY <1>1, <2>1 DEF OurPromises, SentPromise
<1>4. \A j \in Link : /\ j # k => Promises(j)' = Promises(j)
                      /\ Transfers(j)' = Transfers(j)
  BY <1>1, <1>3 DEF KeptBut, PromisesKept
<1>5. Accepted(l)' /\ m \in Transfers(l)'
  <2>1. partnerState'[Mirror(l)].balanceProof = m.bp /\ m.bp.nonce = 1
    BY <1>1, LinkGood DEF RecTakes, LinkOK
  <2> QED BY <1>1, <1>4, <2>1 DEF Accepted
<1>6. TransferOrigin'
  BY <1>4, OriginOnward DEF Base, TransferOrigin
<1>7. TransferOrder'
  BY <1>4 DEF Base, TransferOrder
<1>8. PromiseOrigin'
  <2>1. \A i, j \in Link : i[1] = j[1] /\ Promises(i)' # {} /\ Promises(j)' # {} => i = j
    BY <1>1, <1>2, <1>3, <1>4 DEF Base, PromiseOrigin
  <2>2. ASSUME NEW j \in Link, Promises(j)' # {}
        PROVE  /\ j[1] # Target
               /\ j[1] \in Mediators =>
                    \E i \in Link : i[2] = j[1] /\ Transfers(i)' # {} /\ Accepted(i)'
    <3>1. CASE j = k
      BY <1>1, <1>2, <1>5, <3>1, NodeFacts
    <3>2. CASE j # k
      <4>1. Promises(j) # {}
        BY <1>4, <2>2, <3>2
      <4>2. j[1] # Target
        BY <4>1 DEF Base, PromiseOrigin
      <4>3. ASSUME j[1] \in Mediators
            PROVE  \E i \in Link : i[2] = j[1] /\ Transfers(i)' # {} /\ Accepted(i)'
        <5>1. PICK i \in Link : i[2] = j[1] /\ Transfers(i) # {} /\ Accepted(i)
          BY <4>1, <4>3 DEF Base, PromiseOrigin
        <5> QED BY <5>1, LinkOnward
      <4> QED BY <4>2, <4>3
    <3> QED BY <3>1, <3>2
  <2>3. ASSUME NEW j \in Link, NEW y \in Promises(j)', y.type # "LockedTransfer"
        PROVE  /\ Transfers(Mirror(j))' # {} /\ j[1] \in Mediators
               /\ \A z \in Transfers(Mirror(j))' : y.lock.expiration = z.lock.expiration
    <3>1. Mirror(j) \in Link /\ Transfers(Mirror(j))' = Transfers(Mirror(j))
      BY <1>4, LinkFacts
    <3>2. CASE j = k
      <4>1. y = x /\ \A z \in Transfers(l) : z = m
        BY <1>1, <1>3, <3>2, LinkGood DEF LinkOK
      <4> QED BY <1>1, <1>2, <1>5, <3>1, <3>2, <4>1
    <3>3. CASE j # k
      <4>1. y \in Promises(j)
        BY <1>4, <3>3
      <4> QED BY <2>3, <3>1, <4>1 DEF Base, PromiseOrigin
    <3> QED BY <3>2, <3>3
  <2> QED BY <2>1, <2>2, <2>3 DEF PromiseOrigin
<1> QED BY <1>6, <1>7, <1>8 DEF Path

\* What the path says of two links, for the next state.
LEMMA PathFacts ==
  Path => /\ \A l, k \in Link : l[2] = k[2] /\ Transfers(l) # {} /\ Transfers(k) # {} => l = k
          /\ \A l, k \in Link : l[1] = k[1] /\ Promises(l) # {} /\ Promises(k) # {} => l = k
<1> SUFFICES ASSUME Path
             PROVE  \A l, k \in Link :
                      l[2] = k[2] /\ Transfers(l) # {} /\ Transfers(k) # {} => l = k
  BY DEF Path, PromiseOrigin
<1> TAKE l, k \in Link
<1> HAVE l[2] = k[2] /\ Transfers(l) # {} /\ Transfers(k) # {}
<1>1. PICK m \in Transfers(l) : TRUE
  OBVIOUS
<1>2. PICK x \in Transfers(k) : TRUE
  OBVIOUS
<1>3. l = k \/ l[2] \in x.mediators \/ k[2] \in m.mediators
  BY DEF Path, TransferOrder
<1>4. l[2] \notin m.mediators /\ k[2] \notin x.mediators
  BY DEF Path, TransferOrigin, Origin
<1> QED BY <1>3, <1>4

\* The same after a step.
LEMMA PathFactsNext ==
  Path' => (/\ \A l, k \in Link : l[2] = k[2] /\ Transfers(l) # {} /\ Transfers(k) # {} => l = k
            /\ \A l, k \in Link : l[1] = k[1] /\ Promises(l) # {} /\ Promises(k) # {} => l = k)'
BY PathFacts, PTL

\* The invariant of one node's task.
TaskOK(n) ==
  /\ n = Initiator => InitiatorTaskOK(task[n])
  /\ n = Target => TargetTaskOK(task[n])
  /\ n \in Mediators => MediatorTaskOK(n, task[n])

\* A step of one node: it makes what it owns and takes what it is sent.
Local(n) ==
  /\ \A l \in Link :
       /\ l[1] # n => OurKept(l) /\ PromisesKept(l) /\ EndsKept(l) /\ RevealKept(l)
       /\ l[2] # n => RecKept(l)
  /\ \A k \in Node : k # n => task'[k] = task[k]

\* The other nodes' tasks are not touched.
LEMMA OtherTasks ==
  ASSUME Base, Onward, NEW n \in Node, Local(n), NEW k \in Node, k # n
  PROVE  TaskOK(k)'
<1>1. task'[k] = task[k] /\ StepsOK
  BY DEF Local, Onward
<1>2. ASSUME NEW l \in Link, l[2] = k
      PROVE  partnerState'[Mirror(l)].balanceProof = partnerState[Mirror(l)].balanceProof
  BY <1>2 DEF Local, RecKept, Kept
<1>3. ASSUME NEW l \in Link, l[1] = k
      PROVE  /\ ourState'[l].balanceProof = ourState[l].balanceProof
             /\ Promises(l)' = Promises(l) /\ Transfers(l)' = Transfers(l)
             /\ Sent(l, "Unlock")' <=> Sent(l, "Unlock")
  BY <1>3 DEF Local, OurKept, Kept, PromisesKept, EndsKept
<1>4. k = Initiator => InitiatorTaskOK(task[k])'
  <2> SUFFICES ASSUME k = Initiator PROVE InitiatorTaskOK(task[k])'
    OBVIOUS
  <2>1. InitiatorTaskOK(task[k])
    BY DEF Base, TaskInv
  <2>2. PICK l : l = <<Initiator, task[k].to>>
    OBVIOUS
  <2>3. CASE task[k].type = "initiator"
    <3>1. /\ l \in Link /\ Transfers(l) # {} /\ ourState[l].balanceProof.nonce = 1
          /\ \A m \in Transfers(l) : m.lock = task[k].lock
          /\ partnerState[l].balanceProof.nonce = 0
      BY <2>1, <2>2, <2>3 DEF InitiatorTaskOK
    <3>2. l[1] = k /\ Mirror(l) \in Link /\ Mirror(l)[2] = k /\ Mirror(Mirror(l)) = l
      BY <2>2, <3>1, LinkFacts
    <3>3. /\ ourState'[l].balanceProof.nonce = 1 /\ partnerState'[l].balanceProof.nonce = 0
          /\ Transfers(l)' = Transfers(l)
      BY <1>2, <1>3, <3>1, <3>2
    <3>4. /\ l = <<Initiator, task'[k].to>> /\ task'[k].lock = task[k].lock
          /\ task'[k].type = "initiator"
      BY <1>1, <2>2, <2>3
    <3> QED BY <3>1, <3>3, <3>4 DEF InitiatorTaskOK
  <2>4. CASE task[k].type # "initiator"
    BY <1>1, <2>1, <2>4 DEF InitiatorTaskOK
  <2> QED BY <2>3, <2>4
<1>5. k = Target => TargetTaskOK(task[k])'
  <2> SUFFICES ASSUME k = Target PROVE TargetTaskOK(task[k])'
    OBVIOUS
  <2>1. TargetTaskOK(task[k])
    BY DEF Base, TaskInv
  <2>2. PICK l, lock : l = <<task[k].from, Target>> /\ lock = task[k].lock
    OBVIOUS
  <2>3. task[k].type = "target" => Got(l, lock)'
    BY <1>1, <2>1, <2>2, GotOnward DEF TargetTaskOK
  <2>4. task'[k].type = "target" => l = <<task'[k].from, Target>> /\ lock = task'[k].lock
    BY <1>1, <2>2
  <2> QED BY <1>1, <2>1, <2>3, <2>4 DEF TargetTaskOK
<1>6. k \in Mediators => MediatorTaskOK(k, task[k])'
  <2> SUFFICES ASSUME k \in Mediators PROVE MediatorTaskOK(k, task[k])'
    OBVIOUS
  <2>1. MediatorTaskOK(k, task[k])
    BY DEF Base, TaskInv
  <2>2. PICK t : t = task[k]
    OBVIOUS
  <2>3. task'[k] = t
    BY <1>1, <2>2
  <2>4. t.type # "none" => Got(<<t.payer, k>>, t.lock)'
    BY <1>1, <2>1, <2>2, GotOnward DEF MediatorTaskOK
  <2>5. ASSUME t.type = "mediator"
        PROVE  /\ <<k, t.payee>> \in Link /\ Promises(<<k, t.payee>>)' # {}
               /\ t.payeeState \in {"payee_secret_revealed", "payee_balance_proof"}
                    => t.secretKnown
               /\ t.payerState = "payer_secret_revealed" => t.secretKnown
               /\ t.payeeState = "payee_balance_proof" <=> Sent(<<k, t.payee>>, "Unlock")'
               /\ t.payeeState = "payee_secret_revealed" =>
                    block'[k] + RevealTimeout >= t.lock.expiration
    <3>1. PICK q : q = <<k, t.payee>>
      OBVIOUS
    <3>2. /\ q \in Link /\ Promises(q) # {} /\ q[1] = k /\ t.lock.expiration \in Nat
      BY <2>2, <2>5, <3>1, PairFacts
    <3>3. Promises(q)' = Promises(q) /\ (Sent(q, "Unlock")' <=> Sent(q, "Unlock"))
      BY <1>3, <3>2
    <3>4. block[k] \in Nat /\ block'[k] \in Nat /\ block[k] <= block'[k] /\ RevealTimeout \in Nat
      BY MediationAssumption DEF Base, TypeOK, Onward, Clocks
    <3> QED BY <2>1, <2>2, <2>5, <3>1, <3>2, <3>3, <3>4 DEF MediatorTaskOK
  <2>6. t.type = "waiting" => \A l \in Link : l[1] = k => Promises(l)' = {}
    BY <1>3, <2>1, <2>2 DEF MediatorTaskOK
  <2>7. ASSUME t.type = "none", NEW l \in Link
        PROVE  /\ l[1] = k /\ Promises(l)' # {} => ourState'[l].balanceProof.nonce = 2
               /\ l[2] = k /\ Transfers(l)' # {} /\ Accepted(l)' =>
                    partnerState'[Mirror(l)].balanceProof.nonce = 2
    <3>1. /\ l[1] = k /\ Promises(l) # {} => ourState[l].balanceProof.nonce = 2
          /\ l[2] = k /\ Transfers(l) # {} /\ Accepted(l) =>
               partnerState[Mirror(l)].balanceProof.nonce = 2
      BY <2>1, <2>2, <2>7 DEF MediatorTaskOK
    <3>2. l[1] = k /\ Promises(l)' # {} => ourState'[l].balanceProof.nonce = 2
      BY <1>3, <3>1
    <3>3. ASSUME l[2] = k, Transfers(l)' # {}, Accepted(l)'
          PROVE  partnerState'[Mirror(l)].balanceProof.nonce = 2
      <4>1. Accepted(l)
        BY <1>2, <3>3 DEF Accepted
      <4>2. Transfers(l)' = Transfers(l)
        BY <1>1, <4>1, LinkOnward
      <4> QED BY <1>2, <3>1, <3>3, <4>1, <4>2
    <3> QED BY <3>2, <3>3
  <2>8. t.type \in {"none", "mediator", "waiting"}
    BY <2>1, <2>2 DEF MediatorTaskOK
  <2> HIDE DEF MediatorTaskOK
  <2> QED BY <2>3, <2>4, <2>5, <2>6, <2>7, <2>8 DEF MediatorTaskOK
<1> QED BY <1>4, <1>5, <1>6 DEF TaskOK

\* The new secrets are for whoever sent a transfer, and the new expiries late.
RevealGrows ==
  \A l \in Link : Sent(l, "RevealSecret")' =>
    \/ Sent(l, "RevealSecret")
    \/ Transfers(Mirror(l))' # {} /\ Accepted(Mirror(l))'
ExpiresLate ==
  \A l \in Link : Sent(l, "LockExpired")' =>
    \/ Sent(l, "LockExpired")
    \/ \A m \in Promises(l)' : block'[l[1]] >= m.lock.expiration

\* The invariant after a step of node n.
LEMMA BaseNext ==
  ASSUME Base, Onward, Path', RevealGrows, ExpiresLate,
         NEW n \in Node, Local(n), TaskOK(n)'
  PROVE  Base'
<1>1. TypeOK' /\ BooksAgree' /\ LinkInv'
  BY OnwardBase
<1>2. TransferOrigin' /\ TransferOrder' /\ PromiseOrigin'
  BY DEF Path
<1>3. StepsOK
  BY DEF Onward
<1>4. RevealOrigin'
  <2> SUFFICES ASSUME NEW l \in Link, Sent(l, "RevealSecret")'
               PROVE  Transfers(Mirror(l))' # {} /\ Accepted(Mirror(l))'
    BY DEF RevealOrigin
  <2>1. CASE Sent(l, "RevealSecret")
    <3>1. Mirror(l) \in Link /\ Transfers(Mirror(l)) # {} /\ Accepted(Mirror(l))
      BY <2>1, LinkFacts DEF Base, RevealOrigin
    <3> QED BY <1>3, <3>1, LinkOnward
  <2> QED BY <2>1 DEF RevealGrows
<1>5. ExpiredLate'
  <2> SUFFICES ASSUME NEW l \in Link, Sent(l, "LockExpired")', NEW m \in Promises(l)'
               PROVE  block'[l[1]] >= m.lock.expiration
    BY DEF ExpiredLate
  <2>1. CASE Sent(l, "LockExpired")
    <3>1. Promises(l) # {}
      BY <2>1, OneEnd
    <3>2. m \in Promises(l)
      BY <1>3, <3>1, LinkOnward
    <3>3. block[l[1]] >= m.lock.expiration
      BY <2>1, <3>2 DEF Base, ExpiredLate
    <3>4. /\ block[l[1]] \in Nat /\ block'[l[1]] \in Nat /\ block[l[1]] <= block'[l[1]]
      BY LinkFacts DEF Base, TypeOK, Onward, Clocks
    <3>5. m.lock.expiration \in Nat
      BY <3>2, LinkLocks
    <3> QED BY <3>3, <3>4, <3>5
  <2> QED BY <2>1 DEF ExpiresLate
<1>6. TaskInv'
  <2>1. \A k \in Node : TaskOK(k)'
    BY OtherTasks
  <2>2. Initiator \in Node /\ Target \in Node /\ Mediators \subseteq Node
    BY NodeFacts
  <2>3. InitiatorTaskOK(task[Initiator])'
    BY <2>1, <2>2 DEF TaskOK
  <2>4. TargetTaskOK(task[Target])'
    BY <2>1, <2>2 DEF TaskOK
  <2>5. \A k \in Mediators : MediatorTaskOK(k, task[k])'
    BY <2>1, <2>2 DEF TaskOK
  <2> QED BY <2>3, <2>4, <2>5 DEF TaskInv
<1> QED BY <1>1, <1>2, <1>4, <1>5, <1>6 DEF Base

\* What a node may settle, take and reveal in a step that makes no promise.
Settling(n, O, R, S) ==
  /\ KeptBut(O, R, S)
  /\ \A l \in Link :
       /\ l \in O => /\ l[1] = n
                     /\ \E m : /\ OurSettles(l, m)
                               /\ m.type = "LockExpired" =>
                                    \A x \in Promises(l) : block'[n] >= x.lock.expiration
       /\ l \in R => l[2] = n /\ \E m : RecTakes(l, m)
       /\ l \in S => l[1] = n /\ Transfers(Mirror(l)) # {} /\ Accepted(Mirror(l))'
  /\ \A k \in Node : k # n => task'[k] = task[k]

\* Such a step keeps what is not about the node's own task.
LEMMA SettlingNext ==
  ASSUME Base, Shape, Clocks, NEW n \in Node, NEW O, NEW R, NEW S, Settling(n, O, R, S)
  PROVE  /\ Onward /\ Local(n) /\ Path'
         /\ TaskOK(n)' => Base'
<1>1. \A l \in Link : PromisesKept(l)
  BY DEF Settling, KeptBut, OurSettles, SentEnd
<1>2. StepsOK
  <2>1. \A l \in Link : l \in O => OurStep(l)
    BY DEF Settling, OurStep
  <2>2. \A l \in Link : l \in R => RecStep(l)
    BY DEF Settling, RecStep
  <2>3. KeptBut(O, R, S)
    BY DEF Settling
  <2> QED BY <2>1, <2>2, <2>3, KeptSteps
<1>3. Onward
  BY <1>2 DEF Onward
<1>4. Local(n)
  BY DEF Settling, KeptBut, Local
<1>5. Path'
  BY <1>1, <1>2, SamePath
<1>6. RevealGrows
  <2> SUFFICES ASSUME NEW l \in Link, Sent(l, "RevealSecret")'
               PROVE  \/ Sent(l, "RevealSecret")
                      \/ Transfers(Mirror(l))' # {} /\ Accepted(Mirror(l))'
    BY DEF RevealGrows
  <2>1. CASE l \in S
    <3>1. Transfers(Mirror(l)) # {} /\ Accepted(Mirror(l))'
      BY <2>1 DEF Settling
    <3>2. Transfers(Mirror(l))' = Transfers(Mirror(l))
      BY <1>1, LinkFacts DEF PromisesKept
    <3> QED BY <3>1, <3>2
  <2>2. CASE l \notin S
    BY <2>2 DEF Settling, KeptBut, RevealKept
  <2> QED BY <2>1, <2>2
<1>7. ExpiresLate
  <2> SUFFICES ASSUME NEW l \in Link, Sent(l, "LockExpired")', NEW m \in Promises(l)',
                      ~Sent(l, "LockExpired")
               PROVE  block'[l[1]] >= m.lock.expiration
    BY DEF ExpiresLate
  <2>1. l \in O
    BY DEF Settling, KeptBut, EndsKept
  <2>2. PICK x : /\ OurSettles(l, x) /\ l[1] = n
                 /\ x.type = "LockExpired" =>
                      \A y \in Promises(l) : block'[n] >= y.lock.expiration
    BY <2>1 DEF Settling
  <2>3. x.type = "LockExpired"
    BY <2>2 DEF OurSettles, SentEnd
  <2>4. m \in Promises(l)
    BY <1>1 DEF PromisesKept
  <2> QED BY <2>2, <2>3, <2>4
<1>8. TaskOK(n)' => Base'
  BY <1>3, <1>4, <1>5, <1>6, <1>7, BaseNext
<1> QED BY <1>3, <1>4, <1>5, <1>8

\* A mediator's task, kept or cleared.
LEMMA MediatorTaskNext ==
  ASSUME Base, Onward, Path', NEW n \in Mediators, NEW t, MdTask(n, t),
         t.type \in {"mediator", "waiting"}, NEW k, k = <<t.payer, n>>, Got(k, t.lock)',
         t.type = "mediator" =>
           /\ <<n, t.payee>> \in Link /\ Promises(<<n, t.payee>>)' # {}
           /\ t.payeeState \in {"payee_secret_revealed", "payee_balance_proof"} => t.secretKnown
           /\ t.payerState = "payer_secret_revealed" => t.secretKnown
           /\ t.payeeState = "payee_balance_proof" <=> Sent(<<n, t.payee>>, "Unlock")'
           /\ t.payeeState = "payee_secret_revealed" =>
                block'[n] + RevealTimeout >= t.lock.expiration,
         t.type = "waiting" => \A l \in Link : l[1] = n => Promises(l)' = {}
  PROVE  TaskOK(n)'
<1>1. n \in Node /\ n # Initiator /\ n # Target
  BY NodeFacts
<1>2. CASE TaskSet(n, t)
  <2>1. task'[n] = t
    BY <1>2 DEF TaskSet
  <2>2. MediatorTaskOK(n, task[n])'
    BY <2>1 DEF MediatorTaskOK
  <2> QED BY <1>1, <2>2 DEF TaskOK
<1>3. CASE /\ TaskSet(n, NoTask)
           /\ partnerState'[<<n, t.payer>>].balanceProof.nonce # 1
           /\ t.type = "mediator" => ourState'[<<n, t.payee>>].balanceProof.nonce # 1
  <2>1. task'[n] = NoTask /\ NoTask.type = "none"
    BY <1>3 DEF TaskSet, NoTask
  <2>2. k \in Link /\ k[2] = n /\ Transfers(k)' # {} /\ Mirror(k) = <<n, t.payer>>
    BY DEF Got, Mirror
  <2>3. /\ \A l, j \in Link : l[2] = j[2] /\ Transfers(l)' # {} /\ Transfers(j)' # {} => l = j
        /\ \A l, j \in Link : l[1] = j[1] /\ Promises(l)' # {} /\ Promises(j)' # {} => l = j
    BY PathFactsNext
  <2>4. ASSUME NEW l \in Link, l[1] = n, Promises(l)' # {}
        PROVE  ourState'[l].balanceProof.nonce = 2
    <3>1. t.type = "mediator"
      BY <2>4
    <3>2. PICK q : q = <<n, t.payee>>
      OBVIOUS
    <3>3. q \in Link /\ q[1] = n /\ Promises(q)' # {} /\ ourState'[q].balanceProof.nonce # 1
      BY <1>3, <3>1, <3>2
    <3>4. l = q
      BY <2>3, <2>4, <3>3
    <3>5. /\ Promises(l)' # {} <=> ourState'[l].balanceProof.nonce # 0
          /\ ourState'[l].balanceProof.nonce \in {0, 1, 2}
      BY PendingAfter DEF Onward, LinkOK
    <3> QED BY <2>4, <3>3, <3>4, <3>5
  <2>5. ASSUME NEW l \in Link, l[2] = n, Transfers(l)' # {}, Accepted(l)'
        PROVE  partnerState'[Mirror(l)].balanceProof.nonce = 2
    <3>1. l = k
      BY <2>2, <2>3, <2>5
    <3>2. partnerState'[Mirror(l)].balanceProof.nonce # 1
      BY <1>3, <2>2, <3>1
    <3>3. partnerState'[Mirror(l)].balanceProof.nonce \in {0, 1, 2}
      BY PendingAfter DEF Onward
    <3> QED BY <2>5, <3>2, <3>3 DEF Accepted
  <2>6. MediatorTaskOK(n, task[n])'
    BY <2>1, <2>4, <2>5 DEF MediatorTaskOK
  <2> QED BY <1>1, <2>6 DEF TaskOK
<1> QED BY <1>2, <1>3 DEF MdTask

\* A pair moves to other states, or goes.
LEMMA PairNext ==
  ASSUME Base, Onward, Path', NEW n \in Node, NEW t, t = task[n], t.type = "mediator",
         NEW q, q = <<n, t.payee>>, NEW x, NEW y, NEW z, NEW s, s = MdState(t, x, y, z),
         MdTask(n, s),
         y \in {"payee_secret_revealed", "payee_balance_proof"} => z,
         x = "payer_secret_revealed" => z,
         y = "payee_balance_proof" <=> Sent(q, "Unlock")',
         y = "payee_secret_revealed" => block'[n] + RevealTimeout >= t.lock.expiration
  PROVE  TaskOK(n)'
<1>1. /\ s.type = "mediator" /\ s.payer = t.payer /\ s.payee = t.payee
      /\ s.lock = t.lock /\ s.payerState = x /\ s.payeeState = y /\ s.secretKnown = z
  BY ONLY s = MdState(t, x, y, z), MdGet
<1>2. PICK k : k = <<t.payer, n>>
  OBVIOUS
<1>3. n \in Mediators /\ Got(k, t.lock)
  BY <1>2, MediatorFacts
<1>4. Got(k, t.lock)' /\ StepsOK
  BY <1>3, GotOnward DEF Onward
<1>5. q \in Link /\ Promises(q) # {}
  BY PairFacts
<1>6. Promises(q)' # {}
  BY <1>4, <1>5, LinkOnward
<1>7. PICK lock : lock = t.lock
  OBVIOUS
<1>8. Got(k, s.lock)'
  <2>1. Got(k, lock)'
    BY <1>4, <1>7 DEF Got
  <2>2. s.lock = lock
    BY <1>1, <1>7
  <2> QED BY <2>1, <2>2 DEF Got
<1>9. /\ <<n, s.payee>> \in Link /\ Promises(<<n, s.payee>>)' # {}
      /\ s.payeeState \in {"payee_secret_revealed", "payee_balance_proof"} => s.secretKnown
      /\ s.payerState = "payer_secret_revealed" => s.secretKnown
      /\ s.payeeState = "payee_balance_proof" <=> Sent(<<n, s.payee>>, "Unlock")'
      /\ s.payeeState = "payee_secret_revealed" =>
           block'[n] + RevealTimeout >= s.lock.expiration
  <2>1. <<n, s.payee>> = q
    BY <1>1
  <2>2. /\ q \in Link /\ Promises(q)' # {}
        /\ s.payeeState = "payee_balance_proof" <=> Sent(q, "Unlock")'
    BY <1>1, <1>5, <1>6
  <2> QED BY <1>1, <2>1, <2>2
<1>10. /\ Base /\ Onward /\ Path' /\ n \in Mediators /\ MdTask(n, s)
       /\ s.type \in {"mediator", "waiting"} /\ k = <<s.payer, n>>
       /\ s.type = "waiting" => \A l \in Link : l[1] = n => Promises(l)' = {}
  BY <1>1, <1>2, <1>3
<1> QED BY <1>8, <1>9, <1>10, MediatorTaskNext

\* A waiting transfer goes on waiting, or goes.
LEMMA WaiterNext ==
  ASSUME Base, Onward, Path', NEW n \in Node, task[n].type = "waiting",
         NEW t \in Tasks, t.type = "waiting", t.payer = task[n].payer,
         t.lock = task[n].lock, MdTask(n, t), \A l \in Link : PromisesKept(l)
  PROVE  TaskOK(n)'
<1>1. PICK k, lock : k = <<t.payer, n>> /\ lock = t.lock
  OBVIOUS
<1>2. n \in Mediators /\ Got(k, lock) /\ MediatorTaskOK(n, task[n])
  BY <1>1, MediatorFacts
<1>3. Got(k, lock)'
  BY <1>2, GotOnward DEF Onward
<1>4. Got(k, t.lock)'
  BY <1>1, <1>3 DEF Got
<1>5. \A l \in Link : l[1] = n => Promises(l)' = {}
  BY <1>2 DEF MediatorTaskOK, PromisesKept
<1>6. /\ Base /\ Onward /\ Path' /\ n \in Mediators /\ MdTask(n, t)
      /\ t.type \in {"mediator", "waiting"} /\ k = <<t.payer, n>> /\ t.type # "mediator"
  BY <1>1, <1>2
<1> QED BY <1>4, <1>5, <1>6, MediatorTaskNext

\* Nothing happens.
LEMMA IdleNext ==
  ASSUME Base, Shape, Clocks, Idle
  PROVE  Onward /\ Base'
<1>1. Initiator \in Node /\ Target \in Node /\ Initiator # Target
  BY NodeFacts
<1>2. Settling(Initiator, {}, {}, {}) /\ Settling(Target, {}, {}, {})
  BY DEF Idle, TasksKept, Settling
<1>3. Onward /\ Local(Target) /\ (TaskOK(Target)' => Base')
  BY <1>1, <1>2, SettlingNext
<1>4. Local(Initiator)
  BY <1>1, <1>2, SettlingNext
<1>5. TaskOK(Target)'
  BY <1>1, <1>3, <1>4, OtherTasks
<1> QED BY <1>3, <1>5

\* The initiator settles its promise or has none to settle, and its task ends.
LEMMA InitiatorEnds ==
  ASSUME Base, Shape, Clocks, NEW O, NEW R, Settling(Initiator, O, R, {}),
         TaskSet(Initiator, NoTask)
  PROVE  Onward /\ Base'
<1>1. Initiator \in Node /\ Initiator # Target /\ Initiator \notin Mediators
  BY NodeFacts
<1>2. Onward /\ (TaskOK(Initiator)' => Base')
  BY <1>1, SettlingNext
<1>3. TaskOK(Initiator)'
  <2>1. task'[Initiator] = NoTask /\ NoTask.type = "none"
    BY DEF TaskSet, NoTask
  <2>2. InitiatorTaskOK(task[Initiator])'
    BY <2>1 DEF InitiatorTaskOK
  <2> QED BY <1>1, <2>2 DEF TaskOK
<1> QED BY <1>2, <1>3

\* The initiator unlocks its transfer.
LEMMA InitiatorUnlocksNext ==
  ASSUME Base, Shape, Clocks, NEW l, InitiatorUnlocks(l)
  PROVE  Onward /\ Base'
<1>1. PICK m : m.type = "Unlock" /\ OurSettles(l, m)
  BY DEF InitiatorUnlocks
<1>2. l \in Link /\ l[1] = Initiator
  BY LinkFacts DEF InitiatorUnlocks
<1>3. Settling(Initiator, {l}, {}, {})
  BY <1>1, <1>2 DEF InitiatorUnlocks, Settling, TaskSet
<1> QED BY <1>3, InitiatorEnds DEF InitiatorUnlocks

\* The initiator takes its transfer back.
LEMMA InitiatorExpiresNext ==
  ASSUME Base, Shape, Clocks, NEW l, InitiatorExpires(l)
  PROVE  Onward /\ Base'
<1>1. PICK m : m.type = "LockExpired" /\ OurSettles(l, m)
  BY DEF InitiatorExpires
<1>2. l \in Link /\ l[1] = Initiator /\ l = <<Initiator, task[Initiator].to>>
  BY LinkFacts DEF InitiatorExpires
<1>3. \A x \in Promises(l) : block'[Initiator] >= x.lock.expiration
  BY <1>2, InitiatorFacts DEF InitiatorExpires
<1>4. Settling(Initiator, {l}, {}, {})
  BY <1>1, <1>2, <1>3 DEF InitiatorExpires, Settling, TaskSet
<1> QED BY <1>4, InitiatorEnds DEF InitiatorExpires

\* The initiator's task goes without anything to settle.
LEMMA InitiatorForgetsNext ==
  ASSUME Base, Shape, Clocks, InitiatorForgets
  PROVE  Onward /\ Base'
<1>1. Settling(Initiator, {}, {}, {})
  BY DEF InitiatorForgets, Settling, TaskSet
<1> QED BY <1>1, InitiatorEnds DEF InitiatorForgets

\* The initiator takes a refund.
LEMMA RefundTakenNext ==
  ASSUME Base, Shape, Clocks, NEW l, NEW m, RefundTaken(l, m)
  PROVE  Onward /\ Base'
<1>1. Settling(Initiator, {}, {l}, {})
  BY DEF RefundTaken, Settling, TaskSet
<1> QED BY <1>1, InitiatorEnds DEF RefundTaken

\* The target goes on with the transfer it has.
LEMMA TargetKeepsNext ==
  ASSUME Base, Shape, Clocks, NEW R, NEW S, Settling(Target, {}, R, S),
         NEW t, task'[Target] = t, t.type = "target",
         NEW l, l = <<t.from, Target>>, NEW lock, lock = t.lock,
         Got(l, lock)'
  PROVE  Onward /\ Base'
<1>1. Target \in Node /\ Initiator # Target /\ Target \notin Mediators
  BY NodeFacts
<1>2. Onward /\ (TaskOK(Target)' => Base')
  BY <1>1, SettlingNext
<1>3. Got(<<t.from, Target>>, t.lock)'
  BY DEF Got
<1>4. TargetTaskOK(task[Target])'
  BY <1>3 DEF TargetTaskOK
<1>5. TaskOK(Target)'
  BY <1>1, <1>4 DEF TaskOK
<1> QED BY <1>2, <1>5

\* The target has no task any more.
LEMMA TargetEndsNext ==
  ASSUME Base, Shape, Clocks, NEW R, Settling(Target, {}, R, {}), task'[Target] = NoTask
  PROVE  Onward /\ Base'
<1>1. Target \in Node /\ Initiator # Target /\ Target \notin Mediators
  BY NodeFacts
<1>2. Onward /\ (TaskOK(Target)' => Base')
  BY <1>1, SettlingNext
<1>3. TargetTaskOK(task[Target])'
  BY DEF TargetTaskOK, NoTask
<1>4. TaskOK(Target)'
  BY <1>1, <1>3 DEF TaskOK
<1> QED BY <1>2, <1>4

\* The target's task moves on.
LEMMA TargetMovesNext ==
  ASSUME Base, Shape, Clocks, NEW s, TargetMoves(s)
  PROVE  Onward /\ Base'
<1>1. PICK t, l, lock : /\ t = TargetTask(task[Target].from, task[Target].lock, s)
                        /\ l = <<task[Target].from, Target>> /\ lock = task[Target].lock
  OBVIOUS
<1>2. t.type = "target" /\ t.from = task[Target].from /\ t.lock = lock
  BY <1>1 DEF TargetTask
<1>3. task[Target].type = "target" /\ Got(l, lock)
  BY <1>1, TargetFacts DEF TargetMoves
<1>4. Settling(Target, {}, {}, {}) /\ task'[Target] = t
  BY <1>1 DEF TargetMoves, Settling, TaskSet
<1>5. StepsOK
  BY <1>4, NodeFacts, SettlingNext DEF Onward
<1>6. Got(l, lock)'
  BY <1>3, <1>5, GotOnward
<1> QED BY <1>1, <1>2, <1>4, <1>6, TargetKeepsNext

\* The target takes its transfer.
LEMMA TargetTakesNext ==
  ASSUME Base, Shape, Clocks, NEW l, NEW m, TargetTakes(l, m)
  PROVE  Onward /\ Base'
<1>1. PICK t, lock : t = TargetTask(l[1], m.lock, "reveal_secret") /\ lock = m.lock
  OBVIOUS
<1>2. /\ t.type = "target" /\ t.from = l[1] /\ t.lock = lock /\ l \in Link /\ l[2] = Target
      /\ m \in Transfers(l) /\ RecTakes(l, m) /\ task'[Target] = t
  BY <1>1 DEF TargetTask, TargetTakes, TaskSet
<1>3. l = <<t.from, Target>> /\ Mirror(l) \in Link /\ Mirror(l)[1] = Target /\ Mirror(Mirror(l)) = l
  BY <1>2, LinkFacts
<1>4. /\ Transfers(l) \subseteq Promises(l) /\ \A x \in Promises(l) : x = m
      /\ m.bp.nonce = 1
  <2>1. Transfers(l) \subseteq Promises(l)
    BY <1>2, LinkGood
  <2>2. LinkOK(l)
    BY <1>2, LinkGood
  <2> QED BY <1>2, <2>1, <2>2 DEF LinkOK
<1>5. Accepted(l)'
  BY <1>2, <1>4 DEF Accepted, RecTakes
<1>6. Settling(Target, {}, {l}, {Mirror(l)})
  <2>1. Transfers(l) # {}
    BY <1>2
  <2> QED BY <1>2, <1>3, <1>5, <2>1 DEF TargetTakes, Settling, TaskSet
<1>7. PromisesKept(l)
  BY <1>2 DEF TargetTakes, KeptBut
<1>8. Got(l, lock)'
  BY <1>1, <1>2, <1>4, <1>5, <1>7 DEF Got, PromisesKept
<1> QED BY <1>2, <1>3, <1>6, <1>8, TargetKeepsNext

\* The target takes its transfer too late, or gives up, or is paid.
LEMMA TargetDoneNext ==
  ASSUME Base, Shape, Clocks, NEW l, NEW m,
         TargetTakesLate(l, m) \/ TargetIsPaid(l, m) \/ TargetGivesUp(l)
  PROVE  Onward /\ Base'
<1>1. CASE TargetTakesLate(l, m)
  <2>1. Settling(Target, {}, {l}, {}) /\ task'[Target] = NoTask
    BY <1>1, NodeFacts DEF TargetTakesLate, Settling, TasksKept
  <2> QED BY <2>1, TargetEndsNext
<1>2. CASE TargetIsPaid(l, m)
  <2>1. l[2] = Target
    BY <1>2, LinkFacts DEF TargetIsPaid
  <2>2. Settling(Target, {}, {l}, {}) /\ task'[Target] = NoTask
    BY <1>2, <2>1 DEF TargetIsPaid, Settling, TaskSet
  <2> QED BY <2>2, TargetEndsNext
<1>3. CASE TargetGivesUp(l)
  <2>1. Settling(Target, {}, {}, {}) /\ task'[Target] = NoTask
    BY <1>3 DEF TargetGivesUp, Settling, TaskSet
  <2> QED BY <2>1, TargetEndsNext
<1> QED BY <1>1, <1>2, <1>3

\* The target's lock is taken back.
LEMMA TargetLosesNext ==
  ASSUME Base, Shape, Clocks, NEW l, NEW m, TargetLoses(l, m)
  PROVE  Onward /\ Base'
<1>1. PICK t, lock : t = task[Target] /\ lock = t.lock
  OBVIOUS
<1>2. /\ t.type = "target" /\ Got(l, lock) /\ l = <<t.from, Target>> /\ l[2] = Target
  BY <1>1, TargetFacts DEF TargetLoses
<1>3. Settling(Target, {}, {l}, {}) /\ task'[Target] = t
  BY <1>1, <1>2, NodeFacts DEF TargetLoses, Settling, TasksKept
<1>4. StepsOK
  BY <1>3, NodeFacts, SettlingNext DEF Onward
<1>5. Got(l, lock)'
  BY <1>2, <1>4, GotOnward
<1> QED BY <1>1, <1>2, <1>3, <1>5, TargetKeepsNext

\* A mediator settles on O, takes on R and reveals on S; its pair t becomes s, with
\* the states x, y and z.
PairMove(n, t, q, O, R, S, x, y, z, s) ==
  /\ n \in Node /\ t = task[n] /\ t.type = "mediator" /\ q = <<n, t.payee>>
  /\ Settling(n, O, R, S) /\ s = MdState(t, x, y, z) /\ MdTask(n, s)
  /\ y \in {"payee_secret_revealed", "payee_balance_proof"} => z
  /\ x = "payer_secret_revealed" => z
  /\ y = "payee_balance_proof" <=> Sent(q, "Unlock")'
  /\ y = "payee_secret_revealed" => block'[n] + RevealTimeout >= t.lock.expiration

\* Such a step keeps the invariant.
LEMMA PairMoves ==
  ASSUME Base, Shape, Clocks, NEW n, NEW t, NEW q, NEW O, NEW R, NEW S, NEW x, NEW y,
         NEW z, NEW s, PairMove(n, t, q, O, R, S, x, y, z, s)
  PROVE  Onward /\ Base'
<1>1. /\ n \in Node /\ t = task[n] /\ t.type = "mediator" /\ q = <<n, t.payee>>
      /\ Settling(n, O, R, S) /\ s = MdState(t, x, y, z) /\ MdTask(n, s)
      /\ y \in {"payee_secret_revealed", "payee_balance_proof"} => z
      /\ x = "payer_secret_revealed" => z
      /\ y = "payee_balance_proof" <=> Sent(q, "Unlock")'
      /\ y = "payee_secret_revealed" => block'[n] + RevealTimeout >= t.lock.expiration
  BY DEF PairMove
<1>2. Onward /\ Path' /\ (TaskOK(n)' => Base')
  BY <1>1, SettlingNext
<1>3. TaskOK(n)'
  BY <1>1, <1>2, PairNext
<1> QED BY <1>2, <1>3

\* A pair that is not settled stays as paid as it was.
LEMMA PairStays ==
  ASSUME Base, Shape, Clocks, NEW n \in Node, NEW t, t = task[n], t.type = "mediator",
         NEW R, NEW S, Settling(n, {}, R, S),
         NEW x, NEW y, NEW z, NEW s, s = MdState(t, x, y, z), MdTask(n, s),
         y = t.payeeState, t.secretKnown => z,
         x = "payer_secret_revealed" => t.payerState = x
  PROVE  Onward /\ Base'
<1>1. PICK q : q = <<n, t.payee>>
  OBVIOUS
<1>2. MediatorTaskOK(n, t) /\ q \in Link
  BY <1>1, MediatorFacts, PairFacts
<1>3. Sent(q, "Unlock")' <=> Sent(q, "Unlock")
  BY <1>2 DEF Settling, KeptBut, EndsKept
<1>4. block[n] \in Nat /\ block'[n] \in Nat /\ block[n] <= block'[n] /\ RevealTimeout \in Nat
      /\ t.lock.expiration \in Nat
  <2>1. t.lock.expiration \in Nat
    BY <1>1, PairFacts
  <2>2. block[n] \in Nat /\ RevealTimeout \in Nat
    BY MediationAssumption DEF Base, TypeOK
  <2>3. block'[n] \in Nat /\ block[n] <= block'[n]
    BY DEF Clocks
  <2> QED BY <2>1, <2>2, <2>3
<1>5. /\ y \in {"payee_secret_revealed", "payee_balance_proof"} => z
      /\ x = "payer_secret_revealed" => z
      /\ y = "payee_balance_proof" <=> Sent(q, "Unlock")'
  BY <1>1, <1>2, <1>3 DEF MediatorTaskOK
<1>6. y = "payee_secret_revealed" => block[n] + RevealTimeout >= t.lock.expiration
  BY <1>2 DEF MediatorTaskOK
<1>7. y = "payee_secret_revealed" => block'[n] + RevealTimeout >= t.lock.expiration
  BY <1>4, <1>6
<1>8. PICK O : O = {}
  OBVIOUS
<1>9. PairMove(n, t, q, O, R, S, x, y, z, s)
  BY <1>1, <1>5, <1>7, <1>8 DEF PairMove
<1> QED BY <1>9, PairMoves

\* A mediator learns the secret and pays its payee.
LEMMA MediatorPaysNext ==
  ASSUME Base, Shape, Clocks, NEW n, NEW k, NEW q, NEW x, MediatorPays(n, k, q, x)
  PROVE  Onward /\ Base'
<1>1. PICK t, y, z : t = task[n] /\ y = "payee_balance_proof" /\ z = TRUE
  OBVIOUS
<1>2. PICK s : s = MdState(t, x, y, z)
  OBVIOUS
<1>3. /\ n \in Node /\ t.type = "mediator" /\ k = <<t.payer, n>> /\ q = <<n, t.payee>>
      /\ k \in Link /\ q \in Link
  BY <1>1, NodeFacts DEF MediatorPays, MediatorLearns
<1>4. MdTask(n, s) /\ KeptBut({q}, {}, {Mirror(k)})
  BY <1>1, <1>2 DEF MediatorPays
<1>5. PICK m : m.type = "Unlock" /\ OurSettles(q, m)
  BY DEF MediatorPays
<1>6. q[1] = n /\ Mirror(k) \in Link /\ Mirror(k)[1] = n /\ Mirror(Mirror(k)) = k
  BY <1>3, LinkFacts
<1>7. Transfers(k) # {} /\ Accepted(k)
  BY <1>1, <1>3, MediatorFacts DEF Got
<1>8. StepsOK
  <2>1. OurStep(q)
    BY <1>5 DEF OurStep
  <2> QED BY <1>4, <2>1, KeptSteps
<1>9. Accepted(k)'
  BY <1>3, <1>7, <1>8, LinkOnward
<1>10. \A j \in Node : j # n => task'[j] = task[j]
  BY <1>4 DEF MdTask, TaskSet
<1>11. Settling(n, {q}, {}, {Mirror(k)})
  BY <1>4, <1>5, <1>6, <1>7, <1>9, <1>10 DEF Settling
<1>12. Sent(q, "Unlock")'
  BY <1>5 DEF OurSettles, SentEnd
<1>13. PICK O, R, S : O = {q} /\ R = {} /\ S = {Mirror(k)}
  OBVIOUS
<1>14. /\ n \in Node /\ t = task[n] /\ t.type = "mediator"
       /\ q = <<n, t.payee>> /\ Settling(n, O, R, S) /\ s = MdState(t, x, y, z)
       /\ MdTask(n, s)
  BY <1>1, <1>2, <1>3, <1>4, <1>11, <1>13
<1>15. /\ y \in {"payee_secret_revealed", "payee_balance_proof"} => z
       /\ x = "payer_secret_revealed" => z
       /\ y = "payee_balance_proof" <=> Sent(q, "Unlock")'
       /\ y = "payee_secret_revealed" => block'[n] + RevealTimeout >= t.lock.expiration
  BY <1>1, <1>12
<1>16. PairMove(n, t, q, O, R, S, x, y, z, s)
  BY <1>14, <1>15 DEF PairMove
<1> QED BY <1>16, PairMoves

\* A mediator learns the secret too late to pay its payee.
LEMMA MediatorTooLateNext ==
  ASSUME Base, Shape, Clocks, NEW n, NEW k, NEW q, NEW x, MediatorTooLate(n, k, q, x)
  PROVE  Onward /\ Base'
<1>1. PICK t, y, z : t = task[n] /\ y = "payee_secret_revealed" /\ z = TRUE
  OBVIOUS
<1>2. PICK s : s = MdState(t, x, y, z)
  OBVIOUS
<1>3. /\ n \in Node /\ t.type = "mediator" /\ k = <<t.payer, n>> /\ q = <<n, t.payee>>
      /\ k \in Link /\ q \in Link /\ ~t.secretKnown
  BY <1>1, NodeFacts DEF MediatorTooLate, MediatorLearns
<1>4. MdTask(n, s) /\ KeptBut({}, {}, {Mirror(k)})
  BY <1>1, <1>2 DEF MediatorTooLate
<1>5. Mirror(k) \in Link /\ Mirror(k)[1] = n /\ Mirror(Mirror(k)) = k
  BY <1>3, LinkFacts
<1>6. Transfers(k) # {} /\ Accepted(k) /\ MediatorTaskOK(n, t)
  BY <1>1, <1>3, MediatorFacts DEF Got
<1>7. StepsOK
  BY <1>4, KeptSteps
<1>8. Accepted(k)'
  BY <1>3, <1>6, <1>7, LinkOnward
<1>9. \A j \in Node : j # n => task'[j] = task[j]
  BY <1>4 DEF MdTask, TaskSet
<1>10. Settling(n, {}, {}, {Mirror(k)})
  BY <1>4, <1>5, <1>6, <1>8, <1>9 DEF Settling
<1>11. ~Sent(q, "Unlock")'
  <2>1. ~Sent(q, "Unlock")
    BY <1>3, <1>6 DEF MediatorTaskOK
  <2> QED BY <1>3, <1>4, <2>1 DEF KeptBut, EndsKept
<1>12. block'[n] + RevealTimeout >= t.lock.expiration
  <2>1. block[n] + RevealTimeout >= t.lock.expiration
    BY <1>1 DEF MediatorTooLate
  <2>2. block[n] \in Nat /\ block'[n] \in Nat /\ block[n] <= block'[n] /\ RevealTimeout \in Nat
        /\ t.lock.expiration \in Nat
    BY <1>1, <1>3, PairFacts, MediationAssumption DEF Base, TypeOK, Clocks
  <2> QED BY <2>1, <2>2
<1>13. PICK O, R, S : O = {} /\ R = {} /\ S = {Mirror(k)}
  OBVIOUS
<1>14. PairMove(n, t, q, O, R, S, x, y, z, s)
  <2>1. Settling(n, O, R, S)
    BY <1>10, <1>13
  <2>2. ~(y = "payee_balance_proof")
    BY <1>1
  <2> QED BY <1>1, <1>2, <1>3, <1>4, <1>11, <1>12, <2>1, <2>2 DEF PairMove
<1> QED BY <1>14, PairMoves

\* A mediator sees the secret on the chain.
LEMMA MediatorSeesNext ==
  ASSUME Base, Shape, Clocks, NEW n, MediatorSees(n)
  PROVE  Onward /\ Base'
<1>1. PICK t, x, y, z : t = task[n] /\ x = t.payerState /\ y = t.payeeState /\ z = TRUE
  OBVIOUS
<1>2. PICK s : s = MdState(t, x, y, z)
  OBVIOUS
<1>3. n \in Node /\ t.type = "mediator" /\ MdTask(n, s) /\ KeptBut({}, {}, {})
  BY <1>1, <1>2, NodeFacts DEF MediatorSees
<1>4. Settling(n, {}, {}, {})
  BY <1>3 DEF Settling, MdTask, TaskSet
<1> QED BY <1>1, <1>2, <1>3, <1>4, PairStays

\* A mediator is paid.
LEMMA MediatorIsPaidNext ==
  ASSUME Base, Shape, Clocks, NEW l, NEW m, MediatorIsPaid(l, m)
  PROVE  Onward /\ Base'
<1>1. PICK n, t, x, y, z : n = l[2] /\ t = task[n] /\ x = "payer_balance_proof"
                           /\ y = t.payeeState /\ z = t.secretKnown
  OBVIOUS
<1>2. PICK s : s = MdState(t, x, y, z)
  OBVIOUS
<1>3. n \in Node /\ t.type = "mediator" /\ MdTask(n, s) /\ KeptBut({}, {l}, {}) /\ RecTakes(l, m)
  BY <1>1, <1>2, NodeFacts DEF MediatorIsPaid
<1>4. Settling(n, {}, {l}, {})
  BY <1>1, <1>3 DEF Settling, MdTask, TaskSet
<1> QED BY <1>1, <1>2, <1>3, <1>4, PairStays

\* A mediator misses its payer's lock.
LEMMA MediatorMissesNext ==
  ASSUME Base, Shape, Clocks, NEW l, NEW x, MediatorMisses(l, x)
  PROVE  Onward /\ Base'
<1>1. PICK n, t, y, z : n = l[2] /\ t = task[n] /\ y = t.payeeState /\ z = t.secretKnown
  OBVIOUS
<1>2. PICK s : s = MdState(t, x, y, z)
  OBVIOUS
<1>3. n \in Node /\ t.type = "mediator" /\ MdTask(n, s) /\ KeptBut({}, {}, {})
      /\ x \in {t.payerState, "payer_expired"}
  BY <1>1, <1>2, NodeFacts DEF MediatorMisses
<1>4. Settling(n, {}, {}, {})
  BY <1>1, <1>3 DEF Settling, MdTask, TaskSet
<1> QED BY <1>1, <1>2, <1>3, <1>4, PairStays

\* A mediator's lock is taken back.
LEMMA MediatorLosesNext ==
  ASSUME Base, Shape, Clocks, NEW l, NEW m, MediatorLoses(l, m)
  PROVE  Onward /\ Base'
<1>1. PICK n, t : n = l[2] /\ t = task[n]
  OBVIOUS
<1>2. n \in Node /\ MdTask(n, t) /\ KeptBut({}, {l}, {}) /\ RecTakes(l, m)
      /\ t.type \in {"mediator", "waiting"}
  BY <1>1, NodeFacts DEF MediatorLoses
<1>3. Settling(n, {}, {l}, {})
  BY <1>1, <1>2 DEF Settling, MdTask, TaskSet
<1>4. CASE t.type = "mediator"
  <2>1. PICK d, x, y, z : d = t /\ x = t.payerState /\ y = t.payeeState /\ z = t.secretKnown
    OBVIOUS
  <2>2. t = MdState(d, x, y, z)
    BY <1>1, <1>2, <1>4, <2>1, PairSelf
  <2>3. PICK s, R, S : s = MdState(d, x, y, z) /\ R = {l} /\ S = {}
    OBVIOUS
  <2>4. MdTask(n, s) /\ s = MdState(d, x, y, z) /\ Settling(n, {}, R, S)
    BY <1>2, <1>3, <2>2, <2>3
  <2>5. /\ Base /\ Shape /\ Clocks /\ n \in Node /\ d = task[n] /\ d.type = "mediator"
        /\ y = d.payeeState /\ (d.secretKnown => z)
        /\ x = "payer_secret_revealed" => d.payerState = x
    BY <1>1, <1>2, <1>4, <2>1
  <2> QED BY ONLY <2>4, <2>5, PairStays
<1>5. CASE t.type = "waiting"
  <2>1. Onward /\ Path' /\ (TaskOK(n)' => Base')
    BY <1>2, <1>3, SettlingNext
  <2>2. t \in Tasks /\ \A k \in Link : PromisesKept(k)
    BY <1>1, <1>2 DEF KeptBut, Base, TypeOK
  <2>3. TaskOK(n)'
    BY <1>1, <1>2, <1>5, <2>1, <2>2, WaiterNext
  <2> QED BY <2>1, <2>3
<1> QED BY <1>2, <1>4, <1>5

\* A waiting transfer goes on waiting, or goes.
LEMMA WaiterMovesNext ==
  ASSUME Base, Shape, Clocks, NEW n, WaiterMoves(n)
  PROVE  Onward /\ Base'
<1>1. n \in Node
  BY NodeFacts DEF WaiterMoves
<1>2. PICK t \in Tasks : /\ t.type = "waiting" /\ t.payer = task[n].payer
                         /\ t.lock = task[n].lock /\ MdTask(n, t)
  BY DEF WaiterMoves
<1>3. Settling(n, {}, {}, {})
  BY <1>2 DEF WaiterMoves, Settling, MdTask, TaskSet
<1>4. Onward /\ Path' /\ (TaskOK(n)' => Base')
  BY <1>1, <1>3, SettlingNext
<1>5. \A k \in Link : PromisesKept(k)
  BY DEF WaiterMoves, KeptBut
<1>6. TaskOK(n)'
  BY <1>1, <1>2, <1>4, <1>5, WaiterNext DEF WaiterMoves
<1> QED BY <1>4, <1>6

\* A mediator handles a block.
LEMMA MediatorTicksNext ==
  ASSUME Base, Shape, Clocks, NEW n, NEW x, NEW y, MediatorTicks(n, x, y)
  PROVE  Onward /\ Base'
<1>1. PICK t, z, q : t = task[n] /\ z = t.secretKnown /\ q = <<n, t.payee>>
  OBVIOUS
<1>2. PICK s : s = MdState(t, x, y, z)
  OBVIOUS
<1>3. n \in Node /\ t.type = "mediator" /\ MdTask(n, s)
  BY <1>1, <1>2, NodeFacts DEF MediatorTicks
<1>4. /\ x \in {t.payerState, "payer_waiting_secret_reveal", "payer_expired"}
      /\ PayeeExpires(n, y)
  BY <1>1 DEF MediatorTicks, PayerMoves
<1>5. \A j \in Node : j # n => task'[j] = task[j]
  BY <1>3 DEF MdTask, TaskSet
<1>6. CASE y = t.payeeState /\ KeptBut({}, {}, {})
  <2>1. Settling(n, {}, {}, {})
    BY <1>5, <1>6 DEF Settling
  <2>2. PICK R, S : R = {} /\ S = {}
    OBVIOUS
  <2>3. /\ Base /\ Shape /\ Clocks /\ n \in Node /\ t = task[n] /\ t.type = "mediator"
        /\ Settling(n, {}, R, S) /\ s = MdState(t, x, y, z) /\ MdTask(n, s)
        /\ y = t.payeeState /\ (t.secretKnown => z)
        /\ x = "payer_secret_revealed" => t.payerState = x
    BY <1>1, <1>2, <1>3, <1>4, <1>6, <2>1, <2>2
  <2> QED BY ONLY <2>3, PairStays
<1>7. CASE /\ y = "payee_expired" /\ block'[n] >= t.lock.expiration
           /\ \E m : m.type = "LockExpired" /\ OurSettles(q, m)
           /\ KeptBut({q}, {}, {})
  <2>1. PICK m : m.type = "LockExpired" /\ OurSettles(q, m)
    BY <1>7
  <2>2. /\ q \in Link /\ q[1] = n
        /\ \A j \in Promises(q) : j.lock.expiration = t.lock.expiration
    BY <1>1, <1>3, PairFacts
  <2>3. \A j \in Promises(q) : block'[n] >= j.lock.expiration
    BY <1>7, <2>2
  <2>4. Settling(n, {q}, {}, {})
    BY <1>5, <1>7, <2>1, <2>2, <2>3 DEF Settling
  <2>5. ~Sent(q, "Unlock")'
    <3>1. ~Sent(q, "Unlock")
      BY <2>1, <2>2, OneEnd DEF OurSettles
    <3> QED BY <2>1, <3>1 DEF OurSettles, SentEnd
  <2>6. MediatorTaskOK(n, t)
    BY <1>1, <1>3, MediatorFacts
  <2>7. x = "payer_secret_revealed" => z
    BY <1>1, <1>3, <1>4, <2>6 DEF MediatorTaskOK
  <2>8. PICK O, R, S : O = {q} /\ R = {} /\ S = {}
    OBVIOUS
  <2>9. /\ n \in Node /\ t = task[n] /\ t.type = "mediator" /\ q = <<n, t.payee>>
        /\ Settling(n, O, R, S) /\ s = MdState(t, x, y, z) /\ MdTask(n, s)
    BY <1>1, <1>2, <1>3, <2>4, <2>8
  <2>10. /\ y \in {"payee_secret_revealed", "payee_balance_proof"} => z
         /\ x = "payer_secret_revealed" => z
         /\ y = "payee_balance_proof" <=> Sent(q, "Unlock")'
         /\ y = "payee_secret_revealed" => block'[n] + RevealTimeout >= t.lock.expiration
    BY <1>7, <2>5, <2>7
  <2>11. PairMove(n, t, q, O, R, S, x, y, z, s)
    BY <2>9, <2>10 DEF PairMove
  <2> QED BY <2>11, PairMoves
<1> QED BY <1>1, <1>4, <1>6, <1>7 DEF PayeeExpires

\* A step that makes a promise: its path is given, and nothing is settled.
LEMMA PromisingNext ==
  ASSUME Base, Shape, Clocks, NEW n \in Node, NEW O, NEW R, KeptBut(O, R, {}),
         \A l \in Link : l \in O => l[1] = n /\ \E m : OurPromises(l, m),
         \A l \in Link : l \in R => l[2] = n /\ \E m : RecTakes(l, m),
         \A k \in Node : k # n => task'[k] = task[k],
         StepsOK => Path'
  PROVE  /\ Onward /\ Local(n) /\ Path'
         /\ TaskOK(n)' => Base'
<1>1. StepsOK
  <2>1. \A l \in Link : l \in O => OurStep(l)
    BY DEF OurStep
  <2>2. \A l \in Link : l \in R => RecStep(l)
    BY DEF RecStep
  <2> QED BY <2>1, <2>2, KeptSteps
<1>2. Onward /\ Path'
  BY <1>1 DEF Onward
<1>3. Local(n)
  BY DEF KeptBut, Local
<1>4. RevealGrows
  BY DEF RevealGrows, KeptBut, RevealKept
<1>5. ExpiresLate
  <2>1. \A l \in Link : EndsKept(l)
    BY DEF KeptBut, OurPromises, SentPromise
  <2> QED BY <2>1 DEF ExpiresLate, EndsKept
<1>6. TaskOK(n)' => Base'
  BY <1>2, <1>3, <1>4, <1>5, BaseNext
<1> QED BY <1>2, <1>3, <1>6

\* The payment starts.
LEMMA StartsNext ==
  ASSUME Base, Shape, Clocks, NEW l, NEW m, Starts(l, m)
  PROVE  Onward /\ Base'
<1>1. /\ Initiator \in Node /\ Initiator # Target /\ Initiator \notin Mediators
  BY NodeFacts
<1>2. /\ l \in Link /\ l[1] = Initiator /\ OurPromises(l, m) /\ KeptBut({l}, {}, {})
      /\ TaskSet(Initiator, InitiatorTask(l[2], m.lock)) /\ m.type = "LockedTransfer"
      /\ NothingSent
  BY DEF Starts
<1>3. Onward /\ (TaskOK(Initiator)' => Base')
  <2>1. StepsOK => Path'
    BY StartPath
  <2>2. PICK O, R : O = {l} /\ R = {}
    OBVIOUS
  <2>3. /\ Base /\ Shape /\ Clocks /\ Initiator \in Node /\ KeptBut(O, R, {})
        /\ \A j \in Link : j \in O => j[1] = Initiator /\ \E y : OurPromises(j, y)
        /\ \A j \in Link : j \in R => j[2] = Initiator /\ \E y : RecTakes(j, y)
        /\ \A k \in Node : k # Initiator => task'[k] = task[k]
        /\ StepsOK => Path'
    BY <1>1, <1>2, <2>1, <2>2 DEF TaskSet
  <2> QED BY ONLY <2>3, PromisingNext
<1>4. PICK t : t = InitiatorTask(l[2], m.lock)
  OBVIOUS
<1>5. /\ t.type = "initiator" /\ t.to = l[2] /\ t.lock = m.lock /\ task'[Initiator] = t
  BY <1>2, <1>4 DEF InitiatorTask, TaskSet
<1>6. /\ l = <<Initiator, t.to>> /\ Mirror(l) \in Link /\ Mirror(Mirror(l)) = l
      /\ Mirror(l) # l
  BY <1>2, <1>5, LinkFacts
<1>7. Promises(l)' = {m} /\ Transfers(l)' = {m}
  <2>1. Promises(l) = {} /\ Transfers(l) = {}
    BY <1>2, LinkGood DEF NothingSent
  <2> QED BY <1>2, <2>1 DEF OurPromises, SentPromise
<1>8. ourState'[l].balanceProof.nonce = 1
  BY <1>2 DEF OurPromises
<1>9. partnerState'[l].balanceProof.nonce = 0
  <2>1. Promises(Mirror(l)) = {}
    BY <1>6, <1>2 DEF NothingSent
  <2>2. partnerState[l].balanceProof.nonce = 0
    BY <1>6, <2>1, LinkGood
  <2>3. RecKept(Mirror(l))
    BY <1>2, <1>6 DEF KeptBut
  <2> QED BY <1>6, <2>2, <2>3 DEF RecKept, Kept
<1>10. InitiatorTaskOK(task[Initiator])'
  <2>1. /\ <<Initiator, t.to>> \in Link
        /\ Transfers(<<Initiator, t.to>>)' # {}
        /\ \A y \in Transfers(<<Initiator, t.to>>)' : y.lock = t.lock
        /\ ourState'[<<Initiator, t.to>>].balanceProof.nonce = 1
        /\ partnerState'[<<Initiator, t.to>>].balanceProof.nonce = 0
    <3>1. \A y \in Transfers(l)' : y.lock = t.lock
      BY <1>5, <1>7
    <3>2. Transfers(l)' # {}
      BY <1>7
    <3>3. <<Initiator, t.to>> = l
      BY <1>6
    <3> QED BY <1>2, <3>1, <3>2, <3>3, <1>8, <1>9
  <2> QED BY <1>5, <2>1 DEF InitiatorTaskOK
<1>11. TaskOK(Initiator)'
  BY <1>1, <1>10 DEF TaskOK
<1> QED BY <1>3, <1>11

\* The payment is refused.
LEMMA RefusedNext ==
  ASSUME Base, Shape, Clocks, Refused
  PROVE  Onward /\ Base'
<1>1. Initiator \in Node /\ Target \in Node /\ Initiator # Target
  BY NodeFacts
<1>2. Settling(Initiator, {}, {}, {}) /\ Settling(Target, {}, {}, {})
  BY DEF Refused, TasksKept, Settling
<1>3. Onward /\ Local(Target) /\ (TaskOK(Target)' => Base')
  BY <1>1, <1>2, SettlingNext
<1>4. Local(Initiator)
  BY <1>1, <1>2, SettlingNext
<1>5. TaskOK(Target)'
  BY <1>1, <1>3, <1>4, OtherTasks
<1> QED BY <1>3, <1>5

\* The transfer that a mediator takes is got.
LEMMA TakenIsGot ==
  ASSUME Base, NEW l, NEW m, MediatorTakes(l, m), PromisesKept(l), NEW lock, lock = m.lock
  PROVE  /\ Got(l, lock)' /\ l \in Link /\ l[2] \in Mediators /\ l[2] \in Node
         /\ l = <<l[1], l[2]>> /\ Mirror(l) \in Link /\ Mirror(l)[1] = l[2] /\ Mirror(l) # l
         /\ Mirror(l)[2] = l[1] /\ l[1] # l[2]
<1>1. /\ l \in Link /\ l[2] \in Mediators /\ m \in Transfers(l) /\ RecTakes(l, m)
  BY DEF MediatorTakes
<1>2. LinkOK(l) /\ Transfers(l) \subseteq Promises(l)
  BY <1>1, LinkGood
<1>3. m.bp.nonce = 1 /\ \A x \in Transfers(l) : x = m
  BY <1>1, <1>2 DEF LinkOK
<1>4. Accepted(l)'
  BY <1>1, <1>3 DEF Accepted, RecTakes
<1>5. Got(l, lock)'
  BY <1>1, <1>3, <1>4 DEF Got, PromisesKept
<1> QED BY <1>1, <1>5, LinkFacts

\* A mediator takes a transfer and makes a promise for it.
LEMMA PairStarts ==
  ASSUME Base, Shape, Clocks, NEW l, NEW m, MediatorTakes(l, m), NEW k \in Link,
         k[1] = l[2], NEW x, OurPromises(k, x), NEW O, O = {k}, NEW R, R = {l},
         KeptBut(O, R, {}), NEW t, t = PairTask(l[1], k[2], m.lock), TaskSet(l[2], t),
         StepsOK => Path'
  PROVE  Onward /\ Base'
<1>1. PICK n, lock : n = l[2] /\ lock = m.lock
  OBVIOUS
<1>2. l \in Link /\ l[2] \in Node /\ k # l
  BY NodeFacts, LinkFacts DEF MediatorTakes
<1>3. PromisesKept(l)
  BY <1>2 DEF KeptBut
<1>4. /\ Got(l, lock)' /\ n \in Mediators /\ n \in Node /\ l = <<l[1], n>>
  BY <1>1, <1>3, TakenIsGot
<1>5. Onward /\ Path' /\ (TaskOK(n)' => Base')
  <2>1. /\ Base /\ Shape /\ Clocks /\ n \in Node /\ KeptBut(O, R, {})
        /\ \A j \in Link : j \in O => j[1] = n /\ \E y : OurPromises(j, y)
        /\ \A j \in Link : j \in R => j[2] = n /\ \E y : RecTakes(j, y)
        /\ \A j \in Node : j # n => task'[j] = task[j]
        /\ StepsOK => Path'
    BY <1>1, <1>4 DEF TaskSet, MediatorTakes
  <2> QED BY ONLY <2>1, PromisingNext
<1>6. /\ t.type = "mediator" /\ t.payer = l[1] /\ t.payee = k[2] /\ t.lock = lock
      /\ t.payerState = "payer_pending" /\ t.payeeState = "payee_pending"
  BY <1>1 DEF PairTask
<1>7. k = <<n, t.payee>> /\ l = <<t.payer, n>>
  BY <1>1, <1>4, <1>6, LinkFacts
<1>8. Promises(k)' # {}
  BY DEF OurPromises, SentPromise
<1>9. ~Sent(k, "Unlock")'
  <2>1. ~Sent(k, "Unlock")
    BY OneEnd DEF OurPromises
  <2> QED BY <2>1 DEF OurPromises, SentPromise, EndsKept
<1>10. MdTask(n, t)
  BY <1>1 DEF MdTask
<1>11. Got(l, t.lock)'
  BY <1>4, <1>6 DEF Got
<1>12. /\ <<n, t.payee>> \in Link /\ Promises(<<n, t.payee>>)' # {}
       /\ t.payeeState \in {"payee_secret_revealed", "payee_balance_proof"} => t.secretKnown
       /\ t.payerState = "payer_secret_revealed" => t.secretKnown
       /\ t.payeeState = "payee_balance_proof" <=> Sent(<<n, t.payee>>, "Unlock")'
       /\ t.payeeState = "payee_secret_revealed" =>
            block'[n] + RevealTimeout >= t.lock.expiration
  <2>1. <<n, t.payee>> = k
    BY <1>7
  <2> QED BY <1>6, <1>8, <1>9, <2>1
<1>13. /\ Base /\ Onward /\ Path' /\ n \in Mediators /\ t.type \in {"mediator", "waiting"}
       /\ l = <<t.payer, n>> /\ t.type # "waiting"
  BY <1>4, <1>5, <1>6, <1>7
<1>14. TaskOK(n)'
  BY <1>10, <1>11, <1>12, <1>13, MediatorTaskNext
<1> QED BY <1>5, <1>14

\* A mediator passes its transfer on.
LEMMA MediatorForwardsNext ==
  ASSUME Base, Shape, Clocks, NEW l, NEW m, NEW k, NEW x, MediatorForwards(l, m, k, x)
  PROVE  Onward /\ Base'
<1>1. StepsOK => Path'
  BY ForwardPath
<1>2. PICK O, R, t : O = {k} /\ R = {l} /\ t = PairTask(l[1], k[2], m.lock)
  OBVIOUS
<1>3. /\ MediatorTakes(l, m) /\ k \in Link /\ k[1] = l[2] /\ OurPromises(k, x)
      /\ KeptBut(O, R, {}) /\ TaskSet(l[2], t)
  BY <1>2 DEF MediatorForwards
<1> QED BY <1>1, <1>2, <1>3, PairStarts

\* A mediator sends its transfer back.
LEMMA MediatorRefundsNext ==
  ASSUME Base, Shape, Clocks, NEW l, NEW m, NEW x, MediatorRefunds(l, m, x)
  PROVE  Onward /\ Base'
<1>1. StepsOK => Path'
  BY RefundPath
<1>2. PICK k, O, R, t : k = Mirror(l) /\ O = {k} /\ R = {l} /\ t = PairTask(l[1], k[2], m.lock)
  OBVIOUS
<1>3. l \in Link /\ k \in Link /\ k[1] = l[2] /\ k[2] = l[1]
  BY <1>2, LinkFacts DEF MediatorRefunds, MediatorTakes
<1>4. /\ MediatorTakes(l, m) /\ OurPromises(k, x) /\ KeptBut(O, R, {}) /\ TaskSet(l[2], t)
  BY <1>2, <1>3 DEF MediatorRefunds
<1> QED BY <1>1, <1>2, <1>3, <1>4, PairStarts

\* A mediator keeps its transfer waiting.
LEMMA MediatorWaitsNext ==
  ASSUME Base, Shape, Clocks, NEW l, NEW m, MediatorWaits(l, m)
  PROVE  Onward /\ Base'
<1>1. PICK n, lock, t : n = l[2] /\ lock = m.lock /\ t = WaitingTask(l[1], m.lock)
  OBVIOUS
<1>2. l \in Link /\ MediatorTakes(l, m) /\ RecTakes(l, m) /\ KeptBut({}, {l}, {})
      /\ TaskSet(n, t)
  BY <1>1 DEF MediatorWaits, MediatorTakes
<1>3. \A j \in Link : PromisesKept(j)
  BY <1>2 DEF KeptBut
<1>4. Got(l, lock)' /\ n \in Mediators /\ n \in Node /\ l = <<l[1], n>>
  BY <1>1, <1>2, <1>3, TakenIsGot
<1>5. Settling(n, {}, {l}, {})
  BY <1>1, <1>2 DEF Settling, TaskSet
<1>6. Onward /\ Path' /\ (TaskOK(n)' => Base')
  BY <1>4, <1>5, SettlingNext
<1>7. t.type = "waiting" /\ t.payer = l[1] /\ t.lock = lock
  BY <1>1 DEF WaitingTask
<1>8. Got(l, t.lock)'
  BY <1>4, <1>7 DEF Got
<1>9. \A j \in Link : j[1] = n => Promises(j)' = {}
  BY <1>1, <1>2, <1>3 DEF MediatorTakes, PromisesKept
<1>10. /\ Base /\ Onward /\ Path' /\ n \in Mediators /\ t.type \in {"mediator", "waiting"}
       /\ l = <<t.payer, n>> /\ t.type # "mediator" /\ MdTask(n, t)
  BY <1>2, <1>4, <1>6, <1>7 DEF MdTask
<1>11. TaskOK(n)'
  BY <1>8, <1>9, <1>10, MediatorTaskNext
<1> QED BY <1>6, <1>11

-----------------------------------------------------------------------------
(* The steps.                                                              *)

\* The initiator pays since it was shown the secret or saw it on the chain.
InitiatorPays(l) ==
  InitiatorUnlocks(l) /\ (mined # 0 \/ Sent(Mirror(l), "RevealSecret"))

\* What a message does.
MessageStep ==
  \/ Idle
  \/ \E l : InitiatorPays(l) \/ TargetGivesUp(l)
  \/ \E l, m : \/ RefundTaken(l, m) \/ TargetTakes(l, m) \/ TargetTakesLate(l, m)
               \/ TargetIsPaid(l, m) \/ TargetLoses(l, m)
  \/ \E l, m : MediatorWaits(l, m) \/ MediatorIsPaid(l, m) \/ MediatorLoses(l, m)
  \/ \E l, m, x : MediatorRefunds(l, m, x)
  \/ \E l, m, k, x : MediatorForwards(l, m, k, x)
  \/ \E n, k, q, x : MediatorPays(n, k, q, x) \/ MediatorTooLate(n, k, q, x)
  \/ \E l, x : MediatorMisses(l, x)
  \/ \E n : WaiterMoves(n)

\* What the user's call does.
PayStep == notices[Initiator] = {} /\ ((\E l, m : Starts(l, m)) \/ Refused)

\* What the registration of the secret does at node n.
SeenStep(n) ==
  \/ Idle /\ task[n] = NoTask
  \/ Idle /\ n = Initiator /\ ~(mined <= task[n].lock.expiration)
  \/ \E l : n = Initiator /\ InitiatorPays(l)
  \/ n = Target /\ TargetMoves("reveal_secret")
  \/ MediatorSees(n) \/ WaiterMoves(n)

\* What a block does at node n.
TickStep(n) ==
  \/ Idle /\ task[n] = NoTask /\ mineBy' = mineBy
  \/ /\ n = Initiator /\ mineBy' = mineBy
     /\ Idle \/ InitiatorForgets \/ \E l : InitiatorExpires(l)
  \/ n = Target /\ TargetTicks
  \/ \E x, y : MediatorTicks(n, x, y)
  \/ WaiterMoves(n) /\ mineBy' = mineBy

\* Receive and ReceiveAgain: a message is handled.
LEMMA HandleEffect ==
  ASSUME Base, NEW l \in Link, NEW m \in Range(sent[l]), Handle(l[2], l[1], m)
  PROVE  Shape /\ MessageStep
<1>1. l[2] \in Node /\ l[1] \in Node
  BY LinkFacts
<1>2. CASE ImStateTransition(l[2], l[1], m)
  <2>1. CASE m.type = "RefundTransfer" /\ ImHandleTransferRefundCancelRoute(l[2], l[1], m)
    BY <2>1, ImRefundEffect DEF MessageStep
  <2>2. CASE m.type = "RevealSecret" /\ ImHandleOffchainSecretReveal(l[2], l[1])
    <3>1. /\ Shape /\ l[2] = Initiator
          /\ Idle \/ InitiatorUnlocks(<<Initiator, l[1]>>)
      BY <1>1, <2>2, ImRevealEffect
    <3>2. Mirror(<<Initiator, l[1]>>) = l /\ Sent(l, "RevealSecret")
      BY <2>2, <3>1, LinkFacts DEF Sent
    <3> QED BY <3>1, <3>2 DEF MessageStep, InitiatorPays
  <2>3. CASE m.type = "LockExpired" /\ ImHandleLockExpired(l[2], l[1], m)
    BY <1>1, <2>3, ImExpiredEffect DEF MessageStep
  <2> QED BY <1>2, <2>1, <2>2, <2>3 DEF ImStateTransition
<1>3. CASE TgStateTransition(l[2], l[1], m)
  <2>1. CASE m.type = "LockedTransfer" /\ HandleInitTarget(l[2], l[1], m)
    BY <2>1, TargetInitEffect DEF MessageStep
  <2>2. CASE m.type = "Unlock" /\ TgHandleUnlock(l[2], l[1], m)
    BY <2>2, TargetUnlockEffect DEF MessageStep
  <2>3. CASE m.type = "LockExpired" /\ TgHandleLockExpired(l[2], l[1], m)
    BY <2>3, TargetExpiredEffect DEF MessageStep
  <2> QED BY <1>3, <2>1, <2>2, <2>3 DEF TgStateTransition
<1>4. CASE MdStateTransition(l[2], l[1], m)
  <2>1. CASE m.type = "LockedTransfer" /\ HandleInitMediator(l[2], l[1], m)
    BY <2>1, MediatorInitEffect DEF MessageStep
  <2>2. CASE m.type = "RefundTransfer" /\ MdHandleRefundTransfer(l[2])
    BY <1>1, <2>2, MediatorRefundEffect DEF MessageStep
  <2>3. CASE m.type = "RevealSecret" /\ handleOffChainSecretReveal(l[2], l[1])
    <3>1. Sent(l, "RevealSecret")
      BY <2>3 DEF Sent
    <3>2. PICK k, q : k = <<task[l[2]].payer, l[2]>> /\ q = <<l[2], task[l[2]].payee>>
      OBVIOUS
    <3>3. Shape /\ (Idle \/ \E x : MediatorPays(l[2], k, q, x) \/ MediatorTooLate(l[2], k, q, x))
      BY <2>3, <3>1, <3>2, MediatorLearnEffect
    <3> QED BY <3>3 DEF MessageStep
  <2>4. CASE m.type = "Unlock" /\ handleUnlock(l[2], l[1], m)
    BY <2>4, MediatorUnlockEffect DEF MessageStep
  <2>5. CASE m.type = "LockExpired" /\ handleLockExpired(l[2], l[1], m)
    BY <2>5, MediatorExpiredEffect DEF MessageStep
  <2> QED BY <1>4, <2>1, <2>2, <2>3, <2>4, <2>5 DEF MdStateTransition
<1>5. CASE UNCHANGED <<nodeVars, sent>>
  BY <1>1, <1>5, IdleStep DEF MessageStep, nodeVars
<1> QED BY <1>2, <1>3, <1>4, <1>5 DEF Handle

\* The steps that leave the chain alone, those of the chain, and those of one
\* node's view of it.
Still == UNCHANGED <<block, seen, height, mined, mineBy>>
NodeStep == Still /\ (MessageStep \/ PayStep)
Sees(n) ==
  /\ mined = block[n] + 1 /\ ~seen[n] /\ seen' = [seen EXCEPT ![n] = TRUE]
  /\ UNCHANGED <<block, height, mined, mineBy>> /\ SeenStep(n)
Ticks(n) ==
  /\ block[n] < height /\ (mined = block[n] + 1 => seen[n])
  /\ block' = [block EXCEPT ![n] = @ + 1]
  /\ UNCHANGED <<seen, height, mined>> /\ TickStep(n)
Step ==
  /\ Shape /\ Clocks
  /\ \/ NodeStep
     \/ \E n \in Node : Sees(n)
     \/ \E n \in Node : Ticks(n)
     \/ MineBlock /\ Idle

\* Next makes such steps.
LEMMA NextSteps ==
  ASSUME Base, Next
  PROVE  Step
<1>1. /\ deposit \in Deposits /\ sent \in [Link -> Seq(Message)] /\ received \in [Link -> Nat]
      /\ block \in [Node -> Nat] /\ seen \in [Node -> BOOLEAN]
      /\ height \in Nat /\ mined \in Nat /\ mineBy \in Nat
      /\ \A l \in Link : received[l] <= Len(sent[l])
  BY DEF Base, TypeOK, LinkInv
<1>2. ASSUME Shape, received' = received
      PROVE  /\ received' \in [Link -> Nat] /\ \A l \in Link : received'[l] <= Len(sent'[l])
  <2> SUFFICES ASSUME NEW l \in Link PROVE received'[l] <= Len(sent'[l])
    BY <1>1, <1>2
  <2>1. /\ received[l] <= Len(sent[l]) /\ Len(sent[l]) <= Len(sent'[l]) /\ received'[l] = received[l]
        /\ sent[l] \in Seq(Message) /\ sent'[l] \in Seq(Message) /\ received[l] \in Nat
    BY <1>1, <1>2 DEF Shape
  <2> QED BY <2>1
<1>3. ASSUME NEW hop \in Node, MediaTransfer(hop) PROVE Step
  <2>1. Shape /\ PayStep
    BY <1>3, MediaTransferEffect DEF PayStep
  <2>2. Still /\ deposit' = deposit /\ received' = received
    BY <1>3 DEF MediaTransfer, Still, chainVars
  <2>3. Clocks
    BY <1>1, <1>2, <2>1, <2>2 DEF Clocks, Still
  <2> QED BY <2>1, <2>2, <2>3 DEF Step, NodeStep
<1>4. ASSUME NEW l \in Link, Receive(l) PROVE Step
  <2>1. PICK i : i = received[l] + 1
    OBVIOUS
  <2>2. /\ i \in 1 .. Len(sent[l]) /\ sent[l] \in Seq(Message) /\ received[l] \in Nat
        /\ received' = [received EXCEPT ![l] = i]
    BY <1>1, <1>4, <2>1 DEF Receive
  <2>3. sent[l][i] \in Range(sent[l])
    BY <2>2, RangeSeq
  <2>4. Handle(l[2], l[1], sent[l][i])
    BY <1>4, <2>1 DEF Receive
  <2>5. Shape /\ MessageStep
    BY <2>3, <2>4, HandleEffect
  <2>6. Still /\ deposit' = deposit
    BY <1>4 DEF Receive, Still, chainVars
  <2>7. \A k \in Link : received'[k] <= Len(sent'[k])
    <3> SUFFICES ASSUME NEW k \in Link PROVE received'[k] <= Len(sent'[k])
      OBVIOUS
    <3>1. /\ received[k] <= Len(sent[k]) /\ Len(sent[k]) <= Len(sent'[k])
          /\ sent[k] \in Seq(Message) /\ sent'[k] \in Seq(Message) /\ received[k] \in Nat
      BY <1>1, <2>5 DEF Shape
    <3>2. received'[k] = IF k = l THEN i ELSE received[k]
      BY <1>1, <2>2
    <3> QED BY <2>2, <3>1, <3>2
  <2>8. received' \in [Link -> Nat]
    BY <1>1, <2>2
  <2>9. Clocks
    BY <1>1, <2>6, <2>7, <2>8 DEF Clocks, Still
  <2> QED BY <2>5, <2>6, <2>9 DEF Step, NodeStep
<1>5. ASSUME NEW l \in Link, ReceiveAgain(l) PROVE Step
  <2>1. PICK i \in 1 .. received[l] : Handle(l[2], l[1], sent[l][i])
    BY <1>5 DEF ReceiveAgain
  <2>2. i \in 1 .. Len(sent[l]) /\ sent[l] \in Seq(Message)
    BY <1>1, <2>1
  <2>3. sent[l][i] \in Range(sent[l])
    BY <2>2, RangeSeq
  <2>4. Shape /\ MessageStep
    BY <2>1, <2>3, HandleEffect
  <2>5. Still /\ deposit' = deposit /\ received' = received
    BY <1>5 DEF ReceiveAgain, Still, chainVars
  <2>6. Clocks
    BY <1>1, <1>2, <2>4, <2>5 DEF Clocks, Still
  <2> QED BY <2>4, <2>5, <2>6 DEF Step, NodeStep
<1>6. ASSUME NEW n \in Node, HandleSecretRevealed(n) PROVE Step
  <2>1. /\ mined = block[n] + 1 /\ ~seen[n] /\ seen' = [seen EXCEPT ![n] = TRUE]
        /\ deposit' = deposit /\ received' = received /\ block' = block
        /\ height' = height /\ mined' = mined /\ mineBy' = mineBy
    BY <1>6 DEF HandleSecretRevealed, chainVars
  <2>2. mined # 0
    BY <1>1, <2>1
  <2>3. Shape /\ SeenStep(n)
    <3>1. CASE ImHandleOnChainSecretReveal(n)
      <4>1. /\ Shape /\ n = Initiator
            /\ \/ Idle /\ ~(mined <= task[Initiator].lock.expiration)
               \/ InitiatorUnlocks(<<Initiator, task[Initiator].to>>)
        BY <3>1, ImOnChainEffect
      <4> QED BY <2>2, <4>1 DEF SeenStep, InitiatorPays
    <3>2. CASE TgHandleOnChainSecretReveal(n)
      BY <2>2, <3>2, TargetOnChainEffect DEF SeenStep
    <3>3. CASE handleOnChainSecretReveal(n)
      BY <2>1, <3>3, MediatorOnChainEffect DEF SeenStep
    <3>4. CASE task[n] = NoTask /\ UNCHANGED <<nodeVars, sent>>
      BY <3>4, IdleStep DEF SeenStep, nodeVars
    <3> QED BY <1>6, <3>1, <3>2, <3>3, <3>4 DEF HandleSecretRevealed
  <2>4. Sees(n)
    BY <2>1, <2>3 DEF Sees
  <2>5. Clocks
    <3>1. /\ received' \in [Link -> Nat] /\ \A l \in Link : received'[l] <= Len(sent'[l])
      BY <1>2, <2>1, <2>3
    <3>2. seen' \in [Node -> BOOLEAN]
      BY <1>1, <2>1
    <3>3. \A k \in Node : block[k] <= block'[k]
      BY <1>1, <2>1
    <3> QED BY <1>1, <2>1, <3>1, <3>2, <3>3 DEF Clocks
  <2> QED BY <2>3, <2>4, <2>5 DEF Step
<1>7. ASSUME NEW n \in Node, handleBlockForNode(n) PROVE Step
  <2>1. /\ block[n] < height /\ (mined = block[n] + 1 => seen[n])
        /\ block' = [block EXCEPT ![n] = @ + 1]
        /\ deposit' = deposit /\ received' = received /\ seen' = seen
        /\ height' = height /\ mined' = mined
    BY <1>7 DEF handleBlockForNode
  <2>2. block' \in [Node -> Nat] /\ block'[n] \in Nat
        /\ \A k \in Node : block[k] <= block'[k]
    BY <1>1, <2>1
  <2>3. Shape /\ TickStep(n) /\ mineBy' \in Nat
    <3>1. ASSUME mineBy' = mineBy \/ RegisterSecret PROVE mineBy' \in Nat
      BY <1>1, <3>1, MediationAssumption DEF RegisterSecret
    <3>2. CASE ImHandleBlock(n)
      <4>1. /\ Shape /\ n = Initiator /\ mineBy' = mineBy
            /\ \/ Idle \/ InitiatorForgets
               \/ InitiatorExpires(<<Initiator, task[Initiator].to>>)
        BY <2>2, <3>2, ImBlockEffect
      <4> QED BY <3>1, <4>1 DEF TickStep
    <3>3. CASE TgHandleBlock(n)
      <4>1. Shape /\ n = Target /\ TargetTicks
        BY <2>2, <3>3, TargetBlockEffect
      <4>2. mineBy' = mineBy \/ RegisterSecret
        BY <4>1 DEF TargetTicks
      <4> QED BY <3>1, <4>1, <4>2 DEF TickStep
    <3>4. CASE MdHandleBlock(n)
      <4>1. Shape /\ \E x, y : MediatorTicks(n, x, y)
        BY <2>2, <3>4, MediatorBlockEffect
      <4>2. mineBy' = mineBy \/ RegisterSecret
        BY <4>1 DEF MediatorTicks, PayerMoves
      <4> QED BY <3>1, <4>1, <4>2 DEF TickStep
    <3>5. CASE MdHandleBlockWaiting(n)
      BY <3>1, <3>5, WaiterBlockEffect DEF TickStep
    <3>6. CASE task[n] = NoTask /\ UNCHANGED <<nodeVars, sent, mineBy>>
      BY <3>1, <3>6, IdleStep DEF TickStep, nodeVars
    <3> QED BY <1>7, <3>2, <3>3, <3>4, <3>5, <3>6 DEF handleBlockForNode
  <2> QED BY <1>1, <1>2, <2>1, <2>2, <2>3 DEF Step, Ticks, Clocks
<1>8. CASE MineBlock
  <2>1. UNCHANGED <<endVars, task, sent, notices, received, deposit, block, seen>>
    BY <1>8 DEF MineBlock, nodeVars
  <2>2. Shape /\ Idle
    BY <2>1, IdleStep, NodeFacts
  <2>3. height' \in Nat /\ mined' \in Nat /\ mineBy' \in Nat
    BY <1>1, <1>8 DEF MineBlock
  <2>4. Clocks
    BY <1>1, <1>2, <2>1, <2>2, <2>3 DEF Clocks
  <2> QED BY <1>8, <2>2, <2>4 DEF Step
<1> QED BY <1>3, <1>4, <1>5, <1>6, <1>7, <1>8 DEF Next

\* The invariant after a step.
LEMMA StepNext ==
  ASSUME Base, Step
  PROVE  Onward /\ Base'
<1>1. Shape /\ Clocks
  BY DEF Step
<1>2. CASE MessageStep
  BY <1>1, <1>2, IdleNext, InitiatorUnlocksNext, RefundTakenNext, TargetTakesNext,
     TargetDoneNext, TargetLosesNext, MediatorWaitsNext, MediatorIsPaidNext,
     MediatorLosesNext, MediatorRefundsNext, MediatorForwardsNext, MediatorPaysNext,
     MediatorTooLateNext, MediatorMissesNext, WaiterMovesNext
     DEF MessageStep, InitiatorPays
<1>3. CASE PayStep
  BY <1>1, <1>3, StartsNext, RefusedNext DEF PayStep
<1>4. ASSUME NEW n \in Node, SeenStep(n) PROVE Onward /\ Base'
  BY <1>1, <1>4, IdleNext, InitiatorUnlocksNext, TargetMovesNext, MediatorSeesNext,
     WaiterMovesNext DEF SeenStep, InitiatorPays
<1>5. ASSUME NEW n \in Node, TickStep(n) PROVE Onward /\ Base'
  BY <1>1, <1>5, IdleNext, InitiatorForgetsNext, InitiatorExpiresNext, TargetMovesNext,
     MediatorTicksNext, WaiterMovesNext DEF TickStep, TargetTicks
<1>6. CASE Idle
  BY <1>1, <1>6, IdleNext
<1> QED BY <1>2, <1>3, <1>4, <1>5, <1>6 DEF Step, NodeStep, Sees, Ticks

\* Nothing has happened yet.
LEMMA InitFacts ==
  ASSUME Init
  PROVE  /\ NothingSent /\ \A l \in Link : Transfers(l) = {} /\ \A type : ~Sent(l, type)
         /\ \A n \in Node : task[n] = NoTask /\ notices[n] = {}
         /\ \A n \in Node : block[n] = 0 /\ ~seen[n]
         /\ height = 0 /\ mined = 0 /\ mineBy = 0
         /\ \A l \in Link : /\ Good(ourState[l]) /\ ourState[l].balanceProof.nonce = 0
                            /\ Good(partnerState[l])
                            /\ partnerState[l].balanceProof.nonce = 0
                            /\ partnerState[l].balanceProof.locksRoot = {}
                            /\ ourState[l].balanceProof.locksRoot = {}
<1>1. \A l \in Link : sent[l] = <<>> /\ Range(sent[l]) = {}
  BY DEF Init, Range
<1>2. NothingSent /\ \A l \in Link : Transfers(l) = {} /\ \A type : ~Sent(l, type)
  BY <1>1 DEF NothingSent, Promises, Transfers, Ends, Sent
<1>3. ASSUME NEW l \in Link
      PROVE  /\ Good(ourState[l]) /\ ourState[l].balanceProof.nonce = 0
             /\ Good(partnerState[l]) /\ partnerState[l].balanceProof.nonce = 0
             /\ partnerState[l].balanceProof.locksRoot = {}
             /\ ourState[l].balanceProof.locksRoot = {}
  <2>1. deposit \in [Link -> Amount] /\ Mirror(l) \in Link
    BY LinkFacts, MediationAssumption DEF Init
  <2>2. deposit[l] \in Amount /\ deposit[Mirror(l)] \in Amount
    BY <2>1
  <2>3. ASSUME NEW d \in Amount, NEW e, e = NewNettingChannelEndState(d)
        PROVE  Good(e) /\ e.balanceProof.nonce = 0 /\ e.balanceProof.locksRoot = {}
    <3>1. Good(e)
      BY <2>3, NewBooks DEF Good
    <3>2. e.balanceProof = NoBalanceProof
      BY <2>3 DEF NewNettingChannelEndState
    <3> QED BY <3>1, <3>2 DEF NoBalanceProof
  <2>4. /\ ourState[l] = NewNettingChannelEndState(deposit[l])
        /\ partnerState[l] = NewNettingChannelEndState(deposit[Mirror(l)])
    BY DEF Init
  <2> QED BY <2>2, <2>3, <2>4
<1> QED BY <1>2, <1>3 DEF Init

\* The invariant holds at first.
LEMMA InitBase == Init => Base
<1> SUFFICES ASSUME Init PROVE Base
  OBVIOUS
<1>1. TypeOK
  <2>1. /\ ourState \in [Link -> EndStates] /\ partnerState \in [Link -> EndStates]
    <3>1. \A l \in Link : ourState[l] \in EndStates /\ partnerState[l] \in EndStates
      BY InitFacts DEF Good
    <3> QED BY <3>1 DEF Init
  <2>2. task \in [Node -> Tasks] /\ notices \in [Node -> SUBSET Notice]
    BY DEF Init, Tasks
  <2>3. sent \in [Link -> Seq(Message)] /\ received \in [Link -> Nat]
    BY DEF Init
  <2> QED BY <2>1, <2>2, <2>3 DEF Init, TypeOK
<1>2. BooksAgree
  BY InitFacts DEF BooksAgree, Good
<1>3. LinkInv
  <2> SUFFICES ASSUME NEW l \in Link PROVE LinkOK(l) /\ received[l] <= Len(sent[l])
    BY DEF LinkInv
  <2>1. received[l] = 0 /\ Len(sent[l]) = 0
    BY DEF Init
  <2>2. /\ Promises(l) = {} /\ Ends(l) = {} /\ Mirror(l) \in Link
        /\ ourState[l].balanceProof.nonce = 0 /\ partnerState[Mirror(l)].balanceProof.nonce = 0
    BY InitFacts, LinkFacts DEF NothingSent
  <2> QED BY <2>1, <2>2 DEF LinkOK, Holds
<1>4. \A l \in Link : Promises(l) = {} /\ Transfers(l) = {} /\ \A type : ~Sent(l, type)
  BY InitFacts DEF NothingSent
<1>5. TransferOrigin /\ TransferOrder /\ PromiseOrigin /\ RevealOrigin /\ ExpiredLate
  BY <1>4 DEF TransferOrigin, TransferOrder, PromiseOrigin, RevealOrigin, ExpiredLate
<1>6. TaskInv
  <2>1. \A n \in Node : task[n].type = "none"
    BY InitFacts DEF NoTask
  <2>2. Initiator \in Node /\ Target \in Node /\ Mediators \subseteq Node
    BY NodeFacts
  <2>3. InitiatorTaskOK(task[Initiator]) /\ TargetTaskOK(task[Target])
    BY <2>1, <2>2 DEF InitiatorTaskOK, TargetTaskOK
  <2>4. \A n \in Mediators : MediatorTaskOK(n, task[n])
    BY <1>4, <2>1, <2>2 DEF MediatorTaskOK
  <2> QED BY <2>3, <2>4 DEF TaskInv
<1> QED BY <1>1, <1>2, <1>3, <1>5, <1>6 DEF Base

\* When nothing happens, nothing happens to the nodes.
LEMMA StutterIdle ==
  ASSUME Base, UNCHANGED vars
  PROVE  Shape /\ Clocks /\ Idle
<1>1. Shape /\ Idle
  BY IdleStep, NodeFacts DEF vars, nodeVars
<1>2. /\ received' = received /\ sent' = sent /\ deposit' = deposit /\ block' = block
      /\ seen' = seen /\ height' = height /\ mined' = mined /\ mineBy' = mineBy
  BY DEF vars, nodeVars, chainVars
<1>3. /\ received \in [Link -> Nat] /\ \A l \in Link : received[l] <= Len(sent[l])
      /\ block \in [Node -> Nat] /\ seen \in [Node -> BOOLEAN]
      /\ height \in Nat /\ mined \in Nat /\ mineBy \in Nat
  BY DEF Base, TypeOK, LinkInv
<1>4. Clocks
  BY <1>2, <1>3 DEF Clocks
<1> QED BY <1>1, <1>4

\* Every step keeps the invariant.
LEMMA BaseStep == Base /\ [Next]_vars => Base'
<1> SUFFICES ASSUME Base, [Next]_vars PROVE Base'
  OBVIOUS
<1>1. CASE Next
  BY <1>1, NextSteps, StepNext
<1>2. CASE UNCHANGED vars
  BY <1>2, StutterIdle, IdleNext
<1> QED BY <1>1, <1>2

\* The path, the links and the tasks of the payment are in order at every moment.
THEOREM BaseHolds == Spec => []Base
BY InitBase, BaseStep, PTL DEF Spec

\* The variables keep their types: no amount leaves its range however often a
\* payment is forwarded, refunded, unlocked and taken back.
THEOREM TypesCorrect == Spec => []TypeOK
<1>1. Base => TypeOK
  BY DEF Base
<1> QED BY <1>1, BaseHolds, PTL

\* The balance proof, the Merkle tree and the lock maps of every copy of every
\* channel on the path agree after every state change.
THEOREM BooksCorrect == Spec => []BooksAgree
<1>1. Base => BooksAgree
  BY DEF Base
<1> QED BY <1>1, BaseHolds, PTL
=============================================================================
