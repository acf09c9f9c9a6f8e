------------------------------ MODULE EndState ------------------------------
(***************************************************************************)
(* One side of a payment channel as a node keeps it (the type              *)
(* NettingChannelEndState) and the checks of transfer/channel.go on it.    *)
(* Every node holds two of these for a channel: its own (OurState) and its *)
(* record of the other participant's (PartnerState).                       *)
(*                                                                         *)
(* Hashes are taken to be free of collisions: a lock hash is the lock      *)
(* itself, a Merkle root is the set of the leaves below it, and the root   *)
(* of the empty tree is the empty set.  Signatures are not represented:    *)
(* every message of these models was signed by the node that sent it.      *)
(***************************************************************************)
EXTENDS Integers, FiniteSets

CONSTANTS
  MaxUint64,                  \* the largest TokenAmount (math.MaxUint64)
  MAXIMUM_PENDING_TRANSFERS,  \* locks one side may have pending (160)
  ConfirmBlockCount,          \* common.Config.ConfirmBlockCount
  MaxBlockDelay,              \* common.Config.MaxBlockDelay
  SecretHash                  \* the secret hashes payments may use

ASSUME EndStateAssumption ==
  /\ MaxUint64 \in Nat \ {0}
  /\ MAXIMUM_PENDING_TRANSFERS \in Nat
  /\ ConfirmBlockCount \in Nat
  /\ MaxBlockDelay \in Nat

-----------------------------------------------------------------------------
(* TokenAmount is an unsigned machine word: sums and differences wrap.     *)

Amount == 0 .. MaxUint64
Add64(x, y) == (x + y) % (MaxUint64 + 1)
Sub64(x, y) == (x - y) % (MaxUint64 + 1)
Min(x, y) == IF x < y THEN x ELSE y

Lock == [secretHash : SecretHash, amount : Amount, expiration : Nat]

BalanceProof ==
  [nonce : Nat, transferredAmount : Amount, lockedAmount : Amount,
   locksRoot : SUBSET Lock]

\* The nil balance proof: nothing was sent yet and the next nonce is 1.
NoBalanceProof ==
  [nonce |-> 0, transferredAmount |-> 0, lockedAmount |-> 0, locksRoot |-> {}]

LockSet == {locks \in SUBSET Lock : IsFiniteSet(locks)}

EndStates ==
  [contractBalance : Amount, totalWithdraw : Amount,
   balanceProof : BalanceProof, merkleTree : LockSet,
   lockedLocks : LockSet, unLockedLocks : LockSet,
   onChainUnLockedLocks : LockSet]

NewNettingChannelEndState(deposit) ==
  [contractBalance |-> deposit, totalWithdraw |-> 0,
   balanceProof |-> NoBalanceProof, merkleTree |-> {},
   lockedLocks |-> {}, unLockedLocks |-> {}, onChainUnLockedLocks |-> {}]

-----------------------------------------------------------------------------
(* The three lock maps, keyed by secret hash.                              *)

PendingLocks(end) ==
  end.lockedLocks \cup end.unLockedLocks \cup end.onChainUnLockedLocks

LocksOf(locks, h) == {l \in locks : l.secretHash = h}

IsLockLocked(end, h) == LocksOf(end.lockedLocks, h) # {}
IsSecretKnownOffChain(end, h) == LocksOf(end.unLockedLocks, h) # {}
IsSecretKnownOnChain(end, h) == LocksOf(end.onChainUnLockedLocks, h) # {}
IsSecretKnown(end, h) ==
  IsSecretKnownOffChain(end, h) \/ IsSecretKnownOnChain(end, h)

\* Mutant: the locks unlocked on the chain are forgotten.
PendingOffChain(end, h) ==
  LocksOf(end.lockedLocks \cup end.unLockedLocks, h) # {}

IsLockPending(end, h) == LocksOf(PendingLocks(end), h) # {}

\* Only meaningful when IsLockPending(end, h): the code returns nil otherwise.
GetLock(end, h) == CHOOSE l \in PendingLocks(end) : l.secretHash = h

DelUnclaimedLock(end, h) ==
  [end EXCEPT !.lockedLocks = @ \ LocksOf(@, h),
              !.unLockedLocks = @ \ LocksOf(@, h)]

DelLock(end, h) ==
  [DelUnclaimedLock(end, h) EXCEPT !.onChainUnLockedLocks = @ \ LocksOf(@, h)]

\* Learning a secret from a message moves the lock to the unclaimed ones.
RegisterSecretEndState(end, h) ==
  [end EXCEPT !.lockedLocks = @ \ LocksOf(@, h),
              !.unLockedLocks = @ \cup LocksOf(end.lockedLocks, h)]

\* A secret registered in time on the chain moves the lock there for good.
RegisterOnChainSecretEndState(end, h, revealBlock) ==
  LET pending == {l \in LocksOf(end.lockedLocks \cup end.unLockedLocks, h) :
                    l.expiration >= revealBlock}
  IN IF pending = {} THEN end
     ELSE [DelLock(end, h) EXCEPT !.onChainUnLockedLocks = @ \cup pending]

\* Mutant: expired one block early.
ExpiresEarly(end, lock, blockNumber, threshold) ==
  /\ ~IsSecretKnownOnChain(end, lock.secretHash)
  /\ blockNumber + 1 >= threshold

IsLockExpired(end, lock, blockNumber, threshold) ==
  /\ ~IsSecretKnownOnChain(end, lock.secretHash)
  /\ blockNumber >= threshold

-----------------------------------------------------------------------------
(* The Merkle tree of an end state, as the set of its leaves.  Adding a    *)
(* leaf that is there already fails, so callers check for it; removing one *)
(* that is not there leaves a tree without layers, whose root is empty.    *)

computeMerkleTreeWith(tree, lock) == tree \cup {lock}
computeMerkleTreeWithout(tree, lock) ==
  IF lock \in tree THEN tree \ {lock} ELSE {}
MerkleTreeWidth(tree) == Cardinality(tree)

-----------------------------------------------------------------------------
(* Amounts.  A sum over a set of locks is the number of unit tokens they   *)
(* hold between them, which needs no recursion.                            *)

Units(locks) == UNION {{l} \X (1 .. l.amount) : l \in locks}
SumAmounts(locks) == Cardinality(Units(locks))

getAmountLocked(end) ==
  Add64(Add64(SumAmounts(end.lockedLocks), SumAmounts(end.unLockedLocks)),
        SumAmounts(end.onChainUnLockedLocks))

getBalance(sender, receiver) ==
  Add64(Sub64(Sub64(sender.contractBalance, sender.totalWithdraw),
              sender.balanceProof.transferredAmount),
        receiver.balanceProof.transferredAmount)

\* Mutant: locks unlocked on the chain no longer count as locked.
OffChainLocked(end) ==
  IF end.balanceProof.nonce = 0 THEN 0
  ELSE Add64(SumAmounts(end.lockedLocks), SumAmounts(end.unLockedLocks))

\* The lockedAmount of getCurrentBalanceProof: recomputed from the lock maps.
currentLockedAmount(end) ==
  IF end.balanceProof.nonce = 0 THEN 0 ELSE getAmountLocked(end)

\* Mutant: what is locked can be spent again.
SpendsLocked(sender, receiver) ==
  Min(Sub64(MaxUint64, sender.balanceProof.transferredAmount),
      getBalance(sender, receiver))

GetDistributable(sender, receiver) ==
  Min(Sub64(Sub64(MaxUint64, sender.balanceProof.transferredAmount),
            currentLockedAmount(sender)),
      Sub64(getBalance(sender, receiver), getAmountLocked(sender)))

getNextNonce(end) == end.balanceProof.nonce + 1

-----------------------------------------------------------------------------
(* What a receiver accepts.  sender is its record of the other side        *)
(* (PartnerState), receiver its own side (OurState).                       *)

\* Compared after the wrap, so it rejects nothing; kept as the code has it.
IsBalanceProofSafeForOnchainOperations(bp) ==
  Add64(bp.transferredAmount, bp.lockedAmount) <= MaxUint64

IsBalanceProofUsableOnChain(bp, sender, isOpen) ==
  /\ isOpen
  /\ IsBalanceProofSafeForOnchainOperations(bp)
  /\ bp.nonce = getNextNonce(sender)

\* Mutant: the last token can not be received.
NotTheLast(bp, sender, receiver, isOpen) ==
  /\ IsBalanceProofUsableOnChain(bp, sender, isOpen)
  /\ bp.locksRoot = sender.balanceProof.locksRoot
  /\ bp.transferredAmount > sender.balanceProof.transferredAmount
  /\ bp.lockedAmount = currentLockedAmount(sender)
  /\ Sub64(bp.transferredAmount, sender.balanceProof.transferredAmount)
       < GetDistributable(sender, receiver)

IsValidDirectTransfer(bp, sender, receiver, isOpen) ==
  /\ IsBalanceProofUsableOnChain(bp, sender, isOpen)
  /\ bp.locksRoot = sender.balanceProof.locksRoot
  /\ bp.transferredAmount > sender.balanceProof.transferredAmount
  /\ bp.lockedAmount = currentLockedAmount(sender)
  /\ Sub64(bp.transferredAmount, sender.balanceProof.transferredAmount)
       <= GetDistributable(sender, receiver)

ValidLockedTransferCheck(bp, lock, sender, receiver, isOpen) ==
  /\ IsBalanceProofUsableOnChain(bp, sender, isOpen)
  /\ lock \notin sender.merkleTree
  /\ MerkleTreeWidth(computeMerkleTreeWith(sender.merkleTree, lock))
       <= MAXIMUM_PENDING_TRANSFERS
  /\ bp.locksRoot = computeMerkleTreeWith(sender.merkleTree, lock)
  /\ bp.transferredAmount = sender.balanceProof.transferredAmount
  /\ bp.lockedAmount = Add64(currentLockedAmount(sender), lock.amount)
  /\ lock.amount <= GetDistributable(sender, receiver)

IsValidUnlock(bp, h, sender, isOpen) ==
  /\ IsLockPending(sender, h)
  /\ LET lock == GetLock(sender, h)
     IN /\ IsBalanceProofUsableOnChain(bp, sender, isOpen)
        /\ bp.locksRoot = computeMerkleTreeWithout(sender.merkleTree, lock)
        /\ bp.transferredAmount =
             Add64(sender.balanceProof.transferredAmount, lock.amount)
        /\ bp.lockedAmount = Sub64(currentLockedAmount(sender), lock.amount)

\* The lock is looked up among the locked ones only: the branch for locks
\* whose secret is already known can not be reached.
IsValidLockExpired(bp, h, sender, receiver, blockNumber, isOpen) ==
  /\ IsLockLocked(sender, h)
  /\ LET lock == CHOOSE l \in sender.lockedLocks : l.secretHash = h
     IN /\ ~IsSecretKnownOnChain(receiver, h)
        /\ IsBalanceProofUsableOnChain(bp, sender, isOpen)
        /\ IsLockExpired(receiver, lock, blockNumber,
                         lock.expiration + ConfirmBlockCount - MaxBlockDelay)
        /\ bp.locksRoot = computeMerkleTreeWithout(sender.merkleTree, lock)
        /\ bp.transferredAmount = sender.balanceProof.transferredAmount
        /\ bp.lockedAmount = Sub64(currentLockedAmount(sender), lock.amount)

-----------------------------------------------------------------------------
(* The balance proofs a sender produces from its own side.                 *)

\* Mutant: a direct transfer drops the root of the pending locks.
DropsLocksRoot(our, amount) ==
  [nonce |-> getNextNonce(our),
   transferredAmount |-> Add64(amount, our.balanceProof.transferredAmount),
   lockedAmount |-> getAmountLocked(our),
   locksRoot |-> {}]

createSendDirectTransfer(our, amount) ==
  [nonce |-> getNextNonce(our),
   transferredAmount |-> Add64(amount, our.balanceProof.transferredAmount),
   lockedAmount |-> getAmountLocked(our),
   locksRoot |-> our.balanceProof.locksRoot]

createSendLockedTransfer(our, lock) ==
  [nonce |-> getNextNonce(our),
   transferredAmount |-> our.balanceProof.transferredAmount,
   lockedAmount |-> Add64(getAmountLocked(our), lock.amount),
   locksRoot |-> computeMerkleTreeWith(our.merkleTree, lock)]

CreateUnlock(our, lock) ==
  [nonce |-> getNextNonce(our),
   transferredAmount |-> Add64(lock.amount, our.balanceProof.transferredAmount),
   lockedAmount |-> Sub64(getAmountLocked(our), lock.amount),
   locksRoot |-> computeMerkleTreeWithout(our.merkleTree, lock)]

createSendExpiredLock(our, lock) ==
  [nonce |-> getNextNonce(our),
   transferredAmount |-> our.balanceProof.transferredAmount,
   lockedAmount |-> Sub64(getAmountLocked(our), lock.amount),
   locksRoot |-> computeMerkleTreeWithout(our.merkleTree, lock)]

-----------------------------------------------------------------------------
(* The side of a channel after a balance proof was issued or accepted.     *)

WithTransfer(end, bp) == [end EXCEPT !.balanceProof = bp]

WithLock(end, bp, lock) ==
  [end EXCEPT !.balanceProof = bp,
              !.merkleTree = computeMerkleTreeWith(@, lock),
              !.lockedLocks = (@ \ LocksOf(@, lock.secretHash)) \cup {lock}]

WithoutLeaf(end, bp, lock) ==
  [end EXCEPT !.balanceProof = bp,
              !.merkleTree = computeMerkleTreeWithout(@, lock)]

\* Mutant: an unlock leaves the lock among those unlocked on the chain.
UnlockKeepsOnChain(end, bp, lock) ==
  DelUnclaimedLock(WithoutLeaf(end, bp, lock), lock.secretHash)

WithUnlock(end, bp, lock) ==
  DelLock(WithoutLeaf(end, bp, lock), lock.secretHash)

WithoutExpired(end, bp, lock) ==
  DelUnclaimedLock(WithoutLeaf(end, bp, lock), lock.secretHash)

-----------------------------------------------------------------------------
\* The proof, the tree and the three maps of a side describe the same locks,
\* each lock is in one map only, and no sum wrapped around.
Books(end) ==
  LET bp == end.balanceProof
  IN /\ bp.nonce = 0 => bp = NoBalanceProof
     /\ bp.locksRoot = end.merkleTree
     /\ end.merkleTree = PendingLocks(end)
     /\ bp.lockedAmount = SumAmounts(PendingLocks(end))
     /\ bp.transferredAmount + bp.lockedAmount <= MaxUint64
     /\ \A l, k \in PendingLocks(end) : l.secretHash = k.secretHash => l = k
     /\ end.lockedLocks \cap end.unLockedLocks = {}
     /\ (end.lockedLocks \cup end.unLockedLocks)
           \cap end.onChainUnLockedLocks = {}
=============================================================================
