--------------------------- MODULE EndState_proofs ---------------------------
(***************************************************************************)
(* Facts about one side of a channel: machine arithmetic that does not     *)
(* wrap, extremal elements of sets of naturals, sums over sets of locks,   *)
(* and what each change of an end state does to its pending locks.         *)
(***************************************************************************)
EXTENDS EndState, FiniteSetTheorems, TLAPS

-----------------------------------------------------------------------------
(* Arithmetic.                                                             *)

\* Add64 and Sub64 return machine words.
LEMMA AmountFacts ==
  /\ MaxUint64 \in Amount /\ 0 \in Amount
  /\ \A x \in Amount : x \in Nat /\ x <= MaxUint64
  /\ \A x, y \in Amount : Add64(x, y) \in Amount /\ Sub64(x, y) \in Amount
BY EndStateAssumption DEF Add64, Sub64, Amount

\* A sum that fits a word is exact.
LEMMA AddExact ==
  ASSUME NEW x \in Nat, NEW y \in Nat, x + y <= MaxUint64
  PROVE  Add64(x, y) = x + y
BY EndStateAssumption DEF Add64

\* A difference of which the larger part comes first is exact.
LEMMA SubExact ==
  ASSUME NEW x \in Amount, NEW y \in Nat, y <= x
  PROVE  Sub64(x, y) = x - y
BY EndStateAssumption DEF Sub64, Amount

\* A difference wraps by one word, or not at all.
LEMMA SubCases ==
  \A x, y \in Amount : Sub64(x, y) = x - y \/ Sub64(x, y) = x - y + (MaxUint64 + 1)
<1> SUFFICES ASSUME NEW x \in Amount, NEW y \in Amount, x < y
             PROVE  Sub64(x, y) = x - y + (MaxUint64 + 1)
  BY SubExact DEF Amount
<1>1. x - y + (MaxUint64 + 1) \in Nat /\ x - y + (MaxUint64 + 1) < MaxUint64 + 1
  BY EndStateAssumption DEF Amount
<1> QED BY <1>1, EndStateAssumption DEF Sub64, Amount

\* So does a sum.
LEMMA AddCases ==
  \A x, y \in Amount : Add64(x, y) = x + y \/ Add64(x, y) = x + y - (MaxUint64 + 1)
<1> SUFFICES ASSUME NEW x \in Amount, NEW y \in Amount, x + y > MaxUint64
             PROVE  Add64(x, y) = x + y - (MaxUint64 + 1)
  BY AddExact, EndStateAssumption DEF Amount
<1>1. x + y - (MaxUint64 + 1) \in Nat /\ x + y - (MaxUint64 + 1) < MaxUint64 + 1
  BY EndStateAssumption DEF Amount
<1> QED BY <1>1, EndStateAssumption DEF Add64, Amount

\* A difference that wraps is corrected by the sum that follows it, as in
\* getBalance: deposit - sent + received is exact whenever it fits a word.
LEMMA SubThenAdd ==
  ASSUME NEW x \in Amount, NEW y \in Amount, NEW z \in Amount,
         0 <= x - y + z, x - y + z <= MaxUint64
  PROVE  Add64(Sub64(x, y), z) = x - y + z
<1> DEFINE W == MaxUint64 + 1
<1>1. CASE y <= x
  BY <1>1, SubExact, AddExact DEF Amount
<1>2. CASE y > x
  <2>1. x - y + W \in Nat /\ x - y + W < W
    BY <1>2, EndStateAssumption DEF Amount
  <2>2. (x - y) % W = x - y + W
    BY <1>2, <2>1, EndStateAssumption DEF Amount
  <2>3. (x - y + W + z) % W = x - y + z
    BY <2>1, EndStateAssumption DEF Amount
  <2> QED BY <2>2, <2>3 DEF Add64, Sub64
<1> QED BY <1>1, <1>2 DEF Amount

-----------------------------------------------------------------------------
(* Sets of naturals.  Strict inclusion is well founded on the subsets of a *)
(* finite set, which gives least elements, and with them inductions.       *)

\* A set of naturals that is not empty has a least element.
LEMMA LeastNatural ==
  ASSUME NEW S \in SUBSET Nat, S # {}
  PROVE  \E m \in S : \A k \in S : m <= k
<1>1. PICK n \in S : TRUE
  OBVIOUS
<1> DEFINE below(k) == 0 .. k - 1
           T == {below(k) : k \in {k \in S : k <= n}}
<1>2. IsFiniteSet(0 .. n)
  BY FS_Interval
<1>3. IsWellFoundedOn(StrictSubsetOrdering(0 .. n), SUBSET (0 .. n))
  BY <1>2, FS_StrictSubsetOrderingWellFounded, FS_FiniteSubsetsOfFinite
<1>4. T \subseteq SUBSET (0 .. n)
  OBVIOUS
<1>5. below(n) \in T
  BY <1>1
<1>6. \E x \in T : \A y \in T : ~(<<y, x>> \in StrictSubsetOrdering(0 .. n))
  <2> HIDE DEF T
  <2> QED BY <1>3, <1>4, <1>5, WFMin
<1>7. PICK m \in S :
        /\ m <= n
        /\ \A y \in T : ~(<<y, below(m)>> \in StrictSubsetOrdering(0 .. n))
  BY <1>6
<1>8. ASSUME NEW k \in S, ~(m <= k)
      PROVE  FALSE
  <2>1. k \in Nat /\ m \in Nat /\ n \in Nat /\ k < m /\ k <= n
    BY <1>7, <1>8
  <2>2. below(k) \in T
    BY <2>1
  <2>3. below(k) \subseteq below(m) /\ k \in below(m) /\ k \notin below(k)
    BY <2>1
  <2>4. below(k) \in SUBSET (0 .. n) /\ below(m) \in SUBSET (0 .. n)
    BY <1>7, <2>1
  <2>5. <<below(k), below(m)>> \in StrictSubsetOrdering(0 .. n)
    BY <2>3, <2>4 DEF StrictSubsetOrdering
  <2> QED BY <1>7, <2>2, <2>5
<1> QED BY <1>7, <1>8

\* A bounded set of naturals that is not empty has a greatest element.
LEMMA GreatestNatural ==
  ASSUME NEW S \in SUBSET Nat, S # {}, NEW n \in Nat, \A k \in S : k <= n
  PROVE  \E m \in S : \A k \in S : k <= m
<1> DEFINE T == {n - k : k \in S}
<1>1. \A k \in S : n - k \in Nat
  OBVIOUS
<1>2. T \in SUBSET Nat /\ T # {}
  BY <1>1
<1>3. PICK t \in T : \A u \in T : t <= u
  <2> HIDE DEF T
  <2> QED BY <1>2, LeastNatural
<1>4. PICK m \in S : t = n - m
  OBVIOUS
<1>5. \A k \in S : n - m <= n - k
  BY <1>3, <1>4
<1>6. \A k \in S : k \in Nat /\ m \in Nat
  OBVIOUS
<1> QED BY <1>5, <1>6

-----------------------------------------------------------------------------
(* Sums over sets of locks.                                                *)

\* Finite lock sets are closed under union, subsets and singletons.
LEMMA LockSetFacts ==
  /\ {} \in LockSet
  /\ \A S, T \in LockSet : S \cup T \in LockSet
  /\ \A S \in LockSet : \A T \in SUBSET S : T \in LockSet
  /\ \A l \in Lock : {l} \in LockSet
  /\ \A S \in LockSet : IsFiniteSet(S) /\ S \subseteq Lock
BY FS_EmptySet, FS_Union, FS_Subset, FS_Singleton DEF LockSet

\* The amount of a finite set of locks is a natural number.
LEMMA UnitsFinite ==
  ASSUME NEW S \in LockSet
  PROVE  IsFiniteSet(Units(S)) /\ SumAmounts(S) \in Nat
<1>1. IsFiniteSet(S) /\ S \subseteq Lock
  BY DEF LockSet
<1>2. IsFiniteSet(1 .. MaxUint64)
  BY FS_Interval, EndStateAssumption
<1>3. IsFiniteSet(S \X (1 .. MaxUint64))
  BY <1>1, <1>2, FS_Product
<1>4. Units(S) \subseteq S \X (1 .. MaxUint64)
  BY <1>1, EndStateAssumption DEF Units, Lock, Amount
<1>5. IsFiniteSet(Units(S))
  BY <1>3, <1>4, FS_Subset
<1> QED BY <1>5, FS_CardinalityType DEF SumAmounts

\* No locks hold no tokens.
LEMMA SumEmpty == SumAmounts({}) = 0
<1>1. Units({}) = {}
  BY DEF Units
<1> QED BY <1>1, FS_EmptySet DEF SumAmounts

\* There are m numbers from 1 to m.
LEMMA UpTo ==
  ASSUME NEW m \in Nat
  PROVE  IsFiniteSet(1 .. m) /\ Cardinality(1 .. m) = m
<1>1. 1 \in Int /\ m \in Int
  OBVIOUS
<1>2. /\ IsFiniteSet(1 .. m)
      /\ Cardinality(1 .. m) = IF 1 > m THEN 0 ELSE m - 1 + 1
  BY ONLY <1>1, FS_Interval, SMT
<1> QED BY <1>2

\* One lock holds its amount.
LEMMA SumSingleton ==
  ASSUME NEW l \in Lock
  PROVE  SumAmounts({l}) = l.amount
<1>1. l.amount \in Nat
  BY EndStateAssumption DEF Lock, Amount
<1>2. Units({l}) = {l} \X (1 .. l.amount)
  BY DEF Units
<1>3. IsFiniteSet({l}) /\ Cardinality({l}) = 1
  BY FS_Singleton
<1>4. /\ IsFiniteSet(1 .. l.amount)
      /\ Cardinality(1 .. l.amount) = l.amount
  BY <1>1, UpTo, Zenon
<1>5. Cardinality({l} \X (1 .. l.amount)) =
        Cardinality({l}) * Cardinality(1 .. l.amount)
  BY <1>3, <1>4, FS_Product, Zenon
<1>6. Cardinality({l} \X (1 .. l.amount)) = 1 * l.amount
  BY <1>3, <1>4, <1>5, Zenon
<1>7. 1 * l.amount = l.amount
  BY <1>1
<1> QED BY <1>2, <1>6, <1>7, Zenon DEF SumAmounts

\* The sum over two disjoint sets of locks is the sum of their sums.
LEMMA SumUnion ==
  ASSUME NEW S \in LockSet, NEW T \in LockSet, S \cap T = {}
  PROVE  SumAmounts(S \cup T) = SumAmounts(S) + SumAmounts(T)
<1>1. Units(S \cup T) = Units(S) \cup Units(T)
  BY DEF Units
<1>2. Units(S) \cap Units(T) = {}
  BY DEF Units
<1>3. IsFiniteSet(Units(S)) /\ IsFiniteSet(Units(T))
  BY UnitsFinite
<1>4. Cardinality(Units(S) \cup Units(T)) =
        Cardinality(Units(S)) + Cardinality(Units(T))
          - Cardinality(Units(S) \cap Units(T))
  BY <1>3, FS_Union
<1>5. Cardinality(Units(S) \cap Units(T)) = 0
  BY <1>2, FS_EmptySet
<1>6. Cardinality(Units(S)) \in Nat /\ Cardinality(Units(T)) \in Nat
  BY <1>3, FS_CardinalityType
<1>7. Cardinality(Units(S \cup T)) =
        Cardinality(Units(S)) + Cardinality(Units(T)) - 0
  BY <1>1, <1>4, <1>5, Zenon
<1>8. \A a, b \in Nat : a + b - 0 = a + b
  OBVIOUS
<1> QED BY <1>6, <1>7, <1>8, Zenon DEF SumAmounts

\* A new lock adds its amount to the sum.
LEMMA SumAdd ==
  ASSUME NEW S \in LockSet, NEW l \in Lock, l \notin S
  PROVE  SumAmounts(S \cup {l}) = SumAmounts(S) + l.amount
<1>1. {l} \in LockSet /\ S \cap {l} = {}
  BY LockSetFacts
<1> QED BY <1>1, SumUnion, SumSingleton

\* Removing a lock takes its amount out of the sum.
LEMMA SumRemove ==
  ASSUME NEW S \in LockSet, NEW l \in S
  PROVE  /\ SumAmounts(S) = SumAmounts(S \ {l}) + l.amount
         /\ SumAmounts(S \ {l}) \in Nat
<1>1. S \ {l} \in LockSet /\ l \in Lock
  BY LockSetFacts
<1>2. S = (S \ {l}) \cup {l}
  OBVIOUS
<1>3. SumAmounts((S \ {l}) \cup {l}) = SumAmounts(S \ {l}) + l.amount
  BY <1>1, SumAdd
<1> QED BY <1>1, <1>2, <1>3, UnitsFinite

-----------------------------------------------------------------------------
(* What the changes of a side do to its books.                             *)

\* A new side has consistent books.
LEMMA NewBooks ==
  ASSUME NEW deposit \in Amount
  PROVE  LET end == NewNettingChannelEndState(deposit)
         IN end \in EndStates /\ Books(end)
<1> DEFINE end == NewNettingChannelEndState(deposit)
<1>1. NoBalanceProof \in BalanceProof
  BY EndStateAssumption DEF NoBalanceProof, BalanceProof, Amount
<1>2. {} \in LockSet /\ 0 \in Amount
  BY LockSetFacts, EndStateAssumption DEF Amount
<1>3. end \in EndStates
  BY <1>1, <1>2 DEF NewNettingChannelEndState, EndStates
<1>4. PendingLocks(end) = {}
  BY DEF NewNettingChannelEndState, PendingLocks
<1>5. Books(end)
  BY <1>4, SumEmpty, EndStateAssumption
     DEF NewNettingChannelEndState, Books, NoBalanceProof
<1> QED BY <1>3, <1>5

\* The types of the fields of a side.
LEMMA EndStateTypes ==
  ASSUME NEW end \in EndStates
  PROVE  /\ end.contractBalance \in Amount /\ end.totalWithdraw \in Amount
         /\ end.balanceProof \in BalanceProof
         /\ end.balanceProof.nonce \in Nat
         /\ end.balanceProof.transferredAmount \in Amount
         /\ end.balanceProof.lockedAmount \in Amount
         /\ end.merkleTree \in LockSet
         /\ end.lockedLocks \in LockSet /\ end.unLockedLocks \in LockSet
         /\ end.onChainUnLockedLocks \in LockSet
BY DEF EndStates, BalanceProof

\* The pending locks of a side are a finite set of locks.
LEMMA PendingType ==
  ASSUME NEW end \in EndStates
  PROVE  PendingLocks(end) \in LockSet /\ PendingLocks(end) \subseteq Lock
<1>1. /\ end.lockedLocks \in LockSet /\ end.unLockedLocks \in LockSet
      /\ end.onChainUnLockedLocks \in LockSet
  BY EndStateTypes, Zenon
<1>2. PendingLocks(end) \in LockSet
  BY <1>1, LockSetFacts, Zenon DEF PendingLocks
<1> QED BY <1>2, LockSetFacts, Zenon

\* With consistent books the recomputed locked amount is the signed one.
LEMMA LockedExact ==
  ASSUME NEW end \in EndStates, Books(end)
  PROVE  /\ getAmountLocked(end) = end.balanceProof.lockedAmount
         /\ currentLockedAmount(end) = end.balanceProof.lockedAmount
<1> DEFINE x == SumAmounts(end.lockedLocks)
           y == SumAmounts(end.unLockedLocks)
           z == SumAmounts(end.onChainUnLockedLocks)
           off == end.lockedLocks \cup end.unLockedLocks
<1>1. x \in Nat /\ y \in Nat /\ z \in Nat
  BY EndStateTypes, UnitsFinite
<1>2. off \in LockSet
  BY EndStateTypes, LockSetFacts
<1>3. SumAmounts(off) = x + y
  BY EndStateTypes, SumUnion DEF Books
<1>4. PendingLocks(end) = off \cup end.onChainUnLockedLocks
  BY DEF PendingLocks
<1>5. SumAmounts(off \cup end.onChainUnLockedLocks) = SumAmounts(off) + z
  BY <1>2, EndStateTypes, SumUnion DEF Books
<1>6. end.balanceProof.lockedAmount = x + y + z
  BY <1>3, <1>4, <1>5 DEF Books
<1>7. x + y + z <= MaxUint64
  BY <1>6, EndStateTypes, EndStateAssumption DEF Amount
<1>8. getAmountLocked(end) = Add64(Add64(x, y), z)
  BY DEF getAmountLocked
<1> HIDE DEF x, y, z
<1>9. Add64(x, y) = x + y
  BY <1>1, <1>7, AddExact, EndStateAssumption
<1>10. Add64(x + y, z) = x + y + z
  BY <1>1, <1>7, AddExact, EndStateAssumption
<1>11. getAmountLocked(end) = end.balanceProof.lockedAmount
  BY <1>6, <1>8, <1>9, <1>10
<1> QED BY <1>11 DEF currentLockedAmount, Books, NoBalanceProof

\* WithTransfer: a direct transfer leaves the locks alone.
LEMMA TransferBooks ==
  ASSUME NEW end \in EndStates, Books(end), NEW bp \in BalanceProof,
         bp.nonce # 0, bp.locksRoot = end.balanceProof.locksRoot,
         bp.lockedAmount = end.balanceProof.lockedAmount,
         bp.transferredAmount + bp.lockedAmount <= MaxUint64
  PROVE  LET new == WithTransfer(end, bp)
         IN /\ new \in EndStates /\ Books(new) /\ new.balanceProof = bp
            /\ PendingLocks(new) = PendingLocks(end)
<1> DEFINE new == WithTransfer(end, bp)
<1>1. new \in EndStates /\ new.balanceProof = bp
  BY DEF WithTransfer, EndStates
<1>2. /\ new.lockedLocks = end.lockedLocks
      /\ new.unLockedLocks = end.unLockedLocks
      /\ new.onChainUnLockedLocks = end.onChainUnLockedLocks
      /\ new.merkleTree = end.merkleTree
  BY DEF WithTransfer, EndStates
<1>3. PendingLocks(new) = PendingLocks(end)
  BY <1>2 DEF PendingLocks
<1>4. Books(new)
  BY <1>1, <1>2, <1>3 DEF Books
<1> QED BY <1>1, <1>3, <1>4

\* WithLock: a lock whose secret hash is new joins the books.
LEMMA LockBooks ==
  ASSUME NEW end \in EndStates, Books(end), NEW bp \in BalanceProof,
         NEW lock \in Lock, ~IsLockPending(end, lock.secretHash),
         bp.nonce # 0, bp.locksRoot = end.merkleTree \cup {lock},
         bp.lockedAmount = end.balanceProof.lockedAmount + lock.amount,
         bp.transferredAmount + bp.lockedAmount <= MaxUint64
  PROVE  LET new == WithLock(end, bp, lock)
         IN /\ new \in EndStates /\ Books(new) /\ new.balanceProof = bp
            /\ PendingLocks(new) = PendingLocks(end) \cup {lock}
<1> DEFINE new == WithLock(end, bp, lock)
<1>1. \A l \in PendingLocks(end) : l.secretHash # lock.secretHash
  BY DEF IsLockPending, LocksOf
<1>2. LocksOf(end.lockedLocks, lock.secretHash) = {} /\ lock \notin PendingLocks(end)
  BY <1>1 DEF LocksOf, PendingLocks
<1>3. /\ new.lockedLocks = end.lockedLocks \cup {lock}
      /\ new.unLockedLocks = end.unLockedLocks
      /\ new.onChainUnLockedLocks = end.onChainUnLockedLocks
      /\ new.merkleTree = end.merkleTree \cup {lock}
      /\ new.balanceProof = bp
  BY <1>2 DEF WithLock, EndStates, computeMerkleTreeWith
<1>4. /\ end.lockedLocks \cup {lock} \in LockSet
      /\ end.merkleTree \cup {lock} \in LockSet
  BY EndStateTypes, LockSetFacts
<1>5. new \in EndStates
  BY <1>2, <1>4 DEF WithLock, EndStates, computeMerkleTreeWith
<1>6. PendingLocks(new) = PendingLocks(end) \cup {lock}
  BY <1>3 DEF PendingLocks
<1>7. SumAmounts(PendingLocks(new)) = SumAmounts(PendingLocks(end)) + lock.amount
  BY <1>2, <1>6, PendingType, SumAdd
<1>8. \A l, k \in PendingLocks(new) : l.secretHash = k.secretHash => l = k
  BY <1>1, <1>6 DEF Books
<1>9. /\ new.lockedLocks \cap new.unLockedLocks = {}
      /\ (new.lockedLocks \cup new.unLockedLocks)
           \cap new.onChainUnLockedLocks = {}
  BY <1>2, <1>3 DEF Books, PendingLocks
<1>10. Books(new)
  BY <1>3, <1>6, <1>7, <1>8, <1>9 DEF Books
<1> QED BY <1>3, <1>5, <1>6, <1>10

\* The lock found for a secret hash is the only pending one with it.
LEMMA TheLock ==
  ASSUME NEW end \in EndStates, Books(end), NEW h, IsLockPending(end, h)
  PROVE  /\ GetLock(end, h) \in PendingLocks(end) /\ GetLock(end, h) \in Lock
         /\ GetLock(end, h).secretHash = h
         /\ \A S \in SUBSET PendingLocks(end) :
              LocksOf(S, h) = S \cap {GetLock(end, h)}
<1>1. \E l \in PendingLocks(end) : l.secretHash = h
  BY DEF IsLockPending, LocksOf
<1>2. /\ GetLock(end, h) \in PendingLocks(end)
      /\ GetLock(end, h).secretHash = h
  BY <1>1 DEF GetLock
<1>3. \A l \in PendingLocks(end) : l.secretHash = h => l = GetLock(end, h)
  BY <1>2 DEF Books
<1> QED BY <1>2, <1>3, PendingType DEF LocksOf

\* Removing a pending lock from the tree, the proof and the maps.
LEMMA RemoveBooks ==
  ASSUME NEW end \in EndStates, Books(end), NEW bp \in BalanceProof,
         NEW lock \in PendingLocks(end), NEW new \in EndStates,
         bp.nonce # 0, bp.locksRoot = end.merkleTree \ {lock},
         bp.lockedAmount = end.balanceProof.lockedAmount - lock.amount,
         bp.transferredAmount + bp.lockedAmount <= MaxUint64,
         new.balanceProof = bp, new.merkleTree = end.merkleTree \ {lock},
         new.lockedLocks = end.lockedLocks \ {lock},
         new.unLockedLocks = end.unLockedLocks \ {lock},
         new.onChainUnLockedLocks = end.onChainUnLockedLocks \ {lock}
  PROVE  Books(new) /\ PendingLocks(new) = PendingLocks(end) \ {lock}
<1>1. PendingLocks(new) = PendingLocks(end) \ {lock}
  BY DEF PendingLocks
<1>2. lock \in Lock /\ lock.amount \in Nat
  BY PendingType, EndStateAssumption DEF Lock, Amount
<1>3. /\ SumAmounts(PendingLocks(end)) =
           SumAmounts(PendingLocks(end) \ {lock}) + lock.amount
      /\ SumAmounts(PendingLocks(end) \ {lock}) \in Nat
  BY PendingType, SumRemove
<1>4. bp.lockedAmount = SumAmounts(PendingLocks(new))
  BY <1>1, <1>2, <1>3 DEF Books
<1>5. \A l, k \in PendingLocks(new) : l.secretHash = k.secretHash => l = k
  BY <1>1 DEF Books
<1>6. /\ new.lockedLocks \cap new.unLockedLocks = {}
      /\ (new.lockedLocks \cup new.unLockedLocks)
           \cap new.onChainUnLockedLocks = {}
  BY DEF Books
<1>7. bp.locksRoot = new.merkleTree /\ new.merkleTree = PendingLocks(new)
  BY <1>1 DEF Books
<1>8. Books(new)
  BY <1>4, <1>5, <1>6, <1>7 DEF Books
<1> QED BY <1>1, <1>8

\* WithUnlock: an unlock removes the lock from whichever map it is in.
LEMMA UnlockBooks ==
  ASSUME NEW end \in EndStates, Books(end), NEW bp \in BalanceProof,
         NEW h, IsLockPending(end, h),
         bp.nonce # 0, bp.locksRoot = end.merkleTree \ {GetLock(end, h)},
         bp.lockedAmount =
           end.balanceProof.lockedAmount - GetLock(end, h).amount,
         bp.transferredAmount + bp.lockedAmount <= MaxUint64
  PROVE  LET new == WithUnlock(end, bp, GetLock(end, h))
         IN /\ new \in EndStates /\ Books(new) /\ new.balanceProof = bp
            /\ PendingLocks(new) = PendingLocks(end) \ {GetLock(end, h)}
<1> DEFINE lock == GetLock(end, h)
           new == WithUnlock(end, bp, lock)
<1>1. lock \in PendingLocks(end) /\ lock.secretHash = h
  BY TheLock
<1>2. lock \in end.merkleTree
  BY <1>1 DEF Books
<1>3. /\ LocksOf(end.lockedLocks, h) = end.lockedLocks \cap {lock}
      /\ LocksOf(end.unLockedLocks, h) = end.unLockedLocks \cap {lock}
      /\ LocksOf(end.onChainUnLockedLocks, h) =
           end.onChainUnLockedLocks \cap {lock}
  BY TheLock DEF PendingLocks
<1> HIDE DEF lock
<1>4. /\ new.balanceProof = bp
      /\ new.merkleTree = end.merkleTree \ {lock}
      /\ new.lockedLocks = end.lockedLocks \ {lock}
      /\ new.unLockedLocks = end.unLockedLocks \ {lock}
      /\ new.onChainUnLockedLocks = end.onChainUnLockedLocks \ {lock}
      /\ new.contractBalance = end.contractBalance
      /\ new.totalWithdraw = end.totalWithdraw
  BY <1>1, <1>2, <1>3 DEF WithUnlock, WithoutLeaf, DelLock, DelUnclaimedLock,
     EndStates, computeMerkleTreeWithout
<1>5. /\ end.merkleTree \ {lock} \in LockSet
      /\ end.lockedLocks \ {lock} \in LockSet
      /\ end.unLockedLocks \ {lock} \in LockSet
      /\ end.onChainUnLockedLocks \ {lock} \in LockSet
  BY EndStateTypes, LockSetFacts
<1>6. new \in EndStates
  BY <1>4, <1>5 DEF WithUnlock, WithoutLeaf, DelLock, DelUnclaimedLock, EndStates
<1>7. Books(new) /\ PendingLocks(new) = PendingLocks(end) \ {lock}
  BY <1>1, <1>4, <1>6, RemoveBooks DEF lock
<1> QED BY <1>4, <1>6, <1>7 DEF lock

\* WithoutExpired: an expiry removes a lock that is not unlocked on the chain.
LEMMA ExpiredBooks ==
  ASSUME NEW end \in EndStates, Books(end), NEW bp \in BalanceProof,
         NEW h, IsLockPending(end, h), ~IsSecretKnownOnChain(end, h),
         bp.nonce # 0, bp.locksRoot = end.merkleTree \ {GetLock(end, h)},
         bp.lockedAmount =
           end.balanceProof.lockedAmount - GetLock(end, h).amount,
         bp.transferredAmount + bp.lockedAmount <= MaxUint64
  PROVE  LET new == WithoutExpired(end, bp, GetLock(end, h))
         IN /\ new \in EndStates /\ Books(new) /\ new.balanceProof = bp
            /\ PendingLocks(new) = PendingLocks(end) \ {GetLock(end, h)}
<1> DEFINE lock == GetLock(end, h)
           new == WithoutExpired(end, bp, lock)
<1>1. lock \in PendingLocks(end) /\ lock.secretHash = h
  BY TheLock
<1>2. lock \in end.merkleTree
  BY <1>1 DEF Books
<1>3. /\ LocksOf(end.lockedLocks, h) = end.lockedLocks \cap {lock}
      /\ LocksOf(end.unLockedLocks, h) = end.unLockedLocks \cap {lock}
      /\ LocksOf(end.onChainUnLockedLocks, h) =
           end.onChainUnLockedLocks \cap {lock}
  BY TheLock DEF PendingLocks
<1>4. end.onChainUnLockedLocks = end.onChainUnLockedLocks \ {lock}
  BY <1>3 DEF IsSecretKnownOnChain
<1> HIDE DEF lock
<1>5. /\ new.balanceProof = bp
      /\ new.merkleTree = end.merkleTree \ {lock}
      /\ new.lockedLocks = end.lockedLocks \ {lock}
      /\ new.unLockedLocks = end.unLockedLocks \ {lock}
      /\ new.onChainUnLockedLocks = end.onChainUnLockedLocks
  BY <1>1, <1>2, <1>3 DEF WithoutExpired, WithoutLeaf, DelUnclaimedLock,
     EndStates, computeMerkleTreeWithout
<1>6. /\ end.merkleTree \ {lock} \in LockSet
      /\ end.lockedLocks \ {lock} \in LockSet
      /\ end.unLockedLocks \ {lock} \in LockSet
  BY EndStateTypes, LockSetFacts
<1>7. new \in EndStates
  BY <1>5, <1>6 DEF WithoutExpired, WithoutLeaf, DelUnclaimedLock, EndStates
<1>8. Books(new) /\ PendingLocks(new) = PendingLocks(end) \ {lock}
  BY <1>1, <1>4, <1>5, <1>7, RemoveBooks DEF lock
<1> QED BY <1>5, <1>7, <1>8 DEF lock

\* Moving locks between the maps keeps the books.
LEMMA MoveBooks ==
  ASSUME NEW end \in EndStates, Books(end), NEW new \in EndStates,
         new.balanceProof = end.balanceProof, new.merkleTree = end.merkleTree,
         PendingLocks(new) = PendingLocks(end),
         new.lockedLocks \cap new.unLockedLocks = {},
         (new.lockedLocks \cup new.unLockedLocks)
           \cap new.onChainUnLockedLocks = {}
  PROVE  Books(new)
BY DEF Books

\* RegisterSecretEndState only moves locks.
LEMMA RegisterBooks ==
  ASSUME NEW end \in EndStates, Books(end), NEW h
  PROVE  LET new == RegisterSecretEndState(end, h)
         IN /\ new \in EndStates /\ Books(new)
            /\ new.balanceProof = end.balanceProof
            /\ PendingLocks(new) = PendingLocks(end)
<1> DEFINE new == RegisterSecretEndState(end, h)
           moved == LocksOf(end.lockedLocks, h)
<1>1. moved \subseteq end.lockedLocks
  BY DEF LocksOf
<1> HIDE DEF moved
<1>2. /\ new.balanceProof = end.balanceProof
      /\ new.merkleTree = end.merkleTree
      /\ new.lockedLocks = end.lockedLocks \ moved
      /\ new.unLockedLocks = end.unLockedLocks \cup moved
      /\ new.onChainUnLockedLocks = end.onChainUnLockedLocks
  BY DEF RegisterSecretEndState, EndStates, moved
<1>3. moved \in LockSet
  BY <1>1, EndStateTypes, LockSetFacts
<1>4. /\ end.lockedLocks \ moved \in LockSet
      /\ end.unLockedLocks \cup moved \in LockSet
  BY <1>3, EndStateTypes, LockSetFacts
<1>5. new \in EndStates
  BY <1>2, <1>4 DEF RegisterSecretEndState, EndStates, moved
<1>6. PendingLocks(new) = PendingLocks(end)
  BY <1>1, <1>2 DEF PendingLocks
<1>7. /\ new.lockedLocks \cap new.unLockedLocks = {}
      /\ (new.lockedLocks \cup new.unLockedLocks)
           \cap new.onChainUnLockedLocks = {}
  BY <1>1, <1>2 DEF Books
<1>8. Books(new)
  BY <1>2, <1>5, <1>6, <1>7, MoveBooks
<1> QED BY <1>2, <1>5, <1>6, <1>8

\* So does RegisterOnChainSecretEndState.
LEMMA RegisterOnChainBooks ==
  ASSUME NEW end \in EndStates, Books(end), NEW h, NEW revealBlock \in Nat
  PROVE  LET new == RegisterOnChainSecretEndState(end, h, revealBlock)
         IN /\ new \in EndStates /\ Books(new)
            /\ new.balanceProof = end.balanceProof
            /\ PendingLocks(new) = PendingLocks(end)
<1> DEFINE off == LocksOf(end.lockedLocks \cup end.unLockedLocks, h)
           pending == {l \in off : l.expiration >= revealBlock}
           new == RegisterOnChainSecretEndState(end, h, revealBlock)
           lock == GetLock(end, h)
<1>1. CASE pending = {}
  BY <1>1 DEF RegisterOnChainSecretEndState
<1>2. CASE pending # {}
  <2>1. off # {} /\ IsLockPending(end, h)
    BY <1>2 DEF LocksOf, IsLockPending, PendingLocks
  <2>2. lock \in PendingLocks(end) /\ lock \in Lock
    BY <2>1, TheLock
  <2>3. /\ LocksOf(end.lockedLocks, h) = end.lockedLocks \cap {lock}
        /\ LocksOf(end.unLockedLocks, h) = end.unLockedLocks \cap {lock}
        /\ LocksOf(end.onChainUnLockedLocks, h) =
             end.onChainUnLockedLocks \cap {lock}
        /\ off = (end.lockedLocks \cup end.unLockedLocks) \cap {lock}
    BY <2>1, TheLock DEF PendingLocks
  <2>4. pending = {lock}
    BY <1>2, <2>3
  <2>5. new = [DelLock(end, h) EXCEPT !.onChainUnLockedLocks = @ \cup pending]
    BY <1>2 DEF RegisterOnChainSecretEndState
  <2> HIDE DEF lock, pending, new
  <2>6. /\ new.balanceProof = end.balanceProof
        /\ new.merkleTree = end.merkleTree
        /\ new.lockedLocks = end.lockedLocks \ {lock}
        /\ new.unLockedLocks = end.unLockedLocks \ {lock}
        /\ new.onChainUnLockedLocks =
             (end.onChainUnLockedLocks \ {lock}) \cup {lock}
    BY <2>3, <2>4, <2>5 DEF DelLock, DelUnclaimedLock, EndStates
  <2>7. /\ end.lockedLocks \ {lock} \in LockSet
        /\ end.unLockedLocks \ {lock} \in LockSet
        /\ end.onChainUnLockedLocks \ {lock} \in LockSet
        /\ {lock} \in LockSet
    BY <2>2, EndStateTypes, LockSetFacts
  <2>8. (end.onChainUnLockedLocks \ {lock}) \cup {lock} \in LockSet
    BY <2>7, LockSetFacts
  <2>9. new \in EndStates
    BY <2>5, <2>6, <2>7, <2>8 DEF DelLock, DelUnclaimedLock, EndStates
  <2>10. PendingLocks(new) = PendingLocks(end)
    BY <2>2, <2>6 DEF PendingLocks
  <2>11. /\ new.lockedLocks \cap new.unLockedLocks = {}
         /\ (new.lockedLocks \cup new.unLockedLocks)
              \cap new.onChainUnLockedLocks = {}
    BY <2>6 DEF Books
  <2>12. Books(new)
    BY <2>6, <2>9, <2>10, <2>11, MoveBooks
  <2> QED BY <2>6, <2>9, <2>10, <2>12 DEF new
<1> QED BY <1>1, <1>2

-----------------------------------------------------------------------------
(* What may be spent, and the proofs a sender produces.                    *)

\* Spending what GetDistributable allows overflows no amount.
LEMMA DistributableLimit ==
  ASSUME NEW sender \in EndStates, Books(sender), NEW receiver \in EndStates
  PROVE  LET bp == sender.balanceProof
         IN /\ GetDistributable(sender, receiver) \in Nat
            /\ GetDistributable(sender, receiver)
                 <= MaxUint64 - bp.transferredAmount - bp.lockedAmount
<1> DEFINE T == sender.balanceProof.transferredAmount
           L == sender.balanceProof.lockedAmount
           spendable == Sub64(getBalance(sender, receiver), getAmountLocked(sender))
<1>1. T \in Nat /\ L \in Nat /\ T + L <= MaxUint64 /\ MaxUint64 \in Nat
  BY EndStateTypes, EndStateAssumption DEF Amount, Books
<1>2. Sub64(MaxUint64, T) = MaxUint64 - T /\ MaxUint64 - T \in Amount
  BY <1>1, SubExact DEF Amount
<1>3. Sub64(MaxUint64 - T, L) = MaxUint64 - T - L
  BY <1>1, <1>2, SubExact DEF Amount
<1>4. getBalance(sender, receiver) \in Amount
  BY EndStateTypes, AmountFacts DEF getBalance
<1>5. getAmountLocked(sender) = L /\ currentLockedAmount(sender) = L
  BY LockedExact
<1>6. spendable \in Nat
  BY <1>4, <1>5, EndStateTypes, AmountFacts
<1>7. GetDistributable(sender, receiver) = Min(MaxUint64 - T - L, spendable)
  BY <1>2, <1>3, <1>5 DEF GetDistributable
<1> HIDE DEF spendable
<1> QED BY <1>1, <1>6, <1>7 DEF Min

\* GetDistributable is what is left of the deposit and of what was received, or
\* what the proof can still hold, as long as the side has not spent more.
LEMMA DistributableExact ==
  ASSUME NEW sender \in EndStates, Books(sender), NEW receiver \in EndStates,
         sender.totalWithdraw = 0,
         sender.balanceProof.transferredAmount + sender.balanceProof.lockedAmount
           <= sender.contractBalance + receiver.balanceProof.transferredAmount,
         sender.contractBalance + receiver.balanceProof.transferredAmount
           - sender.balanceProof.transferredAmount <= MaxUint64
  PROVE  LET bp == sender.balanceProof
         IN GetDistributable(sender, receiver) =
              Min(MaxUint64 - bp.transferredAmount - bp.lockedAmount,
                  sender.contractBalance + receiver.balanceProof.transferredAmount
                    - bp.transferredAmount - bp.lockedAmount)
<1> DEFINE D == sender.contractBalance
           T == sender.balanceProof.transferredAmount
           L == sender.balanceProof.lockedAmount
           R == receiver.balanceProof.transferredAmount
<1>1. D \in Amount /\ T \in Amount /\ L \in Amount /\ R \in Amount
  BY EndStateTypes
<1>2. Sub64(D, 0) = D
  <2> HIDE DEF D
  <2>1. Sub64(D, 0) = D - 0
    BY <1>1, SubExact DEF Amount
  <2> QED BY <1>1, <2>1, EndStateAssumption DEF Amount
<1>3. getBalance(sender, receiver) = Add64(Sub64(D, T), R)
  BY <1>2 DEF getBalance
<1>4. getAmountLocked(sender) = L /\ currentLockedAmount(sender) = L
  BY LockedExact
<1>5. /\ T + L <= D + R /\ D + R - T <= MaxUint64 /\ T + L <= MaxUint64
      /\ GetDistributable(sender, receiver) =
           Min(Sub64(Sub64(MaxUint64, T), L), Sub64(getBalance(sender, receiver), L))
  BY <1>4 DEF GetDistributable, Books
<1> HIDE DEF D, T, L, R
<1>6. Add64(Sub64(D, T), R) = D - T + R
  BY <1>1, <1>5, SubThenAdd, EndStateAssumption DEF Amount
<1>7. D - T + R \in Amount /\ L <= D - T + R
  BY <1>1, <1>5, EndStateAssumption DEF Amount
<1>8. Sub64(D - T + R, L) = D - T + R - L
  BY <1>1, <1>7, SubExact, EndStateAssumption DEF Amount
<1>9. Sub64(MaxUint64, T) = MaxUint64 - T /\ MaxUint64 - T \in Amount
  BY <1>1, <1>5, SubExact, EndStateAssumption DEF Amount
<1>10. Sub64(MaxUint64 - T, L) = MaxUint64 - T - L
  BY <1>1, <1>5, <1>9, SubExact, EndStateAssumption DEF Amount
<1>11. D - T + R - L = D + R - T - L
  BY <1>1, EndStateAssumption DEF Amount
<1>12. GetDistributable(sender, receiver) =
         Min(MaxUint64 - T - L, D + R - T - L)
  BY <1>3, <1>5, <1>6, <1>8, <1>9, <1>10, <1>11
<1> QED BY <1>12 DEF D, R, T, L

\* In particular it is not more than that.
LEMMA DistributableFunded ==
  ASSUME NEW sender \in EndStates, Books(sender), NEW receiver \in EndStates,
         sender.totalWithdraw = 0,
         sender.balanceProof.transferredAmount + sender.balanceProof.lockedAmount
           <= sender.contractBalance + receiver.balanceProof.transferredAmount,
         sender.contractBalance + receiver.balanceProof.transferredAmount
           - sender.balanceProof.transferredAmount <= MaxUint64
  PROVE  GetDistributable(sender, receiver)
           <= sender.contractBalance + receiver.balanceProof.transferredAmount
                - sender.balanceProof.transferredAmount
                - sender.balanceProof.lockedAmount
<1> DEFINE D == sender.contractBalance
           T == sender.balanceProof.transferredAmount
           L == sender.balanceProof.lockedAmount
           R == receiver.balanceProof.transferredAmount
<1>1. D \in Int /\ T \in Int /\ L \in Int /\ R \in Int /\ MaxUint64 \in Int
  BY EndStateTypes, EndStateAssumption DEF Amount
<1>2. GetDistributable(sender, receiver) = Min(MaxUint64 - T - L, D + R - T - L)
  BY DistributableExact
<1> HIDE DEF D, T, L, R
<1>3. GetDistributable(sender, receiver) <= D + R - T - L
  BY <1>1, <1>2 DEF Min
<1> QED BY <1>3 DEF D, R, T, L

\* No transfer touches the deposit or the withdrawn amount.
SameDeposit(new, end) ==
  /\ new.contractBalance = end.contractBalance
  /\ new.totalWithdraw = end.totalWithdraw

\* None of the changes of a side touches its deposit or what was withdrawn.
LEMMA DepositKept ==
  ASSUME NEW end \in EndStates, NEW bp, NEW lock, NEW h, NEW b
  PROVE  /\ SameDeposit(WithTransfer(end, bp), end)
         /\ SameDeposit(WithLock(end, bp, lock), end)
         /\ SameDeposit(WithUnlock(end, bp, lock), end)
         /\ SameDeposit(WithoutExpired(end, bp, lock), end)
         /\ SameDeposit(RegisterSecretEndState(end, h), end)
         /\ SameDeposit(RegisterOnChainSecretEndState(end, h, b), end)
<1>1. /\ SameDeposit(WithTransfer(end, bp), end)
      /\ SameDeposit(WithLock(end, bp, lock), end)
      /\ SameDeposit(RegisterSecretEndState(end, h), end)
  BY DEF SameDeposit, WithTransfer, WithLock, RegisterSecretEndState, EndStates
<1>2. SameDeposit(WithUnlock(end, bp, lock), end)
  BY DEF SameDeposit, WithUnlock, WithoutLeaf, DelLock, DelUnclaimedLock, EndStates
<1>3. SameDeposit(WithoutExpired(end, bp, lock), end)
  BY DEF SameDeposit, WithoutExpired, WithoutLeaf, DelUnclaimedLock, EndStates
<1>4. SameDeposit(RegisterOnChainSecretEndState(end, h, b), end)
  BY DEF SameDeposit, RegisterOnChainSecretEndState, DelLock,
     DelUnclaimedLock, EndStates
<1> QED BY <1>1, <1>2, <1>3, <1>4

\* getNextNonce is one more than the last nonce, so it is never zero.
LEMMA NextNonce ==
  ASSUME NEW end \in EndStates
  PROVE  /\ getNextNonce(end) \in Nat \ {0}
         /\ getNextNonce(end) = end.balanceProof.nonce + 1
BY EndStateTypes DEF getNextNonce

\* A pending lock holds no more than the locked amount of its side.
LEMMA LockAmount ==
  ASSUME NEW end \in EndStates, Books(end), NEW lock \in PendingLocks(end)
  PROVE  lock.amount \in Nat /\ lock.amount <= end.balanceProof.lockedAmount
<1>1. lock.amount \in Nat
  BY PendingType, AmountFacts DEF Lock
<1>2. /\ SumAmounts(PendingLocks(end)) =
           SumAmounts(PendingLocks(end) \ {lock}) + lock.amount
      /\ SumAmounts(PendingLocks(end) \ {lock}) \in Nat
  BY PendingType, SumRemove
<1> QED BY <1>1, <1>2 DEF Books

\* createSendDirectTransfer, for an amount that GetDistributable allows.
LEMMA DirectProof ==
  ASSUME NEW end \in EndStates, Books(end), NEW amount \in Amount,
         amount <= MaxUint64 - end.balanceProof.transferredAmount
                     - end.balanceProof.lockedAmount
  PROVE  LET bp == createSendDirectTransfer(end, amount)
         IN /\ bp \in BalanceProof
            /\ bp.nonce = end.balanceProof.nonce + 1
            /\ bp.locksRoot = end.balanceProof.locksRoot
            /\ bp.lockedAmount = end.balanceProof.lockedAmount
            /\ bp.transferredAmount =
                 end.balanceProof.transferredAmount + amount
<1> DEFINE T == end.balanceProof.transferredAmount
           L == end.balanceProof.lockedAmount
<1>1. T \in Amount /\ L \in Amount /\ end.balanceProof.nonce + 1 \in Nat
      /\ end.balanceProof.locksRoot \in SUBSET Lock
  BY EndStateTypes DEF BalanceProof
<1>2. Add64(amount, T) = amount + T /\ Add64(amount, T) \in Amount
  BY <1>1, AddExact, AmountFacts
<1>3. getAmountLocked(end) = L
  BY LockedExact
<1> QED BY <1>1, <1>2, <1>3, NextNonce, AmountFacts
        DEF createSendDirectTransfer, BalanceProof

\* createSendLockedTransfer, for an amount that GetDistributable allows.
LEMMA LockedProof ==
  ASSUME NEW end \in EndStates, Books(end), NEW lock \in Lock,
         lock.amount <= MaxUint64 - end.balanceProof.transferredAmount
                          - end.balanceProof.lockedAmount
  PROVE  LET bp == createSendLockedTransfer(end, lock)
         IN /\ bp \in BalanceProof
            /\ bp.nonce = end.balanceProof.nonce + 1
            /\ bp.locksRoot = end.merkleTree \cup {lock}
            /\ bp.lockedAmount = end.balanceProof.lockedAmount + lock.amount
            /\ bp.transferredAmount = end.balanceProof.transferredAmount
<1> DEFINE T == end.balanceProof.transferredAmount
           L == end.balanceProof.lockedAmount
<1>1. T \in Amount /\ L \in Amount /\ end.balanceProof.nonce + 1 \in Nat
      /\ lock.amount \in Amount /\ end.merkleTree \cup {lock} \in SUBSET Lock
  BY EndStateTypes, LockSetFacts DEF BalanceProof, Lock
<1>2. Add64(L, lock.amount) = L + lock.amount /\ Add64(L, lock.amount) \in Amount
  BY <1>1, AddExact, AmountFacts
<1>3. getAmountLocked(end) = L
  BY LockedExact
<1> QED BY <1>1, <1>2, <1>3, NextNonce
        DEF createSendLockedTransfer, BalanceProof, computeMerkleTreeWith

\* CreateUnlock, for a pending lock.
LEMMA UnlockProof ==
  ASSUME NEW end \in EndStates, Books(end), NEW lock \in PendingLocks(end)
  PROVE  LET bp == CreateUnlock(end, lock)
         IN /\ bp \in BalanceProof
            /\ bp.nonce = end.balanceProof.nonce + 1
            /\ bp.locksRoot = end.merkleTree \ {lock}
            /\ bp.lockedAmount = end.balanceProof.lockedAmount - lock.amount
            /\ bp.transferredAmount =
                 end.balanceProof.transferredAmount + lock.amount
<1> DEFINE T == end.balanceProof.transferredAmount
           L == end.balanceProof.lockedAmount
<1>1. T \in Amount /\ L \in Amount /\ end.balanceProof.nonce + 1 \in Nat
      /\ lock.amount \in Nat /\ lock.amount <= L /\ T + L <= MaxUint64
      /\ end.merkleTree \ {lock} \in SUBSET Lock /\ lock \in end.merkleTree
  BY EndStateTypes, LockAmount, LockSetFacts DEF BalanceProof, Books
<1>2. lock.amount \in Amount
  BY <1>1, AmountFacts DEF Amount
<1>3. Add64(lock.amount, T) = T + lock.amount /\ Add64(lock.amount, T) \in Amount
  BY <1>1, <1>2, AddExact, AmountFacts
<1>4. Sub64(L, lock.amount) = L - lock.amount /\ Sub64(L, lock.amount) \in Amount
  BY <1>1, <1>2, SubExact, AmountFacts
<1>5. getAmountLocked(end) = L
  BY LockedExact
<1> QED BY <1>1, <1>3, <1>4, <1>5, NextNonce
        DEF CreateUnlock, BalanceProof, computeMerkleTreeWithout

\* createSendExpiredLock, for a pending lock.
LEMMA ExpiredProof ==
  ASSUME NEW end \in EndStates, Books(end), NEW lock \in PendingLocks(end)
  PROVE  LET bp == createSendExpiredLock(end, lock)
         IN /\ bp \in BalanceProof
            /\ bp.nonce = end.balanceProof.nonce + 1
            /\ bp.locksRoot = end.merkleTree \ {lock}
            /\ bp.lockedAmount = end.balanceProof.lockedAmount - lock.amount
            /\ bp.transferredAmount = end.balanceProof.transferredAmount
<1> DEFINE T == end.balanceProof.transferredAmount
           L == end.balanceProof.lockedAmount
<1>1. T \in Amount /\ L \in Amount /\ end.balanceProof.nonce + 1 \in Nat
      /\ lock.amount \in Nat /\ lock.amount <= L
      /\ end.merkleTree \ {lock} \in SUBSET Lock /\ lock \in end.merkleTree
  BY EndStateTypes, LockAmount, LockSetFacts DEF BalanceProof, Books
<1>2. Sub64(L, lock.amount) = L - lock.amount /\ L - lock.amount \in Amount
  BY <1>1, SubExact, EndStateAssumption DEF Amount
<1>3. getAmountLocked(end) = L
  BY LockedExact
<1> QED BY <1>1, <1>2, <1>3, NextNonce
        DEF createSendExpiredLock, BalanceProof, computeMerkleTreeWithout

-----------------------------------------------------------------------------
(* What the checks of a receiver guarantee.                                *)

\* new is side end after it accepted proof bp: the books are in order, the
\* nonce went up by one and the transferred amount did not go down.
Follows(new, end, bp) ==
  /\ new \in EndStates /\ Books(new) /\ SameDeposit(new, end)
  /\ new.balanceProof = bp
  /\ bp.nonce = end.balanceProof.nonce + 1
  /\ bp.transferredAmount >= end.balanceProof.transferredAmount

\* A proof that passes IsValidDirectTransfer leaves the books in order.
LEMMA AcceptDirect ==
  ASSUME NEW sender \in EndStates, Books(sender), NEW receiver \in EndStates,
         NEW bp \in BalanceProof, IsValidDirectTransfer(bp, sender, receiver, TRUE)
  PROVE  LET new == WithTransfer(sender, bp)
         IN Follows(new, sender, bp) /\ PendingLocks(new) = PendingLocks(sender)
<1> DEFINE T == sender.balanceProof.transferredAmount
           L == sender.balanceProof.lockedAmount
           M == bp.transferredAmount
<1>1. T \in Amount /\ L \in Amount /\ M \in Amount /\ bp.nonce \in Nat
  BY EndStateTypes DEF BalanceProof
<1>2. /\ bp.nonce = sender.balanceProof.nonce + 1 /\ bp.nonce # 0
      /\ bp.locksRoot = sender.balanceProof.locksRoot /\ M > T
      /\ bp.lockedAmount = L
      /\ Sub64(M, T) <= GetDistributable(sender, receiver)
  BY NextNonce, LockedExact, EndStateTypes
     DEF IsValidDirectTransfer, IsBalanceProofUsableOnChain
<1>3. /\ GetDistributable(sender, receiver) \in Nat
      /\ GetDistributable(sender, receiver) <= MaxUint64 - T - L
  BY DistributableLimit
<1>4. T \in Nat /\ L \in Nat /\ M \in Nat /\ MaxUint64 \in Nat
  BY <1>1, AmountFacts
<1> HIDE DEF T, L, M
<1>5. Sub64(M, T) = M - T
  BY <1>1, <1>2, <1>4, SubExact
<1>6. M + L <= MaxUint64 /\ M >= T
  BY <1>2, <1>3, <1>4, <1>5
<1> QED BY <1>2, <1>6, TransferBooks, DepositKept DEF Follows, T, L, M

\* So does one that passes ValidLockedTransferCheck with a secret hash that is
\* not pending, and the lock joins the pending ones.
LEMMA AcceptLocked ==
  ASSUME NEW sender \in EndStates, Books(sender), NEW receiver \in EndStates,
         NEW bp \in BalanceProof, NEW lock \in Lock,
         ~IsLockPending(sender, lock.secretHash),
         ValidLockedTransferCheck(bp, lock, sender, receiver, TRUE)
  PROVE  LET new == WithLock(sender, bp, lock)
         IN /\ Follows(new, sender, bp)
            /\ PendingLocks(new) =
                 computeMerkleTreeWith(PendingLocks(sender), lock)
<1> DEFINE T == sender.balanceProof.transferredAmount
           L == sender.balanceProof.lockedAmount
<1>1. T \in Nat /\ L \in Nat /\ lock.amount \in Nat /\ MaxUint64 \in Nat
  BY EndStateTypes, AmountFacts DEF Lock
<1>2. /\ bp.nonce = sender.balanceProof.nonce + 1 /\ bp.nonce # 0
      /\ bp.locksRoot = sender.merkleTree \cup {lock}
      /\ bp.transferredAmount = T
      /\ bp.lockedAmount = Add64(L, lock.amount)
      /\ lock.amount <= GetDistributable(sender, receiver)
  BY NextNonce, LockedExact, EndStateTypes
     DEF ValidLockedTransferCheck, IsBalanceProofUsableOnChain,
         computeMerkleTreeWith
<1>3. /\ GetDistributable(sender, receiver) \in Nat
      /\ GetDistributable(sender, receiver) <= MaxUint64 - T - L
  BY DistributableLimit
<1>4. T + L + lock.amount <= MaxUint64
  BY <1>1, <1>2, <1>3
<1>5. bp.lockedAmount = L + lock.amount
  BY <1>1, <1>2, <1>4, AddExact
<1>6. bp.transferredAmount + bp.lockedAmount <= MaxUint64
  BY <1>1, <1>2, <1>4, <1>5
<1> QED BY <1>1, <1>2, <1>5, <1>6, LockBooks, DepositKept
        DEF Follows, computeMerkleTreeWith

\* So does one that passes IsValidUnlock; no lock is added.
LEMMA AcceptUnlock ==
  ASSUME NEW sender \in EndStates, Books(sender), NEW bp \in BalanceProof,
         NEW h, IsValidUnlock(bp, h, sender, TRUE)
  PROVE  LET new == WithUnlock(sender, bp, GetLock(sender, h))
         IN /\ Follows(new, sender, bp)
            /\ PendingLocks(new) \subseteq PendingLocks(sender)
<1> DEFINE T == sender.balanceProof.transferredAmount
           L == sender.balanceProof.lockedAmount
           lock == GetLock(sender, h)
<1>1. IsLockPending(sender, h) /\ lock \in PendingLocks(sender)
  BY TheLock DEF IsValidUnlock
<1>2. lock.amount \in Nat /\ lock.amount <= L /\ lock \in sender.merkleTree
  BY <1>1, LockAmount DEF Books
<1>3. T \in Nat /\ L \in Nat /\ L \in Amount /\ MaxUint64 \in Nat
      /\ T + L <= MaxUint64
  BY EndStateTypes, AmountFacts DEF Books
<1>4. /\ bp.nonce = sender.balanceProof.nonce + 1 /\ bp.nonce # 0
      /\ bp.locksRoot = sender.merkleTree \ {lock}
      /\ bp.transferredAmount = Add64(T, lock.amount)
      /\ bp.lockedAmount = Sub64(L, lock.amount)
  BY <1>2, NextNonce, LockedExact, EndStateTypes
     DEF IsValidUnlock, IsBalanceProofUsableOnChain, computeMerkleTreeWithout
<1> HIDE DEF lock
<1>5. bp.transferredAmount = T + lock.amount /\ bp.lockedAmount = L - lock.amount
  BY <1>2, <1>3, <1>4, AddExact, SubExact
<1>6. /\ bp.transferredAmount + bp.lockedAmount <= MaxUint64
      /\ bp.transferredAmount >= T
  BY <1>2, <1>3, <1>5
<1> DEFINE new == WithUnlock(sender, bp, lock)
<1>7. /\ new \in EndStates /\ Books(new) /\ new.balanceProof = bp
      /\ PendingLocks(new) = PendingLocks(sender) \ {lock}
  BY <1>1, <1>4, <1>5, <1>6, UnlockBooks DEF lock
<1>8. SameDeposit(new, sender)
  BY DepositKept
<1> QED BY <1>4, <1>6, <1>7, <1>8 DEF Follows, lock

\* So does one that passes IsValidLockExpired: the lock it looks up among the
\* locked ones is the one that is then removed.
LEMMA AcceptExpired ==
  ASSUME NEW sender \in EndStates, Books(sender), NEW receiver, NEW b,
         NEW bp \in BalanceProof, NEW h,
         IsValidLockExpired(bp, h, sender, receiver, b, TRUE)
  PROVE  LET new == WithoutExpired(sender, bp, GetLock(sender, h))
         IN /\ Follows(new, sender, bp)
            /\ PendingLocks(new) \subseteq PendingLocks(sender)
<1> DEFINE T == sender.balanceProof.transferredAmount
           L == sender.balanceProof.lockedAmount
           lock == GetLock(sender, h)
           found == CHOOSE l \in sender.lockedLocks : l.secretHash = h
<1>1. \E l \in sender.lockedLocks : l.secretHash = h
  BY DEF IsValidLockExpired, IsLockLocked, LocksOf
<1>2. found \in sender.lockedLocks /\ found.secretHash = h
  BY <1>1
<1>3. IsLockPending(sender, h)
  BY <1>1 DEF IsLockPending, LocksOf, PendingLocks
<1>4. lock \in PendingLocks(sender) /\ lock.secretHash = h
  BY <1>3, TheLock
<1>5. found = lock
  BY <1>2, <1>4 DEF Books, PendingLocks
<1>6. ~IsSecretKnownOnChain(sender, h)
  BY <1>2 DEF IsSecretKnownOnChain, LocksOf, Books, PendingLocks
<1>7. lock.amount \in Nat /\ lock.amount <= L /\ lock \in sender.merkleTree
  BY <1>4, LockAmount DEF Books
<1>8. T \in Nat /\ L \in Nat /\ L \in Amount /\ MaxUint64 \in Nat
      /\ T + L <= MaxUint64
  BY EndStateTypes, AmountFacts DEF Books
<1>9. /\ bp.nonce = sender.balanceProof.nonce + 1 /\ bp.nonce # 0
      /\ bp.locksRoot = sender.merkleTree \ {lock}
      /\ bp.transferredAmount = T
      /\ bp.lockedAmount = Sub64(L, lock.amount)
  BY <1>5, <1>7, NextNonce, LockedExact, EndStateTypes
     DEF IsValidLockExpired, IsBalanceProofUsableOnChain, computeMerkleTreeWithout
<1> HIDE DEF lock, found
<1>10. bp.lockedAmount = L - lock.amount
  BY <1>7, <1>8, <1>9, SubExact
<1>11. /\ bp.transferredAmount + bp.lockedAmount <= MaxUint64
       /\ bp.transferredAmount >= T
  BY <1>7, <1>8, <1>9, <1>10
<1> DEFINE new == WithoutExpired(sender, bp, lock)
<1>12. /\ new \in EndStates /\ Books(new) /\ new.balanceProof = bp
       /\ PendingLocks(new) = PendingLocks(sender) \ {lock}
  BY <1>3, <1>6, <1>9, <1>10, <1>11, ExpiredBooks DEF lock
<1>13. SameDeposit(new, sender)
  BY DepositKept
<1> QED BY <1>9, <1>11, <1>12, <1>13 DEF Follows, lock
=============================================================================
