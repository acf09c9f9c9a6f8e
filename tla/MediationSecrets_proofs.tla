---------------------- MODULE MediationSecrets_proofs -----------------------
(***************************************************************************)
(* Nobody is cheated of a mediated payment and its two ends are told the   *)
(* same, for every graph of nodes and channels, every amount, fee, deposit *)
(* and timeout.  The inductive invariant PaymentInv adds to Base           *)
(*                                                                         *)
(*   ClockInv  how far the nodes are behind the chain, and when a          *)
(*             registration is seen                                        *)
(*   Secrets   who knows the secret, and from whom: it comes out at the    *)
(*             target and goes back along the path link by link            *)
(*   Timely    if the reveal timeout covers the lag and the registration,  *)
(*             who has paid is paid, or can still be paid, in time         *)
(***************************************************************************)
EXTENDS Mediation_proofs

-----------------------------------------------------------------------------
(* The clocks.                                                             *)

\* A node is at most MaxLag blocks behind the chain, a registration is mined before
\* it is too late for that, and a node that is past the block of the registration
\* has seen it.
ClockInv ==
  /\ \A n \in Node : block[n] <= height /\ height <= block[n] + MaxLag
  /\ mineBy # 0 => height < mineBy /\ mined = 0
  /\ mined <= height
  /\ \A n \in Node : /\ seen[n] => mined # 0 /\ mined <= block[n] + 1
                     /\ mined # 0 /\ mined <= block[n] => seen[n]

\* The secret is on the chain or on its way there.
Registered == mined # 0 \/ mineBy # 0

\* The clocks are numbers.
LEMMA ClockTypes ==
  ASSUME Base
  PROVE  /\ \A n \in Node : block[n] \in Nat /\ seen[n] \in BOOLEAN
         /\ block \in [Node -> Nat] /\ seen \in [Node -> BOOLEAN]
         /\ height \in Nat /\ mined \in Nat /\ mineBy \in Nat
         /\ MaxLag \in Nat /\ RevealTimeout \in Nat
         /\ MaxInclusion \in Nat /\ MaxInclusion >= 1
BY MediationAssumption DEF Base, TypeOK

\* What a block of node n does to its clock, and what it may register.
LEMMA TickFacts ==
  ASSUME Base, NEW n \in Node, Ticks(n)
  PROVE  /\ block[n] < height /\ (mined = block[n] + 1 => seen[n])
         /\ block'[n] = block[n] + 1 /\ \A k \in Node : k # n => block'[k] = block[k]
         /\ seen' = seen /\ height' = height /\ mined' = mined
         /\ mineBy' = mineBy \/ RegisterSecret
<1>1. mineBy' = mineBy \/ RegisterSecret
  BY DEF Ticks, TickStep, TargetTicks, MediatorTicks, PayerMoves
<1> QED BY <1>1, ClockTypes DEF Ticks

\* What the registration does at node n.
LEMMA SeesFacts ==
  ASSUME Base, NEW n \in Node, Sees(n)
  PROVE  /\ mined = block[n] + 1 /\ mined # 0 /\ ~seen[n]
         /\ seen'[n] /\ \A k \in Node : k # n => seen'[k] = seen[k]
         /\ block' = block /\ height' = height /\ mined' = mined /\ mineBy' = mineBy
BY ClockTypes DEF Sees

\* What a block of the chain does.
LEMMA MineFacts ==
  ASSUME Base, MineBlock
  PROVE  /\ \A n \in Node : height - block[n] < MaxLag
         /\ height' = height + 1 /\ block' = block /\ seen' = seen
         /\ \/ mineBy # 0 /\ mined' = height' /\ mineBy' = 0
            \/ mineBy # height' /\ mined' = mined /\ mineBy' = mineBy
BY DEF MineBlock

\* Every step keeps the clocks in order.
LEMMA ClockNext ==
  ASSUME Base, ClockInv, Step
  PROVE  ClockInv'
<1>1. /\ \A n \in Node : block[n] \in Nat /\ seen[n] \in BOOLEAN
      /\ height \in Nat /\ mined \in Nat /\ mineBy \in Nat
      /\ MaxLag \in Nat /\ MaxInclusion \in Nat /\ MaxInclusion >= 1
  BY ClockTypes
<1>2. CASE NodeStep
  BY <1>2 DEF NodeStep, Still, ClockInv
<1>3. ASSUME NEW n \in Node, Sees(n) PROVE ClockInv'
  <2>1. /\ mined = block[n] + 1 /\ mined # 0 /\ ~seen[n]
        /\ seen'[n] /\ \A k \in Node : k # n => seen'[k] = seen[k]
        /\ block' = block /\ height' = height /\ mined' = mined /\ mineBy' = mineBy
    BY <1>3, SeesFacts
  <2> QED BY <1>1, <2>1 DEF ClockInv
<1>4. ASSUME NEW n \in Node, Ticks(n) PROVE ClockInv'
  <2>1. /\ block[n] < height /\ (mined = block[n] + 1 => seen[n])
        /\ block'[n] = block[n] + 1 /\ \A k \in Node : k # n => block'[k] = block[k]
        /\ seen' = seen /\ height' = height /\ mined' = mined
        /\ mineBy' = mineBy \/ RegisterSecret
    BY <1>4, TickFacts
  <2>2. mineBy' = mineBy \/ (mined = 0 /\ mineBy' = height + MaxInclusion)
    BY <2>1 DEF RegisterSecret
  <2>3. mineBy' # 0 => height' < mineBy' /\ mined' = 0
    BY <1>1, <2>1, <2>2 DEF ClockInv
  <2>4. \A k \in Node : block'[k] <= height' /\ height' <= block'[k] + MaxLag
    BY <1>1, <2>1 DEF ClockInv
  <2>5. \A k \in Node : /\ seen'[k] => mined' # 0 /\ mined' <= block'[k] + 1
                        /\ mined' # 0 /\ mined' <= block'[k] => seen'[k]
    BY <1>1, <2>1 DEF ClockInv
  <2> QED BY <2>1, <2>3, <2>4, <2>5 DEF ClockInv
<1>5. CASE MineBlock
  <2>1. /\ \A n \in Node : height - block[n] < MaxLag
        /\ height' = height + 1 /\ block' = block /\ seen' = seen
        /\ \/ mineBy # 0 /\ mined' = height' /\ mineBy' = 0
           \/ mineBy # height' /\ mined' = mined /\ mineBy' = mineBy
    BY <1>5, MineFacts
  <2>2. \A k \in Node : block'[k] <= height' /\ height' <= block'[k] + MaxLag
    BY <1>1, <2>1 DEF ClockInv
  <2>3. /\ mineBy' # 0 => height' < mineBy' /\ mined' = 0
        /\ mined' <= height'
    BY <1>1, <2>1 DEF ClockInv
  <2>4. \A k \in Node : /\ seen'[k] => mined' # 0 /\ mined' <= block'[k] + 1
                        /\ mined' # 0 /\ mined' <= block'[k] => seen'[k]
    BY <1>1, <2>1 DEF ClockInv
  <2> QED BY <2>2, <2>3, <2>4 DEF ClockInv
<1> QED BY <1>2, <1>3, <1>4, <1>5 DEF Step

\* The chain does not lose the secret, and only the target and the mediators
\* register it.
LEMMA RegisteredNext ==
  ASSUME Base, ClockInv, Step
  PROVE  /\ Registered => Registered'
         /\ mined # 0 => mined' # 0
         /\ Registered' /\ ~Registered =>
              \E n \in Node : Ticks(n) /\ RegisterSecret /\ mined' = 0
                              /\ mineBy' = height + MaxInclusion
<1>1. /\ height \in Nat /\ mined \in Nat /\ mineBy \in Nat
      /\ MaxInclusion \in Nat /\ MaxInclusion >= 1
  BY ClockTypes
<1>2. CASE NodeStep
  BY <1>2 DEF NodeStep, Still, Registered
<1>3. ASSUME NEW n \in Node, Sees(n) PROVE mined' = mined /\ mineBy' = mineBy
  BY <1>3, SeesFacts
<1>4. ASSUME NEW n \in Node, Ticks(n)
      PROVE  /\ mined' = mined /\ (mineBy # 0 => mineBy' # 0)
             /\ mineBy' = mineBy \/ RegisterSecret
             /\ ~Registered => mineBy' = mineBy \/ mineBy' = height + MaxInclusion
  <2>1. mined' = mined /\ (mineBy' = mineBy \/ RegisterSecret)
    BY <1>4, TickFacts
  <2> QED BY <1>1, <2>1 DEF RegisterSecret, Registered
<1>5. CASE MineBlock
  <2>1. /\ height' = height + 1
        /\ \/ mineBy # 0 /\ mined' = height' /\ mineBy' = 0
           \/ mineBy # height' /\ mined' = mined /\ mineBy' = mineBy
    BY <1>5, MineFacts
  <2>2. height' # 0
    BY <1>1, <2>1
  <2> QED BY <2>1, <2>2 DEF Registered
<1> QED BY <1>2, <1>3, <1>4, <1>5 DEF Step, Registered

-----------------------------------------------------------------------------
(* What is sent in a step.                                                 *)

\* A copy that takes an unlock or an expiry has no lock left.
LEMMA TakenEnd ==
  ASSUME Base, NEW l \in Link, NEW m \in Ends(l), RecTakes(l, m)
  PROVE  /\ partnerState'[Mirror(l)].balanceProof.nonce = 2
         /\ ~IsSecretKnown(partnerState'[Mirror(l)], secretHash)
<1>1. m.bp.nonce = 2 /\ m.bp.locksRoot = {}
  BY LinkGood DEF LinkOK
<1>2. /\ Good(partnerState'[Mirror(l)])
      /\ partnerState'[Mirror(l)].balanceProof = m.bp
  BY DEF RecTakes
<1>3. partnerState'[Mirror(l)].balanceProof.locksRoot = {}
  BY <1>1, <1>2
<1> QED BY <1>1, <1>2, <1>3, NoLock

\* A step that sends nothing that counts, and in which no secret is taken.
Quiet ==
  \E R : /\ KeptBut({}, R, {})
         /\ \A l \in Link : l \in R => ~IsSecretKnown(partnerState'[Mirror(l)], secretHash)

\* The steps that send.
LoudMessage ==
  \/ \E l, m : TargetTakes(l, m) \/ Starts(l, m)
  \/ \E l, m, x : MediatorRefunds(l, m, x)
  \/ \E l, m, k, x : MediatorForwards(l, m, k, x)
  \/ \E n, k, q, x : MediatorPays(n, k, q, x) \/ MediatorTooLate(n, k, q, x)
LoudTick(n) ==
  \/ n = Initiator /\ \E l : InitiatorExpires(l)
  \/ \E x, y : MediatorTicks(n, x, y)
Loud ==
  \/ UNCHANGED <<block, height, mined, mineBy>> /\ \E l : InitiatorPays(l)
  \/ Still /\ LoudMessage
  \/ \E n \in Node : Ticks(n) /\ LoudTick(n)

\* Nothing is taken in a quiet step that keeps all.
LEMMA KeptQuiet ==
  ASSUME KeptBut({}, {}, {})
  PROVE  Quiet
<1> DEFINE R == {}
<1>1. \A l \in Link : l \in R => ~IsSecretKnown(partnerState'[Mirror(l)], secretHash)
  OBVIOUS
<1> QED BY <1>1 DEF Quiet

\* One copy takes a message that leaves no secret in it.
LEMMA TakenQuiet ==
  ASSUME NEW l \in Link, KeptBut({}, {l}, {}),
         ~IsSecretKnown(partnerState'[Mirror(l)], secretHash)
  PROVE  Quiet
<1> DEFINE R == {l}
<1>1. \A k \in Link : k \in R => ~IsSecretKnown(partnerState'[Mirror(k)], secretHash)
  OBVIOUS
<1>2. KeptBut({}, R, {})
  OBVIOUS
<1> QED BY <1>1, <1>2 DEF Quiet

\* The messages of a quiet step.
LEMMA MessageQuiet ==
  ASSUME Base, MessageStep
  PROVE  Quiet \/ (\E l : InitiatorPays(l)) \/ LoudMessage
<1>1. CASE Idle
  BY <1>1, KeptQuiet DEF Idle
<1>2. ASSUME NEW l, TargetGivesUp(l) PROVE Quiet
  BY <1>2, KeptQuiet DEF TargetGivesUp
<1>3. ASSUME NEW l, NEW m, RefundTaken(l, m) \/ TargetTakesLate(l, m) PROVE Quiet
  <2>1. CASE RefundTaken(l, m)
    BY <2>1, TakenQuiet DEF RefundTaken
  <2>2. CASE TargetTakesLate(l, m)
    BY <2>2, TakenQuiet DEF TargetTakesLate
  <2> QED BY <1>3, <2>1, <2>2
<1>4. ASSUME NEW l, NEW m,
             \/ TargetIsPaid(l, m) \/ TargetLoses(l, m)
             \/ MediatorIsPaid(l, m) \/ MediatorLoses(l, m)
      PROVE Quiet
  <2>1. l \in Link /\ m \in Ends(l) /\ RecTakes(l, m) /\ KeptBut({}, {l}, {})
    <3>1. CASE TargetIsPaid(l, m)
      BY <3>1 DEF TargetIsPaid
    <3>2. CASE TargetLoses(l, m)
      BY <3>2 DEF TargetLoses
    <3>3. CASE MediatorIsPaid(l, m)
      BY <3>3 DEF MediatorIsPaid
    <3>4. CASE MediatorLoses(l, m)
      BY <3>4 DEF MediatorLoses
    <3> QED BY <1>4, <3>1, <3>2, <3>3, <3>4
  <2> QED BY <2>1, TakenEnd, TakenQuiet
<1>5. ASSUME NEW l, NEW m, MediatorWaits(l, m) PROVE Quiet
  BY <1>5, TakenQuiet DEF MediatorWaits, MediatorTakes
<1>6. ASSUME NEW l, NEW x, MediatorMisses(l, x) PROVE Quiet
  BY <1>6, KeptQuiet DEF MediatorMisses
<1>7. ASSUME NEW n, WaiterMoves(n) PROVE Quiet
  BY <1>7, KeptQuiet DEF WaiterMoves
<1> QED BY <1>1, <1>2, <1>3, <1>4, <1>5, <1>6, <1>7 DEF MessageStep, LoudMessage

\* Every step is a quiet one or one of those that send.
LEMMA QuietOrLoud ==
  ASSUME Base, Step
  PROVE  Quiet \/ Loud
<1>1. CASE NodeStep
  <2>1. CASE MessageStep
    BY <1>1, <2>1, MessageQuiet DEF NodeStep, Still, Loud
  <2>2. CASE PayStep
    <3>1. CASE Refused
      BY <3>1, KeptQuiet DEF Refused
    <3> QED BY <1>1, <2>2, <3>1 DEF PayStep, NodeStep, Loud, LoudMessage
  <2> QED BY <1>1, <2>1, <2>2 DEF NodeStep
<1>2. ASSUME NEW n \in Node, Sees(n) PROVE Quiet \/ Loud
  <2>1. CASE \E l : InitiatorPays(l)
    BY <1>2, <2>1, SeesFacts DEF Loud
  <2>2. CASE Idle \/ TargetMoves("reveal_secret") \/ MediatorSees(n) \/ WaiterMoves(n)
    BY <2>2, KeptQuiet DEF Idle, TargetMoves, MediatorSees, WaiterMoves
  <2>3. SeenStep(n)
    BY <1>2 DEF Sees
  <2> QED BY <2>1, <2>2, <2>3 DEF SeenStep
<1>3. ASSUME NEW n \in Node, Ticks(n) PROVE Quiet \/ Loud
  <2>1. TickStep(n)
    BY <1>3 DEF Ticks
  <2>2. CASE Idle \/ InitiatorForgets \/ TargetTicks \/ WaiterMoves(n)
    BY <2>2, KeptQuiet DEF Idle, InitiatorForgets, TargetTicks, TargetMoves, WaiterMoves
  <2> QED BY <1>3, <2>1, <2>2 DEF TickStep, Loud, LoudTick
<1>4. CASE Idle
  BY <1>4, KeptQuiet DEF Idle
<1> QED BY <1>1, <1>2, <1>3, <1>4 DEF Step

\* What a step may send on a link: the secret, an unlock, an expiry, a promise.
NewReveal(l) ==
  /\ PromisesKept(l) /\ EndsKept(l) /\ Sent(l, "RevealSecret")' /\ Still
  /\ \/ \E m : TargetTakes(Mirror(l), m)
     \/ \E n, k, q, x : /\ l = Mirror(k)
                        /\ MediatorPays(n, k, q, x) \/ MediatorTooLate(n, k, q, x)
NewUnlock(l) ==
  /\ PromisesKept(l) /\ RevealKept(l) /\ Sent(l, "Unlock")'
  /\ Sent(l, "LockExpired")' <=> Sent(l, "LockExpired")
  /\ \/ InitiatorPays(l) /\ UNCHANGED <<block, height, mined, mineBy>>
     \/ Still /\ \E n, k, x : MediatorPays(n, k, l, x)
NewExpired(l) ==
  /\ PromisesKept(l) /\ RevealKept(l) /\ Sent(l, "LockExpired")'
  /\ Sent(l, "Unlock")' <=> Sent(l, "Unlock")
  /\ ourState[l].balanceProof.nonce = 1
  /\ \/ Ticks(Initiator) /\ InitiatorExpires(l)
     \/ \E n \in Mediators :
          /\ Ticks(n) /\ task[n].type = "mediator" /\ l = <<n, task[n].payee>>
          /\ block'[n] >= task[n].lock.expiration
          /\ ~IsSecretKnownOnChain(ourState[l], secretHash)
NewPromise(l, m) ==
  /\ EndsKept(l) /\ RevealKept(l) /\ OurPromises(l, m) /\ Still
  /\ \/ Starts(l, m)
     \/ \E k, x : MediatorForwards(k, x, l, m)
     \/ \E k, x : MediatorRefunds(k, x, m) /\ l = Mirror(k)

\* What an unlock or an expiry is for the link it is sent on.
LEMMA SettlesLink ==
  ASSUME NEW l, NEW m, OurSettles(l, m)
  PROVE  /\ PromisesKept(l) /\ ourState[l].balanceProof.nonce = 1
         /\ m.type = "Unlock" => /\ Sent(l, "Unlock")'
                                 /\ Sent(l, "LockExpired")' <=> Sent(l, "LockExpired")
         /\ m.type = "LockExpired" => /\ Sent(l, "LockExpired")'
                                      /\ Sent(l, "Unlock")' <=> Sent(l, "Unlock")
BY DEF OurSettles, SentEnd

\* What a promise is for the link it is made on.
LEMMA PromisesLink ==
  ASSUME NEW l, NEW m, OurPromises(l, m)
  PROVE  EndsKept(l) /\ RevealKept(l)
BY DEF OurPromises, SentPromise

\* The messages that make a step a loud one.
LEMMA LinkMessage ==
  ASSUME Base, Still, LoudMessage, NEW l \in Link
  PROVE  SentKept(l) \/ NewReveal(l) \/ NewUnlock(l) \/ \E m : NewPromise(l, m)
<1>1. ASSUME NEW j, NEW m, TargetTakes(j, m)
      PROVE  SentKept(l) \/ NewReveal(l)
  <2>1. /\ KeptBut({}, {j}, {Mirror(j)}) /\ Sent(Mirror(j), "RevealSecret")' /\ j \in Link
    BY <1>1 DEF TargetTakes
  <2>2. PromisesKept(l) /\ EndsKept(l) /\ (l # Mirror(j) => RevealKept(l))
    BY <2>1 DEF KeptBut
  <2>3. CASE l = Mirror(j)
    <3>1. Mirror(l) = j
      BY <2>1, <2>3, LinkFacts
    <3> QED BY <1>1, <2>1, <2>2, <2>3, <3>1 DEF NewReveal
  <2> QED BY <2>2, <2>3 DEF SentKept
<1>2. ASSUME NEW j, NEW m, Starts(j, m)
      PROVE  SentKept(l) \/ NewPromise(l, m)
  <2>1. KeptBut({j}, {}, {}) /\ OurPromises(j, m)
    BY <1>2 DEF Starts
  <2>2. RevealKept(l) /\ (l # j => PromisesKept(l) /\ EndsKept(l))
    BY <2>1 DEF KeptBut
  <2>3. CASE l = j
    BY <1>2, <2>1, <2>3, PromisesLink DEF NewPromise
  <2> QED BY <2>2, <2>3 DEF SentKept
<1>3. ASSUME NEW j, NEW m, NEW x, MediatorRefunds(j, m, x)
      PROVE  SentKept(l) \/ NewPromise(l, x)
  <2>1. KeptBut({Mirror(j)}, {j}, {}) /\ OurPromises(Mirror(j), x)
    BY <1>3 DEF MediatorRefunds
  <2>2. RevealKept(l) /\ (l # Mirror(j) => PromisesKept(l) /\ EndsKept(l))
    BY <2>1 DEF KeptBut
  <2>3. CASE l = Mirror(j)
    BY <1>3, <2>1, <2>3, PromisesLink DEF NewPromise
  <2> QED BY <2>2, <2>3 DEF SentKept
<1>4. ASSUME NEW j, NEW m, NEW k, NEW x, MediatorForwards(j, m, k, x)
      PROVE  SentKept(l) \/ NewPromise(l, x)
  <2>1. KeptBut({k}, {j}, {}) /\ OurPromises(k, x)
    BY <1>4 DEF MediatorForwards
  <2>2. RevealKept(l) /\ (l # k => PromisesKept(l) /\ EndsKept(l))
    BY <2>1 DEF KeptBut
  <2>3. CASE l = k
    BY <1>4, <2>1, <2>3, PromisesLink DEF NewPromise
  <2> QED BY <2>2, <2>3 DEF SentKept
<1>5. ASSUME NEW n, NEW k, NEW q, NEW x, MediatorPays(n, k, q, x)
      PROVE  SentKept(l) \/ NewReveal(l) \/ NewUnlock(l)
  <2>1. /\ KeptBut({q}, {}, {Mirror(k)}) /\ MediatorLearns(n, k, q, x)
        /\ \E m : m.type = "Unlock" /\ OurSettles(q, m)
    BY <1>5 DEF MediatorPays
  <2>2. /\ k = <<task[n].payer, n>> /\ q = <<n, task[n].payee>> /\ k \in Link
        /\ task[n].payee # task[n].payer
        /\ Sent(Mirror(k), "RevealSecret")' \/ RevealKept(Mirror(k))
    BY <2>1 DEF MediatorLearns
  <2>3. Mirror(k) # q
    BY <2>2 DEF Mirror
  <2>4. /\ l # Mirror(k) => RevealKept(l)
        /\ l # q => PromisesKept(l) /\ EndsKept(l)
    BY <2>1 DEF KeptBut
  <2>5. CASE l = Mirror(k)
    BY <1>5, <2>2, <2>3, <2>4, <2>5 DEF SentKept, NewReveal
  <2>6. CASE l = q
    BY <1>5, <2>1, <2>3, <2>4, <2>6, SettlesLink DEF NewUnlock
  <2> QED BY <2>4, <2>5, <2>6 DEF SentKept
<1>6. ASSUME NEW n, NEW k, NEW q, NEW x, MediatorTooLate(n, k, q, x)
      PROVE  SentKept(l) \/ NewReveal(l)
  <2>1. KeptBut({}, {}, {Mirror(k)}) /\ MediatorLearns(n, k, q, x)
    BY <1>6 DEF MediatorTooLate
  <2>2. Sent(Mirror(k), "RevealSecret")' \/ RevealKept(Mirror(k))
    BY <2>1 DEF MediatorLearns
  <2>3. /\ l # Mirror(k) => RevealKept(l)
        /\ PromisesKept(l) /\ EndsKept(l)
    BY <2>1 DEF KeptBut
  <2> QED BY <1>6, <2>2, <2>3 DEF SentKept, NewReveal
<1> QED BY <1>1, <1>2, <1>3, <1>4, <1>5, <1>6 DEF LoudMessage

\* What a step sends on a link.
LEMMA LinkSends ==
  ASSUME Base, Step, NEW l \in Link
  PROVE  \/ SentKept(l) \/ NewReveal(l) \/ NewUnlock(l) \/ NewExpired(l)
         \/ \E m : NewPromise(l, m)
<1>1. CASE Quiet
  BY <1>1 DEF Quiet, KeptBut, SentKept
<1>2. ASSUME UNCHANGED <<block, height, mined, mineBy>>, NEW k, InitiatorPays(k)
      PROVE  SentKept(l) \/ NewUnlock(l)
  <2>1. KeptBut({k}, {}, {}) /\ \E m : m.type = "Unlock" /\ OurSettles(k, m)
    BY <1>2 DEF InitiatorPays, InitiatorUnlocks
  <2>2. RevealKept(l) /\ (l # k => PromisesKept(l) /\ EndsKept(l))
    BY <2>1 DEF KeptBut
  <2>3. CASE l = k
    BY <1>2, <2>1, <2>2, <2>3, SettlesLink DEF NewUnlock
  <2> QED BY <2>2, <2>3 DEF SentKept
<1>3. CASE Still /\ LoudMessage
  BY <1>3, LinkMessage
<1>4. ASSUME NEW k, Ticks(Initiator), InitiatorExpires(k)
      PROVE  SentKept(l) \/ NewExpired(l)
  <2>1. KeptBut({k}, {}, {}) /\ \E m : m.type = "LockExpired" /\ OurSettles(k, m)
    BY <1>4 DEF InitiatorExpires
  <2>2. RevealKept(l) /\ (l # k => PromisesKept(l) /\ EndsKept(l))
    BY <2>1 DEF KeptBut
  <2>3. CASE l = k
    BY <1>4, <2>1, <2>2, <2>3, SettlesLink DEF NewExpired
  <2> QED BY <2>2, <2>3 DEF SentKept
<1>5. ASSUME NEW n \in Node, Ticks(n), NEW x, NEW y, MediatorTicks(n, x, y)
      PROVE  SentKept(l) \/ NewExpired(l)
  <2>1. n \in Mediators /\ task[n].type = "mediator" /\ PayeeExpires(n, y)
    BY <1>5 DEF MediatorTicks
  <2>2. CASE KeptBut({}, {}, {})
    BY <2>2 DEF KeptBut, SentKept
  <2>3. ASSUME NEW q, q = <<n, task[n].payee>>, block'[n] >= task[n].lock.expiration,
               ~IsSecretKnownOnChain(ourState[q], secretHash),
               NEW m, m.type = "LockExpired", OurSettles(q, m), KeptBut({q}, {}, {})
        PROVE  SentKept(l) \/ NewExpired(l)
    <3>1. RevealKept(l) /\ (l # q => PromisesKept(l) /\ EndsKept(l))
      BY <2>3 DEF KeptBut
    <3>2. CASE l = q
      BY <1>5, <2>1, <2>3, <3>1, <3>2, SettlesLink DEF NewExpired
    <3> QED BY <3>1, <3>2 DEF SentKept
  <2> QED BY <2>1, <2>2, <2>3 DEF PayeeExpires
<1> QED BY <1>1, <1>2, <1>3, <1>4, <1>5, QuietOrLoud DEF Loud, LoudTick

-----------------------------------------------------------------------------
(* Who knows the secret.                                                   *)

\* Node n has revealed the secret.
Revealed(n) == \E l \in Link : l[1] = n /\ Sent(l, "RevealSecret")

\* No node of the path reveals before it took its transfer.
LEMMA RevealedGot ==
  ASSUME Base, NEW n, Revealed(n)
  PROVE  \E k \in Link : k[2] = n /\ Transfers(k) # {} /\ Accepted(k)
<1>1. PICK l \in Link : l[1] = n /\ Sent(l, "RevealSecret")
  BY DEF Revealed
<1>2. Transfers(Mirror(l)) # {} /\ Accepted(Mirror(l))
  BY <1>1 DEF Base, RevealOrigin
<1>3. Mirror(l) \in Link /\ Mirror(l)[2] = n
  BY <1>1, LinkFacts
<1> QED BY <1>2, <1>3

\* The receiver of a transfer it has not taken has revealed nothing.
LEMMA NotRevealedYet ==
  ASSUME Base, NEW l \in Link, Transfers(l) # {}, ~Accepted(l)
  PROVE  ~Revealed(l[2])
<1> SUFFICES ASSUME Revealed(l[2]) PROVE FALSE
  OBVIOUS
<1>1. PICK k \in Link : k[2] = l[2] /\ Transfers(k) # {} /\ Accepted(k)
  BY RevealedGot
<1>2. k = l
  BY <1>1, OneTransfer
<1> QED BY <1>1, <1>2

\* A transfer that went through the sender of another is that one or came later.
LEMMA AfterSender ==
  ASSUME Base, NEW q \in Link, NEW k \in Link, NEW y \in Transfers(q),
         NEW m \in Transfers(k), q[1] \in m.mediators
  PROVE  q = k \/ q[2] \in m.mediators
<1>1. Origin(q, y) /\ Origin(k, m)
  BY DEF Base, TransferOrigin
<1>2. q[1] \in Mediators /\ q[1] # Initiator
  BY <1>1, NodeFacts DEF Origin
<1>3. PICK j \in Link :
        j[2] = q[1] /\ \E x \in Transfers(j) : y.mediators = x.mediators \cup {q[1]}
  BY <1>1, <1>2 DEF Origin
<1> PICK x \in Transfers(j) : y.mediators = x.mediators \cup {q[1]}
  BY <1>3
<1>4. Origin(j, x)
  BY DEF Base, TransferOrigin
<1>5. ASSUME k[2] \in y.mediators PROVE FALSE
  <2>1. k[2] # q[1]
    BY <1>1 DEF Origin
  <2>2. k[2] \in x.mediators
    BY <1>3, <1>5, <2>1
  <2>3. m.mediators \subseteq x.mediators
    BY <2>2 DEF Base, TransferOrder
  <2>4. j[2] \in x.mediators
    BY <1>3, <2>3
  <2> QED BY <1>4, <2>4 DEF Origin
<1>6. q = k \/ q[2] \in m.mediators \/ k[2] \in y.mediators
  BY DEF Base, TransferOrder
<1> QED BY <1>5, <1>6

\* As long as a mediator has not taken its transfer, the target was sent none.
LEMMA TakesBefore ==
  ASSUME Base, NEW l \in Link, Transfers(l) # {}, ~Accepted(l), l[2] \in Mediators
  PROVE  \A j \in Link : j[2] = Target => Transfers(j) = {}
<1> SUFFICES ASSUME NEW j \in Link, j[2] = Target, NEW y \in Transfers(j) PROVE FALSE
  OBVIOUS
<1>1. PICK m \in Transfers(l) : TRUE
  OBVIOUS
<1>2. Origin(l, m) /\ Origin(j, y) /\ Target \notin Mediators
  BY NodeFacts DEF Base, TransferOrigin
<1>3. l # j /\ j[2] \notin m.mediators
  BY <1>2 DEF Origin
<1>4. l[2] \in y.mediators
  BY <1>3 DEF Base, TransferOrder
<1>5. PICK k \in Link : k[1] = l[2] /\ Transfers(k) # {}
  BY <1>2, <1>4 DEF Origin
<1>6. Promises(k) = {}
  BY <1>5, NotYetPromised
<1> QED BY <1>5, <1>6, LinkGood

\* Nor was it sent one when a mediator sends its transfer back.
LEMMA RefundBefore ==
  ASSUME Base, NEW l \in Link, Promises(l) # {}, Transfers(l) = {}
  PROVE  \A j \in Link : j[2] = Target => Transfers(j) = {}
<1> SUFFICES ASSUME NEW j \in Link, j[2] = Target, NEW y \in Transfers(j) PROVE FALSE
  OBVIOUS
<1>1. PICK m \in Promises(l) : m.type # "LockedTransfer"
  BY DEF Promises, Transfers
<1>2. Transfers(Mirror(l)) # {} /\ l[1] \in Mediators
  BY <1>1 DEF Base, PromiseOrigin
<1>3. PICK x \in Transfers(Mirror(l)) : TRUE
  BY <1>2
<1>4. Mirror(l) \in Link /\ Mirror(l)[2] = l[1]
  BY LinkFacts
<1>5. Origin(Mirror(l), x) /\ Origin(j, y) /\ Target \notin Mediators
  BY <1>4, NodeFacts DEF Base, TransferOrigin
<1>6. Mirror(l) # j /\ j[2] \notin x.mediators
  BY <1>2, <1>4, <1>5 DEF Origin
<1>7. l[1] \in y.mediators
  BY <1>4, <1>6 DEF Base, TransferOrder
<1>8. PICK k \in Link : k[1] = l[1] /\ Transfers(k) # {}
  BY <1>5, <1>7 DEF Origin
<1>9. Promises(k) # {}
  BY <1>8, LinkGood
<1>10. k = l
  BY <1>8, <1>9, OnePromise
<1> QED BY <1>8, <1>10

\* A target that was sent no transfer has revealed nothing.
LEMMA NoTransferNoReveal ==
  ASSUME Base, \A j \in Link : j[2] = Target => Transfers(j) = {}
  PROVE  ~Revealed(Target)
BY RevealedGot

\* When nothing was sent, nothing was revealed.
LEMMA NothingRevealed ==
  ASSUME NothingSent, NEW n
  PROVE  ~Revealed(n)
BY DEF NothingSent, Revealed

\* What the chain made known is known.
LEMMA OnChainIsKnown ==
  ASSUME NEW end, NEW h, IsSecretKnownOnChain(end, h)
  PROVE  IsSecretKnown(end, h)
BY DEF IsSecretKnown, IsSecretKnownOnChain

\* What a copy learns it learns from the chain or from another node.
RecPlain(l) ==
  /\ IsSecretKnown(partnerState'[Mirror(l)], secretHash) =>
       IsSecretKnown(partnerState[Mirror(l)], secretHash) \/ mined # 0 \/ SecretOut
  /\ IsSecretKnownOnChain(partnerState'[Mirror(l)], secretHash) =>
       IsSecretKnownOnChain(partnerState[Mirror(l)], secretHash) \/ mined # 0

\* A copy learns the secret from the chain or from another node, or is the target's.
LEMMA KnownNext ==
  ASSUME Base, Step, NEW l \in Link
  PROVE  RecPlain(l) \/ (Still /\ \E m : TargetTakes(l, m))
<1>0. ~IsSecretKnown(partnerState'[Mirror(l)], secretHash) => RecPlain(l)
  BY OnChainIsKnown DEF RecPlain
<1>1. ASSUME NEW O, NEW R, NEW S, KeptBut(O, R, S), l \notin R
      PROVE  RecPlain(l)
  BY <1>1 DEF KeptBut, RecKept, Kept, RecPlain
<1>2. CASE Quiet
  BY <1>0, <1>1, <1>2 DEF Quiet
<1>3. ASSUME NEW k, InitiatorPays(k) \/ InitiatorExpires(k)
      PROVE  RecPlain(l)
  <2>1. KeptBut({k}, {}, {})
    BY <1>3 DEF InitiatorPays, InitiatorUnlocks, InitiatorExpires
  <2> QED BY <1>1, <2>1
<1>4. ASSUME NEW k, NEW m, TargetTakes(k, m), k # l
      PROVE  RecPlain(l)
  <2>1. KeptBut({}, {k}, {Mirror(k)})
    BY <1>4 DEF TargetTakes
  <2> QED BY <1>1, <1>4, <2>1
<1>5. ASSUME NEW k, NEW m, Starts(k, m)
      PROVE  RecPlain(l)
  <2>1. KeptBut({k}, {}, {})
    BY <1>5 DEF Starts
  <2> QED BY <1>1, <2>1
<1>6. ASSUME NEW k, NEW m, NEW j, NEW x, MediatorRefunds(k, m, x) \/ MediatorForwards(k, m, j, x)
      PROVE  RecPlain(l)
  <2>1. MediatorTakes(k, m) /\ \E O : KeptBut(O, {k}, {})
    BY <1>6 DEF MediatorRefunds, MediatorForwards
  <2>2. ~IsSecretKnown(partnerState'[Mirror(k)], secretHash)
    BY <2>1 DEF MediatorTakes
  <2> QED BY <1>0, <1>1, <2>1, <2>2
<1>7. ASSUME NEW n, NEW k, NEW q, NEW x, MediatorPays(n, k, q, x) \/ MediatorTooLate(n, k, q, x)
      PROVE  RecPlain(l)
  <2>1. \E O, S : KeptBut(O, {}, S)
    BY <1>7 DEF MediatorPays, MediatorTooLate
  <2> QED BY <1>1, <2>1
<1>8. ASSUME NEW n, NEW x, NEW y, MediatorTicks(n, x, y)
      PROVE  RecPlain(l)
  <2>1. \E O : KeptBut(O, {}, {})
    BY <1>8 DEF MediatorTicks, PayeeExpires
  <2> QED BY <1>1, <2>1
<1> QED BY <1>2, <1>3, <1>4, <1>5, <1>6, <1>7, <1>8, QuietOrLoud DEF Loud, LoudMessage, LoudTick

\* What is known from the chain is on the chain.
LEMMA ChainKnownNext ==
  ASSUME Base, Step, NEW l \in Link
  PROVE  /\ IsSecretKnownOnChain(ourState'[l], secretHash) =>
              IsSecretKnownOnChain(ourState[l], secretHash) \/ mined # 0
         /\ IsSecretKnownOnChain(partnerState'[Mirror(l)], secretHash) =>
              IsSecretKnownOnChain(partnerState[Mirror(l)], secretHash) \/ mined # 0
<1>1. OurStep(l)
  BY StepNext DEF Onward, StepsOK
<1>2. CASE OurKept(l)
  BY <1>2, KnownNext DEF RecPlain, TargetTakes, OurKept, Kept
<1>3. ASSUME NEW m, OurPromises(l, m)
      PROVE  ~IsSecretKnownOnChain(ourState'[l], secretHash)
  BY <1>3, OnChainIsKnown DEF OurPromises
<1>4. ASSUME NEW m, OurSettles(l, m)
      PROVE  ~IsSecretKnownOnChain(ourState'[l], secretHash)
  <2>1. Good(ourState'[l]) /\ ourState'[l].balanceProof.locksRoot = {}
    BY <1>4 DEF OurSettles
  <2> QED BY <2>1, NoLock, OnChainIsKnown
<1>5. IsSecretKnownOnChain(partnerState'[Mirror(l)], secretHash) =>
        IsSecretKnownOnChain(partnerState[Mirror(l)], secretHash) \/ mined # 0
  BY KnownNext DEF RecPlain, TargetTakes
<1> QED BY <1>1, <1>2, <1>3, <1>4, <1>5 DEF OurStep

-----------------------------------------------------------------------------
(* Whose step it is.                                                       *)

\* What one node does when it handles a message.
ByMessage(a) ==
  \/ /\ a = Initiator
     /\ (\E l : InitiatorPays(l)) \/ (\E l, m : RefundTaken(l, m))
  \/ /\ a = Target
     /\ \/ \E l : TargetGivesUp(l)
        \/ \E l, m : \/ TargetTakes(l, m) \/ TargetTakesLate(l, m)
                     \/ TargetIsPaid(l, m) \/ TargetLoses(l, m)
  \/ \E l, m : /\ l[2] = a
               /\ MediatorWaits(l, m) \/ MediatorIsPaid(l, m) \/ MediatorLoses(l, m)
  \/ \E l, m, x : l[2] = a /\ MediatorRefunds(l, m, x)
  \/ \E l, m, k, x : l[2] = a /\ MediatorForwards(l, m, k, x)
  \/ \E k, q, x : MediatorPays(a, k, q, x) \/ MediatorTooLate(a, k, q, x)
  \/ \E l, x : l[2] = a /\ MediatorMisses(l, x)
  \/ WaiterMoves(a)

\* A step that settles, takes and reveals only what is one node's.
LEMMA KeptLocal ==
  ASSUME NEW a, NEW O, NEW R, NEW S, KeptBut(O, R, S),
         \A l \in Link : /\ l \in O => l[1] = a
                         /\ l \in R => l[2] = a
                         /\ l \in S => l[1] = a,
         \A k \in Node : k # a => task'[k] = task[k]
  PROVE  Local(a)
BY DEF KeptBut, Local

\* A step in which nothing happens to the channels and tasks is anybody's.
LEMMA IdleLocal ==
  ASSUME Idle, NEW a
  PROVE  Local(a)
<1> DEFINE O == {}
<1>1. KeptBut(O, O, O) /\ \A l \in Link : l \notin O
  BY DEF Idle
<1>2. \A k \in Node : k # a => task'[k] = task[k]
  BY DEF Idle, TasksKept
<1> HIDE DEF O
<1> QED BY <1>1, <1>2, KeptLocal

\* A step that keeps the links sets only one task.
LEMMA NoneLocal ==
  ASSUME KeptBut({}, {}, {}), NEW a, \A k \in Node : k # a => task'[k] = task[k]
  PROVE  Local(a)
<1> DEFINE O == {}
<1>1. KeptBut(O, O, O) /\ \A l \in Link : l \notin O
  OBVIOUS
<1> HIDE DEF O
<1> QED BY <1>1, KeptLocal

\* A step that takes one message.
LEMMA TakeLocal ==
  ASSUME NEW l, KeptBut({}, {l}, {}), NEW a, l[2] = a,
         \A k \in Node : k # a => task'[k] = task[k]
  PROVE  Local(a)
<1> DEFINE O == {}
           R == {l}
<1>1. KeptBut(O, R, O) /\ \A k \in Link : k \notin O /\ (k \in R => k[2] = a)
  OBVIOUS
<1> HIDE DEF O, R
<1> QED BY <1>1, KeptLocal

\* A step that makes a promise or settles one.
LEMMA MakeLocal ==
  ASSUME NEW l, KeptBut({l}, {}, {}), NEW a, l[1] = a,
         \A k \in Node : k # a => task'[k] = task[k]
  PROVE  Local(a)
<1> DEFINE O == {}
           R == {l}
<1>1. KeptBut(R, O, O) /\ \A k \in Link : k \notin O /\ (k \in R => k[1] = a)
  OBVIOUS
<1> HIDE DEF O, R
<1> QED BY <1>1, KeptLocal

\* The task that a mediator sets is its own.
LEMMA MdTaskOwn ==
  ASSUME NEW n, NEW t, MdTask(n, t)
  PROVE  \A k \in Node : k # n => task'[k] = task[k]
BY DEF MdTask, TaskSet

\* The initiator's steps are its own.
LEMMA InitiatorLocal ==
  ASSUME NEW l, NEW m,
         \/ InitiatorPays(l) \/ InitiatorExpires(l) \/ InitiatorForgets
         \/ Starts(l, m) \/ RefundTaken(l, m)
  PROVE  Local(Initiator)
<1>1. CASE InitiatorPays(l) \/ InitiatorExpires(l)
  <2>1. /\ KeptBut({l}, {}, {}) /\ TaskSet(Initiator, NoTask)
        /\ l = <<Initiator, task[Initiator].to>>
    BY <1>1 DEF InitiatorPays, InitiatorUnlocks, InitiatorExpires
  <2> QED BY <2>1, MakeLocal DEF TaskSet
<1>2. CASE InitiatorForgets
  BY <1>2, NoneLocal DEF InitiatorForgets, TaskSet
<1>3. CASE Starts(l, m)
  BY <1>3, MakeLocal DEF Starts, TaskSet
<1>4. CASE RefundTaken(l, m)
  BY <1>4, TakeLocal DEF RefundTaken, TaskSet
<1> QED BY <1>1, <1>2, <1>3, <1>4

\* The target's steps are its own.
LEMMA TargetLocal ==
  ASSUME NEW l, NEW m,
         \/ TargetTakes(l, m) \/ TargetTakesLate(l, m) \/ TargetIsPaid(l, m)
         \/ TargetLoses(l, m) \/ TargetGivesUp(l)
  PROVE  Local(Target)
<1>1. CASE TargetTakes(l, m)
  <2> DEFINE O == {}
             R == {l}
             S == {Mirror(l)}
  <2>1. l \in Link /\ l[2] = Target /\ KeptBut(O, R, S)
    BY <1>1 DEF TargetTakes
  <2>2. \A k \in Link : /\ k \in O => k[1] = Target
                        /\ k \in R => k[2] = Target
                        /\ k \in S => k[1] = Target
    BY <2>1 DEF Mirror
  <2>3. \A k \in Node : k # Target => task'[k] = task[k]
    BY <1>1 DEF TargetTakes, TaskSet
  <2> HIDE DEF O, R, S
  <2> QED BY <2>1, <2>2, <2>3, KeptLocal
<1>2. CASE TargetTakesLate(l, m)
  BY <1>2, TakeLocal DEF TargetTakesLate, TasksKept
<1>3. CASE TargetIsPaid(l, m)
  BY <1>3, TakeLocal DEF TargetIsPaid, TaskSet
<1>4. CASE TargetLoses(l, m)
  BY <1>4, TakeLocal DEF TargetLoses, TasksKept
<1>5. CASE TargetGivesUp(l)
  BY <1>5, NoneLocal DEF TargetGivesUp, TaskSet
<1> QED BY <1>1, <1>2, <1>3, <1>4, <1>5

\* A mediator that takes a message does so for itself.
LEMMA MediatorTakeLocal ==
  ASSUME NEW l, NEW m,
         \/ MediatorWaits(l, m) \/ MediatorIsPaid(l, m) \/ MediatorLoses(l, m)
  PROVE  l[2] \in Mediators /\ Local(l[2])
<1>1. CASE MediatorWaits(l, m)
  BY <1>1, TakeLocal DEF MediatorWaits, MediatorTakes, TaskSet
<1>2. CASE MediatorIsPaid(l, m)
  <2>1. /\ KeptBut({}, {l}, {}) /\ l[2] \in Mediators /\ \E t : MdTask(l[2], t)
    BY <1>2 DEF MediatorIsPaid
  <2> QED BY <2>1, MdTaskOwn, TakeLocal
<1>3. CASE MediatorLoses(l, m)
  <2>1. /\ KeptBut({}, {l}, {}) /\ l[2] \in Mediators /\ \E t : MdTask(l[2], t)
    BY <1>3 DEF MediatorLoses
  <2> QED BY <2>1, MdTaskOwn, TakeLocal
<1> QED BY <1>1, <1>2, <1>3

\* A mediator that promises something does so for itself.
LEMMA MediatorMakeLocal ==
  ASSUME NEW l, NEW m, NEW k, NEW x, MediatorForwards(l, m, k, x) \/ MediatorRefunds(l, m, x)
  PROVE  l[2] \in Mediators /\ Local(l[2])
<1> DEFINE S == {}
           R == {l}
<1>1. CASE MediatorForwards(l, m, k, x)
  <2> DEFINE O == {k}
  <2>1. l[2] \in Mediators /\ k[1] = l[2] /\ KeptBut(O, R, S)
    BY <1>1 DEF MediatorForwards, MediatorTakes
  <2>2. \A j \in Link : /\ j \in O => j[1] = l[2]
                        /\ j \in R => j[2] = l[2]
                        /\ j \in S => j[1] = l[2]
    BY <2>1
  <2>3. \A j \in Node : j # l[2] => task'[j] = task[j]
    BY <1>1 DEF MediatorForwards, TaskSet
  <2> HIDE DEF O, R, S
  <2> QED BY <2>1, <2>2, <2>3, KeptLocal
<1>2. CASE MediatorRefunds(l, m, x)
  <2> DEFINE O == {Mirror(l)}
  <2>1. l \in Link /\ l[2] \in Mediators /\ KeptBut(O, R, S)
    BY <1>2 DEF MediatorRefunds, MediatorTakes
  <2>2. \A j \in Link : /\ j \in O => j[1] = l[2]
                        /\ j \in R => j[2] = l[2]
                        /\ j \in S => j[1] = l[2]
    BY <2>1 DEF Mirror
  <2>3. \A j \in Node : j # l[2] => task'[j] = task[j]
    BY <1>2 DEF MediatorRefunds, TaskSet
  <2> HIDE DEF O, R, S
  <2> QED BY <2>1, <2>2, <2>3, KeptLocal
<1> QED BY <1>1, <1>2

\* A mediator learns the secret for itself.
LEMMA MediatorLearnLocal ==
  ASSUME NEW n, NEW k, NEW q, NEW x, MediatorPays(n, k, q, x) \/ MediatorTooLate(n, k, q, x)
  PROVE  n \in Mediators /\ Local(n)
<1>1. /\ MediatorLearns(n, k, q, x) /\ \E t : MdTask(n, t)
      /\ KeptBut({q}, {}, {Mirror(k)}) \/ KeptBut({}, {}, {Mirror(k)})
  BY DEF MediatorPays, MediatorTooLate
<1>2. /\ n \in Mediators /\ Mirror(k)[1] = n /\ q[1] = n
  BY <1>1 DEF MediatorLearns, Mirror
<1>3. \A j \in Node : j # n => task'[j] = task[j]
  BY <1>1, MdTaskOwn
<1> DEFINE O == {q}
           R == {}
           S == {Mirror(k)}
<1>4. KeptBut(O, R, S) \/ KeptBut(R, R, S)
  BY <1>1
<1>5. \A j \in Link : /\ j \in O => j[1] = n
                      /\ j \notin R
                      /\ j \in S => j[1] = n
  BY <1>2
<1> HIDE DEF O, R, S
<1> QED BY <1>2, <1>3, <1>4, <1>5, KeptLocal

\* The rest of what a mediator does.
LEMMA MediatorRestLocal ==
  ASSUME NEW n, NEW x, NEW y, NEW l,
         \/ MediatorTicks(n, x, y) \/ MediatorSees(n) \/ WaiterMoves(n)
         \/ (l[2] = n /\ MediatorMisses(l, x))
  PROVE  n \in Mediators /\ Local(n)
<1>1. CASE MediatorTicks(n, x, y)
  <2>1. /\ n \in Mediators /\ PayeeExpires(n, y) /\ \E t : MdTask(n, t)
    BY <1>1 DEF MediatorTicks
  <2>2. \A j \in Node : j # n => task'[j] = task[j]
    BY <2>1, MdTaskOwn
  <2>3. \/ KeptBut({}, {}, {})
        \/ \E q : q = <<n, task[n].payee>> /\ KeptBut({q}, {}, {})
    BY <2>1 DEF PayeeExpires
  <2>4. ASSUME NEW q, q = <<n, task[n].payee>>, KeptBut({q}, {}, {}) PROVE Local(n)
    BY <2>2, <2>4, MakeLocal
  <2> QED BY <2>1, <2>2, <2>3, <2>4, NoneLocal
<1>2. CASE MediatorSees(n)
  <2>1. n \in Mediators /\ KeptBut({}, {}, {}) /\ \E t : MdTask(n, t)
    BY <1>2 DEF MediatorSees
  <2> QED BY <2>1, MdTaskOwn, NoneLocal
<1>3. CASE WaiterMoves(n)
  <2>1. n \in Mediators /\ KeptBut({}, {}, {}) /\ \E t : MdTask(n, t)
    BY <1>3 DEF WaiterMoves
  <2> QED BY <2>1, MdTaskOwn, NoneLocal
<1>4. CASE l[2] = n /\ MediatorMisses(l, x)
  <2>1. n \in Mediators /\ KeptBut({}, {}, {}) /\ \E t : MdTask(n, t)
    BY <1>4 DEF MediatorMisses
  <2> QED BY <2>1, MdTaskOwn, NoneLocal
<1> QED BY <1>1, <1>2, <1>3, <1>4

\* A message is handled by one node.
LEMMA MessageLocal ==
  ASSUME MessageStep
  PROVE  Idle \/ \E a \in Node : Local(a) /\ ByMessage(a)
<1>1. Initiator \in Node /\ Target \in Node /\ Mediators \subseteq Node
  BY NodeFacts
<1>2. ASSUME NEW l, NEW m, InitiatorPays(l) \/ RefundTaken(l, m)
      PROVE  Local(Initiator) /\ ByMessage(Initiator)
  BY <1>2, InitiatorLocal DEF ByMessage
<1>3. ASSUME NEW l, NEW m, \/ TargetGivesUp(l) \/ TargetTakes(l, m) \/ TargetTakesLate(l, m)
                           \/ TargetIsPaid(l, m) \/ TargetLoses(l, m)
      PROVE  Local(Target) /\ ByMessage(Target)
  BY <1>3, TargetLocal DEF ByMessage
<1>4. ASSUME NEW l, NEW m, NEW k, NEW x,
             \/ MediatorWaits(l, m) \/ MediatorIsPaid(l, m) \/ MediatorLoses(l, m)
             \/ MediatorRefunds(l, m, x) \/ MediatorForwards(l, m, k, x)
      PROVE  l[2] \in Mediators /\ Local(l[2]) /\ ByMessage(l[2])
  BY <1>4, MediatorTakeLocal, MediatorMakeLocal DEF ByMessage
<1>5. ASSUME NEW n, NEW k, NEW q, NEW x,
             MediatorPays(n, k, q, x) \/ MediatorTooLate(n, k, q, x) \/ WaiterMoves(n)
      PROVE  n \in Mediators /\ Local(n) /\ ByMessage(n)
  BY <1>5, MediatorLearnLocal, MediatorRestLocal DEF ByMessage
<1>6. ASSUME NEW l, NEW x, MediatorMisses(l, x)
      PROVE  l[2] \in Mediators /\ Local(l[2]) /\ ByMessage(l[2])
  BY <1>6, MediatorRestLocal DEF ByMessage
<1> QED BY <1>1, <1>2, <1>3, <1>4, <1>5, <1>6 DEF MessageStep

\* A node that has no part in a step.
NodeUntouched(n) ==
  /\ task'[n] = task[n] /\ block'[n] = block[n] /\ seen'[n] = seen[n]
  /\ \A l \in Link :
       /\ l[1] = n => OurKept(l) /\ PromisesKept(l) /\ EndsKept(l) /\ RevealKept(l)
       /\ l[2] = n => RecKept(l)

\* What a node does.
NodeMoves(n) ==
  \/ Still /\ ByMessage(n)
  \/ Still /\ n = Initiator /\ PayStep
  \/ Sees(n) \/ Ticks(n)

\* A node that is not the one that moves.
LEMMA LocalUntouched ==
  ASSUME NEW a, Local(a), NEW n \in Node, n # a, block'[n] = block[n], seen'[n] = seen[n]
  PROVE  NodeUntouched(n)
BY DEF Local, NodeUntouched

\* A node that is left alone with all others.
LEMMA IdleUntouched ==
  ASSUME Idle, NEW n \in Node, block'[n] = block[n], seen'[n] = seen[n]
  PROVE  NodeUntouched(n)
BY DEF Idle, KeptBut, TasksKept, NodeUntouched

\* The registration is seen by one node.
LEMMA SeesLocal ==
  ASSUME NEW n \in Node, Sees(n)
  PROVE  Local(n)
<1>1. SeenStep(n)
  BY DEF Sees
<1>2. CASE Idle
  BY <1>2, IdleLocal
<1>3. CASE n = Initiator /\ \E l : InitiatorPays(l)
  BY <1>3, InitiatorLocal
<1>4. CASE n = Target /\ TargetMoves("reveal_secret")
  BY <1>4, NoneLocal DEF TargetMoves, TaskSet
<1>5. CASE MediatorSees(n) \/ WaiterMoves(n)
  BY <1>5, MediatorRestLocal
<1> QED BY <1>1, <1>2, <1>3, <1>4, <1>5 DEF SeenStep

\* A block is handled by one node.
LEMMA TicksLocal ==
  ASSUME NEW n \in Node, Ticks(n)
  PROVE  Local(n)
<1>1. TickStep(n)
  BY DEF Ticks
<1>2. CASE Idle
  BY <1>2, IdleLocal
<1>3. CASE n = Initiator /\ (InitiatorForgets \/ \E l : InitiatorExpires(l))
  BY <1>3, InitiatorLocal
<1>4. CASE n = Target /\ TargetTicks
  <2>1. \E s : TargetMoves(s)
    BY <1>4 DEF TargetTicks
  <2> QED BY <1>4, <2>1, NoneLocal DEF TargetMoves, TaskSet
<1>5. CASE WaiterMoves(n) \/ \E x, y : MediatorTicks(n, x, y)
  BY <1>5, MediatorRestLocal
<1> QED BY <1>1, <1>2, <1>3, <1>4, <1>5 DEF TickStep

\* Every node moves or has no part in a step.
LEMMA NodeSteps ==
  ASSUME Base, Step, NEW n \in Node
  PROVE  NodeUntouched(n) \/ NodeMoves(n)
<1>1. CASE NodeStep
  <2>1. block'[n] = block[n] /\ seen'[n] = seen[n] /\ Still
    BY <1>1 DEF NodeStep, Still
  <2>2. CASE MessageStep
    <3>1. CASE Idle
      BY <2>1, <3>1, IdleUntouched
    <3>2. ASSUME NEW a \in Node, Local(a), ByMessage(a)
          PROVE  NodeUntouched(n) \/ NodeMoves(n)
      BY <2>1, <3>2, LocalUntouched DEF NodeMoves
    <3> QED BY <2>2, <3>1, <3>2, MessageLocal
  <2>3. CASE PayStep
    <3>1. CASE Refused
      <4>1. KeptBut({}, {}, {}) /\ \A k \in Node : task'[k] = task[k]
        BY <3>1 DEF Refused, TasksKept
      <4>2. Local(Initiator)
        BY <4>1, NoneLocal
      <4> QED BY <2>1, <2>3, <4>2, LocalUntouched DEF NodeMoves
    <3>2. ASSUME NEW l, NEW m, Starts(l, m) PROVE NodeUntouched(n) \/ NodeMoves(n)
      <4>1. Local(Initiator)
        BY <3>2, InitiatorLocal
      <4> QED BY <2>1, <2>3, <4>1, LocalUntouched DEF NodeMoves
    <3> QED BY <2>3, <3>1, <3>2 DEF PayStep
  <2> QED BY <1>1, <2>2, <2>3 DEF NodeStep
<1>2. ASSUME NEW a \in Node, Sees(a), a # n PROVE NodeUntouched(n)
  BY <1>2, SeesFacts, SeesLocal, LocalUntouched
<1>3. ASSUME NEW a \in Node, Ticks(a), a # n PROVE NodeUntouched(n)
  BY <1>3, TickFacts, TicksLocal, LocalUntouched
<1>4. CASE MineBlock /\ Idle
  BY <1>4, MineFacts, IdleUntouched
<1> QED BY <1>1, <1>2, <1>3, <1>4 DEF Step, NodeMoves

\* A pair begins, or goes on.
PairBorn(n) ==
  /\ Still /\ task[n] = NoTask
  /\ task'[n].payerState = "payer_pending" /\ task'[n].payeeState = "payee_pending"
  /\ task'[n].secretKnown = FALSE
  /\ \E l, m : /\ l[2] = n /\ MediatorTakes(l, m)
               /\ task'[n].payer = l[1] /\ task'[n].lock = m.lock
PairGoesOn(n) ==
  LET t == task[n]
  IN \/ NodeUntouched(n)
     \/ /\ Still
        /\ \E k, q, x : /\ MediatorPays(n, k, q, x)
                        /\ task'[n] = MdState(t, x, "payee_balance_proof", TRUE)
     \/ /\ Still
        /\ \E k, q, x : /\ MediatorTooLate(n, k, q, x)
                        /\ task'[n] = MdState(t, x, "payee_secret_revealed", TRUE)
     \/ /\ Sees(n) /\ MediatorSees(n)
        /\ task'[n] = MdState(t, t.payerState, t.payeeState, TRUE)
     \/ /\ Still
        /\ \E l, m : /\ l[2] = n /\ MediatorIsPaid(l, m)
                     /\ task'[n] = MdState(t, "payer_balance_proof", t.payeeState, t.secretKnown)
     \/ Still /\ \E l, m : l[2] = n /\ MediatorLoses(l, m) /\ task'[n] = t
     \/ /\ Still
        /\ \E l, x : /\ l[2] = n /\ MediatorMisses(l, x)
                     /\ task'[n] = MdState(t, x, t.payeeState, t.secretKnown)
     \/ /\ Ticks(n)
        /\ \E x, y : /\ MediatorTicks(n, x, y)
                     /\ task'[n] = MdState(t, x, y, t.secretKnown)

\* The task that is left is the one that was set.
LEMMA MdTaskLeft ==
  ASSUME NEW n, NEW t, MdTask(n, t), task'[n].type # "none"
  PROVE  task'[n] = t
BY DEF MdTask, TaskSet, NoTask

\* Where a pair comes from.
LEMMA PairSteps ==
  ASSUME Base, Step, NEW n \in Mediators, task'[n].type = "mediator"
  PROVE  PairBorn(n) \/ (task[n].type = "mediator" /\ PairGoesOn(n))
<1>1. n \in Node /\ n # Initiator /\ n # Target /\ task'[n].type # "none"
  BY NodeFacts
<1>2. CASE NodeUntouched(n)
  BY <1>2 DEF NodeUntouched, PairGoesOn
<1>3. ~WaiterMoves(n)
  <2> SUFFICES ASSUME WaiterMoves(n) PROVE FALSE
    OBVIOUS
  <2>1. PICK t : t.type = "waiting" /\ MdTask(n, t)
    BY DEF WaiterMoves
  <2> QED BY <1>1, <2>1, MdTaskLeft
<1>4. ~(task[n] = NoTask /\ task'[n] = task[n])
  BY DEF NoTask
<1>5. CASE Still /\ ByMessage(n)
  <2>1. ASSUME NEW l, NEW m, l[2] = n,
               MediatorWaits(l, m) \/ MediatorIsPaid(l, m) \/ MediatorLoses(l, m)
        PROVE  task[n].type = "mediator" /\ PairGoesOn(n)
    <3>1. CASE MediatorWaits(l, m)
      <4>1. task'[n].type = "waiting"
        BY <1>1, <2>1, <3>1 DEF MediatorWaits, TaskSet, WaitingTask
      <4> QED BY <4>1
    <3>2. CASE MediatorIsPaid(l, m)
      BY <1>1, <1>5, <2>1, <3>2, MdTaskLeft DEF MediatorIsPaid, PairGoesOn
    <3>3. CASE MediatorLoses(l, m)
      <4>1. task'[n] = task[n]
        BY <1>1, <2>1, <3>3, MdTaskLeft DEF MediatorLoses
      <4> QED BY <1>5, <2>1, <3>3, <4>1 DEF PairGoesOn
    <3> QED BY <2>1, <3>1, <3>2, <3>3
  <2>2. ASSUME NEW l, NEW m, NEW k, NEW x, l[2] = n,
               MediatorRefunds(l, m, x) \/ MediatorForwards(l, m, k, x)
        PROVE  PairBorn(n)
    <3>1. /\ MediatorTakes(l, m) /\ \E p : TaskSet(n, PairTask(l[1], p, m.lock))
          /\ l \in Link /\ task[n] = NoTask
      BY <2>2 DEF MediatorRefunds, MediatorForwards, MediatorTakes
    <3>2. PICK p : task'[n] = PairTask(l[1], p, m.lock)
      BY <3>1 DEF TaskSet
    <3>3. /\ task'[n].payerState = "payer_pending" /\ task'[n].payeeState = "payee_pending"
          /\ task'[n].secretKnown = FALSE /\ task'[n].payer = l[1] /\ task'[n].lock = m.lock
      BY <3>2 DEF PairTask
    <3> QED BY <1>5, <2>2, <3>1, <3>3 DEF PairBorn
  <2>3. ASSUME NEW k, NEW q, NEW x, MediatorPays(n, k, q, x) \/ MediatorTooLate(n, k, q, x)
        PROVE  task[n].type = "mediator" /\ PairGoesOn(n)
    <3>1. task[n].type = "mediator"
      BY <2>3 DEF MediatorPays, MediatorTooLate, MediatorLearns
    <3>2. CASE MediatorPays(n, k, q, x)
      BY <1>1, <1>5, <3>1, <3>2, MdTaskLeft DEF MediatorPays, PairGoesOn
    <3>3. CASE MediatorTooLate(n, k, q, x)
      BY <1>1, <1>5, <3>1, <3>3, MdTaskLeft DEF MediatorTooLate, PairGoesOn
    <3> QED BY <2>3, <3>2, <3>3
  <2>4. ASSUME NEW l, NEW x, l[2] = n, MediatorMisses(l, x)
        PROVE  task[n].type = "mediator" /\ PairGoesOn(n)
    BY <1>1, <1>5, <2>4, MdTaskLeft DEF MediatorMisses, PairGoesOn
  <2> QED BY <1>1, <1>3, <1>5, <2>1, <2>2, <2>3, <2>4 DEF ByMessage
<1>6. CASE Sees(n)
  <2>1. CASE MediatorSees(n)
    BY <1>1, <1>6, <2>1, MdTaskLeft DEF MediatorSees, PairGoesOn
  <2>2. CASE Idle /\ task[n] = NoTask
    BY <1>1, <1>4, <2>2 DEF Idle, TasksKept
  <2> QED BY <1>1, <1>3, <1>6, <2>1, <2>2 DEF Sees, SeenStep
<1>7. CASE Ticks(n)
  <2>1. ASSUME NEW x, NEW y, MediatorTicks(n, x, y)
        PROVE  task[n].type = "mediator" /\ PairGoesOn(n)
    BY <1>1, <1>7, <2>1, MdTaskLeft DEF MediatorTicks, PairGoesOn
  <2>2. CASE Idle /\ task[n] = NoTask
    BY <1>1, <1>4, <2>2 DEF Idle, TasksKept
  <2> QED BY <1>1, <1>3, <1>7, <2>1, <2>2 DEF Ticks, TickStep
<1> QED BY <1>1, <1>2, <1>5, <1>6, <1>7, NodeSteps DEF NodeMoves

\* The target's task goes on.
TargetGoesOn ==
  /\ task[Target].type = "target"
  /\ task'[Target].from = task[Target].from /\ task'[Target].lock = task[Target].lock
  /\ \/ NodeUntouched(Target)
     \/ Still /\ TasksKept /\ \E l, m : TargetLoses(l, m)
     \/ Sees(Target) /\ TargetMoves("reveal_secret") /\ task'[Target].state = "reveal_secret"
     \/ Ticks(Target) /\ TargetTicks

\* The task that the target moves on with.
LEMMA TargetMoved ==
  ASSUME NEW s, TargetMoves(s)
  PROVE  /\ task[Target].type = "target" /\ task'[Target].state = s
         /\ task'[Target].from = task[Target].from /\ task'[Target].lock = task[Target].lock
BY DEF TargetMoves, TaskSet, TargetTask

\* Where the target's task comes from.
LEMMA TargetSteps ==
  ASSUME Base, Step, task'[Target].type = "target"
  PROVE  (Still /\ \E l, m : TargetTakes(l, m)) \/ TargetGoesOn
<1>1. Target \in Node /\ Target # Initiator /\ Target \notin Mediators
  BY NodeFacts
<1>2. CASE NodeUntouched(Target)
  BY <1>2 DEF NodeUntouched, TargetGoesOn
<1>3. ~(task[Target] = NoTask /\ task'[Target] = task[Target])
  BY DEF NoTask
<1>4. ~(task'[Target] = NoTask)
  BY DEF NoTask
<1>5. ~WaiterMoves(Target)
  BY <1>1 DEF WaiterMoves
<1>6. CASE Still /\ ByMessage(Target)
  <2>1. ASSUME NEW l, NEW m, NEW k, NEW x, l[2] = Target,
               \/ MediatorWaits(l, m) \/ MediatorIsPaid(l, m) \/ MediatorLoses(l, m)
               \/ MediatorRefunds(l, m, x) \/ MediatorForwards(l, m, k, x)
               \/ MediatorMisses(l, x)
        PROVE  FALSE
    <3>1. CASE MediatorWaits(l, m) \/ MediatorRefunds(l, m, x) \/ MediatorForwards(l, m, k, x)
      BY <1>1, <2>1, <3>1 DEF MediatorWaits, MediatorRefunds, MediatorForwards, MediatorTakes
    <3>2. CASE MediatorIsPaid(l, m) \/ MediatorLoses(l, m) \/ MediatorMisses(l, x)
      BY <1>1, <2>1, <3>2 DEF MediatorIsPaid, MediatorLoses, MediatorMisses
    <3> QED BY <2>1, <3>1, <3>2
  <2>2. ASSUME NEW k, NEW q, NEW x,
               MediatorPays(Target, k, q, x) \/ MediatorTooLate(Target, k, q, x)
        PROVE  FALSE
    BY <1>1, <2>2, MediatorLearnLocal
  <2>3. ASSUME NEW l, NEW m,
               \/ TargetGivesUp(l) \/ TargetTakes(l, m) \/ TargetTakesLate(l, m)
               \/ TargetIsPaid(l, m) \/ TargetLoses(l, m)
        PROVE  (\E j, y : TargetTakes(j, y)) \/ TargetGoesOn
    <3>1. CASE TargetGivesUp(l)
      BY <1>4, <3>1 DEF TargetGivesUp, TaskSet
    <3>2. CASE TargetTakesLate(l, m)
      BY <1>1, <1>3, <3>2 DEF TargetTakesLate, TasksKept
    <3>3. CASE TargetIsPaid(l, m)
      BY <1>4, <3>3 DEF TargetIsPaid, TaskSet
    <3>4. CASE TargetLoses(l, m)
      <4>1. TasksKept /\ task[Target].type = "target" /\ task'[Target] = task[Target]
        BY <1>1, <3>4 DEF TargetLoses, TasksKept
      <4> QED BY <1>6, <3>4, <4>1 DEF TargetGoesOn
    <3> QED BY <2>3, <3>1, <3>2, <3>3, <3>4
  <2> QED BY <1>1, <1>5, <1>6, <2>1, <2>2, <2>3 DEF ByMessage
<1>7. CASE Sees(Target)
  <2>1. CASE TargetMoves("reveal_secret")
    BY <1>7, <2>1, TargetMoved DEF TargetGoesOn
  <2>2. CASE Idle /\ task[Target] = NoTask
    BY <1>1, <1>3, <2>2 DEF Idle, TasksKept
  <2>3. ~MediatorSees(Target)
    BY <1>1 DEF MediatorSees
  <2> QED BY <1>1, <1>5, <1>7, <2>1, <2>2, <2>3 DEF Sees, SeenStep
<1>8. CASE Ticks(Target)
  <2>1. CASE TargetTicks
    <3>1. \E s : TargetMoves(s)
      BY <2>1 DEF TargetTicks
    <3> QED BY <1>8, <2>1, <3>1, TargetMoved DEF TargetGoesOn
  <2>2. CASE Idle /\ task[Target] = NoTask
    BY <1>1, <1>3, <2>2 DEF Idle, TasksKept
  <2>3. ASSUME NEW x, NEW y PROVE ~MediatorTicks(Target, x, y)
    BY <1>1 DEF MediatorTicks
  <2> QED BY <1>1, <1>5, <1>8, <2>1, <2>2, <2>3 DEF Ticks, TickStep
<1> QED BY <1>1, <1>2, <1>6, <1>7, <1>8, NodeSteps DEF NodeMoves

\* What the users are told, and why.
LEMMA NotesNext ==
  ASSUME Base, Step, NEW n \in Node, NEW w \in Marks, w \in notices'[n], w \notin notices[n]
  PROVE  \/ n = Initiator /\ w = "PaymentSentSuccess" /\ \E l : InitiatorPays(l)
         \/ /\ n = Initiator /\ w = "PaymentSentFailed"
            /\ \/ Still /\ Refused
               \/ Still /\ \E l, m : RefundTaken(l, m)
               \/ Ticks(Initiator) /\ \E l : InitiatorExpires(l)
         \/ n = Target /\ w = "PaymentReceivedSuccess" /\ task[Target].type = "target"
<1> DEFINE G == \/ n = Initiator /\ w = "PaymentSentSuccess" /\ \E l : InitiatorPays(l)
                \/ /\ n = Initiator /\ w = "PaymentSentFailed"
                   /\ \/ Still /\ Refused
                      \/ Still /\ \E l, m : RefundTaken(l, m)
                      \/ Ticks(Initiator) /\ \E l : InitiatorExpires(l)
                \/ n = Target /\ w = "PaymentReceivedSuccess" /\ task[Target].type = "target"
<1>1. ~NoticesKept
  BY DEF NoticesKept
<1>2. ~Idle
  BY <1>1 DEF Idle
<1>3. ASSUME NEW a, NEW what, Told(a, what) PROVE n = a /\ w = what
  BY <1>3 DEF Told
<1>4. ASSUME NEW l, InitiatorPays(l) PROVE G
  <2>1. Told(Initiator, "PaymentSentSuccess")
    BY <1>4 DEF InitiatorPays, InitiatorUnlocks
  <2> QED BY <1>3, <1>4, <2>1
<1>5. ~WaiterMoves(n) /\ \A a : ~WaiterMoves(a) /\ ~MediatorSees(a)
  BY <1>1 DEF WaiterMoves, MediatorSees
<1>6. CASE NodeStep
  <2>1. Still
    BY <1>6 DEF NodeStep
  <2>2. CASE PayStep
    <3>1. ASSUME NEW l, NEW m, Starts(l, m) PROVE FALSE
      BY <1>1, <3>1 DEF Starts
    <3>2. CASE Refused
      BY <1>3, <2>1, <3>2 DEF Refused
    <3> QED BY <2>2, <3>1, <3>2 DEF PayStep
  <2>3. CASE MessageStep
    <3>1. ASSUME NEW l, NEW m, RefundTaken(l, m) PROVE G
      <4>1. Told(Initiator, "PaymentSentFailed")
        BY <3>1 DEF RefundTaken
      <4> QED BY <1>3, <2>1, <3>1, <4>1
    <3>2. ASSUME NEW l, NEW m, TargetIsPaid(l, m) PROVE G
      BY <1>3, <3>2 DEF TargetIsPaid
    <3>3. ASSUME NEW l, NEW m,
                 TargetGivesUp(l) \/ TargetTakes(l, m) \/ TargetTakesLate(l, m) \/ TargetLoses(l, m)
          PROVE  FALSE
      BY <1>1, <3>3 DEF TargetGivesUp, TargetTakes, TargetTakesLate, TargetLoses
    <3>4. ASSUME NEW l, NEW m, NEW k, NEW x,
                 MediatorWaits(l, m) \/ MediatorRefunds(l, m, x) \/ MediatorForwards(l, m, k, x)
          PROVE  FALSE
      BY <1>1, <3>4 DEF MediatorWaits, MediatorRefunds, MediatorForwards, MediatorTakes
    <3>5. ASSUME NEW l, NEW m, NEW x,
                 MediatorIsPaid(l, m) \/ MediatorLoses(l, m) \/ MediatorMisses(l, x)
          PROVE  FALSE
      BY <1>1, <3>5 DEF MediatorIsPaid, MediatorLoses, MediatorMisses
    <3>6. ASSUME NEW a, NEW k, NEW q, NEW x, MediatorPays(a, k, q, x) \/ MediatorTooLate(a, k, q, x)
          PROVE  FALSE
      BY <1>1, <3>6 DEF MediatorPays, MediatorTooLate, MediatorLearns
    <3> QED BY <1>2, <1>4, <1>5, <2>3, <3>1, <3>2, <3>3, <3>4, <3>5, <3>6 DEF MessageStep
  <2> QED BY <1>6, <2>2, <2>3 DEF NodeStep
<1>7. ASSUME NEW a \in Node, Sees(a) PROVE G
  <2>1. SeenStep(a)
    BY <1>7 DEF Sees
  <2>2. ~TargetMoves("reveal_secret")
    BY <1>1 DEF TargetMoves
  <2> QED BY <1>2, <1>4, <1>5, <2>1, <2>2 DEF SeenStep
<1>8. ASSUME NEW a \in Node, Ticks(a) PROVE G
  <2>1. TickStep(a)
    BY <1>8 DEF Ticks
  <2>2. ~TargetTicks /\ ~InitiatorForgets
    BY <1>1 DEF TargetTicks, TargetMoves, InitiatorForgets
  <2>3. ASSUME NEW x, NEW y PROVE ~MediatorTicks(a, x, y)
    BY <1>1 DEF MediatorTicks
  <2>4. ASSUME a = Initiator, NEW l, InitiatorExpires(l) PROVE G
    <3>1. Told(Initiator, "PaymentSentFailed")
      BY <2>4 DEF InitiatorExpires
    <3> QED BY <1>3, <1>8, <2>4, <3>1
  <2> QED BY <1>2, <1>5, <2>1, <2>2, <2>3, <2>4 DEF TickStep
<1> QED BY <1>2, <1>6, <1>7, <1>8 DEF Step

-----------------------------------------------------------------------------
(* How the secret comes out.                                               *)

\* Somebody acts on the secret.
Out ==
  \/ Registered
  \/ \E l \in Link : \/ Sent(l, "RevealSecret") \/ Sent(l, "Unlock")
                     \/ IsSecretKnown(partnerState[l], secretHash)
  \/ task[Target].type = "target"
  \/ "PaymentSentSuccess" \in notices[Initiator]
  \/ "PaymentReceivedSuccess" \in notices[Target]
  \/ \E n \in Mediators : task[n].type = "mediator" /\ task[n].secretKnown

\* Nobody does before the target has revealed it.
FromTarget == Out => Revealed(Target)

\* Who reveals the secret was shown it by the next node of the path.
PathReveals ==
  \A k \in Link : \A m \in Transfers(k) :
    \A n \in m.mediators : Revealed(n) => Revealed(k[2])

\* A node is paid after it revealed the secret or after the chain did.
UnlockKnown == \A l \in Link : Sent(l, "Unlock") => Revealed(l[2]) \/ mined # 0

\* The channels know from the chain what is on the chain.
ChainKnown ==
  \A l \in Link : /\ IsSecretKnownOnChain(ourState[l], secretHash) => mined # 0
                  /\ IsSecretKnownOnChain(partnerState[l], secretHash) => mined # 0

\* What a mediator's task says of the secret.
PairKnows ==
  \A n \in Mediators :
    /\ task[n].type = "waiting" => ~Revealed(n)
    /\ task[n].type = "mediator" =>
         /\ Revealed(n) => task[n].secretKnown
         /\ task[n].payerState = "payer_waiting_secret_reveal" => Registered
         /\ task[n].payerState = "payer_balance_proof" =>
              partnerState[<<n, task[n].payer>>].balanceProof.nonce = 2

\* What the target's task says of it: it goes when its transfer is settled.
TargetKnows ==
  /\ Revealed(Target) /\ task[Target].type = "none" =>
       \A l \in Link : l[2] = Target /\ Transfers(l) # {} => Ends(l) # {}
  /\ task[Target].type = "target" /\ task[Target].state = "onchain_secret_reveal" => Registered

Secrets ==
  FromTarget /\ PathReveals /\ UnlockKnown /\ ChainKnown /\ PairKnows /\ TargetKnows

\* A transfer that is taken was not taken before.
LEMMA TakesNew ==
  ASSUME Base, NEW l \in Link, NEW m \in Transfers(l), RecTakes(l, m)
  PROVE  Transfers(l) # {} /\ ~Accepted(l)
<1>1. m.bp.nonce = 1
  BY LinkGood DEF LinkOK
<1>2. /\ m.bp.nonce = partnerState[Mirror(l)].balanceProof.nonce + 1
      /\ partnerState[Mirror(l)].balanceProof.nonce \in {0, 1, 2}
  BY LinkGood DEF RecTakes
<1> QED BY <1>1, <1>2 DEF Accepted

\* A step that reveals nothing.
LEMMA NoReveal ==
  ASSUME NEW O, NEW R, KeptBut(O, R, {}), NEW n
  PROVE  Revealed(n)' <=> Revealed(n)
<1>1. \A l \in Link : RevealKept(l)
  BY DEF KeptBut
<1> QED BY <1>1 DEF Revealed, RevealKept

\* What is revealed stays so, and who reveals it was shown it or is the target.
LEMMA RevealedNext ==
  ASSUME Base, Step, NEW n
  PROVE  /\ Revealed(n) => Revealed(n)'
         /\ Revealed(n)' /\ ~Revealed(n) =>
              /\ Still
              /\ \/ n = Target /\ \E l, m : TargetTakes(l, m)
                 \/ \E k, q, x : MediatorPays(n, k, q, x) \/ MediatorTooLate(n, k, q, x)
<1>1. ASSUME NEW l \in Link
      PROVE  Sent(l, "RevealSecret") => Sent(l, "RevealSecret")'
  BY LinkSends DEF SentKept, RevealKept, NewReveal, NewUnlock, NewExpired, NewPromise
<1>2. ASSUME NEW l \in Link, Sent(l, "RevealSecret")', ~Sent(l, "RevealSecret")
      PROVE  NewReveal(l)
  BY <1>2, LinkSends DEF SentKept, RevealKept, NewUnlock, NewExpired, NewPromise
<1>3. ASSUME NEW l \in Link, NewReveal(l), l[1] = n
      PROVE  /\ Still
             /\ \/ n = Target /\ \E k, m : TargetTakes(k, m)
                \/ \E k, q, x : MediatorPays(n, k, q, x) \/ MediatorTooLate(n, k, q, x)
  <2>1. ASSUME NEW m, TargetTakes(Mirror(l), m) PROVE n = Target
    <3>1. Mirror(l)[2] = Target
      BY <2>1 DEF TargetTakes
    <3> QED BY <1>3, <3>1, LinkFacts
  <2>2. ASSUME NEW a, NEW k, NEW q, NEW x, l = Mirror(k),
               MediatorPays(a, k, q, x) \/ MediatorTooLate(a, k, q, x)
        PROVE  a = n
    <3>1. k = <<task[a].payer, a>>
      BY <2>2 DEF MediatorPays, MediatorTooLate, MediatorLearns
    <3> QED BY <1>3, <2>2, <3>1 DEF Mirror
  <2> QED BY <1>3, <2>1, <2>2 DEF NewReveal
<1>4. Revealed(n) => Revealed(n)'
  BY <1>1 DEF Revealed
<1>5. ASSUME Revealed(n)', ~Revealed(n)
      PROVE  \E l \in Link : l[1] = n /\ Sent(l, "RevealSecret")' /\ ~Sent(l, "RevealSecret")
  BY <1>5 DEF Revealed
<1> QED BY <1>2, <1>3, <1>4, <1>5

\* Who sends the secret to the chain knows it.
LEMMA RegistersNext ==
  ASSUME Base, ClockInv, Step, Registered', ~Registered
  PROVE  \E n \in Node :
           /\ Ticks(n) /\ mined' = 0 /\ mineBy' = height + MaxInclusion
           /\ \/ /\ n = Target /\ task[n].type = "target"
                 /\ IsSecretKnownOffChain(partnerState[<<n, task[n].from>>], secretHash)
              \/ /\ n \in Mediators /\ task[n].type = "mediator"
                 /\ IsSecretKnown(partnerState[<<n, task[n].payer>>], secretHash)
<1>1. PICK n \in Node : Ticks(n) /\ mined' = 0 /\ mineBy' = height + MaxInclusion
  BY RegisteredNext
<1>2. mineBy' # mineBy
  BY <1>1, ClockTypes DEF Registered
<1>3. TickStep(n)
  BY <1>1 DEF Ticks
<1>4. CASE n = Target /\ TargetTicks
  <2>1. /\ TargetMoves("onchain_secret_reveal")
        /\ IsSecretKnownOffChain(partnerState[<<Target, task[Target].from>>], secretHash)
    BY <1>2, <1>4 DEF TargetTicks
  <2>2. task[Target].type = "target"
    BY <2>1 DEF TargetMoves
  <2> QED BY <1>1, <1>4, <2>1, <2>2
<1>5. ASSUME NEW x, NEW y, MediatorTicks(n, x, y)
      PROVE  /\ n \in Mediators /\ task[n].type = "mediator"
             /\ IsSecretKnown(partnerState[<<n, task[n].payer>>], secretHash)
  BY <1>2, <1>5 DEF MediatorTicks, PayerMoves
<1> QED BY <1>1, <1>2, <1>3, <1>4, <1>5 DEF TickStep

\* The target's reveal is out after its step.
LEMMA TakesReveals ==
  ASSUME NEW l, NEW m, TargetTakes(l, m)
  PROVE  Revealed(Target)'
<1>1. l \in Link /\ l[2] = Target /\ Sent(Mirror(l), "RevealSecret")'
  BY DEF TargetTakes
<1>2. Mirror(l) \in Link /\ Mirror(l)[1] = Target
  BY <1>1, LinkFacts
<1> QED BY <1>1, <1>2 DEF Revealed

\* An unlock is sent by who was shown the secret or saw it on the chain.
LEMMA UnlockShown ==
  ASSUME NEW l \in Link, NewUnlock(l)
  PROVE  mined # 0 \/ (Sent(Mirror(l), "RevealSecret") /\ Revealed(l[2]))
<1>1. mined # 0 \/ Sent(Mirror(l), "RevealSecret")
  BY DEF NewUnlock, InitiatorPays, MediatorPays, MediatorLearns
<1>2. Mirror(l) \in Link /\ Mirror(l)[1] = l[2]
  BY LinkFacts
<1> QED BY <1>1, <1>2 DEF Revealed

\* As long as nobody acts on the secret, a pair does not learn of it.
LEMMA PairStaysBlind ==
  ASSUME Base, Step, mined = 0, \A l \in Link : ~Sent(l, "RevealSecret"),
         NEW n \in Mediators, task[n].type = "mediator" => ~task[n].secretKnown,
         task'[n].type = "mediator"
  PROVE  ~task'[n].secretKnown
<1> DEFINE t == task[n]
<1>1. CASE PairBorn(n)
  BY <1>1 DEF PairBorn
<1>2. CASE t.type = "mediator" /\ PairGoesOn(n)
  <2>1. ~t.secretKnown
    BY <1>2
  <2>2. ASSUME NEW k, NEW q, NEW x, MediatorLearns(n, k, q, x) PROVE FALSE
    <3>1. q \in Link /\ Sent(Mirror(q), "RevealSecret")
      BY <2>2 DEF MediatorLearns
    <3> QED BY <3>1, LinkFacts
  <2>3. CASE NodeUntouched(n)
    BY <2>1, <2>3 DEF NodeUntouched
  <2>4. CASE \E k, q, x : MediatorPays(n, k, q, x) \/ MediatorTooLate(n, k, q, x)
    BY <2>2, <2>4 DEF MediatorPays, MediatorTooLate
  <2>5. CASE Sees(n)
    <3>1. n \in Node
      BY NodeFacts
    <3> QED BY <2>5, <3>1, SeesFacts
  <2>6. CASE \E x, y : task'[n] = MdState(t, x, y, t.secretKnown)
    <3>1. PICK x, y : task'[n] = MdState(t, x, y, t.secretKnown)
      BY <2>6
    <3>2. task'[n].secretKnown = t.secretKnown
      BY <3>1 DEF MdState
    <3> QED BY <2>1, <3>2
  <2>7. CASE task'[n] = t
    BY <2>1, <2>7
  <2> QED BY <1>2, <2>3, <2>4, <2>5, <2>6, <2>7 DEF PairGoesOn
<1> QED BY <1>1, <1>2, PairSteps

\* The first to act on the secret is the target that reveals it.
LEMMA FromTargetNext ==
  ASSUME Base, ClockInv, FromTarget, Step
  PROVE  FromTarget'
<1>1. CASE Revealed(Target)
  <2>1. Revealed(Target)'
    BY <1>1, RevealedNext
  <2> QED BY <2>1 DEF FromTarget
<1>2. CASE \E l, m : TargetTakes(l, m)
  <2>1. Revealed(Target)'
    BY <1>2, TakesReveals
  <2> QED BY <2>1 DEF FromTarget
<1>3. CASE ~Revealed(Target) /\ ~(\E l, m : TargetTakes(l, m))
  <2>1. ~Out
    BY <1>3 DEF FromTarget
  <2>2. ~Registered /\ mined = 0
    BY <2>1 DEF Out, Registered
  <2>3. \A l \in Link : /\ ~Sent(l, "RevealSecret") /\ ~Sent(l, "Unlock")
                        /\ ~IsSecretKnown(partnerState[l], secretHash)
    BY <2>1 DEF Out
  <2>4. /\ task[Target].type # "target"
        /\ "PaymentSentSuccess" \notin notices[Initiator]
        /\ "PaymentReceivedSuccess" \notin notices[Target]
        /\ \A n \in Mediators : ~(task[n].type = "mediator" /\ task[n].secretKnown)
    BY <2>1 DEF Out
  <2>5. ~Registered'
    <3> SUFFICES ASSUME Registered' PROVE FALSE
      OBVIOUS
    <3>1. PICK n \in Node :
            \/ n = Target /\ task[n].type = "target"
            \/ /\ n \in Mediators /\ task[n].type = "mediator"
               /\ IsSecretKnown(partnerState[<<n, task[n].payer>>], secretHash)
      BY <2>2, RegistersNext
    <3>2. CASE n \in Mediators /\ task[n].type = "mediator"
               /\ IsSecretKnown(partnerState[<<n, task[n].payer>>], secretHash)
      <4> DEFINE k == <<task[n].payer, n>>
      <4>1. Mirror(k) = <<n, task[n].payer>> /\ Mirror(k) \in Link
        BY <3>2, MediatorFacts
      <4> QED BY <2>3, <3>2, <4>1
    <3> QED BY <2>4, <3>1, <3>2
  <2>6. ASSUME NEW k, NEW q, NEW x, NEW n, MediatorLearns(n, k, q, x) PROVE FALSE
    <3>1. q \in Link /\ Sent(Mirror(q), "RevealSecret")
      BY <2>6 DEF MediatorLearns
    <3> QED BY <2>3, <3>1, LinkFacts
  <2>7. ASSUME NEW l \in Link PROVE ~Sent(l, "RevealSecret")'
    <3>1. ~NewReveal(l)
      BY <1>3, <2>6 DEF NewReveal, MediatorPays, MediatorTooLate
    <3> QED BY <2>3, <3>1, LinkSends DEF SentKept, RevealKept, NewUnlock, NewExpired, NewPromise
  <2>8. ASSUME NEW l \in Link PROVE ~Sent(l, "Unlock")'
    <3>1. ~NewUnlock(l)
      BY <2>2, <2>3, UnlockShown, LinkFacts
    <3> QED BY <2>3, <3>1, LinkSends DEF SentKept, EndsKept, NewReveal, NewExpired, NewPromise
  <2>9. ASSUME NEW l \in Link PROVE ~IsSecretKnown(partnerState'[l], secretHash)
    <3>1. PICK j \in Link : j = Mirror(l) /\ Mirror(j) = l
      BY LinkFacts
    <3>2. RecPlain(j)
      BY <1>3, KnownNext
    <3> QED BY <2>2, <2>3, <3>1, <3>2 DEF RecPlain, SecretOut
  <2>10. task'[Target].type # "target"
    BY <1>3, <2>4, TargetSteps DEF TargetGoesOn
  <2>11. ASSUME NEW l, InitiatorPays(l) PROVE FALSE
    <3>1. l \in Link /\ (mined # 0 \/ Sent(Mirror(l), "RevealSecret"))
      BY <2>11 DEF InitiatorPays, InitiatorUnlocks
    <3> QED BY <2>2, <2>3, <3>1, LinkFacts
  <2>12. "PaymentSentSuccess" \notin notices'[Initiator]
    <3>1. Initiator \in Node /\ "PaymentSentSuccess" \in Marks /\ Initiator # Target
      BY NodeFacts DEF Marks
    <3> QED BY <2>4, <2>11, <3>1, NotesNext
  <2>13. "PaymentReceivedSuccess" \notin notices'[Target]
    <3>1. Target \in Node /\ "PaymentReceivedSuccess" \in Marks /\ Initiator # Target
      BY NodeFacts DEF Marks
    <3> QED BY <2>4, <3>1, NotesNext
  <2>14. ASSUME NEW n \in Mediators PROVE ~(task'[n].type = "mediator" /\ task'[n].secretKnown)
    BY <2>2, <2>3, <2>4, PairStaysBlind
  <2>15. ~Out'
    BY <2>5, <2>7, <2>8, <2>9, <2>10, <2>12, <2>13, <2>14 DEF Out
  <2> QED BY <2>15 DEF FromTarget
<1> QED BY <1>1, <1>2, <1>3

\* A node is paid after it revealed the secret or after the chain did.
LEMMA UnlockKnownNext ==
  ASSUME Base, ClockInv, UnlockKnown, Step
  PROVE  UnlockKnown'
<1> SUFFICES ASSUME NEW l \in Link, Sent(l, "Unlock")'
             PROVE  Revealed(l[2])' \/ mined' # 0
  BY DEF UnlockKnown
<1>1. Revealed(l[2]) \/ mined # 0
  <2>1. CASE Sent(l, "Unlock")
    BY <2>1 DEF UnlockKnown
  <2>2. CASE ~Sent(l, "Unlock")
    <3>1. NewUnlock(l)
      BY <2>2, LinkSends DEF SentKept, EndsKept, NewReveal, NewExpired, NewPromise
    <3> QED BY <3>1, UnlockShown
  <2> QED BY <2>1, <2>2
<1>2. Revealed(l[2]) => Revealed(l[2])'
  BY RevealedNext
<1>3. mined # 0 => mined' # 0
  BY RegisteredNext
<1> QED BY <1>1, <1>2, <1>3

\* The channels know from the chain what is on the chain.
LEMMA ChainStaysKnown ==
  ASSUME Base, ClockInv, ChainKnown, Step
  PROVE  ChainKnown'
<1> SUFFICES ASSUME NEW l \in Link
             PROVE  /\ IsSecretKnownOnChain(ourState'[l], secretHash) => mined' # 0
                    /\ IsSecretKnownOnChain(partnerState'[l], secretHash) => mined' # 0
  BY DEF ChainKnown
<1>1. PICK j \in Link : j = Mirror(l) /\ Mirror(j) = l
  BY LinkFacts
<1>2. IsSecretKnownOnChain(ourState'[l], secretHash) => mined # 0
  BY ChainKnownNext DEF ChainKnown
<1>3. IsSecretKnownOnChain(partnerState'[l], secretHash) => mined # 0
  BY <1>1, ChainKnownNext DEF ChainKnown
<1>4. mined # 0 => mined' # 0
  BY RegisteredNext
<1> QED BY <1>2, <1>3, <1>4

\* A node that learns the secret was shown it by its payee, which is named.
LEMMA LearnsFacts ==
  ASSUME NEW n, NEW k, NEW q, NEW x, MediatorLearns(n, k, q, x)
  PROVE  /\ n \in Mediators /\ task[n].type = "mediator" /\ ~task[n].secretKnown
         /\ k = <<task[n].payer, n>> /\ k \in Link /\ q = <<n, task[n].payee>>
         /\ q \in Link /\ q[1] = n /\ Transfers(q) # {} /\ Revealed(q[2])
         /\ Mirror(q) \in Link /\ Sent(Mirror(q), "RevealSecret")
<1>1. q \in Link /\ q = <<n, task[n].payee>> /\ Sent(Mirror(q), "RevealSecret")
  BY DEF MediatorLearns
<1>2. Mirror(q) \in Link /\ Mirror(q)[1] = q[2]
  BY <1>1, LinkFacts
<1>3. Revealed(q[2])
  BY <1>1, <1>2 DEF Revealed
<1> QED BY <1>1, <1>2, <1>3 DEF MediatorLearns

\* A mediator that passes a transfer on, and the nodes of its path, have revealed
\* nothing.
LEMMA ForwardsBlind ==
  ASSUME Base, PathReveals, NEW l, NEW m, NEW k, NEW x, MediatorForwards(l, m, k, x),
         NEW n \in x.mediators
  PROVE  ~Revealed(n) /\ ~Revealed(n)'
<1>1. MediatorTakes(l, m) /\ x.mediators = m.mediators \cup {l[2]} /\ KeptBut({k}, {l}, {})
  BY DEF MediatorForwards
<1>2. l \in Link /\ m \in Transfers(l) /\ RecTakes(l, m)
  BY <1>1 DEF MediatorTakes
<1>3. ~Revealed(l[2])
  BY <1>2, TakesNew, NotRevealedYet
<1>4. ~Revealed(n)
  <2>1. n = l[2] \/ n \in m.mediators
    BY <1>1
  <2> QED BY <1>2, <1>3, <2>1 DEF PathReveals
<1>5. PICK O, R : KeptBut(O, R, {})
  BY <1>1
<1>6. Revealed(n)' <=> Revealed(n)
  BY <1>5, NoReveal
<1> QED BY <1>4, <1>6

\* Who reveals the secret was shown it by the next node of the path.
LEMMA PathRevealsNext ==
  ASSUME Base, PathReveals, Step
  PROVE  PathReveals'
<1> SUFFICES ASSUME NEW k \in Link, NEW m \in Transfers(k)', NEW n \in m.mediators, Revealed(n)'
             PROVE  Revealed(k[2])'
  BY DEF PathReveals
<1>1. n \in Mediators
  <2>1. TransferOrigin'
    BY StepNext DEF Base
  <2>2. Origin(k, m)'
    BY <2>1 DEF TransferOrigin
  <2> QED BY <2>2 DEF Origin
<1>2. Revealed(k[2]) => Revealed(k[2])'
  BY RevealedNext
<1>3. ASSUME m \in Transfers(k) PROVE Revealed(k[2])
  <2>1. CASE Revealed(n)
    BY <1>3, <2>1 DEF PathReveals
  <2>2. CASE ~Revealed(n)
    <3>1. n # Target
      BY <1>1, NodeFacts
    <3>2. PICK a, q, x : MediatorLearns(n, a, q, x)
      BY <2>2, <3>1, RevealedNext DEF MediatorPays, MediatorTooLate
    <3>3. q \in Link /\ q[1] = n /\ Transfers(q) # {} /\ Revealed(q[2])
      BY <3>2, LearnsFacts
    <3>4. PICK y \in Transfers(q) : TRUE
      BY <3>3
    <3>5. q = k \/ q[2] \in m.mediators
      BY <1>3, <3>3, <3>4, AfterSender
    <3> QED BY <1>3, <3>3, <3>5 DEF PathReveals
  <2> QED BY <2>1, <2>2
<1>4. ASSUME m \notin Transfers(k) PROVE FALSE
  <2>1. PICK y : NewPromise(k, y)
    BY <1>4, LinkSends DEF SentKept, PromisesKept, NewReveal, NewUnlock, NewExpired
  <2>2. SentPromise(k, y)
    BY <2>1 DEF NewPromise, OurPromises
  <2>3. y = m /\ m.type = "LockedTransfer"
    BY <1>4, <2>2 DEF SentPromise
  <2>4. CASE Starts(k, m)
    BY <2>4 DEF Starts
  <2>5. ASSUME NEW l, NEW x, MediatorForwards(l, x, k, m) PROVE FALSE
    BY <2>5, ForwardsBlind
  <2>6. ASSUME NEW l, NEW x, MediatorRefunds(l, x, m) PROVE FALSE
    BY <2>3, <2>6 DEF MediatorRefunds
  <2> QED BY <2>1, <2>3, <2>4, <2>5, <2>6 DEF NewPromise
<1> QED BY <1>2, <1>3, <1>4

\* A mediator that waits did so before, or has just taken its transfer.
LEMMA WaitSteps ==
  ASSUME Base, Step, NEW n \in Mediators, task'[n].type = "waiting"
  PROVE  task[n].type = "waiting" \/ \E l, m : MediatorTakes(l, m) /\ l[2] = n
<1>1. n \in Node /\ n # Initiator /\ n # Target
  BY NodeFacts
<1>2. CASE NodeUntouched(n)
  BY <1>2 DEF NodeUntouched
<1>3. ASSUME NEW x, NEW y, NEW z, MdTask(n, MdState(task[n], x, y, z)) PROVE FALSE
  <2>1. PICK t : t = MdState(task[n], x, y, z) /\ MdTask(n, t)
    BY <1>3
  <2>2. t.type = "mediator"
    BY <2>1 DEF MdState
  <2> QED BY <2>1, <2>2 DEF MdTask, TaskSet, NoTask
<1>4. CASE WaiterMoves(n)
  BY <1>4 DEF WaiterMoves
<1>5. CASE ByMessage(n)
  <2>1. ASSUME NEW l, NEW m, l[2] = n, MediatorWaits(l, m)
        PROVE  MediatorTakes(l, m)
    BY <2>1 DEF MediatorWaits
  <2>2. ASSUME NEW l, NEW m, l[2] = n, MediatorIsPaid(l, m) PROVE FALSE
    BY <1>3, <2>2 DEF MediatorIsPaid
  <2>3. ASSUME NEW l, NEW m, l[2] = n, MediatorLoses(l, m) PROVE task[n].type = "waiting"
    BY <2>3 DEF MediatorLoses, MdTask, TaskSet, NoTask
  <2>4. ASSUME NEW l, NEW m, NEW x, l[2] = n, MediatorRefunds(l, m, x) PROVE FALSE
    BY <2>4 DEF MediatorRefunds, TaskSet, PairTask
  <2>5. ASSUME NEW l, NEW m, NEW k, NEW x, l[2] = n, MediatorForwards(l, m, k, x) PROVE FALSE
    BY <2>5 DEF MediatorForwards, TaskSet, PairTask
  <2>6. ASSUME NEW k, NEW q, NEW x, MediatorPays(n, k, q, x) PROVE FALSE
    BY <1>3, <2>6 DEF MediatorPays
  <2>7. ASSUME NEW k, NEW q, NEW x, MediatorTooLate(n, k, q, x) PROVE FALSE
    BY <1>3, <2>7 DEF MediatorTooLate
  <2>8. ASSUME NEW l, NEW x, l[2] = n, MediatorMisses(l, x) PROVE FALSE
    BY <1>3, <2>8 DEF MediatorMisses
  <2> QED BY <1>1, <1>4, <1>5, <2>1, <2>2, <2>3, <2>4, <2>5, <2>6, <2>7, <2>8 DEF ByMessage
<1>6. CASE Sees(n)
  <2>1. SeenStep(n)
    BY <1>6 DEF Sees
  <2>2. ~MediatorSees(n)
    BY <1>3 DEF MediatorSees
  <2>3. CASE Idle
    BY <1>1, <2>3 DEF Idle, TasksKept
  <2> QED BY <1>1, <1>4, <2>1, <2>2, <2>3 DEF SeenStep
<1>7. CASE Ticks(n)
  <2>1. TickStep(n)
    BY <1>7 DEF Ticks
  <2>2. \A x, y : ~MediatorTicks(n, x, y)
    BY <1>3 DEF MediatorTicks
  <2>3. CASE Idle
    BY <1>1, <2>3 DEF Idle, TasksKept
  <2> QED BY <1>1, <1>4, <2>1, <2>2, <2>3 DEF TickStep
<1> QED BY <1>1, <1>2, <1>5, <1>6, <1>7, NodeSteps DEF NodeMoves

\* What a step may do to a pair's states.
LEMMA PairSame ==
  ASSUME Base, Step, NEW n \in Mediators, task[n].type = "mediator", PairGoesOn(n)
  PROVE  /\ task'[n].type = "mediator"
         /\ task'[n].payer = task[n].payer /\ task'[n].payee = task[n].payee
         /\ task'[n].lock = task[n].lock
         /\ task[n].secretKnown => task'[n].secretKnown
         /\ \/ task'[n].payerState = task[n].payerState
            \/ task'[n].payerState = "payer_secret_revealed"
            \/ task'[n].payerState = "payer_expired"
            \/ /\ task'[n].payerState = "payer_balance_proof"
               /\ \E l, m : l[2] = n /\ MediatorIsPaid(l, m)
            \/ /\ Ticks(n) /\ task'[n].payerState = "payer_waiting_secret_reveal"
               /\ PayerMoves(n, "payer_waiting_secret_reveal")
<1> DEFINE t == task[n]
<1>1. CASE task'[n] = t
  BY <1>1
<1>2. CASE NodeUntouched(n)
  BY <1>1, <1>2 DEF NodeUntouched
<1>3. CASE \E k, q, x : /\ MediatorPays(n, k, q, x)
                        /\ task'[n] = MdState(t, x, "payee_balance_proof", TRUE)
  <2>1. PICK k, q, x : /\ MediatorPays(n, k, q, x)
                       /\ task'[n] = MdState(t, x, "payee_balance_proof", TRUE)
    BY <1>3
  <2>2. x = "payer_secret_revealed" \/ x = t.payerState
    BY <2>1 DEF MediatorPays, MediatorLearns
  <2> QED BY <2>1, <2>2 DEF MdState
<1>4. CASE \E k, q, x : /\ MediatorTooLate(n, k, q, x)
                        /\ task'[n] = MdState(t, x, "payee_secret_revealed", TRUE)
  <2>1. PICK k, q, x : /\ MediatorTooLate(n, k, q, x)
                       /\ task'[n] = MdState(t, x, "payee_secret_revealed", TRUE)
    BY <1>4
  <2>2. x = "payer_secret_revealed" \/ x = t.payerState
    BY <2>1 DEF MediatorTooLate, MediatorLearns
  <2> QED BY <2>1, <2>2 DEF MdState
<1>5. CASE task'[n] = MdState(t, t.payerState, t.payeeState, TRUE)
  BY <1>5 DEF MdState
<1>6. CASE \E l, m : /\ l[2] = n /\ MediatorIsPaid(l, m)
                     /\ task'[n] = MdState(t, "payer_balance_proof", t.payeeState, t.secretKnown)
  BY <1>6 DEF MdState
<1>7. CASE \E l, x : /\ l[2] = n /\ MediatorMisses(l, x)
                     /\ task'[n] = MdState(t, x, t.payeeState, t.secretKnown)
  <2>1. PICK l, x : /\ l[2] = n /\ MediatorMisses(l, x)
                    /\ task'[n] = MdState(t, x, t.payeeState, t.secretKnown)
    BY <1>7
  <2>2. x = "payer_expired" \/ x = t.payerState
    BY <2>1 DEF MediatorMisses
  <2> QED BY <2>1, <2>2 DEF MdState
<1>8. CASE Ticks(n) /\ \E x, y : /\ MediatorTicks(n, x, y)
                                 /\ task'[n] = MdState(t, x, y, t.secretKnown)
  <2>1. PICK x, y : MediatorTicks(n, x, y) /\ task'[n] = MdState(t, x, y, t.secretKnown)
    BY <1>8
  <2>2. PayerMoves(n, x)
    BY <2>1 DEF MediatorTicks
  <2>3. x \in {t.payerState, "payer_waiting_secret_reveal", "payer_expired"}
    BY <2>2 DEF PayerMoves
  <2>4. /\ task'[n].type = "mediator" /\ task'[n].payer = t.payer /\ task'[n].payee = t.payee
        /\ task'[n].lock = t.lock /\ task'[n].secretKnown = t.secretKnown
        /\ task'[n].payerState = x
    BY <2>1 DEF MdState
  <2> QED BY <1>8, <2>2, <2>3, <2>4
<1> QED BY <1>1, <1>2, <1>3, <1>4, <1>5, <1>6, <1>7, <1>8 DEF PairGoesOn

\* A registration is on its way once it was sent.
LEMMA RegisterGoes ==
  ASSUME Base, RegisterSecret, mined' = mined
  PROVE  Registered'
<1>1. height \in Nat /\ mineBy \in Nat /\ mined \in Nat /\ MaxInclusion \in Nat /\ MaxInclusion >= 1
  BY ClockTypes
<1> QED BY <1>1 DEF RegisterSecret, Registered

\* What a mediator's task says of the secret stays true.
LEMMA PairKnowsNext ==
  ASSUME Base, ClockInv, Secrets, Step
  PROVE  PairKnows'
<1> SUFFICES ASSUME NEW n \in Mediators
             PROVE  /\ task'[n].type = "waiting" => ~Revealed(n)'
                    /\ task'[n].type = "mediator" =>
                         /\ Revealed(n)' => task'[n].secretKnown
                         /\ task'[n].payerState = "payer_waiting_secret_reveal" => Registered'
                         /\ task'[n].payerState = "payer_balance_proof" =>
                              partnerState'[<<n, task'[n].payer>>].balanceProof.nonce = 2
  BY DEF PairKnows
<1>0. PairKnows /\ ChainKnown
  BY DEF Secrets
<1>1. n # Target /\ n \in Node
  BY NodeFacts
<1>2. ASSUME Revealed(n)', ~Revealed(n)
      PROVE  /\ task[n].type = "mediator"
             /\ \E t : t.type = "mediator" /\ t.secretKnown /\ MdTask(n, t)
  <2>1. PICK k, q, x : MediatorPays(n, k, q, x) \/ MediatorTooLate(n, k, q, x)
    BY <1>1, <1>2, RevealedNext
  <2>2. PICK y, t : t = MdState(task[n], x, y, TRUE) /\ MdTask(n, t)
    BY <2>1 DEF MediatorPays, MediatorTooLate
  <2>3. t.type = "mediator" /\ t.secretKnown
    BY <2>2 DEF MdState
  <2>4. MediatorLearns(n, k, q, x)
    BY <2>1 DEF MediatorPays, MediatorTooLate
  <2> QED BY <2>2, <2>3, <2>4, LearnsFacts
<1>3. ASSUME NEW l, NEW m, MediatorTakes(l, m), l[2] = n
      PROVE  task[n] = NoTask /\ ~Revealed(n)
  BY <1>3, TakesNew, NotRevealedYet DEF MediatorTakes
<1>4. ASSUME task'[n].type = "waiting" PROVE ~Revealed(n)'
  <2>2. ~Revealed(n)
    BY <1>0, <1>3, <1>4, WaitSteps DEF PairKnows
  <2>3. ASSUME Revealed(n)' PROVE FALSE
    <3>1. PICK t : t.type = "mediator" /\ MdTask(n, t)
      BY <1>2, <2>2, <2>3
    <3>2. task'[n] = t
      BY <1>4, <3>1, MdTaskLeft
    <3> QED BY <1>4, <3>1, <3>2
  <2> QED BY <2>3
<1>5. ASSUME task'[n].type = "mediator", Revealed(n)' PROVE task'[n].secretKnown
  <2>1. CASE ~Revealed(n)
    BY <1>2, <1>5, <2>1, MdTaskLeft
  <2>2. CASE Revealed(n)
    <3>1. ~PairBorn(n)
      BY <1>3, <2>2 DEF PairBorn
    <3>2. task[n].type = "mediator" /\ PairGoesOn(n)
      BY <1>5, <3>1, PairSteps
    <3> QED BY <1>0, <2>2, <3>2, PairSame DEF PairKnows
  <2> QED BY <2>1, <2>2
<1>6. ASSUME task'[n].type = "mediator", task'[n].payerState = "payer_waiting_secret_reveal"
      PROVE  Registered'
  <2>1. task[n].type = "mediator" /\ PairGoesOn(n)
    BY <1>6, PairSteps DEF PairBorn
  <2>2. CASE Ticks(n) /\ PayerMoves(n, "payer_waiting_secret_reveal")
    <3>1. \/ RegisterSecret
          \/ IsSecretKnownOnChain(partnerState[<<n, task[n].payer>>], secretHash)
          \/ task[n].payerState = "payer_waiting_secret_reveal"
      BY <2>2 DEF PayerMoves
    <3>2. CASE RegisterSecret
      <4>1. mined' = mined
        BY <1>1, <2>2, TickFacts
      <4> QED BY <3>2, <4>1, RegisterGoes
    <3>3. CASE IsSecretKnownOnChain(partnerState[<<n, task[n].payer>>], secretHash)
      <4>1. PICK k \in Link : k = <<n, task[n].payer>>
        BY <1>1, <2>1, MediatorFacts
      <4>2. mined # 0
        BY <1>0, <3>3, <4>1 DEF ChainKnown
      <4> QED BY <4>2, RegisteredNext DEF Registered
    <3>4. CASE task[n].payerState = "payer_waiting_secret_reveal"
      BY <1>0, <2>1, <3>4, RegisteredNext DEF PairKnows
    <3> QED BY <3>1, <3>2, <3>3, <3>4
  <2>3. CASE task[n].payerState = "payer_waiting_secret_reveal"
    BY <1>0, <2>1, <2>3, RegisteredNext DEF PairKnows
  <2> QED BY <1>6, <2>1, <2>2, <2>3, PairSame
<1>7. ASSUME task'[n].type = "mediator", task'[n].payerState = "payer_balance_proof"
      PROVE  partnerState'[<<n, task'[n].payer>>].balanceProof.nonce = 2
  <2>1. task[n].type = "mediator" /\ PairGoesOn(n)
    BY <1>7, PairSteps DEF PairBorn
  <2>2. PICK k \in Link : k = <<task[n].payer, n>> /\ Mirror(k) = <<n, task[n].payer>>
    BY <1>1, <2>1, MediatorFacts
  <2>3. task'[n].payer = task[n].payer
    BY <2>1, PairSame
  <2>4. CASE task[n].payerState = "payer_balance_proof"
    <3>1. partnerState[Mirror(k)].balanceProof.nonce = 2
      BY <1>0, <2>1, <2>2, <2>4 DEF PairKnows
    <3>2. StepsOK
      BY StepNext DEF Onward
    <3>3. 2 <= partnerState'[Mirror(k)].balanceProof.nonce
      BY <3>1, <3>2, LinkOnward
    <3>4. partnerState'[Mirror(k)].balanceProof.nonce \in {0, 1, 2}
      BY <3>2, PendingAfter
    <3> QED BY <2>2, <2>3, <3>3, <3>4
  <2>5. CASE \E l, m : l[2] = n /\ MediatorIsPaid(l, m)
    <3>1. PICK l, m : l[2] = n /\ MediatorIsPaid(l, m)
      BY <2>5
    <3>2. l \in Link /\ l[1] = task[n].payer /\ m \in Ends(l) /\ RecTakes(l, m)
      BY <3>1 DEF MediatorIsPaid
    <3>3. l = <<l[1], l[2]>>
      BY <3>2, LinkFacts
    <3>4. l = k
      BY <2>2, <3>1, <3>2, <3>3
    <3> QED BY <2>2, <2>3, <3>2, <3>4, TakenEnd
  <2> QED BY <1>7, <2>1, <2>4, <2>5, PairSame
<1> QED BY <1>4, <1>5, <1>6, <1>7

\* A promise to the target is a transfer.
LEMMA ToTarget ==
  ASSUME Base, NEW l \in Link, l[2] = Target, Promises(l) # {}
  PROVE  Transfers(l) # {}
<1>1. PICK m \in Promises(l) : TRUE
  OBVIOUS
<1>2. CASE m.type = "LockedTransfer"
  BY <1>1, <1>2 DEF Promises, Transfers
<1>3. CASE m.type # "LockedTransfer"
  <2>1. Mirror(l) \in Link /\ Mirror(l)[1] = Target
    BY LinkFacts
  <2>2. Transfers(Mirror(l)) # {}
    BY <1>1, <1>3 DEF Base, PromiseOrigin
  <2>3. FALSE
    BY <2>1, <2>2 DEF Base, TransferOrigin, Origin
  <2> QED BY <2>3
<1> QED BY <1>2, <1>3

\* The target's task ends when it is paid or when its lock was taken back.
LEMMA TargetNone ==
  ASSUME Base, Step, task[Target].type = "target", task'[Target].type = "none"
  PROVE  \E l : TargetGivesUp(l) \/ \E m : TargetIsPaid(l, m)
<1>1. Target \in Node /\ Target # Initiator /\ Target \notin Mediators
  BY NodeFacts
<1>2. task'[Target] # task[Target] /\ ~TasksKept
  BY <1>1 DEF TasksKept
<1>3. ~Idle
  BY <1>2 DEF Idle
<1>4. ~NodeUntouched(Target)
  BY <1>2 DEF NodeUntouched
<1>5. \A s : ~TargetMoves(s)
  BY DEF TargetMoves, TaskSet, TargetTask
<1>6. ~WaiterMoves(Target) /\ ~MediatorSees(Target) /\ \A x, y : ~MediatorTicks(Target, x, y)
  BY <1>1 DEF WaiterMoves, MediatorSees, MediatorTicks
<1>7. ASSUME ByMessage(Target)
      PROVE  \E l : TargetGivesUp(l) \/ \E m : TargetIsPaid(l, m)
  <2>1. ASSUME NEW l, NEW m, TargetTakes(l, m) PROVE FALSE
    BY <2>1 DEF TargetTakes, NoTask
  <2>2. ASSUME NEW l, NEW m, TargetTakesLate(l, m) \/ TargetLoses(l, m) PROVE FALSE
    BY <1>2, <2>2 DEF TargetTakesLate, TargetLoses
  <2>3. ASSUME NEW l, NEW m, l[2] = Target,
               MediatorWaits(l, m) \/ MediatorIsPaid(l, m) \/ MediatorLoses(l, m)
        PROVE  FALSE
    BY <1>1, <2>3, MediatorTakeLocal
  <2>4. ASSUME NEW l, NEW m, NEW k, NEW x, l[2] = Target,
               MediatorForwards(l, m, k, x) \/ MediatorRefunds(l, m, x)
        PROVE  FALSE
    BY <1>1, <2>4, MediatorMakeLocal
  <2>5. ASSUME NEW k, NEW q, NEW x,
               MediatorPays(Target, k, q, x) \/ MediatorTooLate(Target, k, q, x)
        PROVE  FALSE
    BY <1>1, <2>5, MediatorLearnLocal
  <2>6. ASSUME NEW l, NEW x, l[2] = Target, MediatorMisses(l, x) PROVE FALSE
    BY <1>1, <2>6 DEF MediatorMisses
  <2> QED BY <1>1, <1>6, <1>7, <2>1, <2>2, <2>3, <2>4, <2>5, <2>6 DEF ByMessage
<1>8. ~Sees(Target)
  BY <1>1, <1>3, <1>5, <1>6 DEF Sees, SeenStep
<1>9. ~TargetTicks
  BY <1>5 DEF TargetTicks
<1>10. ~Ticks(Target)
  BY <1>1, <1>3, <1>6, <1>9 DEF Ticks, TickStep
<1> QED BY <1>1, <1>4, <1>7, <1>8, <1>10, NodeSteps DEF NodeMoves

\* What the target's task says of the secret stays true.
LEMMA TargetKnowsNext ==
  ASSUME Base, ClockInv, TargetKnows, Step
  PROVE  TargetKnows'
<1>1. Target \in Node /\ Target \notin Mediators
  BY NodeFacts
<1>2. Onward /\ StepsOK /\ Base'
  BY StepNext DEF Onward
<1>3. ASSUME Revealed(Target)', task'[Target].type = "none",
             NEW l \in Link, l[2] = Target, Transfers(l)' # {}
      PROVE  Ends(l)' # {}
  <2>1. Revealed(Target)
    <3>1. ASSUME NEW k, NEW m, TargetTakes(k, m) PROVE FALSE
      BY <1>3, <3>1 DEF TargetTakes, TaskSet, TargetTask
    <3>2. ASSUME NEW k, NEW q, NEW x, MediatorPays(Target, k, q, x) \/ MediatorTooLate(Target, k, q, x)
          PROVE  FALSE
      BY <1>1, <3>2, MediatorLearnLocal
    <3> QED BY <1>3, <3>1, <3>2, RevealedNext
  <2>2. PICK k \in Link : k[2] = Target /\ Transfers(k) # {} /\ Accepted(k)
    BY <2>1, RevealedGot
  <2>3. k = l
    <3>1. Transfers(k)' # {}
      BY <1>2, <2>2, LinkOnward
    <3>2. Path'
      BY <1>2 DEF Base, Path
    <3> QED BY <1>3, <2>2, <3>1, <3>2, PathFactsNext
  <2>4. Ends(l) # {}
    <3>1. CASE task[Target].type = "none"
      BY <1>3, <2>1, <2>2, <2>3, <3>1 DEF TargetKnows
    <3>2. CASE task[Target].type # "none"
      <4>1. task[Target].type = "target"
        BY <3>2 DEF Base, TaskInv, TargetTaskOK
      <4>2. PICK j : TargetGivesUp(j) \/ \E m : TargetIsPaid(j, m)
        BY <1>3, <4>1, TargetNone
      <4>3. CASE TargetGivesUp(j)
        <5>1. j \in Link /\ j[2] = Target /\ Ends(j) # {} /\ Promises(j) # {}
          BY <4>3, OneEnd DEF TargetGivesUp
        <5>2. j = l
          BY <2>2, <2>3, <5>1, ToTarget, OneTransfer
        <5> QED BY <5>1, <5>2
      <4>4. CASE \E m : TargetIsPaid(j, m)
        <5>1. j \in Link /\ j = <<task[Target].from, Target>> /\ Ends(j) # {}
          BY <4>4 DEF TargetIsPaid
        <5>2. j[2] = Target /\ Transfers(j) # {}
          BY <4>1, <5>1, TargetFacts, GotFacts
        <5>3. j = l
          BY <2>2, <2>3, <5>1, <5>2, OneTransfer
        <5> QED BY <5>1, <5>3
      <4> QED BY <4>2, <4>3, <4>4
    <3> QED BY <3>1, <3>2
  <2> QED BY <1>2, <2>4, LinkOnward
<1>4. ASSUME task'[Target].type = "target", task'[Target].state = "onchain_secret_reveal"
      PROVE  Registered'
  <2>1. ASSUME task[Target].type = "target", task[Target].state = "onchain_secret_reveal"
        PROVE  Registered'
    BY <2>1, RegisteredNext DEF TargetKnows
  <2>2. TargetGoesOn
    <3>1. ASSUME NEW l, NEW m, TargetTakes(l, m) PROVE FALSE
      <4>1. task'[Target] = TargetTask(l[1], m.lock, "reveal_secret")
        BY <3>1 DEF TargetTakes, TaskSet
      <4> QED BY <1>4, <4>1 DEF TargetTask
    <3> QED BY <1>4, <3>1, TargetSteps
  <2>3. CASE NodeUntouched(Target) \/ TasksKept
    BY <1>1, <1>4, <2>1, <2>3 DEF NodeUntouched, TasksKept
  <2>4. CASE Ticks(Target) /\ TargetTicks
    <3>1. CASE TargetMoves("expired")
      BY <1>4, <3>1, TargetMoved
    <3>2. CASE RegisterSecret
      <4>1. mined' = mined
        BY <1>1, <2>4, TickFacts
      <4> QED BY <3>2, <4>1, RegisterGoes
    <3>3. CASE TargetMoves(task[Target].state)
      <4>1. task[Target].type = "target" /\ task'[Target].state = task[Target].state
        BY <3>3, TargetMoved
      <4> QED BY <1>4, <2>1, <4>1
    <3> QED BY <2>4, <3>1, <3>2, <3>3 DEF TargetTicks
  <2> QED BY <1>4, <2>2, <2>3, <2>4 DEF TargetGoesOn
<1> QED BY <1>3, <1>4 DEF TargetKnows

\* Every step keeps what is known of the secret.
LEMMA SecretsNext ==
  ASSUME Base, ClockInv, Secrets, Step
  PROVE  Secrets'
<1>1. FromTarget /\ PathReveals /\ UnlockKnown /\ ChainKnown /\ PairKnows /\ TargetKnows
  BY DEF Secrets
<1>2. FromTarget' /\ PathReveals' /\ UnlockKnown' /\ ChainKnown' /\ PairKnows' /\ TargetKnows'
  BY <1>1, FromTargetNext, PathRevealsNext, UnlockKnownNext, ChainStaysKnown, PairKnowsNext,
     TargetKnowsNext
<1> QED BY <1>2 DEF Secrets

-----------------------------------------------------------------------------
(* The race with the expiration, when the reveal timeout is long enough.   *)

\* Node n does not have to register the secret of a lock that expires at e yet.
Early(n, e) == block[n] + RevealTimeout < e

\* Mediator n knows the secret and has not paid its payee.
Late(n) ==
  task[n].type = "mediator" /\ task[n].secretKnown /\ task[n].payeeState # "payee_balance_proof"

\* The initiator has paid its first hop.
InitiatorPaid == \E l \in Link : l[1] = Initiator /\ Sent(l, "Unlock")

\* The receiver of link l has shown the secret in time and is not paid yet; every
\* mediator that does not pay its payee comes before it on the path.
Waits(l) ==
  /\ Transfers(l) # {} /\ ~Sent(l, "Unlock") /\ Revealed(l[2])
  /\ \A m \in Transfers(l) :
       /\ Early(l[2], m.lock.expiration)
       /\ \A n \in Mediators : Late(n) => n \in m.mediators

\* A registration is mined before the locks expire.
RegisteredEarly ==
  Registered => \A k \in Link : \A m \in Transfers(k) :
    mineBy < m.lock.expiration /\ mined < m.lock.expiration

\* A mediator is not late with the payer: rec is its copy of the payer's side, our
\* its own of the payee's channel.
PairInTime(n, t, rec, our) ==
  /\ t.payerState = "payer_expired" => height >= t.lock.expiration
  /\ rec.balanceProof.nonce = 1 =>
       /\ t.secretKnown => IsSecretKnown(rec, secretHash)
       /\ t.payeeState = "payee_balance_proof" => Early(n, t.lock.expiration) \/ Registered
  /\ seen[n] /\ our.balanceProof.nonce = 1 => IsSecretKnownOnChain(our, secretHash)

\* No mediator of the path is too late.
PairsInTime ==
  \A n \in Mediators : task[n].type = "mediator" =>
    PairInTime(n, task[n], partnerState[<<n, task[n].payer>>], ourState[<<n, task[n].payee>>])

\* Nor is the target.
TargetInTime ==
  /\ task[Target].type = "target"
  /\ partnerState[<<Target, task[Target].from>>].balanceProof.nonce = 1
  => /\ IsSecretKnown(partnerState[<<Target, task[Target].from>>], secretHash)
     /\ Early(Target, task[Target].lock.expiration) \/ Registered

\* The secret goes back along the path, or it is on the chain, or it is back at the
\* initiator and every mediator has paid.
OnTheWay ==
  Revealed(Target) =>
    \/ Registered
    \/ \E l \in Link : Waits(l)
    \/ InitiatorPaid /\ \A n \in Mediators : ~Late(n)

\* The initiator pays when it sees the secret on the chain.
SeenPays == seen[Initiator] => task[Initiator].type # "initiator"

\* A transfer of the path is taken back only if the secret never came out.
NotTakenBack ==
  \A l \in Link : Transfers(l) # {} /\ Sent(l, "LockExpired") => ~Revealed(Target)

\* The payment has failed when it is too late for it, or it was refunded.
FailedLate ==
  "PaymentSentFailed" \in notices[Initiator] =>
    /\ ~Revealed(Target)
    /\ \A k \in Link : \A m \in Transfers(k) :
         \/ height >= m.lock.expiration
         \/ \E l \in Link : l[2] = Initiator /\ Promises(l) # {}

\* The part of the inductive invariant that says who is in time.
Timely ==
  /\ RegisteredEarly /\ PairsInTime /\ TargetInTime /\ OnTheWay
  /\ SeenPays /\ NotTakenBack /\ FailedLate

\* A transfer is a promise, and they all expire together.
LEMMA OneTime ==
  ASSUME Base, NEW l \in Link, NEW k \in Link, NEW m \in Transfers(l), NEW x \in Transfers(k)
  PROVE  m.lock.expiration = x.lock.expiration
BY DEF Base, TransferOrder

\* A node that is early has time for a registration before the lock expires.
LEMMA EarlyBound ==
  ASSUME Base, ClockInv, InTime, NEW n \in Node, NEW e \in Nat, Early(n, e)
  PROVE  height + MaxInclusion < e /\ height < e /\ block[n] + 1 < e
<1>1. /\ block[n] \in Nat /\ height \in Nat /\ MaxLag \in Nat /\ RevealTimeout \in Nat
      /\ MaxInclusion \in Nat /\ MaxInclusion >= 1
  BY ClockTypes
<1>2. height <= block[n] + MaxLag
  BY DEF ClockInv
<1>3. MaxLag + MaxInclusion <= RevealTimeout
  BY DEF InTime
<1>4. block[n] + RevealTimeout < e
  BY DEF Early
<1> QED BY <1>1, <1>2, <1>3, <1>4

\* An expiration is a number.
LEMMA TimeType ==
  ASSUME Base, NEW l \in Link, NEW m \in Transfers(l)
  PROVE  m.lock.expiration \in Nat /\ m \in Promises(l) /\ m.lock \in Lock
<1>1. m \in Promises(l)
  BY LinkGood
<1> QED BY <1>1, LinkLocks

\* Once the initiator has paid off the chain, all of the path was shown the secret.
LEMMA PaidRevealed ==
  ASSUME Base, Secrets, InitiatorPaid, mined = 0, NEW k \in Link, Transfers(k) # {}
  PROVE  Revealed(k[2])
<1>1. PICK l \in Link : l[1] = Initiator /\ Sent(l, "Unlock")
  BY DEF InitiatorPaid
<1>2. Promises(l) # {} /\ Initiator \notin Mediators
  BY <1>1, OneEnd, NodeFacts
<1>3. PICK m \in Promises(l) : TRUE
  BY <1>2
<1>4. m.type = "LockedTransfer"
  BY <1>1, <1>2 DEF Base, PromiseOrigin
<1>5. m \in Transfers(l)
  BY <1>4 DEF Promises, Transfers
<1>6. m.mediators = {}
  BY <1>1, <1>5 DEF Base, TransferOrigin, Origin
<1>7. Revealed(l[2])
  BY <1>1 DEF Secrets, UnlockKnown
<1>8. PICK x \in Transfers(k) : TRUE
  OBVIOUS
<1>9. l = k \/ l[2] \in x.mediators
  BY <1>5, <1>6, <1>8 DEF Base, TransferOrder
<1> QED BY <1>7, <1>8, <1>9 DEF Secrets, PathReveals

\* The chain does not shrink, and no node's clock is set back.
LEMMA HeightUp ==
  ASSUME Base, Step
  PROVE  height <= height' /\ height' \in Nat
<1>1. height \in Nat
  BY ClockTypes
<1>2. CASE NodeStep
  BY <1>1, <1>2 DEF NodeStep, Still
<1>3. CASE \E n \in Node : Sees(n)
  BY <1>1, <1>3 DEF Sees
<1>4. CASE \E n \in Node : Ticks(n)
  BY <1>1, <1>4 DEF Ticks
<1>5. CASE MineBlock
  BY <1>1, <1>5 DEF MineBlock
<1> QED BY <1>2, <1>3, <1>4, <1>5 DEF Step

\* A registration is mined at its last block or before.
LEMMA RegisteredClock ==
  ASSUME Base, ClockInv, Step, Registered
  PROVE  \/ mined' = mined /\ mineBy' = mineBy
         \/ mineBy # 0 /\ mineBy' = 0 /\ mined' <= mineBy
<1>1. height \in Nat /\ mined \in Nat /\ mineBy \in Nat
  BY ClockTypes
<1>2. CASE NodeStep
  BY <1>2 DEF NodeStep, Still
<1>3. CASE \E n \in Node : Sees(n)
  BY <1>3 DEF Sees
<1>4. ASSUME NEW n \in Node, Ticks(n) PROVE mined' = mined /\ mineBy' = mineBy
  BY <1>4, TickFacts DEF RegisterSecret, Registered
<1>5. CASE MineBlock
  <2>1. /\ height' = height + 1
        /\ \/ mineBy # 0 /\ mined' = height' /\ mineBy' = 0
           \/ mineBy # height' /\ mined' = mined /\ mineBy' = mineBy
    BY <1>5, MineFacts
  <2>2. mineBy # 0 => height < mineBy
    BY DEF ClockInv
  <2> QED BY <1>1, <2>1, <2>2
<1> QED BY <1>2, <1>3, <1>4, <1>5 DEF Step

\* A transfer that is new starts the payment or passes one on.
LEMMA NewTransfer ==
  ASSUME Base, Step, NEW k \in Link, NEW m \in Transfers(k)', m \notin Transfers(k)
  PROVE  /\ Still /\ NewPromise(k, m) /\ m.type = "LockedTransfer"
         /\ Starts(k, m) \/ \E l, x : MediatorForwards(l, x, k, m)
<1>1. PICK y : NewPromise(k, y)
  BY LinkSends DEF SentKept, PromisesKept, NewReveal, NewUnlock, NewExpired
<1>2. SentPromise(k, y)
  BY <1>1 DEF NewPromise, OurPromises
<1>3. y = m /\ m.type = "LockedTransfer"
  BY <1>2 DEF SentPromise
<1>4. ASSUME NEW l, NEW x, MediatorRefunds(l, x, m) PROVE FALSE
  BY <1>3, <1>4 DEF MediatorRefunds
<1> QED BY <1>1, <1>3, <1>4 DEF NewPromise

\* The transfer that is passed on, and when it expires.
LEMMA ForwardTime ==
  ASSUME NEW l, NEW x, NEW k, NEW m, MediatorForwards(l, x, k, m)
  PROVE  l \in Link /\ x \in Transfers(l) /\ m.lock.expiration = x.lock.expiration
BY DEF MediatorForwards, MediatorTakes

\* What acts on the secret.
LEMMA OutFacts ==
  ASSUME FromTarget
  PROVE  /\ Registered => Revealed(Target)
         /\ \A l \in Link : /\ Sent(l, "RevealSecret") => Revealed(Target)
                            /\ Sent(l, "Unlock") => Revealed(Target)
                            /\ IsSecretKnown(partnerState[l], secretHash) => Revealed(Target)
         /\ task[Target].type = "target" => Revealed(Target)
         /\ \A n \in Mediators : task[n].type = "mediator" /\ task[n].secretKnown => Revealed(Target)
BY DEF FromTarget, Out

\* The links of a mediator's pair, the payer's transfer and its expiration.
LEMMA PairLinks ==
  ASSUME Base, NEW n \in Mediators, task[n].type = "mediator"
  PROVE  \E k, q \in Link :
           /\ k = <<task[n].payer, n>> /\ k[1] = task[n].payer /\ k[2] = n
           /\ Mirror(k) = <<n, task[n].payer>> /\ Mirror(k) \in Link
           /\ Transfers(k) # {} /\ Accepted(k)
           /\ \A m \in Transfers(k) : m.lock = task[n].lock
           /\ q = <<n, task[n].payee>> /\ q[1] = n /\ Promises(q) # {}
<1>1. n \in Node
  BY NodeFacts
<1>2. PICK k \in Link : /\ k = <<task[n].payer, n>> /\ k[1] = task[n].payer /\ k[2] = n
                        /\ Mirror(k) = <<n, task[n].payer>> /\ Mirror(k) \in Link
                        /\ Got(k, task[n].lock)
  BY <1>1, MediatorFacts
<1>3. PICK q : q = <<n, task[n].payee>>
  OBVIOUS
<1>4. q \in Link /\ q[1] = n /\ Promises(q) # {}
  BY <1>1, <1>3, PairFacts
<1> QED BY <1>2, <1>3, <1>4 DEF Got

\* Who registers the secret has the time for it, unless it comes too late to the path.
LEMMA RegistersInTime ==
  ASSUME Base, ClockInv, Secrets, InTime, Timely, Step, Registered', ~Registered,
         NEW k \in Link, NEW m \in Transfers(k), NEW e, e = m.lock.expiration
  PROVE  mineBy' < e /\ mined' < e
<1>1. PICK n \in Node :
        /\ mined' = 0 /\ mineBy' = height + MaxInclusion
        /\ \/ /\ n = Target /\ task[n].type = "target"
              /\ IsSecretKnownOffChain(partnerState[<<n, task[n].from>>], secretHash)
           \/ /\ n \in Mediators /\ task[n].type = "mediator"
              /\ IsSecretKnown(partnerState[<<n, task[n].payer>>], secretHash)
  BY RegistersNext
<1>2. e \in Nat /\ height \in Nat /\ MaxInclusion \in Nat /\ mined = 0
  BY TimeType, ClockTypes DEF Registered
<1>3. ASSUME NEW a \in Node, Early(a, e) PROVE mineBy' < e /\ mined' < e
  <2>1. height + MaxInclusion < e
    BY <1>2, <1>3, EarlyBound
  <2> QED BY <1>1, <1>2, <2>1
<1>4. /\ FromTarget /\ PairKnows /\ OnTheWay /\ PairsInTime /\ TargetInTime
  BY DEF Secrets, Timely
<1>5. Revealed(Target)
  <2>1. CASE n = Target /\ task[n].type = "target"
    BY <1>4, <2>1, OutFacts
  <2>2. CASE n \in Mediators /\ task[n].type = "mediator"
             /\ IsSecretKnown(partnerState[<<n, task[n].payer>>], secretHash)
    <3>1. PICK j : j = <<n, task[n].payer>> /\ j \in Link
      BY <2>2, PairLinks
    <3> QED BY <1>4, <2>2, <3>1, OutFacts
  <2> QED BY <1>1, <2>1, <2>2
<1>6. CASE \E l \in Link : Waits(l)
  <2>1. PICK l \in Link : Waits(l)
    BY <1>6
  <2>2. PICK x \in Transfers(l) : TRUE
    BY <2>1 DEF Waits
  <2>3. Early(l[2], x.lock.expiration)
    BY <2>1, <2>2 DEF Waits
  <2>4. x.lock.expiration = e
    BY <2>2, OneTime
  <2>5. l[2] \in Node
    BY LinkFacts
  <2> QED BY <1>3, <2>3, <2>4, <2>5
<1>7. CASE InitiatorPaid /\ \A a \in Mediators : ~Late(a)
  <2>1. CASE n = Target /\ task[n].type = "target"
             /\ IsSecretKnownOffChain(partnerState[<<n, task[n].from>>], secretHash)
    <3>1. PICK l \in Link : /\ l = <<task[Target].from, Target>>
                            /\ Mirror(l) = <<Target, task[Target].from>>
                            /\ Got(l, task[Target].lock)
      BY <2>1, TargetFacts
    <3>2. PICK x \in Transfers(l) : x.lock = task[Target].lock
      BY <3>1 DEF Got
    <3>3. task[Target].lock.expiration = e
      BY <3>2, OneTime
    <3>4. IsSecretKnown(partnerState[Mirror(l)], secretHash)
      BY <2>1, <3>1 DEF IsSecretKnown
    <3>5. partnerState[Mirror(l)].balanceProof.nonce = 1
      BY <3>4, LinkPending
    <3>6. Early(Target, e)
      BY <1>4, <2>1, <3>1, <3>3, <3>5 DEF TargetInTime
    <3> QED BY <1>1, <1>3, <2>1, <3>6
  <2>2. CASE n \in Mediators /\ task[n].type = "mediator"
             /\ IsSecretKnown(partnerState[<<n, task[n].payer>>], secretHash)
    <3>1. PICK l \in Link : /\ l[2] = n /\ Mirror(l) = <<n, task[n].payer>>
                            /\ Transfers(l) # {}
                            /\ \A x \in Transfers(l) : x.lock = task[n].lock
      BY <2>2, PairLinks
    <3>2. PICK x \in Transfers(l) : x.lock = task[n].lock
      BY <3>1
    <3>3. task[n].lock.expiration = e
      BY <3>2, OneTime
    <3>4. partnerState[Mirror(l)].balanceProof.nonce = 1
      BY <2>2, <3>1, LinkPending
    <3>5. Revealed(n)
      BY <1>2, <1>7, <3>1, PaidRevealed
    <3>6. task[n].secretKnown
      BY <1>4, <2>2, <3>5 DEF PairKnows
    <3>7. task[n].payeeState = "payee_balance_proof"
      BY <1>7, <2>2, <3>6 DEF Late
    <3>8. PairInTime(n, task[n], partnerState[<<n, task[n].payer>>], ourState[<<n, task[n].payee>>])
      BY <1>4, <2>2 DEF PairsInTime
    <3>9. Early(n, e)
      BY <3>1, <3>3, <3>4, <3>7, <3>8 DEF PairInTime
    <3> QED BY <1>3, <3>9
  <2> QED BY <1>1, <2>1, <2>2
<1> QED BY <1>4, <1>5, <1>6, <1>7 DEF OnTheWay

\* A registration is mined before the locks expire.
LEMMA RegisteredEarlyNext ==
  ASSUME Base, ClockInv, Secrets, InTime, Timely, Step
  PROVE  RegisteredEarly'
<1> SUFFICES ASSUME Registered', NEW k \in Link, NEW m \in Transfers(k)'
             PROVE  mineBy' < m.lock.expiration /\ mined' < m.lock.expiration
  BY DEF RegisteredEarly
<1>1. RegisteredEarly /\ FromTarget
  BY DEF Timely, Secrets
<1>2. ASSUME NEW l \in Link, NEW x \in Transfers(l), NEW e, e = x.lock.expiration
      PROVE  mineBy' < e /\ mined' < e
  <2>1. CASE ~Registered
    BY <1>2, <2>1, RegistersInTime
  <2>2. CASE Registered
    <3>1. mineBy < e /\ mined < e
      BY <1>1, <1>2, <2>2 DEF RegisteredEarly
    <3>2. mined \in Nat /\ mineBy \in Nat /\ e \in Nat /\ mined' \in Nat /\ mineBy' \in Nat
      <4>1. mined' \in Nat /\ mineBy' \in Nat
        BY DEF Step, Clocks
      <4> QED BY <1>2, <4>1, ClockTypes, TimeType
    <3> QED BY <2>2, <3>1, <3>2, RegisteredClock
  <2> QED BY <2>1, <2>2
<1>3. CASE m \in Transfers(k)
  BY <1>2, <1>3
<1>4. CASE m \notin Transfers(k)
  <2>1. CASE Starts(k, m)
    <3>1. ~Revealed(Target)
      BY <2>1, NothingRevealed DEF Starts
    <3>2. ~Registered
      BY <1>1, <3>1, OutFacts
    <3>3. Still
      BY <1>4, NewTransfer
    <3> QED BY <3>2, <3>3 DEF Still, Registered
  <2>2. CASE \E l, x : MediatorForwards(l, x, k, m)
    BY <1>2, <2>2, ForwardTime
  <2> QED BY <1>4, <2>1, <2>2, NewTransfer
<1> QED BY <1>3, <1>4

\* What has to be shown of the pair of mediator n, of which k is the payer's link
\* and q the payee's.
PairFine(n, k, q) ==
  LET u == task'[n]
  IN /\ u.payerState = "payer_expired" => height' >= u.lock.expiration
     /\ partnerState'[Mirror(k)].balanceProof.nonce = 1 =>
          /\ u.secretKnown => IsSecretKnown(partnerState'[Mirror(k)], secretHash)
          /\ u.payeeState = "payee_balance_proof" =>
               block'[n] + RevealTimeout < u.lock.expiration \/ Registered'
     /\ seen'[n] /\ ourState'[q].balanceProof.nonce = 1 =>
          IsSecretKnownOnChain(ourState'[q], secretHash)

\* The pair of mediator n, and its links.
PairOf(n, t, k, q) ==
  /\ n \in Mediators /\ t = task[n] /\ t.type = "mediator" /\ k \in Link /\ q \in Link
  /\ k = <<t.payer, n>> /\ Mirror(k) = <<n, t.payer>> /\ k[1] = t.payer /\ k[2] = n
  /\ q = <<n, t.payee>> /\ q[1] = n
  /\ \A m \in Transfers(k) : m.lock = t.lock
  /\ Transfers(k) # {} /\ Accepted(k) /\ Promises(q) # {} /\ t.lock.expiration \in Nat

\* What the invariant says of it.
LEMMA PairNow ==
  ASSUME Base, Timely, NEW n, NEW t, NEW k, NEW q, PairOf(n, t, k, q)
  PROVE  /\ t.payerState = "payer_expired" => height >= t.lock.expiration
         /\ partnerState[Mirror(k)].balanceProof.nonce = 1 =>
              /\ t.secretKnown => IsSecretKnown(partnerState[Mirror(k)], secretHash)
              /\ t.payeeState = "payee_balance_proof" =>
                   block[n] + RevealTimeout < t.lock.expiration \/ Registered
         /\ seen[n] /\ ourState[q].balanceProof.nonce = 1 =>
              IsSecretKnownOnChain(ourState[q], secretHash)
<1>1. PairInTime(n, task[n], partnerState[<<n, task[n].payer>>], ourState[<<n, task[n].payee>>])
  BY DEF Timely, PairsInTime, PairOf
<1>2. PairInTime(n, t, partnerState[Mirror(k)], ourState[q])
  BY <1>1 DEF PairOf
<1> QED BY <1>2 DEF PairInTime, Early

\* A pair that goes on as it was, except for the payer's state.
LEMMA PairGoesQuiet ==
  ASSUME Base, ClockInv, Secrets, InTime, Timely, Step,
         NEW n, NEW t, NEW k, NEW q, PairOf(n, t, k, q), RecKept(k), OurKept(q),
         block'[n] = block[n], seen'[n] = seen[n],
         NEW u, u = task'[n], u.lock = t.lock, u.secretKnown = t.secretKnown,
         u.payeeState = t.payeeState,
         u.payerState = "payer_expired" => t.payerState = u.payerState \/ height' >= t.lock.expiration
  PROVE  PairFine(n, k, q)
<1>1. /\ partnerState'[Mirror(k)].balanceProof = partnerState[Mirror(k)].balanceProof
      /\ IsSecretKnown(partnerState[Mirror(k)], secretHash) =>
           IsSecretKnown(partnerState'[Mirror(k)], secretHash)
  BY DEF RecKept, Kept
<1>2. /\ ourState'[q].balanceProof = ourState[q].balanceProof
      /\ IsSecretKnownOnChain(ourState[q], secretHash) =>
           IsSecretKnownOnChain(ourState'[q], secretHash)
  BY DEF OurKept, Kept
<1>3. height >= t.lock.expiration => height' >= t.lock.expiration
  <2>1. height \in Nat /\ height' \in Nat /\ height <= height' /\ t.lock.expiration \in Nat
    BY HeightUp, ClockTypes DEF PairOf
  <2> QED BY <2>1
<1>4. Registered => Registered'
  BY RegisteredNext
<1> QED BY <1>1, <1>2, <1>3, <1>4, PairNow DEF PairFine

\* A pair whose transfer was settled by its payer, otherwise as before.
LEMMA PairGoesSettled ==
  ASSUME Base, ClockInv, Secrets, InTime, Timely, Step,
         NEW n, NEW t, NEW k, NEW q, PairOf(n, t, k, q), OurKept(q),
         NEW m \in Ends(k), RecTakes(k, m), seen'[n] = seen[n],
         NEW u, u = task'[n], u.lock = t.lock,
         u.payerState = "payer_expired" => t.payerState = u.payerState
  PROVE  PairFine(n, k, q)
<1>1. partnerState'[Mirror(k)].balanceProof.nonce = 2
  BY TakenEnd DEF PairOf
<1>2. /\ ourState'[q].balanceProof = ourState[q].balanceProof
      /\ IsSecretKnownOnChain(ourState[q], secretHash) =>
           IsSecretKnownOnChain(ourState'[q], secretHash)
  BY DEF OurKept, Kept
<1>3. height >= t.lock.expiration => height' >= t.lock.expiration
  <2>1. height \in Nat /\ height' \in Nat /\ height <= height' /\ t.lock.expiration \in Nat
    BY HeightUp, ClockTypes DEF PairOf
  <2> QED BY <2>1
<1> QED BY <1>1, <1>2, <1>3, PairNow DEF PairFine

\* A pair that has just learned the secret from its payee.
LEMMA PairGoesLearning ==
  ASSUME Base, ClockInv, Secrets, InTime, Timely, Step, Still,
         NEW n, NEW t, NEW k, NEW q, PairOf(n, t, k, q),
         NEW a, NEW b, NEW x, NEW y, NEW u, u = task'[n], u = MdState(t, x, y, TRUE),
         \/ MediatorPays(n, a, b, x) /\ y = "payee_balance_proof"
         \/ MediatorTooLate(n, a, b, x) /\ y = "payee_secret_revealed"
  PROVE  PairFine(n, k, q)
<1>1. MediatorLearns(n, a, b, x)
  BY DEF MediatorPays, MediatorTooLate
<1>2. a = k /\ b = q
  BY <1>1 DEF MediatorLearns, PairOf
<1>3. u.lock = t.lock /\ u.payerState = x /\ u.payeeState = y /\ u.secretKnown
  BY DEF MdState
<1>4. partnerState'[Mirror(k)].balanceProof.nonce = 1 =>
        IsSecretKnown(partnerState'[Mirror(k)], secretHash)
  BY <1>1, <1>2 DEF MediatorLearns
<1>5. u.payerState = "payer_expired" => height' >= u.lock.expiration
  <2>1. x = "payer_secret_revealed" \/ x = t.payerState
    BY <1>1 DEF MediatorLearns, PairOf
  <2>2. height' = height
    BY DEF Still
  <2> QED BY <1>3, <2>1, <2>2, PairNow
<1>6. u.payeeState = "payee_balance_proof" => block'[n] + RevealTimeout < u.lock.expiration
  <2>1. ASSUME y = "payee_balance_proof" PROVE block[n] + RevealTimeout < t.lock.expiration
    BY <2>1 DEF MediatorPays, PairOf
  <2> QED BY <1>3, <2>1 DEF Still
<1>7. ASSUME seen'[n], ourState'[q].balanceProof.nonce = 1
      PROVE  IsSecretKnownOnChain(ourState'[q], secretHash)
  <2>1. CASE MediatorPays(n, a, b, x)
    <3>1. \E m : OurSettles(q, m)
      BY <1>2, <2>1 DEF MediatorPays
    <3>2. ourState'[q].balanceProof.nonce = 2
      BY <3>1 DEF OurSettles
    <3> QED BY <1>7, <3>2
  <2>2. CASE MediatorTooLate(n, a, b, x)
    <3>1. OurKept(q)
      BY <2>2 DEF MediatorTooLate, KeptBut, PairOf
    <3>2. /\ ourState'[q].balanceProof = ourState[q].balanceProof
          /\ IsSecretKnownOnChain(ourState[q], secretHash) =>
               IsSecretKnownOnChain(ourState'[q], secretHash)
      BY <3>1 DEF OurKept, Kept
    <3> QED BY <1>7, <3>2, PairNow DEF Still
  <2> QED BY <2>1, <2>2
<1> QED BY <1>3, <1>4, <1>5, <1>6, <1>7 DEF PairFine

\* A pair that has just seen the secret on the chain.
LEMMA PairGoesSeeing ==
  ASSUME Base, ClockInv, Secrets, InTime, Timely, Step, NEW n, Sees(n), MediatorSees(n),
         NEW t, NEW k, NEW q, PairOf(n, t, k, q),
         NEW u, u = task'[n], u = MdState(t, t.payerState, t.payeeState, TRUE)
  PROVE  PairFine(n, k, q)
<1>1. n \in Node
  BY NodeFacts DEF PairOf
<1>2. u.lock = t.lock /\ u.payerState = t.payerState
  BY DEF MdState
<1>3. mined # 0 /\ mined' = mined /\ height' = height
  BY <1>1, SeesFacts
<1>4. PICK m \in Transfers(k) : m.lock = t.lock
  BY DEF PairOf
<1>5. mined <= t.lock.expiration
  <2>1. mined < m.lock.expiration
    BY <1>3, <1>4 DEF Timely, RegisteredEarly, Registered, PairOf
  <2>2. mined \in Nat /\ t.lock.expiration \in Nat
    BY ClockTypes DEF PairOf
  <2> QED BY <1>4, <2>1, <2>2
<1>6. /\ ourState'[q].balanceProof.nonce = 1 => IsSecretKnownOnChain(ourState'[q], secretHash)
      /\ partnerState'[Mirror(k)].balanceProof.nonce = 1 =>
           IsSecretKnownOnChain(partnerState'[Mirror(k)], secretHash)
  BY <1>5 DEF MediatorSees, PairOf
<1>7. Registered'
  BY <1>3 DEF Registered
<1> QED BY <1>2, <1>3, <1>6, <1>7, PairNow, OnChainIsKnown DEF PairFine

\* A mediator registers the secret in the block in which it can no longer wait.
LEMMA MediatorStarts ==
  ASSUME Base, ClockInv, Secrets, InTime, Timely, NEW n, Ticks(n),
         NEW t, NEW k, NEW q, PairOf(n, t, k, q), NEW x, PayerMoves(n, x),
         partnerState[Mirror(k)].balanceProof.nonce = 1, t.secretKnown,
         Early(n, t.lock.expiration), ~(block'[n] + RevealTimeout < t.lock.expiration)
  PROVE  Registered'
<1>1. n \in Node
  BY NodeFacts DEF PairOf
<1>2. PairKnows /\ ChainKnown
  BY DEF Secrets
<1>3. t.payerState # "payer_balance_proof"
  <2>1. t.payerState = "payer_balance_proof" => partnerState[<<n, t.payer>>].balanceProof.nonce = 2
    BY <1>2 DEF PairKnows, PairOf
  <2>2. Mirror(k) = <<n, t.payer>>
    BY DEF PairOf
  <2> QED BY <2>1, <2>2
<1>4. t.lock.expiration \in Nat /\ height \in Nat /\ block'[n] \in Nat /\ RevealTimeout \in Nat
  BY <1>1, TickFacts, ClockTypes DEF PairOf
<1>5. t.payerState # "payer_expired"
  BY <1>1, <1>4, EarlyBound, PairNow
<1>6. IsSecretKnown(partnerState[Mirror(k)], secretHash)
  BY PairNow
<1>7. \/ RegisterSecret
      \/ IsSecretKnownOnChain(partnerState[Mirror(k)], secretHash)
      \/ t.payerState = "payer_waiting_secret_reveal"
  <2>1. block'[n] + RevealTimeout >= t.lock.expiration
    BY <1>4
  <2> QED BY <1>3, <1>5, <1>6, <2>1 DEF PayerMoves, PairOf
<1>8. mined' = mined /\ (mineBy' = mineBy \/ RegisterSecret)
  BY <1>1, TickFacts
<1>9. CASE RegisterSecret
  BY <1>8, <1>9, RegisterGoes
<1>10. ASSUME Registered PROVE Registered'
  <2>1. CASE RegisterSecret
    BY <1>8, <2>1, RegisterGoes
  <2>2. CASE mineBy' = mineBy
    BY <1>8, <1>10, <2>2 DEF Registered
  <2> QED BY <1>8, <2>1, <2>2
<1>11. CASE IsSecretKnownOnChain(partnerState[Mirror(k)], secretHash)
  <2>1. mined # 0
    BY <1>2, <1>11, LinkFacts DEF ChainKnown, PairOf
  <2> QED BY <1>10, <2>1 DEF Registered
<1>12. CASE t.payerState = "payer_waiting_secret_reveal"
  BY <1>2, <1>10, <1>12 DEF PairKnows, PairOf
<1> QED BY <1>7, <1>9, <1>11, <1>12

\* A pair after a block.
LEMMA PairGoesTicking ==
  ASSUME Base, ClockInv, Secrets, InTime, Timely, Step, NEW n, Ticks(n),
         NEW t, NEW k, NEW q, PairOf(n, t, k, q), NEW x, NEW y, MediatorTicks(n, x, y),
         NEW u, u = task'[n], u = MdState(t, x, y, t.secretKnown)
  PROVE  PairFine(n, k, q)
<1>1. n \in Node
  BY NodeFacts DEF PairOf
<1>2. /\ u.lock = t.lock /\ u.payerState = x /\ u.payeeState = y
      /\ u.secretKnown = t.secretKnown
  BY DEF MdState
<1>3. /\ block[n] < height /\ block'[n] = block[n] + 1 /\ height' = height /\ seen' = seen
      /\ block[n] \in Nat /\ height \in Nat /\ t.lock.expiration \in Nat
  BY <1>1, TickFacts, ClockTypes DEF PairOf
<1>4. PayerMoves(n, x) /\ PayeeExpires(n, y)
  BY DEF MediatorTicks
<1>5. RecKept(k)
  BY <1>4 DEF PayeeExpires, KeptBut, PairOf
<1>6. /\ partnerState'[Mirror(k)].balanceProof = partnerState[Mirror(k)].balanceProof
      /\ IsSecretKnown(partnerState[Mirror(k)], secretHash) =>
           IsSecretKnown(partnerState'[Mirror(k)], secretHash)
  BY <1>5 DEF RecKept, Kept
<1>7. x = "payer_expired" => height' >= t.lock.expiration
  <2>1. x = "payer_expired" => t.payerState = x \/ block'[n] >= t.lock.expiration
    BY <1>4 DEF PayerMoves, PairOf
  <2>2. t.payerState = "payer_expired" => height >= t.lock.expiration
    BY PairNow
  <2> QED BY <1>3, <2>1, <2>2
<1>8. ASSUME partnerState[Mirror(k)].balanceProof.nonce = 1, y = "payee_balance_proof"
      PROVE  block'[n] + RevealTimeout < t.lock.expiration \/ Registered'
  <2>1. t.payeeState = "payee_balance_proof"
    BY <1>4, <1>8 DEF PayeeExpires, PairOf
  <2>2. t.secretKnown
    BY <2>1 DEF Base, TaskInv, MediatorTaskOK, PairOf
  <2>3. Early(n, t.lock.expiration) \/ Registered
    BY <1>8, <2>1, PairNow DEF Early
  <2> QED BY <1>4, <1>8, <2>2, <2>3, MediatorStarts, RegisteredNext
<1>9. ASSUME seen[n], ourState'[q].balanceProof.nonce = 1
      PROVE  IsSecretKnownOnChain(ourState'[q], secretHash)
  <2>1. CASE \E m : OurSettles(q, m)
    <3>1. ourState'[q].balanceProof.nonce = 2
      BY <2>1 DEF OurSettles
    <3> QED BY <1>9, <3>1
  <2>2. CASE KeptBut({}, {}, {})
    <3>1. OurKept(q)
      BY <2>2 DEF KeptBut, PairOf
    <3>2. /\ ourState'[q].balanceProof = ourState[q].balanceProof
          /\ IsSecretKnownOnChain(ourState[q], secretHash) =>
               IsSecretKnownOnChain(ourState'[q], secretHash)
      BY <3>1 DEF OurKept, Kept
    <3> QED BY <1>9, <3>2, PairNow
  <2> QED BY <1>4, <2>1, <2>2 DEF PayeeExpires, PairOf
<1> QED BY <1>2, <1>3, <1>6, <1>7, <1>8, <1>9, PairNow DEF PairFine

\* A pair whose payer says that it took its lock back.
LEMMA PairGoesMissing ==
  ASSUME Base, ClockInv, Secrets, InTime, Timely, Step, Still, NEW n,
         NEW t, NEW k, NEW q, PairOf(n, t, k, q),
         NEW l, NEW x, l[2] = n, MediatorMisses(l, x),
         NEW u, u = task'[n], u = MdState(t, x, t.payeeState, t.secretKnown)
  PROVE  PairFine(n, k, q)
<1>1. /\ u.lock = t.lock /\ u.payerState = x /\ u.payeeState = t.payeeState
      /\ u.secretKnown = t.secretKnown
  BY DEF MdState
<1>2. RecKept(k) /\ OurKept(q) /\ block'[n] = block[n] /\ seen'[n] = seen[n] /\ height' = height
  BY DEF MediatorMisses, KeptBut, PairOf, Still
<1>3. l \in Link /\ Sent(l, "LockExpired") /\ Promises(l) # {}
  BY OneEnd DEF MediatorMisses
<1>4. PICK m \in Promises(l) : block[l[1]] >= m.lock.expiration
  BY <1>3 DEF Base, ExpiredLate
<1>5. PICK y \in Transfers(k) : y.lock = t.lock
  BY DEF PairOf
<1>6. y \in Promises(k) /\ k \in Link
  BY <1>5, TimeType DEF PairOf
<1>7. t.lock.expiration = m.lock.expiration
  BY <1>3, <1>4, <1>5, <1>6, OneExpiration
<1>8. height >= t.lock.expiration
  <2>1. l[1] \in Node
    BY <1>3, LinkFacts
  <2>2. block[l[1]] \in Nat /\ height \in Nat /\ t.lock.expiration \in Nat /\ block[l[1]] <= height
    BY <2>1, ClockTypes DEF ClockInv, PairOf
  <2> QED BY <1>4, <1>7, <2>2
<1> QED BY <1>1, <1>2, <1>8, PairGoesQuiet

\* A pair that goes on.
LEMMA PairGoes ==
  ASSUME Base, ClockInv, Secrets, InTime, Timely, Step, NEW n,
         NEW t, NEW k, NEW q, PairOf(n, t, k, q), PairGoesOn(n)
  PROVE  PairFine(n, k, q)
<1>1. t = task[n] /\ k \in Link /\ q \in Link /\ k[2] = n /\ q[1] = n /\ k[1] = t.payer
  BY DEF PairOf
<1>2. CASE NodeUntouched(n)
  BY <1>1, <1>2, PairGoesQuiet DEF NodeUntouched
<1>3. CASE /\ Still
           /\ \E a, b, x : /\ MediatorPays(n, a, b, x)
                           /\ task'[n] = MdState(t, x, "payee_balance_proof", TRUE)
  BY <1>3, PairGoesLearning
<1>4. CASE /\ Still
           /\ \E a, b, x : /\ MediatorTooLate(n, a, b, x)
                           /\ task'[n] = MdState(t, x, "payee_secret_revealed", TRUE)
  BY <1>4, PairGoesLearning
<1>5. CASE /\ Sees(n) /\ MediatorSees(n)
           /\ task'[n] = MdState(t, t.payerState, t.payeeState, TRUE)
  BY <1>5, PairGoesSeeing
<1>6. ASSUME Still, NEW l, NEW m, l \in Link, l[2] = n, l[1] = t.payer, m \in Ends(l), RecTakes(l, m),
             KeptBut({}, {l}, {}), task'[n].lock = t.lock,
             task'[n].payerState = "payer_expired" => t.payerState = "payer_expired"
      PROVE  PairFine(n, k, q)
  <2>1. l = k
    <3>1. l = <<l[1], l[2]>> /\ k = <<k[1], k[2]>>
      BY <1>1, <1>6, LinkFacts
    <3> QED BY <1>1, <1>6, <3>1
  <2>2. OurKept(q)
    BY <1>1, <1>6 DEF KeptBut
  <2>3. seen'[n] = seen[n]
    BY <1>6 DEF Still
  <2> QED BY <1>6, <2>1, <2>2, <2>3, PairGoesSettled
<1>7. CASE /\ Still
           /\ \E l, m : /\ l[2] = n /\ MediatorIsPaid(l, m)
                        /\ task'[n] = MdState(t, "payer_balance_proof", t.payeeState, t.secretKnown)
  <2>1. PICK l, m : /\ l[2] = n /\ MediatorIsPaid(l, m)
                    /\ task'[n] = MdState(t, "payer_balance_proof", t.payeeState, t.secretKnown)
    BY <1>7
  <2>2. task'[n].lock = t.lock /\ task'[n].payerState = "payer_balance_proof"
    BY <2>1 DEF MdState
  <2>3. l \in Link /\ l[1] = t.payer /\ m \in Ends(l) /\ RecTakes(l, m) /\ KeptBut({}, {l}, {})
    BY <1>1, <2>1 DEF MediatorIsPaid
  <2> QED BY <1>6, <1>7, <2>1, <2>2, <2>3
<1>8. CASE Still /\ \E l, m : l[2] = n /\ MediatorLoses(l, m) /\ task'[n] = t
  <2>1. PICK l, m : l[2] = n /\ MediatorLoses(l, m) /\ task'[n] = t
    BY <1>8
  <2>2. l \in Link /\ l[1] = t.payer /\ m \in Ends(l) /\ RecTakes(l, m) /\ KeptBut({}, {l}, {})
    BY <1>1, <2>1 DEF MediatorLoses
  <2> QED BY <1>6, <1>8, <2>1, <2>2
<1>9. CASE /\ Still
           /\ \E l, x : /\ l[2] = n /\ MediatorMisses(l, x)
                        /\ task'[n] = MdState(t, x, t.payeeState, t.secretKnown)
  BY <1>9, PairGoesMissing
<1>10. CASE /\ Ticks(n)
            /\ \E x, y : /\ MediatorTicks(n, x, y)
                         /\ task'[n] = MdState(t, x, y, t.secretKnown)
  BY <1>10, PairGoesTicking
<1> QED BY <1>1, <1>2, <1>3, <1>4, <1>5, <1>7, <1>8, <1>9, <1>10 DEF PairGoesOn

\* A pair that begins has not seen the secret on the chain, where it is not yet.
LEMMA PairBegins ==
  ASSUME Base, ClockInv, Secrets, NEW n \in Node, PairBorn(n)
  PROVE  ~seen[n] /\ ~Registered
<1>1. PICK l, m : l[2] = n /\ MediatorTakes(l, m)
  BY DEF PairBorn
<1>2. l \in Link /\ l[2] \in Mediators /\ Transfers(l) # {} /\ ~Accepted(l)
  BY <1>1, TakesNew DEF MediatorTakes
<1>3. ~Revealed(Target)
  BY <1>2, TakesBefore, NoTransferNoReveal
<1>4. ~Registered
  BY <1>3, OutFacts DEF Secrets
<1> QED BY <1>4 DEF Registered, ClockInv

\* The mediators stay in time.
LEMMA PairsInTimeNext ==
  ASSUME Base, ClockInv, Secrets, InTime, Timely, Step
  PROVE  PairsInTime'
<1> SUFFICES ASSUME NEW n \in Mediators, task'[n].type = "mediator",
                    NEW u, u = task'[n], NEW rec, rec = partnerState'[<<n, u.payer>>],
                    NEW our, our = ourState'[<<n, u.payee>>]
             PROVE  /\ u.payerState = "payer_expired" => height' >= u.lock.expiration
                    /\ rec.balanceProof.nonce = 1 =>
                         /\ u.secretKnown => IsSecretKnown(rec, secretHash)
                         /\ u.payeeState = "payee_balance_proof" =>
                              block'[n] + RevealTimeout < u.lock.expiration \/ Registered'
                    /\ seen'[n] /\ our.balanceProof.nonce = 1 =>
                         IsSecretKnownOnChain(our, secretHash)
  BY DEF PairsInTime, PairInTime, Early
<1>1. n \in Node
  BY NodeFacts
<1>2. CASE PairBorn(n)
  <2>1. u.payerState = "payer_pending" /\ u.payeeState = "payee_pending" /\ u.secretKnown = FALSE
    BY <1>2 DEF PairBorn
  <2>2. seen' = seen
    BY <1>2 DEF PairBorn, Still
  <2> QED BY <1>1, <1>2, <2>1, <2>2, PairBegins
<1>3. CASE task[n].type = "mediator" /\ PairGoesOn(n)
  <2>1. PICK t : t = task[n]
    OBVIOUS
  <2>2. PICK k, q : PairOf(n, t, k, q)
    <3>1. PICK k \in Link, q \in Link :
            /\ k = <<t.payer, n>> /\ k[1] = t.payer /\ k[2] = n
            /\ Mirror(k) = <<n, t.payer>> /\ Mirror(k) \in Link
            /\ Transfers(k) # {} /\ Accepted(k)
            /\ \A m \in Transfers(k) : m.lock = t.lock
            /\ q = <<n, t.payee>> /\ q[1] = n /\ Promises(q) # {}
      BY <1>3, <2>1, PairLinks
    <3>2. t.lock.expiration \in Nat
      <4>1. PICK m \in Transfers(k) : m.lock = t.lock
        BY <3>1
      <4> QED BY <4>1, TimeType
    <3> QED BY <1>3, <2>1, <3>1, <3>2 DEF PairOf
  <2>3. PairFine(n, k, q)
    BY <1>3, <2>2, PairGoes
  <2>4. u.payer = t.payer /\ u.payee = t.payee
    BY <1>3, <2>1, PairSame
  <2>5. rec = partnerState'[Mirror(k)] /\ our = ourState'[q]
    BY <2>2, <2>4 DEF PairOf
  <2> QED BY <2>3, <2>5 DEF PairFine
<1> QED BY <1>2, <1>3, PairSteps

\* The target registers the secret in the block in which it can no longer wait.
LEMMA TargetStarts ==
  ASSUME Base, ClockInv, Secrets, InTime, Timely, Ticks(Target), TargetTicks,
         task[Target].type = "target", NEW t, t = task[Target],
         NEW rec, rec = partnerState[<<Target, t.from>>], rec.balanceProof.nonce = 1
  PROVE  block'[Target] + RevealTimeout < t.lock.expiration \/ Registered'
<1>1. Target \in Node
  BY NodeFacts
<1>2. PICK l \in Link : /\ l = <<t.from, Target>> /\ Mirror(l) = <<Target, t.from>>
                        /\ Got(l, t.lock)
  BY TargetFacts
<1>3. t.lock.expiration \in Nat
  BY <1>2, GotFacts
<1>4. /\ block'[Target] = block[Target] + 1 /\ block[Target] \in Nat
      /\ RevealTimeout \in Nat /\ mined' = mined /\ (mineBy' = mineBy \/ RegisterSecret)
  BY <1>1, TickFacts, ClockTypes
<1>5. ASSUME Registered PROVE Registered'
  <2>1. CASE RegisterSecret
    BY <1>4, <2>1, RegisterGoes
  <2>2. CASE mineBy' = mineBy
    BY <1>4, <1>5, <2>2 DEF Registered
  <2> QED BY <1>4, <2>1, <2>2
<1>6. TargetInTime /\ ChainKnown /\ TargetKnows
  BY DEF Timely, Secrets
<1>7. IsSecretKnown(rec, secretHash) /\ (Early(Target, t.lock.expiration) \/ Registered)
  BY <1>6 DEF TargetInTime
<1>8. CASE Registered
  BY <1>5, <1>8
<1>9. CASE Early(Target, t.lock.expiration) /\ ~Registered
  <2>1. block[Target] + 1 < t.lock.expiration
    BY <1>1, <1>3, <1>9, EarlyBound
  <2>2. ~IsSecretKnownOnChain(rec, secretHash)
    BY <1>2, <1>6, <1>9, LinkFacts DEF ChainKnown, Registered
  <2>3. IsSecretKnownOffChain(rec, secretHash)
    BY <1>7, <2>2 DEF IsSecretKnown
  <2>4. t.state # "onchain_secret_reveal"
    BY <1>6, <1>9 DEF TargetKnows
  <2>5. ~(block'[Target] >= t.lock.expiration)
    BY <1>3, <1>4, <2>1
  <2>6. RegisterSecret \/ block'[Target] + RevealTimeout < t.lock.expiration
    BY <2>3, <2>4, <2>5 DEF TargetTicks
  <2> QED BY <1>4, <2>6, RegisterGoes
<1> QED BY <1>7, <1>8, <1>9

\* The target stays in time.
LEMMA TargetInTimeNext ==
  ASSUME Base, ClockInv, Secrets, InTime, Timely, Step
  PROVE  TargetInTime'
<1> SUFFICES ASSUME task'[Target].type = "target", NEW u, u = task'[Target],
                    NEW rec, rec = partnerState'[<<Target, u.from>>], rec.balanceProof.nonce = 1
             PROVE  /\ IsSecretKnown(rec, secretHash)
                    /\ block'[Target] + RevealTimeout < u.lock.expiration \/ Registered'
  BY DEF TargetInTime, Early
<1>1. Target \in Node
  BY NodeFacts
<1>2. CASE Still /\ \E l, m : TargetTakes(l, m)
  <2>1. PICK l, m : TargetTakes(l, m)
    BY <1>2
  <2>2. l \in Link /\ l[2] = Target /\ task'[Target] = TargetTask(l[1], m.lock, "reveal_secret")
    BY <2>1 DEF TargetTakes, TaskSet
  <2>3. u.from = l[1] /\ u.lock = m.lock
    BY <2>2 DEF TargetTask
  <2>4. rec = partnerState'[Mirror(l)]
    BY <2>2, <2>3 DEF Mirror
  <2>5. /\ IsSecretKnown(partnerState'[Mirror(l)], secretHash)
        /\ block[Target] + RevealTimeout < m.lock.expiration
    BY <2>1 DEF TargetTakes
  <2> QED BY <1>2, <2>3, <2>4, <2>5 DEF Still
<1>3. CASE TargetGoesOn
  <2>1. PICK t : t = task[Target]
    OBVIOUS
  <2>2. t.type = "target" /\ u.from = t.from /\ u.lock = t.lock
    BY <1>3, <2>1 DEF TargetGoesOn
  <2>3. PICK l \in Link : /\ l = <<t.from, Target>> /\ Mirror(l) = <<Target, t.from>>
                          /\ l[2] = Target /\ Got(l, t.lock)
    BY <2>1, <2>2, TargetFacts
  <2>4. rec = partnerState'[Mirror(l)]
    BY <2>2, <2>3
  <2>5. ASSUME RecKept(l)
        PROVE  /\ partnerState[Mirror(l)].balanceProof.nonce = 1
               /\ IsSecretKnown(rec, secretHash)
               /\ Early(Target, t.lock.expiration) \/ Registered
    <3>1. /\ partnerState'[Mirror(l)].balanceProof = partnerState[Mirror(l)].balanceProof
          /\ IsSecretKnown(partnerState[Mirror(l)], secretHash) =>
               IsSecretKnown(partnerState'[Mirror(l)], secretHash)
      BY <2>5 DEF RecKept, Kept
    <3>2. partnerState[Mirror(l)].balanceProof.nonce = 1
      BY <2>4, <3>1
    <3>3. TargetInTime
      BY DEF Timely
    <3>4. /\ IsSecretKnown(partnerState[Mirror(l)], secretHash)
          /\ Early(Target, t.lock.expiration) \/ Registered
      BY <2>1, <2>2, <2>3, <3>2, <3>3 DEF TargetInTime
    <3> QED BY <2>4, <3>1, <3>2, <3>4
  <2>6. ASSUME RecKept(l), block'[Target] = block[Target]
        PROVE  /\ IsSecretKnown(rec, secretHash)
               /\ block'[Target] + RevealTimeout < u.lock.expiration \/ Registered'
    BY <2>2, <2>5, <2>6, RegisteredNext DEF Early
  <2>7. CASE NodeUntouched(Target)
    BY <2>3, <2>6, <2>7 DEF NodeUntouched
  <2>8. CASE \E k, m : TargetLoses(k, m)
    <3>1. PICK k, m : TargetLoses(k, m)
      BY <2>8
    <3>2. k = l /\ m \in Ends(l) /\ RecTakes(l, m)
      BY <2>1, <2>3, <3>1 DEF TargetLoses
    <3>3. rec.balanceProof.nonce = 2
      BY <2>4, <3>2, TakenEnd
    <3> QED BY <3>3
  <2>9. CASE Sees(Target) /\ TargetMoves("reveal_secret")
    <3>1. RecKept(l)
      BY <2>9 DEF TargetMoves, KeptBut
    <3>2. block'[Target] = block[Target]
      BY <1>1, <2>9, SeesFacts
    <3> QED BY <2>6, <3>1, <3>2
  <2>10. CASE Ticks(Target) /\ TargetTicks
    <3>1. \E s : TargetMoves(s)
      BY <2>10 DEF TargetTicks
    <3>2. RecKept(l)
      BY <3>1 DEF TargetMoves, KeptBut
    <3>3. block'[Target] + RevealTimeout < t.lock.expiration \/ Registered'
      BY <2>1, <2>2, <2>3, <2>5, <2>10, <3>2, TargetStarts
    <3> QED BY <2>2, <2>5, <3>2, <3>3
  <2> QED BY <1>3, <2>7, <2>8, <2>9, <2>10 DEF TargetGoesOn
<1> QED BY <1>2, <1>3, TargetSteps

\* A mediator that falls behind with its payee has learned the secret too late, or
\* from the chain.
LEMMA LateNext ==
  ASSUME Base, Step, mined = 0, NEW n \in Mediators, Late(n)', ~Late(n)
  PROVE  Still /\ \E k, q, x : MediatorTooLate(n, k, q, x)
<1>1. n \in Node
  BY NodeFacts
<1>2. /\ task'[n].type = "mediator" /\ task'[n].secretKnown
      /\ task'[n].payeeState # "payee_balance_proof"
  BY DEF Late
<1>3. ~PairBorn(n)
  BY <1>2 DEF PairBorn
<1>4. task[n].type = "mediator" /\ PairGoesOn(n)
  BY <1>2, <1>3, PairSteps
<1>5. PICK t : t = task[n]
  OBVIOUS
<1>6. t.type = "mediator" /\ (t.secretKnown => t.payeeState = "payee_balance_proof")
  BY <1>4, <1>5 DEF Late
<1>7. ~(task'[n].secretKnown = t.secretKnown /\ task'[n].payeeState = t.payeeState)
  BY <1>2, <1>6
<1>8. ~NodeUntouched(n) /\ task'[n] # t
  BY <1>5, <1>7 DEF NodeUntouched
<1>9. ASSUME NEW x, task'[n] = MdState(t, x, t.payeeState, t.secretKnown) PROVE FALSE
  BY <1>7, <1>9 DEF MdState
<1>10. ASSUME NEW x, task'[n] = MdState(t, x, "payee_balance_proof", TRUE) PROVE FALSE
  BY <1>2, <1>10 DEF MdState
<1>11. ~Sees(n)
  BY <1>1, SeesFacts
<1>12. ASSUME NEW x, NEW y, MediatorTicks(n, x, y), task'[n] = MdState(t, x, y, t.secretKnown)
       PROVE  FALSE
  <2>1. task'[n].secretKnown = t.secretKnown
    BY <1>12 DEF MdState
  <2>2. t.payeeState = "payee_balance_proof" /\ y # t.payeeState
    <3>1. y # t.payeeState
      BY <1>9, <1>12
    <3> QED BY <1>2, <1>6, <2>1, <3>1
  <2>3. PICK q : q = <<n, t.payee>>
    OBVIOUS
  <2>4. q \in Link
    BY <1>1, <1>4, <1>5, <2>3, PairFacts
  <2>5. Sent(q, "Unlock")
    BY <1>4, <1>5, <2>2, <2>3 DEF Base, TaskInv, MediatorTaskOK
  <2>6. ourState[q].balanceProof.nonce = 2
    BY <2>4, <2>5, OneEnd
  <2>7. \E m : OurSettles(q, m)
    BY <1>5, <1>12, <2>2, <2>3 DEF MediatorTicks, PayeeExpires
  <2> QED BY <2>6, <2>7 DEF OurSettles
<1> QED BY <1>4, <1>5, <1>8, <1>9, <1>10, <1>11, <1>12 DEF PairGoesOn

\* What was unlocked stays so.
LEMMA UnlockStays ==
  ASSUME Base, Step, NEW l \in Link, Sent(l, "Unlock")
  PROVE  Sent(l, "Unlock")'
BY LinkSends DEF SentKept, EndsKept, NewReveal, NewUnlock, NewExpired, NewPromise

\* A mediator that did not know the secret comes before the receiver of a transfer
\* who has revealed it.
LEMMA BeforeRevealed ==
  ASSUME Base, Secrets, NEW n \in Mediators, task[n].type = "mediator", ~task[n].secretKnown,
         NEW l \in Link, NEW m \in Transfers(l), Revealed(l[2])
  PROVE  n \in m.mediators
<1>1. ~Revealed(n)
  BY DEF Secrets, PairKnows
<1>2. PICK k \in Link : k[2] = n /\ Transfers(k) # {}
  BY PairLinks
<1>3. PICK x \in Transfers(k) : TRUE
  BY <1>2
<1>4. k = l \/ k[2] \in m.mediators \/ l[2] \in x.mediators
  BY <1>3 DEF Base, TransferOrder
<1>5. k # l
  BY <1>1, <1>2
<1>6. ~(l[2] \in x.mediators)
  BY <1>1, <1>2, <1>3 DEF Secrets, PathReveals
<1> QED BY <1>2, <1>4, <1>5, <1>6

\* What can settle a transfer of the path after the secret came out is an unlock.
LEMMA NotSettled ==
  ASSUME Base, NotTakenBack, Revealed(Target), NEW l \in Link, Transfers(l) # {},
         ~Sent(l, "Unlock")
  PROVE  Ends(l) = {} /\ ourState[l].balanceProof.nonce = 1
<1>1. ~Sent(l, "LockExpired")
  BY DEF NotTakenBack
<1>2. Ends(l) = {}
  BY <1>1, OneEnd
<1> QED BY <1>2, LinkGood

\* The receiver of a transfer that waits registers the secret when it has to.
LEMMA WaiterRegisters ==
  ASSUME Base, ClockInv, Secrets, InTime, Timely, Revealed(Target), ~Registered,
         NEW l \in Link, Waits(l), NEW n, n = l[2], Ticks(n),
         NEW m \in Transfers(l), ~(block'[n] + RevealTimeout < m.lock.expiration)
  PROVE  Registered'
<1>1. Revealed(n) /\ Early(n, m.lock.expiration) /\ ~Sent(l, "Unlock") /\ Transfers(l) # {}
  BY DEF Waits
<1>2. NotTakenBack /\ TargetKnows /\ PairKnows
  BY DEF Timely, Secrets
<1>3. Ends(l) = {} /\ ourState[l].balanceProof.nonce = 1
  BY <1>1, <1>2, NotSettled
<1>4. Accepted(l)
  BY <1>1, NotRevealedYet
<1>5. partnerState[Mirror(l)].balanceProof.nonce = 1
  <2>1. /\ partnerState[Mirror(l)].balanceProof.nonce \in {0, 1, 2}
        /\ partnerState[Mirror(l)].balanceProof.nonce <= 1
    BY <1>3, LinkGood
  <2> QED BY <1>4, <2>1 DEF Accepted
<1>6. n # Initiator /\ n \in Node
  <2>1. l[2] # Initiator
    BY DEF Base, TransferOrigin, Origin
  <2> QED BY <2>1, LinkFacts
<1>7. TickStep(n)
  BY DEF Ticks
<1>8. CASE n = Target
  <2>1. task[Target].type # "none"
    BY <1>1, <1>2, <1>3, <1>8 DEF TargetKnows
  <2>2. task[Target].type = "target"
    BY <2>1 DEF Base, TaskInv, TargetTaskOK
  <2>3. PICK k \in Link : /\ k = <<task[Target].from, Target>> /\ k[2] = Target
                          /\ Mirror(k) = <<Target, task[Target].from>>
                          /\ Got(k, task[Target].lock)
    BY <2>2, TargetFacts
  <2>4. k = l
    BY <1>1, <1>8, <2>3, OneTransfer DEF Got
  <2>5. m.lock = task[Target].lock
    BY <2>3, <2>4 DEF Got
  <2>6. TargetTicks
    <3>1. ~(Idle /\ task[n] = NoTask)
      BY <1>8, <2>2 DEF NoTask
    <3>2. ~WaiterMoves(n) /\ \A x, y : ~MediatorTicks(n, x, y)
      BY <1>8, NodeFacts DEF WaiterMoves, MediatorTicks
    <3> QED BY <1>6, <1>7, <3>1, <3>2 DEF TickStep
  <2>7. partnerState[<<Target, task[Target].from>>].balanceProof.nonce = 1
    BY <1>5, <2>3, <2>4
  <2> QED BY <1>8, <2>2, <2>5, <2>6, <2>7, TargetStarts
<1>9. CASE n \in Mediators
  <2>0. PICK t0 : t0 = task[n]
    OBVIOUS
  <2>01. MediatorTaskOK(n, t0)
    BY <1>9, <2>0 DEF Base, TaskInv
  <2>1. t0.type # "none"
    <3>1. ASSUME t0.type = "none" PROVE partnerState[Mirror(l)].balanceProof.nonce = 2
      BY <1>1, <1>4, <2>01, <3>1 DEF MediatorTaskOK
    <3> QED BY <1>5, <3>1
  <2>2. task[n].type # "waiting"
    BY <1>1, <1>2, <1>9 DEF PairKnows
  <2>3. task[n].type = "mediator"
    <3>1. t0.type \in {"none", "mediator", "waiting"}
      BY <2>01 DEF MediatorTaskOK
    <3> QED BY <2>0, <2>1, <2>2, <3>1
  <2>4. task[n].secretKnown
    BY <1>1, <1>2, <1>9, <2>3 DEF PairKnows
  <2>5. PICK t : t = task[n]
    OBVIOUS
  <2>6. PICK k \in Link, q \in Link :
            /\ k = <<t.payer, n>> /\ k[1] = t.payer /\ k[2] = n
            /\ Mirror(k) = <<n, t.payer>> /\ Mirror(k) \in Link
            /\ Transfers(k) # {} /\ Accepted(k)
            /\ \A x \in Transfers(k) : x.lock = t.lock
            /\ q = <<n, t.payee>> /\ q[1] = n /\ Promises(q) # {}
    BY <1>9, <2>3, <2>5, PairLinks
  <2>7. k = l
    BY <1>1, <2>6, OneTransfer
  <2>8. m.lock = t.lock /\ t.lock.expiration \in Nat
    BY <2>6, <2>7, TimeType
  <2>9. PairOf(n, t, k, q)
    BY <1>9, <2>3, <2>5, <2>6, <2>8 DEF PairOf
  <2>10. \E x, y : MediatorTicks(n, x, y)
    <3>1. ~(Idle /\ task[n] = NoTask)
      BY <2>3 DEF NoTask
    <3>2. ~WaiterMoves(n)
      BY <2>2 DEF WaiterMoves
    <3> QED BY <1>6, <1>7, <1>9, <3>1, <3>2, NodeFacts DEF TickStep
  <2>11. PICK x : PayerMoves(n, x)
    BY <2>10 DEF MediatorTicks
  <2> QED BY <1>1, <1>5, <2>4, <2>5, <2>7, <2>8, <2>9, <2>11, MediatorStarts
<1> QED BY <1>6, <1>8, <1>9, NodeFacts

\* Only a node's own block moves its clock.
LEMMA BlockMoves ==
  ASSUME Base, Step, NEW n \in Node, block'[n] # block[n]
  PROVE  Ticks(n)
<1>1. CASE NodeStep
  BY <1>1 DEF NodeStep, Still
<1>2. CASE \E a \in Node : Sees(a)
  BY <1>2, SeesFacts
<1>3. ASSUME NEW a \in Node, Ticks(a) PROVE Ticks(n)
  BY <1>3, TickFacts
<1>4. CASE MineBlock
  BY <1>4, MineFacts
<1> QED BY <1>1, <1>2, <1>3, <1>4 DEF Step

\* A transfer waits as long as its sender does not unlock it and nobody registers
\* the secret.
LEMMA WaiterGoesOn ==
  ASSUME Base, ClockInv, Secrets, InTime, Timely, Step, Revealed(Target),
         ~Registered, ~Registered', NEW l \in Link, Waits(l), ~Sent(l, "Unlock")'
  PROVE  Waits(l)'
<1>1. Transfers(l)' = Transfers(l)
  <2>1. StepsOK
    BY StepNext DEF Onward
  <2>2. Transfers(l) # {}
    BY DEF Waits
  <2>3. Promises(l) # {}
    BY <2>2, LinkGood
  <2> QED BY <2>1, <2>3, LinkOnward
<1>2. Revealed(l[2])'
  BY RevealedNext DEF Waits
<1>3. mined = 0 /\ l[2] \in Node
  BY LinkFacts DEF Registered
<1>4. ASSUME NEW m \in Transfers(l), NEW n \in Mediators, Late(n)'
      PROVE  n \in m.mediators
  <2>1. CASE Late(n)
    BY <1>4, <2>1 DEF Waits
  <2>2. CASE ~Late(n)
    <3>1. PICK k, q, x : MediatorTooLate(n, k, q, x)
      BY <1>3, <1>4, <2>2, LateNext
    <3>2. MediatorLearns(n, k, q, x)
      BY <3>1 DEF MediatorTooLate
    <3>3. task[n].type = "mediator" /\ ~task[n].secretKnown
      BY <3>2, LearnsFacts
    <3> QED BY <1>4, <3>3, BeforeRevealed DEF Waits
  <2> QED BY <2>1, <2>2
<1>5. ASSUME NEW m \in Transfers(l)
      PROVE  block'[l[2]] + RevealTimeout < m.lock.expiration
  <2>1. CASE block'[l[2]] = block[l[2]]
    BY <2>1 DEF Waits, Early
  <2>2. CASE block'[l[2]] # block[l[2]]
    <3>1. PICK n : n = l[2]
      OBVIOUS
    <3>2. Ticks(n)
      BY <1>3, <2>2, <3>1, BlockMoves
    <3>3. block'[n] + RevealTimeout < m.lock.expiration
      BY <3>1, <3>2, WaiterRegisters
    <3> QED BY <3>1, <3>3
  <2> QED BY <2>1, <2>2
<1>6. ASSUME NEW m \in Transfers(l)'
      PROVE  Early(l[2], m.lock.expiration)' /\ \A n \in Mediators : Late(n)' => n \in m.mediators
  BY <1>1, <1>4, <1>5 DEF Early
<1>7. Transfers(l)' # {}
  BY <1>1 DEF Waits
<1> QED BY <1>2, <1>6, <1>7 DEF Waits

\* When the target reveals the secret, its transfer waits.
LEMMA FirstWaits ==
  ASSUME Base, Secrets, Step, Revealed(Target)', ~Revealed(Target)
  PROVE  \E l \in Link : Waits(l)'
<1>1. Still
  BY RevealedNext
<1>2. ASSUME NEW k, NEW q, NEW x, MediatorPays(Target, k, q, x) \/ MediatorTooLate(Target, k, q, x)
      PROVE  FALSE
  BY <1>2, LearnsFacts, NodeFacts DEF MediatorPays, MediatorTooLate
<1>3. PICK l, m : TargetTakes(l, m)
  BY <1>2, RevealedNext
<1>4. /\ l \in Link /\ l[2] = Target /\ m \in Transfers(l)
      /\ block[Target] + RevealTimeout < m.lock.expiration
  BY <1>3 DEF TargetTakes
<1>5. PromisesKept(l) /\ EndsKept(l) /\ \A n \in Mediators : task'[n] = task[n]
  BY <1>3, <1>4, NodeFacts DEF TargetTakes, KeptBut, TaskSet
<1>6. FromTarget
  BY DEF Secrets
<1>7. ~Sent(l, "Unlock")'
  BY <1>4, <1>5, <1>6, OutFacts DEF EndsKept
<1>8. ASSUME NEW n \in Mediators PROVE ~Late(n)'
  <2>1. ~Late(n)
    BY <1>6, OutFacts DEF Late
  <2> QED BY <1>5, <2>1 DEF Late
<1>9. Transfers(l)' = Transfers(l)
  BY <1>5 DEF PromisesKept
<1>10. ASSUME NEW y \in Transfers(l)' PROVE Early(l[2], y.lock.expiration)'
  <2>1. y.lock.expiration = m.lock.expiration
    BY <1>4, <1>9, OneTime
  <2>2. block' = block
    BY <1>1 DEF Still
  <2> QED BY <1>4, <2>1, <2>2 DEF Early
<1>11. Transfers(l)' # {} /\ Revealed(l[2])'
  BY <1>4, <1>9
<1> QED BY <1>4, <1>7, <1>8, <1>10, <1>11 DEF Waits

\* Once the initiator has paid, the mediators have or will when they learn the
\* secret.
LEMMA PaidStays ==
  ASSUME Base, Secrets, Step, mined = 0, InitiatorPaid, \A n \in Mediators : ~Late(n)
  PROVE  InitiatorPaid' /\ \A n \in Mediators : ~Late(n)'
<1>1. InitiatorPaid'
  BY UnlockStays DEF InitiatorPaid
<1>2. ASSUME NEW n \in Mediators, Late(n)' PROVE FALSE
  <2>1. PICK k, q, x : MediatorTooLate(n, k, q, x)
    BY <1>2, LateNext
  <2>2. MediatorLearns(n, k, q, x)
    BY <2>1 DEF MediatorTooLate
  <2>3. task[n].type = "mediator" /\ ~task[n].secretKnown
    BY <2>2, LearnsFacts
  <2>4. PICK j \in Link : j[2] = n /\ Transfers(j) # {}
    BY <2>3, PairLinks
  <2>5. Revealed(n)
    BY <2>4, PaidRevealed
  <2> QED BY <2>3, <2>5 DEF Secrets, PairKnows
<1> QED BY <1>1, <1>2

\* The initiator that pays for a transfer that waits is the last to be waited for.
LEMMA LastIsPaid ==
  ASSUME Base, NEW l \in Link, Waits(l), InitiatorPays(l)
  PROVE  InitiatorPaid' /\ \A n \in Mediators : ~Late(n)'
<1>1. l[1] = Initiator /\ TaskSet(Initiator, NoTask) /\ Sent(l, "Unlock")'
  BY SettlesLink DEF InitiatorPays, InitiatorUnlocks
<1>2. InitiatorPaid'
  BY <1>1 DEF InitiatorPaid
<1>3. ASSUME NEW n \in Mediators, Late(n)' PROVE FALSE
  <2>1. task'[n] = task[n]
    BY <1>1, NodeFacts DEF TaskSet
  <2>2. Late(n)
    BY <1>3, <2>1 DEF Late
  <2>3. PICK m \in Transfers(l) : n \in m.mediators
    BY <2>2 DEF Waits
  <2>4. Origin(l, m)
    BY DEF Base, TransferOrigin
  <2> QED BY <1>1, <2>3, <2>4 DEF Origin
<1> QED BY <1>2, <1>3

\* The mediator that pays for a transfer that waits makes its own payer's wait.
LEMMA PayerWaits ==
  ASSUME Base, ClockInv, Secrets, InTime, Timely, Step, Still, Revealed(Target), ~Registered,
         NEW l \in Link, Waits(l), NEW n, NEW k, NEW x, MediatorPays(n, k, l, x)
  PROVE  Waits(k)'
<1>1. MediatorLearns(n, k, l, x) /\ block[n] + RevealTimeout < task[n].lock.expiration
  BY DEF MediatorPays
<1>2. /\ n \in Mediators /\ task[n].type = "mediator" /\ ~task[n].secretKnown
      /\ k = <<task[n].payer, n>> /\ k \in Link /\ l[1] = n /\ Transfers(l) # {}
  BY <1>1, LearnsFacts
<1>3. PICK t : t = task[n]
  OBVIOUS
<1>4. /\ k[1] = t.payer /\ k[2] = n /\ Mirror(k) = <<n, t.payer>> /\ Mirror(k) \in Link
      /\ Transfers(k) # {} /\ Accepted(k) /\ \A m \in Transfers(k) : m.lock = t.lock
  BY <1>2, <1>3, PairLinks
<1>5. n \in Node /\ l # k
  <2>1. n \in Node
    BY <1>2, NodeFacts
  <2>2. l[1] # l[2]
    BY LinkFacts
  <2> QED BY <1>2, <1>4, <2>1, <2>2
<1>6. NotTakenBack /\ UnlockKnown /\ mined = 0
  BY DEF Timely, Secrets, Registered
<1>7. /\ ~Revealed(n)
      /\ t.payerState # "payer_waiting_secret_reveal"
      /\ t.payerState = "payer_balance_proof" =>
           partnerState[<<n, t.payer>>].balanceProof.nonce = 2
  BY <1>2, <1>3 DEF Secrets, PairKnows
<1>8. ~Sent(k, "Unlock")
  BY <1>2, <1>4, <1>6, <1>7 DEF UnlockKnown
<1>9. PromisesKept(k) /\ EndsKept(k)
  <2>1. KeptBut({l}, {}, {Mirror(k)})
    BY DEF MediatorPays
  <2> QED BY <1>2, <1>5, <2>1 DEF KeptBut
<1>10. ~Sent(k, "Unlock")' /\ Transfers(k)' = Transfers(k)
  BY <1>8, <1>9 DEF PromisesKept, EndsKept
<1>11. PICK e \in Nat : e = t.lock.expiration
  BY <1>2, <1>4, TimeType
<1>12. Early(n, e)
  BY <1>1, <1>3, <1>11 DEF Early
<1>13. t.payerState = "payer_pending"
  <2>1. t.payerState \in PayerStates /\ MediatorTaskOK(n, t)
    BY <1>2, <1>3, <1>5, PairFacts DEF Base, TaskInv
  <2>2. t.payerState # "payer_secret_revealed"
    BY <1>2, <1>3, <2>1 DEF MediatorTaskOK
  <2>3. t.payerState # "payer_balance_proof"
    <3>1. ourState[k].balanceProof.nonce = 1
      BY <1>2, <1>4, <1>6, <1>8, NotSettled
    <3>2. /\ partnerState[Mirror(k)].balanceProof.nonce \in {0, 1, 2}
          /\ partnerState[Mirror(k)].balanceProof.nonce <= 1
      BY <1>2, <3>1, LinkGood
    <3> QED BY <1>4, <1>7, <3>2
  <2>4. t.payerState # "payer_expired"
    <3>1. PairInTime(n, t, partnerState[<<n, t.payer>>], ourState[<<n, t.payee>>])
      BY <1>2, <1>3 DEF Timely, PairsInTime
    <3>2. t.payerState = "payer_expired" => height >= e
      BY <1>11, <3>1 DEF PairInTime
    <3>3. height < e /\ height \in Nat
      BY <1>5, <1>12, EarlyBound, ClockTypes
    <3> QED BY <1>11, <3>2, <3>3
  <2> QED BY <1>7, <2>1, <2>2, <2>3, <2>4 DEF PayerStates
<1>14. Revealed(n)'
  <2>1. Sent(Mirror(k), "RevealSecret")'
    BY <1>1, <1>3, <1>13 DEF MediatorLearns
  <2>2. Mirror(k)[1] = n
    BY <1>4
  <2> QED BY <1>4, <2>1, <2>2 DEF Revealed
<1>15. ASSUME NEW a \in Mediators, Late(a)', NEW y \in Transfers(k)
       PROVE  a \in y.mediators
  <2>1. MdTask(n, MdState(task[n], x, "payee_balance_proof", TRUE))
    BY DEF MediatorPays
  <2>2. a # n
    <3>1. ASSUME task'[n] = MdState(task[n], x, "payee_balance_proof", TRUE) PROVE ~Late(n)'
      BY <3>1 DEF Late, MdState
    <3>2. ASSUME task'[n].type = "none" PROVE ~Late(n)'
      BY <3>2 DEF Late
    <3>3. task'[n].type = "none" \/ task'[n] = MdState(task[n], x, "payee_balance_proof", TRUE)
      BY <2>1, MdTaskLeft
    <3> QED BY <1>15, <3>1, <3>2, <3>3
  <2>3. task'[a] = task[a]
    <3>1. PICK s : s = MdState(task[n], x, "payee_balance_proof", TRUE)
      OBVIOUS
    <3>2. MdTask(n, s)
      BY <2>1, <3>1
    <3> QED BY <1>15, <2>2, <3>2, MdTaskOwn, NodeFacts
  <2>4. Late(a)
    BY <1>15, <2>3 DEF Late
  <2>5. PICK m \in Transfers(l) : a \in m.mediators
    BY <1>15, <2>4 DEF Waits
  <2>6. Origin(l, m)
    BY DEF Base, TransferOrigin
  <2>7. PICK j \in Link : \E z \in Transfers(j) :
           j[2] = n /\ m.mediators = z.mediators \cup {n}
    BY <1>2, <2>6, NodeFacts DEF Origin
  <2>71. PICK z \in Transfers(j) : j[2] = n /\ m.mediators = z.mediators \cup {n}
    BY <2>7
  <2>8. j = k
    BY <1>2, <1>4, <2>71, OneTransfer
  <2>9. z = y
    <3>1. LinkOK(k) /\ Transfers(k) \subseteq Promises(k)
      BY <1>2, LinkGood
    <3> QED BY <1>15, <2>71, <2>8, <3>1 DEF LinkOK
  <2> QED BY <2>2, <2>5, <2>71, <2>9
<1>16. ASSUME NEW y \in Transfers(k)'
       PROVE  Early(k[2], y.lock.expiration)' /\ \A a \in Mediators : Late(a)' => a \in y.mediators
  <2>1. y \in Transfers(k) /\ y.lock.expiration = e
    BY <1>4, <1>10, <1>11
  <2>2. block' = block
    BY DEF Still
  <2> QED BY <1>4, <1>12, <1>15, <2>1, <2>2 DEF Early
<1>17. Transfers(k)' # {} /\ Revealed(k[2])'
  BY <1>4, <1>10, <1>14
<1> QED BY <1>10, <1>16, <1>17 DEF Waits

\* The secret stays on its way.
LEMMA OnTheWayNext ==
  ASSUME Base, ClockInv, Secrets, InTime, Timely, Step
  PROVE  OnTheWay'
<1> SUFFICES ASSUME Revealed(Target)', ~Registered'
             PROVE  (\E l \in Link : Waits(l)') \/ (InitiatorPaid' /\ \A n \in Mediators : ~Late(n)')
  BY DEF OnTheWay
<1>1. ~Registered /\ mined = 0
  BY RegisteredNext DEF Registered
<1>2. CASE ~Revealed(Target)
  BY <1>2, FirstWaits
<1>3. ASSUME Revealed(Target), NEW l \in Link, Waits(l)
      PROVE  (\E j \in Link : Waits(j)') \/ (InitiatorPaid' /\ \A n \in Mediators : ~Late(n)')
  <2>1. CASE ~Sent(l, "Unlock")'
    BY <1>1, <1>3, <2>1, WaiterGoesOn
  <2>2. CASE Sent(l, "Unlock")'
    <3>1. ~EndsKept(l)
      BY <1>3, <2>2 DEF Waits, EndsKept
    <3>2. ~NewExpired(l)
      BY <1>3, <2>2 DEF Waits, NewExpired
    <3>3. NewUnlock(l)
      BY <3>1, <3>2, LinkSends DEF SentKept, NewReveal, NewPromise
    <3>4. InitiatorPays(l) \/ (Still /\ \E n, k, x : MediatorPays(n, k, l, x))
      BY <3>3 DEF NewUnlock
    <3>5. CASE InitiatorPays(l)
      BY <1>3, <3>5, LastIsPaid
    <3>6. ASSUME Still, NEW n, NEW k, NEW x, MediatorPays(n, k, l, x)
          PROVE  \E j \in Link : Waits(j)'
      <4>1. Waits(k)'
        BY <1>1, <1>3, <3>6, PayerWaits
      <4>2. MediatorLearns(n, k, l, x)
        BY <3>6 DEF MediatorPays
      <4>3. k \in Link
        BY <4>2, LearnsFacts
      <4> QED BY <4>1, <4>3
    <3> QED BY <3>4, <3>5, <3>6
  <2> QED BY <2>1, <2>2
<1>4. CASE Revealed(Target) /\ InitiatorPaid /\ \A n \in Mediators : ~Late(n)
  BY <1>1, <1>4, PaidStays
<1> QED BY <1>1, <1>2, <1>3, <1>4 DEF Timely, OnTheWay

\* The initiator's task begins with a payment that was not tried before, or it stays as
\* it was; it outlives the registration only if that came too late.
LEMMA InitiatorSteps ==
  ASSUME Base, Step, task'[Initiator].type = "initiator"
  PROVE  \/ Still /\ notices[Initiator] = {} /\ \E l, m : Starts(l, m)
         \/ /\ task'[Initiator] = task[Initiator]
            /\ \/ seen'[Initiator] = seen[Initiator]
               \/ mined # 0 /\ ~(mined <= task[Initiator].lock.expiration)
<1>1. Initiator \in Node /\ Initiator # Target /\ Initiator \notin Mediators
  BY NodeFacts
<1>2. ASSUME TaskSet(Initiator, NoTask) PROVE FALSE
  BY <1>2 DEF TaskSet, NoTask
<1>3. ASSUME Idle PROVE task'[Initiator] = task[Initiator]
  BY <1>1, <1>3 DEF Idle, TasksKept
<1>4. ASSUME NEW l, InitiatorPays(l) PROVE FALSE
  BY <1>2, <1>4 DEF InitiatorPays, InitiatorUnlocks
<1>5. CASE NodeUntouched(Initiator)
  BY <1>5 DEF NodeUntouched
<1>6. ASSUME Still, ByMessage(Initiator) PROVE FALSE
  <2>1. ASSUME NEW l, NEW m, RefundTaken(l, m) PROVE FALSE
    BY <1>2, <2>1 DEF RefundTaken
  <2>2. ASSUME NEW l, NEW m, l[2] = Initiator, MediatorWaits(l, m) \/ MediatorIsPaid(l, m) \/ MediatorLoses(l, m)
        PROVE  FALSE
    BY <1>1, <2>2, MediatorTakeLocal
  <2>3. ASSUME NEW l, NEW m, NEW k, NEW x, l[2] = Initiator,
               MediatorForwards(l, m, k, x) \/ MediatorRefunds(l, m, x)
        PROVE  FALSE
    BY <1>1, <2>3, MediatorMakeLocal
  <2>4. ASSUME NEW k, NEW q, NEW x, MediatorPays(Initiator, k, q, x) \/ MediatorTooLate(Initiator, k, q, x)
        PROVE  FALSE
    BY <1>1, <2>4, MediatorLearnLocal
  <2>5. ASSUME NEW l, NEW x, l[2] = Initiator, MediatorMisses(l, x) PROVE FALSE
    BY <1>1, <2>5 DEF MediatorMisses
  <2>6. ~WaiterMoves(Initiator)
    BY <1>1 DEF WaiterMoves
  <2> QED BY <1>1, <1>4, <1>6, <2>1, <2>2, <2>3, <2>4, <2>5, <2>6 DEF ByMessage
<1>7. ASSUME Still, PayStep
      PROVE  \/ Still /\ notices[Initiator] = {} /\ \E l, m : Starts(l, m)
             \/ task'[Initiator] = task[Initiator] /\ seen'[Initiator] = seen[Initiator]
  <2>1. ASSUME Refused PROVE task'[Initiator] = task[Initiator]
    BY <1>1, <2>1 DEF Refused, TasksKept
  <2>2. seen' = seen
    BY <1>7 DEF Still
  <2> QED BY <1>7, <2>1, <2>2 DEF PayStep
<1>8. ASSUME Sees(Initiator)
      PROVE  /\ task'[Initiator] = task[Initiator]
             /\ mined # 0 /\ ~(mined <= task[Initiator].lock.expiration)
  <2>1. mined # 0
    BY <1>1, <1>8, SeesFacts
  <2>2. ~(Idle /\ task[Initiator] = NoTask)
    BY <1>3 DEF NoTask
  <2>3. ~MediatorSees(Initiator) /\ ~WaiterMoves(Initiator)
    BY <1>1 DEF MediatorSees, WaiterMoves
  <2>4. SeenStep(Initiator)
    BY <1>8 DEF Sees
  <2>5. Idle /\ ~(mined <= task[Initiator].lock.expiration)
    BY <1>1, <1>4, <2>2, <2>3, <2>4 DEF SeenStep
  <2> QED BY <1>3, <2>1, <2>5
<1>9. ASSUME Ticks(Initiator)
      PROVE  task'[Initiator] = task[Initiator] /\ seen'[Initiator] = seen[Initiator]
  <2>1. seen' = seen
    BY <1>1, <1>9, TickFacts
  <2>2. ~InitiatorForgets /\ \A l : ~InitiatorExpires(l)
    BY <1>2 DEF InitiatorForgets, InitiatorExpires
  <2>3. ~WaiterMoves(Initiator) /\ \A x, y : ~MediatorTicks(Initiator, x, y)
    BY <1>1 DEF WaiterMoves, MediatorTicks
  <2>4. TickStep(Initiator)
    BY <1>9 DEF Ticks
  <2>5. Idle
    BY <1>1, <2>2, <2>3, <2>4 DEF TickStep
  <2> QED BY <1>3, <2>1, <2>5
<1>10. NodeUntouched(Initiator) \/ NodeMoves(Initiator)
  BY <1>1, NodeSteps
<1> QED BY <1>5, <1>6, <1>7, <1>8, <1>9, <1>10 DEF NodeMoves

\* The initiator pays when it sees the secret on the chain.
LEMMA SeenPaysNext ==
  ASSUME Base, ClockInv, Secrets, Timely, Step
  PROVE  SeenPays'
<1> SUFFICES ASSUME seen'[Initiator], task'[Initiator].type = "initiator" PROVE FALSE
  BY DEF SeenPays
<1>1. ASSUME Still, NEW l, NEW m, Starts(l, m) PROVE FALSE
  <2>1. NothingSent
    BY <1>1 DEF Starts
  <2>2. ~Revealed(Target)
    BY <2>1, NothingRevealed
  <2>3. mined = 0
    BY <2>2, OutFacts DEF Secrets, Registered
  <2>4. seen[Initiator]
    BY <1>1 DEF Still
  <2> QED BY <2>3, <2>4, NodeFacts DEF ClockInv
<1>2. PICK t : t = task[Initiator]
  OBVIOUS
<1>3. /\ task'[Initiator] = t
      /\ \/ seen'[Initiator] = seen[Initiator]
         \/ mined # 0 /\ ~(mined <= t.lock.expiration)
  BY <1>1, <1>2, InitiatorSteps
<1>4. t.type = "initiator" /\ ~seen[Initiator]
  BY <1>2, <1>3 DEF Timely, SeenPays
<1>5. mined # 0 /\ ~(mined <= t.lock.expiration)
  BY <1>3, <1>4
<1>6. PICK l : l = <<Initiator, t.to>>
  OBVIOUS
<1>7. /\ l \in Link /\ Transfers(l) # {}
      /\ \A m \in Promises(l) : m \in Transfers(l) /\ m.lock = t.lock
  BY <1>2, <1>4, <1>6, InitiatorFacts
<1>8. PICK m \in Transfers(l) : TRUE
  BY <1>7
<1>9. m.lock = t.lock /\ t.lock.expiration \in Nat
  BY <1>7, <1>8, TimeType
<1>10. mined < m.lock.expiration
  BY <1>5, <1>7, <1>8 DEF Timely, RegisteredEarly, Registered
<1> QED BY <1>5, <1>9, <1>10, ClockTypes

\* Whoever takes a transfer back does so after the height of its expiration, and has
\* neither been shown that the secret is on the chain nor unlocked it.
LEMMA ExpiryFacts ==
  ASSUME Base, ClockInv, Secrets, Timely, Step, NEW l \in Link, NewExpired(l), Transfers(l) # {},
         NEW m \in Transfers(l)
  PROVE  /\ Ticks(l[1]) /\ l[1] \in Node /\ ~seen[l[1]]
         /\ block[l[1]] < height /\ block[l[1]] + 1 >= m.lock.expiration
         /\ height >= m.lock.expiration
         /\ ourState[l].balanceProof.nonce = 1
         /\ l[1] # Initiator => l[1] \in Mediators /\ task[l[1]].type = "mediator"
                                /\ l = <<l[1], task[l[1]].payee>>
<1>1. ourState[l].balanceProof.nonce = 1 /\ m \in Promises(l) /\ m.lock.expiration \in Nat
  BY TimeType DEF NewExpired
<1>2. PICK e \in Nat : e = m.lock.expiration
  BY <1>1
<1>3. PICK n : n = l[1]
  OBVIOUS
<1>4. /\ Ticks(n) /\ n \in Node /\ ~seen[n] /\ block'[n] >= e
      /\ n # Initiator => n \in Mediators /\ task[n].type = "mediator" /\ l = <<n, task[n].payee>>
  <2>1. ASSUME Ticks(Initiator), InitiatorExpires(l)
        PROVE  /\ n = Initiator /\ Ticks(n) /\ ~seen[n] /\ block'[n] >= e
    <3>1. /\ task[Initiator].type = "initiator" /\ l = <<Initiator, task[Initiator].to>>
          /\ block'[Initiator] >= task[Initiator].lock.expiration
      BY <2>1 DEF InitiatorExpires
    <3>2. n = Initiator
      BY <1>3, <3>1
    <3>3. m.lock = task[Initiator].lock
      BY <1>1, <3>1, InitiatorFacts
    <3>4. ~seen[Initiator]
      BY <3>1 DEF Timely, SeenPays
    <3> QED BY <1>2, <2>1, <3>1, <3>2, <3>3, <3>4
  <2>2. ASSUME NEW a \in Mediators, Ticks(a), task[a].type = "mediator", l = <<a, task[a].payee>>,
               block'[a] >= task[a].lock.expiration,
               ~IsSecretKnownOnChain(ourState[l], secretHash)
        PROVE  /\ Ticks(n) /\ n = a /\ ~seen[n] /\ block'[n] >= e
    <3>1. n = a /\ a \in Node
      BY <1>3, <2>2, NodeFacts
    <3>2. e = task[a].lock.expiration
      BY <1>1, <1>2, <2>2, <3>1, PairFacts
    <3>3. PairInTime(a, task[a], partnerState[<<a, task[a].payer>>], ourState[<<a, task[a].payee>>])
      BY <2>2 DEF Timely, PairsInTime
    <3>4. seen[a] /\ ourState[l].balanceProof.nonce = 1 => IsSecretKnownOnChain(ourState[l], secretHash)
      BY <2>2, <3>3 DEF PairInTime
    <3> QED BY <1>1, <2>2, <3>1, <3>2, <3>4
  <2>3. n = Initiator => n \in Node
    BY NodeFacts
  <2> QED BY <2>1, <2>2, <2>3, NodeFacts DEF NewExpired
<1>5. block[n] < height /\ block'[n] = block[n] + 1 /\ block[n] \in Nat /\ height \in Nat
  BY <1>4, TickFacts, ClockTypes
<1> QED BY <1>1, <1>2, <1>3, <1>4, <1>5

\* The target does not reveal the secret of a transfer whose lock has expired.
LEMMA TargetEarly ==
  ASSUME Base, ClockInv, InTime, Step, Revealed(Target)', ~Revealed(Target)
  PROVE  \E j \in Link : /\ j[2] = Target
                         /\ \E m \in Transfers(j) : height < m.lock.expiration
<1>1. ASSUME NEW k, NEW q, NEW x, MediatorPays(Target, k, q, x) \/ MediatorTooLate(Target, k, q, x)
      PROVE  FALSE
  BY <1>1, LearnsFacts, NodeFacts DEF MediatorPays, MediatorTooLate
<1>2. PICK j, m : TargetTakes(j, m)
  BY <1>1, RevealedNext
<1>3. /\ j \in Link /\ j[2] = Target /\ m \in Transfers(j)
      /\ block[Target] + RevealTimeout < m.lock.expiration
  BY <1>2 DEF TargetTakes
<1>4. PICK e \in Nat : e = m.lock.expiration
  BY <1>3, TimeType
<1>5. Early(Target, e)
  BY <1>3, <1>4 DEF Early
<1>6. height < e
  BY <1>5, EarlyBound, NodeFacts
<1> QED BY <1>3, <1>4, <1>6

\* As long as the secret is on its way no lock of the path is taken back.
LEMMA NoExpiry ==
  ASSUME Base, ClockInv, Secrets, InTime, Timely, Step, Revealed(Target),
         NEW l \in Link, NewExpired(l), Transfers(l) # {}
  PROVE  FALSE
<1>1. PICK m \in Transfers(l) : TRUE
  OBVIOUS
<1>2. PICK e \in Nat : e = m.lock.expiration
  BY <1>1, TimeType
<1>3. PICK n : n = l[1]
  OBVIOUS
<1>4. /\ n \in Node /\ ~seen[n] /\ block[n] < height /\ block[n] + 1 >= e /\ height >= e
      /\ ourState[l].balanceProof.nonce = 1
      /\ n # Initiator => n \in Mediators /\ task[n].type = "mediator"
                          /\ l = <<n, task[n].payee>>
  BY <1>1, <1>2, <1>3, ExpiryFacts
<1>5. height \in Nat /\ mined \in Nat /\ mineBy \in Nat /\ block[n] \in Nat
  BY <1>4, ClockTypes
<1>6. CASE Registered
  <2>1. mineBy < e /\ mined < e
    BY <1>1, <1>2, <1>6 DEF Timely, RegisteredEarly
  <2>2. mineBy = 0
    BY <1>2, <1>4, <1>5, <2>1 DEF ClockInv
  <2>3. mined # 0 /\ mined <= block[n]
    BY <1>2, <1>4, <1>5, <1>6, <2>1, <2>2 DEF Registered
  <2> QED BY <1>4, <2>3 DEF ClockInv
<1>7. ASSUME NEW j \in Link, Waits(j) PROVE FALSE
  <2>1. PICK x \in Transfers(j) : Early(j[2], x.lock.expiration)
    BY <1>7 DEF Waits
  <2>2. x.lock.expiration = e
    BY <1>1, <1>2, OneTime
  <2>3. j[2] \in Node
    BY LinkFacts
  <2>4. height < e
    BY <2>1, <2>2, <2>3, EarlyBound
  <2> QED BY <1>2, <1>4, <1>5, <2>4
<1>8. ASSUME InitiatorPaid, \A a \in Mediators : ~Late(a), ~Registered PROVE FALSE
  <2>1. Promises(l) # {}
    BY LinkGood
  <2>2. CASE n = Initiator
    <3>1. PICK j \in Link : j[1] = Initiator /\ Sent(j, "Unlock")
      BY <1>8 DEF InitiatorPaid
    <3>2. Promises(j) # {} /\ ourState[j].balanceProof.nonce = 2
      BY <3>1, OneEnd
    <3>3. j = l
      BY <1>3, <2>1, <2>2, <3>1, <3>2, OnePromise
    <3> QED BY <1>4, <3>2, <3>3
  <2>3. CASE n # Initiator
    <3>1. n \in Mediators /\ task[n].type = "mediator" /\ l = <<n, task[n].payee>>
      BY <1>4, <2>3
    <3>2. PICK k \in Link : k[2] = n /\ Transfers(k) # {}
      BY <3>1, PairLinks
    <3>3. Revealed(n)
      BY <1>8, <3>2, PaidRevealed DEF Registered
    <3>4. task[n].secretKnown
      BY <3>1, <3>3 DEF Secrets, PairKnows
    <3>5. task[n].payeeState = "payee_balance_proof"
      BY <1>8, <3>1, <3>4 DEF Late
    <3>6. PICK t : t = task[n]
      OBVIOUS
    <3>7. MediatorTaskOK(n, t)
      BY <3>1, <3>6 DEF Base, TaskInv
    <3>8. Sent(l, "Unlock")
      BY <3>1, <3>5, <3>6, <3>7 DEF MediatorTaskOK
    <3> QED BY <1>4, <3>8, OneEnd
  <2> QED BY <2>2, <2>3
<1> QED BY <1>6, <1>7, <1>8 DEF Timely, OnTheWay

\* No lock of the path is taken back once the secret came out, nor the other way
\* round.
LEMMA NotTakenBackNext ==
  ASSUME Base, ClockInv, Secrets, InTime, Timely, Step
  PROVE  NotTakenBack'
<1> SUFFICES ASSUME NEW l \in Link, Transfers(l)' # {}, Sent(l, "LockExpired")', Revealed(Target)'
             PROVE  FALSE
  BY DEF NotTakenBack
<1>1. StepsOK
  BY StepNext DEF Onward
<1>2. CASE Sent(l, "LockExpired")
  <2>1. Promises(l) # {}
    BY <1>2, OneEnd
  <2>2. PICK m \in Transfers(l) : TRUE
    BY <1>1, <2>1, LinkOnward
  <2>3. ~Revealed(Target)
    BY <1>2, <2>2 DEF Timely, NotTakenBack
  <2>4. PICK j \in Link : \E x \in Transfers(j) : height < x.lock.expiration
    BY <2>3, TargetEarly
  <2>5. PICK x \in Transfers(j) : height < x.lock.expiration
    BY <2>4
  <2>6. m.lock.expiration = x.lock.expiration /\ m.lock.expiration \in Nat /\ m \in Promises(l)
    BY <2>2, <2>5, OneTime, TimeType
  <2>7. block[l[1]] >= m.lock.expiration
    BY <1>2, <2>6 DEF Base, ExpiredLate
  <2>8. l[1] \in Node
    BY LinkFacts
  <2>9. block[l[1]] <= height /\ block[l[1]] \in Nat /\ height \in Nat
    BY <2>8, ClockTypes DEF ClockInv
  <2> QED BY <2>5, <2>6, <2>7, <2>9
<1>3. CASE ~Sent(l, "LockExpired")
  <2>1. ~EndsKept(l)
    BY <1>3 DEF EndsKept
  <2>2. ~NewUnlock(l)
    BY <1>3 DEF NewUnlock
  <2>3. NewExpired(l)
    BY <2>1, <2>2, LinkSends DEF SentKept, NewReveal, NewPromise
  <2>4. Transfers(l) # {}
    BY <2>3 DEF NewExpired, PromisesKept
  <2>5. Ticks(l[1]) /\ l[1] \in Node
    BY <2>3, <2>4, ExpiryFacts DEF Timely
  <2>6. Revealed(Target)
    <3>1. PICK n \in Node : Ticks(n)
      BY <2>5
    <3>2. block'[n] = block[n] + 1 /\ block[n] \in Nat
      BY <3>1, TickFacts, ClockTypes
    <3>3. ~Still
      BY <3>2 DEF Still
    <3> QED BY <3>3, RevealedNext
  <2> QED BY <2>3, <2>4, <2>6, NoExpiry
<1> QED BY <1>2, <1>3

\* A promise to the initiator is a refund.
LEMMA NoTransferBack ==
  ASSUME Base, NEW l \in Link, l[2] = Initiator
  PROVE  Transfers(l) = {}
BY DEF Base, TransferOrigin, Origin

\* What FailedLate says of the transfers.
TooLateFor(e) == height >= e \/ \E l \in Link : l[2] = Initiator /\ Promises(l) # {}

\* It does not become untrue.
LEMMA StaysTooLate ==
  ASSUME Base, Step, NEW e \in Nat, TooLateFor(e)
  PROVE  TooLateFor(e)'
<1>1. StepsOK
  BY StepNext DEF Onward
<1>2. CASE height >= e
  BY <1>2, HeightUp, ClockTypes DEF TooLateFor
<1>3. CASE \E l \in Link : l[2] = Initiator /\ Promises(l) # {}
  BY <1>1, <1>3, LinkOnward DEF TooLateFor
<1> QED BY <1>2, <1>3 DEF TooLateFor

\* A payment that failed does not come to life again.
LEMMA FailedStays ==
  ASSUME Base, ClockInv, InTime, FailedLate, Step, "PaymentSentFailed" \in notices[Initiator]
  PROVE  /\ ~Revealed(Target)'
         /\ \A k \in Link : \A m \in Transfers(k)' : TooLateFor(m.lock.expiration)'
<1>1. ~Revealed(Target) /\ \A k \in Link : \A m \in Transfers(k) : TooLateFor(m.lock.expiration)
  BY DEF FailedLate, TooLateFor
<1>2. ~Revealed(Target)'
  <2>1. SUFFICES ASSUME Revealed(Target)' PROVE FALSE
    OBVIOUS
  <2>2. PICK j \in Link : /\ j[2] = Target
                          /\ \E m \in Transfers(j) : height < m.lock.expiration
    BY <1>1, <2>1, TargetEarly
  <2>3. PICK m \in Transfers(j) : height < m.lock.expiration
    BY <2>2
  <2>4. m.lock.expiration \in Nat /\ height \in Nat
    BY <2>3, TimeType, ClockTypes
  <2>5. PICK l \in Link : l[2] = Initiator /\ Promises(l) # {}
    BY <1>1, <2>3, <2>4 DEF TooLateFor
  <2> QED BY <2>2, <2>3, <2>5, NoTransferBack, RefundBefore
<1>3. ASSUME NEW k \in Link, NEW m \in Transfers(k)' PROVE TooLateFor(m.lock.expiration)'
  <2>1. CASE m \in Transfers(k)
    BY <1>1, <2>1, TimeType, StaysTooLate
  <2>2. CASE m \notin Transfers(k)
    <3>1. Still /\ (Starts(k, m) \/ \E l, x : MediatorForwards(l, x, k, m))
      BY <1>3, <2>2, NewTransfer
    <3>2. ~Starts(k, m)
      <4>1. SUFFICES ASSUME Starts(k, m) PROVE FALSE
        OBVIOUS
      <4>2. NothingSent /\ TaskSet(Initiator, InitiatorTask(k[2], m.lock))
        BY <4>1 DEF Starts
      <4>3. task'[Initiator].type = "initiator"
        BY <4>2 DEF TaskSet, InitiatorTask
      <4>4. task[Initiator].type # "initiator"
        <5>1. PICK j : j = <<Initiator, task[Initiator].to>>
          OBVIOUS
        <5>2. \A i \in Link : Promises(i) = {} /\ Transfers(i) \subseteq Promises(i)
          BY <4>2, LinkGood DEF NothingSent
        <5> QED BY <5>1, <5>2, InitiatorFacts
      <4> QED BY <4>3, <4>4, InitiatorSteps
    <3>3. PICK l, x : MediatorForwards(l, x, k, m)
      BY <3>1, <3>2
    <3>4. l \in Link /\ x \in Transfers(l) /\ m.lock.expiration = x.lock.expiration
      BY <3>3, ForwardTime
    <3> QED BY <1>1, <3>4, TimeType, StaysTooLate
  <2> QED BY <2>1, <2>2
<1> QED BY <1>2, <1>3

\* Nothing was sent when the payment is refused.
LEMMA RefusedEarly ==
  ASSUME Base, Step, Refused
  PROVE  ~Revealed(Target)' /\ \A k \in Link : Transfers(k)' = {}
<1>1. NothingSent /\ KeptBut({}, {}, {})
  BY DEF Refused
<1>2. ~Revealed(Target)'
  BY <1>1, NothingRevealed, NoReveal
<1>3. ASSUME NEW k \in Link PROVE Transfers(k)' = {}
  <2>1. Transfers(k) = {}
    BY <1>1, LinkGood DEF NothingSent
  <2>2. PromisesKept(k)
    BY <1>1 DEF KeptBut
  <2> QED BY <2>1, <2>2 DEF PromisesKept
<1> QED BY <1>2, <1>3

\* The secret is not out when the initiator takes a refund, and will not be.
LEMMA RefundedEarly ==
  ASSUME Base, Step, NEW l, NEW m, RefundTaken(l, m)
  PROVE  ~Revealed(Target)' /\ \A e : TooLateFor(e)'
<1>1. l \in Link /\ l[2] = Initiator /\ m \in Promises(l) /\ KeptBut({}, {l}, {})
  BY DEF RefundTaken
<1>2. StepsOK
  BY StepNext DEF Onward
<1>3. Promises(l)' # {}
  BY <1>1, <1>2, LinkOnward
<1>4. \A j \in Link : j[2] = Target => Transfers(j) = {}
  BY <1>1, NoTransferBack, RefundBefore
<1>5. ~Revealed(Target)
  BY <1>4, NoTransferNoReveal
<1>6. PICK R : R = {l}
  OBVIOUS
<1>7. KeptBut({}, R, {})
  BY <1>1, <1>6
<1>8. ~Revealed(Target)'
  BY <1>5, <1>7, NoReveal
<1> QED BY <1>1, <1>3, <1>8 DEF TooLateFor

\* The initiator takes its transfer back too late for any other.
LEMMA ExpiredTooLate ==
  ASSUME Base, ClockInv, Secrets, InTime, Timely, Step, Ticks(Initiator),
         NEW l, InitiatorExpires(l)
  PROVE  /\ ~Revealed(Target)'
         /\ \A k \in Link : \A m \in Transfers(k)' : TooLateFor(m.lock.expiration)'
<1>1. /\ task[Initiator].type = "initiator" /\ l = <<Initiator, task[Initiator].to>>
      /\ l \in Link /\ KeptBut({l}, {}, {})
      /\ block'[Initiator] >= task[Initiator].lock.expiration
  BY DEF InitiatorExpires
<1>2. PromisesKept(l) /\ Sent(l, "LockExpired")'
  BY SettlesLink DEF InitiatorExpires
<1>3. PICK y \in Transfers(l) : y.lock = task[Initiator].lock
  <2>1. Transfers(l) # {} /\ \A m \in Promises(l) : m.lock = task[Initiator].lock
    BY <1>1, InitiatorFacts
  <2>2. Transfers(l) \subseteq Promises(l)
    BY <1>1, LinkGood
  <2> QED BY <2>1, <2>2
<1>4. ~Revealed(Target)'
  <2>1. Transfers(l)' # {}
    BY <1>2, <1>3 DEF PromisesKept
  <2>2. NotTakenBack'
    BY NotTakenBackNext
  <2> QED BY <1>1, <1>2, <2>1, <2>2 DEF NotTakenBack
<1>5. ASSUME NEW k \in Link, NEW m \in Transfers(k)' PROVE TooLateFor(m.lock.expiration)'
  <2>1. PromisesKept(k)
    BY <1>1, <1>2 DEF KeptBut
  <2>2. m \in Transfers(k)
    BY <1>5, <2>1 DEF PromisesKept
  <2>3. m.lock.expiration = y.lock.expiration /\ m.lock.expiration \in Nat
    BY <1>1, <1>3, <2>2, OneTime, TimeType
  <2>4. block'[Initiator] >= m.lock.expiration
    BY <1>1, <1>3, <2>3
  <2>5. /\ block[Initiator] < height /\ block'[Initiator] = block[Initiator] + 1
        /\ height' = height /\ height \in Nat /\ block[Initiator] \in Nat
    BY NodeFacts, TickFacts, ClockTypes
  <2>6. height' >= m.lock.expiration
    BY <2>3, <2>4, <2>5
  <2> QED BY <2>6 DEF TooLateFor
<1> QED BY <1>4, <1>5

\* A payment that fails was not made and will not be.
LEMMA FailedLateNext ==
  ASSUME Base, ClockInv, Secrets, InTime, Timely, Step
  PROVE  FailedLate'
<1> SUFFICES ASSUME "PaymentSentFailed" \in notices'[Initiator]
             PROVE  /\ ~Revealed(Target)'
                    /\ \A k \in Link : \A m \in Transfers(k)' : TooLateFor(m.lock.expiration)'
  BY DEF FailedLate, TooLateFor
<1>1. CASE "PaymentSentFailed" \in notices[Initiator]
  BY <1>1, FailedStays DEF Timely
<1>2. CASE "PaymentSentFailed" \notin notices[Initiator]
  <2>1. PICK w : w = "PaymentSentFailed"
    OBVIOUS
  <2>2. w \in Marks /\ w # "PaymentSentSuccess" /\ w # "PaymentReceivedSuccess"
    BY <2>1 DEF Marks
  <2>3. \/ Refused
        \/ \E l, m : RefundTaken(l, m)
        \/ Ticks(Initiator) /\ \E l : InitiatorExpires(l)
    BY <1>2, <2>1, <2>2, NodeFacts, NotesNext
  <2>4. CASE Refused
    BY <2>4, RefusedEarly
  <2>5. CASE \E l, m : RefundTaken(l, m)
    BY <2>5, RefundedEarly
  <2>6. CASE Ticks(Initiator) /\ \E l : InitiatorExpires(l)
    BY <2>6, ExpiredTooLate
  <2> QED BY <2>3, <2>4, <2>5, <2>6
<1> QED BY <1>1, <1>2

\* Every step keeps what is in time in time.
LEMMA TimelyNext ==
  ASSUME Base, ClockInv, Secrets, InTime, Timely, Step
  PROVE  Timely'
<1>1. RegisteredEarly' /\ PairsInTime' /\ TargetInTime' /\ OnTheWay'
  BY RegisteredEarlyNext, PairsInTimeNext, TargetInTimeNext, OnTheWayNext
<1>2. SeenPays' /\ NotTakenBack' /\ FailedLate'
  BY SeenPaysNext, NotTakenBackNext, FailedLateNext
<1> QED BY <1>1, <1>2 DEF Timely

-----------------------------------------------------------------------------
(* What is promised to the users.                                          *)

\* The inductive invariant.
PaymentInv == Base /\ ClockInv /\ Secrets /\ (InTime => Timely)

\* The clocks begin at the first block.
LEMMA InitClock == Init => ClockInv
<1> SUFFICES ASSUME Init PROVE ClockInv
  OBVIOUS
<1>1. /\ \A n \in Node : block[n] = 0 /\ ~seen[n]
      /\ height = 0 /\ mined = 0 /\ mineBy = 0
  BY InitFacts
<1>2. MaxLag \in Nat
  BY MediationAssumption
<1> QED BY <1>1, <1>2 DEF ClockInv

\* Nobody knows the secret at first but the target, who keeps it.
LEMMA InitSecrets == Init => Secrets
<1> SUFFICES ASSUME Init PROVE Secrets
  OBVIOUS
<1>1. NothingSent /\ \A l \in Link : Transfers(l) = {} /\ \A type : ~Sent(l, type)
  BY InitFacts
<1>2. \A n \in Node : task[n].type = "none" /\ notices[n] = {}
  BY InitFacts DEF NoTask
<1>3. ~Registered /\ mined = 0
  BY InitFacts DEF Registered
<1>4. ASSUME NEW l \in Link
      PROVE  /\ ~IsSecretKnown(ourState[l], secretHash)
             /\ ~IsSecretKnown(partnerState[l], secretHash)
  BY InitFacts, NoLock
<1>5. \A n : ~Revealed(n)
  BY <1>1 DEF Revealed
<1>6. FromTarget
  BY <1>1, <1>2, <1>3, <1>4, NodeFacts DEF FromTarget, Out
<1>7. PathReveals /\ UnlockKnown
  BY <1>1 DEF PathReveals, UnlockKnown
<1>8. ChainKnown
  BY <1>4, OnChainIsKnown DEF ChainKnown
<1>9. PairKnows /\ TargetKnows
  BY <1>2, <1>5, NodeFacts DEF PairKnows, TargetKnows
<1> QED BY <1>6, <1>7, <1>8, <1>9 DEF Secrets

\* Nothing is late at first.
LEMMA InitTimely == Init => Timely
<1> SUFFICES ASSUME Init PROVE Timely
  OBVIOUS
<1>1. NothingSent /\ \A l \in Link : Transfers(l) = {} /\ \A type : ~Sent(l, type)
  BY InitFacts
<1>2. \A n \in Node : task[n].type = "none" /\ notices[n] = {}
  BY InitFacts DEF NoTask
<1>3. ~Registered
  BY InitFacts DEF Registered
<1>4. \A n : ~Revealed(n)
  BY <1>1 DEF Revealed
<1>5. RegisteredEarly /\ PairsInTime /\ TargetInTime
  BY <1>2, <1>3, NodeFacts DEF RegisteredEarly, PairsInTime, TargetInTime
<1>6. OnTheWay /\ NotTakenBack
  BY <1>4 DEF OnTheWay, NotTakenBack
<1>7. SeenPays /\ FailedLate
  BY <1>2, NodeFacts DEF SeenPays, FailedLate
<1> QED BY <1>5, <1>6, <1>7 DEF Timely

\* Doing nothing is a step.
LEMMA StutterStep ==
  ASSUME Base, UNCHANGED vars
  PROVE  Step
<1>1. Shape /\ Clocks /\ Idle
  BY StutterIdle
<1>2. Still
  BY DEF Still, vars, chainVars
<1> QED BY <1>1, <1>2 DEF Step, NodeStep, MessageStep

\* Every step keeps the inductive invariant.
LEMMA PaymentStep == PaymentInv /\ [Next]_vars => PaymentInv'
<1> SUFFICES ASSUME PaymentInv, [Next]_vars PROVE PaymentInv'
  OBVIOUS
<1>1. Base /\ ClockInv /\ Secrets
  BY DEF PaymentInv
<1>2. Step
  BY <1>1, NextSteps, StutterStep
<1>3. Base'
  BY <1>1, <1>2, StepNext
<1>4. ClockInv' /\ Secrets'
  BY <1>1, <1>2, ClockNext, SecretsNext
<1>5. (InTime => Timely)'
  <2>1. ASSUME InTime PROVE Timely'
    BY <1>1, <1>2, <2>1, TimelyNext DEF PaymentInv
  <2>2. InTime' => InTime
    BY DEF InTime
  <2> QED BY <2>1, <2>2
<1> QED BY <1>3, <1>4, <1>5 DEF PaymentInv

\* The invariant holds at every moment.
THEOREM PaymentInvHolds == Spec => []PaymentInv
<1>1. Init => PaymentInv
  BY InitBase, InitClock, InitSecrets, InitTimely DEF PaymentInv
<1> QED BY <1>1, PaymentStep, PTL DEF Spec

\* A mediator whose payee was unlocked has its payer's lock still.
LEMMA CoveredMediator ==
  ASSUME Base, Secrets, NotTakenBack, NEW l \in Link, NEW k \in Link, k[2] = l[1],
         k[1] # l[2], Sent(l, "Unlock")
  PROVE  ~Sent(k, "LockExpired")
<1> SUFFICES ASSUME Sent(k, "LockExpired") PROVE FALSE
  OBVIOUS
<1>1. Revealed(Target)
  BY OutFacts DEF Secrets
<1>2. Promises(l) # {} /\ Promises(k) # {}
  BY OneEnd
<1>3. Transfers(k) = {}
  BY <1>1 DEF NotTakenBack
<1>4. PICK x \in Promises(k) : x.type # "LockedTransfer"
  BY <1>2, <1>3 DEF Promises, Transfers
<1>5. PICK j : j = Mirror(k)
  OBVIOUS
<1>6. j \in Link /\ j[1] = l[1] /\ j[2] = k[1]
  BY <1>5, LinkFacts
<1>7. Transfers(j) # {}
  BY <1>4, <1>5 DEF Base, PromiseOrigin
<1>8. Promises(j) # {}
  BY <1>6, <1>7, LinkGood
<1>9. j = l
  BY <1>2, <1>6, <1>8, OnePromise
<1> QED BY <1>6, <1>9

\* A mediator that sent its payee an Unlock (eventsForBalanceProof) never has the
\* payer's lock taken back, and a target that waits for its Unlock neither: for every
\* path, amount and fee, as long as the reveal timeout covers the lag of the nodes and
\* the time a registration takes.
THEOREM NobodyIsCheated == Spec => []NobodyCheated
<1>1. PaymentInv => NobodyCheated
  <2> SUFFICES ASSUME PaymentInv PROVE NobodyCheated
    OBVIOUS
  <2>1. Base /\ Secrets /\ (InTime => NotTakenBack)
    BY DEF PaymentInv, Timely
  <2>2. MediatorCovered
    <3> SUFFICES ASSUME InTime, NEW m \in Mediators, NEW p \in Node, NEW q \in Node, p # q,
                        <<p, m>> \in Link, <<m, q>> \in Link, Sent(<<m, q>>, "Unlock")
                 PROVE  ~Sent(<<p, m>>, "LockExpired")
      BY DEF MediatorCovered
    <3>1. PICK l : l = <<m, q>>
      OBVIOUS
    <3>2. PICK k : k = <<p, m>>
      OBVIOUS
    <3>3. /\ l \in Link /\ k \in Link /\ k[2] = l[1] /\ k[1] # l[2] /\ Sent(l, "Unlock")
      BY <3>1, <3>2
    <3>4. ~Sent(k, "LockExpired")
      BY <2>1, <3>3, CoveredMediator
    <3> QED BY <3>2, <3>4
  <2>3. TargetCovered
    <3> SUFFICES ASSUME InTime, task[Target].type = "target"
                 PROVE  ~Sent(<<task[Target].from, Target>>, "LockExpired")
      BY DEF TargetCovered
    <3>1. PICK l : l = <<task[Target].from, Target>>
      OBVIOUS
    <3>2. l \in Link /\ Got(l, task[Target].lock)
      BY <2>1, <3>1, TargetFacts
    <3>3. Transfers(l) # {}
      BY <3>2 DEF Got
    <3>4. Revealed(Target)
      BY <2>1, OutFacts DEF Secrets
    <3> QED BY <2>1, <3>1, <3>2, <3>3, <3>4 DEF NotTakenBack
  <2> QED BY <2>2, <2>3 DEF NobodyCheated
<1> QED BY <1>1, PaymentInvHolds, PTL

\* A payment that the initiator reports as failed (PaymentSentFailed) was neither
\* reported as made nor received, and no mediator paid for it, on any path and under
\* any order of messages and blocks.
THEOREM PaymentIsAtomic == Spec => []PaymentAtomic
<1>1. PaymentInv => PaymentAtomic
  <2> SUFFICES ASSUME PaymentInv, InTime, "PaymentSentFailed" \in notices[Initiator]
               PROVE  /\ "PaymentSentSuccess" \notin notices[Initiator]
                      /\ "PaymentReceivedSuccess" \notin notices[Target]
                      /\ \A m \in Mediators, q \in Node :
                           <<m, q>> \in Link => ~Sent(<<m, q>>, "Unlock")
    BY DEF PaymentAtomic
  <2>1. FromTarget /\ FailedLate
    BY DEF PaymentInv, Secrets, Timely
  <2>2. ~Revealed(Target)
    BY <2>1 DEF FailedLate
  <2>3. ~Out
    BY <2>1, <2>2 DEF FromTarget
  <2>4. /\ "PaymentSentSuccess" \notin notices[Initiator]
        /\ "PaymentReceivedSuccess" \notin notices[Target]
        /\ \A l \in Link : ~Sent(l, "Unlock")
    BY <2>3 DEF Out
  <2> QED BY <2>4
<1> QED BY <1>1, PaymentInvHolds, PTL
=============================================================================
