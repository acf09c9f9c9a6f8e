----------------------- MODULE ChannelTransfers_proofs -----------------------
(***************************************************************************)
(* The books of a channel are in order and every proof is covered, for any *)
(* deposits, amounts, secrets, timeouts and any number of messages; and    *)
(* what users are told of payments is true on both sides of the channel,   *)
(* whatever is delivered late or twice and wherever the blocks fall.       *)
(*                                                                         *)
(* The first half proves LedgerInv, the second half PaymentInv, which adds *)
(*                                                                         *)
(*   Link      per direction: the proofs form one chain, and the receiver  *)
(*             is at one of them; what it has passed over is a LockExpired *)
(*   Payment   per secret hash: the initiator's task, the target's task,   *)
(*             the locks on both sides, what was sent, what was received   *)
(*             and what the users were told fit each other                 *)
(*   Clock     blocks, registrations of secrets and expirations            *)
(***************************************************************************)
EXTENDS ChannelTransfers, EndState_proofs

-----------------------------------------------------------------------------
(* Nodes and messages.                                                     *)

\* The channel has two participants, each the partner of the other.
LEMMA Partners ==
  /\ A # B
  /\ \A n \in Node : /\ Partner(n) \in Node /\ Partner(n) # n
                     /\ Partner(Partner(n)) = n
  /\ \A n, k \in Node : k # n => k = Partner(n)
  /\ \A n \in Node : Deposit[n] \in Amount
BY TransfersAssumption DEF Node, Partner

\* The fields of a message are determined by its type.
LEMMA MessageFields ==
  ASSUME NEW m \in Message
  PROVE  /\ HasProof(m) => m \in ProofMessage /\ m.bp \in BalanceProof
         /\ m.type = "LockedTransfer" => HasProof(m) /\ m.lock \in Lock
         /\ m.type \in {"DirectTransfer", "Unlock", "LockExpired"} => HasProof(m)
         /\ m.type \in {"Unlock", "LockExpired", "RevealSecret"} =>
              m.secretHash \in SecretHash
BY DEF Message, ProofMessage, RevealMessage, HasProof

\* Appending a message adds it to the messages sent.
LEMMA RangeAppend ==
  ASSUME NEW s \in Seq(Message), NEW m \in Message
  PROVE  /\ Append(s, m) \in Seq(Message)
         /\ Range(Append(s, m)) = Range(s) \cup {m}
         /\ Range(s) \subseteq Message
<1>1. Append(s, m) \in Seq(Message) /\ Range(s) \subseteq Message
  BY DEF Range
<1>2. /\ DOMAIN Append(s, m) = 1 .. Len(s) + 1 /\ DOMAIN s = 1 .. Len(s)
      /\ Len(s) \in Nat
      /\ \A i \in 1 .. Len(s) : Append(s, m)[i] = s[i]
      /\ Append(s, m)[Len(s) + 1] = m
  OBVIOUS
<1>3. 1 .. Len(s) + 1 = (1 .. Len(s)) \cup {Len(s) + 1}
  BY <1>2
<1>4. Range(Append(s, m)) = Range(s) \cup {m}
  BY <1>2, <1>3 DEF Range
<1> QED BY <1>1, <1>4

\* Appending a message makes a queue longer.
LEMMA AppendGrows ==
  ASSUME NEW s \in Seq(Message), NEW m
  PROVE  Len(s) \in Nat /\ Len(Append(s, m)) = Len(s) + 1
OBVIOUS

-----------------------------------------------------------------------------
(* The invariant, split by the variables it is about.                      *)

LedgerTypes ==
  /\ ourState \in [Node -> EndStates]
  /\ partnerState \in [Node -> EndStates]
  /\ sent \in [Node -> Seq(Message)]

TaskTypes ==
  /\ task \in [Node -> [SecretHash -> TaskState]]
  /\ notices \in [Node -> [SecretHash -> SUBSET Notice]]

ClockTypes ==
  /\ received \in [Node -> Nat]
  /\ block \in [Node -> Nat]
  /\ todo \in [Node -> SUBSET SecretHash]
  /\ height \in Nat
  /\ mined \in [SecretHash -> Nat]
  /\ mineBy \in [SecretHash -> Nat]
  /\ seen \in [Node -> SUBSET SecretHash]

Ledger ==
  /\ LedgerTypes /\ BooksAgree /\ ProofsCovered
  /\ DepositsKept /\ Funded /\ RecordsBehind
  /\ LocksAnnounced /\ OneTransferPerSecret

ledgerVars == <<ourState, partnerState, sent>>

\* What every step does: the ledger stays in order and no message is lost.
SentGrows == \A k \in Node : Len(sent[k]) \in Nat /\ Len(sent[k]) <= Len(sent'[k])
LedgerStep == Ledger' /\ SentGrows

\* The invariant is the ledger and the types of the other variables.
LEMMA Parts ==
  LedgerInv <=> Ledger /\ TaskTypes /\ ClockTypes /\ ReceivedWasSent
BY DEF LedgerInv, Ledger, TypeOK, LedgerTypes, TaskTypes, ClockTypes

\* The ledger is a predicate on three variables.
LEMMA LedgerStutter ==
  ASSUME Ledger, UNCHANGED ledgerVars
  PROVE  LedgerStep
<1>1. Ledger'
  BY DEF Ledger, ledgerVars, LedgerTypes, BooksAgree, ProofsCovered, DepositsKept,
     Funded, RecordsBehind, LocksAnnounced, Announced, OneTransferPerSecret
<1>2. SentGrows
  BY DEF Ledger, LedgerTypes, ledgerVars, SentGrows
<1> QED BY <1>1, <1>2 DEF LedgerStep

-----------------------------------------------------------------------------
(* Every change of the ledger is one of two kinds: a node issues a proof   *)
(* on its own side, or it works on what it received.                       *)

\* Side end with locks moved between its maps.
Moved(new, end) ==
  /\ new \in EndStates /\ Books(new) /\ SameDeposit(new, end)
  /\ new.balanceProof = end.balanceProof
  /\ PendingLocks(new) = PendingLocks(end)

\* The locks that message m brings along.
LocksIn(m) == IF m.type = "LockedTransfer" THEN {m.lock} ELSE {}

\* Node n issues the proof of message m and new is its side afterwards.
Issues(n, new, m) ==
  /\ m \in ProofMessage
  /\ Follows(new, ourState[n], m.bp)
  /\ m.bp.transferredAmount + m.bp.lockedAmount
       <= Deposit[n] + partnerState[n].balanceProof.transferredAmount
  /\ PendingLocks(new) \subseteq PendingLocks(ourState[n]) \cup LocksIn(m)
  /\ m.type = "LockedTransfer" => Fresh(m.lock.secretHash)
  /\ ourState' = [ourState EXCEPT ![n] = new]
  /\ partnerState' = partnerState
  /\ Send(n, m)

\* Node n takes over the proof of a message its partner sent, or none.
TakesOver(n, new) ==
  \/ Moved(new, partnerState[n])
  \/ \E m \in Range(sent[Partner(n)]) :
       /\ HasProof(m)
       /\ Follows(new, partnerState[n], m.bp)
       /\ PendingLocks(new) \subseteq PendingLocks(partnerState[n]) \cup LocksIn(m)

\* Issuing a proof keeps the ledger in order.
LEMMA IssueStep ==
  ASSUME Ledger, NEW n \in Node, NEW new, NEW m, Issues(n, new, m)
  PROVE  LedgerStep
<1> DEFINE p == Partner(n)
           bp == m.bp
<1>1. p \in Node /\ p # n /\ Partner(p) = n /\ \A k \in Node : k # n => k = p
  BY Partners
<1>2. /\ ourState \in [Node -> EndStates] /\ partnerState \in [Node -> EndStates]
      /\ sent \in [Node -> Seq(Message)]
  BY DEF Ledger, LedgerTypes
<1>3. m \in Message /\ HasProof(m) /\ bp \in BalanceProof
  BY DEF Issues, Message, ProofMessage, HasProof
<1>4. /\ new \in EndStates /\ Books(new) /\ SameDeposit(new, ourState[n])
      /\ new.balanceProof = bp
      /\ bp.nonce = ourState[n].balanceProof.nonce + 1
      /\ bp.transferredAmount >= ourState[n].balanceProof.transferredAmount
  BY DEF Issues, Follows
<1>5. /\ ourState' = [ourState EXCEPT ![n] = new]
      /\ ourState'[n] = new /\ ourState'[p] = ourState[p]
      /\ partnerState' = partnerState
  BY <1>1, <1>2 DEF Issues
<1>6. /\ sent' \in [Node -> Seq(Message)]
      /\ Range(sent'[n]) = Range(sent[n]) \cup {m}
      /\ sent'[p] = sent[p]
      /\ SentGrows
  <2>1. sent' = [sent EXCEPT ![n] = Append(sent[n], m)]
    BY DEF Issues, Send
  <2>2. sent[n] \in Seq(Message)
    BY <1>2
  <2>3. /\ Append(sent[n], m) \in Seq(Message)
        /\ Range(Append(sent[n], m)) = Range(sent[n]) \cup {m}
    BY <1>3, <2>2, RangeAppend
  <2>4. sent'[n] = Append(sent[n], m) /\ sent'[p] = sent[p]
    BY <1>1, <1>2, <2>1
  <2>5. SentGrows
    <3>1. /\ Len(sent[n]) \in Nat /\ Len(sent'[n]) = Len(sent[n]) + 1
          /\ Len(sent[p]) \in Nat /\ Len(sent'[p]) = Len(sent[p])
      BY <1>1, <1>2, <2>2, <2>4, AppendGrows
    <3> QED BY <1>1, <3>1 DEF SentGrows
  <2> QED BY <1>1, <1>2, <2>1, <2>3, <2>5
<1>7. LedgerTypes'
  BY <1>2, <1>4, <1>5, <1>6 DEF LedgerTypes
<1>8. BooksAgree'
  BY <1>1, <1>4, <1>5 DEF Ledger, BooksAgree
<1>9. ProofsCovered'
  BY <1>1, <1>5, <1>6 DEF Ledger, ProofsCovered, Issues
<1>10. DepositsKept'
  BY <1>1, <1>4, <1>5 DEF Ledger, DepositsKept, SameDeposit
<1>11. Funded'
  BY <1>1, <1>4, <1>5 DEF Ledger, Funded, Issues
<1>12. RecordsBehind'
  <2>1. \A k \in Node : ourState[k].balanceProof.transferredAmount \in Nat
                     /\ partnerState[k].balanceProof.transferredAmount \in Nat
    BY <1>2, EndStateTypes, AmountFacts
  <2>2. bp.transferredAmount \in Nat
    BY <1>3, AmountFacts DEF BalanceProof
  <2>3. \A k \in Range(sent[n]) : HasProof(k) => k.bp.transferredAmount \in Nat
    BY <1>2, <1>3, RangeAppend, MessageFields, AmountFacts DEF BalanceProof
  <2>4. /\ partnerState[p].balanceProof.transferredAmount <= bp.transferredAmount
        /\ \A k \in Range(sent[n]) :
             HasProof(k) => k.bp.transferredAmount <= bp.transferredAmount
    BY <1>1, <1>4, <2>1, <2>2, <2>3 DEF Ledger, RecordsBehind
  <2>5. bp.transferredAmount <= bp.transferredAmount
    BY <2>2
  <2>6. /\ partnerState'[p].balanceProof.transferredAmount
             <= ourState'[n].balanceProof.transferredAmount
        /\ \A k \in Range(sent'[n]) :
             HasProof(k) => k.bp.transferredAmount
                              <= ourState'[n].balanceProof.transferredAmount
    BY <1>4, <1>5, <1>6, <2>4, <2>5, Zenon
  <2>7. /\ partnerState'[n].balanceProof.transferredAmount
             <= ourState'[p].balanceProof.transferredAmount
        /\ \A k \in Range(sent'[p]) :
             HasProof(k) => k.bp.transferredAmount
                              <= ourState'[p].balanceProof.transferredAmount
    BY <1>1, <1>5, <1>6 DEF Ledger, RecordsBehind
  <2> QED BY <1>1, <2>6, <2>7 DEF RecordsBehind
<1>13. LocksAnnounced'
  <2>1. \A k \in Node : ourState[k].balanceProof.nonce \in Nat
    BY <1>2, EndStateTypes
  <2>2. \A k \in Range(sent[n]) :
          k.type = "LockedTransfer" => k.bp.nonce \in Nat
    BY <1>2, <1>3, RangeAppend, MessageFields DEF BalanceProof
  <2>3. Announced(n, ourState[n]) /\ Announced(n, partnerState[p])
        /\ Announced(p, ourState[p]) /\ Announced(p, partnerState[n])
    BY <1>1 DEF Ledger, LocksAnnounced
  <2>4. Announced(n, ourState[n])'
    <3> SUFFICES ASSUME NEW l \in PendingLocks(new)
                 PROVE  \E k \in Range(sent[n]) \cup {m} :
                          /\ k.type = "LockedTransfer" /\ k.lock = l
                          /\ k.bp.nonce <= bp.nonce
      BY <1>4, <1>5, <1>6 DEF Announced
    <3>1. CASE l \in PendingLocks(ourState[n])
      <4>1. PICK k \in Range(sent[n]) :
              /\ k.type = "LockedTransfer" /\ k.lock = l
              /\ k.bp.nonce <= ourState[n].balanceProof.nonce
        BY <2>3, <3>1 DEF Announced
      <4>2. k.bp.nonce <= bp.nonce
        BY <1>4, <2>1, <2>2, <4>1
      <4> QED BY <4>1, <4>2
    <3>2. CASE l \in LocksIn(m)
      <4>1. m.type = "LockedTransfer" /\ m.lock = l /\ bp.nonce <= bp.nonce
        BY <1>4, <2>1, <3>2 DEF LocksIn
      <4> QED BY <4>1
    <3> QED BY <3>1, <3>2 DEF Issues
  <2>5. Announced(n, partnerState[p])'
    BY <1>5, <1>6, <2>3 DEF Announced
  <2>6. Announced(p, ourState[p])' /\ Announced(p, partnerState[n])'
    BY <1>5, <1>6, <2>3 DEF Announced
  <2> QED BY <1>1, <2>4, <2>5, <2>6 DEF LocksAnnounced
<1>14. OneTransferPerSecret'
  <2> DEFINE Twice(x, y) == /\ x.type = "LockedTransfer" /\ y.type = "LockedTransfer"
                            /\ x.lock.secretHash = y.lock.secretHash
  <2>1. \A k \in Node : \A x, y \in Range(sent[k]) : Twice(x, y) => x = y
    BY DEF Ledger, OneTransferPerSecret
  <2>2. \A x \in Range(sent[n]) : ~Twice(m, x) /\ ~Twice(x, m)
    BY DEF Issues, Fresh
  <2>3. \A x, y \in Range(sent'[n]) : Twice(x, y) => x = y
    BY <1>1, <1>6, <2>1, <2>2
  <2>4. \A x, y \in Range(sent'[p]) : Twice(x, y) => x = y
    BY <1>1, <1>6, <2>1
  <2> QED BY <1>1, <2>3, <2>4 DEF OneTransferPerSecret
<1> QED BY <1>6, <1>7, <1>8, <1>9, <1>10, <1>11, <1>12, <1>13, <1>14
        DEF Ledger, LedgerStep

\* So does taking over what the partner sent, with or without the
\* announcement that the secret is known.
LEMMA TakeOverStep ==
  ASSUME Ledger, NEW n \in Node, NEW our, NEW partner,
         Moved(our, ourState[n]), TakesOver(n, partner),
         ourState' = [ourState EXCEPT ![n] = our],
         partnerState' = [partnerState EXCEPT ![n] = partner],
         \/ sent' = sent
         \/ \E m \in RevealMessage : Send(n, m)
  PROVE  LedgerStep
<1> DEFINE p == Partner(n)
<1>1. p \in Node /\ p # n /\ Partner(p) = n /\ \A k \in Node : k # n => k = p
  BY Partners
<1>2. /\ ourState \in [Node -> EndStates] /\ partnerState \in [Node -> EndStates]
      /\ sent \in [Node -> Seq(Message)]
  BY DEF Ledger, LedgerTypes
<1>3. \A k \in Node : Range(sent[k]) \subseteq Message
  BY <1>2 DEF Range
<1>4. /\ our \in EndStates /\ Books(our) /\ SameDeposit(our, ourState[n])
      /\ our.balanceProof = ourState[n].balanceProof
      /\ PendingLocks(our) = PendingLocks(ourState[n])
  BY DEF Moved
<1>5. /\ partner \in EndStates /\ Books(partner)
      /\ SameDeposit(partner, partnerState[n])
  BY DEF TakesOver, Moved, Follows
<1>6. /\ ourState'[n] = our /\ ourState'[p] = ourState[p]
      /\ partnerState'[n] = partner /\ partnerState'[p] = partnerState[p]
  BY <1>1, <1>2
<1>7. /\ sent' \in [Node -> Seq(Message)]
      /\ \A k \in Node : Range(sent[k]) \subseteq Range(sent'[k])
      /\ \A k \in Node : \A m \in Range(sent'[k]) :
           m \in Range(sent[k]) \/ m.type = "RevealSecret"
      /\ SentGrows
  <2>1. CASE sent' = sent
    BY <1>2, <2>1 DEF SentGrows
  <2>2. ASSUME NEW m \in RevealMessage, Send(n, m)
        PROVE  <1>7!1 /\ <1>7!2 /\ <1>7!3 /\ <1>7!4
    <3>1. m \in Message /\ m.type = "RevealSecret" /\ sent[n] \in Seq(Message)
      BY <1>2 DEF RevealMessage, Message
    <3>2. /\ Append(sent[n], m) \in Seq(Message)
          /\ Range(Append(sent[n], m)) = Range(sent[n]) \cup {m}
      BY <3>1, RangeAppend
    <3>3. sent' = [sent EXCEPT ![n] = Append(sent[n], m)]
      BY <2>2 DEF Send
    <3>4. sent' \in [Node -> Seq(Message)]
      BY <1>2, <3>2, <3>3
    <3>5. sent'[n] = Append(sent[n], m) /\ sent'[p] = sent[p]
      BY <1>1, <1>2, <3>3
    <3>6. SentGrows
      <4>1. /\ Len(sent[n]) \in Nat /\ Len(sent'[n]) = Len(sent[n]) + 1
            /\ Len(sent[p]) \in Nat /\ Len(sent'[p]) = Len(sent[p])
        BY <1>1, <1>2, <3>1, <3>5, AppendGrows
      <4> QED BY <1>1, <4>1 DEF SentGrows
    <3> QED BY <1>1, <3>1, <3>2, <3>4, <3>5, <3>6
  <2> QED BY <2>1, <2>2
<1>8. /\ partner.balanceProof.transferredAmount
           >= partnerState[n].balanceProof.transferredAmount
      /\ partner.balanceProof.transferredAmount
           <= ourState[p].balanceProof.transferredAmount
      /\ Announced(p, partner)
  <2>1. /\ partnerState[n].balanceProof.transferredAmount \in Nat
        /\ partnerState[n].balanceProof.nonce \in Nat
    BY <1>2, EndStateTypes, AmountFacts
  <2>2. /\ partnerState[n].balanceProof.transferredAmount
             <= ourState[p].balanceProof.transferredAmount
        /\ \A m \in Range(sent[p]) : HasProof(m) =>
             m.bp.transferredAmount <= ourState[p].balanceProof.transferredAmount
        /\ Announced(p, partnerState[n])
    BY <1>1 DEF Ledger, RecordsBehind, LocksAnnounced
  <2>3. CASE Moved(partner, partnerState[n])
    BY <2>1, <2>2, <2>3 DEF Moved, Announced
  <2>4. ASSUME NEW m \in Range(sent[p]), HasProof(m),
               Follows(partner, partnerState[n], m.bp),
               PendingLocks(partner)
                 \subseteq PendingLocks(partnerState[n]) \cup LocksIn(m)
        PROVE  <1>8!1 /\ <1>8!2 /\ <1>8!3
    <3>1. /\ partner.balanceProof = m.bp
          /\ m.bp.nonce = partnerState[n].balanceProof.nonce + 1
          /\ m.bp.transferredAmount
               >= partnerState[n].balanceProof.transferredAmount
      BY <2>4 DEF Follows
    <3>2. m.bp.transferredAmount <= ourState[p].balanceProof.transferredAmount
      BY <2>2, <2>4
    <3>3. \A k \in Range(sent[p]) :
            k.type = "LockedTransfer" => k.bp.nonce \in Nat
      BY <1>1, <1>3, MessageFields DEF BalanceProof
    <3>4. ASSUME NEW l \in PendingLocks(partner)
          PROVE  \E k \in Range(sent[p]) :
                   /\ k.type = "LockedTransfer" /\ k.lock = l
                   /\ k.bp.nonce <= partner.balanceProof.nonce
      <4>1. CASE l \in PendingLocks(partnerState[n])
        <5>1. PICK k \in Range(sent[p]) :
                /\ k.type = "LockedTransfer" /\ k.lock = l
                /\ k.bp.nonce <= partnerState[n].balanceProof.nonce
          BY <2>2, <4>1 DEF Announced
        <5>2. k.bp.nonce <= partner.balanceProof.nonce
          BY <2>1, <3>1, <3>3, <5>1
        <5> QED BY <5>1, <5>2
      <4>2. CASE l \in LocksIn(m)
        <5>1. m.type = "LockedTransfer" /\ m.lock = l
              /\ m.bp.nonce <= partner.balanceProof.nonce
          BY <2>1, <3>1, <4>2 DEF LocksIn
        <5> QED BY <5>1
      <4> QED BY <2>4, <3>4, <4>1, <4>2
    <3> QED BY <3>1, <3>2, <3>4 DEF Announced
  <2> QED BY <2>3, <2>4 DEF TakesOver
<1>9. LedgerTypes'
  BY <1>2, <1>4, <1>5, <1>7 DEF LedgerTypes
<1>10. BooksAgree'
  BY <1>1, <1>4, <1>5, <1>6 DEF Ledger, BooksAgree
<1>11. DepositsKept'
  BY <1>1, <1>4, <1>5, <1>6 DEF Ledger, DepositsKept, SameDeposit
<1>12. \A k \in Node :
         /\ partnerState[k].balanceProof.transferredAmount
              <= partnerState'[k].balanceProof.transferredAmount
         /\ partnerState[k].balanceProof.transferredAmount \in Nat
         /\ partnerState'[k].balanceProof.transferredAmount \in Nat
         /\ ourState'[k].balanceProof = ourState[k].balanceProof
         /\ ourState[k].balanceProof.transferredAmount \in Nat
         /\ ourState[k].balanceProof.lockedAmount \in Nat
         /\ Deposit[k] \in Nat
  BY <1>1, <1>2, <1>4, <1>5, <1>6, <1>8, EndStateTypes, AmountFacts, Partners
<1>13. Funded'
  BY <1>12 DEF Ledger, Funded
<1>14. ProofsCovered'
  <2> SUFFICES ASSUME NEW k \in Node, NEW m \in Range(sent[k]), HasProof(m)
               PROVE  m.bp.transferredAmount + m.bp.lockedAmount
                        <= Deposit[k] + partnerState'[k].balanceProof.transferredAmount
    BY <1>7 DEF ProofsCovered, HasProof
  <2>1. m.bp.transferredAmount \in Nat /\ m.bp.lockedAmount \in Nat
    BY <1>3, MessageFields, AmountFacts DEF BalanceProof
  <2>2. m.bp.transferredAmount + m.bp.lockedAmount
          <= Deposit[k] + partnerState[k].balanceProof.transferredAmount
    BY DEF Ledger, ProofsCovered
  <2> QED BY <1>12, <2>1, <2>2
<1>15. RecordsBehind'
  <2>1. \A k \in Node : \A m \in Range(sent'[k]) :
          HasProof(m) => m.bp.transferredAmount
                           <= ourState'[k].balanceProof.transferredAmount
    BY <1>7, <1>12 DEF Ledger, RecordsBehind, HasProof
  <2>2. /\ partnerState'[p].balanceProof.transferredAmount
             <= ourState'[n].balanceProof.transferredAmount
        /\ partnerState'[n].balanceProof.transferredAmount
             <= ourState'[p].balanceProof.transferredAmount
    BY <1>1, <1>4, <1>6, <1>8 DEF Ledger, RecordsBehind
  <2> QED BY <1>1, <2>1, <2>2 DEF RecordsBehind
<1>16. LocksAnnounced'
  <2>1. /\ Announced(n, ourState[n]) /\ Announced(n, partnerState[p])
        /\ Announced(p, ourState[p])
    BY <1>1 DEF Ledger, LocksAnnounced
  <2>2. Announced(n, ourState[n])'
    <3>1. Announced(n, our)
      BY <1>4, <2>1, Zenon DEF Announced
    <3> QED BY <1>6, <1>7, <3>1 DEF Announced
  <2>3. Announced(n, partnerState[p])'
    BY <1>6, <1>7, <2>1 DEF Announced
  <2>4. Announced(p, ourState[p])' /\ Announced(p, partnerState[n])'
    BY <1>1, <1>6, <1>7, <1>8, <2>1, SMTT(30) DEF Announced
  <2> QED BY <1>1, <2>2, <2>3, <2>4 DEF LocksAnnounced
<1>17. OneTransferPerSecret'
  BY <1>7 DEF Ledger, OneTransferPerSecret
<1> QED BY <1>7, <1>9, <1>10, <1>11, <1>13, <1>14, <1>15, <1>16, <1>17
        DEF Ledger, LedgerStep

-----------------------------------------------------------------------------
(* The handlers.                                                           *)

\* What GetDistributable allows a node to spend is covered and overflows no
\* amount.
LEMMA Spendable ==
  ASSUME Ledger, NEW n \in Node
  PROVE  LET bp == ourState[n].balanceProof
             limit == GetDistributable(ourState[n], partnerState[n])
         IN /\ limit \in Nat
            /\ limit <= MaxUint64 - bp.transferredAmount - bp.lockedAmount
            /\ bp.transferredAmount + bp.lockedAmount + limit
                 <= Deposit[n] + partnerState[n].balanceProof.transferredAmount
<1> DEFINE p == Partner(n)
           T == ourState[n].balanceProof.transferredAmount
           L == ourState[n].balanceProof.lockedAmount
           R == partnerState[n].balanceProof.transferredAmount
           TT == ourState[p].balanceProof.transferredAmount
           LL == ourState[p].balanceProof.lockedAmount
           RR == partnerState[p].balanceProof.transferredAmount
           limit == GetDistributable(ourState[n], partnerState[n])
<1>1. p \in Node /\ p # n /\ Partner(p) = n
  BY Partners
<1>2. /\ ourState[n] \in EndStates /\ ourState[p] \in EndStates
      /\ partnerState[n] \in EndStates /\ partnerState[p] \in EndStates
  BY <1>1 DEF Ledger, LedgerTypes
<1>3. Books(ourState[n]) /\ ourState[n].totalWithdraw = 0
      /\ ourState[n].contractBalance = Deposit[n]
  BY DEF Ledger, BooksAgree, DepositsKept
<1>4. /\ T \in Nat /\ L \in Nat /\ R \in Nat
      /\ TT \in Nat /\ LL \in Nat /\ RR \in Nat
      /\ Deposit[n] \in Nat /\ Deposit[p] \in Nat /\ MaxUint64 \in Nat
  BY <1>1, <1>2, EndStateTypes, AmountFacts, Partners
<1>5. /\ T + L <= Deposit[n] + R /\ TT + LL <= Deposit[p] + RR
      /\ R <= TT /\ RR <= T
  BY <1>1 DEF Ledger, Funded, RecordsBehind
<1>6. Deposit[n] + Deposit[p] < MaxUint64
  BY <1>4, TransfersAssumption DEF Node, Partner
<1>7. limit \in Nat /\ limit <= MaxUint64 - T - L
  BY <1>2, <1>3, DistributableLimit
<1>8. Deposit[n] + R - T <= MaxUint64
  <2> HIDE DEF T, L, R, TT, LL, RR, limit, p
  <2> QED BY <1>4, <1>5, <1>6
<1>9. limit <= Deposit[n] + R - T - L
  BY <1>2, <1>3, <1>5, <1>8, DistributableFunded
<1>10. T + L + limit <= Deposit[n] + R
  <2> HIDE DEF T, L, R, limit
  <2> QED BY <1>4, <1>7, <1>9
<1> QED BY <1>7, <1>10

\* handleSendDirectTransfer.
LEMMA DirectStep ==
  ASSUME Ledger, NEW n \in Node, NEW amount \in Amounts,
         handleSendDirectTransfer(n, amount)
  PROVE  LedgerStep
<1> DEFINE our == ourState[n]
           bp == createSendDirectTransfer(our, amount)
           new == WithTransfer(our, bp)
           m == [type |-> "DirectTransfer", bp |-> bp]
           T == our.balanceProof.transferredAmount
           L == our.balanceProof.lockedAmount
           limit == GetDistributable(our, partnerState[n])
<1>1. our \in EndStates /\ Books(our) /\ amount \in Amount
  BY TransfersAssumption DEF Ledger, LedgerTypes, BooksAgree
<1>2. /\ T \in Nat /\ L \in Nat /\ amount \in Nat /\ limit \in Nat
      /\ amount <= limit /\ MaxUint64 \in Nat
      /\ Deposit[n] \in Nat
      /\ partnerState[n].balanceProof.transferredAmount \in Nat
      /\ partnerState[n] \in EndStates
  BY <1>1, EndStateTypes, AmountFacts, Spendable, Partners
     DEF handleSendDirectTransfer, Ledger, LedgerTypes
<1>3. /\ limit <= MaxUint64 - T - L
      /\ T + L + limit <= Deposit[n]
           + partnerState[n].balanceProof.transferredAmount
  BY Spendable
<1>4. amount <= MaxUint64 - T - L
  <2> HIDE DEF T, L, limit
  <2> QED BY <1>2, <1>3
<1>5. /\ bp \in BalanceProof /\ bp.nonce = our.balanceProof.nonce + 1
      /\ bp.locksRoot = our.balanceProof.locksRoot
      /\ bp.lockedAmount = L /\ bp.transferredAmount = T + amount
  BY <1>1, <1>4, DirectProof
<1>6. our.balanceProof.nonce \in Nat
  BY <1>1, EndStateTypes
<1> HIDE DEF bp, our
<1>7. /\ bp.nonce # 0 /\ bp.transferredAmount >= T
      /\ bp.transferredAmount + bp.lockedAmount <= MaxUint64
      /\ bp.transferredAmount + bp.lockedAmount
           <= Deposit[n] + partnerState[n].balanceProof.transferredAmount
  <2> HIDE DEF T, L, limit
  <2> QED BY <1>2, <1>3, <1>4, <1>5, <1>6
<1>8. /\ new \in EndStates /\ Books(new) /\ new.balanceProof = bp
      /\ PendingLocks(new) = PendingLocks(our)
  BY <1>1, <1>5, <1>7, TransferBooks
<1>9. Follows(new, our, bp)
  BY <1>1, <1>5, <1>7, <1>8, DepositKept DEF Follows
<1>10. m \in ProofMessage /\ m.bp = bp /\ m.type = "DirectTransfer"
  BY <1>5 DEF ProofMessage
<1>11. /\ ourState' = [ourState EXCEPT ![n] = new] /\ partnerState' = partnerState
       /\ Send(n, m)
  BY DEF handleSendDirectTransfer, our, bp
<1> HIDE DEF m, new
<1>12. Issues(n, new, m)
  BY <1>7, <1>8, <1>9, <1>10, <1>11 DEF Issues, our, LocksIn
<1> QED BY <1>12, IssueStep

\* InitTryNewRoute.
LEMMA LockStep ==
  ASSUME Ledger, NEW n \in Node, NEW h \in SecretHash, NEW amount \in Amounts,
         block[n] \in Nat, InitTryNewRoute(n, h, amount),
         ~UNCHANGED <<ourState, task, sent>>
  PROVE  LedgerStep
<1> DEFINE our == ourState[n]
           lock == [secretHash |-> h, amount |-> amount,
                    expiration |-> InitGetInitialLockExpiration(n)]
           bp == createSendLockedTransfer(our, lock)
           new == WithLock(our, bp, lock)
           m == [type |-> "LockedTransfer", bp |-> bp, lock |-> lock]
           T == our.balanceProof.transferredAmount
           L == our.balanceProof.lockedAmount
           limit == GetDistributable(our, partnerState[n])
<1>1. our \in EndStates /\ Books(our) /\ amount \in Amount
  BY TransfersAssumption DEF Ledger, LedgerTypes, BooksAgree
<1>2. /\ T \in Nat /\ L \in Nat /\ amount \in Nat /\ limit \in Nat
      /\ amount <= limit /\ MaxUint64 \in Nat
      /\ Deposit[n] \in Nat
      /\ partnerState[n].balanceProof.transferredAmount \in Nat
      /\ partnerState[n] \in EndStates
  BY <1>1, EndStateTypes, AmountFacts, Spendable, Partners
     DEF InitTryNewRoute, Ledger, LedgerTypes
<1>3. /\ limit <= MaxUint64 - T - L
      /\ T + L + limit <= Deposit[n]
           + partnerState[n].balanceProof.transferredAmount
  BY Spendable
<1>4. InitGetInitialLockExpiration(n) \in Nat
  BY TransfersAssumption DEF InitGetInitialLockExpiration
<1>5. lock \in Lock /\ lock.amount = amount /\ lock.secretHash = h
  BY <1>1, <1>4 DEF Lock
<1>6. amount <= MaxUint64 - T - L
  <2> HIDE DEF T, L, limit
  <2> QED BY <1>2, <1>3
<1>7. /\ ourState' = [ourState EXCEPT ![n] = new] /\ partnerState' = partnerState
      /\ Send(n, m) /\ Fresh(h)
  BY DEF InitTryNewRoute
<1> HIDE DEF lock
<1>8. /\ bp \in BalanceProof /\ bp.nonce = our.balanceProof.nonce + 1
      /\ bp.locksRoot = our.merkleTree \cup {lock}
      /\ bp.lockedAmount = L + amount /\ bp.transferredAmount = T
  BY <1>1, <1>5, <1>6, LockedProof
<1>9. our.balanceProof.nonce \in Nat
  BY <1>1, EndStateTypes
<1>10. ~IsLockPending(our, h)
  <2>1. Announced(n, our)
    BY DEF Ledger, LocksAnnounced
  <2> QED BY <1>7, <2>1 DEF Announced, Fresh, IsLockPending, LocksOf
<1> HIDE DEF bp, our
<1>11. /\ bp.nonce # 0 /\ bp.transferredAmount >= T
       /\ bp.transferredAmount + bp.lockedAmount <= MaxUint64
       /\ bp.transferredAmount + bp.lockedAmount
            <= Deposit[n] + partnerState[n].balanceProof.transferredAmount
  <2> HIDE DEF T, L, limit
  <2> QED BY <1>2, <1>3, <1>6, <1>8, <1>9
<1>12. /\ new \in EndStates /\ Books(new) /\ new.balanceProof = bp
       /\ PendingLocks(new) = PendingLocks(our) \cup {lock}
  BY <1>1, <1>5, <1>8, <1>10, <1>11, LockBooks
<1>13. Follows(new, our, bp)
  BY <1>1, <1>8, <1>11, <1>12, DepositKept DEF Follows
<1>14. m \in ProofMessage /\ m.bp = bp /\ m.type = "LockedTransfer" /\ m.lock = lock
  BY <1>5, <1>8 DEF ProofMessage
<1> HIDE DEF m, new
<1>15. Issues(n, new, m)
  BY <1>5, <1>7, <1>11, <1>12, <1>13, <1>14 DEF Issues, our, LocksIn
<1> QED BY <1>15, IssueStep

\* InitEventsForUnlockLock: what the unlock adds to the transferred amount it
\* takes from the locked one.
LEMMA UnlockStep ==
  ASSUME Ledger, NEW n \in Node, NEW h \in SecretHash,
         InitEventsForUnlockLock(n, h), partnerState' = partnerState
  PROVE  LedgerStep
<1> DEFINE our == ourState[n]
           lock == GetLock(our, h)
           bp == CreateUnlock(our, lock)
           new == WithUnlock(our, bp, lock)
           m == [type |-> "Unlock", bp |-> bp, secretHash |-> h]
           T == our.balanceProof.transferredAmount
           L == our.balanceProof.lockedAmount
<1>1. CASE ~IsLockPending(our, h)
  BY <1>1, LedgerStutter DEF InitEventsForUnlockLock, ledgerVars
<1>2. CASE IsLockPending(our, h)
  <2>1. our \in EndStates /\ Books(our)
    BY DEF Ledger, LedgerTypes, BooksAgree
  <2>2. lock \in PendingLocks(our)
    BY <1>2, <2>1, TheLock
  <2>3. /\ T \in Nat /\ L \in Nat /\ MaxUint64 \in Nat
        /\ our.balanceProof.nonce \in Nat /\ T + L <= MaxUint64
        /\ lock.amount \in Nat /\ lock.amount <= L
        /\ T + L <= Deposit[n] + partnerState[n].balanceProof.transferredAmount
    BY <2>1, <2>2, EndStateTypes, AmountFacts, LockAmount DEF Books, Ledger, Funded
  <2>4. /\ bp \in BalanceProof /\ bp.nonce = our.balanceProof.nonce + 1
        /\ bp.locksRoot = our.merkleTree \ {lock}
        /\ bp.lockedAmount = L - lock.amount
        /\ bp.transferredAmount = T + lock.amount
    BY <2>1, <2>2, UnlockProof
  <2>5. /\ ourState' = [ourState EXCEPT ![n] = new] /\ Send(n, m)
    BY <1>2 DEF InitEventsForUnlockLock
  <2> HIDE DEF bp
  <2>6. /\ bp.nonce # 0 /\ bp.transferredAmount >= T
        /\ bp.transferredAmount + bp.lockedAmount = T + L
    <3> HIDE DEF T, L, lock, our
    <3> QED BY <2>3, <2>4
  <2>7. /\ new \in EndStates /\ Books(new) /\ new.balanceProof = bp
        /\ PendingLocks(new) = PendingLocks(our) \ {lock}
    BY <1>2, <2>1, <2>3, <2>4, <2>6, UnlockBooks
  <2> HIDE DEF lock, our
  <2>8. Follows(new, our, bp)
    BY <2>1, <2>4, <2>6, <2>7, DepositKept DEF Follows
  <2>9. m \in ProofMessage /\ m.bp = bp /\ m.type = "Unlock"
    BY <2>4 DEF ProofMessage
  <2> HIDE DEF m, new
  <2>10. Issues(n, new, m)
    BY <2>3, <2>5, <2>6, <2>7, <2>8, <2>9 DEF Issues, our
  <2> QED BY <2>10, IssueStep
<1> QED BY <1>1, <1>2

\* InitHandleBlock: an expired lock is taken out of the locked amount.
LEMMA ExpireStep ==
  ASSUME Ledger, NEW n \in Node, NEW h \in SecretHash, InitHandleBlock(n, h)
  PROVE  LedgerStep
<1> DEFINE our == ourState[n]
           lock == CHOOSE l \in our.lockedLocks : l.secretHash = h
           bp == createSendExpiredLock(our, lock)
           new == WithoutExpired(our, bp, lock)
           m == [type |-> "LockExpired", bp |-> bp, secretHash |-> h]
           T == our.balanceProof.transferredAmount
           L == our.balanceProof.lockedAmount
<1>1. CASE UNCHANGED <<ourState, notices, sent>>
  BY <1>1, LedgerStutter DEF InitHandleBlock, ledgerVars
<1>2. ASSUME IsLockLocked(our, h), ourState' = [ourState EXCEPT ![n] = new],
             Send(n, m)
      PROVE  LedgerStep
  <2>1. our \in EndStates /\ Books(our)
    BY DEF Ledger, LedgerTypes, BooksAgree
  <2>2. \E l \in our.lockedLocks : l.secretHash = h
    BY <1>2 DEF IsLockLocked, LocksOf
  <2>3. lock \in our.lockedLocks /\ lock.secretHash = h
    BY <2>2
  <2>4. /\ lock \in PendingLocks(our) /\ IsLockPending(our, h)
        /\ ~IsSecretKnownOnChain(our, h)
    BY <2>1, <2>3 DEF PendingLocks, IsLockPending, LocksOf, Books,
       IsSecretKnownOnChain
  <2>5. lock = GetLock(our, h)
    BY <2>1, <2>3, <2>4, TheLock DEF Books
  <2>6. /\ T \in Nat /\ L \in Nat /\ MaxUint64 \in Nat
        /\ our.balanceProof.nonce \in Nat /\ T + L <= MaxUint64
        /\ lock.amount \in Nat /\ lock.amount <= L
        /\ Deposit[n] \in Nat
        /\ partnerState[n].balanceProof.transferredAmount \in Nat
        /\ T + L <= Deposit[n] + partnerState[n].balanceProof.transferredAmount
    BY <2>1, <2>4, EndStateTypes, AmountFacts, LockAmount, Partners
       DEF Books, Ledger, LedgerTypes, Funded
  <2>7. /\ bp \in BalanceProof /\ bp.nonce = our.balanceProof.nonce + 1
        /\ bp.locksRoot = our.merkleTree \ {lock}
        /\ bp.lockedAmount = L - lock.amount
        /\ bp.transferredAmount = T
    BY <2>1, <2>4, ExpiredProof
  <2> HIDE DEF bp, lock
  <2>8. /\ bp.nonce # 0 /\ bp.transferredAmount >= T
        /\ bp.transferredAmount + bp.lockedAmount <= MaxUint64
        /\ bp.transferredAmount + bp.lockedAmount
             <= Deposit[n] + partnerState[n].balanceProof.transferredAmount
    <3> HIDE DEF T, L, our
    <3> QED BY <2>6, <2>7
  <2>9. /\ new \in EndStates /\ Books(new) /\ new.balanceProof = bp
        /\ PendingLocks(new) = PendingLocks(our) \ {lock}
    BY <2>1, <2>4, <2>5, <2>7, <2>8, ExpiredBooks
  <2> HIDE DEF our
  <2>10. Follows(new, our, bp)
    BY <2>1, <2>7, <2>8, <2>9, DepositKept DEF Follows
  <2>11. m \in ProofMessage /\ m.bp = bp /\ m.type = "LockExpired"
    BY <2>7 DEF ProofMessage
  <2>12. partnerState' = partnerState
    BY DEF InitHandleBlock
  <2>13. ourState' = [ourState EXCEPT ![n] = new] /\ Send(n, m)
    BY <1>2
  <2> HIDE DEF m, new
  <2>14. Issues(n, new, m)
    BY <2>8, <2>9, <2>10, <2>11, <2>12, <2>13 DEF Issues, our
  <2> QED BY <2>14, IssueStep
<1> QED BY <1>1, <1>2 DEF InitHandleBlock

\* Learning the secret of a lock only moves it, on a message or on the chain.
LEMMA RegisterMoves ==
  ASSUME NEW end \in EndStates, Books(end), NEW h, NEW b \in Nat
  PROVE  /\ Moved(end, end)
         /\ Moved(RegisterSecretEndState(end, h), end)
         /\ Moved(RegisterOnChainSecretEndState(end, h, b), end)
<1>1. Moved(end, end)
  BY DEF Moved, SameDeposit
<1>2. Moved(RegisterSecretEndState(end, h), end)
  BY RegisterBooks, DepositKept DEF Moved
<1>3. Moved(RegisterOnChainSecretEndState(end, h, b), end)
  BY RegisterOnChainBooks, DepositKept DEF Moved
<1> QED BY <1>1, <1>2, <1>3

\* A lock that passes ValidLockedTransferCheck is not in the books yet: the
\* only transfer with its secret hash is the one that brings it.
LEMMA LockIsNew ==
  ASSUME Ledger, NEW n \in Node, NEW m \in Range(sent[Partner(n)]),
         m.type = "LockedTransfer",
         m.bp.nonce = getNextNonce(partnerState[n])
  PROVE  ~IsLockPending(partnerState[n], m.lock.secretHash)
<1> SUFFICES ASSUME NEW l \in PendingLocks(partnerState[n]),
                    l.secretHash = m.lock.secretHash
             PROVE  FALSE
  BY DEF IsLockPending, LocksOf
<1>1. Partner(n) \in Node /\ Partner(Partner(n)) = n
  BY Partners
<1>2. PICK k \in Range(sent[Partner(n)]) :
        /\ k.type = "LockedTransfer" /\ k.lock = l
        /\ k.bp.nonce <= partnerState[n].balanceProof.nonce
  BY <1>1 DEF Ledger, LocksAnnounced, Announced
<1>3. k = m
  BY <1>1, <1>2 DEF Ledger, OneTransferPerSecret
<1>4. partnerState[n].balanceProof.nonce \in Nat
  BY EndStateTypes DEF Ledger, LedgerTypes
<1> QED BY <1>2, <1>3, <1>4 DEF getNextNonce

\* Handle: whatever message of the partner arrives, for the first time or
\* again.
LEMMA HandleStep ==
  ASSUME Ledger, NEW n \in Node, NEW m \in Range(sent[Partner(n)]), Handle(n, m)
  PROVE  LedgerStep
<1> DEFINE our == ourState[n]
           partner == partnerState[n]
           p == Partner(n)
<1>1. p \in Node
  BY Partners
<1>2. /\ our \in EndStates /\ Books(our) /\ partner \in EndStates /\ Books(partner)
      /\ ourState \in [Node -> EndStates] /\ partnerState \in [Node -> EndStates]
  BY DEF Ledger, LedgerTypes, BooksAgree
<1>3. m \in Message
  BY <1>1 DEF Ledger, LedgerTypes, Range
<1>4. 0 \in Nat /\ Moved(our, our) /\ Moved(partner, partner)
  BY <1>2, RegisterMoves
<1>5. /\ ourState = [ourState EXCEPT ![n] = our]
      /\ partnerState = [partnerState EXCEPT ![n] = partner]
  BY <1>2
<1>6. ASSUME UNCHANGED <<nodeVars, sent>>
      PROVE  LedgerStep
  BY <1>6, LedgerStutter DEF ledgerVars, nodeVars
<1>7. ASSUME NEW new, TakesOver(n, new), UNCHANGED <<ourState, sent>>,
             partnerState' = [partnerState EXCEPT ![n] = new]
      PROVE  LedgerStep
  <2>1. ourState' = [ourState EXCEPT ![n] = our] /\ sent' = sent
    BY <1>5, <1>7
  <2> HIDE DEF our
  <2> QED BY <1>4, <1>7, <2>1, TakeOverStep DEF our
<1>8. CASE handleReceiveDirectTransfer(n, m)
  <2>1. HasProof(m) /\ m.bp \in BalanceProof
    BY <1>3, <1>8, MessageFields DEF handleReceiveDirectTransfer
  <2>2. CASE IsValidDirectTransfer(m.bp, partner, our, TRUE)
    <3> DEFINE new == WithTransfer(partner, m.bp)
    <3>1. Follows(new, partner, m.bp) /\ PendingLocks(new) = PendingLocks(partner)
      BY <1>2, <2>1, <2>2, AcceptDirect
    <3>2. TakesOver(n, new)
      BY <2>1, <3>1 DEF TakesOver
    <3>3. partnerState' = [partnerState EXCEPT ![n] = new]
      BY <1>8, <2>2 DEF handleReceiveDirectTransfer
    <3>4. UNCHANGED <<ourState, sent>>
      BY <1>8 DEF handleReceiveDirectTransfer
    <3> HIDE DEF new
    <3> QED BY <1>7, <3>2, <3>3, <3>4
  <2>3. CASE ~IsValidDirectTransfer(m.bp, partner, our, TRUE)
    BY <1>6, <1>8, <2>3 DEF handleReceiveDirectTransfer, nodeVars
  <2> QED BY <2>2, <2>3
<1>9. CASE HandleInitTarget(n, m)
  <2> DEFINE h == m.lock.secretHash
             accepted == WithLock(partner, m.bp, m.lock)
             valid == ValidLockedTransferCheck(m.bp, m.lock, partner, our, TRUE)
  <2>1. m.type = "LockedTransfer" /\ HasProof(m) /\ m.bp \in BalanceProof
        /\ m.lock \in Lock /\ h \in SecretHash
    BY <1>3, <1>9, MessageFields DEF HandleInitTarget, Lock
  <2>2. ASSUME valid
        PROVE  /\ Follows(accepted, partner, m.bp)
               /\ PendingLocks(accepted) = PendingLocks(partner) \cup {m.lock}
    <3>1. m.bp.nonce = getNextNonce(partner)
      BY <2>2 DEF ValidLockedTransferCheck, IsBalanceProofUsableOnChain
    <3>2. ~IsLockPending(partner, h)
      BY <2>1, <3>1, LockIsNew
    <3>3. /\ m.bp \in BalanceProof /\ m.lock \in Lock
          /\ ~IsLockPending(partner, m.lock.secretHash)
          /\ ValidLockedTransferCheck(m.bp, m.lock, partner, our, TRUE)
      BY <2>1, <2>2, <3>2
    <3> HIDE DEF our, partner
    <3>4. /\ Follows(accepted, partner, m.bp)
          /\ PendingLocks(accepted) =
               computeMerkleTreeWith(PendingLocks(partner), m.lock)
      BY <1>2, <3>3, AcceptLocked
    <3> QED BY <3>4 DEF computeMerkleTreeWith
  <2> DEFINE learnt == RegisterSecretEndState(accepted, h)
             ours == RegisterSecretEndState(our, h)
  <2>3. CASE /\ valid
             /\ partnerState' = [partnerState EXCEPT ![n] = learnt]
             /\ ourState' = [ourState EXCEPT ![n] = ours]
             /\ Send(n, [type |-> "RevealSecret", secretHash |-> h])
    <3>1. accepted \in EndStates /\ Books(accepted)
      BY <2>2, <2>3 DEF Follows
    <3>2. Moved(learnt, accepted)
      <4> HIDE DEF accepted
      <4> QED BY <1>4, <3>1, RegisterMoves
    <3>3. Moved(ours, our)
      BY <1>2, <1>4, RegisterMoves
    <3>4. Follows(learnt, partner, m.bp)
          /\ PendingLocks(learnt) = PendingLocks(partner) \cup {m.lock}
      <4>1. Follows(accepted, partner, m.bp)
            /\ PendingLocks(accepted) = PendingLocks(partner) \cup {m.lock}
        BY <2>2, <2>3
      <4> HIDE DEF accepted, learnt
      <4> QED BY <3>2, <4>1 DEF Moved, Follows, SameDeposit
    <3>5. TakesOver(n, learnt)
      BY <2>1, <3>4 DEF TakesOver, LocksIn
    <3>6. [type |-> "RevealSecret", secretHash |-> h] \in RevealMessage
      BY <2>1 DEF RevealMessage
    <3>7. \E k \in RevealMessage : Send(n, k)
      BY <2>3, <3>6
    <3> HIDE DEF learnt, ours
    <3> QED BY <2>3, <3>3, <3>5, <3>7, TakeOverStep
  <2>4. CASE /\ valid
             /\ partnerState' = [partnerState EXCEPT ![n] = accepted]
             /\ UNCHANGED <<ourState, sent>>
    <3>1. TakesOver(n, accepted)
      BY <2>1, <2>2, <2>4 DEF TakesOver, LocksIn
    <3> HIDE DEF accepted
    <3> QED BY <1>7, <2>4, <3>1
  <2>5. CASE UNCHANGED <<ourState, partnerState, sent>>
    BY <2>5, LedgerStutter DEF ledgerVars
  <2> QED BY <1>9, <2>3, <2>4, <2>5 DEF HandleInitTarget, nodeVars
<1>10. CASE InitHandleOffChainSecretReveal(n, m)
  <2>1. m.secretHash \in SecretHash
    BY <1>3, <1>10, MessageFields DEF InitHandleOffChainSecretReveal
  <2>2. CASE task[n][m.secretHash] = "initiator"
    BY <1>10, <2>1, <2>2, UnlockStep DEF InitHandleOffChainSecretReveal
  <2>3. CASE task[n][m.secretHash] # "initiator"
    BY <1>6, <1>10, <2>3 DEF InitHandleOffChainSecretReveal
  <2> QED BY <2>2, <2>3
<1>11. CASE TgHandleUnlock(n, m)
  <2> DEFINE h == m.secretHash
             new == WithUnlock(partner, m.bp, GetLock(partner, h))
             applied == task[n][h] \in TargetState
                        /\ IsValidUnlock(m.bp, h, partner, TRUE)
  <2>1. HasProof(m) /\ m.bp \in BalanceProof
    BY <1>3, <1>11, MessageFields DEF TgHandleUnlock
  <2>2. CASE applied
    <3>1. Follows(new, partner, m.bp) /\ PendingLocks(new) \subseteq PendingLocks(partner)
      BY <1>2, <2>1, <2>2, AcceptUnlock
    <3>2. TakesOver(n, new)
      BY <2>1, <3>1 DEF TakesOver
    <3>3. /\ partnerState' = [partnerState EXCEPT ![n] = new]
          /\ UNCHANGED <<ourState, sent>>
      BY <1>11, <2>2 DEF TgHandleUnlock
    <3> HIDE DEF new
    <3> QED BY <1>7, <3>2, <3>3
  <2>3. CASE ~applied
    BY <1>6, <1>11, <2>3 DEF TgHandleUnlock
  <2> QED BY <2>2, <2>3
<1>12. CASE TgHandleLockExpired(n, m)
  <2> DEFINE h == m.secretHash
             new == WithoutExpired(partner, m.bp, GetLock(partner, h))
             valid == IsValidLockExpired(m.bp, h, partner, our, block[n], TRUE)
             result == IF valid THEN new ELSE partner
  <2>1. HasProof(m) /\ m.bp \in BalanceProof
    BY <1>3, <1>12, MessageFields DEF TgHandleLockExpired
  <2>2. TakesOver(n, result)
    <3>1. CASE valid
      <4>1. Follows(new, partner, m.bp)
            /\ PendingLocks(new) \subseteq PendingLocks(partner)
        BY <1>2, <2>1, <3>1, AcceptExpired
      <4> QED BY <2>1, <3>1, <4>1 DEF TakesOver
    <3>2. CASE ~valid
      BY <1>4, <3>2 DEF TakesOver
    <3> QED BY <3>1, <3>2
  <2>3. UNCHANGED <<ourState, sent>>
    BY <1>12 DEF TgHandleLockExpired
  <2>4. CASE task[n][h] \in TargetState
    <3>1. partnerState' = [partnerState EXCEPT ![n] = result]
      BY <1>12, <2>4 DEF TgHandleLockExpired
    <3> HIDE DEF result
    <3> QED BY <1>7, <2>2, <2>3, <3>1
  <2>5. CASE task[n][h] \notin TargetState
    BY <1>12, <2>3, <2>5, LedgerStutter DEF TgHandleLockExpired, ledgerVars
  <2> QED BY <2>4, <2>5
<1> QED BY <1>8, <1>9, <1>10, <1>11, <1>12 DEF Handle

\* HandleSecretRevealed: a secret seen on the chain.
LEMMA RevealedStep ==
  ASSUME Ledger, NEW n \in Node, NEW h \in SecretHash, mined[h] \in Nat,
         HandleSecretRevealed(n, h)
  PROVE  LedgerStep
<1> DEFINE our == RegisterOnChainSecretEndState(ourState[n], h, mined[h])
           partner == RegisterOnChainSecretEndState(partnerState[n], h, mined[h])
<1>1. CASE UNCHANGED <<ourState, partnerState, sent>>
  BY <1>1, LedgerStutter DEF ledgerVars
<1>2. CASE InitEventsForUnlockLock(n, h) /\ UNCHANGED partnerState
  BY <1>2, UnlockStep
<1>3. CASE /\ ourState' = [ourState EXCEPT ![n] = our]
           /\ partnerState' = [partnerState EXCEPT ![n] = partner]
           /\ sent' = sent
  <2>1. /\ ourState[n] \in EndStates /\ Books(ourState[n])
        /\ partnerState[n] \in EndStates /\ Books(partnerState[n])
    BY DEF Ledger, LedgerTypes, BooksAgree
  <2>2. Moved(our, ourState[n]) /\ Moved(partner, partnerState[n])
    BY <2>1, RegisterMoves
  <2>3. TakesOver(n, partner)
    BY <2>2 DEF TakesOver
  <2> HIDE DEF our, partner
  <2> QED BY <1>3, <2>2, <2>3, TakeOverStep
<1> QED BY <1>1, <1>2, <1>3 DEF HandleSecretRevealed, nodeVars

-----------------------------------------------------------------------------
(* The other variables.                                                    *)

\* SetTask and Tell keep the types of the tasks and of the notices.
LEMMA TaskUpdates ==
  ASSUME TaskTypes, NEW n \in Node, NEW h \in SecretHash
  PROVE  /\ \A state \in TaskState :
              SetTask(n, h, state) => task' \in [Node -> [SecretHash -> TaskState]]
         /\ \A what \in Notice :
              Tell(n, h, what) =>
                notices' \in [Node -> [SecretHash -> SUBSET Notice]]
<1>1. ASSUME NEW state \in TaskState, SetTask(n, h, state)
      PROVE  task' \in [Node -> [SecretHash -> TaskState]]
  BY <1>1 DEF TaskTypes, SetTask
<1>2. ASSUME NEW what \in Notice, Tell(n, h, what)
      PROVE  notices' \in [Node -> [SecretHash -> SUBSET Notice]]
  BY <1>2 DEF TaskTypes, Tell
<1> QED BY <1>1, <1>2

\* Unlocking, for an initiator.
LEMMA UnlockTasks ==
  ASSUME TaskTypes, NEW n \in Node, NEW h \in SecretHash,
         InitEventsForUnlockLock(n, h)
  PROVE  TaskTypes'
<1>1. "none" \in TaskState /\ "PaymentSentSuccess" \in Notice
  BY DEF TaskState, Notice
<1> QED BY <1>1, TaskUpdates DEF InitEventsForUnlockLock, TaskTypes

\* Handling a message.
LEMMA HandleTasks ==
  ASSUME TaskTypes, NEW n \in Node, NEW m \in Message, Handle(n, m)
  PROVE  TaskTypes'
<1>1. /\ {"none", "initiator", "reveal_secret"} \subseteq TaskState
      /\ {"UnlockClaimFailed", "PaymentReceivedSuccess"} \subseteq Notice
  BY DEF TaskState, Notice
<1>2. ASSUME UNCHANGED <<task, notices>>
      PROVE  TaskTypes'
  BY <1>2 DEF TaskTypes
<1>3. CASE handleReceiveDirectTransfer(n, m)
  BY <1>2, <1>3 DEF handleReceiveDirectTransfer
<1>4. CASE HandleInitTarget(n, m)
  <2>1. m.lock.secretHash \in SecretHash
    BY <1>4, MessageFields DEF HandleInitTarget, Lock
  <2> QED BY <1>1, <1>2, <1>4, <2>1, TaskUpdates
          DEF HandleInitTarget, TaskTypes, nodeVars
<1>5. CASE InitHandleOffChainSecretReveal(n, m)
  <2>1. m.secretHash \in SecretHash
    BY <1>5, MessageFields DEF InitHandleOffChainSecretReveal
  <2> QED BY <1>2, <1>5, <2>1, UnlockTasks
          DEF InitHandleOffChainSecretReveal, nodeVars
<1>6. CASE TgHandleUnlock(n, m)
  <2>1. m.secretHash \in SecretHash
    BY <1>6, MessageFields DEF TgHandleUnlock
  <2> QED BY <1>1, <1>2, <1>6, <2>1, TaskUpdates
          DEF TgHandleUnlock, TaskTypes, nodeVars
<1>7. CASE TgHandleLockExpired(n, m)
  <2>1. m.secretHash \in SecretHash
    BY <1>7, MessageFields DEF TgHandleLockExpired
  <2> QED BY <1>1, <1>2, <1>7, <2>1, TaskUpdates
          DEF TgHandleLockExpired, TaskTypes
<1> QED BY <1>3, <1>4, <1>5, <1>6, <1>7 DEF Handle

\* Visiting the tasks of a block.
LEMMA BlockTasks ==
  ASSUME TaskTypes, ClockTypes, NEW n \in Node, NEW h \in SecretHash,
         InitHandleBlock(n, h) \/ TgHandleBlock(n, h)
  PROVE  TaskTypes' /\ mineBy' \in [SecretHash -> Nat]
<1>1. /\ {"none", "initiator", "expired", "onchain_secret_reveal"} \subseteq TaskState
      /\ {"UnlockClaimFailed", "PaymentSentFailed"} \subseteq Notice
  BY DEF TaskState, Notice
<1>2. CASE InitHandleBlock(n, h)
  <2>1. \E state \in TaskState : SetTask(n, h, state)
    BY <1>1, <1>2 DEF InitHandleBlock
  <2>2. UNCHANGED notices \/ Tell(n, h, "PaymentSentFailed")
    BY <1>2 DEF InitHandleBlock
  <2>3. mineBy' = mineBy
    BY <1>2 DEF InitHandleBlock
  <2> QED BY <1>1, <2>1, <2>2, <2>3, TaskUpdates DEF TaskTypes, ClockTypes
<1>3. CASE TgHandleBlock(n, h)
  <2>1. UNCHANGED task \/ \E state \in TaskState : SetTask(n, h, state)
    BY <1>1, <1>3 DEF TgHandleBlock
  <2>2. UNCHANGED notices \/ Tell(n, h, "UnlockClaimFailed")
    BY <1>3 DEF TgHandleBlock
  <2>3. UNCHANGED mineBy \/ RegisterSecret(h)
    BY <1>3 DEF TgHandleBlock
  <2>4. mineBy' \in [SecretHash -> Nat]
    BY <2>3, TransfersAssumption DEF RegisterSecret, ClockTypes
  <2> QED BY <1>1, <2>1, <2>2, <2>4, TaskUpdates DEF TaskTypes
<1> QED BY <1>2, <1>3

-----------------------------------------------------------------------------
(* The invariant is inductive.                                             *)

\* A channel that was just opened satisfies the invariant.
LEMMA LedgerInit == Init => LedgerInv
<1> SUFFICES ASSUME Init PROVE LedgerInv
  OBVIOUS
<1>1. \A n \in Node :
        /\ ourState[n] = NewNettingChannelEndState(Deposit[n])
        /\ partnerState[n] = NewNettingChannelEndState(Deposit[Partner(n)])
        /\ sent[n] = <<>>
  BY DEF Init
<1>2. \A n \in Node :
        /\ ourState[n] \in EndStates /\ Books(ourState[n])
        /\ partnerState[n] \in EndStates /\ Books(partnerState[n])
  <2>1. \A d \in Amount : /\ NewNettingChannelEndState(d) \in EndStates
                          /\ Books(NewNettingChannelEndState(d))
    BY NewBooks
  <2> QED BY <1>1, <2>1, Partners
<1>3. \A n \in Node :
        /\ ourState[n].contractBalance = Deposit[n]
        /\ ourState[n].totalWithdraw = 0
        /\ ourState[n].balanceProof = NoBalanceProof
        /\ partnerState[n].contractBalance = Deposit[Partner(n)]
        /\ partnerState[n].totalWithdraw = 0
        /\ partnerState[n].balanceProof = NoBalanceProof
        /\ PendingLocks(ourState[n]) = {} /\ PendingLocks(partnerState[n]) = {}
        /\ Range(sent[n]) = {} /\ Len(sent[n]) = 0 /\ received[n] = 0
  <2>1. \A d : LET end == NewNettingChannelEndState(d)
              IN /\ end.contractBalance = d /\ end.totalWithdraw = 0
                 /\ end.balanceProof = NoBalanceProof /\ PendingLocks(end) = {}
    BY DEF NewNettingChannelEndState, PendingLocks
  <2>2. \A n \in Node : Range(sent[n]) = {} /\ Len(sent[n]) = 0
    BY <1>1 DEF Range
  <2>3. \A n \in Node : received[n] = 0
    BY DEF Init
  <2> QED BY <1>1, <2>1, <2>2, <2>3
<1>4. LedgerTypes
  BY <1>1, <1>2 DEF Init, LedgerTypes
<1>5. BooksAgree /\ ProofsCovered /\ DepositsKept /\ OneTransferPerSecret
  BY <1>2, <1>3 DEF BooksAgree, ProofsCovered, DepositsKept, OneTransferPerSecret
<1>6. Funded
  BY <1>3, Partners, AmountFacts DEF Funded, NoBalanceProof
<1>7. RecordsBehind
  BY <1>3, Partners DEF RecordsBehind, NoBalanceProof
<1>8. LocksAnnounced
  BY <1>3, Partners DEF LocksAnnounced, Announced
<1>9. TaskTypes /\ ClockTypes
  BY DEF Init, TaskTypes, ClockTypes, TaskState
<1>10. ReceivedWasSent
  BY <1>3 DEF ReceivedWasSent
<1> QED BY <1>4, <1>5, <1>6, <1>7, <1>8, <1>9, <1>10, Parts DEF Ledger

\* Every step of either node and of the chain keeps it.
LEMMA LedgerNext == LedgerInv /\ [Next]_vars => LedgerInv'
<1> DEFINE Goal == LedgerStep /\ TaskTypes' /\ ClockTypes'
                   /\ \/ received' = received
                      \/ \E p \in Node : /\ received[p] < Len(sent[p])
                                         /\ received' = [received EXCEPT ![p] = @ + 1]
<1> SUFFICES ASSUME Ledger, TaskTypes, ClockTypes, ReceivedWasSent, [Next]_vars
             PROVE  LedgerStep /\ TaskTypes' /\ ClockTypes' /\ ReceivedWasSent'
  <2>1. LedgerInv' <=> (Ledger /\ TaskTypes /\ ClockTypes /\ ReceivedWasSent)'
    BY DEF LedgerInv, Ledger, TypeOK, LedgerTypes, TaskTypes, ClockTypes
  <2> QED BY <2>1, Parts DEF LedgerStep
<1>1. ASSUME NEW n \in Node, NEW amount \in Amounts,
             handleSendDirectTransfer(n, amount)
      PROVE  Goal
  <2>1. LedgerStep
    BY <1>1, DirectStep
  <2>2. TaskTypes' /\ ClockTypes' /\ received' = received
    BY <1>1 DEF handleSendDirectTransfer, TaskTypes, ClockTypes, blockVars, chainVars
  <2> QED BY <2>1, <2>2
<1>2. ASSUME NEW n \in Node, NEW h \in SecretHash, NEW amount \in Amounts,
             InitTryNewRoute(n, h, amount)
      PROVE  Goal
  <2>1. partnerState' = partnerState
    BY <1>2 DEF InitTryNewRoute
  <2>2. LedgerStep
    BY <1>2, <2>1, LockStep, LedgerStutter DEF ClockTypes, ledgerVars
  <2>3. TaskTypes'
    <3>1. "initiator" \in TaskState /\ "PaymentSentFailed" \in Notice
      BY DEF TaskState, Notice
    <3>2. UNCHANGED task \/ SetTask(n, h, "initiator")
      BY <1>2 DEF InitTryNewRoute
    <3>3. UNCHANGED notices \/ Tell(n, h, "PaymentSentFailed")
      BY <1>2 DEF InitTryNewRoute
    <3> QED BY <3>1, <3>2, <3>3, TaskUpdates DEF TaskTypes
  <2>4. ClockTypes' /\ received' = received
    BY <1>2 DEF InitTryNewRoute, ClockTypes, blockVars, chainVars
  <2> QED BY <2>2, <2>3, <2>4
<1>3. ASSUME NEW n \in Node, Receive(n)
      PROVE  Goal
  <2> DEFINE p == Partner(n)
             m == sent[p][received[p] + 1]
  <2>1. p \in Node /\ sent[p] \in Seq(Message) /\ received[p] \in Nat
    BY Partners DEF Ledger, LedgerTypes, ClockTypes
  <2>2. received[p] < Len(sent[p]) /\ Handle(n, m)
    BY <1>3 DEF Receive
  <2>3. received[p] + 1 \in DOMAIN sent[p]
    BY <2>1, <2>2
  <2>4. m \in Range(sent[p]) /\ m \in Message
    BY <2>1, <2>3 DEF Range
  <2> HIDE DEF m
  <2>5. LedgerStep
    BY <2>2, <2>4, HandleStep
  <2>6. TaskTypes'
    BY <2>2, <2>4, HandleTasks
  <2>7. received' = [received EXCEPT ![p] = @ + 1]
    BY <1>3 DEF Receive
  <2>8. ClockTypes'
    BY <1>3, <2>1, <2>7 DEF Receive, ClockTypes, blockVars, chainVars
  <2> QED BY <2>1, <2>2, <2>5, <2>6, <2>7, <2>8
<1>4. ASSUME NEW n \in Node, ReceiveAgain(n)
      PROVE  Goal
  <2> DEFINE p == Partner(n)
  <2>1. p \in Node /\ sent[p] \in Seq(Message) /\ received[p] \in Nat
        /\ received[p] <= Len(sent[p])
    BY Partners DEF Ledger, LedgerTypes, ClockTypes, ReceivedWasSent
  <2>2. PICK i \in 1 .. received[p] : Handle(n, sent[p][i])
    BY <1>4 DEF ReceiveAgain
  <2>3. i \in DOMAIN sent[p]
    BY <2>1
  <2>4. sent[p][i] \in Range(sent[p]) /\ sent[p][i] \in Message
    BY <2>1, <2>3 DEF Range
  <2>5. LedgerStep
    BY <2>2, <2>4, HandleStep
  <2>6. TaskTypes'
    BY <2>2, <2>4, HandleTasks
  <2>7. ClockTypes' /\ received' = received
    BY <1>4 DEF ReceiveAgain, ClockTypes, blockVars, chainVars
  <2> QED BY <2>5, <2>6, <2>7
<1>5. ASSUME NEW n \in Node, NEW h \in SecretHash, HandleSecretRevealed(n, h)
      PROVE  Goal
  <2>1. LedgerStep
    BY <1>5, RevealedStep DEF ClockTypes
  <2>2. InitEventsForUnlockLock(n, h) => TaskTypes'
    BY UnlockTasks
  <2>3. SetTask(n, h, "reveal_secret") /\ UNCHANGED notices => TaskTypes'
    BY TaskUpdates DEF TaskTypes, TaskState
  <2>4. UNCHANGED <<task, notices>> => TaskTypes'
    BY DEF TaskTypes
  <2>5. TaskTypes'
    BY <1>5, <2>2, <2>3, <2>4 DEF HandleSecretRevealed, nodeVars
  <2>6. ClockTypes' /\ received' = received
    BY <1>5 DEF HandleSecretRevealed, ClockTypes, chainVars
  <2> QED BY <2>1, <2>5, <2>6
<1>6. ASSUME NEW n \in Node, handleBlockForNode(n)
      PROVE  Goal
  <2>1. LedgerStep
    BY <1>6, LedgerStutter DEF handleBlockForNode, nodeVars, netVars, ledgerVars
  <2>2. TaskTypes' /\ ClockTypes' /\ received' = received
    BY <1>6 DEF handleBlockForNode, nodeVars, netVars, chainVars, TaskTypes, ClockTypes
  <2> QED BY <2>1, <2>2
<1>7. ASSUME NEW n \in Node, HandleBlockForTask(n)
      PROVE  Goal
  <2>1. PICK h \in todo[n] :
          /\ todo' = [todo EXCEPT ![n] = @ \ {h}]
          /\ InitHandleBlock(n, h) \/ TgHandleBlock(n, h)
          /\ UNCHANGED <<received, block, seen, height, mined>>
    BY <1>7 DEF HandleBlockForTask
  <2>2. h \in SecretHash
    BY DEF ClockTypes
  <2>3. TgHandleBlock(n, h) => LedgerStep
    BY LedgerStutter DEF TgHandleBlock, ledgerVars
  <2>4. LedgerStep
    BY <2>1, <2>2, <2>3, ExpireStep
  <2>5. TaskTypes' /\ mineBy' \in [SecretHash -> Nat]
    BY <2>1, <2>2, BlockTasks
  <2>6. ClockTypes' /\ received' = received
    BY <2>1, <2>5 DEF ClockTypes
  <2> QED BY <2>4, <2>5, <2>6
<1>8. ASSUME MineBlock
      PROVE  Goal
  <2>1. LedgerStep
    BY <1>8, LedgerStutter DEF MineBlock, nodeVars, netVars, ledgerVars
  <2>2. height' \in Nat
    BY <1>8 DEF MineBlock, ClockTypes
  <2>3. mined' \in [SecretHash -> Nat] /\ mineBy' \in [SecretHash -> Nat]
    BY <1>8, <2>2 DEF MineBlock, ClockTypes
  <2>4. TaskTypes' /\ ClockTypes' /\ received' = received
    BY <1>8, <2>2, <2>3 DEF MineBlock, nodeVars, netVars, blockVars, TaskTypes, ClockTypes
  <2> QED BY <2>1, <2>4
<1>9. ASSUME UNCHANGED vars
      PROVE  Goal
  <2>1. LedgerStep
    BY <1>9, LedgerStutter DEF vars, nodeVars, netVars, ledgerVars
  <2>2. TaskTypes' /\ ClockTypes' /\ received' = received
    BY <1>9 DEF vars, nodeVars, netVars, blockVars, chainVars, TaskTypes, ClockTypes
  <2> QED BY <2>1, <2>2
<1>10. Goal
  BY <1>1, <1>2, <1>3, <1>4, <1>5, <1>6, <1>7, <1>8, <1>9 DEF Next
<1>11. ReceivedWasSent'
  <2>1. \A k \in Node : /\ received[k] \in Nat /\ received[k] <= Len(sent[k])
                        /\ Len(sent[k]) \in Nat /\ Len(sent[k]) <= Len(sent'[k])
                        /\ Len(sent'[k]) \in Nat
    BY <1>10 DEF ClockTypes, ReceivedWasSent, LedgerStep, SentGrows, Ledger, LedgerTypes
  <2>2. CASE received' = received
    BY <2>1, <2>2 DEF ReceivedWasSent
  <2>3. ASSUME NEW p \in Node, received[p] < Len(sent[p]),
               received' = [received EXCEPT ![p] = @ + 1]
        PROVE  ReceivedWasSent'
    <3> SUFFICES ASSUME NEW k \in Node PROVE received'[k] <= Len(sent'[k])
      BY DEF ReceivedWasSent
    <3>1. received'[k] = IF k = p THEN received[p] + 1 ELSE received[k]
      BY <2>3 DEF ClockTypes
    <3> QED BY <2>1, <2>3, <3>1
  <2> QED BY <1>10, <2>2, <2>3
<1> QED BY <1>10, <1>11

-----------------------------------------------------------------------------
(* The results.                                                            *)

\* LedgerInv holds in every behaviour: neither node's view of the other runs
\* ahead of what was signed, on any deposits, timeouts and number of payments.
THEOREM LedgerCorrect == Spec => []LedgerInv
BY LedgerInit, LedgerNext, PTL DEF Spec

\* The variables keep their types; in particular no amount wraps around.
THEOREM TypeCorrect == Spec => []TypeOK
<1>1. LedgerInv => TypeOK
  BY DEF LedgerInv
<1> QED BY <1>1, LedgerCorrect, PTL

\* The proof, the Merkle tree and the three lock maps of a side agree after
\* every state change of either node.
THEOREM BooksCorrect == Spec => []BooksAgree
<1>1. LedgerInv => BooksAgree
  BY DEF LedgerInv
<1> QED BY <1>1, LedgerCorrect, PTL

\* Every proof ever sent is covered by the sender's deposit and by what the
\* sender was given in return.
THEOREM ProofsAreCovered == Spec => []ProofsCovered
<1>1. LedgerInv => ProofsCovered
  BY DEF LedgerInv
<1> QED BY <1>1, LedgerCorrect, PTL

-----------------------------------------------------------------------------
(* One direction of the channel: s is what was sent, r how much of it was  *)
(* received, last the sender's proof and known the receiver's record.      *)

\* Message m carries the proof that comes next after the proof prev.
Succeeds(m, prev) ==
  /\ m.bp.nonce = prev.nonce + 1
  /\ m.bp.transferredAmount + m.bp.lockedAmount <= MaxUint64
  /\ m.type = "DirectTransfer" =>
       /\ m.bp.locksRoot = prev.locksRoot
       /\ m.bp.lockedAmount = prev.lockedAmount
       /\ m.bp.transferredAmount > prev.transferredAmount
  /\ m.type = "LockedTransfer" =>
       /\ m.lock \notin prev.locksRoot
       /\ m.bp.locksRoot = prev.locksRoot \cup {m.lock}
       /\ Cardinality(m.bp.locksRoot) <= MAXIMUM_PENDING_TRANSFERS
       /\ m.bp.lockedAmount = prev.lockedAmount + m.lock.amount
       /\ m.bp.transferredAmount = prev.transferredAmount
  /\ m.type = "Unlock" =>
       \E lock \in prev.locksRoot :
         /\ lock.secretHash = m.secretHash
         /\ m.bp.locksRoot = prev.locksRoot \ {lock}
         /\ m.bp.lockedAmount = prev.lockedAmount - lock.amount
         /\ m.bp.transferredAmount = prev.transferredAmount + lock.amount

\* The proof bp is among the first r messages, or there was none yet.
ProofIn(s, r, bp) ==
  bp = NoBalanceProof \/ \E i \in 1 .. r : HasProof(s[i]) /\ s[i].bp = bp

\* The proofs sent are numbered from 1 without a gap and follow one another.
Chain(s, last) ==
  /\ ProofIn(s, Len(s), last)
  /\ \A i \in 1 .. Len(s) : HasProof(s[i]) =>
       /\ s[i].bp.nonce \in 1 .. last.nonce
       /\ \A x \in 1 .. s[i].bp.nonce :
            \E j \in 1 .. i : HasProof(s[j]) /\ s[j].bp.nonce = x
       /\ \A j \in 1 .. Len(s) :
            HasProof(s[j]) /\ i < j => s[i].bp.nonce < s[j].bp.nonce
       /\ \A prev \in BalanceProof :
            ProofIn(s, Len(s), prev) /\ s[i].bp.nonce = prev.nonce + 1
              => Succeeds(s[i], prev)

\* What the receiver should have taken and did not is a LockExpired.
Refusals(s, r, known) ==
  \A i \in 1 .. r :
    HasProof(s[i]) /\ s[i].bp.nonce = known.nonce + 1
      => s[i].type = "LockExpired"

\* The receiver did refuse one.
Stuck(s, r, known) ==
  \E i \in 1 .. r :
    /\ HasProof(s[i]) /\ s[i].bp.nonce = known.nonce + 1
    /\ s[i].type = "LockExpired"

Link(s, r, last, known) ==
  Chain(s, last) /\ ProofIn(s, r, known) /\ Refusals(s, r, known)

\* The kinds of messages that name a secret hash.
About(m, type, h) ==
  /\ m.type = type
  /\ h = IF type = "LockedTransfer" THEN m.lock.secretHash ELSE m.secretHash
Ends(m, h) == About(m, "Unlock", h) \/ About(m, "LockExpired", h)

\* A payment ends once, after it began.
Ordered(s) ==
  \A h \in SecretHash : \A i \in 1 .. Len(s) : Ends(s[i], h) =>
    /\ \E t \in 1 .. i : About(s[t], "LockedTransfer", h)
    /\ \A j \in 1 .. Len(s) : Ends(s[j], h) => i = j

\* There is such a message among the first r.
Said(s, r, type, h) == \E i \in 1 .. r : About(s[i], type, h)

-----------------------------------------------------------------------------
(* Lemmas about one direction.                                             *)

\* Appending a message leaves the earlier ones where they are.
LEMMA Appended ==
  ASSUME NEW s \in Seq(Message), NEW m \in Message
  PROVE  /\ Append(s, m) \in Seq(Message)
         /\ Len(s) \in Nat /\ Len(Append(s, m)) = Len(s) + 1
         /\ \A i \in 1 .. Len(s) : Append(s, m)[i] = s[i]
         /\ Append(s, m)[Len(s) + 1] = m
         /\ 1 .. Len(Append(s, m)) = (1 .. Len(s)) \cup {Len(s) + 1}
<1>1. Len(s) \in Nat /\ Len(Append(s, m)) = Len(s) + 1
  OBVIOUS
<1>2. 1 .. Len(s) + 1 = (1 .. Len(s)) \cup {Len(s) + 1}
  BY <1>1
<1> QED BY <1>1, <1>2

\* The messages of a sequence and their proofs have their types.
LEMMA ProofTypes ==
  ASSUME NEW s \in Seq(Message), NEW i \in 1 .. Len(s)
  PROVE  /\ s[i] \in Message
         /\ HasProof(s[i]) => s[i].bp \in BalanceProof /\ s[i].bp.nonce \in Nat
<1>1. s[i] \in Message
  OBVIOUS
<1> QED BY <1>1, MessageFields DEF BalanceProof

\* A proof that was there stays there when messages are added or received.
LEMMA ProofStays ==
  ASSUME NEW s \in Seq(Message), NEW m \in Message, NEW r \in Nat, r <= Len(s),
         NEW bp
  PROVE  /\ ProofIn(s, r, bp) => ProofIn(s, r + 1, bp)
         /\ ProofIn(Append(s, m), r, bp) <=> ProofIn(s, r, bp)
         /\ ProofIn(Append(s, m), Len(s) + 1, bp)
              <=> ProofIn(s, Len(s), bp) \/ (HasProof(m) /\ m.bp = bp)
<1>1. /\ Len(s) \in Nat /\ \A i \in 1 .. Len(s) : Append(s, m)[i] = s[i]
      /\ Append(s, m)[Len(s) + 1] = m
      /\ 1 .. Len(s) + 1 = (1 .. Len(s)) \cup {Len(s) + 1}
  BY Appended
<1>2. 1 .. r \subseteq 1 .. Len(s) /\ 1 .. r \subseteq 1 .. r + 1
  BY <1>1
<1>3. ProofIn(s, r, bp) => ProofIn(s, r + 1, bp)
  BY <1>2 DEF ProofIn
<1>4. ProofIn(Append(s, m), r, bp) <=> ProofIn(s, r, bp)
  BY <1>1, <1>2 DEF ProofIn
<1>5. ProofIn(Append(s, m), Len(s) + 1, bp)
        <=> ProofIn(s, Len(s), bp) \/ (HasProof(m) /\ m.bp = bp)
  <2> DEFINE t == Append(s, m)
  <2>1. ProofIn(t, Len(s) + 1, bp)
          <=> bp = NoBalanceProof
              \/ (\E i \in 1 .. Len(s) : HasProof(t[i]) /\ t[i].bp = bp)
              \/ (HasProof(t[Len(s) + 1]) /\ t[Len(s) + 1].bp = bp)
    BY <1>1 DEF ProofIn
  <2> QED BY <1>1, <2>1 DEF ProofIn
<1> QED BY <1>3, <1>4, <1>5

\* Signing the next proof extends the chain.
LEMMA ChainSigns ==
  ASSUME NEW s \in Seq(Message), NEW last \in BalanceProof, Chain(s, last),
         NEW m \in ProofMessage, Succeeds(m, last)
  PROVE  Chain(Append(s, m), m.bp)
<1> DEFINE t == Append(s, m)
           N == last.nonce
           L == Len(s)
<1>1. /\ m \in Message /\ HasProof(m) /\ m.bp \in BalanceProof
      /\ m.bp.nonce = N + 1 /\ N \in Nat /\ L \in Nat
  BY Appended DEF Message, ProofMessage, HasProof, Succeeds, BalanceProof
<1>2. /\ \A i \in 1 .. L : t[i] = s[i]
      /\ t[L + 1] = m /\ Len(t) = L + 1
      /\ 1 .. Len(t) = (1 .. L) \cup {L + 1}
  BY <1>1, Appended
<1>3. \A bp : ProofIn(t, Len(t), bp) <=> ProofIn(s, L, bp) \/ m.bp = bp
  <2> SUFFICES ASSUME NEW bp
               PROVE  ProofIn(t, Len(t), bp) <=> ProofIn(s, L, bp) \/ m.bp = bp
    OBVIOUS
  <2>1. L <= Len(s)
    BY <1>1
  <2> QED BY <1>1, <1>2, <2>1, ProofStays
<1>4. \A i \in 1 .. L : HasProof(s[i]) =>
        s[i].bp \in BalanceProof /\ s[i].bp.nonce \in Nat
  BY ProofTypes
<1>5. \A i \in 1 .. L : HasProof(s[i]) => s[i].bp.nonce \in 1 .. N
  BY DEF Chain
<1>6. \A bp \in BalanceProof : ProofIn(s, L, bp) => bp.nonce \in 0 .. N
  BY <1>1, <1>5 DEF ProofIn, NoBalanceProof
<1>7. \A bp \in BalanceProof : ProofIn(s, L, bp) /\ bp.nonce = N => bp = last
  <2> SUFFICES ASSUME NEW bp \in BalanceProof, ProofIn(s, L, bp), bp.nonce = N
               PROVE  bp = last
    OBVIOUS
  <2>1. ProofIn(s, L, last)
    BY DEF Chain
  <2>2. CASE N = 0
    <3>1. ~ \E i \in 1 .. L : HasProof(s[i])
      BY <1>5, <2>2
    <3> QED BY <2>1, <3>1 DEF ProofIn
  <2>3. CASE N # 0
    <3>1. PICK i \in 1 .. L : HasProof(s[i]) /\ s[i].bp = bp
      BY <2>3 DEF ProofIn, NoBalanceProof
    <3>2. PICK j \in 1 .. L : HasProof(s[j]) /\ s[j].bp = last
      BY <2>1, <2>3 DEF ProofIn, NoBalanceProof
    <3>3. ~(i < j) /\ ~(j < i)
      <4>1. /\ i < j => s[i].bp.nonce < s[j].bp.nonce
            /\ j < i => s[j].bp.nonce < s[i].bp.nonce
        BY <3>1, <3>2 DEF Chain
      <4>2. s[i].bp.nonce = N /\ s[j].bp.nonce = N
        BY <3>1, <3>2
      <4> QED BY <1>1, <4>1, <4>2
    <3> QED BY <1>1, <3>1, <3>2, <3>3
  <2> QED BY <2>2, <2>3
<1>8. ProofIn(t, Len(t), m.bp)
  BY <1>3
<1> SUFFICES ASSUME NEW i \in 1 .. L + 1, HasProof(t[i])
             PROVE  /\ t[i].bp.nonce \in 1 .. N + 1
                    /\ \A x \in 1 .. t[i].bp.nonce :
                         \E j \in 1 .. i : HasProof(t[j]) /\ t[j].bp.nonce = x
                    /\ \A j \in 1 .. L + 1 :
                         HasProof(t[j]) /\ i < j => t[i].bp.nonce < t[j].bp.nonce
                    /\ \A prev \in BalanceProof :
                         ProofIn(t, Len(t), prev) /\ t[i].bp.nonce = prev.nonce + 1
                           => Succeeds(t[i], prev)
  BY <1>1, <1>2, <1>8 DEF Chain
<1>9. CASE i \in 1 .. L
  <2>1. t[i] = s[i] /\ s[i].bp.nonce \in 1 .. N /\ s[i].bp.nonce \in Nat
    BY <1>2, <1>4, <1>5, <1>9
  <2>2. ASSUME NEW x \in 1 .. t[i].bp.nonce
        PROVE  \E j \in 1 .. i : HasProof(t[j]) /\ t[j].bp.nonce = x
    <3>1. PICK j \in 1 .. i : HasProof(s[j]) /\ s[j].bp.nonce = x
      BY <1>9, <2>1, <2>2 DEF Chain
    <3>2. j \in 1 .. L
      BY <1>1, <1>9
    <3> QED BY <1>2, <3>1, <3>2
  <2>3. ASSUME NEW j \in 1 .. L + 1, HasProof(t[j]), i < j
        PROVE  t[i].bp.nonce < t[j].bp.nonce
    <3>1. CASE j \in 1 .. L
      BY <1>2, <1>9, <2>1, <2>3, <3>1 DEF Chain
    <3>2. CASE j = L + 1
      BY <1>1, <1>2, <2>1, <3>2
    <3> QED BY <1>2, <3>1, <3>2
  <2>4. ASSUME NEW prev \in BalanceProof, ProofIn(t, Len(t), prev),
               t[i].bp.nonce = prev.nonce + 1
        PROVE  Succeeds(t[i], prev)
    <3>1. prev # m.bp
      <4>1. prev.nonce # N + 1
        BY <1>1, <2>1, <2>4 DEF BalanceProof
      <4> QED BY <1>1, <4>1
    <3> QED BY <1>3, <1>9, <2>1, <2>4, <3>1 DEF Chain
  <2>5. t[i].bp.nonce \in 1 .. N + 1
    BY <1>1, <2>1
  <2> QED BY <2>2, <2>3, <2>4, <2>5
<1>10. CASE i = L + 1
  <2>1. t[i] = m /\ m.bp.nonce = N + 1
    BY <1>1, <1>2, <1>10
  <2>2. ASSUME NEW x \in 1 .. N + 1
        PROVE  \E j \in 1 .. i : HasProof(t[j]) /\ t[j].bp.nonce = x
    <3>1. CASE x = N + 1
      <4>1. i \in 1 .. i
        BY <1>1, <1>10
      <4> QED BY <1>1, <2>1, <3>1, <4>1
    <3>2. CASE x \in 1 .. N
      <4>1. PICK k \in 1 .. L : HasProof(s[k]) /\ s[k].bp = last
        BY <1>1, <3>2 DEF Chain, ProofIn, NoBalanceProof
      <4>2. PICK j \in 1 .. k : HasProof(s[j]) /\ s[j].bp.nonce = x
        BY <3>2, <4>1 DEF Chain
      <4>3. j \in 1 .. L /\ j \in 1 .. i
        BY <1>1, <1>10
      <4> QED BY <1>2, <4>2, <4>3
    <3> QED BY <1>1, <3>1, <3>2
  <2>3. ~ \E j \in 1 .. L + 1 : i < j
    BY <1>1, <1>10
  <2>4. ASSUME NEW prev \in BalanceProof, ProofIn(t, Len(t), prev),
               t[i].bp.nonce = prev.nonce + 1
        PROVE  Succeeds(t[i], prev)
    <3>1. prev.nonce = N
      BY <1>1, <2>1, <2>4 DEF BalanceProof
    <3>2. prev # m.bp
      BY <1>1, <3>1
    <3>3. prev = last
      BY <1>3, <1>7, <2>4, <3>1, <3>2
    <3> QED BY <2>1, <3>3
  <2>5. t[i].bp.nonce \in 1 .. N + 1
    BY <1>1, <2>1
  <2> QED BY <2>1, <2>2, <2>3, <2>4, <2>5
<1> QED BY <1>1, <1>2, <1>9, <1>10

\* A message without a proof leaves the chain as it is.
LEMMA ChainReveals ==
  ASSUME NEW s \in Seq(Message), NEW last, Chain(s, last), NEW m \in RevealMessage
  PROVE  Chain(Append(s, m), last)
<1> DEFINE t == Append(s, m)
           L == Len(s)
<1>1. m \in Message /\ ~HasProof(m) /\ L \in Nat
  BY Appended DEF Message, RevealMessage, HasProof
<1>2. /\ \A i \in 1 .. L : t[i] = s[i]
      /\ t[L + 1] = m /\ Len(t) = L + 1
      /\ 1 .. Len(t) = (1 .. L) \cup {L + 1}
  BY <1>1, Appended
<1>3. \A bp : ProofIn(t, Len(t), bp) <=> ProofIn(s, L, bp)
  <2> SUFFICES ASSUME NEW bp PROVE ProofIn(t, Len(t), bp) <=> ProofIn(s, L, bp)
    OBVIOUS
  <2>1. L <= Len(s)
    BY <1>1
  <2> QED BY <1>1, <1>2, <2>1, ProofStays
<1>4. \A i \in 1 .. Len(t) : HasProof(t[i]) => i \in 1 .. L
  BY <1>1, <1>2
<1>5. \A i \in 1 .. L : \A j \in 1 .. i : j \in 1 .. L
  BY <1>1
<1> HIDE DEF t, L
<1> SUFFICES ASSUME NEW i \in 1 .. L, HasProof(s[i])
             PROVE  /\ s[i].bp.nonce \in 1 .. last.nonce
                    /\ \A x \in 1 .. s[i].bp.nonce :
                         \E j \in 1 .. i : HasProof(t[j]) /\ t[j].bp.nonce = x
                    /\ \A j \in 1 .. Len(t) :
                         HasProof(t[j]) /\ i < j => s[i].bp.nonce < t[j].bp.nonce
                    /\ \A prev \in BalanceProof :
                         ProofIn(t, Len(t), prev) /\ s[i].bp.nonce = prev.nonce + 1
                           => Succeeds(s[i], prev)
  <2>1. ProofIn(t, Len(t), last)
    BY <1>3 DEF Chain, L
  <2>2. \A i \in 1 .. Len(t) : HasProof(t[i]) => i \in 1 .. L /\ t[i] = s[i]
    BY <1>2, <1>4
  <2> QED BY <2>1, <2>2 DEF Chain, t
<1>6. s[i].bp.nonce \in 1 .. last.nonce
  BY DEF Chain, L
<1>7. ASSUME NEW x \in 1 .. s[i].bp.nonce
      PROVE  \E j \in 1 .. i : HasProof(t[j]) /\ t[j].bp.nonce = x
  <2>1. PICK j \in 1 .. i : HasProof(s[j]) /\ s[j].bp.nonce = x
    BY <1>7 DEF Chain, L
  <2> QED BY <1>2, <1>5, <2>1
<1>8. ASSUME NEW j \in 1 .. Len(t), HasProof(t[j]), i < j
      PROVE  s[i].bp.nonce < t[j].bp.nonce
  <2>1. j \in 1 .. L /\ t[j] = s[j]
    BY <1>2, <1>4, <1>8
  <2> QED BY <1>8, <2>1 DEF Chain, L
<1>9. ASSUME NEW prev \in BalanceProof, ProofIn(t, Len(t), prev),
             s[i].bp.nonce = prev.nonce + 1
      PROVE  Succeeds(s[i], prev)
  BY <1>3, <1>9 DEF Chain, L
<1> QED BY <1>6, <1>7, <1>8, <1>9

\* What was received is not touched by what is appended.
LEMMA RefusalsStay ==
  ASSUME NEW s \in Seq(Message), NEW m \in Message, NEW r \in Nat, r <= Len(s),
         NEW known
  PROVE  /\ Refusals(Append(s, m), r, known) <=> Refusals(s, r, known)
         /\ Stuck(Append(s, m), r, known) <=> Stuck(s, r, known)
<1>1. \A i \in 1 .. r : Append(s, m)[i] = s[i]
  BY Appended
<1> QED BY <1>1 DEF Refusals, Stuck

\* The sender's next proof.
LEMMA LinkSigns ==
  ASSUME NEW s \in Seq(Message), NEW r \in Nat, r <= Len(s),
         NEW last \in BalanceProof, NEW known, Link(s, r, last, known),
         NEW m \in ProofMessage, Succeeds(m, last)
  PROVE  Link(Append(s, m), r, m.bp, known)
<1>1. m \in Message
  BY DEF Message
<1> QED BY <1>1, ChainSigns, ProofStays, RefusalsStay DEF Link

\* The announcement of a secret.
LEMMA LinkReveals ==
  ASSUME NEW s \in Seq(Message), NEW r \in Nat, r <= Len(s),
         NEW last, NEW known, Link(s, r, last, known), NEW m \in RevealMessage
  PROVE  Link(Append(s, m), r, last, known)
<1>1. m \in Message
  BY DEF Message
<1> QED BY <1>1, ChainReveals, ProofStays, RefusalsStay DEF Link

\* Two proofs of the chain with one number are at one place; a later place
\* has a larger number.
LEMMA ProofOrder ==
  ASSUME NEW s \in Seq(Message), NEW last, Chain(s, last),
         NEW i \in 1 .. Len(s), NEW j \in 1 .. Len(s), HasProof(s[i]), HasProof(s[j])
  PROVE  /\ s[i].bp.nonce \in Nat \ {0} /\ s[j].bp.nonce \in Nat
         /\ i < j => s[i].bp.nonce < s[j].bp.nonce
         /\ s[i].bp.nonce = s[j].bp.nonce => i = j
<1>1. s[i].bp.nonce \in Nat \ {0} /\ s[j].bp.nonce \in Nat
  BY ProofTypes DEF Chain
<1>2. /\ i < j => s[i].bp.nonce < s[j].bp.nonce
      /\ j < i => s[j].bp.nonce < s[i].bp.nonce
  BY DEF Chain
<1>3. i \in Nat /\ j \in Nat
  OBVIOUS
<1> QED BY <1>1, <1>2, <1>3

\* A message that arrives has a later proof than the receiver knows.
LEMMA NewIsLater ==
  ASSUME NEW s \in Seq(Message), NEW r \in Nat, r < Len(s),
         NEW last, NEW known \in BalanceProof, Link(s, r, last, known),
         HasProof(s[r + 1])
  PROVE  s[r + 1].bp.nonce \in Nat /\ s[r + 1].bp.nonce > known.nonce
<1>1. r + 1 \in 1 .. Len(s) /\ \A i \in 1 .. r : i \in 1 .. Len(s) /\ i < r + 1
  BY Appended
<1>2. s[r + 1].bp.nonce \in Nat \ {0}
  BY <1>1, ProofOrder DEF Link
<1>3. CASE known = NoBalanceProof
  BY <1>2, <1>3 DEF NoBalanceProof
<1>4. ASSUME NEW i \in 1 .. r, HasProof(s[i]), s[i].bp = known
      PROVE  s[r + 1].bp.nonce > known.nonce
  <2>1. s[i].bp.nonce < s[r + 1].bp.nonce
    BY <1>1, <1>4, ProofOrder DEF Link
  <2> QED BY <1>2, <1>4, <2>1 DEF BalanceProof
<1> QED BY <1>2, <1>3, <1>4 DEF Link, ProofIn

\* When it is the next one, it follows on what the receiver knows, and nothing
\* was refused before.
LEMMA NewIsNext ==
  ASSUME NEW s \in Seq(Message), NEW r \in Nat, r < Len(s),
         NEW last, NEW known \in BalanceProof, Link(s, r, last, known),
         HasProof(s[r + 1]), s[r + 1].bp.nonce = known.nonce + 1
  PROVE  Succeeds(s[r + 1], known) /\ ~Stuck(s, r, known)
<1>1. r + 1 \in 1 .. Len(s) /\ \A i \in 1 .. r : i \in 1 .. Len(s) /\ i < r + 1
  BY Appended
<1>2. ProofIn(s, Len(s), known)
  BY <1>1 DEF Link, ProofIn
<1>3. Succeeds(s[r + 1], known)
  BY <1>1, <1>2 DEF Link, Chain
<1>4. ~Stuck(s, r, known)
  <2> SUFFICES ASSUME NEW i \in 1 .. r, HasProof(s[i]),
                      s[i].bp.nonce = known.nonce + 1
               PROVE  FALSE
    BY DEF Stuck
  <2>1. s[i].bp.nonce < s[r + 1].bp.nonce /\ s[i].bp.nonce \in Nat
    BY <1>1, ProofOrder DEF Link
  <2> QED BY <2>1
<1> QED BY <1>3, <1>4

\* The receiver takes over the next proof.
LEMMA LinkAccepts ==
  ASSUME NEW s \in Seq(Message), NEW r \in Nat, r < Len(s),
         NEW last, NEW known \in BalanceProof, Link(s, r, last, known),
         HasProof(s[r + 1]), s[r + 1].bp.nonce = known.nonce + 1
  PROVE  Link(s, r + 1, last, s[r + 1].bp)
<1>1. /\ r + 1 \in 1 .. Len(s) /\ r + 1 \in 1 .. r + 1
      /\ \A i \in 1 .. r + 1 : i \in 1 .. Len(s) /\ ~(r + 1 < i)
  BY Appended
<1>2. ProofIn(s, r + 1, s[r + 1].bp)
  BY <1>1 DEF ProofIn
<1>3. Refusals(s, r + 1, s[r + 1].bp)
  <2> SUFFICES ASSUME NEW i \in 1 .. r + 1, HasProof(s[i]),
                      s[i].bp.nonce = s[r + 1].bp.nonce + 1
               PROVE  FALSE
    BY DEF Refusals
  <2>1. /\ s[i].bp.nonce \in Nat /\ s[r + 1].bp.nonce \in Nat
        /\ i < r + 1 => s[i].bp.nonce < s[r + 1].bp.nonce
    BY <1>1, ProofOrder DEF Link
  <2>2. i < r + 1 \/ i = r + 1
    OBVIOUS
  <2> QED BY <2>1, <2>2
<1> QED BY <1>2, <1>3 DEF Link

\* The receiver passes over a message that is not the next one, or refuses a
\* LockExpired; when the message has a proof, it has refused one by then.
LEMMA LinkPasses ==
  ASSUME NEW s \in Seq(Message), NEW r \in Nat, r < Len(s),
         NEW last, NEW known \in BalanceProof, Link(s, r, last, known),
         HasProof(s[r + 1]) /\ s[r + 1].bp.nonce = known.nonce + 1
           => s[r + 1].type = "LockExpired"
  PROVE  /\ Link(s, r + 1, last, known)
         /\ Stuck(s, r, known) => Stuck(s, r + 1, known)
         /\ HasProof(s[r + 1]) => Stuck(s, r + 1, known)
<1>1. /\ r + 1 \in 1 .. Len(s) /\ r + 1 \in 1 .. r + 1
      /\ 1 .. r + 1 = (1 .. r) \cup {r + 1}
      /\ \A i \in 1 .. r + 1 : i \in 1 .. Len(s)
  BY Appended
<1>2. ProofIn(s, r + 1, known)
  BY <1>1 DEF Link, ProofIn
<1>3. Refusals(s, r + 1, known)
  BY <1>1 DEF Link, Refusals
<1>4. Stuck(s, r, known) => Stuck(s, r + 1, known)
  BY <1>1 DEF Stuck
<1>5. ASSUME HasProof(s[r + 1])
      PROVE  Stuck(s, r + 1, known)
  <2>1. s[r + 1].bp.nonce \in Nat /\ s[r + 1].bp.nonce > known.nonce
    BY <1>5, NewIsLater
  <2>2. known.nonce + 1 \in 1 .. s[r + 1].bp.nonce
    BY <2>1 DEF BalanceProof
  <2>3. PICK j \in 1 .. r + 1 : HasProof(s[j]) /\ s[j].bp.nonce = known.nonce + 1
    BY <1>1, <1>5, <2>2 DEF Link, Chain
  <2> QED BY <1>3, <2>3 DEF Refusals, Stuck
<1> QED BY <1>2, <1>3, <1>4, <1>5 DEF Link

\* What was said up to some message, when one more is received or sent.
LEMMA SaidMore ==
  ASSUME NEW s \in Seq(Message), NEW m \in Message, NEW r \in Nat, r <= Len(s),
         NEW type, NEW h
  PROVE  /\ Said(s, r + 1, type, h) <=> Said(s, r, type, h) \/ About(s[r + 1], type, h)
         /\ Said(Append(s, m), r, type, h) <=> Said(s, r, type, h)
         /\ Said(Append(s, m), Len(Append(s, m)), type, h)
              <=> Said(s, Len(s), type, h) \/ About(m, type, h)
<1> DEFINE t == Append(s, m)
<1>1. /\ Len(s) \in Nat /\ Len(t) = Len(s) + 1
      /\ \A i \in 1 .. Len(s) : t[i] = s[i]
      /\ t[Len(s) + 1] = m
      /\ 1 .. Len(t) = (1 .. Len(s)) \cup {Len(s) + 1}
  BY Appended
<1>2. 1 .. r + 1 = (1 .. r) \cup {r + 1} /\ 1 .. r \subseteq 1 .. Len(s)
  BY <1>1
<1> HIDE DEF t
<1>3. Said(s, r + 1, type, h) <=> Said(s, r, type, h) \/ About(s[r + 1], type, h)
  BY <1>2 DEF Said
<1>4. Said(t, r, type, h) <=> Said(s, r, type, h)
  BY <1>1, <1>2 DEF Said
<1>5. Said(t, Len(t), type, h) <=> Said(s, Len(s), type, h) \/ About(m, type, h)
  BY <1>1 DEF Said
<1> QED BY <1>3, <1>4, <1>5 DEF t

\* What was said is among the messages sent.
LEMMA SaidSent ==
  ASSUME NEW s \in Seq(Message), NEW r \in Nat, r <= Len(s), NEW type, NEW h
  PROVE  /\ Said(s, r, type, h) => Said(s, Len(s), type, h)
         /\ Said(s, Len(s), type, h) <=> \E m \in Range(s) : About(m, type, h)
<1>1. Len(s) \in Nat /\ DOMAIN s = 1 .. Len(s) /\ 1 .. r \subseteq 1 .. Len(s)
  BY Appended
<1> QED BY <1>1 DEF Said, Range

\* A message keeps the order unless it ends a payment that has not begun or
\* that has ended.
LEMMA OrderKept ==
  ASSUME NEW s \in Seq(Message), Ordered(s), NEW m \in Message,
         \A h \in SecretHash : Ends(m, h) =>
           /\ Said(s, Len(s), "LockedTransfer", h)
           /\ ~Said(s, Len(s), "Unlock", h) /\ ~Said(s, Len(s), "LockExpired", h)
  PROVE  Ordered(Append(s, m))
<1> DEFINE t == Append(s, m)
           L == Len(s)
<1>1. /\ L \in Nat /\ Len(t) = L + 1
      /\ \A i \in 1 .. L : t[i] = s[i]
      /\ t[L + 1] = m
      /\ 1 .. Len(t) = (1 .. L) \cup {L + 1}
  BY Appended
<1>2. \A i \in 1 .. L : \A j \in 1 .. i : j \in 1 .. L
  BY <1>1
<1>3. \A j \in 1 .. L : j \in 1 .. L + 1
  BY <1>1
<1> SUFFICES ASSUME NEW h \in SecretHash, NEW i \in 1 .. Len(t), Ends(t[i], h)
             PROVE  /\ \E k \in 1 .. i : About(t[k], "LockedTransfer", h)
                    /\ \A j \in 1 .. Len(t) : Ends(t[j], h) => i = j
  BY DEF Ordered
<1> HIDE DEF t, L
<1>4. Ends(m, h) => /\ \E k \in 1 .. L : About(s[k], "LockedTransfer", h)
                    /\ \A k \in 1 .. L : ~Ends(s[k], h)
  BY DEF Said, Ends, L
<1>5. CASE i \in 1 .. L
  <2>1. /\ \E k \in 1 .. i : About(s[k], "LockedTransfer", h)
        /\ \A j \in 1 .. L : Ends(s[j], h) => i = j
    BY <1>1, <1>5 DEF Ordered, L
  <2>2. ~Ends(m, h)
    BY <1>1, <1>4, <1>5
  <2>3. \E k \in 1 .. i : About(t[k], "LockedTransfer", h)
    BY <1>1, <1>2, <1>5, <2>1
  <2>4. ASSUME NEW j \in 1 .. Len(t), Ends(t[j], h)
        PROVE  i = j
    BY <1>1, <2>1, <2>2, <2>4
  <2> QED BY <2>3, <2>4
<1>6. CASE i = L + 1
  <2>1. Ends(m, h)
    BY <1>1, <1>6
  <2>2. \E k \in 1 .. i : About(t[k], "LockedTransfer", h)
    BY <1>1, <1>3, <1>4, <1>6, <2>1
  <2>3. ASSUME NEW j \in 1 .. Len(t), Ends(t[j], h)
        PROVE  i = j
    BY <1>1, <1>4, <1>6, <2>1, <2>3
  <2> QED BY <2>2, <2>3
<1> QED BY <1>1, <1>5, <1>6

-----------------------------------------------------------------------------
(* The invariant.                                                          *)

\* n has sent, and its partner has received, such a message.
Sent(n, type, h) == Said(sent[n], Len(sent[n]), type, h)
Got(n, type, h) == Said(sent[n], received[n], type, h)

\* The messages of n to its partner.
LinkOf(n) ==
  /\ Link(sent[n], received[n], ourState[n].balanceProof,
          partnerState[Partner(n)].balanceProof)
  /\ Ordered(sent[n])
Links == \A n \in Node : LinkOf(n)

\* The receiver of n's messages has refused a LockExpired.
StuckAt(n) ==
  Stuck(sent[n], received[n], partnerState[Partner(n)].balanceProof)

\* A node does not register secrets for its own locks.
OwnLocksLocked ==
  \A n \in Node : /\ ourState[n].unLockedLocks = {}
                  /\ ourState[n].onChainUnLockedLocks = {}

\* The secret was given away or may be: the target has a task or had one.
Known(n, h) ==
  \/ task[Partner(n)][h] \in TargetState
  \/ Got(n, "Unlock", h) \/ Got(n, "LockExpired", h)

\* The payment for h that n may initiate.
InitiatorSide(n, h) ==
  /\ Sent(n, "LockedTransfer", h) => ~Sent(Partner(n), "LockedTransfer", h)
  /\ task[n][h] = "initiator" =>
       /\ Sent(n, "LockedTransfer", h)
       /\ "PaymentSentFailed" \notin notices[n][h]
       /\ "PaymentSentSuccess" \notin notices[n][h]
       /\ ~Sent(n, "Unlock", h) /\ ~Sent(n, "LockExpired", h)
       /\ ~Got(Partner(n), "RevealSecret", h)
  /\ IsLockLocked(ourState[n], h) <=> task[n][h] = "initiator"
  /\ ~("PaymentSentFailed" \in notices[n][h] /\ "PaymentSentSuccess" \in notices[n][h])
  /\ "PaymentSentSuccess" \in notices[n][h] => Sent(n, "Unlock", h)
  /\ Sent(n, "Unlock", h) =>
       "PaymentSentSuccess" \in notices[n][h] /\ Known(n, h)
  /\ Sent(n, "LockExpired", h) => "PaymentSentFailed" \in notices[n][h]

TargetSide(n, h) ==
  LET p == Partner(n)
  IN /\ task[p][h] \in TargetState =>
          /\ Sent(n, "LockedTransfer", h)
          /\ IsSecretKnown(partnerState[p], h)
          /\ ~Got(n, "LockExpired", h)
     /\ task[p][h] = "onchain_secret_reveal" => mineBy[h] # 0 \/ mined[h] # 0
     /\ Sent(p, "RevealSecret", h) => Sent(n, "LockedTransfer", h) /\ Known(n, h)
     /\ mineBy[h] # 0 \/ mined[h] # 0 =>
          /\ Sent(n, "LockedTransfer", h) \/ Sent(p, "LockedTransfer", h)
          /\ Sent(n, "LockedTransfer", h) => Known(n, h)
     /\ "PaymentReceivedSuccess" \in notices[p][h] => Sent(n, "Unlock", h)
     /\ Got(n, "Unlock", h) =>
          "PaymentReceivedSuccess" \in notices[p][h] \/ StuckAt(n)

Payments == \A n \in Node, h \in SecretHash : InitiatorSide(n, h) /\ TargetSide(n, h)

\* The bound on lag and on the wait for a registration that the reveal timeout
\* has to cover.
Prompt == MaxLag + MaxInclusion <= RevealTimeout

Heights == \A n \in Node : block[n] <= height /\ height <= block[n] + MaxLag

Registrations ==
  \A h \in SecretHash :
    /\ mined[h] <= height
    /\ mineBy[h] # 0 => mined[h] = 0 /\ mineBy[h] > height

\* A node has processed the registrations of the blocks it knows.
SeenInTime ==
  \A n \in Node, h \in SecretHash :
    /\ mined[h] # 0 /\ mined[h] <= block[n] => h \in seen[n]
    /\ h \in seen[n] => mined[h] # 0

\* What an initiator still locks was not registered in time, as far as it saw.
LockedUntilLate ==
  \A n \in Node : \A l \in ourState[n].lockedLocks :
    l.secretHash \in seen[n] => mined[l.secretHash] > l.expiration

\* A transfer whose payment failed is past its expiration.
FailedLate ==
  \A n \in Node : \A m \in Range(sent[n]) :
    /\ m.type = "LockedTransfer"
    /\ "PaymentSentFailed" \in notices[n][m.lock.secretHash]
    => /\ m.lock.expiration <= block[n]
       /\ \/ mined[m.lock.secretHash] = 0
          \/ mined[m.lock.secretHash] > m.lock.expiration

\* What a target has unlocked on the chain was registered in time.
OnChainInTime ==
  \A n \in Node : \A l \in partnerState[n].onChainUnLockedLocks :
    mined[l.secretHash] # 0 /\ mined[l.secretHash] <= l.expiration

\* A target that has given the secret away is early, or about to visit the
\* task in the last block for it, or has registered the secret in time.
RegisteredInTime ==
  Prompt =>
    \A n \in Node : \A m \in Range(sent[Partner(n)]) :
      m.type = "LockedTransfer" =>
        LET h == m.lock.secretHash
            e == m.lock.expiration
        IN /\ mineBy[h] <= e /\ mined[h] <= e
           /\ task[n][h] \in TargetState =>
                \/ e > block[n] + RevealTimeout
                \/ h \in todo[n] /\ e = block[n] + RevealTimeout
                \/ mineBy[h] # 0 \/ mined[h] # 0

Clock ==
  /\ Heights /\ Registrations /\ SeenInTime /\ LockedUntilLate
  /\ FailedLate /\ OnChainInTime /\ RegisteredInTime

PaymentInv ==
  LedgerInv /\ Links /\ OwnLocksLocked /\ Payments /\ Clock

-----------------------------------------------------------------------------
(* What a step does to one direction and to one secret hash.               *)

\* The types the proofs below need, and that nothing is received unsent.
LinkTypes ==
  /\ sent \in [Node -> Seq(Message)] /\ received \in [Node -> Nat]
  /\ \A n \in Node : received[n] <= Len(sent[n])
  /\ ourState \in [Node -> EndStates] /\ partnerState \in [Node -> EndStates]

\* They are part of LedgerInv.
LEMMA LinkTyping ==
  LedgerInv => LinkTypes
BY DEF LedgerInv, TypeOK, LinkTypes, ReceivedWasSent

\* n sends message m.
Appends(n, m) ==
  /\ sent'[n] = Append(sent[n], m)
  /\ received'[n] = received[n]
  /\ partnerState'[Partner(n)].balanceProof = partnerState[Partner(n)].balanceProof

\* n's partner receives the next message of n.
Arrives(n) ==
  /\ received[n] < Len(sent[n])
  /\ sent'[n] = sent[n]
  /\ received'[n] = received[n] + 1
  /\ ourState'[n].balanceProof = ourState[n].balanceProof

\* Neither.
Quiet(n) ==
  /\ sent'[n] = sent[n] /\ received'[n] = received[n]
  /\ ourState'[n].balanceProof = ourState[n].balanceProof
  /\ partnerState'[Partner(n)].balanceProof = partnerState[Partner(n)].balanceProof

Kinds == {"LockedTransfer", "Unlock", "LockExpired", "RevealSecret"}
Outcomes == {"PaymentSentFailed", "PaymentSentSuccess", "PaymentReceivedSuccess"}

\* Nothing is said by n about h, and its receiver is not less stuck.
SaidSame(n, h) ==
  /\ \A type \in Kinds : Sent(n, type, h)' <=> Sent(n, type, h)
  /\ \A type \in Kinds :
       type # "LockedTransfer" => (Got(n, type, h)' <=> Got(n, type, h))
  /\ StuckAt(n) => StuckAt(n)'

\* Node n does nothing about h.
HashSame(n, h) ==
  /\ task'[n][h] = task[n][h]
  /\ \A what \in Outcomes : what \in notices'[n][h] <=> what \in notices[n][h]
  /\ IsLockLocked(ourState'[n], h) <=> IsLockLocked(ourState[n], h)
  /\ IsSecretKnown(partnerState[n], h) => IsSecretKnown(partnerState'[n], h)

\* Whether h is registered, or on its way to be, does not change.
RegisteredSame(h) ==
  (mineBy'[h] # 0 \/ mined'[h] # 0) <=> (mineBy[h] # 0 \/ mined[h] # 0)

\* A payment that nothing happens to is as it was.
LEMMA PaymentSame ==
  ASSUME NEW n \in Node, NEW h \in SecretHash,
         InitiatorSide(n, h), TargetSide(n, h),
         HashSame(n, h), HashSame(Partner(n), h),
         SaidSame(n, h), SaidSame(Partner(n), h), RegisteredSame(h)
  PROVE  InitiatorSide(n, h)' /\ TargetSide(n, h)'
<1> DEFINE p == Partner(n)
<1>1. /\ Sent(n, "LockedTransfer", h)' <=> Sent(n, "LockedTransfer", h)
      /\ Sent(n, "Unlock", h)' <=> Sent(n, "Unlock", h)
      /\ Sent(n, "LockExpired", h)' <=> Sent(n, "LockExpired", h)
      /\ Got(n, "Unlock", h)' <=> Got(n, "Unlock", h)
      /\ Got(n, "LockExpired", h)' <=> Got(n, "LockExpired", h)
      /\ Sent(p, "LockedTransfer", h)' <=> Sent(p, "LockedTransfer", h)
      /\ Sent(p, "RevealSecret", h)' <=> Sent(p, "RevealSecret", h)
      /\ Got(p, "RevealSecret", h)' <=> Got(p, "RevealSecret", h)
      /\ StuckAt(n) => StuckAt(n)'
  BY DEF SaidSame, Kinds
<1>2. /\ task'[n][h] = task[n][h] /\ task'[p][h] = task[p][h]
      /\ "PaymentSentFailed" \in notices'[n][h] <=> "PaymentSentFailed" \in notices[n][h]
      /\ "PaymentSentSuccess" \in notices'[n][h] <=> "PaymentSentSuccess" \in notices[n][h]
      /\ "PaymentReceivedSuccess" \in notices'[p][h]
           <=> "PaymentReceivedSuccess" \in notices[p][h]
      /\ IsLockLocked(ourState'[n], h) <=> IsLockLocked(ourState[n], h)
      /\ IsSecretKnown(partnerState[p], h) => IsSecretKnown(partnerState'[p], h)
  BY DEF HashSame, Outcomes
<1>3. Known(n, h)' <=> Known(n, h)
  BY <1>1, <1>2 DEF Known
<1>4. InitiatorSide(n, h)'
  BY <1>1, <1>2, <1>3 DEF InitiatorSide
<1>5. TargetSide(n, h)'
  BY <1>1, <1>2, <1>3 DEF TargetSide, RegisteredSame
<1> QED BY <1>4, <1>5

\* The operators of one direction depend on four values only.
LEMMA QuietLink ==
  ASSUME LinkTypes, NEW n \in Node, LinkOf(n), Quiet(n)
  PROVE  LinkOf(n)' /\ \A h : SaidSame(n, h)
<1>1. LinkOf(n)'
  BY DEF LinkOf, Quiet
<1>2. StuckAt(n) => StuckAt(n)'
  BY DEF StuckAt, Quiet
<1>3. ASSUME NEW h, NEW type
      PROVE  /\ Sent(n, type, h)' <=> Sent(n, type, h)
             /\ Got(n, type, h)' <=> Got(n, type, h)
  BY DEF Sent, Got, Quiet
<1> QED BY <1>1, <1>2, <1>3 DEF SaidSame

\* What n says with a message it appends.
LEMMA AppendsSaid ==
  ASSUME LinkTypes, NEW n \in Node, NEW m \in Message, Appends(n, m)
  PROVE  /\ \A type, h : /\ Sent(n, type, h)' <=> Sent(n, type, h) \/ About(m, type, h)
                         /\ Got(n, type, h)' <=> Got(n, type, h)
         /\ StuckAt(n)' <=> StuckAt(n)
<1>1. /\ sent[n] \in Seq(Message) /\ received[n] \in Nat
      /\ received[n] <= Len(sent[n]) /\ Len(sent[n]) \in Nat
      /\ Len(sent[n]) <= Len(sent[n])
  BY Appended DEF LinkTypes
<1>2. ASSUME NEW type, NEW h
      PROVE  /\ Sent(n, type, h)' <=> Sent(n, type, h) \/ About(m, type, h)
             /\ Got(n, type, h)' <=> Got(n, type, h)
  BY <1>1, SaidMore DEF Sent, Got, Appends
<1>3. StuckAt(n)' <=> StuckAt(n)
  BY <1>1, RefusalsStay DEF StuckAt, Appends
<1> QED BY <1>2, <1>3

\* A message appended in its order keeps the direction in order.
LEMMA AppendsLink ==
  ASSUME LinkTypes, NEW n \in Node, LinkOf(n), NEW m \in Message, Appends(n, m),
         \/ /\ m \in ProofMessage /\ Succeeds(m, ourState[n].balanceProof)
            /\ ourState'[n].balanceProof = m.bp
         \/ /\ m \in RevealMessage
            /\ ourState'[n].balanceProof = ourState[n].balanceProof,
         \A h \in SecretHash : Ends(m, h) =>
           /\ Sent(n, "LockedTransfer", h)
           /\ ~Sent(n, "Unlock", h) /\ ~Sent(n, "LockExpired", h)
  PROVE  LinkOf(n)'
<1>1. /\ sent[n] \in Seq(Message) /\ received[n] \in Nat
      /\ received[n] <= Len(sent[n]) /\ ourState[n].balanceProof \in BalanceProof
  BY EndStateTypes DEF LinkTypes
<1>2. Ordered(sent'[n])
  BY <1>1, OrderKept DEF LinkOf, Appends, Sent
<1>3. Link(sent'[n], received'[n], ourState'[n].balanceProof,
           partnerState'[Partner(n)].balanceProof)
  <2>1. CASE /\ m \in ProofMessage /\ Succeeds(m, ourState[n].balanceProof)
             /\ ourState'[n].balanceProof = m.bp
    BY <1>1, <2>1, LinkSigns DEF LinkOf, Appends
  <2>2. CASE /\ m \in RevealMessage
             /\ ourState'[n].balanceProof = ourState[n].balanceProof
    BY <1>1, <2>2, LinkReveals DEF LinkOf, Appends
  <2> QED BY <2>1, <2>2
<1> QED BY <1>2, <1>3 DEF LinkOf

\* The next message arrives: it is the next proof and is taken over, or the
\* receiver's record stays.
LEMMA ArrivesLink ==
  ASSUME LinkTypes, NEW n \in Node, LinkOf(n), Arrives(n)
  PROVE  LET m == sent[n][received[n] + 1]
             known == partnerState[Partner(n)].balanceProof
             known1 == partnerState'[Partner(n)].balanceProof
             next == HasProof(m) /\ m.bp.nonce = known.nonce + 1
         IN /\ m \in Message /\ m \in Range(sent[n])
            /\ \A type, h : /\ Sent(n, type, h)' <=> Sent(n, type, h)
                            /\ Got(n, type, h)' <=> Got(n, type, h) \/ About(m, type, h)
            /\ next => Succeeds(m, known)
            /\ next /\ known1 = m.bp =>
                 LinkOf(n)' /\ (StuckAt(n) => StuckAt(n)')
            /\ known1 = known /\ (next => m.type = "LockExpired") =>
                 /\ LinkOf(n)' /\ (StuckAt(n) => StuckAt(n)')
                 /\ HasProof(m) => StuckAt(n)'
<1> DEFINE s == sent[n]
           r == received[n]
           m == s[r + 1]
           last == ourState[n].balanceProof
           known == partnerState[Partner(n)].balanceProof
           known1 == partnerState'[Partner(n)].balanceProof
           next == HasProof(m) /\ m.bp.nonce = known.nonce + 1
<1>1. /\ s \in Seq(Message) /\ r \in Nat /\ r <= Len(s) /\ r < Len(s)
      /\ known \in BalanceProof
  BY EndStateTypes, Partners DEF LinkTypes, Arrives
<1>2. /\ sent'[n] = s /\ received'[n] = r + 1 /\ ourState'[n].balanceProof = last
  BY DEF Arrives
<1>3. Link(s, r, last, known) /\ Ordered(s)
  BY DEF LinkOf
<1>4. r + 1 \in 1 .. Len(s) /\ DOMAIN s = 1 .. Len(s)
  BY <1>1
<1>5. m \in Message /\ m \in Range(s)
  BY <1>1, <1>4 DEF Range
<1>6. ASSUME NEW type, NEW h
      PROVE  /\ Sent(n, type, h)' <=> Sent(n, type, h)
             /\ Got(n, type, h)' <=> Got(n, type, h) \/ About(m, type, h)
  BY <1>1, <1>2, <1>5, SaidMore DEF Sent, Got
<1>7. next => Succeeds(m, known) /\ ~Stuck(s, r, known)
  BY <1>1, <1>3, NewIsNext
<1>8. next => Link(s, r + 1, last, m.bp)
  BY <1>1, <1>3, LinkAccepts
<1>9. ASSUME next => m.type = "LockExpired"
      PROVE  /\ Link(s, r + 1, last, known)
             /\ Stuck(s, r, known) => Stuck(s, r + 1, known)
             /\ HasProof(m) => Stuck(s, r + 1, known)
  BY <1>1, <1>3, <1>9, LinkPasses
<1>10. /\ LinkOf(n)' <=> Link(s, r + 1, last, known1) /\ Ordered(s)
       /\ StuckAt(n) <=> Stuck(s, r, known)
       /\ StuckAt(n)' <=> Stuck(s, r + 1, known1)
  BY <1>2 DEF LinkOf, StuckAt
<1> HIDE DEF s, r, m, last, known, known1
<1> SUFFICES /\ m \in Message /\ m \in Range(s)
             /\ \A type, h : /\ Sent(n, type, h)' <=> Sent(n, type, h)
                             /\ Got(n, type, h)' <=> Got(n, type, h) \/ About(m, type, h)
             /\ next => Succeeds(m, known)
             /\ next /\ known1 = m.bp =>
                  LinkOf(n)' /\ (StuckAt(n) => StuckAt(n)')
             /\ known1 = known /\ (next => m.type = "LockExpired") =>
                  /\ LinkOf(n)' /\ (StuckAt(n) => StuckAt(n)')
                  /\ HasProof(m) => StuckAt(n)'
  BY DEF s, r, m, last, known, known1
<1> QED BY <1>3, <1>5, <1>6, <1>7, <1>8, <1>9, <1>10

-----------------------------------------------------------------------------
(* What the operations of EndState do to the locks of a secret hash.       *)

\* A transfer moves no lock.
LEMMA TransferLocks ==
  ASSUME NEW end \in EndStates, NEW bp
  PROVE  LET new == WithTransfer(end, bp)
         IN /\ new.lockedLocks = end.lockedLocks
            /\ new.unLockedLocks = end.unLockedLocks
            /\ new.onChainUnLockedLocks = end.onChainUnLockedLocks
BY DEF WithTransfer, EndStates

\* A new lock is locked.
LEMMA LockLocks ==
  ASSUME NEW end \in EndStates, NEW bp, NEW lock
  PROVE  LET new == WithLock(end, bp, lock)
         IN /\ new.lockedLocks \subseteq end.lockedLocks \cup {lock}
            /\ new.unLockedLocks = end.unLockedLocks
            /\ new.onChainUnLockedLocks = end.onChainUnLockedLocks
            /\ IsLockLocked(new, lock.secretHash)
            /\ \A h : h # lock.secretHash =>
                 (IsLockLocked(new, h) <=> IsLockLocked(end, h))
<1> DEFINE new == WithLock(end, bp, lock)
<1>1. /\ new.lockedLocks =
           (end.lockedLocks \ LocksOf(end.lockedLocks, lock.secretHash)) \cup {lock}
      /\ new.unLockedLocks = end.unLockedLocks
      /\ new.onChainUnLockedLocks = end.onChainUnLockedLocks
  BY DEF WithLock, EndStates
<1> HIDE DEF new
<1>2. \A h : h # lock.secretHash =>
        (IsLockLocked(new, h) <=> IsLockLocked(end, h))
  BY <1>1 DEF IsLockLocked, LocksOf
<1>3. IsLockLocked(new, lock.secretHash)
  BY <1>1 DEF IsLockLocked, LocksOf
<1> QED BY <1>1, <1>2, <1>3 DEF new

\* An unlock, or the removal of an expired lock, takes away the lock it names.
LEMMA RemovedLocks ==
  ASSUME NEW end \in EndStates, NEW bp, NEW lock,
         NEW new \in {WithUnlock(end, bp, lock), WithoutExpired(end, bp, lock)}
  PROVE  /\ new.lockedLocks \subseteq end.lockedLocks
         /\ new.unLockedLocks \subseteq end.unLockedLocks
         /\ new.onChainUnLockedLocks \subseteq end.onChainUnLockedLocks
         /\ ~IsLockLocked(new, lock.secretHash)
         /\ \A h : h # lock.secretHash =>
              /\ IsLockLocked(new, h) <=> IsLockLocked(end, h)
              /\ IsSecretKnown(new, h) <=> IsSecretKnown(end, h)
<1>1. /\ new.lockedLocks =
           end.lockedLocks \ LocksOf(end.lockedLocks, lock.secretHash)
      /\ new.unLockedLocks =
           end.unLockedLocks \ LocksOf(end.unLockedLocks, lock.secretHash)
      /\ \/ new.onChainUnLockedLocks = end.onChainUnLockedLocks
         \/ new.onChainUnLockedLocks = end.onChainUnLockedLocks
              \ LocksOf(end.onChainUnLockedLocks, lock.secretHash)
  BY DEF WithUnlock, WithoutExpired, WithoutLeaf, DelLock, DelUnclaimedLock, EndStates
<1>2. ~IsLockLocked(new, lock.secretHash)
  BY <1>1 DEF IsLockLocked, LocksOf
<1>3. ASSUME NEW h, h # lock.secretHash
      PROVE  /\ IsLockLocked(new, h) <=> IsLockLocked(end, h)
             /\ IsSecretKnown(new, h) <=> IsSecretKnown(end, h)
  <2>1. /\ LocksOf(new.lockedLocks, h) = LocksOf(end.lockedLocks, h)
        /\ LocksOf(new.unLockedLocks, h) = LocksOf(end.unLockedLocks, h)
        /\ LocksOf(new.onChainUnLockedLocks, h) = LocksOf(end.onChainUnLockedLocks, h)
    BY <1>1, <1>3 DEF LocksOf
  <2> QED BY <2>1 DEF IsLockLocked, IsSecretKnown, IsSecretKnownOffChain,
                      IsSecretKnownOnChain
<1> QED BY <1>1, <1>2, <1>3

\* A secret that was learnt from a message unlocks the lock with its hash.
LEMMA RegisteredLocks ==
  ASSUME NEW end \in EndStates, NEW h
  PROVE  LET new == RegisterSecretEndState(end, h)
         IN /\ new.lockedLocks \subseteq end.lockedLocks
            /\ new.onChainUnLockedLocks = end.onChainUnLockedLocks
            /\ ~IsLockLocked(end, h) =>
                 /\ new.lockedLocks = end.lockedLocks
                 /\ new.unLockedLocks = end.unLockedLocks
            /\ IsLockLocked(end, h) => IsSecretKnown(new, h)
            /\ \A k : /\ IsSecretKnown(end, k) => IsSecretKnown(new, k)
                      /\ k # h => (IsLockLocked(new, k) <=> IsLockLocked(end, k))
<1> DEFINE new == RegisterSecretEndState(end, h)
<1>1. /\ new.lockedLocks = end.lockedLocks \ LocksOf(end.lockedLocks, h)
      /\ new.unLockedLocks = end.unLockedLocks \cup LocksOf(end.lockedLocks, h)
      /\ new.onChainUnLockedLocks = end.onChainUnLockedLocks
  BY DEF RegisterSecretEndState, EndStates
<1> HIDE DEF new
<1>2. IsLockLocked(end, h) => IsSecretKnown(new, h)
  BY <1>1 DEF IsLockLocked, IsSecretKnown, IsSecretKnownOffChain, LocksOf
<1>3. ~IsLockLocked(end, h) => /\ new.lockedLocks = end.lockedLocks
                               /\ new.unLockedLocks = end.unLockedLocks
  BY <1>1 DEF IsLockLocked
<1>4. ASSUME NEW k
      PROVE  /\ IsSecretKnown(end, k) => IsSecretKnown(new, k)
             /\ k # h => (IsLockLocked(new, k) <=> IsLockLocked(end, k))
  BY <1>1 DEF IsLockLocked, IsSecretKnown, IsSecretKnownOffChain,
              IsSecretKnownOnChain, LocksOf
<1> QED BY <1>1, <1>2, <1>3, <1>4 DEF new

\* One that was registered on the chain unlocks it if that was in time.
LEMMA OnChainLocks ==
  ASSUME NEW end \in EndStates, NEW h, NEW b \in Nat
  PROVE  LET new == RegisterOnChainSecretEndState(end, h, b)
         IN /\ new.lockedLocks \subseteq end.lockedLocks
            /\ \A l \in new.onChainUnLockedLocks :
                 \/ l \in end.onChainUnLockedLocks
                 \/ l.secretHash = h /\ l.expiration >= b
            /\ ~IsLockPending(end, h) =>
                 /\ new.lockedLocks = end.lockedLocks
                 /\ new.unLockedLocks = end.unLockedLocks
                 /\ new.onChainUnLockedLocks = end.onChainUnLockedLocks
            /\ \A k : /\ IsSecretKnown(end, k) => IsSecretKnown(new, k)
                      /\ k # h => (IsLockLocked(new, k) <=> IsLockLocked(end, k))
<1> DEFINE new == RegisterOnChainSecretEndState(end, h, b)
           off == LocksOf(end.lockedLocks \cup end.unLockedLocks, h)
           pending == {l \in off : l.expiration >= b}
<1>1. CASE pending = {}
  <2>1. new = end
    BY <1>1 DEF RegisterOnChainSecretEndState
  <2> QED BY <2>1
<1>2. CASE pending # {}
  <2>1. /\ new.lockedLocks = end.lockedLocks \ LocksOf(end.lockedLocks, h)
        /\ new.unLockedLocks = end.unLockedLocks \ LocksOf(end.unLockedLocks, h)
        /\ new.onChainUnLockedLocks =
             (end.onChainUnLockedLocks \ LocksOf(end.onChainUnLockedLocks, h))
               \cup pending
    BY <1>2 DEF RegisterOnChainSecretEndState, DelLock, DelUnclaimedLock, EndStates
  <2>2. \A l \in pending : l.secretHash = h /\ l.expiration >= b
                           /\ l \in PendingLocks(end)
    BY DEF LocksOf, PendingLocks
  <2> HIDE DEF new, pending
  <2>3. IsLockPending(end, h)
    BY <1>2, <2>2 DEF IsLockPending, LocksOf
  <2>4. IsSecretKnown(new, h)
    BY <1>2, <2>1, <2>2 DEF IsSecretKnown, IsSecretKnownOnChain, LocksOf
  <2>5. ASSUME NEW k, k # h
        PROVE  /\ IsSecretKnown(end, k) => IsSecretKnown(new, k)
               /\ IsLockLocked(new, k) <=> IsLockLocked(end, k)
    <3>1. /\ LocksOf(new.lockedLocks, k) = LocksOf(end.lockedLocks, k)
          /\ LocksOf(new.unLockedLocks, k) = LocksOf(end.unLockedLocks, k)
          /\ LocksOf(new.onChainUnLockedLocks, k) = LocksOf(end.onChainUnLockedLocks, k)
      BY <2>1, <2>2, <2>5 DEF LocksOf
    <3> QED BY <3>1 DEF IsLockLocked, IsSecretKnown, IsSecretKnownOffChain,
                        IsSecretKnownOnChain
  <2>6. \A l \in new.onChainUnLockedLocks :
          \/ l \in end.onChainUnLockedLocks
          \/ l.secretHash = h /\ l.expiration >= b
    BY <2>1, <2>2
  <2> QED BY <2>1, <2>3, <2>4, <2>5, <2>6 DEF new
<1> QED BY <1>1, <1>2

\* Whether a secret is known depends on two of the lock maps.
LEMMA KnownBy ==
  ASSUME NEW end, NEW new
  PROVE  /\ /\ new.unLockedLocks = end.unLockedLocks
            /\ new.onChainUnLockedLocks = end.onChainUnLockedLocks
            => \A h : IsSecretKnown(new, h) <=> IsSecretKnown(end, h)
         /\ new.lockedLocks = end.lockedLocks
            => \A h : IsLockLocked(new, h) <=> IsLockLocked(end, h)
BY DEF IsSecretKnown, IsSecretKnownOffChain, IsSecretKnownOnChain, IsLockLocked

-----------------------------------------------------------------------------
(* Steps, one after another.                                               *)

Kept == Links' /\ OwnLocksLocked' /\ Payments' /\ Clock'

\* When nothing happens to any payment they are all as they were.
LEMMA PaymentsSame ==
  ASSUME Payments,
         \A n \in Node, h \in SecretHash : HashSame(n, h) /\ SaidSame(n, h),
         \A h \in SecretHash : RegisteredSame(h)
  PROVE  Payments'
<1> SUFFICES ASSUME NEW n \in Node, NEW h \in SecretHash
             PROVE  InitiatorSide(n, h)' /\ TargetSide(n, h)'
  BY DEF Payments
<1> QED BY PaymentSame, Partners DEF Payments

\* Steps of a node that neither look at the clock nor move it: no lock, no
\* transfer, no failure and no target's task is added.
LEMMA ClockSame ==
  ASSUME Clock, UNCHANGED <<block, todo, seen, height, mined, mineBy>>,
         \A n \in Node :
           /\ ourState'[n].lockedLocks \subseteq ourState[n].lockedLocks
           /\ partnerState'[n].onChainUnLockedLocks
                \subseteq partnerState[n].onChainUnLockedLocks
           /\ \A m \in Range(sent'[n]) :
                m.type = "LockedTransfer" => m \in Range(sent[n])
           /\ \A m \in Range(sent[n]) : m.type = "LockedTransfer" =>
                LET h == m.lock.secretHash
                IN "PaymentSentFailed" \in notices'[n][h]
                     => "PaymentSentFailed" \in notices[n][h]
           /\ \A m \in Range(sent[Partner(n)]) : m.type = "LockedTransfer" =>
                LET h == m.lock.secretHash
                IN task'[n][h] \in TargetState => task[n][h] \in TargetState
  PROVE  Clock'
<1>1. Heights' /\ Registrations' /\ SeenInTime'
  BY DEF Clock, Heights, Registrations, SeenInTime
<1>2. LockedUntilLate'
  BY DEF Clock, LockedUntilLate
<1>3. FailedLate'
  BY DEF Clock, FailedLate
<1>4. OnChainInTime'
  BY DEF Clock, OnChainInTime
<1>5. RegisteredInTime'
  BY Partners DEF Clock, RegisteredInTime
<1> QED BY <1>1, <1>2, <1>3, <1>4, <1>5 DEF Clock

\* A message appended adds itself to the messages sent.
LEMMA AppendRange ==
  ASSUME LinkTypes, NEW n \in Node, NEW m \in Message, Appends(n, m)
  PROVE  Range(sent'[n]) = Range(sent[n]) \cup {m}
BY RangeAppend DEF LinkTypes, Appends

\* Node n sends m; its partner does nothing.
LEMMA SendAppends ==
  ASSUME LinkTypes, NEW n \in Node, NEW m, Send(n, m), received' = received,
         partnerState' = partnerState, NEW new,
         ourState' = [ourState EXCEPT ![n] = new]
  PROVE  /\ Appends(n, m) /\ Quiet(Partner(n))
         /\ ourState'[n] = new /\ ourState'[Partner(n)] = ourState[Partner(n)]
<1>1. Partner(n) \in Node /\ Partner(n) # n
  BY Partners
<1> QED BY <1>1 DEF LinkTypes, Send, Appends, Quiet

\* handleSendDirectTransfer.
LEMMA DirectPays ==
  ASSUME PaymentInv, NEW n \in Node, NEW amount \in Amounts,
         handleSendDirectTransfer(n, amount)
  PROVE  Kept
<1> DEFINE p == Partner(n)
           our == ourState[n]
           bp == createSendDirectTransfer(our, amount)
           new == WithTransfer(our, bp)
           m == [type |-> "DirectTransfer", bp |-> bp]
           T == our.balanceProof.transferredAmount
           L == our.balanceProof.lockedAmount
           limit == GetDistributable(our, partnerState[n])
<1>1. p \in Node /\ p # n /\ \A k \in Node : k # n => k = p
  BY Partners
<1>2. LinkTypes /\ Ledger
  BY LinkTyping, Parts DEF PaymentInv
<1>3. our \in EndStates /\ Books(our) /\ amount \in Amount
  BY TransfersAssumption DEF PaymentInv, Ledger, LedgerInv, TypeOK, BooksAgree
<1>4. /\ T \in Nat /\ L \in Nat /\ amount \in Nat /\ limit \in Nat
      /\ amount <= limit /\ amount > 0 /\ MaxUint64 \in Nat
      /\ limit <= MaxUint64 - T - L
  BY <1>2, <1>3, EndStateTypes, AmountFacts, Spendable DEF handleSendDirectTransfer
<1>5. amount <= MaxUint64 - T - L /\ T + amount > T /\ T + amount + L <= MaxUint64
  <2> HIDE DEF T, L, limit
  <2> QED BY <1>4
<1>6. /\ bp \in BalanceProof /\ bp.nonce = our.balanceProof.nonce + 1
      /\ bp.locksRoot = our.balanceProof.locksRoot
      /\ bp.lockedAmount = L /\ bp.transferredAmount = T + amount
  BY <1>3, <1>5, DirectProof
<1>7. /\ new.balanceProof = bp /\ new.lockedLocks = our.lockedLocks
      /\ new.unLockedLocks = our.unLockedLocks
      /\ new.onChainUnLockedLocks = our.onChainUnLockedLocks
  BY <1>3, TransferLocks DEF WithTransfer, EndStates
<1>8. /\ ourState' = [ourState EXCEPT ![n] = new] /\ partnerState' = partnerState
      /\ Send(n, m) /\ received' = received
      /\ UNCHANGED <<task, notices, block, todo, seen, height, mined, mineBy>>
  BY DEF handleSendDirectTransfer, blockVars, chainVars
<1> HIDE DEF new, bp
<1>9. /\ m \in Message /\ m \in ProofMessage
      /\ m.bp = bp /\ m.type = "DirectTransfer"
  BY <1>6 DEF Message, ProofMessage
<1>10. Succeeds(m, our.balanceProof)
  BY <1>5, <1>6, <1>9 DEF Succeeds
<1> HIDE DEF m
<1>11. /\ Appends(n, m) /\ Quiet(p)
       /\ ourState'[n] = new /\ ourState'[p] = ourState[p]
  BY <1>2, <1>8, SendAppends
<1>12. \A type \in Kinds : \A h : ~About(m, type, h)
  BY <1>9 DEF About, Kinds
<1>13. Links'
  <2>1. LinkOf(n)'
    BY <1>2, <1>7, <1>9, <1>10, <1>11, <1>12, AppendsLink
       DEF PaymentInv, Links, Ends, Kinds
  <2>2. LinkOf(p)'
    BY <1>1, <1>2, <1>11, QuietLink DEF PaymentInv, Links
  <2> QED BY <1>1, <2>1, <2>2 DEF Links
<1>14. OwnLocksLocked'
  BY <1>1, <1>7, <1>11 DEF PaymentInv, OwnLocksLocked
<1>15. Payments'
  <2>1. \A h : SaidSame(n, h)
    BY <1>2, <1>9, <1>11, <1>12, AppendsSaid DEF SaidSame
  <2>2. \A h : SaidSame(p, h)
    BY <1>1, <1>2, <1>11, QuietLink DEF PaymentInv, Links
  <2>3. \A k \in Node, h \in SecretHash : HashSame(k, h)
    BY <1>1, <1>7, <1>8, <1>11, KnownBy DEF HashSame
  <2>4. \A h \in SecretHash : RegisteredSame(h)
    BY <1>8 DEF RegisteredSame
  <2> QED BY <1>1, <2>1, <2>2, <2>3, <2>4, PaymentsSame DEF PaymentInv
<1>16. Clock'
  <2>1. Range(sent'[n]) = Range(sent[n]) \cup {m} /\ sent'[p] = sent[p]
    BY <1>2, <1>9, <1>11, AppendRange DEF Quiet
  <2> QED BY <1>1, <1>7, <1>8, <1>9, <1>11, <2>1, ClockSame DEF PaymentInv
<1> QED BY <1>13, <1>14, <1>15, <1>16 DEF Kept

\* When something happens to one payment only, the others are as they were.
LEMMA PaymentsBut ==
  ASSUME Payments, NEW h0,
         \A n \in Node, h \in SecretHash \ {h0} : HashSame(n, h) /\ SaidSame(n, h),
         \A h \in SecretHash \ {h0} : RegisteredSame(h),
         \A n \in Node : InitiatorSide(n, h0)' /\ TargetSide(n, h0)'
  PROVE  Payments'
<1> SUFFICES ASSUME NEW n \in Node, NEW h \in SecretHash
             PROVE  InitiatorSide(n, h)' /\ TargetSide(n, h)'
  BY DEF Payments
<1>1. CASE h = h0
  BY <1>1
<1>2. CASE h # h0
  BY <1>2, PaymentSame, Partners DEF Payments
<1> QED BY <1>1, <1>2

\* Whatever was received was sent.
LEMMA GotSent ==
  ASSUME LinkTypes, NEW n \in Node, NEW type, NEW h
  PROVE  /\ Got(n, type, h) => Sent(n, type, h)
         /\ Sent(n, type, h) <=> \E m \in Range(sent[n]) : About(m, type, h)
BY SaidSent DEF LinkTypes, Got, Sent

\* Of a secret hash that was never used nothing is known anywhere.
LEMMA FreshHash ==
  ASSUME LinkTypes, Payments, NEW h \in SecretHash, Fresh(h)
  PROVE  /\ mined[h] = 0 /\ mineBy[h] = 0
         /\ \A k \in Node :
              /\ notices[k][h] = {}
              /\ task[k][h] # "initiator" /\ task[k][h] \notin TargetState
              /\ ~IsLockLocked(ourState[k], h)
              /\ \A type \in Kinds : ~Sent(k, type, h) /\ ~Got(k, type, h)
              /\ \A m \in Range(sent[k]) :
                   m.type = "LockedTransfer" => m.lock.secretHash # h
<1>1. \A k \in Node : /\ notices[k][h] = {}
                      /\ \A m \in Range(sent[k]) :
                           m.type = "LockedTransfer" => m.lock.secretHash # h
  BY DEF Fresh
<1>2. \A k \in Node : ~Sent(k, "LockedTransfer", h)
  BY <1>1, GotSent DEF About
<1>3. \A k \in Node : /\ InitiatorSide(k, h) /\ TargetSide(k, h)
                      /\ Partner(k) \in Node /\ Partner(Partner(k)) = k
  BY Partners DEF Payments
<1>4. \A k \in Node :
        /\ task[k][h] # "initiator" /\ ~IsLockLocked(ourState[k], h)
        /\ ~Sent(k, "Unlock", h) /\ ~Sent(k, "LockExpired", h)
  BY <1>1, <1>2, <1>3 DEF InitiatorSide
<1>5. \A k \in Node : /\ task[Partner(k)][h] \notin TargetState
                      /\ ~Sent(Partner(k), "RevealSecret", h)
                      /\ ~(mineBy[h] # 0 \/ mined[h] # 0)
  BY <1>2, <1>3 DEF TargetSide
<1>6. \A k \in Node : task[k][h] \notin TargetState /\ ~Sent(k, "RevealSecret", h)
  BY <1>3, <1>5
<1>7. mined[h] = 0 /\ mineBy[h] = 0
  BY <1>5 DEF Node
<1>8. \A k \in Node : \A type \in Kinds : ~Sent(k, type, h)
  BY <1>2, <1>4, <1>6 DEF Kinds
<1>9. \A k \in Node : \A type \in Kinds : ~Got(k, type, h)
  BY <1>8, GotSent
<1> QED BY <1>1, <1>4, <1>6, <1>7, <1>8, <1>9

\* A locked transfer follows the proof it was made from, if its lock is new.
LEMMA LockedSucceeds ==
  ASSUME NEW end \in EndStates, Books(end), NEW lock \in Lock,
         ~IsLockPending(end, lock.secretHash),
         MerkleTreeWidth(end.merkleTree) < MAXIMUM_PENDING_TRANSFERS,
         lock.amount <= MaxUint64 - end.balanceProof.transferredAmount
                          - end.balanceProof.lockedAmount,
         NEW m, m.type = "LockedTransfer", m.lock = lock,
         m.bp = createSendLockedTransfer(end, lock)
  PROVE  m.bp \in BalanceProof /\ Succeeds(m, end.balanceProof)
<1>1. /\ m.bp \in BalanceProof
      /\ m.bp.nonce = end.balanceProof.nonce + 1
      /\ m.bp.locksRoot = end.merkleTree \cup {lock}
      /\ m.bp.lockedAmount = end.balanceProof.lockedAmount + lock.amount
      /\ m.bp.transferredAmount = end.balanceProof.transferredAmount
  BY LockedProof
<1>2. /\ end.balanceProof.locksRoot = end.merkleTree
      /\ end.merkleTree = PendingLocks(end)
  BY DEF Books
<1>3. lock \notin end.merkleTree
  BY <1>2 DEF IsLockPending, LocksOf
<1>4. end.balanceProof.transferredAmount + (end.balanceProof.lockedAmount + lock.amount)
        <= MaxUint64
  BY EndStateTypes, EndStateAssumption DEF Amount, Lock
<1>5. Cardinality(m.bp.locksRoot) <= MAXIMUM_PENDING_TRANSFERS
  <2>1. IsFiniteSet(end.merkleTree)
    BY EndStateTypes DEF LockSet
  <2>2. Cardinality(m.bp.locksRoot) = Cardinality(end.merkleTree) + 1
    BY <1>1, <1>3, <2>1, FS_AddElement
  <2>3. Cardinality(end.merkleTree) \in Nat
    BY <2>1, FS_CardinalityType
  <2> QED BY <2>2, <2>3, EndStateAssumption DEF MerkleTreeWidth
<1> QED BY <1>1, <1>2, <1>3, <1>5, <1>4 DEF Succeeds

\* InitTryNewRoute.
LEMMA RoutePays ==
  ASSUME PaymentInv, NEW n \in Node, NEW h0 \in SecretHash, NEW amount \in Amounts,
         InitTryNewRoute(n, h0, amount)
  PROVE  Kept
<1> DEFINE p == Partner(n)
           our == ourState[n]
           lock == [secretHash |-> h0, amount |-> amount,
                    expiration |-> InitGetInitialLockExpiration(n)]
           bp == createSendLockedTransfer(our, lock)
           new == WithLock(our, bp, lock)
           m == [type |-> "LockedTransfer", bp |-> bp, lock |-> lock]
           T == our.balanceProof.transferredAmount
           L == our.balanceProof.lockedAmount
           limit == GetDistributable(our, partnerState[n])
<1>1. /\ p \in Node /\ p # n /\ Partner(p) = n
      /\ \A k \in Node : k # n => k = p
  BY Partners
<1>2. LinkTypes /\ Ledger /\ TaskTypes /\ ClockTypes
  BY LinkTyping, Parts DEF PaymentInv
<1>3. /\ Fresh(h0) /\ partnerState' = partnerState /\ received' = received
      /\ UNCHANGED <<block, todo, seen, height, mined, mineBy>>
  BY DEF InitTryNewRoute, blockVars, chainVars
<1>4. /\ mined[h0] = 0 /\ mineBy[h0] = 0
      /\ \A k \in Node :
           /\ notices[k][h0] = {}
           /\ task[k][h0] # "initiator" /\ task[k][h0] \notin TargetState
           /\ ~IsLockLocked(ourState[k], h0)
           /\ \A type \in Kinds : ~Sent(k, type, h0) /\ ~Got(k, type, h0)
           /\ \A x \in Range(sent[k]) :
                x.type = "LockedTransfer" => x.lock.secretHash # h0
  BY <1>2, <1>3, FreshHash DEF PaymentInv
<1>5. /\ {"LockedTransfer", "Unlock", "LockExpired", "RevealSecret"} \subseteq Kinds
      /\ "initiator" \notin TargetState
  BY DEF Kinds, TargetState
<1>6. \A h \in SecretHash : RegisteredSame(h)
  BY <1>3 DEF RegisteredSame
<1>7. CASE Tell(n, h0, "PaymentSentFailed") /\ UNCHANGED <<ourState, task, sent>>
  <2>1. Quiet(n) /\ Quiet(p)
    BY <1>3, <1>7 DEF Quiet
  <2>2. LinkOf(n)' /\ LinkOf(p)' /\ \A h : SaidSame(n, h) /\ SaidSame(p, h)
    BY <1>1, <1>2, <2>1, QuietLink DEF PaymentInv, Links
  <2>3. Links' /\ OwnLocksLocked'
    BY <1>1, <1>7, <2>2 DEF PaymentInv, Links, OwnLocksLocked
  <2>4. /\ \A k \in Node, h \in SecretHash :
             k # n \/ h # h0 => notices'[k][h] = notices[k][h]
        /\ notices'[n][h0] = {"PaymentSentFailed"}
    BY <1>2, <1>4, <1>7 DEF Tell, TaskTypes
  <2>5. \A k \in Node, h \in SecretHash \ {h0} : HashSame(k, h)
    BY <1>3, <1>7, <2>4 DEF HashSame
  <2>6. \A k \in Node : \A type \in Kinds :
          /\ ~Sent(k, type, h0)'
          /\ type # "LockedTransfer" => ~Got(k, type, h0)'
    BY <1>1, <1>4, <2>2 DEF SaidSame
  <2>7. ASSUME NEW k \in Node
        PROVE  InitiatorSide(k, h0)' /\ TargetSide(k, h0)'
    <3>1. Partner(k) \in Node /\ Partner(k) # k
      BY Partners
    <3>2. InitiatorSide(k, h0)'
      BY <1>1, <1>4, <1>5, <1>7, <2>4, <2>6, <3>1 DEF InitiatorSide
    <3>3. TargetSide(k, h0)'
      BY <1>3, <1>4, <1>5, <1>7, <2>4, <2>6, <3>1 DEF TargetSide, TargetState
    <3> QED BY <3>2, <3>3
  <2>8. Payments'
    BY <1>1, <1>6, <2>2, <2>5, <2>7, PaymentsBut DEF PaymentInv
  <2>9. Clock'
    <3>1. \A k \in Node : \A x \in Range(sent[k]) : x.type = "LockedTransfer" =>
            x.lock \in Lock /\ x.lock.secretHash \in SecretHash \ {h0}
      BY <1>2, <1>4, RangeAppend, MessageFields DEF LinkTypes, Range, Lock
    <3> QED BY <1>1, <1>3, <1>7, <2>4, <3>1, ClockSame DEF PaymentInv
  <2> QED BY <2>3, <2>8, <2>9 DEF Kept
<1>8. CASE /\ MerkleTreeWidth(our.merkleTree) < MAXIMUM_PENDING_TRANSFERS
           /\ amount <= limit
           /\ ourState' = [ourState EXCEPT ![n] = new]
           /\ SetTask(n, h0, "initiator") /\ Send(n, m) /\ UNCHANGED notices
  <2>1. our \in EndStates /\ Books(our) /\ amount \in Amount
    BY TransfersAssumption DEF PaymentInv, Ledger, LedgerInv, TypeOK, BooksAgree
  <2>2. /\ T \in Nat /\ L \in Nat /\ amount \in Nat /\ limit \in Nat
        /\ amount <= limit /\ MaxUint64 \in Nat
        /\ limit <= MaxUint64 - T - L
    BY <1>2, <1>8, <2>1, EndStateTypes, AmountFacts, Spendable
  <2>3. amount <= MaxUint64 - T - L
    <3> HIDE DEF T, L, limit
    <3> QED BY <2>2
  <2>4. lock \in Lock /\ lock.amount = amount /\ lock.secretHash = h0
    BY <1>2, <2>1, TransfersAssumption DEF Lock, InitGetInitialLockExpiration, ClockTypes
  <2>5. ~IsLockPending(our, h0)
    BY <1>4 DEF IsLockPending, IsLockLocked, LocksOf, PendingLocks, PaymentInv,
       OwnLocksLocked
  <2> HIDE DEF lock
  <2>6. bp \in BalanceProof /\ Succeeds(m, our.balanceProof)
    <3>1. m.type = "LockedTransfer" /\ m.lock = lock /\ m.bp = bp
      OBVIOUS
    <3> HIDE DEF m
    <3> QED BY <1>8, <2>1, <2>3, <2>4, <2>5, <3>1, LockedSucceeds
  <2>7. /\ new.balanceProof = bp
        /\ new.lockedLocks \subseteq our.lockedLocks \cup {lock}
        /\ new.unLockedLocks = our.unLockedLocks
        /\ new.onChainUnLockedLocks = our.onChainUnLockedLocks
        /\ IsLockLocked(new, h0)
        /\ \A h : h # h0 => (IsLockLocked(new, h) <=> IsLockLocked(our, h))
    BY <2>1, <2>4, LockLocks DEF WithLock, EndStates
  <2> HIDE DEF new, bp
  <2>8. /\ m \in Message /\ m \in ProofMessage
        /\ m.bp = bp /\ m.type = "LockedTransfer" /\ m.lock = lock
    BY <2>4, <2>6 DEF Message, ProofMessage
  <2> HIDE DEF m
  <2>9. /\ Appends(n, m) /\ Quiet(p)
        /\ ourState'[n] = new /\ ourState'[p] = ourState[p]
    BY <1>2, <1>3, <1>8, SendAppends
  <2>10. \A type \in Kinds : \A h :
           About(m, type, h) <=> type = "LockedTransfer" /\ h = h0
    BY <2>4, <2>8 DEF About, Kinds
  <2>11. Links'
    <3>1. \A h : ~Ends(m, h)
      BY <2>8 DEF Ends, About
    <3>2. LinkOf(n)'
      BY <1>2, <2>6, <2>7, <2>8, <2>9, <3>1, AppendsLink DEF PaymentInv, Links
    <3>3. LinkOf(p)'
      BY <1>1, <1>2, <2>9, QuietLink DEF PaymentInv, Links
    <3> QED BY <1>1, <3>2, <3>3 DEF Links
  <2>12. OwnLocksLocked'
    BY <1>1, <2>7, <2>9 DEF PaymentInv, OwnLocksLocked
  <2>13. /\ \A type, h :
              /\ Sent(n, type, h)' <=> Sent(n, type, h) \/ About(m, type, h)
              /\ Got(n, type, h)' <=> Got(n, type, h)
         /\ StuckAt(n)' <=> StuckAt(n)
         /\ \A h : SaidSame(p, h)
    BY <1>1, <1>2, <2>8, <2>9, AppendsSaid, QuietLink DEF PaymentInv, Links
  <2>14. /\ task'[n][h0] = "initiator"
         /\ \A k \in Node, h \in SecretHash :
              k # n \/ h # h0 => task'[k][h] = task[k][h]
    BY <1>2, <1>8 DEF SetTask, TaskTypes
  <2>15. Payments'
    <3>1. \A k \in Node, h \in SecretHash \ {h0} : HashSame(k, h) /\ SaidSame(k, h)
      <4>1. \A h \in SecretHash \ {h0} : SaidSame(n, h)
        BY <2>10, <2>13 DEF SaidSame
      <4>2. \A k \in Node, h \in SecretHash \ {h0} : HashSame(k, h)
        BY <1>1, <1>3, <1>8, <2>7, <2>9, <2>14 DEF HashSame
      <4> QED BY <1>1, <2>13, <4>1, <4>2
    <3>2. /\ Sent(n, "LockedTransfer", h0)'
          /\ ~Sent(n, "Unlock", h0)' /\ ~Sent(n, "LockExpired", h0)'
          /\ ~Sent(n, "RevealSecret", h0)'
          /\ ~Sent(p, "LockedTransfer", h0)'
          /\ ~Sent(p, "Unlock", h0)' /\ ~Sent(p, "LockExpired", h0)'
          /\ ~Sent(p, "RevealSecret", h0)'
          /\ ~Got(n, "Unlock", h0)' /\ ~Got(n, "RevealSecret", h0)'
          /\ ~Got(p, "Unlock", h0)' /\ ~Got(p, "RevealSecret", h0)'
          /\ ~Got(n, "LockExpired", h0)' /\ ~Got(p, "LockExpired", h0)'
      BY <1>1, <1>4, <1>5, <2>10, <2>13 DEF SaidSame
    <3>3. /\ notices'[n][h0] = {} /\ notices'[p][h0] = {}
          /\ task'[p][h0] # "initiator" /\ task'[p][h0] \notin TargetState
          /\ IsLockLocked(ourState'[n], h0) /\ ~IsLockLocked(ourState'[p], h0)
          /\ mined'[h0] = 0 /\ mineBy'[h0] = 0
      BY <1>1, <1>3, <1>4, <1>8, <2>7, <2>9, <2>14
    <3>4. InitiatorSide(n, h0)'
      BY <1>1, <2>14, <3>2, <3>3 DEF InitiatorSide
    <3>5. InitiatorSide(p, h0)'
      BY <1>1, <3>2, <3>3 DEF InitiatorSide
    <3>6. TargetSide(n, h0)'
      BY <1>1, <3>2, <3>3 DEF TargetSide, TargetState
    <3>7. TargetSide(p, h0)'
      BY <1>1, <1>5, <2>14, <3>2, <3>3 DEF TargetSide
    <3>8. \A k \in Node : InitiatorSide(k, h0)' /\ TargetSide(k, h0)'
      BY <1>1, <3>4, <3>5, <3>6, <3>7
    <3> QED BY <1>6, <3>1, <3>8, PaymentsBut DEF PaymentInv
  <2>16. Clock'
    <3>1. Range(sent'[n]) = Range(sent[n]) \cup {m} /\ sent'[p] = sent[p]
      BY <1>2, <2>8, <2>9, AppendRange DEF Quiet
    <3>2. Heights' /\ Registrations' /\ SeenInTime'
      BY <1>3 DEF PaymentInv, Clock, Heights, Registrations, SeenInTime
    <3>3. LockedUntilLate'
      <4>1. \A k \in Node : h0 \notin seen[k]
        BY <1>4 DEF PaymentInv, Clock, SeenInTime
      <4>2. \A k \in Node : \A l \in ourState'[k].lockedLocks :
              l \in ourState[k].lockedLocks \/ l.secretHash = h0
        BY <1>1, <2>4, <2>7, <2>9
      <4> QED BY <1>3, <4>1, <4>2 DEF PaymentInv, Clock, LockedUntilLate
    <3>4. FailedLate'
      BY <1>1, <1>3, <1>4, <1>8, <2>4, <2>8, <3>1 DEF PaymentInv, Clock, FailedLate
    <3>5. OnChainInTime'
      BY <1>3 DEF PaymentInv, Clock, OnChainInTime
    <3>6. RegisteredInTime'
      <4>1. lock.expiration \in Nat
        BY <2>4 DEF Lock
      <4>2. \A k \in Node : \A x \in Range(sent'[Partner(k)]) :
              \/ x \in Range(sent[Partner(k)])
              \/ k = p /\ x = m
        BY <1>1, <3>1
      <4>3. \A k \in Node : \A x \in Range(sent[Partner(k)]) :
              x.type = "LockedTransfer" =>
                /\ x.lock.secretHash # h0 /\ x.lock.secretHash \in SecretHash
                /\ task'[k][x.lock.secretHash] = task[k][x.lock.secretHash]
        BY <1>2, <1>4, <2>14, RangeAppend, MessageFields, Partners
           DEF LinkTypes, Range, Lock
      <4>4. task'[p][h0] \notin TargetState /\ 0 <= lock.expiration
        BY <1>1, <1>4, <2>14, <4>1
      <4> SUFFICES ASSUME Prompt, NEW k \in Node,
                          NEW x \in Range(sent'[Partner(k)]),
                          x.type = "LockedTransfer"
                   PROVE  LET h == x.lock.secretHash
                              e == x.lock.expiration
                          IN /\ mineBy'[h] <= e /\ mined'[h] <= e
                             /\ task'[k][h] \in TargetState =>
                                  \/ e > block'[k] + RevealTimeout
                                  \/ h \in todo'[k] /\ e = block'[k] + RevealTimeout
                                  \/ mineBy'[h] # 0 \/ mined'[h] # 0
        BY DEF RegisteredInTime, Prompt
      <4>5. CASE x \in Range(sent[Partner(k)])
        BY <1>3, <4>3, <4>5 DEF PaymentInv, Clock, RegisteredInTime
      <4>6. CASE k = p /\ x = m
        BY <1>3, <1>4, <2>4, <2>8, <4>4, <4>6
      <4> QED BY <4>2, <4>5, <4>6
    <3> QED BY <3>2, <3>3, <3>4, <3>5, <3>6 DEF Clock
  <2> QED BY <2>11, <2>12, <2>15, <2>16 DEF Kept
<1> QED BY <1>7, <1>8 DEF InitTryNewRoute

\* Nothing but a RevealSecret arrives from n for h, and its receiver is not
\* less stuck.
NothingEnds(n, h) ==
  /\ LinkOf(n)'
  /\ \A type \in Kinds : Sent(n, type, h)' <=> Sent(n, type, h)
  /\ \A type \in {"Unlock", "LockExpired"} : Got(n, type, h)' <=> Got(n, type, h)
  /\ StuckAt(n) => StuckAt(n)'
  /\ \A k \in SecretHash \ {h} : SaidSame(n, k)

\* So it is when nothing happens in that direction at all.
LEMMA NothingEndsQuiet ==
  ASSUME LinkTypes, NEW n \in Node, LinkOf(n), Quiet(n), NEW h
  PROVE  NothingEnds(n, h)
BY QuietLink DEF NothingEnds, SaidSame, Kinds

\* An initiator ends its payment for h0, with an Unlock when the target is known
\* to have the secret and with a LockExpired when the payment failed.
LEMMA EndPays ==
  ASSUME PaymentInv, NEW n \in Node, NEW h0 \in SecretHash,
         task[n][h0] = "initiator",
         NEW m \in ProofMessage, Succeeds(m, ourState[n].balanceProof),
         m.secretHash = h0,
         NEW what,
         \/ m.type = "Unlock" /\ what = "PaymentSentSuccess" /\ Known(n, h0)
         \/ m.type = "LockExpired" /\ what = "PaymentSentFailed",
         NEW new, new.balanceProof = m.bp,
         new.lockedLocks \subseteq ourState[n].lockedLocks,
         new.unLockedLocks = {}, new.onChainUnLockedLocks = {},
         ~IsLockLocked(new, h0),
         \A h : h # h0 => (IsLockLocked(new, h) <=> IsLockLocked(ourState[n], h)),
         ourState' = [ourState EXCEPT ![n] = new], partnerState' = partnerState,
         Send(n, m), received'[n] = received[n],
         SetTask(n, h0, "none"), Tell(n, h0, what),
         NothingEnds(Partner(n), h0),
         \A h \in SecretHash : RegisteredSame(h)
  PROVE  /\ Links' /\ OwnLocksLocked' /\ Payments'
         /\ Range(sent'[n]) = Range(sent[n]) \cup {m}
         /\ sent'[Partner(n)] = sent[Partner(n)]
<1> DEFINE p == Partner(n)
<1>1. /\ p \in Node /\ p # n /\ Partner(p) = n
      /\ \A k \in Node : k # n => k = p
  BY Partners
<1>2. LinkTypes /\ TaskTypes
  BY LinkTyping, Parts DEF PaymentInv
<1>3. /\ m \in Message /\ m.type \in {"Unlock", "LockExpired"}
      /\ \A type, h : About(m, type, h) <=> type = m.type /\ h = h0
  BY DEF Message, About
<1>4. /\ Appends(n, m) /\ sent'[p] = sent[p]
      /\ ourState'[n] = new /\ ourState'[p] = ourState[p]
  BY <1>1, <1>2 DEF LinkTypes, Send, Appends
<1>5. /\ InitiatorSide(n, h0) /\ TargetSide(n, h0)
      /\ InitiatorSide(p, h0) /\ TargetSide(p, h0)
  BY <1>1 DEF PaymentInv, Payments
<1>6. /\ Sent(n, "LockedTransfer", h0) /\ ~Sent(p, "LockedTransfer", h0)
      /\ "PaymentSentFailed" \notin notices[n][h0]
      /\ "PaymentSentSuccess" \notin notices[n][h0]
      /\ ~Sent(n, "Unlock", h0) /\ ~Sent(n, "LockExpired", h0)
  BY <1>5 DEF InitiatorSide
<1>7. \A h : Ends(m, h) => h = h0
  BY <1>3 DEF Ends
<1>8. Links'
  <2>1. LinkOf(n)'
    <3> HIDE DEF p
    <3> QED BY <1>2, <1>3, <1>4, <1>6, <1>7, AppendsLink DEF PaymentInv, Links
  <2>2. LinkOf(p)'
    BY DEF NothingEnds
  <2> QED BY <1>1, <2>1, <2>2 DEF Links
<1>9. OwnLocksLocked'
  BY <1>1, <1>4 DEF PaymentInv, OwnLocksLocked
<1>10. /\ \A type, h :
             /\ Sent(n, type, h)' <=> Sent(n, type, h) \/ (type = m.type /\ h = h0)
             /\ Got(n, type, h)' <=> Got(n, type, h)
       /\ StuckAt(n)' <=> StuckAt(n)
  BY <1>2, <1>3, <1>4, AppendsSaid
<1>11. /\ task'[n][h0] = "none" /\ task'[p][h0] = task[p][h0]
       /\ \A k \in Node, h \in SecretHash :
            k # n \/ h # h0 => task'[k][h] = task[k][h] /\ notices'[k][h] = notices[k][h]
       /\ notices'[n][h0] = notices[n][h0] \cup {what}
  BY <1>1, <1>2 DEF SetTask, Tell, TaskTypes
<1>12. /\ Sent(p, "LockedTransfer", h0)' <=> Sent(p, "LockedTransfer", h0)
       /\ Sent(p, "Unlock", h0)' <=> Sent(p, "Unlock", h0)
       /\ Sent(p, "LockExpired", h0)' <=> Sent(p, "LockExpired", h0)
       /\ Sent(p, "RevealSecret", h0)' <=> Sent(p, "RevealSecret", h0)
       /\ Got(p, "Unlock", h0)' <=> Got(p, "Unlock", h0)
       /\ Got(p, "LockExpired", h0)' <=> Got(p, "LockExpired", h0)
       /\ StuckAt(p) => StuckAt(p)'
  BY DEF NothingEnds, Kinds
<1>13. /\ Sent(n, "LockedTransfer", h0)' /\ ~Sent(p, "LockedTransfer", h0)'
       /\ Sent(n, "RevealSecret", h0)' <=> Sent(n, "RevealSecret", h0)
       /\ Sent(n, "Unlock", h0)' <=> m.type = "Unlock"
       /\ Sent(n, "LockExpired", h0)' <=> m.type = "LockExpired"
  BY <1>3, <1>6, <1>10, <1>12
<1>14. "initiator" \notin TargetState /\ "none" \notin TargetState
  BY DEF TargetState
<1>15. Known(n, h0)' <=> Known(n, h0)
  BY <1>10, <1>11 DEF Known
<1>16. Known(p, h0)' <=> Known(p, h0)
  BY <1>1, <1>11, <1>12, <1>14 DEF Known
<1>17. InitiatorSide(n, h0)'
  BY <1>4, <1>6, <1>11, <1>13, <1>15 DEF InitiatorSide
<1>18. InitiatorSide(p, h0)'
  <2>1. task[p][h0] # "initiator" /\ task'[p][h0] # "initiator"
    BY <1>5, <1>6, <1>11 DEF InitiatorSide
  <2>2. ~IsLockLocked(ourState'[p], h0)
    BY <1>4, <1>5, <2>1 DEF InitiatorSide
  <2>3. notices'[p][h0] = notices[p][h0]
    BY <1>1, <1>11
  <2> QED BY <1>5, <1>12, <1>13, <1>16, <2>1, <2>2, <2>3 DEF InitiatorSide
<1>19. TargetSide(n, h0)'
  <2>1. ~Got(n, "Unlock", h0)'
    BY <1>2, <1>6, <1>10, GotSent
  <2>2. "PaymentReceivedSuccess" \notin notices'[p][h0]
    BY <1>1, <1>5, <1>6, <1>11 DEF TargetSide
  <2> QED BY <1>5, <1>6, <1>10, <1>11, <1>12, <1>13, <1>15, <2>1, <2>2
          DEF TargetSide, RegisteredSame
<1>20. TargetSide(p, h0)'
  <2>1. what # "PaymentReceivedSuccess"
    OBVIOUS
  <2> QED BY <1>1, <1>5, <1>6, <1>11, <1>12, <1>13, <1>14, <2>1
          DEF TargetSide, RegisteredSame
<1>21. Payments'
  <2>1. \A h \in SecretHash \ {h0} : SaidSame(n, h) /\ SaidSame(p, h)
    BY <1>10 DEF NothingEnds, SaidSame
  <2>2. \A k \in Node, h \in SecretHash \ {h0} : HashSame(k, h)
    BY <1>1, <1>4, <1>11 DEF HashSame
  <2>3. \A k \in Node, h \in SecretHash \ {h0} : HashSame(k, h) /\ SaidSame(k, h)
    BY <1>1, <2>1, <2>2
  <2>4. \A k \in Node : InitiatorSide(k, h0)' /\ TargetSide(k, h0)'
    BY <1>1, <1>17, <1>18, <1>19, <1>20
  <2> QED BY <2>3, <2>4, PaymentsBut DEF PaymentInv
<1>22. Range(sent'[n]) = Range(sent[n]) \cup {m}
  BY <1>2, <1>3, <1>4, AppendRange
<1> QED BY <1>4, <1>8, <1>9, <1>21, <1>22

\* InitEventsForUnlockLock, for an initiator.
LEMMA UnlockPays ==
  ASSUME PaymentInv, NEW n \in Node, NEW h0 \in SecretHash,
         task[n][h0] = "initiator", Known(n, h0),
         InitEventsForUnlockLock(n, h0), partnerState' = partnerState,
         received'[n] = received[n], NothingEnds(Partner(n), h0),
         \A h \in SecretHash : RegisteredSame(h)
  PROVE  /\ Links' /\ OwnLocksLocked' /\ Payments'
         /\ \A k \in Node :
              /\ ourState'[k].lockedLocks \subseteq ourState[k].lockedLocks
              /\ \A m \in Range(sent'[k]) :
                   m.type = "LockedTransfer" => m \in Range(sent[k])
              /\ \A h \in SecretHash :
                   /\ "PaymentSentFailed" \in notices'[k][h]
                        => "PaymentSentFailed" \in notices[k][h]
                   /\ task'[k][h] \in TargetState => task[k][h] \in TargetState
<1> DEFINE p == Partner(n)
           our == ourState[n]
           lock == GetLock(our, h0)
           bp == CreateUnlock(our, lock)
           new == WithUnlock(our, bp, lock)
           m == [type |-> "Unlock", bp |-> bp, secretHash |-> h0]
<1>1. p \in Node /\ p # n /\ \A k \in Node : k # n => k = p
  BY Partners
<1>2. LinkTypes /\ TaskTypes /\ our \in EndStates /\ Books(our)
  BY LinkTyping, Parts DEF PaymentInv, LinkTypes, LedgerInv, BooksAgree
<1>3. IsLockPending(our, h0)
  <2>1. IsLockLocked(our, h0)
    BY DEF PaymentInv, Payments, InitiatorSide
  <2> QED BY <2>1 DEF IsLockPending, IsLockLocked, LocksOf, PendingLocks
<1>4. /\ lock \in PendingLocks(our) /\ lock.secretHash = h0
      /\ bp \in BalanceProof
      /\ bp.nonce = our.balanceProof.nonce + 1
      /\ bp.locksRoot = our.merkleTree \ {lock}
      /\ bp.lockedAmount = our.balanceProof.lockedAmount - lock.amount
      /\ bp.transferredAmount = our.balanceProof.transferredAmount + lock.amount
  BY <1>2, <1>3, TheLock, UnlockProof
<1>5. /\ our.balanceProof.locksRoot = our.merkleTree
      /\ our.merkleTree = PendingLocks(our)
  BY <1>2 DEF Books
<1>6. our.balanceProof.transferredAmount + lock.amount
         + (our.balanceProof.lockedAmount - lock.amount) <= MaxUint64
  <2>1. /\ our.balanceProof.transferredAmount \in Nat
        /\ our.balanceProof.lockedAmount \in Nat /\ lock.amount \in Nat
        /\ our.balanceProof.transferredAmount + our.balanceProof.lockedAmount
             <= MaxUint64
    BY <1>2, <1>4, LockAmount, EndStateTypes, AmountFacts DEF Books
  <2> HIDE DEF our, lock
  <2> QED BY <2>1, EndStateAssumption
<1>7. /\ ourState' = [ourState EXCEPT ![n] = new] /\ Send(n, m)
      /\ SetTask(n, h0, "none") /\ Tell(n, h0, "PaymentSentSuccess")
  BY <1>3 DEF InitEventsForUnlockLock
<1>8. /\ new.balanceProof = bp
      /\ new.lockedLocks \subseteq our.lockedLocks
      /\ new.unLockedLocks \subseteq our.unLockedLocks
      /\ new.onChainUnLockedLocks \subseteq our.onChainUnLockedLocks
      /\ ~IsLockLocked(new, h0)
      /\ \A h : h # h0 => (IsLockLocked(new, h) <=> IsLockLocked(our, h))
  <2>1. new.balanceProof = bp
    BY <1>2 DEF WithUnlock, WithoutLeaf, DelLock, DelUnclaimedLock, EndStates
  <2>2. new \in {WithUnlock(our, bp, lock), WithoutExpired(our, bp, lock)}
    OBVIOUS
  <2> HIDE DEF new
  <2> QED BY <1>2, <1>4, <2>1, <2>2, RemovedLocks
<1>9. new.unLockedLocks = {} /\ new.onChainUnLockedLocks = {}
  BY <1>8 DEF PaymentInv, OwnLocksLocked
<1> HIDE DEF new, lock, bp
<1>10. /\ m \in ProofMessage /\ m.bp = bp /\ m.type = "Unlock" /\ m.secretHash = h0
  BY <1>4 DEF ProofMessage
<1>11. Succeeds(m, our.balanceProof)
  BY <1>4, <1>5, <1>10, <1>6 DEF Succeeds
<1> HIDE DEF m
<1>12. /\ Links' /\ OwnLocksLocked' /\ Payments'
       /\ Range(sent'[n]) = Range(sent[n]) \cup {m} /\ sent'[p] = sent[p]
  BY <1>7, <1>8, <1>9, <1>10, <1>11, EndPays
<1>13. /\ ourState'[n] = new /\ ourState'[p] = ourState[p]
       /\ \A k \in Node, h \in SecretHash :
            /\ task'[k][h] \in TargetState => task[k][h] \in TargetState
            /\ "PaymentSentFailed" \in notices'[k][h]
                 => "PaymentSentFailed" \in notices[k][h]
  BY <1>1, <1>2, <1>7 DEF LinkTypes, TaskTypes, SetTask, Tell, TargetState
<1>14. \A k \in Range(sent'[n]) : k.type = "LockedTransfer" => k \in Range(sent[n])
  BY <1>10, <1>12
<1> QED BY <1>1, <1>8, <1>12, <1>13, <1>14

\* The secret hash of a transfer that was sent is a secret hash.
LEMMA TransferHash ==
  ASSUME LinkTypes, NEW n \in Node, NEW m \in Range(sent[n]),
         m.type = "LockedTransfer"
  PROVE  /\ m \in Message /\ m.lock \in Lock /\ m.lock.secretHash \in SecretHash
         /\ m.lock.expiration \in Nat
         /\ Sent(n, "LockedTransfer", m.lock.secretHash)
<1>1. m \in Message /\ m.lock \in Lock
  BY MessageFields DEF LinkTypes, Range
<1> QED BY <1>1, GotSent DEF Lock, About

\* A lock on one side or the other, of a payment that n initiated, is the one
\* lock n announced with a transfer.
LEMMA LockSent ==
  ASSUME PaymentInv, NEW n \in Node, NEW h \in SecretHash,
         NEW end \in {ourState[n], partnerState[Partner(n)]},
         NEW lock \in PendingLocks(end), lock.secretHash = h
  PROVE  /\ Sent(n, "LockedTransfer", h) /\ lock.expiration \in Nat
         /\ \A m \in Range(sent[n]) :
              m.type = "LockedTransfer" /\ m.lock.secretHash = h => m.lock = lock
<1>1. LinkTypes
  BY LinkTyping DEF PaymentInv
<1>2. Announced(n, end)
  BY DEF PaymentInv, LedgerInv, LocksAnnounced
<1>3. PICK k \in Range(sent[n]) : k.type = "LockedTransfer" /\ k.lock = lock
  BY <1>2 DEF Announced
<1>4. Sent(n, "LockedTransfer", h) /\ lock.expiration \in Nat
  BY <1>1, <1>3, TransferHash
<1>5. \A m \in Range(sent[n]) :
        m.type = "LockedTransfer" /\ m.lock.secretHash = h => m = k
  BY <1>3 DEF PaymentInv, LedgerInv, OneTransferPerSecret
<1> QED BY <1>3, <1>4, <1>5

\* A node visits a payment for which it is not the target.
LEMMA VisitClock ==
  ASSUME LinkTypes, Clock, NEW n \in Node, NEW h0,
         todo' = [todo EXCEPT ![n] = @ \ {h0}],
         UNCHANGED <<block, height, mined, mineBy>>,
         task'[n][h0] \notin TargetState,
         \A k \in Node, h \in SecretHash :
           task'[k][h] \in TargetState => task[k][h] \in TargetState,
         \A k \in Node : \A m \in Range(sent'[k]) :
           m.type = "LockedTransfer" => m \in Range(sent[k])
  PROVE  RegisteredInTime'
<1> SUFFICES ASSUME Prompt, NEW k \in Node, NEW x \in Range(sent'[Partner(k)]),
                    x.type = "LockedTransfer"
             PROVE  LET h == x.lock.secretHash
                        e == x.lock.expiration
                    IN /\ mineBy'[h] <= e /\ mined'[h] <= e
                       /\ task'[k][h] \in TargetState =>
                            \/ e > block'[k] + RevealTimeout
                            \/ h \in todo'[k] /\ e = block'[k] + RevealTimeout
                            \/ mineBy'[h] # 0 \/ mined'[h] # 0
  BY DEF RegisteredInTime, Prompt
<1> DEFINE h == x.lock.secretHash
           e == x.lock.expiration
<1>1. x \in Range(sent[Partner(k)]) /\ h \in SecretHash
  BY Partners, TransferHash
<1>2. /\ mineBy[h] <= e /\ mined[h] <= e
      /\ task[k][h] \in TargetState =>
           \/ e > block[k] + RevealTimeout
           \/ h \in todo[k] /\ e = block[k] + RevealTimeout
           \/ mineBy[h] # 0 \/ mined[h] # 0
  BY <1>1 DEF Clock, RegisteredInTime
<1>3. task'[k][h] \in TargetState => k # n \/ h # h0
  OBVIOUS
<1>4. (k # n \/ h # h0) /\ h \in todo[k] => h \in todo'[k]
  OBVIOUS
<1> HIDE DEF h, e
<1>5. task'[k][h] \in TargetState =>
        \/ e > block'[k] + RevealTimeout
        \/ h \in todo'[k] /\ e = block'[k] + RevealTimeout
        \/ mineBy'[h] # 0 \/ mined'[h] # 0
  BY <1>1, <1>2, <1>3, <1>4
<1> QED BY <1>2, <1>5 DEF h, e

\* InitHandleBlock, for a task that node n visits.
LEMMA VisitPays ==
  ASSUME PaymentInv, NEW n \in Node, NEW h0 \in SecretHash, InitHandleBlock(n, h0),
         todo' = [todo EXCEPT ![n] = @ \ {h0}],
         UNCHANGED <<received, block, seen, height, mined>>
  PROVE  Kept
<1> DEFINE p == Partner(n)
           our == ourState[n]
           partner == partnerState[n]
           lock == CHOOSE l \in our.lockedLocks : l.secretHash = h0
           bp == createSendExpiredLock(our, lock)
           new == WithoutExpired(our, bp, lock)
           m == [type |-> "LockExpired", bp |-> bp, secretHash |-> h0]
           expired == /\ IsLockLocked(our, h0)
                      /\ IsLockExpired(our, lock, block[n],
                                       lock.expiration + 2 * ConfirmBlockCount)
<1>1. /\ p \in Node /\ p # n /\ Partner(p) = n
      /\ \A k \in Node : k # n => k = p
  BY Partners
<1>2. /\ LinkTypes /\ TaskTypes /\ ClockTypes /\ our \in EndStates /\ Books(our)
  BY LinkTyping, Parts DEF PaymentInv, LinkTypes, LedgerInv, BooksAgree
<1>3. /\ task[n][h0] = "initiator" /\ partnerState' = partnerState
      /\ mineBy' = mineBy
  BY DEF InitHandleBlock
<1>4. /\ IsLockLocked(our, h0) /\ Sent(n, "LockedTransfer", h0)
      /\ ~Sent(p, "LockedTransfer", h0)
  BY <1>3 DEF PaymentInv, Payments, InitiatorSide
<1>5. \E l \in our.lockedLocks : l.secretHash = h0
  BY <1>4 DEF IsLockLocked, LocksOf
<1>6. /\ lock \in our.lockedLocks /\ lock.secretHash = h0
      /\ lock \in PendingLocks(our)
  BY <1>5 DEF PendingLocks
<1> HIDE DEF lock
<1>7. \A h \in SecretHash : RegisteredSame(h)
  BY <1>3 DEF RegisteredSame
<1>8. Heights' /\ Registrations' /\ SeenInTime' /\ OnChainInTime'
  BY <1>3 DEF PaymentInv, Clock, Heights, Registrations, SeenInTime, OnChainInTime
<1>9. "initiator" \notin TargetState /\ "none" \notin TargetState
  BY DEF TargetState
<1>10. CASE /\ expired /\ ourState' = [ourState EXCEPT ![n] = new]
            /\ Send(n, m) /\ Tell(n, h0, "PaymentSentFailed")
            /\ SetTask(n, h0, IF IsLockPending(new, h0) \/ IsLockPending(partner, h0)
                              THEN "initiator" ELSE "none")
  <2>1. /\ bp \in BalanceProof
        /\ bp.nonce = our.balanceProof.nonce + 1
        /\ bp.lockedAmount = our.balanceProof.lockedAmount - lock.amount
        /\ bp.transferredAmount = our.balanceProof.transferredAmount
    BY <1>2, <1>6, ExpiredProof
  <2>2. our.balanceProof.transferredAmount
           + (our.balanceProof.lockedAmount - lock.amount) <= MaxUint64
    <3>1. /\ our.balanceProof.transferredAmount \in Nat
          /\ our.balanceProof.lockedAmount \in Nat /\ lock.amount \in Nat
          /\ our.balanceProof.transferredAmount + our.balanceProof.lockedAmount
               <= MaxUint64
      BY <1>2, <1>6, LockAmount, EndStateTypes, AmountFacts DEF Books
    <3> HIDE DEF our
    <3> QED BY <3>1, EndStateAssumption
  <2>3. /\ new.balanceProof = bp
        /\ new.lockedLocks \subseteq our.lockedLocks
        /\ new.unLockedLocks \subseteq our.unLockedLocks
        /\ new.onChainUnLockedLocks \subseteq our.onChainUnLockedLocks
        /\ ~IsLockLocked(new, h0)
        /\ \A h : h # h0 => (IsLockLocked(new, h) <=> IsLockLocked(our, h))
    <3>1. new.balanceProof = bp
      BY <1>2 DEF WithoutExpired, WithoutLeaf, DelUnclaimedLock, EndStates
    <3>2. new \in {WithUnlock(our, bp, lock), WithoutExpired(our, bp, lock)}
      OBVIOUS
    <3> HIDE DEF new
    <3> QED BY <1>2, <1>6, <3>1, <3>2, RemovedLocks
  <2>4. new.unLockedLocks = {} /\ new.onChainUnLockedLocks = {}
    BY <2>3 DEF PaymentInv, OwnLocksLocked
  <2> HIDE DEF new, bp
  <2>5. ~IsLockPending(new, h0)
    BY <2>3, <2>4 DEF IsLockPending, IsLockLocked, LocksOf, PendingLocks
  <2>6. ~IsLockPending(partner, h0)
    <3> SUFFICES ASSUME NEW l \in PendingLocks(partner), l.secretHash = h0
                 PROVE  FALSE
      BY DEF IsLockPending, LocksOf
    <3>1. partner \in {ourState[p], partnerState[Partner(p)]}
      BY <1>1
    <3>2. Sent(p, "LockedTransfer", h0)
      BY <1>1, <3>1, LockSent
    <3> QED BY <1>4, <3>2
  <2>7. SetTask(n, h0, "none")
    BY <1>10, <2>5, <2>6
  <2>8. /\ m \in ProofMessage /\ m.bp = bp /\ m.type = "LockExpired"
        /\ m.secretHash = h0
    BY <2>1 DEF ProofMessage
  <2>9. Succeeds(m, our.balanceProof)
    BY <2>1, <2>8, <2>2 DEF Succeeds
  <2> HIDE DEF m
  <2>10. NothingEnds(p, h0)
    <3>1. Quiet(p)
      BY <1>1, <1>2, <1>3, <1>10 DEF LinkTypes, Send, Quiet
    <3> QED BY <1>1, <1>2, <3>1, NothingEndsQuiet DEF PaymentInv, Links
  <2>11. /\ Links' /\ OwnLocksLocked' /\ Payments'
         /\ Range(sent'[n]) = Range(sent[n]) \cup {m} /\ sent'[p] = sent[p]
    BY <1>3, <1>7, <1>10, <2>3, <2>4, <2>7, <2>8, <2>9, <2>10, EndPays
  <2>12. /\ ourState'[n] = new /\ ourState'[p] = ourState[p]
         /\ task'[n][h0] = "none"
         /\ \A k \in Node, h \in SecretHash :
              /\ task'[k][h] \in TargetState => task[k][h] \in TargetState
              /\ k # n \/ h # h0 => notices'[k][h] = notices[k][h]
    BY <1>1, <1>2, <1>10, <2>7, <1>9 DEF LinkTypes, TaskTypes, SetTask, Tell
  <2>13. \A k \in Node : \A x \in Range(sent'[k]) :
           x.type = "LockedTransfer" => x \in Range(sent[k])
    BY <1>1, <2>8, <2>11
  <2>14. LockedUntilLate'
    BY <1>1, <2>3, <2>12 DEF PaymentInv, Clock, LockedUntilLate
  <2>15. lock.expiration \in Nat /\ lock.expiration <= block[n]
    <3>1. lock.expiration \in Nat /\ block[n] \in Nat
      BY <1>2, <1>6, LockSent DEF ClockTypes
    <3>2. lock.expiration + 2 * ConfirmBlockCount <= block[n]
      BY <1>10 DEF IsLockExpired
    <3> QED BY <3>1, <3>2, EndStateAssumption
  <2>16. mined[h0] = 0 \/ mined[h0] > lock.expiration
    <3>1. mined[h0] \in Nat /\ block[n] \in Nat
      BY <1>2 DEF ClockTypes
    <3>2. mined[h0] # 0 /\ mined[h0] <= block[n] => mined[h0] > lock.expiration
      BY <1>6 DEF PaymentInv, Clock, SeenInTime, LockedUntilLate
    <3> QED BY <2>15, <3>1, <3>2
  <2>17. FailedLate'
    <3> SUFFICES ASSUME NEW k \in Node, NEW x \in Range(sent[k]),
                        x.type = "LockedTransfer",
                        "PaymentSentFailed" \in notices'[k][x.lock.secretHash]
                 PROVE  /\ x.lock.expiration <= block[k]
                        /\ \/ mined[x.lock.secretHash] = 0
                           \/ mined[x.lock.secretHash] > x.lock.expiration
      BY <2>13 DEF FailedLate
    <3>1. CASE k = n /\ x.lock.secretHash = h0
      <4>1. x.lock = lock
        BY <1>6, <3>1, LockSent
      <4> QED BY <2>15, <2>16, <3>1, <4>1
    <3>2. CASE k # n \/ x.lock.secretHash # h0
      <4>1. x.lock.secretHash \in SecretHash
        BY <1>2, TransferHash
      <4> QED BY <2>12, <3>2, <4>1 DEF PaymentInv, Clock, FailedLate
    <3> QED BY <3>1, <3>2
  <2>18. RegisteredInTime'
    BY <1>2, <1>3, <1>9, <2>12, <2>13, VisitClock DEF PaymentInv
  <2> QED BY <1>8, <2>11, <2>14, <2>17, <2>18 DEF Kept, Clock
<1>11. CASE /\ SetTask(n, h0, IF IsLockLocked(our, h0) \/ IsLockLocked(partner, h0)
                              THEN "initiator" ELSE "none")
            /\ UNCHANGED <<ourState, notices, sent>>
  <2>1. task' = task
    <3>1. SetTask(n, h0, "initiator")
      BY <1>4, <1>11
    <3> QED BY <1>2, <1>3, <3>1 DEF SetTask, TaskTypes
  <2>2. Links' /\ OwnLocksLocked'
    BY <1>3, <1>11 DEF PaymentInv, Links, LinkOf, OwnLocksLocked
  <2>3. Payments'
    <3>1. \A k \in Node : Quiet(k)
      BY <1>3, <1>11 DEF Quiet
    <3>2. \A k \in Node, h \in SecretHash : HashSame(k, h) /\ SaidSame(k, h)
      BY <1>2, <1>3, <1>11, <2>1, <3>1, QuietLink DEF PaymentInv, Links, HashSame
    <3> QED BY <1>7, <3>2, PaymentsSame DEF PaymentInv
  <2>4. LockedUntilLate' /\ FailedLate'
    BY <1>11 DEF PaymentInv, Clock, LockedUntilLate, FailedLate
  <2>5. RegisteredInTime'
    BY <1>2, <1>3, <1>9, <1>11, <2>1, VisitClock DEF PaymentInv
  <2> QED BY <1>8, <2>2, <2>3, <2>4, <2>5 DEF Kept, Clock
<1> QED BY <1>10, <1>11 DEF InitHandleBlock, lock

\* The lock that a payment task keeps is the one of the transfer.
LEMMA TheTransfer ==
  ASSUME PaymentInv, NEW n \in Node, NEW m \in Range(sent[n]),
         m.type = "LockedTransfer"
  PROVE  TransferLock(m.lock.secretHash) = m.lock
<1> DEFINE h == m.lock.secretHash
           transfers == UNION {{k \in Range(sent[i]) : k.type = "LockedTransfer"} :
                                 i \in Node}
           k == CHOOSE x \in transfers : x.lock.secretHash = h
<1>1. LinkTypes
  BY LinkTyping DEF PaymentInv
<1>2. m \in transfers /\ m.lock.secretHash = h
  OBVIOUS
<1>3. k \in transfers /\ k.lock.secretHash = h
  <2> HIDE DEF h, transfers
  <2> QED BY <1>2
<1>4. PICK i \in Node : k \in Range(sent[i]) /\ k.type = "LockedTransfer"
  BY <1>3
<1> HIDE DEF k
<1>5. i = n
  <2>1. /\ Sent(n, "LockedTransfer", h) /\ Sent(i, "LockedTransfer", h)
        /\ h \in SecretHash
    BY <1>1, <1>3, <1>4, TransferHash
  <2>2. Sent(n, "LockedTransfer", h) => ~Sent(Partner(n), "LockedTransfer", h)
    BY <2>1 DEF PaymentInv, Payments, InitiatorSide
  <2> QED BY <2>1, <2>2, Partners
<1>6. k = m
  BY <1>3, <1>4, <1>5 DEF PaymentInv, LedgerInv, OneTransferPerSecret
<1>7. TransferLock(h) = k.lock
  BY DEF TransferLock, k
<1> QED BY <1>6, <1>7

\* TgHandleBlock, for a task that node n visits.
LEMMA WatchPays ==
  ASSUME PaymentInv, NEW n \in Node, NEW h0 \in SecretHash, TgHandleBlock(n, h0),
         todo' = [todo EXCEPT ![n] = @ \ {h0}],
         UNCHANGED <<received, block, seen, height, mined>>
  PROVE  Kept
<1> DEFINE p == Partner(n)
           lock == TransferLock(h0)
           e == lock.expiration
           registered == mineBy[h0] # 0 \/ mined[h0] # 0
           expired == IsLockExpired(ourState[n], lock, block[n],
                        e + DefaultNumberOfBlockConfirmations)
           reveal == /\ ~MdIsSafeToWait(e, block[n])
                     /\ IsSecretKnown(partnerState[n], h0)
                     /\ IsSecretKnownOffChain(partnerState[n], h0)
                     /\ task[n][h0] # "onchain_secret_reveal"
<1>1. /\ p \in Node /\ p # n /\ Partner(p) = n
      /\ \A k \in Node : k # n => k = p
  BY Partners
<1>2. LinkTypes /\ TaskTypes /\ ClockTypes
  BY LinkTyping, Parts DEF PaymentInv
<1>3. /\ task[n][h0] \in TargetState
      /\ UNCHANGED <<ourState, partnerState, sent>>
  BY DEF TgHandleBlock
<1>4. /\ InitiatorSide(p, h0) /\ TargetSide(p, h0)
      /\ InitiatorSide(n, h0) /\ TargetSide(n, h0)
  BY <1>1 DEF PaymentInv, Payments
<1>5. /\ Sent(p, "LockedTransfer", h0) /\ ~Sent(n, "LockedTransfer", h0)
      /\ IsSecretKnown(partnerState[n], h0)
      /\ ~Got(p, "LockExpired", h0)
      /\ task[n][h0] = "onchain_secret_reveal" => registered
  BY <1>1, <1>3, <1>4 DEF TargetSide, InitiatorSide
<1>6. PICK x \in Range(sent[p]) : x.type = "LockedTransfer" /\ x.lock.secretHash = h0
  BY <1>1, <1>2, <1>5, GotSent DEF About
<1>7. /\ lock = x.lock /\ e \in Nat
      /\ \A y \in Range(sent[p]) :
           y.type = "LockedTransfer" /\ y.lock.secretHash = h0 => y.lock = lock
  BY <1>1, <1>2, <1>6, TheTransfer, TransferHash
<1> HIDE DEF lock
<1>8. Prompt => /\ mineBy[h0] <= e /\ mined[h0] <= e
                /\ \/ e > block[n] + RevealTimeout
                   \/ h0 \in todo[n] /\ e = block[n] + RevealTimeout
                   \/ registered
  BY <1>1, <1>3, <1>6, <1>7 DEF PaymentInv, Clock, RegisteredInTime
<1>9. /\ block[n] \in Nat /\ height \in Nat /\ height <= block[n] + MaxLag
      /\ mineBy[h0] \in Nat /\ mined[h0] \in Nat
      /\ RevealTimeout \in Nat /\ MaxLag \in Nat /\ MaxInclusion \in Nat \ {0}
      /\ DefaultNumberOfBlockConfirmations \in Nat
  BY <1>2, TransfersAssumption DEF ClockTypes, PaymentInv, Clock, Heights
\* What a visit does to the task, to the user and to the registrations.
<1> DEFINE registers == mineBy' = [mineBy EXCEPT ![h0] = height + MaxInclusion]
<1>10. /\ task'[n][h0] \in TargetState
       /\ \A k \in Node, h \in SecretHash : k # n \/ h # h0 => task'[k][h] = task[k][h]
       /\ \A k \in Node, h \in SecretHash : \A what \in Outcomes :
            what \in notices'[k][h] <=> what \in notices[k][h]
       /\ \/ mineBy' = mineBy
          \/ registers /\ ~registered /\ e <= block[n] + RevealTimeout
       /\ task'[n][h0] = "onchain_secret_reveal" =>
            mineBy'[h0] # 0 \/ mined[h0] # 0
       /\ Prompt => \/ e > block[n] + RevealTimeout
                    \/ mineBy'[h0] # 0 \/ mined[h0] # 0
  <2> DEFINE Goal == /\ <1>10!1 /\ <1>10!2 /\ <1>10!3 /\ <1>10!4 /\ <1>10!5 /\ <1>10!6
  <2>1. "UnlockClaimFailed" \notin Outcomes
    BY DEF Outcomes
  <2>2. CASE /\ expired /\ SetTask(n, h0, "expired")
             /\ Tell(n, h0, "UnlockClaimFailed") /\ UNCHANGED mineBy
    <3>1. /\ task'[n][h0] = "expired"
          /\ \A k \in Node, h \in SecretHash :
               k # n \/ h # h0 => task'[k][h] = task[k][h]
      BY <1>2, <2>2 DEF SetTask, TaskTypes
    <3>2. \A k \in Node, h \in SecretHash : \A what \in Outcomes :
            what \in notices'[k][h] <=> what \in notices[k][h]
      BY <1>2, <2>1, <2>2 DEF Tell, TaskTypes
    <3>3. Prompt => registered
      <4>1. block[n] >= e + DefaultNumberOfBlockConfirmations
        BY <2>2 DEF IsLockExpired
      <4>2. Prompt => RevealTimeout > 0
        BY <1>9 DEF Prompt
      <4> QED BY <1>7, <1>8, <1>9, <4>1, <4>2
    <3> QED BY <2>2, <3>1, <3>2, <3>3 DEF TargetState
  <2>3. CASE /\ reveal /\ SetTask(n, h0, "onchain_secret_reveal")
             /\ RegisterSecret(h0) /\ UNCHANGED notices
    <3>1. /\ task'[n][h0] = "onchain_secret_reveal"
          /\ \A k \in Node, h \in SecretHash :
               k # n \/ h # h0 => task'[k][h] = task[k][h]
      BY <1>2, <2>3 DEF SetTask, TaskTypes
    <3>2. e <= block[n] + RevealTimeout
      BY <1>7, <1>9, <2>3 DEF MdIsSafeToWait
    <3>3. CASE registered
      BY <2>3, <3>1, <3>3 DEF TargetState, RegisterSecret
    <3>4. CASE ~registered
      <4>1. registers
        BY <2>3, <3>4 DEF RegisterSecret
      <4>2. mineBy'[h0] = height + MaxInclusion
        BY <1>2, <4>1 DEF ClockTypes
      <4>3. mineBy'[h0] # 0
        BY <1>9, <4>2
      <4> QED BY <2>3, <3>1, <3>2, <3>4, <4>1, <4>3 DEF TargetState
    <3> QED BY <3>3, <3>4
  <2>4. CASE ~reveal /\ UNCHANGED <<task, notices, mineBy>>
    <3>1. ASSUME Prompt, ~(e > block[n] + RevealTimeout), ~registered
          PROVE  FALSE
      <4>1. ~MdIsSafeToWait(e, block[n])
        BY <1>7, <1>9, <3>1 DEF MdIsSafeToWait
      <4>2. ~IsSecretKnownOffChain(partnerState[n], h0)
        BY <1>5, <2>4, <3>1, <4>1
      <4>3. IsSecretKnownOnChain(partnerState[n], h0)
        BY <1>5, <4>2 DEF IsSecretKnown
      <4>4. mined[h0] # 0
        BY <4>3 DEF IsSecretKnownOnChain, LocksOf, PaymentInv, Clock, OnChainInTime
      <4> QED BY <3>1, <4>4
    <3> QED BY <1>3, <1>5, <2>4, <3>1
  <2> QED BY <2>2, <2>3, <2>4 DEF TgHandleBlock, lock
<1> HIDE DEF registers, registered, expired, reveal
<1>11. /\ \A h \in SecretHash \ {h0} : mineBy'[h] = mineBy[h]
       /\ \/ mineBy'[h0] = mineBy[h0]
          \/ /\ mineBy'[h0] = height + MaxInclusion
             /\ mineBy[h0] = 0 /\ mined[h0] = 0
             /\ e <= block[n] + RevealTimeout
  BY <1>2, <1>10 DEF ClockTypes, registers, registered
<1>12. mineBy[h0] # 0 => mineBy'[h0] # 0
  BY <1>9, <1>11
<1>13. /\ \A k \in Node : Quiet(k)
       /\ \A k \in Node : LinkOf(k)' /\ \A h : SaidSame(k, h)
  <2>1. \A k \in Node : Quiet(k)
    BY <1>3 DEF Quiet
  <2> QED BY <1>2, <2>1, QuietLink DEF PaymentInv, Links
<1>14. Links' /\ OwnLocksLocked'
  BY <1>3, <1>13 DEF PaymentInv, Links, OwnLocksLocked
<1>15. \A k \in Node : \A type \in Kinds :
         /\ Sent(k, type, h0)' <=> Sent(k, type, h0)
         /\ type # "LockedTransfer" => (Got(k, type, h0)' <=> Got(k, type, h0))
         /\ StuckAt(k) => StuckAt(k)'
  BY <1>13 DEF SaidSame
<1>16. /\ task[n][h0] # "initiator" /\ task'[n][h0] # "initiator"
       /\ task[p][h0] \notin TargetState /\ task'[p][h0] = task[p][h0]
  BY <1>1, <1>3, <1>4, <1>5, <1>10 DEF TargetSide, TargetState
<1>17. /\ Known(n, h0)' <=> Known(n, h0)
       /\ Known(p, h0) /\ Known(p, h0)'
  BY <1>1, <1>3, <1>10, <1>15, <1>16 DEF Known, Kinds
<1>18. InitiatorSide(p, h0)'
  BY <1>1, <1>3, <1>4, <1>10, <1>15, <1>16, <1>17 DEF InitiatorSide, Kinds, Outcomes
<1>19. InitiatorSide(n, h0)'
  BY <1>1, <1>3, <1>4, <1>10, <1>15, <1>16, <1>17 DEF InitiatorSide, Kinds, Outcomes
<1>20. TargetSide(p, h0)'
  <2>1. /\ Sent(p, "LockedTransfer", h0)' /\ ~Sent(n, "LockedTransfer", h0)'
        /\ ~Got(p, "LockExpired", h0)'
        /\ Sent(n, "RevealSecret", h0)' <=> Sent(n, "RevealSecret", h0)
        /\ Sent(p, "Unlock", h0)' <=> Sent(p, "Unlock", h0)
        /\ Got(p, "Unlock", h0)' <=> Got(p, "Unlock", h0)
        /\ StuckAt(p) => StuckAt(p)'
    BY <1>1, <1>5, <1>15 DEF Kinds
  <2>2. IsSecretKnown(partnerState'[n], h0)
    BY <1>3, <1>5
  <2>3. "PaymentReceivedSuccess" \in notices'[n][h0]
          <=> "PaymentReceivedSuccess" \in notices[n][h0]
    BY <1>10 DEF Outcomes
  <2>4. task'[n][h0] = "onchain_secret_reveal" => mineBy'[h0] # 0 \/ mined'[h0] # 0
    BY <1>10
  <2> QED BY <1>1, <1>4, <1>17, <2>1, <2>2, <2>3, <2>4 DEF TargetSide
<1>21. TargetSide(n, h0)'
  <2>1. /\ Sent(p, "LockedTransfer", h0)' /\ ~Sent(n, "LockedTransfer", h0)'
        /\ Sent(p, "RevealSecret", h0)' <=> Sent(p, "RevealSecret", h0)
        /\ Sent(n, "Unlock", h0)' <=> Sent(n, "Unlock", h0)
        /\ Got(n, "Unlock", h0)' <=> Got(n, "Unlock", h0)
        /\ StuckAt(n) => StuckAt(n)'
    BY <1>1, <1>5, <1>15 DEF Kinds
  <2>2. "PaymentReceivedSuccess" \in notices'[p][h0]
          <=> "PaymentReceivedSuccess" \in notices[p][h0]
    BY <1>1, <1>10 DEF Outcomes
  <2>3. task'[p][h0] # "onchain_secret_reveal"
    BY <1>16 DEF TargetState
  <2> QED BY <1>1, <1>4, <1>5, <1>16, <2>1, <2>2, <2>3 DEF TargetSide
<1>22. Payments'
  <2>1. \A k \in Node, h \in SecretHash \ {h0} : HashSame(k, h) /\ SaidSame(k, h)
    BY <1>3, <1>10, <1>13 DEF HashSame
  <2>2. \A h \in SecretHash \ {h0} : RegisteredSame(h)
    BY <1>11 DEF RegisteredSame
  <2>3. \A k \in Node : InitiatorSide(k, h0)' /\ TargetSide(k, h0)'
    BY <1>1, <1>18, <1>19, <1>20, <1>21
  <2> QED BY <2>1, <2>2, <2>3, PaymentsBut DEF PaymentInv
<1>23. Heights' /\ SeenInTime' /\ LockedUntilLate' /\ OnChainInTime'
  BY <1>3 DEF PaymentInv, Clock, Heights, SeenInTime, LockedUntilLate, OnChainInTime
<1>24. Registrations'
  <2>1. height + MaxInclusion > height
    BY <1>9
  <2> QED BY <1>11, <2>1 DEF PaymentInv, Clock, Registrations
<1>25. FailedLate'
  <2>1. \A k \in Node : \A y \in Range(sent[k]) : y.type = "LockedTransfer" =>
          y.lock.secretHash \in SecretHash
    BY <1>2, TransferHash
  <2> QED BY <1>3, <1>10, <2>1 DEF PaymentInv, Clock, FailedLate, Outcomes
<1>26. RegisteredInTime'
  <2> SUFFICES ASSUME Prompt, NEW k \in Node, NEW y \in Range(sent[Partner(k)]),
                      y.type = "LockedTransfer"
               PROVE  LET h == y.lock.secretHash
                          f == y.lock.expiration
                      IN /\ mineBy'[h] <= f /\ mined'[h] <= f
                         /\ task'[k][h] \in TargetState =>
                              \/ f > block'[k] + RevealTimeout
                              \/ h \in todo'[k] /\ f = block'[k] + RevealTimeout
                              \/ mineBy'[h] # 0 \/ mined'[h] # 0
    BY <1>3 DEF RegisteredInTime, Prompt
  <2> DEFINE h == y.lock.secretHash
  <2>1. h \in SecretHash /\ Sent(Partner(k), "LockedTransfer", h)
    BY <1>2, Partners, TransferHash
  <2>2. CASE h = h0
    <3>1. k = n
      BY <1>1, <1>5, <2>1, <2>2
    <3>2. y.lock = lock
      BY <1>7, <2>2, <3>1
    <3>3. mineBy'[h0] <= e
      <4>1. CASE mineBy'[h0] = mineBy[h0]
        BY <1>8, <4>1
      <4>2. CASE /\ mineBy'[h0] = height + MaxInclusion
                 /\ mineBy[h0] = 0 /\ mined[h0] = 0
                 /\ e <= block[n] + RevealTimeout
        <5>1. /\ MaxLag + MaxInclusion <= RevealTimeout
              /\ ~registered
          BY <4>2 DEF Prompt, registered
        <5>2. e = block[n] + RevealTimeout
          BY <1>7, <1>8, <1>9, <4>2, <5>1
        <5> HIDE DEF e
        <5>3. height + MaxInclusion <= e
          BY <1>9, <5>1, <5>2
        <5> QED BY <4>2, <5>3
      <4> QED BY <1>11, <4>1, <4>2
    <3> QED BY <1>8, <1>10, <2>2, <3>1, <3>2, <3>3
  <2>3. CASE h # h0
    <3>1. /\ mineBy'[h] = mineBy[h] /\ task'[k][h] = task[k][h]
          /\ h \in todo[k] => h \in todo'[k]
      BY <1>10, <1>11, <2>1, <2>3
    <3> QED BY <3>1 DEF PaymentInv, Clock, RegisteredInTime
  <2> QED BY <2>2, <2>3
<1> QED BY <1>14, <1>22, <1>23, <1>24, <1>25, <1>26 DEF Kept, Clock

\* A node learns that the secret of h0 was registered.
LEMMA SeenClock ==
  ASSUME LinkTypes, Clock, seen \in [Node -> SUBSET SecretHash],
         NEW n \in Node, NEW h0 \in SecretHash, mined[h0] # 0,
         seen' = [seen EXCEPT ![n] = @ \cup {h0}],
         UNCHANGED <<block, todo, height, mined, mineBy>>,
         \A l \in ourState'[n].lockedLocks :
           l.secretHash = h0 => mined[h0] > l.expiration,
         \A k \in Node :
           /\ ourState'[k].lockedLocks \subseteq ourState[k].lockedLocks
           /\ \A l \in partnerState'[k].onChainUnLockedLocks :
                \/ l \in partnerState[k].onChainUnLockedLocks
                \/ l.secretHash = h0 /\ mined[h0] <= l.expiration
           /\ \A m \in Range(sent'[k]) :
                m.type = "LockedTransfer" => m \in Range(sent[k])
           /\ \A h \in SecretHash :
                /\ "PaymentSentFailed" \in notices'[k][h]
                     => "PaymentSentFailed" \in notices[k][h]
                /\ task'[k][h] \in TargetState => task[k][h] \in TargetState
  PROVE  Clock'
<1>1. \A k \in Node : /\ seen[k] \subseteq seen'[k]
                      /\ \A h \in seen'[k] : h \in seen[k] \/ (k = n /\ h = h0)
  OBVIOUS
<1>2. Heights' /\ Registrations'
  BY DEF Clock, Heights, Registrations
<1>3. SeenInTime'
  BY <1>1 DEF Clock, SeenInTime
<1>4. LockedUntilLate'
  BY <1>1 DEF Clock, LockedUntilLate
<1>5. FailedLate'
  <2>1. \A k \in Node : \A m \in Range(sent'[k]) : m.type = "LockedTransfer" =>
          m \in Range(sent[k]) /\ m.lock.secretHash \in SecretHash
    BY TransferHash
  <2> QED BY <2>1 DEF Clock, FailedLate
<1>6. OnChainInTime'
  BY DEF Clock, OnChainInTime
<1>7. RegisteredInTime'
  <2>1. \A k \in Node : \A m \in Range(sent'[Partner(k)]) :
          m.type = "LockedTransfer" =>
            m \in Range(sent[Partner(k)]) /\ m.lock.secretHash \in SecretHash
    BY Partners, TransferHash
  <2> QED BY <2>1 DEF Clock, RegisteredInTime
<1> QED BY <1>2, <1>3, <1>4, <1>5, <1>6, <1>7 DEF Clock

\* HandleSecretRevealed.
LEMMA RevealedPays ==
  ASSUME PaymentInv, NEW n \in Node, NEW h0 \in SecretHash,
         HandleSecretRevealed(n, h0)
  PROVE  Kept
<1> DEFINE p == Partner(n)
           our == ourState[n]
           partner == partnerState[n]
<1>1. /\ p \in Node /\ p # n /\ Partner(p) = n
      /\ \A k \in Node : k # n => k = p
  BY Partners
<1>2. LinkTypes /\ TaskTypes /\ ClockTypes
  BY LinkTyping, Parts DEF PaymentInv
<1>3. /\ seen' = [seen EXCEPT ![n] = @ \cup {h0}] /\ received' = received
      /\ UNCHANGED <<block, todo, height, mined, mineBy>>
      /\ mined[h0] \in Nat /\ mined[h0] # 0
      /\ seen \in [Node -> SUBSET SecretHash]
  BY <1>2 DEF HandleSecretRevealed, chainVars, ClockTypes
<1>4. \A h \in SecretHash : RegisteredSame(h)
  BY <1>3 DEF RegisteredSame
<1>5. /\ InitiatorSide(n, h0) /\ TargetSide(n, h0)
      /\ InitiatorSide(p, h0) /\ TargetSide(p, h0)
  BY <1>1 DEF PaymentInv, Payments
<1>6. \A l \in our.lockedLocks : l.secretHash = h0 =>
        l \in PendingLocks(our) /\ task[n][h0] = "initiator"
  BY <1>5 DEF InitiatorSide, IsLockLocked, LocksOf, PendingLocks
<1>7. ASSUME task[n][h0] = "initiator", InitEventsForUnlockLock(n, h0),
             UNCHANGED partnerState
      PROVE  Kept
  <2>1. NothingEnds(p, h0)
    <3>1. Quiet(p)
      BY <1>1, <1>2, <1>3, <1>7 DEF LinkTypes, InitEventsForUnlockLock, Send, Quiet
    <3> QED BY <1>1, <1>2, <3>1, NothingEndsQuiet DEF PaymentInv, Links
  <2>2. Known(n, h0)
    BY <1>3, <1>5, <1>7 DEF InitiatorSide, TargetSide
  <2>3. /\ Links' /\ OwnLocksLocked' /\ Payments'
        /\ \A k \in Node :
              /\ ourState'[k].lockedLocks \subseteq ourState[k].lockedLocks
              /\ \A m \in Range(sent'[k]) :
                   m.type = "LockedTransfer" => m \in Range(sent[k])
              /\ \A h \in SecretHash :
                   /\ "PaymentSentFailed" \in notices'[k][h]
                        => "PaymentSentFailed" \in notices[k][h]
                   /\ task'[k][h] \in TargetState => task[k][h] \in TargetState
    BY <1>3, <1>4, <1>7, <2>1, <2>2, UnlockPays
  <2>4. \A l \in ourState'[n].lockedLocks :
          l.secretHash = h0 => mined[h0] > l.expiration
    <3>1. task'[n][h0] = "none"
      BY <1>2, <1>7 DEF InitEventsForUnlockLock, SetTask, TaskTypes
    <3>2. ~IsLockLocked(ourState'[n], h0)
      BY <2>3, <3>1 DEF Payments, InitiatorSide
    <3> QED BY <3>2 DEF IsLockLocked, LocksOf
  <2>5. \A k \in Node : \A l \in partnerState'[k].onChainUnLockedLocks :
          l \in partnerState[k].onChainUnLockedLocks
    BY <1>7
  <2> QED BY <1>2, <1>3, <2>3, <2>4, <2>5, SeenClock DEF PaymentInv, Kept
<1>8. ASSUME UNCHANGED <<nodeVars, sent>>,
             \A l \in our.lockedLocks : l.secretHash = h0 => mined[h0] > l.expiration
      PROVE  Kept
  <2>1. UNCHANGED <<ourState, partnerState, task, notices, sent>>
    BY <1>8 DEF nodeVars
  <2>2. Links' /\ OwnLocksLocked'
    BY <1>3, <2>1 DEF PaymentInv, Links, LinkOf, OwnLocksLocked
  <2>3. Payments'
    <3>1. \A k \in Node : Quiet(k)
      BY <1>3, <2>1 DEF Quiet
    <3>2. \A k \in Node, h \in SecretHash : HashSame(k, h) /\ SaidSame(k, h)
      BY <1>2, <2>1, <3>1, QuietLink DEF PaymentInv, Links, HashSame
    <3> QED BY <1>4, <3>2, PaymentsSame DEF PaymentInv
  <2>4. Clock'
    BY <1>2, <1>3, <1>8, <2>1, SeenClock DEF PaymentInv
  <2> QED BY <2>2, <2>3, <2>4 DEF Kept
<1>9. CASE /\ task[n][h0] = "initiator"
           /\ IF mined[h0] <= TransferLock(h0).expiration
              THEN InitEventsForUnlockLock(n, h0)
              ELSE UNCHANGED <<ourState, task, notices, sent>>
           /\ UNCHANGED partnerState
  <2>1. CASE mined[h0] <= TransferLock(h0).expiration
    <3>1. InitEventsForUnlockLock(n, h0) /\ UNCHANGED partnerState
      BY <1>9, <2>1
    <3> QED BY <1>7, <1>9, <3>1
  <2>2. CASE ~(mined[h0] <= TransferLock(h0).expiration)
    <3>1. UNCHANGED <<nodeVars, sent>>
      BY <1>9, <2>2 DEF nodeVars
    <3>2. ASSUME NEW l \in our.lockedLocks, l.secretHash = h0
          PROVE  mined[h0] > l.expiration
      <4>1. l \in PendingLocks(our)
        BY <1>6, <3>2
      <4>2. /\ l.expiration \in Nat /\ Sent(n, "LockedTransfer", h0)
            /\ \A m \in Range(sent[n]) :
                 m.type = "LockedTransfer" /\ m.lock.secretHash = h0 => m.lock = l
        BY <3>2, <4>1, LockSent
      <4>3. PICK m \in Range(sent[n]) :
              m.type = "LockedTransfer" /\ m.lock.secretHash = h0
        BY <1>2, <4>2, GotSent DEF About
      <4>4. TransferLock(h0) = l
        BY <4>2, <4>3, TheTransfer
      <4> QED BY <1>3, <2>2, <4>2, <4>4
    <3> QED BY <1>8, <3>1, <3>2
  <2> QED BY <2>1, <2>2
<1>10. CASE /\ task[n][h0] \in TargetState
            /\ ourState' = [ourState EXCEPT
                 ![n] = RegisterOnChainSecretEndState(@, h0, mined[h0])]
            /\ partnerState' = [partnerState EXCEPT
                 ![n] = RegisterOnChainSecretEndState(@, h0, mined[h0])]
            /\ SetTask(n, h0, "reveal_secret")
            /\ UNCHANGED <<notices, sent>>
  <2> DEFINE new == RegisterOnChainSecretEndState(our, h0, mined[h0])
             with == RegisterOnChainSecretEndState(partner, h0, mined[h0])
  <2>1. /\ our \in EndStates /\ partner \in EndStates
        /\ Books(our) /\ Books(partner)
    BY <1>2 DEF LinkTypes, PaymentInv, LedgerInv, BooksAgree
  <2>2. ~IsLockPending(our, h0)
    <3>1. Sent(p, "LockedTransfer", h0)
      BY <1>1, <1>5, <1>10 DEF TargetSide
    <3>2. ~Sent(n, "LockedTransfer", h0)
      BY <1>1, <1>5, <3>1 DEF InitiatorSide
    <3> SUFFICES ASSUME NEW l \in PendingLocks(our), l.secretHash = h0
                 PROVE  FALSE
      BY DEF IsLockPending, LocksOf
    <3>3. Sent(n, "LockedTransfer", h0)
      BY LockSent
    <3> QED BY <3>2, <3>3
  <2>3. /\ new.balanceProof = our.balanceProof
        /\ with.balanceProof = partner.balanceProof
    BY <1>3, <2>1, RegisterOnChainBooks
  <2>4. /\ new.lockedLocks = our.lockedLocks
        /\ new.unLockedLocks = our.unLockedLocks
        /\ new.onChainUnLockedLocks = our.onChainUnLockedLocks
    BY <1>3, <2>1, <2>2, OnChainLocks
  <2>5. /\ \A l \in with.onChainUnLockedLocks :
             \/ l \in partner.onChainUnLockedLocks
             \/ l.secretHash = h0 /\ l.expiration >= mined[h0]
        /\ \A h : IsSecretKnown(partner, h) => IsSecretKnown(with, h)
    BY <1>3, <2>1, OnChainLocks
  <2>6. /\ ourState'[n] = new /\ ourState'[p] = ourState[p]
        /\ partnerState'[n] = with /\ partnerState'[p] = partnerState[p]
    BY <1>1, <1>2, <1>10 DEF LinkTypes
  <2> HIDE DEF new, with
  <2>7. /\ task'[n][h0] = "reveal_secret"
        /\ \A k \in Node, h \in SecretHash :
             k # n \/ h # h0 => task'[k][h] = task[k][h]
    BY <1>2, <1>10 DEF SetTask, TaskTypes
  <2>8. \A k \in Node : Quiet(k)
    BY <1>1, <1>3, <1>10, <2>3, <2>6 DEF Quiet
  <2>9. \A k \in Node : LinkOf(k)' /\ \A h : SaidSame(k, h)
    BY <1>2, <2>8, QuietLink DEF PaymentInv, Links
  <2>10. Links' /\ OwnLocksLocked'
    BY <1>1, <2>4, <2>6, <2>9 DEF Links, PaymentInv, OwnLocksLocked
  <2>11. \A k \in Node, h \in SecretHash :
           /\ IsLockLocked(ourState'[k], h) <=> IsLockLocked(ourState[k], h)
           /\ IsSecretKnown(partnerState[k], h) => IsSecretKnown(partnerState'[k], h)
    BY <1>1, <2>4, <2>5, <2>6, KnownBy
  <2>12. Payments'
    <3>1. \A k \in Node, h \in SecretHash \ {h0} : HashSame(k, h) /\ SaidSame(k, h)
      BY <1>10, <2>7, <2>9, <2>11 DEF HashSame
    <3>2. \A k \in Node : \A type \in Kinds :
            /\ Sent(k, type, h0)' <=> Sent(k, type, h0)
            /\ type # "LockedTransfer" => (Got(k, type, h0)' <=> Got(k, type, h0))
            /\ StuckAt(k) => StuckAt(k)'
      BY <2>9 DEF SaidSame
    <3>3. /\ task'[n][h0] \in TargetState /\ task'[p][h0] = task[p][h0]
          /\ task[n][h0] # "initiator" /\ task'[n][h0] # "initiator"
          /\ task'[n][h0] # "onchain_secret_reveal"
      BY <1>1, <1>10, <2>7 DEF TargetState
    <3>4. \A k \in Node : Known(k, h0)' <=> Known(k, h0)
      BY <1>1, <1>10, <3>2, <3>3 DEF Known, Kinds
    <3>5. ASSUME NEW k \in Node
          PROVE  InitiatorSide(k, h0)' /\ TargetSide(k, h0)'
      <4> DEFINE j == Partner(k)
      <4>1. /\ j \in Node /\ InitiatorSide(k, h0) /\ TargetSide(k, h0)
            /\ k = n \/ j = n
        BY <1>1, Partners DEF PaymentInv, Payments
      <4>2. /\ task'[k][h0] = "initiator" => task[k][h0] = "initiator"
            /\ task[k][h0] = "initiator" => task'[k][h0] = "initiator"
            /\ task'[j][h0] \in TargetState => task[j][h0] \in TargetState
            /\ task'[j][h0] = "onchain_secret_reveal"
                 => task[j][h0] = "onchain_secret_reveal"
        BY <1>1, <1>10, <3>3, <4>1
      <4>3. /\ Sent(k, "LockedTransfer", h0)' <=> Sent(k, "LockedTransfer", h0)
            /\ Sent(k, "Unlock", h0)' <=> Sent(k, "Unlock", h0)
            /\ Sent(k, "LockExpired", h0)' <=> Sent(k, "LockExpired", h0)
            /\ Got(k, "Unlock", h0)' <=> Got(k, "Unlock", h0)
            /\ Got(k, "LockExpired", h0)' <=> Got(k, "LockExpired", h0)
            /\ Sent(j, "LockedTransfer", h0)' <=> Sent(j, "LockedTransfer", h0)
            /\ Sent(j, "RevealSecret", h0)' <=> Sent(j, "RevealSecret", h0)
            /\ Got(j, "RevealSecret", h0)' <=> Got(j, "RevealSecret", h0)
            /\ StuckAt(k) => StuckAt(k)'
        BY <3>2, <4>1 DEF Kinds
      <4>4. InitiatorSide(k, h0)'
        BY <1>10, <2>11, <3>4, <4>1, <4>2, <4>3 DEF InitiatorSide
      <4>5. TargetSide(k, h0)'
        BY <1>3, <1>10, <2>11, <3>4, <4>1, <4>2, <4>3 DEF TargetSide
      <4> QED BY <4>4, <4>5
    <3> QED BY <1>4, <3>1, <3>5, PaymentsBut DEF PaymentInv
  <2>13. Clock'
    <3>1. \A l \in ourState'[n].lockedLocks :
            l.secretHash = h0 => mined[h0] > l.expiration
      BY <1>6, <1>10, <2>4, <2>6 DEF TargetState
    <3>2. \A l \in with.onChainUnLockedLocks :
            \/ l \in partner.onChainUnLockedLocks
            \/ l.secretHash = h0 /\ mined[h0] <= l.expiration
      BY <2>5
    <3>3. \A k \in Node :
            /\ ourState'[k].lockedLocks \subseteq ourState[k].lockedLocks
            /\ \A l \in partnerState'[k].onChainUnLockedLocks :
                 \/ l \in partnerState[k].onChainUnLockedLocks
                 \/ l.secretHash = h0 /\ mined[h0] <= l.expiration
            /\ \A h \in SecretHash :
                 task'[k][h] \in TargetState => task[k][h] \in TargetState
      BY <1>1, <1>10, <2>4, <2>6, <2>7, <3>2
    <3> QED BY <1>2, <1>3, <1>10, <3>1, <3>3, SeenClock DEF PaymentInv
  <2> QED BY <2>10, <2>12, <2>13 DEF Kept
<1>11. CASE task[n][h0] = "none" /\ UNCHANGED <<nodeVars, sent>>
  <2>1. \A l \in our.lockedLocks : l.secretHash = h0 => mined[h0] > l.expiration
    BY <1>6, <1>11
  <2> QED BY <1>8, <1>11, <2>1
<1> QED BY <1>9, <1>10, <1>11 DEF HandleSecretRevealed

\* MineBlock.
LEMMA MinePays ==
  ASSUME PaymentInv, MineBlock
  PROVE  Kept
<1>1. LinkTypes /\ TaskTypes /\ ClockTypes
  BY LinkTyping, Parts DEF PaymentInv
<1>2. /\ UNCHANGED <<ourState, partnerState, task, notices, sent, received>>
      /\ UNCHANGED <<block, todo, seen>> /\ height' = height + 1
  BY DEF MineBlock, nodeVars, netVars, blockVars
<1>3. PICK confirmed \in SUBSET {h \in SecretHash : mineBy[h] # 0} :
        /\ \A h \in SecretHash : mineBy[h] = height' => h \in confirmed
        /\ mined' = [h \in SecretHash |->
                       IF h \in confirmed THEN height' ELSE mined[h]]
        /\ mineBy' = [h \in SecretHash |->
                       IF h \in confirmed THEN 0 ELSE mineBy[h]]
  BY DEF MineBlock
<1>4. \A h \in SecretHash :
        /\ mined[h] \in Nat /\ mineBy[h] \in Nat /\ mined[h] <= height
        /\ mineBy[h] # 0 => mined[h] = 0 /\ mineBy[h] > height
        /\ \/ /\ mineBy[h] # 0 /\ mineBy[h] >= height + 1
              /\ mined'[h] = height + 1 /\ mineBy'[h] = 0
           \/ /\ mined'[h] = mined[h] /\ mineBy'[h] = mineBy[h]
              /\ mineBy[h] # height + 1
  BY <1>1, <1>2, <1>3 DEF ClockTypes, PaymentInv, Clock, Registrations
<1>5. \A k \in Node : /\ block[k] \in Nat /\ height \in Nat /\ height - block[k] < MaxLag
                      /\ block[k] <= height /\ MaxLag \in Nat
  BY <1>1, TransfersAssumption DEF ClockTypes, PaymentInv, Clock, Heights, MineBlock
<1>6. height \in Nat
  BY <1>1 DEF ClockTypes
<1>7. \A h \in SecretHash : RegisteredSame(h)
  BY <1>4, <1>6 DEF RegisteredSame
<1>8. Links' /\ OwnLocksLocked'
  BY <1>2 DEF PaymentInv, Links, LinkOf, OwnLocksLocked
<1>9. Payments'
  <2>1. \A k \in Node : Quiet(k)
    BY <1>2 DEF Quiet
  <2>2. \A k \in Node, h \in SecretHash : HashSame(k, h) /\ SaidSame(k, h)
    BY <1>1, <1>2, <2>1, QuietLink DEF PaymentInv, Links, HashSame
  <2> QED BY <1>7, <2>2, PaymentsSame DEF PaymentInv
\* A secret that was registered before is registered at the same block.
<1>10. \A h \in SecretHash :
         /\ mined[h] # 0 => mined'[h] = mined[h]
         /\ mined'[h] = mined[h] \/ mined'[h] = height + 1
  BY <1>4
<1>11. Heights'
  BY <1>2, <1>5 DEF Heights
<1>12. Registrations'
  BY <1>2, <1>4, <1>6 DEF Registrations
<1>13. SeenInTime'
  <2>1. \A k \in Node, h \in SecretHash : mined'[h] <= block[k] => mined'[h] = mined[h]
    BY <1>5, <1>10
  <2> QED BY <1>2, <1>10, <2>1 DEF PaymentInv, Clock, SeenInTime
<1>14. LockedUntilLate'
  <2> SUFFICES ASSUME NEW k \in Node, NEW l \in ourState[k].lockedLocks,
                      l.secretHash \in seen[k]
               PROVE  mined'[l.secretHash] > l.expiration
    BY <1>2 DEF LockedUntilLate
  <2>1. l.secretHash \in SecretHash
    BY <1>1 DEF ClockTypes
  <2> QED BY <1>10, <2>1 DEF PaymentInv, Clock, SeenInTime, LockedUntilLate
<1>15. FailedLate'
  <2> SUFFICES ASSUME NEW k \in Node, NEW x \in Range(sent[k]),
                      x.type = "LockedTransfer",
                      "PaymentSentFailed" \in notices[k][x.lock.secretHash]
               PROVE  /\ x.lock.expiration <= block[k]
                      /\ \/ mined'[x.lock.secretHash] = 0
                         \/ mined'[x.lock.secretHash] > x.lock.expiration
    BY <1>2 DEF FailedLate
  <2>1. /\ x.lock.secretHash \in SecretHash /\ x.lock.expiration \in Nat
        /\ x.lock.expiration <= block[k]
        /\ \/ mined[x.lock.secretHash] = 0
           \/ mined[x.lock.secretHash] > x.lock.expiration
    BY <1>1, TransferHash DEF PaymentInv, Clock, FailedLate
  <2>2. height + 1 > x.lock.expiration
    BY <1>5, <2>1
  <2> QED BY <1>10, <2>1, <2>2
<1>16. OnChainInTime'
  <2> SUFFICES ASSUME NEW k \in Node, NEW l \in partnerState[k].onChainUnLockedLocks
               PROVE  mined'[l.secretHash] # 0 /\ mined'[l.secretHash] <= l.expiration
    BY <1>2 DEF OnChainInTime
  <2>1. l.secretHash \in SecretHash
    BY <1>1, EndStateTypes, LockSetFacts DEF LinkTypes, Lock
  <2> QED BY <1>10, <2>1 DEF PaymentInv, Clock, OnChainInTime
<1>17. RegisteredInTime'
  <2> SUFFICES ASSUME Prompt, NEW k \in Node, NEW y \in Range(sent[Partner(k)]),
                      y.type = "LockedTransfer"
               PROVE  LET h == y.lock.secretHash
                          f == y.lock.expiration
                      IN /\ mineBy'[h] <= f /\ mined'[h] <= f
                         /\ task'[k][h] \in TargetState =>
                              \/ f > block'[k] + RevealTimeout
                              \/ h \in todo'[k] /\ f = block'[k] + RevealTimeout
                              \/ mineBy'[h] # 0 \/ mined'[h] # 0
    BY <1>2 DEF RegisteredInTime, Prompt
  <2> DEFINE h == y.lock.secretHash
             f == y.lock.expiration
  <2>1. h \in SecretHash /\ f \in Nat
    BY <1>1, Partners, TransferHash
  <2>2. /\ mineBy[h] <= f /\ mined[h] <= f
        /\ task[k][h] \in TargetState =>
             \/ f > block[k] + RevealTimeout
             \/ h \in todo[k] /\ f = block[k] + RevealTimeout
             \/ mineBy[h] # 0 \/ mined[h] # 0
    BY DEF PaymentInv, Clock, RegisteredInTime
  <2> HIDE DEF h, f
  <2>3. mineBy'[h] <= f /\ mined'[h] <= f
    BY <1>4, <1>6, <2>1, <2>2
  <2>4. task'[k][h] \in TargetState =>
          \/ f > block'[k] + RevealTimeout
          \/ h \in todo'[k] /\ f = block'[k] + RevealTimeout
          \/ mineBy'[h] # 0 \/ mined'[h] # 0
    BY <1>2, <1>7, <2>1, <2>2 DEF RegisteredSame
  <2> QED BY <2>3, <2>4 DEF h, f
<1> QED BY <1>8, <1>9, <1>11, <1>12, <1>13, <1>14, <1>15, <1>16, <1>17 DEF Kept, Clock

\* handleBlockForNode.
LEMMA BlockPays ==
  ASSUME PaymentInv, NEW n \in Node, handleBlockForNode(n)
  PROVE  Kept
<1>1. LinkTypes /\ TaskTypes /\ ClockTypes
  BY LinkTyping, Parts DEF PaymentInv
<1>2. /\ UNCHANGED <<ourState, partnerState, task, notices, sent, received>>
      /\ UNCHANGED <<seen, height, mined, mineBy>>
      /\ todo[n] = {} /\ block[n] < height
      /\ \A h \in SecretHash : mined[h] = block[n] + 1 => h \in seen[n]
  BY DEF handleBlockForNode, nodeVars, netVars, chainVars, Idle
<1>3. /\ block'[n] = block[n] + 1
      /\ todo'[n] = {h \in SecretHash : task[n][h] # "none"}
      /\ \A k \in Node : k # n => block'[k] = block[k] /\ todo'[k] = todo[k]
  BY <1>1 DEF handleBlockForNode, ClockTypes
<1>4. \A k \in Node : /\ block[k] \in Nat /\ block'[k] \in Nat
                      /\ block[k] <= block'[k] /\ block[k] <= height
                      /\ height <= block[k] + MaxLag
  BY <1>1, <1>3 DEF ClockTypes, PaymentInv, Clock, Heights
<1>5. /\ height \in Nat /\ MaxLag \in Nat /\ RevealTimeout \in Nat
      /\ \A h \in SecretHash : mined[h] \in Nat
  BY <1>1, TransfersAssumption DEF ClockTypes
<1>6. Links' /\ OwnLocksLocked'
  BY <1>2 DEF PaymentInv, Links, LinkOf, OwnLocksLocked
<1>7. Payments'
  <2>1. \A k \in Node : Quiet(k)
    BY <1>2 DEF Quiet
  <2>2. \A k \in Node, h \in SecretHash : HashSame(k, h) /\ SaidSame(k, h)
    BY <1>1, <1>2, <2>1, QuietLink DEF PaymentInv, Links, HashSame
  <2>3. \A h \in SecretHash : RegisteredSame(h)
    BY <1>2 DEF RegisteredSame
  <2> QED BY <2>2, <2>3, PaymentsSame DEF PaymentInv
<1>8. Heights'
  <2>1. block[n] + 1 <= height
    BY <1>2, <1>4, <1>5
  <2>2. \A k \in Node : block'[k] <= height /\ height <= block'[k] + MaxLag
    BY <1>3, <1>4, <1>5, <2>1
  <2> QED BY <1>2, <2>2 DEF Heights
<1>9. Registrations' /\ LockedUntilLate' /\ OnChainInTime'
  BY <1>2 DEF PaymentInv, Clock, Registrations, LockedUntilLate, OnChainInTime
<1>10. SeenInTime'
  <2>1. \A h \in SecretHash : mined[h] <= block[n] + 1 =>
          mined[h] <= block[n] \/ mined[h] = block[n] + 1
    BY <1>4, <1>5
  <2> QED BY <1>2, <1>3, <2>1 DEF PaymentInv, Clock, SeenInTime
<1>11. FailedLate'
  <2> SUFFICES ASSUME NEW k \in Node, NEW x \in Range(sent[k]),
                      x.type = "LockedTransfer",
                      "PaymentSentFailed" \in notices[k][x.lock.secretHash]
               PROVE  /\ x.lock.expiration <= block'[k]
                      /\ \/ mined[x.lock.secretHash] = 0
                         \/ mined[x.lock.secretHash] > x.lock.expiration
    BY <1>2 DEF FailedLate
  <2>1. /\ x.lock.expiration \in Nat /\ x.lock.expiration <= block[k]
        /\ \/ mined[x.lock.secretHash] = 0
           \/ mined[x.lock.secretHash] > x.lock.expiration
    BY <1>1, TransferHash DEF PaymentInv, Clock, FailedLate
  <2>2. x.lock.expiration <= block'[k]
    BY <1>4, <2>1
  <2> QED BY <2>1, <2>2
<1>12. RegisteredInTime'
  <2> SUFFICES ASSUME Prompt, NEW k \in Node, NEW y \in Range(sent[Partner(k)]),
                      y.type = "LockedTransfer"
               PROVE  LET h == y.lock.secretHash
                          f == y.lock.expiration
                      IN /\ mineBy[h] <= f /\ mined[h] <= f
                         /\ task[k][h] \in TargetState =>
                              \/ f > block'[k] + RevealTimeout
                              \/ h \in todo'[k] /\ f = block'[k] + RevealTimeout
                              \/ mineBy[h] # 0 \/ mined[h] # 0
    BY <1>2 DEF RegisteredInTime, Prompt
  <2> DEFINE h == y.lock.secretHash
             f == y.lock.expiration
  <2>1. h \in SecretHash /\ f \in Nat
    BY <1>1, Partners, TransferHash
  <2>2. /\ mineBy[h] <= f /\ mined[h] <= f
        /\ task[k][h] \in TargetState =>
             \/ f > block[k] + RevealTimeout
             \/ h \in todo[k] /\ f = block[k] + RevealTimeout
             \/ mineBy[h] # 0 \/ mined[h] # 0
    BY DEF PaymentInv, Clock, RegisteredInTime
  <2> HIDE DEF h, f
  <2>3. CASE k = n
    <3>1. task[n][h] \in TargetState => h \in todo'[n]
      BY <1>3, <2>1 DEF TargetState
    <3>2. h \notin todo[n]
      BY <1>2
    <3>3. f > block[n] + RevealTimeout =>
            f > block'[n] + RevealTimeout \/ f = block'[n] + RevealTimeout
      BY <1>3, <1>4, <1>5, <2>1
    <3> QED BY <2>2, <2>3, <3>1, <3>2, <3>3 DEF h, f
  <2>4. CASE k # n
    BY <1>3, <2>2, <2>4 DEF h, f
  <2> QED BY <2>3, <2>4
<1> QED BY <1>6, <1>7, <1>8, <1>9, <1>10, <1>11, <1>12 DEF Kept, Clock

-----------------------------------------------------------------------------
(* A message arrives.                                                      *)

\* What every arrival has in common: m is the next message of n's partner p and
\* known is the proof n has of p.
Arriving(n, m) ==
  LET p == Partner(n)
  IN /\ m = sent[p][received[p] + 1]
     /\ received[p] < Len(sent[p])
     /\ received' = [received EXCEPT ![p] = @ + 1]
     /\ UNCHANGED <<block, todo, seen, height, mined, mineBy>>

\* What is known of the two nodes then.
LEMMA ArrivingFacts ==
  ASSUME PaymentInv, NEW n \in Node, NEW m, Arriving(n, m)
  PROVE  LET p == Partner(n)
         IN /\ p \in Node /\ p # n /\ Partner(p) = n
            /\ \A k \in Node : k # n => k = p
            /\ LinkTypes /\ TaskTypes /\ ClockTypes
            /\ m \in Message /\ m \in Range(sent[p])
            /\ received'[p] = received[p] + 1 /\ received'[n] = received[n]
            /\ \A h \in SecretHash : RegisteredSame(h)
            /\ ourState[n] \in EndStates /\ partnerState[n] \in EndStates
            /\ Books(ourState[n]) /\ Books(partnerState[n])
<1> DEFINE p == Partner(n)
<1>1. p \in Node /\ p # n /\ Partner(p) = n /\ \A k \in Node : k # n => k = p
  BY Partners
<1>2. LinkTypes /\ TaskTypes /\ ClockTypes
  BY LinkTyping, Parts DEF PaymentInv
<1>3. m \in Message /\ m \in Range(sent[p])
  <2>1. sent[p] \in Seq(Message) /\ received[p] \in Nat
    BY <1>1, <1>2 DEF LinkTypes
  <2>2. received[p] + 1 \in 1 .. Len(sent[p]) /\ DOMAIN sent[p] = 1 .. Len(sent[p])
    BY <2>1 DEF Arriving
  <2> QED BY <2>1, <2>2 DEF Arriving, Range
<1>4. received'[p] = received[p] + 1 /\ received'[n] = received[n]
  BY <1>1, <1>2 DEF Arriving, LinkTypes
<1>5. \A h \in SecretHash : RegisteredSame(h)
  BY DEF Arriving, RegisteredSame
<1>6. /\ ourState[n] \in EndStates /\ partnerState[n] \in EndStates
      /\ Books(ourState[n]) /\ Books(partnerState[n])
  BY <1>2 DEF LinkTypes, PaymentInv, LedgerInv, BooksAgree
<1> QED BY <1>1, <1>2, <1>3, <1>4, <1>5, <1>6

\* What it does to the direction of p: either the message is the next proof and
\* n takes it over, or n's record of p stays as it is.
LEMMA ArrivingLink ==
  ASSUME PaymentInv, NEW n \in Node, NEW m, Arriving(n, m),
         sent'[Partner(n)] = sent[Partner(n)],
         ourState'[Partner(n)] = ourState[Partner(n)]
  PROVE  LET p == Partner(n)
             known == partnerState[n].balanceProof
             known1 == partnerState'[n].balanceProof
             next == HasProof(m) /\ m.bp.nonce = known.nonce + 1
         IN /\ \A type, h : /\ Sent(p, type, h)' <=> Sent(p, type, h)
                            /\ Got(p, type, h)' <=> Got(p, type, h) \/ About(m, type, h)
            /\ next => Succeeds(m, known)
            /\ \/ next /\ known1 = m.bp
               \/ known1 = known /\ (next => m.type = "LockExpired")
               => LinkOf(p)' /\ (StuckAt(p) => StuckAt(p)')
            /\ known1 = known /\ (next => m.type = "LockExpired") /\ HasProof(m)
               => StuckAt(p)'
<1>1. /\ Partner(n) \in Node /\ Partner(Partner(n)) = n /\ LinkTypes
      /\ received'[Partner(n)] = received[Partner(n)] + 1
  BY ArrivingFacts
<1>2. Arrives(Partner(n))
  BY <1>1 DEF Arriving, Arrives
<1>3. LinkOf(Partner(n))
  BY <1>1 DEF PaymentInv, Links
<1> QED BY <1>1, <1>2, <1>3, ArrivesLink DEF Arriving

\* Nothing is spent that n does not see: an amount that a proof of p covers is
\* within GetDistributable as n computes it.
LEMMA WithinReach ==
  ASSUME PaymentInv, NEW n \in Node, NEW m \in Range(sent[Partner(n)]),
         HasProof(m), NEW x \in Nat,
         LET known == partnerState[n].balanceProof
         IN /\ m.bp.transferredAmount + m.bp.lockedAmount
                 = known.transferredAmount + known.lockedAmount + x
            /\ m.bp.transferredAmount + m.bp.lockedAmount <= MaxUint64
  PROVE  x <= GetDistributable(partnerState[n], ourState[n])
<1> DEFINE p == Partner(n)
           D == Deposit[p]
           T == partnerState[n].balanceProof.transferredAmount
           L == partnerState[n].balanceProof.lockedAmount
           R == ourState[n].balanceProof.transferredAmount
           Q == partnerState[p].balanceProof.transferredAmount
           X == m.bp.transferredAmount + m.bp.lockedAmount
           E == Deposit[n]
           K == ourState[n].balanceProof.lockedAmount
<1>1. /\ p \in Node /\ Partner(p) = n
      /\ partnerState[n] \in EndStates /\ ourState[n] \in EndStates
      /\ partnerState[p] \in EndStates /\ Books(partnerState[n])
      /\ D \in Nat /\ E \in Nat /\ MaxUint64 \in Nat
  BY Partners, AmountFacts DEF PaymentInv, LedgerInv, TypeOK, BooksAgree
<1>2. T \in Nat /\ L \in Nat /\ R \in Nat /\ Q \in Nat /\ K \in Nat
  BY <1>1, EndStateTypes, AmountFacts
<1>3. /\ X = T + L + x /\ X <= MaxUint64
      /\ X <= D + Q /\ Q <= R /\ R + K <= E + T
  BY <1>1 DEF PaymentInv, LedgerInv, ProofsCovered, RecordsBehind, Funded
<1>4. /\ partnerState[n].contractBalance = D
      /\ partnerState[n].totalWithdraw = 0
  BY DEF PaymentInv, LedgerInv, DepositsKept
<1>5. D + E < MaxUint64
  <2>1. (p = A /\ n = B) \/ (p = B /\ n = A)
    BY DEF Node, Partner
  <2> QED BY <1>1, <2>1, TransfersAssumption
<1> HIDE DEF D, T, L, R, Q, X, E, K
<1>6. T + L <= D + R /\ D + R - T <= MaxUint64
  BY <1>1, <1>2, <1>3, <1>5
<1>7. x <= MaxUint64 - T - L /\ x <= D + R - T - L
  BY <1>1, <1>2, <1>3
<1>8. GetDistributable(partnerState[n], ourState[n])
        = Min(MaxUint64 - T - L, D + R - T - L)
  BY <1>1, <1>4, <1>6, DistributableExact DEF D, T, L, R
<1>9. x <= Min(MaxUint64 - T - L, D + R - T - L)
  BY <1>7 DEF Min
<1> QED BY <1>8, <1>9

\* A proof that passes IsBalanceProofUsableOnChain is the next one.
LEMMA UsableNext ==
  ASSUME NEW bp \in BalanceProof, NEW end
  PROVE  IsBalanceProofUsableOnChain(bp, end, TRUE)
           <=> bp.nonce = end.balanceProof.nonce + 1
<1>1. Add64(bp.transferredAmount, bp.lockedAmount) \in Amount
  BY AmountFacts DEF BalanceProof
<1> QED BY <1>1, AmountFacts DEF IsBalanceProofUsableOnChain, getNextNonce,
        IsBalanceProofSafeForOnchainOperations

\* A DirectTransfer that is the next proof is taken over.
LEMMA DirectArrives ==
  ASSUME PaymentInv, NEW n \in Node, NEW m, Arriving(n, m),
         handleReceiveDirectTransfer(n, m)
  PROVE  Kept
<1> DEFINE p == Partner(n)
           partner == partnerState[n]
           known == partner.balanceProof
           next == m.bp.nonce = known.nonce + 1
           new == IF next THEN WithTransfer(partner, m.bp) ELSE partner
           valid == IsValidDirectTransfer(m.bp, partner, ourState[n], TRUE)
<1>1. /\ p \in Node /\ p # n /\ Partner(p) = n
      /\ \A k \in Node : k # n => k = p
      /\ LinkTypes /\ TaskTypes /\ m \in Message /\ m \in Range(sent[p])
      /\ received'[p] = received[p] + 1 /\ received'[n] = received[n]
      /\ \A h \in SecretHash : RegisteredSame(h)
      /\ partner \in EndStates /\ Books(partner)
  BY ArrivingFacts
<1>2. /\ m.type = "DirectTransfer" /\ UNCHANGED <<ourState, task, notices, sent>>
      /\ UNCHANGED <<block, todo, seen, height, mined, mineBy>>
      /\ partnerState' = IF valid THEN [partnerState EXCEPT ![n] = WithTransfer(@, m.bp)]
                                  ELSE partnerState
  BY DEF handleReceiveDirectTransfer, Arriving
<1>3. HasProof(m) /\ m.bp \in BalanceProof
  BY <1>1, <1>2, MessageFields
<1>4. next => Succeeds(m, known)
  BY <1>2, <1>3, ArrivingLink
<1>5. valid <=> next
  <2>1. ASSUME next
        PROVE  valid
    <3> DEFINE T == known.transferredAmount
               x == m.bp.transferredAmount - T
    <3>1. /\ m.bp.locksRoot = known.locksRoot
          /\ m.bp.lockedAmount = known.lockedAmount
          /\ m.bp.transferredAmount > T
          /\ m.bp.transferredAmount + m.bp.lockedAmount <= MaxUint64
      BY <1>2, <1>4, <2>1 DEF Succeeds
    <3>2. /\ T \in Nat /\ known.lockedAmount \in Nat
          /\ m.bp.transferredAmount \in Amount /\ m.bp.transferredAmount \in Nat
      BY <1>1, <1>3, EndStateTypes, AmountFacts DEF BalanceProof
    <3>3. /\ x \in Nat
          /\ m.bp.transferredAmount + m.bp.lockedAmount = T + known.lockedAmount + x
          /\ Sub64(m.bp.transferredAmount, T) = x
      <4>1. Sub64(m.bp.transferredAmount, T) = m.bp.transferredAmount - T
        BY <3>1, <3>2, SubExact
      <4> HIDE DEF T
      <4> QED BY <3>1, <3>2, <4>1
    <3> HIDE DEF x
    <3>4. x <= GetDistributable(partner, ourState[n])
      BY <1>1, <1>3, <3>1, <3>3, WithinReach
    <3>5. currentLockedAmount(partner) = known.lockedAmount
      BY <1>1, LockedExact
    <3>6. IsBalanceProofUsableOnChain(m.bp, partner, TRUE)
      BY <1>3, <2>1, UsableNext
    <3> QED BY <3>1, <3>3, <3>4, <3>5, <3>6 DEF IsValidDirectTransfer
  <2>2. valid => next
    BY <1>3, UsableNext DEF IsValidDirectTransfer
  <2> QED BY <2>1, <2>2
<1>6. /\ partnerState'[n] = new /\ partnerState'[p] = partnerState[p]
  BY <1>1, <1>2, <1>5 DEF LinkTypes
<1>7. /\ new.balanceProof = IF next THEN m.bp ELSE known
      /\ new.unLockedLocks = partner.unLockedLocks
      /\ new.onChainUnLockedLocks = partner.onChainUnLockedLocks
  BY <1>1, TransferLocks DEF WithTransfer, EndStates
<1> HIDE DEF new, valid
<1>8. /\ \A type, h : /\ Sent(p, type, h)' <=> Sent(p, type, h)
                      /\ Got(p, type, h)' <=> Got(p, type, h) \/ About(m, type, h)
      /\ LinkOf(p)' /\ (StuckAt(p) => StuckAt(p)')
  BY <1>2, <1>3, <1>6, <1>7, ArrivingLink
<1>9. LinkOf(n)' /\ \A h : SaidSame(n, h)
  <2>1. Quiet(n)
    BY <1>1, <1>2, <1>6 DEF Quiet
  <2> QED BY <1>1, <2>1, QuietLink DEF PaymentInv, Links
<1>10. \A h : SaidSame(p, h)
  <2>1. \A type \in Kinds : \A h : ~About(m, type, h)
    BY <1>2 DEF About, Kinds
  <2> QED BY <1>8, <2>1 DEF SaidSame
<1>11. Links' /\ OwnLocksLocked'
  BY <1>1, <1>2, <1>8, <1>9 DEF Links, PaymentInv, OwnLocksLocked
<1>12. Payments'
  <2>1. \A k \in Node, h \in SecretHash : HashSame(k, h)
    BY <1>1, <1>2, <1>6, <1>7, KnownBy DEF HashSame
  <2> QED BY <1>1, <1>9, <1>10, <2>1, PaymentsSame DEF PaymentInv
<1>13. Clock'
  BY <1>1, <1>2, <1>6, <1>7, ClockSame DEF PaymentInv
<1> QED BY <1>11, <1>12, <1>13 DEF Kept

\* The transfer of a payment arrives for the first time: n has no task for it
\* and no lock, and nothing has ended it before.
LEMMA TransferIsNew ==
  ASSUME PaymentInv, NEW n \in Node, NEW m, Arriving(n, m),
         m.type = "LockedTransfer"
  PROVE  LET h == m.lock.secretHash
             p == Partner(n)
         IN /\ h \in SecretHash
            /\ Sent(p, "LockedTransfer", h) /\ ~Sent(n, "LockedTransfer", h)
            /\ task[n][h] = "none" /\ task[p][h] \notin TargetState
            /\ ~IsLockPending(partnerState[n], h)
            /\ ~IsLockPending(ourState[n], h)
            /\ ~Got(p, "Unlock", h) /\ ~Got(p, "LockExpired", h)
            /\ \A k \in Range(sent[p]) :
                 k.type = "LockedTransfer" /\ k.lock.secretHash = h => k = m
<1> DEFINE h == m.lock.secretHash
           p == Partner(n)
           s == sent[p]
           r == received[p]
<1>1. /\ p \in Node /\ p # n /\ Partner(p) = n
      /\ LinkTypes /\ TaskTypes /\ m \in Message /\ m \in Range(s)
      /\ partnerState[n] \in EndStates
  BY ArrivingFacts
<1>2. h \in SecretHash /\ Sent(p, "LockedTransfer", h) /\ HasProof(m)
  BY <1>1, TransferHash, MessageFields
<1>3. \A k \in Range(s) : k.type = "LockedTransfer" /\ k.lock.secretHash = h => k = m
  BY <1>1 DEF PaymentInv, LedgerInv, OneTransferPerSecret
<1>4. /\ InitiatorSide(n, h) /\ TargetSide(n, h)
      /\ InitiatorSide(p, h) /\ TargetSide(p, h)
  BY <1>1, <1>2 DEF PaymentInv, Payments
<1>5. ~Sent(n, "LockedTransfer", h)
  BY <1>1, <1>2, <1>4 DEF InitiatorSide
<1>6. s \in Seq(Message) /\ r \in Nat /\ r < Len(s) /\ m = s[r + 1]
  BY <1>1 DEF LinkTypes, Arriving
<1>7. Link(s, r, ourState[p].balanceProof, partnerState[n].balanceProof) /\ Ordered(s)
  BY <1>1 DEF PaymentInv, Links, LinkOf
<1>8. m.bp.nonce \in Nat /\ m.bp.nonce > partnerState[n].balanceProof.nonce
  BY <1>1, <1>2, <1>6, <1>7, NewIsLater, EndStateTypes
<1>9. ~IsLockPending(partnerState[n], h)
  <2> SUFFICES ASSUME NEW l \in PendingLocks(partnerState[n]), l.secretHash = h
               PROVE  FALSE
    BY DEF IsLockPending, LocksOf
  <2>1. Announced(p, partnerState[n])
    BY <1>1 DEF PaymentInv, LedgerInv, LocksAnnounced
  <2>2. PICK k \in Range(s) : /\ k.type = "LockedTransfer" /\ k.lock = l
                              /\ k.bp.nonce <= partnerState[n].balanceProof.nonce
    BY <2>1 DEF Announced
  <2>3. k = m
    BY <1>3, <2>2
  <2>4. partnerState[n].balanceProof.nonce \in Nat
    BY <1>1, EndStateTypes
  <2> QED BY <1>8, <2>2, <2>3, <2>4
<1>10. ~IsLockPending(ourState[n], h)
  <2> SUFFICES ASSUME NEW l \in PendingLocks(ourState[n]), l.secretHash = h
               PROVE  FALSE
    BY DEF IsLockPending, LocksOf
  <2> QED BY <1>2, <1>5, LockSent
<1>11. task[n][h] = "none"
  <2>1. task[n][h] # "initiator"
    BY <1>4, <1>5 DEF InitiatorSide
  <2>2. task[n][h] \notin TargetState
    <3>1. ~IsSecretKnown(partnerState[n], h)
      BY <1>9 DEF IsLockPending, IsSecretKnown, IsSecretKnownOffChain,
         IsSecretKnownOnChain, LocksOf, PendingLocks
    <3> QED BY <1>1, <1>4, <3>1 DEF TargetSide
  <2>3. task[n][h] \in TaskState
    BY <1>1, <1>2 DEF TaskTypes
  <2> QED BY <2>1, <2>2, <2>3 DEF TaskState, TargetState
<1>12. task[p][h] \notin TargetState
  BY <1>4, <1>5 DEF TargetSide
<1>13. ~Got(p, "Unlock", h) /\ ~Got(p, "LockExpired", h)
  <2> SUFFICES ASSUME NEW i \in 1 .. r, Ends(s[i], h)
               PROVE  FALSE
    BY DEF Got, Said, Ends
  <2>1. i \in 1 .. Len(s) /\ r + 1 \in 1 .. Len(s) /\ DOMAIN s = 1 .. Len(s)
    BY <1>6
  <2>2. PICK t \in 1 .. i : About(s[t], "LockedTransfer", h)
    BY <1>2, <1>7, <2>1 DEF Ordered
  <2>3. t \in 1 .. Len(s) /\ t < r + 1
    BY <1>6, <2>1
  <2>4. s[t] = m
    BY <1>3, <2>1, <2>2, <2>3 DEF About, Range
  <2>5. Chain(s, ourState[p].balanceProof)
    BY <1>7 DEF Link
  <2>6. HasProof(s[t]) /\ HasProof(s[r + 1])
    BY <1>2, <1>6, <2>4
  <2> HIDE DEF s, r
  <2>7. s[t].bp.nonce < s[r + 1].bp.nonce /\ s[t].bp.nonce \in Nat
    BY <1>6, <2>1, <2>3, <2>5, <2>6, ProofOrder
  <2> QED BY <1>6, <2>4, <2>7
<1> QED BY <1>2, <1>3, <1>5, <1>9, <1>10, <1>11, <1>12, <1>13

\* ValidLockedTransferCheck accepts the transfer exactly when its proof is the
\* next one.
LEMMA LockedValid ==
  ASSUME PaymentInv, NEW n \in Node, NEW m, Arriving(n, m),
         m.type = "LockedTransfer",
         sent'[Partner(n)] = sent[Partner(n)],
         ourState'[Partner(n)] = ourState[Partner(n)]
  PROVE  LET known == partnerState[n].balanceProof
             next == m.bp.nonce = known.nonce + 1
         IN /\ next => Succeeds(m, known)
            /\ ValidLockedTransferCheck(m.bp, m.lock, partnerState[n],
                                        ourState[n], TRUE) <=> next
<1> DEFINE partner == partnerState[n]
           known == partner.balanceProof
           next == m.bp.nonce = known.nonce + 1
           T == known.transferredAmount
           L == known.lockedAmount
           x == m.lock.amount
<1>1. /\ m \in Message /\ m \in Range(sent[Partner(n)])
      /\ partner \in EndStates /\ Books(partner)
  BY ArrivingFacts
<1>2. HasProof(m) /\ m.bp \in BalanceProof /\ m.lock \in Lock
  BY <1>1, MessageFields
<1>3. next => Succeeds(m, known)
  BY <1>2, ArrivingLink
<1>4. ASSUME next
      PROVE  ValidLockedTransferCheck(m.bp, m.lock, partner, ourState[n], TRUE)
  <2>1. /\ m.lock \notin known.locksRoot
        /\ m.bp.locksRoot = known.locksRoot \cup {m.lock}
        /\ Cardinality(m.bp.locksRoot) <= MAXIMUM_PENDING_TRANSFERS
        /\ m.bp.lockedAmount = L + x
        /\ m.bp.transferredAmount = T
        /\ m.bp.transferredAmount + m.bp.lockedAmount <= MaxUint64
    BY <1>3, <1>4 DEF Succeeds
  <2>2. T \in Nat /\ L \in Nat /\ x \in Nat /\ MaxUint64 \in Nat
    BY <1>1, <1>2, EndStateTypes, AmountFacts DEF Lock
  <2>3. known.locksRoot = partner.merkleTree
    BY <1>1 DEF Books
  <2>4. currentLockedAmount(partner) = L
    BY <1>1, LockedExact
  <2>5. IsBalanceProofUsableOnChain(m.bp, partner, TRUE)
    BY <1>2, <1>4, UsableNext
  <2> HIDE DEF T, L, x
  <2>6. /\ m.bp.transferredAmount + m.bp.lockedAmount = T + L + x
        /\ L + x <= MaxUint64
    BY <2>1, <2>2
  <2>7. Add64(L, x) = L + x
    BY <2>2, <2>6, AddExact
  <2>8. x <= GetDistributable(partner, ourState[n])
    BY <1>1, <1>2, <2>1, <2>2, <2>6, WithinReach DEF T, L
  <2>9. /\ m.lock \notin partner.merkleTree
        /\ computeMerkleTreeWith(partner.merkleTree, m.lock) = m.bp.locksRoot
    BY <2>1, <2>3 DEF computeMerkleTreeWith
  <2>10. MerkleTreeWidth(m.bp.locksRoot) <= MAXIMUM_PENDING_TRANSFERS
    BY <2>1 DEF MerkleTreeWidth
  <2>11. /\ m.bp.lockedAmount = Add64(currentLockedAmount(partner), m.lock.amount)
         /\ m.bp.transferredAmount = partner.balanceProof.transferredAmount
         /\ m.lock.amount <= GetDistributable(partner, ourState[n])
    BY <2>1, <2>4, <2>7, <2>8 DEF x, T
  <2> QED BY <2>5, <2>9, <2>10, <2>11 DEF ValidLockedTransferCheck
<1>5. ValidLockedTransferCheck(m.bp, m.lock, partner, ourState[n], TRUE) => next
  BY <1>2, UsableNext DEF ValidLockedTransferCheck
<1> QED BY <1>3, <1>4, <1>5

\* A step of a node n that takes on a payment for h0, which its partner sent it,
\* more than the reveal timeout before the lock expires.
LEMMA TakenClock ==
  ASSUME LinkTypes, Clock, UNCHANGED <<block, todo, seen, height, mined, mineBy>>,
         NEW n \in Node, NEW h0 \in SecretHash,
         \A m \in Range(sent[Partner(n)]) :
           m.type = "LockedTransfer" /\ m.lock.secretHash = h0
             => m.lock.expiration > block[n] + RevealTimeout,
         UNCHANGED notices,
         \A k \in Node :
           /\ ourState'[k].lockedLocks \subseteq ourState[k].lockedLocks
           /\ partnerState'[k].onChainUnLockedLocks
                \subseteq partnerState[k].onChainUnLockedLocks
           /\ \A m \in Range(sent'[k]) :
                m.type = "LockedTransfer" => m \in Range(sent[k])
           /\ \A h \in SecretHash :
                k # n \/ h # h0 =>
                  (task'[k][h] \in TargetState => task[k][h] \in TargetState)
  PROVE  Clock'
<1>1. Heights' /\ Registrations' /\ SeenInTime'
  BY DEF Clock, Heights, Registrations, SeenInTime
<1>2. LockedUntilLate'
  BY DEF Clock, LockedUntilLate
<1>3. FailedLate'
  BY DEF Clock, FailedLate
<1>4. OnChainInTime'
  BY DEF Clock, OnChainInTime
<1>5. RegisteredInTime'
  <2> SUFFICES ASSUME Prompt, NEW k \in Node, NEW m \in Range(sent'[Partner(k)]),
                      m.type = "LockedTransfer"
               PROVE  LET h == m.lock.secretHash
                      IN /\ mineBy[h] <= m.lock.expiration
                         /\ mined[h] <= m.lock.expiration
                         /\ task'[k][h] \in TargetState =>
                              \/ m.lock.expiration > block[k] + RevealTimeout
                              \/ /\ h \in todo[k]
                                 /\ m.lock.expiration = block[k] + RevealTimeout
                              \/ mineBy[h] # 0 \/ mined[h] # 0
    BY DEF RegisteredInTime, Prompt
  <2>1. m \in Range(sent[Partner(k)]) /\ Partner(k) \in Node
    BY Partners
  <2>2. m.lock.secretHash \in SecretHash
    BY <2>1, TransferHash
  <2> QED BY <2>1, <2>2 DEF Clock, RegisteredInTime
<1> QED BY <1>1, <1>2, <1>3, <1>4, <1>5 DEF Clock

\* The target gives the secret for a transfer away that comes early enough.
LEMMA TakenArrives ==
  ASSUME PaymentInv, NEW n \in Node, NEW m, Arriving(n, m),
         m.type = "LockedTransfer",
         m.bp.nonce = partnerState[n].balanceProof.nonce + 1,
         MdIsSafeToWait(m.lock.expiration, block[n]),
         partnerState' = [partnerState EXCEPT ![n] =
           RegisterSecretEndState(WithLock(partnerState[n], m.bp, m.lock),
                                  m.lock.secretHash)],
         ourState' = [ourState EXCEPT
           ![n] = RegisterSecretEndState(@, m.lock.secretHash)],
         SetTask(n, m.lock.secretHash, "reveal_secret"),
         Send(n, [type |-> "RevealSecret", secretHash |-> m.lock.secretHash]),
         UNCHANGED notices
  PROVE  Kept
<1> DEFINE p == Partner(n)
           h0 == m.lock.secretHash
           our == ourState[n]
           partner == partnerState[n]
           new == RegisterSecretEndState(our, h0)
           accepted == WithLock(partner, m.bp, m.lock)
           with == RegisterSecretEndState(accepted, h0)
           reveal == [type |-> "RevealSecret", secretHash |-> h0]
<1>1. /\ p \in Node /\ p # n /\ Partner(p) = n
      /\ \A k \in Node : k # n => k = p
      /\ LinkTypes /\ TaskTypes /\ ClockTypes
      /\ m \in Message /\ m \in Range(sent[p])
      /\ received'[p] = received[p] + 1 /\ received'[n] = received[n]
      /\ \A h \in SecretHash : RegisteredSame(h)
      /\ our \in EndStates /\ Books(our)
      /\ partner \in EndStates /\ Books(partner)
  BY ArrivingFacts
<1>2. UNCHANGED <<block, todo, seen, height, mined, mineBy, notices>>
  BY DEF Arriving
<1>3. /\ h0 \in SecretHash
      /\ Sent(p, "LockedTransfer", h0) /\ ~Sent(n, "LockedTransfer", h0)
      /\ task[n][h0] = "none" /\ task[p][h0] \notin TargetState
      /\ ~IsLockPending(partner, h0) /\ ~IsLockPending(our, h0)
      /\ ~Got(p, "Unlock", h0) /\ ~Got(p, "LockExpired", h0)
      /\ \A k \in Range(sent[p]) :
           k.type = "LockedTransfer" /\ k.lock.secretHash = h0 => k = m
  BY TransferIsNew
<1>4. HasProof(m) /\ m.bp \in BalanceProof /\ m.lock \in Lock
  BY <1>1, MessageFields
<1>5. /\ ourState'[n] = new /\ ourState'[p] = ourState[p]
      /\ partnerState'[n] = with /\ partnerState'[p] = partnerState[p]
      /\ sent'[n] = Append(sent[n], reveal) /\ sent'[p] = sent[p]
  BY <1>1 DEF LinkTypes, Send
<1>6. accepted \in EndStates /\ Books(accepted) /\ accepted.balanceProof = m.bp
  <2>1. ValidLockedTransferCheck(m.bp, m.lock, partner, our, TRUE)
    BY <1>5, LockedValid
  <2>2. Follows(accepted, partner, m.bp)
    BY <1>1, <1>3, <1>4, <2>1, AcceptLocked
  <2> QED BY <2>2 DEF Follows
<1>7. /\ new.balanceProof = our.balanceProof
      /\ with.balanceProof = m.bp
  BY <1>1, <1>6, RegisterBooks
<1>8. /\ new.lockedLocks = our.lockedLocks
      /\ new.unLockedLocks = our.unLockedLocks
      /\ new.onChainUnLockedLocks = our.onChainUnLockedLocks
  <2>1. ~IsLockLocked(our, h0)
    BY <1>3 DEF IsLockPending, IsLockLocked, LocksOf, PendingLocks
  <2> QED BY <1>1, <2>1, RegisteredLocks
<1>9. /\ with.onChainUnLockedLocks = partner.onChainUnLockedLocks
      /\ IsSecretKnown(with, h0)
      /\ \A h : IsSecretKnown(partner, h) => IsSecretKnown(with, h)
  <2>1. /\ accepted.unLockedLocks = partner.unLockedLocks
        /\ accepted.onChainUnLockedLocks = partner.onChainUnLockedLocks
        /\ IsLockLocked(accepted, h0)
    BY <1>1, LockLocks
  <2>2. \A h : IsSecretKnown(accepted, h) <=> IsSecretKnown(partner, h)
    BY <2>1, KnownBy
  <2>3. /\ with.onChainUnLockedLocks = accepted.onChainUnLockedLocks
        /\ IsLockLocked(accepted, h0) => IsSecretKnown(with, h0)
        /\ \A h : IsSecretKnown(accepted, h) => IsSecretKnown(with, h)
    <3> HIDE DEF accepted
    <3> QED BY <1>6, RegisteredLocks
  <2> HIDE DEF with, accepted
  <2> QED BY <2>1, <2>2, <2>3
<1> HIDE DEF new, accepted, with
<1>10. reveal \in RevealMessage /\ reveal \in Message /\ ~HasProof(reveal)
  BY <1>3 DEF RevealMessage, Message, HasProof
<1>11. \A type, h : About(reveal, type, h) <=> type = "RevealSecret" /\ h = h0
  BY DEF About
<1> HIDE DEF reveal
<1>12. Appends(n, reveal)
  BY <1>1, <1>5 DEF Appends
<1>13. /\ \A type, h :
            /\ Sent(n, type, h)' <=> Sent(n, type, h) \/ About(reveal, type, h)
            /\ Got(n, type, h)' <=> Got(n, type, h)
       /\ StuckAt(n)' <=> StuckAt(n)
  BY <1>1, <1>10, <1>12, AppendsSaid
<1>14. LinkOf(n)'
  <2>1. \A h : ~Ends(reveal, h)
    BY <1>11 DEF Ends
  <2> QED BY <1>1, <1>5, <1>7, <1>10, <1>12, <2>1, AppendsLink DEF PaymentInv, Links
<1>15. /\ \A type, h : /\ Sent(p, type, h)' <=> Sent(p, type, h)
                       /\ Got(p, type, h)' <=> Got(p, type, h) \/ About(m, type, h)
       /\ LinkOf(p)' /\ (StuckAt(p) => StuckAt(p)')
  BY <1>4, <1>5, <1>7, ArrivingLink
<1>16. \A type, h : About(m, type, h) => type = "LockedTransfer"
  BY DEF About
<1>17. Links' /\ OwnLocksLocked'
  BY <1>1, <1>5, <1>8, <1>14, <1>15 DEF Links, PaymentInv, OwnLocksLocked
<1>18. /\ task'[n][h0] = "reveal_secret"
       /\ \A k \in Node, h \in SecretHash :
            k # n \/ h # h0 => task'[k][h] = task[k][h]
  BY <1>1, <1>3 DEF SetTask, TaskTypes
<1>19. Payments'
  <2>1. \A k \in Node, h \in SecretHash \ {h0} : HashSame(k, h)
    <3>1. \A k \in Node, h \in SecretHash :
            /\ IsLockLocked(ourState'[k], h) <=> IsLockLocked(ourState[k], h)
            /\ IsSecretKnown(partnerState[k], h) => IsSecretKnown(partnerState'[k], h)
      BY <1>1, <1>5, <1>8, <1>9, KnownBy
    <3> QED BY <1>2, <1>18, <3>1 DEF HashSame
  <2>2. \A k \in Node, h \in SecretHash \ {h0} : SaidSame(k, h)
    <3>1. \A h \in SecretHash \ {h0} : SaidSame(n, h)
      BY <1>11, <1>13 DEF SaidSame
    <3>2. \A h \in SecretHash \ {h0} : SaidSame(p, h)
      BY <1>15, <1>16 DEF SaidSame
    <3> QED BY <1>1, <3>1, <3>2
  <2>3. /\ InitiatorSide(n, h0) /\ TargetSide(n, h0)
        /\ InitiatorSide(p, h0) /\ TargetSide(p, h0)
    BY <1>1, <1>3 DEF PaymentInv, Payments
  <2>4. /\ ~Sent(n, "LockedTransfer", h0)'
        /\ Sent(n, "Unlock", h0)' <=> Sent(n, "Unlock", h0)
        /\ Sent(n, "LockExpired", h0)' <=> Sent(n, "LockExpired", h0)
        /\ Got(n, "Unlock", h0)' <=> Got(n, "Unlock", h0)
        /\ Got(n, "LockExpired", h0)' <=> Got(n, "LockExpired", h0)
        /\ Got(n, "RevealSecret", h0)' <=> Got(n, "RevealSecret", h0)
        /\ StuckAt(n) => StuckAt(n)'
    BY <1>3, <1>11, <1>13
  <2>5. /\ Sent(p, "LockedTransfer", h0)'
        /\ Sent(p, "Unlock", h0)' <=> Sent(p, "Unlock", h0)
        /\ Sent(p, "LockExpired", h0)' <=> Sent(p, "LockExpired", h0)
        /\ Sent(p, "RevealSecret", h0)' <=> Sent(p, "RevealSecret", h0)
        /\ ~Got(p, "Unlock", h0)' /\ ~Got(p, "LockExpired", h0)'
        /\ Got(p, "RevealSecret", h0)' <=> Got(p, "RevealSecret", h0)
    BY <1>3, <1>15, <1>16
  <2>6. /\ IsLockLocked(ourState'[n], h0) <=> IsLockLocked(our, h0)
        /\ IsLockLocked(ourState'[p], h0) <=> IsLockLocked(ourState[p], h0)
        /\ IsSecretKnown(partnerState'[n], h0)
        /\ IsSecretKnown(partnerState[p], h0) => IsSecretKnown(partnerState'[p], h0)
    BY <1>5, <1>8, <1>9, KnownBy
  <2>7. /\ task'[n][h0] \in TargetState /\ task'[n][h0] # "initiator"
        /\ task'[n][h0] # "onchain_secret_reveal"
        /\ task[n][h0] # "initiator" /\ task'[p][h0] = task[p][h0]
    BY <1>1, <1>3, <1>18 DEF TargetState
  <2>8. /\ Known(p, h0)' /\ (Known(n, h0) => Known(n, h0)')
    BY <1>1, <2>4, <2>7 DEF Known
  <2>9. InitiatorSide(n, h0)'
    BY <1>1, <1>2, <2>3, <2>4, <2>5, <2>6, <2>7, <2>8 DEF InitiatorSide
  <2>10. InitiatorSide(p, h0)'
    BY <1>1, <1>2, <2>3, <2>4, <2>5, <2>6, <2>7, <2>8 DEF InitiatorSide
  <2>11. TargetSide(n, h0)'
    BY <1>1, <1>2, <1>3, <2>3, <2>4, <2>5, <2>6, <2>7, <2>8 DEF TargetSide
  <2>12. TargetSide(p, h0)'
    BY <1>1, <1>2, <2>3, <2>4, <2>5, <2>6, <2>7, <2>8 DEF TargetSide
  <2>13. \A k \in Node : InitiatorSide(k, h0)' /\ TargetSide(k, h0)'
    BY <1>1, <2>9, <2>10, <2>11, <2>12
  <2> QED BY <1>1, <2>1, <2>2, <2>13, PaymentsBut DEF PaymentInv
<1>20. Clock'
  <2>1. m.lock.expiration > block[n] + RevealTimeout
    <3>1. /\ m.lock.expiration \in Nat /\ block[n] \in Nat /\ RevealTimeout \in Nat
      BY <1>1, <1>4, TransfersAssumption DEF Lock, ClockTypes
    <3> QED BY <3>1 DEF MdIsSafeToWait
  <2>2. Range(sent'[n]) = Range(sent[n]) \cup {reveal}
    BY <1>1, <1>10, <1>12, AppendRange
  <2>3. \A k \in Node : \A x \in Range(sent'[k]) :
          x.type = "LockedTransfer" => x \in Range(sent[k])
    BY <1>1, <1>5, <1>10, <2>2, MessageFields
  <2>4. \A k \in Node :
          /\ ourState'[k].lockedLocks \subseteq ourState[k].lockedLocks
          /\ partnerState'[k].onChainUnLockedLocks
               \subseteq partnerState[k].onChainUnLockedLocks
    BY <1>1, <1>5, <1>8, <1>9
  <2>5. \A x \in Range(sent[p]) :
          x.type = "LockedTransfer" /\ x.lock.secretHash = h0
            => x.lock.expiration > block[n] + RevealTimeout
    BY <1>3, <2>1
  <2>6. \A k \in Node :
          /\ ourState'[k].lockedLocks \subseteq ourState[k].lockedLocks
          /\ partnerState'[k].onChainUnLockedLocks
               \subseteq partnerState[k].onChainUnLockedLocks
          /\ \A x \in Range(sent'[k]) :
               x.type = "LockedTransfer" => x \in Range(sent[k])
          /\ \A h \in SecretHash :
               k # n \/ h # h0 =>
                 (task'[k][h] \in TargetState => task[k][h] \in TargetState)
    BY <1>18, <2>3, <2>4
  <2>7. /\ LinkTypes /\ Clock /\ h0 \in SecretHash
        /\ UNCHANGED <<block, todo, seen, height, mined, mineBy>>
    BY <1>1, <1>2, <1>3 DEF PaymentInv
  <2> HIDE DEF h0
  <2> QED BY <2>5, <2>6, <2>7, TakenClock
<1> QED BY <1>17, <1>19, <1>20 DEF Kept

\* A transfer that is refused, or accepted too late to be used, starts nothing.
LEMMA LockedArrives ==
  ASSUME PaymentInv, NEW n \in Node, NEW m, Arriving(n, m), HandleInitTarget(n, m)
  PROVE  Kept
<1> DEFINE p == Partner(n)
           h0 == m.lock.secretHash
           partner == partnerState[n]
           known == partner.balanceProof
           next == m.bp.nonce = known.nonce + 1
           accepted == WithLock(partner, m.bp, m.lock)
           valid == ValidLockedTransferCheck(m.bp, m.lock, partner, ourState[n], TRUE)
           timely == /\ MdIsSafeToWait(m.lock.expiration, block[n])
                     /\ ~TransferExpired(m.lock, ourState[n], block[n])
<1>1. /\ p \in Node /\ p # n /\ Partner(p) = n
      /\ \A k \in Node : k # n => k = p
      /\ LinkTypes /\ TaskTypes /\ m \in Message /\ m \in Range(sent[p])
      /\ received'[p] = received[p] + 1 /\ received'[n] = received[n]
      /\ \A h \in SecretHash : RegisteredSame(h)
      /\ partner \in EndStates /\ Books(partner)
  BY ArrivingFacts
<1>2. m.type = "LockedTransfer"
  BY DEF HandleInitTarget
<1>3. HasProof(m) /\ m.bp \in BalanceProof /\ m.lock \in Lock
  BY <1>1, <1>2, MessageFields
<1>4. h0 \in SecretHash /\ NoTask(n, h0) /\ task[n][h0] = "none"
      /\ ~IsLockPending(partner, h0)
  BY <1>2, TransferIsNew DEF NoTask
<1>5. sent'[p] = sent[p] /\ ourState'[p] = ourState[p]
  BY <1>1, <1>4 DEF HandleInitTarget, Send, LinkTypes, nodeVars
<1>6. valid <=> next
  BY <1>2, <1>5, LockedValid
<1>7. CASE /\ valid /\ timely
           /\ partnerState' = [partnerState EXCEPT
                ![n] = RegisterSecretEndState(accepted, h0)]
           /\ ourState' = [ourState EXCEPT ![n] = RegisterSecretEndState(@, h0)]
           /\ SetTask(n, h0, "reveal_secret")
           /\ Send(n, [type |-> "RevealSecret", secretHash |-> h0])
           /\ UNCHANGED notices
  BY <1>2, <1>6, <1>7, TakenArrives
<1>8. CASE /\ partnerState' = IF valid THEN [partnerState EXCEPT ![n] = accepted]
                                       ELSE partnerState
           /\ SetTask(n, h0, "none")
           /\ Tell(n, h0, "UnlockClaimFailed")
           /\ UNCHANGED <<ourState, sent>>
  <2> DEFINE new == IF next THEN accepted ELSE partner
  <2>1. partnerState'[n] = new /\ partnerState'[p] = partnerState[p]
    BY <1>1, <1>6, <1>8 DEF LinkTypes
  <2>2. /\ next => new.balanceProof = m.bp
        /\ ~next => new.balanceProof = known
        /\ new.unLockedLocks = partner.unLockedLocks
        /\ new.onChainUnLockedLocks = partner.onChainUnLockedLocks
    <3>1. /\ accepted.unLockedLocks = partner.unLockedLocks
          /\ accepted.onChainUnLockedLocks = partner.onChainUnLockedLocks
      BY <1>1, LockLocks
    <3>2. accepted.balanceProof = m.bp
      BY <1>1 DEF WithLock, EndStates
    <3> HIDE DEF accepted
    <3> QED BY <3>1, <3>2
  <2> HIDE DEF new
  <2>3. /\ \A type, h : /\ Sent(p, type, h)' <=> Sent(p, type, h)
                        /\ Got(p, type, h)' <=> Got(p, type, h) \/ About(m, type, h)
        /\ LinkOf(p)' /\ (StuckAt(p) => StuckAt(p)')
    BY <1>3, <1>5, <2>1, <2>2, ArrivingLink
  <2>4. LinkOf(n)' /\ \A h : SaidSame(n, h)
    <3>1. Quiet(n)
      BY <1>1, <1>8, <2>1 DEF Quiet
    <3> QED BY <1>1, <3>1, QuietLink DEF PaymentInv, Links
  <2>5. \A h : SaidSame(p, h)
    <3>1. \A type, h : About(m, type, h) => type = "LockedTransfer"
      BY <1>2 DEF About
    <3> QED BY <2>3, <3>1 DEF SaidSame
  <2>6. Links' /\ OwnLocksLocked'
    BY <1>1, <1>8, <2>3, <2>4 DEF Links, PaymentInv, OwnLocksLocked
  <2>7. /\ \A k \in Node, h \in SecretHash : task'[k][h] = task[k][h]
        /\ \A k \in Node, h \in SecretHash : \A what \in Outcomes :
             what \in notices'[k][h] <=> what \in notices[k][h]
    BY <1>1, <1>4, <1>8 DEF SetTask, Tell, TaskTypes, Outcomes
  <2>8. Payments'
    <3>1. \A k \in Node, h \in SecretHash : HashSame(k, h)
      <4>1. ourState' = ourState
        BY <1>8
      <4>2. \A h : IsSecretKnown(new, h) <=> IsSecretKnown(partner, h)
        BY <2>2, KnownBy, Zenon
      <4>3. \A k \in Node : k = n \/ k = p
        BY <1>1
      <4> HIDE DEF p, partner
      <4>4. \A k \in Node, h \in SecretHash :
              IsSecretKnown(partnerState[k], h) => IsSecretKnown(partnerState'[k], h)
        BY <2>1, <4>2, <4>3, ZenonT(30) DEF partner
      <4> QED BY <2>7, <4>1, <4>4, ZenonT(30) DEF HashSame
    <3> QED BY <1>1, <2>4, <2>5, <3>1, PaymentsSame DEF PaymentInv
  <2>9. Clock'
    <3>1. \A k \in Node : \A x \in Range(sent[k]) : x.type = "LockedTransfer" =>
            x.lock.secretHash \in SecretHash
      BY <1>1, TransferHash
    <3>2. "PaymentSentFailed" \in Outcomes
      BY DEF Outcomes
    <3>3. UNCHANGED <<block, todo, seen, height, mined, mineBy>>
      BY DEF Arriving
    <3>4. \A k \in Node : Partner(k) \in Node
      BY Partners
    <3> QED BY <1>1, <1>8, <2>1, <2>2, <2>7, <3>1, <3>2, <3>3, <3>4, ClockSame
            DEF PaymentInv
  <2> QED BY <2>6, <2>8, <2>9 DEF Kept
<1> QED BY <1>4, <1>7, <1>8 DEF HandleInitTarget

\* The target shows that it knows the secret: its initiator unlocks, and for
\* anybody else that means nothing.
LEMMA RevealArrives ==
  ASSUME PaymentInv, NEW n \in Node, NEW m, Arriving(n, m),
         InitHandleOffChainSecretReveal(n, m)
  PROVE  Kept
<1> DEFINE p == Partner(n)
           h0 == m.secretHash
<1>1. /\ p \in Node /\ p # n /\ Partner(p) = n
      /\ \A k \in Node : k # n => k = p
      /\ LinkTypes /\ TaskTypes /\ m \in Message /\ m \in Range(sent[p])
      /\ received'[p] = received[p] + 1 /\ received'[n] = received[n]
      /\ \A h \in SecretHash : RegisteredSame(h)
  BY ArrivingFacts
<1>2. /\ m.type = "RevealSecret" /\ partnerState' = partnerState
      /\ UNCHANGED <<block, todo, seen, height, mined, mineBy>>
  BY DEF InitHandleOffChainSecretReveal, nodeVars, Arriving
<1>3. h0 \in SecretHash /\ ~HasProof(m)
  BY <1>1, <1>2, MessageFields DEF HasProof
<1>4. \A type, h : About(m, type, h) <=> type = "RevealSecret" /\ h = h0
  BY <1>2 DEF About
<1>5. sent'[p] = sent[p] /\ ourState'[p] = ourState[p]
  BY <1>1 DEF InitHandleOffChainSecretReveal, InitEventsForUnlockLock, Send,
     LinkTypes, nodeVars
<1>6. /\ \A type, h : /\ Sent(p, type, h)' <=> Sent(p, type, h)
                      /\ Got(p, type, h)' <=> Got(p, type, h) \/ About(m, type, h)
      /\ LinkOf(p)' /\ (StuckAt(p) => StuckAt(p)')
  BY <1>2, <1>3, <1>5, ArrivingLink
<1>7. /\ \A k \in SecretHash \ {h0} : SaidSame(p, k)
      /\ NothingEnds(p, h0)
  <2>1. \A k \in SecretHash \ {h0} : SaidSame(p, k)
    BY <1>4, <1>6 DEF SaidSame
  <2> QED BY <1>4, <1>6, <2>1 DEF NothingEnds
<1>8. CASE task[n][h0] = "initiator"
  <2>1. InitEventsForUnlockLock(n, h0)
    BY <1>8 DEF InitHandleOffChainSecretReveal
  <2>2. Known(n, h0)
    <3>1. Sent(p, "RevealSecret", h0)
      BY <1>1, <1>4, GotSent
    <3> QED BY <1>1, <1>3, <3>1 DEF PaymentInv, Payments, TargetSide
  <2>3. /\ Links' /\ OwnLocksLocked' /\ Payments'
        /\ \A k \in Node :
             /\ ourState'[k].lockedLocks \subseteq ourState[k].lockedLocks
             /\ \A x \in Range(sent'[k]) :
                  x.type = "LockedTransfer" => x \in Range(sent[k])
             /\ \A h \in SecretHash :
                  /\ "PaymentSentFailed" \in notices'[k][h]
                       => "PaymentSentFailed" \in notices[k][h]
                  /\ task'[k][h] \in TargetState => task[k][h] \in TargetState
    <3> HIDE DEF h0
    <3> QED BY <1>1, <1>2, <1>3, <1>7, <1>8, <2>1, <2>2, UnlockPays
  <2>4. Clock'
    <3>1. \A k \in Node : \A x \in Range(sent[k]) : x.type = "LockedTransfer" =>
            x.lock.secretHash \in SecretHash
      BY <1>1, TransferHash
    <3>2. \A k \in Node : Partner(k) \in Node
      BY Partners
    <3> QED BY <1>2, <2>3, <3>1, <3>2, ClockSame DEF PaymentInv
  <2> QED BY <2>3, <2>4 DEF Kept
<1>9. CASE task[n][h0] # "initiator"
  <2>1. UNCHANGED <<ourState, partnerState, task, notices, sent>>
    BY <1>9 DEF InitHandleOffChainSecretReveal, nodeVars
  <2>2. LinkOf(n)' /\ \A h : SaidSame(n, h)
    <3>1. Quiet(n)
      BY <1>1, <2>1 DEF Quiet
    <3> QED BY <1>1, <3>1, QuietLink DEF PaymentInv, Links
  <2>3. Links' /\ OwnLocksLocked'
    BY <1>1, <1>6, <2>1, <2>2 DEF Links, PaymentInv, OwnLocksLocked
  <2>4. Payments'
    <3>1. \A k \in Node, h \in SecretHash \ {h0} : HashSame(k, h) /\ SaidSame(k, h)
      BY <1>1, <1>7, <2>1, <2>2 DEF HashSame
    <3>2. /\ InitiatorSide(n, h0) /\ TargetSide(n, h0)
          /\ InitiatorSide(p, h0) /\ TargetSide(p, h0)
      BY <1>1, <1>3 DEF PaymentInv, Payments
    <3>3. /\ \A type \in Kinds : Sent(n, type, h0)' <=> Sent(n, type, h0)
          /\ \A type \in Kinds \ {"LockedTransfer"} :
               Got(n, type, h0)' <=> Got(n, type, h0)
          /\ \A type : Sent(p, type, h0)' <=> Sent(p, type, h0)
          /\ Got(p, "Unlock", h0)' <=> Got(p, "Unlock", h0)
          /\ Got(p, "LockExpired", h0)' <=> Got(p, "LockExpired", h0)
          /\ StuckAt(n) => StuckAt(n)'
      BY <1>4, <1>6, <2>2, SMTT(30) DEF SaidSame
    <3>4. /\ Known(n, h0)' <=> Known(n, h0)
          /\ Known(p, h0)' <=> Known(p, h0)
      BY <1>1, <2>1, <3>3 DEF Known, Kinds
    <3>5. InitiatorSide(n, h0)'
      BY <1>1, <1>9, <2>1, <3>2, <3>3, <3>4 DEF InitiatorSide, Kinds
    <3>6. InitiatorSide(p, h0)'
      BY <1>1, <2>1, <3>2, <3>3, <3>4 DEF InitiatorSide, Kinds
    <3>7. TargetSide(n, h0)'
      BY <1>1, <1>2, <2>1, <3>2, <3>3, <3>4 DEF TargetSide, Kinds
    <3>8. TargetSide(p, h0)'
      BY <1>1, <1>2, <1>6, <2>1, <3>2, <3>3, <3>4 DEF TargetSide, Kinds
    <3>9. \A k \in Node : InitiatorSide(k, h0)' /\ TargetSide(k, h0)'
      BY <1>1, <3>5, <3>6, <3>7, <3>8
    <3> HIDE DEF h0
    <3> QED BY <1>1, <3>1, <3>9, PaymentsBut DEF PaymentInv
  <2>5. Clock'
    BY <1>2, <2>1, ClockSame DEF PaymentInv
  <2> QED BY <2>3, <2>4, <2>5 DEF Kept
<1> QED BY <1>8, <1>9

\* The Unlock of a payment arrives for the first time: its target waits for it,
\* and IsValidUnlock accepts it exactly when its proof is the next one.
LEMMA UnlockIsDue ==
  ASSUME PaymentInv, NEW n \in Node, NEW m, Arriving(n, m), m.type = "Unlock",
         sent'[Partner(n)] = sent[Partner(n)],
         ourState'[Partner(n)] = ourState[Partner(n)]
  PROVE  LET h == m.secretHash
             p == Partner(n)
             partner == partnerState[n]
         IN /\ h \in SecretHash /\ HasProof(m) /\ m.bp \in BalanceProof
            /\ Sent(p, "Unlock", h) /\ Sent(p, "LockedTransfer", h)
            /\ task[n][h] \in TargetState
            /\ IsValidUnlock(m.bp, h, partner, TRUE)
                 <=> m.bp.nonce = partner.balanceProof.nonce + 1
<1> DEFINE h == m.secretHash
           p == Partner(n)
           partner == partnerState[n]
           known == partner.balanceProof
           next == m.bp.nonce = known.nonce + 1
           s == sent[p]
           r == received[p]
<1>1. /\ p \in Node /\ p # n /\ Partner(p) = n
      /\ LinkTypes /\ m \in Message /\ m \in Range(s)
      /\ partner \in EndStates /\ Books(partner)
  BY ArrivingFacts
<1>2. HasProof(m) /\ m.bp \in BalanceProof /\ h \in SecretHash
  BY <1>1, MessageFields
<1>3. Sent(p, "Unlock", h)
  <2>1. About(m, "Unlock", h)
    BY DEF About
  <2> QED BY <1>1, <2>1, GotSent
<1>4. s \in Seq(Message) /\ r \in Nat /\ r < Len(s) /\ m = s[r + 1]
  BY <1>1 DEF LinkTypes, Arriving
<1>5. Ordered(s)
  BY <1>1 DEF PaymentInv, Links, LinkOf
<1>6. ~Got(p, "Unlock", h) /\ ~Got(p, "LockExpired", h)
  <2> SUFFICES ASSUME NEW i \in 1 .. r, Ends(s[i], h)
               PROVE  FALSE
    BY DEF Got, Said, Ends
  <2>1. i \in 1 .. Len(s) /\ r + 1 \in 1 .. Len(s) /\ i # r + 1
    BY <1>4
  <2>2. Ends(s[r + 1], h)
    BY <1>4 DEF Ends, About
  <2> HIDE DEF s, r, h
  <2> QED BY <1>2, <1>5, <2>1, <2>2 DEF Ordered
<1>7. Sent(p, "LockedTransfer", h)
  <2>1. Len(s) \in Nat /\ r + 1 \in 1 .. Len(s) /\ Ends(s[r + 1], h)
    BY <1>4 DEF Ends, About
  <2>2. PICK t \in 1 .. r + 1 : About(s[t], "LockedTransfer", h)
    BY <1>2, <1>5, <2>1 DEF Ordered
  <2>3. t \in 1 .. Len(s)
    BY <1>4, <2>1
  <2> QED BY <2>2, <2>3 DEF Sent, Said
<1>8. task[n][h] \in TargetState
  BY <1>1, <1>2, <1>3, <1>6 DEF PaymentInv, Payments, InitiatorSide, Known
<1>9. ASSUME next
      PROVE  IsValidUnlock(m.bp, h, partner, TRUE)
  <2>1. Succeeds(m, known)
    BY <1>2, <1>9, ArrivingLink
  <2>2. PICK lock \in known.locksRoot :
          /\ lock.secretHash = h
          /\ m.bp.locksRoot = known.locksRoot \ {lock}
          /\ m.bp.lockedAmount = known.lockedAmount - lock.amount
          /\ m.bp.transferredAmount = known.transferredAmount + lock.amount
          /\ m.bp.transferredAmount + m.bp.lockedAmount <= MaxUint64
    BY <2>1 DEF Succeeds
  <2>3. known.locksRoot = partner.merkleTree /\ partner.merkleTree = PendingLocks(partner)
    BY <1>1 DEF Books
  <2>4. IsLockPending(partner, h)
    BY <2>2, <2>3 DEF IsLockPending, LocksOf
  <2>5. GetLock(partner, h) = lock
    <3>1. /\ GetLock(partner, h) \in PendingLocks(partner)
          /\ GetLock(partner, h).secretHash = h
      BY <1>1, <2>4, TheLock
    <3> QED BY <1>1, <2>2, <2>3, <3>1 DEF Books
  <2>6. lock.amount \in Nat /\ lock.amount <= known.lockedAmount
    BY <1>1, <2>2, <2>3, LockAmount
  <2>7. /\ known.transferredAmount \in Nat /\ known.lockedAmount \in Amount
        /\ m.bp.lockedAmount \in Nat /\ MaxUint64 \in Nat
    BY <1>1, <1>2, EndStateTypes, AmountFacts DEF BalanceProof
  <2>8. Add64(known.transferredAmount, lock.amount) = m.bp.transferredAmount
    <3> DEFINE T == known.transferredAmount
               x == lock.amount
               L == m.bp.lockedAmount
    <3>1. T \in Nat /\ x \in Nat /\ L \in Nat /\ MaxUint64 \in Nat
      BY <2>6, <2>7
    <3>2. T + x + L <= MaxUint64
      BY <2>2
    <3>3. m.bp.transferredAmount = T + x
      BY <2>2
    <3> HIDE DEF T, x, L
    <3>4. T + x <= MaxUint64
      BY <3>1, <3>2
    <3>5. Add64(T, x) = T + x
      BY <3>1, <3>4, AddExact
    <3> QED BY <3>3, <3>5 DEF T, x
  <2>9. Sub64(currentLockedAmount(partner), lock.amount) = m.bp.lockedAmount
    <3>1. currentLockedAmount(partner) = known.lockedAmount
      BY <1>1, LockedExact
    <3> QED BY <2>2, <2>6, <2>7, <3>1, SubExact
  <2>10. computeMerkleTreeWithout(partner.merkleTree, lock) = m.bp.locksRoot
    BY <2>2, <2>3 DEF computeMerkleTreeWithout
  <2>11. IsBalanceProofUsableOnChain(m.bp, partner, TRUE)
    BY <1>2, <1>9, UsableNext
  <2> QED BY <2>4, <2>5, <2>8, <2>9, <2>10, <2>11 DEF IsValidUnlock
<1>10. IsValidUnlock(m.bp, h, partner, TRUE) => next
  BY <1>2, UsableNext DEF IsValidUnlock
<1> QED BY <1>2, <1>3, <1>7, <1>8, <1>9, <1>10

\* It is taken over, and the payment is received, unless an earlier LockExpired
\* was refused; then the target is left with its task.
LEMMA UnlockArrives ==
  ASSUME PaymentInv, NEW n \in Node, NEW m, Arriving(n, m), TgHandleUnlock(n, m)
  PROVE  Kept
<1> DEFINE p == Partner(n)
           h0 == m.secretHash
           partner == partnerState[n]
           known == partner.balanceProof
           next == m.bp.nonce = known.nonce + 1
           lock == GetLock(partner, h0)
           without == WithUnlock(partner, m.bp, lock)
           new == IF next THEN without ELSE partner
<1>1. /\ p \in Node /\ p # n /\ Partner(p) = n
      /\ \A k \in Node : k # n => k = p
      /\ LinkTypes /\ TaskTypes /\ m \in Message /\ m \in Range(sent[p])
      /\ received'[p] = received[p] + 1 /\ received'[n] = received[n]
      /\ \A h \in SecretHash : RegisteredSame(h)
      /\ partner \in EndStates /\ Books(partner)
  BY ArrivingFacts
<1>2. /\ m.type = "Unlock" /\ UNCHANGED <<ourState, sent>>
      /\ UNCHANGED <<block, todo, seen, height, mined, mineBy>>
  BY DEF TgHandleUnlock, nodeVars, Arriving
<1>3. /\ h0 \in SecretHash /\ HasProof(m) /\ m.bp \in BalanceProof
      /\ Sent(p, "Unlock", h0) /\ Sent(p, "LockedTransfer", h0)
      /\ task[n][h0] \in TargetState
      /\ IsValidUnlock(m.bp, h0, partner, TRUE) <=> next
  BY <1>2, UnlockIsDue
<1>4. /\ partnerState'[n] = new /\ partnerState'[p] = partnerState[p]
      /\ next => /\ SetTask(n, h0, "none") /\ Tell(n, h0, "PaymentReceivedSuccess")
      /\ ~next => UNCHANGED <<task, notices>>
  BY <1>1, <1>3 DEF TgHandleUnlock, LinkTypes, nodeVars
<1>5. next => lock.secretHash = h0
  <2>1. next => IsLockPending(partner, h0)
    BY <1>3 DEF IsValidUnlock
  <2> QED BY <1>1, <2>1, TheLock
<1>6. /\ next => new.balanceProof = m.bp
      /\ ~next => new.balanceProof = known
      /\ new.onChainUnLockedLocks \subseteq partner.onChainUnLockedLocks
      /\ \A h : h # h0 => (IsSecretKnown(partner, h) => IsSecretKnown(new, h))
      /\ ~next => new = partner
  <2>1. CASE next
    <3>1. without.balanceProof = m.bp
      BY <1>1 DEF WithUnlock, DelLock, DelUnclaimedLock, WithoutLeaf, EndStates
    <3>2. /\ without.onChainUnLockedLocks \subseteq partner.onChainUnLockedLocks
          /\ \A h : h # h0 => (IsSecretKnown(without, h) <=> IsSecretKnown(partner, h))
      <4> HIDE DEF h0
      <4>1. \A h : h # lock.secretHash =>
              (IsSecretKnown(without, h) <=> IsSecretKnown(partner, h))
        BY <1>1, RemovedLocks
      <4>2. without.onChainUnLockedLocks \subseteq partner.onChainUnLockedLocks
        BY <1>1, RemovedLocks
      <4> QED BY <1>5, <2>1, <4>1, <4>2
    <3> HIDE DEF without
    <3> QED BY <2>1, <3>1, <3>2
  <2>2. CASE ~next
    BY <2>2
  <2> QED BY <2>1, <2>2
<1> HIDE DEF new, lock, without
<1>7. \A type, h : About(m, type, h) <=> type = "Unlock" /\ h = h0
  BY <1>2 DEF About
<1>8. /\ \A type, h : /\ Sent(p, type, h)' <=> Sent(p, type, h)
                      /\ Got(p, type, h)' <=> Got(p, type, h) \/ About(m, type, h)
      /\ LinkOf(p)' /\ (StuckAt(p) => StuckAt(p)')
      /\ ~next => StuckAt(p)'
  BY <1>2, <1>3, <1>4, <1>6, ArrivingLink
<1>9. LinkOf(n)' /\ \A h : SaidSame(n, h)
  <2>1. Quiet(n)
    BY <1>1, <1>2, <1>4 DEF Quiet
  <2> QED BY <1>1, <2>1, QuietLink DEF PaymentInv, Links
<1>10. Links' /\ OwnLocksLocked'
  BY <1>1, <1>2, <1>8, <1>9 DEF Links, PaymentInv, OwnLocksLocked
<1>11. /\ \A k \in Node, h \in SecretHash :
            k # n \/ h # h0 => /\ task'[k][h] = task[k][h]
                               /\ notices'[k][h] = notices[k][h]
       /\ next => task'[n][h0] = "none"
       /\ ~next => task'[n][h0] = task[n][h0]
       /\ \A what \in Notice \ {"PaymentReceivedSuccess"} :
            what \in notices'[n][h0] <=> what \in notices[n][h0]
       /\ next => "PaymentReceivedSuccess" \in notices'[n][h0]
  <2>1. CASE next
    BY <1>1, <1>3, <1>4, <2>1 DEF SetTask, Tell, TaskTypes, Notice
  <2>2. CASE ~next
    BY <1>4, <2>2
  <2> QED BY <2>1, <2>2
<1>12. Payments'
  <2>1. \A k \in Node, h \in SecretHash \ {h0} : HashSame(k, h) /\ SaidSame(k, h)
    <3>1. \A h \in SecretHash \ {h0} : SaidSame(p, h)
      BY <1>7, <1>8 DEF SaidSame
    <3>2. \A k \in Node, h \in SecretHash \ {h0} : HashSame(k, h)
      BY <1>1, <1>2, <1>4, <1>6, <1>11 DEF HashSame
    <3> QED BY <1>1, <1>9, <3>1, <3>2
  <2>2. /\ InitiatorSide(n, h0) /\ TargetSide(n, h0)
        /\ InitiatorSide(p, h0) /\ TargetSide(p, h0)
    BY <1>1, <1>3 DEF PaymentInv, Payments
  <2>3. /\ \A type \in Kinds : /\ Sent(n, type, h0)' <=> Sent(n, type, h0)
                               /\ Sent(p, type, h0)' <=> Sent(p, type, h0)
        /\ \A type \in Kinds \ {"LockedTransfer"} :
             Got(n, type, h0)' <=> Got(n, type, h0)
        /\ Got(p, "Unlock", h0)'
        /\ Got(p, "LockExpired", h0)' <=> Got(p, "LockExpired", h0)
        /\ Got(p, "RevealSecret", h0)' <=> Got(p, "RevealSecret", h0)
        /\ StuckAt(n) => StuckAt(n)'
    BY <1>7, <1>8, <1>9 DEF SaidSame
  <2>4. /\ task'[n][h0] # "initiator" /\ task[n][h0] # "initiator"
        /\ task'[n][h0] \in TargetState => task'[n][h0] = task[n][h0] /\ ~next
        /\ task'[p][h0] = task[p][h0] /\ notices'[p][h0] = notices[p][h0]
        /\ "onchain_secret_reveal" \in TargetState
        /\ next \/ partnerState'[n] = partner
    BY <1>1, <1>3, <1>4, <1>6, <1>11 DEF TargetState
  <2>5. Known(p, h0)' /\ (Known(n, h0)' <=> Known(n, h0))
    BY <1>1, <2>3, <2>4 DEF Known, Kinds
  <2>6. /\ "PaymentSentFailed" \in notices'[n][h0]
             <=> "PaymentSentFailed" \in notices[n][h0]
        /\ "PaymentSentSuccess" \in notices'[n][h0]
             <=> "PaymentSentSuccess" \in notices[n][h0]
    BY <1>11 DEF Notice
  <2>7. InitiatorSide(n, h0)'
    BY <1>1, <1>2, <2>2, <2>3, <2>4, <2>5, <2>6 DEF InitiatorSide, Kinds
  <2>8. InitiatorSide(p, h0)'
    BY <1>1, <1>2, <2>2, <2>3, <2>4, <2>5 DEF InitiatorSide, Kinds
  <2>9. TargetSide(n, h0)'
    BY <1>1, <1>2, <1>4, <2>2, <2>3, <2>4, <2>5 DEF TargetSide, Kinds
  <2>10. TargetSide(p, h0)'
    BY <1>1, <1>2, <1>3, <1>8, <1>11, <2>2, <2>3, <2>4, <2>5 DEF TargetSide, Kinds
  <2>11. \A k \in Node : InitiatorSide(k, h0)' /\ TargetSide(k, h0)'
    BY <1>1, <2>7, <2>8, <2>9, <2>10
  <2> HIDE DEF h0
  <2> QED BY <1>1, <2>1, <2>11, PaymentsBut DEF PaymentInv
<1>13. Clock'
  <2>1. \A k \in Node : \A x \in Range(sent[k]) : x.type = "LockedTransfer" =>
          x.lock.secretHash \in SecretHash
    BY <1>1, TransferHash
  <2>2. \A k \in Node : Partner(k) \in Node
    BY Partners
  <2>3. \A k \in Node, h \in SecretHash :
          /\ "PaymentSentFailed" \in notices'[k][h]
               => "PaymentSentFailed" \in notices[k][h]
          /\ task'[k][h] \in TargetState => task[k][h] \in TargetState
    BY <1>3, <1>11 DEF Notice
  <2>4. \A k \in Node : partnerState'[k].onChainUnLockedLocks
                          \subseteq partnerState[k].onChainUnLockedLocks
    BY <1>1, <1>4, <1>6
  <2> QED BY <1>2, <2>1, <2>2, <2>3, <2>4, ClockSame DEF PaymentInv
<1> QED BY <1>10, <1>12, <1>13 DEF Kept

\* A target whose task is there knows the secret, and its lock is not among the
\* locked ones.
LEMMA TargetUnlocked ==
  ASSUME NEW end \in EndStates, Books(end), NEW h, IsSecretKnown(end, h)
  PROVE  ~IsLockLocked(end, h) /\ IsLockPending(end, h)
<1>1. PICK k \in end.unLockedLocks \cup end.onChainUnLockedLocks : k.secretHash = h
  BY DEF IsSecretKnown, IsSecretKnownOffChain, IsSecretKnownOnChain, LocksOf
<1>2. IsLockPending(end, h)
  BY <1>1 DEF IsLockPending, LocksOf, PendingLocks
<1>3. ASSUME NEW l \in end.lockedLocks, l.secretHash = h
      PROVE  FALSE
  BY <1>1, <1>3 DEF Books, PendingLocks
<1> QED BY <1>2, <1>3 DEF IsLockLocked, LocksOf

\* A LockExpired is refused by a target that knows the secret, which then gives
\* up, and by a node without a task for it.
LEMMA ExpiredArrives ==
  ASSUME PaymentInv, NEW n \in Node, NEW m, Arriving(n, m),
         TgHandleLockExpired(n, m)
  PROVE  Kept
<1> DEFINE p == Partner(n)
           h0 == m.secretHash
           partner == partnerState[n]
<1>1. /\ p \in Node /\ p # n /\ Partner(p) = n
      /\ \A k \in Node : k # n => k = p
      /\ LinkTypes /\ TaskTypes /\ m \in Message /\ m \in Range(sent[p])
      /\ received'[p] = received[p] + 1 /\ received'[n] = received[n]
      /\ \A h \in SecretHash : RegisteredSame(h)
      /\ partner \in EndStates /\ Books(partner)
  BY ArrivingFacts
<1>2. /\ m.type = "LockExpired" /\ UNCHANGED <<ourState, sent>>
      /\ UNCHANGED <<block, todo, seen, height, mined, mineBy>>
  BY DEF TgHandleLockExpired, Arriving
<1>3. h0 \in SecretHash /\ HasProof(m)
  BY <1>1, <1>2, MessageFields
<1>4. /\ InitiatorSide(n, h0) /\ TargetSide(n, h0)
      /\ InitiatorSide(p, h0) /\ TargetSide(p, h0)
  BY <1>1, <1>3 DEF PaymentInv, Payments
<1>5. /\ partnerState' = partnerState
      /\ task[n][h0] \in TargetState =>
           SetTask(n, h0, "none") /\ Tell(n, h0, "UnlockClaimFailed")
      /\ task[n][h0] \notin TargetState => UNCHANGED <<task, notices>>
  <2>1. CASE task[n][h0] \in TargetState
    <3>1. ~IsLockLocked(partner, h0) /\ IsLockPending(partner, h0)
      BY <1>1, <1>4, <2>1, TargetUnlocked DEF TargetSide
    <3>2. ~IsValidLockExpired(m.bp, h0, partner, ourState[n], block[n], TRUE)
      BY <3>1 DEF IsValidLockExpired
    <3>3. partnerState' = [partnerState EXCEPT ![n] = partner]
      BY <2>1, <3>2 DEF TgHandleLockExpired
    <3>4. partnerState' = partnerState
      BY <1>1, <3>3 DEF LinkTypes
    <3>5. SetTask(n, h0, "none") /\ Tell(n, h0, "UnlockClaimFailed")
      BY <2>1, <3>1, <3>2 DEF TgHandleLockExpired
    <3> QED BY <2>1, <3>4, <3>5
  <2>2. CASE task[n][h0] \notin TargetState
    BY <2>2 DEF TgHandleLockExpired
  <2> QED BY <2>1, <2>2
<1>6. \A type, h : About(m, type, h) <=> type = "LockExpired" /\ h = h0
  BY <1>2 DEF About
<1>7. /\ \A type, h : /\ Sent(p, type, h)' <=> Sent(p, type, h)
                      /\ Got(p, type, h)' <=> Got(p, type, h) \/ About(m, type, h)
      /\ LinkOf(p)' /\ (StuckAt(p) => StuckAt(p)')
  BY <1>2, <1>3, <1>5, ArrivingLink
<1>8. LinkOf(n)' /\ \A h : SaidSame(n, h)
  <2>1. Quiet(n)
    BY <1>1, <1>2, <1>5 DEF Quiet
  <2> QED BY <1>1, <2>1, QuietLink DEF PaymentInv, Links
<1>9. Links' /\ OwnLocksLocked'
  BY <1>1, <1>2, <1>7, <1>8 DEF Links, PaymentInv, OwnLocksLocked
<1>10. /\ \A k \in Node, h \in SecretHash : k # n \/ h # h0 => task'[k][h] = task[k][h]
       /\ task'[n][h0] \notin TargetState
       /\ task'[n][h0] = "initiator" <=> task[n][h0] = "initiator"
       /\ \A k \in Node, h \in SecretHash : \A what \in Outcomes :
            what \in notices'[k][h] <=> what \in notices[k][h]
  <2>1. CASE task[n][h0] \in TargetState
    <3>1. task'[n][h0] = "none"
      BY <1>1, <1>3, <1>5, <2>1 DEF SetTask, TaskTypes
    <3>2. \A k \in Node, h \in SecretHash : k # n \/ h # h0 => task'[k][h] = task[k][h]
      BY <1>1, <1>5, <2>1 DEF SetTask, TaskTypes
    <3>3. \A k \in Node, h \in SecretHash : \A what \in Outcomes :
            what \in notices'[k][h] <=> what \in notices[k][h]
      BY <1>1, <1>5, <2>1 DEF Tell, TaskTypes, Outcomes
    <3> QED BY <2>1, <3>1, <3>2, <3>3 DEF TargetState
  <2>2. CASE task[n][h0] \notin TargetState
    BY <1>5, <2>2
  <2> QED BY <2>1, <2>2
<1>11. Payments'
  <2>1. \A k \in Node, h \in SecretHash \ {h0} : HashSame(k, h) /\ SaidSame(k, h)
    <3>1. \A h \in SecretHash \ {h0} : SaidSame(p, h)
      BY <1>6, <1>7 DEF SaidSame
    <3>2. \A k \in Node, h \in SecretHash \ {h0} : HashSame(k, h)
      BY <1>2, <1>5, <1>10 DEF HashSame
    <3> QED BY <1>1, <1>8, <3>1, <3>2
  <2>2. /\ \A type \in Kinds : /\ Sent(n, type, h0)' <=> Sent(n, type, h0)
                               /\ Sent(p, type, h0)' <=> Sent(p, type, h0)
        /\ \A type \in Kinds \ {"LockedTransfer"} :
             Got(n, type, h0)' <=> Got(n, type, h0)
        /\ Got(p, "LockExpired", h0)'
        /\ Got(p, "Unlock", h0)' <=> Got(p, "Unlock", h0)
        /\ StuckAt(n) => StuckAt(n)'
    <3>1. /\ \A type : Sent(p, type, h0)' <=> Sent(p, type, h0)
          /\ Got(p, "LockExpired", h0)'
          /\ Got(p, "Unlock", h0)' <=> Got(p, "Unlock", h0)
      BY <1>6, <1>7
    <3> QED BY <1>8, <3>1 DEF SaidSame
  <2>3. task'[p][h0] = task[p][h0] /\ "onchain_secret_reveal" \in TargetState
    BY <1>1, <1>3, <1>10 DEF TargetState
  <2>4. Known(p, h0)' /\ (Known(n, h0)' <=> Known(n, h0))
    BY <1>1, <2>2, <2>3 DEF Known, Kinds
  <2>5. \A k \in Node : \A what \in Outcomes :
          what \in notices'[k][h0] <=> what \in notices[k][h0]
    BY <1>3, <1>10
  <2>6. InitiatorSide(n, h0)'
    <3>1. /\ \A what \in {"PaymentSentFailed", "PaymentSentSuccess"} :
               what \in notices'[n][h0] <=> what \in notices[n][h0]
          /\ IsLockLocked(ourState'[n], h0) <=> IsLockLocked(ourState[n], h0)
      BY <1>2, <2>5 DEF Outcomes
    <3>2. /\ Sent(n, "LockedTransfer", h0)' <=> Sent(n, "LockedTransfer", h0)
          /\ Sent(n, "Unlock", h0)' <=> Sent(n, "Unlock", h0)
          /\ Sent(n, "LockExpired", h0)' <=> Sent(n, "LockExpired", h0)
          /\ Sent(p, "LockedTransfer", h0)' <=> Sent(p, "LockedTransfer", h0)
          /\ Got(p, "RevealSecret", h0)' <=> Got(p, "RevealSecret", h0)
      BY <1>6, <1>7, <2>2 DEF Kinds
    <3> QED BY <1>1, <1>4, <1>10, <2>4, <3>1, <3>2 DEF InitiatorSide
  <2>7. InitiatorSide(p, h0)'
    BY <1>1, <1>2, <1>4, <1>6, <1>7, <2>2, <2>3, <2>4, <2>5
       DEF InitiatorSide, Kinds, Outcomes
  <2>8. TargetSide(n, h0)'
    BY <1>1, <1>2, <1>4, <1>5, <2>2, <2>3, <2>4, <2>5
       DEF TargetSide, Kinds, Outcomes
  <2>9. TargetSide(p, h0)'
    BY <1>1, <1>2, <1>4, <1>7, <1>10, <2>2, <2>3, <2>4, <2>5
       DEF TargetSide, Kinds, Outcomes
  <2>10. \A k \in Node : InitiatorSide(k, h0)' /\ TargetSide(k, h0)'
    BY <1>1, <2>6, <2>7, <2>8, <2>9
  <2> HIDE DEF h0
  <2> QED BY <1>1, <2>1, <2>10, PaymentsBut DEF PaymentInv
<1>12. Clock'
  <2>1. \A k \in Node : \A x \in Range(sent[k]) : x.type = "LockedTransfer" =>
          x.lock.secretHash \in SecretHash
    BY <1>1, TransferHash
  <2>2. \A k \in Node : Partner(k) \in Node
    BY Partners
  <2>3. \A k \in Node, h \in SecretHash :
          /\ "PaymentSentFailed" \in notices'[k][h]
               => "PaymentSentFailed" \in notices[k][h]
          /\ task'[k][h] \in TargetState => task[k][h] \in TargetState
    BY <1>3, <1>10 DEF Outcomes
  <2> QED BY <1>2, <1>5, <2>1, <2>2, <2>3, ClockSame DEF PaymentInv
<1> QED BY <1>9, <1>11, <1>12 DEF Kept

\* Receive.
LEMMA ReceivePays ==
  ASSUME PaymentInv, NEW n \in Node, Receive(n)
  PROVE  Kept
<1> DEFINE p == Partner(n)
           m == sent[p][received[p] + 1]
<1>1. Arriving(n, m) /\ Handle(n, m)
  BY DEF Receive, Arriving, blockVars, chainVars
<1> HIDE DEF m
<1> QED BY <1>1, DirectArrives, LockedArrives, RevealArrives, UnlockArrives,
        ExpiredArrives DEF Handle

-----------------------------------------------------------------------------
(* A message that arrives again.                                           *)

\* A proof that was received before is not the next one, unless it is that of a
\* LockExpired which was refused.
LEMMA OldProof ==
  ASSUME PaymentInv, NEW n \in Node, NEW i \in 1 .. received[Partner(n)],
         HasProof(sent[Partner(n)][i]),
         IsBalanceProofUsableOnChain(sent[Partner(n)][i].bp, partnerState[n], TRUE)
  PROVE  sent[Partner(n)][i].type = "LockExpired"
<1> DEFINE p == Partner(n)
           s == sent[p]
           known == partnerState[n].balanceProof
<1>1. p \in Node /\ Partner(p) = n /\ LinkTypes
  BY Partners, LinkTyping DEF PaymentInv
<1>2. s \in Seq(Message) /\ i \in 1 .. Len(s)
  BY <1>1 DEF LinkTypes
<1>3. s[i].bp \in BalanceProof
  BY <1>2, ProofTypes
<1>4. s[i].bp.nonce = known.nonce + 1
  BY <1>3, UsableNext
<1>5. Refusals(s, received[p], known)
  BY <1>1 DEF PaymentInv, Links, LinkOf, Link
<1> QED BY <1>4, <1>5 DEF Refusals

\* Such a message changes neither channel nor task, and what the user is told
\* is that the payment can not be taken on.
LEMMA AgainHarmless ==
  ASSUME PaymentInv, NEW n \in Node, ReceiveAgain(n)
  PROVE  /\ UNCHANGED <<ourState, partnerState, task, sent>>
         /\ UNCHANGED <<received, block, todo, seen, height, mined, mineBy>>
         /\ \A k \in Node, h \in SecretHash : \A what \in Outcomes :
              what \in notices'[k][h] <=> what \in notices[k][h]
<1> DEFINE p == Partner(n)
           s == sent[p]
<1>1. /\ p \in Node /\ Partner(p) = n
      /\ LinkTypes /\ TaskTypes
  BY Partners, LinkTyping, Parts DEF PaymentInv
<1>2. UNCHANGED <<received, block, todo, seen, height, mined, mineBy>>
  BY DEF ReceiveAgain, blockVars, chainVars
<1>3. PICK i \in 1 .. received[p] : Handle(n, s[i])
  BY DEF ReceiveAgain
<1>4. s \in Seq(Message) /\ i \in 1 .. Len(s)
  BY <1>1 DEF LinkTypes
<1>5. s[i] \in Message
  BY <1>4
<1> DEFINE m == s[i]
           h0 == IF m.type = "LockedTransfer" THEN m.lock.secretHash
                                              ELSE m.secretHash
<1>6. m.type # "DirectTransfer" => h0 \in SecretHash
  BY <1>5, MessageFields DEF Message, ProofMessage, RevealMessage, Lock
<1>7. \A type : About(m, type, h0) => Got(p, type, h0)
  BY DEF Got, Said
<1>8. HasProof(m) /\ IsBalanceProofUsableOnChain(m.bp, partnerState[n], TRUE)
        => m.type = "LockExpired"
  BY OldProof
<1>9. h0 \in SecretHash => InitiatorSide(n, h0) /\ TargetSide(p, h0)
  BY <1>1 DEF PaymentInv, Payments
<1> HIDE DEF m
<1>10. CASE handleReceiveDirectTransfer(n, m)
  <2>1. m.type = "DirectTransfer" /\ HasProof(m)
    BY <1>10 DEF handleReceiveDirectTransfer, HasProof
  <2>2. ~IsValidDirectTransfer(m.bp, partnerState[n], ourState[n], TRUE)
    BY <1>8, <2>1 DEF IsValidDirectTransfer
  <2> QED BY <1>2, <1>10, <2>2 DEF handleReceiveDirectTransfer
<1>11. CASE HandleInitTarget(n, m)
  <2>1. m.type = "LockedTransfer" /\ HasProof(m)
    BY <1>11 DEF HandleInitTarget, HasProof
  <2>2. ~ValidLockedTransferCheck(m.bp, m.lock, partnerState[n], ourState[n], TRUE)
    BY <1>8, <2>1 DEF ValidLockedTransferCheck
  <2>3. h0 = m.lock.secretHash /\ h0 \in SecretHash
    BY <1>6, <2>1
  <2>4. \/ /\ task[n][h0] = "none" /\ UNCHANGED <<ourState, partnerState, sent>>
           /\ SetTask(n, h0, "none") /\ Tell(n, h0, "UnlockClaimFailed")
        \/ UNCHANGED <<ourState, partnerState, task, notices, sent>>
    BY <1>11, <2>2, <2>3 DEF HandleInitTarget, NoTask, nodeVars
  <2>5. ASSUME task[n][h0] = "none", SetTask(n, h0, "none")
        PROVE  task' = task
    BY <1>1, <2>3, <2>5 DEF SetTask, TaskTypes
  <2>6. ASSUME Tell(n, h0, "UnlockClaimFailed")
        PROVE  \A k \in Node, h \in SecretHash : \A what \in Outcomes :
                 what \in notices'[k][h] <=> what \in notices[k][h]
    BY <1>1, <2>3, <2>6 DEF Tell, TaskTypes, Outcomes
  <2> HIDE DEF h0
  <2> QED BY <1>2, <2>4, <2>5, <2>6
<1>12. CASE InitHandleOffChainSecretReveal(n, m)
  <2>1. m.type = "RevealSecret" /\ h0 = m.secretHash
    BY <1>12 DEF InitHandleOffChainSecretReveal
  <2>2. Got(p, "RevealSecret", h0)
    BY <1>7, <2>1 DEF About
  <2>3. task[n][h0] # "initiator"
    BY <1>6, <1>9, <2>1, <2>2 DEF InitiatorSide
  <2> QED BY <1>2, <1>12, <2>1, <2>3 DEF InitHandleOffChainSecretReveal, nodeVars
<1>13. CASE TgHandleUnlock(n, m)
  <2>1. m.type = "Unlock" /\ HasProof(m)
    BY <1>13 DEF TgHandleUnlock, HasProof
  <2>2. ~IsValidUnlock(m.bp, m.secretHash, partnerState[n], TRUE)
    BY <1>8, <2>1 DEF IsValidUnlock
  <2> QED BY <1>2, <1>13, <2>2 DEF TgHandleUnlock, nodeVars
<1>14. CASE TgHandleLockExpired(n, m)
  <2>1. m.type = "LockExpired" /\ h0 = m.secretHash
    BY <1>14 DEF TgHandleLockExpired
  <2>2. Got(p, "LockExpired", h0)
    BY <1>7, <2>1 DEF About
  <2>3. task[n][h0] \notin TargetState
    BY <1>1, <1>6, <1>9, <2>1, <2>2 DEF TargetSide
  <2> QED BY <1>2, <1>14, <2>1, <2>3 DEF TgHandleLockExpired
<1> QED BY <1>3, <1>10, <1>11, <1>12, <1>13, <1>14 DEF Handle, m

\* ReceiveAgain.
LEMMA AgainPays ==
  ASSUME PaymentInv, NEW n \in Node, ReceiveAgain(n)
  PROVE  Kept
<1>1. /\ UNCHANGED <<ourState, partnerState, task, sent>>
      /\ UNCHANGED <<received, block, todo, seen, height, mined, mineBy>>
      /\ \A k \in Node, h \in SecretHash : \A what \in Outcomes :
           what \in notices'[k][h] <=> what \in notices[k][h]
  BY AgainHarmless
<1>2. LinkTypes
  BY LinkTyping DEF PaymentInv
<1>3. \A k \in Node : LinkOf(k)' /\ \A h : SaidSame(k, h)
  <2>1. \A k \in Node : Quiet(k)
    BY <1>1 DEF Quiet
  <2> QED BY <1>2, <2>1, QuietLink DEF PaymentInv, Links
<1>4. Links' /\ OwnLocksLocked'
  BY <1>1, <1>3 DEF Links, PaymentInv, OwnLocksLocked
<1>5. Payments'
  <2>1. \A k \in Node, h \in SecretHash : HashSame(k, h)
    BY <1>1 DEF HashSame
  <2>2. \A h \in SecretHash : RegisteredSame(h)
    BY <1>1 DEF RegisteredSame
  <2> QED BY <1>3, <2>1, <2>2, PaymentsSame DEF PaymentInv
<1>6. Clock'
  <2>1. \A k \in Node : \A x \in Range(sent[k]) : x.type = "LockedTransfer" =>
          x.lock.secretHash \in SecretHash
    BY <1>2, TransferHash
  <2>2. "PaymentSentFailed" \in Outcomes
    BY DEF Outcomes
  <2> QED BY <1>1, <2>1, <2>2, ClockSame DEF PaymentInv
<1> QED BY <1>4, <1>5, <1>6 DEF Kept

-----------------------------------------------------------------------------
(* The invariant holds from the start and every step keeps it.             *)

\* At the start nothing was sent, said or registered.
LEMMA PaymentInit == Init => PaymentInv
<1> SUFFICES ASSUME Init PROVE PaymentInv
  OBVIOUS
<1>1. LedgerInv
  BY LedgerInit
<1>2. ASSUME NEW n \in Node
      PROVE  /\ Partner(n) \in Node
             /\ sent[n] = <<>> /\ received[n] = 0 /\ Len(sent[n]) = 0
             /\ ourState[n] = NewNettingChannelEndState(Deposit[n])
             /\ partnerState[n] = NewNettingChannelEndState(Deposit[Partner(n)])
             /\ block[n] = 0 /\ todo[n] = {} /\ seen[n] = {}
  BY <1>2, Partners DEF Init
<1>3. \A d : LET end == NewNettingChannelEndState(d)
             IN /\ end.balanceProof = NoBalanceProof
                /\ end.lockedLocks = {} /\ end.unLockedLocks = {}
                /\ end.onChainUnLockedLocks = {}
  BY DEF NewNettingChannelEndState
<1>4. 1 .. 0 = {} /\ Range(<<>>) = {}
  BY DEF Range
<1>5. Links
  <2> SUFFICES ASSUME NEW n \in Node PROVE LinkOf(n)
    BY DEF Links
  <2>1. Chain(sent[n], NoBalanceProof)
    BY <1>2, <1>4 DEF Chain, ProofIn
  <2>2. /\ ProofIn(sent[n], received[n], NoBalanceProof)
        /\ Refusals(sent[n], received[n], NoBalanceProof)
    BY <1>2, <1>4 DEF ProofIn, Refusals
  <2>3. Ordered(sent[n])
    BY <1>2, <1>4 DEF Ordered
  <2>4. /\ ourState[n].balanceProof = NoBalanceProof
        /\ partnerState[Partner(n)].balanceProof = NoBalanceProof
    BY <1>2, <1>3
  <2> QED BY <2>1, <2>2, <2>3, <2>4 DEF LinkOf, Link
<1>6. OwnLocksLocked
  BY <1>2, <1>3 DEF OwnLocksLocked
<1>7. Payments
  <2> SUFFICES ASSUME NEW n \in Node, NEW h \in SecretHash
               PROVE  InitiatorSide(n, h) /\ TargetSide(n, h)
    BY DEF Payments
  <2>1. \A k \in Node : \A type : ~Sent(k, type, h) /\ ~Got(k, type, h)
    BY <1>2, <1>4 DEF Sent, Got, Said
  <2>2. \A k \in Node : /\ task[k][h] = "none" /\ notices[k][h] = {}
                        /\ ~IsLockLocked(ourState[k], h)
    BY <1>2, <1>3 DEF Init, IsLockLocked, LocksOf
  <2>3. mined[h] = 0 /\ mineBy[h] = 0
    BY DEF Init
  <2> QED BY <1>2, <2>1, <2>2, <2>3 DEF InitiatorSide, TargetSide, TargetState
<1>8. Clock
  <2>1. height = 0 /\ \A h \in SecretHash : mined[h] = 0 /\ mineBy[h] = 0
    BY DEF Init
  <2>2. Heights
    BY <1>2, <2>1, TransfersAssumption DEF Heights
  <2>3. Registrations /\ SeenInTime
    BY <1>2, <2>1 DEF Registrations, SeenInTime
  <2>4. LockedUntilLate /\ OnChainInTime
    BY <1>2, <1>3 DEF LockedUntilLate, OnChainInTime
  <2>5. FailedLate /\ RegisteredInTime
    BY <1>2, <1>4 DEF FailedLate, RegisteredInTime
  <2> QED BY <2>2, <2>3, <2>4, <2>5 DEF Clock
<1> QED BY <1>1, <1>5, <1>6, <1>7, <1>8 DEF PaymentInv

\* subDispatchToAllLockedTransfers visits one task.
LEMMA TaskPays ==
  ASSUME PaymentInv, NEW n \in Node, HandleBlockForTask(n)
  PROVE  Kept
<1>1. PICK h \in todo[n] : /\ todo' = [todo EXCEPT ![n] = @ \ {h}]
                           /\ InitHandleBlock(n, h) \/ TgHandleBlock(n, h)
                           /\ UNCHANGED <<received, block, seen, height, mined>>
  BY DEF HandleBlockForTask
<1>2. h \in SecretHash
  BY <1>1 DEF PaymentInv, LedgerInv, TypeOK
<1> QED BY <1>1, <1>2, VisitPays, WatchPays

\* Nothing happens.
LEMMA StutterPays ==
  ASSUME PaymentInv, UNCHANGED vars
  PROVE  Kept
<1>1. /\ UNCHANGED <<ourState, partnerState, task, notices, sent, received>>
      /\ UNCHANGED <<block, todo, seen, height, mined, mineBy>>
  BY DEF vars, nodeVars, netVars, blockVars, chainVars
<1>2. LinkTypes
  BY LinkTyping DEF PaymentInv
<1>3. \A k \in Node : LinkOf(k)' /\ \A h : SaidSame(k, h)
  <2>1. \A k \in Node : Quiet(k)
    BY <1>1 DEF Quiet
  <2> QED BY <1>2, <2>1, QuietLink DEF PaymentInv, Links
<1>4. Links' /\ OwnLocksLocked'
  BY <1>1, <1>3 DEF Links, PaymentInv, OwnLocksLocked
<1>5. Payments'
  <2>1. \A k \in Node, h \in SecretHash : HashSame(k, h)
    BY <1>1 DEF HashSame
  <2>2. \A h \in SecretHash : RegisteredSame(h)
    BY <1>1 DEF RegisteredSame
  <2> QED BY <1>3, <2>1, <2>2, PaymentsSame DEF PaymentInv
<1>6. Clock'
  BY <1>1, ClockSame DEF PaymentInv
<1> QED BY <1>4, <1>5, <1>6 DEF Kept

\* Every step keeps the invariant.
LEMMA PaymentNext == PaymentInv /\ [Next]_vars => PaymentInv'
<1> SUFFICES ASSUME PaymentInv, [Next]_vars PROVE PaymentInv'
  OBVIOUS
<1>1. LedgerInv'
  BY LedgerNext DEF PaymentInv
<1>2. Kept
  <2>1. ASSUME NEW n \in Node, NEW amount \in Amounts,
               handleSendDirectTransfer(n, amount)
        PROVE  Kept
    BY <2>1, DirectPays
  <2>2. ASSUME NEW n \in Node, NEW h \in SecretHash, NEW amount \in Amounts,
               InitTryNewRoute(n, h, amount)
        PROVE  Kept
    BY <2>2, RoutePays
  <2>3. ASSUME NEW n \in Node, Receive(n) \/ ReceiveAgain(n)
        PROVE  Kept
    BY <2>3, ReceivePays, AgainPays
  <2>4. ASSUME NEW n \in Node, NEW h \in SecretHash, HandleSecretRevealed(n, h)
        PROVE  Kept
    BY <2>4, RevealedPays
  <2>5. ASSUME NEW n \in Node, handleBlockForNode(n) \/ HandleBlockForTask(n)
        PROVE  Kept
    BY <2>5, BlockPays, TaskPays
  <2>6. MineBlock \/ UNCHANGED vars => Kept
    BY MinePays, StutterPays
  <2> QED BY <2>1, <2>2, <2>3, <2>4, <2>5, <2>6 DEF Next
<1> QED BY <1>1, <1>2 DEF PaymentInv, Kept

\* The invariant holds throughout.
THEOREM PaymentCorrect == Spec => []PaymentInv
<1> QED BY PaymentInit, PaymentNext, PTL DEF Spec

-----------------------------------------------------------------------------
(* What follows from it.                                                   *)

\* OnlyLockExpiredRejected: nothing but a LockExpired is refused by the checks
\* of IsValidDirectTransfer, ValidLockedTransferCheck and IsValidUnlock.
THEOREM OnlyExpiredRefused == Spec => []OnlyLockExpiredRejected
<1>1. PaymentInv => OnlyLockExpiredRejected
  <2> SUFFICES ASSUME PaymentInv, NEW n \in Node, NEW i \in DOMAIN sent[n],
                      Rejected(n, i)
               PROVE  sent[n][i].type = "LockExpired"
    BY DEF OnlyLockExpiredRejected
  <2>1. LinkTypes
    BY LinkTyping DEF PaymentInv
  <2>2. i \in 1 .. received[n]
    BY <2>1 DEF LinkTypes, Rejected
  <2>3. Refusals(sent[n], received[n], partnerState[Partner(n)].balanceProof)
    BY DEF PaymentInv, Links, LinkOf, Link
  <2> QED BY <2>2, <2>3 DEF Rejected, Refusals, getNextNonce
<1> QED BY <1>1, PaymentCorrect, PTL

\* PaymentAtomic: what the initiator and the target of a payment are told, and
\* what can be claimed on the chain, agree.
THEOREM PaymentsAtomic == Spec => []PaymentAtomic
<1>1. PaymentInv => PaymentAtomic
  <2> SUFFICES ASSUME PaymentInv, NEW n \in Node, NEW h \in SecretHash
               PROVE  LET p == Partner(n)
                      IN /\ "PaymentSentFailed" \in notices[n][h] =>
                              /\ "PaymentSentSuccess" \notin notices[n][h]
                              /\ "PaymentReceivedSuccess" \notin notices[p][h]
                              /\ ~IsSecretKnownOnChain(partnerState[p], h)
                         /\ "PaymentReceivedSuccess" \in notices[p][h] =>
                              "PaymentSentSuccess" \in notices[n][h]
    BY DEF PaymentAtomic
  <2> DEFINE p == Partner(n)
  <2>1. InitiatorSide(n, h) /\ TargetSide(n, h) /\ p \in Node /\ Partner(p) = n
    BY Partners DEF PaymentInv, Payments
  <2>2. "PaymentReceivedSuccess" \in notices[p][h] => "PaymentSentSuccess" \in notices[n][h]
    BY <2>1 DEF InitiatorSide, TargetSide
  <2>3. ~("PaymentSentFailed" \in notices[n][h] /\ "PaymentSentSuccess" \in notices[n][h])
    BY <2>1 DEF InitiatorSide
  <2>4. ASSUME "PaymentSentFailed" \in notices[n][h],
               IsSecretKnownOnChain(partnerState[p], h)
        PROVE  FALSE
    <3>1. PICK l \in partnerState[p].onChainUnLockedLocks : l.secretHash = h
      BY <2>4 DEF IsSecretKnownOnChain, LocksOf
    <3>2. mined[h] # 0 /\ mined[h] <= l.expiration
      BY <2>1, <3>1 DEF PaymentInv, Clock, OnChainInTime
    <3>3. l \in PendingLocks(partnerState[p])
      BY <3>1 DEF PendingLocks
    <3>4. /\ Sent(n, "LockedTransfer", h) /\ l.expiration \in Nat
          /\ \A m \in Range(sent[n]) :
               m.type = "LockedTransfer" /\ m.lock.secretHash = h => m.lock = l
      BY <3>1, <3>3, LockSent
    <3>5. LinkTypes /\ mined[h] \in Nat
      BY LinkTyping DEF PaymentInv, LedgerInv, TypeOK
    <3>6. PICK m \in Range(sent[n]) : m.type = "LockedTransfer" /\ m.lock.secretHash = h
      BY <3>4, <3>5, GotSent DEF About
    <3>7. mined[h] = 0 \/ mined[h] > l.expiration
      BY <2>4, <3>4, <3>6 DEF PaymentInv, Clock, FailedLate
    <3> QED BY <3>2, <3>4, <3>5, <3>7
  <2> QED BY <2>2, <2>3, <2>4
<1> QED BY <1>1, PaymentCorrect, PTL

\* RevealTimeoutSuffices: while nodes keep up with the chain and registrations
\* are mined in time, no payment fails of which the target gave the secret away.
THEOREM RevealTimeoutEnough == Spec => []RevealTimeoutSuffices
<1>1. PaymentInv => RevealTimeoutSuffices
  <2> SUFFICES ASSUME PaymentInv, Prompt, NEW n \in Node, NEW h \in SecretHash,
                      task[Partner(n)][h] \in TargetState,
                      "PaymentSentFailed" \in notices[n][h]
               PROVE  FALSE
    BY DEF RevealTimeoutSuffices, Prompt
  <2> DEFINE p == Partner(n)
  <2>1. /\ p \in Node /\ Partner(p) = n /\ TargetSide(n, h)
        /\ LinkTypes /\ ClockTypes
    BY Partners, LinkTyping, Parts DEF PaymentInv, Payments
  <2>2. PICK m \in Range(sent[n]) : m.type = "LockedTransfer" /\ m.lock.secretHash = h
    BY <2>1, GotSent DEF TargetSide, About
  <2> DEFINE e == m.lock.expiration
  <2>3. e <= block[n] /\ (mined[h] = 0 \/ mined[h] > e)
    BY <2>2 DEF PaymentInv, Clock, FailedLate
  <2>4. /\ mineBy[h] <= e /\ mined[h] <= e
        /\ \/ e > block[p] + RevealTimeout
           \/ e = block[p] + RevealTimeout
           \/ mineBy[h] # 0 \/ mined[h] # 0
    BY <2>1, <2>2 DEF PaymentInv, Clock, RegisteredInTime
  <2>5. /\ block[n] <= height /\ height <= block[p] + MaxLag
        /\ mineBy[h] # 0 => mineBy[h] > height
    BY <2>1 DEF PaymentInv, Clock, Heights, Registrations
  <2>6. /\ e \in Nat /\ block[n] \in Nat /\ block[p] \in Nat /\ height \in Nat
        /\ mined[h] \in Nat /\ mineBy[h] \in Nat
        /\ RevealTimeout \in Nat /\ MaxLag \in Nat
        /\ MaxInclusion \in Nat /\ MaxInclusion > 0
        /\ MaxLag + MaxInclusion <= RevealTimeout
    BY <2>1, <2>2, TransferHash, TransfersAssumption DEF ClockTypes, Prompt
  <2> HIDE DEF e, p
  <2> QED BY <2>3, <2>4, <2>5, <2>6
<1> QED BY <1>1, PaymentCorrect, PTL

\* PaymentArrives: what the initiator reports as paid was received once all its
\* messages were, unless a LockExpired was refused before.
THEOREM PaymentsArrive == Spec => []PaymentArrives
<1>1. PaymentInv => PaymentArrives
  <2> SUFFICES ASSUME PaymentInv, NEW n \in Node, NEW h \in SecretHash,
                      "PaymentSentSuccess" \in notices[n][h],
                      received[n] = Len(sent[n])
               PROVE  \/ "PaymentReceivedSuccess" \in notices[Partner(n)][h]
                      \/ \E i \in DOMAIN sent[n] :
                           Rejected(n, i) /\ sent[n][i].type = "LockExpired"
    BY DEF PaymentArrives
  <2>1. InitiatorSide(n, h) /\ TargetSide(n, h) /\ LinkTypes
    BY LinkTyping DEF PaymentInv, Payments
  <2>2. Got(n, "Unlock", h)
    BY <2>1 DEF InitiatorSide, Got, Sent
  <2>3. CASE StuckAt(n)
    <3>1. PICK i \in 1 .. received[n] :
            /\ HasProof(sent[n][i]) /\ sent[n][i].type = "LockExpired"
            /\ sent[n][i].bp.nonce
                 = partnerState[Partner(n)].balanceProof.nonce + 1
      BY <2>3 DEF StuckAt, Stuck
    <3>2. i \in DOMAIN sent[n] /\ i <= received[n]
      BY <2>1 DEF LinkTypes
    <3> QED BY <3>1, <3>2 DEF Rejected, getNextNonce
  <2> QED BY <2>1, <2>2, <2>3 DEF TargetSide
<1> QED BY <1>1, PaymentCorrect, PTL

\* DuplicatesHarmless: a message delivered a second time changes neither channel
\* nor task.
THEOREM DuplicatesAreHarmless == Spec => DuplicatesHarmless
<1>1. PaymentInv /\ [Next]_vars =>
        [(\E n \in Node : ReceiveAgain(n)) =>
           UNCHANGED <<ourState, partnerState, task, sent>>]_vars
  BY AgainHarmless
<1> QED BY <1>1, PaymentCorrect, PTL DEF Spec, DuplicatesHarmless
=============================================================================
