------------------------ MODULE TransportQueue_proofs ------------------------
(***************************************************************************)
(* A queue of the transport forgets nothing and delivers in order, for any *)
(* number of messages, losses, retries and restarts and any capacity.      *)
(***************************************************************************)
EXTENDS TransportQueue, SequenceTheorems, TLAPS

-----------------------------------------------------------------------------
(* Sequences of numbers that do not fall.                                  *)

Sorted(s) == \A i, j \in 1 .. Len(s) : i < j => s[i] <= s[j]

\* The empty queue holds nothing.
LEMMA EmptyQueue ==
  /\ Range(<<>>) = {} /\ Sorted(<<>>)
  /\ \A S : <<>> \in Seq(S) /\ Len(<<>>) = 0
BY DEF Range, Sorted

\* Push puts a message behind the others.
LEMMA AppendKeeps ==
  ASSUME NEW S \in SUBSET Nat, NEW s \in Seq(S), NEW m \in S
  PROVE  /\ Append(s, m) \in Seq(S)
         /\ Len(Append(s, m)) = Len(s) + 1
         /\ Append(s, m) # <<>>
         /\ s # <<>> => Head(Append(s, m)) = Head(s)
         /\ Range(Append(s, m)) = Range(s) \cup {m}
         /\ Sorted(s) /\ (\A x \in Range(s) : x <= m) => Sorted(Append(s, m))
<1> DEFINE t == Append(s, m)
<1>1. /\ t \in Seq(S) /\ Len(t) = Len(s) + 1 /\ Len(s) \in Nat
      /\ DOMAIN t = 1 .. Len(s) + 1 /\ DOMAIN s = 1 .. Len(s)
      /\ \A i \in 1 .. Len(s) : t[i] = s[i] /\ s[i] \in S
      /\ t[Len(s) + 1] = m
  OBVIOUS
<1>2. t # <<>> /\ (s # <<>> => Head(t) = Head(s))
  BY AppendProperties, HeadTailAppend
<1>3. Range(t) = Range(s) \cup {m}
  BY <1>1 DEF Range
<1>4. ASSUME Sorted(s), \A x \in Range(s) : x <= m
      PROVE  Sorted(t)
  <2>1. SUFFICES ASSUME NEW i \in 1 .. Len(s) + 1, NEW j \in 1 .. Len(s) + 1, i < j
                 PROVE  t[i] <= t[j]
    BY <1>1 DEF Sorted
  <2>2. CASE j = Len(s) + 1
    BY <1>1, <1>4, <2>1, <2>2 DEF Range
  <2>3. CASE j # Len(s) + 1
    BY <1>1, <1>4, <2>1, <2>3 DEF Sorted
  <2> QED BY <2>2, <2>3
<1> QED BY <1>1, <1>2, <1>3, <1>4

\* Pop takes the smallest message.
LEMMA TailKeeps ==
  ASSUME NEW S \in SUBSET Nat, NEW s \in Seq(S), s # <<>>
  PROVE  /\ Head(s) \in Range(s) /\ Head(s) \in S
         /\ Tail(s) \in Seq(S) /\ Len(Tail(s)) < Len(s)
         /\ Range(s) = Range(Tail(s)) \cup {Head(s)}
         /\ Sorted(s) => /\ Sorted(Tail(s))
                         /\ \A x \in Range(s) : Head(s) <= x
                         /\ \A x \in Range(Tail(s)) : Head(s) <= x
<1>1. /\ Len(s) \in Nat /\ Len(s) > 0 /\ Head(s) = s[1]
      /\ DOMAIN s = 1 .. Len(s)
      /\ Tail(s) \in Seq(S) /\ Len(Tail(s)) = Len(s) - 1
      /\ DOMAIN Tail(s) = 1 .. Len(s) - 1
      /\ \A i \in 1 .. Len(s) - 1 : Tail(s)[i] = s[i + 1]
      /\ \A i \in 1 .. Len(s) : s[i] \in S
  BY HeadTailProperties
<1>2. Head(s) \in Range(s) /\ Head(s) \in S
  BY <1>1 DEF Range
<1>3. Range(s) = Range(Tail(s)) \cup {Head(s)}
  <2>1. ASSUME NEW i \in 1 .. Len(s), i # 1
        PROVE  i - 1 \in 1 .. Len(s) - 1 /\ Tail(s)[i - 1] = s[i]
    BY <1>1, <2>1
  <2>2. Range(s) \subseteq Range(Tail(s)) \cup {Head(s)}
    <3>1. SUFFICES ASSUME NEW i \in 1 .. Len(s), i # 1 PROVE s[i] \in Range(Tail(s))
      BY <1>1 DEF Range
    <3>2. \E k \in 1 .. Len(s) - 1 : Tail(s)[k] = s[i]
      BY <2>1, <3>1
    <3> HIDE DEF Range
    <3> QED BY <1>1, <3>2 DEF Range
  <2>3. Range(Tail(s)) \subseteq Range(s)
    <3>1. SUFFICES ASSUME NEW i \in 1 .. Len(s) - 1 PROVE s[i + 1] \in Range(s)
      BY <1>1 DEF Range
    <3>2. i + 1 \in 1 .. Len(s)
      BY <1>1
    <3> QED BY <1>1, <3>2 DEF Range
  <2> QED BY <1>2, <2>2, <2>3
<1>4. ASSUME Sorted(s)
      PROVE  /\ Sorted(Tail(s))
             /\ \A x \in Range(s) : Head(s) <= x
             /\ \A x \in Range(Tail(s)) : Head(s) <= x
  <2>1. Sorted(Tail(s))
    <3>1. SUFFICES ASSUME NEW i \in 1 .. Len(s) - 1, NEW j \in 1 .. Len(s) - 1, i < j
                   PROVE  Tail(s)[i] <= Tail(s)[j]
      BY <1>1 DEF Sorted
    <3>2. i + 1 \in 1 .. Len(s) /\ j + 1 \in 1 .. Len(s) /\ i + 1 < j + 1
      BY <1>1, <3>1
    <3>3. s[i + 1] <= s[j + 1]
      BY <1>4, <3>2 DEF Sorted
    <3> QED BY <1>1, <3>3
  <2>2. ASSUME NEW i \in 1 .. Len(s) - 1 PROVE Head(s) <= Tail(s)[i]
    <3>1. 1 \in 1 .. Len(s) /\ i + 1 \in 1 .. Len(s) /\ 1 < i + 1
      BY <1>1
    <3>2. s[1] <= s[i + 1]
      BY <1>4, <3>1 DEF Sorted
    <3> QED BY <1>1, <3>2
  <2>3. \A x \in Range(Tail(s)) : Head(s) <= x
    BY <1>1, <2>2 DEF Range
  <2>4. ASSUME NEW x \in Range(s) PROVE Head(s) <= x
    <3>1. Head(s) \in Nat
      BY <1>2
    <3>2. CASE x = Head(s)
      BY <3>1, <3>2
    <3>3. CASE x \in Range(Tail(s))
      <4>1. x \in Nat
        BY <1>1, <3>3 DEF Range
      <4> QED BY <2>3, <3>1, <3>3, <4>1
    <3> QED BY <1>3, <3>2, <3>3
  <2> QED BY <2>1, <2>3, <2>4
<1> QED BY <1>1, <1>2, <1>3, <1>4

\* inPlaceDeleteMessage takes one message out of the record, and those behind it
\* move one place down.
LEMMA DeleteKeeps ==
  ASSUME NEW S \in SUBSET Nat, eventQueue \in Seq(S), NEW m
  PROVE  /\ inPlaceDeleteMessage(m) \in Seq(S)
         /\ Range(inPlaceDeleteMessage(m)) \subseteq Range(eventQueue)
         /\ \A x \in Range(eventQueue) : x # m => x \in Range(inPlaceDeleteMessage(m))
         /\ Sorted(eventQueue) => Sorted(inPlaceDeleteMessage(m))
         /\ m \in Range(eventQueue) =>
              /\ Place(m) \in 1 .. Len(eventQueue)
              /\ Len(inPlaceDeleteMessage(m)) = Len(eventQueue) - 1
              /\ \A k \in 1 .. Len(eventQueue) - 1 :
                   inPlaceDeleteMessage(m)[k]
                     = IF k < Place(m) THEN eventQueue[k] ELSE eventQueue[k + 1]
<1> DEFINE s == eventQueue
<1>0. s \in Seq(S)
  OBVIOUS
<1>1. CASE m \notin Range(s)
  BY <1>1 DEF inPlaceDeleteMessage
<1>2. CASE m \in Range(s)
  <2> DEFINE i == Place(m)
             l == SubSeq(s, 1, i - 1)
             r == SubSeq(s, i + 1, Len(s))
             t == l \o r
  <2>0. /\ Len(s) \in Nat /\ DOMAIN s = 1 .. Len(s)
        /\ \A k \in 1 .. Len(s) : s[k] \in S
    BY <1>0
  <2>2. i \in 1 .. Len(s) /\ s[i] = m
    BY <1>2, <2>0 DEF Range, Place
  <2>10. inPlaceDeleteMessage(m) = t
    BY <1>2 DEF inPlaceDeleteMessage
  <2> HIDE DEF i, s
  <2>1. /\ Len(s) \in Nat /\ DOMAIN s = 1 .. Len(s)
        /\ \A k \in 1 .. Len(s) : s[k] \in S
    BY <2>0
  <2>3. l \in Seq(S) /\ Len(l) = i - 1 /\ \A k \in 1 .. i - 1 : l[k] = s[k]
    BY <2>1, <2>2, SubSeqProperties
  <2>4. /\ r \in Seq(S) /\ Len(r) = Len(s) - i
        /\ \A k \in 1 .. Len(s) - i : r[k] = s[i + k]
    <3>1. \A k \in i + 1 .. Len(s) : s[k] \in S
      BY <2>1, <2>2
    <3>2. /\ r \in Seq(S) /\ Len(r) = IF i + 1 <= Len(s) THEN Len(s) - (i + 1) + 1 ELSE 0
          /\ \A k \in 1 .. Len(s) - (i + 1) + 1 : r[k] = s[(i + 1) + k - 1]
      BY <2>1, <2>2, <3>1, SubSeqProperties
    <3> HIDE DEF r
    <3>3. Len(r) = Len(s) - i
      <4>1. Len(s) \in Int /\ i \in Int /\ i <= Len(s)
        BY <2>1, <2>2
      <4>2. Len(r) = IF i + 1 <= Len(s) THEN Len(s) - (i + 1) + 1 ELSE 0
        BY <3>2
      <4> QED BY <4>1, <4>2
    <3>4. ASSUME NEW k \in 1 .. Len(s) - i PROVE r[k] = s[i + k]
      <4>1. k \in 1 .. Len(s) - (i + 1) + 1 /\ (i + 1) + k - 1 = i + k
        BY <2>1, <2>2
      <4>2. r[k] = s[(i + 1) + k - 1]
        BY <3>2, <4>1
      <4> QED BY <4>1, <4>2
    <3> QED BY <3>2, <3>3, <3>4
  <2> HIDE DEF l, r
  <2>5. /\ t \in Seq(S) /\ Len(t) = Len(s) - 1
        /\ \A k \in 1 .. Len(s) - 1 : t[k] = IF k < i THEN s[k] ELSE s[k + 1]
    <3>1. /\ t \in Seq(S) /\ Len(t) = Len(l) + Len(r)
          /\ \A k \in 1 .. Len(l) + Len(r) :
               t[k] = IF k <= Len(l) THEN l[k] ELSE r[k - Len(l)]
      BY <2>3, <2>4, ConcatProperties
    <3>2. Len(t) = Len(s) - 1
      BY <2>1, <2>2, <2>3, <2>4, <3>1
    <3> HIDE DEF t
    <3>3. ASSUME NEW k \in 1 .. Len(s) - 1, k < i PROVE t[k] = s[k]
      <4>1. k \in 1 .. Len(l) + Len(r) /\ k <= Len(l) /\ k \in 1 .. i - 1
        BY <2>1, <2>2, <2>3, <2>4, <3>3
      <4>2. t[k] = l[k]
        BY <3>1, <4>1
      <4> QED BY <2>3, <4>1, <4>2
    <3>4. ASSUME NEW k \in 1 .. Len(s) - 1, ~(k < i) PROVE t[k] = s[k + 1]
      <4>1. k \in 1 .. Len(l) + Len(r) /\ ~(k <= Len(l)) /\ k - Len(l) \in 1 .. Len(s) - i
            /\ i + (k - Len(l)) = k + 1
        BY <2>1, <2>2, <2>3, <2>4, <3>4
      <4>2. t[k] = r[k - Len(l)]
        BY <3>1, <4>1
      <4>3. r[k - Len(l)] = s[i + (k - Len(l))]
        BY <2>4, <4>1
      <4> QED BY <4>1, <4>2, <4>3
    <3> QED BY <3>1, <3>2, <3>3, <3>4
  <2> HIDE DEF t
  <2>6. DOMAIN t = 1 .. Len(s) - 1
    BY <2>1, <2>5
  <2>7. Range(t) \subseteq Range(s)
    <3>1. ASSUME NEW k \in 1 .. Len(s) - 1 PROVE t[k] \in Range(s)
      <4>1. k \in DOMAIN s /\ k + 1 \in DOMAIN s
        BY <2>1, <2>2
      <4>2. t[k] = s[k] \/ t[k] = s[k + 1]
        BY <2>5
      <4> QED BY <4>1, <4>2 DEF Range
    <3> QED BY <2>6, <3>1 DEF Range
  <2>8. ASSUME NEW x \in Range(s), x # m PROVE x \in Range(t)
    <3>1. PICK k \in 1 .. Len(s) : x = s[k]
      BY <2>1 DEF Range
    <3>2. CASE k < i
      BY <2>1, <2>2, <2>5, <2>6, <3>1, <3>2, SMTT(30) DEF Range
    <3>3. CASE k > i
      <4>1. k - 1 \in 1 .. Len(s) - 1 /\ t[k - 1] = s[k]
        BY <2>1, <2>2, <2>5, <3>1, <3>3
      <4> QED BY <2>6, <3>1, <4>1 DEF Range
    <3> QED BY <2>2, <2>8, <3>1, <3>2, <3>3
  <2>9. Sorted(s) => Sorted(t)
    BY <2>1, <2>2, <2>5 DEF Sorted
  <2>11. /\ t \in Seq(S) /\ Range(t) \subseteq Range(s)
         /\ \A x \in Range(s) : x # m => x \in Range(t)
         /\ Sorted(s) => Sorted(t)
         /\ i \in 1 .. Len(s) /\ Len(t) = Len(s) - 1
         /\ \A k \in 1 .. Len(s) - 1 : t[k] = IF k < i THEN s[k] ELSE s[k + 1]
    BY <2>2, <2>5, <2>7, <2>8, <2>9
  <2> QED BY <2>10, <2>11 DEF s, i
<1> QED BY <1>1, <1>2

-----------------------------------------------------------------------------
(* Views of the record.                                                    *)

\* A view starts with the whole record.
LEMMA ViewKeeps ==
  ASSUME NEW s \in Seq(Messages)
  PROVE  View(s) \in Views /\ View(s).unread = s /\ View(<<>>) \in Views
         /\ View(<<>>).unread = <<>>
<1>1. <<>> \in Seq(Messages)
  OBVIOUS
<1> QED BY <1>1 DEF View, Views

\* Reading an element leaves those behind it.
LEMMA AdvanceKeeps ==
  ASSUME NEW v \in Views, ~Done(v)
  PROVE  /\ Advance(v) \in Views /\ Advance(v).unread = Tail(v.unread)
         /\ Head(v.unread) \in Messages
<1>1. /\ v.unread \in Seq(Messages) /\ v.unread # <<>> /\ Len(v.unread) \in Nat
      /\ v.read \in Nat /\ v.shared \in BOOLEAN
  BY DEF Views, Done
<1>2. /\ Tail(v.unread) \in Seq(Messages) /\ Head(v.unread) \in Messages
      /\ Len(Tail(v.unread)) = Len(v.unread) - 1
  BY <1>1, HeadTailProperties
<1> DEFINE t == Tail(v.unread)
           w == [unread |-> t, read |-> v.read + 1, shared |-> v.shared]
<1>3. Len(v.unread) = 1 => t = <<>>
  <2>1. t \in Seq(Messages) /\ Len(t) = Len(v.unread) - 1
    BY <1>2
  <2>2. t = <<>> <=> Len(t) = 0
    BY <2>1, EmptySeq
  <2> QED BY <1>1, <2>1, <2>2
<1>4. View(<<>>) \in Views /\ View(<<>>).unread = <<>>
  BY <1>2, ViewKeeps
<1>5. w \in Views /\ w.unread = t
  BY <1>1, <1>2 DEF Views
<1>6. Advance(v) = IF Len(v.unread) = 1 THEN View(<<>>) ELSE w
  BY DEF Advance
<1> HIDE DEF w, t
<1> QED BY <1>2, <1>3, <1>4, <1>5, <1>6 DEF t

\* A deletion from the record and an addition to it leave as much to be read.
LEMMA ArrayTypes ==
  ASSUME NEW v \in Views, eventQueue \in Seq(Messages)
  PROVE  /\ \A i \in 1 .. Len(eventQueue) :
              Shifted(v, i) \in Views /\ Len(Shifted(v, i).unread) = Len(v.unread)
         /\ \A m \in Messages, grows \in BOOLEAN :
              /\ Extended(v, m, grows) \in Views
              /\ Len(Extended(v, m, grows).unread) = Len(v.unread)
<1>1. /\ v.unread \in Seq(Messages) /\ v.read \in Nat /\ v.shared \in BOOLEAN
      /\ Len(v.unread) \in Nat /\ Len(eventQueue) \in Nat
      /\ \A k \in 1 .. Len(v.unread) : v.unread[k] \in Messages
      /\ \A k \in 1 .. Len(eventQueue) : eventQueue[k] \in Messages
  BY DEF Views
<1>2. ASSUME NEW i \in 1 .. Len(eventQueue)
      PROVE  Shifted(v, i) \in Views /\ Len(Shifted(v, i).unread) = Len(v.unread)
  <2> DEFINE e(k) == IF v.read + k \in i .. (Len(eventQueue) - 1)
                     THEN eventQueue[v.read + k + 1] ELSE v.unread[k]
             t == [k \in 1 .. Len(v.unread) |-> e(k)]
  <2>1. \A k \in 1 .. Len(v.unread) : e(k) \in Messages
    BY <1>1
  <2> HIDE DEF e
  <2>2. t \in Seq(Messages) /\ Len(t) = Len(v.unread)
    BY <1>1, <2>1
  <2> DEFINE w == [unread |-> t, read |-> v.read, shared |-> Len(eventQueue) > 1]
  <2>3. v.shared => Shifted(v, i) = w
    BY DEF Shifted, e
  <2>4. ~v.shared => Shifted(v, i) = v
    BY DEF Shifted
  <2> HIDE DEF t
  <2>5. w \in Views /\ w.unread = t
    BY <1>1, <2>2 DEF Views
  <2> HIDE DEF w
  <2> QED BY <2>2, <2>3, <2>4, <2>5
<1>3. ASSUME NEW m \in Messages, NEW grows \in BOOLEAN
      PROVE  /\ Extended(v, m, grows) \in Views
             /\ Len(Extended(v, m, grows).unread) = Len(v.unread)
  <2> DEFINE e(k) == IF v.read + k = Len(eventQueue) + 1 THEN m ELSE v.unread[k]
             t == [k \in 1 .. Len(v.unread) |-> e(k)]
  <2>1. \A k \in 1 .. Len(v.unread) : e(k) \in Messages
    BY <1>1
  <2> HIDE DEF e
  <2>2. t \in Seq(Messages) /\ Len(t) = Len(v.unread)
    BY <1>1, <2>1
  <2> DEFINE w == [unread |-> t, read |-> v.read, shared |-> ~grows]
  <2>3. v.shared => Extended(v, m, grows) = w
    BY DEF Extended, e
  <2>4. ~v.shared => Extended(v, m, grows) = v
    BY DEF Extended
  <2> HIDE DEF t
  <2>5. w \in Views /\ w.unread = t
    BY <1>1, <2>2 DEF Views
  <2> HIDE DEF w
  <2> QED BY <2>2, <2>3, <2>4, <2>5
<1> QED BY <1>2, <1>3

\* What is still to be read of the array of the record is what the record holds
\* there.
Aligned(v) ==
  v.shared /\ ~Done(v) =>
    /\ Len(eventQueue) <= v.read + Len(v.unread)
    /\ \A k \in 1 .. Len(v.unread) :
         v.read + k <= Len(eventQueue) => v.unread[k] = eventQueue[v.read + k]

-----------------------------------------------------------------------------
(* Types.                                                                  *)

\* Only a message at the head is looked for and taken as delivered, and no send is
\* retried beyond the limit.
SendTypes ==
  /\ pc \in {"scan", "rescan", "remove"} => queue # <<>>
  /\ pc \in {"retry", "rescan"} => retryTimes < MAX_RETRY

TypeInv == TypeOK /\ SendTypes

\* The steps of QueueSend keep the types.
LEMMA QueueSendTypes ==
  TypeInv /\ QueueSend => TypeInv'
<1> SUFFICES ASSUME TypeInv, QueueSend PROVE TypeInv'
  OBVIOUS
<1> USE QueueAssumption DEF TypeInv, TypeOK, SendTypes, Messages,
        producerVars, startVars, queueVars, ackVars, netVars, history
<1>1. CASE SelectData
  BY <1>1 DEF SelectData
<1>2. CASE SelectTimer
  BY <1>2 DEF SelectTimer
<1>3. CASE SelectDelivered
  <2>1. Head(deliverCh) \in Messages /\ <<>> \in Seq(Messages) /\ Len(<<>>) = 0
    BY <1>3, EmptyQueue, HeadTailProperties DEF SelectDelivered
  <2>2. acked' \in Messages /\ deliverCh' \in Seq(Messages) /\ Len(deliverCh') <= 1
    BY <1>3, <2>1 DEF SelectDelivered
  <2> QED BY <1>3, <2>2 DEF SelectDelivered
<1>4. ASSUME NEW reachable \in BOOLEAN, Expired(reachable) PROVE TypeInv'
  <2>1. timerOn' \in BOOLEAN
    BY <1>4 DEF Expired
  <2>2. pc' \in {"select", "retry"} /\ retryTimes' \in 0 .. MAX_RETRY
    BY <1>4 DEF Expired
  <2>3. pc' = "retry" => retryTimes' < MAX_RETRY
    BY <1>4 DEF Expired
  <2> QED BY <1>4, <2>1, <2>2, <2>3 DEF Expired
<1>5. CASE PeekAndSend
  <2>1. View(eventQueue) \in Views
    BY ViewKeeps
  <2>2. /\ scan' \in Views
        /\ pc' \in {"select", "scan", "rescan"} /\ pc' # "select" => queue # <<>>
        /\ pc' = "rescan" => pc = "retry"
    BY <1>5, <2>1 DEF PeekAndSend
  <2> HIDE DEF Views
  <2> QED BY <1>5, <2>2 DEF PeekAndSend
<1>9. CASE CheckIfNeedRemove
  <2>1. ~Done(scan) => Advance(scan) \in Views
    BY AdvanceKeeps
  <2>2. scan' \in Views /\ pc' \in {pc, "remove"} /\ pc \in {"scan", "rescan"}
    BY <1>9, <2>1 DEF CheckIfNeedRemove, Scanning
  <2> QED BY <1>9, <2>2 DEF CheckIfNeedRemove
<1>10. ASSUME NEW ok \in BOOLEAN, Send(ok) PROVE TypeInv'
  <2>1. Peek \in Messages /\ View(<<>>) \in Views
    BY <1>10, HeadTailProperties, ViewKeeps DEF Peek, Send, Scanning
  <2>2. retryTimes' \in 0 .. MAX_RETRY
    BY <1>10 DEF Send
  <2>3. known' \subseteq Messages /\ wire' \subseteq Messages
    BY <1>10, <2>1 DEF Send
  <2> QED BY <1>10, <2>1, <2>2, <2>3 DEF Send
<1>6. CASE Delivered
  <2>1. queue # <<>> => Tail(queue) \in Seq(Messages) /\ Len(Tail(queue)) <= MaxMsgQueue
    <3>1. queue # <<>> => Tail(queue) \in Seq(Messages) /\ Len(Tail(queue)) = Len(queue) - 1
      BY HeadTailProperties
    <3> QED BY <3>1
  <2>2. queue' \in Seq(Messages) /\ Len(queue') <= MaxMsgQueue
    BY <1>6, <2>1 DEF Delivered, Pop
  <2>3. timerOn' \in BOOLEAN
    BY <1>6 DEF Delivered
  <2>4. pc' \in {"popped", "select"} /\ acked' = 0 /\ retryTimes' \in 0 .. MAX_RETRY
    BY <1>6 DEF Delivered
  <2> QED BY <1>6, <2>2, <2>3, <2>4 DEF Delivered
<1>7. CASE SendNext
  BY <1>7 DEF SendNext
<1>8. CASE TakeAsDelivered
  <2>1. <<Peek>> \in Seq(Messages) /\ Len(<<Peek>>) = 1
    BY <1>8 DEF TakeAsDelivered, Peek
  <2> QED BY <1>8, <2>1 DEF TakeAsDelivered
<1> QED BY <1>1, <1>2, <1>3, <1>4, <1>5, <1>6, <1>7, <1>8, <1>9, <1>10 DEF QueueSend

\* Push keeps the queue within its capacity, and its head.
LEMMA PushTypes ==
  ASSUME TypeInv, NEW m \in Messages, NEW who \in {"dispatcher", "initializer"},
         Push(m, who)
  PROVE  /\ queue' \in Seq(Messages) /\ Len(queue') <= MaxMsgQueue
         /\ queue' # <<>>
         /\ lock' \in {"free", "dispatcher", "initializer"}
<1>1. Messages \in SUBSET Nat /\ queue \in Seq(Messages) /\ Len(queue) <= MaxMsgQueue
  BY QueueAssumption DEF Messages, TypeInv, TypeOK
<1>2. /\ Append(queue, m) \in Seq(Messages) /\ Len(Append(queue, m)) = Len(queue) + 1
      /\ Append(queue, m) # <<>>
  BY <1>1, AppendKeeps
<1>3. Len(queue) = MaxMsgQueue => queue # <<>>
  BY QueueAssumption, EmptyQueue
<1>4. Len(queue) \in Nat
  BY <1>1
<1> QED BY <1>1, <1>2, <1>3, <1>4, QueueAssumption DEF Push

\* The messages are numbered up to the bound.
LEMMA ProducesNext ==
  ASSUME TypeInv, updateQueues
  PROVE  produced' = produced + 1 /\ produced' \in Messages
<1>1. produced \in 0 .. MaxMessages
  BY DEF TypeInv, TypeOK
<1>2. produced < MaxMessages /\ produced' = produced + 1
  BY DEF updateQueues
<1> QED BY <1>1, <1>2, QueueAssumption DEF Messages

\* Every step keeps the types.
LEMMA TypesNext ==
  TypeInv /\ [Next]_vars => TypeInv'
<1> SUFFICES ASSUME TypeInv, [Next]_vars PROVE TypeInv'
  OBVIOUS
<1>0. Messages \in SUBSET Nat
  BY QueueAssumption DEF Messages
<1> USE QueueAssumption DEF TypeInv, TypeOK, SendTypes,
        producerVars, startVars, queueVars, ackVars, sendVars, netVars, history
<1>1. CASE updateQueues
  <2>1. produced' \in Messages
    BY <1>1, ProducesNext
  <2>2. eventQueue' \in Seq(Messages)
    BY <1>0, <1>1, <2>1, AppendKeeps DEF updateQueues
  <2>3. produced' \in 0 .. MaxMessages /\ dispatching' \in 0 .. MaxMessages
    BY <1>1, <2>1 DEF updateQueues, Messages
  <2>4. initializing' \in Views /\ scan' \in Views
    <3>1. PICK grows \in BOOLEAN :
            /\ initializing' = Extended(initializing, produced', grows)
            /\ scan' = Extended(scan, produced', grows)
      BY <1>1 DEF updateQueues
    <3>2. initializing \in Views /\ scan \in Views /\ eventQueue \in Seq(Messages)
      OBVIOUS
    <3> QED BY <2>1, <3>1, <3>2, ArrayTypes
  <2>5. missed' \in BOOLEAN
    BY <1>1 DEF updateQueues
  <2> QED BY <1>1, <2>2, <2>3, <2>4, <2>5 DEF updateQueues
<1>2. CASE SendAsync
  <2>1. dispatching \in Messages
    BY <1>2 DEF SendAsync, Messages
  <2>2. /\ queue' \in Seq(Messages) /\ Len(queue') <= MaxMsgQueue /\ queue' # <<>>
        /\ lock' \in {"free", "dispatcher", "initializer"}
    BY <1>2, <2>1, PushTypes DEF SendAsync
  <2>3. UNCHANGED <<dataCh, missed>> /\ dispatching' \in 0 .. MaxMessages
    BY <1>2 DEF SendAsync, Push
  <2> QED BY <1>2, <2>2, <2>3 DEF SendAsync
<1>3. CASE Signal
  BY <1>3 DEF Signal
<1>4. ASSUME NEW m \in Messages, handleProcessed(m) PROVE TypeInv'
  <2>1. eventQueue' \in Seq(Messages)
    BY <1>0, <1>4, DeleteKeeps DEF handleProcessed
  <2>2. initializing' \in Views /\ scan' \in Views
    <3>1. initializing \in Views /\ scan \in Views /\ eventQueue \in Seq(Messages)
      OBVIOUS
    <3>2. CASE m \in Range(eventQueue)
      <4>1. Place(m) \in 1 .. Len(eventQueue)
        BY <1>0, <3>1, <3>2, DeleteKeeps
      <4>2. /\ initializing' = Shifted(initializing, Place(m))
            /\ scan' = Shifted(scan, Place(m))
        BY <1>4, <3>2 DEF handleProcessed
      <4> QED BY <3>1, <4>1, <4>2, ArrayTypes
    <3>3. CASE m \notin Range(eventQueue)
      BY <1>4, <3>1, <3>3 DEF handleProcessed
    <3> QED BY <3>2, <3>3
  <2>3. missed' \in BOOLEAN
    BY <1>4 DEF handleProcessed
  <2> QED BY <1>4, <2>1, <2>2, <2>3 DEF handleProcessed
<1>5. ASSUME NEW m \in Messages, ReceiveDelivered(m) PROVE TypeInv'
  BY <1>5 DEF ReceiveDelivered, handleDelivered
<1>6. ASSUME NEW m \in Messages, PutDelivered(m) PROVE TypeInv'
  BY <1>6 DEF PutDelivered
<1>7. CASE QueueSend
  BY <1>7, QueueSendTypes
<1>8. CASE TimerEnds
  BY <1>8 DEF TimerEnds
<1>9. ASSUME NEW m \in Messages, ReceiveMessage(m) PROVE TypeInv'
  <2>1. applied' \in 0 .. MaxMessages
    BY <1>9, SMTT(30) DEF ReceiveMessage, Messages
  <2>2. wire' \subseteq Messages /\ acks' \subseteq Messages
    BY <1>9 DEF ReceiveMessage
  <2>3. arrived' \subseteq Messages /\ processed' \subseteq Messages
    BY <1>9 DEF ReceiveMessage
  <2> QED BY <1>9, <2>1, <2>2, <2>3 DEF ReceiveMessage
<1>10. ASSUME NEW m \in Messages, Lose(m) PROVE TypeInv'
  BY <1>10 DEF Lose
<1>11. CASE Restart
  <2>1. <<>> \in Seq(Messages) /\ Len(<<>>) <= MaxMsgQueue /\ Len(<<>>) <= 1
    BY EmptyQueue
  <2>2. /\ queue' \in Seq(Messages) /\ Len(queue') <= MaxMsgQueue
        /\ initializing' \in Views /\ scan' \in Views
        /\ deliverCh' \in Seq(Messages) /\ Len(deliverCh') <= 1
    BY <1>11, <2>1, ViewKeeps DEF Restart
  <2>3. /\ dispatching' \in 0 .. MaxMessages /\ acked' \in 0 .. MaxMessages
        /\ restarts' \in 0 .. MaxRestarts /\ retryTimes' \in 0 .. MAX_RETRY
    BY <1>11 DEF Restart
  <2>4. pushing' \in 0 .. MaxMessages
    BY <1>11 DEF Restart
  <2>5. missed' \in BOOLEAN
    BY ONLY <1>11 DEF Restart
  <2> QED BY <1>11, <2>2, <2>3, <2>4, <2>5 DEF Restart
<1>12. CASE InitializeMessagesQueues
  <2>1. initializing' \in Views
    BY <1>12, ViewKeeps DEF InitializeMessagesQueues
  <2> QED BY <1>12, <2>1 DEF InitializeMessagesQueues
<1>15. CASE ReadInitial
  <2>1. initializing' \in Views /\ pushing' \in Messages
    BY <1>15, AdvanceKeeps DEF ReadInitial
  <2>2. pushing' \in 0 .. MaxMessages
    BY <2>1 DEF Messages
  <2> QED BY <1>15, <2>1, <2>2 DEF ReadInitial
<1>13. CASE SendInitial
  <2>1. pushing \in Messages
    BY <1>13 DEF SendInitial, Messages
  <2>2. /\ queue' \in Seq(Messages) /\ Len(queue') <= MaxMsgQueue /\ queue' # <<>>
        /\ lock' \in {"free", "dispatcher", "initializer"}
    BY <1>13, <2>1, PushTypes DEF SendInitial
  <2> QED BY <1>13, <2>1, <2>2 DEF SendInitial, Push
<1>14. CASE UNCHANGED vars
  BY <1>14 DEF vars
<1> QED BY <1>1, <1>2, <1>3, <1>4, <1>5, <1>6, <1>7, <1>8, <1>9, <1>10, <1>11,
           <1>12, <1>13, <1>14, <1>15 DEF Next

\* The types of the queue hold in every state.
THEOREM TypesCorrect == Spec => [](TypeOK /\ SendTypes)
<1>1. Init => TypeInv
  <2> USE QueueAssumption DEF Init
  <2>1. <<>> \in Seq(Messages) /\ Len(<<>>) <= MaxMsgQueue /\ Len(<<>>) <= 1
    BY EmptyQueue
  <2>4. ASSUME NEW n \in 0 .. Recorded PROVE [i \in 1 .. n |-> i] \in Seq(Messages)
    BY DEF Messages
  <2>2. Init => /\ eventQueue \in Seq(Messages)
                /\ initializing \in Views /\ scan \in Views
                /\ queue \in Seq(Messages) /\ Len(queue) <= MaxMsgQueue
                /\ deliverCh \in Seq(Messages) /\ Len(deliverCh) <= 1
    BY <2>1, <2>4, ViewKeeps
  <2>3. Init => /\ produced \in 0 .. MaxMessages /\ dispatching \in 0 .. MaxMessages
                /\ acked \in 0 .. MaxMessages /\ applied \in 0 .. MaxMessages
                /\ restarts \in 0 .. MaxRestarts /\ retryTimes \in 0 .. MAX_RETRY
    OBVIOUS
  <2> QED BY <2>2, <2>3 DEF TypeInv, TypeOK, SendTypes
<1> QED BY <1>1, TypesNext, PTL DEF Spec, TypeInv

\* Types: the retries of QueueSend stay below the limit and the queue within its
\* capacity, whatever its goroutines do in between.
THEOREM TypeCorrect == Spec => []TypeOK
BY TypesCorrect, PTL

-----------------------------------------------------------------------------
(* Nothing is forgotten.                                                   *)

\* The recipient is done only with what it applied, so a message that Processed
\* removes from the record is not needed any more.
ProcessedApplied == \A m \in processed : m <= applied

ForgetInv == NothingForgotten /\ ProcessedApplied

\* The more is applied, the less is left.
LEMMA FewerLeft ==
  \A a, b, p \in Nat : a <= b => (b + 1) .. p \subseteq (a + 1) .. p
OBVIOUS

\* Every step keeps the record of what is not applied.
LEMMA ForgetNext ==
  TypeInv /\ ForgetInv /\ [Next]_vars => ForgetInv'
<1> SUFFICES ASSUME TypeInv, ForgetInv, [Next]_vars PROVE ForgetInv'
  OBVIOUS
<1>0. /\ Messages \in SUBSET Nat /\ Messages = 1 .. MaxMessages
      /\ eventQueue \in Seq(Messages) /\ processed \subseteq Messages
      /\ produced \in Nat /\ applied \in Nat
  BY QueueAssumption DEF Messages, TypeInv, TypeOK
<1>1. CASE updateQueues
  <2>1. /\ produced' = produced + 1 /\ produced' \in Messages
        /\ eventQueue' = Append(eventQueue, produced')
        /\ applied' = applied /\ processed' = processed
    BY <1>1, ProducesNext DEF updateQueues, netVars, history
  <2>2. Range(eventQueue') = Range(eventQueue) \cup {produced'}
    <3>1. Range(Append(eventQueue, produced')) = Range(eventQueue) \cup {produced'}
      BY <1>0, <2>1, AppendKeeps, ZenonT(40)
    <3> QED BY <2>1, <3>1, Zenon
  <2>3. \A m \in (applied + 1) .. produced' : m = produced' \/ m \in (applied + 1) .. produced
    BY <1>0, <2>1
  <2> QED BY <2>1, <2>2, <2>3 DEF ForgetInv, NothingForgotten, ProcessedApplied
<1>2. ASSUME NEW m \in Messages, handleProcessed(m) PROVE ForgetInv'
  <2>1. /\ eventQueue' = inPlaceDeleteMessage(m)
        /\ m \in processed /\ processed' \subseteq processed
        /\ produced' = produced /\ applied' = applied
    BY <1>2 DEF handleProcessed
  <2>2. \A x \in Range(eventQueue) : x # m => x \in Range(eventQueue')
    BY <1>0, <2>1, DeleteKeeps
  <2>3. m \notin (applied + 1) .. produced
    BY <1>0, <2>1 DEF ForgetInv, ProcessedApplied
  <2> QED BY <2>1, <2>2, <2>3 DEF ForgetInv, NothingForgotten, ProcessedApplied
<1>3. ASSUME NEW m \in Messages, ReceiveMessage(m) PROVE ForgetInv'
  <2>1. /\ eventQueue' = eventQueue /\ produced' = produced
        /\ applied' = applied \/ applied' = applied + 1
        /\ \A x \in processed' : x \in processed \/ x = applied'
    BY <1>3 DEF ReceiveMessage, producerVars
  <2>2. applied' \in Nat /\ applied <= applied'
    BY <1>0, <2>1
  <2>3. NothingForgotten'
    <3>1. (applied' + 1) .. produced \subseteq (applied + 1) .. produced
      BY <1>0, <2>2, FewerLeft
    <3> QED BY <2>1, <3>1 DEF ForgetInv, NothingForgotten
  <2>4. ProcessedApplied'
    <3>1. SUFFICES ASSUME NEW x \in processed PROVE x <= applied'
      BY <2>1, <2>2 DEF ProcessedApplied
    <3>2. x \in Nat /\ x <= applied
      BY <1>0 DEF ForgetInv, ProcessedApplied
    <3> QED BY <1>0, <2>2, <3>2
  <2> QED BY <2>3, <2>4 DEF ForgetInv
<1>4. CASE UNCHANGED <<eventQueue, produced, applied, processed>>
  BY <1>4 DEF ForgetInv, NothingForgotten, ProcessedApplied
<1>5. ASSUME NEW m \in Messages,
             ReceiveDelivered(m) \/ PutDelivered(m) \/ Lose(m)
      PROVE  UNCHANGED <<eventQueue, produced, applied, processed>>
  BY <1>5 DEF ReceiveDelivered, handleDelivered, PutDelivered, Lose,
              producerVars, netVars, history
<1>6. ASSUME SendAsync \/ Signal \/ QueueSend \/ TimerEnds \/ Restart
                \/ InitializeMessagesQueues \/ ReadInitial \/ SendInitial \/ UNCHANGED vars
      PROVE  UNCHANGED <<eventQueue, produced, applied, processed>>
  BY <1>6 DEF SendAsync, Signal, QueueSend, SelectData, SelectTimer, SelectDelivered,
              Expired, PeekAndSend, CheckIfNeedRemove, Send, Delivered, SendNext, TakeAsDelivered, TimerEnds,
              Restart, InitializeMessagesQueues, ReadInitial, SendInitial, vars, producerVars, netVars, history
<1> QED BY <1>1, <1>2, <1>3, <1>4, <1>5, <1>6 DEF Next

\* NothingForgotten: handleDelivered leaves the record alone and a Processed
\* arrives only for what was applied, so a restart sends the rest again.
THEOREM ForgetsNothing == Spec => []NothingForgotten
<1>1. Init => ForgetInv
  <2> SUFFICES ASSUME Init PROVE ForgetInv
    OBVIOUS
  <2>1. /\ applied = 0 /\ processed = {} /\ produced \in 0 .. Recorded
        /\ eventQueue = [i \in 1 .. produced |-> i]
    BY DEF Init
  <2>2. ASSUME NEW m \in 1 .. produced PROVE m \in Range(eventQueue)
    BY <2>1 DEF Range
  <2> QED BY <2>1, <2>2 DEF ForgetInv, NothingForgotten, ProcessedApplied
<1>2. TypeOK /\ SendTypes <=> TypeInv
  BY DEF TypeInv
<1>3. ForgetInv => NothingForgotten
  BY DEF ForgetInv
<1> QED BY <1>1, <1>2, <1>3, ForgetNext, TypesCorrect, PTL DEF Spec

-----------------------------------------------------------------------------
(* Messages arrive in order.                                               *)

\* The record holds messages in the order in which they were produced.
RecordSorted ==
  Sorted(eventQueue) /\ \A m \in Range(eventQueue) : m <= produced

\* What arrived is all up to some message.
ArrivedPrefix == \E k \in 0 .. produced : arrived = 1 .. k

\* While nothing was dropped, missed or overtaken, whatever counts as delivered has
\* arrived, and what QueueSend looks for has arrived or is still to be read.
AckedArrived ==
  /\ 1 .. applied \subseteq arrived /\ acks \subseteq arrived
  /\ delivering \subseteq arrived
  /\ deliverCh # <<>> => Head(deliverCh) \in arrived
  /\ acked # 0 => acked \in arrived
  /\ pc = "remove" => Head(queue) \in arrived
  /\ Scanning => Head(queue) \in arrived \/ Head(queue) \in Range(scan.unread)

\* A message is sent only after those before it arrived.
SentInTurn ==
  \A m \in wire : m <= produced /\ 1 .. (m - 1) \subseteq arrived

\* What has not arrived yet waits somewhere in the node.
Waits ==
  /\ ~started => /\ queue = <<>> /\ Done(initializing)
                 /\ pushing = 0 /\ dispatching = 0
  /\ started => \A m \in (1 .. produced) \ arrived :
                  m \in Range(queue) \cup Range(initializing.unread)
                          \cup {pushing, dispatching}

\* And it waits in the order in which it was produced.
WaitsSorted ==
  /\ dispatching # 0 => dispatching = produced /\ Done(initializing) /\ pushing = 0
  /\ Sorted(queue) /\ Sorted(initializing.unread)
  /\ \A m \in Range(queue) :
       /\ m <= produced
       /\ pushing # 0 => m <= pushing
       /\ \A k \in Range(initializing.unread) : m <= k
  /\ pushing # 0 => /\ pushing <= produced
                    /\ \A k \in Range(initializing.unread) : pushing <= k
  /\ \A m \in Range(initializing.unread) : m <= produced

OrderInv ==
  /\ RecordSorted /\ ArrivedPrefix
  /\ clean => AckedArrived /\ SentInTurn /\ Waits /\ WaitsSorted /\ Aligned(initializing)

\* What the types say, in one place.
LEMMA TypeFacts ==
  ASSUME TypeInv
  PROVE  /\ Messages \in SUBSET Nat /\ Messages = 1 .. MaxMessages
         /\ eventQueue \in Seq(Messages) /\ initializing \in Views /\ scan \in Views
         /\ initializing.unread \in Seq(Messages) /\ scan.unread \in Seq(Messages)
         /\ queue \in Seq(Messages)
         /\ produced \in Nat /\ dispatching \in Nat /\ applied \in Nat
         /\ pushing \in Nat /\ (pushing # 0 => pushing \in Messages)
         /\ started \in BOOLEAN /\ MaxMsgQueue \in Nat
         /\ Range(queue) \subseteq Messages
         /\ Range(initializing.unread) \subseteq Messages
         /\ Range(eventQueue) \subseteq Messages
         /\ wire \subseteq Messages
         /\ pc \in {"scan", "rescan", "remove"} => queue # <<>>
<1>1. ASSUME NEW s \in Seq(Messages) PROVE Range(s) \subseteq Messages
  BY DEF Range
<1>2. ASSUME NEW v \in Views PROVE v.unread \in Seq(Messages)
  BY DEF Views
<1>3. initializing \in Views /\ scan \in Views
  BY DEF TypeInv, TypeOK
<1>4. initializing.unread \in Seq(Messages) /\ scan.unread \in Seq(Messages)
  BY <1>2, <1>3
<1> HIDE DEF Views
<1> QED BY <1>1, <1>3, <1>4, QueueAssumption DEF Messages, TypeInv, TypeOK, SendTypes

\* While the record is shifted under the loop of the initializer, what the loop has
\* yet to read stays sorted, and what it was to read or part of it.
LEMMA ShiftSorted ==
  ASSUME TypeInv, NEW m \in Messages, handleProcessed(m),
         Aligned(initializing), Sorted(initializing.unread)
  PROVE  /\ Aligned(initializing)' /\ Sorted(initializing'.unread)
         /\ Range(initializing'.unread) \subseteq Range(initializing.unread)
<1>1. CASE m \notin Range(eventQueue)
  BY <1>1, DeleteKeeps DEF handleProcessed, inPlaceDeleteMessage, Aligned, Done
<1>2. CASE m \in Range(eventQueue)
  <2> DEFINE v == initializing
             u == initializing.unread
             L == Len(eventQueue)
             i == Place(m)
  <2>1. /\ u \in Seq(Messages) /\ v.read \in Nat /\ v.shared \in BOOLEAN
        /\ Len(u) \in Nat /\ DOMAIN u = 1 .. Len(u) /\ L \in Nat
        /\ \A k \in 1 .. Len(u) : u[k] \in Nat
        /\ eventQueue \in Seq(Messages) /\ Messages \in SUBSET Nat
    <3>1. /\ v \in Views /\ u \in Seq(Messages)
          /\ eventQueue \in Seq(Messages) /\ Messages \in SUBSET Nat
      BY TypeFacts
    <3>2. v.read \in Nat /\ v.shared \in BOOLEAN
      BY <3>1 DEF Views
    <3> HIDE DEF u, v
    <3>3. /\ Len(u) \in Nat /\ DOMAIN u = 1 .. Len(u) /\ L \in Nat
          /\ \A k \in 1 .. Len(u) : u[k] \in Messages
      BY <3>1
    <3> QED BY <3>1, <3>2, <3>3
  <2>2. /\ i \in 1 .. L /\ Len(eventQueue') = L - 1
        /\ \A k \in 1 .. L - 1 :
             eventQueue'[k] = IF k < i THEN eventQueue[k] ELSE eventQueue[k + 1]
    BY <1>2, <2>1, DeleteKeeps DEF handleProcessed
  <2>3. initializing' = Shifted(v, i)
    BY <1>2 DEF handleProcessed
  <2> HIDE DEF i
  <2>4. CASE ~v.shared
    <3>1. initializing' = initializing
      BY <2>3, <2>4 DEF Shifted
    <3> QED BY <2>4, <3>1 DEF Aligned
  <2>5. CASE v.shared /\ Done(v)
    <3>1. initializing'.unread = [k \in 1 .. 0 |-> IF v.read + k \in i .. (L - 1)
                                     THEN eventQueue[v.read + k + 1] ELSE u[k]]
      BY <2>3, <2>5 DEF Shifted, Done
    <3>2. initializing'.unread = <<>> /\ u = <<>>
      BY <2>5, <3>1 DEF Done
    <3> QED BY <3>2, EmptyQueue DEF Aligned, Done
  <2>6. CASE v.shared /\ ~Done(v)
    <3> DEFINE w == initializing'.unread
    <3>1. /\ DOMAIN w = 1 .. Len(u) /\ Len(w) = Len(u)
          /\ \A k \in 1 .. Len(u) :
               w[k] = IF v.read + k \in i .. (L - 1)
                      THEN eventQueue[v.read + k + 1] ELSE u[k]
          /\ initializing'.read = v.read /\ initializing'.shared = (L > 1)
      BY <2>1, <2>3, <2>6 DEF Shifted
    <3>2. /\ L <= v.read + Len(u)
          /\ \A k \in 1 .. Len(u) : v.read + k <= L => u[k] = eventQueue[v.read + k]
      BY <2>6 DEF Aligned
    <3> HIDE DEF w, u, v, L
    <3>3. ASSUME NEW k \in 1 .. Len(u)
          PROVE  \/ w[k] = u[k] /\ v.read + k \notin i .. (L - 1)
                 \/ /\ k + 1 \in 1 .. Len(u) /\ w[k] = u[k + 1]
                    /\ v.read + k \in i .. (L - 1)
      <4>1. CASE v.read + k \in i .. (L - 1)
        <5>1. k + 1 \in 1 .. Len(u) /\ v.read + (k + 1) <= L
          BY <2>1, <2>2, <3>2, <4>1
        <5>2. u[k + 1] = eventQueue[v.read + (k + 1)]
          BY <3>2, <5>1
        <5>3. v.read + (k + 1) = v.read + k + 1
          <6>1. v.read \in Nat /\ k \in Nat
            BY <2>1
          <6> QED BY ONLY <6>1
        <5> QED BY <3>1, <4>1, <5>1, <5>2, <5>3
      <4>2. CASE v.read + k \notin i .. (L - 1)
        BY <3>1, <4>2
      <4> QED BY <4>1, <4>2
    <3>4. ASSUME NEW k \in 1 .. Len(u) PROVE w[k] \in Range(u)
      BY <2>1, <3>3 DEF Range
    <3>5. ASSUME NEW j \in 1 .. Len(u), NEW k \in 1 .. Len(u), j < k PROVE w[j] <= w[k]
      <4>1. \A a, b \in 1 .. Len(u) : a < b => u[a] <= u[b]
        BY DEF Sorted, u
      <4>2. u[k] <= w[k] /\ w[k] \in Nat /\ u[k] \in Nat
        <5>1. CASE w[k] = u[k]
          BY <2>1, <5>1
        <5>2. CASE k + 1 \in 1 .. Len(u) /\ w[k] = u[k + 1]
          BY <2>1, <4>1, <5>2
        <5> QED BY <3>3, <5>1, <5>2
      <4>3. w[j] <= u[k] /\ w[j] \in Nat
        <5>1. CASE w[j] = u[j]
          BY <2>1, <3>5, <4>1, <5>1
        <5>2. CASE j + 1 \in 1 .. Len(u) /\ w[j] = u[j + 1]
          <6>1. j + 1 = k \/ j + 1 < k
            BY <3>5
          <6> QED BY <2>1, <4>1, <5>2, <6>1
        <5> QED BY <3>3, <5>1, <5>2
      <4> QED BY <4>2, <4>3
    <3>6. ASSUME NEW k \in 1 .. Len(w), v.read + k <= L - 1
          PROVE  w[k] = eventQueue'[v.read + k]
      <4>1. k \in 1 .. Len(u) /\ v.read + k \in 1 .. L - 1
        BY <2>1, <3>1, <3>6
      <4>2. CASE v.read + k < i
        <5>1. eventQueue'[v.read + k] = eventQueue[v.read + k]
          BY <2>2, <4>1, <4>2 DEF L
        <5>2. u[k] = eventQueue[v.read + k] /\ w[k] = u[k]
          BY <2>1, <2>2, <3>1, <3>2, <4>1, <4>2
        <5> QED BY <5>1, <5>2
      <4>3. CASE ~(v.read + k < i)
        <5>1. v.read + k \in i .. (L - 1)
          BY <2>1, <2>2, <4>1, <4>3
        <5>2. eventQueue'[v.read + k] = eventQueue[v.read + k + 1]
          BY <2>2, <4>1, <4>3 DEF L
        <5> QED BY <3>1, <4>1, <5>1, <5>2
      <4> QED BY <4>2, <4>3
    <3>7. Aligned(initializing)'
      <4>1. L - 1 <= v.read + Len(w)
        BY <2>1, <3>1, <3>2
      <4> QED BY <2>2, <3>1, <3>6, <4>1 DEF Aligned, w, L, v
    <3>8. Sorted(w) /\ Range(w) \subseteq Range(u)
      BY <3>1, <3>4, <3>5 DEF Sorted, Range
    <3> QED BY <3>7, <3>8 DEF w, u
  <2> QED BY <2>4, <2>5, <2>6
<1> QED BY <1>1, <1>2

\* What a loop over the record does not miss is still to be read, unless it arrived.
LEMMA StillRead ==
  ASSUME TypeInv, OrderInv, clean, ~Misses
  PROVE  /\ \A x \in Range(initializing.unread) :
              x \in arrived \/ x \in Range(initializing'.unread)
         /\ Scanning => Head(queue) \in arrived \/ Head(queue) \in Range(scan'.unread)
<1>1. AckedArrived
  BY DEF OrderInv
<1>2. ASSUME NEW x \in Messages, ~(x > applied) PROVE x \in arrived
  <2>1. x \in 1 .. applied
    BY <1>2, TypeFacts
  <2> QED BY <1>1, <2>1 DEF AckedArrived
<1>3. ASSUME NEW x \in Range(initializing.unread)
      PROVE  x \in arrived \/ x \in Range(initializing'.unread)
  BY <1>2, <1>3, TypeFacts DEF Misses
<1>4. Scanning => Head(queue) \in arrived \/ Head(queue) \in Range(scan'.unread)
  <2>1. Scanning => queue # <<>>
    BY TypeFacts DEF Scanning
  <2>2. Scanning => Head(queue) \in Messages
    BY <2>1, TypeFacts, HeadTailProperties
  <2>3. Scanning => Head(queue) \in arrived \/ Head(queue) \in Range(scan.unread)
    BY <1>1 DEF AckedArrived
  <2> QED BY <1>2, <2>2, <2>3 DEF Misses, Peek
<1> QED BY <1>3, <1>4

\* The order of production: a new message is the greatest.
LEMMA OrderProduce ==
  ASSUME TypeInv, OrderInv, updateQueues
  PROVE  OrderInv'
<1>0. /\ produced' = produced + 1 /\ dispatching' = produced'
      /\ produced' \in Messages /\ dispatching = 0
      /\ eventQueue' = Append(eventQueue, produced')
      /\ UNCHANGED <<arrived, started, pushing, queue, deliverCh, delivering,
                     pc, acked, wire, acks, applied>>
  BY ProducesNext
     DEF updateQueues, DispatchFree, startVars, queueVars, ackVars, sendVars, netVars, history
<1>1. clean' => clean /\ started /\ Done(initializing) /\ pushing = 0 /\ ~Misses
  BY DEF updateQueues, Running
<1>2. RecordSorted'
  <2>1. \A x \in Range(eventQueue) : x <= produced'
    BY <1>0, TypeFacts DEF OrderInv, RecordSorted
  <2>2. /\ Range(eventQueue') = Range(eventQueue) \cup {produced'}
        /\ Sorted(eventQueue')
    BY <1>0, <2>1, TypeFacts, AppendKeeps DEF OrderInv, RecordSorted
  <2>3. \A x \in Range(eventQueue') : x <= produced'
    BY <1>0, <2>1, <2>2, TypeFacts
  <2> QED BY <2>2, <2>3 DEF RecordSorted
<1>3. ArrivedPrefix'
  <2>1. 0 .. produced \subseteq 0 .. produced'
    BY <1>0, TypeFacts
  <2> QED BY <1>0, <2>1 DEF OrderInv, ArrivedPrefix
<1>4. SUFFICES ASSUME clean'
               PROVE  AckedArrived' /\ SentInTurn' /\ Waits' /\ WaitsSorted'
                        /\ Aligned(initializing)'
  BY <1>2, <1>3 DEF OrderInv
<1>5. initializing.unread = <<>> /\ initializing'.unread = <<>>
  <2>1. PICK grows \in BOOLEAN : initializing' = Extended(initializing, produced', grows)
    BY DEF updateQueues
  <2>2. Len(initializing'.unread) = Len(initializing.unread)
        /\ initializing' \in Views
    BY <1>0, <2>1, TypeFacts, ArrayTypes
  <2>3. initializing'.unread \in Seq(Messages)
    BY <2>2 DEF Views
  <2>4. initializing.unread = <<>>
    BY <1>1, <1>4 DEF Done
  <2> QED BY <2>2, <2>3, <2>4, EmptySeq
<1>6. AckedArrived'
  <2>1. Scanning => Head(queue) \in arrived \/ Head(queue) \in Range(scan'.unread)
    BY <1>1, <1>4, StillRead
  <2>2. AckedArrived
    BY <1>1, <1>4 DEF OrderInv
  <2> QED BY <1>0, <2>1, <2>2 DEF AckedArrived, Scanning
<1>7. SentInTurn'
  <2>1. \A m \in wire : m <= produced => m <= produced'
    BY <1>0, TypeFacts
  <2>2. SentInTurn
    BY <1>1, <1>4 DEF OrderInv
  <2> QED BY <1>0, <2>1, <2>2 DEF SentInTurn
<1>8. Waits'
  <2>1. (1 .. produced') = (1 .. produced) \cup {produced'}
    BY <1>0, TypeFacts
  <2>2. \A m \in 1 .. produced : m # dispatching /\ m # pushing
    BY <1>0, <1>1, <1>4
  <2>3. \A m \in (1 .. produced) \ arrived : m \in Range(queue)
    BY <1>1, <1>4, <1>5, <2>2, EmptyQueue DEF OrderInv, Waits
  <2> QED BY <1>0, <1>1, <1>4, <2>1, <2>3 DEF Waits
<1>9. WaitsSorted'
  <2>1. \A x \in Range(queue) : x <= produced => x <= produced'
    BY <1>0, TypeFacts
  <2>2. Range(initializing'.unread) = {} /\ Sorted(initializing'.unread)
    BY <1>5, EmptyQueue
  <2> QED BY <1>0, <1>1, <1>4, <1>5, <2>1, <2>2 DEF OrderInv, WaitsSorted, Done
<1>10. Aligned(initializing)'
  BY <1>5 DEF Aligned, Done
<1> QED BY <1>6, <1>7, <1>8, <1>9, <1>10

\* A message put behind the others.
LEMMA PushKeeps ==
  ASSUME TypeInv, NEW m \in Messages
  PROVE  /\ Range(Append(queue, m)) = Range(queue) \cup {m}
         /\ queue # <<>> => Head(Append(queue, m)) = Head(queue)
         /\ Sorted(queue) /\ (\A x \in Range(queue) : x <= m) =>
              Sorted(Append(queue, m))
<1>1. Messages \in SUBSET Nat /\ queue \in Seq(Messages)
  BY TypeFacts
<1> QED BY <1>1, AppendKeeps

\* SendAsync puts the newest message behind the others.
LEMMA OrderSend ==
  ASSUME TypeInv, OrderInv, SendAsync
  PROVE  OrderInv'
<1>0. /\ dispatching # 0 /\ dispatching' = 0 /\ dispatching \in Messages
      /\ UNCHANGED <<produced, eventQueue, arrived, started, initializing, pushing,
                     deliverCh, delivering, pc, scan, acked, wire, acks, applied>>
  BY DEF SendAsync, startVars, ackVars, sendVars, netVars, history, TypeInv, TypeOK, Messages
<1>1. clean' => clean /\ Len(queue) < MaxMsgQueue
  BY DEF SendAsync, Push
<1>2. clean' => queue' = Append(queue, dispatching)
  BY <1>1, TypeFacts DEF SendAsync, Push
<1>3. RecordSorted' /\ ArrivedPrefix'
  BY <1>0 DEF OrderInv, RecordSorted, ArrivedPrefix
<1>4. SUFFICES ASSUME clean'
               PROVE  AckedArrived' /\ SentInTurn' /\ Waits' /\ WaitsSorted'
                        /\ Aligned(initializing)'
  BY <1>3 DEF OrderInv
<1>5. /\ dispatching = produced /\ Done(initializing) /\ pushing = 0 /\ started
      /\ Sorted(queue)
      /\ \A m \in Range(queue) : m <= produced /\ m <= dispatching
  BY <1>0, <1>1, <1>4, TypeFacts DEF OrderInv, Waits, WaitsSorted
<1>6. /\ Range(queue') = Range(queue) \cup {dispatching}
      /\ Sorted(queue')
      /\ queue # <<>> => Head(queue') = Head(queue)
  <2>1. /\ Range(Append(queue, dispatching)) = Range(queue) \cup {dispatching}
        /\ queue # <<>> => Head(Append(queue, dispatching)) = Head(queue)
        /\ Sorted(queue) /\ (\A x \in Range(queue) : x <= dispatching) =>
             Sorted(Append(queue, dispatching))
    BY <1>0, PushKeeps
  <2>2. \A x \in Range(queue) : x <= dispatching
    BY <1>0, <1>2, <1>4, <1>5
  <2> QED BY <1>0, <1>2, <1>4, <1>5, <2>1, <2>2
<1>7. AckedArrived' /\ SentInTurn'
  <2>1. AckedArrived /\ SentInTurn
    BY <1>1, <1>4 DEF OrderInv
  <2>2. Scanning \/ pc = "remove" => queue # <<>>
    BY TypeFacts DEF Scanning
  <2> QED BY <1>0, <1>6, <2>1, <2>2 DEF AckedArrived, SentInTurn, Scanning
<1>8. Waits'
  BY <1>0, <1>1, <1>4, <1>5, <1>6 DEF OrderInv, Waits
<1>9. WaitsSorted'
  <2>1. /\ Range(initializing.unread) = {} /\ produced <= produced
        /\ Sorted(initializing.unread)
    BY <1>5, EmptyQueue, TypeFacts DEF Done
  <2> QED BY <1>0, <1>5, <1>6, <2>1 DEF WaitsSorted
<1>10. Aligned(initializing)'
  BY <1>0, <1>1, <1>4 DEF OrderInv, Aligned
<1> QED BY <1>7, <1>8, <1>9, <1>10

\* After a restart the recorded messages are read in their order ...
LEMMA OrderReadInitial ==
  ASSUME TypeInv, OrderInv, ReadInitial
  PROVE  OrderInv'
<1> DEFINE h == Head(initializing.unread)
           u == initializing.unread
<1>0. /\ ~Done(initializing) /\ pushing = 0
      /\ pushing' = h /\ initializing' = Advance(initializing)
      /\ UNCHANGED <<produced, eventQueue, arrived, clean, started, dispatching, queue,
                     deliverCh, delivering, pc, scan, acked, wire, acks, applied>>
  BY DEF ReadInitial, producerVars, queueVars, ackVars, sendVars, netVars, history
<1>1. /\ initializing'.unread = Tail(u) /\ h \in Messages /\ u \in Seq(Messages)
      /\ u # <<>>
  BY <1>0, AdvanceKeeps, TypeFacts DEF Done
<1>2. RecordSorted' /\ ArrivedPrefix'
  BY <1>0 DEF OrderInv, RecordSorted, ArrivedPrefix
<1>3. SUFFICES ASSUME clean
               PROVE  AckedArrived' /\ SentInTurn' /\ Waits' /\ WaitsSorted'
                        /\ Aligned(initializing)'
  BY <1>0, <1>2 DEF OrderInv
<1>4. AckedArrived /\ SentInTurn /\ Waits /\ WaitsSorted /\ Aligned(initializing)
  BY <1>3 DEF OrderInv
<1>5. /\ h \in Range(u) /\ Range(u) = Range(Tail(u)) \cup {h}
      /\ Sorted(Tail(u)) /\ \A x \in Range(Tail(u)) : h <= x
  BY <1>1, <1>4, TypeFacts, TailKeeps DEF WaitsSorted
<1>6. AckedArrived' /\ SentInTurn'
  BY <1>0, <1>4 DEF AckedArrived, SentInTurn, Scanning
<1>7. Aligned(initializing)'
  <2>1. CASE Len(u) = 1
    BY <1>0, <2>1 DEF Advance, View, Aligned
  <2>2. CASE Len(u) # 1
    <3>1. /\ initializing'.read = initializing.read + 1
          /\ initializing'.shared = initializing.shared
      BY <1>0, <2>2 DEF Advance
    <3>2. /\ Len(Tail(u)) = Len(u) - 1 /\ Len(u) \in Nat /\ initializing.read \in Nat
          /\ \A k \in 1 .. Len(u) - 1 : Tail(u)[k] = u[k + 1]
          /\ Len(eventQueue) \in Nat
      BY <1>1, TypeFacts, HeadTailProperties DEF Views
    <3>3. initializing.shared =>
            /\ Len(eventQueue) <= initializing.read + Len(u)
            /\ \A k \in 1 .. Len(u) : initializing.read + k <= Len(eventQueue) =>
                 u[k] = eventQueue[initializing.read + k]
      BY <1>0, <1>4 DEF Aligned
    <3> HIDE DEF u
    <3>4. ASSUME NEW k \in 1 .. Len(u) - 1, initializing.shared,
                 (initializing.read + 1) + k <= Len(eventQueue)
          PROVE  Tail(u)[k] = eventQueue[(initializing.read + 1) + k]
      <4>1. /\ k + 1 \in 1 .. Len(u)
            /\ initializing.read + (k + 1) = (initializing.read + 1) + k
        BY <3>2
      <4>2. u[k + 1] = eventQueue[initializing.read + (k + 1)]
        BY <3>3, <3>4, <4>1
      <4> QED BY <3>2, <4>1, <4>2
    <3>5. initializing.shared =>
            Len(eventQueue) <= (initializing.read + 1) + (Len(u) - 1)
      BY <3>2, <3>3
    <3> QED BY <1>0, <1>1, <3>1, <3>2, <3>4, <3>5 DEF Aligned
  <2> QED BY <2>1, <2>2
<1> HIDE DEF h
<1>8. Waits'
  <2>1. started
    BY <1>0, <1>4 DEF Waits
  <2> QED BY <1>0, <1>1, <1>4, <1>5, <2>1 DEF Waits
<1>9. WaitsSorted'
  <2>1. h # 0 /\ dispatching = 0
    BY <1>0, <1>1, <1>4, TypeFacts DEF WaitsSorted
  <2>2. /\ h <= produced /\ \A x \in Range(Tail(u)) : x <= produced
        /\ \A m \in Range(queue) : m <= h /\ \A k \in Range(Tail(u)) : m <= k
        /\ Sorted(queue) /\ \A m \in Range(queue) : m <= produced
    BY <1>4, <1>5 DEF WaitsSorted
  <2> HIDE DEF u
  <2> QED BY <1>0, <1>1, <1>5, <2>1, <2>2 DEF WaitsSorted
<1> QED BY <1>6, <1>7, <1>8, <1>9

\* ... and put into the queue.
LEMMA OrderSendInitial ==
  ASSUME TypeInv, OrderInv, SendInitial
  PROVE  OrderInv'
<1>0. /\ pushing # 0 /\ pushing' = 0 /\ pushing \in Messages
      /\ UNCHANGED <<produced, eventQueue, arrived, started, initializing, dispatching,
                     deliverCh, delivering, pc, scan, acked, wire, acks, applied>>
  <2>1. pushing # 0 /\ pushing' = 0
    BY DEF SendInitial
  <2>2. UNCHANGED <<produced, eventQueue, arrived, started, initializing, dispatching,
                    deliverCh, delivering, pc, scan, acked, wire, acks, applied>>
    BY DEF SendInitial, producerVars, ackVars, sendVars, netVars
  <2>3. pushing \in Messages
    BY <2>1, TypeFacts
  <2> QED BY <2>1, <2>2, <2>3
<1>1. clean' => clean /\ Len(queue) < MaxMsgQueue
  BY DEF SendInitial, Push
<1>2. clean' => queue' = Append(queue, pushing)
  BY <1>1, TypeFacts DEF SendInitial, Push
<1>3. RecordSorted' /\ ArrivedPrefix'
  BY <1>0 DEF OrderInv, RecordSorted, ArrivedPrefix
<1>4. SUFFICES ASSUME clean'
               PROVE  AckedArrived' /\ SentInTurn' /\ Waits' /\ WaitsSorted'
                        /\ Aligned(initializing)'
  BY <1>3 DEF OrderInv
<1>5. AckedArrived /\ SentInTurn /\ Waits /\ WaitsSorted /\ Aligned(initializing)
  BY <1>1, <1>4 DEF OrderInv
<1>6. /\ Range(queue') = Range(queue) \cup {pushing}
      /\ Sorted(queue')
      /\ queue # <<>> => Head(queue') = Head(queue)
  <2>1. /\ Range(Append(queue, pushing)) = Range(queue) \cup {pushing}
        /\ queue # <<>> => Head(Append(queue, pushing)) = Head(queue)
        /\ Sorted(queue) /\ (\A x \in Range(queue) : x <= pushing) =>
             Sorted(Append(queue, pushing))
    BY <1>0, PushKeeps
  <2>2. Sorted(queue) /\ \A x \in Range(queue) : x <= pushing
    BY <1>0, <1>5 DEF WaitsSorted
  <2> QED BY <1>2, <1>4, <2>1, <2>2
<1>7. AckedArrived' /\ SentInTurn'
  <2>1. Scanning \/ pc = "remove" => queue # <<>>
    BY TypeFacts DEF Scanning
  <2> QED BY <1>0, <1>5, <1>6, <2>1 DEF AckedArrived, SentInTurn, Scanning
<1>8. Waits'
  <2>1. started
    BY <1>0, <1>5 DEF Waits
  <2> QED BY <1>0, <1>5, <1>6, <2>1 DEF Waits
<1>9. WaitsSorted'
  <2>1. /\ pushing <= produced /\ \A k \in Range(initializing.unread) : pushing <= k
        /\ dispatching = 0
    BY <1>0, <1>5 DEF WaitsSorted
  <2> QED BY <1>0, <1>5, <1>6, <2>1 DEF WaitsSorted
<1>10. Aligned(initializing)'
  BY <1>0, <1>5 DEF Aligned
<1> QED BY <1>7, <1>8, <1>9, <1>10

\* A message that arrived leaves the record, or is on its way back.
LEMMA OrderAcks ==
  ASSUME TypeInv, OrderInv,
         \/ \E m \in Messages : handleProcessed(m) \/ ReceiveDelivered(m) \/ PutDelivered(m)
         \/ \E m \in Messages : Lose(m)
  PROVE  OrderInv'
<1>1. ASSUME NEW m \in Messages, handleProcessed(m) PROVE OrderInv'
  <2>1. /\ eventQueue' = inPlaceDeleteMessage(m)
        /\ UNCHANGED <<produced, arrived, started, pushing, dispatching, queue,
                       deliverCh, delivering, pc, acked, wire, acks, applied>>
        /\ clean' => clean /\ ~Misses
    BY <1>1 DEF handleProcessed, startVars, queueVars, ackVars, sendVars
  <2>2. RecordSorted' /\ ArrivedPrefix'
    BY <2>1, TypeFacts, DeleteKeeps DEF OrderInv, RecordSorted, ArrivedPrefix
  <2>3. SUFFICES ASSUME clean'
                 PROVE  AckedArrived' /\ SentInTurn' /\ Waits' /\ WaitsSorted'
                          /\ Aligned(initializing)'
    BY <2>2 DEF OrderInv
  <2>4. AckedArrived /\ SentInTurn /\ Waits /\ WaitsSorted /\ Aligned(initializing)
    BY <2>1, <2>3 DEF OrderInv
  <2>5. /\ Aligned(initializing)' /\ Sorted(initializing'.unread)
        /\ Range(initializing'.unread) \subseteq Range(initializing.unread)
    BY <1>1, <2>4, ShiftSorted DEF WaitsSorted
  <2>6. /\ \A x \in Range(initializing.unread) :
              x \in arrived \/ x \in Range(initializing'.unread)
        /\ Scanning => Head(queue) \in arrived \/ Head(queue) \in Range(scan'.unread)
    BY <2>1, <2>3, StillRead
  <2>7. AckedArrived' /\ SentInTurn'
    BY <2>1, <2>4, <2>6 DEF AckedArrived, SentInTurn, Scanning
  <2>8. Done(initializing) => Done(initializing')
    <3>1. initializing'.unread \in Seq(Messages)
      <4>1. TypeInv'
        BY <1>1, TypesNext DEF Next
      <4> QED BY <4>1 DEF TypeInv, TypeOK, Views
    <3>2. Done(initializing) => Range(initializing'.unread) = {}
      BY <2>5, EmptyQueue DEF Done
    <3>3. initializing'.unread # <<>> => 1 \in DOMAIN initializing'.unread
      BY <3>1
    <3> QED BY <3>2, <3>3 DEF Done, Range
  <2>9. Waits'
    BY <2>1, <2>4, <2>6, <2>8 DEF Waits
  <2>10. WaitsSorted'
    BY <2>1, <2>4, <2>5, <2>8 DEF WaitsSorted
  <2> QED BY <2>5, <2>7, <2>9, <2>10
<1>2. ASSUME NEW m \in Messages, ReceiveDelivered(m) PROVE OrderInv'
  <2>1. /\ m \in acks /\ acks' \subseteq acks
        /\ delivering' \subseteq delivering \cup {m}
        /\ UNCHANGED <<produced, eventQueue, arrived, clean, started, initializing, pushing,
                       dispatching, queue, deliverCh, pc, scan, acked, wire, applied>>
    BY <1>2 DEF ReceiveDelivered, handleDelivered, startVars, queueVars, sendVars, history
  <2>2. clean => AckedArrived'
    BY <2>1 DEF OrderInv, AckedArrived, Scanning
  <2> QED BY <2>1, <2>2 DEF OrderInv, RecordSorted, ArrivedPrefix, SentInTurn,
                            Waits, WaitsSorted, Aligned
<1>3. ASSUME NEW m \in Messages, PutDelivered(m) PROVE OrderInv'
  <2>1. /\ m \in delivering /\ delivering' \subseteq delivering /\ Head(deliverCh') = m
        /\ UNCHANGED <<produced, eventQueue, arrived, clean, started, initializing, pushing,
                       dispatching, queue, pc, scan, acked, wire, acks, applied>>
    BY <1>3 DEF PutDelivered, producerVars, startVars, queueVars, sendVars, netVars, history
  <2>2. clean => AckedArrived'
    BY <2>1 DEF OrderInv, AckedArrived, Scanning
  <2> QED BY <2>1, <2>2 DEF OrderInv, RecordSorted, ArrivedPrefix, SentInTurn,
                            Waits, WaitsSorted, Aligned
<1>4. ASSUME NEW m \in Messages, Lose(m) PROVE OrderInv'
  <2>1. /\ wire' \subseteq wire /\ acks' \subseteq acks
        /\ UNCHANGED <<produced, eventQueue, arrived, clean, started, initializing, pushing,
                       dispatching, queue, deliverCh, delivering, pc, scan, acked, applied>>
    BY <1>4 DEF Lose, producerVars, startVars, queueVars, ackVars, sendVars, history
  <2>2. clean => AckedArrived' /\ SentInTurn'
    BY <2>1 DEF OrderInv, AckedArrived, SentInTurn, Scanning
  <2> QED BY <2>1, <2>2 DEF OrderInv, RecordSorted, ArrivedPrefix, Waits, WaitsSorted,
                            Aligned
<1> QED BY <1>1, <1>2, <1>3, <1>4

\* The part of the order that QueueSend can disturb.
SendOrder == AckedArrived /\ SentInTurn /\ Waits /\ WaitsSorted

\* QueueSend sends the head of the queue and removes it once it has arrived.
LEMMA OrderQueueSend ==
  ASSUME TypeInv, ForgetInv, OrderInv, QueueSend
  PROVE  OrderInv'
<1>0. UNCHANGED <<produced, eventQueue, arrived, clean, started, initializing, pushing,
                  dispatching, delivering, acks, applied>>
  BY DEF QueueSend, SelectData, SelectTimer, SelectDelivered, Expired, PeekAndSend,
         CheckIfNeedRemove, Send, Delivered, SendNext, TakeAsDelivered, producerVars,
         startVars, queueVars, ackVars, sendVars, netVars, history
<1>1. RecordSorted' /\ ArrivedPrefix'
  BY <1>0 DEF OrderInv, RecordSorted, ArrivedPrefix
<1>2. SUFFICES ASSUME clean PROVE SendOrder'
  BY <1>0, <1>1 DEF OrderInv, SendOrder, Aligned
<1>3. AckedArrived /\ SentInTurn /\ Waits /\ WaitsSorted
  BY <1>2 DEF OrderInv
<1>4. queue # <<>> =>
        /\ Peek \in Range(queue) /\ Peek \in Messages
        /\ Range(queue) = Range(Tail(queue)) \cup {Peek}
        /\ Sorted(Tail(queue))
        /\ \A x \in Range(queue) : Peek <= x
  BY <1>3, TypeFacts, TailKeeps DEF WaitsSorted, Peek
<1>5. CASE SelectData \/ SelectTimer \/ SendNext
           \/ \E reachable \in BOOLEAN : Expired(reachable)
  <2>1. /\ UNCHANGED <<queue, deliverCh, acked, wire>>
        /\ pc' \notin {"remove", "scan", "rescan"}
    BY <1>5 DEF SelectData, SelectTimer, SendNext, Expired, queueVars, ackVars, netVars
  <2> QED BY <1>0, <1>3, <2>1
          DEF SendOrder, AckedArrived, SentInTurn, Waits, WaitsSorted, Scanning
<1>6. CASE SelectDelivered
  <2>1. /\ deliverCh # <<>> /\ acked' = Head(deliverCh) /\ deliverCh' = <<>>
        /\ UNCHANGED <<queue, wire>> /\ pc' \notin {"remove", "scan", "rescan"}
    BY <1>6 DEF SelectDelivered, queueVars, netVars
  <2> QED BY <1>0, <1>3, <2>1
          DEF SendOrder, AckedArrived, SentInTurn, Waits, WaitsSorted, Scanning
<1>7. CASE PeekAndSend
  <2>1. /\ UNCHANGED <<queue, deliverCh, acked, wire>> /\ pc' # "remove"
        /\ pc' \in {"scan", "rescan"} => queue # <<>> /\ scan' = View(eventQueue)
    BY <1>7 DEF PeekAndSend, queueVars, ackVars, netVars
  <2>2. ASSUME queue # <<>>, Peek \notin Range(eventQueue) PROVE Peek \in arrived
    <3>1. Peek \in Nat /\ Peek >= 1 /\ Peek <= produced
      BY <1>3, <1>4, <2>2, TypeFacts DEF WaitsSorted
    <3>2. Peek \notin (applied + 1) .. produced
      BY <2>2 DEF ForgetInv, NothingForgotten
    <3>3. Peek \in 1 .. applied
      BY <3>1, <3>2, TypeFacts
    <3> QED BY <1>3, <3>3 DEF AckedArrived
  <2>3. View(eventQueue).unread = eventQueue
    BY TypeFacts, ViewKeeps
  <2>4. pc' \in {"scan", "rescan"} => Head(queue') \in arrived' \cup Range(scan'.unread)
    BY <1>0, <2>1, <2>2, <2>3 DEF Peek
  <2> QED BY <1>0, <1>3, <2>1, <2>4
          DEF SendOrder, AckedArrived, SentInTurn, Waits, WaitsSorted, Scanning
<1>10. CASE CheckIfNeedRemove
  <2>1. /\ UNCHANGED <<queue, deliverCh, acked, wire>> /\ Scanning
        /\ \/ Done(scan) /\ pc' = "remove" /\ scan' = scan
           \/ /\ ~Done(scan) /\ Head(scan.unread) # Peek
              /\ scan' = Advance(scan) /\ pc' = pc
    BY <1>10 DEF CheckIfNeedRemove, queueVars, ackVars, netVars
  <2>2. Head(queue) \in arrived \/ Head(queue) \in Range(scan.unread)
    BY <1>3, <2>1 DEF AckedArrived
  <2>3. CASE Done(scan) /\ pc' = "remove" /\ scan' = scan
    <3>1. Head(queue) \in arrived
      BY <2>2, <2>3, EmptyQueue DEF Done
    <3> QED BY <1>0, <1>3, <2>1, <2>3, <3>1
            DEF SendOrder, AckedArrived, SentInTurn, Waits, WaitsSorted, Scanning
  <2>4. CASE /\ ~Done(scan) /\ Head(scan.unread) # Peek
             /\ scan' = Advance(scan) /\ pc' = pc
    <3>1. /\ scan'.unread = Tail(scan.unread)
          /\ scan.unread \in Seq(Messages) /\ scan.unread # <<>>
      BY <2>4, AdvanceKeeps, TypeFacts DEF Done
    <3>2. Range(scan.unread) = Range(Tail(scan.unread)) \cup {Head(scan.unread)}
      BY <3>1, TypeFacts, TailKeeps
    <3>3. Head(queue) \in arrived \/ Head(queue) \in Range(scan'.unread)
      BY <2>2, <2>4, <3>1, <3>2 DEF Peek
    <3>4. pc # "remove"
      BY <2>1 DEF Scanning
    <3> QED BY <1>0, <1>3, <2>1, <2>4, <3>3, <3>4
            DEF SendOrder, AckedArrived, SentInTurn, Waits, WaitsSorted, Scanning
  <2> QED BY <2>1, <2>3, <2>4
<1>11. ASSUME NEW ok \in BOOLEAN, Send(ok) PROVE SendOrder'
  <2>1. /\ UNCHANGED <<queue, deliverCh, acked>>
        /\ wire' = wire \/ wire' = wire \cup {Peek}
        /\ pc' = "select" /\ Scanning
    BY <1>11 DEF Send, queueVars, ackVars
  <2>2. /\ Peek <= produced /\ Peek \in Nat /\ Peek >= 1 /\ started /\ queue # <<>>
    BY <1>3, <1>4, <2>1, TypeFacts DEF Waits, WaitsSorted, Scanning
  <2>3. ASSUME NEW x \in 1 .. (Peek - 1), x \notin arrived PROVE FALSE
    <3>1. x \in 1 .. produced /\ x < Peek /\ x \in Nat /\ x # 0
      BY <2>2, <2>3, TypeFacts
    <3>2. x \in Range(queue) \cup Range(initializing.unread) \cup {pushing, dispatching}
      BY <1>3, <2>2, <2>3, <3>1 DEF Waits
    <3>3. x \notin Range(queue)
      BY <1>4, <2>2, <3>1
    <3>4. x \notin Range(initializing.unread)
      BY <1>3, <1>4, <2>2, <3>1 DEF WaitsSorted
    <3>5. x # pushing /\ x # dispatching
      BY <1>3, <1>4, <2>2, <3>1 DEF WaitsSorted
    <3> QED BY <3>2, <3>3, <3>4, <3>5
  <2>4. SentInTurn'
    BY <1>0, <1>3, <2>1, <2>2, <2>3 DEF SentInTurn
  <2> QED BY <1>0, <1>3, <2>1, <2>4 DEF SendOrder, AckedArrived, Waits, WaitsSorted, Scanning
<1>8. CASE Delivered
  <2>1. /\ acked' = 0 /\ UNCHANGED <<deliverCh, wire>>
        /\ pc' \notin {"remove", "scan", "rescan"}
        /\ \/ queue' = queue
           \/ queue # <<>> /\ Peek = acked /\ queue' = Tail(queue)
    BY <1>8 DEF Delivered, Pop, ackVars, netVars
  <2>2. AckedArrived' /\ SentInTurn'
    BY <1>0, <1>3, <2>1 DEF AckedArrived, SentInTurn, Scanning
  <2>3. CASE queue' = queue
    BY <1>0, <1>3, <2>1, <2>2, <2>3 DEF SendOrder, Waits, WaitsSorted
  <2>4. CASE queue # <<>> /\ Peek = acked /\ queue' = Tail(queue)
    <3>1. Peek \in arrived
      BY <1>3, <1>4, <2>4, TypeFacts DEF AckedArrived
    <3>2. Range(queue) = Range(queue') \cup {Peek} /\ Sorted(queue') /\ started
      BY <1>3, <1>4, <2>4, TypeFacts DEF Waits
    <3>3. Waits'
      BY <1>0, <1>3, <3>1, <3>2 DEF Waits
    <3>4. WaitsSorted'
      BY <1>0, <1>3, <3>2 DEF WaitsSorted
    <3> QED BY <2>2, <3>3, <3>4 DEF SendOrder
  <2> QED BY <2>1, <2>3, <2>4
<1>9. CASE TakeAsDelivered
  <2>1. /\ pc = "remove" /\ Head(deliverCh') = Head(queue)
        /\ UNCHANGED <<queue, acked, wire>> /\ pc' = "select"
    BY <1>9 DEF TakeAsDelivered, Peek, queueVars, netVars
  <2> QED BY <1>0, <1>3, <2>1
          DEF SendOrder, AckedArrived, SentInTurn, Waits, WaitsSorted, Scanning
<1> QED BY <1>5, <1>6, <1>7, <1>8, <1>9, <1>10, <1>11 DEF QueueSend

\* What arrives is the next message, or one that had arrived before.
LEMMA NextArrival ==
  \A k \in Nat, m \in Nat \ {0} :
    1 .. (m - 1) \subseteq 1 .. k =>
      \/ m \in 1 .. k /\ (1 .. k) \cup {m} = 1 .. k
      \/ k = m - 1 /\ (1 .. k) \cup {m} = 1 .. m
<1> SUFFICES ASSUME NEW k \in Nat, NEW m \in Nat \ {0}, 1 .. (m - 1) \subseteq 1 .. k
             PROVE  \/ m \in 1 .. k /\ (1 .. k) \cup {m} = 1 .. k
                    \/ k = m - 1 /\ (1 .. k) \cup {m} = 1 .. m
  OBVIOUS
<1>1. m - 1 <= k
  <2>1. CASE m = 1
    BY <2>1
  <2>2. CASE m # 1
    <3>1. m - 1 \in 1 .. (m - 1)
      BY <2>2
    <3> QED BY <3>1
  <2> QED BY <2>1, <2>2
<1>2. CASE m <= k
  BY <1>2
<1>3. CASE k = m - 1
  BY <1>3
<1> QED BY <1>1, <1>2, <1>3

\* An arrival, as the abstract queue sees it: while nothing was dropped or
\* overtaken it is the next message, or nothing new.
LEMMA Arrival ==
  ASSUME TypeInv, OrderInv, NEW m \in Messages, ReceiveMessage(m)
  PROVE  /\ produced' = produced
         /\ \/ arrived' = arrived
            \/ /\ m \in 1 .. produced
               /\ arrived = 1 .. (m - 1) /\ arrived' = 1 .. m
<1>1. /\ produced' = produced /\ m \in wire
      /\ arrived' = IF clean THEN arrived \cup {m} ELSE arrived
  BY DEF ReceiveMessage, producerVars
<1>2. m \in Nat \ {0}
  BY TypeFacts
<1>3. CASE clean
  <2>1. PICK k \in 0 .. produced : arrived = 1 .. k
    BY DEF OrderInv, ArrivedPrefix
  <2>2. k \in Nat
    BY <2>1, TypeFacts
  <2>3. m <= produced /\ 1 .. (m - 1) \subseteq 1 .. k
    BY <1>1, <1>3, <2>1 DEF OrderInv, SentInTurn
  <2>4. m \in 1 .. produced
    BY <1>2, <2>3, TypeFacts
  <2> QED BY <1>1, <1>2, <1>3, <2>1, <2>2, <2>3, <2>4, NextArrival
<1>4. CASE ~clean
  BY <1>1, <1>4
<1> QED BY <1>1, <1>3, <1>4

\* An arrival keeps the order.
LEMMA OrderArrival ==
  ASSUME TypeInv, OrderInv, NEW m \in Messages, ReceiveMessage(m)
  PROVE  OrderInv'
<1>1. /\ UNCHANGED <<produced, eventQueue, clean, started, initializing, pushing,
                     dispatching, queue, deliverCh, delivering, pc, scan, acked>>
      /\ arrived \subseteq arrived' /\ wire' \subseteq wire
      /\ clean => m \in arrived'
      /\ acks' \subseteq acks \cup {m}
      /\ applied' = applied \/ (applied' = m /\ m = applied + 1)
  BY DEF ReceiveMessage, producerVars, startVars, queueVars, ackVars, sendVars, history
<1>2. ArrivedPrefix'
  <2>1. CASE arrived' = arrived
    BY <1>1, <2>1 DEF OrderInv, ArrivedPrefix
  <2>2. CASE m \in 1 .. produced /\ arrived' = 1 .. m
    <3>1. m \in 0 .. produced'
      BY <1>1, <2>2, TypeFacts
    <3> QED BY <2>2, <3>1 DEF ArrivedPrefix
  <2> QED BY <2>1, <2>2, Arrival
<1>3. ASSUME clean PROVE AckedArrived'
  <2>1. 1 .. applied \subseteq arrived
    BY <1>3 DEF OrderInv, AckedArrived
  <2>2. 1 .. applied' \subseteq (1 .. applied) \cup {m}
    BY <1>1, TypeFacts
  <2>3. 1 .. applied' \subseteq arrived'
    BY <1>1, <1>3, <2>1, <2>2
  <2> QED BY <1>1, <1>3, <2>3 DEF OrderInv, AckedArrived, Scanning
<1>4. clean => SentInTurn' /\ Waits' /\ WaitsSorted' /\ Aligned(initializing)'
  BY <1>1 DEF OrderInv, SentInTurn, Waits, WaitsSorted, Aligned
<1> QED BY <1>1, <1>2, <1>3, <1>4 DEF OrderInv, RecordSorted

\* A restart empties the transport; the record then fills it in order.
LEMMA OrderRestart ==
  ASSUME TypeInv, ForgetInv, OrderInv, Restart \/ InitializeMessagesQueues
  PROVE  OrderInv'
<1>0. View(<<>>).unread = <<>>
  BY EmptyQueue, ViewKeeps
<1>1. CASE Restart
  <2>1. /\ UNCHANGED <<produced, eventQueue, clean, arrived, wire, acks, applied>>
        /\ started' = FALSE /\ initializing'.unread = <<>> /\ dispatching' = 0
        /\ pushing' = 0 /\ queue' = <<>>
        /\ deliverCh' = <<>> /\ delivering' = {} /\ pc' = "select" /\ acked' = 0
    BY <1>0, <1>1 DEF Restart, netVars
  <2>2. Waits' /\ WaitsSorted' /\ Aligned(initializing)'
    BY <2>1, EmptyQueue DEF Waits, WaitsSorted, Aligned, Done
  <2>3. clean => AckedArrived' /\ SentInTurn'
    BY <2>1 DEF OrderInv, AckedArrived, SentInTurn, Scanning
  <2> QED BY <2>1, <2>2, <2>3 DEF OrderInv, RecordSorted, ArrivedPrefix
<1>2. CASE InitializeMessagesQueues
  <2>1. /\ ~started /\ started' = TRUE /\ initializing' = View(eventQueue)
        /\ UNCHANGED <<produced, eventQueue, dispatching, pushing, queue, deliverCh,
                       delivering, pc, scan, acked, wire, acks, applied, arrived, clean>>
    BY <1>2 DEF InitializeMessagesQueues, producerVars, queueVars, ackVars, sendVars,
                netVars, history
  <2>2. initializing'.unread = eventQueue
    BY <2>1, TypeFacts, ViewKeeps
  <2>3. ASSUME clean PROVE Waits' /\ WaitsSorted' /\ Aligned(initializing)'
    <3>1. /\ queue = <<>> /\ dispatching = 0 /\ pushing = 0
          /\ Range(queue) = {} /\ Sorted(queue)
      BY <2>1, <2>3, EmptyQueue DEF OrderInv, Waits
    <3>2. ASSUME NEW m \in (1 .. produced) \ arrived PROVE m \in Range(eventQueue)
      <4>1. m \notin 1 .. applied
        BY <2>3, <3>2 DEF OrderInv, AckedArrived
      <4>2. m \in (applied + 1) .. produced
        BY <4>1, TypeFacts
      <4> QED BY <4>2 DEF ForgetInv, NothingForgotten
    <3>3. Waits'
      BY <2>1, <2>2, <3>2 DEF Waits
    <3>4. WaitsSorted'
      BY <2>1, <2>2, <3>1 DEF OrderInv, RecordSorted, WaitsSorted
    <3>5. Aligned(initializing)'
      <4>1. CASE eventQueue = <<>>
        BY <2>1, <4>1 DEF View, Aligned, Done
      <4>2. CASE eventQueue # <<>>
        <5>1. initializing'.read = 0 /\ Len(eventQueue) \in Nat
          BY <2>1, <4>2, TypeFacts DEF View
        <5> QED BY <2>1, <2>2, <5>1 DEF Aligned
      <4> QED BY <4>1, <4>2
    <3> QED BY <3>3, <3>4, <3>5
  <2>4. clean => AckedArrived' /\ SentInTurn'
    BY <2>1 DEF OrderInv, AckedArrived, SentInTurn, Scanning
  <2> QED BY <2>1, <2>3, <2>4 DEF OrderInv, RecordSorted, ArrivedPrefix
<1> QED BY <1>1, <1>2

\* Every step keeps the order.
LEMMA OrderNext ==
  TypeInv /\ ForgetInv /\ OrderInv /\ [Next]_vars => OrderInv'
<1> SUFFICES ASSUME TypeInv, ForgetInv, OrderInv, [Next]_vars PROVE OrderInv'
  OBVIOUS
<1>1. CASE Signal \/ TimerEnds \/ UNCHANGED vars
  <2>1. UNCHANGED <<produced, eventQueue, arrived, clean, started, initializing, pushing,
                    dispatching, queue, deliverCh, delivering, pc, scan, acked, wire, acks,
                    applied>>
    BY <1>1 DEF Signal, TimerEnds, vars, producerVars, startVars, queueVars, ackVars,
                sendVars, netVars, history
  <2> QED BY <2>1 DEF OrderInv, RecordSorted, ArrivedPrefix, AckedArrived, SentInTurn,
                      Waits, WaitsSorted, Aligned, Scanning
<1> QED BY <1>1, OrderProduce, OrderSend, OrderReadInitial, OrderSendInitial, OrderAcks,
           OrderQueueSend, OrderArrival, OrderRestart DEF Next

\* The node starts with all that it produced in the record and nothing on the way.
LEMMA OrderInit ==
  Init => OrderInv /\ ForgetInv /\ InOrder!Init
<1> SUFFICES ASSUME Init PROVE OrderInv /\ ForgetInv /\ InOrder!Init
  OBVIOUS
<1>1. /\ produced \in 0 .. Recorded /\ eventQueue = [i \in 1 .. produced |-> i]
      /\ dispatching = 0 /\ pushing = 0 /\ started = FALSE /\ queue = <<>>
      /\ initializing.unread = <<>> /\ deliverCh = <<>> /\ delivering = {}
      /\ pc = "select" /\ acked = 0 /\ wire = {} /\ acks = {} /\ processed = {}
      /\ arrived = {} /\ applied = 0
  BY EmptyQueue, ViewKeeps DEF Init
<1>2. produced \in Nat /\ 1 .. 0 = {} /\ 0 \in 0 .. produced
  BY <1>1, QueueAssumption
<1>3. /\ DOMAIN eventQueue = 1 .. produced /\ Len(eventQueue) = produced
      /\ \A i \in 1 .. produced : eventQueue[i] = i
  BY <1>1, <1>2
<1>4. Range(eventQueue) = 1 .. produced /\ Sorted(eventQueue)
  BY <1>2, <1>3 DEF Range, Sorted
<1>5. RecordSorted /\ ArrivedPrefix
  BY <1>1, <1>2, <1>4 DEF RecordSorted, ArrivedPrefix
<1>6. AckedArrived /\ SentInTurn
  BY <1>1, <1>2 DEF AckedArrived, SentInTurn, Scanning
<1>7. Waits /\ WaitsSorted /\ Aligned(initializing)
  BY <1>1, EmptyQueue DEF Waits, WaitsSorted, Aligned, Done
<1>8. ForgetInv
  BY <1>1, <1>2, <1>4 DEF ForgetInv, NothingForgotten, ProcessedApplied
<1>9. InOrder!Init
  BY <1>1, <1>2 DEF InOrder!Init
<1> QED BY <1>5, <1>6, <1>7, <1>8, <1>9 DEF OrderInv

\* DeliversInOrder: every step of the queue is a step of Delivery or changes
\* nothing there.  A message is sent only when those before it have arrived,
\* unless a queue overflowed, a message was produced before the queue of a
\* restarted node was filled, or a loop over the record missed one while a
\* Processed shifted the record under it.
THEOREM InOrderDelivery == Spec => DeliversInOrder
<1>2. TypeInv /\ OrderInv /\ [Next]_vars => [InOrder!Next]_<<produced, arrived>>
  <2> SUFFICES ASSUME TypeInv, OrderInv, [Next]_vars
               PROVE  InOrder!Next \/ UNCHANGED <<produced, arrived>>
    OBVIOUS
  <2>1. CASE updateQueues
    BY <2>1 DEF updateQueues, netVars, InOrder!Next, InOrder!Produce
  <2>2. ASSUME NEW m \in Messages, ReceiveMessage(m)
        PROVE  InOrder!Next \/ UNCHANGED <<produced, arrived>>
    BY <2>2, Arrival DEF InOrder!Next, InOrder!FirstArrival
  <2>3. ASSUME NEW m \in Messages,
               handleProcessed(m) \/ ReceiveDelivered(m) \/ PutDelivered(m) \/ Lose(m)
        PROVE  UNCHANGED <<produced, arrived>>
    BY <2>3 DEF handleProcessed, ReceiveDelivered, PutDelivered, Lose, producerVars, netVars
  <2>4. ASSUME SendAsync \/ Signal \/ QueueSend \/ TimerEnds \/ Restart
                 \/ InitializeMessagesQueues \/ ReadInitial \/ SendInitial \/ UNCHANGED vars
        PROVE  UNCHANGED <<produced, arrived>>
    BY <2>4 DEF SendAsync, Signal, QueueSend, SelectData, SelectTimer, SelectDelivered,
                Expired, PeekAndSend, CheckIfNeedRemove, Send, Delivered, SendNext,
                TakeAsDelivered, TimerEnds, Restart, InitializeMessagesQueues, ReadInitial,
                SendInitial, vars, producerVars, netVars
  <2> QED BY <2>1, <2>2, <2>3, <2>4 DEF Next
<1>3. TypeOK /\ SendTypes <=> TypeInv
  BY DEF TypeInv
<1> QED BY <1>2, <1>3, OrderInit, TypesCorrect, ForgetNext, OrderNext, PTL
        DEF Spec, DeliversInOrder, InOrder!Spec

=============================================================================
