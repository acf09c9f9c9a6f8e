--------------------------- MODULE TransportQueue ---------------------------
(***************************************************************************)
(* The queue of network/transport for the messages of one channel to one   *)
(* recipient, and what fills and empties it:                               *)
(*                                                                         *)
(*   - HandleStateChange, which runs one state change at a time under      *)
(*     dispatchEventsLock: it records a message in the chain state's event *)
(*     queue (updateQueues) and pushes it (SendAsync);                     *)
(*   - QueueSend, the goroutine that sends the head of the queue, again    *)
(*     when its timer ends, until the recipient's Delivered arrives;       *)
(*   - one goroutine per received Delivered, which hands it to QueueSend;  *)
(*   - InitializeMessagesQueues after a restart, which pushes the recorded *)
(*     messages once more, outside dispatchEventsLock.                     *)
(*                                                                         *)
(* They meet in a mutex and two channels that hold one item.  A step is    *)
(* what a goroutine does between two points where it can be held up.       *)
(*                                                                         *)
(* InitializeMessagesQueues and QueueSend walk the record of the chain     *)
(* state without dispatchEventsLock: StateFromChannel copies the header of *)
(* the slice, not its array, and a Processed shifts that array in place.   *)
(* Each element they read is a step.  The shift itself is one.             *)
(*                                                                         *)
(* A message is its number in the order of production.  The recipient      *)
(* applies the next one it waits for (the nonce check of                   *)
(* IsBalanceProofUsableOnChain) and answers Delivered to everything, but   *)
(* Processed only to what it applied.                                      *)
(***************************************************************************)
EXTENDS Naturals, Sequences, FiniteSets, Functions

CONSTANTS
  MaxMsgQueue,  \* the capacity of a queue (common.Config.MaxMsgQueue)
  MAX_RETRY,    \* failed sends before the network state is asked for
  QuietStart,   \* TRUE: nothing is produced until a restart is complete
  Recorded,     \* bound: messages in the record when the node starts at first
  MaxMessages,  \* bound: messages produced
  MaxRestarts,  \* bound: restarts of the node
  MaxWork,      \* bound: messages produced and restarts together
  MaxInFlight   \* bound: messages on the way to the recipient, and Delivered on
                \* the way back; what exceeds it is lost

ASSUME QueueAssumption ==
  /\ MaxMsgQueue \in Nat \ {0}
  /\ MAX_RETRY \in Nat \ {0}
  /\ QuietStart \in BOOLEAN
  /\ Recorded \in 0 .. MaxMessages
  /\ MaxMessages \in Nat
  /\ MaxRestarts \in Nat
  /\ MaxWork \in Nat
  /\ MaxInFlight \in Nat \ {0}

VARIABLES
  produced,      \* how many messages were produced
  eventQueue,    \* QueueIdsToQueues[queueId]; kept by the write-ahead log
  dispatching,   \* the message HandleStateChange is about to push, or 0
  started,       \* InitializeMessagesQueues has read the event queue
  initializing,  \* its view of the record
  pushing,       \* the message it read and is about to push, or 0
  queue,         \* the messages of the Queue
  lock,          \* who holds the queue's mutex while it waits for DataCh
  dataCh,        \* DataCh holds a signal
  deliverCh,     \* DeliverChan: at most one message
  delivering,    \* goroutines waiting to put a message into DeliverChan
  known,         \* addressQueueMap: messages for which Delivered is expected
  pc,            \* where QueueSend is
  scan,          \* its view of the record while it looks for a message
  acked,         \* what QueueSend took from DeliverChan, or 0
  timerOn,       \* the timer runs
  tick,          \* the timer's channel holds a tick
  retryTimes,    \* failed sends in a row
  wire,          \* messages on the way to the recipient
  acks,          \* Delivered messages on the way back
  processed,     \* Processed messages on the way back
  arrived,       \* messages that arrived at the recipient while clean held
  clean,         \* history: no message was dropped, missed or overtook another
  missed,        \* history: one was missed since the last restart
  applied,       \* the last message the recipient applied
  restarts       \* how often the node was restarted

producerVars == <<produced, eventQueue, dispatching>>
startVars == <<started, initializing, pushing, restarts>>
queueVars == <<queue, lock, dataCh>>
ackVars == <<deliverCh, delivering>>
sendVars == <<known, pc, scan, acked, timerOn, tick, retryTimes>>
netVars == <<wire, acks, processed, arrived, applied>>
history == <<clean, missed>>
vars == <<producerVars, startVars, queueVars, ackVars, sendVars, netVars, history>>

Messages == 1 .. MaxMessages

-----------------------------------------------------------------------------
(* Views of the record.                                                    *)

\* What a loop over a copied slice header has not read yet, how many elements it
\* read, and whether its array is still that of the record.
View(messageQueue) ==
  IF messageQueue = <<>> THEN [unread |-> <<>>, read |-> 0, shared |-> FALSE]
  ELSE [unread |-> messageQueue, read |-> 0, shared |-> TRUE]

Done(view) == view.unread = <<>>

\* The next element is read.
Advance(view) ==
  IF Len(view.unread) = 1 THEN View(<<>>)
  ELSE [unread |-> Tail(view.unread), read |-> view.read + 1, shared |-> view.shared]

\* The array when the i-th message of the record is deleted: those behind it move
\* one place down, and the last place keeps what it holds.
Shifted(view, i) ==
  IF ~view.shared THEN view
  ELSE [unread |-> [k \in 1 .. Len(view.unread) |->
                      IF view.read + k \in i .. (Len(eventQueue) - 1)
                      THEN eventQueue[view.read + k + 1] ELSE view.unread[k]],
        read |-> view.read,
        shared |-> Len(eventQueue) > 1]

\* The place behind the record in the array is one that the view has yet to read.
Overwrites(view) ==
  view.shared /\ Len(eventQueue) + 1 <= view.read + Len(view.unread)

\* The array when m is appended to the record: in place or, when it is full, in
\* an array of its own.
Extended(view, m, grows) ==
  IF ~view.shared THEN view
  ELSE [unread |-> [k \in 1 .. Len(view.unread) |->
                      IF view.read + k = Len(eventQueue) + 1 THEN m ELSE view.unread[k]],
        read |-> view.read,
        shared |-> ~grows]

\* The node starts with the messages that it could not deliver before.
Init ==
  /\ produced \in 0 .. Recorded /\ eventQueue = [i \in 1 .. produced |-> i]
  /\ dispatching = 0
  /\ started = FALSE /\ initializing = View(<<>>) /\ pushing = 0 /\ restarts = 0
  /\ queue = <<>> /\ lock = "free" /\ dataCh = FALSE
  /\ deliverCh = <<>> /\ delivering = {}
  /\ known = {} /\ pc = "select" /\ scan = View(<<>>) /\ acked = 0
  /\ timerOn = TRUE /\ tick = FALSE /\ retryTimes = 0
  /\ wire = {} /\ acks = {} /\ processed = {} /\ arrived = {} /\ applied = 0
  /\ clean = TRUE /\ missed = FALSE

-----------------------------------------------------------------------------
(* The node.                                                               *)

\* dispatchEventsLock is held until the message is in the queue.
DispatchFree == dispatching = 0 /\ lock # "dispatcher"

Running == started /\ Done(initializing) /\ pushing = 0 /\ lock # "initializer"

\* The message at the head of the queue, when there is one, and its removal.
Peek == Head(queue)
Pop == queue' = Tail(queue)

\* QueueSend looks for the head of the queue in the record.
Scanning == pc \in {"scan", "rescan"}

\* A message that is not applied was still to be read in one of the two views,
\* and is not any more.
Misses ==
  \/ \E m \in Range(initializing.unread) :
       m > applied /\ m \notin Range(initializing'.unread)
  \/ /\ Scanning /\ Peek \in Range(scan.unread)
     /\ Peek > applied /\ Peek \notin Range(scan'.unread)

\* A state change produces a message: updateQueues records it before
\* HandleStateChange sends it.
updateQueues ==
  /\ produced < MaxMessages /\ produced + restarts < MaxWork
  /\ DispatchFree
  /\ QuietStart => Running
  /\ produced' = produced + 1
  /\ eventQueue' = Append(eventQueue, produced')
  /\ dispatching' = produced'
  /\ \E grows \in BOOLEAN :
       /\ Overwrites(initializing) \/ Overwrites(scan) => ~grows
       /\ initializing' = Extended(initializing, produced', grows)
       /\ scan' = Extended(scan, produced', grows)
  /\ missed' = (missed \/ Misses)
  /\ clean' = (clean /\ Running /\ ~Misses)
  /\ UNCHANGED <<started, pushing, restarts, queueVars, ackVars,
                 known, pc, acked, timerOn, tick, retryTimes, netVars>>

\* A message that does not fit is dropped.  The signal for a queue of length 1
\* is sent with the mutex held.
Push(m, who) ==
  LET pushed == IF Len(queue) = MaxMsgQueue THEN queue ELSE Append(queue, m)
  IN /\ lock = "free"
     /\ queue' = pushed
     /\ lock' = IF Len(pushed) = 1 THEN who ELSE "free"
     /\ clean' = (clean /\ Len(queue) < MaxMsgQueue)
     /\ UNCHANGED <<dataCh, missed>>

Signal ==
  /\ lock # "free"
  /\ ~dataCh
  /\ dataCh' = TRUE
  /\ lock' = "free"
  /\ UNCHANGED <<producerVars, startVars, queue, ackVars, sendVars, netVars, history>>

SendAsync ==
  /\ dispatching # 0
  /\ Push(dispatching, "dispatcher")
  /\ dispatching' = 0
  /\ UNCHANGED <<produced, eventQueue, startVars, ackVars, sendVars, netVars>>

\* Where message m is in the record, and the record without it: what comes before
\* is joined with what comes after.
Place(m) == CHOOSE i \in 1 .. Len(eventQueue) : eventQueue[i] = m
inPlaceDeleteMessage(m) ==
  IF m \in Range(eventQueue)
  THEN SubSeq(eventQueue, 1, Place(m) - 1) \o SubSeq(eventQueue, Place(m) + 1, Len(eventQueue))
  ELSE eventQueue

\* ReceiveProcessed: the recipient is done with m.
handleProcessed(m) ==
  /\ m \in processed
  /\ DispatchFree
  /\ processed' = processed \ {m}
  /\ eventQueue' = inPlaceDeleteMessage(m)
  /\ IF m \in Range(eventQueue)
     THEN /\ initializing' = Shifted(initializing, Place(m))
          /\ scan' = Shifted(scan, Place(m))
     ELSE UNCHANGED <<initializing, scan>>
  /\ missed' = (missed \/ Misses)
  /\ clean' = (clean /\ ~Misses)
  /\ UNCHANGED <<produced, dispatching, started, pushing, restarts, queueVars, ackVars,
                 known, pc, acked, timerOn, tick, retryTimes,
                 wire, acks, arrived, applied>>

\* Mutant: a Delivered removes the message from the channel's event queue.
DeliveredRemoves(m) == inPlaceDeleteMessage(m)

\* ReceiveDelivered as a state change: it is looked for in the queue of
\* channel 0, never in a channel's own.
handleDelivered(m) == eventQueue

\* ReceiveDelivered in the transport.
ReceiveDelivered(m) ==
  /\ m \in acks
  /\ DispatchFree
  /\ acks' = acks \ {m}
  /\ eventQueue' = handleDelivered(m)
  /\ delivering' = IF m \in known THEN delivering \cup {m} ELSE delivering
  /\ UNCHANGED <<produced, dispatching, startVars, queueVars, deliverCh, sendVars,
                 wire, processed, arrived, applied, history>>

PutDelivered(m) ==
  /\ m \in delivering
  /\ deliverCh = <<>>
  /\ deliverCh' = <<m>>
  /\ delivering' = delivering \ {m}
  /\ UNCHANGED <<producerVars, startVars, queueVars, sendVars, netVars, history>>

-----------------------------------------------------------------------------
(* QueueSend.  select chooses at random among the channels that are ready. *)

SelectData ==
  /\ pc = "select" /\ dataCh
  /\ dataCh' = FALSE
  /\ timerOn' = TRUE
  /\ pc' = "peek"
  /\ UNCHANGED <<producerVars, startVars, queue, lock, ackVars,
                 known, scan, acked, tick, retryTimes, netVars, history>>

SelectTimer ==
  /\ pc = "select" /\ tick
  /\ tick' = FALSE
  /\ pc' = "expired"
  /\ UNCHANGED <<producerVars, startVars, queueVars, ackVars,
                 known, scan, acked, timerOn, retryTimes, netVars, history>>

SelectDelivered ==
  /\ pc = "select" /\ deliverCh # <<>>
  /\ acked' = Head(deliverCh)
  /\ deliverCh' = <<>>
  /\ pc' = "acked"
  /\ UNCHANGED <<producerVars, startVars, queueVars, delivering,
                 known, scan, timerOn, tick, retryTimes, netVars, history>>

\* Mutant: the limit on retries is not looked at.
RetriesForever(reachable) ==
  /\ pc = "expired" /\ lock = "free"
  /\ timerOn' = (timerOn \/ queue # <<>>)
  /\ pc' = IF queue = <<>> THEN "select" ELSE "retry"
  /\ UNCHANGED <<producerVars, startVars, queueVars, ackVars,
                 known, scan, acked, tick, retryTimes, netVars, history>>

\* The timer ended.  After MAX_RETRY failures in a row only a recipient whose
\* network state is reachable is tried again.
Expired(reachable) ==
  /\ pc = "expired" /\ lock = "free"
  /\ \/ /\ queue = <<>>
        /\ pc' = "select"
        /\ UNCHANGED <<timerOn, retryTimes>>
     \/ /\ queue # <<>> /\ retryTimes < MAX_RETRY
        /\ timerOn' = TRUE
        /\ pc' = "retry"
        /\ UNCHANGED retryTimes
     \/ /\ queue # <<>> /\ retryTimes = MAX_RETRY
        /\ timerOn' = TRUE
        /\ pc' = IF reachable THEN "retry" ELSE "select"
        /\ retryTimes' = IF reachable THEN 0 ELSE retryTimes
  /\ UNCHANGED <<producerVars, startVars, queueVars, ackVars,
                 known, scan, acked, tick, netVars, history>>

\* Mutant: the message is not compared with the head of the queue.
PopsAnything ==
  /\ pc = "acked" /\ lock = "free"
  /\ acked' = 0
  /\ queue' = IF queue = <<>> THEN queue ELSE Tail(queue)
  /\ timerOn' = FALSE
  /\ retryTimes' = 0
  /\ pc' = "popped"
  /\ UNCHANGED <<producerVars, startVars, lock, dataCh, ackVars,
                 known, scan, tick, netVars, history>>

\* A Delivered for the head of the queue removes it.
Delivered ==
  /\ pc = "acked" /\ lock = "free"
  /\ acked' = 0
  /\ IF queue # <<>> /\ Peek = acked
     THEN /\ Pop
          /\ timerOn' = FALSE
          /\ retryTimes' = 0
          /\ pc' = "popped"
     ELSE /\ pc' = "select"
          /\ UNCHANGED <<queue, timerOn, retryTimes>>
  /\ UNCHANGED <<producerVars, startVars, lock, dataCh, ackVars,
                 known, scan, tick, netVars, history>>

\* Mutant: the timer stays stopped and the next message waits for a signal.
StopsTimer ==
  /\ pc = "popped" /\ lock = "free"
  /\ pc' = "select"
  /\ UNCHANGED <<producerVars, startVars, queueVars, ackVars,
                 known, scan, acked, timerOn, tick, retryTimes, netVars, history>>

\* The next message, if any, is sent at once.
SendNext ==
  /\ pc = "popped" /\ lock = "free"
  /\ \/ queue = <<>> /\ pc' = "select" /\ UNCHANGED timerOn
     \/ queue # <<>> /\ pc' = "peek" /\ timerOn' = TRUE
  /\ UNCHANGED <<producerVars, startVars, queueVars, ackVars,
                 known, scan, acked, tick, retryTimes, netVars, history>>

\* The network takes one more.
Room(messages) == Cardinality(messages) < MaxInFlight

\* The head of the queue is looked for in the record.  It was sent before when the
\* timer ended.
PeekAndSend ==
  /\ pc \in {"peek", "retry"} /\ lock = "free"
  /\ \/ queue = <<>> /\ pc' = "select" /\ UNCHANGED scan
     \/ /\ queue # <<>>
        /\ pc' = IF pc = "peek" THEN "scan" ELSE "rescan"
        /\ scan' = View(eventQueue)
  /\ UNCHANGED <<producerVars, startVars, queueVars, ackVars,
                 known, acked, timerOn, tick, retryTimes, netVars, history>>

\* The next element is another message.  One that is not found is not sent:
\* QueueSend then tells itself that it was delivered.
CheckIfNeedRemove ==
  /\ Scanning
  /\ \/ /\ Done(scan)
        /\ pc' = "remove"
        /\ UNCHANGED scan
     \/ /\ ~Done(scan) /\ Head(scan.unread) # Peek
        /\ scan' = Advance(scan)
        /\ UNCHANGED pc
  /\ UNCHANGED <<producerVars, startVars, queueVars, ackVars,
                 known, acked, timerOn, tick, retryTimes, netVars, history>>

\* The head of the queue is found in the record and sent, which may fail.
Send(ok) ==
  /\ Scanning /\ ~Done(scan) /\ Head(scan.unread) = Peek
  /\ known' = known \cup {Peek}
  /\ wire' = IF ok /\ Room(wire) THEN wire \cup {Peek} ELSE wire
  /\ retryTimes' = IF ~ok /\ pc = "rescan" THEN retryTimes + 1 ELSE retryTimes
  /\ pc' = "select" /\ scan' = View(<<>>)
  /\ UNCHANGED <<producerVars, startVars, queueVars, ackVars,
                 acked, timerOn, tick, acks, processed, arrived, applied, history>>

TakeAsDelivered ==
  /\ pc = "remove"
  /\ deliverCh = <<>>
  /\ deliverCh' = <<Peek>>
  /\ pc' = "select"
  /\ UNCHANGED <<producerVars, startVars, queueVars, delivering,
                 known, scan, acked, timerOn, tick, retryTimes, netVars, history>>

TimerEnds ==
  /\ timerOn
  /\ timerOn' = FALSE
  /\ tick' = TRUE
  /\ UNCHANGED <<producerVars, startVars, queueVars, ackVars,
                 known, pc, scan, acked, retryTimes, netVars, history>>

QueueSend ==
  \/ SelectData \/ SelectTimer \/ SelectDelivered
  \/ \E reachable \in BOOLEAN : Expired(reachable)
  \/ PeekAndSend \/ CheckIfNeedRemove \/ \E ok \in BOOLEAN : Send(ok)
  \/ Delivered \/ SendNext \/ TakeAsDelivered

-----------------------------------------------------------------------------
(* The network and the recipient.                                          *)

\* ReceiveMessage at the recipient.
ReceiveMessage(m) ==
  /\ m \in wire
  /\ wire' = wire \ {m}
  /\ arrived' = IF clean THEN arrived \cup {m} ELSE arrived
  /\ acks' = IF Room(acks \cup delivering) THEN acks \cup {m} ELSE acks
  /\ IF m = applied + 1
     THEN applied' = m /\ processed' = processed \cup {m}
     ELSE UNCHANGED <<applied, processed>>
  /\ UNCHANGED <<producerVars, startVars, queueVars, ackVars, sendVars, history>>

Lose(m) ==
  /\ \/ m \in wire /\ wire' = wire \ {m} /\ UNCHANGED acks
     \/ m \in acks /\ acks' = acks \ {m} /\ UNCHANGED wire
  /\ UNCHANGED <<producerVars, startVars, queueVars, ackVars, sendVars,
                 processed, arrived, applied, history>>

-----------------------------------------------------------------------------
(* Restarts.  The event queue is restored from the log; the transport      *)
(* starts empty.  Blocks are synchronised, and so messages produced, before*)
(* InitializeMessagesQueues runs.                                          *)

Restart ==
  /\ restarts < MaxRestarts /\ produced + restarts < MaxWork
  /\ restarts' = restarts + 1
  /\ started' = FALSE /\ initializing' = View(<<>>) /\ pushing' = 0
  /\ dispatching' = 0 /\ missed' = FALSE
  /\ queue' = <<>> /\ lock' = "free" /\ dataCh' = FALSE
  /\ deliverCh' = <<>> /\ delivering' = {}
  /\ known' = {} /\ pc' = "select" /\ scan' = View(<<>>) /\ acked' = 0
  /\ timerOn' = TRUE /\ tick' = FALSE /\ retryTimes' = 0
  /\ UNCHANGED <<produced, eventQueue, netVars, clean>>

\* The loop over the record begins ...
InitializeMessagesQueues ==
  /\ ~started
  /\ started' = TRUE
  /\ initializing' = View(eventQueue)
  /\ UNCHANGED <<producerVars, pushing, restarts, queueVars, ackVars, sendVars, netVars, history>>

\* ... reads an element when the one before it is pushed ...
ReadInitial ==
  /\ ~Done(initializing) /\ pushing = 0 /\ lock # "initializer"
  /\ pushing' = Head(initializing.unread)
  /\ initializing' = Advance(initializing)
  /\ UNCHANGED <<producerVars, started, restarts, queueVars, ackVars, sendVars, netVars, history>>

\* ... and pushes it.
SendInitial ==
  /\ pushing # 0
  /\ Push(pushing, "initializer")
  /\ pushing' = 0
  /\ UNCHANGED <<producerVars, started, initializing, restarts, ackVars, sendVars, netVars>>

-----------------------------------------------------------------------------
Next ==
  \/ updateQueues \/ SendAsync \/ Signal
  \/ \E m \in Messages : handleProcessed(m) \/ ReceiveDelivered(m) \/ PutDelivered(m)
  \/ QueueSend \/ TimerEnds
  \/ \E m \in Messages : ReceiveMessage(m) \/ Lose(m)
  \/ Restart \/ InitializeMessagesQueues \/ ReadInitial \/ SendInitial

Spec == Init /\ [][Next]_vars

\* Goroutines that can go on do, and Go's select does not pass over a channel
\* that is ready again and again.  The recipient is not cut off for ever: asked
\* for its network state infinitely often it is reachable once, of infinitely
\* many sends one succeeds, of infinitely many copies one arrives.
Fairness ==
  /\ WF_vars(SendAsync) /\ WF_vars(Signal) /\ WF_vars(TimerEnds)
  /\ WF_vars(InitializeMessagesQueues) /\ WF_vars(ReadInitial) /\ WF_vars(SendInitial)
  /\ WF_vars(QueueSend) /\ SF_vars(SelectDelivered)
  /\ SF_vars(Expired(TRUE)) /\ SF_vars(Send(TRUE))
  /\ SF_vars(\E m \in Messages : ReceiveMessage(m))
  /\ SF_vars(\E m \in Messages : ReceiveDelivered(m))
  /\ WF_vars(\E m \in Messages : PutDelivered(m))
FairSpec == Spec /\ Fairness

-----------------------------------------------------------------------------
(* Properties.                                                             *)

Views == [unread : Seq(Messages), read : Nat, shared : BOOLEAN]

\* Every variable holds values of its type; the retries stay below the limit.
TypeOK ==
  /\ produced \in 0 .. MaxMessages /\ dispatching \in 0 .. MaxMessages
  /\ pushing \in 0 .. MaxMessages
  /\ eventQueue \in Seq(Messages) /\ initializing \in Views /\ scan \in Views
  /\ queue \in Seq(Messages) /\ Len(queue) <= MaxMsgQueue
  /\ lock \in {"free", "dispatcher", "initializer"}
  /\ dataCh \in BOOLEAN /\ started \in BOOLEAN
  /\ deliverCh \in Seq(Messages) /\ Len(deliverCh) <= 1
  /\ pc \in {"select", "peek", "retry", "scan", "rescan", "expired", "acked",
             "popped", "remove"}
  /\ missed \in BOOLEAN /\ timerOn \in BOOLEAN /\ tick \in BOOLEAN
  /\ retryTimes \in 0 .. MAX_RETRY
  /\ acked \in 0 .. MaxMessages /\ applied \in 0 .. MaxMessages
  /\ restarts \in 0 .. MaxRestarts
  /\ \A s \in {delivering, known, wire, acks, processed, arrived} : s \subseteq Messages

\* The queue implements in-order delivery without gaps.
InOrder == INSTANCE Delivery WITH produced <- produced, arrived <- arrived
DeliversInOrder == InOrder!Spec

\* What the recipient has not applied yet is recorded in the chain state, so a
\* restart sends it again: no crash and no acknowledgement of a message that
\* arrived out of turn loses it.
NothingForgotten ==
  \A m \in (applied + 1) .. produced : m \in Range(eventQueue)

\* Two ways to wait for ever: QueueSend for itself, with a Delivered already in
\* DeliverChan when it adds its own; or QueueSend for the mutex of a pusher
\* that waits for QueueSend to take the previous signal from DataCh.
WaitsForItself == pc = "remove" /\ deliverCh # <<>>
WaitsForPusher ==
  lock # "free" /\ dataCh /\ pc \in {"peek", "retry", "expired", "acked", "popped"}
Stuck == WaitsForItself \/ WaitsForPusher

\* Unless the queue got stuck in one of these, or a message slipped through a loop
\* over the record since the last restart, every message is applied in the end.
\* No timer is left stopped, no signal lost.
AppliedOrStuck ==
  []<>(applied = produced \/ Stuck \/ missed)

\* The comment in QueueSend: "dont stop the timer, otherwise it will block
\* trying to resend message".  So nothing keeps it from sending a message
\* again until the recipient has it.
KeepsSending ==
  \A m \in Messages : (m <= produced) ~> (m <= applied)
=============================================================================
