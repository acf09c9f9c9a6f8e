--------------------------- MODULE WriteAheadLog ---------------------------
(***************************************************************************)
(* The node's state across crashes: storage/wal.go and sqlite.go, the      *)
(* service's HandleStateChange, and its start (initDB).                    *)
(*                                                                         *)
(* HandleStateChange runs under dispatchEventsLock.  It writes the state   *)
(* change to the state database, applies it, writes the events it caused   *)
(* to the event database, handles them and, now and then, writes a         *)
(* snapshot.  The process may be killed between any two of these.  Its     *)
(* callers are the first start, the block callback (CallbackNewBlock) and  *)
(* users and peers.                                                        *)
(*                                                                         *)
(* The chain state is represented by the sequence of state changes applied *)
(* to reach it, each with the seed its message identifiers come from, so   *)
(* that two states are equal only if they were reached in the same way.    *)
(* A row of the log is the state change it holds.  A state change that     *)
(* makes the node sign something is of kind "message".                     *)
(*                                                                         *)
(* The handlers of events, StartService and the threads of users also      *)
(* change the chain state beside the log.  Only a snapshot keeps such a    *)
(* change.                                                                 *)
(***************************************************************************)
EXTENDS Naturals, Sequences, Functions, FiniteSetsExt

CONSTANTS
  SnapshotStateChangeCount,  \* state changes between two snapshots
  MaxHeight,    \* bound: blocks of the chain
  MaxMessages,  \* bound: state changes of users and peers
  MaxCrashes,   \* bound: crashes
  MaxBeside,    \* bound: epochs between snapshots in which a node
                \* changed its state beside the log
  MaxBroken     \* bound: rows and snapshots that can not be decoded

ASSUME WalAssumption ==
  /\ SnapshotStateChangeCount \in Nat \ {0}
  /\ MaxHeight \in Nat /\ MaxMessages \in Nat /\ MaxCrashes \in Nat
  /\ MaxBeside \in Nat /\ MaxBroken \in Nat

VARIABLES
  log,              \* table state_changes; the identifier is the position, and a
                    \* row holds data that can be read back (ok), or not
  snapshots,        \* table state_snapshot, in the order of its identifiers
  events,           \* table state_events: the identifiers of the state changes
  current,          \* StateManager.CurrentState, what the log knows of it
  beside,           \* and the changes made to it beside the log: each by how many
                    \* snapshots came before it
  stateChangeId,    \* WriteAheadLog.StateChangeId
  snapshotGroup,    \* ChannelService.snapshotGroup
  lastFilterBlock,  \* the last block the callback is done with
  phase,            \* "initDB" for a new node, then "sync", then "running"
  pc,               \* where HandleStateChange is, or "down"
  handled,          \* how many events of the next block the callback handled
  chain,            \* chain[b]: how many events block b has for the node
  sent,             \* the state changes whose messages were sent
  crashes,          \* how often the process was killed
  broken            \* how many rows and snapshots can not be decoded

tables == <<log, snapshots, events>>
memory == <<current, beside, stateChangeId, snapshotGroup, lastFilterBlock, handled, phase>>
bounds == <<crashes, broken>>
vars == <<tables, memory, pc, chain, sent, bounds>>

InitRows == <<[kind |-> "ActionInitChain"],
              [kind |-> "ContractReceiveNewPaymentNetwork"],
              [kind |-> "ContractReceiveNewTokenNetwork"]>>
BlockRow(b) == [kind |-> "Block", block |-> b]
EventRow(b, i) == [kind |-> "event", block |-> b, event |-> i]
MessageRow == [kind |-> "message"]

\* BlockHeight of a chain state: that of the last Block applied.
BlockHeight(s) == LET B == {i \in DOMAIN s : s[i].row.kind = "Block"}
                  IN IF B = {} THEN 0 ELSE s[Max(B)].row.block

Messages(s) == {e \in Range(s) : e.row = MessageRow}

Init ==
  /\ log = <<>> /\ snapshots = <<>> /\ events = {}
  /\ current = <<>> /\ beside = {} /\ stateChangeId = 0 /\ snapshotGroup = 0
  /\ lastFilterBlock = 0 /\ handled = 0
  /\ phase = "initDB" /\ pc = "down" /\ chain = <<>> /\ sent = {}
  /\ crashes = 0 /\ broken = 0

-----------------------------------------------------------------------------
(* Reading the tables.                                                     *)

\* The closest snapshot that is not later than row id.  One that can not be
\* decoded counts as none.
getSnapshotClosestToStateChange(id) ==
  LET S == {i \in DOMAIN snapshots : snapshots[i].id <= id}
      none == [id |-> 0, state |-> <<>>, beside |-> {}, ok |-> TRUE]
  IN IF S = {} THEN none ELSE IF snapshots[Max(S)].ok THEN snapshots[Max(S)] ELSE none

\* The rows that can be decoded: all of them, or those that are left.
Readable(ids) ==
  IF \A k \in DOMAIN ids : log[ids[k]].ok THEN ids
  ELSE SelectSeq(ids, LAMBDA i : log[i].ok)

\* Mutant: the last row is left out.
RowsBefore(from, to) == Readable([i \in 1 .. to - from |-> from + i - 1])

\* Rows after from up to the last one; rows that can not be decoded are skipped.
getStateChangesAfter(from) ==
  Readable([i \in 1 .. Len(log) - from |-> from + i])

\* Rows BETWEEN from AND to, both included.
getStateChangesById(from, to) ==
  Readable([i \in 1 .. to - from + 1 |-> from + i - 1])

\* Mutant: the seeds start from one again.
SeedsFromOne(from, ids) ==
  [i \in DOMAIN ids |-> [row |-> log[ids[i]].data, seed |-> i]]

\* The rows are applied one by one, with seeds that count them.
Replay(from, ids) ==
  [i \in DOMAIN ids |-> [row |-> log[ids[i]].data, seed |-> from + i]]

\* RestoreToStateChange for "latest".
RestoreToLatest ==
  LET snapshot == getSnapshotClosestToStateChange(Len(log))
  IN snapshot.state \o Replay(snapshot.id, getStateChangesAfter(snapshot.id))

\* The changes beside the log that come back with the snapshot.  No row of the log
\* makes one of them.
RestoredBeside == getSnapshotClosestToStateChange(Len(log)).beside

\* RestoreToStateChange for a row.  Without a snapshot the query starts at 0,
\* which is no row.
RestoreToStateChange(id) ==
  LET snapshot == getSnapshotClosestToStateChange(id)
      from == IF snapshot.id = 0 THEN 1 ELSE snapshot.id
  IN snapshot.state \o Replay(snapshot.id, getStateChangesById(from, id))

\* The row a balance proof of the partner is found in; 0 when there is none.
GetStateChangeWithBalanceProofByLocksroot(id) == IF log[id].ok THEN id ELSE 0

\* The row that made the node sign a balance proof, according to the events.
GetEventWithBalanceProofByLocksroot(id) == IF id \in events THEN id ELSE 0

\* The rows for which HandleContractSendChannelUnlock rebuilds the channel as it
\* was, to get at the locks of a balance proof.  It panics for 0.
Found ==
  ({GetStateChangeWithBalanceProofByLocksroot(id) : id \in DOMAIN log}
   \cup {GetEventWithBalanceProofByLocksroot(id) : id \in DOMAIN log}) \ {0}

\* CountStateChanges reads the sequence of the table, not the rows.
CountStateChanges == Len(log)

-----------------------------------------------------------------------------
(* HandleStateChange.                                                      *)

\* A change is made to the chain state without a state change.
ChangeBeside ==
  /\ Cardinality(beside) < MaxBeside
  /\ beside' = beside \cup {Len(snapshots)}

\* writeStateChange.  A state change that can not be encoded is written as NULL.
HandleStateChange(change) ==
  /\ pc = "idle"
  /\ \E ok \in IF broken < MaxBroken /\ change \notin Range(InitRows)
              THEN BOOLEAN ELSE {TRUE} :
       /\ log' = Append(log, [data |-> change, ok |-> ok])
       /\ broken' = IF ok THEN broken ELSE broken + 1
  /\ stateChangeId' = Len(log')
  /\ pc' = "logged"
  /\ UNCHANGED <<snapshots, events, current, beside, snapshotGroup, lastFilterBlock,
                 handled, phase, chain, sent, crashes>>

\* What is left to do for the state change that was logged.
Pending == log[stateChangeId].data

Dispatch ==
  /\ pc = "logged"
  /\ current' = Append(current, [row |-> Pending, seed |-> stateChangeId])
  /\ pc' = "dispatched"
  /\ UNCHANGED <<tables, beside, stateChangeId, snapshotGroup, lastFilterBlock, handled,
                 phase, chain, sent, bounds>>

writeEvents ==
  /\ pc = "dispatched"
  /\ events' = IF Pending = MessageRow THEN events \cup {stateChangeId} ELSE events
  /\ pc' = "recorded"
  /\ UNCHANGED <<log, snapshots, memory, chain, sent, bounds>>

\* OnChannelEvent: the message goes to the transport.  When a block ends a withdraw
\* that nobody answered, or a message refuses one, handleWithdrawFailure deletes it
\* from the channel.
OnChannelEvent ==
  /\ pc = "recorded"
  /\ sent' = IF Pending = MessageRow
             THEN sent \cup {[row |-> Pending, seed |-> stateChangeId]} ELSE sent
  /\ \/ UNCHANGED beside
     \/ Pending \notin Range(InitRows) /\ ChangeBeside
  /\ pc' = "handled"
  /\ UNCHANGED <<tables, current, stateChangeId, snapshotGroup, lastFilterBlock, handled,
                 phase, chain, bounds>>

\* Mutant: the snapshot is made of what the log knows.
RoutesNotKept(ok) ==
  [id |-> stateChangeId, state |-> current, beside |-> {}, ok |-> ok]

writeStateSnapshot(ok) ==
  [id |-> stateChangeId, state |-> current, beside |-> beside, ok |-> ok]

\* The end of HandleStateChange, with the callback's note of the block.
TakeSnapshot ==
  LET group == stateChangeId \div SnapshotStateChangeCount
  IN /\ pc = "handled"
     /\ \E ok \in IF broken < MaxBroken THEN BOOLEAN ELSE {TRUE} :
          IF group > snapshotGroup
          THEN /\ snapshots' = Append(snapshots, writeStateSnapshot(ok))
               /\ broken' = IF ok THEN broken ELSE broken + 1
          ELSE ok /\ UNCHANGED <<snapshots, broken>>
     /\ snapshotGroup' = IF group > snapshotGroup THEN group ELSE snapshotGroup
     /\ lastFilterBlock' = IF Pending.kind = "Block" THEN Pending.block
                           ELSE lastFilterBlock
     /\ handled' = CASE Pending.kind = "Block" -> 0
                     [] Pending.kind = "event" -> handled + 1
                     [] OTHER -> handled
     /\ phase' = IF Pending = InitRows[Len(InitRows)] THEN "sync" ELSE phase
     /\ pc' = "idle"
     /\ UNCHANGED <<log, events, current, beside, stateChangeId, chain, sent, crashes>>

-----------------------------------------------------------------------------
(* The callers.                                                            *)

\* Mutant: the block is handled before its events.
BlockFirst(b) == IF handled = 0 THEN BlockRow(b) ELSE EventRow(b, handled)

\* The events of a block come before the block itself.
NextOfBlock(b) ==
  IF handled < chain[b] THEN EventRow(b, handled + 1) ELSE BlockRow(b)

\* CallbackNewBlock, for the next block the node has not seen.
CallbackNewBlock ==
  LET b == lastFilterBlock + 1
  IN /\ phase \in {"sync", "running"} /\ b <= Len(chain)
     /\ HandleStateChange(NextOfBlock(b))

\* Mutant: the message goes out before its state change is written.
SendsFirst ==
  /\ phase = "running" /\ pc = "idle"
  /\ Cardinality(sent) < MaxMessages
  /\ sent' = sent \cup {[row |-> MessageRow, seed |-> Len(log) + 1]}
  /\ UNCHANGED <<tables, memory, pc, chain, bounds>>

\* A user or a peer makes the node sign something.
UserStateChange ==
  /\ phase = "running"
  /\ Cardinality({i \in DOMAIN log : log[i].data = MessageRow}) < MaxMessages
  /\ HandleStateChange(MessageRow)

\* OpenChannel and ChannelBatchClose add and remove routes, a payment stores the
\* weights of the edges: threads of users, at any time, also between the steps of
\* HandleStateChange.
UserChangesRoutes ==
  /\ phase = "running" /\ pc # "down"
  /\ ChangeBeside
  /\ UNCHANGED <<tables, current, stateChangeId, snapshotGroup, lastFilterBlock, handled,
                 phase, pc, chain, sent, bounds>>

\* What initDB does for a node without a state: three state changes.
InitializeNode ==
  /\ phase = "initDB"
  /\ HandleStateChange(InitRows[Len(current) + 1])

-----------------------------------------------------------------------------
(* Starting and being killed.                                              *)

Crash ==
  /\ pc # "down" /\ crashes < MaxCrashes
  /\ crashes' = crashes + 1
  /\ pc' = "down" /\ phase' = "initDB"
  /\ current' = <<>> /\ beside' = {} /\ stateChangeId' = 0 /\ snapshotGroup' = 0
  /\ lastFilterBlock' = 0 /\ handled' = 0
  /\ UNCHANGED <<tables, chain, sent, broken>>

\* initDB: the state is restored, and with it the block to go on from.
initDB ==
  /\ pc = "down"
  /\ current' = RestoreToLatest /\ beside' = RestoredBeside
  /\ stateChangeId' = 0
  /\ snapshotGroup' = CountStateChanges \div SnapshotStateChangeCount
  /\ lastFilterBlock' = BlockHeight(current')
  /\ phase' = IF current' = <<>> THEN "initDB" ELSE "sync"
  /\ pc' = "idle"
  /\ UNCHANGED <<tables, handled, chain, sent, bounds>>

\* StartService, after SyncBlockData handled some blocks: the channels that the
\* chain names are added to the routes (UpdateRouteMap), unless the chain does not
\* answer; and what the message queues of the state hold is sent again
\* (InitializeMessagesQueues).
StartService ==
  /\ pc = "idle" /\ phase = "sync"
  /\ phase' = "running"
  /\ \/ UNCHANGED beside
     \/ ChangeBeside
  /\ sent' = sent \cup Messages(current)
  /\ UNCHANGED <<tables, current, stateChangeId, snapshotGroup, lastFilterBlock,
                 handled, pc, chain, bounds>>

\* A block of the chain, with an event for the node or without.
Mine ==
  /\ Len(chain) < MaxHeight
  /\ \E n \in 0 .. 1 : chain' = Append(chain, n)
  /\ UNCHANGED <<tables, memory, pc, sent, bounds>>

Next ==
  \/ initDB \/ InitializeNode \/ StartService
  \/ CallbackNewBlock \/ UserStateChange \/ UserChangesRoutes
  \/ Dispatch \/ writeEvents \/ OnChannelEvent \/ TakeSnapshot
  \/ Crash \/ Mine

Spec == Init /\ [][Next]_vars

-----------------------------------------------------------------------------
(* Properties.                                                             *)

Intact == broken = 0

\* What a restart would bring back.  Of the logged changes: exactly those in memory,
\* message identifiers included, with the state change that is being handled.  A
\* snapshot plus the replay of the rows after it loses nothing and applies nothing
\* twice.  Of the changes beside the log: exactly those that the last snapshot saw,
\* so that no older one is lost and none comes back that memory does not have.
LoggedIsDurable ==
  RestoreToLatest = IF pc = "logged"
                    THEN Append(current, [row |-> Pending, seed |-> stateChangeId])
                    ELSE current
BesideUntilSnapshot ==
  RestoredBeside = {c \in beside : c < Len(snapshots)}
MemoryIsDurable ==
  Intact /\ pc # "down" => LoggedIsDurable /\ BesideUntilSnapshot

\* No event of a block is lost, although the process may be killed between an
\* event and its block; and an event is applied again only after a crash.
BlockEventsApplied ==
  Intact => \A b \in 1 .. BlockHeight(current), i \in 1 .. 1 :
    LET times == Cardinality({k \in DOMAIN current : current[k].row = EventRow(b, i)})
    IN IF i <= chain[b] THEN times \in 1 .. 1 + crashes ELSE times = 0

\* RestoreToStateChange gives the state a balance proof was made in: the rows
\* up to the given one are applied, one of them possibly twice (the row of the
\* snapshot, which BETWEEN includes).
RebuildsPast ==
  Intact => \A id \in Found :
    LET rebuilt == RestoreToStateChange(id)
        rows == [i \in DOMAIN rebuilt |-> rebuilt[i].row]
        Past(from, to) == [i \in 1 .. to - from + 1 |-> log[from + i - 1].data]
    IN \/ rows = Past(1, id)
       \/ \E k \in 1 .. id : rows = Past(1, k) \o Past(k, id)

\* The log, the snapshots and the replay together implement a durable state:
\* it only grows, and no message is sent for a state change that a crash can
\* take back.
Durable == INSTANCE DurableLog
  WITH state <- RestoreToLatest, sent <- sent, intact <- Intact
ImplementsDurable == Durable!Spec

\* A message that was sent is found among the events, where the unlock of a
\* settled channel looks for the balance proof it needs.
EventsRecorded ==
  \A e \in sent : GetEventWithBalanceProofByLocksroot(e.seed) # 0
=============================================================================
