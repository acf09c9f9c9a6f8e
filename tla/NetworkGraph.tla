---------------------------- MODULE NetworkGraph ----------------------------
(***************************************************************************)
(* The channels a node knows of: the graph it searches for routes, and how *)
(* opening and closing channels and paying change it.                      *)
(*                                                                         *)
(* The contract opens, closes and settles channels and records an event    *)
(* for each.  The event thread of the node handles them in order: an event *)
(* of a channel of the node changes ChannelsMap and the graph, one of      *)
(* other nodes the graph only.  At its start the node adds what is open on *)
(* the chain.  A user's thread that opens or closes a channel changes the  *)
(* graph a second time, without a lock, after the event thread did, and a  *)
(* payment writes its weights into it: they take one step per access to    *)
(* the shared maps.                                                        *)
(***************************************************************************)
EXTENDS RouteSearch, Integers

CONSTANTS
  Pairs,        \* pairs of nodes that may have a channel
  Existing,     \* channels that are open when the node starts
  FeeSchedules, \* fees of the nodes, for an amount
  Payers,       \* threads that pay
  BadLists,     \* the bad nodes of a payment: none, or who sent and mediated it
  Targets,      \* bound: the targets of payments
  MaxEvents,    \* bound: events of the contract after those of Existing
  MaxCalls      \* bound: calls of OpenChannel and ChannelClose, and payments

ASSUME GraphAssumption ==
  /\ Pairs \subseteq {{a, b} : a, b \in Node} /\ \A p \in Pairs : Cardinality(p) = 2
  /\ Existing \in Seq(Pairs) /\ IsInjective(Existing)
  /\ FeeSchedules \subseteq [Node -> Nat]
  /\ BadLists \subseteq SUBSET (Node \ {Self}) /\ Targets \subseteq Node \ {Self}
  /\ MaxEvents \in Nat /\ MaxCalls \in Nat

VARIABLES
  contract,     \* the channels of the contract: pair and status, by identifier
  events,       \* what happened to them
  handled,      \* how many of the events the node has handled
  started,      \* StartService was called
  channelsMap,  \* ChannelsMap: the status of the node's channels
  networkGraph, \* NetworkGraph
  user,         \* the user's thread that opens and closes channels
  payer,        \* the threads that pay
  calls,        \* how many calls the users made
  history       \* where threads met at the graph

chainVars == <<contract, events>>
nodeVars == <<handled, started, channelsMap>>
vars == <<chainVars, nodeVars, networkGraph, user, payer, calls, history>>

Idle == [at |-> "idle"]
Partner(id) == CHOOSE p \in contract[id].pair : p # Self
Own(id) == Self \in contract[id].pair
Live(channels, pair) ==
  {id \in DOMAIN channels : channels[id].pair = pair /\ channels[id].status # "settled"}

\* The graph of the edges given.  The node itself is stored with a count of one
\* before there is any edge.
GraphOf(edges) ==
  [weight |-> [e \in edges |-> 1],
   nodes |-> [n \in Node |-> Cardinality({e \in edges : e[1] = n})
                             + (IF n = Self THEN 1 ELSE 0)]]

\* The node starts for the first time, and has caught up with the chain.  In the
\* history, raced: another thread changed what the user's thread was changing, or
\* a payment brought an edge back; mistaken: channels whose route went when another
\* one was closed; unnoticed: channels that ended while OpenChannel was waiting;
\* disturbed: payments among whose weights another thread wrote.
Init ==
  /\ contract = [i \in DOMAIN Existing |-> [pair |-> Existing[i], status |-> "opened"]]
  /\ events = [i \in DOMAIN Existing |-> [type |-> "chanOpened", id |-> i]]
  /\ handled = Len(Existing) /\ started = FALSE
  /\ channelsMap = [id \in {i \in DOMAIN Existing : Self \in Existing[i]} |-> "opened"]
  /\ networkGraph = GraphOf({e \in Node \X Node : {e[1], e[2]} \in Range(Existing)})
  /\ user = Idle /\ payer = [u \in Payers |-> Idle] /\ calls = 0
  /\ history = [raced |-> FALSE, mistaken |-> {}, unnoticed |-> {}, disturbed |-> {}]

-----------------------------------------------------------------------------
(* AddRoute and DelRoute.                                                  *)

\* A new edge weighs 1.
WithEdges(g, new) == [g EXCEPT !.weight = [e \in new \ Edges(g) |-> 1] @@ @]
WithoutEdges(g, old) == [g EXCEPT !.weight = [e \in Edges(g) \ old |-> @[e]]]

\* Both directions and their counts, unless the first is there.
AddRoute(g, a, b) ==
  IF <<a, b>> \in Edges(g) THEN g
  ELSE [WithEdges(g, {<<a, b>>, <<b, a>>}) EXCEPT
          !.nodes = [n \in Node |->
            IF n = a \/ (n = b /\ <<b, a>> \notin Edges(g)) THEN @[n] + 1 ELSE @[n]]]

\* A node that counts one edge, or none, is deleted.
Less(count) == IF count <= 1 THEN 0 ELSE count - 1

\* Mutant: the counts stay.
CountsStay(g, a, b) == WithoutEdges(g, {<<a, b>>, <<b, a>>})

\* What DelRoute takes away when the channel is in ChannelsMap.
WithoutRoute(g, a, b) ==
  [WithoutEdges(g, {<<a, b>>, <<b, a>>}) EXCEPT
     !.nodes = [n \in Node |->
       IF (n = a /\ <<a, b>> \in Edges(g)) \/ (n = b /\ <<b, a>> \in Edges(g))
       THEN Less(@[n]) ELSE @[n]]]

\* A channel of other nodes is not in ChannelsMap, and its edges stay.
DelRoute(id) ==
  IF id \in DOMAIN channelsMap THEN WithoutRoute(networkGraph, Self, Partner(id))
  ELSE networkGraph

\* The graph becomes g while a user's thread changes what differs, or what counts
\* the same nodes, ...
Raced(g) ==
  /\ user.at \in {"edge", "load", "store"}
  /\ \E e \in (Edges(g) \cup Edges(networkGraph)) \ (Edges(g) \cap Edges(networkGraph)) :
       {e[1], e[2]} \cap {Self, user.partner} # {}

\* ... or while payments weigh and search it, which know nothing of a new edge.
Disturbed(g) ==
  IF Edges(g) \subseteq Edges(networkGraph) THEN {}
  ELSE {u \in Payers : payer[u] # Idle}

Changed(g) == [history EXCEPT !.raced = @ \/ Raced(g), !.disturbed = @ \cup Disturbed(g)]

-----------------------------------------------------------------------------
(* The contract.                                                           *)

Happens(type, id) ==
  /\ Len(events) < Len(Existing) + MaxEvents
  /\ events' = Append(events, [type |-> type, id |-> id])

ContractOpen(pair) ==
  /\ Live(contract, pair) = {}
  /\ contract' = Append(contract, [pair |-> pair, status |-> "opened"])
  /\ Happens("chanOpened", Len(contract) + 1)

ContractEnd(id, from, to, type) ==
  /\ contract[id].status = from
  /\ contract' = [contract EXCEPT ![id].status = to]
  /\ Happens(type, id)

\* Channels open and end at the will of any node.
ContractStep ==
  /\ \/ \E pair \in Pairs : ContractOpen(pair)
     \/ \E id \in DOMAIN contract :
          \/ ContractEnd(id, "opened", "closed", "ChannelClose")
          \/ ContractEnd(id, "closed", "settled", "chanSettled")
          \/ ContractEnd(id, "opened", "settled", "chanCooperativeSettled")
  /\ UNCHANGED <<nodeVars, networkGraph, user, payer, calls, history>>

-----------------------------------------------------------------------------
(* The event thread.                                                       *)

\* A channel ends while OpenChannel waits for it, or is about to add its route.
EndsUnnoticed(event) ==
  /\ user.at \in {"submitted", "waiting"} \/ (user.at = "edge" /\ user.op = "add")
  /\ event.type # "chanOpened" /\ Own(event.id)

Next1 == events[handled + 1]

HandleChannelNew ==
  LET id == Next1.id
      pair == contract[id].pair
      a == IF Own(id) THEN Self ELSE CHOOSE n \in pair : TRUE
      b == CHOOSE n \in pair : n # a
  IN /\ Next1.type = "chanOpened"
     /\ networkGraph' = AddRoute(networkGraph, a, b)
     /\ channelsMap' = IF Own(id) /\ id \notin DOMAIN channelsMap
                       THEN channelsMap @@ (id :> "opened") ELSE channelsMap

\* Mutant: the route is left to the thread that asked to close the channel.
RouteStays ==
  /\ Next1.type = "ChannelClose"
  /\ UNCHANGED networkGraph
  /\ channelsMap' = [i \in DOMAIN channelsMap |->
                       IF i = Next1.id THEN "closed" ELSE channelsMap[i]]

\* handleClosed for a channel of the node, handleCloseRoute for others.
HandleChannelClose ==
  LET id == Next1.id
  IN /\ Next1.type = "ChannelClose"
     /\ networkGraph' = DelRoute(id)
     /\ channelsMap' = [i \in DOMAIN channelsMap |->
                          IF i = id THEN "closed" ELSE channelsMap[i]]

\* A settled channel goes at once, or stays until its locks are unlocked.
HandleChannelSettled ==
  LET id == Next1.id
  IN /\ Next1.type = "chanSettled"
     /\ \/ channelsMap' = [i \in DOMAIN channelsMap \ {id} |-> channelsMap[i]]
        \/ /\ id \in DOMAIN channelsMap
           /\ channelsMap' = [channelsMap EXCEPT ![id] = "settled"]
     /\ UNCHANGED networkGraph

HandleChannelCooperativeSettled ==
  LET id == Next1.id
  IN /\ Next1.type = "chanCooperativeSettled"
     /\ networkGraph' = IF id \in DOMAIN channelsMap THEN networkGraph ELSE DelRoute(id)
     /\ channelsMap' = [i \in DOMAIN channelsMap \ {id} |-> channelsMap[i]]

OnBlockchainEvent ==
  /\ handled < Len(events)
  /\ handled' = handled + 1
  /\ \/ HandleChannelNew \/ HandleChannelClose
     \/ HandleChannelSettled \/ HandleChannelCooperativeSettled
  /\ history' = [Changed(networkGraph') EXCEPT
                   !.unnoticed = @ \cup {id \in {Next1.id} : EndsUnnoticed(Next1)}]
  /\ UNCHANGED <<chainVars, started, user, payer, calls>>

\* handleBatchUnlock: the locks of a settled channel are unlocked.
HandleChannelBatchUnlock ==
  \E id \in DOMAIN channelsMap :
    /\ channelsMap[id] = "settled"
    /\ channelsMap' = [i \in DOMAIN channelsMap \ {id} |-> channelsMap[i]]
    /\ UNCHANGED <<chainVars, handled, started, networkGraph, user, payer, calls, history>>

\* What UpdateRouteMap makes of the graph: every channel that is open on the chain
\* is added, known or not.
WithOpenChannels ==
  LET open == {contract[id].pair : id \in {i \in DOMAIN contract :
                                             contract[i].status = "opened"}}
      new == {<<a, b>> \in Node \X Node : a # b /\ {a, b} \in open} \ Edges(networkGraph)
  IN [WithEdges(networkGraph, new) EXCEPT
        !.nodes = [n \in Node |-> @[n] + Cardinality({e \in new : e[1] = n})]]

\* The routes are brought up to date unless the chain does not answer, and users and
\* the event thread go to work.  Before, SyncBlockData handled events.
StartService ==
  /\ ~started /\ started' = TRUE
  /\ networkGraph' \in {networkGraph, WithOpenChannels}
  /\ UNCHANGED <<chainVars, handled, channelsMap, user, payer, calls, history>>

-----------------------------------------------------------------------------
(* The user's thread that opens and closes channels.                       *)

Called == started /\ calls < MaxCalls /\ calls' = calls + 1

\* It changes the two directions of a pair in turn.
Working(op, p, id) ==
  [at |-> "edge", op |-> op, partner |-> p, id |-> id, half |-> 1, count |-> 0]
End(u) == IF u.half = 1 THEN <<Self, u.partner>> ELSE <<u.partner, Self>>

\* OpenChannel: nothing is done if the contract has a channel.  The transaction
\* may be overtaken by one of the partner.
OpenChannel(p) ==
  /\ user = Idle /\ Called /\ {Self, p} \in Pairs
  /\ Live(contract, {Self, p}) = {}
  /\ user' = [at |-> "submitted", partner |-> p]
  /\ UNCHANGED <<chainVars, nodeVars, networkGraph, payer, history>>

\* NewNettingChannel: the transaction opens the channel or fails, for one because
\* there is a channel.  The thread goes on when the contract has one, whoever
\* opened it, and gives up when it learns nothing about its transaction.
NewNettingChannel ==
  LET pair == {Self, user.partner}
  IN /\ user.at = "submitted"
     /\ ContractOpen(pair) \/ UNCHANGED chainVars
     /\ \/ user' = Idle
        \/ Live(contract', pair) # {} /\ user' = [user EXCEPT !.at = "waiting"]
     /\ UNCHANGED <<nodeVars, networkGraph, payer, calls, history>>

ChannelsWith(p) == {id \in DOMAIN channelsMap : Partner(id) = p}

\* WaitForNewChannel finds a channel, in whatever status, or times out.
WaitForNewChannel ==
  /\ user.at = "waiting"
  /\ \/ \E id \in ChannelsWith(user.partner) : user' = Working("add", user.partner, id)
     \/ ChannelsWith(user.partner) = {} /\ user' = Idle
  /\ UNCHANGED <<chainVars, nodeVars, networkGraph, payer, calls, history>>

\* ChannelBatchClose takes one of the channels with the partner, in whatever status.
FilterChannelsByPartnerAddress(p) ==
  /\ user = Idle /\ Called
  /\ \E id \in ChannelsWith(p) : user' = [at |-> "picked", partner |-> p, id |-> id]
  /\ UNCHANGED <<chainVars, nodeVars, networkGraph, payer, history>>

\* Its state change deletes the route and closes the channel if it is open; then the
\* thread deletes the route again.
ChannelBatchClose ==
  /\ user.at = "picked"
  /\ channelsMap' = [i \in DOMAIN channelsMap |->
       IF i = user.id /\ channelsMap[i] = "opened" THEN "closing" ELSE channelsMap[i]]
  /\ networkGraph' = DelRoute(user.id)
  /\ user' = Working("del", user.partner, user.id)
  /\ history' = [history EXCEPT !.mistaken = @ \cup
       (IF user.id \in DOMAIN channelsMap THEN ChannelsWith(user.partner) \ {user.id}
        ELSE {})]
  /\ UNCHANGED <<chainVars, handled, started, payer, calls>>

\* One access to the maps: the edge is looked up and changed, ...
ChangeEdge ==
  LET e == End(user)
      there == e \in Edges(networkGraph)
      gone == user.half = 1 /\ user.id \notin DOMAIN channelsMap
  IN /\ user.at = "edge"
     /\ IF user.op = "add"
        THEN IF there THEN user' = Idle /\ UNCHANGED networkGraph
             ELSE /\ networkGraph' = WithEdges(networkGraph, {e})
                  /\ user' = [user EXCEPT !.at = "load"]
        ELSE IF gone THEN user' = Idle /\ UNCHANGED networkGraph
             ELSE /\ networkGraph' = WithoutEdges(networkGraph, {e})
                  /\ user' = IF there THEN [user EXCEPT !.at = "load"]
                             ELSE IF user.half = 1 THEN [user EXCEPT !.half = 2]
                             ELSE Idle
     /\ history' = [history EXCEPT !.disturbed = @ \cup Disturbed(networkGraph')]
     /\ UNCHANGED <<chainVars, nodeVars, payer, calls>>

\* ... the count of its node is read, ...
LoadCount ==
  /\ user.at = "load"
  /\ user' = [user EXCEPT !.at = "store", !.count = networkGraph.nodes[End(user)[1]]]
  /\ UNCHANGED <<chainVars, nodeVars, networkGraph, payer, calls, history>>

\* ... and written.
StoreCount ==
  /\ user.at = "store"
  /\ networkGraph' = [networkGraph EXCEPT !.nodes[End(user)[1]] =
       IF user.op = "add" THEN user.count + 1 ELSE Less(user.count)]
  /\ user' = IF user.half = 1 THEN [user EXCEPT !.at = "edge", !.half = 2] ELSE Idle
  /\ UNCHANGED <<chainVars, nodeVars, payer, calls, history>>

-----------------------------------------------------------------------------
(* The threads that pay.                                                   *)

\* A round of GetBestRoutesByDijkstra: the edges to be weighed, and the one whose
\* weight is calculated and not yet stored.  The strategy cheap weighs none.
Round(to, fee, bad) ==
  [at |-> "range", to |-> to, fee |-> fee, bad |-> bad, edge |-> <<>>,
   todo |-> IF RouteStrategy = "diverse" THEN Edges(networkGraph) ELSE {}]

GetBestRoutes(u) ==
  /\ payer[u] = Idle /\ Called
  /\ \E to \in Targets, fee \in FeeSchedules, bad \in BadLists :
       payer' = [payer EXCEPT ![u] = Round(to, fee, bad)]
  /\ UNCHANGED <<chainVars, nodeVars, networkGraph, user, history>>

\* Range visits the edges in any order, and none that was deleted meanwhile.
VisitEdge(u) ==
  /\ payer[u].at = "range"
  /\ \E e \in payer[u].todo :
       payer' = [payer EXCEPT ![u].todo = @ \ {e},
                   ![u].at = IF e \in Edges(networkGraph) THEN "store" ELSE @,
                   ![u].edge = IF e \in Edges(networkGraph) THEN e ELSE @]
  /\ UNCHANGED <<chainVars, nodeVars, networkGraph, user, calls, history>>

\* The weight is stored in the graph itself, also of an edge that was deleted.
StoreWeight(u) ==
  LET e == payer[u].edge
      w == WeightFor(e, payer[u].fee, payer[u].bad)
      others == {v \in Payers \ {u} :
                   payer[v] # Idle /\ w # WeightFor(e, payer[v].fee, payer[v].bad)}
  IN /\ payer[u].at = "store"
     /\ networkGraph' = [networkGraph EXCEPT !.weight = (e :> w) @@ @]
     /\ payer' = [payer EXCEPT ![u].at = "range", ![u].edge = <<>>]
     /\ history' = [history EXCEPT !.raced = @ \/ e \notin Edges(networkGraph),
                                   !.disturbed = @ \cup others]
     /\ UNCHANGED <<chainVars, nodeVars, user, calls>>

Ready(u) == payer[u].at = "range" /\ payer[u].todo = {}
PathsFor(u) ==
  GetPairShortestPath(NewDirectGraph(networkGraph, payer[u].bad), Self, payer[u].to)

\* All is weighed and the graph is searched.  The payment is done when there is no
\* path, or its next hop is accepted; or it starts again without that hop.
SearchPath(u) ==
  /\ Ready(u)
  /\ \E path \in PathsFor(u) :
       \/ payer' = [payer EXCEPT ![u] = Idle]
       \/ /\ Len(path) >= 2
          /\ payer' = [payer EXCEPT ![u] = Round(payer[u].to, payer[u].fee,
                                                 payer[u].bad \cup {NextHop(path)})]
  /\ history' = [history EXCEPT !.disturbed = @ \ {u}]
  /\ UNCHANGED <<chainVars, nodeVars, networkGraph, user, calls>>

Next ==
  \/ ContractStep
  \/ OnBlockchainEvent \/ HandleChannelBatchUnlock \/ StartService
  \/ \E p \in Node \ {Self} : OpenChannel(p) \/ FilterChannelsByPartnerAddress(p)
  \/ NewNettingChannel \/ WaitForNewChannel \/ ChannelBatchClose
  \/ ChangeEdge \/ LoadCount \/ StoreCount
  \/ \E u \in Payers :
       GetBestRoutes(u) \/ VisitEdge(u) \/ StoreWeight(u) \/ SearchPath(u)

Spec == Init /\ [][Next]_vars

-----------------------------------------------------------------------------
(* Properties.                                                             *)

\* A payment can ask for its next hop now.
Free == \E u \in Payers : payer[u] = Idle

Quiet == ~history.raced /\ user.at \notin {"edge", "load", "store"}

\* The graph is what its readers take it for: a channel can be walked in both
\* directions, and a node counts as many edges as it has, the node itself one more,
\* so that it is there as long as a channel of it is.  Holds unless two threads met
\* at the same node of the graph, which takes a count or one direction away.
GraphConsistent ==
  Quiet =>
    /\ \A e \in Edges(networkGraph) : <<e[2], e[1]>> \in Edges(networkGraph)
    /\ \A n \in Node : networkGraph.nodes[n]
                        = Cardinality({e \in Edges(networkGraph) : e[1] = n})
                          + (IF n = Self THEN 1 ELSE 0)

\* Once the node saw the last channel of a pair closed it is no part of a route,
\* although OpenChannel, StartService and the weights of payments add routes on their
\* own account; unless it was closed under the hands of the thread that opened it, or
\* its edge was just being weighed.
ClosedIsGone ==
  Quiet => \A id \in DOMAIN channelsMap \ history.unnoticed :
    channelsMap[id] = "closed" /\ (\A i \in DOMAIN contract :
                                     contract[i].pair = contract[id].pair => i <= id)
      => <<Self, Partner(id)>> \notin Edges(networkGraph)

\* The channels that are open as far as the node has handled the events, and whose
\* route did not go with another channel of the partner.
KnownOpen ==
  {id \in DOMAIN contract \ history.mistaken :
     /\ \E i \in 1 .. handled : events[i] = [type |-> "chanOpened", id |-> id]
     /\ \A i \in 1 .. handled : events[i].id = id => events[i].type = "chanOpened"
     /\ id \in DOMAIN channelsMap => channelsMap[id] = "opened"}

\* The partners with which a channel can pay, for which every channel looked at can,
\* given the channels that can.
MayPay(payable) == {Partner(id) : id \in payable}
MustPay(payable) == {p \in MayPay(payable) : ChannelsWith(p) \subseteq payable}
OwnOpen == {id \in DOMAIN channelsMap : channelsMap[id] = "opened"}

\* All ways from the node, without going through a node twice.
Walks == {w \in UNION {[1 .. k -> Node] : k \in 2 .. Cardinality(Node)} :
            w[1] = Self /\ \A i, j \in DOMAIN w : w[i] = w[j] => i = j}
WalksTo(to, edges) ==
  {w \in Walks : Last(w) = to /\ \A i \in 1 .. Len(w) - 1 : <<w[i], w[i + 1]>> \in edges}

KnownEdges == {e \in Node \X Node : \E id \in KnownOpen : contract[id].pair = {e[1], e[2]}}
Avoids(w, bad) == Range(w) \cap bad = {}

\* A payment for which there is a way over channels the node knows to be open finds
\* a next hop, if the first hop of the way can pay over any channel with it.
\* Dijkstra's search shuts out next hops that are not accepted altogether, so that
\* the way must not go through them.  Neither loops.
RouteFound ==
  Quiet /\ Free => \A to \in Targets, bad \in SUBSET (Node \ {Self}) :
    \A payable \in SUBSET OwnOpen :
      LET may == MayPay(payable)
          must == MustPay(payable)
          ways == {w \in WalksTo(to, KnownEdges) :
                     Avoids(w, bad) /\ w[2] \in Accepted(must, to)}
          shut == {n \in Node \ Accepted(must, to) : <<Self, n>> \in Edges(networkGraph)}
      IN /\ ways # {} => <<>> \notin GetBestRoutesByDFS(networkGraph, to, bad, may, must)
         /\ (\E w \in ways : Avoids(w, shut)) =>
              \A fee \in FeeSchedules :
                <<>> \notin GetBestRoutesByDijkstra(networkGraph, to, bad, fee, may, must)

\* A next hop that is found has a channel that can pay, is none of the bad ones, and
\* the target can be reached from it without coming back; also when the graph is in
\* any state between two steps of a user's thread, and has edges of closed channels.
RouteSound ==
  Free => \A to \in Targets, bad \in SUBSET (Node \ {Self}) :
    \A payable \in SUBSET OwnOpen, fee \in FeeSchedules :
      LET may == MayPay(payable)
          must == MustPay(payable)
      IN \A route \in GetBestRoutesByDFS(networkGraph, to, bad, may, must)
                     \cup GetBestRoutesByDijkstra(networkGraph, to, bad, fee, may, must) :
           route # <<>> =>
             /\ route[1] \in may /\ (route[1] = to \/ route[1] \in DnsNodes)
             /\ \E w \in Walks : /\ w[2] = route[1] /\ Last(w) = to /\ Avoids(w, bad)
                                 /\ \A i \in 1 .. Len(w) - 1 :
                                      <<w[i + 1], w[i]>> \in Edges(networkGraph)

\* The first choice of a payment that has weighed the edges costs no more, by the
\* weights its own fees and bad nodes give, than any other way to the target.
ChoosesCheapest(u) ==
  LET p == payer[u]
      known == DOMAIN NewDirectGraph(networkGraph, p.bad)
      Cost(path) ==
        FoldSet(LAMBDA i, sum : sum + WeightFor(<<path[i], path[i + 1]>>, p.fee, p.bad),
                0, 1 .. Len(path) - 1)
  IN \A path \in PathsFor(u), w \in WalksTo(p.to, {<<e[2], e[1]>> : e \in known}) :
       Len(path) > 1 /\ Cost(path) <= Cost(Reverse(w))

\* A payment takes a cheapest way although the graph still has the weights of earlier
\* payments and rounds, and channels are closed meanwhile; unless another thread adds
\* a route, or another payment stores a different weight, before it has searched.
Cheapest == \A u \in Payers \ history.disturbed : Ready(u) => ChoosesCheapest(u)
=============================================================================
