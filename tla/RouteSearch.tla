----------------------------- MODULE RouteSearch -----------------------------
(***************************************************************************)
(* The search for the next hop of a payment (route/dfs.go, dijkstra.go and *)
(* service/route.go) as operators on a graph.  A graph has a weight for     *)
(* each of its directed edges and, per node, how many of its edges were    *)
(* counted.  The maps are walked in an arbitrary order, so a search        *)
(* returns the set of its possible results: a route is <<hop>>, and <<>>   *)
(* when there is none.  A path is written as the code does, target first.  *)
(***************************************************************************)
EXTENDS Naturals, Sequences, FiniteSetsExt, SequencesExt

CONSTANTS
  Node,             \* addresses
  Self,             \* the node that looks for a route
  DnsNodes,         \* nodes registered as DNS: only these mediate
  RouteStrategy,    \* what the configuration asks for: short, cheap or diverse
  FeePenalty, DiversityPenalty  \* RoutePenaltyConfig

ASSUME RouteAssumption ==
  /\ Self \in Node /\ DnsNodes \subseteq Node
  /\ RouteStrategy \in {"short", "cheap", "diverse"}
  /\ FeePenalty \in Nat /\ DiversityPenalty \in Nat

Edges(g) == DOMAIN g.weight
Vertices(g) == {n \in Node : g.nodes[n] > 0}

-----------------------------------------------------------------------------
(* Depth-first search: all paths, the shortest first.                      *)

\* Mutant: the edges of bad nodes stay.
BadEdgesStay(g, bad) ==
  [edges |-> Edges(g), nodes |-> [n \in Node |-> IF n \in bad THEN 0 ELSE g.nodes[n]]]

\* The nodes in bad and their edges are left out.
NewTopology(g, bad) ==
  [edges |-> {e \in Edges(g) : e[1] \notin bad /\ e[2] \notin bad},
   nodes |-> [n \in Node |-> IF n \in bad THEN 0 ELSE g.nodes[n]]]

\* The search starts at the target and ends at the node itself.
RECURSIVE searchPathDFSTarget(_, _, _, _)
searchPathDFSTarget(edges, from, to, path) ==
  LET p == Append(path, to)
  IN IF to = from THEN {p}
     ELSE UNION {searchPathDFSTarget(edges, from, n, p) :
                   n \in {x \in Node \ Range(p) : <<to, x>> \in edges}}

GetPairPath(t, from, to) ==
  IF Vertices(t) = {} \/ t.edges = {} THEN {}
  ELSE searchPathDFSTarget(t.edges, from, to, <<>>)

\* The next hop is the last but one.
NextHop(path) == path[Len(path) - 1]

\* What both searches ask of a next hop: it is the target or registered as DNS,
\* the transport reaches it, and the channel with it that is looked at is open and
\* can pay.  With several channels any may be looked at, also one that ended: of
\* the hops in may one can pay, of those in must all.
Accepted(hops, to) == hops \cap (DnsNodes \cup {to})

PathsTo(g, to, bad) == {p \in GetPairPath(NewTopology(g, bad), Self, to) : Len(p) >= 2}
Shortest(paths) == {q \in paths : \A r \in paths : Len(q) <= Len(r)}

\* Mutant: only the first of the paths is tried.
FirstPathOnly(g, to, bad, may, must) ==
  LET hops == {NextHop(p) : p \in Shortest(PathsTo(g, to, bad))}
  IN {<<q>> : q \in hops \cap Accepted(may, to)}
     \cup (IF hops \subseteq Accepted(must, to) /\ hops # {} THEN {} ELSE {<<>>})

\* Sorted by length; the first path whose next hop is accepted.
GetBestRoutesByDFS(g, to, bad, may, must) ==
  LET paths == PathsTo(g, to, bad)
      sure == {p \in paths : NextHop(p) \in Accepted(must, to)}
      tried == {p \in paths : \A r \in sure : Len(p) <= Len(r)}
  IN {<<q>> : q \in {NextHop(p) : p \in tried} \cap Accepted(may, to)}
     \cup (IF sure = {} THEN {<<>>} ELSE {})

-----------------------------------------------------------------------------
(* Dijkstra.                                                               *)

\* Only edges between nodes that are counted and not in bad.
NewDirectGraph(g, bad) ==
  [e \in {x \in Edges(g) : {x[1], x[2]} \subseteq Vertices(g) \ bad} |-> g.weight[e]]

\* The fee is that of the end of the edge.
CalculateEdgeWeightByPenalty(e, fee, visited) ==
  1 + fee[e[2]] * FeePenalty + visited * DiversityPenalty

\* Nothing calls this with a strategy that would use it.
CalculateEdgeWeightByFee(e, fee) == 1 + fee[e[2]]

\* The weight an edge has for a payment with these fees and bad nodes.
WeightFor(e, fee, bad) ==
  IF RouteStrategy = "diverse"
  THEN CalculateEdgeWeightByPenalty(e, fee, Cardinality(bad))
  ELSE CalculateEdgeWeightByFee(e, fee)

\* Mutant: a node that was reached keeps its first distance.
KeepsFirst(weight, from, s) ==
  LET d(n) == s.dist[from] + weight[<<n, from>>]
      better == {n \in Node : <<n, from>> \in DOMAIN weight /\ n \notin DOMAIN s.dist}
  IN [dist |-> [n \in DOMAIN s.dist \cup better |->
                  IF n \in better THEN d(n) ELSE s.dist[n]],
      path |-> [n \in DOMAIN s.path \cup better |->
                  IF n \in better THEN Append(s.path[from], n) ELSE s.path[n]],
      done |-> s.done]

\* The neighbours of a node are given the distance by way of it.
Relax(weight, from, s) ==
  LET d(n) == s.dist[from] + weight[<<n, from>>]
      better == {n \in Node \ s.done : /\ <<n, from>> \in DOMAIN weight
                                       /\ n \in DOMAIN s.dist => d(n) < s.dist[n]}
  IN [dist |-> [n \in DOMAIN s.dist \cup better |->
                  IF n \in better THEN d(n) ELSE s.dist[n]],
      path |-> [n \in DOMAIN s.path \cup better |->
                  IF n \in better THEN Append(s.path[from], n) ELSE s.path[n]],
      done |-> s.done]

\* The nearest node that is not done; the target if it is among them.
Nearest(s, to) ==
  LET open == DOMAIN s.dist \ s.done
      near == {n \in open : \A m \in open : s.dist[n] <= s.dist[m]}
  IN IF to \in near THEN {to} ELSE near

RECURSIVE searchPathDijkstra(_, _, _, _)
searchPathDijkstra(weight, from, to, s) ==
  IF from = to THEN {s.path[to]}
  ELSE LET r == Relax(weight, from, s)
       IN IF Nearest(r, to) = {}
          THEN {IF to \in DOMAIN r.path THEN r.path[to] ELSE <<>>}
          ELSE UNION {searchPathDijkstra(weight, n, to,
                        [r EXCEPT !.done = @ \cup {n}]) : n \in Nearest(r, to)}

GetPairShortestPath(weight, from, to) ==
  {Reverse(p) : p \in searchPathDijkstra(weight, from, to,
     [dist |-> [n \in {from} |-> 0], path |-> [n \in {from} |-> <<from>>],
      done |-> {from}])}

\* The graph with the weights of a payment; the strategy cheap leaves them alone.
Weighed(g, fee, bad) ==
  IF RouteStrategy = "diverse"
  THEN [g EXCEPT !.weight = [e \in Edges(g) |-> WeightFor(e, fee, bad)]] ELSE g

\* A next hop that is not accepted is shut out, and the edges weighed and searched
\* again.  With no other thread at the graph.
RECURSIVE GetBestRoutesByDijkstra(_, _, _, _, _, _)
GetBestRoutesByDijkstra(g, to, bad, fee, may, must) ==
  LET live == Weighed(g, fee, bad)
      Answer(path) ==
        IF Len(path) < 2 THEN {<<>>}
        ELSE LET hop == NextHop(path)
             IN {<<q>> : q \in {hop} \cap Accepted(may, to)}
                \cup (IF hop \in Accepted(must, to) THEN {}
                      ELSE GetBestRoutesByDijkstra(live, to, bad \cup {hop}, fee, may, must))
  IN UNION {Answer(p) : p \in GetPairShortestPath(NewDirectGraph(live, bad), Self, to)}
=============================================================================
