------------------------------ MODULE Matching ------------------------------
(***************************************************************************)
(* matching.cpp: the edges of a bipartite multigraph partitioned into      *)
(* maximum matchings, by maximum flows.  edges is a sequence of [l, r],    *)
(* left and right nodes counted from 1.  Flow graph: 0 is the source, then *)
(* the left nodes, the right nodes and the sink; an edge that is missing   *)
(* there has capacity and flow 0 here, like the dummy edges the code adds  *)
(* and erases.                                                             *)
(***************************************************************************)
EXTENDS Integers, Sequences

LOCAL INSTANCE SequencesExt
LOCAL INSTANCE FiniteSetsExt

LeftSize(edges) == Max({0} \cup {edges[e].l : e \in DOMAIN edges})
RightSize(edges) == Max({0} \cup {edges[e].r : e \in DOMAIN edges})
Sink(edges) == LeftSize(edges) + RightSize(edges) + 1
Nodes(edges) == 0 .. Sink(edges)

NoFlow(edges) == [n \in Nodes(edges) \X Nodes(edges) |-> 0]

\* An edge for each pair of neighbours, with the number of parallel edges as capacity.
BuildFlowGraph(edges) ==
  LET L == LeftSize(edges)
      Parallel(a, b) == Quantify(DOMAIN edges, LAMBDA e : edges[e].l = a /\ edges[e].r = b - L)
  IN [capacity |-> [n \in Nodes(edges) \X Nodes(edges) |->
        IF n[1] = 0 /\ n[2] \in 1 .. L THEN 1
        ELSE IF n[2] = Sink(edges) /\ n[1] \in L + 1 .. Sink(edges) - 1 THEN 1
        ELSE IF n[1] \in 1 .. L THEN Parallel(n[1], n[2]) ELSE 0],
      flow |-> NoFlow(edges)]

\* Mutant: the flow in the other direction is not taken back.
RoomForward(g, a, b) == g.capacity[a, b] - g.flow[a, b]

Room(g, a, b) == (g.capacity[a, b] - g.flow[a, b]) + g.flow[b, a]

\* The search breadth first, neighbours in the given order (that of a hash table):
\* path[n] is the node before n, or -1.
RECURSIVE Search(_, _, _, _, _)
Search(g, queue, path, order, sink) ==
  IF queue = <<>> \/ path[sink] >= 0 THEN path
  ELSE LET new == SelectSeq(order, LAMBDA n : path[n] = -1 /\ Room(g, Head(queue), n) > 0)
       IN Search(g, Tail(queue) \o new,
                 [n \in DOMAIN path |-> IF Contains(new, n) THEN Head(queue) ELSE path[n]],
                 order, sink)

RECURSIVE Steps(_, _)
Steps(path, n) == IF n = 0 THEN {} ELSE {<<path[n], n>>} \cup Steps(path, path[n])

AugmentingPath(g, order, sink) ==
  LET path == Search(g, <<0>>, [n \in 0 .. sink |-> IF n = 0 THEN 0 ELSE -1], order, sink)
  IN IF path[sink] >= 0 THEN Steps(path, sink) ELSE {}

\* "only reduce backward flow", or take all of it back and increase forward flow.
Pushed(flow, steps, more) ==
  [n \in DOMAIN flow |->
     IF n \in steps /\ flow[n[2], n[1]] < more THEN flow[n] + more - flow[n[2], n[1]]
     ELSE IF <<n[2], n[1]>> \in steps THEN IF flow[n] >= more THEN flow[n] - more ELSE 0
     ELSE flow[n]]

RECURSIVE MaximumFlow(_, _, _)
MaximumFlow(g, order, sink) ==
  LET steps == AugmentingPath(g, order, sink)
      more  == Min({Room(g, s[1], s[2]) : s \in steps})
  IN IF steps = {} THEN g
     ELSE MaximumFlow([g EXCEPT !.flow = Pushed(@, steps, more)], order, sink)

FlowValue(g) == MapThenSumSet(LAMBDA n : IF n[1] = 0 THEN g.flow[n] ELSE 0, DOMAIN g.flow)

\* As many of the uncolored edges between two nodes as there is flow, the first ones.
Colored(colors, edges, g, color) ==
  LET Uncolored(e) == {f \in DOMAIN edges : edges[f] = edges[e] /\ colors[f] = 0}
      FlowOf(e)    == g.flow[edges[e].l, LeftSize(edges) + edges[e].r]
  IN [e \in DOMAIN edges |->
        IF colors[e] = 0 /\ Quantify(Uncolored(e), LAMBDA f : f < e) < FlowOf(e)
          THEN color ELSE colors[e]]

\* The flow is removed and the capacity of the edges it used is reduced by it.
RECURSIVE ColorsFrom(_, _, _, _, _)
ColorsFrom(edges, g, colors, color, order) ==
  LET found == MaximumFlow(g, order, Sink(edges))
      Inner(n) == n[1] \in 1 .. LeftSize(edges) /\ n[2] > LeftSize(edges)
      rest  == [capacity |-> [n \in DOMAIN g.capacity |->
                                IF Inner(n) THEN g.capacity[n] - found.flow[n] ELSE g.capacity[n]],
                flow |-> NoFlow(edges)]
  IN IF FlowValue(found) = 0 THEN colors
     ELSE ColorsFrom(edges, rest, Colored(colors, edges, found, color), color + 1, order)

PartitionToMatchings(edges, order) ==
  ColorsFrom(edges, BuildFlowGraph(edges), [e \in DOMAIN edges |-> 0], 1, order)
=============================================================================
