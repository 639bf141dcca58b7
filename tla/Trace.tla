-------------------------------- MODULE Trace --------------------------------
(***************************************************************************)
(* The graph of where material went: internal/domain/trace/graph.go.  A    *)
(* chain grows by nodes and edges; Reachable sweeps over the edges, in the *)
(* order they were added, until a sweep finds nothing new.                 *)
(***************************************************************************)
EXTENDS Naturals, Sequences, SequencesExt

CONSTANTS
  Node,     \* the ids of nodes
  MaxEdges  \* bound: a chain has no more edges

VARIABLES
  nodes, \* the ids in Chain.Nodes
  edges  \* Chain.Edges

vars == <<nodes, edges>>

----------------------------------------------------------------------------
AddNode(n) ==
  /\ n \notin nodes
  /\ nodes' = nodes \cup {n}
  /\ UNCHANGED edges

\* An edge may be added twice, or lead back.
AddEdge(from, to) ==
  /\ Len(edges) < MaxEdges
  /\ from # to
  /\ {from, to} \subseteq nodes
  /\ edges' = Append(edges, <<from, to>>)
  /\ UNCHANGED nodes

\* One round of the loop over the edges.
Sweep(out, list) ==
  FoldLeft(LAMBDA seen, e : IF e[1] \in seen THEN seen \cup {e[2]} ELSE seen,
           out, list)

\* A mutant of Reachable: a single sweep.
ReachableOnce(list, start) == Sweep({start}, list)

\* What is reached after each number of sweeps.
Reached(list, start) ==
  LET after[n \in 0..Len(list)] ==
        IF n = 0 THEN {start} ELSE Sweep(after[n - 1], list)
  IN  after

\* The numbers of sweeps after which one more changes nothing.
Settled(list, start) ==
  LET after == Reached(list, start)
  IN  {n \in 0..Len(list) : Sweep(after[n], list) = after[n]}

\* The loop ends with the first sweep that changes nothing.
Reachable(list, start) ==
  LET last == CHOOSE n \in Settled(list, start) :
                \A m \in Settled(list, start) : n <= m
  IN  Reached(list, start)[last]

----------------------------------------------------------------------------
Init == nodes = {} /\ edges = <<>>

Next ==
  \/ \E n \in Node : AddNode(n)
  \/ \E from, to \in Node : AddEdge(from, to)

----------------------------------------------------------------------------
(* Properties *)

\* There is a path: from node to node along edges, in whatever order they were
\* added.
Path(list, from, to) ==
  \E n \in 0..Len(list) : \E path \in [0..n -> Node] :
    /\ path[0] = from /\ path[n] = to
    /\ \A i \in 1..n : <<path[i - 1], path[i]>> \in ToSet(list)

\* The loop ends, with no more sweeps that change something than there are edges,
\* cycles or not; and it has found exactly what a path leads to, edges that were
\* added before those they continue included.
ReachableMeansPath ==
  \A n \in nodes : /\ Settled(edges, n) # {}
                    /\ Reachable(edges, n) = {m \in nodes : Path(edges, n, m)}
============================================================================
