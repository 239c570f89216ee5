-------------------------------- MODULE Lineage --------------------------------
(***************************************************************************)
(* The lineage graph (lineage/store.py): assets as nodes, and an edge for  *)
(* each flow of data.  Walks up and down to a depth, the impact of an      *)
(* asset and shortest paths, as the API (api/v1/lineage.py) and the tool   *)
(* of the agent (tools/lineage_tool.py) ask for them.                      *)
(*                                                                         *)
(* A store is either built by its caller, node by node and edge by edge,   *)
(* or it is the cached one of get_lineage_store, which holds the graph of  *)
(* graph_config.py and is only read.  The types of edges are left out, and *)
(* of the types of nodes it is kept whether they count as impacted.  What  *)
(* networkx computes is modelled by its documentation.                     *)
(***************************************************************************)
EXTENDS Naturals, Sequences, SequencesExt, FiniteSetsExt

CONSTANTS
  Names,       \* names that a caller gives to nodes
  IsAsset,     \* name -> whether it is a report, dashboard or business metric
  Unknown,     \* a name that is in no store
  MaxEdges,    \* bound on the edges that a caller adds
  Depths,      \* depths that are asked for explicitly
  MaxPaths,    \* _MAX_PATHS, 25 in the code
  AtlasNodes,  \* the graph of graph_config.py
  AtlasEdges,
  FocusNodes   \* where the agent starts its queries (ROOT_CAUSE_FOCUS_NODE)

ASSUME NamesAreTyped == DOMAIN IsAsset = Names \cup AtlasNodes
ASSUME BoundsAreNat == MaxEdges \in Nat /\ Depths \subseteq Nat /\ MaxPaths \in Nat \ {0}

\* build_atlas_lineage gets through without an error.
ASSUME AtlasIsClosed ==
  /\ AtlasEdges \subseteq AtlasNodes \X AtlasNodes
  /\ FocusNodes \subseteq AtlasNodes /\ IsFiniteSet(AtlasNodes)
  /\ Unknown \notin Names \cup AtlasNodes

VARIABLES
  cached,  \* whether it is the store of get_lineage_store
  nodes,   \* the nodes
  edges,   \* the edges, <<source, target>>
  reply    \* what a call has returned to its caller

vars == <<cached, nodes, edges, reply>>

None == [direction |-> "none"]
Error == [direction |-> "error"]

Directions == {"upstream", "downstream", "impact"}

\* Mutant: impact with the depth of the other walks.
ShallowDefaultDepth == [upstream |-> 6, downstream |-> 6, impact |-> 6]

\* max_depth where the caller gives none.
DefaultDepth == [upstream |-> 6, downstream |-> 6, impact |-> 10]

-------------------------------------------------------------------------------
(* Graph walks.                                                            *)

Reversed(E) == {<<e[2], e[1]>> : e \in E}

\* Nodes at most depth edges away (ego_graph).
Within(depth, root, E) ==
  LET wider(S) == S \cup {e[2] : e \in {f \in E : f[1] \in S}}
      ball[d \in Nat] == IF d = 0 THEN {root} ELSE wider(ball[d - 1])
  IN  ball[depth]

\* The edges between the nodes of a set.
Induced(S, E) == {e \in E : e[1] \in S /\ e[2] \in S}

\* The paths of at most cutoff edges that visit no node twice.
SimplePaths(root, E, cutoff) ==
  LET onward(p) == {e \in E : e[1] = Last(p) /\ ~Contains(p, e[2])}
      longer(P) == P \cup UNION {{Append(p, e[2]) : e \in onward(p)} : p \in P}
      paths[n \in Nat] == IF n = 0 THEN {<<root>>} ELSE longer(paths[n - 1])
  IN  paths[cutoff]

\* shortest_path returns one of them, if there is any.
ShortestPaths(source, target, E) ==
  LET n == Cardinality(nodes)
      joined == {p \in SimplePaths(source, E, n) : Last(p) = target}
  IN  {p \in joined : \A q \in joined : Len(p) <= Len(q)}

Steps(path) == {<<path[i], path[i + 1]>> : i \in 1 .. Len(path) - 1}

-------------------------------------------------------------------------------

\* Mutant: upstream is walked on the graph as it is.
SameWay(direction, E) == E

\* upstream walks the reversed graph.
Oriented(direction, E) == IF direction = "upstream" THEN Reversed(E) ELSE E

\* Mutant: paths stay as they were walked.
AsWalked(direction, path) == path

\* Paths are given in the direction of the data.
DataFlow(direction, path) ==
  IF direction = "upstream" THEN Reverse(path) ELSE path

\* Nodes of the walk other than its root that have nothing behind them in it.
Leaves(root, ball, E) == {n \in ball \ {root} : \A e \in Induced(ball, E) : e[1] # n}

\* Mutant: a path has to be shorter than the depth.
ShorterPathsToLeaves(root, depth, E) ==
  LET ball == Within(depth, root, E)
  IN  {p \in SimplePaths(root, Induced(ball, E), depth - 1) : Last(p) \in Leaves(root, ball, E)}

PathsToLeaves(root, depth, E) ==
  LET ball == Within(depth, root, E)
  IN  {p \in SimplePaths(root, Induced(ball, E), depth) : Last(p) \in Leaves(root, ball, E)}

\* _subgraph_result.  Of more than MaxPaths paths the first are taken, in an order of
\* leaves and of networkx.
Results(direction, root, depth) ==
  LET E == Oriented(direction, edges)
      ball == Within(depth, root, E)
      found == PathsToLeaves(root, depth, E)
      taken == IF Cardinality(found) <= MaxPaths THEN {found} ELSE kSubset(MaxPaths, found)
  IN  {[direction |-> direction, root |-> root, depth |-> depth,
        nodes |-> ball, edges |-> Oriented(direction, Induced(ball, E)),
        paths |-> {DataFlow(direction, p) : p \in T},
        affected |-> {n \in ball \ {root} : IsAsset[n]}] : T \in taken}

\* Mutant: every edge between nodes of the path.
EdgesBetween(path) == Induced(ToSet(path), edges)

EdgesAlong(path) == {e \in edges : e \in Steps(path)}

-------------------------------------------------------------------------------

Init ==
  /\ \/ cached = FALSE /\ nodes = {} /\ edges = {}
     \/ cached = TRUE /\ nodes = AtlasNodes /\ edges = AtlasEdges
  /\ reply = None

AddNode(n) ==
  /\ ~cached
  /\ nodes' = nodes \cup {n}
  /\ reply' = None
  /\ UNCHANGED <<cached, edges>>

\* Mutant: networkx adds the nodes of an edge that are not there.
AddEdgeUnchecked(source, target) ==
  /\ ~cached
  /\ Cardinality(edges) < MaxEdges
  /\ edges' = edges \cup {<<source, target>>}
  /\ reply' = None
  /\ UNCHANGED <<cached, nodes>>

\* An edge from or to a node that is not there is a ValueError.
AddEdge(source, target) ==
  /\ ~cached
  /\ Cardinality(edges) < MaxEdges
  /\ IF {source, target} \subseteq nodes
     THEN edges' = edges \cup {<<source, target>>} /\ reply' = None
     ELSE UNCHANGED edges /\ reply' = Error
  /\ UNCHANGED <<cached, nodes>>

\* upstream, downstream and impact; an unknown root is a KeyError of the store, a 404 of
\* the API, an error in the tool's result.
Walk(direction, root, depth) ==
  /\ IF root \in nodes THEN reply' \in Results(direction, root, depth) ELSE reply' = Error
  /\ UNCHANGED <<cached, nodes, edges>>

\* The route /lineage/path; without a path its result is empty.
Path(source, target) ==
  /\ IF {source, target} \subseteq nodes
     THEN LET shortest == ShortestPaths(source, target, edges)
              empty == [direction |-> "path", root |-> source, target |-> target,
                        nodes |-> {}, edges |-> {}, paths |-> {}]
          IN  IF shortest = {}
              THEN reply' = empty
              ELSE \E p \in shortest :
                     reply' = [empty EXCEPT !.nodes = ToSet(p), !.edges = EdgesAlong(p),
                                            !.paths = {p}]
     ELSE reply' = Error
  /\ UNCHANGED <<cached, nodes, edges>>

Asked == IF cached THEN AtlasNodes \cup {Unknown} ELSE Names

Call ==
  \/ \E n \in Names : AddNode(n)
  \/ \E source, target \in Names : AddEdge(source, target)
  \/ \E direction \in Directions, root \in Asked :
       \E depth \in Depths \cup {DefaultDepth[direction]} : Walk(direction, root, depth)
  \/ \E source, target \in Asked : Path(source, target)

\* The caller takes the reply before there is another call.
Return == reply' = None /\ UNCHANGED <<cached, nodes, edges>>

Next ==
  \/ reply = None /\ Call
  \/ reply # None /\ Return

Spec == Init /\ [][Next]_vars

-------------------------------------------------------------------------------
(* Properties.                                                             *)

IsWalk == reply.direction \in Directions

\* The graph has no edge without its nodes, and a reply is a part of the graph, whose
\* edges are given in the direction of the data.
TypeOK ==
  /\ cached \in BOOLEAN
  /\ nodes \subseteq IF cached THEN AtlasNodes ELSE Names
  /\ edges \subseteq nodes \X nodes
  /\ reply.direction \in Directions \cup {"none", "error", "path"}
  /\ reply.direction \notin {"none", "error"} =>
       /\ reply.nodes \subseteq nodes
       /\ reply.edges \subseteq edges
       /\ \A p \in reply.paths : ToSet(p) \subseteq reply.nodes /\ Steps(p) \subseteq reply.edges

\* Looking up and looking down agree: a walk from the root finds a node exactly if the
\* opposite walk from that node, to the same depth, finds the root.
WalksMirror ==
  IsWalk =>
    LET back == Oriented(IF reply.direction = "upstream" THEN "downstream" ELSE "upstream", edges)
    IN  \A n \in nodes : n \in reply.nodes <=> reply.root \in Within(reply.depth, n, back)

\* Each path of a walk is a way of the data, with no node twice and no more edges than
\* asked for, between the root and a node behind which the walk has found nothing.
PathsJoinRootAndBoundary ==
  IsWalk =>
    \A p \in reply.paths :
      LET up == reply.direction = "upstream"
          boundary == IF up THEN Head(p) ELSE Last(p)
      IN  /\ IsInjective(p) /\ Len(p) - 1 \in 1 .. reply.depth
          /\ reply.root = (IF up THEN Last(p) ELSE Head(p))
          /\ \A e \in reply.edges : boundary # (IF up THEN e[2] ELSE e[1])

\* Unless the paths are cut off at MaxPaths, every asset that a walk finds is joined to the
\* root by one of them, or is not at the boundary: data goes on from it within the walk.
BoundaryIsExplained ==
  IsWalk /\ Cardinality(reply.paths) < MaxPaths =>
    \A n \in reply.nodes \ {reply.root} :
      \/ \E p \in reply.paths : Contains(p, n)
      \/ \E e \in reply.edges : n = IF reply.direction = "upstream" THEN e[2] ELSE e[1]

\* The path between two assets and the walks agree: there is one of k edges or less
\* exactly if a walk of depth k finds the target; and the edges of the reply are those of
\* the path and no others.
PathAgreesWithWalks ==
  reply.direction = "path" =>
    /\ \A k \in 0 .. Cardinality(nodes) :
         reply.target \in Within(k, reply.root, edges) <=>
           \E p \in reply.paths : Len(p) - 1 <= k
    /\ \A p \in reply.paths : Cardinality(reply.edges) = Len(p) - 1

\* On the graph of the enterprise the defaults are deep enough: impact misses no business
\* output of any node, nor does the agent, who finds some for each root cause.
DefaultDepthsSuffice ==
  cached /\ IsWalk =>
    LET direction == reply.direction
        all == Within(Cardinality(nodes), reply.root, edges) \ {reply.root}
    IN  \/ direction = "upstream" \/ reply.depth # DefaultDepth[direction]
        \/ direction = "downstream" /\ reply.root \notin FocusNodes
        \/ /\ reply.affected = {n \in all : IsAsset[n]}
           /\ reply.root \in FocusNodes => reply.affected # {}
===============================================================================
