------------------------------- MODULE RoadMap -------------------------------
(***************************************************************************)
(* osm_parser.cc: from a map file to the graph that drones search.  A file *)
(* is the sequence of its nodes and the set of its highways, each the      *)
(* sequence of the nodes it passes; a highway may pass nodes that are not  *)
(* in the file.  Positions are the distances between nodes.                *)
(*                                                                         *)
(* ConnectedComponents is one step per call of dfs_visit.  The calls still *)
(* to come, of all its recursion levels, are a set and happen in any       *)
(* order: containers without an order decide it in the code.               *)
(***************************************************************************)
EXTENDS Integers, Sequences, FiniteSets

CONSTANTS Ids,      \* the nodes a map file may mention
          Files     \* bound: the map files

ASSUME IdsAssumption == IsFiniteSet(Ids)

\* argmax has no value for a file without nodes.
ASSUME FilesAssumption ==
    /\ Files \subseteq [nodes : Seq(Ids), ways : SUBSET Seq(Ids)]
    /\ \A f \in Files : f.nodes # <<>>

VARIABLES pc,           \* "read", "components", "filter", "thrown", or a place in Routing
          file,
          neighbours,   \* OSMNode::neighbours_ of the graph of the whole file
          record,       \* ConnectedComponents: the index of each node found, or -1
          index,
          calls,        \* of dfs_visit that are still to come
          kept          \* the nodes of the largest connected component

mapvars == <<file, neighbours, record, index, calls, kept>>

Nodes == {file.nodes[i] : i \in DOMAIN file.nodes}

MapInit ==
    /\ pc = "read"
    /\ file \in Files
    /\ neighbours = [n \in Ids |-> {}]
    /\ record = [n \in Ids |-> -1]
    /\ index = 0
    /\ calls = {}
    /\ kept = {}

-----------------------------------------------------------------------------
\* get_adjacency_list_from_file: nodes that follow each other on a highway.
Adjacent(a, b) ==
    \E w \in file.ways : \E i \in 1..(Len(w) - 1) : {w[i], w[i + 1]} = {a, b}

\* read_adjacencies_to.
Roads == [a \in Ids |-> {b \in Nodes : a \in Nodes /\ Adjacent(a, b)}]

\* AddNode throws when a node is twice in the file, and nobody catches.
Read ==
    /\ pc = "read"
    /\ \/ /\ Cardinality(Nodes) = Len(file.nodes)
          /\ pc' = "components"
          /\ neighbours' = Roads
       \/ /\ Cardinality(Nodes) # Len(file.nodes)
          /\ pc' = "thrown"
          /\ UNCHANGED neighbours
    /\ UNCHANGED <<file, record, index, calls, kept>>

Found == {n \in Nodes : record[n] # -1}

\* The next node that was not found begins a component.
StartComponent(n) ==
    /\ pc = "components"
    /\ calls = {}
    /\ n \in Nodes \ Found
    /\ calls' = {n}
    /\ UNCHANGED <<pc, file, neighbours, record, index, kept>>

\* dfs_visit; the last call of a component is followed by index += 1.
Visit(n) ==
    /\ pc = "components"
    /\ n \in calls
    /\ IF n \in Found
       THEN /\ calls' = calls \ {n}
            /\ UNCHANGED record
       ELSE /\ calls' = (calls \ {n}) \union neighbours[n]
            /\ record' = [record EXCEPT ![n] = index]
    /\ index' = IF calls' = {} THEN index + 1 ELSE index
    /\ UNCHANGED <<pc, file, neighbours, kept>>

ComponentsFound ==
    /\ pc = "components"
    /\ calls = {}
    /\ Found = Nodes
    /\ pc' = "filter"
    /\ UNCHANGED mapvars

InComponent(k) == {n \in Nodes : record[n] = k}

Size(k) == Cardinality(InComponent(k))

\* Mutant: any component is taken.
Largest_Any == 0..(index - 1)

\* argmax; which one, if several are the largest, the container decides.
Largest == {k \in 0..(index - 1) : \A j \in 0..(index - 1) : Size(j) <= Size(k)}

\* FilterToLargestConnectedComponent.
Filter ==
    /\ pc = "filter"
    /\ \E k \in Largest : kept' = InComponent(k)
    /\ pc' = "idle"
    /\ UNCHANGED <<file, neighbours, record, index, calls>>

Load ==
    \/ Read
    \/ \E n \in Ids : StartComponent(n) \/ Visit(n)
    \/ ComponentsFound
    \/ Filter

-----------------------------------------------------------------------------
\* Filter copies an edge if both its nodes are kept.
NextSteps(n) == neighbours[n] \intersect kept

\* A set of nodes that no road leaves.
Closed(S) == \A n \in S : neighbours[n] \subseteq S

\* A set of nodes in which every node can be reached from every other.
Connected(S) ==
    \A T \in SUBSET S :
       (/\ T # {}
        /\ \A n \in T : neighbours[n] \intersect S \subseteq T)
       => T = S

Loaded == pc \notin {"read", "components", "filter", "thrown"}

MapTypeOK ==
    /\ file \in Files
    /\ neighbours \in [Ids -> SUBSET Nodes]
    /\ record \in [Ids -> Nat \union {-1}]
    /\ index \in Nat
    /\ calls \in SUBSET Nodes
    /\ kept \in SUBSET Nodes

\* Every node of the graph can be reached from every other: a search between
\* any two of them has something to find.
MapIsConnected == Loaded => kept # {} /\ Connected(kept) /\ Closed(kept)

\* No connected part of the map is larger than the one that was kept.
MapIsLargest ==
    Loaded => \A S \in SUBSET Nodes : Connected(S) => Cardinality(S) <= Cardinality(kept)

\* FilterToLargestConnectedComponent keeps one connected part of the map, and a largest one.
MapIsRight == MapTypeOK /\ MapIsConnected /\ MapIsLargest
=============================================================================
