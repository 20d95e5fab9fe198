---------------------------- MODULE RoutingProofs ----------------------------
(***************************************************************************)
(* Proofs about RoadMap and Routing: the graph that is searched is         *)
(* connected and the largest part of the map, what a search returns is a   *)
(* route, it returns one, and no better one leads there.                   *)
(***************************************************************************)
EXTENDS Routing, FiniteSetTheorems, SequenceTheorems, TLAPS

(***************************************************************************)
(* The map.                                                                *)
(***************************************************************************)

Symmetric == \A a, b \in Ids : b \in neighbours[a] => a \in neighbours[b]

\* Component k, with what is still to be visited of it.
Part(k) == InComponent(k) \union (IF k = index THEN calls ELSE {})

PartsAreClosed ==
    /\ \A n \in Nodes : record[n] <= index
    /\ \A n \in Found : neighbours[n] \subseteq Part(record[n])
    /\ \A n \in calls : record[n] \in {-1, index}
    /\ \A k \in 0..(index - 1) : InComponent(k) # {}
    /\ calls = {} => InComponent(index) = {}

PartsAreConnected ==
    \A k \in 0..index : \A S \in SUBSET Nodes :
       Closed(S) /\ Part(k) \intersect S # {} => Part(k) \subseteq S

PhasesMatch ==
    /\ pc = "read" => Found = {} /\ calls = {}
    /\ pc = "filter" => Found = Nodes /\ calls = {}

MapInv ==
    /\ MapTypeOK
    /\ Symmetric
    /\ PartsAreClosed
    /\ PartsAreConnected
    /\ PhasesMatch
    /\ MapIsConnected
    /\ MapIsLargest

\* The nodes of a file are finitely many ids.
LEMMA NodesAreIds ==
    ASSUME MapTypeOK
    PROVE  Nodes \subseteq Ids /\ IsFiniteSet(Nodes)
<1>1. file.nodes \in Seq(Ids)
  BY FilesAssumption DEF MapTypeOK
<1>2. Nodes \subseteq Ids
  BY <1>1 DEF Nodes
<1> QED
  BY <1>2, IdsAssumption, FS_Subset

LEMMA MapInvInit == MapInit => MapInv
<1> SUFFICES ASSUME MapInit PROVE MapInv
  OBVIOUS
<1> USE DEF MapInit
<1>1. MapTypeOK
  BY DEF MapTypeOK
<1>2. Nodes \subseteq Ids
  BY <1>1, NodesAreIds
<1>3. Symmetric
  BY DEF Symmetric
<1>4. Found = {}
  BY <1>2 DEF Found
<1>5. \A k \in Nat : InComponent(k) = {}
  BY <1>2 DEF InComponent
<1>6. PartsAreClosed
  BY <1>2, <1>4, <1>5 DEF PartsAreClosed
<1>7. PartsAreConnected
  BY <1>5 DEF PartsAreConnected, Part
<1>8. PhasesMatch
  BY <1>4 DEF PhasesMatch
<1> QED
  BY <1>1, <1>3, <1>6, <1>7, <1>8 DEF MapInv, MapIsConnected, MapIsLargest, Loaded

LEMMA ReadKeeps == MapInv /\ Read => MapInv'
<1> SUFFICES ASSUME MapInv, Read PROVE MapInv'
  OBVIOUS
<1> USE DEF MapInv, Read
<1>1. Nodes' = Nodes /\ Nodes \subseteq Ids
  BY NodesAreIds DEF Nodes
<1>2. neighbours' \in [Ids -> SUBSET Nodes]
  BY <1>1 DEF Roads, MapTypeOK
<1>3. MapTypeOK'
  BY <1>1, <1>2 DEF MapTypeOK
<1>4. Symmetric'
  <2>1. CASE neighbours' = Roads
    BY <1>1, <2>1 DEF Symmetric, Roads, Adjacent
  <2>2. CASE UNCHANGED neighbours
    BY <2>2 DEF Symmetric
  <2> QED
    BY <2>1, <2>2
<1>5. Found' = {} /\ Found = {} /\ calls' = {}
  BY <1>1 DEF PhasesMatch, Found
<1>6. \A k : InComponent(k)' = InComponent(k)
  BY <1>1 DEF InComponent
<1>7. PartsAreClosed'
  BY <1>1, <1>5, <1>6 DEF PartsAreClosed
<1>8. PartsAreConnected'
  <2>1. \A k \in 0..index : InComponent(k) = {}
    BY <1>5 DEF InComponent, Found
  <2> QED
    BY <2>1, <1>5, <1>6 DEF PartsAreConnected, Part
<1>9. PhasesMatch'
  BY <1>5 DEF PhasesMatch
<1> QED
  BY <1>3, <1>4, <1>7, <1>8, <1>9 DEF MapIsConnected, MapIsLargest, Loaded

LEMMA StartKeeps ==
    ASSUME MapInv, NEW n \in Ids, StartComponent(n)
    PROVE  MapInv'
<1> USE DEF MapInv, StartComponent
<1>1. Nodes' = Nodes /\ Nodes \subseteq Ids
  BY NodesAreIds DEF Nodes
<1>2. MapTypeOK'
  BY <1>1 DEF MapTypeOK
<1>3. Symmetric'
  BY DEF Symmetric
<1>4. Found' = Found
  BY <1>1 DEF Found
<1>5. \A k : InComponent(k)' = InComponent(k)
  BY <1>1 DEF InComponent
<1>6. record[n] = -1
  BY DEF Found
<1>7. \A m \in Found : record[m] # index
  BY DEF PartsAreClosed, InComponent, Found
<1>8. PartsAreClosed'
  <2>1. \A m \in Found : Part(record[m])' = Part(record[m])
    BY <1>5, <1>7 DEF Part
  <2> QED
    BY <1>1, <1>4, <1>5, <1>6, <2>1 DEF PartsAreClosed
<1>9. PartsAreConnected'
  <2> SUFFICES ASSUME NEW k \in 0..index, NEW S \in SUBSET Nodes,
                      Closed(S)', Part(k)' \intersect S # {}
               PROVE  Part(k)' \subseteq S
    BY <1>1 DEF PartsAreConnected
  <2>1. Closed(S)
    BY DEF Closed
  <2>2. CASE k = index
    BY <2>2, <1>5 DEF Part, PartsAreClosed
  <2>3. CASE k # index
    BY <2>1, <2>3, <1>5 DEF Part, PartsAreConnected
  <2> QED
    BY <2>2, <2>3
<1>10. PhasesMatch'
  BY DEF PhasesMatch
<1> QED
  BY <1>2, <1>3, <1>8, <1>9, <1>10 DEF MapIsConnected, MapIsLargest, Loaded

\* A call of dfs_visit for a node that was not found: neighbours of it that are
\* in a finished component would have led to it from there.
LEMMA VisitNewKeeps ==
    ASSUME MapInv, NEW n \in calls, Visit(n), n \notin Found
    PROVE  MapInv'
<1> USE DEF MapInv, Visit
<1>1. Nodes' = Nodes /\ Nodes \subseteq Ids /\ n \in Nodes
  BY NodesAreIds DEF Nodes, MapTypeOK
<1>2. /\ record \in [Ids -> Nat \union {-1}]
      /\ index \in Nat
      /\ neighbours \in [Ids -> SUBSET Nodes]
      /\ calls \in SUBSET Nodes
  BY DEF MapTypeOK
<1> PICK i \in Nat : i = index
  BY <1>2
<1>3. /\ record' = [record EXCEPT ![n] = index]
      /\ calls' = (calls \ {n}) \union neighbours[n]
      /\ UNCHANGED <<pc, file, neighbours, kept>>
  OBVIOUS
<1>4. record[n] = -1
  BY <1>1, <1>2 DEF Found
<1>5. index' \in {index, index + 1} /\ (index' = index <=> calls' # {})
  BY <1>2
<1>6. Found' = Found \union {n}
  BY <1>1, <1>2, <1>3 DEF Found
<1>7. \A k \in Nat : InComponent(k)' = IF k = index THEN InComponent(k) \union {n}
                                       ELSE InComponent(k)
  BY <1>1, <1>2, <1>3, <1>4 DEF InComponent
<1>8. \A m \in neighbours[n] : record[m] \in {-1, index}
  <2> SUFFICES ASSUME NEW m \in neighbours[n], m \in Found, record[m] # index
               PROVE  FALSE
    BY <1>1, <1>2 DEF Found
  <2>1. n \in neighbours[m]
    BY <1>1, <1>2 DEF Symmetric
  <2>2. n \in Part(record[m])
    BY <2>1 DEF PartsAreClosed
  <2>3. n \in InComponent(record[m])
    BY <2>2 DEF Part
  <2> QED
    BY <2>3, <1>4 DEF InComponent, Found
<1>9. MapTypeOK'
  BY <1>1, <1>2, <1>3, <1>5 DEF MapTypeOK
<1>10. Symmetric'
  BY <1>3 DEF Symmetric
<1> HIDE DEF Visit
<1>11. \A k \in Nat : k # index => InComponent(k)' = InComponent(k)
  BY <1>7
<1>12. InComponent(i)' = InComponent(i) \union {n}
  BY <1>2, <1>7
\* The component of n and its calls, whether it is finished by this call or not.
<1>13. Part(i)' = Part(i) \union neighbours[n]
  <2>1. CASE calls' # {}
    BY <2>1, <1>5, <1>3, <1>12 DEF Part
  <2>2. CASE calls' = {}
    BY <2>2, <1>2, <1>5, <1>3, <1>12 DEF Part
  <2> QED
    BY <2>1, <2>2
<1>14. \A k \in 0..(index - 1) : Part(k)' = Part(k)
  BY <1>2, <1>5, <1>11 DEF Part
<1>15. PartsAreClosed'
  <2>1. \A m \in Nodes' : record'[m] <= index'
    BY <1>1, <1>2, <1>3, <1>5 DEF PartsAreClosed
  <2>2. \A m \in Found' : neighbours'[m] \subseteq Part(record[m])'
    <3> SUFFICES ASSUME NEW m \in Found'
                 PROVE  neighbours[m] \subseteq Part(record[m])'
      BY <1>3
    <3> PICK k : k = record'[m]
      OBVIOUS
    <3> SUFFICES neighbours[m] \subseteq Part(k)'
      OBVIOUS
    <3>1. CASE m = n
      BY <3>1, <1>1, <1>2, <1>3, <1>13
    <3>2. CASE m \in Found /\ m # n
      <4>1. m \in Nodes /\ record[m] = k /\ k \in Nat /\ k <= index
        BY <3>2, <1>1, <1>2, <1>3 DEF Found, PartsAreClosed
      <4>2. neighbours[m] \subseteq Part(k)
        BY <3>2, <4>1 DEF PartsAreClosed
      <4>3. Part(k) \subseteq Part(k)'
        BY <4>1, <1>2, <1>13, <1>14
      <4> QED
        BY <4>2, <4>3
    <3> QED
      BY <3>1, <3>2, <1>6
  <2>3. \A m \in calls' : record'[m] \in {-1, index'}
    BY <1>1, <1>2, <1>3, <1>5, <1>8 DEF PartsAreClosed
  <2>4. \A k \in 0..(index' - 1) : InComponent(k)' # {}
    <3> SUFFICES ASSUME NEW k \in 0..(index' - 1) PROVE InComponent(k)' # {}
      OBVIOUS
    <3>1. k \in 0..(index - 1) \/ k = i
      <4>1. CASE index' = index
        BY <4>1, <1>2
      <4>2. CASE index' = index + 1
        BY <4>2, <1>2
      <4> QED
        BY <4>1, <4>2, <1>5
    <3> QED
      BY <3>1, <1>2, <1>11, <1>12 DEF PartsAreClosed
  <2>5. calls' = {} => InComponent(index)' = {}
    <3> SUFFICES ASSUME calls' = {} PROVE InComponent(i + 1)' = {}
      BY <1>2, <1>5
    <3>1. InComponent(i + 1) = {}
      BY <1>2, <1>1 DEF InComponent, PartsAreClosed
    <3> QED
      BY <3>1, <1>2, <1>11
  <2> QED
    BY <2>1, <2>2, <2>3, <2>4, <2>5 DEF PartsAreClosed
<1>16. PartsAreConnected'
  <2> SUFFICES ASSUME NEW k \in 0..index', NEW S \in SUBSET Nodes,
                      Closed(S)', Part(k)' \intersect S # {}
               PROVE  Part(k)' \subseteq S
    BY <1>1 DEF PartsAreConnected
  <2>1. Closed(S)
    BY <1>3 DEF Closed
  <2>2. CASE k = index
    <3>1. PICK m \in S : m \in Part(index) \union neighbours[n]
      BY <2>2, <1>13
    <3>2. m \in neighbours[n] => n \in S
      BY <3>1, <1>1, <1>2, <2>1 DEF Closed, Symmetric
    <3>3. n \in Part(index)
      BY DEF Part
    <3>4. Part(index) \subseteq S
      BY <3>1, <3>2, <3>3, <2>1, <1>2 DEF PartsAreConnected
    <3>5. neighbours[n] \subseteq S
      BY <3>3, <3>4, <2>1 DEF Closed
    <3> QED
      BY <2>2, <3>4, <3>5, <1>13
  <2>3. CASE k < index
    BY <2>1, <2>3, <1>2, <1>14 DEF PartsAreConnected
  <2>4. CASE k > index
    <3>1. k = index' /\ calls' = {}
      BY <2>4, <1>2, <1>5
    <3>2. Part(k)' = {}
      BY <3>1, <1>15 DEF PartsAreClosed, Part
    <3> QED
      BY <3>2
  <2> QED
    BY <2>2, <2>3, <2>4, <1>2, <1>5
<1>17. PhasesMatch'
  BY <1>3 DEF PhasesMatch, Visit
<1> QED
  BY <1>9, <1>10, <1>15, <1>16, <1>17 DEF MapIsConnected, MapIsLargest, Loaded, Visit

\* A call for a node that was found already changes nothing but the calls to come.
LEMMA VisitOldKeeps ==
    ASSUME MapInv, NEW n \in calls, Visit(n), n \in Found
    PROVE  MapInv'
<1> USE DEF MapInv, Visit
<1>1. Nodes' = Nodes /\ Nodes \subseteq Ids /\ n \in Nodes
  BY NodesAreIds DEF Nodes, MapTypeOK
<1>2. /\ record \in [Ids -> Nat \union {-1}]
      /\ index \in Nat
      /\ calls \in SUBSET Nodes
  BY DEF MapTypeOK
<1> PICK i \in Nat : i = index
  BY <1>2
<1>3. calls' = calls \ {n} /\ UNCHANGED <<pc, file, neighbours, record, kept>>
  OBVIOUS
<1>4. index' \in {index, index + 1} /\ (index' = index <=> calls' # {})
  BY <1>2
<1>5. record[n] = index
  BY <1>1, <1>2 DEF Found, PartsAreClosed
<1>6. Found' = Found
  BY <1>1, <1>3 DEF Found
<1>7. \A k : InComponent(k)' = InComponent(k)
  BY <1>1, <1>3 DEF InComponent
<1>8. n \in InComponent(index)
  BY <1>1, <1>5 DEF InComponent
<1> HIDE DEF Visit
<1>9. \A k \in 0..index : Part(k)' = Part(k)
  BY <1>2, <1>3, <1>4, <1>7, <1>8 DEF Part
<1>10. PartsAreClosed'
  <2>1. \A m \in Found : record[m] \in 0..index
    BY <1>1, <1>2 DEF Found, PartsAreClosed
  <2>2. InComponent(index + 1) = {}
    BY <1>1, <1>2 DEF InComponent, PartsAreClosed
  <2>3. \A m \in Found' : neighbours'[m] \subseteq Part(record[m])'
    <3> SUFFICES ASSUME NEW m \in Found
                 PROVE  neighbours[m] \subseteq Part(record[m])'
      BY <1>3, <1>6
    <3> PICK k : k = record[m]
      OBVIOUS
    <3>1. neighbours[m] \subseteq Part(k)'
      BY <2>1, <1>9 DEF PartsAreClosed
    <3> QED
      BY <3>1, <1>3
  <2>4. \A k \in 0..(index' - 1) : InComponent(k)' # {}
    <3>1. \A k \in 0..index : InComponent(k) # {}
      BY <1>2, <1>8 DEF PartsAreClosed
    <3> SUFFICES ASSUME NEW k \in 0..(index' - 1) PROVE InComponent(k)' # {}
      OBVIOUS
    <3>2. k \in 0..index
      <4>1. CASE index' = index
        BY <4>1, <1>2
      <4>2. CASE index' = index + 1
        BY <4>2, <1>2
      <4> QED
        BY <4>1, <4>2, <1>4
    <3> QED
      BY <3>1, <3>2, <1>7
  <2>5. calls' = {} => InComponent(index)' = {}
    <3> SUFFICES ASSUME calls' = {} PROVE InComponent(i + 1)' = {}
      BY <1>2, <1>4
    <3> QED
      BY <2>2, <1>7
  <2>6. \A m \in Nodes' : record'[m] <= index'
    BY <1>1, <1>2, <1>3, <1>4 DEF PartsAreClosed
  <2>7. \A m \in calls' : record'[m] \in {-1, index'}
    BY <1>3, <1>4 DEF PartsAreClosed
  <2> QED
    BY <2>3, <2>4, <2>5, <2>6, <2>7 DEF PartsAreClosed
<1>11. PartsAreConnected'
  <2> SUFFICES ASSUME NEW k \in 0..index', NEW S \in SUBSET Nodes,
                      Closed(S)', Part(k)' \intersect S # {}
               PROVE  Part(k)' \subseteq S
    BY <1>1 DEF PartsAreConnected
  <2>1. Closed(S)
    BY <1>3 DEF Closed
  <2>2. CASE k \in 0..index
    BY <2>1, <2>2, <1>9 DEF PartsAreConnected
  <2>3. CASE k > index
    <3>1. k = index' /\ calls' = {}
      BY <2>3, <1>2, <1>4
    <3>2. Part(k)' = {}
      BY <3>1, <1>10 DEF PartsAreClosed, Part
    <3> QED
      BY <3>2
  <2> QED
    BY <2>2, <2>3, <1>2, <1>4
<1>12. MapTypeOK'
  BY <1>1, <1>2, <1>3, <1>4 DEF MapTypeOK
<1>13. Symmetric'
  BY <1>3 DEF Symmetric
<1>14. PhasesMatch'
  BY <1>3 DEF PhasesMatch, Visit
<1> QED
  BY <1>10, <1>11, <1>12, <1>13, <1>14 DEF MapIsConnected, MapIsLargest, Loaded, Visit

LEMMA ComponentsFoundKeeps == MapInv /\ ComponentsFound => MapInv'
<1> SUFFICES ASSUME MapInv, ComponentsFound PROVE MapInv'
  OBVIOUS
<1> USE DEF MapInv, ComponentsFound, mapvars
<1>1. MapTypeOK' /\ Symmetric'
  BY DEF MapTypeOK, Symmetric, Nodes
<1>2. PartsAreClosed'
  BY DEF PartsAreClosed, Nodes, Found, Part, InComponent
<1>3. PartsAreConnected'
  BY DEF PartsAreConnected, Closed, Nodes, Part, InComponent
<1>4. PhasesMatch'
  BY DEF PhasesMatch, Found, Nodes
<1> QED
  BY <1>1, <1>2, <1>3, <1>4 DEF MapIsConnected, MapIsLargest, Loaded

\* A finished component has no road to another one, and no part of it that has
\* none either; so any connected part of the map is inside one component.
LEMMA FilterKeeps == MapInv /\ Filter => MapInv'
<1> SUFFICES ASSUME MapInv, Filter PROVE MapInv'
  OBVIOUS
<1> USE DEF MapInv
<1>1. PICK k \in Largest : kept' = InComponent(k)
  BY DEF Filter
<1>2. UNCHANGED <<file, neighbours, record, index, calls>> /\ pc' = "idle"
  BY DEF Filter
<1>3. Nodes' = Nodes /\ Nodes \subseteq Ids /\ IsFiniteSet(Nodes)
  BY <1>2, NodesAreIds DEF Nodes
<1>4. Found = Nodes /\ calls = {}
  BY DEF PhasesMatch, Filter
<1>5. /\ record \in [Ids -> Nat \union {-1}]
      /\ index \in Nat
      /\ neighbours \in [Ids -> SUBSET Nodes]
  BY DEF MapTypeOK
<1>6. k \in 0..(index - 1) /\ \A j \in 0..(index - 1) : Size(j) <= Size(k)
  BY <1>1 DEF Largest
<1>7. \A n \in Nodes : record[n] \in 0..(index - 1)
  BY <1>3, <1>4, <1>5 DEF Found, PartsAreClosed, InComponent
<1>8. \A j \in 0..(index - 1) : \A n \in InComponent(j) : neighbours[n] \subseteq InComponent(j)
  BY <1>4, <1>5 DEF InComponent, PartsAreClosed, Part
<1>9. MapTypeOK' /\ Symmetric'
  BY <1>1, <1>2, <1>3 DEF MapTypeOK, Symmetric, InComponent
<1>10. PartsAreClosed'
  BY <1>2, <1>3 DEF PartsAreClosed, Found, Part, InComponent
<1>11. PartsAreConnected'
  BY <1>2, <1>3 DEF PartsAreConnected, Closed, Part, InComponent
<1>12. PhasesMatch'
  BY <1>2 DEF PhasesMatch
<1>13. MapIsConnected'
  <2>1. kept' # {} /\ kept' \subseteq Nodes
    BY <1>1, <1>6 DEF PartsAreClosed, InComponent
  <2>2. Closed(kept)'
    BY <1>1, <1>2, <1>6, <1>8 DEF Closed
  <2>3. Connected(kept)'
    <3> SUFFICES ASSUME NEW T \in SUBSET kept', T # {},
                        \A n \in T : neighbours[n] \intersect kept' \subseteq T
                 PROVE  T = kept'
      BY <1>2 DEF Connected
    <3>1. Closed(T)
      BY <2>2, <1>2 DEF Closed
    <3>2. T \in SUBSET Nodes /\ Part(k) = kept'
      BY <2>1, <1>1, <1>4 DEF Part
    <3>3. kept' \subseteq T
      BY <3>1, <3>2, <1>6, <1>5 DEF PartsAreConnected
    <3> QED
      BY <3>3
  <2> QED
    BY <2>1, <2>2, <2>3 DEF MapIsConnected
<1>14. MapIsLargest'
  <2> SUFFICES ASSUME NEW S \in SUBSET Nodes, Connected(S)
               PROVE  Cardinality(S) <= Cardinality(kept')
    BY <1>2, <1>3 DEF MapIsLargest, Connected
  <2>1. PICK j \in 0..(index - 1) : S \subseteq InComponent(j)
    <3>1. CASE S = {}
      BY <3>1, <1>6
    <3>2. CASE S # {}
      <4>1. PICK n \in S : TRUE
        BY <3>2
      <4>2. record[n] \in 0..(index - 1)
        BY <1>7
      <4> DEFINE T == S \intersect InComponent(record[n])
      <4>3. n \in T /\ T \in SUBSET S
        BY <4>1 DEF InComponent
      <4>4. \A m \in T : neighbours[m] \intersect S \subseteq T
        BY <4>2, <1>8
      <4>5. T = S
        BY <4>3, <4>4 DEF Connected
      <4> QED
        BY <4>2, <4>5
    <3> QED
      BY <3>1, <3>2
  <2>2. InComponent(j) \subseteq Nodes /\ InComponent(k) \subseteq Nodes
    BY DEF InComponent
  <2>3. IsFiniteSet(InComponent(j))
    BY <2>2, <1>3, FS_Subset
  <2>4. Cardinality(S) <= Size(j)
    BY <2>1, <2>3, FS_Subset DEF Size
  <2>5. Cardinality(S) \in Nat /\ Size(j) \in Nat /\ Size(k) \in Nat
    BY <2>2, <1>3, FS_Subset, FS_CardinalityType DEF Size
  <2> QED
    BY <2>4, <2>5, <1>1, <1>6 DEF Size
<1> QED
  BY <1>9, <1>10, <1>11, <1>12, <1>13, <1>14

\* A step of a search leaves the map alone.
LEMMA SearchKeepsMap ==
    ASSUME MapInv, UNCHANGED mapvars, Loaded, Loaded'
    PROVE  MapInv'
<1> USE DEF MapInv, mapvars
<1>1. MapTypeOK' /\ Symmetric'
  BY DEF MapTypeOK, Symmetric, Nodes
<1>2. PartsAreClosed'
  BY DEF PartsAreClosed, Nodes, Found, Part, InComponent
<1>3. PartsAreConnected'
  <2>1. Nodes' = Nodes
    BY DEF Nodes
  <2>2. \A k : Part(k)' = Part(k)
    BY <2>1 DEF Part, InComponent
  <2>3. \A S : Closed(S)' <=> Closed(S)
    BY DEF Closed
  <2> QED
    BY <2>1, <2>2, <2>3 DEF PartsAreConnected
<1>4. PhasesMatch'
  BY DEF PhasesMatch, Loaded
<1>5. MapIsConnected'
  BY DEF MapIsConnected, Loaded, Connected, Closed
<1>6. MapIsLargest'
  BY DEF MapIsLargest, Loaded, Connected, Nodes
<1> QED
  BY <1>1, <1>2, <1>3, <1>4, <1>5, <1>6

(***************************************************************************)
(* The searches.                                                           *)
(***************************************************************************)

Routes == {p \in Paths : IsRoute(p)}

Unstarted ==
    ~Loaded => from = "none" /\ to = "none" /\ visited = {} /\ rest = {} /\ answer = <<>>

\* AStar: the roads out of the visited nodes lead to visited nodes, or to the
\* ends of candidates.
Reached(n) == n \in visited \/ \E c \in heap : PathEnd(c.path) = n

HeapInv ==
    pc = "heap" =>
       /\ from \in kept /\ to \in kept
       /\ \A c \in heap : c.path \in Routes
       /\ to \notin visited
       /\ Reached(from)
       /\ \A v \in visited : \A n \in NextSteps(v) : Reached(n)

\* DepthFirstSearch: a visited node still waits at the end of a path, or its
\* neighbours, but for the rest in hand, are visited and none is the goal.
Waits(v) == \E i \in 1..Len(queue) : PathEnd(queue[i]) = v

Looked(v, R) == to \notin NextSteps(v) \ R /\ NextSteps(v) \ R \subseteq visited

QueueInv ==
    pc \in {"queue", "neighbours"} =>
       /\ strategy = "dfs"
       /\ from \in kept /\ to \in kept
       /\ from \in visited
       /\ queue \in Seq(Routes)
       /\ pc = "neighbours" => candidate \in Routes /\ rest \subseteq NextSteps(PathEnd(candidate))
       /\ \A v \in visited :
             \/ Waits(v)
             \/ Looked(v, {})
             \/ pc = "neighbours" /\ v = PathEnd(candidate) /\ Looked(v, rest)

SearchInv ==
    /\ TypeOK
    /\ Unstarted
    /\ HeapInv
    /\ QueueInv
    /\ AnswerIsRoute
    /\ PathIsFound

\* A route leads to a node of the graph.
LEMMA RouteEnd ==
    ASSUME from \in kept, NEW p \in Routes
    PROVE  p \in Paths /\ Len(p) \in Nat \ {0} /\ PathEnd(p) \in kept
<1>1. p \in Seq(Ids) /\ Len(p) \in Nat /\ Len(p) # 0 /\ p[1] = from
  BY DEF Routes, IsRoute, Paths
<1>2. CASE Len(p) = 1
  BY <1>1, <1>2 DEF PathEnd, Paths
<1>3. CASE Len(p) > 1
  <2>1. p[(Len(p) - 1) + 1] \in NextSteps(p[Len(p) - 1])
    BY <1>1, <1>3 DEF Routes, IsRoute
  <2> QED
    BY <2>1, <1>1 DEF PathEnd, NextSteps, Paths
<1>4. Len(p) = 1 \/ Len(p) > 1
  <2>1. \A k \in Nat : k # 0 => k = 1 \/ k > 1
    OBVIOUS
  <2>2. Len(p) \in Nat /\ Len(p) # 0
    BY <1>1
  <2> QED
    BY <2>1, <2>2
<1> QED
  BY <1>1, <1>2, <1>3, <1>4 DEF Paths

\* A route and a next step are a route.
LEMMA RouteExtended ==
    ASSUME NEW p \in Routes, NEW n \in Ids, n \in NextSteps(PathEnd(p))
    PROVE  Append(p, n) \in Routes /\ PathEnd(Append(p, n)) = n
<1> DEFINE q == Append(p, n)
<1>1. p \in Seq(Ids) /\ Len(p) \in Nat /\ Len(p) # 0 /\ p[1] = from
  BY DEF Routes, IsRoute, Paths
<1>2. /\ q \in Seq(Ids) /\ q # <<>>
      /\ Len(q) = Len(p) + 1
      /\ q[Len(q)] = n
      /\ \A i \in 1..Len(p) : q[i] = p[i]
  BY <1>1
<1>3. \A i \in 1..(Len(q) - 1) : q[i + 1] \in NextSteps(q[i])
  <2> SUFFICES ASSUME NEW i \in 1..Len(p) PROVE q[i + 1] \in NextSteps(q[i])
    BY <1>1, <1>2
  <2>1. CASE i = Len(p)
    BY <2>1, <1>1, <1>2 DEF PathEnd
  <2>2. CASE i < Len(p)
    <3>1. p[i + 1] \in NextSteps(p[i])
      BY <2>2, <1>1 DEF Routes, IsRoute
    <3> QED
      BY <2>2, <3>1, <1>1, <1>2
  <2> QED
    BY <2>1, <2>2, <1>1
<1>4. q[1] = from
  BY <1>1, <1>2
<1> QED
  BY <1>2, <1>3, <1>4 DEF Routes, IsRoute, PathEnd, Paths

\* What is a route depends on the map and on where the search begins.
LEMMA RoutesUnchanged ==
    ASSUME UNCHANGED <<from, neighbours, kept>>
    PROVE  Routes' = Routes /\ \A n : NextSteps(n)' = NextSteps(n)
BY DEF Routes, IsRoute, NextSteps, Paths

LEMMA SearchInvInit == Init => SearchInv
BY DEF Init, MapInit, SearchInv, TypeOK, MapTypeOK, Unstarted, HeapInv, QueueInv,
       AnswerIsRoute, PathIsFound, Paths, Nodes

LEMMA LoadKeepsMap == MapInv /\ Load => MapInv'
BY ReadKeeps, StartKeeps, VisitNewKeeps, VisitOldKeeps, ComponentsFoundKeeps, FilterKeeps
   DEF Load, Visit

LEMMA LoadKeeps == MapInv /\ SearchInv /\ Load /\ UNCHANGED searchvars => SearchInv'
<1> SUFFICES ASSUME MapInv, SearchInv, Load, UNCHANGED searchvars PROVE SearchInv'
  OBVIOUS
<1>1. pc \in {"read", "components", "filter"}
      /\ pc' \in {"components", "thrown", "filter", "idle"}
  BY DEF Load, Read, StartComponent, Visit, ComponentsFound, Filter
<1>2. from = "none" /\ to = "none" /\ visited = {} /\ rest = {} /\ answer = <<>>
  BY <1>1 DEF SearchInv, Unstarted, Loaded
<1>3. TypeOK'
  <2>1. MapTypeOK'
    BY LoadKeepsMap DEF MapInv
  <2> QED
    BY <2>1, <1>1, <1>2 DEF SearchInv, TypeOK, searchvars, Paths
<1>4. Unstarted' /\ HeapInv' /\ QueueInv' /\ AnswerIsRoute' /\ PathIsFound'
  BY <1>1, <1>2 DEF Unstarted, HeapInv, QueueInv, AnswerIsRoute, PathIsFound, searchvars
<1> QED
  BY <1>3, <1>4 DEF SearchInv

LEMMA GetPathKeeps ==
    ASSUME MapInv, SearchInv, NEW s \in Strategies, NEW a \in kept, NEW b \in kept,
           GetPath(s, a, b)
    PROVE  MapInv' /\ SearchInv'
<1> USE DEF GetPath, mapvars
<1>1. /\ pc = "idle"
      /\ from' = a /\ to' = b /\ answer' = <<>> /\ strategy' = s
      /\ UNCHANGED <<file, neighbours, record, index, calls, kept, candidate, rest>>
  OBVIOUS
<1>2. \/ /\ s = "dfs" /\ pc' = "queue" /\ queue' = <<<<a>>>>
         /\ visited' = {a} /\ UNCHANGED heap
      \/ /\ s # "dfs" /\ pc' = "heap" /\ heap' = {[path |-> <<a>>, distance |-> 0]}
         /\ visited' = {} /\ UNCHANGED queue
  OBVIOUS
<1> HIDE DEF GetPath
<1>3. MapInv'
  BY <1>1, <1>2, SearchKeepsMap DEF Loaded
<1>4. kept \subseteq Ids /\ a \in Ids
  BY NodesAreIds DEF MapInv, MapTypeOK
<1>5. <<a>> \in Paths /\ PathEnd(<<a>>) = a
  BY <1>4 DEF Paths, PathEnd
<1>6. <<a>> \in Routes'
  BY <1>1, <1>5 DEF Routes, IsRoute, Paths
<1>7. TypeOK'
  <2>1. /\ heap' \in SUBSET [path : Paths, distance : Nat]
        /\ queue' \in Seq(Paths)
        /\ visited' \in SUBSET kept
    <3>1. heap \in SUBSET [path : Paths, distance : Nat] /\ queue \in Seq(Paths)
      BY DEF SearchInv, TypeOK
    <3>2. [path |-> <<a>>, distance |-> 0] \in [path : Paths, distance : Nat]
      BY <1>5
    <3>3. <<<<a>>>> \in Seq(Paths)
      BY <1>5
    <3> QED
      BY <3>1, <3>2, <3>3, <1>2
  <2> QED
    BY <2>1, <1>1, <1>2, <1>3 DEF SearchInv, TypeOK, MapInv, Paths
<1>8. HeapInv'
  <2> SUFFICES ASSUME pc' = "heap" PROVE HeapInv'
    BY DEF HeapInv
  <2>1. heap' = {[path |-> <<a>>, distance |-> 0]} /\ visited' = {}
    BY <1>2
  <2>2. \A c \in heap' : c.path \in Routes'
    BY <2>1, <1>6
  <2>3. Reached(from)'
    BY <2>1, <1>1 DEF Reached, PathEnd
  <2> QED
    BY <2>1, <2>2, <2>3, <1>1 DEF HeapInv
<1>9. QueueInv'
  <2> SUFFICES ASSUME pc' \in {"queue", "neighbours"} PROVE QueueInv'
    BY DEF QueueInv
  <2>1. /\ s = "dfs" /\ pc' = "queue" /\ queue' = <<<<a>>>> /\ visited' = {a}
    BY <1>2
  <2>2. queue' \in Seq(Routes')
    BY <2>1, <1>6
  <2>3. Waits(a)'
    BY <2>1, <1>5, <1>1 DEF Waits, PathEnd
  <2> QED
    BY <2>1, <2>2, <2>3, <1>1 DEF QueueInv
<1>10. Unstarted' /\ AnswerIsRoute' /\ PathIsFound'
  BY <1>1, <1>2 DEF Unstarted, Loaded, AnswerIsRoute, PathIsFound
<1> QED
  BY <1>3, <1>7, <1>8, <1>9, <1>10 DEF SearchInv

\* A search returns a route that ends where it should.
LEMMA ReturnKeeps ==
    ASSUME MapInv, SearchInv, Loaded, NEW p \in Routes, PathEnd(p) = to,
           visited' \in SUBSET kept, Return(p)
    PROVE  MapInv' /\ SearchInv'
<1> USE DEF Return, mapvars
<1>1. MapInv'
  BY SearchKeepsMap DEF Loaded
<1>2. TypeOK'
  BY <1>1 DEF SearchInv, TypeOK, MapInv, Paths, Routes
<1>3. AnswerIsRoute'
  BY DEF AnswerIsRoute, Routes, IsRoute, PathEnd, NextSteps, Paths
<1> QED
  BY <1>1, <1>2, <1>3
  DEF SearchInv, Unstarted, HeapInv, QueueInv, PathIsFound, Loaded

LEMMA DropKeeps ==
    ASSUME MapInv, SearchInv, NEW c \in heap, Drop(c)
    PROVE  MapInv' /\ SearchInv'
<1> USE DEF Drop, mapvars, SearchInv
<1>1. MapInv'
  BY SearchKeepsMap DEF Loaded
<1>2. TypeOK'
  BY <1>1 DEF TypeOK, MapInv
<1>3. Routes' = Routes /\ \A n : NextSteps(n)' = NextSteps(n)
  BY RoutesUnchanged
<1>4. \A n : Reached(n) => Reached(n)'
  BY DEF Reached
<1>5. HeapInv'
  BY <1>3, <1>4 DEF HeapInv
<1>6. AnswerIsRoute'
  BY DEF AnswerIsRoute, IsRoute, PathEnd, NextSteps
<1> QED
  BY <1>1, <1>2, <1>5, <1>6 DEF Unstarted, QueueInv, PathIsFound, Loaded

LEMMA ArriveKeeps ==
    ASSUME MapInv, SearchInv, NEW c \in heap, Arrive(c)
    PROVE  MapInv' /\ SearchInv'
<1>1. pc = "heap" /\ PathEnd(c.path) = to /\ visited' = visited \union {to} /\ Return(c.path)
  BY DEF Arrive
<1>2. c.path \in Routes /\ to \in kept /\ visited \subseteq kept /\ Loaded
  BY <1>1 DEF SearchInv, HeapInv, TypeOK, Loaded
<1> QED
  BY <1>1, <1>2, ReturnKeeps

LEMMA ExtendKeeps ==
    ASSUME MapInv, SearchInv, NEW c \in heap, Extend(c)
    PROVE  MapInv' /\ SearchInv'
<1> DEFINE e == PathEnd(c.path)
<1>1. /\ pc = "heap" /\ e \notin visited /\ e # to
      /\ visited' = visited \union {e}
      /\ heap' = (heap \ {c}) \union {Extended(c, n) : n \in NextSteps(e)}
      /\ UNCHANGED <<pc, mapvars, strategy, from, to, queue, candidate, rest, answer>>
  BY DEF Extend
<1>2. UNCHANGED <<file, neighbours, record, index, calls, kept>>
  BY <1>1 DEF mapvars
<1>3. MapInv'
  BY <1>1, SearchKeepsMap DEF Loaded
<1>4. kept \subseteq Ids
  BY NodesAreIds DEF MapInv, MapTypeOK
<1>5. /\ from \in kept /\ to \in kept
      /\ \A d \in heap : d.path \in Routes
      /\ to \notin visited
      /\ Reached(from)
      /\ \A v \in visited : \A n \in NextSteps(v) : Reached(n)
  BY <1>1 DEF SearchInv, HeapInv
<1>6. c.path \in Paths /\ e \in kept
  BY <1>5, RouteEnd
<1>7. \A n \in NextSteps(e) : /\ n \in kept
                              /\ Append(c.path, n) \in Routes
                              /\ PathEnd(Append(c.path, n)) = n
  BY <1>4, <1>5, RouteExtended DEF NextSteps
<1>8. Routes' = Routes /\ \A n : NextSteps(n)' = NextSteps(n)
  BY <1>1, <1>2, RoutesUnchanged
<1>9. \A n \in NextSteps(e) : Extended(c, n) \in [path : Paths, distance : Nat]
  <2> SUFFICES ASSUME NEW n \in NextSteps(e)
               PROVE  Extended(c, n) \in [path : Paths, distance : Nat]
    OBVIOUS
  <2>1. Append(c.path, n) \in Paths /\ n \in Ids /\ e \in Ids
    BY <1>4, <1>6, <1>7 DEF Routes
  <2>2. c.distance \in Nat
    BY DEF SearchInv, TypeOK
  <2>3. Distance(e, n) \in Nat
    BY <2>1, DistanceAssumption
  <2> QED
    BY <2>1, <2>2, <2>3 DEF Extended
<1>10. TypeOK'
  BY <1>1, <1>2, <1>3, <1>6, <1>9 DEF SearchInv, TypeOK, MapInv
<1>11. \A n \in NextSteps(e) : Reached(n)'
  <2> SUFFICES ASSUME NEW n \in NextSteps(e) PROVE Reached(n)'
    OBVIOUS
  <2>1. Extended(c, n) \in heap' /\ Extended(c, n).path = Append(c.path, n)
    BY <1>1 DEF Extended
  <2>2. PathEnd(Extended(c, n).path) = n
    BY <2>1, <1>7
  <2> QED
    BY <2>1, <2>2 DEF Reached, PathEnd
<1>12. \A n : Reached(n) => Reached(n)'
  <2> SUFFICES ASSUME NEW n, Reached(n) PROVE Reached(n)'
    OBVIOUS
  <2>1. CASE n \in visited \/ n = e
    BY <2>1, <1>1 DEF Reached
  <2>2. CASE n \notin visited /\ n # e
    BY <2>2, <1>1 DEF Reached
  <2> QED
    BY <2>1, <2>2
<1>13. HeapInv'
  <2>1. \A d \in heap' : d.path \in Routes
    <3> SUFFICES ASSUME NEW n \in NextSteps(e) PROVE Extended(c, n).path \in Routes
      BY <1>1, <1>5
    <3> QED
      BY <1>7 DEF Extended
  <2>2. \A v \in visited' : \A n \in NextSteps(v) : Reached(n)'
    BY <1>1, <1>5, <1>11, <1>12
  <2>3. from \in kept /\ to \in kept /\ to \notin visited' /\ Reached(from)'
    BY <1>1, <1>5, <1>12 DEF Reached, PathEnd
  <2> QED
    BY <1>1, <1>2, <1>8, <2>1, <2>2, <2>3 DEF HeapInv
<1>14. AnswerIsRoute'
  BY <1>1, <1>2 DEF SearchInv, AnswerIsRoute, IsRoute, PathEnd, NextSteps
<1> QED
  BY <1>1, <1>3, <1>10, <1>13, <1>14
  DEF SearchInv, Unstarted, QueueInv, PathIsFound, Loaded

LEMMA TakePathKeeps == MapInv /\ SearchInv /\ TakePath => MapInv' /\ SearchInv'
<1> SUFFICES ASSUME MapInv, SearchInv, TakePath PROVE MapInv' /\ SearchInv'
  OBVIOUS
<1> DEFINE e == PathEnd(Head(queue))
<1>1. /\ pc = "queue" /\ queue # <<>>
      /\ candidate' = Head(queue) /\ queue' = Tail(queue)
      /\ rest' = NextSteps(e)
      /\ pc' \in {"queue", "neighbours"} /\ (pc' = "queue" => rest' = {})
      /\ UNCHANGED <<mapvars, strategy, from, to, visited, heap, answer>>
  BY DEF TakePath
<1>2. UNCHANGED <<file, neighbours, record, index, calls, kept>>
  BY <1>1 DEF mapvars
<1>3. MapInv'
  BY <1>1, SearchKeepsMap DEF Loaded
<1>4. /\ strategy = "dfs" /\ from \in kept /\ to \in kept /\ from \in visited
      /\ queue \in Seq(Routes)
      /\ \A v \in visited : Waits(v) \/ Looked(v, {})
  BY <1>1 DEF SearchInv, QueueInv
<1>5. Routes' = Routes /\ \A n : NextSteps(n)' = NextSteps(n)
  BY <1>1, <1>2, RoutesUnchanged
<1>6. Head(queue) \in Routes /\ Tail(queue) \in Seq(Routes)
  BY <1>1, <1>4
<1>7. TypeOK'
  <2>1. Head(queue) \in Paths /\ Tail(queue) \in Seq(Paths)
    BY <1>1, <1>6 DEF Routes, SearchInv, TypeOK
  <2>2. NextSteps(e) \subseteq kept
    BY DEF NextSteps
  <2> QED
    BY <1>1, <1>2, <1>3, <2>1, <2>2 DEF SearchInv, TypeOK, MapInv, Paths
<1>8. QueueInv'
  <2>1. ASSUME NEW v \in visited
        PROVE  \/ Waits(v)'
               \/ Looked(v, {})'
               \/ pc' = "neighbours" /\ v = e /\ Looked(v, rest)'
    <3>1. CASE Looked(v, {})
      BY <3>1, <1>1, <1>5 DEF Looked
    <3>2. CASE v = e
      BY <3>2, <1>1, <1>5 DEF Looked
    <3>3. CASE Waits(v) /\ v # e
      <4>1. PICK i \in 1..Len(queue) : PathEnd(queue[i]) = v
        BY <3>3 DEF Waits
      <4>2. i # 1
        BY <3>3, <4>1, <1>1, <1>4
      <4>3. i - 1 \in 1..Len(Tail(queue)) /\ Tail(queue)[i - 1] = queue[i]
        BY <4>1, <4>2, <1>1, <1>4
      <4> QED
        BY <4>1, <4>3, <1>1 DEF Waits, PathEnd
    <3> QED
      BY <3>1, <3>2, <3>3, <1>4
  <2>2. candidate' \in Routes' /\ rest' \subseteq NextSteps(PathEnd(candidate))'
    BY <1>1, <1>5, <1>6 DEF PathEnd, NextSteps, mapvars
  <2>3. PathEnd(candidate)' = e
    BY <1>1 DEF PathEnd
  <2> QED
    BY <1>1, <1>2, <1>4, <1>5, <1>6, <2>1, <2>2, <2>3 DEF QueueInv
<1>9. AnswerIsRoute'
  BY <1>1, <1>2 DEF SearchInv, AnswerIsRoute, IsRoute, PathEnd, NextSteps
<1> QED
  BY <1>1, <1>3, <1>7, <1>8, <1>9 DEF SearchInv, Unstarted, HeapInv, PathIsFound, Loaded

LEMMA LookKeeps ==
    ASSUME MapInv, SearchInv, NEW n \in rest, Look(n)
    PROVE  MapInv' /\ SearchInv'
<1> DEFINE e == PathEnd(candidate)
           q == Append(candidate, n)
<1>1. /\ pc = "neighbours" /\ n # to
      /\ visited' = visited \union {n}
      /\ \/ n \in visited /\ queue' = queue
         \/ n \notin visited /\ queue' = Append(queue, q)
      /\ rest' = rest \ {n}
      /\ pc' \in {"queue", "neighbours"} /\ (pc' = "queue" => rest' = {})
      /\ UNCHANGED <<mapvars, strategy, from, to, heap, candidate, answer>>
  BY DEF Look
<1>2. UNCHANGED <<file, neighbours, record, index, calls, kept>>
  BY <1>1 DEF mapvars
<1>3. MapInv'
  BY <1>1, SearchKeepsMap DEF Loaded
<1>4. /\ strategy = "dfs" /\ from \in kept /\ to \in kept /\ from \in visited
      /\ queue \in Seq(Routes)
      /\ candidate \in Routes /\ rest \subseteq NextSteps(e)
      /\ \A v \in visited : Waits(v) \/ Looked(v, {}) \/ (v = e /\ Looked(v, rest))
  BY <1>1 DEF SearchInv, QueueInv
<1>5. Routes' = Routes /\ \A m : NextSteps(m)' = NextSteps(m)
  BY <1>1, <1>2, RoutesUnchanged
<1>6. n \in kept /\ kept \subseteq Ids
  BY <1>4, NodesAreIds DEF NextSteps, MapInv, MapTypeOK
<1>7. q \in Routes /\ PathEnd(q) = n
  BY <1>4, <1>6, RouteExtended
<1>8. queue' \in Seq(Routes)
  <2>1. Append(queue, q) \in Seq(Routes)
    BY <1>4, <1>7
  <2> QED
    BY <2>1, <1>1, <1>4
<1>9. TypeOK'
  <2>1. queue' \in Seq(Paths)
    <3>1. queue \in Seq(Paths) /\ q \in Paths
      BY <1>7 DEF Routes, SearchInv, TypeOK
    <3>2. Append(queue, q) \in Seq(Paths)
      BY <3>1
    <3> QED
      BY <3>1, <3>2, <1>1
  <2> QED
    BY <1>1, <1>2, <1>3, <1>6, <2>1 DEF SearchInv, TypeOK, MapInv, Paths
<1>10. \A v : Waits(v) => Waits(v)'
  <2> SUFFICES ASSUME NEW v, Waits(v) PROVE Waits(v)'
    OBVIOUS
  <2>1. PICK i \in 1..Len(queue) : PathEnd(queue[i]) = v
    BY DEF Waits
  <2>2. i \in 1..Len(queue') /\ queue'[i] = queue[i]
    BY <2>1, <1>1, <1>4
  <2> QED
    BY <2>1, <2>2 DEF Waits, PathEnd
<1>11. n \notin visited => Waits(n)'
  <2> SUFFICES ASSUME n \notin visited PROVE Waits(n)'
    OBVIOUS
  <2>1. Len(queue') \in 1..Len(queue') /\ queue'[Len(queue')] = q
    BY <1>1, <1>4
  <2> QED
    BY <2>1, <1>7 DEF Waits, PathEnd
<1>12. QueueInv'
  <2>1. ASSUME NEW v \in visited'
        PROVE  \/ Waits(v)'
               \/ Looked(v, {})'
               \/ pc' = "neighbours" /\ v = e /\ Looked(v, rest)'
    <3>1. CASE Looked(v, {}) /\ v \in visited
      BY <3>1, <1>1, <1>5 DEF Looked
    <3>2. CASE v = e /\ Looked(v, rest) /\ v \in visited
      BY <3>2, <1>1, <1>5 DEF Looked
    <3>3. CASE Waits(v) \/ v \notin visited
      BY <3>3, <1>1, <1>10, <1>11
    <3> QED
      BY <3>1, <3>2, <3>3, <1>4
  <2>2. rest' \subseteq NextSteps(e)
    BY <1>1, <1>4
  <2>3. PathEnd(candidate)' = e /\ NextSteps(PathEnd(candidate))' = NextSteps(e)
    BY <1>1, <1>2 DEF PathEnd, NextSteps
  <2> QED
    BY <1>1, <1>2, <1>4, <1>5, <1>8, <2>1, <2>2, <2>3 DEF QueueInv
<1>13. AnswerIsRoute'
  BY <1>1, <1>2 DEF SearchInv, AnswerIsRoute, IsRoute, PathEnd, NextSteps
<1> QED
  BY <1>1, <1>3, <1>9, <1>12, <1>13 DEF SearchInv, Unstarted, HeapInv, PathIsFound, Loaded

LEMMA SeeKeeps == MapInv /\ SearchInv /\ See => MapInv' /\ SearchInv'
<1> SUFFICES ASSUME MapInv, SearchInv, See PROVE MapInv' /\ SearchInv'
  OBVIOUS
<1>1. pc = "neighbours" /\ to \in rest /\ visited' = visited /\ Return(Append(candidate, to))
  BY DEF See
<1>2. candidate \in Routes /\ to \in NextSteps(PathEnd(candidate)) /\ to \in kept
  BY <1>1 DEF SearchInv, QueueInv
<1>3. to \in Ids
  BY <1>2, NodesAreIds DEF MapInv, MapTypeOK
<1>4. Append(candidate, to) \in Routes /\ PathEnd(Append(candidate, to)) = to
  BY <1>2, <1>3, RouteExtended
<1>5. visited' \in SUBSET kept /\ Loaded
  BY <1>1 DEF SearchInv, TypeOK, Loaded
<1> QED
  BY <1>1, <1>4, <1>5, ReturnKeeps

\* AStar never gets to the end of the function: when no candidate is left the
\* visited nodes are a part of the graph that no road leaves, so all of it, and the
\* goal is not among them.  DepthFirstSearch does only if no road leads to the goal.
LEMMA NoPathKeeps == MapInv /\ SearchInv /\ NoPath => MapInv' /\ SearchInv'
<1> SUFFICES ASSUME MapInv, SearchInv, NoPath PROVE MapInv' /\ SearchInv'
  OBVIOUS
<1>1. /\ pc \in {"heap", "queue"} /\ heap = {} /\ queue = <<>>
      /\ pc' = "undefined"
      /\ UNCHANGED <<mapvars, searchvars>>
  BY DEF NoPath
<1>2. MapInv'
  BY <1>1, SearchKeepsMap DEF Loaded
<1>3. Connected(kept)
  BY <1>1 DEF MapInv, MapIsConnected, Loaded
<1>4. visited \subseteq kept
  BY DEF SearchInv, TypeOK
<1>5. pc # "heap"
  <2> SUFFICES ASSUME pc = "heap" PROVE FALSE
    OBVIOUS
  <2>1. /\ from \in kept /\ to \in kept /\ to \notin visited
        /\ from \in visited
        /\ \A v \in visited : NextSteps(v) \subseteq visited
    BY <1>1 DEF SearchInv, HeapInv, Reached
  <2>2. visited = kept
    BY <2>1, <1>3, <1>4 DEF Connected, NextSteps
  <2> QED
    BY <2>1, <2>2
<1>6. strategy = "dfs" /\ kept = {from} /\ NextSteps(from) = {}
  <2>1. /\ strategy = "dfs" /\ to \in kept /\ from \in kept /\ from \in visited
        /\ \A v \in visited : to \notin NextSteps(v) /\ NextSteps(v) \subseteq visited
    BY <1>1, <1>5 DEF SearchInv, QueueInv, Waits, Looked
  <2>2. visited = kept
    BY <2>1, <1>3, <1>4 DEF Connected, NextSteps
  <2>3. kept \subseteq Ids
    BY NodesAreIds DEF MapInv, MapTypeOK
  <2>4. NextSteps(to) = {}
    BY <2>1, <2>2, <2>3 DEF NextSteps, MapInv, Symmetric
  <2>5. {to} = kept
    <3>1. {to} \in SUBSET kept /\ {to} # {}
      BY <2>1
    <3>2. \A n \in {to} : neighbours[n] \intersect kept \subseteq {to}
      BY <2>4 DEF NextSteps
    <3> QED
      BY <3>1, <3>2, <1>3 DEF Connected
  <2> QED
    BY <2>1, <2>4, <2>5
<1> QED
  BY <1>1, <1>2, <1>6
  DEF SearchInv, TypeOK, MapInv, Unstarted, HeapInv, QueueInv, AnswerIsRoute, PathIsFound,
      IsRoute, PathEnd, NextSteps, Loaded, searchvars, mapvars

LEMMA SearchKeeps == MapInv /\ SearchInv /\ Search => MapInv' /\ SearchInv'
BY DropKeeps, ArriveKeeps, ExtendKeeps, TakePathKeeps, LookKeeps, SeeKeeps, NoPathKeeps
   DEF Search

\* Every reachable state satisfies both parts of the invariant.
LEMMA Invariance == Spec => [](MapInv /\ SearchInv)
<1>1. Init => MapInv /\ SearchInv
  BY MapInvInit, SearchInvInit DEF Init
<1>2. MapInv /\ SearchInv /\ [Next]_vars => MapInv' /\ SearchInv'
  <2> SUFFICES ASSUME MapInv, SearchInv, [Next]_vars PROVE MapInv' /\ SearchInv'
    OBVIOUS
  <2>1. CASE Load /\ UNCHANGED searchvars
    BY <2>1, LoadKeepsMap, LoadKeeps
  <2>2. CASE \E s \in Strategies : \E a, b \in kept : GetPath(s, a, b)
    BY <2>2, GetPathKeeps
  <2>3. CASE Search
    BY <2>3, SearchKeeps
  <2>4. CASE UNCHANGED vars
    <3> USE <2>4 DEF vars, mapvars, searchvars
    <3>1. MapTypeOK' /\ Symmetric' /\ PhasesMatch'
      BY DEF MapInv, MapTypeOK, Symmetric, PhasesMatch, Nodes, Found
    <3>2. PartsAreClosed'
      BY DEF MapInv, PartsAreClosed, Nodes, Found, Part, InComponent
    <3>3. PartsAreConnected'
      <4>1. Nodes' = Nodes
        BY DEF Nodes
      <4>2. \A k : Part(k)' = Part(k)
        BY <4>1 DEF Part, InComponent
      <4>3. \A S : Closed(S)' <=> Closed(S)
        BY DEF Closed
      <4> QED
        BY <4>1, <4>2, <4>3 DEF MapInv, PartsAreConnected
    <3>4. MapIsConnected' /\ MapIsLargest'
      BY DEF MapInv, MapIsConnected, MapIsLargest, Loaded, Connected, Closed, Nodes
    <3>5. TypeOK' /\ Unstarted'
      BY <3>1 DEF SearchInv, TypeOK, Unstarted, Loaded, Paths
    <3>6. Routes' = Routes /\ \A n : NextSteps(n)' = NextSteps(n)
      BY RoutesUnchanged
    <3>7. HeapInv'
      BY <3>6 DEF SearchInv, HeapInv, Reached, PathEnd
    <3>8. QueueInv'
      BY <3>6 DEF SearchInv, QueueInv, Waits, Looked, PathEnd
    <3>9. AnswerIsRoute' /\ PathIsFound'
      BY DEF SearchInv, AnswerIsRoute, PathIsFound, IsRoute, PathEnd, NextSteps
    <3> QED
      BY <3>1, <3>2, <3>3, <3>4, <3>5, <3>7, <3>8, <3>9 DEF MapInv, SearchInv
  <2> QED
    BY <2>1, <2>2, <2>3, <2>4 DEF Next
<1> QED
  BY <1>1, <1>2, PTL DEF Spec

\* The types of the variables.
THEOREM TypeCorrect == Spec => []TypeOK
BY Invariance, PTL DEF SearchInv

\* FilterToLargestConnectedComponent leaves a connected graph, whatever the map.
THEOREM MapConnected == Spec => []MapIsConnected
BY Invariance, PTL DEF MapInv

\* And the largest connected part of the map.
THEOREM MapLargest == Spec => []MapIsLargest
BY Invariance, PTL DEF MapInv

\* What GetPath returns leads along roads from one node to the other.
THEOREM AnswersAreRoutes == Spec => []AnswerIsRoute
BY Invariance, PTL DEF SearchInv

\* GetPath never ends without a value, but for a search from a lonely node to itself.
THEOREM PathsAreFound == Spec => []PathIsFound
BY Invariance, PTL DEF SearchInv

\* The kept part of the map is connected and as large as any.
THEOREM MapAlwaysRight == Spec => []MapIsRight
<1>1. MapInv => MapIsRight
  BY DEF MapInv, MapIsRight
<1> QED
  BY <1>1, Invariance, PTL

\* All searches are typed and end on routes.
THEOREM RoutesAlwaysFound == Spec => []RoutesAreFound
<1>1. SearchInv => RoutesAreFound
  BY DEF SearchInv, RoutesAreFound
<1> QED
  BY <1>1, Invariance, PTL

(***************************************************************************)
(* Lengths of routes.                                                      *)
(***************************************************************************)

\* Some natural number in a set of them is the least.
LEMMA LeastNumber ==
    ASSUME NEW T \in SUBSET Nat, T # {}
    PROVE  \E m \in T : \A k \in T : m <= k
<1>1. PICK m \in T : \A k \in T : ~(<<k, m>> \in OpToRel(<, Nat))
  BY NatLessThanWellFounded, WFMin
<1>2. OpToRel(<, Nat) = {ss \in Nat \X Nat : ss[1] < ss[2]}
  BY Zenon DEF OpToRel
<1>3. ASSUME NEW k \in T PROVE m <= k
  <2>1. <<k, m>> \notin {ss \in Nat \X Nat : ss[1] < ss[2]}
    BY <1>1, <1>2, Zenon
  <2> QED
    BY <2>1
<1> QED
  BY <1>3

\* Induction, on a set of natural numbers.
LEMMA InductiveSet ==
    ASSUME NEW S \in SUBSET Nat, 0 \in S, \A n \in S : n + 1 \in S
    PROVE  S = Nat
<1> SUFFICES ASSUME Nat \ S # {} PROVE FALSE
  OBVIOUS
<1>1. PICK m \in Nat \ S : \A k \in Nat \ S : m <= k
  BY LeastNumber
<1>2. m - 1 \in S
  BY <1>1
<1> QED
  BY <1>1, <1>2

\* The function by which PathLength adds up the distances.
IsSum(f, p) ==
    f = [i \in 0..(Len(p) - 1) |-> IF i = 0 THEN 0 ELSE f[i - 1] + Distance(p[i], p[i + 1])]

LEMMA SumExists ==
    ASSUME NEW p \in Paths
    PROVE  \E f : IsSum(f, p)
<1> DEFINE Plus(g, i) == g[i - 1] + Distance(p[i], p[i + 1])
           Upto(n) == {g \in [0..n -> Nat] : g[0] = 0 /\ \A i \in 1..n : g[i] = Plus(g, i)}
           S == {n \in Nat : n < Len(p) => Upto(n) # {}}
<1>1. 0 \in S
  <2>1. [i \in 0..0 |-> 0] \in Upto(0)
    OBVIOUS
  <2> QED
    BY <2>1
<1>2. ASSUME NEW n \in S PROVE n + 1 \in S
  <2>q. n \in Nat /\ n + 1 \in Nat /\ (n < Len(p) => Upto(n) # {})
    <3>1. n \in Nat /\ n + 1 \in Nat
      OBVIOUS
    <3> QED
      BY <3>1, Zenon
  <2> SUFFICES ASSUME n + 1 < Len(p) PROVE Upto(n + 1) # {}
    BY <2>q, Zenon
  <2>0. n \in Nat /\ n + 1 \in 1..Len(p) /\ n + 2 \in 1..Len(p)
    BY <2>q DEF Paths
  <2>1. PICK g \in [0..n -> Nat] : g[0] = 0 /\ \A i \in 1..n : g[i] = Plus(g, i)
    <3>1. n < Len(p)
      BY <2>0
    <3> QED
      BY <2>q, <3>1, Zenon
  <2> HIDE DEF S
  <2> DEFINE h == [i \in 0..(n + 1) |->
                      IF i = n + 1 THEN g[n] + Distance(p[n + 1], p[n + 2]) ELSE g[i]]
  <2>2. Distance(p[n + 1], p[n + 2]) \in Nat
    <3>1. p[n + 1] \in Ids /\ p[n + 2] \in Ids
      BY <2>0 DEF Paths
    <3> QED
      BY <3>1, DistanceAssumption
  <2>3. h \in [0..(n + 1) -> Nat]
    BY <2>0, <2>1, <2>2
  <2>4. h[0] = 0
    BY <2>0, <2>1
  <2>5. ASSUME NEW i \in 1..(n + 1) PROVE h[i] = Plus(h, i)
    <3>1. CASE i = n + 1
      BY <3>1, <2>0
    <3>2. CASE i \in 1..n
      BY <3>2, <2>0, <2>1
    <3> QED
      BY <3>1, <3>2, <2>0
  <2>6. h \in Upto(n + 1)
    BY <2>3, <2>4, <2>5
  <2> QED
    BY <2>6
<1> HIDE DEF S
<1>3. S = Nat
  <2>1. S \in SUBSET Nat
    BY DEF S
  <2> QED
    BY <1>1, <1>2, <2>1, InductiveSet
<1>4. CASE Len(p) # 0
  <2>1. Len(p) - 1 \in S /\ Len(p) - 1 \in Nat
    BY <1>3, <1>4 DEF Paths
  <2>2. PICK g \in [0..(Len(p) - 1) -> Nat] :
               g[0] = 0 /\ \A i \in 1..(Len(p) - 1) : g[i] = Plus(g, i)
    BY <2>1 DEF S
  <2>3. g = [i \in 0..(Len(p) - 1) |-> IF i = 0 THEN 0 ELSE g[i - 1] + Distance(p[i], p[i + 1])]
    BY <2>1, <2>2
  <2> QED
    BY <2>3 DEF IsSum
<1>5. CASE Len(p) = 0
  BY <1>5 DEF IsSum
<1> QED
  BY <1>4, <1>5

\* PathLength is the last value of such a function.
LEMMA PathLengthIsSum ==
    ASSUME NEW p \in Paths
    PROVE  \E f : IsSum(f, p) /\ PathLength(p) = f[Len(p) - 1]
<1> DEFINE f == CHOOSE g : IsSum(g, p)
<1>1. IsSum(f, p)
  BY SumExists
<1>2. PathLength(p) = f[Len(p) - 1]
  BY DEF PathLength, IsSum
<1> QED
  BY <1>1, <1>2

LEMMA LengthOfOne ==
    ASSUME NEW a \in Ids
    PROVE  PathLength(<<a>>) = 0
<1>1. <<a>> \in Paths /\ Len(<<a>>) = 1
  BY DEF Paths
<1>2. PICK f : IsSum(f, <<a>>) /\ PathLength(<<a>>) = f[1 - 1]
  <2>1. \E f : IsSum(f, <<a>>) /\ PathLength(<<a>>) = f[Len(<<a>>) - 1]
    BY <1>1, PathLengthIsSum, Zenon
  <2> QED
    BY <1>1, <2>1, Zenon
<1> QED
  BY <1>1, <1>2 DEF IsSum

\* A path is longer by the distance to the node that is appended to it.
LEMMA LengthOfAppend ==
    ASSUME NEW p \in Paths, p # <<>>, NEW n \in Ids
    PROVE  PathLength(Append(p, n)) = PathLength(p) + Distance(PathEnd(p), n)
<1> DEFINE q == Append(p, n)
           l == Len(p)
<1>1. q \in Paths /\ Len(q) = l + 1 /\ l \in Nat \ {0} /\ q[l + 1] = n
      /\ \A i \in 1..l : q[i] = p[i]
  BY DEF Paths
<1>2. PICK f : IsSum(f, p) /\ PathLength(p) = f[l - 1]
  BY PathLengthIsSum
<1> HIDE DEF q
<1>3. PICK g : IsSum(g, q) /\ PathLength(q) = g[l]
  BY <1>1, PathLengthIsSum
<1> DEFINE S == {k \in Nat : k < l => g[k] = f[k]}
<1>4. /\ f[0] = 0 /\ \A i \in 1..(l - 1) : f[i] = f[i - 1] + Distance(p[i], p[i + 1])
      /\ g[0] = 0 /\ \A i \in 1..l : g[i] = g[i - 1] + Distance(q[i], q[i + 1])
  <2>1. f[0] = 0 /\ \A i \in 1..(l - 1) : f[i] = f[i - 1] + Distance(p[i], p[i + 1])
    BY <1>1, <1>2 DEF IsSum
  <2>2. g[0] = 0 /\ \A i \in 1..l : g[i] = g[i - 1] + Distance(q[i], q[i + 1])
    <3>1. g = [i \in 0..l |-> IF i = 0 THEN 0 ELSE g[i - 1] + Distance(q[i], q[i + 1])]
      <4>1. Len(q) - 1 = l
        BY <1>1
      <4> QED
        BY <4>1, <1>3 DEF IsSum
    <3> QED
      BY <3>1, <1>1
  <2> QED
    BY <2>1, <2>2
<1>5. 0 \in S
  BY <1>4
<1>6. ASSUME NEW k \in S PROVE k + 1 \in S
  <2> SUFFICES ASSUME k + 1 < l PROVE g[k + 1] = f[k + 1]
    OBVIOUS
  <2>1. k \in Nat /\ k + 1 \in 1..(l - 1) /\ (k + 1) - 1 = k /\ (k + 1) + 1 \in 1..l /\ g[k] = f[k]
    BY <1>1
  <2>2. f[k + 1] = f[k] + Distance(p[k + 1], p[(k + 1) + 1])
    BY <2>1, <1>4
  <2>3. g[k + 1] = g[k] + Distance(q[k + 1], q[(k + 1) + 1])
    BY <2>1, <1>1, <1>4
  <2> QED
    BY <2>1, <2>2, <2>3, <1>1
<1> HIDE DEF S
<1>7. S = Nat
  <2>1. S \in SUBSET Nat
    BY DEF S
  <2> QED
    BY <1>5, <1>6, <2>1, InductiveSet
<1>8. g[l - 1] = f[l - 1]
  BY <1>1, <1>7 DEF S
<1>9. g[l] = g[l - 1] + Distance(p[l], n)
  BY <1>1, <1>4
<1> QED
  BY <1>2, <1>3, <1>8, <1>9 DEF q, PathEnd

\* The first k nodes of a path.
Prefix(p, k) == SubSeq(p, 1, k)

LEMMA PrefixOfPath ==
    ASSUME NEW p \in Paths, NEW k \in 1..Len(p)
    PROVE  /\ Prefix(p, k) \in Paths /\ Prefix(p, k) # <<>>
           /\ Len(Prefix(p, k)) = k
           /\ \A i \in 1..k : Prefix(p, k)[i] = p[i]
           /\ PathEnd(Prefix(p, k)) = p[k]
           /\ p[k] \in Ids
<1>1. p \in Seq(Ids) /\ \A i \in 1..k : p[i] \in Ids
  BY DEF Paths
<1>2. /\ Prefix(p, k) \in Seq(Ids)
      /\ Len(Prefix(p, k)) = k
      /\ \A i \in 1..k : Prefix(p, k)[i] = p[i]
  BY <1>1 DEF Prefix
<1> QED
  BY <1>1, <1>2 DEF PathEnd, Paths

LEMMA PrefixGrows ==
    ASSUME NEW p \in Paths, NEW k \in 1..(Len(p) - 1)
    PROVE  PathLength(Prefix(p, k + 1)) = PathLength(Prefix(p, k)) + Distance(p[k], p[k + 1])
<1>0. Len(p) \in Nat /\ k \in 1..Len(p) /\ k + 1 \in 1..Len(p)
  BY DEF Paths
<1>1. /\ Prefix(p, k) \in Paths /\ Prefix(p, k) # <<>> /\ PathEnd(Prefix(p, k)) = p[k]
      /\ Len(Prefix(p, k)) = k /\ \A i \in 1..k : Prefix(p, k)[i] = p[i]
  BY <1>0, PrefixOfPath
<1>2. /\ Prefix(p, k + 1) \in Paths /\ Len(Prefix(p, k + 1)) = k + 1
      /\ \A i \in 1..(k + 1) : Prefix(p, k + 1)[i] = p[i]
      /\ p[k + 1] \in Ids
  BY <1>0, PrefixOfPath
<1>3. Prefix(p, k + 1) = Append(Prefix(p, k), p[k + 1])
  BY <1>1, <1>2 DEF Paths
<1> QED
  BY <1>1, <1>2, <1>3, LengthOfAppend

LEMMA PrefixOfAll ==
    ASSUME NEW p \in Paths, p # <<>>
    PROVE  Len(p) \in 1..Len(p) /\ Prefix(p, Len(p)) = p /\ p[Len(p)] = PathEnd(p)
BY SubSeqFull DEF Paths, Prefix, PathEnd

LEMMA LengthIsNatural ==
    ASSUME NEW p \in Paths, p # <<>>
    PROVE  PathLength(p) \in Nat
<1> DEFINE S == {n \in Nat : n < Len(p) => PathLength(Prefix(p, n + 1)) \in Nat}
<1>0. Len(p) \in Nat \ {0} /\ Len(p) - 1 \in Nat
  BY DEF Paths
<1>1. 0 \in S
  <2>1. Prefix(p, 1) = <<p[1]>> /\ p[1] \in Ids
    <3>1. 1 \in 1..Len(p) /\ 1 \in 1..1
      BY <1>0
    <3>2. /\ Prefix(p, 1) \in Paths /\ Len(Prefix(p, 1)) = 1 /\ p[1] \in Ids
          /\ \A i \in 1..1 : Prefix(p, 1)[i] = p[i]
      BY <3>1, PrefixOfPath
    <3>3. Prefix(p, 1)[1] = p[1]
      BY <3>1, <3>2
    <3> QED
      BY <3>2, <3>3 DEF Paths
  <2>2. PathLength(Prefix(p, 1)) = 0
    BY <2>1, LengthOfOne
  <2> QED
    BY <2>2
<1>2. ASSUME NEW n \in S PROVE n + 1 \in S
  <2> SUFFICES ASSUME n + 1 < Len(p) PROVE PathLength(Prefix(p, (n + 1) + 1)) \in Nat
    OBVIOUS
  <2>1. n \in Nat /\ n + 1 \in 1..(Len(p) - 1) /\ n + 1 \in 1..Len(p) /\ (n + 1) + 1 \in 1..Len(p)
    BY <1>0
  <2>2. PathLength(Prefix(p, n + 1)) \in Nat
    BY <1>0
  <2>3. p[n + 1] \in Ids /\ p[(n + 1) + 1] \in Ids
    BY <2>1, PrefixOfPath
  <2>4. Distance(p[n + 1], p[(n + 1) + 1]) \in Nat
    BY <2>3, DistanceAssumption
  <2> QED
    BY <2>1, <2>2, <2>4, PrefixGrows
<1> HIDE DEF S
<1>3. S = Nat
  <2>1. S \in SUBSET Nat
    BY DEF S
  <2> QED
    BY <1>1, <1>2, <2>1, InductiveSet
<1>4. PathLength(Prefix(p, (Len(p) - 1) + 1)) \in Nat
  <2>1. Len(p) - 1 \in S /\ Len(p) - 1 < Len(p)
    BY <1>0, <1>3
  <2> QED
    BY <2>1 DEF S
<1> QED
  BY <1>0, <1>4, PrefixOfAll

LEMMA EstimateIsConsistent ==
    ASSUME to \in Ids, NEW a \in Ids, NEW b \in Ids
    PROVE  /\ Estimate(a) \in Nat
           /\ Estimate(a) <= Distance(a, b) + Estimate(b)
<1>1. /\ Distance(a, to) \in Nat /\ Distance(b, to) \in Nat /\ Distance(a, b) \in Nat
      /\ Distance(a, to) <= Distance(a, b) + Distance(b, to)
  BY DistanceAssumption
<1> QED
  BY <1>1 DEF Estimate

\* What a path is expected to be, seen from a node on it, only grows along it.
LEMMA ExpectedGrows ==
    ASSUME to \in Ids, NEW p \in Paths, p # <<>>, NEW k \in 1..Len(p)
    PROVE  PathLength(Prefix(p, k)) + Estimate(p[k]) <= PathLength(p) + Estimate(PathEnd(p))
<1> DEFINE E(j) == PathLength(Prefix(p, k + j)) + Estimate(p[k + j])
           S == {j \in Nat : k + j <= Len(p) => E(0) <= E(j)}
<1>0. Len(p) \in Nat \ {0} /\ k \in Nat \ {0} /\ k <= Len(p) /\ Len(p) - k \in Nat
      /\ k + 0 = k
  BY DEF Paths
<1>1. ASSUME NEW j \in Nat, k + j <= Len(p)
      PROVE  /\ k + j \in 1..Len(p) /\ PathLength(Prefix(p, k + j)) \in Nat
             /\ p[k + j] \in Ids /\ Estimate(p[k + j]) \in Nat /\ E(j) \in Nat
  <2>1. k + j \in 1..Len(p)
    BY <1>0, <1>1
  <2>2. PathLength(Prefix(p, k + j)) \in Nat /\ p[k + j] \in Ids
    BY <2>1, PrefixOfPath, LengthIsNatural
  <2>3. Estimate(p[k + j]) \in Nat
    BY <2>2, EstimateIsConsistent
  <2> QED
    BY <2>1, <2>2, <2>3
<1>2. 0 \in S
  <2>1. E(0) \in Nat
    BY <1>0, <1>1
  <2>2. E(0) <= E(0)
    <3> HIDE DEF E
    <3> QED
      BY <2>1
  <2> QED
    BY <2>2
<1>3. ASSUME NEW j \in S PROVE j + 1 \in S
  <2>0. j \in Nat /\ j + 1 \in Nat
    OBVIOUS
  <2> SUFFICES ASSUME k + (j + 1) <= Len(p) PROVE E(0) <= E(j + 1)
    BY <2>0
  <2>1. k + j <= Len(p) /\ k + j \in 1..(Len(p) - 1) /\ k + (j + 1) = (k + j) + 1
    BY <2>0, <1>0
  <2>2. E(0) <= E(j)
    BY <2>1
  <2>3. /\ PathLength(Prefix(p, k + j)) \in Nat /\ Estimate(p[k + j]) \in Nat
        /\ p[k + j] \in Ids /\ p[k + (j + 1)] \in Ids /\ Estimate(p[k + (j + 1)]) \in Nat
        /\ E(0) \in Nat
    BY <2>0, <2>1, <1>0, <1>1
  <2> DEFINE d == Distance(p[k + j], p[k + (j + 1)])
  <2>4. d \in Nat /\ Estimate(p[k + j]) <= d + Estimate(p[k + (j + 1)])
    BY <2>3, EstimateIsConsistent, DistanceAssumption
  <2>5. PathLength(Prefix(p, k + (j + 1))) = PathLength(Prefix(p, k + j)) + d
    BY <2>1, PrefixGrows
  <2>6. E(j) <= E(j + 1)
    <3> HIDE DEF d
    <3> QED
      BY <2>3, <2>4, <2>5
  <2>7. E(j) \in Nat /\ E(j + 1) \in Nat
    BY <2>0, <2>1, <1>1
  <2> HIDE DEF E
  <2> QED
    BY <2>2, <2>3, <2>6, <2>7
<1> HIDE DEF S
<1>4. S = Nat
  <2>1. S \in SUBSET Nat
    BY DEF S
  <2> QED
    BY <1>2, <1>3, <2>1, InductiveSet
<1>5. E(0) <= E(Len(p) - k)
  <2>1. Len(p) - k \in S /\ k + (Len(p) - k) <= Len(p)
    BY <1>0, <1>4
  <2> QED
    BY <2>1 DEF S
<1>6. k + (Len(p) - k) = Len(p)
  BY <1>0
<1> QED
  BY <1>0, <1>5, <1>6, PrefixOfAll

\* On the way to a node that was not visited there is a first such node.
LEMMA FirstUnvisited ==
    ASSUME NEW p \in Paths, p # <<>>, PathEnd(p) \notin visited
    PROVE  \E k \in 1..Len(p) : p[k] \notin visited /\ \A j \in 1..(k - 1) : p[j] \in visited
<1> DEFINE T == {k \in 1..Len(p) : p[k] \notin visited}
<1>1. T \in SUBSET Nat /\ T # {}
  BY PrefixOfAll
<1>2. PICK k \in T : \A j \in T : k <= j
  <2> HIDE DEF T
  <2> QED
    BY <1>1, LeastNumber
<1>3. \A j \in 1..(k - 1) : p[j] \in visited
  BY <1>2 DEF Paths
<1> QED
  BY <1>2, <1>3

LEMMA PrefixOfRoute ==
    ASSUME NEW p \in Routes, NEW k \in 1..Len(p)
    PROVE  Prefix(p, k) \in Routes
<1>1. p \in Paths /\ p[1] = from /\ \A i \in 1..(Len(p) - 1) : p[i + 1] \in NextSteps(p[i])
      /\ Len(p) \in Nat
  BY DEF Routes, IsRoute, Paths
<1>2. /\ Prefix(p, k) \in Paths /\ Prefix(p, k) # <<>> /\ Len(Prefix(p, k)) = k
      /\ \A i \in 1..k : Prefix(p, k)[i] = p[i]
  BY <1>1, PrefixOfPath
<1>3. \A i \in 1..(k - 1) : Prefix(p, k)[i + 1] \in NextSteps(Prefix(p, k)[i])
  BY <1>1, <1>2
<1> QED
  BY <1>1, <1>2, <1>3 DEF Routes, IsRoute

(***************************************************************************)
(* The searches find the best routes.                                      *)
(***************************************************************************)

\* AStar has been at n, or has a candidate that ends there and is not longer than d.
Within(n, d) ==
    \/ n \in visited
    \/ \E c \in heap : PathEnd(c.path) = n /\ c.distance <= d

\* Whatever leads to a visited node, AStar goes on from there at least as well.
HeapBest ==
    pc = "heap" =>
       /\ strategy # "dfs"
       /\ \A c \in heap : c.distance = PathLength(c.path)
       /\ Within(from, 0)
       /\ \A p \in Routes :
             PathEnd(p) \in visited =>
                \A n \in NextSteps(PathEnd(p)) :
                   Within(n, PathLength(p) + Distance(PathEnd(p), n))

\* No route to the end of path has fewer roads.
HasFewest(path) == \A p \in Routes : PathEnd(p) = PathEnd(path) => Len(path) <= Len(p)

\* DepthFirstSearch has paths of at most two lengths, the shorter ones in front.
\* From a node to itself it gets to a path of one road, and from there back.
QueueBest ==
    /\ pc \in {"queue", "neighbours"} =>
       /\ from # to => to \notin visited
       /\ \A i, j \in 1..Len(queue) :
             i <= j => Len(queue[i]) <= Len(queue[j]) /\ Len(queue[j]) <= Len(queue[i]) + 1
       /\ \A i \in 1..Len(queue) : HasFewest(queue[i])
    /\ pc = "queue" /\ from = to => \A i \in 1..Len(queue) : Len(queue[i]) <= 2
    /\ pc = "neighbours" =>
       /\ \A i \in 1..Len(queue) : Len(queue[i]) \in {Len(candidate), Len(candidate) + 1}
       /\ HasFewest(candidate)
       /\ from = to => Len(candidate) = 1 \/ (Len(candidate) = 2 /\ to \in rest)

AnswerBest ==
    answer # <<>> =>
       IF strategy # "dfs"
       THEN \A p \in Routes : PathEnd(p) = to => PathLength(answer) <= PathLength(p)
       ELSE IF from # to
       THEN \A p \in Routes : PathEnd(p) = to => Len(answer) <= Len(p)
       ELSE Len(answer) <= 3

BestInv == HeapBest /\ QueueBest /\ AnswerBest

\* A best candidate is a shortest route to its end, if that was not visited: any
\* other route there passes the end of another candidate, and is not expected to be
\* shorter than that.
LEMMA BestIsShortest ==
    ASSUME MapInv, SearchInv, HeapBest, pc = "heap",
           NEW c \in Best, PathEnd(c.path) \notin visited,
           NEW p \in Routes, PathEnd(p) = PathEnd(c.path)
    PROVE  c.distance <= PathLength(p)
<1>1. /\ from \in kept /\ to \in Ids /\ kept \subseteq Ids
      /\ \A d \in heap : d \in [path : Paths, distance : Nat] /\ d.path \in Routes
  <2>1. kept \subseteq Ids
    BY NodesAreIds DEF MapInv, MapTypeOK
  <2> QED
    BY <2>1 DEF SearchInv, HeapInv, TypeOK
<1>2. p \in Paths /\ p # <<>> /\ p[1] = from /\ Len(p) \in Nat
      /\ \A i \in 1..(Len(p) - 1) : p[i + 1] \in NextSteps(p[i])
  BY DEF Routes, IsRoute, Paths
<1>3. PICK k \in 1..Len(p) : p[k] \notin visited /\ \A j \in 1..(k - 1) : p[j] \in visited
  BY <1>2, FirstUnvisited
<1> DEFINE l == PathLength(Prefix(p, k))
<1>4. l \in Nat /\ p[k] \in Ids /\ PathLength(p) \in Nat
  BY <1>2, PrefixOfPath, LengthIsNatural
<1>5. PICK d \in heap : PathEnd(d.path) = p[k] /\ d.distance <= l
  <2>1. CASE k = 1
    <3>1. Within(from, 0)
      BY DEF HeapBest
    <3> QED
      BY <3>1, <2>1, <1>2, <1>3, <1>1, <1>4 DEF Within
  <2>2. CASE k # 1
    <3>1. k - 1 \in 1..Len(p) /\ k - 1 \in 1..(Len(p) - 1) /\ (k - 1) + 1 = k
      BY <2>2, <1>2
    <3> DEFINE r == Prefix(p, k - 1)
    <3>2. r \in Routes /\ PathEnd(r) = p[k - 1]
      BY <3>1, <1>2, PrefixOfRoute, PrefixOfPath
    <3>3. p[k - 1] \in visited /\ p[k] \in NextSteps(p[k - 1])
      BY <3>1, <1>2, <1>3
    <3>4. Within(p[k], PathLength(r) + Distance(p[k - 1], p[k]))
      BY <3>2, <3>3 DEF HeapBest
    <3>5. l = PathLength(r) + Distance(p[k - 1], p[k])
      BY <3>1, <1>2, PrefixGrows
    <3> QED
      BY <3>4, <3>5, <1>3 DEF Within
  <2> QED
    BY <2>1, <2>2
<1>6. Priority(c) <= Priority(d)
  BY DEF Best
<1>7. l + Estimate(p[k]) <= PathLength(p) + Estimate(PathEnd(p))
  BY <1>1, <1>2, ExpectedGrows
<1>8. /\ c \in heap /\ c.distance \in Nat /\ d.distance \in Nat
      /\ Estimate(p[k]) \in Nat /\ Estimate(PathEnd(p)) \in Nat
  <2>1. PathEnd(p) \in kept
    BY <1>1, RouteEnd
  <2> QED
    BY <2>1, <1>1, <1>4, EstimateIsConsistent DEF Best
<1>9. c.distance + Estimate(PathEnd(p)) <= d.distance + Estimate(p[k])
  BY <1>5, <1>6 DEF Priority
<1> HIDE DEF l
<1> QED
  BY <1>4, <1>5, <1>7, <1>8, <1>9

\* A node that DepthFirstSearch sees for the first time is at the end of a route of
\* the fewest roads: any other passes a node that still waits, or the one in hand.
LEMMA NewIsFewest ==
    ASSUME MapInv, SearchInv, QueueBest, pc = "neighbours",
           NEW n \in rest, n \notin visited,
           NEW p \in Routes, PathEnd(p) = n
    PROVE  Len(candidate) + 1 <= Len(p)
<1>1. /\ from \in kept /\ from \in visited
      /\ queue \in Seq(Routes) /\ candidate \in Routes
      /\ \A v \in visited :
            \/ Waits(v)
            \/ Looked(v, {})
            \/ v = PathEnd(candidate)
  BY DEF SearchInv, QueueInv
<1>2. p \in Paths /\ p # <<>> /\ p[1] = from /\ Len(p) \in Nat
      /\ \A i \in 1..(Len(p) - 1) : p[i + 1] \in NextSteps(p[i])
  BY DEF Routes, IsRoute, Paths
<1>3. PICK k \in 1..Len(p) : p[k] \notin visited /\ \A j \in 1..(k - 1) : p[j] \in visited
  BY <1>2, FirstUnvisited
<1>4. k - 1 \in 1..Len(p) /\ k - 1 \in 1..(Len(p) - 1) /\ (k - 1) + 1 = k
  BY <1>1, <1>2, <1>3
<1> DEFINE r == Prefix(p, k - 1)
           v == p[k - 1]
<1>5. r \in Routes /\ PathEnd(r) = v /\ Len(r) = k - 1
  BY <1>2, <1>4, PrefixOfRoute, PrefixOfPath
<1>6. v \in visited /\ p[k] \in NextSteps(v)
  BY <1>2, <1>3, <1>4
<1>7. ~Looked(v, {})
  BY <1>3, <1>6 DEF Looked
<1>8. Len(candidate) \in Nat
  BY <1>1 DEF Routes, Paths
<1>9. Len(candidate) <= k - 1
  <2> HIDE DEF r, v
  <2>1. CASE v = PathEnd(candidate)
    BY <2>1, <1>5 DEF QueueBest, HasFewest
  <2>2. CASE Waits(v)
    <3>1. PICK i \in 1..Len(queue) : PathEnd(queue[i]) = v
      BY <2>2 DEF Waits
    <3>2. Len(queue[i]) <= k - 1
      BY <3>1, <1>5 DEF QueueBest, HasFewest
    <3>3. Len(queue[i]) \in {Len(candidate), Len(candidate) + 1}
      BY <3>1 DEF QueueBest
    <3> QED
      BY <3>2, <3>3, <1>8, <1>4
  <2> QED
    BY <2>1, <2>2, <1>1, <1>6, <1>7
<1> QED
  BY <1>2, <1>8, <1>9

\* What is best depends on the map and on the ends of the search.
LEMMA BestUnchanged ==
    ASSUME UNCHANGED <<from, neighbours, kept>>, UNCHANGED <<strategy, to, answer>>, AnswerBest
    PROVE  AnswerBest' /\ \A p : HasFewest(p)' = HasFewest(p)
<1>1. Routes' = Routes
  BY RoutesUnchanged
<1> QED
  BY <1>1 DEF AnswerBest, HasFewest

LEMMA BestInvInit == Init => BestInv
BY DEF Init, MapInit, BestInv, HeapBest, QueueBest, AnswerBest

LEMMA LoadBest == SearchInv /\ Load /\ UNCHANGED searchvars => BestInv'
<1> SUFFICES ASSUME SearchInv, Load, UNCHANGED searchvars PROVE BestInv'
  OBVIOUS
<1>1. pc \in {"read", "components", "filter"}
      /\ pc' \in {"components", "thrown", "filter", "idle"}
  BY DEF Load, Read, StartComponent, Visit, ComponentsFound, Filter
<1>2. answer = <<>>
  BY <1>1 DEF SearchInv, Unstarted, Loaded
<1> QED
  BY <1>1, <1>2 DEF BestInv, HeapBest, QueueBest, AnswerBest, searchvars

LEMMA GetPathBest ==
    ASSUME MapInv, SearchInv, NEW s \in Strategies, NEW a \in kept, NEW b \in kept,
           GetPath(s, a, b)
    PROVE  BestInv'
<1>1. /\ from' = a /\ to' = b /\ answer' = <<>> /\ strategy' = s
      /\ UNCHANGED <<neighbours, kept>>
  BY DEF GetPath, mapvars
<1>2. \/ /\ s = "dfs" /\ pc' = "queue" /\ queue' = <<<<a>>>> /\ visited' = {a}
      \/ /\ s # "dfs" /\ pc' = "heap" /\ heap' = {[path |-> <<a>>, distance |-> 0]}
         /\ visited' = {}
  BY DEF GetPath
<1>3. a \in Ids /\ <<a>> \in Paths /\ PathEnd(<<a>>) = a /\ PathLength(<<a>>) = 0 /\ Len(<<a>>) = 1
  BY NodesAreIds, LengthOfOne DEF MapInv, MapTypeOK, Paths, PathEnd
<1>4. HeapBest'
  <2> SUFFICES ASSUME pc' = "heap" PROVE HeapBest'
    BY DEF HeapBest
  <2>1. s # "dfs" /\ heap' = {[path |-> <<a>>, distance |-> 0]} /\ visited' = {}
    BY <1>2
  <2>2. Within(from, 0)'
    BY <2>1, <1>1, <1>3 DEF Within, PathEnd
  <2>3. \A c \in heap' : c.distance = PathLength(c.path)
    BY <2>1, <1>3
  <2> QED
    BY <2>1, <2>2, <2>3, <1>1 DEF HeapBest
<1>5. QueueBest'
  <2> SUFFICES ASSUME pc' = "queue" PROVE QueueBest'
    BY <1>2 DEF QueueBest
  <2>1. queue' = <<<<a>>>> /\ visited' = {a}
    BY <1>2
  <2>2. Len(queue') = 1 /\ queue'[1] = <<a>>
    BY <2>1
  <2>3. \A p \in Routes' : 1 <= Len(p)
    BY DEF Routes, IsRoute, Paths
  <2>4. HasFewest(<<a>>)'
    BY <2>3, <1>3 DEF HasFewest
  <2>5. \A i \in 1..Len(queue') : i = 1 /\ queue'[i] = <<a>>
    BY <2>2
  <2>6. \A i \in 1..Len(queue') : HasFewest(queue[i])'
    BY <2>4, <2>5 DEF HasFewest, PathEnd
  <2>7. \A i, j \in 1..Len(queue') :
           i <= j => Len(queue'[i]) <= Len(queue'[j]) /\ Len(queue'[j]) <= Len(queue'[i]) + 1
    BY <2>5, <1>3
  <2>8. \A i \in 1..Len(queue') : Len(queue'[i]) <= 2
    BY <2>5, <1>3
  <2>9. from' # to' => to' \notin visited'
    BY <2>1, <1>1
  <2> HIDE <2>2
  <2> QED
    BY <2>6, <2>7, <2>8, <2>9 DEF QueueBest
<1> QED
  BY <1>1, <1>4, <1>5 DEF BestInv, AnswerBest

LEMMA DropBest ==
    ASSUME MapInv, SearchInv, BestInv, NEW c \in heap, Drop(c)
    PROVE  BestInv'
<1>1. /\ pc = "heap" /\ PathEnd(c.path) \in visited
      /\ heap' = heap \ {c}
      /\ UNCHANGED <<pc, neighbours, kept, strategy, from, to, visited, answer>>
  BY DEF Drop, mapvars
<1>2. Routes' = Routes /\ \A n : NextSteps(n)' = NextSteps(n)
  BY <1>1, RoutesUnchanged
<1>3. \A n, d : Within(n, d) => Within(n, d)'
  BY <1>1 DEF Within
<1>4. HeapBest'
  BY <1>1, <1>2, <1>3 DEF BestInv, HeapBest
<1> QED
  BY <1>1, <1>4, BestUnchanged DEF BestInv, QueueBest

LEMMA ArriveBest ==
    ASSUME MapInv, SearchInv, BestInv, NEW c \in heap, Arrive(c)
    PROVE  BestInv'
<1>1. /\ pc = "heap" /\ c \in Best /\ PathEnd(c.path) \notin visited /\ PathEnd(c.path) = to
      /\ pc' = "idle" /\ answer' = c.path
      /\ UNCHANGED <<neighbours, kept, strategy, from, to>>
  BY DEF Arrive, Return, mapvars
<1>2. Routes' = Routes
  BY <1>1, RoutesUnchanged
<1>3. strategy # "dfs" /\ c.distance = PathLength(c.path)
  BY <1>1 DEF BestInv, HeapBest
<1>4. \A p \in Routes : PathEnd(p) = to => c.distance <= PathLength(p)
  BY <1>1, BestIsShortest DEF BestInv
<1>5. AnswerBest'
  BY <1>1, <1>2, <1>3, <1>4 DEF AnswerBest
<1> QED
  BY <1>1, <1>5 DEF BestInv, HeapBest, QueueBest

LEMMA ExtendBest ==
    ASSUME MapInv, SearchInv, BestInv, NEW c \in heap, Extend(c)
    PROVE  BestInv'
<1> DEFINE e == PathEnd(c.path)
<1>1. /\ pc = "heap" /\ c \in Best /\ e \notin visited
      /\ visited' = visited \union {e}
      /\ heap' = (heap \ {c}) \union {Extended(c, n) : n \in NextSteps(e)}
      /\ UNCHANGED <<pc, neighbours, kept, strategy, from, to, answer>>
  BY DEF Extend, mapvars
<1>2. Routes' = Routes /\ \A n : NextSteps(n)' = NextSteps(n)
  BY <1>1, RoutesUnchanged
<1>3. /\ from \in kept /\ kept \subseteq Ids
      /\ \A d \in heap : d \in [path : Paths, distance : Nat] /\ d.path \in Routes
  BY <1>1, NodesAreIds DEF MapInv, MapTypeOK, SearchInv, HeapInv, TypeOK
<1>4. c.path \in Paths /\ c.path # <<>> /\ e \in Ids /\ c.distance = PathLength(c.path)
  BY <1>1, <1>3, RouteEnd DEF BestInv, HeapBest, Routes, IsRoute
<1>5. ASSUME NEW n \in NextSteps(e)
      PROVE  /\ n \in Ids
             /\ Extended(c, n).path = Append(c.path, n)
             /\ Extended(c, n).distance = c.distance + Distance(e, n)
             /\ PathLength(Append(c.path, n)) = c.distance + Distance(e, n)
             /\ PathEnd(Append(c.path, n)) = n
  <2>1. n \in Ids
    BY <1>3 DEF NextSteps
  <2> QED
    BY <2>1, <1>3, <1>4, LengthOfAppend, RouteExtended DEF Extended
<1>6. \A d \in heap' : d.distance = PathLength(d.path)
  <2> SUFFICES ASSUME NEW d \in heap' PROVE d.distance = PathLength(d.path)
    OBVIOUS
  <2>1. CASE d \in heap
    BY <2>1, <1>1 DEF BestInv, HeapBest
  <2>2. CASE \E n \in NextSteps(e) : d = Extended(c, n)
    BY <2>2, <1>5
  <2> QED
    BY <2>1, <2>2, <1>1
<1>7. \A n, d : Within(n, d) => Within(n, d)'
  <2> SUFFICES ASSUME NEW n, NEW d, Within(n, d) PROVE Within(n, d)'
    OBVIOUS
  <2>1. CASE n \in visited \/ n = e
    BY <2>1, <1>1 DEF Within
  <2>2. CASE n \notin visited /\ n # e
    <3>1. PICK h \in heap : PathEnd(h.path) = n /\ h.distance <= d
      BY <2>2 DEF Within
    <3>2. h \in heap'
      BY <3>1, <2>2, <1>1
    <3> QED
      BY <3>1, <3>2 DEF Within, PathEnd
  <2> QED
    BY <2>1, <2>2
<1>8. ASSUME NEW p \in Routes, PathEnd(p) = e, NEW n \in NextSteps(e)
      PROVE  Within(n, PathLength(p) + Distance(e, n))'
  <2>1. c.distance <= PathLength(p)
    BY <1>1, <1>8, BestIsShortest DEF BestInv
  <2>2. c.distance \in Nat /\ PathLength(p) \in Nat /\ Distance(e, n) \in Nat
    BY <1>3, <1>4, <1>5, LengthIsNatural, DistanceAssumption DEF Routes, IsRoute
  <2>3. Extended(c, n) \in heap' /\ Extended(c, n).distance <= PathLength(p) + Distance(e, n)
    BY <2>1, <2>2, <1>1, <1>5
  <2>4. PathEnd(Extended(c, n).path) = n
    BY <1>5
  <2> QED
    BY <2>3, <2>4 DEF Within, PathEnd
<1>9. HeapBest'
  <2>1. \A p \in Routes :
           PathEnd(p) \in visited' =>
              \A n \in NextSteps(PathEnd(p)) : Within(n, PathLength(p) + Distance(PathEnd(p), n))'
    <3> SUFFICES ASSUME NEW p \in Routes, PathEnd(p) \in visited',
                        NEW n \in NextSteps(PathEnd(p))
                 PROVE  Within(n, PathLength(p) + Distance(PathEnd(p), n))'
      OBVIOUS
    <3>1. CASE PathEnd(p) \in visited
      <4>1. Within(n, PathLength(p) + Distance(PathEnd(p), n))
        BY <3>1, <1>1 DEF BestInv, HeapBest
      <4> QED
        BY <4>1, <1>7
    <3>2. CASE PathEnd(p) = e
      BY <3>2, <1>8
    <3> QED
      BY <3>1, <3>2, <1>1
  <2>2. Within(from, 0)'
    <3>1. Within(from, 0)
      BY <1>1 DEF BestInv, HeapBest
    <3> QED
      BY <3>1, <1>1, <1>7 DEF Within, PathEnd
  <2> QED
    BY <2>1, <2>2, <1>1, <1>2, <1>6 DEF BestInv, HeapBest, PathEnd
<1> QED
  BY <1>1, <1>9, BestUnchanged DEF BestInv, QueueBest

LEMMA TakePathBest ==
    ASSUME MapInv, SearchInv, BestInv, TakePath
    PROVE  BestInv'
<1> DEFINE h == Head(queue)
           e == PathEnd(h)
<1>1. /\ pc = "queue" /\ queue # <<>>
      /\ candidate' = h /\ queue' = Tail(queue)
      /\ rest' = NextSteps(e)
      /\ pc' = IF rest' = {} THEN "queue" ELSE "neighbours"
      /\ UNCHANGED <<neighbours, kept, strategy, from, to, visited, answer>>
  BY DEF TakePath, mapvars
<1>2. /\ strategy = "dfs" /\ from \in kept
      /\ queue \in Seq(Routes) /\ kept \subseteq Ids
  BY <1>1, NodesAreIds DEF SearchInv, QueueInv, MapInv, MapTypeOK
<1>3. /\ Len(queue) \in Nat \ {0} /\ h = queue[1]
      /\ Len(queue') = Len(queue) - 1
      /\ \A i \in 1..Len(queue') : queue'[i] = queue[i + 1] /\ i + 1 \in 1..Len(queue)
  BY <1>1, <1>2
<1>4. \A p : HasFewest(p)' = HasFewest(p)
  BY <1>1, BestUnchanged DEF BestInv
<1>5. \A i \in 1..Len(queue) : queue[i] \in Routes /\ Len(queue[i]) \in Nat \ {0}
  BY <1>2, RouteEnd
<1>6. \A i, j \in 1..Len(queue) :
        i <= j => Len(queue[i]) <= Len(queue[j]) /\ Len(queue[j]) <= Len(queue[i]) + 1
  BY <1>1 DEF BestInv, QueueBest
<1> HIDE DEF h
<1>7. /\ \A i, j \in 1..Len(queue') :
            i <= j => Len(queue'[i]) <= Len(queue'[j]) /\ Len(queue'[j]) <= Len(queue'[i]) + 1
  <2> SUFFICES ASSUME NEW i \in 1..Len(queue'), NEW j \in 1..Len(queue'), i <= j
               PROVE  Len(queue'[i]) <= Len(queue'[j]) /\ Len(queue'[j]) <= Len(queue'[i]) + 1
    OBVIOUS
  <2>1. i + 1 <= j + 1 /\ i + 1 \in 1..Len(queue) /\ j + 1 \in 1..Len(queue)
    BY <1>3
  <2>2. queue'[i] = queue[i + 1] /\ queue'[j] = queue[j + 1]
    BY <1>3
  <2> QED
    BY <2>1, <2>2, <1>6
<1>8. \A i \in 1..Len(queue') : Len(queue'[i]) \in {Len(h), Len(h) + 1}
  <2> SUFFICES ASSUME NEW i \in 1..Len(queue')
               PROVE  Len(queue'[i]) \in {Len(h), Len(h) + 1}
    OBVIOUS
  <2>1. 1 <= i + 1 /\ 1 \in 1..Len(queue) /\ i + 1 \in 1..Len(queue) /\ queue'[i] = queue[i + 1]
    BY <1>3
  <2> QED
    BY <2>1, <1>3, <1>5, <1>6
<1>9. HasFewest(h) /\ \A i \in 1..Len(queue') : HasFewest(queue'[i])
  BY <1>1, <1>3 DEF BestInv, QueueBest
<1>10. ASSUME from = to, pc' = "queue"
       PROVE  \A i \in 1..Len(queue') : Len(queue'[i]) <= 2
  BY <1>1, <1>3, <1>10 DEF BestInv, QueueBest
\* There is a road back from the end of the only road taken.
<1>11. ASSUME from = to
       PROVE  Len(h) = 1 \/ (Len(h) = 2 /\ to \in rest')
  <2>1. h \in Routes /\ Len(h) \in Nat \ {0} /\ Len(h) <= 2
    BY <1>1, <1>3, <1>5, <1>11 DEF BestInv, QueueBest
  <2>2. ASSUME Len(h) = 2 PROVE to \in rest'
    <3>1. h[1] = from /\ h[2] \in NextSteps(from) /\ e = h[2]
      <4>1. h[1] = from /\ \A i \in 1..(2 - 1) : h[i + 1] \in NextSteps(h[i])
        BY <2>1, <2>2 DEF Routes, IsRoute
      <4>2. h[1 + 1] \in NextSteps(h[1])
        BY <4>1
      <4> QED
        BY <4>1, <4>2, <2>2 DEF PathEnd
    <3>2. h[2] \in kept /\ h[2] \in neighbours[from]
      BY <3>1 DEF NextSteps
    <3>3. from \in neighbours[h[2]]
      BY <3>2, <1>2 DEF MapInv, Symmetric
    <3> QED
      BY <3>1, <3>3, <1>1, <1>2, <1>11 DEF NextSteps
  <2>3. \A m \in Nat \ {0} : m <= 2 => m = 1 \/ m = 2
    OBVIOUS
  <2> QED
    BY <2>1, <2>2, <2>3
<1>12. QueueBest'
  <2>1. \A i \in 1..Len(queue') : HasFewest(queue[i])'
    BY <1>4, <1>9 DEF HasFewest, PathEnd
  <2>2. HasFewest(candidate)'
    BY <1>1, <1>4, <1>9 DEF HasFewest, PathEnd
  <2>3. from # to => to \notin visited
    BY <1>1 DEF BestInv, QueueBest
  <2> QED
    BY <2>1, <2>2, <2>3, <1>1, <1>7, <1>8, <1>10, <1>11 DEF QueueBest
<1> QED
  BY <1>1, <1>12, BestUnchanged DEF BestInv, HeapBest

LEMMA LookBest ==
    ASSUME MapInv, SearchInv, BestInv, NEW n \in rest, Look(n)
    PROVE  BestInv'
<1> DEFINE q == Append(candidate, n)
           l == Len(candidate)
<1>1. /\ pc = "neighbours" /\ n # to
      /\ visited' = visited \union {n}
      /\ \/ n \in visited /\ queue' = queue
         \/ n \notin visited /\ queue' = Append(queue, q)
      /\ rest' = rest \ {n}
      /\ pc' = IF rest' = {} THEN "queue" ELSE "neighbours"
      /\ UNCHANGED <<neighbours, kept, strategy, from, to, candidate, answer>>
  BY DEF Look, mapvars
<1>2. /\ strategy = "dfs" /\ from \in kept /\ kept \subseteq Ids
      /\ queue \in Seq(Routes)
      /\ candidate \in Routes /\ n \in NextSteps(PathEnd(candidate)) /\ n \in Ids
  BY <1>1, NodesAreIds DEF SearchInv, QueueInv, MapInv, MapTypeOK, NextSteps
<1>3. q \in Routes /\ PathEnd(q) = n /\ l \in Nat /\ Len(q) = l + 1
  <2>1. candidate \in Seq(Ids)
    BY <1>2 DEF Routes, Paths
  <2> QED
    BY <2>1, <1>2, RouteExtended
<1>4. \A p : HasFewest(p)' = HasFewest(p)
  BY <1>1, BestUnchanged DEF BestInv
<1>5. /\ \A i, j \in 1..Len(queue) :
            i <= j => Len(queue[i]) <= Len(queue[j]) /\ Len(queue[j]) <= Len(queue[i]) + 1
      /\ \A i \in 1..Len(queue) : HasFewest(queue[i])
      /\ \A i \in 1..Len(queue) : Len(queue[i]) \in {l, l + 1}
      /\ HasFewest(candidate)
      /\ from = to => l = 1 \/ (l = 2 /\ to \in rest)
      /\ from # to => to \notin visited
  BY <1>1 DEF BestInv, QueueBest
<1>6. n \notin visited => HasFewest(q)
  BY <1>1, <1>3, NewIsFewest DEF BestInv, HasFewest
<1> HIDE DEF q, l
<1>7. /\ \A i, j \in 1..Len(queue') :
            i <= j => Len(queue'[i]) <= Len(queue'[j]) /\ Len(queue'[j]) <= Len(queue'[i]) + 1
      /\ \A i \in 1..Len(queue') : HasFewest(queue'[i])
      /\ \A i \in 1..Len(queue') : Len(queue'[i]) \in {l, l + 1}
  <2>1. CASE n \in visited
    BY <2>1, <1>1, <1>5
  <2>2. CASE n \notin visited
    <3>1. /\ Len(queue') = Len(queue) + 1 /\ queue'[Len(queue) + 1] = q
          /\ \A i \in 1..Len(queue) : queue'[i] = queue[i]
          /\ Len(queue) \in Nat
      BY <2>2, <1>1, <1>2, <1>3
    <3>2. \A i \in 1..Len(queue') : i \in 1..Len(queue) \/ i = Len(queue) + 1
      BY <3>1
    <3>3. \A i \in 1..Len(queue') : HasFewest(queue'[i]) /\ Len(queue'[i]) \in {l, l + 1}
      BY <2>2, <3>1, <3>2, <1>3, <1>5, <1>6
    <3>4. ASSUME NEW i \in 1..Len(queue'), NEW j \in 1..Len(queue'), i <= j
          PROVE  Len(queue'[i]) <= Len(queue'[j]) /\ Len(queue'[j]) <= Len(queue'[i]) + 1
      <4>1. CASE j \in 1..Len(queue)
        <5>1. i \in 1..Len(queue)
          BY <4>1, <3>1, <3>4
        <5> QED
          BY <4>1, <5>1, <3>1, <3>4, <1>5
      <4>2. CASE j = Len(queue) + 1
        <5>1. Len(queue'[j]) = l + 1
          BY <4>2, <3>1, <1>3
        <5> QED
          BY <5>1, <3>3, <1>3
      <4> QED
        BY <4>1, <4>2, <3>2
    <3> QED
      BY <3>3, <3>4
  <2> QED
    BY <2>1, <2>2
<1>8. QueueBest'
  <2>1. \A i \in 1..Len(queue') : HasFewest(queue[i])'
    BY <1>4, <1>7 DEF HasFewest, PathEnd
  <2>2. HasFewest(candidate)'
    BY <1>1, <1>4, <1>5 DEF HasFewest, PathEnd
  <2>3. Len(candidate') = l
    BY <1>1 DEF l
  <2>4. pc' = "queue" /\ from = to => l = 1
    BY <1>1, <1>5
  <2>5. pc' = "queue" /\ from = to => \A i \in 1..Len(queue') : Len(queue'[i]) <= 2
    <3> SUFFICES ASSUME pc' = "queue", from = to, NEW i \in 1..Len(queue')
                 PROVE  Len(queue'[i]) <= 2
      OBVIOUS
    <3>1. l = 1 /\ (Len(queue'[i]) = l \/ Len(queue'[i]) = l + 1)
      BY <2>4, <1>7
    <3>2. Len(queue'[i]) \in {1, 2}
      BY <3>1
    <3>3. \A k \in {1, 2} : k <= 2
      OBVIOUS
    <3> QED
      BY <3>2, <3>3
  <2>6. from = to => l = 1 \/ (l = 2 /\ to \in rest')
    BY <1>1, <1>5
  <2> QED
    BY <2>1, <2>2, <2>3, <2>5, <2>6, <1>1, <1>5, <1>7 DEF QueueBest
<1> QED
  BY <1>1, <1>8, BestUnchanged DEF BestInv, HeapBest

LEMMA SeeBest ==
    ASSUME MapInv, SearchInv, BestInv, See
    PROVE  BestInv'
<1> DEFINE q == Append(candidate, to)
<1>1. /\ pc = "neighbours" /\ to \in rest /\ pc' = "idle" /\ answer' = q
      /\ UNCHANGED <<neighbours, kept, strategy, from, to>>
  BY DEF See, Return, mapvars
<1>2. Routes' = Routes
  BY <1>1, RoutesUnchanged
<1>3. /\ strategy = "dfs" /\ candidate \in Seq(Ids) /\ to \in Ids
      /\ from # to => to \notin visited
      /\ from = to => Len(candidate) = 1 \/ Len(candidate) = 2
  <2>1. strategy = "dfs" /\ candidate \in Routes /\ to \in kept
    BY <1>1 DEF SearchInv, QueueInv
  <2>2. /\ from # to => to \notin visited
        /\ from = to => Len(candidate) = 1 \/ Len(candidate) = 2
    BY <1>1 DEF BestInv, QueueBest
  <2> QED
    BY <2>1, <2>2, NodesAreIds DEF MapInv, MapTypeOK, Routes, Paths
<1>4. Len(q) = Len(candidate) + 1 /\ Len(candidate) \in Nat
  BY <1>3
<1>5. from # to => \A p \in Routes : PathEnd(p) = to => Len(q) <= Len(p)
  BY <1>1, <1>3, <1>4, NewIsFewest DEF BestInv
<1>6. from = to => Len(q) <= 3
  <2>1. \A k \in Nat : k = 1 \/ k = 2 => k + 1 <= 3
    OBVIOUS
  <2> HIDE DEF q
  <2> QED
    BY <1>3, <1>4, <2>1
<1>7. AnswerBest'
  BY <1>1, <1>2, <1>3, <1>5, <1>6 DEF AnswerBest
<1> QED
  BY <1>1, <1>7 DEF BestInv, HeapBest, QueueBest

LEMMA NoPathBest == BestInv /\ NoPath => BestInv'
<1> SUFFICES ASSUME BestInv, NoPath PROVE BestInv'
  OBVIOUS
<1>1. pc' = "undefined" /\ UNCHANGED <<neighbours, kept, strategy, from, to, answer>>
  BY DEF NoPath, mapvars, searchvars
<1> QED
  BY <1>1, BestUnchanged DEF BestInv, HeapBest, QueueBest

LEMMA BestInvariance == Spec => []BestInv
<1>1. MapInv /\ SearchInv /\ BestInv /\ [Next]_vars => BestInv'
  <2> SUFFICES ASSUME MapInv, SearchInv, BestInv, [Next]_vars PROVE BestInv'
    OBVIOUS
  <2>1. CASE Load /\ UNCHANGED searchvars
    BY <2>1, LoadBest
  <2>2. CASE \E s \in Strategies : \E a, b \in kept : GetPath(s, a, b)
    BY <2>2, GetPathBest
  <2>3. CASE Search
    BY <2>3, DropBest, ArriveBest, ExtendBest, TakePathBest, LookBest, SeeBest, NoPathBest
    DEF Search
  <2>4. CASE UNCHANGED vars
    <3> USE <2>4 DEF vars, mapvars, searchvars
    <3>1. Routes' = Routes /\ \A n : NextSteps(n)' = NextSteps(n)
      BY RoutesUnchanged
    <3>2. HeapBest'
      BY <3>1 DEF BestInv, HeapBest, Within, PathEnd
    <3>3. AnswerBest' /\ \A p : HasFewest(p)' = HasFewest(p)
      BY BestUnchanged DEF BestInv
    <3>4. QueueBest'
      BY <3>1 DEF BestInv, QueueBest, HasFewest, PathEnd
    <3> QED
      BY <3>2, <3>3, <3>4 DEF BestInv
  <2> QED
    BY <2>1, <2>2, <2>3, <2>4 DEF Next
<1> QED
  BY <1>1, BestInvInit, Invariance, PTL DEF Spec

\* A* and Dijkstra return a route as short as any; DepthFirstSearch one with as few
\* roads as any, but from a node to itself it goes there and back.
THEOREM AnswersAreBest == Spec => []AnswerIsBest
<1>1. ASSUME SearchInv, BestInv, MapInv PROVE AnswerIsBest
  <2>1. SimpleRoutes \subseteq {p \in Routes : PathEnd(p) = to}
    <3>1. kept \subseteq Ids
      BY <1>1, NodesAreIds DEF MapInv, MapTypeOK
    <3> SUFFICES ASSUME NEW p \in SimpleRoutes PROVE p \in Routes /\ PathEnd(p) = to
      OBVIOUS
    <3>2. PICK n \in 1..Cardinality(kept) : p \in [1..n -> kept]
      BY DEF SimpleRoutes
    <3>3. Cardinality(kept) \in Nat
      BY <1>1, <3>1, NodesAreIds, FS_Subset, FS_CardinalityType DEF MapInv, MapTypeOK
    <3>4. p \in Paths
      BY <3>1, <3>2, <3>3 DEF Paths
    <3> QED
      BY <3>4 DEF SimpleRoutes, Routes
  <2> QED
    BY <1>1, <2>1 DEF BestInv, AnswerBest, AnswerIsBest
<1> QED
  BY <1>1, Invariance, BestInvariance, PTL

\* The same of all routes, also those that pass a node twice.
THEOREM NoRouteIsBetter == Spec => []AnswerBest
<1>1. BestInv => AnswerBest
  BY DEF BestInv
<1> QED
  BY <1>1, BestInvariance, PTL
=============================================================================
