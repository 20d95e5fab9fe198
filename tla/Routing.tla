------------------------------- MODULE Routing -------------------------------
(***************************************************************************)
(* pathing.cc: AStar, which is also Dijkstra with an estimate of zero, and *)
(* the breadth-first search that is called DepthFirstSearch, on the graph  *)
(* of RoadMap.  One step is one round of a search's loop; a round of the   *)
(* breadth-first search is one step for each neighbour.                    *)
(*                                                                         *)
(* A candidate is its path and the path's length.  The priority queue is   *)
(* the set of its candidates, and gives out any of the best ones.          *)
(* Lengths are natural numbers that satisfy the triangle inequality, as    *)
(* float distances do up to rounding.                                      *)
(***************************************************************************)
EXTENDS RoadMap

CONSTANTS Distance(_, _),   \* of two nodes' positions
          Strategies        \* subset of {"astar", "dijkstra", "dfs"}

ASSUME DistanceAssumption ==
    /\ \A a, b \in Ids : Distance(a, b) \in Nat
    /\ \A a, b, c \in Ids : Distance(a, c) <= Distance(a, b) + Distance(b, c)

ASSUME StrategiesAssumption == Strategies \subseteq {"astar", "dijkstra", "dfs"}

VARIABLES strategy, from, to,
          visited,
          heap,         \* AStar's possible_paths
          queue,        \* DepthFirstSearch's possible_paths
          candidate,    \* the path that is extended
          rest,         \* its neighbours that were not looked at yet
          answer        \* the path returned

searchvars == <<strategy, from, to, visited, heap, queue, candidate, rest, answer>>

vars == <<pc, mapvars, searchvars>>

Init ==
    /\ MapInit
    /\ strategy = "none"
    /\ from = "none"
    /\ to = "none"
    /\ visited = {}
    /\ heap = {}
    /\ queue = <<>>
    /\ candidate = <<>>
    /\ rest = {}
    /\ answer = <<>>

-----------------------------------------------------------------------------
PathEnd(path) == path[Len(path)]

\* GetPath is called with the graph's nearest nodes to two positions.
GetPath(s, a, b) ==
    /\ pc = "idle"
    /\ strategy' = s
    /\ from' = a
    /\ to' = b
    /\ answer' = <<>>
    /\ IF s = "dfs"
       THEN /\ queue' = <<<<a>>>>
            /\ visited' = {a}
            /\ pc' = "queue"
            /\ UNCHANGED heap
       ELSE /\ heap' = {[path |-> <<a>>, distance |-> 0]}
            /\ visited' = {}
            /\ pc' = "heap"
            /\ UNCHANGED queue
    /\ UNCHANGED <<mapvars, candidate, rest>>

\* The search is over, with a path or without.
Return(path) ==
    /\ pc' = "idle"
    /\ answer' = path
    /\ heap' = {}
    /\ queue' = <<>>
    /\ candidate' = <<>>
    /\ rest' = {}
    /\ UNCHANGED <<mapvars, strategy, from, to>>

\* The end of the function without a value.
NoPath ==
    /\ pc \in {"heap", "queue"}
    /\ heap = {} /\ queue = <<>>
    /\ pc' = "undefined"
    /\ UNCHANGED <<mapvars, searchvars>>

-----------------------------------------------------------------------------
(* AStar.                                                                  *)

\* Mutant: an estimate that may exceed the distance.
Estimate_Twice(n) == IF strategy = "dijkstra" THEN 0 ELSE 2 * Distance(n, to)

Estimate(n) == IF strategy = "dijkstra" THEN 0 ELSE Distance(n, to)

Priority(c) == c.distance + Estimate(PathEnd(c.path))

\* compareCandidatePaths: the candidates that top() may be.
Best == {c \in heap : \A d \in heap : Priority(c) <= Priority(d)}

Extended(c, n) ==
    [path |-> Append(c.path, n), distance |-> c.distance + Distance(PathEnd(c.path), n)]

\* Mutant: the best candidate is read and not removed.
Drop_Keeps(c) ==
    /\ pc = "heap"
    /\ c \in Best
    /\ PathEnd(c.path) \in visited
    /\ UNCHANGED vars

\* A candidate whose end was visited is dropped.
Drop(c) ==
    /\ pc = "heap"
    /\ c \in Best
    /\ PathEnd(c.path) \in visited
    /\ heap' = heap \ {c}
    /\ UNCHANGED <<pc, mapvars, strategy, from, to, visited, queue, candidate, rest, answer>>

Arrive(c) ==
    /\ pc = "heap"
    /\ c \in Best
    /\ PathEnd(c.path) \notin visited
    /\ PathEnd(c.path) = to
    /\ visited' = visited \union {to}
    /\ Return(c.path)

\* Mutant: a node is visited as soon as a path to it is a candidate.
Extend_Marks(c) ==
    /\ pc = "heap"
    /\ c \in Best
    /\ PathEnd(c.path) \notin visited
    /\ PathEnd(c.path) # to
    /\ visited' = visited \union {PathEnd(c.path)} \union NextSteps(PathEnd(c.path))
    /\ heap' = (heap \ {c}) \union {Extended(c, n) : n \in NextSteps(PathEnd(c.path))}
    /\ UNCHANGED <<pc, mapvars, strategy, from, to, queue, candidate, rest, answer>>

Extend(c) ==
    /\ pc = "heap"
    /\ c \in Best
    /\ PathEnd(c.path) \notin visited
    /\ PathEnd(c.path) # to
    /\ visited' = visited \union {PathEnd(c.path)}
    /\ heap' = (heap \ {c}) \union {Extended(c, n) : n \in NextSteps(PathEnd(c.path))}
    /\ UNCHANGED <<pc, mapvars, strategy, from, to, queue, candidate, rest, answer>>

-----------------------------------------------------------------------------
(* DepthFirstSearch.                                                       *)

\* The front of the queue.
TakePath ==
    /\ pc = "queue"
    /\ queue # <<>>
    /\ candidate' = Head(queue)
    /\ queue' = Tail(queue)
    /\ rest' = NextSteps(PathEnd(Head(queue)))
    /\ pc' = IF rest' = {} THEN "queue" ELSE "neighbours"
    /\ UNCHANGED <<mapvars, strategy, from, to, visited, heap, answer>>

\* The body of the loop over the neighbours.
Look(n) ==
    /\ pc = "neighbours"
    /\ n \in rest
    /\ n # to
    /\ IF n \in visited
       THEN UNCHANGED <<queue, visited>>
       ELSE /\ visited' = visited \union {n}
            /\ queue' = Append(queue, Append(candidate, n))
    /\ rest' = rest \ {n}
    /\ pc' = IF rest' = {} THEN "queue" ELSE "neighbours"
    /\ UNCHANGED <<mapvars, strategy, from, to, heap, candidate, answer>>

\* A path is complete as soon as its next node is seen.
See ==
    /\ pc = "neighbours"
    /\ to \in rest
    /\ UNCHANGED visited
    /\ Return(Append(candidate, to))

-----------------------------------------------------------------------------
Search ==
    \/ \E c \in heap : Drop(c) \/ Arrive(c) \/ Extend(c)
    \/ TakePath
    \/ \E n \in rest : Look(n)
    \/ See
    \/ NoPath

Next ==
    \/ Load /\ UNCHANGED searchvars
    \/ \E s \in Strategies : \E a, b \in kept : GetPath(s, a, b)
    \/ Search

Spec == Init /\ [][Next]_vars

\* A search runs to its end.
FairSpec == Spec /\ WF_vars(Search)

-----------------------------------------------------------------------------
(* Invariants.                                                             *)

Paths == Seq(Ids)

\* The types of the variables.
TypeOK ==
    /\ pc \in {"read", "components", "filter", "thrown",
               "idle", "heap", "queue", "neighbours", "undefined"}
    /\ MapTypeOK
    /\ strategy \in Strategies \union {"none"}
    /\ from \in kept \union {"none"}
    /\ to \in kept \union {"none"}
    /\ visited \in SUBSET kept
    /\ heap \in SUBSET [path : Paths, distance : Nat]
    /\ queue \in Seq(Paths)
    /\ candidate \in Paths
    /\ rest \in SUBSET kept
    /\ answer \in Paths

IsRoute(path) ==
    /\ path # <<>>
    /\ path[1] = from
    /\ \A i \in 1..(Len(path) - 1) : path[i + 1] \in NextSteps(path[i])

\* What a search returns is a route: along roads of the graph, from one node to
\* the other.
AnswerIsRoute == answer # <<>> => IsRoute(answer) /\ PathEnd(answer) = to

\* The sum of the distances along a path.
PathLength(path) ==
    LET sum[i \in 0..(Len(path) - 1)] ==
            IF i = 0 THEN 0 ELSE sum[i - 1] + Distance(path[i], path[i + 1])
    IN  sum[Len(path) - 1]

\* All routes that pass no node twice.
SimpleRoutes ==
    LET routes == UNION {[1..n -> kept] : n \in 1..Cardinality(kept)}
    IN  {p \in routes : /\ IsRoute(p)
                        /\ PathEnd(p) = to
                        /\ Cardinality({p[i] : i \in DOMAIN p}) = Len(p)}

\* A* and Dijkstra return a shortest route, although a node is never looked at
\* again once a path to it was taken from the queue; the other search returns one
\* with the fewest roads, but from a node to itself it goes there and back.
AnswerIsBest ==
    answer # <<>> =>
       IF strategy # "dfs"
       THEN \A p \in SimpleRoutes : PathLength(answer) <= PathLength(p)
       ELSE IF from # to
       THEN \A p \in SimpleRoutes : Len(answer) <= Len(p)
       ELSE Len(answer) <= 3

\* The searches end with a path, because the graph is connected; all but the
\* search from a node to itself when it is the only one and has no road.
PathIsFound ==
    pc = "undefined" => strategy = "dfs" /\ kept = {from} /\ NextSteps(from) = {}

\* Every search of GetPath, with each strategy, ends on a route.
RoutesAreFound == TypeOK /\ AnswerIsRoute /\ PathIsFound

-----------------------------------------------------------------------------
\* Every search ends.
SearchEnds == pc \in {"heap", "queue", "neighbours"} ~> pc \in {"idle", "undefined"}
=============================================================================
