-------------------------- MODULE ConnectionHandoff --------------------------
(***************************************************************************)
(* What the HTTP server promises a client, without threads: an accepted    *)
(* connection waits in line, is served by one of at most MaxServing        *)
(* workers, in the order of acceptance, and is then closed, once.  At most *)
(* MaxLine accepted connections wait.                                      *)
(***************************************************************************)
EXTENDS Naturals, Sequences, FiniteSets

CONSTANTS Clients, MaxLine, MaxServing

VARIABLES line,      \* accepted and not yet served, oldest first
          serving,   \* being read from or written to
          finished   \* closed

vars == <<line, serving, finished>>

Init == line = <<>> /\ serving = {} /\ finished = {}

Accept(c) ==
    /\ Len(line) < MaxLine
    /\ c \notin serving \union finished
    /\ \A i \in 1..Len(line) : line[i] # c
    /\ line' = Append(line, c)
    /\ UNCHANGED <<serving, finished>>

Serve ==
    /\ line # <<>>
    /\ Cardinality(serving) < MaxServing
    /\ serving' = serving \union {Head(line)}
    /\ line' = Tail(line)
    /\ UNCHANGED finished

Finish(c) ==
    /\ c \in serving
    /\ serving' = serving \ {c}
    /\ finished' = finished \union {c}
    /\ UNCHANGED line

Next == Serve \/ \E c \in Clients : Accept(c) \/ Finish(c)

Spec == Init /\ [][Next]_vars
=============================================================================
