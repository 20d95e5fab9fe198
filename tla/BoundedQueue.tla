---------------------------- MODULE BoundedQueue ----------------------------
(***************************************************************************)
(* What connection_queue.c gives its callers, stripped of the ring, the    *)
(* mutex and the condition variables: a first-in first-out queue of at     *)
(* most CAPACITY descriptors that can be shut down.  Every operation takes *)
(* effect in one step between its call and its return.                     *)
(*                                                                         *)
(* This is not what connection_queue.h says of a queue that was shut down: *)
(* "no addition to the queue takes place and an error is returned" (32-34) *)
(* and "no removal from the queue takes place and an error is returned"    *)
(* (42-44).  The code refuses an addition only when the queue is closed    *)
(* AND full, a removal only when it is closed AND empty.  So a closed      *)
(* queue takes more descriptors while it has room, and is drained before   *)
(* its consumers stop.                                                     *)
(***************************************************************************)
EXTENDS Integers, Sequences

CONSTANTS Producers,    \* threads that call connection_enqueue
          Consumers,    \* threads that call connection_dequeue
          Fds,          \* the client sockets' descriptors
          CAPACITY      \* the most descriptors the queue holds

Threads == Producers \union Consumers

VARIABLES items,    \* the descriptors in the queue, oldest first
          closed,   \* 1 once the queue has been shut down, 0 before
          status,   \* [Threads -> {"idle", "operation", "closing"}]
          val       \* the argument of a thread's pending call, or its last result

vars == <<items, closed, status, val>>

Init == /\ items = <<>>
        /\ closed = 0
        /\ status = [t \in Threads |-> "idle"]
        /\ val = [t \in Threads |-> 0]

\* A thread calls an operation with argument v.
Call(t, v) ==
    /\ status[t] = "idle"
    /\ status' = [status EXCEPT ![t] = "operation"]
    /\ val' = [val EXCEPT ![t] = v]
    /\ UNCHANGED <<items, closed>>

\* A pending operation of t returns v.
Return(t, v) ==
    /\ status[t] = "operation"
    /\ status' = [status EXCEPT ![t] = "idle"]
    /\ val' = [val EXCEPT ![t] = v]
    /\ UNCHANGED closed

Add(t) ==
    /\ Len(items) < CAPACITY
    /\ items' = Append(items, val[t])
    /\ Return(t, 0)

Remove(t) ==
    /\ items # <<>>
    /\ items' = Tail(items)
    /\ Return(t, Head(items))

RefuseAdd(t) ==
    /\ closed = 1
    /\ Len(items) = CAPACITY
    /\ UNCHANGED items
    /\ Return(t, -1)

RefuseRemove(t) ==
    /\ closed = 1
    /\ items = <<>>
    /\ UNCHANGED items
    /\ Return(t, -1)

\* The queue is closed at once; the caller is told some time later.
Close(t) ==
    /\ status[t] = "idle"
    /\ status' = [status EXCEPT ![t] = "closing"]
    /\ closed' = 1
    /\ UNCHANGED <<items, val>>

Closed(t) ==
    /\ status[t] = "closing"
    /\ status' = [status EXCEPT ![t] = "idle"]
    /\ val' = [val EXCEPT ![t] = 0]
    /\ UNCHANGED <<items, closed>>

Next ==
    \/ \E t \in Producers :
          \/ \E fd \in Fds : Call(t, fd)
          \/ Add(t)
          \/ RefuseAdd(t)
          \/ Close(t)
          \/ Closed(t)
    \/ \E t \in Consumers :
          \/ Call(t, 0)
          \/ Remove(t)
          \/ RefuseRemove(t)

Spec == Init /\ [][Next]_vars
=============================================================================
