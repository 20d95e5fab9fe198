--------------------------- MODULE ConnectionQueue ---------------------------
(***************************************************************************)
(* connection_queue.c: the ring of client sockets that the accepting       *)
(* thread fills and the worker threads empty.                              *)
(*                                                                         *)
(* A thread inside an operation is at one of these places:                 *)
(*   "lock"     about to take the mutex, on entry or when pthread_cond_wait*)
(*              returns                                                    *)
(*   "test"     owns the mutex, about to test the loop condition           *)
(*   "blocked"  found the queue full (empty), about to read shutdown       *)
(*   "wait"     read shutdown = 0, about to call pthread_cond_wait         *)
(*   "sleep"    inside pthread_cond_wait, mutex released                   *)
(*   "bempty", "bfull"  in connection_queue_shutdown, about to broadcast   *)
(* What runs between "test" and the unlock touches nothing that is used    *)
(* without the mutex, so it is one step.  The flag shutdown is written     *)
(* WITHOUT the mutex (line 144), so reading it is a step of its own.  That *)
(* write races with the read at lines 42 and 96; on the platforms the      *)
(* Makefile builds for the read sees the old or the new value, which is    *)
(* what interleaving the two steps gives.                                  *)
(*                                                                         *)
(* The pthread calls themselves do not fail here: on an initialized        *)
(* default mutex and condition variable they have no error to report.      *)
(* Initialization, which can fail, is in HttpServer.                       *)
(***************************************************************************)
EXTENDS Integers, Sequences, FiniteSets

CONSTANTS Producers,    \* threads that call connection_enqueue and _shutdown
          Consumers,    \* threads that call connection_dequeue
          Fds,          \* the client sockets' descriptors
          CAPACITY,     \* #define CAPACITY
          NoThread      \* the owner of a free mutex

Threads == Producers \union Consumers

ASSUME ThreadsAssumption ==
    /\ Producers \intersect Consumers = {}
    /\ NoThread \notin Threads
    /\ IsFiniteSet(Threads)

\* Descriptors 0, 1 and 2 are the standard streams, -1 is the error value.
ASSUME FdsAssumption == Fds \subseteq Nat \ {0}

ASSUME CapacityAssumption == CAPACITY \in Nat \ {0}

VARIABLES client_fds,   \* the ring, [0..CAPACITY-1 -> Fds \union {0}]
          length,
          read_idx,
          write_idx,
          shutdown,
          mutex,        \* the thread that owns it, or NoThread
          at,           \* where each thread is, see above
          val           \* a thread's argument while it is in a call, then its result

qvars == <<client_fds, length, read_idx, write_idx, shutdown, mutex, at, val>>

QInit ==
    /\ client_fds = [i \in 0..CAPACITY-1 |-> 0]
    /\ length = 0
    /\ read_idx = 0
    /\ write_idx = 0
    /\ shutdown = 0
    /\ mutex = NoThread
    /\ at = [t \in Threads |-> "idle"]
    /\ val = [t \in Threads |-> 0]

-----------------------------------------------------------------------------
\* Threads asleep on the condition variables: enqueue waits on "full" (line
\* 46), dequeue on "empty" (line 100).
WaitsOnFull == {t \in Producers : at[t] = "sleep"}
WaitsOnEmpty == {t \in Consumers : at[t] = "sleep"}

\* Enqueue signals "empty" (line 68), dequeue signals "full" (line 123).
\* Mutants: signal only a queue that was empty; the wrong variable; nobody.
SignalledByPut_IfEmpty == IF length = 0 THEN WaitsOnEmpty ELSE {}
SignalledByPut_Full == WaitsOnFull
SignalledByPut == WaitsOnEmpty
SignalledByTake == WaitsOnFull

\* pthread_cond_signal on the condition variable with these waiters, while t
\* returns from its operation: one of them wakes up and wants the mutex.
SignalAndReturn(t, waiters) ==
    IF waiters = {}
    THEN at' = [at EXCEPT ![t] = "idle"]
    ELSE \E w \in waiters : at' = [at EXCEPT ![t] = "idle", ![w] = "lock"]

\* pthread_cond_broadcast, while t goes on to next.
BroadcastAndGo(t, waiters, next) ==
    at' = [u \in Threads |-> IF u = t THEN next
                             ELSE IF u \in waiters THEN "lock" ELSE at[u]]

\* The index after i, back to the start at the end of the array.
After(i) == IF i + 1 = CAPACITY THEN 0 ELSE i + 1

\* What the next dequeue fetches.
Fetched_TooLate == client_fds[After(read_idx)]  \* mutant: advances first
Fetched == client_fds[read_idx]

\* The condition of the while loop: no room to enqueue, nothing to dequeue.
Blocked(t) == IF t \in Producers THEN length = CAPACITY ELSE length = 0

-----------------------------------------------------------------------------
\* connection_enqueue(queue, fd) and connection_dequeue(queue) are called.
EnqueueCall(t, fd) ==
    /\ at[t] = "idle"
    /\ at' = [at EXCEPT ![t] = "lock"]
    /\ val' = [val EXCEPT ![t] = fd]
    /\ UNCHANGED <<client_fds, length, read_idx, write_idx, shutdown, mutex>>

DequeueCall(t) ==
    /\ at[t] = "idle"
    /\ at' = [at EXCEPT ![t] = "lock"]
    /\ val' = [val EXCEPT ![t] = 0]
    /\ UNCHANGED <<client_fds, length, read_idx, write_idx, shutdown, mutex>>

\* pthread_mutex_lock, or the end of pthread_cond_wait.
Lock(t) ==
    /\ at[t] = "lock"
    /\ mutex = NoThread
    /\ mutex' = t
    /\ at' = [at EXCEPT ![t] = "test"]
    /\ UNCHANGED <<client_fds, length, read_idx, write_idx, shutdown, val>>

\* Mutant: the loop body is entered without testing the loop condition.
FindBlocked_Unconditionally(t) ==
    /\ at[t] = "test"
    /\ at' = [at EXCEPT ![t] = "blocked"]
    /\ UNCHANGED <<client_fds, length, read_idx, write_idx, shutdown, mutex, val>>

\* while (queue->length == CAPACITY) or (queue->length == 0): enter the body.
FindBlocked(t) ==
    /\ at[t] = "test"
    /\ Blocked(t)
    /\ at' = [at EXCEPT ![t] = "blocked"]
    /\ UNCHANGED <<client_fds, length, read_idx, write_idx, shutdown, mutex, val>>

\* Mutant: the early return forgets pthread_mutex_unlock.
FailIfShutdown_KeepsMutex(t) ==
    /\ at[t] = "blocked"
    /\ shutdown = 1
    /\ at' = [at EXCEPT ![t] = "idle"]
    /\ val' = [val EXCEPT ![t] = -1]
    /\ UNCHANGED <<client_fds, length, read_idx, write_idx, shutdown, mutex>>

\* if (queue->shutdown == 1): unlock and return -1.
FailIfShutdown(t) ==
    /\ at[t] = "blocked"
    /\ shutdown = 1
    /\ mutex' = NoThread
    /\ at' = [at EXCEPT ![t] = "idle"]
    /\ val' = [val EXCEPT ![t] = -1]
    /\ UNCHANGED <<client_fds, length, read_idx, write_idx, shutdown>>

DecideToWait(t) ==
    /\ at[t] = "blocked"
    /\ shutdown # 1
    /\ at' = [at EXCEPT ![t] = "wait"]
    /\ UNCHANGED <<client_fds, length, read_idx, write_idx, shutdown, mutex, val>>

\* pthread_cond_wait: release the mutex and fall asleep, in one step.
CondWait(t) ==
    /\ at[t] = "wait"
    /\ mutex' = NoThread
    /\ at' = [at EXCEPT ![t] = "sleep"]
    /\ UNCHANGED <<client_fds, length, read_idx, write_idx, shutdown, val>>

\* POSIX lets pthread_cond_wait return although nobody signalled.
SpuriousWakeup(t) ==
    /\ at[t] = "sleep"
    /\ at' = [at EXCEPT ![t] = "lock"]
    /\ UNCHANGED <<client_fds, length, read_idx, write_idx, shutdown, mutex, val>>

\* The rest of connection_enqueue: store, advance, signal "empty", unlock.
Put(t) ==
    /\ at[t] = "test"
    /\ ~Blocked(t)
    /\ client_fds' = [client_fds EXCEPT ![write_idx] = val[t]]
    /\ length' = length + 1
    /\ write_idx' = After(write_idx)
    /\ SignalAndReturn(t, SignalledByPut)
    /\ mutex' = NoThread
    /\ val' = [val EXCEPT ![t] = 0]
    /\ UNCHANGED <<read_idx, shutdown>>

\* The rest of connection_dequeue: fetch, advance, signal "full", unlock.
Take(t) ==
    /\ at[t] = "test"
    /\ ~Blocked(t)
    /\ val' = [val EXCEPT ![t] = Fetched]
    /\ length' = length - 1
    /\ read_idx' = After(read_idx)
    /\ SignalAndReturn(t, SignalledByTake)
    /\ mutex' = NoThread
    /\ UNCHANGED <<client_fds, write_idx, shutdown>>

\* connection_queue_shutdown, which never takes the mutex: the flag, then the
\* two broadcasts.
SetShutdown(t) ==
    /\ at[t] = "idle"
    /\ shutdown' = 1
    /\ at' = [at EXCEPT ![t] = "bempty"]
    /\ UNCHANGED <<client_fds, length, read_idx, write_idx, mutex, val>>

BroadcastEmpty_Signals(t) ==    \* mutant: pthread_cond_signal
    /\ at[t] = "bempty"
    /\ \E w \in WaitsOnEmpty \union {t} : BroadcastAndGo(t, {w}, "bfull")
    /\ UNCHANGED <<client_fds, length, read_idx, write_idx, shutdown, mutex, val>>

BroadcastEmpty(t) ==
    /\ at[t] = "bempty"
    /\ BroadcastAndGo(t, WaitsOnEmpty, "bfull")
    /\ UNCHANGED <<client_fds, length, read_idx, write_idx, shutdown, mutex, val>>

BroadcastFull(t) ==
    /\ at[t] = "bfull"
    /\ BroadcastAndGo(t, WaitsOnFull, "idle")
    /\ val' = [val EXCEPT ![t] = 0]
    /\ UNCHANGED <<client_fds, length, read_idx, write_idx, shutdown, mutex>>

-----------------------------------------------------------------------------
\* The steps a thread takes inside the operations, once it has called one.
Step(t) ==
    \/ Lock(t)
    \/ FindBlocked(t)
    \/ FailIfShutdown(t)
    \/ DecideToWait(t)
    \/ CondWait(t)
    \/ t \in Producers /\ Put(t)
    \/ t \in Consumers /\ Take(t)
    \/ BroadcastEmpty(t)
    \/ BroadcastFull(t)

\* Any caller: producers enqueue any descriptor and may shut the queue down.
QNext ==
    \/ \E t \in Threads : Step(t) \/ SpuriousWakeup(t)
    \/ \E t \in Producers : SetShutdown(t) \/ \E fd \in Fds : EnqueueCall(t, fd)
    \/ \E t \in Consumers : DequeueCall(t)

QSpec == QInit /\ [][QNext]_qvars

\* A thread inside an operation keeps running, and a thread that finds the
\* mutex free again and again gets it in the end.  Nothing makes a thread call
\* an operation, and nothing makes a sleeper wake up unless it is signalled.
QFairness == \A t \in Threads : WF_qvars(Step(t)) /\ SF_qvars(Lock(t))

QFairSpec == QSpec /\ QFairness

-----------------------------------------------------------------------------
Places == {"idle", "lock", "test", "blocked", "wait", "sleep", "bempty", "bfull"}

\* Types of the state.
QTypeOK ==
    /\ client_fds \in [0..CAPACITY-1 -> Fds \union {0}]
    /\ length \in 0..CAPACITY
    /\ read_idx \in 0..CAPACITY-1
    /\ write_idx \in 0..CAPACITY-1
    /\ shutdown \in {0, 1}
    /\ mutex \in Threads \union {NoThread}
    /\ at \in [Threads -> Places]
    /\ val \in [Threads -> Fds \union {0, -1}]

\* The slot of the i-th oldest descriptor, 1 <= i <= length.
Slot(i) == LET j == read_idx + i - 1
           IN  IF j < CAPACITY THEN j ELSE j - CAPACITY

\* The descriptors between read_idx and write_idx, oldest first.
Contents == [i \in 1..length |-> client_fds[Slot(i)]]

\* The slots in use.
Occupied == {Slot(i) : i \in 1..length}

\* The three counters agree: length descriptors from read_idx on end at
\* write_idx, and each of them was stored by an enqueue, it is not the 0 of
\* memset.  Enqueue moves two of the counters, dequeue two others.
RingConsistent ==
    /\ write_idx = Slot(length + 1)
    /\ \A i \in 1..length : Contents[i] \in Fds

\* Exactly the threads between lock and unlock own the mutex, so the unlocked
\* parts of the operations cannot corrupt the ring.
MutualExclusion ==
    \A t \in Threads : at[t] \in {"test", "blocked", "wait"} <=> mutex = t

\* What a thread concluded from length still holds when it acts on it: whoever
\* goes to sleep or returns -1 does so on a full (empty) queue.
DecisionIsFresh ==
    \A t \in Threads : at[t] \in {"blocked", "wait"} => Blocked(t)

\* A producer inside connection_enqueue still holds the descriptor it was
\* called with, and only producers shut the queue down.
CallsAreKept ==
    /\ \A t \in Producers :
          at[t] \in {"lock", "test", "blocked", "wait", "sleep"} => val[t] \in Fds
    /\ \A t \in Consumers : at[t] \notin {"bempty", "bfull"}

\* The inductive invariant: what one operation leaves for the next.
QInv == QTypeOK /\ RingConsistent /\ MutualExclusion /\ DecisionIsFresh /\ CallsAreKept

\* Consumers (producers) that are awake inside their operation and have not
\* yet found the queue empty (full).
Awake(T) == {t \in T : at[t] \in {"lock", "test"}}

\* No signal is lost: while consumers sleep on "empty" there are as many
\* others awake as there are descriptors to fetch, and while producers sleep on
\* "full" as many others as there is room; pthread_cond_signal wakes one thread
\* per enqueue or dequeue, whoever takes the descriptor in between.
NoLostSignal ==
    /\ WaitsOnEmpty # {} => Cardinality(Awake(Consumers)) >= length
    /\ WaitsOnFull # {} => Cardinality(Awake(Producers)) >= CAPACITY - length

-----------------------------------------------------------------------------
\* What the abstract queue sees of a thread.
StatusOf(place) ==
    CASE place = "idle" -> "idle"
      [] place \in {"bempty", "bfull"} -> "closing"
      [] OTHER -> "operation"

Abstract == INSTANCE BoundedQueue
              WITH items <- Contents,
                   closed <- shutdown,
                   status <- [t \in Threads |-> StatusOf(at[t])],
                   val <- val

\* The ring behind its mutex is a linearizable bounded FIFO queue: every
\* descriptor that enqueue accepted is fetched once, in order.  Operations fail only on
\* a full (empty) queue that was shut down, where connection_queue.h:32-34 and 42-44 say
\* that they fail on every one that was.
ImplementsBoundedQueue == Abstract!Spec

\* A full queue does not stay full while a consumer is inside dequeue, nor an
\* empty one empty while a producer is inside enqueue: someone takes a step
\* whatever the signals and wakeups did.
FullIsDrained ==
    (length = CAPACITY /\ \E t \in Consumers : at[t] # "idle") ~> length < CAPACITY

EmptyIsFilled ==
    (length = 0 /\ \E t \in Producers : at[t] \in {"lock", "test", "sleep"}) ~> length > 0

\* Neither side is held up while the other one is inside its operation: no signal of a
\* dequeue (enqueue) is lost on threads that do not need it.
QueueMovesOn == FullIsDrained /\ EmptyIsFilled

\* connection_queue.h:51 "All threads currently blocked on an enqueue or
\* dequeue operation are unblocked and an error is returned to them."  The
\* write of the flag does not take the mutex, so it and the broadcast can fall
\* between a thread's test of the flag and its pthread_cond_wait.
ShutdownUnblocks ==
    \A t \in Threads : (shutdown = 1 /\ at[t] = "sleep") ~> at[t] # "sleep"
=============================================================================
