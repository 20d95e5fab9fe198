-------------------------- MODULE HttpServerProofs --------------------------
(***************************************************************************)
(* Theorems about the queue of the HTTP server, for any producers and      *)
(* consumers, and about HttpServer, which uses it, for any number of       *)
(* workers and clients; all of them for any CAPACITY > 0.                  *)
(***************************************************************************)
EXTENDS HttpServer, SequenceTheorems, FiniteSetTheorems, TLAPS

(***************************************************************************)
(* The queue.  From here to NoSignalIsLost the proofs use the assumptions  *)
(* of ConnectionQueue and none about main() or the workers.                *)
(***************************************************************************)

USE DEF Threads

-----------------------------------------------------------------------------
\* A signal changes nobody's place but the caller's and one waiter's.
LEMMA SignalPlaces ==
    ASSUME NEW t \in Threads, NEW W \in SUBSET Threads, t \notin W,
           at \in [Threads -> Places], SignalAndReturn(t, W)
    PROVE  /\ at' \in [Threads -> Places]
           /\ at'[t] = "idle"
           /\ \A u \in Threads : u # t => \/ at'[u] = at[u]
                                          \/ u \in W /\ at'[u] = "lock"
<1>1. CASE W = {}
  BY <1>1, SMT DEF SignalAndReturn, Places
<1>2. CASE W # {}
  <2>1. PICK w \in W : at' = [at EXCEPT ![t] = "idle", ![w] = "lock"]
    BY <1>2 DEF SignalAndReturn
  <2>q. QED BY <2>1 DEF Places
<1>q. QED BY <1>1, <1>2

\* Put and Take signal the sleepers of the other side.
LEMMA Waiters ==
    /\ SignalledByPut \in SUBSET Consumers
    /\ SignalledByTake \in SUBSET Producers
    /\ \A u \in SignalledByPut \union SignalledByTake : at[u] = "sleep"
BY DEF SignalledByPut, SignalledByTake, WaitsOnEmpty, WaitsOnFull

\* The slots of the ring are closed under After.
LEMMA AfterInRing == ASSUME NEW i \in 0..CAPACITY-1 PROVE After(i) \in 0..CAPACITY-1
BY CapacityAssumption DEF After

\* The slots of the i-th oldest descriptors follow each other in the ring.
LEMMA SlotProperties ==
    ASSUME QTypeOK
    PROVE  /\ \A i \in 1..CAPACITY+1 : Slot(i) \in 0..CAPACITY-1
           /\ Slot(1) = read_idx
           /\ \A i \in 1..CAPACITY : Slot(i + 1) = After(Slot(i))
           /\ \A i, j \in 1..CAPACITY : i # j => Slot(i) # Slot(j)
BY CapacityAssumption DEF QTypeOK, Slot, After

\* A step that leaves the ring alone leaves its contents alone.
LEMMA RingUnchanged ==
    ASSUME RingConsistent, UNCHANGED <<client_fds, length, read_idx, write_idx>>
    PROVE  RingConsistent' /\ Contents' = Contents
BY DEF RingConsistent, Contents, Slot

\* QInv holds initially and every step preserves it.
THEOREM QInvInductive ==
    /\ QInit => QInv
    /\ QInv /\ [QNext]_qvars => QInv'
<1>1. QInit => QInv
  BY CapacityAssumption, ThreadsAssumption
  DEF QInit, QInv, QTypeOK, RingConsistent, MutualExclusion, DecisionIsFresh,
      CallsAreKept, Places, Slot
<1>2. QInv /\ [QNext]_qvars => QInv'
  <2> SUFFICES ASSUME QInv, [QNext]_qvars PROVE QInv'
    OBVIOUS
  <2> USE CapacityAssumption, ThreadsAssumption
      DEF QInv, QTypeOK, MutualExclusion, DecisionIsFresh, CallsAreKept
  <2>1. ASSUME NEW t \in Producers, NEW fd \in Fds, EnqueueCall(t, fd) PROVE QInv'
    BY <2>1, RingUnchanged, FdsAssumption DEF EnqueueCall, Places, Blocked
  <2>2. ASSUME NEW t \in Consumers, DequeueCall(t) PROVE QInv'
    BY <2>2, RingUnchanged DEF DequeueCall, Places, Blocked
  <2>3. ASSUME NEW t \in Threads, Lock(t) PROVE QInv'
    BY <2>3, RingUnchanged DEF Lock, Places, Blocked
  <2>4. ASSUME NEW t \in Threads, FindBlocked(t) PROVE QInv'
    BY <2>4, RingUnchanged DEF FindBlocked, Places, Blocked
  <2>5. ASSUME NEW t \in Threads, FailIfShutdown(t) PROVE QInv'
    BY <2>5, RingUnchanged DEF FailIfShutdown, Places, Blocked
  <2>6. ASSUME NEW t \in Threads, DecideToWait(t) PROVE QInv'
    BY <2>6, RingUnchanged DEF DecideToWait, Places, Blocked
  <2>7. ASSUME NEW t \in Threads, CondWait(t) PROVE QInv'
    BY <2>7, RingUnchanged DEF CondWait, Places, Blocked
  <2>8. ASSUME NEW t \in Threads, SpuriousWakeup(t) PROVE QInv'
    BY <2>8, RingUnchanged DEF SpuriousWakeup, Places, Blocked
  <2>9. ASSUME NEW t \in Producers, Put(t) PROVE QInv'
    <3>1. /\ at' \in [Threads -> Places]
          /\ at'[t] = "idle"
          /\ \A u \in Threads : u # t => \/ at'[u] = at[u]
                                         \/ /\ u \in Consumers /\ at[u] = "sleep"
                                            /\ at'[u] = "lock"
      BY <2>9, SignalPlaces, Waiters DEF Put
    <3>2. mutex = t /\ \A u \in Threads : u # t => at[u] \notin {"test", "blocked", "wait"}
      BY <2>9 DEF Put
    <3>3. val[t] \in Fds /\ length < CAPACITY
      BY <2>9 DEF Put, Blocked
    <3>4. QTypeOK'
      BY <2>9, <3>1, <3>3, AfterInRing DEF Put
    <3>5. MutualExclusion' /\ DecisionIsFresh' /\ CallsAreKept'
      BY <2>9, <3>1, <3>2 DEF Put
    <3>6. RingConsistent'
      <4>1. write_idx = Slot(length + 1) /\ length + 1 \in 1..CAPACITY
        BY <3>3 DEF RingConsistent
      <4>2. write_idx' = Slot(length + 1)'
        <5>1. write_idx' = Slot(length + 2)
          BY <2>9, <4>1, SlotProperties DEF Put
        <5>2. Slot(length + 1)' = Slot(length + 2)
          BY <2>9, <3>3 DEF Put, Slot
        <5>q. QED BY <5>1, <5>2
      <4>3. ASSUME NEW i \in 1..length+1 PROVE client_fds'[Slot(i)] \in Fds
        BY <2>9, <3>3, SlotProperties DEF Put, RingConsistent, Contents
      <4>4. length' = length + 1 /\ \A i \in 1..length+1 : Slot(i)' = Slot(i)
        BY <2>9 DEF Put, Slot
      <4>q. QED BY <4>2, <4>3, <4>4 DEF RingConsistent, Contents
    <3>q. QED BY <3>4, <3>5, <3>6
  <2>10. ASSUME NEW t \in Consumers, Take(t) PROVE QInv'
    <3>1. /\ at' \in [Threads -> Places]
          /\ at'[t] = "idle"
          /\ \A u \in Threads : u # t => \/ at'[u] = at[u]
                                         \/ /\ u \in Producers /\ at[u] = "sleep"
                                            /\ at'[u] = "lock"
      BY <2>10, SignalPlaces, Waiters DEF Take
    <3>2. mutex = t /\ \A u \in Threads : u # t => at[u] \notin {"test", "blocked", "wait"}
      BY <2>10 DEF Take
    <3>3. length > 0
      BY <2>10 DEF Take, Blocked
    <3>4. QTypeOK'
      BY <2>10, <3>1, <3>3, AfterInRing DEF Take, Fetched
    <3>5. MutualExclusion' /\ DecisionIsFresh' /\ CallsAreKept'
      BY <2>10, <3>1, <3>2 DEF Take
    <3>6. RingConsistent'
      <4>1. \A i \in 1..length : Slot(i)' = Slot(i + 1)
        BY <2>10 DEF Take, Slot, After
      <4>q. QED BY <2>10, <3>3, <4>1 DEF Take, RingConsistent, Contents
    <3>q. QED BY <3>4, <3>5, <3>6
  <2>11. ASSUME NEW t \in Producers, SetShutdown(t) PROVE QInv'
    BY <2>11, RingUnchanged DEF SetShutdown, Places, Blocked
  <2>12. ASSUME NEW t \in Threads, BroadcastEmpty(t) \/ BroadcastFull(t) PROVE QInv'
    BY <2>12, RingUnchanged
    DEF BroadcastEmpty, BroadcastFull, BroadcastAndGo, Places, Blocked, WaitsOnEmpty, WaitsOnFull
  <2>13. CASE UNCHANGED qvars
    BY <2>13, RingUnchanged DEF qvars, Blocked
  <2>q. QED
    BY <2>1, <2>2, <2>3, <2>4, <2>5, <2>6, <2>7, <2>8, <2>9, <2>10, <2>11,
       <2>12, <2>13 DEF QNext, Step
<1>q. QED BY <1>1, <1>2

\* Hence the inductive invariant always holds.
THEOREM QInvAlways == QSpec => []QInv
BY QInvInductive, PTL DEF QSpec

\* The state is always of its type: ring indices and length never leave their
\* bounds, whatever the threads do.
THEOREM TypeCorrect == QSpec => []QTypeOK
<1>1. QInv => QTypeOK
  BY DEF QInv
<1>q. QED BY <1>1, QInvInductive, PTL DEF QSpec

\* The ring's three counters always agree and every queued slot was written.
THEOREM RingIsConsistent == QSpec => []RingConsistent
<1>1. QInv => RingConsistent
  BY DEF QInv
<1>q. QED BY <1>1, QInvInductive, PTL DEF QSpec

\* The mutex protects the ring: only its owner is past the lock.
THEOREM MutexProtects == QSpec => []MutualExclusion
<1>1. QInv => MutualExclusion
  BY DEF QInv
<1>q. QED BY <1>1, QInvInductive, PTL DEF QSpec

\* A thread never acts on a stale test of the queue's length.
THEOREM DecisionsAreFresh == QSpec => []DecisionIsFresh
<1>1. QInv => DecisionIsFresh
  BY DEF QInv
<1>q. QED BY <1>1, QInvInductive, PTL DEF QSpec

-----------------------------------------------------------------------------
\* The contents are a sequence of length elements.
LEMMA ContentsLength ==
    ASSUME QTypeOK
    PROVE  /\ Contents \in Seq(Fds \union {0})
           /\ Len(Contents) = length
           /\ length > 0 => Head(Contents) = Fetched
<1>1. \A i \in 1..length : Slot(i) \in 0..CAPACITY-1
  <2>1. \A i \in 1..length : i \in 1..CAPACITY+1
    BY CapacityAssumption DEF QTypeOK
  <2>q. QED BY <2>1, SlotProperties
<1>2. \A i \in 1..length : client_fds[Slot(i)] \in Fds \union {0}
  BY <1>1 DEF QTypeOK
<1>3. length \in Nat
  BY CapacityAssumption DEF QTypeOK
<1>4. Contents \in Seq(Fds \union {0}) /\ Len(Contents) = length
  BY <1>2, <1>3 DEF Contents
<1>5. length > 0 => Head(Contents) = Fetched
  BY <1>3, <1>4, SlotProperties DEF Contents, Fetched
<1>q. QED BY <1>4, <1>5

\* An enqueue appends, a dequeue removes the oldest.
LEMMA PutAppends ==
    ASSUME QInv, NEW t \in Producers, Put(t)
    PROVE  Contents' = Append(Contents, val[t])
<1> USE CapacityAssumption DEF QInv, QTypeOK
<1>1. length < CAPACITY /\ write_idx = Slot(length + 1)
  BY DEF Put, Blocked, RingConsistent
<1>2. /\ length' = length + 1
      /\ client_fds' = [client_fds EXCEPT ![write_idx] = val[t]]
      /\ \A i \in 1..length+1 : Slot(i)' = Slot(i)
  BY DEF Put, Slot
<1>3. Contents' = [i \in 1..length+1 |-> IF i = length + 1 THEN val[t] ELSE Contents[i]]
  <2>1. Contents' = [i \in 1..length+1 |-> client_fds'[Slot(i)]]
    BY <1>2 DEF Contents
  <2>2. ASSUME NEW i \in 1..length+1
        PROVE  client_fds'[Slot(i)] = IF i = length + 1 THEN val[t] ELSE Contents[i]
    <3>1. i \in 1..CAPACITY /\ length + 1 \in 1..CAPACITY
      BY <1>1
    <3>2. Slot(i) \in 0..CAPACITY-1 /\ (i # length + 1 => Slot(i) # write_idx)
      BY <1>1, <3>1, SlotProperties
    <3>q. QED BY <1>1, <1>2, <3>2 DEF Contents
  <2>q. QED BY <2>1, <2>2
<1>4. Append(Contents, val[t]) =
        [i \in 1..length+1 |-> IF i = length + 1 THEN val[t] ELSE Contents[i]]
  BY ContentsLength
<1>q. QED BY <1>3, <1>4

LEMMA TakeRemoves ==
    ASSUME QInv, NEW t \in Consumers, Take(t)
    PROVE  Contents' = Tail(Contents)
<1> USE CapacityAssumption DEF QInv, QTypeOK
<1>1. length > 0
  BY ThreadsAssumption DEF Take, Blocked
<1>2. /\ length' = length - 1
      /\ client_fds' = client_fds
      /\ \A i \in 1..length-1 : Slot(i)' = Slot(i + 1)
  BY <1>1 DEF Take, Slot, After
<1>3. Contents' = [i \in 1..length-1 |-> Contents[i + 1]]
  BY <1>1, <1>2 DEF Contents
<1>4. Tail(Contents) = [i \in 1..length-1 |-> Contents[i + 1]]
  BY <1>1, ContentsLength, HeadTailProperties
<1>q. QED BY <1>3, <1>4

\* An enqueue takes the free slot write_idx, a dequeue frees the slot read_idx.
LEMMA PutOccupies ==
    ASSUME QInv, NEW t \in Producers, Put(t)
    PROVE  write_idx \notin Occupied /\ Occupied' = Occupied \union {write_idx}
<1> USE CapacityAssumption DEF QInv, QTypeOK
<1>1. length < CAPACITY /\ write_idx = Slot(length + 1) /\ length + 1 \in 1..CAPACITY
  BY DEF Put, Blocked, RingConsistent
<1>2. length' = length + 1 /\ \A i \in 1..length+1 : Slot(i)' = Slot(i)
  BY DEF Put, Slot
<1>3. \A i \in 1..length : i \in 1..CAPACITY /\ i # length + 1
  BY <1>1
<1>4. \A i \in 1..length : Slot(i) # Slot(length + 1)
  BY <1>1, <1>3, SlotProperties
<1>5. write_idx \notin Occupied
  BY <1>1, <1>4 DEF Occupied
<1>6. Occupied' = {Slot(i) : i \in 1..length+1}
  BY <1>2 DEF Occupied
<1>7. 1..length+1 = (1..length) \union {length + 1}
  OBVIOUS
<1>8. Occupied' = Occupied \union {write_idx}
  BY <1>1, <1>6, <1>7 DEF Occupied
<1>q. QED BY <1>5, <1>8

LEMMA TakeFrees ==
    ASSUME QInv, NEW t \in Consumers, Take(t)
    PROVE  read_idx \in Occupied /\ Occupied' = Occupied \ {read_idx}
<1> USE CapacityAssumption DEF QInv, QTypeOK
<1>1. length > 0
  BY ThreadsAssumption DEF Take, Blocked
<1>2. length' = length - 1 /\ \A i \in 1..length-1 : Slot(i)' = Slot(i + 1)
  BY <1>1 DEF Take, Slot, After
<1>3. Slot(1) = read_idx /\ \A i \in 2..length : Slot(i) # read_idx
  BY <1>1, SlotProperties
<1>4. Occupied = {read_idx} \union {Slot(i) : i \in 2..length}
  BY <1>1, <1>3 DEF Occupied
<1>5. Occupied' = {Slot(i) : i \in 2..length}
  <2>1. Occupied' = {Slot(i + 1) : i \in 1..length-1}
    <3>1. Occupied' = {Slot(i)' : i \in 1..length-1}
      BY <1>2 DEF Occupied
    <3>q. QED BY <1>2, <3>1
  <2>2. \A i \in 2..length : i - 1 \in 1..length-1 /\ (i - 1) + 1 = i
    OBVIOUS
  <2>3. \A i \in 1..length-1 : i + 1 \in 2..length
    OBVIOUS
  <2>q. QED BY <2>1, <2>2, <2>3
<1>q. QED BY <1>3, <1>4, <1>5

\* What a signal does to the meaning of places: a woken sleeper is still in its
\* operation, only the caller's returns.
LEMMA SignalStatus ==
    ASSUME NEW t \in Threads, at[t] = "test", at \in [Threads -> Places],
           NEW W \in SUBSET Threads, \A u \in W : at[u] = "sleep",
           SignalAndReturn(t, W)
    PROVE  /\ StatusOf(at[t]) = "operation"
           /\ [u \in Threads |-> StatusOf(at[u])]' =
                [[u \in Threads |-> StatusOf(at[u])] EXCEPT ![t] = "idle"]
<1>1. t \notin W
  OBVIOUS
<1>2. /\ at'[t] = "idle"
      /\ \A u \in Threads : u # t => \/ at'[u] = at[u]
                                     \/ u \in W /\ at'[u] = "lock"
  BY <1>1, SignalPlaces
<1>3. StatusOf(at'[t]) = "idle"
  BY <1>2 DEF StatusOf
<1>4. \A u \in Threads \ {t} : StatusOf(at'[u]) = StatusOf(at[u])
  BY <1>2 DEF StatusOf
<1>5. StatusOf(at[t]) = "operation"
  BY DEF StatusOf
<1>q. QED BY <1>3, <1>4, <1>5

\* The ring behind its mutex implements the abstract bounded queue: each
\* operation takes effect in one step, in first-in first-out order, and fails
\* only on a full (empty) queue that has been shut down.
THEOREM ImplementsAbstractQueue == QSpec => ImplementsBoundedQueue
<1>1. QInit => Abstract!Init
  <2> SUFFICES ASSUME QInit PROVE Abstract!Init
    OBVIOUS
  <2>1. Contents = <<>>
    BY DEF QInit, Contents
  <2>q. QED BY <2>1 DEF QInit, Abstract!Init, Abstract!Threads, StatusOf
<1>2. QInv /\ QInv' /\ [QNext]_qvars => [Abstract!Next]_(Abstract!vars)
  <2> SUFFICES ASSUME QInv, QInv', [QNext]_qvars
               PROVE  [Abstract!Next]_(Abstract!vars)
    OBVIOUS
  <2> DEFINE status == [u \in Threads |-> StatusOf(at[u])]
  <2> QTypeOK /\ QTypeOK'
    BY DEF QInv
  <2>0. ASSUME NEW t \in Threads,
               \/ Lock(t) \/ FindBlocked(t) \/ DecideToWait(t) \/ CondWait(t)
               \/ SpuriousWakeup(t) \/ BroadcastEmpty(t)
        PROVE  UNCHANGED Abstract!vars
    <3>1. UNCHANGED <<client_fds, length, read_idx, write_idx, shutdown, val>>
      BY <2>0 DEF Lock, FindBlocked, DecideToWait, CondWait, SpuriousWakeup, BroadcastEmpty
    <3>2. \A u \in Threads : StatusOf(at[u])' = StatusOf(at[u])
      BY <2>0 DEF Lock, FindBlocked, DecideToWait, CondWait, SpuriousWakeup,
         BroadcastEmpty, BroadcastAndGo, WaitsOnEmpty, StatusOf, QTypeOK
    <3>3. UNCHANGED status
      BY <3>2
    <3>q. QED BY <3>1, <3>3, RingUnchanged DEF Abstract!vars, QInv
  <2>1. ASSUME NEW t \in Producers, NEW fd \in Fds, EnqueueCall(t, fd)
        PROVE  Abstract!Call(t, fd)
    <3>1. status' = [status EXCEPT ![t] = "operation"] /\ status[t] = "idle"
      BY <2>1 DEF EnqueueCall, StatusOf, QTypeOK
    <3>q. QED BY <2>1, <3>1, RingUnchanged DEF EnqueueCall, QInv, Abstract!Call
  <2>2. ASSUME NEW t \in Consumers, DequeueCall(t) PROVE Abstract!Call(t, 0)
    <3>1. status' = [status EXCEPT ![t] = "operation"] /\ status[t] = "idle"
      BY <2>2 DEF DequeueCall, StatusOf, QTypeOK
    <3>q. QED BY <2>2, <3>1, RingUnchanged DEF DequeueCall, QInv, Abstract!Call
  <2>3. ASSUME NEW t \in Threads, FailIfShutdown(t)
        PROVE  Abstract!Next
    <3>1. status' = [status EXCEPT ![t] = "idle"] /\ status[t] = "operation"
      BY <2>3 DEF FailIfShutdown, StatusOf, QTypeOK
    <3>2. Contents' = Contents /\ shutdown = 1 /\ UNCHANGED shutdown
      BY <2>3, RingUnchanged DEF FailIfShutdown, QInv
    <3>3. Abstract!Return(t, -1)
      BY <2>3, <3>1 DEF FailIfShutdown, Abstract!Return
    <3>4. CASE t \in Producers
      <4>1. Len(Contents) = CAPACITY
        BY <2>3, <3>4, ContentsLength DEF FailIfShutdown, QInv, DecisionIsFresh, Blocked
      <4>q. QED BY <3>2, <3>3, <3>4, <4>1 DEF Abstract!RefuseAdd, Abstract!Next
    <3>5. CASE t \in Consumers
      <4>1. Contents = <<>>
        BY <2>3, <3>5, ContentsLength, ThreadsAssumption, EmptySeq
        DEF FailIfShutdown, QInv, DecisionIsFresh, Blocked
      <4>q. QED BY <3>2, <3>3, <3>5, <4>1 DEF Abstract!RefuseRemove, Abstract!Next
    <3>q. QED BY <3>4, <3>5
  <2>4. ASSUME NEW t \in Producers, Put(t) PROVE Abstract!Add(t)
    <3>1. status' = [status EXCEPT ![t] = "idle"] /\ status[t] = "operation"
      BY <2>4, SignalStatus, Waiters DEF Put, QTypeOK
    <3>2. Len(Contents) < CAPACITY
      BY <2>4, ContentsLength, CapacityAssumption DEF Put, Blocked, QTypeOK
    <3>3. Contents' = Append(Contents, val[t])
      BY <2>4, PutAppends
    <3>q. QED BY <2>4, <3>1, <3>2, <3>3 DEF Put, Abstract!Add, Abstract!Return
  <2>5. ASSUME NEW t \in Consumers, Take(t) PROVE Abstract!Remove(t)
    <3>1. status' = [status EXCEPT ![t] = "idle"] /\ status[t] = "operation"
      BY <2>5, SignalStatus, Waiters DEF Take, QTypeOK
    <3>2. Contents # <<>> /\ Head(Contents) = Fetched
      BY <2>5, ContentsLength, ThreadsAssumption, CapacityAssumption, EmptySeq
      DEF Take, Blocked, QTypeOK
    <3>3. Contents' = Tail(Contents)
      BY <2>5, TakeRemoves
    <3>q. QED BY <2>5, <3>1, <3>2, <3>3 DEF Take, Abstract!Remove, Abstract!Return
  <2>6. ASSUME NEW t \in Producers, SetShutdown(t) PROVE Abstract!Close(t)
    <3>1. status' = [status EXCEPT ![t] = "closing"] /\ status[t] = "idle"
      BY <2>6 DEF SetShutdown, StatusOf, QTypeOK
    <3>q. QED BY <2>6, <3>1, RingUnchanged DEF SetShutdown, QInv, Abstract!Close
  <2>7. ASSUME NEW t \in Producers, BroadcastFull(t) PROVE Abstract!Closed(t)
    <3>1. status' = [status EXCEPT ![t] = "idle"] /\ status[t] = "closing"
      BY <2>7 DEF BroadcastFull, BroadcastAndGo, WaitsOnFull, StatusOf, QTypeOK
    <3>q. QED BY <2>7, <3>1, RingUnchanged DEF BroadcastFull, QInv, Abstract!Closed
  <2>8. ASSUME NEW t \in Consumers PROVE ~BroadcastFull(t)
    BY DEF BroadcastFull, QInv, CallsAreKept
  <2>9. CASE UNCHANGED qvars
    BY <2>9, RingUnchanged DEF qvars, Abstract!vars, QInv
  <2>q. QED
    BY <2>0, <2>1, <2>2, <2>3, <2>4, <2>5, <2>6, <2>7, <2>8, <2>9
    DEF QNext, Step, Abstract!Next
<1>q. QED BY <1>1, <1>2, QInvInductive, PTL DEF QSpec, ImplementsBoundedQueue, Abstract!Spec

-----------------------------------------------------------------------------
\* The numbers NoLostSignal compares.
LEMMA AwakeIsFinite ==
    ASSUME NEW T \in SUBSET Threads
    PROVE  /\ IsFiniteSet(Awake(T)) /\ Cardinality(Awake(T)) \in Nat
           /\ IsFiniteSet(Awake(T)') /\ Cardinality(Awake(T)') \in Nat
<1>1. Awake(T) \subseteq Threads /\ Awake(T)' \subseteq Threads
  BY DEF Awake
<1>q. QED BY <1>1, FS_Subset, FS_CardinalityType, ThreadsAssumption

\* A step that puts nobody to sleep and takes nobody awake out of the running
\* keeps the balance.
LEMMA BalanceKept ==
    ASSUME QTypeOK, NoLostSignal, length' = length,
           NEW T \in SUBSET Threads,
           \A u \in Threads : u \in T \/ (at[u] \in {"lock", "test"} => at'[u] \in {"lock", "test"}),
           \A u \in Threads : u \in T \/ (at'[u] = "sleep" => at[u] = "sleep")
    PROVE  /\ T \intersect Consumers = {} =>
                (WaitsOnEmpty' # {} => Cardinality(Awake(Consumers)') >= length')
           /\ T \intersect Producers = {} =>
                (WaitsOnFull' # {} => Cardinality(Awake(Producers)') >= CAPACITY - length')
<1>1. ASSUME T \intersect Consumers = {}, WaitsOnEmpty' # {}
      PROVE  Cardinality(Awake(Consumers)') >= length'
  <2>1. WaitsOnEmpty # {} /\ Awake(Consumers) \subseteq Awake(Consumers)'
    BY <1>1 DEF WaitsOnEmpty, Awake
  <2>q. QED BY <2>1, AwakeIsFinite, FS_Subset DEF NoLostSignal, QTypeOK
<1>2. ASSUME T \intersect Producers = {}, WaitsOnFull' # {}
      PROVE  Cardinality(Awake(Producers)') >= CAPACITY - length'
  <2>1. WaitsOnFull # {} /\ Awake(Producers) \subseteq Awake(Producers)'
    BY <1>2 DEF WaitsOnFull, Awake
  <2>q. QED BY <2>1, AwakeIsFinite, FS_Subset, CapacityAssumption DEF NoLostSignal, QTypeOK
<1>q. QED BY <1>1, <1>2

\* A signal to sleeping threads of side T leaves one more of them awake, and
\* takes the caller, of the other side, out of the running.
LEMMA SignalCounts ==
    ASSUME NEW T \in SUBSET Threads, NEW t \in Threads \ T, QTypeOK, at[t] = "test",
           NEW W, W = {u \in T : at[u] = "sleep"}, SignalAndReturn(t, W)
    PROVE  /\ W # {} => Cardinality(Awake(T)') = Cardinality(Awake(T)) + 1
           /\ W = {} => {u \in T : at'[u] = "sleep"} = {}
           /\ Cardinality(Awake(Threads \ T)') = Cardinality(Awake(Threads \ T)) - 1
           /\ {u \in Threads \ T : at'[u] = "sleep"} = {u \in Threads \ T : at[u] = "sleep"}
<1> USE DEF QTypeOK
<1>1. ASSUME W # {} PROVE Cardinality(Awake(T)') = Cardinality(Awake(T)) + 1
  <2>1. PICK w \in W : at' = [at EXCEPT ![t] = "idle", ![w] = "lock"]
    BY <1>1 DEF SignalAndReturn
  <2>2. Awake(T)' = Awake(T) \union {w} /\ w \notin Awake(T)
    BY <2>1 DEF Awake
  <2>q. QED BY <2>2, AwakeIsFinite, FS_AddElement
<1>2. ASSUME W = {} PROVE {u \in T : at'[u] = "sleep"} = {}
  BY <1>2 DEF SignalAndReturn
<1>3. /\ at'[t] = "idle"
      /\ \A u \in Threads \ T : u # t => at'[u] = at[u]
  <2>1. W \in SUBSET Threads /\ t \notin W
    OBVIOUS
  <2>q. QED BY <2>1, SignalPlaces
<1>4. Awake(Threads \ T)' = Awake(Threads \ T) \ {t} /\ t \in Awake(Threads \ T)
  BY <1>3 DEF Awake
<1>5. Cardinality(Awake(Threads \ T)') = Cardinality(Awake(Threads \ T)) - 1
  <2>1. IsFiniteSet(Awake(Threads \ T))
    BY AwakeIsFinite
  <2>2. Cardinality(Awake(Threads \ T) \ {t}) = Cardinality(Awake(Threads \ T)) - 1
    BY <1>4, <2>1, FS_RemoveElement
  <2>q. QED BY <1>4, <2>2
<1>6. {u \in Threads \ T : at'[u] = "sleep"} = {u \in Threads \ T : at[u] = "sleep"}
  BY <1>3
<1>q. QED BY <1>1, <1>2, <1>5, <1>6

\* No signal is lost, whatever the number of threads: while consumers sleep,
\* enough others are awake to fetch every queued descriptor, and the same for
\* producers and room.
THEOREM NoSignalIsLost == QSpec => []NoLostSignal
<1>1. QInit => NoLostSignal
  BY DEF QInit, NoLostSignal, WaitsOnEmpty, WaitsOnFull
<1>2. QInv /\ NoLostSignal /\ [QNext]_qvars => NoLostSignal'
  <2> SUFFICES ASSUME QInv, NoLostSignal, [QNext]_qvars PROVE NoLostSignal'
    OBVIOUS
  <2> QTypeOK
    BY DEF QInv
  <2>0. Producers = Threads \ Consumers /\ Consumers = Threads \ Producers
    BY ThreadsAssumption
  <2>1. ASSUME NEW t \in Threads,
               \/ Lock(t) \/ FailIfShutdown(t) \/ DecideToWait(t) \/ SpuriousWakeup(t)
               \/ BroadcastEmpty(t) \/ BroadcastFull(t) \/ SetShutdown(t) \/ DequeueCall(t)
               \/ \E fd \in Fds : EnqueueCall(t, fd)
        PROVE  NoLostSignal'
    <3>1. length' = length
      BY <2>1 DEF Lock, FailIfShutdown, DecideToWait, SpuriousWakeup, BroadcastEmpty,
         BroadcastFull, SetShutdown, DequeueCall, EnqueueCall
    <3>2. \A u \in Threads :
            /\ at[u] \in {"lock", "test"} => at'[u] \in {"lock", "test"}
            /\ at'[u] = "sleep" => at[u] = "sleep"
      BY <2>1 DEF Lock, FailIfShutdown, DecideToWait, SpuriousWakeup, BroadcastEmpty,
         BroadcastFull, BroadcastAndGo, SetShutdown, DequeueCall, EnqueueCall, QTypeOK
    <3>3. /\ WaitsOnEmpty' # {} => Cardinality(Awake(Consumers)') >= length'
          /\ WaitsOnFull' # {} => Cardinality(Awake(Producers)') >= CAPACITY - length'
      <4> DEFINE T == {}
      <4>1. T \in SUBSET Threads /\ T \intersect Consumers = {} /\ T \intersect Producers = {}
        OBVIOUS
      <4> HIDE DEF T
      <4>q. QED BY <3>1, <3>2, <4>1, BalanceKept
    <3>q. QED BY <3>3 DEF NoLostSignal
  <2>2. ASSUME NEW t \in Threads, FindBlocked(t) \/ CondWait(t) PROVE NoLostSignal'
    <3>1. length' = length /\ Blocked(t)
      BY <2>2 DEF FindBlocked, CondWait, QInv, DecisionIsFresh
    <3>2. \A u \in Threads : u \in {t} \/
            /\ at[u] \in {"lock", "test"} => at'[u] \in {"lock", "test"}
            /\ at'[u] = "sleep" => at[u] = "sleep"
      BY <2>2 DEF FindBlocked, CondWait, QTypeOK
    <3>3. CASE t \in Producers
      <4>1. WaitsOnEmpty' # {} => Cardinality(Awake(Consumers)') >= length'
        BY <3>1, <3>2, <3>3, <2>0, BalanceKept
      <4>2. CAPACITY - length' = 0
        BY <3>1, <3>3, CapacityAssumption DEF Blocked
      <4>q. QED BY <4>1, <4>2, AwakeIsFinite DEF NoLostSignal
    <3>4. CASE t \in Consumers
      <4>1. WaitsOnFull' # {} => Cardinality(Awake(Producers)') >= CAPACITY - length'
        BY <3>1, <3>2, <3>4, <2>0, BalanceKept
      <4>2. length' = 0
        BY <3>1, <3>4, <2>0 DEF Blocked
      <4>q. QED BY <4>1, <4>2, AwakeIsFinite DEF NoLostSignal
    <3>q. QED BY <3>3, <3>4
  <2>3. ASSUME NEW t \in Producers, Put(t) PROVE NoLostSignal'
    <3>1. at[t] = "test" /\ length' = length + 1 /\ SignalAndReturn(t, WaitsOnEmpty)
      BY <2>3 DEF Put, SignalledByPut
    <3>2. /\ WaitsOnEmpty # {} => Cardinality(Awake(Consumers)') = Cardinality(Awake(Consumers)) + 1
          /\ WaitsOnEmpty = {} => WaitsOnEmpty' = {}
          /\ Cardinality(Awake(Producers)') = Cardinality(Awake(Producers)) - 1
          /\ WaitsOnFull' = WaitsOnFull
      BY <3>1, <2>0, SignalCounts DEF WaitsOnEmpty, WaitsOnFull
    <3>q. QED
      BY <3>1, <3>2, AwakeIsFinite, CapacityAssumption DEF NoLostSignal, QTypeOK
  <2>4. ASSUME NEW t \in Consumers, Take(t) PROVE NoLostSignal'
    <3>1. at[t] = "test" /\ length' = length - 1 /\ SignalAndReturn(t, WaitsOnFull)
      BY <2>4 DEF Take, SignalledByTake
    <3>2. /\ WaitsOnFull # {} => Cardinality(Awake(Producers)') = Cardinality(Awake(Producers)) + 1
          /\ WaitsOnFull = {} => WaitsOnFull' = {}
          /\ Cardinality(Awake(Consumers)') = Cardinality(Awake(Consumers)) - 1
          /\ WaitsOnEmpty' = WaitsOnEmpty
      BY <3>1, <2>0, SignalCounts DEF WaitsOnEmpty, WaitsOnFull
    <3>q. QED
      BY <3>1, <3>2, AwakeIsFinite, CapacityAssumption DEF NoLostSignal, QTypeOK
  <2>5. CASE UNCHANGED qvars
    BY <2>5 DEF qvars, NoLostSignal, WaitsOnEmpty, WaitsOnFull, Awake
  <2>q. QED BY <2>1, <2>2, <2>3, <2>4, <2>5 DEF QNext, Step
<1>q. QED BY <1>1, <1>2, QInvInductive, PTL DEF QSpec

(***************************************************************************)
(* The server.                                                             *)
(***************************************************************************)

HIDE DEF Threads

-----------------------------------------------------------------------------
\* The server uses the queue as ConnectionQueue allows: what is proved of the
\* queue holds in the server.
THEOREM UsesQueue == Spec => QSpec
<1>1. Init => QInit
  BY DEF Init
<1>2. [Next]_vars => [QNext]_qvars
  <2> SUFFICES ASSUME [Next]_vars PROVE [QNext]_qvars
    OBVIOUS
  <2>1. CASE Setup
    BY <2>1 DEF Setup, Try
  <2>2. ASSUME NEW w \in Workers, CreateWorker(w) PROVE UNCHANGED qvars
    BY <2>2 DEF CreateWorker
  <2>3. CASE \/ CreateFails \/ RestoreMask \/ CheckKeepGoing \/ EnterAccept
             \/ EnqueueReturned \/ ShutdownReturned \/ JoinWorkers \/ FreeQueue
             \/ CloseSocket \/ AcceptFails \/ RaiseSigint \/ HandleSigint
    BY <2>3 DEF CreateFails, RestoreMask, CheckKeepGoing, EnterAccept, EnqueueReturned,
       ShutdownReturned, JoinWorkers, FreeQueue, CloseSocket, AcceptFails, RaiseSigint,
       HandleSigint
  <2>4. ASSUME NEW c \in Fds, AcceptClient(c) PROVE QNext
    BY <2>4, MainAssumption DEF AcceptClient, QNext
  <2>5. CASE CallShutdown
    BY <2>5, MainAssumption DEF CallShutdown, QNext
  <2>6. ASSUME NEW w \in Workers, WorkerCalls(w) PROVE QNext
    BY <2>6 DEF WorkerCalls, QNext, Workers
  <2>7. ASSUME NEW w \in Workers,
               \/ WorkerGetsClient(w) \/ WorkerExits(w) \/ ReadRequest(w)
               \/ RequestFails(w) \/ WriteResponse(w) \/ CloseClient(w)
        PROVE  UNCHANGED qvars
    BY <2>7 DEF WorkerGetsClient, WorkerExits, ReadRequest, RequestFails, WriteResponse,
       CloseClient
  <2>8. ASSUME NEW c \in Fds, Connect(c) \/ Send(c) PROVE UNCHANGED qvars
    BY <2>8 DEF Connect, Send
  <2>9. ASSUME NEW t \in Threads, QueueStep(t) \/ QueueWakeup(t) PROVE QNext
    BY <2>9 DEF QueueStep, QueueWakeup, QNext
  <2>10. CASE UNCHANGED vars
    BY <2>10 DEF vars
  <2>q. QED
    BY <2>1, <2>2, <2>3, <2>4, <2>5, <2>6, <2>7, <2>8, <2>9, <2>10
    DEF Next, MainStep, WorkerStep
<1>q. QED BY <1>1, <1>2, PTL DEF Spec, QSpec

-----------------------------------------------------------------------------
\* The steps of main() that leave the queue, the workers and the connections
\* alone, all but the first with held unchanged as well.
MainLocal ==
    \/ Setup \/ FreeQueue \/ CloseSocket
    \/ CreateFails \/ RestoreMask \/ CheckKeepGoing \/ EnterAccept \/ AcceptFails
    \/ ShutdownReturned \/ JoinWorkers \/ RaiseSigint \/ HandleSigint

LEMMA MainLocalFrame ==
    MainLocal => UNCHANGED <<qvars, conn, sent, client_fd, worker>>
BY DEF MainLocal, Setup, Try, FreeQueue, CloseSocket, CreateFails, RestoreMask,
   CheckKeepGoing, EnterAccept, AcceptFails, ShutdownReturned, JoinWorkers, RaiseSigint,
   HandleSigint

\* Next, with those steps together: the case distinction of the proofs below.
LEMMA NextCases ==
    ASSUME Next
    PROVE  \/ MainLocal
           \/ \E w \in Workers : CreateWorker(w)
           \/ \E c \in Fds : AcceptClient(c)
           \/ EnqueueReturned
           \/ CallShutdown
           \/ \E w \in Workers : \/ WorkerCalls(w) \/ WorkerGetsClient(w) \/ WorkerExits(w)
                                 \/ ReadRequest(w) \/ RequestFails(w) \/ WriteResponse(w)
                                 \/ CloseClient(w)
           \/ \E t \in Threads : QueueStep(t) \/ QueueWakeup(t)
           \/ \E c \in Fds : Connect(c) \/ Send(c)
BY DEF Next, MainStep, WorkerStep, MainLocal

LEMMA TypingStep == ASSUME TypeOK, QTypeOK', [Next]_vars PROVE TypeOK'
<1> USE DEF TypeOK, SetupPlaces, LoopPlaces, TeardownPlaces
<1>1. CASE MainLocal
  <2>1. UNCHANGED <<qvars, conn, sent, client_fd, worker>>
    BY <1>1, MainLocalFrame
  <2>2. /\ main_pc' \in SetupPlaces \union {"create"} \union LoopPlaces \union TeardownPlaces
        /\ keep_going' \in {0, 1}
        /\ sigint' \in BOOLEAN
        /\ held' \subseteq {"addrinfo", "socket", "queue"}
    <3>1. CASE Setup
      BY <3>1 DEF Setup, Try
    <3>2. CASE FreeQueue \/ CloseSocket
      BY <3>2 DEF FreeQueue, CloseSocket
    <3>3. CASE \/ CreateFails \/ CheckKeepGoing \/ EnterAccept \/ AcceptFails
               \/ ShutdownReturned \/ JoinWorkers
      BY <3>3 DEF CreateFails, CheckKeepGoing, EnterAccept, AcceptFails, ShutdownReturned,
         JoinWorkers
    <3>4. CASE RestoreMask
      BY <3>4 DEF RestoreMask
    <3>5. CASE RaiseSigint
      BY <3>5 DEF RaiseSigint
    <3>6. CASE HandleSigint
      BY <3>6 DEF HandleSigint
    <3>q. QED BY <1>1, <3>1, <3>2, <3>3, <3>4, <3>5, <3>6 DEF MainLocal
  <2>q. QED BY <2>1, <2>2
<1>2. ASSUME NEW w \in Workers, CreateWorker(w) PROVE TypeOK'
  BY <1>2 DEF CreateWorker
<1>3. ASSUME NEW c \in Fds, AcceptClient(c) PROVE TypeOK'
  BY <1>3 DEF AcceptClient
<1>4. CASE EnqueueReturned
  BY <1>4 DEF EnqueueReturned
<1>5. CASE CallShutdown
  BY <1>5 DEF CallShutdown
<1>6. ASSUME NEW w \in Workers,
             \/ WorkerCalls(w) \/ WorkerExits(w) \/ ReadRequest(w) \/ RequestFails(w)
             \/ WriteResponse(w) \/ CloseClient(w)
      PROVE  TypeOK'
  BY <1>6 DEF WorkerCalls, WorkerExits, ReadRequest, RequestFails, WriteResponse, CloseClient
<1>7. ASSUME NEW w \in Workers, WorkerGetsClient(w) PROVE TypeOK'
  <2>1. val[w] \in Fds \union {0}
    BY <1>7 DEF WorkerGetsClient, QTypeOK, Workers, Threads
  <2>q. QED BY <1>7, <2>1 DEF WorkerGetsClient
<1>8. ASSUME NEW t \in Threads, QueueStep(t) \/ QueueWakeup(t) PROVE TypeOK'
  BY <1>8 DEF QueueStep, QueueWakeup, servervars
<1>9. ASSUME NEW c \in Fds, Connect(c) \/ Send(c) PROVE TypeOK'
  BY <1>9 DEF Connect, Send
<1>10. CASE UNCHANGED vars
  BY <1>10 DEF vars, servervars
<1>q. QED
  BY <1>1, <1>2, <1>3, <1>4, <1>5, <1>6, <1>7, <1>8, <1>9, <1>10, NextCases

\* Types of the server's state.
THEOREM ServerTypeCorrect == Spec => []TypeOK
<1>1. Init => TypeOK \/ ~QTypeOK
  BY DEF Init, TypeOK, SetupPlaces
<1>2. QInit => QTypeOK
  BY QInvInductive DEF QInv
<1>3. Init => TypeOK
  BY <1>1, <1>2 DEF Init
<1>q. QED BY <1>3, TypingStep, UsesQueue, TypeCorrect, PTL DEF Spec

-----------------------------------------------------------------------------
\* What a step inside the queue's operations does, seen from the server: the
\* other threads stay inside or outside their operations, and t stays inside
\* with its argument, or returns in one of four ways.
Stays(t) ==
    /\ at'[t] # "idle"
    /\ at'[t] \in {"bempty", "bfull"} <=> at[t] \in {"bempty", "bfull"}
    /\ UNCHANGED <<client_fds, length, read_idx, write_idx, shutdown, val>>

LEMMA QueueEffect ==
    ASSUME QInv, NEW t \in Threads, QueueStep(t) \/ QueueWakeup(t)
    PROVE  /\ at[t] # "idle" /\ UNCHANGED shutdown /\ UNCHANGED servervars
           /\ \A u \in Threads : u # t =>
                 /\ at'[u] = at[u] \/ (at[u] = "sleep" /\ at'[u] = "lock")
                 /\ val'[u] = val[u]
           /\ \/ Stays(t)
              \/ FailIfShutdown(t) /\ at'[t] = "idle" /\ val'[t] = -1
              \/ t \in Producers /\ Put(t) /\ at'[t] = "idle" /\ val'[t] = 0
              \/ t \in Consumers /\ Take(t) /\ at'[t] = "idle" /\ val'[t] = Fetched
              \/ BroadcastFull(t) /\ at'[t] = "idle" /\ val'[t] = 0
<1> USE DEF QInv, QTypeOK, Stays
<1>0. UNCHANGED servervars
  BY DEF QueueStep, QueueWakeup
<1>1. CASE Lock(t) \/ FindBlocked(t) \/ DecideToWait(t) \/ CondWait(t) \/ SpuriousWakeup(t)
  BY <1>0, <1>1 DEF Lock, FindBlocked, DecideToWait, CondWait, SpuriousWakeup
<1>2. CASE BroadcastEmpty(t)
  BY <1>0, <1>2 DEF BroadcastEmpty, BroadcastAndGo, WaitsOnEmpty
<1>3. CASE BroadcastFull(t)
  BY <1>0, <1>3 DEF BroadcastFull, BroadcastAndGo, WaitsOnFull
<1>4. CASE FailIfShutdown(t)
  BY <1>0, <1>4 DEF FailIfShutdown
<1>5. CASE t \in Producers /\ Put(t)
  <2>1. /\ at[t] = "test" /\ UNCHANGED shutdown /\ val' = [val EXCEPT ![t] = 0]
        /\ SignalAndReturn(t, SignalledByPut)
    BY <1>5 DEF Put
  <2>2. SignalledByPut \in SUBSET Threads /\ t \notin SignalledByPut
    BY <2>1, Waiters DEF Threads
  <2>3. /\ at'[t] = "idle"
        /\ \A u \in Threads : u # t => at'[u] = at[u] \/ (at[u] = "sleep" /\ at'[u] = "lock")
    BY <2>1, <2>2, SignalPlaces, Waiters
  <2>q. QED BY <1>0, <1>5, <2>1, <2>3
<1>6. CASE t \in Consumers /\ Take(t)
  <2>1. /\ at[t] = "test" /\ UNCHANGED shutdown /\ val' = [val EXCEPT ![t] = Fetched]
        /\ SignalAndReturn(t, SignalledByTake)
    BY <1>6 DEF Take
  <2>2. SignalledByTake \in SUBSET Threads /\ t \notin SignalledByTake
    BY <2>1, Waiters DEF Threads
  <2>3. /\ at'[t] = "idle"
        /\ \A u \in Threads : u # t => at'[u] = at[u] \/ (at[u] = "sleep" /\ at'[u] = "lock")
    BY <2>1, <2>2, SignalPlaces, Waiters
  <2>q. QED BY <1>0, <1>6, <2>1, <2>3
<1>q. QED BY <1>1, <1>2, <1>3, <1>4, <1>5, <1>6 DEF QueueStep, QueueWakeup, Step

-----------------------------------------------------------------------------
LEMMA MainIsNoWorker == Main \in Threads /\ Main \notin Workers /\ Main \in Producers
BY MainAssumption, ThreadsAssumption DEF Threads, Workers

\* Only main() in connection_enqueue adds to the queue, which is before it
\* shuts it down; only a worker that finds something takes from it.
LEMMA LengthEffect ==
    ASSUME Inv, QInv, NEW t \in Threads, QueueStep(t) \/ QueueWakeup(t)
    PROVE  \/ length' = length
           \/ t = Main /\ main_pc = "enqueue" /\ shutdown = 0
           \/ t \in Workers /\ length > 0
<1> USE DEF Inv, TypeOK, QTypeOK, Workers
<1>1. CASE Stays(t) \/ FailIfShutdown(t) \/ BroadcastFull(t)
  BY <1>1 DEF Stays, FailIfShutdown, BroadcastFull
<1>2. CASE t \in Producers /\ Put(t)
  <2>1. t = Main /\ at[Main] = "test"
    BY <1>2, MainAssumption DEF Put
  <2>2. main_pc = "enqueue"
    BY <2>1 DEF CallsMatch
  <2>3. shutdown = 0
    BY <2>2 DEF PhasesMatch, TeardownPlaces
  <2>q. QED BY <2>1, <2>2, <2>3
<1>3. CASE t \in Consumers /\ Take(t)
  BY <1>3, ThreadsAssumption, CapacityAssumption DEF Take, Blocked
<1>q. QED BY <1>1, <1>2, <1>3, QueueEffect

LEMMA CallsStep == ASSUME Inv, QInv, TypeOK', [Next]_vars PROVE CallsMatch'
<1> USE MainIsNoWorker DEF Inv, TypeOK, QTypeOK, CallsMatch, Workers
<1>1. CASE MainLocal
  <2>1. UNCHANGED <<qvars, conn, sent, client_fd, worker>>
    BY <1>1, MainLocalFrame
  <2>2. at[Main] # "idle" => main_pc' = main_pc
    BY <1>1 DEF MainLocal, Setup, Try, FreeQueue, CloseSocket, CreateFails, RestoreMask,
       CheckKeepGoing, EnterAccept, AcceptFails, ShutdownReturned, JoinWorkers, RaiseSigint,
       HandleSigint
  <2>3. main_pc' = "enqueue" => main_pc = "enqueue"
    BY <1>1 DEF MainLocal, Setup, Try, FreeQueue, CloseSocket, CreateFails, RestoreMask,
       CheckKeepGoing, EnterAccept, AcceptFails, ShutdownReturned, JoinWorkers, RaiseSigint,
       HandleSigint
  <2>q. QED BY <2>1, <2>2, <2>3 DEF qvars
<1>2. ASSUME NEW w \in Workers, CreateWorker(w) PROVE CallsMatch'
  BY <1>2 DEF CreateWorker, qvars
<1>3. ASSUME NEW c \in Fds, AcceptClient(c) PROVE CallsMatch'
  BY <1>3 DEF AcceptClient, EnqueueCall
<1>4. CASE EnqueueReturned
  BY <1>4 DEF EnqueueReturned, qvars
<1>5. CASE CallShutdown
  BY <1>5 DEF CallShutdown, SetShutdown
<1>6. ASSUME NEW w \in Workers, WorkerCalls(w) PROVE CallsMatch'
  BY <1>6 DEF WorkerCalls, DequeueCall
<1>7. ASSUME NEW w \in Workers,
             \/ WorkerExits(w) \/ ReadRequest(w) \/ RequestFails(w)
             \/ WriteResponse(w) \/ CloseClient(w) \/ WorkerGetsClient(w)
      PROVE  CallsMatch'
  <2>1. CASE WorkerGetsClient(w)
    BY <1>7, <2>1 DEF WorkerGetsClient, qvars
  <2>2. CASE CloseClient(w)
    BY <1>7, <2>2 DEF CloseClient, qvars
  <2>3. CASE WorkerExits(w) \/ ReadRequest(w) \/ RequestFails(w) \/ WriteResponse(w)
    BY <1>7, <2>3 DEF WorkerExits, ReadRequest, RequestFails, WriteResponse, qvars
  <2>q. QED BY <1>7, <2>1, <2>2, <2>3
<1>8. ASSUME NEW t \in Threads, QueueStep(t) \/ QueueWakeup(t) PROVE CallsMatch'
  <2>1. UNCHANGED <<main_pc, client_fd, worker>> /\ UNCHANGED shutdown
    BY <1>8, QueueEffect DEF servervars
  <2>2. CASE t = Main
    <3>1. \A w \in Workers : (at'[w] = "idle" <=> at[w] = "idle") /\ val'[w] = val[w]
      BY <1>8, <2>2, QueueEffect DEF Threads
    <3>2. at[Main] # "idle" => main_pc = IF at[Main] \in {"bempty", "bfull"}
                                         THEN "shutting" ELSE "enqueue"
      OBVIOUS
    <3>3. /\ at'[Main] # "idle" => at'[Main] \in {"bempty", "bfull"} <=> at[Main] \in {"bempty", "bfull"}
          /\ at'[Main] # "idle" => val'[Main] = val[Main]
          /\ at'[Main] = "idle" => val'[Main] \in {0, -1}
          /\ at[Main] # "idle"
      BY <1>8, <2>2, QueueEffect, ThreadsAssumption DEF Stays
    <3>4. length' = length \/ shutdown = 0
      BY <1>8, <2>2, LengthEffect
    <3>q. QED BY <2>1, <3>1, <3>2, <3>3, <3>4
  <2>3. CASE t \in Workers
    <3>1. (at'[Main] = "idle" <=> at[Main] = "idle")
      BY <1>8, <2>3, QueueEffect
    <3>2. /\ at'[Main] \in {"bempty", "bfull"} <=> at[Main] \in {"bempty", "bfull"}
          /\ val'[Main] = val[Main]
      BY <1>8, <2>3, QueueEffect
    <3>3. \A w \in Workers \ {t} : (at'[w] = "idle" <=> at[w] = "idle") /\ val'[w] = val[w]
      BY <1>8, <2>3, QueueEffect DEF Threads
    <3>4. length' = length \/ length > 0
      BY <1>8, <2>3, LengthEffect
    <3>5. at[t] # "idle" /\ worker[t] = "dequeue"
      BY <1>8, <2>3, QueueEffect
    <3>6. at'[t] = "idle" => val'[t] \in Fds \/ (val'[t] = -1 /\ shutdown = 1 /\ length' = 0)
      <4>1. CASE Stays(t)
        BY <4>1 DEF Stays
      <4>2. CASE FailIfShutdown(t)
        BY <2>3, <4>2, ThreadsAssumption DEF FailIfShutdown, QInv, DecisionIsFresh, Blocked
      <4>3. CASE Take(t)
        <5>1. length > 0
          BY <2>3, <4>3, ThreadsAssumption, CapacityAssumption DEF Take, Blocked
        <5>2. Contents[1] = Fetched
          BY <5>1, SlotProperties DEF Contents, Fetched
        <5>q. QED BY <2>3, <4>3, <5>1, <5>2 DEF Take, QInv, RingConsistent
      <4>4. ~BroadcastFull(t) /\ t \notin Producers
        BY <2>3, ThreadsAssumption DEF BroadcastFull, QInv, CallsAreKept
      <4>q. QED BY <1>8, <4>1, <4>2, <4>3, <4>4, QueueEffect
    <3>q. QED BY <2>1, <2>3, <3>1, <3>2, <3>3, <3>4, <3>5, <3>6
  <2>q. QED BY <2>2, <2>3, MainAssumption DEF Threads
<1>9. ASSUME NEW c \in Fds, Connect(c) \/ Send(c) PROVE CallsMatch'
  BY <1>9 DEF Connect, Send, qvars
<1>10. CASE UNCHANGED vars
  BY <1>10 DEF vars, servervars, qvars
<1>q. QED
  BY <1>1, <1>2, <1>3, <1>4, <1>5, <1>6, <1>7, <1>8, <1>9, <1>10, NextCases

LEMMA PhasesStep == ASSUME Inv, QInv, TypeOK', [Next]_vars PROVE PhasesMatch'
<1> USE MainIsNoWorker DEF Inv, TypeOK, QTypeOK, PhasesMatch, Workers, HeldAt,
        SetupPlaces, LoopPlaces, TeardownPlaces
<1>1. CASE Setup
  BY <1>1 DEF Setup, Try, qvars
<1>2. CASE FreeQueue \/ CloseSocket
  BY <1>2 DEF FreeQueue, CloseSocket, qvars
<1>3. CASE CreateFails \/ CheckKeepGoing \/ EnterAccept \/ AcceptFails
  BY <1>3 DEF CreateFails, CheckKeepGoing, EnterAccept, AcceptFails, qvars
<1>4. CASE RestoreMask \/ ShutdownReturned \/ JoinWorkers
  BY <1>4 DEF RestoreMask, ShutdownReturned, JoinWorkers, qvars
<1>5. CASE RaiseSigint \/ HandleSigint
  BY <1>5 DEF RaiseSigint, HandleSigint, qvars
<1>6. ASSUME NEW w \in Workers, CreateWorker(w) PROVE PhasesMatch'
  BY <1>6 DEF CreateWorker, qvars
<1>7. ASSUME NEW c \in Fds, AcceptClient(c) PROVE PhasesMatch'
  BY <1>7 DEF AcceptClient, EnqueueCall
<1>8. CASE EnqueueReturned \/ CallShutdown
  BY <1>8 DEF EnqueueReturned, CallShutdown, SetShutdown, qvars
<1>9. ASSUME NEW w \in Workers, WorkerCalls(w) PROVE PhasesMatch'
  BY <1>9 DEF WorkerCalls, DequeueCall
<1>10. ASSUME NEW w \in Workers,
             \/ WorkerExits(w) \/ ReadRequest(w) \/ RequestFails(w)
             \/ WriteResponse(w) \/ CloseClient(w) \/ WorkerGetsClient(w)
      PROVE  PhasesMatch'
  BY <1>10 DEF WorkerGetsClient, WorkerExits, ReadRequest, RequestFails, WriteResponse,
     CloseClient, qvars
<1>11. ASSUME NEW t \in Threads, QueueStep(t) \/ QueueWakeup(t) PROVE PhasesMatch'
  <2>1. UNCHANGED <<main_pc, worker, held>> /\ UNCHANGED shutdown
    BY <1>11, QueueEffect DEF servervars
  <2>2. (\E w \in Workers : worker[w] = "none") => length' = length
    BY <1>11, LengthEffect
  <2>q. QED BY <2>1, <2>2
<1>12. ASSUME NEW c \in Fds, Connect(c) \/ Send(c) PROVE PhasesMatch'
  BY <1>12 DEF Connect, Send, qvars
<1>13. CASE UNCHANGED vars
  BY <1>13 DEF vars, servervars, qvars
<1>q. QED
  BY <1>1, <1>2, <1>3, <1>4, <1>5, <1>6, <1>7, <1>8, <1>9, <1>10, <1>11, <1>12, <1>13,
     NextCases DEF MainLocal

LEMMA DrainedStep == ASSUME Inv, QInv, TypeOK', [Next]_vars PROVE ExitedMeansDrained'
<1> USE DEF Inv, TypeOK, QTypeOK, ExitedMeansDrained, TeardownPlaces, LoopPlaces, SetupPlaces
<1>1. CASE MainLocal
  <2>1. UNCHANGED <<qvars, conn, sent, client_fd, worker>>
    BY <1>1, MainLocalFrame
  <2>2. main_pc \in TeardownPlaces => main_pc' \in TeardownPlaces
    BY <1>1 DEF MainLocal, Setup, Try, FreeQueue, CloseSocket, CreateFails, RestoreMask,
       CheckKeepGoing, EnterAccept, AcceptFails, ShutdownReturned, JoinWorkers, RaiseSigint,
       HandleSigint
  <2>q. QED BY <2>1, <2>2 DEF qvars
<1>2. ASSUME NEW w \in Workers, CreateWorker(w) PROVE ExitedMeansDrained'
  BY <1>2 DEF CreateWorker, qvars
<1>3. ASSUME NEW c \in Fds, AcceptClient(c) PROVE ExitedMeansDrained'
  BY <1>3 DEF AcceptClient, EnqueueCall
<1>4. CASE EnqueueReturned
  BY <1>4 DEF EnqueueReturned, qvars
<1>5. CASE CallShutdown
  BY <1>5 DEF CallShutdown, SetShutdown
<1>6. ASSUME NEW w \in Workers, WorkerCalls(w) PROVE ExitedMeansDrained'
  BY <1>6 DEF WorkerCalls, DequeueCall
<1>7. ASSUME NEW w \in Workers, WorkerExits(w) PROVE ExitedMeansDrained'
  <2>1. shutdown = 1 /\ length = 0
    BY <1>7, FdsAssumption DEF WorkerExits, CallsMatch
  <2>2. main_pc \in TeardownPlaces
    BY <2>1 DEF PhasesMatch
  <2>q. QED BY <1>7, <2>1, <2>2 DEF WorkerExits, qvars
<1>8. ASSUME NEW w \in Workers,
             \/ ReadRequest(w) \/ RequestFails(w) \/ WriteResponse(w) \/ CloseClient(w)
             \/ WorkerGetsClient(w)
      PROVE  ExitedMeansDrained'
  BY <1>8 DEF WorkerGetsClient, ReadRequest, RequestFails, WriteResponse, CloseClient, qvars
<1>9. ASSUME NEW t \in Threads, QueueStep(t) \/ QueueWakeup(t) PROVE ExitedMeansDrained'
  <2>1. UNCHANGED <<main_pc, worker>> /\ UNCHANGED shutdown
    BY <1>9, QueueEffect DEF servervars
  <2>2. (\E w \in Workers : worker[w] = "exited") => length' = length
    BY <1>9, LengthEffect
  <2>q. QED BY <2>1, <2>2
<1>10. ASSUME NEW c \in Fds, Connect(c) \/ Send(c) PROVE ExitedMeansDrained'
  BY <1>10 DEF Connect, Send, qvars
<1>11. CASE UNCHANGED vars
  BY <1>11 DEF vars, servervars, qvars
<1>q. QED
  BY <1>1, <1>2, <1>3, <1>4, <1>5, <1>6, <1>7, <1>8, <1>9, <1>10, <1>11, NextCases

-----------------------------------------------------------------------------
\* The owners of c change only with who owns it.
LEMMA OwnersStable ==
    ASSUME NEW c,
           MainOwns(c)' <=> MainOwns(c),
           \A w \in Workers : Owns(w, c)' <=> Owns(w, c),
           QueuedAt(c)' = QueuedAt(c)
    PROVE  Owners(c)' = Owners(c)
BY DEF Owners

\* What one owner says about the others, before a step.
LEMMA OneOwner ==
    ASSUME ExactlyOneOwner, NEW c \in Fds
    PROVE  /\ \A v \in Workers : Owns(v, c) =>
                  /\ conn[c] = "open" /\ ~MainOwns(c) /\ QueuedAt(c) = {}
                  /\ \A u \in Workers : Owns(u, c) => u = v
           /\ MainOwns(c) =>
                  /\ conn[c] = "open" /\ QueuedAt(c) = {}
                  /\ \A u \in Workers : ~Owns(u, c)
           /\ \A j \in QueuedAt(c) :
                  /\ conn[c] = "open" /\ ~MainOwns(c) /\ QueuedAt(c) = {j}
                  /\ \A u \in Workers : ~Owns(u, c)
           /\ conn[c] # "open" =>
                  /\ ~MainOwns(c) /\ QueuedAt(c) = {}
                  /\ \A u \in Workers : ~Owns(u, c)
<1>1. /\ \A v \in Workers : Owns(v, c) => <<"thread", v>> \in Owners(c)
      /\ MainOwns(c) => <<"thread", Main>> \in Owners(c)
      /\ \A j \in QueuedAt(c) : <<"slot", j>> \in Owners(c)
  BY DEF Owners
<1>2. IF conn[c] = "open" THEN \E o \in Owners(c) : Owners(c) = {o} ELSE Owners(c) = {}
  BY DEF ExactlyOneOwner
<1>3. \A o, p \in Owners(c) : conn[c] = "open" /\ o = p
  BY <1>2
<1>4. ASSUME NEW v \in Workers, Owns(v, c)
      PROVE  /\ conn[c] = "open" /\ ~MainOwns(c) /\ QueuedAt(c) = {}
             /\ \A u \in Workers : Owns(u, c) => u = v
  <2>1. \A o \in Owners(c) : conn[c] = "open" /\ o = <<"thread", v>>
    BY <1>1, <1>3, <1>4
  <2>q. QED BY <1>1, <1>4, <2>1, MainIsNoWorker
<1>5. ASSUME MainOwns(c)
      PROVE  /\ conn[c] = "open" /\ QueuedAt(c) = {}
             /\ \A u \in Workers : ~Owns(u, c)
  <2>1. \A o \in Owners(c) : conn[c] = "open" /\ o = <<"thread", Main>>
    BY <1>1, <1>3, <1>5
  <2>q. QED BY <1>1, <1>5, <2>1, MainIsNoWorker
<1>6. ASSUME NEW j \in QueuedAt(c)
      PROVE  /\ conn[c] = "open" /\ ~MainOwns(c) /\ QueuedAt(c) = {j}
             /\ \A u \in Workers : ~Owns(u, c)
  <2>1. \A o \in Owners(c) : conn[c] = "open" /\ o = <<"slot", j>>
    BY <1>1, <1>3
  <2>q. QED BY <1>1, <2>1
<1>7. conn[c] # "open" => Owners(c) = {}
  BY <1>2
<1>q. QED BY <1>1, <1>4, <1>5, <1>6, <1>7

\* Who the owners are after a step.
LEMMA OwnersAfter ==
    ASSUME NEW c
    PROVE  /\ (/\ ~MainOwns(c)' /\ QueuedAt(c)' = {}
               /\ \A u \in Workers : ~Owns(u, c)') => Owners(c)' = {}
           /\ (/\ MainOwns(c)' /\ QueuedAt(c)' = {}
               /\ \A u \in Workers : ~Owns(u, c)') => Owners(c)' = {<<"thread", Main>>}
           /\ \A v \in Workers :
                 (/\ ~MainOwns(c)' /\ QueuedAt(c)' = {}
                  /\ \A u \in Workers : Owns(u, c)' <=> u = v) => Owners(c)' = {<<"thread", v>>}
           /\ \A j : (/\ ~MainOwns(c)' /\ QueuedAt(c)' = {j}
                      /\ \A u \in Workers : ~Owns(u, c)') => Owners(c)' = {<<"slot", j>>}
<1>1. Owners(c)' = {<<"thread", t>> : t \in {w \in Workers : Owns(w, c)'}
                                            \union {m \in {Main} : MainOwns(c)'}}
                     \union {<<"slot", j>> : j \in QueuedAt(c)'}
  BY DEF Owners
<1>q. QED BY <1>1

\* A step inside the queue's operations: a descriptor moves from main() to a
\* slot, from a slot to a worker, or nothing moves.
LEMMA OwnersInQueue ==
    ASSUME Inv, QInv, NEW t \in Threads, QueueStep(t) \/ QueueWakeup(t)
    PROVE  ExactlyOneOwner'
<1> USE MainIsNoWorker DEF Inv, TypeOK, QTypeOK
<1> DEFINE Same(c) == Owners(c)' = Owners(c) /\ (conn'[c] = "open" <=> conn[c] = "open")
<1>0. /\ UNCHANGED <<main_pc, conn, client_fd, worker>> /\ at[t] # "idle"
      /\ \A u \in Threads \ {t} : (at'[u] = "idle" <=> at[u] = "idle") /\ val'[u] = val[u]
  BY QueueEffect DEF servervars
<1>1. ASSUME NEW c \in Fds
      PROVE  /\ \A v \in Workers \ {t} : Owns(v, c)' <=> Owns(v, c)
             /\ t # Main => (MainOwns(c)' <=> MainOwns(c))
  BY <1>0 DEF Owns, MainOwns, Workers, Threads
<1>2. CASE \/ Stays(t)
           \/ FailIfShutdown(t) /\ at'[t] = "idle" /\ val'[t] = -1
           \/ BroadcastFull(t) /\ at'[t] = "idle" /\ val'[t] = 0
  <2>1. UNCHANGED <<client_fds, length, read_idx>>
    BY <1>2 DEF Stays, FailIfShutdown, BroadcastFull
  <2>2. ASSUME NEW c \in Fds PROVE \A v \in Workers : Owns(v, c)' <=> Owns(v, c)
    <3>1. t \in Workers => worker[t] = "dequeue" /\ ~Owns(t, c)
      BY <1>0 DEF CallsMatch, Owns
    <3>2. t \in Workers => ~Owns(t, c)'
      BY <1>0, <1>2, <3>1, FdsAssumption DEF Owns, Stays
    <3>q. QED BY <1>1, <3>1, <3>2
  <2>3. ASSUME NEW c \in Fds PROVE MainOwns(c)' <=> MainOwns(c)
    <3>1. CASE t = Main
      <4>1. CASE BroadcastFull(t)
        BY <1>0, <3>1, <4>1 DEF BroadcastFull, CallsMatch, MainOwns
      <4>2. CASE ~BroadcastFull(t)
        BY <1>0, <1>2, <3>1, <4>2 DEF MainOwns, Stays
      <4>q. QED BY <4>1, <4>2
    <3>q. QED BY <1>1, <3>1
  <2>4. ASSUME NEW c \in Fds PROVE Same(c)
    BY <1>0, <2>1, <2>2, <2>3, OwnersStable DEF QueuedAt, Occupied, Slot
  <2>q. QED BY <1>0, <2>4 DEF ExactlyOneOwner
<1>3. CASE t \in Producers /\ Put(t) /\ at'[t] = "idle" /\ val'[t] = 0
  <2>a. t = Main /\ main_pc = "enqueue" /\ val[Main] = client_fd[Main] /\ client_fd[Main] \in Fds
    BY <1>0, <1>3, MainAssumption DEF CallsMatch, Put
  <2>0. PICK c \in Fds : t = Main /\ main_pc = "enqueue" /\ val[Main] = c /\ c = client_fd[Main]
    BY <2>a
  <2>1. /\ client_fds' = [client_fds EXCEPT ![write_idx] = c]
        /\ write_idx \notin Occupied /\ Occupied' = Occupied \union {write_idx}
        /\ Occupied \subseteq 0..CAPACITY-1
    <3>1. Occupied \subseteq 0..CAPACITY-1
      BY SlotProperties, CapacityAssumption DEF Occupied
    <3>q. QED BY <1>3, <2>0, <3>1, PutOccupies DEF Put
  <2>2. ASSUME NEW d \in Fds
        PROVE  /\ \A v \in Workers : Owns(v, d)' <=> Owns(v, d)
               /\ ~MainOwns(d)' /\ (MainOwns(d) <=> d = c)
               /\ QueuedAt(d)' = QueuedAt(d) \union (IF d = c THEN {write_idx} ELSE {})
    <3>1. \A v \in Workers : Owns(v, d)' <=> Owns(v, d)
      BY <1>1, <2>0
    <3>2. ~MainOwns(d)' /\ (MainOwns(d) <=> d = c)
      BY <1>0, <1>3, <2>0 DEF MainOwns
    <3>3. QueuedAt(d)' = QueuedAt(d) \union (IF d = c THEN {write_idx} ELSE {})
      BY <2>1 DEF QueuedAt
    <3>q. QED BY <3>1, <3>2, <3>3
  <2>3. /\ conn[c] = "open" /\ QueuedAt(c) = {}
        /\ \A v \in Workers : ~Owns(v, c)
    BY <2>0, <2>2, OneOwner
  <2>4. Owners(c)' = {<<"slot", write_idx>>}
    <3>1. /\ ~MainOwns(c)' /\ QueuedAt(c)' = {write_idx}
          /\ \A v \in Workers : ~Owns(v, c)'
      BY <2>0, <2>2, <2>3
    <3>q. QED BY <3>1, OwnersAfter
  <2>5. ASSUME NEW d \in Fds \ {c} PROVE Same(d)
    <3>1. QueuedAt(d)' = QueuedAt(d) /\ (MainOwns(d)' <=> MainOwns(d))
      BY <2>2, ZenonT(30)
    <3>2. Owners(d)' = Owners(d)
      BY <2>2, <3>1, OwnersStable
    <3>q. QED BY <1>0, <3>2
  <2>6. (\E o \in Owners(c)' : Owners(c)' = {o}) /\ conn'[c] = "open"
    BY <1>0, <2>3, <2>4
  <2>q. QED BY <2>5, <2>6 DEF ExactlyOneOwner
<1>4. CASE t \in Consumers /\ Take(t) /\ at'[t] = "idle" /\ val'[t] = Fetched
  <2>a. client_fds[read_idx] \in Fds
    <3>1. length > 0 /\ 1 \in 1..length
      BY <1>4, ThreadsAssumption, CapacityAssumption DEF Take, Blocked
    <3>2. Contents[1] = client_fds[read_idx]
      BY <3>1, SlotProperties DEF Contents
    <3>q. QED BY <3>1, <3>2 DEF QInv, RingConsistent
  <2>b. PICK c \in Fds : c = client_fds[read_idx]
    BY <2>a
  <2>0. t \in Workers /\ t # Main /\ worker[t] = "dequeue" /\ val'[t] = c
    BY <1>0, <1>4, <2>b DEF CallsMatch, Workers, Fetched
  <2>1. /\ UNCHANGED client_fds /\ read_idx \in Occupied
        /\ Occupied' = Occupied \ {read_idx}
    BY <1>4, TakeFrees DEF Take
  <2>3. ASSUME NEW d \in Fds
        PROVE  /\ \A v \in Workers : Owns(v, d)' <=> Owns(v, d) \/ (v = t /\ d = c)
               /\ MainOwns(d)' <=> MainOwns(d)
               /\ QueuedAt(d)' = QueuedAt(d) \ {read_idx}
               /\ read_idx \in QueuedAt(d) <=> d = c
    <3>1. ~Owns(t, d) /\ (Owns(t, d)' <=> d = c)
      BY <1>0, <1>4, <2>0 DEF Owns
    <3>2. MainOwns(d)' <=> MainOwns(d)
      BY <1>1, <2>0
    <3>3. QueuedAt(d)' = QueuedAt(d) \ {read_idx} /\ (read_idx \in QueuedAt(d) <=> d = c)
      BY <2>1, <2>b DEF QueuedAt
    <3>q. QED BY <1>1, <3>1, <3>2, <3>3
  <2>4. /\ conn[c] = "open" /\ ~MainOwns(c) /\ QueuedAt(c) = {read_idx}
        /\ \A v \in Workers : ~Owns(v, c)
    BY <2>3, OneOwner
  <2>5. Owners(c)' = {<<"thread", t>>}
    <3>1. /\ ~MainOwns(c)' /\ QueuedAt(c)' = {}
          /\ \A v \in Workers : Owns(v, c)' <=> v = t
      BY <2>0, <2>3, <2>4
    <3>q. QED BY <2>0, <3>1, OwnersAfter
  <2>6. ASSUME NEW d \in Fds \ {c} PROVE Same(d)
    <3>1. QueuedAt(d)' = QueuedAt(d)
      BY <2>3, ZenonT(30)
    <3>2. \A v \in Workers : Owns(v, d)' <=> Owns(v, d)
      BY <2>3
    <3>3. Owners(d)' = Owners(d)
      BY <2>3, <3>1, <3>2, OwnersStable
    <3>q. QED BY <1>0, <3>3
  <2>7. (\E o \in Owners(c)' : Owners(c)' = {o}) /\ conn'[c] = "open"
    BY <1>0, <2>4, <2>5
  <2>q. QED BY <2>6, <2>7 DEF ExactlyOneOwner
<1>q. QED BY <1>2, <1>3, <1>4, QueueEffect

LEMMA OwnersStep == ASSUME Inv, QInv, TypeOK', [Next]_vars PROVE ExactlyOneOwner'
<1> USE MainIsNoWorker DEF Inv, TypeOK, QTypeOK
<1> DEFINE Same(c) == Owners(c)' = Owners(c) /\ (conn'[c] = "open" <=> conn[c] = "open")
<1>0. ASSUME \A c \in Fds : Same(c) PROVE ExactlyOneOwner'
  BY <1>0 DEF ExactlyOneOwner
<1>1. CASE MainLocal
  <2>1. UNCHANGED <<qvars, conn, sent, client_fd, worker>>
    BY <1>1, MainLocalFrame
  <2>2. main_pc' = "enqueue" <=> main_pc = "enqueue"
    BY <1>1 DEF MainLocal, Setup, Try, FreeQueue, CloseSocket, CreateFails, RestoreMask,
       CheckKeepGoing, EnterAccept, AcceptFails, ShutdownReturned, JoinWorkers, RaiseSigint,
       HandleSigint
  <2>3. ASSUME NEW c \in Fds PROVE Same(c)
    BY <2>1, <2>2, OwnersStable DEF MainOwns, Owns, QueuedAt, Occupied, Slot, qvars
  <2>q. QED BY <1>0, <2>3
<1>2. ASSUME NEW w \in Workers,
             \/ CreateWorker(w) \/ WorkerExits(w) \/ ReadRequest(w) \/ RequestFails(w)
             \/ WriteResponse(w) \/ WorkerGetsClient(w)
      PROVE  ExactlyOneOwner'
  <2>1. UNCHANGED qvars /\ UNCHANGED <<main_pc, conn>> /\ client_fd'[Main] = client_fd[Main]
    BY <1>2 DEF CreateWorker, WorkerExits, ReadRequest, RequestFails, WriteResponse,
       WorkerGetsClient
  <2>2. ASSUME NEW c \in Fds, NEW v \in Workers PROVE Owns(v, c)' <=> Owns(v, c)
    <3>1. CASE WorkerExits(w)
      BY <2>1, <3>1, FdsAssumption DEF WorkerExits, Owns, qvars
    <3>2. CASE WorkerGetsClient(w)
      BY <2>1, <3>2 DEF WorkerGetsClient, Owns, qvars, Workers, Threads
    <3>3. CASE CreateWorker(w) \/ ReadRequest(w) \/ RequestFails(w) \/ WriteResponse(w)
      BY <2>1, <3>3 DEF CreateWorker, ReadRequest, RequestFails, WriteResponse, Owns, qvars
    <3>q. QED BY <1>2, <3>1, <3>2, <3>3
  <2>3. ASSUME NEW c \in Fds PROVE Same(c)
    BY <2>1, <2>2, OwnersStable DEF MainOwns, QueuedAt, Occupied, Slot, qvars
  <2>q. QED BY <1>0, <2>3
<1>3. ASSUME NEW c \in Fds, AcceptClient(c) PROVE ExactlyOneOwner'
  <2>1. /\ main_pc = "accept" /\ main_pc' = "enqueue" /\ conn[c] = "backlog"
        /\ conn' = [conn EXCEPT ![c] = "open"] /\ client_fd' = [client_fd EXCEPT ![Main] = c]
        /\ at[Main] = "idle" /\ at' = [at EXCEPT ![Main] = "lock"]
        /\ val' = [val EXCEPT ![Main] = c]
        /\ UNCHANGED <<client_fds, length, read_idx, worker>>
    BY <1>3 DEF AcceptClient, EnqueueCall
  <2>2. ASSUME NEW d \in Fds
        PROVE  /\ \A v \in Workers : Owns(v, d)' <=> Owns(v, d)
               /\ QueuedAt(d)' = QueuedAt(d)
               /\ ~MainOwns(d) /\ (MainOwns(d)' <=> d = c)
    BY <2>1 DEF MainOwns, Owns, QueuedAt, Occupied, Slot, Workers, Threads
  <2>3. QueuedAt(c) = {} /\ \A v \in Workers : ~Owns(v, c)
    BY <2>1, OneOwner
  <2>4. Owners(c)' = {<<"thread", Main>>}
    <3>1. /\ MainOwns(c)' /\ QueuedAt(c)' = {}
          /\ \A v \in Workers : ~Owns(v, c)'
      BY <2>2, <2>3
    <3>q. QED BY <3>1, OwnersAfter
  <2>5. ASSUME NEW d \in Fds \ {c} PROVE Same(d)
    <3>1. MainOwns(d)' <=> MainOwns(d)
      BY <2>2
    <3>2. Owners(d)' = Owners(d)
      BY <2>2, <3>1, OwnersStable
    <3>q. QED BY <2>1, <3>2
  <2>6. \E o \in Owners(c)' : Owners(c)' = {o}
    BY <2>4
  <2>7. conn'[c] = "open"
    BY <2>1
  <2>q. QED BY <2>5, <2>6, <2>7 DEF ExactlyOneOwner
<1>4. CASE EnqueueReturned
  <2>1. /\ main_pc = "enqueue" /\ main_pc' # "enqueue" /\ at[Main] = "idle" /\ UNCHANGED qvars
        /\ client_fd' = [client_fd EXCEPT ![Main] = 0] /\ UNCHANGED worker
        /\ client_fd[Main] \in Fds
        /\ conn' = IF val[Main] = -1 THEN [conn EXCEPT ![client_fd[Main]] = "closed"] ELSE conn
    BY <1>4 DEF EnqueueReturned, CallsMatch
  <2>2. ASSUME NEW d \in Fds
        PROVE  /\ \A v \in Workers : Owns(v, d)' <=> Owns(v, d)
               /\ QueuedAt(d)' = QueuedAt(d)
               /\ ~MainOwns(d)' /\ (MainOwns(d) <=> val[Main] = -1 /\ client_fd[Main] = d)
    BY <2>1 DEF MainOwns, Owns, QueuedAt, Occupied, Slot, Workers, Threads, qvars
  <2>3. CASE val[Main] # -1
    <3>1. \A d \in Fds : Same(d)
      BY <2>1, <2>2, <2>3, OwnersStable
    <3>q. QED BY <1>0, <3>1
  <2>4. CASE val[Main] = -1
    <3>0. PICK c \in Fds : c = client_fd[Main]
      BY <2>1
    <3>1. QueuedAt(c) = {} /\ \A v \in Workers : ~Owns(v, c)
      BY <2>2, <2>4, <3>0, OneOwner
    <3>2. Owners(c)' = {}
      <4>1. /\ ~MainOwns(c)' /\ QueuedAt(c)' = {}
            /\ \A v \in Workers : ~Owns(v, c)'
        BY <2>2, <3>1
      <4>q. QED BY <4>1, OwnersAfter
    <3>3. ASSUME NEW d \in Fds \ {c} PROVE Same(d)
      <4>1. MainOwns(d)' <=> MainOwns(d)
        BY <2>2, <2>4, <3>0
      <4>2. Owners(d)' = Owners(d)
        BY <2>2, <4>1, OwnersStable
      <4>q. QED BY <2>1, <2>4, <3>0, <4>2
    <3>q. QED BY <2>1, <2>4, <3>0, <3>2, <3>3 DEF ExactlyOneOwner
  <2>q. QED BY <2>3, <2>4
<1>5. CASE CallShutdown
  <2>1. /\ main_pc = "shutdown" /\ main_pc' = "shutting" /\ at[Main] = "idle"
        /\ at' = [at EXCEPT ![Main] = "bempty"]
        /\ UNCHANGED <<client_fds, length, read_idx, val, conn, client_fd, worker>>
    BY <1>5 DEF CallShutdown, SetShutdown
  <2>2. ASSUME NEW c \in Fds PROVE Same(c)
    BY <2>1, OwnersStable DEF MainOwns, Owns, QueuedAt, Occupied, Slot, Workers, Threads
  <2>q. QED BY <1>0, <2>2
<1>6. ASSUME NEW w \in Workers, WorkerCalls(w) PROVE ExactlyOneOwner'
  <2>1. /\ worker[w] = "call" /\ worker' = [worker EXCEPT ![w] = "dequeue"]
        /\ at' = [at EXCEPT ![w] = "lock"] /\ val' = [val EXCEPT ![w] = 0]
        /\ UNCHANGED <<main_pc, client_fds, length, read_idx, conn, client_fd>>
    BY <1>6 DEF WorkerCalls, DequeueCall
  <2>2. ASSUME NEW c \in Fds PROVE Same(c)
    BY <2>1, OwnersStable DEF MainOwns, Owns, QueuedAt, Occupied, Slot, Workers, Threads
  <2>q. QED BY <1>0, <2>2
<1>7. ASSUME NEW w \in Workers, CloseClient(w) PROVE ExactlyOneOwner'
  <2>0. worker[w] = "close" /\ client_fd[w] \in Fds
    BY <1>7 DEF CloseClient, CallsMatch
  <2>1. PICK c \in Fds :
          /\ c = client_fd[w] /\ worker' = [worker EXCEPT ![w] = "call"]
          /\ conn' = [conn EXCEPT ![c] = "closed"] /\ client_fd' = [client_fd EXCEPT ![w] = 0]
          /\ UNCHANGED <<qvars, main_pc>>
    BY <1>7, <2>0 DEF CloseClient
  <2>2. ASSUME NEW d \in Fds
        PROVE  /\ \A v \in Workers : Owns(v, d)' <=> Owns(v, d) /\ v # w
               /\ Owns(w, d) <=> d = c
               /\ QueuedAt(d)' = QueuedAt(d)
               /\ MainOwns(d)' <=> MainOwns(d)
    BY <2>0, <2>1 DEF MainOwns, Owns, QueuedAt, Occupied, Slot, Workers, Threads, qvars
  <2>3. /\ QueuedAt(c) = {} /\ ~MainOwns(c)
        /\ \A v \in Workers : Owns(v, c) => v = w
    BY <2>2, OneOwner
  <2>4. Owners(c)' = {}
    <3>1. /\ ~MainOwns(c)' /\ QueuedAt(c)' = {}
          /\ \A v \in Workers : ~Owns(v, c)'
      BY <2>2, <2>3
    <3>q. QED BY <3>1, OwnersAfter
  <2>5. ASSUME NEW d \in Fds \ {c} PROVE Same(d)
    <3>1. \A v \in Workers : Owns(v, d)' <=> Owns(v, d)
      BY <2>2
    <3>2. Owners(d)' = Owners(d)
      BY <2>2, <3>1, OwnersStable
    <3>q. QED BY <2>1, <3>2
  <2>q. QED BY <2>1, <2>4, <2>5 DEF ExactlyOneOwner
<1>8. ASSUME NEW t \in Threads, QueueStep(t) \/ QueueWakeup(t) PROVE ExactlyOneOwner'
  BY <1>8, OwnersInQueue
<1>9. ASSUME NEW e \in Fds, Connect(e) \/ Send(e) PROVE ExactlyOneOwner'
  <2>1. /\ UNCHANGED <<qvars, main_pc, client_fd, worker>>
        /\ \A c \in Fds : conn'[c] = "open" <=> conn[c] = "open"
    BY <1>9 DEF Connect, Send
  <2>2. ASSUME NEW c \in Fds PROVE Same(c)
    BY <2>1, OwnersStable DEF MainOwns, Owns, QueuedAt, Occupied, Slot, qvars
  <2>q. QED BY <1>0, <2>2
<1>10. CASE UNCHANGED vars
  <2>1. ASSUME NEW c \in Fds PROVE Same(c)
    BY <1>10, OwnersStable DEF MainOwns, Owns, QueuedAt, Occupied, Slot, qvars, servervars, vars
  <2>q. QED BY <1>0, <2>1
<1>q. QED
  BY <1>1, <1>2, <1>3, <1>4, <1>5, <1>6, <1>7, <1>8, <1>9, <1>10, NextCases

-----------------------------------------------------------------------------
LEMMA InvInit == ASSUME Init PROVE Inv
<1>1. QTypeOK
  BY QInvInductive DEF Init, QInv
<1>2. TypeOK
  BY <1>1 DEF Init, TypeOK, SetupPlaces
<1>3. CallsMatch
  BY MainIsNoWorker DEF Init, QInit, CallsMatch, Workers, Threads
<1>4. PhasesMatch /\ ExitedMeansDrained
  BY WorkersAssumption DEF Init, QInit, PhasesMatch, ExitedMeansDrained, HeldAt,
     SetupPlaces, LoopPlaces, TeardownPlaces
<1>5. ASSUME NEW c \in Fds PROVE conn[c] # "open" /\ Owners(c) = {}
  <2>1. ~MainOwns(c) /\ \A w \in Workers : ~Owns(w, c)
    BY DEF Init, MainOwns, Owns
  <2>2. Occupied = {}
    BY DEF Init, QInit, Occupied
  <2>q. QED BY <2>1, <2>2 DEF Init, Owners, QueuedAt
<1>q. QED BY <1>2, <1>3, <1>4, <1>5 DEF Inv, ExactlyOneOwner

\* Inv holds of every reachable state.
THEOREM InvAlways == Spec => []Inv
<1>1. Inv /\ QInv /\ QInv' /\ [Next]_vars => Inv'
  <2> SUFFICES ASSUME Inv, QInv, QInv', [Next]_vars PROVE Inv'
    OBVIOUS
  <2>1. TypeOK'
    BY TypingStep DEF Inv, QInv
  <2>q. QED BY <2>1, CallsStep, PhasesStep, DrainedStep, OwnersStep DEF Inv
<1>2. Init => Inv
  BY InvInit
<1>q. QED BY <1>1, <1>2, UsesQueue, QInvAlways, PTL DEF Spec

\* Every accepted connection always has exactly one owner that will close it.
THEOREM NoConnectionIsLost == Spec => []ExactlyOneOwner
<1>1. Inv => ExactlyOneOwner
  BY DEF Inv
<1>q. QED BY <1>1, InvAlways, PTL

\* Workers stop only when the queue is, and stays, empty.
THEOREM WorkersDrainTheQueue == Spec => []ExitedMeansDrained
<1>1. Inv => ExitedMeansDrained
  BY DEF Inv
<1>q. QED BY <1>1, InvAlways, PTL

\* connection_queue_free runs after the last worker has left the queue.
THEOREM QueueIsFreedLast == Spec => []QueueOutlivesWorkers
<1>1. Inv => QueueOutlivesWorkers
  <2> SUFFICES ASSUME Inv, main_pc \in TeardownPlaces, "queue" \notin held
               PROVE  \A w \in Workers : worker[w] \in {"none", "exited"}
    BY DEF QueueOutlivesWorkers
  <2>1. main_pc \in {"close", "exit"}
    BY DEF Inv, PhasesMatch, HeldAt, TeardownPlaces
  <2>q. QED BY <2>1 DEF Inv, PhasesMatch
<1>q. QED BY <1>1, InvAlways, PTL

\* main() never returns with something unreleased or a client unclosed.
THEOREM ExitsClean == Spec => []ExitIsClean
<1>1. Inv /\ QInv => ExitIsClean
  <2> SUFFICES ASSUME Inv, QInv, main_pc = "exit"
               PROVE  held = {} /\ \A c \in Fds : conn[c] # "open"
    BY DEF ExitIsClean
  <2> USE DEF Inv, TypeOK, QTypeOK
  <2>1. held = {}
    BY DEF PhasesMatch, HeldAt
  <2>2. \A w \in Workers : worker[w] \in {"none", "exited"}
    BY DEF PhasesMatch
  <2>3. length = 0
    BY <2>2, WorkersAssumption DEF PhasesMatch, ExitedMeansDrained
  <2>4. ASSUME NEW c \in Fds PROVE Owners(c) = {}
    <3>1. ~MainOwns(c) /\ \A w \in Workers : ~Owns(w, c)
      BY <2>2 DEF MainOwns, Owns
    <3>2. Occupied = {}
      BY <2>3 DEF Occupied
    <3>q. QED BY <3>1, <3>2 DEF Owners, QueuedAt
  <2>q. QED BY <2>1, <2>4 DEF ExactlyOneOwner
<1>q. QED BY <1>1, InvAlways, UsesQueue, QInvAlways, PTL

\* main() takes down what it has set up in order, on every path, for any number of workers.
THEOREM ServerTakesDown == Spec => []ServerIsOrderly
<1>1. TypeOK /\ ExitedMeansDrained /\ QueueOutlivesWorkers /\ ExitIsClean => ServerIsOrderly
  BY DEF ServerIsOrderly
<1> QED
  BY <1>1, ServerTypeCorrect, WorkersDrainTheQueue, QueueIsFreedLast, ExitsClean, PTL
-----------------------------------------------------------------------------
(* The order in which clients are served.                                  *)

\* The queue refuses a client only when it was shut down, which main() does after
\* its last connection_enqueue.
NeverRefused == main_pc = "enqueue" => val[Main] # -1

\* Of the steps inside the queue only FailIfShutdown could break it.
LEMMA NeverRefusedStep == ASSUME Inv, QInv, NeverRefused, [Next]_vars PROVE NeverRefused'
<1> USE MainIsNoWorker DEF Inv, TypeOK, QTypeOK, NeverRefused
<1>1. CASE MainLocal
  <2>1. UNCHANGED qvars
    BY <1>1, MainLocalFrame
  <2>2. main_pc' = "enqueue" => main_pc = "enqueue"
    BY <1>1 DEF MainLocal, Setup, Try, FreeQueue, CloseSocket, CreateFails, RestoreMask,
       CheckKeepGoing, EnterAccept, AcceptFails, ShutdownReturned, JoinWorkers, RaiseSigint,
       HandleSigint
  <2> QED
    BY <2>1, <2>2 DEF qvars
<1>2. ASSUME NEW c \in Fds, AcceptClient(c) PROVE NeverRefused'
  BY <1>2, FdsAssumption DEF AcceptClient, EnqueueCall
<1>3. CASE EnqueueReturned \/ CallShutdown
  BY <1>3 DEF EnqueueReturned, CallShutdown
<1>4. ASSUME NEW w \in Workers, WorkerCalls(w) PROVE NeverRefused'
  BY <1>4 DEF WorkerCalls, DequeueCall
<1>5. ASSUME NEW w \in Workers,
             \/ CreateWorker(w) \/ WorkerExits(w) \/ ReadRequest(w) \/ RequestFails(w)
             \/ WriteResponse(w) \/ CloseClient(w) \/ WorkerGetsClient(w)
      PROVE  NeverRefused'
  BY <1>5 DEF CreateWorker, WorkerExits, ReadRequest, RequestFails, WriteResponse, CloseClient,
     WorkerGetsClient, qvars
<1>6. ASSUME NEW t \in Threads, QueueStep(t) \/ QueueWakeup(t) PROVE NeverRefused'
  <2>1. UNCHANGED main_pc
    BY <1>6, QueueEffect DEF servervars
  <2>2. CASE t # Main
    BY <1>6, <2>1, <2>2, QueueEffect
  <2>3. CASE t = Main /\ main_pc = "enqueue"
    <3>1. ~FailIfShutdown(Main)
      BY <2>3 DEF FailIfShutdown, PhasesMatch, TeardownPlaces
    <3>2. Main \notin Consumers
      BY DEF Workers
    <3>3. val'[Main] = val[Main] \/ val'[Main] = 0
      BY <1>6, <2>3, <3>1, <3>2, QueueEffect DEF Stays
    <3> QED
      BY <2>1, <2>3, <3>3
  <2> QED
    BY <2>1, <2>2, <2>3
<1>7. ASSUME NEW c \in Fds, Connect(c) \/ Send(c) PROVE NeverRefused'
  BY <1>7 DEF Connect, Send, qvars
<1>8. CASE UNCHANGED vars
  BY <1>8 DEF vars, servervars, qvars
<1> QED
  BY <1>1, <1>2, <1>3, <1>4, <1>5, <1>6, <1>7, <1>8, NextCases

\* What the abstract server sees.
AtDoor == IF \E c \in Fds : MainOwns(c) THEN <<client_fd[Main]>> ELSE <<>>
Line == Contents \o AtDoor
Serving == {c \in Fds : \E w \in Workers : Owns(w, c)}
Finished == {c \in Fds : conn[c] = "closed"}

\* A step that moves no client from one owner to another is a stutter.
LEMMA NobodyMoves ==
    ASSUME Contents' = Contents,
           client_fd'[Main] = client_fd[Main] \/ \A c \in Fds : ~MainOwns(c)',
           \A c \in Fds : MainOwns(c)' <=> MainOwns(c),
           \A c \in Fds : \A w \in Workers : Owns(w, c)' <=> Owns(w, c),
           \A c \in Fds : conn'[c] = "closed" <=> conn[c] = "closed"
    PROVE  UNCHANGED <<Line, Serving, Finished>>
BY DEF Line, AtDoor, Serving, Finished

\* A queued descriptor is in a slot, and the other way round.
LEMMA InLineIsQueued ==
    ASSUME QInv, NEW c \in Fds, NEW i \in 1..length, Contents[i] = c
    PROVE  QueuedAt(c) # {}
BY DEF Contents, QueuedAt, Occupied

\* A worker that has no client leaves room for one more to be served.
LEMMA RoomToServe ==
    ASSUME Inv, NEW w \in Workers, \A c \in Fds : ~Owns(w, c)
    PROVE  Cardinality(Serving) < Cardinality(Workers)
<1> DEFINE f == [c \in Serving |-> CHOOSE v \in Workers : Owns(v, c)]
<1>1. IsFiniteSet(Workers) /\ Cardinality(Workers) \in Nat
  BY ThreadsAssumption, FS_Subset, FS_CardinalityType DEF Workers, Threads
<1>2. \A c \in Serving : f[c] \in Workers \ {w} /\ Owns(f[c], c)
  BY DEF Serving
<1>3. \A v \in Workers : \A c, d \in Fds : Owns(v, c) /\ Owns(v, d) => c = d
  BY DEF Owns
<1>4. f \in Injection(Serving, Workers \ {w})
  <2>1. f \in [Serving -> Workers \ {w}]
    BY <1>2
  <2>2. \A c, d \in Serving : f[c] = f[d] => c = d
    <3> SUFFICES ASSUME NEW c \in Serving, NEW d \in Serving, f[c] = f[d] PROVE c = d
      OBVIOUS
    <3> HIDE DEF f
    <3>1. c \in Fds /\ d \in Fds
      BY DEF Serving
    <3> QED
      BY <1>2, <1>3, <3>1
  <2> HIDE DEF f
  <2> QED
    BY <2>1, <2>2 DEF Injection, IsInjective
<1>5. IsFiniteSet(Workers \ {w}) /\ Cardinality(Workers \ {w}) = Cardinality(Workers) - 1
  BY <1>1, FS_RemoveElement
<1> HIDE DEF f
<1>6. Cardinality(Serving) <= Cardinality(Workers \ {w}) /\ IsFiniteSet(Serving)
  BY <1>4, <1>5, FS_Injection
<1>7. Cardinality(Serving) \in Nat
  BY <1>6, FS_CardinalityType
<1> QED
  BY <1>1, <1>5, <1>6, <1>7

\* The sequence without anybody at the door, and with client c there.
LEMMA OneMore ==
    ASSUME NEW s \in Seq(Fds \union {0}), NEW c \in Fds
    PROVE  /\ s \o <<>> = s
           /\ s \o <<c>> = Append(s, c)
BY ConcatEmptySeq, AppendIsConcat

\* The line before a step,
LEMMA LineOf ==
    ASSUME QInv
    PROVE  /\ Contents \in Seq(Fds \union {0}) /\ Len(Contents) = length
           /\ (\A c \in Fds : ~MainOwns(c)) => Line = Contents
           /\ \A c \in Fds : MainOwns(c) => Line = Append(Contents, c)
<1>1. Contents \in Seq(Fds \union {0}) /\ Len(Contents) = length
  BY ContentsLength DEF QInv
<1>2. (\A c \in Fds : ~MainOwns(c)) => Line = Contents
  BY <1>1, ConcatEmptySeq DEF Line, AtDoor
<1>3. ASSUME NEW c \in Fds, MainOwns(c) PROVE Line = Append(Contents, c)
  <2>1. AtDoor = <<c>>
    BY <1>3 DEF AtDoor, MainOwns
  <2> QED
    BY <1>1, <2>1, OneMore DEF Line
<1> QED
  BY <1>1, <1>2, <1>3

\* and after it.
LEMMA LineAfter ==
    ASSUME Contents' \in Seq(Fds \union {0})
    PROVE  /\ (\A c \in Fds : ~MainOwns(c)') => Line' = Contents'
           /\ \A c \in Fds : MainOwns(c)' => Line' = Append(Contents', c)
<1>1. (\A c \in Fds : ~MainOwns(c)') => Line' = Contents'
  BY ConcatEmptySeq DEF Line, AtDoor
<1>2. ASSUME NEW c \in Fds, MainOwns(c)' PROVE Line' = Append(Contents', c)
  <2>1. AtDoor' = <<c>>
    BY <1>2 DEF AtDoor, MainOwns
  <2> QED
    BY <2>1, OneMore DEF Line
<1> QED
  BY <1>1, <1>2

\* The three steps of the abstract server.
Accepts(c) ==
    /\ Len(Line) < CAPACITY + 1
    /\ c \notin Serving \union Finished
    /\ \A i \in 1..Len(Line) : Line[i] # c
    /\ Line' = Append(Line, c)
    /\ UNCHANGED <<Serving, Finished>>

Serves ==
    /\ Line # <<>>
    /\ Cardinality(Serving) < Cardinality(Workers)
    /\ Serving' = Serving \union {Head(Line)}
    /\ Line' = Tail(Line)
    /\ UNCHANGED Finished

Finishes(c) ==
    /\ c \in Serving
    /\ Serving' = Serving \ {c}
    /\ Finished' = Finished \union {c}
    /\ UNCHANGED Line

\* A client that is accepted goes to the end of the line.
LEMMA AcceptMaps == ASSUME Inv, QInv, NEW c \in Fds, AcceptClient(c) PROVE Accepts(c)
<1> USE MainIsNoWorker DEF Inv, TypeOK, QTypeOK
<1>1. /\ main_pc = "accept" /\ main_pc' = "enqueue" /\ conn[c] = "backlog"
      /\ conn' = [conn EXCEPT ![c] = "open"] /\ client_fd' = [client_fd EXCEPT ![Main] = c]
      /\ at' = [at EXCEPT ![Main] = "lock"]
      /\ val' = [val EXCEPT ![Main] = c]
      /\ UNCHANGED <<client_fds, length, read_idx, worker>>
  BY DEF AcceptClient, EnqueueCall
<1>2. ASSUME NEW d \in Fds
      PROVE  /\ \A v \in Workers : Owns(v, d)' <=> Owns(v, d)
             /\ ~MainOwns(d) /\ (MainOwns(d)' <=> d = c)
  BY <1>1 DEF MainOwns, Owns, QInv, Workers, Threads
<1>3. Contents' = Contents
  BY <1>1 DEF Contents, Slot
<1>4. /\ Line = Contents /\ Len(Line) = length /\ Contents \in Seq(Fds \union {0})
      /\ Line' = Append(Contents, c)
  BY <1>2, <1>3, LineOf, LineAfter
<1>5. QueuedAt(c) = {} /\ \A v \in Workers : ~Owns(v, c)
  BY <1>1, OneOwner
<1>6. \A i \in 1..Len(Line) : Line[i] # c
  BY <1>4, <1>5, InLineIsQueued
<1>7. UNCHANGED <<Serving, Finished>>
  BY <1>1, <1>2 DEF Serving, Finished
<1>8. c \notin Serving \union Finished
  BY <1>1, <1>5 DEF Serving, Finished
<1>9. Len(Line) < CAPACITY + 1
  BY <1>4, CapacityAssumption DEF QInv
<1> QED
  BY <1>4, <1>6, <1>7, <1>8, <1>9 DEF Accepts

\* A client that is closed was being served.
LEMMA CloseMaps == ASSUME Inv, NEW w \in Workers, CloseClient(w) PROVE \E c \in Fds : Finishes(c)
<1> USE MainIsNoWorker DEF Inv, TypeOK, QTypeOK
<1>1. worker[w] = "close" /\ client_fd[w] \in Fds
  BY DEF CloseClient, CallsMatch
<1>2. PICK c \in Fds :
         /\ c = client_fd[w] /\ worker' = [worker EXCEPT ![w] = "call"]
         /\ conn' = [conn EXCEPT ![c] = "closed"] /\ client_fd' = [client_fd EXCEPT ![w] = 0]
         /\ UNCHANGED <<qvars, main_pc>>
  BY <1>1 DEF CloseClient
<1>3. ASSUME NEW d \in Fds
      PROVE  /\ \A v \in Workers : Owns(v, d)' <=> Owns(v, d) /\ v # w
             /\ Owns(w, d) <=> d = c
             /\ MainOwns(d)' <=> MainOwns(d)
  BY <1>1, <1>2 DEF MainOwns, Owns, Workers, Threads, qvars
<1>4. \A v \in Workers : Owns(v, c) => v = w
  BY <1>3, OneOwner
<1>5. c \in Serving /\ Serving' = Serving \ {c}
  BY <1>3, <1>4 DEF Serving
<1>6. Finished' = Finished \union {c}
  BY <1>2 DEF Finished
<1>7. Contents' = Contents /\ client_fd'[Main] = client_fd[Main]
  BY <1>2 DEF Contents, Slot, qvars
<1>8. UNCHANGED Line
  BY <1>3, <1>7 DEF Line, AtDoor
<1> QED
  BY <1>5, <1>6, <1>8 DEF Finishes

\* From the door into the ring a client keeps its place in the line.
LEMMA PutMaps ==
    ASSUME Inv, QInv, QueueStep(Main), Put(Main), at'[Main] = "idle", val'[Main] = 0
    PROVE  UNCHANGED <<Line, Serving, Finished>>
<1> USE MainIsNoWorker DEF Inv, TypeOK, QTypeOK
<1>1. /\ at[Main] = "test" /\ UNCHANGED <<main_pc, conn, client_fd, worker>>
      /\ \A u \in Threads \ {Main} : (at'[u] = "idle" <=> at[u] = "idle") /\ val'[u] = val[u]
  BY QueueEffect DEF servervars, Put
<1>2. main_pc = "enqueue" /\ val[Main] = client_fd[Main] /\ client_fd[Main] \in Fds
  BY <1>1 DEF CallsMatch
<1>3. PICK c \in Fds : val[Main] = c /\ c = client_fd[Main]
  BY <1>2
<1>4. MainOwns(c) /\ \A d \in Fds : ~MainOwns(d)'
  BY <1>1, <1>2, <1>3 DEF MainOwns
<1>5. \A d \in Fds : \A v \in Workers : Owns(v, d)' <=> Owns(v, d)
  BY <1>1 DEF Owns, Workers, Threads
<1>6. Contents' = Append(Contents, c)
  BY <1>3, PutAppends
<1>7. Line = Append(Contents, c) /\ Contents \in Seq(Fds \union {0})
  BY <1>4, LineOf
<1>8. Contents' \in Seq(Fds \union {0})
  BY <1>6, <1>7, AppendProperties
<1>9. Line' = Contents'
  BY <1>4, <1>8, LineAfter
<1> QED
  BY <1>1, <1>5, <1>6, <1>7, <1>9 DEF Serving, Finished

\* What a worker fetches is the head of the line.
LEMMA TakeMaps ==
    ASSUME Inv, QInv, NEW w \in Workers, QueueStep(w), Take(w), at'[w] = "idle",
           val'[w] = Fetched
    PROVE  Serves
<1> USE MainIsNoWorker DEF Inv, TypeOK, QTypeOK
<1>1. /\ at[w] = "test" /\ UNCHANGED <<main_pc, conn, client_fd, worker>>
      /\ \A u \in Threads \ {w} : (at'[u] = "idle" <=> at[u] = "idle") /\ val'[u] = val[u]
      /\ w \in Threads /\ w \in Consumers
  BY QueueEffect DEF servervars, Take, Workers, Threads
<1>2. worker[w] = "dequeue" /\ \A d \in Fds : ~Owns(w, d)
  BY <1>1 DEF CallsMatch, Owns
<1>3. /\ Contents \in Seq(Fds \union {0}) /\ Contents # <<>>
      /\ Head(Contents) = Fetched /\ Contents' = Tail(Contents)
  <2>1. length > 0
    BY <1>1, ThreadsAssumption, CapacityAssumption DEF Take, Blocked, QInv
  <2> QED
    BY <1>1, <2>1, ContentsLength, TakeRemoves DEF QInv
<1>4. Contents' \in Seq(Fds \union {0})
  BY <1>3
<1>5. \A d \in Fds : MainOwns(d)' <=> MainOwns(d)
  BY <1>1 DEF MainOwns
<1>6. /\ Line # <<>> /\ Head(Line) = Fetched /\ Line' = Tail(Line)
  <2>1. CASE \A d \in Fds : ~MainOwns(d)
    BY <1>3, <1>4, <1>5, <2>1, LineOf, LineAfter
  <2>2. ASSUME NEW c \in Fds, MainOwns(c) PROVE Line # <<>> /\ Head(Line) = Fetched /\ Line' = Tail(Line)
    <3>1. Line = Append(Contents, c) /\ Line' = Append(Contents', c)
      BY <1>4, <1>5, <2>2, LineOf, LineAfter
    <3> QED
      BY <1>3, <3>1, HeadTailAppend, AppendProperties
  <2> QED
    BY <2>1, <2>2
<1>7. Fetched \in Fds
  <2>1. length > 0 /\ 1 \in 1..length
    BY <1>1, ThreadsAssumption, CapacityAssumption DEF Take, Blocked, QInv
  <2>2. Contents[1] = Fetched
    BY <2>1, SlotProperties DEF Contents, Fetched, QInv
  <2> QED
    BY <2>1, <2>2 DEF QInv, RingConsistent
<1>8. \A d \in Fds : \A v \in Workers : Owns(v, d)' <=> Owns(v, d) \/ (v = w /\ d = Fetched)
  BY <1>1, <1>2 DEF Owns, Workers, Threads
<1>9. Serving' = Serving \union {Fetched} /\ UNCHANGED Finished
  BY <1>1, <1>7, <1>8 DEF Serving, Finished
<1>10. Cardinality(Serving) < Cardinality(Workers)
  BY <1>2, RoomToServe
<1> QED
  BY <1>6, <1>9, <1>10 DEF Serves

\* Every other step of a thread inside the queue is a stutter.
LEMMA QueueMaps ==
    ASSUME Inv, QInv, NeverRefused, NEW t \in Threads, QueueStep(t) \/ QueueWakeup(t)
    PROVE  Serves \/ UNCHANGED <<Line, Serving, Finished>>
<1> USE MainIsNoWorker DEF Inv, TypeOK, QTypeOK
<1>0. /\ UNCHANGED <<main_pc, conn, client_fd, worker>> /\ at[t] # "idle"
      /\ \A u \in Threads \ {t} : (at'[u] = "idle" <=> at[u] = "idle") /\ val'[u] = val[u]
  BY QueueEffect DEF servervars
<1>1. CASE t \in Producers /\ Put(t) /\ at'[t] = "idle" /\ val'[t] = 0
  <2>1. t = Main /\ QueueStep(Main)
    BY <1>1, MainAssumption DEF QueueWakeup, SpuriousWakeup, Put
  <2> QED
    BY <1>1, <2>1, PutMaps
<1>2. CASE t \in Consumers /\ Take(t) /\ at'[t] = "idle" /\ val'[t] = Fetched
  <2>1. t \in Workers /\ QueueStep(t)
    BY <1>2 DEF QueueWakeup, SpuriousWakeup, Take, Workers
  <2> QED
    BY <1>2, <2>1, TakeMaps
<1>3. CASE \/ Stays(t)
           \/ FailIfShutdown(t) /\ at'[t] = "idle" /\ val'[t] = -1
           \/ BroadcastFull(t) /\ at'[t] = "idle" /\ val'[t] = 0
  <2>1. UNCHANGED <<client_fds, length, read_idx>>
    BY <1>3 DEF Stays, FailIfShutdown, BroadcastFull
  <2>2. Contents' = Contents
    BY <2>1 DEF Contents, Slot
  <2>3. ASSUME NEW c \in Fds, NEW v \in Workers PROVE Owns(v, c)' <=> Owns(v, c)
    <3>1. CASE t = v
      BY <1>0, <1>3, <3>1, FdsAssumption DEF Owns, Stays, CallsMatch
    <3>2. CASE t # v
      BY <1>0, <3>2 DEF Owns, Workers, Threads
    <3> QED
      BY <3>1, <3>2
  <2>4. ASSUME NEW c \in Fds PROVE MainOwns(c)' <=> MainOwns(c)
    <3>1. CASE t # Main
      BY <1>0, <3>1 DEF MainOwns
    <3>2. CASE t = Main /\ BroadcastFull(t)
      BY <1>0, <3>2 DEF BroadcastFull, CallsMatch, MainOwns
    <3>3. CASE t = Main /\ ~BroadcastFull(t)
      BY <1>0, <1>3, <3>3 DEF MainOwns, Stays
    <3> QED
      BY <3>1, <3>2, <3>3
  <2> QED
    BY <1>0, <2>2, <2>3, <2>4, NobodyMoves
<1> QED
  BY <1>1, <1>2, <1>3, QueueEffect

\* Every step of the server is one of the abstract server, or a stutter.
LEMMA ServerMaps ==
    ASSUME Inv, QInv, NeverRefused, [Next]_vars
    PROVE  \/ \E c \in Fds : Accepts(c) \/ Finishes(c)
           \/ Serves
           \/ UNCHANGED <<Line, Serving, Finished>>
<1> USE MainIsNoWorker DEF Inv, TypeOK, QTypeOK
<1> DEFINE Stutter == UNCHANGED <<Line, Serving, Finished>>
<1>0. ASSUME UNCHANGED <<client_fds, length, read_idx>>,
             client_fd'[Main] = client_fd[Main] \/ \A c \in Fds : ~MainOwns(c)',
             \A c \in Fds : MainOwns(c)' <=> MainOwns(c),
             \A c \in Fds : \A w \in Workers : Owns(w, c)' <=> Owns(w, c),
             \A c \in Fds : conn'[c] = "closed" <=> conn[c] = "closed"
      PROVE  Stutter
  <2>1. Contents' = Contents
    BY <1>0 DEF Contents, Slot
  <2> QED
    BY <1>0, <2>1, NobodyMoves
<1>1. CASE MainLocal
  <2>1. UNCHANGED <<qvars, conn, sent, client_fd, worker>>
    BY <1>1, MainLocalFrame
  <2>2. main_pc' = "enqueue" <=> main_pc = "enqueue"
    BY <1>1 DEF MainLocal, Setup, Try, FreeQueue, CloseSocket, CreateFails, RestoreMask,
       CheckKeepGoing, EnterAccept, AcceptFails, ShutdownReturned, JoinWorkers, RaiseSigint,
       HandleSigint
  <2> QED
    BY <1>0, <2>1, <2>2 DEF MainOwns, Owns, qvars
<1>2. ASSUME NEW w \in Workers,
             \/ CreateWorker(w) \/ WorkerExits(w) \/ ReadRequest(w) \/ RequestFails(w)
             \/ WriteResponse(w) \/ WorkerGetsClient(w)
      PROVE  Stutter
  <2>1. UNCHANGED qvars /\ UNCHANGED <<main_pc, conn>> /\ client_fd'[Main] = client_fd[Main]
    BY <1>2 DEF CreateWorker, WorkerExits, ReadRequest, RequestFails, WriteResponse,
       WorkerGetsClient
  <2>2. ASSUME NEW c \in Fds, NEW v \in Workers PROVE Owns(v, c)' <=> Owns(v, c)
    <3>1. CASE WorkerExits(w)
      BY <2>1, <3>1, FdsAssumption DEF WorkerExits, Owns, qvars
    <3>2. CASE WorkerGetsClient(w)
      BY <2>1, <3>2 DEF WorkerGetsClient, Owns, qvars, Workers, Threads
    <3>3. CASE CreateWorker(w) \/ ReadRequest(w) \/ RequestFails(w) \/ WriteResponse(w)
      BY <2>1, <3>3 DEF CreateWorker, ReadRequest, RequestFails, WriteResponse, Owns, qvars
    <3> QED
      BY <1>2, <3>1, <3>2, <3>3
  <2> QED
    BY <1>0, <2>1, <2>2 DEF MainOwns, qvars
<1>3. CASE EnqueueReturned
  <2>1. /\ main_pc = "enqueue" /\ main_pc' # "enqueue" /\ at[Main] = "idle" /\ UNCHANGED qvars
        /\ client_fd' = [client_fd EXCEPT ![Main] = 0] /\ UNCHANGED worker
    BY <1>3 DEF EnqueueReturned
  <2>2. val[Main] # -1 /\ UNCHANGED conn
    BY <1>3, <2>1 DEF EnqueueReturned, NeverRefused
  <2>3. \A c \in Fds : ~MainOwns(c) /\ ~MainOwns(c)'
    BY <2>1, <2>2 DEF MainOwns
  <2>4. \A c \in Fds : \A w \in Workers : Owns(w, c)' <=> Owns(w, c)
    BY <2>1 DEF Owns, Workers, Threads, qvars
  <2> QED
    BY <1>0, <2>1, <2>2, <2>3, <2>4 DEF qvars
<1>4. CASE CallShutdown
  <2>1. /\ main_pc = "shutdown" /\ main_pc' = "shutting" /\ at[Main] = "idle"
        /\ at' = [at EXCEPT ![Main] = "bempty"]
        /\ UNCHANGED <<client_fds, length, read_idx, val, conn, client_fd, worker>>
    BY <1>4 DEF CallShutdown, SetShutdown
  <2> QED
    BY <1>0, <2>1 DEF MainOwns, Owns, Workers, Threads
<1>5. ASSUME NEW w \in Workers, WorkerCalls(w) PROVE Stutter
  <2>1. /\ worker[w] = "call" /\ worker' = [worker EXCEPT ![w] = "dequeue"]
        /\ at' = [at EXCEPT ![w] = "lock"] /\ val' = [val EXCEPT ![w] = 0]
        /\ UNCHANGED <<main_pc, client_fds, length, read_idx, conn, client_fd>>
    BY <1>5 DEF WorkerCalls, DequeueCall
  <2> QED
    BY <1>0, <2>1 DEF MainOwns, Owns, Workers, Threads
<1>6. ASSUME NEW c \in Fds, Connect(c) \/ Send(c) PROVE Stutter
  <2>1. /\ UNCHANGED <<qvars, main_pc, client_fd, worker>>
        /\ \A d \in Fds : conn'[d] = "closed" <=> conn[d] = "closed"
    BY <1>6 DEF Connect, Send
  <2> QED
    BY <1>0, <2>1 DEF MainOwns, Owns, qvars
<1>7. CASE UNCHANGED vars
  BY <1>0, <1>7 DEF MainOwns, Owns, qvars, servervars, vars
<1> HIDE DEF Stutter
<1>8. Stutter => UNCHANGED <<Line, Serving, Finished>>
  BY DEF Stutter
<1> QED
  BY <1>1, <1>2, <1>3, <1>4, <1>5, <1>6, <1>7, <1>8, AcceptMaps, CloseMaps, QueueMaps, NextCases

\* Handoff's formulas in these terms.
LEMMA HandoffIs ==
    /\ Handoff!Init <=> Line = <<>> /\ Serving = {} /\ Finished = {}
    /\ \A c \in Fds : Accepts(c) => Handoff!Accept(c)
    /\ Serves => Handoff!Serve
    /\ \A c \in Fds : Finishes(c) => Handoff!Finish(c)
    /\ UNCHANGED <<Line, Serving, Finished>> => UNCHANGED Handoff!vars
<1> USE DEF Line, AtDoor, Serving, Finished
<1>1. Handoff!Init <=> Line = <<>> /\ Serving = {} /\ Finished = {}
  BY DEF Handoff!Init
<1>2. ASSUME NEW c \in Fds, Accepts(c) PROVE Handoff!Accept(c)
  BY <1>2 DEF Accepts, Handoff!Accept
<1>3. Serves => Handoff!Serve
  <2>1. \A S : Handoff!Cardinality(S) = Cardinality(S)
    BY DEF Cardinality, Handoff!Cardinality
  <2> QED
    BY <2>1 DEF Serves, Handoff!Serve
<1>4. ASSUME NEW c \in Fds, Finishes(c) PROVE Handoff!Finish(c)
  BY <1>4 DEF Finishes, Handoff!Finish
<1>5. UNCHANGED <<Line, Serving, Finished>> => UNCHANGED Handoff!vars
  BY DEF Handoff!vars
<1> QED
  BY <1>1, <1>2, <1>3, <1>4, <1>5

\* Clients are served in the order in which they were accepted, each is closed once, and
\* at most CAPACITY + 1 wait: for any number of clients and workers and any capacity.
THEOREM ServesClientsInOrder == Spec => ServesInOrder
<1>1. Init => Handoff!Init
  <2> SUFFICES ASSUME Init PROVE Line = <<>> /\ Serving = {} /\ Finished = {}
    BY HandoffIs
  <2>1. Contents = <<>>
    BY DEF Init, QInit, Contents
  <2>2. \A c \in Fds : ~MainOwns(c)
    BY DEF Init, MainOwns
  <2> QED
    BY <2>1, <2>2 DEF Init, Line, AtDoor, Serving, Finished, Owns
<1>2. Inv /\ QInv /\ NeverRefused /\ [Next]_vars => [Handoff!Next]_(Handoff!vars)
  BY ServerMaps, HandoffIs DEF Handoff!Next
<1>3. Init => NeverRefused
  BY DEF Init, NeverRefused
<1>4. Inv /\ QInv /\ NeverRefused /\ [Next]_vars => NeverRefused'
  BY NeverRefusedStep
<1> QED
  BY <1>1, <1>2, <1>3, <1>4, InvAlways, UsesQueue, QInvAlways, PTL
  DEF Spec, ServesInOrder, Handoff!Spec

=============================================================================
