--------------------------- MODULE ConcurrentOpen ---------------------------
(***************************************************************************)
(* concurrent_open.c: open and fopen, preloaded under the HTTP server, let *)
(* the threads that open a server file proceed in groups of                *)
(* CONCURRENCY_DEGREE.  A thread comes back for its next file.             *)
(*                                                                         *)
(* A thread is                                                             *)
(*   "away"     outside open and fopen                                     *)
(*   "init"     about to call init_semaphore                               *)
(*   "barrier"  about to take the lock in barrier()                        *)
(*   "posting"  the last of its group, owns the lock, posts one token each *)
(*   "wait"     inside sem_wait                                            *)
(* The steps under the lock are one step each, except the posting loop:    *)
(* sem_wait does not need the lock and runs between two posts.  The calls  *)
(* on the mutex and the semaphore do not fail, and sem_wait is not         *)
(* interrupted: the server's workers block all signals.                    *)
(***************************************************************************)
EXTENDS Integers, FiniteSets

CONSTANTS Threads,
          CONCURRENCY_DEGREE,
          NoThread              \* the owner of a free lock

ASSUME OpenersAssumption == IsFiniteSet(Threads) /\ NoThread \notin Threads

ASSUME DegreeAssumption == CONCURRENCY_DEGREE \in Nat \ {0}

VARIABLES lock,                     \* the thread that owns it, or NoThread
          n_waiters,
          semaphore_initialized,
          semaphore,                \* its value
          to_post,                  \* iterations left of the posting loop
          at

bvars == <<lock, n_waiters, semaphore_initialized, semaphore, to_post, at>>

BInit ==
    /\ lock = NoThread
    /\ n_waiters = 0
    /\ semaphore_initialized = 0
    /\ semaphore = 0
    /\ to_post = 0
    /\ at = [t \in Threads |-> "away"]

Waiting == {t \in Threads : at[t] = "wait"}

-----------------------------------------------------------------------------
\* open or fopen is called.
Open(t) ==
    /\ at[t] = "away"
    /\ at' = [at EXCEPT ![t] = "init"]
    /\ UNCHANGED <<lock, n_waiters, semaphore_initialized, semaphore, to_post>>

\* Mutant: sem_init on every call.
InitSemaphore_Always(t) ==
    /\ at[t] = "init"
    /\ lock = NoThread
    /\ semaphore' = 0
    /\ semaphore_initialized' = 1
    /\ \E next \in {"barrier", "away"} : at' = [at EXCEPT ![t] = next]
    /\ UNCHANGED <<lock, n_waiters, to_post>>

\* init_semaphore; a path outside server_files/ is then opened at once.
InitSemaphore(t) ==
    /\ at[t] = "init"
    /\ lock = NoThread
    /\ semaphore' = IF semaphore_initialized = 0 THEN 0 ELSE semaphore
    /\ semaphore_initialized' = 1
    /\ \E next \in {"barrier", "away"} : at' = [at EXCEPT ![t] = next]
    /\ UNCHANGED <<lock, n_waiters, to_post>>

\* barrier() for a thread that is not the last of its group.
Wait(t) ==
    /\ at[t] = "barrier"
    /\ lock = NoThread
    /\ n_waiters # CONCURRENCY_DEGREE - 1
    /\ n_waiters' = n_waiters + 1
    /\ at' = [at EXCEPT ![t] = "wait"]
    /\ UNCHANGED <<lock, semaphore_initialized, semaphore, to_post>>

\* Mutant: one token too few.
LastArrives_PostsTooFew(t) ==
    /\ at[t] = "barrier"
    /\ lock = NoThread
    /\ n_waiters = CONCURRENCY_DEGREE - 1
    /\ lock' = t
    /\ to_post' = CONCURRENCY_DEGREE - 2
    /\ at' = [at EXCEPT ![t] = "posting"]
    /\ UNCHANGED <<n_waiters, semaphore_initialized, semaphore>>

\* barrier() for the last one: it keeps the lock through the posting loop.
LastArrives(t) ==
    /\ at[t] = "barrier"
    /\ lock = NoThread
    /\ n_waiters = CONCURRENCY_DEGREE - 1
    /\ lock' = t
    /\ to_post' = CONCURRENCY_DEGREE - 1
    /\ at' = [at EXCEPT ![t] = "posting"]
    /\ UNCHANGED <<n_waiters, semaphore_initialized, semaphore>>

Post(t) ==
    /\ at[t] = "posting"
    /\ to_post > 0
    /\ semaphore' = semaphore + 1
    /\ to_post' = to_post - 1
    /\ UNCHANGED <<lock, n_waiters, semaphore_initialized, at>>

LastLeaves(t) ==
    /\ at[t] = "posting"
    /\ to_post = 0
    /\ n_waiters' = 0
    /\ lock' = NoThread
    /\ at' = [at EXCEPT ![t] = "away"]
    /\ UNCHANGED <<semaphore_initialized, semaphore, to_post>>

\* sem_wait returns: whoever waits may take the token.
Pass(t) ==
    /\ at[t] = "wait"
    /\ semaphore > 0
    /\ semaphore' = semaphore - 1
    /\ at' = [at EXCEPT ![t] = "away"]
    /\ UNCHANGED <<lock, n_waiters, semaphore_initialized, to_post>>

-----------------------------------------------------------------------------
\* The steps of a thread once it has called open.
Step(t) ==
    \/ InitSemaphore(t)
    \/ Wait(t)
    \/ LastArrives(t)
    \/ Post(t)
    \/ LastLeaves(t)
    \/ Pass(t)

BNext == \E t \in Threads : Open(t) \/ Step(t)

BSpec == BInit /\ [][BNext]_bvars

\* A thread that can run does.  Nothing makes a thread open another file, and
\* nothing says which waiter gets a token.
BFairSpec == BSpec /\ \A t \in Threads : WF_bvars(Step(t))

-----------------------------------------------------------------------------
BPlaces == {"away", "init", "barrier", "posting", "wait"}

\* Types of the state; n_waiters never reaches the size of a full group.
BTypeOK ==
    /\ lock \in Threads \union {NoThread}
    /\ n_waiters \in 0..CONCURRENCY_DEGREE-1
    /\ semaphore_initialized \in {0, 1}
    /\ semaphore \in Nat
    /\ to_post \in 0..CONCURRENCY_DEGREE-1
    /\ at \in [Threads -> BPlaces]

\* The lock is held between steps only by the thread that posts, n_waiters
\* counts a full group as long as it does, and nobody waits on a semaphore
\* that is still to be initialized.
PosterHoldsLock ==
    /\ \A t \in Threads : at[t] = "posting" <=> lock = t
    /\ lock # NoThread => n_waiters = CONCURRENCY_DEGREE - 1
    /\ lock = NoThread => to_post = 0
    /\ semaphore_initialized = 0 =>
          semaphore = 0 /\ \A t \in Threads : at[t] \in {"away", "init"}

\* Tokens neither get lost nor are left over: there is one, posted or about to
\* be, for every waiting thread except the n_waiters of the group that is still
\* incomplete.  So threads leave barrier() only in full groups, whoever of them
\* leaves first, and however posts, waits and new arrivals mix.
TokensMatchWaiters ==
    Cardinality(Waiting) =
        semaphore + (IF lock = NoThread THEN n_waiters ELSE to_post)

\* The barrier's bookkeeping in init_semaphore and barrier: inductive, and so independent of
\* how many threads there are and how often they come back.
BarrierInv == BTypeOK /\ PosterHoldsLock /\ TokensMatchWaiters

\* The barrier never holds back as many threads as it was made for: while a
\* full group waits, the number of waiting threads keeps changing, so somebody
\* gets out again and again.
FullBarrierOpens ==
    \A n \in CONCURRENCY_DEGREE..Cardinality(Threads) :
        Cardinality(Waiting) = n ~> Cardinality(Waiting) # n

=============================================================================
