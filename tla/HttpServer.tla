----------------------------- MODULE HttpServer -----------------------------
(***************************************************************************)
(* http_server.c: the main thread sets up a socket, starts the workers,    *)
(* accepts connections until SIGINT and hands them to the workers through  *)
(* the connection queue; then it shuts the queue down, joins the workers   *)
(* and frees what it holds.  Composes ConnectionQueue, whose only producer *)
(* is the main thread and whose consumers are the workers.                 *)
(*                                                                         *)
(* read_http_request and write_http_response are here only as steps that   *)
(* succeed or fail; a client that was accepted is its descriptor.          *)
(***************************************************************************)
EXTENDS ConnectionQueue

CONSTANT Main   \* the main thread

Workers == Consumers

ASSUME MainAssumption == Producers = {Main}

ASSUME WorkersAssumption == Workers # {}    \* #define N_THREADS 5

VARIABLES main_pc,      \* where main() is
          keep_going,   \* the flag handle_sigint clears
          sigint,       \* SIGINT is pending
          conn,         \* [Fds -> {"away", "backlog", "open", "closed"}]
          sent,         \* the clients that have sent a request or hung up
          client_fd,    \* the local variable of main() and of each thread_func
          worker,       \* where each thread_func is, "none" before pthread_create
          held          \* what main() must release: {"addrinfo", "socket", "queue"}

servervars == <<main_pc, keep_going, sigint, conn, sent, client_fd, worker, held>>
vars == <<qvars, servervars>>

SetupPlaces == {"getaddrinfo", "socket", "bind", "listen", "queue_init"}
LoopPlaces == {"check", "call_accept", "accept", "enqueue"}
TeardownPlaces == {"shutdown", "shutting", "join", "free", "close", "exit"}

\* main() with its SIGINT handler installed (line 92).
Init ==
    /\ QInit
    /\ main_pc = "getaddrinfo"
    /\ keep_going = 1
    /\ sigint = FALSE
    /\ conn = [c \in Fds |-> "away"]
    /\ sent = {}
    /\ client_fd = [t \in Threads |-> 0]
    /\ worker = [w \in Workers |-> "none"]
    /\ held = {}

-----------------------------------------------------------------------------
\* One call of the setup: it succeeds, leaving held as success, or main()
\* releases some of what it holds and returns 1.
Try(place, success, next, released) ==
    /\ main_pc = place
    /\ \/ held' = success /\ main_pc' = next
       \/ held' = held \ released /\ main_pc' = "exit"
    /\ UNCHANGED <<qvars, keep_going, sigint, conn, sent, client_fd, worker>>

Setup ==
    \/ Try("getaddrinfo", held \union {"addrinfo"}, "socket", {})
    \/ Try("socket", held \union {"socket"}, "bind", {"addrinfo"})
    \/ Try("bind", held \ {"addrinfo"}, "listen", {"addrinfo", "socket"})
    \/ Try("listen", held, "queue_init", {"socket"})
    \/ Try("queue_init", held \union {"queue"}, "create", {"socket"})

\* pthread_create for the next worker, with all signals blocked.
CreateWorker(w) ==
    /\ main_pc = "create"
    /\ worker[w] = "none"
    /\ worker' = [worker EXCEPT ![w] = "call"]
    /\ UNCHANGED <<qvars, main_pc, keep_going, sigint, conn, sent, client_fd, held>>

\* pthread_create fails: shut down, join the workers created so far, leave.
CreateFails ==
    /\ main_pc = "create"
    /\ \E w \in Workers : worker[w] = "none"
    /\ main_pc' = "shutdown"
    /\ UNCHANGED <<qvars, keep_going, sigint, conn, sent, client_fd, worker, held>>

\* All workers run: restore the signal mask.  A pending SIGINT is handled
\* before sigprocmask returns.
RestoreMask ==
    /\ main_pc = "create"
    /\ \A w \in Workers : worker[w] # "none"
    /\ main_pc' = "check"
    /\ keep_going' = IF sigint THEN 0 ELSE keep_going
    /\ sigint' = FALSE
    /\ UNCHANGED <<qvars, conn, sent, client_fd, worker, held>>

-----------------------------------------------------------------------------
\* while (keep_going != 0)
CheckKeepGoing ==
    /\ main_pc = "check"
    /\ main_pc' = IF keep_going # 0 THEN "call_accept" ELSE "shutdown"
    /\ UNCHANGED <<qvars, keep_going, sigint, conn, sent, client_fd, worker, held>>

\* From here on a signal interrupts accept; before, it did not.
EnterAccept ==
    /\ main_pc = "call_accept"
    /\ main_pc' = "accept"
    /\ UNCHANGED <<qvars, keep_going, sigint, conn, sent, client_fd, worker, held>>

\* accept returns a client, which is handed to connection_enqueue.
AcceptClient(c) ==
    /\ main_pc = "accept"
    /\ conn[c] = "backlog"
    /\ conn' = [conn EXCEPT ![c] = "open"]
    /\ client_fd' = [client_fd EXCEPT ![Main] = c]
    /\ EnqueueCall(Main, c)
    /\ main_pc' = "enqueue"
    /\ UNCHANGED <<keep_going, sigint, sent, worker, held>>

\* accept fails with an error other than EINTR: continue.
AcceptFails ==
    /\ main_pc = "accept"
    /\ main_pc' = "check"
    /\ UNCHANGED <<qvars, keep_going, sigint, conn, sent, client_fd, worker, held>>

\* connection_enqueue has returned; on an error close the client and leave.
EnqueueReturned ==
    /\ main_pc = "enqueue"
    /\ at[Main] = "idle"
    /\ IF val[Main] = -1
       THEN /\ conn' = [conn EXCEPT ![client_fd[Main]] = "closed"]
            /\ main_pc' = "shutdown"
       ELSE main_pc' = "check" /\ UNCHANGED conn
    /\ client_fd' = [client_fd EXCEPT ![Main] = 0]
    /\ UNCHANGED <<qvars, keep_going, sigint, sent, worker, held>>

\* connection_queue_shutdown is called, and has returned.
CallShutdown ==
    /\ main_pc = "shutdown"
    /\ SetShutdown(Main)
    /\ main_pc' = "shutting"
    /\ UNCHANGED <<keep_going, sigint, conn, sent, client_fd, worker, held>>

ShutdownReturned ==
    /\ main_pc = "shutting"
    /\ at[Main] = "idle"
    /\ main_pc' = "join"
    /\ UNCHANGED <<qvars, keep_going, sigint, conn, sent, client_fd, worker, held>>

\* Mutant: the pthread_join loop stops one worker short.
JoinWorkers_OneShort ==
    /\ main_pc = "join"
    /\ \E v \in Workers : \A w \in Workers \ {v} : worker[w] \in {"none", "exited"}
    /\ main_pc' = "free"
    /\ UNCHANGED <<qvars, keep_going, sigint, conn, sent, client_fd, worker, held>>

\* The pthread_join loop ends when every created worker has.
JoinWorkers ==
    /\ main_pc = "join"
    /\ \A w \in Workers : worker[w] \in {"none", "exited"}
    /\ main_pc' = "free"
    /\ UNCHANGED <<qvars, keep_going, sigint, conn, sent, client_fd, worker, held>>

FreeQueue ==
    /\ main_pc = "free"
    /\ held' = held \ {"queue"}
    /\ main_pc' = "close"
    /\ UNCHANGED <<qvars, keep_going, sigint, conn, sent, client_fd, worker>>

CloseSocket ==
    /\ main_pc = "close"
    /\ held' = held \ {"socket"}
    /\ main_pc' = "exit"
    /\ UNCHANGED <<qvars, keep_going, sigint, conn, sent, client_fd, worker>>

-----------------------------------------------------------------------------
\* SIGINT is blocked while workers are created, and stays blocked when that
\* fails.
Masked ==
    \/ main_pc = "create"
    \/ main_pc \in TeardownPlaces /\ \E w \in Workers : worker[w] = "none"

RaiseSigint ==
    /\ main_pc # "exit"
    /\ sigint = FALSE
    /\ sigint' = TRUE
    /\ UNCHANGED <<qvars, main_pc, keep_going, conn, sent, client_fd, worker, held>>

\* Only the main thread can run the handler.  If it sleeps in accept, accept
\* fails with EINTR and the loop is left (line 180).
HandleSigint ==
    /\ sigint
    /\ ~Masked
    /\ main_pc # "exit"
    /\ sigint' = FALSE
    /\ keep_going' = 0
    /\ main_pc' = IF main_pc = "accept" /\ \A c \in Fds : conn[c] # "backlog"
                  THEN "shutdown" ELSE main_pc
    /\ UNCHANGED <<qvars, conn, sent, client_fd, worker, held>>

-----------------------------------------------------------------------------
\* thread_func: call connection_dequeue, for the first or the next client.
WorkerCalls(w) ==
    /\ worker[w] = "call"
    /\ DequeueCall(w)
    /\ worker' = [worker EXCEPT ![w] = "dequeue"]
    /\ UNCHANGED <<main_pc, keep_going, sigint, conn, sent, client_fd, held>>

WorkerGetsClient(w) ==
    /\ worker[w] = "dequeue"
    /\ at[w] = "idle"
    /\ val[w] # -1
    /\ client_fd' = [client_fd EXCEPT ![w] = val[w]]
    /\ worker' = [worker EXCEPT ![w] = "read"]
    /\ UNCHANGED <<qvars, main_pc, keep_going, sigint, conn, sent, held>>

WorkerExits(w) ==
    /\ worker[w] = "dequeue"
    /\ at[w] = "idle"
    /\ val[w] = -1
    /\ worker' = [worker EXCEPT ![w] = "exited"]
    /\ UNCHANGED <<qvars, main_pc, keep_going, sigint, conn, sent, client_fd, held>>

\* read_http_request blocks until the client has sent something or hung up.
ReadRequest(w) ==
    /\ worker[w] = "read"
    /\ client_fd[w] \in sent
    /\ worker' = [worker EXCEPT ![w] = "write"]
    /\ UNCHANGED <<qvars, main_pc, keep_going, sigint, conn, sent, client_fd, held>>

\* Mutant: the error path goes on to the next client without close().
RequestFails_KeepsClient(w) ==
    /\ worker[w] = "read"
    /\ worker' = [worker EXCEPT ![w] = "call"]
    /\ UNCHANGED <<qvars, main_pc, keep_going, sigint, conn, sent, client_fd, held>>

\* It fails at once, or on what it read.
RequestFails(w) ==
    /\ worker[w] = "read"
    /\ worker' = [worker EXCEPT ![w] = "close"]
    /\ UNCHANGED <<qvars, main_pc, keep_going, sigint, conn, sent, client_fd, held>>

\* write_http_response; the client is closed whether it fails or not.
WriteResponse(w) ==
    /\ worker[w] = "write"
    /\ worker' = [worker EXCEPT ![w] = "close"]
    /\ UNCHANGED <<qvars, main_pc, keep_going, sigint, conn, sent, client_fd, held>>

CloseClient(w) ==
    /\ worker[w] = "close"
    /\ conn' = [conn EXCEPT ![client_fd[w]] = "closed"]
    /\ client_fd' = [client_fd EXCEPT ![w] = 0]
    /\ worker' = [worker EXCEPT ![w] = "call"]
    /\ UNCHANGED <<qvars, main_pc, keep_going, sigint, sent, held>>

-----------------------------------------------------------------------------
\* The clients: connect once the socket listens, send a request or hang up.
Connect(c) ==
    /\ conn[c] = "away"
    /\ "socket" \in held
    /\ main_pc \notin {"bind", "listen"}
    /\ conn' = [conn EXCEPT ![c] = "backlog"]
    /\ UNCHANGED <<qvars, main_pc, keep_going, sigint, sent, client_fd, worker, held>>

Send(c) ==
    /\ conn[c] \in {"backlog", "open"}
    /\ c \notin sent
    /\ sent' = sent \union {c}
    /\ UNCHANGED <<qvars, main_pc, keep_going, sigint, conn, client_fd, worker, held>>

-----------------------------------------------------------------------------
\* Inside the queue's operations the rest of the server does not change.
QueueStep(t) == Step(t) /\ UNCHANGED servervars
QueueWakeup(t) == SpuriousWakeup(t) /\ UNCHANGED servervars

MainStep ==
    \/ Setup
    \/ \E w \in Workers : CreateWorker(w)
    \/ CreateFails
    \/ RestoreMask
    \/ CheckKeepGoing
    \/ EnterAccept
    \/ \E c \in Fds : AcceptClient(c)
    \/ EnqueueReturned
    \/ CallShutdown
    \/ ShutdownReturned
    \/ JoinWorkers
    \/ FreeQueue
    \/ CloseSocket

WorkerStep(w) ==
    \/ WorkerCalls(w)
    \/ WorkerGetsClient(w)
    \/ WorkerExits(w)
    \/ ReadRequest(w)
    \/ WriteResponse(w)
    \/ CloseClient(w)

Next ==
    \/ MainStep
    \/ AcceptFails
    \/ RaiseSigint
    \/ HandleSigint
    \/ \E w \in Workers : WorkerStep(w) \/ RequestFails(w)
    \/ \E t \in Threads : QueueStep(t) \/ QueueWakeup(t)
    \/ \E c \in Fds : Connect(c) \/ Send(c)

Spec == Init /\ [][Next]_vars

\* Every thread that can run does, a thread that finds the mutex free again
\* and again gets it, a pending signal is delivered, and a connected client
\* eventually sends something or hangs up.  Nobody has to connect, and nobody
\* has to press Ctrl-C.
Fairness ==
    /\ WF_vars(MainStep)
    /\ WF_vars(HandleSigint)
    /\ \A w \in Workers : WF_vars(WorkerStep(w))
    /\ \A t \in Threads : WF_vars(QueueStep(t)) /\ SF_vars(Lock(t) /\ UNCHANGED servervars)
    /\ \A c \in Fds : WF_vars(Send(c))

FairSpec == Spec /\ Fairness

-----------------------------------------------------------------------------
TypeOK ==
    /\ QTypeOK
    /\ main_pc \in SetupPlaces \union {"create"} \union LoopPlaces \union TeardownPlaces
    /\ keep_going \in {0, 1}
    /\ sigint \in BOOLEAN
    /\ conn \in [Fds -> {"away", "backlog", "open", "closed"}]
    /\ sent \subseteq Fds
    /\ client_fd \in [Threads -> Fds \union {0}]
    /\ worker \in [Workers -> {"none", "call", "dequeue", "read", "write", "close", "exited"}]
    /\ held \subseteq {"addrinfo", "socket", "queue"}

\* Who has to close client c: main() while it enqueues it, a slot of the queue,
\* or the worker that fetched it.
MainOwns(c) ==
    /\ main_pc = "enqueue"
    /\ client_fd[Main] = c
    /\ at[Main] # "idle" \/ val[Main] = -1

Owns(w, c) ==
    \/ worker[w] = "dequeue" /\ at[w] = "idle" /\ val[w] = c
    \/ worker[w] \in {"read", "write", "close"} /\ client_fd[w] = c

QueuedAt(c) == {j \in Occupied : client_fds[j] = c}

Owners(c) ==
    {<<"thread", t>> : t \in {w \in Workers : Owns(w, c)} \union {m \in {Main} : MainOwns(c)}}
      \union {<<"slot", j>> : j \in QueuedAt(c)}

\* An open connection has exactly one owner and any other has none: no
\* descriptor is leaked, closed twice, or used after it was closed.  It passes
\* from main() through the ring to a worker, whatever fails on the way.
ExactlyOneOwner ==
    \A c \in Fds : IF conn[c] = "open" THEN \E o \in Owners(c) : Owners(c) = {o}
                                       ELSE Owners(c) = {}

\* A worker ends only when nothing is left to serve, and nothing is enqueued
\* after that: the shutdown flag stops a worker only on an empty queue, and
\* main() has left the accept loop when it sets the flag.
ExitedMeansDrained ==
    (\E w \in Workers : worker[w] = "exited") =>
        shutdown = 1 /\ length = 0 /\ main_pc \in TeardownPlaces

\* The queue is freed only when no worker can touch it any more, also on the
\* path where pthread_create failed half way.
QueueOutlivesWorkers ==
    (main_pc \in TeardownPlaces /\ "queue" \notin held) =>
        \A w \in Workers : worker[w] \in {"none", "exited"}

\* Every path out of main() has released the address list, the socket and the
\* queue, and every accepted connection.
ExitIsClean ==
    main_pc = "exit" => held = {} /\ \A c \in Fds : conn[c] # "open"

\* Whatever fails on the way, and whenever SIGINT comes, main() takes down what it has set
\* up, in an order that nobody notices: workers end on a drained queue, the queue is freed
\* after the last of them, and nothing is left at the end.
ServerIsOrderly == TypeOK /\ ExitedMeansDrained /\ QueueOutlivesWorkers /\ ExitIsClean

-----------------------------------------------------------------------------
\* The inductive invariant.  What main() and the workers are doing while they
\* are, or are not, inside an operation of the queue:
CallsMatch ==
    /\ at[Main] # "idle" =>
          main_pc = IF at[Main] \in {"bempty", "bfull"} THEN "shutting" ELSE "enqueue"
    /\ main_pc = "enqueue" => /\ client_fd[Main] \in Fds
                              /\ val[Main] \in {0, -1, client_fd[Main]}
                              /\ at[Main] # "idle" => val[Main] = client_fd[Main]
                              /\ at[Main] = "idle" => val[Main] \in {0, -1}
    /\ \A w \in Workers :
          /\ at[w] # "idle" => worker[w] = "dequeue"
          /\ worker[w] = "dequeue" /\ at[w] = "idle" =>
                val[w] \in Fds \/ (val[w] = -1 /\ shutdown = 1 /\ length = 0)
          /\ worker[w] \in {"read", "write", "close"} => client_fd[w] \in Fds

\* What main() holds at each place, and what is over or has not begun there.
HeldAt(place) ==
    CASE place \in {"getaddrinfo", "exit"} -> {}
      [] place = "socket" -> {"addrinfo"}
      [] place = "bind" -> {"addrinfo", "socket"}
      [] place \in {"listen", "queue_init", "close"} -> {"socket"}
      [] OTHER -> {"socket", "queue"}

PhasesMatch ==
    /\ held = HeldAt(main_pc)
    /\ main_pc \in SetupPlaces => \A w \in Workers : worker[w] = "none"
    /\ main_pc \in LoopPlaces => \A w \in Workers : worker[w] # "none"
    /\ (\E w \in Workers : worker[w] = "none") => length = 0
    /\ shutdown = 1 => main_pc \in TeardownPlaces
    /\ main_pc \in {"free", "close", "exit"} =>
          \A w \in Workers : worker[w] \in {"none", "exited"}

Inv == TypeOK /\ CallsMatch /\ PhasesMatch /\ ExitedMeansDrained /\ ExactlyOneOwner

-----------------------------------------------------------------------------
Handoff == INSTANCE ConnectionHandoff
             WITH Clients <- Fds,
                  MaxLine <- CAPACITY + 1,
                  MaxServing <- Cardinality(Workers),
                  line <- Contents \o (IF \E c \in Fds : MainOwns(c)
                                       THEN <<client_fd[Main]>> ELSE <<>>),
                  serving <- {c \in Fds : \E w \in Workers : Owns(w, c)},
                  finished <- {c \in Fds : conn[c] = "closed"}

\* Clients are served in the order in which they were accepted, one per worker,
\* at most CAPACITY + 1 of them wait, and each is closed once.
ServesInOrder == Handoff!Spec

-----------------------------------------------------------------------------
\* Every accepted connection is closed in the end, also when SIGINT arrives
\* while it waits in the queue: the workers drain the queue before they stop.
AcceptedIsClosed == \A c \in Fds : conn[c] = "open" ~> conn[c] = "closed"

\* Every worker asleep when main() broadcasts ends: it wakes up, serves what is
\* still queued and finds the flag set, although main() does not take the mutex.
BroadcastReleasesSleepers ==
    \A w \in Workers : (at[Main] = "bempty" /\ at[w] = "sleep") ~> worker[w] = "exited"

\* The join ends and main() returns, whatever the workers were doing when the
\* flag was set, unless one of them had read the flag before that and slept or
\* was about to sleep after the broadcast.
JoinEndsUnlessWorkerLost ==
    (main_pc = "join" /\ \A w \in Workers : at[w] \notin {"wait", "sleep"})
        ~> main_pc = "exit"

\* Once SIGINT was handled main() leaves the accept loop for good, unless it
\* sleeps for ever in an accept it entered after the handler ran: a full queue,
\* slow clients and failing accepts do not keep it in the loop.
SigintLeavesLoopOrAccepts ==
    keep_going = 0 ~> [](main_pc \in TeardownPlaces \union {"accept"})

\* After SIGINT main() leaves the loop and then returns, but for the two gaps through which
\* a signal or a broadcast is missed.
ShutdownEnds == JoinEndsUnlessWorkerLost /\ SigintLeavesLoopOrAccepts
=============================================================================
