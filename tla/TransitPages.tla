----------------------------- MODULE TransitPages -----------------------------
(***************************************************************************)
(* The web pages of the transit service and their sessions: WSApi.js with  *)
(* its callbacks, main.js with the entities it shows, and transit_service  *)
(* with one session per page, each with a clock of its own, that share one *)
(* simulation model.  TransitSimulation has what happens in the model; of  *)
(* it remain the number of its entities and the time it has simulated,     *)
(* which stands for their positions.                                       *)
(*                                                                         *)
(* The service is one thread that handles one command at a time.  Times    *)
(* are whole units.                                                        *)
(***************************************************************************)
EXTENDS Integers, Sequences, FiniteSets, FiniteSetsExt, SequencesExt, Functions

CONSTANTS Pages,
          Speeds,           \* of the slider simSpeed
          LongStep,         \* 0.1 seconds
          FixedStep,        \* 0.01 seconds
          MaxClock,         \* bound of the time
          MaxCommands       \* bound of the commands of each page

ASSUME StepsAssumption ==
    /\ Speeds \subseteq Nat /\ Speeds # {} /\ IsFiniteSet(Speeds) /\ IsFiniteSet(Pages)
    /\ LongStep \in Nat /\ FixedStep \in Nat \ {0}
    /\ MaxClock \in Nat /\ MaxCommands \in [Pages -> Nat]

VARIABLES clock,
          simulated,    \* the sum of all dt of SimulationModel::Update
          born,         \* for each entity of the model, simulated when it was created
          session,      \* "none", "open" or "ended", on the side of the service
          start, time,  \* of each session
          joined,       \* the entities there were when it was opened
          page,         \* "connecting", "connected" or "gone"
          issued,       \* commands a page has given to sendCommand
          waiting,      \* those among them that wait for the connection
          requestId, callbacks,
          up, down,     \* the messages of each socket
          loading,      \* entities whose meshes are being loaded
          shown,        \* for each entity on the page, what simulated was
          failed,       \* entities whose meshes could not be loaded
          executed      \* the commands that were handled, by their number on their page

modelvars == <<simulated, born>>
sessionvars == <<session, start, time, joined, executed>>
apivars == <<page, issued, waiting, requestId, callbacks>>
viewvars == <<loading, shown, failed>>

vars == <<clock, modelvars, sessionvars, apivars, viewvars, up, down>>

Entities == DOMAIN born

Commands == {[command |-> "CreateEntity"], [command |-> "ScheduleTrip"]}
            \union {[command |-> "Update", simSpeed |-> s] : s \in Speeds}

Init ==
    /\ clock = 0
    /\ simulated = 0
    /\ born = <<>>
    /\ session = [p \in Pages |-> "none"]
    /\ start = [p \in Pages |-> 0]
    /\ time = [p \in Pages |-> 0]
    /\ joined = [p \in Pages |-> 0]
    /\ page = [p \in Pages |-> "connecting"]
    /\ issued = [p \in Pages |-> 0]
    /\ waiting = [p \in Pages |-> <<>>]
    /\ requestId = [p \in Pages |-> 0]
    /\ callbacks = [p \in Pages |-> {}]
    /\ up = [p \in Pages |-> <<>>]
    /\ down = [p \in Pages |-> <<>>]
    /\ loading = [p \in Pages |-> {}]
    /\ shown = [p \in Pages |-> <<>>]
    /\ failed = [p \in Pages |-> {}]
    /\ executed = [p \in Pages |-> <<>>]

Tick ==
    /\ clock < MaxClock
    /\ clock' = clock + 1
    /\ UNCHANGED <<modelvars, sessionvars, apivars, viewvars, up, down>>

-----------------------------------------------------------------------------
(* WSApi.                                                                  *)

\* Commands with the next request ids.
Requests(p, commands) ==
    [i \in DOMAIN commands |-> [data |-> commands[i], id |-> requestId[p] + i - 1]]

Ids(requests) == {r.id : r \in ToSet(requests)}

\* What sendCommand does when it is connected.
Sent(p, commands) ==
    /\ requestId' = [requestId EXCEPT ![p] = @ + Len(commands)]
    /\ callbacks' = [callbacks EXCEPT ![p] = @ \union Ids(Requests(p, commands))]
    /\ up' = [up EXCEPT ![p] = @ \o Requests(p, commands)]

\* Before the connection is open commands wait for it.
SendCommand(p, command) ==
    /\ page[p] # "gone"
    /\ issued[p] < MaxCommands[p]
    /\ issued' = [issued EXCEPT ![p] = @ + 1]
    /\ LET c == [number |-> issued[p] + 1, details |-> command]
       IN  IF page[p] = "connecting"
           THEN /\ waiting' = [waiting EXCEPT ![p] = Append(@, c)]
                /\ UNCHANGED <<requestId, callbacks, up>>
           ELSE /\ Sent(p, <<c>>)
                /\ UNCHANGED waiting
    /\ UNCHANGED <<clock, modelvars, sessionvars, page, viewvars, down>>

\* The socket opens: connect is resolved, and what waits for it runs in order.
Connected(p) ==
    /\ page[p] = "connecting"
    /\ session[p] = "open"
    /\ page' = [page EXCEPT ![p] = "connected"]
    /\ Sent(p, waiting[p])
    /\ waiting' = [waiting EXCEPT ![p] = <<>>]
    /\ UNCHANGED <<clock, modelvars, sessionvars, issued, viewvars, down>>

\* The page is closed, or its connection fails or is lost, which the page only logs: what
\* waits for it does so for ever, and of what was sent some may still arrive.  The page
\* sends commands no more that could reach anybody, and is not followed further.
Leave(p) ==
    /\ page[p] # "gone"
    /\ page' = [page EXCEPT ![p] = "gone"]
    /\ \E n \in 0..Len(up[p]) : up' = [up EXCEPT ![p] = SubSeq(@, 1, n)]
    /\ callbacks' = [callbacks EXCEPT ![p] = {}]
    /\ waiting' = [waiting EXCEPT ![p] = <<>>]
    /\ loading' = [loading EXCEPT ![p] = {}]
    /\ shown' = [shown EXCEPT ![p] = <<>>]
    /\ failed' = [failed EXCEPT ![p] = {}]
    /\ down' = [down EXCEPT ![p] = <<>>]
    /\ UNCHANGED <<clock, modelvars, sessionvars, issued, requestId>>

-----------------------------------------------------------------------------
(* The service.                                                            *)

OpenSession(p) ==
    /\ session[p] = "none"
    /\ page[p] = "connecting"
    /\ session' = [session EXCEPT ![p] = "open"]
    /\ start' = [start EXCEPT ![p] = clock]
    /\ joined' = [joined EXCEPT ![p] = Len(born)]
    /\ UNCHANGED <<clock, modelvars, time, executed, apivars, viewvars, up, down>>

EndSession(p) ==
    /\ session[p] = "open"
    /\ page[p] = "gone"
    /\ up[p] = <<>>
    /\ session' = [session EXCEPT ![p] = "ended"]
    /\ UNCHANGED <<clock, modelvars, start, time, joined, executed, apivars, viewvars, up, down>>

\* Nothing reaches a page that is not there.
Listens(p) == session[p] = "open" /\ page[p] # "gone"

\* Mutant: only the session that asked for the entity is told.
Broadcast_Caller(event, p, answer) ==
    [q \in Pages |->
        IF q = p /\ Listens(q) THEN down[q] \o <<event, answer>> ELSE down[q]]

\* An event for all sessions, then the answer for one of them.
Broadcast(event, p, answer) ==
    [q \in Pages |->
        IF ~Listens(q) THEN down[q]
        ELSE IF q = p THEN down[q] \o <<event, answer>>
        ELSE Append(down[q], event)]

Request(p) == Head(up[p])

Command(p) == Request(p).data.details

Handled(p) ==
    /\ session[p] = "open"
    /\ up[p] # <<>>
    /\ up' = [up EXCEPT ![p] = Tail(@)]
    /\ executed' = [executed EXCEPT ![p] = Append(@, Request(p).data.number)]
    /\ UNCHANGED <<clock, session, start, joined, apivars, viewvars>>

Answer(p) == [event |-> "answer", id |-> Request(p).id]

CreateEntity(p) ==
    /\ Handled(p)
    /\ Command(p).command = "CreateEntity"
    /\ born' = Append(born, simulated)
    /\ down' = Broadcast([event |-> "AddEntity", id |-> Len(born')], p, Answer(p))
    /\ UNCHANGED <<simulated, time>>

\* TripScheduled goes to everybody, whether a robot was found or not.
ScheduleTrip(p) ==
    /\ Handled(p)
    /\ Command(p).command = "ScheduleTrip"
    /\ down' = Broadcast([event |-> "TripScheduled"], p, Answer(p))
    /\ UNCHANGED <<modelvars, time>>

\* The time since the session's last update.
Elapsed(p) == clock - start[p] - time[p]

\* Mutant: a long step is always one fixed step more.
Simulated_OneMore(delta) ==
    IF delta > LongStep THEN FixedStep * ((delta + 2 * FixedStep - 1) \div FixedStep) ELSE delta

\* A long step is made of fixed ones, the last of which may go beyond it.
Simulated(delta) ==
    IF delta > LongStep THEN FixedStep * ((delta + FixedStep - 1) \div FixedStep) ELSE delta

\* The entities' positions are sent to the session that asked, which has all of them in
\* updateEntites: SimulationModel::Update tells every session about every entity.
Update(p) ==
    /\ Handled(p)
    /\ Command(p).command = "Update"
    /\ time' = [time EXCEPT ![p] = @ + Elapsed(p)]
    /\ simulated' = simulated + Simulated(Command(p).simSpeed * Elapsed(p))
    /\ down' = IF ~Listens(p) THEN down
               ELSE [down EXCEPT ![p] =
                       @ \o [e \in Entities |-> [event |-> "UpdateEntity", id |-> e, at |-> simulated']]
                         \o <<Answer(p)>>]
    /\ UNCHANGED born

-----------------------------------------------------------------------------
(* The page.                                                               *)

Message(p) == Head(down[p])

Received(p) ==
    /\ page[p] = "connected"
    /\ down[p] # <<>>
    /\ down' = [down EXCEPT ![p] = Tail(@)]
    /\ UNCHANGED <<clock, modelvars, sessionvars, page, issued, waiting, requestId, up>>

\* Mutant: the callback stays.
ReceiveAnswer_Keeps(p) ==
    /\ Received(p)
    /\ Message(p).event = "answer"
    /\ UNCHANGED <<callbacks, viewvars>>

\* The callback resolves its promise and deletes itself.
ReceiveAnswer(p) ==
    /\ Received(p)
    /\ Message(p).event = "answer"
    /\ callbacks' = [callbacks EXCEPT ![p] = @ \ {Message(p).id}]
    /\ UNCHANGED viewvars

ReceiveAdd(p) ==
    /\ Received(p)
    /\ Message(p).event = "AddEntity"
    /\ loading' = [loading EXCEPT ![p] = @ \union {Message(p).id}]
    /\ UNCHANGED <<callbacks, shown, failed>>

\* Mutant: an entity that is not on the page, or not yet, gets a position.
ReceiveUpdate_Unknown(p) ==
    /\ Received(p)
    /\ Message(p).event = "UpdateEntity"
    /\ shown' = [shown EXCEPT ![p] =
                   [x \in DOMAIN @ \union {Message(p).id} |->
                      IF x = Message(p).id THEN Message(p).at ELSE @[x]]]
    /\ UNCHANGED <<callbacks, loading, failed>>

\* An entity that is not on the page, or not yet, is passed over.
ReceiveUpdate(p) ==
    /\ Received(p)
    /\ Message(p).event = "UpdateEntity"
    /\ shown' = IF Message(p).id \in DOMAIN shown[p]
                THEN [shown EXCEPT ![p][Message(p).id] = Message(p).at]
                ELSE shown
    /\ UNCHANGED <<callbacks, loading, failed>>

\* What schedule.html shows for a while.
ReceiveTrip(p) ==
    /\ Received(p)
    /\ Message(p).event = "TripScheduled"
    /\ UNCHANGED <<callbacks, viewvars>>

\* onLoad puts the entity where it was created.
Loaded(p, e) ==
    /\ e \in loading[p]
    /\ shown' = [shown EXCEPT ![p] =
                   [x \in DOMAIN @ \union {e} |-> IF x = e THEN born[e] ELSE @[x]]]
    /\ loading' = [loading EXCEPT ![p] = @ \ {e}]
    /\ UNCHANGED <<clock, modelvars, sessionvars, apivars, failed, up, down>>

\* The mesh cannot be loaded; that is logged.
LoadFails(p, e) ==
    /\ e \in loading[p]
    /\ loading' = [loading EXCEPT ![p] = @ \ {e}]
    /\ failed' = [failed EXCEPT ![p] = @ \union {e}]
    /\ UNCHANGED <<clock, modelvars, sessionvars, apivars, shown, up, down>>

-----------------------------------------------------------------------------
Handle(p) == CreateEntity(p) \/ ScheduleTrip(p) \/ Update(p)

Receive(p) == ReceiveAnswer(p) \/ ReceiveAdd(p) \/ ReceiveUpdate(p) \/ ReceiveTrip(p)

Next ==
    \/ Tick
    \/ \E p \in Pages :
          \/ \E c \in Commands : SendCommand(p, c)
          \/ Connected(p) \/ Leave(p)
          \/ OpenSession(p) \/ EndSession(p)
          \/ Handle(p) \/ Receive(p)
          \/ \E e \in loading[p] : Loaded(p, e) \/ LoadFails(p, e)

Spec == Init /\ [][Next]_vars

\* The service handles what arrives, pages what they receive and load, and connections
\* that can be made are.
FairSpec ==
    /\ Spec
    /\ \A p \in Pages :
          /\ WF_vars(OpenSession(p)) /\ WF_vars(Connected(p))
          /\ WF_vars(Handle(p)) /\ WF_vars(Receive(p))
          /\ WF_vars(\E e \in loading[p] : Loaded(p, e) \/ LoadFails(p, e))

-----------------------------------------------------------------------------
(* Properties.                                                             *)

\* The variables have their types.  The model is changed by the service alone, and a page
\* that is closed keeps nothing (WSApi.js, transit_service.cc).
TypeOK ==
    /\ clock \in 0..MaxClock
    /\ simulated \in Nat
    /\ born \in Seq(0..simulated)
    /\ session \in [Pages -> {"none", "open", "ended"}]
    /\ page \in [Pages -> {"connecting", "connected", "gone"}]
    /\ \A p \in Pages :
          /\ time[p] \in 0..(clock - start[p])
          /\ joined[p] \in 0..Len(born)
          /\ waiting[p] \in Seq([number : 1..issued[p], details : Commands])
          /\ up[p] \in Seq([data : [number : 1..issued[p], details : Commands],
                            id : 0..(requestId[p] - 1)])
          /\ callbacks[p] \subseteq 0..(requestId[p] - 1)
          /\ loading[p] \union DOMAIN shown[p] \union failed[p] \subseteq Entities
          /\ \A e \in DOMAIN shown[p] : shown[p][e] \in 0..simulated

\* The answers a page is going to receive, by their places.
Answers(p) == {i \in DOMAIN down[p] : down[p][i].event = "answer"}

\* While a page is connected it has one callback for each of its commands that was not
\* answered, and no two of these have the same id: sendCommand uses requestId twice, for
\* the message and for the callback, and increments it after both, also for the commands
\* that waited for the connection (WSApi.js 56-103).
CallbacksMatchRequests ==
    \A p \in Pages : page[p] = "connected" =>
        LET answered == [i \in Answers(p) |-> down[p][i].id]
            asked == [i \in DOMAIN up[p] |-> up[p][i].id]
        IN  /\ callbacks[p] = Range(answered) \union Range(asked)
            /\ IsInjective(answered) /\ IsInjective(asked)
            /\ Range(answered) \intersect Range(asked) = {}

\* The service handles the commands of a page in the order in which they were given, all
\* of them up to the last: so a trip is scheduled after its robot was created
\* (schedule.html 154-165), also when both had to wait for the connection.
CommandsKeepOrder ==
    \A p \in Pages : executed[p] = [i \in 1..Len(executed[p]) |-> i]

\* The entities a page has been told of or is being told of.
Added(p) ==
    {m.id : m \in {n \in ToSet(down[p]) : n.event = "AddEntity"}}

\* A page knows the entities created since its session was opened, by itself or by others,
\* and hears of their positions after it has heard of them.  It never hears of those that
\* were there before: a session is not told what the model holds (transit_service.cc
\* 13-17, 141-145).
PagesKnowEntities ==
    \A p \in Pages : Listens(p) =>
        /\ Added(p) \union loading[p] \union DOMAIN shown[p] \union failed[p]
              = (joined[p] + 1)..Len(born)
        /\ \A i, j \in DOMAIN down[p] :
              (down[p][i].event = "UpdateEntity" /\ down[p][j].event = "AddEntity" /\ i < j)
                => down[p][i].id # down[p][j].id

\* The page and its session in the service agree on what was asked, what was answered and
\* which entities there are.
SessionsAreConsistent ==
    TypeOK /\ CallbacksMatchRequests /\ CommandsKeepOrder /\ PagesKnowEntities

\* On a page no entity goes back in time: what is received is in order, and the mesh of an
\* entity is put where it was created once, before the first position it takes from
\* UpdateEntity (main.js 54-60, 424-466).
PagesNeverGoBack ==
    [][\A p \in Pages : \A e \in DOMAIN shown[p] \intersect DOMAIN shown'[p] :
          shown[p][e] <= shown'[p][e]]_vars

\* Every session simulates the time since its own last update, and all of them in the one
\* model: its time is the sum of theirs at the speeds they ask for, where a long step may
\* go beyond it by less than a fixed one (transit_service.cc 36-54).
TimeAddsUp ==
    LET total == SumFunction(time)
    IN  /\ simulated >= Min(Speeds) * total
        /\ simulated <= Max(Speeds) * total
                          + (FixedStep - 1) * MapThenSumSet(LAMBDA p : Len(executed[p]), Pages)

\* A command, whose id is its number less one, is handled and its callback is called in
\* the end, unless the page was closed or its connection failed (WSApi.js 56-103;
\* receiveJSON in json.h answers every command).
CommandsAreAnswered ==
    \A p \in Pages : \A n \in 1..MaxCommands[p] :
        (issued[p] = n) ~> \/ n \in ToSet(executed[p]) /\ n - 1 \notin callbacks[p]
                           \/ page[p] = "gone"

=============================================================================
