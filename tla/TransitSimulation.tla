-------------------------- MODULE TransitSimulation --------------------------
(***************************************************************************)
(* SimulationModel.cc and what it drives: entities wrapped by the type     *)
(* decorators, the scheduler, the chain of handlers and a drone's trip;    *)
(* and the commands that web pages send, one queue per page.  The service  *)
(* is one thread: a command, or an Update with all its calls, runs alone.  *)
(*                                                                         *)
(* Positions are abstracted.  A strategy is the sequence of Move calls it  *)
(* still needs: calls that fly to the end of its path, then one call for   *)
(* each celebration, which stands for all the calls within its 4 seconds.  *)
(* The empty sequence is a null pointer: a strategy is deleted by the call *)
(* that completes it.  A destination is the trip that asked for it, an     *)
(* entry of the scheduler.  Humans, helicopters and ufos only move about.  *)
(***************************************************************************)
EXTENDS Integers, Sequences

CONSTANTS Viewers,      \* pages that show the map, each with one WebSocket
          Schedulers,   \* pages that show schedule.html
          Names,        \* names a user may type into schedule.html
          Types,        \* the travel types a user may ask for
          Searches,     \* the strategies a user may ask for
          Scene,        \* the kinds of entities the scene file creates, in order
          MaxEntities,  \* bound: entities that are ever created
          MaxFlight     \* bound: Move calls of one flight

TravelTypes == {"standard", "fancy", "extravagant"}

ASSUME NamesAssumption == Names # {}
ASSUME TypesAssumption == Types \subseteq TravelTypes
ASSUME SearchesAssumption == Searches \subseteq {"beeline", "astar", "dfs", "dijkstra"}
ASSUME MaxEntitiesAssumption == MaxEntities \in Nat
ASSUME MaxFlightAssumption == MaxFlight \in Nat \ {0}
ASSUME SceneAssumption == Scene \in Seq({"drone", "other"})

Pages == Viewers \union Schedulers
Slots == 1..MaxEntities     \* positions in SimulationModel::entities

VARIABLES inbox,      \* [Pages -> Seq(Command)], sent and not handled
          asked,      \* bound: CreateEntity commands that were ever sent
          entities,   \* SimulationModel::entities, decorated
          scheduler,  \* SimulationModel::scheduler: robots wrapped by the asked-for type
          currentId,  \* the static counter in IEntity's constructor
          turn,       \* the entity Update has come to, 0 outside of Update
          calls,      \* calls of its IEntity::Update still to come from the chain
          drone,      \* [Slots -> the fields of Drone]
          robot       \* [Slots -> the fields of Robot]

vars == <<inbox, asked, entities, scheduler, currentId, turn, calls, drone, robot>>

Commands ==
    [cmd : {"CreateEntity"}, kind : {"drone", "robot", "other"}, name : Names] \union
    [cmd : {"ScheduleTrip"}, name : Names, type : Types, search : Searches]

Moves == {"fly", "jump", "spin"}

\* goal is the end of the path of toFinalDestination.
NewDrone == [available |-> TRUE, nearestEntity |-> 0, pickedUp |-> FALSE,
             toRobot |-> <<>>, toFinalDestination |-> <<>>, goal |-> 0]

NewRobot == [available |-> TRUE, strategyName |-> "none", destination |-> 0, place |-> "start"]

Init ==
    /\ inbox = [p \in Pages |-> <<>>]
    /\ asked = 0
    /\ entities = <<>>
    /\ scheduler = <<>>
    /\ currentId = 0
    /\ turn = 0
    /\ calls = 0
    /\ drone = [i \in Slots |-> NewDrone]
    /\ robot = [i \in Slots |-> NewRobot]

-----------------------------------------------------------------------------
(* The pages.                                                              *)

AnyName == CHOOSE n \in Names : TRUE

Create(kind, n) == [cmd |-> "CreateEntity", kind |-> kind, name |-> n]

\* Page p sends commands, n of which create an entity.
Asked(p, commands, n) ==
    /\ asked + n <= MaxEntities
    /\ asked' = asked + n
    /\ inbox' = [inbox EXCEPT ![p] = @ \o commands]
    /\ UNCHANGED <<entities, scheduler, currentId, turn, calls, drone, robot>>

\* loadScene: the entities of the scene file, of the page that shows the map.
LoadScene(p) ==
    Asked(p, [i \in DOMAIN Scene |-> Create(Scene[i], AnyName)], Len(Scene))

\* schedule(): a robot is created, then its trip is scheduled by its name.
Schedule(p, n, t, s) ==
    Asked(p, <<Create("robot", n),
               [cmd |-> "ScheduleTrip", name |-> n, type |-> t, search |-> s]>>, 1)

AddHuman(p) == Asked(p, <<Create("other", AnyName)>>, 1)

-----------------------------------------------------------------------------
(* Commands.                                                               *)

\* CreateEntity wraps by GetId() % 3 + 1: 1 standard, 3 fancy, 2 extravagant.
TypeOf(id) == <<"standard", "extravagant", "fancy">>[(id % 3) + 1]

\* The decorator is an IEntity too and takes the next id.  The bound is that
\* of the pages' commands and never holds a command back.
CreateEntity(kind, n) ==
    /\ Len(entities) < MaxEntities
    /\ entities' = Append(entities, [kind |-> kind, name |-> n, type |-> TypeOf(currentId)])
    /\ currentId' = currentId + 2
    /\ UNCHANGED <<scheduler, turn, calls, drone, robot>>

\* Mutant: ScheduleTrip does not ask whether the robot is available.
Bookable_Any(n) ==
    {r \in DOMAIN entities : entities[r].kind = "robot" /\ entities[r].name = n}

\* The robots ScheduleTrip may take: of that name, and available.
Bookable(n) ==
    {r \in DOMAIN entities : /\ entities[r].kind = "robot"
                             /\ entities[r].name = n
                             /\ robot[r].available}

First(S) == CHOOSE i \in S : \A j \in S : i <= j

\* The robot itself is shared by all its entries: a later trip replaces its
\* destination and strategy.  Without a robot nothing is scheduled.
ScheduleTrip(n, t, s) ==
    /\ IF Bookable(n) = {}
       THEN UNCHANGED <<robot, scheduler, currentId>>
       ELSE LET r == First(Bookable(n)) IN
            /\ robot' = [robot EXCEPT ![r].destination = Len(scheduler) + 1,
                                      ![r].strategyName = s]
            /\ scheduler' = Append(scheduler, [robot |-> r, type |-> t])
            /\ currentId' = currentId + 1
    /\ UNCHANGED <<entities, turn, calls, drone>>

\* ReceiveCommand, for the commands that reach the model.
Receive(p) ==
    /\ turn = 0
    /\ inbox[p] # <<>>
    /\ LET c == Head(inbox[p]) IN
       \/ c.cmd = "CreateEntity" /\ CreateEntity(c.kind, c.name)
       \/ c.cmd = "ScheduleTrip" /\ ScheduleTrip(c.name, c.type, c.search)
    /\ inbox' = [inbox EXCEPT ![p] = Tail(@)]
    /\ UNCHANGED asked

-----------------------------------------------------------------------------
(* Update: Handle for each entity in turn.                                 *)

Fly(n) == [i \in 1..n |-> "fly"]

\* The decorators around the path, innermost first.
Dance(s) == CASE s = "astar"    -> <<"jump">>
              [] s = "dfs"      -> <<"jump", "spin">>
              [] s = "dijkstra" -> <<"spin", "jump">>
              [] OTHER          -> <<>>

\* Mutant: a rider of another type is served too.
MayRide_AnyType(d, k) == robot[scheduler[k].robot].available

\* Drone d's handler accepts entry k of the scheduler.
MayRide(d, k) ==
    /\ robot[scheduler[k].robot].available
    /\ scheduler[k].type = entities[d].type

Candidates(d) == {k \in DOMAIN scheduler : MayRide(d, k)}

\* Drone d, hired for entry k, flies m calls to the robot and n calls with it, to where
\* the robot wants to go now.
Hired(d, k, m, n) ==
    [drone[d] EXCEPT !.available = FALSE,
                     !.goal = robot[scheduler[k].robot].destination,
                     !.nearestEntity = k,
                     !.pickedUp = FALSE,
                     !.toRobot = Fly(m),
                     !.toFinalDestination =
                         Fly(n) \o Dance(robot[scheduler[k].robot].strategyName)]

Hire(d, k) ==
    /\ \E m, n \in 1..MaxFlight : drone' = [drone EXCEPT ![d] = Hired(d, k, m, n)]
    /\ robot' = [robot EXCEPT ![scheduler[k].robot].available = FALSE]

\* A drone's handler calls Update, then each handler before it in the chain.
CallsOf(d) == CASE entities[d].kind # "drone"       -> 0
                [] entities[d].type = "standard"    -> 1
                [] entities[d].type = "fancy"       -> 2
                [] entities[d].type = "extravagant" -> 3

\* standardHandler->Handle for the next entity.
Handle ==
    LET d == turn + 1 IN
    /\ d \in DOMAIN entities
    /\ calls = 0
    /\ turn' = d
    /\ calls' = CallsOf(d)
    /\ IF entities[d].kind = "drone" /\ drone[d].available /\ Candidates(d) # {}
       THEN Hire(d, First(Candidates(d)))
       ELSE UNCHANGED <<drone, robot>>
    /\ UNCHANGED <<inbox, asked, entities, scheduler, currentId>>

\* Mutant: the rider is forgotten, the drone does not become available.
Released_Busy(d) == [d EXCEPT !.nearestEntity = 0, !.pickedUp = FALSE, !.goal = 0]

\* Mutant: the pointer to the rider is kept.
Released_Keeps(d) == [d EXCEPT !.available = TRUE, !.pickedUp = FALSE, !.goal = 0]

Released(d) ==
    [d EXCEPT !.nearestEntity = 0, !.available = TRUE, !.pickedUp = FALSE, !.goal = 0]

\* Drone::Update while it flies to the robot.
FlyToRobot(d) ==
    /\ drone' = [drone EXCEPT ![d].toRobot = Tail(@),
                              ![d].pickedUp = @ \/ Tail(drone[d].toRobot) = <<>>]
    /\ UNCHANGED robot

\* The robot after the drone's move, with these moves to come.
Carried(r, rest) ==
    [r EXCEPT !.place = IF \E i \in DOMAIN rest : rest[i] = "fly" THEN "way" ELSE "end"]

\* Drone::Update while it flies to the destination and celebrates.
FlyToDestination(d) ==
    LET rest  == Tail(drone[d].toFinalDestination)
        rider == scheduler[drone[d].nearestEntity].robot
        moved == [drone[d] EXCEPT !.toFinalDestination = rest]
    IN  /\ drone' = [drone EXCEPT ![d] = IF rest = <<>> THEN Released(moved) ELSE moved]
        /\ IF drone[d].nearestEntity # 0 /\ drone[d].pickedUp
           THEN robot' = [robot EXCEPT ![rider] = Carried(@, rest)]
           ELSE UNCHANGED robot

\* One IEntity::Update of the drone whose turn it is.
Update ==
    /\ calls > 0
    /\ calls' = calls - 1
    /\ IF drone[turn].toRobot # <<>>
       THEN FlyToRobot(turn)
       ELSE IF drone[turn].toFinalDestination # <<>>
       THEN FlyToDestination(turn)
       ELSE UNCHANGED <<drone, robot>>
    /\ UNCHANGED <<inbox, asked, entities, scheduler, currentId, turn>>

\* Update returns: the service is free for the next command.
EndUpdate ==
    /\ turn > 0
    /\ calls = 0
    /\ turn = Len(entities)
    /\ turn' = 0
    /\ UNCHANGED <<inbox, asked, entities, scheduler, currentId, calls, drone, robot>>

Tick == Handle \/ Update \/ EndUpdate

Next ==
    \/ \E p \in Viewers : LoadScene(p)
    \/ \E p \in Schedulers :
          \/ \E n \in Names, t \in Types, s \in Searches : Schedule(p, n, t, s)
          \/ AddHuman(p)
    \/ \E p \in Pages : Receive(p)
    \/ Tick

\* A map page asks for an Update with every frame.
Spec == Init /\ [][Next]_vars /\ WF_vars(Tick)

-----------------------------------------------------------------------------
(* Invariants.                                                             *)

Drones == [available : BOOLEAN, nearestEntity : Nat, pickedUp : BOOLEAN,
           toRobot : Seq(Moves), toFinalDestination : Seq(Moves), goal : Nat]

Robots == [available : BOOLEAN, strategyName : Searches \union {"none"},
           destination : Nat, place : {"start", "way", "end"}]

\* The types of the variables; every entry of the scheduler is an entity.
TypeOK ==
    /\ inbox \in [Pages -> Seq(Commands)]
    /\ asked \in 0..MaxEntities
    /\ entities \in Seq([kind : {"drone", "robot", "other"}, name : Names, type : TravelTypes])
    /\ scheduler \in Seq([robot : Slots, type : Types])
    /\ currentId \in Nat
    /\ turn \in 0..Len(entities)
    /\ calls \in 0..3
    /\ drone \in [Slots -> Drones]
    /\ robot \in [Slots -> Robots]

HasRider(d) == drone[d].nearestEntity # 0

RiderOf(d) == scheduler[drone[d].nearestEntity].robot

\* A robot may be in the scheduler several times, under several types, and is
\* offered to several drones, also within one Update: one at most takes it.
OneDronePerRobot ==
    \A d, e \in Slots : HasRider(d) /\ HasRider(e) /\ RiderOf(d) = RiderOf(e) => d = e

\* "a trip can only be initiated between a drone and a robot if both have the
\* same travelType" (README), through the chain of handlers and the wrappers.
RidersMatchTypes ==
    \A d \in Slots : HasRider(d) => scheduler[drone[d].nearestEntity].type = entities[d].type

\* A drone that is available has no rider and no strategy left over; one that
\* is not has a rider and a strategy that will end and make it available.
BusyDronesGetFree ==
    \A d \in Slots :
       /\ drone[d].available =>
             /\ ~HasRider(d)
             /\ drone[d].toRobot = <<>>
             /\ drone[d].toFinalDestination = <<>>
       /\ ~drone[d].available =>
             /\ HasRider(d)
             /\ drone[d].toFinalDestination # <<>>
             /\ drone[d].pickedUp <=> drone[d].toRobot = <<>>

\* A robot does not move before a drone has come for it, and is left nowhere
\* but at its destination.
RobotsMoveWithTheirDrone ==
    \A r \in Slots :
       /\ robot[r].available => robot[r].place = "start"
       /\ ~robot[r].available =>
             \/ robot[r].place = "end"
             \/ \E d \in Slots : /\ HasRider(d)
                                 /\ RiderOf(d) = r
                                 /\ drone[d].toRobot # <<>> => robot[r].place = "start"

\* The simulation's scheduler, drones and robots fit together: the inductive part of what is
\* promised to a robot that waits for its drone.
RidesAreSound ==
    /\ TypeOK
    /\ OneDronePerRobot
    /\ RidersMatchTypes
    /\ BusyDronesGetFree
    /\ RobotsMoveWithTheirDrone

LastTripOf(k, r) ==
    /\ k \in DOMAIN scheduler
    /\ scheduler[k].robot = r
    /\ \A j \in DOMAIN scheduler : scheduler[j].robot = r => j <= k

\* A robot that waits is diverted by every further trip under its name, and then a drone
\* may be hired for an entry that is not the last.  Whichever it is, the drone flies where
\* the LAST trip that was ever scheduled for its robot ends.
RidesGoWhereLastAsked ==
    \A d \in Slots : HasRider(d) => LastTripOf(drone[d].goal, RiderOf(d))

-----------------------------------------------------------------------------
(* Temporal properties.                                                    *)

TripOf(r) ==
    IF \A k \in DOMAIN scheduler : scheduler[k].robot # r THEN "none"
    ELSE IF robot[r].available THEN "waiting"
    ELSE IF \E d \in Slots : HasRider(d) /\ RiderOf(d) = r THEN "riding"
    ELSE "done"

Hires == INSTANCE RideHailing WITH Riders <- Slots, trip <- [r \in Slots |-> TripOf(r)]

\* A robot's trip is taken up by a drone once at most, whatever else is
\* scheduled meanwhile, and then it ends.
ImplementsRideHailing == Hires!Spec

HasDrone(t) == \E d \in DOMAIN entities : entities[d].kind = "drone" /\ entities[d].type = t

\* "the first available drone of the corresponding travelType completes the
\* trip" (README): a robot in the scheduler is brought to its destination if
\* there is a drone of the type it waits for.
WaitingRobotsArrive ==
    \A r \in Slots, t \in Types :
       (/\ HasDrone(t)
        /\ \E k \in DOMAIN scheduler : scheduler[k] = [robot |-> r, type |-> t])
       ~> robot[r].place = "end"

=============================================================================
