----------------------- MODULE TransitSimulationProofs -----------------------
(***************************************************************************)
(* The invariants of TransitSimulation for every number of pages, names,   *)
(* entities and moves, and that what it does to a robot's trip is what     *)
(* RideHailing allows.                                                     *)
(*                                                                         *)
(* Availability is a field of the robot, not of its entries in the         *)
(* scheduler.  That is what makes OneDronePerRobot inductive: the rider of *)
(* a drone is never available (Shape), and a handler hires its drone only  *)
(* for a robot that is.                                                    *)
(***************************************************************************)
EXTENDS TransitSimulation, TLAPS, WellFoundedInduction

\* A drone with a rider is an entity, its rider an entry of the scheduler that
\* is not on offer, and only a drone's turn has calls of Update to come.
Shape ==
    /\ Len(entities) <= MaxEntities
    /\ calls > 0 => turn > 0
    /\ \A d \in Slots : HasRider(d) =>
          /\ d \in DOMAIN entities
          /\ drone[d].nearestEntity \in DOMAIN scheduler
          /\ ~robot[RiderOf(d)].available

IInv ==
    /\ TypeOK
    /\ Shape
    /\ OneDronePerRobot
    /\ RidersMatchTypes
    /\ BusyDronesGetFree
    /\ RobotsMoveWithTheirDrone

USE TypesAssumption, SearchesAssumption, NamesAssumption, MaxEntitiesAssumption,
    MaxFlightAssumption, SceneAssumption

-----------------------------------------------------------------------------
(* Lemmas about the operators.                                             *)

\* CreateEntity always finds a decorator.
LEMMA TypeOfIsType == \A id \in Nat : TypeOf(id) \in TravelTypes
BY DEF TypeOf, TravelTypes

\* The strategy made for a hired drone is a sequence of moves, and not empty.
LEMMA PlanIsNotEmpty ==
    ASSUME NEW n \in 1..MaxFlight, NEW s
    PROVE  /\ Fly(n) \in Seq(Moves)
           /\ Fly(n) # <<>>
           /\ Fly(n) \o Dance(s) \in Seq(Moves)
           /\ Fly(n) \o Dance(s) # <<>>
<1>1. Fly(n) \in Seq(Moves) /\ Len(Fly(n)) = n
  BY DEF Fly, Moves
<1>2. Dance(s) \in Seq(Moves)
  <2>1. CASE s = "astar"
    BY <2>1 DEF Dance, Moves
  <2>2. CASE s = "dfs"
    BY <2>2 DEF Dance, Moves
  <2>3. CASE s = "dijkstra"
    BY <2>3 DEF Dance, Moves
  <2>4. CASE s \notin {"astar", "dfs", "dijkstra"}
    BY <2>4 DEF Dance, Moves
  <2> QED
    BY <2>1, <2>2, <2>3, <2>4
<1>3. Len(Fly(n) \o Dance(s)) = n + Len(Dance(s)) /\ Fly(n) \o Dance(s) \in Seq(Moves)
  BY <1>1, <1>2
<1>4. Len(Dance(s)) \in Nat
  BY <1>2
<1> QED
  BY <1>1, <1>3, <1>4

\* The least index exists in a non-empty set of positions.
LEMMA FirstIsThere ==
    ASSUME NEW S, S \subseteq Nat, S # {}
    PROVE  First(S) \in S
<1>1. PICK i \in S : \A j \in S : ~(<<j, i>> \in OpToRel(<, Nat))
  BY NatLessThanWellFounded, WFMin
<1>2. OpToRel(<, Nat) = {ss \in Nat \X Nat : ss[1] < ss[2]}
  BY Zenon DEF OpToRel
<1>3. \A j \in S : ~(<<j, i>> \in {ss \in Nat \X Nat : ss[1] < ss[2]})
  BY <1>1, <1>2, Zenon
<1>4. ASSUME NEW j \in S PROVE i <= j
  <2>1. <<j, i>> \in Nat \X Nat
    OBVIOUS
  <2>2. ~(<<j, i>>[1] < <<j, i>>[2])
    BY <1>3, <2>1, Zenon
  <2> QED
    BY <2>2
<1> QED
  BY <1>4 DEF First

-----------------------------------------------------------------------------
(* The inductive invariant, one lemma for each kind of step.               *)

Safe == Shape /\ OneDronePerRobot /\ RidersMatchTypes /\ BusyDronesGetFree
              /\ RobotsMoveWithTheirDrone

\* Everything but the queues of commands.
model == <<entities, scheduler, currentId, turn, calls, drone, robot>>

LEMMA InitEstablishes == Init => IInv
<1> SUFFICES ASSUME Init PROVE IInv
  OBVIOUS
<1>1. TypeOK
  BY DEF Init, TypeOK, Drones, Robots, NewDrone, NewRobot
<1>2. \A d \in Slots : ~HasRider(d)
  BY DEF Init, HasRider, NewDrone
<1>3. Safe
  BY <1>2 DEF Init, Safe, Shape, OneDronePerRobot, RidersMatchTypes, BusyDronesGetFree,
     RobotsMoveWithTheirDrone, NewDrone, NewRobot, HasRider
<1> QED
  BY <1>1, <1>3 DEF IInv, Safe

\* The invariants other than TypeOK do not mention the queues.
LEMMA QueuesDoNotMatter ==
    ASSUME Safe, UNCHANGED model
    PROVE  Safe'
BY DEF Safe, model, Shape, OneDronePerRobot, RidersMatchTypes, BusyDronesGetFree,
   RobotsMoveWithTheirDrone, HasRider, RiderOf

LEMMA AskedKeeps ==
    ASSUME IInv, NEW p \in Pages, NEW commands \in Seq(Commands), NEW n \in Nat,
           Asked(p, commands, n)
    PROVE  IInv'
<1>1. TypeOK'
  BY DEF IInv, TypeOK, Asked
<1>2. Safe'
  BY QueuesDoNotMatter DEF IInv, Safe, Asked, model
<1> QED
  BY <1>1, <1>2 DEF IInv, Safe

LEMMA PagesKeep ==
    ASSUME IInv,
           \/ \E p \in Viewers : LoadScene(p)
           \/ \E p \in Schedulers :
                 \/ \E n \in Names, t \in Types, s \in Searches : Schedule(p, n, t, s)
                 \/ AddHuman(p)
    PROVE  IInv'
<1>1. ASSUME NEW k \in {"drone", "robot", "other"}, NEW n \in Names
      PROVE  Create(k, n) \in Commands
  BY DEF Create, Commands
<1>2. AnyName \in Names
  BY DEF AnyName
<1>3. ASSUME NEW p \in Viewers, LoadScene(p) PROVE IInv'
  <2> DEFINE cs == [i \in DOMAIN Scene |-> Create(Scene[i], AnyName)]
  <2>1. cs \in Seq(Commands)
    <3>1. \A i \in 1..Len(Scene) : Create(Scene[i], AnyName) \in Commands
      BY <1>1, <1>2
    <3>2. Len(Scene) \in Nat /\ DOMAIN Scene = 1..Len(Scene)
      OBVIOUS
    <3> QED
      BY <3>1, <3>2
  <2>2. Len(Scene) \in Nat /\ p \in Pages
    BY DEF Pages
  <2> QED
    BY <1>3, <2>1, <2>2, AskedKeeps DEF LoadScene
<1>4. ASSUME NEW p \in Schedulers, NEW n \in Names, NEW t \in Types, NEW s \in Searches,
             Schedule(p, n, t, s)
      PROVE  IInv'
  <2>1. [cmd |-> "ScheduleTrip", name |-> n, type |-> t, search |-> s] \in Commands
    BY DEF Commands
  <2>2. p \in Pages /\ 1 \in Nat
    BY DEF Pages
  <2> DEFINE cs == <<Create("robot", n),
                     [cmd |-> "ScheduleTrip", name |-> n, type |-> t, search |-> s]>>
  <2>3. Asked(p, cs, 1)
    BY <1>4 DEF Schedule
  <2>4. cs \in Seq(Commands)
    BY <1>1, <2>1
  <2> HIDE DEF cs
  <2> QED
    BY <2>2, <2>3, <2>4, AskedKeeps
<1>5. ASSUME NEW p \in Schedulers, AddHuman(p) PROVE IInv'
  <2> DEFINE cs == <<Create("other", AnyName)>>
  <2>1. Asked(p, cs, 1) /\ p \in Pages /\ 1 \in Nat
    BY <1>5 DEF AddHuman, Pages
  <2>2. cs \in Seq(Commands)
    BY <1>1, <1>2
  <2> HIDE DEF cs
  <2> QED
    BY <2>1, <2>2, AskedKeeps
<1> QED
  BY <1>3, <1>4, <1>5

LEMMA CreateKeeps ==
    ASSUME TypeOK, Safe, NEW k \in {"drone", "robot", "other"}, NEW n \in Names,
           CreateEntity(k, n)
    PROVE  /\ entities' \in Seq([kind : {"drone", "robot", "other"}, name : Names, type : TravelTypes])
           /\ turn' \in 0..Len(entities')
           /\ currentId' \in Nat
           /\ Safe'
<1> DEFINE e == [kind |-> k, name |-> n, type |-> TypeOf(currentId)]
           E == [kind : {"drone", "robot", "other"}, name : Names, type : TravelTypes]
<1>1. e \in E
  BY TypeOfIsType DEF TypeOK
<1>2. entities \in Seq(E) /\ entities' = Append(entities, e)
  BY DEF TypeOK, CreateEntity
<1> HIDE DEF e, E
<1>3. /\ entities' \in Seq(E)
      /\ Len(entities') = Len(entities) + 1
      /\ \A i \in DOMAIN entities : i \in DOMAIN entities' /\ entities'[i] = entities[i]
  BY <1>1, <1>2
<1>4. turn' \in 0..Len(entities') /\ currentId' \in Nat
  BY <1>2, <1>3 DEF TypeOK, CreateEntity
<1>5. Shape'
  BY <1>2, <1>3 DEF TypeOK, Safe, Shape, CreateEntity, HasRider, RiderOf
<1>6. (OneDronePerRobot /\ BusyDronesGetFree /\ RobotsMoveWithTheirDrone)'
  BY DEF CreateEntity, Safe, OneDronePerRobot, BusyDronesGetFree, RobotsMoveWithTheirDrone,
     HasRider, RiderOf
<1>7. RidersMatchTypes'
  BY <1>3 DEF CreateEntity, Safe, Shape, RidersMatchTypes, HasRider
<1> QED
  BY <1>3, <1>4, <1>5, <1>6, <1>7 DEF Safe, E

\* What a step that schedules at most one robot does to the rides: nothing.
Booked(t) ==
    /\ \A d \in Slots : /\ HasRider(d)' <=> HasRider(d)
                        /\ HasRider(d) => RiderOf(d)' = RiderOf(d)
    /\ \A q \in Slots : robot'[q].available = robot[q].available
    /\ \/ UNCHANGED scheduler
       \/ \E r \in Slots : /\ robot[r].available
                           /\ scheduler' = Append(scheduler, [robot |-> r, type |-> t])

\* Scheduling a robot that is available leaves every ride as it is.
LEMMA ScheduleKeeps ==
    ASSUME TypeOK, Safe, NEW n \in Names, NEW t \in Types, NEW s \in Searches,
           ScheduleTrip(n, t, s)
    PROVE  /\ scheduler' \in Seq([robot : Slots, type : Types])
           /\ robot' \in [Slots -> Robots]
           /\ currentId' \in Nat
           /\ Safe'
           /\ \A r \in Slots : ~robot[r].available => robot'[r] = robot[r]
           /\ Booked(t)
<1>1. CASE Bookable(n) = {}
  <2>1. UNCHANGED model
    BY <1>1 DEF ScheduleTrip, model, TypeOK
  <2> QED
    BY <2>1, QueuesDoNotMatter DEF TypeOK, model, Booked, HasRider, RiderOf
<1>2. CASE Bookable(n) # {}
  <2> DEFINE r == First(Bookable(n))
             e == [robot |-> r, type |-> t]
             S == [robot : Slots, type : Types]
  <2>1. Bookable(n) \subseteq Nat /\ Bookable(n) \subseteq Slots
    BY DEF Bookable, TypeOK, Safe, Shape, Slots
  <2>2. r \in Bookable(n)
    BY <1>2, <2>1, FirstIsThere
  <2>3. r \in Slots /\ robot[r].available
    BY <2>1, <2>2 DEF Bookable
  <2>4. /\ scheduler' = Append(scheduler, e)
        /\ robot' = [robot EXCEPT ![r].destination = Len(scheduler) + 1, ![r].strategyName = s]
        /\ currentId' = currentId + 1
        /\ UNCHANGED <<entities, turn, calls, drone>>
    BY <1>2 DEF ScheduleTrip
  <2>5. e \in S /\ scheduler \in Seq(S)
    BY <2>3 DEF TypeOK
  <2>6. /\ \A q \in Slots : /\ robot'[q].available = robot[q].available
                            /\ robot'[q].place = robot[q].place
                            /\ ~robot[q].available => robot'[q] = robot[q]
        /\ robot' \in [Slots -> Robots]
    <3>1. Len(scheduler) + 1 \in Nat
      BY <2>5
    <3> HIDE DEF r
    <3> QED
      BY <2>3, <2>4, <3>1, ZenonT(40) DEF TypeOK, Robots
  <2> HIDE DEF r, e, S
  <2>7. /\ scheduler' \in Seq(S)
        /\ \A i \in DOMAIN scheduler : i \in DOMAIN scheduler' /\ scheduler'[i] = scheduler[i]
    BY <2>4, <2>5
  <2>8. \A d \in Slots : /\ HasRider(d)' <=> HasRider(d)
                         /\ HasRider(d) => RiderOf(d)' = RiderOf(d) /\ RiderOf(d) \in Slots
    <3>1. \A i \in DOMAIN scheduler : scheduler[i].robot \in Slots
      <4>1. \A i \in DOMAIN scheduler : scheduler[i] \in S
        BY <2>5
      <4> QED
        BY <4>1 DEF S
    <3>2. \A d \in Slots : HasRider(d) => drone[d].nearestEntity \in DOMAIN scheduler
      BY DEF Safe, Shape
    <3> QED
      BY <2>4, <2>7, <3>1, <3>2 DEF HasRider, RiderOf
  <2>9. Shape'
    BY <2>4, <2>6, <2>7, <2>8 DEF Safe, Shape
  <2>10. (OneDronePerRobot /\ BusyDronesGetFree /\ RidersMatchTypes)'
    BY <2>4, <2>7, <2>8 DEF Safe, Shape, OneDronePerRobot, BusyDronesGetFree, RidersMatchTypes
  <2>11. RobotsMoveWithTheirDrone'
    BY <2>4, <2>6, <2>8 DEF Safe, RobotsMoveWithTheirDrone
  <2>12. currentId' \in Nat
    BY <2>4 DEF TypeOK
  <2>13. Booked(t)
    BY <2>3, <2>4, <2>6, <2>8 DEF Booked, e
  <2> QED
    BY <2>6, <2>7, <2>9, <2>10, <2>11, <2>12, <2>13 DEF Safe, S
<1> QED
  BY <1>1, <1>2

LEMMA ReceiveKeeps ==
    ASSUME IInv, NEW p \in Pages, Receive(p)
    PROVE  IInv'
<1> DEFINE c == Head(inbox[p])
<1>1. c \in Commands /\ inbox' \in [Pages -> Seq(Commands)] /\ asked' \in 0..MaxEntities
  BY DEF IInv, TypeOK, Receive
<1>2. TypeOK /\ Safe
  BY DEF IInv, Safe
<1>3. CASE c.cmd = "CreateEntity" /\ CreateEntity(c.kind, c.name)
  <2>1. c.kind \in {"drone", "robot", "other"} /\ c.name \in Names
    BY <1>1, <1>3 DEF Commands
  <2>2. UNCHANGED <<scheduler, turn, calls, drone, robot>>
    BY <1>3 DEF CreateEntity
  <2> HIDE DEF c
  <2> QED
    BY <1>1, <1>2, <1>3, <2>1, <2>2, CreateKeeps DEF IInv, TypeOK, Safe
<1>4. CASE c.cmd = "ScheduleTrip" /\ ScheduleTrip(c.name, c.type, c.search)
  <2>1. c.name \in Names /\ c.type \in Types /\ c.search \in Searches
    BY <1>1, <1>4 DEF Commands
  <2>2. UNCHANGED <<entities, turn, calls, drone>>
    BY <1>4 DEF ScheduleTrip
  <2> HIDE DEF c
  <2> QED
    BY <1>1, <1>2, <1>4, <2>1, <2>2, ScheduleKeeps DEF IInv, TypeOK, Safe
<1> QED
  BY <1>3, <1>4 DEF Receive

\* The robot of every entry of the scheduler is a position.
LEMMA RobotsAreSlots ==
    ASSUME TypeOK, NEW k \in DOMAIN scheduler
    PROVE  scheduler[k].robot \in Slots
<1> DEFINE S == [robot : Slots, type : Types]
<1>1. scheduler[k] \in S
  <2>1. scheduler \in Seq(S)
    BY DEF TypeOK
  <2> HIDE DEF S
  <2> QED
    BY <2>1
<1> QED
  BY <1>1

\* Hiring drone d for a robot that is available and has no drone yet.
LEMMA HireKeeps ==
    ASSUME TypeOK, Safe, NEW d \in Slots, d \in DOMAIN entities, drone[d].available,
           NEW k \in Candidates(d), Hire(d, k), UNCHANGED <<entities, scheduler>>,
           turn' > 0
    PROVE  /\ drone' \in [Slots -> Drones]
           /\ robot' \in [Slots -> Robots]
           /\ Safe'
<1> DEFINE r == scheduler[k].robot
<1>1. k \in DOMAIN scheduler /\ k # 0 /\ k \in Nat
  BY DEF Candidates, TypeOK
<1>2. r \in Slots /\ robot[r].available /\ scheduler[k].type = entities[d].type
  BY <1>1, RobotsAreSlots DEF Candidates, MayRide
<1>3. PICK m, n \in 1..MaxFlight : drone' = [drone EXCEPT ![d] = Hired(d, k, m, n)]
  BY DEF Hire
<1> DEFINE h == Hired(d, k, m, n)
<1>4. /\ h \in Drones
      /\ ~h.available /\ ~h.pickedUp
      /\ h.nearestEntity = k
      /\ h.toRobot # <<>> /\ h.toFinalDestination # <<>>
  <2> DEFINE goal == robot[r].destination
             plan == Fly(n) \o Dance(robot[r].strategyName)
             way == Fly(m)
  <2>1. drone[d] \in Drones /\ robot[r] \in Robots
    BY <1>2 DEF TypeOK
  <2>2. goal \in Nat
    BY <2>1 DEF Robots
  <2>3. /\ way \in Seq(Moves) /\ way # <<>>
        /\ plan \in Seq(Moves) /\ plan # <<>>
    BY PlanIsNotEmpty
  <2>4. h = [drone[d] EXCEPT !.available = FALSE, !.goal = goal, !.nearestEntity = k,
                             !.pickedUp = FALSE, !.toRobot = way, !.toFinalDestination = plan]
    BY DEF Hired
  <2> HIDE DEF goal, plan, way, h, r
  <2> QED
    BY <1>1, <2>1, <2>2, <2>3, <2>4 DEF Drones
<1> HIDE DEF h
<1>5. drone' \in [Slots -> Drones] /\ drone'[d] = h /\ \A e \in Slots \ {d} : drone'[e] = drone[e]
  BY <1>3, <1>4 DEF TypeOK, h
<1>6. /\ robot' \in [Slots -> Robots]
      /\ ~robot'[r].available /\ robot'[r].place = robot[r].place
      /\ \A q \in Slots \ {r} : robot'[q] = robot[q]
  <2>1. robot' = [robot EXCEPT ![r].available = FALSE]
    BY DEF Hire
  <2> HIDE DEF r
  <2> QED
    BY <1>2, <2>1, ZenonT(40) DEF TypeOK, Robots
<1> HIDE DEF r
<1>7. /\ HasRider(d)' /\ RiderOf(d)' = r
      /\ \A e \in Slots \ {d} : (HasRider(e)' <=> HasRider(e)) /\ RiderOf(e)' = RiderOf(e)
  BY <1>1, <1>4, <1>5 DEF HasRider, RiderOf, r
<1>8. \A e \in Slots : HasRider(e) => RiderOf(e) \in Slots /\ RiderOf(e) # r
  BY <1>2, RobotsAreSlots DEF Safe, Shape, RiderOf
<1>9. Shape'
  BY <1>1, <1>4, <1>5, <1>6, <1>7, <1>8 DEF Safe, Shape
<1>10. OneDronePerRobot'
  BY <1>7, <1>8 DEF Safe, OneDronePerRobot
<1>11. RidersMatchTypes'
  BY <1>2, <1>4, <1>5, <1>7 DEF Safe, RidersMatchTypes
<1>12. BusyDronesGetFree'
  BY <1>4, <1>5, <1>7 DEF Safe, BusyDronesGetFree
<1>13. RobotsMoveWithTheirDrone'
  <2>1. robot[r].place = "start"
    BY <1>2 DEF Safe, RobotsMoveWithTheirDrone
  <2>2. \A e \in Slots : HasRider(e) => e # d
    BY DEF Safe, BusyDronesGetFree
  <2> SUFFICES ASSUME NEW q \in Slots
               PROVE  /\ robot'[q].available => robot'[q].place = "start"
                      /\ ~robot'[q].available =>
                            \/ robot'[q].place = "end"
                            \/ \E e \in Slots : /\ HasRider(e)'
                                                /\ RiderOf(e)' = q
                                                /\ drone'[e].toRobot # <<>> => robot'[q].place = "start"
    BY DEF RobotsMoveWithTheirDrone
  <2>3. CASE q = r
    BY <1>6, <1>7, <2>1, <2>3
  <2>4. CASE q # r
    BY <1>5, <1>6, <1>7, <2>2, <2>4 DEF Safe, RobotsMoveWithTheirDrone
  <2> QED
    BY <2>3, <2>4
<1> QED
  BY <1>5, <1>6, <1>9, <1>10, <1>11, <1>12, <1>13 DEF Safe

\* A step that leaves entities, scheduler, drones and robots alone.
LEMMA QuietKeeps ==
    ASSUME Safe, UNCHANGED <<entities, scheduler, drone, robot>>, calls' > 0 => turn' > 0
    PROVE  Safe'
BY DEF Safe, Shape, OneDronePerRobot, RidersMatchTypes, BusyDronesGetFree,
   RobotsMoveWithTheirDrone, HasRider, RiderOf

LEMMA HandleKeeps ==
    ASSUME IInv, Handle
    PROVE  IInv'
<1> DEFINE d == turn + 1
<1>1. d \in DOMAIN entities /\ turn' = d /\ calls' = CallsOf(d)
      /\ UNCHANGED <<inbox, asked, entities, scheduler, currentId>>
  BY DEF Handle
<1>2. d \in Slots /\ turn' \in 0..Len(entities') /\ turn' > 0
  BY <1>1 DEF IInv, TypeOK, Shape, Slots
<1>3. calls' \in 0..3
  <2>1. entities[d].type \in TravelTypes
    <3> DEFINE E == [kind : {"drone", "robot", "other"}, name : Names, type : TravelTypes]
    <3>1. entities \in Seq(E)
      BY DEF IInv, TypeOK
    <3> HIDE DEF E
    <3>2. entities[d] \in E
      BY <1>1, <3>1
    <3> QED
      BY <3>2 DEF E
  <2>2. CASE entities[d].kind # "drone"
    BY <1>1, <2>2 DEF CallsOf
  <2>3. CASE entities[d].kind = "drone" /\ entities[d].type = "standard"
    BY <1>1, <2>3 DEF CallsOf
  <2>4. CASE entities[d].kind = "drone" /\ entities[d].type = "fancy"
    BY <1>1, <2>4 DEF CallsOf
  <2>5. CASE entities[d].kind = "drone" /\ entities[d].type = "extravagant"
    BY <1>1, <2>5 DEF CallsOf
  <2> QED
    BY <2>1, <2>2, <2>3, <2>4, <2>5 DEF TravelTypes
<1>4. TypeOK /\ Safe
  BY DEF IInv, Safe
<1>5. CASE drone[d].available /\ Candidates(d) # {} /\ Hire(d, First(Candidates(d)))
  <2>1. Candidates(d) \subseteq Nat
    BY <1>4 DEF Candidates, TypeOK
  <2>2. First(Candidates(d)) \in Candidates(d)
    BY <1>5, <2>1, FirstIsThere
  <2> HIDE DEF d
  <2> QED
    BY <1>1, <1>2, <1>3, <1>4, <1>5, <2>2, HireKeeps DEF IInv, TypeOK, Safe
<1>6. CASE UNCHANGED <<drone, robot>>
  BY <1>1, <1>2, <1>3, <1>4, <1>6, QuietKeeps DEF IInv, TypeOK, Safe
<1> QED
  BY <1>5, <1>6 DEF Handle

\* A call of Drone::Update that changes drone d alone.
LEMMA FlyToRobotKeeps ==
    ASSUME TypeOK, Safe, NEW d \in Slots, drone[d].toRobot # <<>>, FlyToRobot(d),
           UNCHANGED <<entities, scheduler, turn>>, calls' > 0 => turn' > 0
    PROVE  drone' \in [Slots -> Drones] /\ Safe'
<1> DEFINE rest == Tail(drone[d].toRobot)
           h == [drone[d] EXCEPT !.toRobot = rest, !.pickedUp = @ \/ rest = <<>>]
<1>1. drone[d] \in Drones /\ rest \in Seq(Moves)
  BY DEF TypeOK, Drones
<1>2. ~drone[d].available /\ HasRider(d) /\ ~drone[d].pickedUp
  BY DEF Safe, BusyDronesGetFree
<1>3. drone' = [drone EXCEPT ![d] = h] /\ UNCHANGED robot
  BY <1>1 DEF FlyToRobot, TypeOK
<1> HIDE DEF rest
<1>4. /\ h \in Drones
      /\ ~h.available
      /\ h.nearestEntity = drone[d].nearestEntity
      /\ h.toRobot = rest
      /\ h.pickedUp <=> rest = <<>>
      /\ h.toFinalDestination = drone[d].toFinalDestination
  <2>1. (drone[d].pickedUp \/ rest = <<>>) \in BOOLEAN
    OBVIOUS
  <2> QED
    BY <1>1, <1>2, <2>1 DEF Drones
<1> HIDE DEF h
<1>5. drone' \in [Slots -> Drones] /\ drone'[d] = h /\ \A e \in Slots \ {d} : drone'[e] = drone[e]
  BY <1>3, <1>4 DEF TypeOK
<1>6. \A e \in Slots : (HasRider(e)' <=> HasRider(e)) /\ RiderOf(e)' = RiderOf(e)
  BY <1>4, <1>5 DEF HasRider, RiderOf
<1>7. Shape' /\ OneDronePerRobot' /\ RidersMatchTypes'
  BY <1>3, <1>4, <1>5, <1>6 DEF Safe, Shape, OneDronePerRobot, RidersMatchTypes
<1>8. BusyDronesGetFree'
  BY <1>2, <1>4, <1>5, <1>6 DEF Safe, BusyDronesGetFree
<1>9. RobotsMoveWithTheirDrone'
  BY <1>3, <1>4, <1>5, <1>6 DEF Safe, RobotsMoveWithTheirDrone
<1> QED
  BY <1>5, <1>7, <1>8, <1>9 DEF Safe

\* A call of Drone::Update that also moves the rider, and may set it down.
LEMMA FlyToDestinationKeeps ==
    ASSUME TypeOK, Safe, NEW d \in Slots, drone[d].toRobot = <<>>,
           drone[d].toFinalDestination # <<>>, FlyToDestination(d),
           UNCHANGED <<entities, scheduler, turn>>, calls' > 0 => turn' > 0
    PROVE  drone' \in [Slots -> Drones] /\ robot' \in [Slots -> Robots] /\ Safe'
<1> DEFINE rest == Tail(drone[d].toFinalDestination)
           r == RiderOf(d)
           moved == [drone[d] EXCEPT !.toFinalDestination = rest]
           h == IF rest = <<>> THEN Released(moved) ELSE moved
<1>1. drone[d] \in Drones /\ rest \in Seq(Moves)
  BY DEF TypeOK, Drones
<1>2. ~drone[d].available /\ HasRider(d) /\ drone[d].pickedUp
  BY DEF Safe, BusyDronesGetFree
<1>3. r \in Slots /\ ~robot[r].available
  BY <1>2, RobotsAreSlots DEF Safe, Shape, RiderOf
<1>4. drone' = [drone EXCEPT ![d] = h] /\ robot' = [robot EXCEPT ![r] = Carried(@, rest)]
  BY <1>2 DEF FlyToDestination, HasRider, RiderOf
<1> HIDE DEF rest
<1>5. /\ h \in Drones
      /\ h.toRobot = <<>>
      /\ rest = <<>> => /\ h.available /\ ~h.pickedUp /\ h.nearestEntity = 0
                        /\ h.toFinalDestination = <<>>
      /\ rest # <<>> => /\ ~h.available /\ h.pickedUp
                        /\ h.nearestEntity = drone[d].nearestEntity
                        /\ h.toFinalDestination = rest
  BY <1>1, <1>2 DEF Drones, Released
<1> HIDE DEF h, r, moved
<1>6. drone' \in [Slots -> Drones] /\ drone'[d] = h /\ \A e \in Slots \ {d} : drone'[e] = drone[e]
  BY <1>4, <1>5 DEF TypeOK
<1>7. /\ robot' \in [Slots -> Robots]
      /\ ~robot'[r].available
      /\ rest = <<>> => robot'[r].place = "end"
      /\ \A q \in Slots \ {r} : robot'[q] = robot[q]
  <2> DEFINE c == Carried(robot[r], rest)
  <2>1. robot[r] \in Robots
    BY <1>3 DEF TypeOK
  <2>2. c \in Robots /\ c.available = robot[r].available
    BY <2>1 DEF Carried, Robots
  <2>3. rest = <<>> => c.place = "end"
    BY <2>1 DEF Carried, Robots
  <2>4. robot' = [robot EXCEPT ![r] = c]
    BY <1>4
  <2> HIDE DEF c
  <2> QED
    BY <1>3, <2>2, <2>3, <2>4 DEF TypeOK
<1>8. /\ \A e \in Slots \ {d} : (HasRider(e)' <=> HasRider(e)) /\ RiderOf(e)' = RiderOf(e)
      /\ HasRider(d)' <=> rest # <<>>
      /\ rest # <<>> => RiderOf(d)' = r
  BY <1>2, <1>5, <1>6 DEF HasRider, RiderOf, r
<1>9. Shape'
  <2> SUFFICES ASSUME NEW e \in Slots, HasRider(e)'
               PROVE  /\ e \in DOMAIN entities
                      /\ drone'[e].nearestEntity \in DOMAIN scheduler
                      /\ ~robot'[RiderOf(e)'].available
    BY DEF Safe, Shape
  <2>1. CASE e = d
    BY <1>2, <1>5, <1>6, <1>7, <1>8, <2>1 DEF Safe, Shape
  <2>2. CASE e # d
    BY <1>6, <1>7, <1>8, <2>2, RobotsAreSlots DEF Safe, Shape, RiderOf
  <2> QED
    BY <2>1, <2>2
<1>10. OneDronePerRobot'
  BY <1>2, <1>8 DEF Safe, OneDronePerRobot, r
<1>11. RidersMatchTypes'
  BY <1>2, <1>5, <1>6, <1>8 DEF Safe, RidersMatchTypes
<1>12. BusyDronesGetFree'
  BY <1>5, <1>6, <1>8 DEF Safe, BusyDronesGetFree
<1>13. RobotsMoveWithTheirDrone'
  <2> SUFFICES ASSUME NEW q \in Slots
               PROVE  /\ robot'[q].available => robot'[q].place = "start"
                      /\ ~robot'[q].available =>
                            \/ robot'[q].place = "end"
                            \/ \E e \in Slots : /\ HasRider(e)'
                                                /\ RiderOf(e)' = q
                                                /\ drone'[e].toRobot # <<>> => robot'[q].place = "start"
    BY DEF RobotsMoveWithTheirDrone
  <2>1. CASE q = r
    BY <1>5, <1>6, <1>7, <1>8, <2>1
  <2>2. CASE q # r
    BY <1>6, <1>7, <1>8, <2>2 DEF Safe, RobotsMoveWithTheirDrone, r
  <2> QED
    BY <2>1, <2>2
<1> QED
  BY <1>6, <1>7, <1>9, <1>10, <1>11, <1>12, <1>13 DEF Safe

LEMMA UpdateKeeps ==
    ASSUME IInv, Update
    PROVE  IInv'
<1>1. /\ UNCHANGED <<inbox, asked, entities, scheduler, currentId, turn>>
      /\ calls' = calls - 1 /\ calls > 0
  BY DEF Update
<1>2. turn \in Slots /\ calls' \in 0..3 /\ (calls' > 0 => turn' > 0)
  BY <1>1 DEF IInv, TypeOK, Shape, Slots
<1>3. TypeOK /\ Safe
  BY DEF IInv, Safe
<1>4. CASE drone[turn].toRobot # <<>> /\ FlyToRobot(turn)
  <2>1. UNCHANGED robot
    BY <1>4 DEF FlyToRobot
  <2> QED
    BY <1>1, <1>2, <1>3, <1>4, <2>1, FlyToRobotKeeps DEF IInv, TypeOK, Safe
<1>5. CASE /\ drone[turn].toRobot = <<>>
           /\ drone[turn].toFinalDestination # <<>>
           /\ FlyToDestination(turn)
  BY <1>1, <1>2, <1>3, <1>5, FlyToDestinationKeeps DEF IInv, TypeOK, Safe
<1>6. CASE UNCHANGED <<drone, robot>>
  BY <1>1, <1>2, <1>3, <1>6, QuietKeeps DEF IInv, TypeOK, Safe
<1> QED
  BY <1>4, <1>5, <1>6 DEF Update

LEMMA EndUpdateKeeps ==
    ASSUME IInv, EndUpdate
    PROVE  IInv'
<1>1. /\ UNCHANGED <<inbox, asked, entities, scheduler, currentId, calls, drone, robot>>
      /\ calls = 0 /\ turn' = 0
  BY DEF EndUpdate
<1>2. Safe'
  BY <1>1, QuietKeeps DEF IInv, Safe
<1> QED
  BY <1>1, <1>2 DEF IInv, TypeOK, Safe

LEMMA StepKeeps == IInv /\ [Next]_vars => IInv'
<1> SUFFICES ASSUME IInv, [Next]_vars PROVE IInv'
  OBVIOUS
<1>1. CASE UNCHANGED vars
  <2>1. Safe'
    BY <1>1, QueuesDoNotMatter DEF IInv, Safe, vars, model
  <2> QED
    BY <1>1, <2>1 DEF IInv, TypeOK, Safe, vars
<1>2. CASE \/ \E p \in Viewers : LoadScene(p)
           \/ \E p \in Schedulers :
                 \/ \E n \in Names, t \in Types, s \in Searches : Schedule(p, n, t, s)
                 \/ AddHuman(p)
  BY <1>2, PagesKeep
<1>3. CASE \E p \in Pages : Receive(p)
  BY <1>3, ReceiveKeeps
<1>4. CASE Tick
  BY <1>4, HandleKeeps, UpdateKeeps, EndUpdateKeeps DEF Tick
<1> QED
  BY <1>1, <1>2, <1>3, <1>4 DEF Next

\* The inductive invariant holds in every state of the simulation.
THEOREM Invariance == Spec => []IInv
<1>1. Init => IInv
  BY InitEstablishes
<1>2. IInv /\ [Next]_vars => IInv'
  BY StepKeeps
<1> QED
  BY <1>1, <1>2, PTL DEF Spec

-----------------------------------------------------------------------------
(* What it is for.                                                         *)

\* The types of the simulation's variables.
THEOREM TypeCorrect == Spec => []TypeOK
BY Invariance, PTL DEF IInv

\* No robot is the rider of two drones, however often it was scheduled.
THEOREM OneDrone == Spec => []OneDronePerRobot
BY Invariance, PTL DEF IInv

\* A drone serves robots that asked for its type only.
THEOREM TypesMatch == Spec => []RidersMatchTypes
BY Invariance, PTL DEF IInv

\* A drone without a rider is available, and one with a rider will be.
THEOREM DronesGetFree == Spec => []BusyDronesGetFree
BY Invariance, PTL DEF IInv

\* Robots stand where they were created, ride, or are at their destination.
THEOREM RobotsAreMoved == Spec => []RobotsMoveWithTheirDrone
BY Invariance, PTL DEF IInv

\* All of it, for any scene, pages, names and searches.
THEOREM Sound == Spec => []RidesAreSound
<1>1. IInv => RidesAreSound
  BY DEF IInv, RidesAreSound
<1> QED
  BY <1>1, Invariance, PTL

-----------------------------------------------------------------------------
(* Where rides go.                                                         *)

\* A robot in the scheduler wants to go where the last of its trips ends: what
\* makes RidesGoWhereLastAsked inductive.
RobotsWantLast ==
    \A r \in Slots :
       (\E k \in DOMAIN scheduler : scheduler[k].robot = r) => LastTripOf(robot[r].destination, r)

Goals == RidesGoWhereLastAsked /\ RobotsWantLast

\* Steps that schedule nothing and hire no drone: riders are moved and set down.
LEMMA MovesKeepGoals ==
    ASSUME Goals, UNCHANGED scheduler,
           \A r \in Slots : robot'[r].destination = robot[r].destination,
           \A d \in Slots : HasRider(d)' => /\ HasRider(d) /\ RiderOf(d)' = RiderOf(d)
                                            /\ drone'[d].goal = drone[d].goal
    PROVE  Goals'
<1>1. ASSUME NEW k, NEW r, LastTripOf(k, r) PROVE LastTripOf(k, r)'
  BY <1>1 DEF LastTripOf
<1>2. ASSUME NEW d \in Slots, HasRider(d)' PROVE LastTripOf(drone[d].goal, RiderOf(d))'
  <2>1. LastTripOf(drone[d].goal, RiderOf(d))
    BY <1>2 DEF Goals, RidesGoWhereLastAsked
  <2> QED
    BY <1>2, <2>1 DEF LastTripOf
<1>3. RidesGoWhereLastAsked'
  BY <1>2 DEF RidesGoWhereLastAsked
<1>4. RobotsWantLast'
  BY DEF Goals, RobotsWantLast, LastTripOf
<1> QED
  BY <1>3, <1>4 DEF Goals

\* A new trip becomes the last of a robot that waits, and of no robot that rides.
LEMMA ScheduleKeepsGoals ==
    ASSUME TypeOK, Safe, Goals, NEW n \in Names, NEW t \in Types, NEW s \in Searches,
           ScheduleTrip(n, t, s)
    PROVE  Goals'
<1>1. CASE Bookable(n) = {}
  BY <1>1, MovesKeepGoals DEF ScheduleTrip, HasRider, RiderOf
<1>2. CASE Bookable(n) # {}
  <2> DEFINE r == First(Bookable(n))
             e == [robot |-> r, type |-> t]
             S == [robot : Slots, type : Types]
             last == Len(scheduler) + 1
  <2>1. Bookable(n) \subseteq Nat /\ Bookable(n) \subseteq Slots
    BY DEF Bookable, TypeOK, Safe, Shape, Slots
  <2>2. r \in Bookable(n)
    BY <1>2, <2>1, FirstIsThere
  <2>3. r \in Slots /\ robot[r].available
    BY <2>1, <2>2 DEF Bookable
  <2>4. /\ scheduler' = Append(scheduler, e)
        /\ robot' = [robot EXCEPT ![r].destination = last, ![r].strategyName = s]
        /\ UNCHANGED drone
    BY <1>2 DEF ScheduleTrip
  <2>5. e \in S /\ e.robot = r /\ scheduler \in Seq(S) /\ last \in Nat
    BY <2>3 DEF TypeOK
  <2> HIDE DEF r, e, S
  <2>6. /\ DOMAIN scheduler' = DOMAIN scheduler \union {last}
        /\ \A k \in DOMAIN scheduler : k # last /\ k <= last /\ scheduler'[k] = scheduler[k]
        /\ scheduler'[last] = e
    BY <2>4, <2>5
  <2> HIDE DEF last
  <2>7. /\ robot'[r].destination = last
        /\ \A q \in Slots \ {r} : robot'[q].destination = robot[q].destination
    BY <2>3, <2>4, <2>5, ZenonT(40) DEF TypeOK, Robots
  <2>8. ASSUME NEW q \in Slots \ {r}, NEW k, LastTripOf(k, q) PROVE LastTripOf(k, q)'
    BY <2>5, <2>6, <2>8 DEF LastTripOf
  <2>9. ASSUME NEW k, NEW q, k = last, q = r PROVE LastTripOf(k, q)'
    BY <2>5, <2>6, <2>9 DEF LastTripOf
  <2>10. ASSUME NEW d \in Slots, HasRider(d)' PROVE LastTripOf(drone[d].goal, RiderOf(d))'
    <3>1. HasRider(d) /\ drone[d].nearestEntity \in DOMAIN scheduler /\ RiderOf(d) # r
      BY <2>3, <2>4, <2>10 DEF HasRider, Safe, Shape
    <3>2. RiderOf(d) \in Slots \ {r} /\ RiderOf(d)' = RiderOf(d)
      BY <2>4, <2>6, <3>1, RobotsAreSlots DEF RiderOf
    <3>3. LastTripOf(drone[d].goal, RiderOf(d))
      BY <3>1 DEF Goals, RidesGoWhereLastAsked
    <3> DEFINE q == RiderOf(d)
               k == drone[d].goal
    <3>4. k' = k /\ q' = q
      BY <2>4, <3>2
    <3> QED
      BY <2>5, <2>6, <3>2, <3>3, <3>4 DEF LastTripOf
  <2>11. ASSUME NEW q \in Slots, NEW k \in DOMAIN scheduler', scheduler'[k].robot = q
         PROVE  LastTripOf(robot[q].destination, q)'
    <3>1. CASE q = r
      <4>1. robot'[q].destination = last
        BY <2>7, <3>1
      <4> QED
        BY <2>5, <2>6, <3>1, <4>1 DEF LastTripOf
    <3>2. CASE q # r
      <4>1. k \in DOMAIN scheduler /\ scheduler[k].robot = q
        BY <2>5, <2>6, <2>11, <3>2
      <4>2. LastTripOf(robot[q].destination, q)
        BY <4>1 DEF Goals, RobotsWantLast
      <4>3. robot'[q].destination = robot[q].destination
        BY <2>7, <3>2
      <4> QED
        BY <2>5, <2>6, <3>2, <4>2, <4>3 DEF LastTripOf
    <3> QED
      BY <3>1, <3>2
  <2>12. RidesGoWhereLastAsked'
    BY <2>10 DEF RidesGoWhereLastAsked
  <2>13. RobotsWantLast'
    BY <2>11 DEF RobotsWantLast
  <2> QED
    BY <2>12, <2>13 DEF Goals
<1> QED
  BY <1>1, <1>2

\* A drone is hired to fly where its robot wants to go, whichever entry of the robot it took.
LEMMA HireKeepsGoals ==
    ASSUME TypeOK, Safe, Goals, NEW d \in Slots, NEW k \in Candidates(d), Hire(d, k),
           UNCHANGED scheduler
    PROVE  Goals'
<1> DEFINE r == scheduler[k].robot
<1>1. k \in DOMAIN scheduler /\ k # 0 /\ r \in Slots
  BY RobotsAreSlots DEF Candidates, TypeOK
<1>2. PICK m, n \in 1..MaxFlight : drone' = [drone EXCEPT ![d] = Hired(d, k, m, n)]
  BY DEF Hire
<1> DEFINE h == Hired(d, k, m, n)
<1>3. drone[d] \in Drones
  BY DEF TypeOK
<1>4. h.nearestEntity = k /\ h.goal = robot[r].destination
  BY <1>3 DEF Hired, Drones
<1> HIDE DEF h
<1>5. drone'[d] = h /\ \A e \in Slots \ {d} : drone'[e] = drone[e]
  BY <1>2 DEF TypeOK, h
<1>6. \A q \in Slots : robot'[q].destination = robot[q].destination
  <2>1. robot' = [robot EXCEPT ![r].available = FALSE]
    BY DEF Hire
  <2> HIDE DEF r
  <2> QED
    BY <1>1, <2>1, ZenonT(40) DEF TypeOK, Robots
<1>7. LastTripOf(robot[r].destination, r)
  BY <1>1 DEF Goals, RobotsWantLast
<1>8. ASSUME NEW e \in Slots, HasRider(e)' PROVE LastTripOf(drone[e].goal, RiderOf(e))'
  <2>1. CASE e = d
    <3>1. drone'[e].goal = robot[r].destination /\ RiderOf(e)' = r
      BY <1>4, <1>5, <2>1 DEF RiderOf
    <3> QED
      BY <1>7, <3>1 DEF LastTripOf
  <2>2. CASE e # d
    <3>1. HasRider(e) /\ RiderOf(e)' = RiderOf(e) /\ drone'[e].goal = drone[e].goal
      BY <1>5, <1>8, <2>2 DEF HasRider, RiderOf
    <3>2. LastTripOf(drone[e].goal, RiderOf(e))
      BY <3>1 DEF Goals, RidesGoWhereLastAsked
    <3> QED
      BY <3>1, <3>2 DEF LastTripOf
  <2> QED
    BY <2>1, <2>2
<1>9. RidesGoWhereLastAsked'
  BY <1>8 DEF RidesGoWhereLastAsked
<1>10. RobotsWantLast'
  BY <1>6 DEF Goals, RobotsWantLast, LastTripOf
<1> QED
  BY <1>9, <1>10 DEF Goals

\* Drone::Update moves riders and sets them down, and diverts none.
LEMMA UpdateKeepsGoals ==
    ASSUME TypeOK, Safe, Goals, Update
    PROVE  Goals'
<1>1. turn \in Slots /\ UNCHANGED scheduler
  BY DEF Update, TypeOK, Safe, Shape, Slots
<1>2. drone[turn] \in Drones
  BY <1>1 DEF TypeOK
<1>3. ASSUME UNCHANGED robot,
             /\ drone'[turn].nearestEntity = drone[turn].nearestEntity
             /\ drone'[turn].goal = drone[turn].goal,
             \A e \in Slots \ {turn} : drone'[e] = drone[e]
      PROVE  Goals'
  <2>1. \A e \in Slots : /\ HasRider(e)' <=> HasRider(e)
                         /\ RiderOf(e)' = RiderOf(e)
                         /\ drone'[e].goal = drone[e].goal
    BY <1>1, <1>3 DEF HasRider, RiderOf
  <2> QED
    BY <1>1, <1>3, <2>1, MovesKeepGoals
<1>4. CASE FlyToRobot(turn)
  <2>1. /\ UNCHANGED robot
        /\ drone'[turn].nearestEntity = drone[turn].nearestEntity
        /\ drone'[turn].goal = drone[turn].goal
        /\ \A e \in Slots \ {turn} : drone'[e] = drone[e]
    BY <1>1, <1>2, <1>4 DEF FlyToRobot, TypeOK, Drones
  <2> QED
    BY <1>3, <2>1
<1>5. CASE FlyToDestination(turn)
  <2> DEFINE rest == Tail(drone[turn].toFinalDestination)
             q == RiderOf(turn)
             moved == [drone[turn] EXCEPT !.toFinalDestination = rest]
             h == IF rest = <<>> THEN Released(moved) ELSE moved
  <2>1. drone' = [drone EXCEPT ![turn] = h]
    BY <1>5 DEF FlyToDestination
  <2>2. \/ h.nearestEntity = 0
        \/ h.nearestEntity = drone[turn].nearestEntity /\ h.goal = drone[turn].goal
    BY <1>2 DEF Drones, Released
  <2>3. UNCHANGED robot \/ robot' = [robot EXCEPT ![q] = Carried(@, rest)]
    BY <1>5 DEF FlyToDestination, RiderOf
  <2> HIDE DEF rest, q, moved, h
  <2>4. drone'[turn] = h /\ \A e \in Slots \ {turn} : drone'[e] = drone[e]
    BY <1>1, <2>1 DEF TypeOK
  <2>5. ASSUME NEW r \in Slots PROVE robot'[r].destination = robot[r].destination
    <3>1. robot[r] \in Robots /\ robot \in [Slots -> Robots]
      BY DEF TypeOK
    <3>2. robot'[r] = robot[r] \/ robot'[r] = Carried(robot[r], rest)
      BY <2>3, <3>1
    <3> QED
      BY <3>1, <3>2 DEF Carried, Robots
  <2>6. ASSUME NEW e \in Slots, HasRider(e)'
        PROVE  HasRider(e) /\ RiderOf(e)' = RiderOf(e) /\ drone'[e].goal = drone[e].goal
    BY <1>1, <2>2, <2>4, <2>6 DEF HasRider, RiderOf
  <2> QED
    BY <1>1, <2>5, <2>6, MovesKeepGoals
<1>6. CASE UNCHANGED <<drone, robot>>
  BY <1>1, <1>3, <1>6
<1> QED
  BY <1>4, <1>5, <1>6 DEF Update

LEMMA GoalsStep == IInv /\ Goals /\ [Next]_vars => Goals'
<1> SUFFICES ASSUME IInv, Goals, [Next]_vars PROVE Goals'
  OBVIOUS
<1>1. TypeOK /\ Safe
  BY DEF IInv, Safe
<1>2. CASE UNCHANGED <<scheduler, drone, robot>>
  BY <1>2, MovesKeepGoals DEF HasRider, RiderOf
<1>3. CASE \/ \E p \in Viewers : LoadScene(p)
           \/ \E p \in Schedulers :
                 \/ \E n \in Names, t \in Types, s \in Searches : Schedule(p, n, t, s)
                 \/ AddHuman(p)
           \/ EndUpdate
           \/ UNCHANGED vars
  BY <1>2, <1>3 DEF LoadScene, Schedule, AddHuman, Asked, EndUpdate, vars
<1>4. ASSUME NEW p \in Pages, Receive(p) PROVE Goals'
  <2> DEFINE c == Head(inbox[p])
  <2>1. c \in Commands
    BY <1>1, <1>4 DEF TypeOK, Receive
  <2>2. CASE c.cmd = "CreateEntity" /\ CreateEntity(c.kind, c.name)
    BY <1>2, <2>2 DEF CreateEntity
  <2>3. CASE c.cmd = "ScheduleTrip" /\ ScheduleTrip(c.name, c.type, c.search)
    <3>1. c.name \in Names /\ c.type \in Types /\ c.search \in Searches
      BY <2>1, <2>3 DEF Commands
    <3> HIDE DEF c
    <3> QED
      BY <1>1, <2>3, <3>1, ScheduleKeepsGoals
  <2> QED
    BY <1>4, <2>2, <2>3 DEF Receive
<1>5. CASE Handle
  <2> DEFINE d == turn + 1
  <2>1. d \in DOMAIN entities /\ d \in Slots /\ UNCHANGED scheduler
    BY <1>1, <1>5 DEF Handle, TypeOK, Safe, Shape, Slots
  <2>2. CASE drone[d].available /\ Candidates(d) # {} /\ Hire(d, First(Candidates(d)))
    <3>1. Candidates(d) \subseteq Nat
      BY <1>1 DEF Candidates, TypeOK
    <3>2. First(Candidates(d)) \in Candidates(d)
      BY <2>2, <3>1, FirstIsThere
    <3> HIDE DEF d
    <3> QED
      BY <1>1, <2>1, <2>2, <3>2, HireKeepsGoals
  <2>3. CASE UNCHANGED <<drone, robot>>
    BY <1>2, <2>1, <2>3
  <2> QED
    BY <1>5, <2>2, <2>3 DEF Handle
<1>6. CASE Update
  BY <1>1, <1>6, UpdateKeepsGoals
<1> QED
  BY <1>3, <1>4, <1>5, <1>6 DEF Next, Tick

\* However often a robot is scheduled while it waits, and whichever of its entries a drone
\* takes: the drone flies where the last of its trips ends.
THEOREM LastAsked == Spec => []RidesGoWhereLastAsked
<1>1. Init => Goals
  <2> SUFFICES ASSUME Init PROVE Goals
    OBVIOUS
  <2>1. \A d \in Slots : ~HasRider(d)
    BY DEF Init, HasRider, NewDrone
  <2>2. \A r : ~\E k \in DOMAIN scheduler : scheduler[k].robot = r
    BY DEF Init
  <2> QED
    BY <2>1, <2>2 DEF Goals, RidesGoWhereLastAsked, RobotsWantLast
<1>2. IInv /\ Goals /\ [Next]_vars => Goals'
  BY GoalsStep
<1>3. Goals => RidesGoWhereLastAsked
  BY DEF Goals
<1> QED
  BY <1>1, <1>2, <1>3, Invariance, PTL DEF Spec

-----------------------------------------------------------------------------
(* The simulation implements RideHailing.                                  *)

Trips == [r \in Slots |-> TripOf(r)]

InScheduler(r) == \E k \in DOMAIN scheduler : scheduler[k].robot = r

Rides(r) == \E d \in Slots : HasRider(d) /\ RiderOf(d) = r

\* TripOf by what it depends on.
LEMMA TripIs ==
    ASSUME NEW r
    PROVE  /\ ~InScheduler(r) => TripOf(r) = "none"
           /\ InScheduler(r) /\ robot[r].available => TripOf(r) = "waiting"
           /\ InScheduler(r) /\ ~robot[r].available /\ Rides(r) => TripOf(r) = "riding"
           /\ InScheduler(r) /\ ~robot[r].available /\ ~Rides(r) => TripOf(r) = "done"
BY DEF TripOf, InScheduler, Rides

\* A step that leaves what one robot's trip depends on leaves its trip.
LEMMA SameTrip ==
    ASSUME NEW r, InScheduler(r)' <=> InScheduler(r), Rides(r)' <=> Rides(r),
           robot'[r].available <=> robot[r].available
    PROVE  TripOf(r)' = TripOf(r)
<1>1. CASE ~InScheduler(r)
  BY <1>1 DEF TripOf, InScheduler
<1>2. CASE InScheduler(r)
  BY <1>2 DEF TripOf, InScheduler, Rides
<1> QED
  BY <1>1, <1>2

\* A step that changes the trip of one robot, and how.
LEMMA OneTrip ==
    ASSUME NEW r \in Slots, \A q \in Slots \ {r} : TripOf(q)' = TripOf(q),
           \/ TripOf(r)' = TripOf(r)
           \/ TripOf(r) = "none" /\ TripOf(r)' = "waiting"
           \/ TripOf(r) = "waiting" /\ TripOf(r)' = "riding"
           \/ TripOf(r) = "riding" /\ TripOf(r)' = "done"
    PROVE  [Hires!Next]_Trips
<1>1. CASE TripOf(r)' = TripOf(r)
  <2>1. \A q \in Slots : TripOf(q)' = TripOf(q)
    BY <1>1
  <2>2. Trips' = Trips
    BY <2>1 DEF Trips
  <2> QED
    BY <2>2
<1>2. Trips[r] = TripOf(r) /\ Trips' = [Trips EXCEPT ![r] = TripOf(r)']
  <2>1. Trips' = [q \in Slots |-> IF q = r THEN TripOf(r)' ELSE TripOf(q)]
    BY DEF Trips
  <2> QED
    BY <2>1 DEF Trips
<1>3. CASE TripOf(r) = "none" /\ TripOf(r)' = "waiting"
  <2>1. Hires!Request(r)
    BY <1>2, <1>3 DEF Hires!Request, Hires!Advance, Trips
  <2> QED
    BY <2>1 DEF Hires!Next
<1>4. CASE TripOf(r) = "waiting" /\ TripOf(r)' = "riding"
  <2>1. Hires!TakeUp(r)
    BY <1>2, <1>4 DEF Hires!TakeUp, Hires!Advance, Trips
  <2> QED
    BY <2>1 DEF Hires!Next
<1>5. CASE TripOf(r) = "riding" /\ TripOf(r)' = "done"
  <2>1. Hires!Deliver(r)
    BY <1>2, <1>5 DEF Hires!Deliver, Hires!Advance, Trips
  <2> QED
    BY <2>1 DEF Hires!Next
<1> QED
  BY <1>1, <1>3, <1>4, <1>5

LEMMA BookedMaps ==
    ASSUME TypeOK, Safe, NEW t \in Types, Booked(t)
    PROVE  [Hires!Next]_Trips
<1>1. \A q \in Slots : (Rides(q)' <=> Rides(q)) /\ robot'[q].available = robot[q].available
  <2>1. ASSUME NEW q \in Slots, NEW d \in Slots
        PROVE  (HasRider(d)' /\ RiderOf(d)' = q) <=> (HasRider(d) /\ RiderOf(d) = q)
    <3>1. HasRider(d)' <=> HasRider(d)
      BY DEF Booked
    <3>2. CASE HasRider(d)
      <4>1. RiderOf(d)' = RiderOf(d)
        BY <3>2 DEF Booked
      <4> QED
        BY <3>1, <3>2, <4>1, Zenon
    <3> QED
      BY <3>1, <3>2, Zenon
  <2>2. \A q \in Slots : Rides(q)' <=> Rides(q)
    BY <2>1 DEF Rides
  <2> QED
    BY <2>2 DEF Booked
<1>2. CASE UNCHANGED scheduler
  <2>1. \A q \in Slots : InScheduler(q)' <=> InScheduler(q)
    BY <1>2 DEF InScheduler
  <2>2. \A q \in Slots : TripOf(q)' = TripOf(q)
    BY <1>1, <2>1, SameTrip
  <2>3. Trips' = Trips
    BY <2>2 DEF Trips
  <2> QED
    BY <2>3
<1>3. ASSUME NEW r \in Slots, robot[r].available,
             scheduler' = Append(scheduler, [robot |-> r, type |-> t])
      PROVE  [Hires!Next]_Trips
  <2> DEFINE e == [robot |-> r, type |-> t]
             S == [robot : Slots, type : Types]
  <2>1. scheduler \in Seq(S) /\ e \in S /\ e.robot = r
    BY DEF TypeOK
  <2>2. scheduler' = Append(scheduler, e)
    BY <1>3
  <2> HIDE DEF e, S
  <2>3. /\ \A k \in DOMAIN scheduler : k \in DOMAIN scheduler' /\ scheduler'[k] = scheduler[k]
        /\ \A k \in DOMAIN scheduler' : k \in DOMAIN scheduler \/ scheduler'[k] = e
        /\ \E k \in DOMAIN scheduler' : scheduler'[k] = e
    <3>1. Len(scheduler) \in Nat /\ DOMAIN scheduler = 1..Len(scheduler)
      BY <2>1
    <3>2. DOMAIN scheduler' = 1..(Len(scheduler) + 1)
      BY <2>1, <2>2
    <3>3. scheduler'[Len(scheduler) + 1] = e
      BY <2>1, <2>2
    <3>4. \A k \in 1..Len(scheduler) : scheduler'[k] = scheduler[k]
      BY <2>1, <2>2
    <3>5. ASSUME NEW k \in 1..(Len(scheduler) + 1)
          PROVE  k \in 1..Len(scheduler) \/ k = Len(scheduler) + 1
      BY <3>1
    <3> QED
      BY <3>1, <3>2, <3>3, <3>4, <3>5
  <2>4. \A q \in Slots \ {r} : InScheduler(q)' <=> InScheduler(q)
    BY <2>1, <2>3 DEF InScheduler
  <2>5. InScheduler(r)'
    BY <2>1, <2>3 DEF InScheduler
  <2>6. \A q \in Slots \ {r} : TripOf(q)' = TripOf(q)
    BY <1>1, <2>4, SameTrip
  <2>7. TripOf(r)' = "waiting"
    BY <1>1, <1>3, <2>5 DEF TripOf, InScheduler
  <2>8. TripOf(r) \in {"none", "waiting"}
    BY <1>3, TripIs
  <2> QED
    BY <2>6, <2>7, <2>8, OneTrip
<1> QED
  BY <1>2, <1>3 DEF Booked

\* A robot that is hired was waiting, and rides.
LEMMA HireMaps ==
    ASSUME TypeOK, Safe, NEW d \in Slots, drone[d].available,
           NEW k \in Candidates(d), Hire(d, k), UNCHANGED scheduler
    PROVE  [Hires!Next]_Trips
<1>1. PICK r \in Slots : /\ k \in DOMAIN scheduler /\ k # 0
                        /\ r = scheduler[k].robot /\ robot[r].available
  <2>1. k \in DOMAIN scheduler
    BY DEF Candidates
  <2> QED
    BY <2>1, RobotsAreSlots DEF Candidates, MayRide, TypeOK
<1>2. PICK m, n \in 1..MaxFlight : drone' = [drone EXCEPT ![d] = Hired(d, k, m, n)]
  BY DEF Hire
<1>3. /\ drone'[d].nearestEntity = k
      /\ \A e \in Slots \ {d} : drone'[e] = drone[e]
  <2>1. Hired(d, k, m, n).nearestEntity = k
    BY DEF Hired, TypeOK, Drones
  <2> QED
    BY <1>2, <2>1 DEF TypeOK
<1>4. /\ ~robot'[r].available
      /\ \A q \in Slots \ {r} : robot'[q].available = robot[q].available
  <2>1. robot' = [robot EXCEPT ![r].available = FALSE]
    BY <1>1 DEF Hire
  <2>2. robot \in [Slots -> Robots]
    BY DEF TypeOK
  <2>3. \A q \in Slots \ {r} : robot'[q] = robot[q]
    BY <2>1, <2>2
  <2>4. robot[r] \in Robots /\ robot'[r] = [robot[r] EXCEPT !.available = FALSE]
    BY <2>1, <2>2
  <2>5. ~robot'[r].available
    BY <2>4 DEF Robots
  <2> QED
    BY <2>3, <2>5
<1>5. /\ HasRider(d)' /\ RiderOf(d)' = r /\ ~HasRider(d)
      /\ \A e \in Slots \ {d} : (HasRider(e)' <=> HasRider(e)) /\ RiderOf(e)' = RiderOf(e)
  BY <1>1, <1>3 DEF HasRider, RiderOf, Safe, BusyDronesGetFree
<1>6. InScheduler(r) /\ \A q : InScheduler(q)' <=> InScheduler(q)
  BY <1>1 DEF InScheduler
<1>7. \A q \in Slots \ {r} : Rides(q)' <=> Rides(q)
  BY <1>5 DEF Rides
<1>8. \A q \in Slots \ {r} : TripOf(q)' = TripOf(q)
  BY <1>4, <1>6, <1>7, SameTrip
<1>9. TripOf(r) = "waiting"
  BY <1>1, <1>6, TripIs
<1>10. TripOf(r)' = "riding"
  <2>1. InScheduler(r)' /\ Rides(r)'
    BY <1>5, <1>6 DEF Rides
  <2> QED
    BY <1>4, <2>1 DEF TripOf, InScheduler, Rides
<1> QED
  BY <1>1, <1>8, <1>9, <1>10, OneTrip

\* A call of Drone::Update ends at most the ride of that drone's robot.
LEMMA FlyToDestinationMaps ==
    ASSUME TypeOK, Safe, NEW d \in Slots, drone[d].toRobot = <<>>,
           drone[d].toFinalDestination # <<>>, FlyToDestination(d), UNCHANGED scheduler
    PROVE  [Hires!Next]_Trips
<1> DEFINE rest == Tail(drone[d].toFinalDestination)
           moved == [drone[d] EXCEPT !.toFinalDestination = rest]
           h == IF rest = <<>> THEN Released(moved) ELSE moved
<1>1. drone[d] \in Drones /\ rest \in Seq(Moves)
  BY DEF TypeOK, Drones
<1>2. ~drone[d].available /\ HasRider(d) /\ drone[d].pickedUp
  BY DEF Safe, BusyDronesGetFree
<1>3. PICK r \in Slots : r = RiderOf(d) /\ ~robot[r].available
  <2>1. drone[d].nearestEntity \in DOMAIN scheduler /\ ~robot[RiderOf(d)].available
    BY <1>2 DEF Safe, Shape
  <2> QED
    BY <2>1, RobotsAreSlots DEF RiderOf
<1>4. drone' = [drone EXCEPT ![d] = h] /\ robot' = [robot EXCEPT ![r] = Carried(@, rest)]
  BY <1>2, <1>3 DEF FlyToDestination, HasRider, RiderOf
<1> HIDE DEF rest
<1>5. /\ rest = <<>> => h.nearestEntity = 0
      /\ rest # <<>> => h.nearestEntity = drone[d].nearestEntity
  BY <1>1 DEF Drones, Released
<1> HIDE DEF h, moved
<1>6. drone'[d] = h /\ \A e \in Slots \ {d} : drone'[e] = drone[e]
  BY <1>4 DEF TypeOK
<1>7. \A q \in Slots : robot'[q].available = robot[q].available
  <2> DEFINE c == Carried(robot[r], rest)
  <2>1. robot[r] \in Robots
    BY DEF TypeOK
  <2>2. c.available = robot[r].available
    BY <2>1 DEF Carried, Robots
  <2>3. robot' = [robot EXCEPT ![r] = c]
    BY <1>4
  <2> HIDE DEF c
  <2> QED
    BY <2>2, <2>3 DEF TypeOK
<1>8. /\ \A e \in Slots \ {d} : (HasRider(e)' <=> HasRider(e)) /\ RiderOf(e)' = RiderOf(e)
      /\ HasRider(d)' <=> rest # <<>>
      /\ rest # <<>> => RiderOf(d)' = r
  BY <1>2, <1>3, <1>5, <1>6 DEF HasRider, RiderOf
<1>9. InScheduler(r) /\ \A q : InScheduler(q)' <=> InScheduler(q)
  BY <1>2, <1>3 DEF InScheduler, Safe, Shape, RiderOf
<1>10. Rides(r) /\ TripOf(r) = "riding"
  <2>1. Rides(r)
    BY <1>2, <1>3 DEF Rides
  <2> QED
    BY <1>3, <1>9, <2>1, TripIs
<1>11. \A q \in Slots \ {r} : Rides(q)' <=> Rides(q)
  BY <1>3, <1>8 DEF Rides
<1>12. \A q \in Slots \ {r} : TripOf(q)' = TripOf(q)
  BY <1>7, <1>9, <1>11, SameTrip
<1>13. TripOf(r)' \in {"riding", "done"}
  BY <1>3, <1>7, <1>9 DEF TripOf, InScheduler
<1> QED
  BY <1>10, <1>12, <1>13, OneTrip

\* A step that leaves riders and scheduler alone is a stutter of RideHailing.
LEMMA QuietMaps ==
    ASSUME UNCHANGED scheduler, \A r \in Slots : robot'[r].available = robot[r].available,
           \A d \in Slots : drone'[d].nearestEntity = drone[d].nearestEntity
    PROVE  [Hires!Next]_Trips
<1>1. \A d \in Slots : (HasRider(d)' <=> HasRider(d)) /\ RiderOf(d)' = RiderOf(d)
  BY DEF HasRider, RiderOf
<1>2. \A q \in Slots : Rides(q)' <=> Rides(q)
  BY <1>1 DEF Rides
<1>3. \A q \in Slots : InScheduler(q)' <=> InScheduler(q)
  BY DEF InScheduler
<1>4. \A q \in Slots : TripOf(q)' = TripOf(q)
  BY <1>2, <1>3, SameTrip
<1>5. Trips' = Trips
  BY <1>4 DEF Trips
<1> QED
  BY <1>5

LEMMA StepMaps == IInv /\ [Next]_vars => [Hires!Next]_Trips
<1> SUFFICES ASSUME IInv, [Next]_vars PROVE [Hires!Next]_Trips
  OBVIOUS
<1>1. TypeOK /\ Safe
  BY DEF IInv, Safe
<1>2. CASE UNCHANGED <<scheduler, drone, robot>>
  BY <1>2, QuietMaps
<1>3. CASE \/ \E p \in Viewers : LoadScene(p)
           \/ \E p \in Schedulers :
                 \/ \E n \in Names, t \in Types, s \in Searches : Schedule(p, n, t, s)
                 \/ AddHuman(p)
           \/ EndUpdate
           \/ UNCHANGED vars
  BY <1>2, <1>3 DEF LoadScene, Schedule, AddHuman, Asked, EndUpdate, vars
<1>4. ASSUME NEW p \in Pages, Receive(p) PROVE [Hires!Next]_Trips
  <2> DEFINE c == Head(inbox[p])
  <2>1. c \in Commands
    BY <1>1, <1>4 DEF TypeOK, Receive
  <2>2. CASE c.cmd = "CreateEntity" /\ CreateEntity(c.kind, c.name)
    BY <1>2, <2>2 DEF CreateEntity
  <2>3. CASE c.cmd = "ScheduleTrip" /\ ScheduleTrip(c.name, c.type, c.search)
    <3>1. c.name \in Names /\ c.type \in Types /\ c.search \in Searches
      BY <2>1, <2>3 DEF Commands
    <3> HIDE DEF c
    <3>2. Booked(c.type)
      BY <1>1, <2>3, <3>1, ScheduleKeeps
    <3> QED
      BY <1>1, <3>1, <3>2, BookedMaps
  <2> QED
    BY <1>4, <2>2, <2>3 DEF Receive
<1>5. CASE Handle
  <2> DEFINE d == turn + 1
  <2>1. d \in DOMAIN entities /\ d \in Slots /\ UNCHANGED scheduler
    BY <1>1, <1>5 DEF Handle, TypeOK, Safe, Shape, Slots
  <2>2. CASE drone[d].available /\ Candidates(d) # {} /\ Hire(d, First(Candidates(d)))
    <3>1. Candidates(d) \subseteq Nat
      BY <1>1 DEF Candidates, TypeOK
    <3>2. First(Candidates(d)) \in Candidates(d)
      BY <2>2, <3>1, FirstIsThere
    <3> HIDE DEF d
    <3> QED
      BY <1>1, <2>1, <2>2, <3>2, HireMaps
  <2>3. CASE UNCHANGED <<drone, robot>>
    BY <1>2, <2>1, <2>3
  <2> QED
    BY <1>5, <2>2, <2>3 DEF Handle
<1>6. CASE Update
  <2>1. turn \in Slots /\ UNCHANGED scheduler
    BY <1>1, <1>6 DEF Update, TypeOK, Safe, Shape, Slots
  <2>2. CASE drone[turn].toRobot # <<>> /\ FlyToRobot(turn)
    <3>1. \A e \in Slots : drone'[e].nearestEntity = drone[e].nearestEntity
      BY <1>1, <2>1, <2>2 DEF FlyToRobot, TypeOK, Drones
    <3> QED
      BY <2>1, <2>2, <3>1, QuietMaps DEF FlyToRobot
  <2>3. CASE /\ drone[turn].toRobot = <<>>
             /\ drone[turn].toFinalDestination # <<>>
             /\ FlyToDestination(turn)
    BY <1>1, <2>1, <2>3, FlyToDestinationMaps
  <2>4. CASE UNCHANGED <<drone, robot>>
    BY <1>2, <2>1, <2>4
  <2> QED
    BY <1>6, <2>2, <2>3, <2>4 DEF Update
<1> QED
  BY <1>3, <1>4, <1>5, <1>6 DEF Next, Tick

\* However trips and Updates interleave, a robot's trip is asked for, taken up
\* once and ended: the safety part of ImplementsRideHailing.
THEOREM TripsAreRides == Spec => Hires!Safety
<1>1. Init => Hires!Init
  <2> SUFFICES ASSUME Init PROVE Trips = [r \in Slots |-> "none"]
    BY DEF Hires!Init, Trips
  <2>1. \A r \in Slots : TripOf(r) = "none"
    BY DEF Init, TripOf
  <2> QED
    BY <2>1 DEF Trips
<1>2. IInv /\ [Next]_vars => [Hires!Next]_Trips
  BY StepMaps
<1> QED
  BY <1>1, <1>2, Invariance, PTL DEF Spec, Hires!Safety, Trips
=============================================================================
