-------------------------- MODULE TransitPagesProofs --------------------------
(***************************************************************************)
(* Proofs about TransitPages: a page and its session agree on what was     *)
(* asked, what was answered and which entities there are, on no page does  *)
(* an entity go back in time, and the model's time is the sum of the       *)
(* sessions'.                                                              *)
(***************************************************************************)
EXTENDS TransitPages, FiniteSetTheorems, SequenceTheorems, TLAPS

NumberedCommands == [number : Nat, details : Commands]

Requested == [data : NumberedCommands, id : Nat]

Messages ==
    [event : {"answer"}, id : Nat] \union
    [event : {"AddEntity"}, id : Nat] \union
    [event : {"TripScheduled"}] \union
    [event : {"UpdateEntity"}, id : Nat, at : Nat]

\* For some entities, what simulated was.
Positions == UNION {[E -> Nat] : E \in SUBSET Nat}

Types ==
    /\ clock \in 0..MaxClock
    /\ simulated \in Nat
    /\ born \in Seq(0..simulated)
    /\ session \in [Pages -> {"none", "open", "ended"}]
    /\ page \in [Pages -> {"connecting", "connected", "gone"}]
    /\ start \in [Pages -> Nat] /\ time \in [Pages -> Nat] /\ joined \in [Pages -> Nat]
    /\ executed \in [Pages -> Seq(Nat)]
    /\ issued \in [Pages -> Nat] /\ requestId \in [Pages -> Nat]
    /\ waiting \in [Pages -> Seq(NumberedCommands)]
    /\ callbacks \in [Pages -> SUBSET Nat]
    /\ up \in [Pages -> Seq(Requested)]
    /\ down \in [Pages -> Seq(Messages)]
    /\ loading \in [Pages -> SUBSET Nat] /\ failed \in [Pages -> SUBSET Nat]
    /\ shown \in [Pages -> Positions]

(***************************************************************************)
(* What holds of each page.                                                *)
(***************************************************************************)

\* Its session's clock, and what there is before it has one.
Clocked(p) ==
    /\ start[p] <= clock /\ time[p] <= clock - start[p]
    /\ joined[p] <= Len(born)
    /\ session[p] = "none" =>
          /\ time[p] = 0 /\ executed[p] = <<>> /\ down[p] = <<>>
          /\ page[p] # "connected"
    /\ session[p] = "ended" => page[p] = "gone"

\* The numbers of its commands and the ids of its requests go on from those that were
\* executed, through those in the socket, to those that wait.
Numbered(p) ==
    /\ \A i \in 1..Len(executed[p]) : executed[p][i] = i
    /\ \A i \in 1..Len(up[p]) :
          /\ up[p][i].data.number = Len(executed[p]) + i
          /\ up[p][i].id = Len(executed[p]) + i - 1
    /\ \A i \in 1..Len(waiting[p]) : waiting[p][i].number = i
    /\ Len(executed[p]) + Len(up[p]) <= requestId[p]
    /\ requestId[p] <= issued[p]
    /\ page[p] = "connecting" => requestId[p] = 0 /\ issued[p] = Len(waiting[p])
    /\ page[p] = "connected" =>
          Len(executed[p]) + Len(up[p]) = requestId[p] /\ requestId[p] = issued[p]
    /\ page[p] # "connecting" => waiting[p] = <<>>

\* Answers arrive in the order of the commands that were executed, and have callbacks.
Answered(p) ==
    /\ \A i \in Answers(p) : down[p][i].id < Len(executed[p])
    /\ \A i, j \in Answers(p) : i < j => down[p][i].id < down[p][j].id
    /\ page[p] = "connected" =>
          callbacks[p] = {down[p][i].id : i \in Answers(p)} \union
                         {up[p][i].id : i \in 1..Len(up[p])}
    /\ page[p] # "connected" => callbacks[p] = {}

Adds(p) == {i \in 1..Len(down[p]) : down[p][i].event = "AddEntity"}

Updates(p) == {i \in 1..Len(down[p]) : down[p][i].event = "UpdateEntity"}

Known(p) == loading[p] \union DOMAIN shown[p] \union failed[p]

\* Entities are announced in the order of their ids, each before its positions.
Told(p) ==
    /\ page[p] # "connected" => Known(p) = {}
    /\ page[p] = "gone" => down[p] = <<>>
    /\ Known(p) \subseteq 1..Len(born)
    /\ loading[p] \intersect DOMAIN shown[p] = {}
    /\ \A i \in Adds(p) : down[p][i].id \in 1..Len(born)
    /\ \A i \in Adds(p) : \A e \in Known(p) : e < down[p][i].id
    /\ \A i, j \in Adds(p) : i < j => down[p][i].id < down[p][j].id
    /\ \A i \in Updates(p) : \A j \in Adds(p) : i < j => down[p][i].id < down[p][j].id
    /\ Listens(p) =>
          {down[p][i].id : i \in Adds(p)} \union Known(p) = (joined[p] + 1)..Len(born)

\* Positions arrive in the order of time, none from before the entity was created or
\* from before the one that is shown.
Placed(p) ==
    /\ \A i \in Updates(p) :
          /\ down[p][i].id \in 1..Len(born)
          /\ born[down[p][i].id] <= down[p][i].at
          /\ down[p][i].at <= simulated
          /\ down[p][i].id \in DOMAIN shown[p] => shown[p][down[p][i].id] <= down[p][i].at
    /\ \A i, j \in Updates(p) : i < j => down[p][i].at <= down[p][j].at
    /\ \A e \in DOMAIN shown[p] : shown[p][e] \in 0..simulated

PageInv(p) == Clocked(p) /\ Numbered(p) /\ Answered(p) /\ Told(p) /\ Placed(p)

Inv == Types /\ \A p \in Pages : PageInv(p)

(***************************************************************************)
(* Messages that are added and taken.                                      *)
(***************************************************************************)

LEMMA Joined ==
    ASSUME NEW S, NEW s \in Seq(S), NEW t \in Seq(S)
    PROVE  /\ s \o t \in Seq(S)
           /\ Len(s \o t) = Len(s) + Len(t)
           /\ \A i \in 1..Len(s) : (s \o t)[i] = s[i]
           /\ \A i \in 1..Len(t) : (s \o t)[Len(s) + i] = t[i]
           /\ \A i \in 1..(Len(s) + Len(t)) :
                 i \in 1..Len(s) \/ (i - Len(s) \in 1..Len(t) /\ i = Len(s) + (i - Len(s)))
<1>1. Len(s) \in Nat /\ Len(t) \in Nat
  OBVIOUS
<1>2. /\ s \o t \in Seq(S)
      /\ Len(s \o t) = Len(s) + Len(t)
      /\ \A i \in 1..Len(s) : (s \o t)[i] = s[i]
  OBVIOUS
<1>3. ASSUME NEW i \in 1..Len(t) PROVE (s \o t)[Len(s) + i] = t[i]
  BY <1>1
<1> QED
  BY <1>1, <1>2, <1>3

LEMMA Taken ==
    ASSUME NEW S, NEW s \in Seq(S), s # <<>>
    PROVE  /\ Head(s) = s[1] /\ s[1] \in S
           /\ Tail(s) \in Seq(S)
           /\ Len(s) \in Nat \ {0}
           /\ Len(Tail(s)) = Len(s) - 1
           /\ \A i \in 1..(Len(s) - 1) : Tail(s)[i] = s[i + 1] /\ i + 1 \in 1..Len(s)
OBVIOUS

\* The messages of s and then those of t.
Join(s, t) == s \o t

\* The places of an event in s.
At(s, e) == {i \in 1..Len(s) : s[i].event = e}

\* The events there are when t is appended.
LEMMA Places ==
    ASSUME NEW s \in Seq(Messages), NEW t \in Seq(Messages), NEW e
    PROVE  LET u == Join(s, t) IN
           /\ \A i \in 1..Len(s) : u[i] = s[i]
           /\ \A k \in 1..Len(t) : u[Len(s) + k] = t[k]
           /\ At(s, e) \subseteq 1..Len(s)
           /\ At(s, e) \subseteq At(u, e)
           /\ \A i \in At(u, e) :
                 i \in At(s, e) \/ \E k \in 1..Len(t) : i = Len(s) + k /\ t[k].event = e
           /\ \A k \in 1..Len(t) : t[k].event = e => Len(s) + k \in At(u, e)
           /\ Len(s) \in Nat
<1> DEFINE u == Join(s, t)
<1>1. /\ u \in Seq(Messages) /\ Len(u) = Len(s) + Len(t)
      /\ Len(s) \in Nat /\ Len(t) \in Nat
      /\ \A i \in 1..Len(s) : u[i] = s[i]
      /\ \A i \in 1..Len(t) : u[Len(s) + i] = t[i]
      /\ \A i \in 1..(Len(s) + Len(t)) :
            i \in 1..Len(s) \/ (i - Len(s) \in 1..Len(t) /\ i = Len(s) + (i - Len(s)))
  BY Joined DEF Join
<1> HIDE DEF u
<1>2. /\ \A i \in 1..Len(s) : i \in 1..Len(u) /\ u[i] = s[i]
      /\ \A k \in 1..Len(t) : Len(s) + k \in 1..Len(u) /\ u[Len(s) + k] = t[k]
      /\ \A i \in 1..Len(u) : i \in 1..Len(s) \/ \E k \in 1..Len(t) : i = Len(s) + k
  <2>1. \A i \in 1..Len(s) : i \in 1..Len(u) /\ u[i] = s[i]
    BY <1>1
  <2>2. \A k \in 1..Len(t) : Len(s) + k \in 1..Len(u) /\ u[Len(s) + k] = t[k]
    BY <1>1
  <2>3. \A i \in 1..Len(u) : i \in 1..Len(s) \/ \E k \in 1..Len(t) : i = Len(s) + k
    BY <1>1
  <2> QED
    BY <2>1, <2>2, <2>3
<1>3. At(s, e) \subseteq 1..Len(s) /\ At(s, e) \subseteq At(u, e)
  BY <1>2 DEF At
<1>4. ASSUME NEW i \in At(u, e)
      PROVE  i \in At(s, e) \/ \E k \in 1..Len(t) : i = Len(s) + k /\ t[k].event = e
  <2>1. i \in 1..Len(u) /\ u[i].event = e
    BY DEF At
  <2>2. CASE i \in 1..Len(s)
    BY <1>2, <2>1, <2>2 DEF At
  <2>3. CASE \E k \in 1..Len(t) : i = Len(s) + k
    <3>1. PICK k \in 1..Len(t) : i = Len(s) + k
      BY <2>3
    <3>2. u[i] = t[k]
      BY <1>2, <3>1
    <3> QED
      BY <2>1, <3>1, <3>2
  <2> QED
    BY <1>2, <2>1, <2>2, <2>3
<1>5. \A k \in 1..Len(t) : t[k].event = e => Len(s) + k \in At(u, e)
  BY <1>2 DEF At
<1> QED
  BY <1>1, <1>3, <1>4, <1>5 DEF u

\* The events that t does not have are where they were.
LEMMA PlacesStay ==
    ASSUME NEW s \in Seq(Messages), NEW t \in Seq(Messages), NEW e,
           \A k \in 1..Len(t) : t[k].event # e
    PROVE  At(Join(s, t), e) = At(s, e)
<1>1. At(s, e) \subseteq At(Join(s, t), e)
  BY Places
<1>2. \A i \in At(Join(s, t), e) : i \in At(s, e) \/ \E k \in 1..Len(t) : t[k].event = e
  BY Places
<1>3. \A i \in At(Join(s, t), e) : i \in At(s, e)
  BY <1>2
<1> QED
  BY <1>1, <1>3

LEMMA JoinIsSeq ==
    ASSUME NEW s \in Seq(Messages), NEW t \in Seq(Messages)
    PROVE  Join(s, t) \in Seq(Messages)
BY DEF Join

LEMMA PlacesOf ==
    ASSUME NEW p, down[p] \in Seq(Messages)
    PROVE  /\ Answers(p) = At(down[p], "answer")
           /\ Adds(p) = At(down[p], "AddEntity")
           /\ Updates(p) = At(down[p], "UpdateEntity")
BY DEF Answers, Adds, Updates, At

\* The messages after the first.
Rest(s) == Tail(s)

\* When the first message is taken, the others move up.
LEMMA PlacesTaken ==
    ASSUME NEW s \in Seq(Messages), s # <<>>, NEW e
    PROVE  /\ Rest(s) \in Seq(Messages)
           /\ Head(s) = s[1] /\ s[1] \in Messages
           /\ 1 \in At(s, e) <=> s[1].event = e
           /\ \A i \in At(Rest(s), e) :
                 i \in Nat \ {0} /\ i + 1 \in At(s, e) /\ Rest(s)[i] = s[i + 1]
           /\ \A i \in At(s, e) :
                 i \in Nat /\ (i = 1 \/ (i - 1 \in At(Rest(s), e) /\ Rest(s)[i - 1] = s[i]))
<1> DEFINE u == Rest(s)
<1>1. /\ u \in Seq(Messages) /\ Len(s) \in Nat \ {0} /\ Len(u) = Len(s) - 1
      /\ \A i \in 1..(Len(s) - 1) : u[i] = s[i + 1] /\ i + 1 \in 1..Len(s)
      /\ Head(s) = s[1] /\ s[1] \in Messages
  BY Taken DEF Rest
<1> HIDE DEF u
<1>2. \A i \in 1..Len(u) : u[i] = s[i + 1] /\ i + 1 \in 1..Len(s) /\ i \in Nat \ {0}
  BY <1>1
<1>3. \A i \in 1..Len(s) : i \in Nat /\ (i = 1 \/ (i - 1 \in 1..Len(u) /\ u[i - 1] = s[i]))
  BY <1>1
<1>4. \A i \in At(u, e) : i \in Nat \ {0} /\ i + 1 \in At(s, e) /\ u[i] = s[i + 1]
  BY <1>2 DEF At
<1>5. \A i \in At(s, e) : i \in Nat /\ (i = 1 \/ (i - 1 \in At(u, e) /\ u[i - 1] = s[i]))
  BY <1>3 DEF At
<1>6. 1 \in At(s, e) <=> s[1].event = e
  BY <1>1 DEF At
<1> QED
  BY <1>1, <1>4, <1>5, <1>6 DEF u

(***************************************************************************)
(* What a step does not touch stays as it was.                             *)
(***************************************************************************)

LEMMA ClockedKept ==
    ASSUME NEW p, Clocked(p), clock \in Nat, clock' \in Nat, clock <= clock',
           start[p] \in Nat, time[p] \in Nat, joined[p] \in Nat,
           Len(born) \in Nat, Len(born') \in Nat, Len(born) <= Len(born'),
           start'[p] = start[p], time'[p] = time[p], joined'[p] = joined[p],
           session'[p] = session[p], page'[p] = page[p],
           executed'[p] = executed[p], down'[p] = down[p]
    PROVE  Clocked(p)'
BY DEF Clocked

LEMMA NumberedKept ==
    ASSUME NEW p, Numbered(p),
           executed'[p] = executed[p], up'[p] = up[p], waiting'[p] = waiting[p],
           requestId'[p] = requestId[p], issued'[p] = issued[p], page'[p] = page[p]
    PROVE  Numbered(p)'
BY DEF Numbered

LEMMA AnsweredKept ==
    ASSUME NEW p, Answered(p),
           executed'[p] = executed[p], up'[p] = up[p], down'[p] = down[p],
           callbacks'[p] = callbacks[p], page'[p] = page[p]
    PROVE  Answered(p)'
BY DEF Answered, Answers

LEMMA ToldKept ==
    ASSUME NEW p, Told(p),
           loading'[p] = loading[p], shown'[p] = shown[p], failed'[p] = failed[p],
           session'[p] = session[p], joined'[p] = joined[p],
           Len(born') = Len(born), down'[p] = down[p], page'[p] = page[p]
    PROVE  Told(p)'
BY DEF Told, Adds, Updates, Known, Listens

LEMMA PlacedKept ==
    ASSUME NEW p, Placed(p), simulated' = simulated, born' = born,
           shown'[p] = shown[p], down'[p] = down[p]
    PROVE  Placed(p)'
BY DEF Placed, Updates

\* Of a page and its session.
Same(p) ==
    /\ session'[p] = session[p] /\ start'[p] = start[p] /\ time'[p] = time[p]
    /\ joined'[p] = joined[p] /\ executed'[p] = executed[p]
    /\ page'[p] = page[p] /\ issued'[p] = issued[p] /\ waiting'[p] = waiting[p]
    /\ requestId'[p] = requestId[p] /\ callbacks'[p] = callbacks[p]
    /\ up'[p] = up[p] /\ down'[p] = down[p]
    /\ loading'[p] = loading[p] /\ shown'[p] = shown[p] /\ failed'[p] = failed[p]

LEMMA PageKept ==
    ASSUME Types, Types', NEW p \in Pages, PageInv(p), Same(p),
           clock <= clock', UNCHANGED modelvars
    PROVE  PageInv(p)'
<1>1. /\ clock \in Nat /\ clock' \in Nat /\ Len(born) \in Nat
      /\ start[p] \in Nat /\ time[p] \in Nat /\ joined[p] \in Nat
      /\ born' = born /\ simulated' = simulated
  BY DEF Types, modelvars
<1>2. Clocked(p)'
  BY <1>1, ClockedKept DEF PageInv, Same
<1>3. Numbered(p)'
  BY NumberedKept DEF PageInv, Same
<1>4. Answered(p)'
  BY AnsweredKept DEF PageInv, Same
<1>5. Told(p)'
  BY <1>1, ToldKept DEF PageInv, Same
<1>6. Placed(p)'
  BY <1>1, PlacedKept DEF PageInv, Same
<1> QED
  BY <1>2, <1>3, <1>4, <1>5, <1>6 DEF PageInv

LEMMA InvInit == Init => Inv
<1> SUFFICES ASSUME Init PROVE Inv
  OBVIOUS
<1> USE DEF Init
<1>1. Types
  <2>1. <<>> \in Positions
    <3>1. <<>> \in [{} -> Nat]
      OBVIOUS
    <3> QED
      BY <3>1 DEF Positions
  <2>2. clock \in 0..MaxClock
    BY StepsAssumption
  <2> QED
    BY <2>1, <2>2 DEF Types
<1>2. ASSUME NEW p \in Pages PROVE PageInv(p)
  <2>1. Clocked(p) /\ Numbered(p) /\ Placed(p)
    BY DEF Clocked, Numbered, Placed, Updates
  <2>2. Answered(p)
    BY DEF Answered, Answers
  <2>3. Told(p)
    BY DEF Told, Adds, Updates, Known, Listens
  <2> QED
    BY <2>1, <2>2, <2>3 DEF PageInv
<1> QED
  BY <1>1, <1>2 DEF Inv

LEMMA TickKeeps == Inv /\ Tick => Inv'
<1> SUFFICES ASSUME Inv, Tick PROVE Inv'
  OBVIOUS
<1> USE DEF Tick, modelvars, sessionvars, apivars, viewvars
<1>1. Types' /\ Types
  <2>1. clock' \in 0..MaxClock
    BY StepsAssumption DEF Inv, Types
  <2> QED
    BY <2>1 DEF Inv, Types
<1>2. clock <= clock' /\ UNCHANGED modelvars
  BY DEF Inv, Types
<1>3. \A p \in Pages : Same(p)
  BY DEF Same
<1> QED
  BY <1>1, <1>2, <1>3, PageKept DEF Inv

(***************************************************************************)
(* WSApi.                                                                  *)
(***************************************************************************)

LEMMA RequestsAreNumbered ==
    ASSUME Types, NEW p \in Pages, NEW commands \in Seq(NumberedCommands)
    PROVE  /\ Requests(p, commands) \in Seq(Requested)
           /\ Len(Requests(p, commands)) = Len(commands)
           /\ \A i \in 1..Len(commands) :
                 /\ Requests(p, commands)[i].data = commands[i]
                 /\ Requests(p, commands)[i].id = requestId[p] + i - 1
           /\ Ids(Requests(p, commands))
                 = {Requests(p, commands)[i].id : i \in 1..Len(commands)}
<1> DEFINE r == [i \in 1..Len(commands) |->
                    [data |-> commands[i], id |-> requestId[p] + i - 1]]
<1>1. Requests(p, commands) = r
  BY DEF Requests
<1>2. \A i \in 1..Len(commands) : requestId[p] + i - 1 \in Nat /\ commands[i] \in NumberedCommands
  BY DEF Types
<1>3. \A i \in 1..Len(commands) : r[i] \in Requested
  BY <1>2 DEF Requested
<1>4. r \in Seq(Requested) /\ Len(r) = Len(commands)
  BY <1>3
<1>5. Ids(r) = {r[i].id : i \in 1..Len(commands)}
  BY DEF Ids, ToSet
<1> QED
  BY <1>1, <1>4, <1>5

LEMMA LeaveKeeps ==
    ASSUME Inv, NEW r \in Pages, Leave(r)
    PROVE  Inv'
<1> USE DEF Leave, modelvars, sessionvars, viewvars
<1>1. Types /\ \A p \in Pages : PageInv(p)
  BY DEF Inv
<1>2. PICK n \in 0..Len(up[r]) : up' = [up EXCEPT ![r] = SubSeq(@, 1, n)]
  OBVIOUS
<1>3. /\ up[r] \in Seq(Requested) /\ SubSeq(up[r], 1, n) \in Seq(Requested)
      /\ Len(SubSeq(up[r], 1, n)) = n
      /\ \A i \in 1..n : SubSeq(up[r], 1, n)[i] = up[r][i]
      /\ Len(up[r]) \in Nat
  BY <1>1, <1>2 DEF Types
<1>4. <<>> \in Positions
  <2>1. <<>> \in [{} -> Nat]
    OBVIOUS
  <2> QED
    BY <2>1 DEF Positions
<1>5. Types'
  BY <1>1, <1>2, <1>3, <1>4 DEF Types
<1>6. ASSUME NEW p \in Pages, p # r PROVE PageInv(p)'
  <2>1. Same(p) /\ clock <= clock'
    BY <1>1, <1>2, <1>6 DEF Same, Types
  <2> QED
    BY <2>1, <1>1, <1>5, PageKept
<1>7. /\ page'[r] = "gone" /\ page[r] # "gone" /\ up'[r] = SubSeq(up[r], 1, n)
      /\ callbacks'[r] = {} /\ waiting'[r] = <<>> /\ loading'[r] = {} /\ failed'[r] = {}
      /\ shown'[r] = <<>> /\ down'[r] = <<>>
      /\ UNCHANGED <<clock, simulated, born, session, start, time, joined, executed,
                     issued, requestId>>
  BY <1>1, <1>2 DEF Types
<1> HIDE DEF Leave
<1>8. Clocked(r)'
  BY <1>1, <1>7 DEF PageInv, Clocked
<1>9. Numbered(r)'
  <2>1. /\ Len(executed[r]) \in Nat /\ requestId[r] \in Nat /\ issued[r] \in Nat
    BY <1>1 DEF Types
  <2>2. Len(executed[r]) + Len(up[r]) <= requestId[r]
    BY <1>1 DEF PageInv, Numbered
  <2>3. Len(executed[r]) + n <= requestId[r]
    <3>1. \A a, b, c, d \in Nat : a + b <= c /\ d <= b => a + d <= c
      OBVIOUS
    <3>2. n \in Nat /\ n <= Len(up[r]) /\ Len(up[r]) \in Nat
      BY <1>3
    <3> QED
      BY <2>1, <2>2, <3>1, <3>2
  <2>4. \A i \in 1..n : i \in 1..Len(up[r]) /\ up'[r][i] = up[r][i]
    BY <1>2, <1>3, <1>7
  <2>5. Numbered(r) /\ Len(up'[r]) = n
    BY <1>1, <1>3, <1>7 DEF PageInv
  <2>6. \A i \in 1..Len(up'[r]) : /\ up'[r][i].data.number = Len(executed[r]) + i
                                 /\ up'[r][i].id = Len(executed[r]) + i - 1
    BY <2>4, <2>5 DEF Numbered
  <2>7. /\ \A i \in 1..Len(executed[r]) : executed[r][i] = i
        /\ requestId[r] <= issued[r]
    BY <2>5 DEF Numbered
  <2>8. /\ executed'[r] = executed[r] /\ requestId'[r] = requestId[r]
        /\ issued'[r] = issued[r] /\ page'[r] = "gone" /\ waiting'[r] = <<>>
    BY <1>7
  <2> QED
    BY <2>3, <2>5, <2>6, <2>7, <2>8 DEF Numbered
<1>10. Answered(r)'
  BY <1>7 DEF Answered, Answers
<1>11. Told(r)'
  BY <1>7 DEF Told, Adds, Updates, Known, Listens
<1>12. Placed(r)'
  BY <1>7 DEF Placed, Updates
<1> QED
  BY <1>5, <1>6, <1>8, <1>9, <1>10, <1>11, <1>12 DEF Inv, PageInv

\* The requests in s have the numbers after n.
GoesOn(s, n) ==
    \A i \in 1..Len(s) : s[i].data.number = n + i /\ s[i].id = n + i - 1

RequestIds(s) == {s[i].id : i \in 1..Len(s)}

LEMMA RequestsJoined ==
    ASSUME NEW s \in Seq(Requested), NEW t \in Seq(Requested), NEW n \in Nat, NEW m,
           GoesOn(s, n), m = n + Len(s), GoesOn(t, m)
    PROVE  /\ s \o t \in Seq(Requested)
           /\ Len(s \o t) = Len(s) + Len(t)
           /\ GoesOn(s \o t, n)
           /\ RequestIds(s \o t) = RequestIds(s) \union RequestIds(t)
<1> DEFINE u == s \o t
<1>1. /\ u \in Seq(Requested) /\ Len(u) = Len(s) + Len(t)
      /\ \A i \in 1..Len(s) : u[i] = s[i]
      /\ \A i \in 1..Len(t) : u[Len(s) + i] = t[i]
      /\ \A i \in 1..(Len(s) + Len(t)) :
            i \in 1..Len(s) \/ (i - Len(s) \in 1..Len(t) /\ i = Len(s) + (i - Len(s)))
  BY Joined
<1> HIDE DEF u
<1>2. Len(s) \in Nat /\ Len(t) \in Nat
  OBVIOUS
<1>3. \A i \in 1..Len(s) : i \in 1..Len(u) /\ u[i] = s[i]
  BY <1>1, <1>2
<1>4. \A i \in 1..Len(t) : Len(s) + i \in 1..Len(u) /\ u[Len(s) + i] = t[i]
  BY <1>1, <1>2
<1>5. \A i \in 1..Len(u) : i \in 1..Len(s) \/ \E k \in 1..Len(t) : i = Len(s) + k
  BY <1>1, <1>2
<1>6. ASSUME NEW i \in 1..Len(u)
      PROVE  u[i].data.number = n + i /\ u[i].id = n + i - 1
  <2>1. CASE i \in 1..Len(s)
    BY <2>1, <1>3 DEF GoesOn
  <2>2. ASSUME NEW k \in 1..Len(t), i = Len(s) + k
        PROVE  u[i].data.number = n + i /\ u[i].id = n + i - 1
    <3>1. t[k].data.number = m + k /\ t[k].id = m + k - 1 /\ u[i] = t[k]
      BY <2>2, <1>4 DEF GoesOn
    <3>2. m + k = n + i
      BY <2>2, <1>2
    <3> QED
      BY <3>1, <3>2
  <2> QED
    BY <2>1, <2>2, <1>5
<1>7. RequestIds(u) = RequestIds(s) \union RequestIds(t)
  <2> SUFFICES ASSUME NEW x
               PROVE  x \in RequestIds(u) <=> x \in RequestIds(s) \/ x \in RequestIds(t)
    OBVIOUS
  <2>1. ASSUME x \in RequestIds(u) PROVE x \in RequestIds(s) \/ x \in RequestIds(t)
    <3>1. PICK i \in 1..Len(u) : x = u[i].id
      BY <2>1 DEF RequestIds
    <3>2. CASE i \in 1..Len(s)
      BY <3>1, <3>2, <1>3 DEF RequestIds
    <3>3. ASSUME NEW k \in 1..Len(t), i = Len(s) + k PROVE x \in RequestIds(t)
      BY <3>1, <3>3, <1>4 DEF RequestIds
    <3> QED
      BY <3>2, <3>3, <1>5
  <2>2. ASSUME x \in RequestIds(s) PROVE x \in RequestIds(u)
    BY <2>2, <1>3 DEF RequestIds
  <2>3. ASSUME x \in RequestIds(t) PROVE x \in RequestIds(u)
    BY <2>3, <1>4 DEF RequestIds
  <2> QED
    BY <2>1, <2>2, <2>3
<1> QED
  BY <1>1, <1>6, <1>7 DEF u, GoesOn

\* Commands that are sent go on where the ones before them end.
LEMMA SentKeeps ==
    ASSUME Types, NEW r \in Pages, NEW commands \in Seq(NumberedCommands), Sent(r, commands),
           GoesOn(up[r], Len(executed[r])),
           requestId[r] = Len(executed[r]) + Len(up[r]),
           \A i \in 1..Len(commands) : commands[i].number = requestId[r] + i
    PROVE  /\ up' \in [Pages -> Seq(Requested)] /\ requestId' \in [Pages -> Nat]
           /\ callbacks' \in [Pages -> SUBSET Nat]
           /\ \A q \in Pages \ {r} : /\ up'[q] = up[q] /\ requestId'[q] = requestId[q]
                                     /\ callbacks'[q] = callbacks[q]
           /\ GoesOn(up'[r], Len(executed[r]))
           /\ requestId'[r] = Len(executed[r]) + Len(up'[r])
           /\ requestId'[r] = requestId[r] + Len(commands)
           /\ \E New : /\ callbacks'[r] = callbacks[r] \union New
                       /\ RequestIds(up'[r]) = RequestIds(up[r]) \union New
<1> DEFINE s == up[r]
           t == Requests(r, commands)
           n == Len(executed[r])
<1>1. /\ t \in Seq(Requested) /\ Len(t) = Len(commands)
      /\ \A i \in 1..Len(commands) : t[i].data = commands[i] /\ t[i].id = requestId[r] + i - 1
      /\ Ids(t) = RequestIds(t)
  BY RequestsAreNumbered DEF RequestIds
<1>2. s \in Seq(Requested) /\ n \in Nat /\ requestId[r] \in Nat
  BY DEF Types
<1>3. Len(s) \in Nat /\ Len(commands) \in Nat
  BY <1>2
<1>4. /\ requestId' = [requestId EXCEPT ![r] = @ + Len(commands)]
      /\ callbacks' = [callbacks EXCEPT ![r] = @ \union RequestIds(t)]
      /\ up' = [up EXCEPT ![r] = @ \o t]
  BY <1>1 DEF Sent
<1> HIDE DEF t
<1>5. RequestIds(t) \subseteq Nat
  <2>1. \A i \in 1..Len(t) : t[i].id \in Nat
    <3>1. \A i \in 1..Len(t) : t[i] \in Requested
      BY <1>1
    <3> QED
      BY <3>1 DEF Requested
  <2> QED
    BY <2>1 DEF RequestIds
<1>6. GoesOn(t, requestId[r])
  BY <1>1 DEF GoesOn
<1>7. /\ s \o t \in Seq(Requested)
      /\ Len(s \o t) = Len(s) + Len(t)
      /\ GoesOn(s \o t, n)
      /\ RequestIds(s \o t) = RequestIds(s) \union RequestIds(t)
  BY <1>1, <1>2, <1>6, RequestsJoined
<1>8. /\ up' \in [Pages -> Seq(Requested)]
      /\ \A q \in Pages \ {r} : up'[q] = up[q]
      /\ up'[r] = s \o t
  BY <1>4, <1>7 DEF Types
<1>9. requestId' \in [Pages -> Nat] /\ \A q \in Pages \ {r} : requestId'[q] = requestId[q]
  BY <1>2, <1>3, <1>4 DEF Types
<1>10. callbacks' \in [Pages -> SUBSET Nat] /\ \A q \in Pages \ {r} : callbacks'[q] = callbacks[q]
  BY <1>4, <1>5 DEF Types
<1>11. /\ requestId'[r] = requestId[r] + Len(commands)
       /\ callbacks'[r] = callbacks[r] \union RequestIds(t)
  BY <1>4 DEF Types
<1>12. requestId'[r] = n + Len(s \o t)
  <2> DEFINE a == Len(s)
             b == Len(t)
             c == Len(s \o t)
             d == requestId[r]
             e == requestId'[r]
  <2>1. a \in Nat /\ b \in Nat /\ n \in Nat /\ c = a + b /\ e = d + b /\ d = n + a
    BY <1>1, <1>2, <1>3, <1>7, <1>11
  <2> HIDE DEF a, b, c, d, e, n
  <2>2. e = n + c
    BY <2>1
  <2> QED
    BY <2>2 DEF c, e
<1>13. \E New : /\ callbacks'[r] = callbacks[r] \union New
                /\ RequestIds(up'[r]) = RequestIds(up[r]) \union New
  <2>1. RequestIds(up'[r]) = RequestIds(up[r]) \union RequestIds(t)
    BY <1>7, <1>8, Zenon
  <2> QED
    BY <2>1, <1>11
<1>14. GoesOn(up'[r], Len(executed[r])) /\ requestId'[r] = Len(executed[r]) + Len(up'[r])
  BY <1>7, <1>8, <1>12, Zenon
<1> QED
  BY <1>8, <1>9, <1>10, <1>11, <1>13, <1>14

\* What the steps that send have in common, for the page r that sends.
LEMMA SendingKeeps ==
    ASSUME Inv, Types', NEW r \in Pages, NEW commands \in Seq(NumberedCommands),
           Sent(r, commands), page[r] # "gone", page'[r] = "connected",
           requestId[r] = Len(executed[r]) + Len(up[r]),
           \A i \in 1..Len(commands) : commands[i].number = requestId[r] + i,
           issued'[r] = requestId[r] + Len(commands),
           waiting'[r] = <<>>,
           callbacks[r] = {down[r][i].id : i \in Answers(r)} \union RequestIds(up[r]),
           session[r] # "none", session'[r] = session[r],
           UNCHANGED <<clock, modelvars, start, time, joined, executed, viewvars, down>>,
           \A q \in Pages \ {r} : page'[q] = page[q] /\ issued'[q] = issued[q]
                                  /\ waiting'[q] = waiting[q] /\ session'[q] = session[q]
    PROVE  Inv'
<1>1. Types /\ \A p \in Pages : PageInv(p)
  BY DEF Inv
<1>2. /\ \A q \in Pages \ {r} : /\ up'[q] = up[q] /\ requestId'[q] = requestId[q]
                                /\ callbacks'[q] = callbacks[q]
      /\ GoesOn(up'[r], Len(executed[r]))
      /\ requestId'[r] = Len(executed[r]) + Len(up'[r])
      /\ requestId'[r] = requestId[r] + Len(commands)
      /\ \E New : /\ callbacks'[r] = callbacks[r] \union New
                  /\ RequestIds(up'[r]) = RequestIds(up[r]) \union New
  <2>1. GoesOn(up[r], Len(executed[r]))
    BY <1>1 DEF PageInv, Numbered, GoesOn
  <2> QED
    BY <1>1, <2>1, SentKeeps
<1>3. /\ UNCHANGED <<clock, simulated, born, start, time, joined, executed, loading, shown,
                     failed, down>>
  BY DEF modelvars, viewvars
<1>4. ASSUME NEW p \in Pages, p # r PROVE PageInv(p)'
  <2>1. Same(p) /\ clock <= clock' /\ UNCHANGED modelvars
    BY <1>1, <1>2, <1>3, <1>4 DEF Same, Types, modelvars
  <2> QED
    BY <2>1, <1>1, PageKept
<1>5. Clocked(r)'
  BY <1>1, <1>3 DEF PageInv, Clocked
<1>6. Numbered(r)'
  <2>1. \A i \in 1..Len(up'[r]) : /\ up'[r][i].data.number = Len(executed[r]) + i
                                  /\ up'[r][i].id = Len(executed[r]) + i - 1
    BY <1>2 DEF GoesOn
  <2>2. \A i \in 1..Len(executed[r]) : executed[r][i] = i
    BY <1>1 DEF PageInv, Numbered
  <2>3. executed'[r] = executed[r] /\ requestId'[r] = issued'[r] /\ waiting'[r] = <<>>
    BY <1>2, <1>3
  <2>4. /\ Len(executed'[r]) + Len(up'[r]) = requestId'[r]
        /\ Len(executed'[r]) + Len(up'[r]) <= requestId'[r]
        /\ requestId'[r] <= issued'[r]
    <3>1. \A a \in Nat : \A b, d : b = a /\ d = a => a <= b /\ d <= a
      OBVIOUS
    <3>2. requestId'[r] \in Nat
      BY DEF Types
    <3> QED
      BY <1>2, <2>3, <3>1, <3>2, Zenon
  <2>5. /\ \A i \in 1..Len(executed'[r]) : executed'[r][i] = i
        /\ \A i \in 1..Len(up'[r]) :
              /\ up'[r][i].data.number = Len(executed'[r]) + i
              /\ up'[r][i].id = Len(executed'[r]) + i - 1
    BY <2>1, <2>2, <2>3
  <2>6. \A i \in 1..Len(waiting'[r]) : waiting'[r][i].number = i
    <3>1. Len(waiting'[r]) = 0 /\ 1..0 = {}
      OBVIOUS
    <3> QED
      BY <3>1
  <2>7. page'[r] # "connecting"
    OBVIOUS
  <2> QED
    BY <2>3, <2>4, <2>5, <2>6, <2>7, Zenon DEF Numbered
<1>7. Answered(r)'
  <2>1. Answers(r)' = Answers(r) /\ down'[r] = down[r] /\ executed'[r] = executed[r]
    BY <1>3 DEF Answers
  <2>2. /\ \A i \in Answers(r) : down[r][i].id < Len(executed[r])
        /\ \A i, j \in Answers(r) : i < j => down[r][i].id < down[r][j].id
    BY <1>1 DEF PageInv, Answered
  <2>3. callbacks'[r] = {down[r][i].id : i \in Answers(r)} \union RequestIds(up'[r])
    <3> DEFINE A == {down[r][i].id : i \in Answers(r)}
    <3>1. callbacks[r] = A \union RequestIds(up[r])
      OBVIOUS
    <3> HIDE DEF A
    <3>2. callbacks'[r] = A \union RequestIds(up'[r])
      <4>1. PICK New : /\ callbacks'[r] = callbacks[r] \union New
                       /\ RequestIds(up'[r]) = RequestIds(up[r]) \union New
        BY <1>2
      <4> QED
        BY <3>1, <4>1
    <3> QED
      BY <3>2 DEF A
  <2> QED
    BY <2>1, <2>2, <2>3 DEF Answered, RequestIds
<1>8. Told(r)'
  <2>1. Told(r)
    BY <1>1 DEF PageInv
  <2> QED
    BY <1>3, <2>1 DEF Told, Adds, Updates, Known, Listens
<1>9. Placed(r)'
  BY <1>1, <1>3, PlacedKept DEF PageInv
<1> QED
  BY <1>4, <1>5, <1>6, <1>7, <1>8, <1>9 DEF Inv, PageInv

LEMMA ConnectedKeeps ==
    ASSUME Inv, NEW r \in Pages, Connected(r)
    PROVE  Inv'
<1> DEFINE commands == waiting[r]
<1>1. /\ page[r] = "connecting" /\ session[r] = "open"
      /\ page' = [page EXCEPT ![r] = "connected"]
      /\ Sent(r, commands)
      /\ waiting' = [waiting EXCEPT ![r] = <<>>]
      /\ UNCHANGED <<clock, modelvars, sessionvars, issued, viewvars, down>>
  BY DEF Connected
<1>2. Types /\ PageInv(r)
  BY DEF Inv
<1>3. /\ Len(executed[r]) \in Nat /\ Len(up[r]) \in Nat /\ commands \in Seq(NumberedCommands)
      /\ up[r] \in Seq(Requested) /\ down[r] \in Seq(Messages)
  BY <1>2 DEF Types
<1>4. /\ requestId[r] = 0 /\ issued[r] = Len(commands)
      /\ Len(executed[r]) + Len(up[r]) <= 0
      /\ \A i \in 1..Len(commands) : commands[i].number = i
      /\ GoesOn(up[r], Len(executed[r]))
  BY <1>1, <1>2 DEF PageInv, Numbered, GoesOn
<1>5. Len(executed[r]) = 0 /\ Len(up[r]) = 0
  <2>1. \A a, b \in Nat : a + b <= 0 => a = 0 /\ b = 0
    OBVIOUS
  <2> QED
    BY <1>3, <1>4, <2>1, Zenon
<1>6. \A i \in 1..Len(commands) : commands[i].number = requestId[r] + i
  BY <1>3, <1>4
<1>7. Answers(r) = {}
  <2> SUFFICES ASSUME NEW i \in Answers(r) PROVE FALSE
    OBVIOUS
  <2>1. down[r][i].id < 0
    BY <1>2, <1>5 DEF PageInv, Answered
  <2>2. down[r][i] \in Messages /\ down[r][i].event = "answer"
    BY <1>3 DEF Answers
  <2> QED
    BY <2>1, <2>2 DEF Messages
<1>8. callbacks[r] = {down[r][i].id : i \in Answers(r)} \union RequestIds(up[r])
  BY <1>1, <1>2, <1>5, <1>7 DEF PageInv, Answered, RequestIds
<1>9. /\ up' \in [Pages -> Seq(Requested)] /\ requestId' \in [Pages -> Nat]
      /\ callbacks' \in [Pages -> SUBSET Nat]
  <2>1. requestId[r] = Len(executed[r]) + Len(up[r])
    BY <1>4, <1>5
  <2> QED
    BY <1>1, <1>2, <1>3, <1>4, <1>6, <2>1, SentKeeps
<1>10. Types'
  <2>1. UNCHANGED <<clock, simulated, born, session, start, time, joined, executed, issued,
                    loading, shown, failed, down>>
    BY <1>1 DEF modelvars, sessionvars, viewvars
  <2>2. page' \in [Pages -> {"connecting", "connected", "gone"}]
    BY <1>1, <1>2 DEF Types
  <2>3. waiting' \in [Pages -> Seq(NumberedCommands)]
    BY <1>1, <1>2 DEF Types
  <2> QED
    BY <1>2, <1>9, <2>1, <2>2, <2>3 DEF Types
<1>11. /\ page'[r] = "connected" /\ waiting'[r] = <<>>
       /\ \A q \in Pages \ {r} : page'[q] = page[q] /\ waiting'[q] = waiting[q]
  BY <1>1, <1>2 DEF Types
<1>12. UNCHANGED <<session, start, time, joined, executed, issued, clock, modelvars, viewvars,
                   down>>
  BY <1>1 DEF sessionvars
<1>13. requestId[r] = Len(executed[r]) + Len(up[r]) /\ issued'[r] = requestId[r] + Len(commands)
  BY <1>3, <1>4, <1>5, <1>12
<1> HIDE DEF commands
<1> QED
  BY <1>1, <1>3, <1>6, <1>8, <1>10, <1>11, <1>12, <1>13, SendingKeeps

LEMMA SendCommandKeeps ==
    ASSUME Inv, NEW r \in Pages, NEW command \in Commands, SendCommand(r, command)
    PROVE  Inv'
<1> DEFINE c == [number |-> issued[r] + 1, details |-> command]
<1>1. /\ page[r] # "gone"
      /\ issued' = [issued EXCEPT ![r] = @ + 1]
      /\ UNCHANGED <<clock, modelvars, sessionvars, page, viewvars, down>>
      /\ \/ /\ page[r] = "connecting"
            /\ waiting' = [waiting EXCEPT ![r] = Append(@, c)]
            /\ UNCHANGED <<requestId, callbacks, up>>
         \/ page[r] # "connecting" /\ Sent(r, <<c>>) /\ UNCHANGED waiting
  BY DEF SendCommand
<1>2. Types /\ \A p \in Pages : PageInv(p)
  BY DEF Inv
<1>3. c \in NumberedCommands /\ c.number = issued[r] + 1 /\ issued[r] \in Nat
  BY <1>2 DEF Types, NumberedCommands
<1> HIDE DEF c
<1>4. UNCHANGED <<clock, simulated, born, session, start, time, joined, executed, page,
                  loading, shown, failed, down>>
  BY <1>1 DEF modelvars, sessionvars, viewvars
<1>5. /\ issued' \in [Pages -> Nat] /\ issued'[r] = issued[r] + 1
      /\ \A q \in Pages \ {r} : issued'[q] = issued[q]
  BY <1>1, <1>2, <1>3 DEF Types
<1>6. CASE /\ page[r] = "connecting"
           /\ waiting' = [waiting EXCEPT ![r] = Append(@, c)]
           /\ UNCHANGED <<requestId, callbacks, up>>
  <2> DEFINE w == waiting[r]
  <2>1. /\ w \in Seq(NumberedCommands) /\ Append(w, c) \in Seq(NumberedCommands)
        /\ Len(w) \in Nat /\ Len(Append(w, c)) = Len(w) + 1
        /\ \A i \in 1..Len(w) : Append(w, c)[i] = w[i]
        /\ Append(w, c)[Len(w) + 1] = c
    BY <1>2, <1>3 DEF Types
  <2>2. /\ waiting' \in [Pages -> Seq(NumberedCommands)] /\ waiting'[r] = Append(w, c)
        /\ \A q \in Pages \ {r} : waiting'[q] = waiting[q]
    BY <1>2, <1>6, <2>1 DEF Types
  <2>3. Types'
    BY <1>2, <1>4, <1>5, <1>6, <2>2 DEF Types
  <2>4. ASSUME NEW p \in Pages, p # r PROVE PageInv(p)'
    <3>1. Same(p) /\ clock <= clock' /\ UNCHANGED modelvars
      BY <1>2, <1>4, <1>5, <1>6, <2>2, <2>4 DEF Same, Types, modelvars
    <3> QED
      BY <3>1, <1>2, <2>3, PageKept
  <2>5. Clocked(r)'
    BY <1>2, <1>4 DEF PageInv, Clocked
  <2>6. Numbered(r)'
    <3>1. Numbered(r)
      BY <1>2 DEF PageInv
    <3>2. requestId[r] = 0 /\ issued[r] = Len(w) /\ \A i \in 1..Len(w) : w[i].number = i
      BY <1>6, <3>1 DEF Numbered
    <3>3. \A i \in 1..(Len(w) + 1) : i \in 1..Len(w) \/ i = Len(w) + 1
      BY <2>1
    <3>4. \A i \in 1..Len(waiting'[r]) : waiting'[r][i].number = i
      BY <1>3, <2>1, <2>2, <3>2, <3>3
    <3>5. issued'[r] = Len(waiting'[r]) /\ requestId'[r] <= issued'[r]
      BY <1>3, <1>5, <1>6, <2>1, <2>2, <3>2
    <3>6. /\ executed'[r] = executed[r] /\ up'[r] = up[r] /\ requestId'[r] = requestId[r]
          /\ page'[r] = "connecting"
      BY <1>4, <1>6
    <3> QED
      BY <3>1, <3>2, <3>4, <3>5, <3>6 DEF Numbered
  <2>7. Answered(r)'
    BY <1>2, <1>4, <1>6, AnsweredKept DEF PageInv
  <2>8. Told(r)'
    BY <1>2, <1>4, ToldKept DEF PageInv
  <2>9. Placed(r)'
    BY <1>2, <1>4, PlacedKept DEF PageInv
  <2> QED
    BY <2>3, <2>4, <2>5, <2>6, <2>7, <2>8, <2>9 DEF Inv, PageInv
<1>7. CASE page[r] # "connecting" /\ Sent(r, <<c>>) /\ UNCHANGED waiting
  <2>1. page[r] = "connected" /\ page'[r] = "connected"
    BY <1>1, <1>2, <1>4, <1>7 DEF Types
  <2>2. /\ requestId[r] = Len(executed[r]) + Len(up[r]) /\ requestId[r] = issued[r]
        /\ waiting[r] = <<>> /\ GoesOn(up[r], Len(executed[r]))
    <3>1. Numbered(r)
      BY <1>2 DEF PageInv
    <3> QED
      BY <2>1, <3>1 DEF Numbered, GoesOn
  <2>3. <<c>> \in Seq(NumberedCommands) /\ Len(<<c>>) = 1 /\ <<c>>[1] = c
    BY <1>3
  <2>4. \A i \in 1..Len(<<c>>) : <<c>>[i].number = requestId[r] + i
    <3>1. \A i \in 1..1 : i = 1
      OBVIOUS
    <3> QED
      BY <1>3, <2>2, <2>3, <3>1
  <2>5. issued'[r] = requestId[r] + Len(<<c>>)
    BY <1>5, <2>2, <2>3
  <2>6. callbacks[r] = {down[r][i].id : i \in Answers(r)} \union RequestIds(up[r])
    BY <1>2, <2>1 DEF PageInv, Answered, RequestIds
  <2>7. session[r] # "none"
    BY <1>2, <2>1 DEF PageInv, Clocked
  <2>8. /\ up' \in [Pages -> Seq(Requested)] /\ requestId' \in [Pages -> Nat]
        /\ callbacks' \in [Pages -> SUBSET Nat]
    BY <1>2, <1>7, <2>2, <2>3, <2>4, SentKeeps
  <2>9. Types'
    BY <1>2, <1>4, <1>5, <1>7, <2>8 DEF Types
  <2>10. UNCHANGED <<clock, modelvars, start, time, joined, executed, viewvars, down>>
    BY <1>4 DEF modelvars, viewvars
  <2>11. /\ session'[r] = session[r] /\ waiting'[r] = <<>>
         /\ \A q \in Pages \ {r} : page'[q] = page[q] /\ issued'[q] = issued[q]
                                  /\ waiting'[q] = waiting[q] /\ session'[q] = session[q]
    BY <1>4, <1>5, <1>7, <2>2
  <2>12. page[r] # "gone" /\ Sent(r, <<c>>)
    BY <1>1, <1>7
  <2> QED
    BY <2>1, <2>2, <2>3, <2>4, <2>5, <2>6, <2>7, <2>9, <2>10, <2>11, <2>12, SendingKeeps
<1> QED
  BY <1>1, <1>6, <1>7

(***************************************************************************)
(* The service.                                                            *)
(***************************************************************************)

LEMMA OpenSessionKeeps ==
    ASSUME Inv, NEW r \in Pages, OpenSession(r)
    PROVE  Inv'
<1>1. /\ session[r] = "none" /\ page[r] = "connecting"
      /\ session' = [session EXCEPT ![r] = "open"]
      /\ start' = [start EXCEPT ![r] = clock]
      /\ joined' = [joined EXCEPT ![r] = Len(born)]
      /\ UNCHANGED <<clock, simulated, born, time, executed, page, issued, waiting, requestId,
                     callbacks, loading, shown, failed, up, down>>
  BY DEF OpenSession, modelvars, apivars, viewvars
<1>2. Types /\ \A p \in Pages : PageInv(p)
  BY DEF Inv
<1>3. clock \in Nat /\ Len(born) \in Nat
  BY <1>2, StepsAssumption DEF Types
<1>4. Types'
  BY <1>1, <1>2, <1>3 DEF Types
<1>5. ASSUME NEW p \in Pages, p # r PROVE PageInv(p)'
  <2>1. Same(p) /\ clock <= clock' /\ UNCHANGED modelvars
    BY <1>1, <1>2, <1>3, <1>5 DEF Same, Types, modelvars
  <2> QED
    BY <2>1, <1>2, <1>4, PageKept
<1>6. session'[r] = "open" /\ start'[r] = clock /\ joined'[r] = Len(born)
  BY <1>1, <1>2 DEF Types
<1>7. time[r] = 0 /\ down[r] = <<>>
  BY <1>1, <1>2 DEF PageInv, Clocked
<1>8. Clocked(r)'
  BY <1>1, <1>3, <1>6, <1>7 DEF Clocked
<1>9. Numbered(r)' /\ Answered(r)' /\ Placed(r)'
  BY <1>1, <1>2, NumberedKept, AnsweredKept, PlacedKept DEF PageInv
<1>10. Told(r)'
  <2>1. Told(r) /\ Known(r) = {}
    BY <1>1, <1>2 DEF PageInv, Told
  <2>2. Adds(r)' = {} /\ Updates(r)' = {} /\ Known(r)' = {}
    BY <1>1, <1>7, <2>1 DEF Adds, Updates, Known
  <2>3. (joined'[r] + 1)..Len(born') = {}
    BY <1>1, <1>3, <1>6
  <2> QED
    BY <1>1, <2>1, <2>2, <2>3 DEF Told
<1> QED
  BY <1>4, <1>5, <1>8, <1>9, <1>10 DEF Inv, PageInv

LEMMA EndSessionKeeps ==
    ASSUME Inv, NEW r \in Pages, EndSession(r)
    PROVE  Inv'
<1>1. /\ session[r] = "open" /\ page[r] = "gone"
      /\ session' = [session EXCEPT ![r] = "ended"]
      /\ UNCHANGED <<clock, simulated, born, start, time, joined, executed, page, issued,
                     waiting, requestId, callbacks, loading, shown, failed, up, down>>
  BY DEF EndSession, modelvars, apivars, viewvars
<1>2. Types /\ \A p \in Pages : PageInv(p)
  BY DEF Inv
<1>3. Types'
  BY <1>1, <1>2 DEF Types
<1>4. ASSUME NEW p \in Pages, p # r PROVE PageInv(p)'
  <2>1. Same(p) /\ clock <= clock' /\ UNCHANGED modelvars
    BY <1>1, <1>2, <1>4 DEF Same, Types, modelvars
  <2> QED
    BY <2>1, <1>2, <1>3, PageKept
<1>5. session'[r] = "ended"
  BY <1>1, <1>2 DEF Types
<1>6. Clocked(r)'
  BY <1>1, <1>2, <1>5 DEF PageInv, Clocked
<1>7. Numbered(r)' /\ Answered(r)' /\ Placed(r)'
  BY <1>1, <1>2, NumberedKept, AnsweredKept, PlacedKept DEF PageInv
<1>8. Told(r)'
  BY <1>1, <1>2, <1>5 DEF PageInv, Told, Adds, Updates, Known, Listens
<1> QED
  BY <1>3, <1>4, <1>6, <1>7, <1>8 DEF Inv, PageInv

\* Messages without answers, for pages whose commands are not handled.
LEMMA AnsweredGrows ==
    ASSUME NEW p, NEW s \in Seq(Messages), NEW t \in Seq(Messages), Answered(p),
           down[p] = s, down'[p] = Join(s, t),
           \A k \in 1..Len(t) : t[k].event # "answer",
           executed'[p] = executed[p], up'[p] = up[p],
           callbacks'[p] = callbacks[p], page'[p] = page[p]
    PROVE  Answered(p)'
<1>1. /\ Answers(p)' = Answers(p) /\ Answers(p) \subseteq 1..Len(s)
      /\ \A i \in 1..Len(s) : down'[p][i] = down[p][i]
  <2>1. s \in Seq(Messages) /\ Join(s, t) \in Seq(Messages)
    BY JoinIsSeq
  <2>2. /\ Answers(p) = At(s, "answer")
        /\ Answers(p)' = At(Join(s, t), "answer")
    BY <2>1 DEF Answers, At
  <2>3. At(Join(s, t), "answer") = At(s, "answer")
    BY PlacesStay
  <2>4. /\ At(s, "answer") \subseteq 1..Len(s)
        /\ \A i \in 1..Len(s) : Join(s, t)[i] = s[i]
    BY Places
  <2> QED
    BY <2>2, <2>3, <2>4
<1>2. {down'[p][i].id : i \in Answers(p)} = {down[p][i].id : i \in Answers(p)}
  BY <1>1
<1> QED
  BY <1>1, <1>2 DEF Answered

\* Messages that announce no entity.
LEMMA ToldGrows ==
    ASSUME NEW p, NEW s \in Seq(Messages), NEW t \in Seq(Messages), Told(p),
           down[p] = s, down'[p] = Join(s, t),
           \A k \in 1..Len(t) : t[k].event # "AddEntity",
           page[p] = "gone" => t = <<>>,
           Len(born) \in Nat, Len(born') \in Nat, Len(born) <= Len(born'),
           Listens(p) => Len(born') = Len(born),
           loading'[p] = loading[p], shown'[p] = shown[p], failed'[p] = failed[p],
           session'[p] = session[p], joined'[p] = joined[p], page'[p] = page[p]
    PROVE  Told(p)'
<1>1. /\ Adds(p)' = Adds(p) /\ Adds(p) \subseteq 1..Len(s)
      /\ \A i \in Updates(p)' : i \in Updates(p) \/ \E k \in 1..Len(t) : i = Len(s) + k
      /\ Updates(p) \subseteq 1..Len(s)
      /\ \A i \in 1..Len(s) : down'[p][i] = down[p][i]
  <2>1. /\ Adds(p) = At(s, "AddEntity") /\ Updates(p) = At(s, "UpdateEntity")
        /\ Adds(p)' = At(Join(s, t), "AddEntity") /\ Updates(p)' = At(Join(s, t), "UpdateEntity")
    BY DEF Adds, Updates, At
  <2>2. At(Join(s, t), "AddEntity") = At(s, "AddEntity")
    BY PlacesStay
  <2>3. At(s, "AddEntity") \subseteq 1..Len(s) /\ At(s, "UpdateEntity") \subseteq 1..Len(s)
    BY DEF At
  <2>4. \A i \in At(Join(s, t), "UpdateEntity") :
           i \in At(s, "UpdateEntity") \/ \E k \in 1..Len(t) : i = Len(s) + k
    BY Places
  <2>5. \A i \in 1..Len(s) : Join(s, t)[i] = s[i]
    BY Places
  <2> QED
    BY <2>1, <2>2, <2>3, <2>4, <2>5
<1>2. Known(p)' = Known(p)
  BY DEF Known
<1>3. /\ page'[p] # "connected" => Known(p)' = {}
      /\ page'[p] = "gone" => down'[p] = <<>>
  <2>1. Join(<<>>, <<>>) = <<>>
    BY DEF Join
  <2> QED
    BY <1>2, <2>1 DEF Told
<1>4. 1..Len(born) \subseteq 1..Len(born')
  OBVIOUS
<1>5. /\ Known(p) \subseteq 1..Len(born')
      /\ \A i \in Adds(p)' : down'[p][i].id \in 1..Len(born')
  BY <1>1, <1>4 DEF Told
<1>6. /\ loading'[p] \intersect DOMAIN shown'[p] = {}
      /\ \A i \in Adds(p)' : \A e \in Known(p)' : e < down'[p][i].id
      /\ \A i, j \in Adds(p)' : i < j => down'[p][i].id < down'[p][j].id
  BY <1>1, <1>2 DEF Told
<1>7. ASSUME NEW i \in Updates(p)', NEW j \in Adds(p)', i < j
      PROVE  down'[p][i].id < down'[p][j].id
  <2>1. \A k \in 1..Len(t) : ~(Len(s) + k < j)
    BY <1>1
  <2>2. i \in Updates(p)
    BY <1>1, <1>7, <2>1
  <2> QED
    BY <1>1, <1>7, <2>2 DEF Told
<1>8. ASSUME Listens(p)'
      PROVE  {down'[p][i].id : i \in Adds(p)'} \union Known(p)' = (joined'[p] + 1)..Len(born')
  <2>1. Listens(p)
    BY <1>8 DEF Listens
  <2>2. {down'[p][i].id : i \in Adds(p)'} = {down[p][i].id : i \in Adds(p)}
    BY <1>1
  <2> QED
    BY <1>2, <2>1, <2>2 DEF Told
<1> QED
  BY <1>2, <1>3, <1>5, <1>6, <1>7, <1>8 DEF Told

\* Positions are sent when they are computed.
LEMMA PlacedGrows ==
    ASSUME NEW p, NEW s \in Seq(Messages), NEW t \in Seq(Messages), Placed(p),
           down[p] = s, down'[p] = Join(s, t), shown'[p] = shown[p],
           simulated \in Nat, simulated' \in Nat, simulated <= simulated',
           born \in Seq(0..simulated), Len(born') \in Nat, Len(born) <= Len(born'),
           \A e \in 1..Len(born) : born'[e] = born[e],
           \A k \in 1..Len(t) : t[k].event = "UpdateEntity" =>
               t[k].id \in 1..Len(born) /\ t[k].at = simulated'
    PROVE  Placed(p)'
<1>1. /\ \A i \in Updates(p)' :
            i \in Updates(p) \/ \E k \in 1..Len(t) : i = Len(s) + k /\ t[k].event = "UpdateEntity"
      /\ Updates(p) \subseteq 1..Len(s)
      /\ \A i \in 1..Len(s) : down'[p][i] = down[p][i]
      /\ \A k \in 1..Len(t) : down'[p][Len(s) + k] = t[k]
  <2>1. /\ Updates(p) = At(s, "UpdateEntity")
        /\ Updates(p)' = At(Join(s, t), "UpdateEntity")
    BY DEF Updates, At
  <2>2. At(s, "UpdateEntity") \subseteq 1..Len(s)
    BY DEF At
  <2>3. \A i \in At(Join(s, t), "UpdateEntity") :
           \/ i \in At(s, "UpdateEntity")
           \/ \E k \in 1..Len(t) : i = Len(s) + k /\ t[k].event = "UpdateEntity"
    BY Places
  <2>4. /\ \A i \in 1..Len(s) : Join(s, t)[i] = s[i]
        /\ \A k \in 1..Len(t) : Join(s, t)[Len(s) + k] = t[k]
    BY Places
  <2> QED
    BY <2>1, <2>2, <2>3, <2>4
<1>2. \A e \in DOMAIN shown[p] : shown[p][e] \in 0..simulated
  BY DEF Placed
<1>3. \A i \in Updates(p) : s[i].at \in Nat /\ s[i].at <= simulated
  <2>1. \A m \in Messages : m.event = "UpdateEntity" => m.at \in Nat
    BY DEF Messages
  <2>2. \A i \in Updates(p) : s[i] \in Messages /\ s[i].event = "UpdateEntity"
    BY DEF Updates
  <2> QED
    BY <2>1, <2>2 DEF Placed
<1>4. \A e \in 1..Len(born) : born[e] \in 0..simulated /\ e \in 1..Len(born')
  OBVIOUS
<1> DEFINE Good(i) == /\ down'[p][i].id \in 1..Len(born')
                      /\ born'[down'[p][i].id] <= down'[p][i].at
                      /\ down'[p][i].at <= simulated'
                      /\ down'[p][i].id \in DOMAIN shown'[p] =>
                            shown'[p][down'[p][i].id] <= down'[p][i].at
<1>5. ASSUME NEW i \in Updates(p) PROVE Good(i)
  <2>1. down'[p][i] = s[i]
    BY <1>1
  <2>2. /\ s[i].id \in 1..Len(born) /\ born[s[i].id] <= s[i].at
        /\ s[i].id \in DOMAIN shown[p] => shown[p][s[i].id] <= s[i].at
    BY DEF Placed
  <2>3. s[i].at <= simulated'
    BY <1>3
  <2> QED
    BY <1>4, <2>1, <2>2, <2>3
<1>6. ASSUME NEW k \in 1..Len(t), t[k].event = "UpdateEntity" PROVE Good(Len(s) + k)
  <2>1. down'[p][Len(s) + k] = t[k] /\ t[k].id \in 1..Len(born) /\ t[k].at = simulated'
    BY <1>1, <1>6
  <2>2. born'[t[k].id] <= simulated' /\ t[k].id \in 1..Len(born')
    <3>1. born[t[k].id] \in 0..simulated /\ t[k].id \in 1..Len(born')
      BY <1>4, <2>1
    <3>2. born'[t[k].id] = born[t[k].id]
      BY <2>1
    <3>3. \A x \in 0..simulated : x <= simulated'
      OBVIOUS
    <3> QED
      BY <3>1, <3>2, <3>3
  <2>3. t[k].id \in DOMAIN shown[p] => shown[p][t[k].id] <= simulated'
    BY <1>2
  <2> QED
    BY <2>1, <2>2, <2>3
<1>7. \A i \in Updates(p)' : Good(i)
  BY <1>1, <1>5, <1>6
<1>8. ASSUME NEW i \in Updates(p)', NEW j \in Updates(p)', i < j
      PROVE  down'[p][i].at <= down'[p][j].at
  <2>1. CASE j \in Updates(p)
    <3>1. \A k \in 1..Len(t) : ~(Len(s) + k < j)
      BY <1>1, <2>1
    <3>2. i \in Updates(p)
      BY <1>1, <1>8, <3>1
    <3> QED
      BY <1>1, <1>8, <2>1, <3>2 DEF Placed
  <2>2. ASSUME NEW k \in 1..Len(t), t[k].event = "UpdateEntity", j = Len(s) + k
        PROVE  down'[p][i].at <= down'[p][j].at
    <3>1. down'[p][j].at = simulated'
      BY <1>1, <2>2
    <3>2. down'[p][i].at <= simulated'
      BY <1>7
    <3> QED
      BY <3>1, <3>2
  <2> QED
    BY <1>1, <2>1, <2>2
<1>9. \A e \in DOMAIN shown'[p] : shown'[p][e] \in 0..simulated'
  BY <1>2
<1> QED
  BY <1>7, <1>8, <1>9 DEF Placed

\* The first of a page's requests is handled.
LEMMA HandledIsNumbered ==
    ASSUME Types, NEW r \in Pages, Numbered(r), Handled(r)
    PROVE  /\ executed' \in [Pages -> Seq(Nat)] /\ up' \in [Pages -> Seq(Requested)]
           /\ \A q \in Pages \ {r} : executed'[q] = executed[q] /\ up'[q] = up[q]
           /\ session[r] = "open" /\ page[r] # "connecting"
           /\ Len(executed[r]) \in Nat /\ Len(executed'[r]) = Len(executed[r]) + 1
           /\ Request(r).id = Len(executed[r])
           /\ Request(r) \in Requested
           /\ RequestIds(up[r]) = RequestIds(up'[r]) \union {Len(executed[r])}
           /\ Numbered(r)'
<1> DEFINE x == executed[r]
           s == up[r]
           n == Len(x)
<1>1. /\ session[r] = "open" /\ s # <<>>
      /\ up' = [up EXCEPT ![r] = Tail(s)]
      /\ executed' = [executed EXCEPT ![r] = Append(x, Head(s).data.number)]
      /\ UNCHANGED <<page, issued, waiting, requestId>>
  BY DEF Handled, Request, apivars, Types
<1>2. /\ x \in Seq(Nat) /\ s \in Seq(Requested) /\ n \in Nat
      /\ requestId[r] \in Nat /\ issued[r] \in Nat
  BY DEF Types
<1>3. /\ Head(s) = s[1] /\ s[1] \in Requested
      /\ Tail(s) \in Seq(Requested)
      /\ Len(s) \in Nat \ {0}
      /\ Len(Tail(s)) = Len(s) - 1
      /\ \A i \in 1..(Len(s) - 1) : Tail(s)[i] = s[i + 1] /\ i + 1 \in 1..Len(s)
  BY <1>1, <1>2, Taken
<1> DEFINE t == Tail(s)
<1> HIDE DEF t
<1>4. /\ t \in Seq(Requested) /\ Len(t) = Len(s) - 1 /\ Len(t) \in Nat
      /\ \A i \in 1..Len(t) : t[i] = s[i + 1] /\ i + 1 \in 1..Len(s)
      /\ up' = [up EXCEPT ![r] = t]
  BY <1>1, <1>3 DEF t
<1>5. /\ \A i \in 1..n : x[i] = i
      /\ \A i \in 1..Len(s) : s[i].data.number = n + i /\ s[i].id = n + i - 1
      /\ n + Len(s) <= requestId[r]
      /\ requestId[r] <= issued[r]
      /\ page[r] = "connecting" => requestId[r] = 0
      /\ page[r] = "connected" => n + Len(s) = requestId[r] /\ requestId[r] = issued[r]
      /\ page[r] # "connecting" => waiting[r] = <<>>
      /\ \A i \in 1..Len(waiting[r]) : waiting[r][i].number = i
  BY DEF Numbered
<1>6. s[1].data.number = n + 1 /\ s[1].id = n
  BY <1>2, <1>3, <1>5
<1> DEFINE y == Append(x, n + 1)
<1>7. /\ y \in Seq(Nat) /\ Len(y) = n + 1
      /\ \A i \in 1..n : y[i] = x[i]
      /\ y[n + 1] = n + 1
  BY <1>2
<1>8. executed' = [executed EXCEPT ![r] = y]
  BY <1>1, <1>3, <1>6
<1> HIDE DEF y
<1>9. page[r] # "connecting"
  <2>1. \A a, b \in Nat : \A c \in Nat \ {0} : a + c <= b => b # 0
    OBVIOUS
  <2> QED
    BY <1>2, <1>3, <1>5, <2>1
<1>10. /\ executed' \in [Pages -> Seq(Nat)] /\ up' \in [Pages -> Seq(Requested)]
       /\ executed'[r] = y /\ up'[r] = t
       /\ \A q \in Pages \ {r} : executed'[q] = executed[q] /\ up'[q] = up[q]
  BY <1>4, <1>7, <1>8 DEF Types
<1>11. RequestIds(s) = RequestIds(t) \union {n}
  <2>1. ASSUME NEW z \in RequestIds(s) PROVE z \in RequestIds(t) \/ z = n
    <3>1. PICK i \in 1..Len(s) : z = s[i].id
      BY <2>1 DEF RequestIds
    <3>2. CASE i = 1
      BY <1>6, <3>1, <3>2
    <3>3. CASE i # 1
      <4>1. i - 1 \in 1..Len(t) /\ (i - 1) + 1 = i
        BY <1>3, <1>4, <3>3
      <4>2. t[i - 1] = s[i]
        BY <1>4, <4>1
      <4> QED
        BY <3>1, <4>1, <4>2 DEF RequestIds
    <3> QED
      BY <3>2, <3>3
  <2>2. ASSUME NEW z \in RequestIds(t) PROVE z \in RequestIds(s)
    BY <1>4, <2>2 DEF RequestIds
  <2>3. n \in RequestIds(s)
    BY <1>3, <1>6 DEF RequestIds
  <2> QED
    BY <2>1, <2>2, <2>3
<1>12. Numbered(r)'
  <2> HIDE DEF n, s, x
  <2>1. \A i \in 1..Len(y) : y[i] = i
    <3>1. \A i \in 1..(n + 1) : i \in 1..n \/ i = n + 1
      BY <1>2
    <3> QED
      BY <1>5, <1>7, <3>1
  <2>2. \A i \in 1..Len(t) : t[i].data.number = Len(y) + i /\ t[i].id = Len(y) + i - 1
    <3> SUFFICES ASSUME NEW i \in 1..Len(t)
                 PROVE  t[i].data.number = Len(y) + i /\ t[i].id = Len(y) + i - 1
      OBVIOUS
    <3>1. s[i + 1].data.number = n + (i + 1) /\ s[i + 1].id = n + (i + 1) - 1
      BY <1>4, <1>5
    <3>2. n + (i + 1) = Len(y) + i /\ n + (i + 1) - 1 = Len(y) + i - 1
      BY <1>2, <1>7
    <3>3. t[i] = s[i + 1]
      BY <1>4
    <3>4. s[i + 1].data.number = Len(y) + i /\ s[i + 1].id = Len(y) + i - 1
      BY <3>1, <3>2, Zenon
    <3> QED
      BY <3>3, <3>4
  <2>3. Len(y) + Len(t) = n + Len(s)
    BY <1>2, <1>3, <1>4, <1>7
  <2>4. /\ Len(y) + Len(t) <= requestId[r]
        /\ page[r] = "connected" => Len(y) + Len(t) = requestId[r] /\ requestId[r] = issued[r]
    BY <1>5, <2>3, Zenon
  <2>5. /\ executed'[r] = y /\ up'[r] = t /\ requestId'[r] = requestId[r]
        /\ issued'[r] = issued[r] /\ page'[r] = page[r] /\ waiting'[r] = waiting[r]
    BY <1>1, <1>10
  <2> QED
    BY <1>5, <1>9, <2>1, <2>2, <2>4, <2>5 DEF Numbered, n, s, x
<1>13. Request(r).id = n /\ Request(r) \in Requested
  BY <1>3, <1>6 DEF Request
<1> QED
  BY <1>1, <1>2, <1>7, <1>9, <1>10, <1>11, <1>12, <1>13

\* It is answered last of what is sent for it, unless the page is gone.
LEMMA HandledIsAnswered ==
    ASSUME NEW r \in Pages, NEW s \in Seq(Messages), NEW t \in Seq(Messages), Answered(r),
           NEW n \in Nat, n = Len(executed[r]), Len(executed'[r]) = n + 1,
           page[r] = "connected", page'[r] = page[r], callbacks'[r] = callbacks[r],
           RequestIds(up[r]) = RequestIds(up'[r]) \union {n},
           down[r] = s, down'[r] = Join(s, t),
           Len(t) \in Nat \ {0}, t[Len(t)].event = "answer", t[Len(t)].id = n,
           \A k \in 1..Len(t) : t[k].event = "answer" => k = Len(t)
    PROVE  Answered(r)'
<1> DEFINE u == Join(s, t)
           A == At(s, "answer")
           B == At(u, "answer")
           last == Len(s) + Len(t)
<1>1. Answers(r) = A /\ Answers(r)' = B
  <2>1. s \in Seq(Messages) /\ u \in Seq(Messages)
    BY JoinIsSeq
  <2> QED
    BY <2>1 DEF Answers, At
<1>2. /\ \A i \in 1..Len(s) : u[i] = s[i]
      /\ \A k \in 1..Len(t) : u[Len(s) + k] = t[k]
      /\ Len(s) \in Nat
  BY Places
<1>3. A \subseteq 1..Len(s) /\ A \subseteq B
  BY Places
<1>4. \A i \in B : i \in A \/ \E k \in 1..Len(t) : i = Len(s) + k /\ t[k].event = "answer"
  BY Places
<1>5. \A k \in 1..Len(t) : t[k].event = "answer" => Len(s) + k \in B
  BY Places
<1>6. last \in B /\ u[last].id = n
  BY <1>2, <1>5
<1>7. \A i \in B : i \in A \/ i = last
  BY <1>4
<1>8. \A i \in A : u[i] = s[i] /\ i \in Nat /\ i < last
  BY <1>2, <1>3
<1> HIDE DEF A, B, u, last
<1>9. /\ \A i \in A : s[i].id < n
      /\ \A i, j \in A : i < j => s[i].id < s[j].id
      /\ callbacks[r] = {s[i].id : i \in A} \union RequestIds(up[r])
  BY <1>1 DEF Answered, RequestIds
<1>10. \A i \in A : s[i].id \in Nat
  <2>1. \A m \in Messages : m.event = "answer" => m.id \in Nat
    BY DEF Messages
  <2>2. \A i \in A : s[i] \in Messages /\ s[i].event = "answer"
    BY DEF A, At
  <2> QED
    BY <2>1, <2>2
<1>11. \A i \in B : u[i].id < n + 1
  <2>1. \A i \in A : s[i].id < n + 1
    BY <1>9, <1>10
  <2> QED
    BY <1>6, <1>7, <1>8, <2>1
<1>12. ASSUME NEW i \in B, NEW j \in B, i < j PROVE u[i].id < u[j].id
  <2>1. i \in A
    <3>1. last \in Nat
      BY <1>2 DEF last
    <3> QED
      BY <1>7, <1>8, <1>12, <3>1
  <2> QED
    BY <1>6, <1>7, <1>8, <1>9, <2>1, <1>12
<1>13. {u[i].id : i \in B} = {s[i].id : i \in A} \union {n}
  BY <1>3, <1>6, <1>7, <1>8
<1>14. callbacks'[r] = {u[i].id : i \in B} \union RequestIds(up'[r])
  BY <1>9, <1>13
<1>15. down'[r] = u
  BY DEF u
<1> QED
  BY <1>1, <1>11, <1>12, <1>14, <1>15 DEF Answered, RequestIds

\* A new entity is announced, with an id above all others.
LEMMA ToldAdds ==
    ASSUME NEW p, NEW s \in Seq(Messages), NEW t \in Seq(Messages), Told(p), Placed(p),
           Listens(p), down[p] = s, down'[p] = Join(s, t),
           NEW n \in Nat, n = Len(born), Len(born') = n + 1,
           Len(t) \in Nat \ {0}, t[1].event = "AddEntity", t[1].id = n + 1,
           \A k \in 1..Len(t) : t[k].event = "AddEntity" => k = 1,
           \A k \in 1..Len(t) : t[k].event # "UpdateEntity",
           joined[p] \in Nat, joined[p] <= n,
           loading'[p] = loading[p], shown'[p] = shown[p], failed'[p] = failed[p],
           session'[p] = session[p], joined'[p] = joined[p], page'[p] = page[p]
    PROVE  Told(p)'
<1> DEFINE u == Join(s, t)
           A == At(s, "AddEntity")
           B == At(u, "AddEntity")
           U == At(s, "UpdateEntity")
           K == Known(p)
           next == Len(s) + 1
<1>1. /\ Adds(p) = A /\ Adds(p)' = B /\ Updates(p) = U
      /\ Updates(p)' = At(u, "UpdateEntity") /\ down'[p] = u
  BY DEF Adds, Updates, At
<1>2. At(u, "UpdateEntity") = U
  BY PlacesStay
<1>3. /\ \A i \in 1..Len(s) : u[i] = s[i]
      /\ \A k \in 1..Len(t) : u[Len(s) + k] = t[k]
      /\ Len(s) \in Nat
  BY Places
<1>4. A \subseteq 1..Len(s) /\ A \subseteq B
  BY Places
<1>5. \A i \in B : i \in A \/ \E k \in 1..Len(t) : i = Len(s) + k /\ t[k].event = "AddEntity"
  BY Places
<1>6. \A k \in 1..Len(t) : t[k].event = "AddEntity" => Len(s) + k \in B
  BY Places
<1>7. 1 \in 1..Len(t)
  OBVIOUS
<1>8. next \in B /\ u[next].id = n + 1 /\ next \in Nat
  BY <1>3, <1>6, <1>7
<1>9. \A i \in B : i \in A \/ i = next
  BY <1>5
<1>10. \A i \in A : u[i] = s[i] /\ i \in Nat /\ i < next
  BY <1>3, <1>4
<1>11. \A i \in U : u[i] = s[i] /\ i \in Nat /\ s[i].id \in 1..n
  <2>1. \A i \in U : i \in 1..Len(s)
    BY DEF At
  <2>2. \A i \in U : s[i].id \in 1..n
    BY <1>1 DEF Placed
  <2> QED
    BY <1>3, <2>1, <2>2
<1> HIDE DEF A, B, U, u, next
<1>12. /\ page[p] # "connected" => K = {}
       /\ page[p] # "gone"
       /\ K \subseteq 1..n
       /\ loading[p] \intersect DOMAIN shown[p] = {}
       /\ \A i \in A : s[i].id \in 1..n
       /\ \A i \in A : \A e \in K : e < s[i].id
       /\ \A i, j \in A : i < j => s[i].id < s[j].id
       /\ \A i \in U : \A j \in A : i < j => s[i].id < s[j].id
       /\ {s[i].id : i \in A} \union K = (joined[p] + 1)..n
  BY <1>1 DEF Told, Listens
<1>13. K' = K
  BY DEF Known
<1> HIDE DEF K
<1>14. \A i \in 1..n : i \in 1..(n + 1) /\ i < n + 1 /\ n + 1 \in 1..(n + 1)
  OBVIOUS
<1>15. K \subseteq 1..(n + 1) /\ \A i \in B : u[i].id \in 1..(n + 1)
  <2>1. n + 1 \in 1..(n + 1)
    OBVIOUS
  <2>2. \A i \in A : u[i].id \in 1..(n + 1)
    BY <1>10, <1>12, <1>14
  <2> QED
    BY <1>8, <1>9, <1>12, <1>14, <2>1, <2>2
<1>16. ASSUME NEW i \in B, NEW e \in K PROVE e < u[i].id
  <2>1. e < n + 1
    BY <1>12, <1>14
  <2> QED
    BY <1>8, <1>9, <1>10, <1>12, <2>1
<1>17. ASSUME NEW i \in B, NEW j \in B, i < j PROVE u[i].id < u[j].id
  <2>1. i \in A
    <3>1. j \in Nat /\ j <= next
      <4>1. CASE j = next
        BY <1>8, <4>1
      <4>2. CASE j \in A
        <5>1. j \in Nat /\ j < next
          BY <1>10, <4>2
        <5> QED
          BY <1>8, <5>1
      <4> QED
        BY <1>9, <4>1, <4>2
    <3>2. i # next
      BY <1>8, <1>17, <3>1
    <3> QED
      BY <1>9, <3>2
  <2>2. u[i].id < n + 1
    BY <1>10, <1>12, <1>14, <2>1
  <2> QED
    BY <1>8, <1>9, <1>10, <1>12, <1>17, <2>1, <2>2
<1>18. ASSUME NEW i \in U, NEW j \in B, i < j PROVE u[i].id < u[j].id
  <2>1. u[i].id < n + 1 /\ u[i] = s[i]
    BY <1>11, <1>14
  <2>2. CASE j = next
    BY <1>8, <2>1, <2>2
  <2>3. CASE j \in A
    <3>1. u[j] = s[j]
      BY <1>10, <2>3
    <3>2. s[i].id < s[j].id
      BY <1>12, <1>18, <2>3
    <3> QED
      BY <2>1, <3>1, <3>2
  <2> QED
    BY <1>9, <2>2, <2>3
<1>19. {u[i].id : i \in B} \union K = (joined[p] + 1)..(n + 1)
  <2>1. {u[i].id : i \in B} = {s[i].id : i \in A} \union {n + 1}
    <3>1. B = A \union {next}
      BY <1>4, <1>8, <1>9
    <3>2. {u[i].id : i \in A} = {s[i].id : i \in A}
      BY <1>10
    <3> QED
      BY <1>8, <3>1, <3>2
  <2>2. (joined[p] + 1)..(n + 1) = ((joined[p] + 1)..n) \union {n + 1}
    OBVIOUS
  <2> QED
    BY <1>12, <2>1, <2>2
<1>20. /\ page'[p] # "connected" => K = {}
       /\ page'[p] # "gone"
       /\ loading'[p] \intersect DOMAIN shown'[p] = {}
  BY <1>12
<1> QED
  BY <1>1, <1>2, <1>13, <1>15, <1>16, <1>17, <1>18, <1>19, <1>20 DEF Told, K

\* What the three commands have in common: T[q] is sent to q, which it tells.
LEMMA ServedKeeps ==
    ASSUME Inv, NEW r \in Pages, Handled(r),
           NEW T \in [Pages -> Seq(Messages)],
           down' = [q \in Pages |-> Join(down[q], T[q])],
           \A q \in Pages : ~Listens(q) => T[q] = <<>>,
           \A q \in Pages \ {r} : \A k \in 1..Len(T[q]) : T[q][k].event # "answer",
           Listens(r) =>
               /\ Len(T[r]) \in Nat \ {0} /\ T[r][Len(T[r])].event = "answer"
               /\ T[r][Len(T[r])].id = Request(r).id
               /\ \A k \in 1..Len(T[r]) : T[r][k].event = "answer" => k = Len(T[r]),
           simulated' \in Nat, simulated <= simulated',
           born' \in Seq(0..simulated'), Len(born) <= Len(born'),
           \A e \in 1..Len(born) : born'[e] = born[e],
           time' \in [Pages -> Nat], time'[r] <= clock - start[r],
           \A q \in Pages \ {r} : time'[q] = time[q],
           \A q \in Pages : \A k \in 1..Len(T[q]) :
               T[q][k].event = "UpdateEntity" =>
                   T[q][k].id \in 1..Len(born) /\ T[q][k].at = simulated',
           \A q \in Pages : Told(q)'
    PROVE  Inv'
<1>1. Types /\ \A p \in Pages : PageInv(p)
  BY DEF Inv
<1>2. /\ executed' \in [Pages -> Seq(Nat)] /\ up' \in [Pages -> Seq(Requested)]
      /\ \A q \in Pages \ {r} : executed'[q] = executed[q] /\ up'[q] = up[q]
      /\ session[r] = "open" /\ page[r] # "connecting"
      /\ Len(executed[r]) \in Nat /\ Len(executed'[r]) = Len(executed[r]) + 1
      /\ Request(r).id = Len(executed[r])
      /\ RequestIds(up[r]) = RequestIds(up'[r]) \union {Len(executed[r])}
      /\ Numbered(r)'
  BY <1>1, HandledIsNumbered DEF PageInv
<1>3. UNCHANGED <<clock, session, start, joined, page, issued, waiting, requestId, callbacks,
                  loading, shown, failed>>
  BY DEF Handled, apivars, viewvars
<1>4. \A q \in Pages : /\ down[q] \in Seq(Messages) /\ T[q] \in Seq(Messages)
                      /\ down'[q] = Join(down[q], T[q]) /\ down'[q] \in Seq(Messages)
  <2>1. \A q \in Pages : down[q] \in Seq(Messages) /\ T[q] \in Seq(Messages)
    BY <1>1 DEF Types
  <2> QED
    BY <2>1, JoinIsSeq
<1>5. Types'
  <2>1. down' \in [Pages -> Seq(Messages)]
    BY <1>4
  <2> QED
    BY <1>1, <1>2, <1>3, <2>1 DEF Types
<1>6. Len(born) \in Nat /\ Len(born') \in Nat /\ clock \in Nat
  BY <1>1, StepsAssumption DEF Types
<1>7. Join(<<>>, <<>>) = <<>>
  BY DEF Join
<1>8. ASSUME NEW q \in Pages PROVE Placed(q)'
  <2>1. Placed(q) /\ shown'[q] = shown[q]
    BY <1>1, <1>3 DEF PageInv
  <2>2. simulated \in Nat /\ born \in Seq(0..simulated)
    BY <1>1 DEF Types
  <2> QED
    BY <1>4, <1>6, <2>1, <2>2, PlacedGrows
<1>9. ASSUME NEW q \in Pages PROVE Clocked(q)'
  <2>1. Clocked(q) /\ joined[q] \in Nat
    BY <1>1 DEF PageInv, Types
  <2>2. /\ start'[q] = start[q] /\ joined'[q] = joined[q] /\ session'[q] = session[q]
        /\ page'[q] = page[q] /\ clock' = clock
    BY <1>3
  <2>3. start'[q] <= clock' /\ time'[q] <= clock' - start'[q]
    BY <2>1, <2>2 DEF Clocked
  <2>4. joined'[q] <= Len(born')
    BY <1>6, <2>1, <2>2 DEF Clocked
  <2>5. ASSUME session[q] = "none"
        PROVE  time'[q] = 0 /\ executed'[q] = <<>> /\ down'[q] = <<>> /\ page[q] # "connected"
    <3>1. q # r /\ T[q] = <<>>
      BY <1>2, <2>5 DEF Listens
    <3> QED
      BY <1>2, <1>4, <1>7, <2>1, <2>5, <3>1 DEF Clocked
  <2> QED
    BY <2>1, <2>2, <2>3, <2>4, <2>5 DEF Clocked
<1>10. ASSUME NEW q \in Pages PROVE Numbered(q)'
  <2>1. CASE q = r
    BY <1>2, <2>1
  <2>2. CASE q # r
    BY <1>1, <1>2, <1>3, <2>2, NumberedKept DEF PageInv
  <2> QED
    BY <2>1, <2>2
<1>11. ASSUME NEW q \in Pages PROVE Answered(q)'
  <2>1. Answered(q) /\ callbacks'[q] = callbacks[q] /\ page'[q] = page[q]
    BY <1>1, <1>3 DEF PageInv
  <2>2. CASE q # r
    <3>1. \A k \in 1..Len(T[q]) : T[q][k].event # "answer"
      BY <2>2
    <3>2. executed'[q] = executed[q] /\ up'[q] = up[q]
      BY <1>2, <2>2
    <3> QED
      BY <1>4, <2>1, <3>1, <3>2, AnsweredGrows
  <2>3. CASE q = r /\ page[r] = "connected"
    <3>1. Listens(r)
      BY <1>2, <2>3 DEF Listens
    <3>2. /\ Len(T[r]) \in Nat \ {0} /\ T[r][Len(T[r])].event = "answer"
          /\ T[r][Len(T[r])].id = Len(executed[r])
          /\ \A k \in 1..Len(T[r]) : T[r][k].event = "answer" => k = Len(T[r])
      BY <1>2, <3>1
    <3> QED
      BY <1>2, <1>4, <2>1, <2>3, <3>2, HandledIsAnswered
  <2>4. CASE q = r /\ page[r] # "connected"
    <3>1. page[r] = "gone"
      BY <1>1, <1>2, <2>4 DEF Types
    <3>2. down[r] = <<>> /\ T[r] = <<>>
      BY <1>1, <3>1 DEF PageInv, Told, Listens
    <3>3. down'[r] = <<>> /\ callbacks'[r] = {} /\ page'[r] # "connected"
      BY <1>4, <1>7, <2>1, <2>4, <3>1, <3>2 DEF Answered
    <3> QED
      BY <2>4, <3>3 DEF Answered, Answers
  <2> QED
    BY <2>2, <2>3, <2>4
<1> QED
  BY <1>5, <1>8, <1>9, <1>10, <1>11 DEF Inv, PageInv

\* What Broadcast tells each page.
LEMMA BroadcastIsJoined ==
    ASSUME Types, NEW r \in Pages, Request(r) \in Requested,
           NEW event \in Messages, down' = Broadcast(event, r, Answer(r))
    PROVE  /\ Answer(r) \in Messages /\ Answer(r).event = "answer"
           /\ Answer(r).id = Request(r).id
           /\ \E T \in [Pages -> Seq(Messages)] :
                 /\ down' = [q \in Pages |-> Join(down[q], T[q])]
                 /\ \A q \in Pages : ~Listens(q) => T[q] = <<>>
                 /\ \A q \in Pages : Listens(q) => Len(T[q]) \in Nat \ {0} /\ T[q][1] = event
                 /\ Listens(r) => Len(T[r]) = 2 /\ T[r][2] = Answer(r)
                 /\ \A q \in Pages : \A k \in 1..Len(T[q]) :
                       /\ Listens(q)
                       /\ \/ k = 1 /\ T[q][k] = event
                          \/ k = 2 /\ q = r /\ T[q][k] = Answer(r)
<1> DEFINE answer == Answer(r)
           T == [q \in Pages |-> IF ~Listens(q) THEN <<>>
                                 ELSE IF q = r THEN <<event, answer>>
                                 ELSE <<event>>]
<1>1. answer \in Messages /\ answer.event = "answer" /\ answer.id = Request(r).id
  BY DEF Messages, Answer, Requested
<1>2. down' = [q \in Pages |-> IF ~Listens(q) THEN down[q]
                               ELSE IF q = r THEN down[q] \o <<event, answer>>
                               ELSE Append(down[q], event)]
  BY DEF Broadcast
<1> HIDE DEF answer
<1>3. /\ \A q \in Pages : ~Listens(q) => T[q] = <<>>
      /\ \A q \in Pages \ {r} : Listens(q) => T[q] = <<event>>
      /\ Listens(r) => T[r] = <<event, answer>>
  OBVIOUS
<1>4. <<>> \in Seq(Messages) /\ <<event>> \in Seq(Messages) /\ <<event, answer>> \in Seq(Messages)
  BY <1>1
<1>5. T \in [Pages -> Seq(Messages)]
  BY <1>4
<1>6. down' = [q \in Pages |-> Join(down[q], T[q])]
  <2>1. ASSUME NEW q \in Pages
        PROVE  Join(down[q], T[q]) = IF ~Listens(q) THEN down[q]
                                     ELSE IF q = r THEN down[q] \o <<event, answer>>
                                     ELSE Append(down[q], event)
    <3>1. down[q] \in Seq(Messages)
      BY DEF Types
    <3>2. down[q] \o <<>> = down[q] /\ down[q] \o <<event>> = Append(down[q], event)
      BY <3>1
    <3> QED
      BY <1>3, <3>2 DEF Join
  <2> QED
    BY <1>2, <2>1
<1> HIDE DEF T
<1>7. /\ \A k \in 1..Len(<<event>>) : k = 1
      /\ \A k \in 1..Len(<<event, answer>>) : k = 1 \/ k = 2
      /\ Len(<<event>>) = 1 /\ Len(<<event, answer>>) = 2
      /\ <<event>>[1] = event /\ <<event, answer>>[1] = event /\ <<event, answer>>[2] = answer
      /\ 1..Len(<<>>) = {}
  OBVIOUS
<1>8. ASSUME NEW q \in Pages, NEW k \in 1..Len(T[q])
      PROVE  /\ Listens(q)
             /\ \/ k = 1 /\ T[q][k] = event
                \/ k = 2 /\ q = r /\ T[q][k] = answer
  <2>1. Listens(q)
    BY <1>3, <1>7, <1>8
  <2>2. CASE q = r
    <3>1. T[q] = <<event, answer>>
      BY <1>3, <2>1, <2>2
    <3>2. k = 1 \/ k = 2
      BY <1>7, <1>8, <3>1, Zenon
    <3> QED
      BY <1>7, <2>1, <2>2, <3>1, <3>2
  <2>3. CASE q # r
    <3>1. T[q] = <<event>>
      BY <1>3, <2>1, <2>3
    <3>2. k = 1
      BY <1>7, <1>8, <3>1, Zenon
    <3> QED
      BY <1>7, <2>1, <3>1, <3>2
  <2> QED
    BY <2>2, <2>3
<1>9. ASSUME NEW q \in Pages, Listens(q) PROVE Len(T[q]) \in Nat \ {0} /\ T[q][1] = event
  <2>1. CASE q = r
    BY <1>3, <1>7, <1>9, <2>1
  <2>2. CASE q # r
    BY <1>3, <1>7, <1>9, <2>2
  <2> QED
    BY <2>1, <2>2
<1>10. Listens(r) => Len(T[r]) = 2 /\ T[r][2] = answer
  BY <1>3, <1>7
<1>11. \A q \in Pages : ~Listens(q) => T[q] = <<>>
  BY <1>3
<1> QED
  BY <1>1, <1>5, <1>6, <1>8, <1>9, <1>10, <1>11 DEF answer

\* What CreateEntity and ScheduleTrip have in common.
LEMMA BroadcastKeeps ==
    ASSUME Inv, NEW r \in Pages, Handled(r),
           NEW event \in Messages, event.event \in {"AddEntity", "TripScheduled"},
           down' = Broadcast(event, r, Answer(r)),
           event.event = "AddEntity" => event.id = Len(born) + 1 /\ Len(born') = Len(born) + 1,
           event.event # "AddEntity" => born' = born,
           born' \in Seq(0..simulated), Len(born) <= Len(born'),
           \A e \in 1..Len(born) : born'[e] = born[e],
           simulated' = simulated, time' = time
    PROVE  Inv'
<1>1. Types /\ \A p \in Pages : PageInv(p)
  BY DEF Inv
<1> DEFINE n == Len(born)
           answer == Answer(r)
<1>2. n \in Nat /\ Len(born') \in Nat /\ simulated \in Nat
  BY <1>1 DEF Types
<1>3. Request(r) \in Requested
  BY <1>1, HandledIsNumbered DEF PageInv
<1>4. answer \in Messages /\ answer.event = "answer" /\ answer.id = Request(r).id
  BY <1>1, <1>3, BroadcastIsJoined
<1>5. PICK T \in [Pages -> Seq(Messages)] :
         /\ down' = [q \in Pages |-> Join(down[q], T[q])]
         /\ \A q \in Pages : ~Listens(q) => T[q] = <<>>
         /\ \A q \in Pages : Listens(q) => Len(T[q]) \in Nat \ {0} /\ T[q][1] = event
         /\ Listens(r) => Len(T[r]) = 2 /\ T[r][2] = answer
         /\ \A q \in Pages : \A k \in 1..Len(T[q]) :
               /\ Listens(q)
               /\ \/ k = 1 /\ T[q][k] = event
                  \/ k = 2 /\ q = r /\ T[q][k] = answer
  BY <1>1, <1>3, BroadcastIsJoined
<1> HIDE DEF answer
<1>6. ASSUME NEW q \in Pages PROVE Told(q)'
  <2>1. /\ Told(q) /\ Placed(q) /\ joined[q] \in Nat /\ joined[q] <= n
        /\ down[q] \in Seq(Messages) /\ T[q] \in Seq(Messages)
        /\ down'[q] = Join(down[q], T[q])
    BY <1>1, <1>5 DEF PageInv, Types, Clocked
  <2>2. /\ loading'[q] = loading[q] /\ shown'[q] = shown[q] /\ failed'[q] = failed[q]
        /\ session'[q] = session[q] /\ joined'[q] = joined[q] /\ page'[q] = page[q]
    BY DEF Handled, apivars, viewvars
  <2>3. CASE Listens(q) /\ event.event = "AddEntity"
    <3>1. Len(T[q]) \in Nat \ {0} /\ T[q][1] = event
      BY <1>5, <2>3
    <3>2. /\ \A k \in 1..Len(T[q]) : T[q][k].event = "AddEntity" => k = 1
          /\ \A k \in 1..Len(T[q]) : T[q][k].event # "UpdateEntity"
      BY <1>4, <1>5, <2>3
    <3>3. T[q][1].event = "AddEntity" /\ T[q][1].id = n + 1 /\ Len(born') = n + 1
      BY <2>3, <3>1
    <3> HIDE DEF n
    <3>4. n = Len(born)
      BY DEF n
    <3> QED
      BY <1>2, <2>1, <2>2, <2>3, <3>1, <3>2, <3>3, <3>4, ToldAdds
  <2>4. CASE ~Listens(q) \/ event.event # "AddEntity"
    <3>1. /\ ~Listens(q) => T[q] = <<>>
          /\ \A k \in 1..Len(T[q]) : T[q][k].event # "AddEntity"
          /\ page[q] = "gone" => T[q] = <<>>
      BY <1>4, <1>5, <2>4 DEF Listens
    <3>2. Listens(q) => Len(born') = Len(born)
      BY <2>4
    <3> QED
      BY <1>2, <2>1, <2>2, <3>1, <3>2, ToldGrows
  <2> QED
    BY <2>3, <2>4
<1>7. \A q \in Pages \ {r} : \A k \in 1..Len(T[q]) : T[q][k].event # "answer"
  BY <1>5
<1>8. ASSUME Listens(r)
      PROVE  /\ Len(T[r]) \in Nat \ {0} /\ T[r][Len(T[r])].event = "answer"
             /\ T[r][Len(T[r])].id = Request(r).id
             /\ \A k \in 1..Len(T[r]) : T[r][k].event = "answer" => k = Len(T[r])
  <2>1. Len(T[r]) = 2 /\ T[r][2] = answer
    BY <1>5, <1>8
  <2>2. \A k \in 1..Len(T[r]) : T[r][k].event = "answer" => k = 2
    BY <1>5
  <2> QED
    BY <1>4, <2>1, <2>2
<1>9. \A q \in Pages : \A k \in 1..Len(T[q]) : T[q][k].event = "UpdateEntity" =>
          T[q][k].id \in 1..Len(born) /\ T[q][k].at = simulated'
  <2>1. \A q \in Pages : \A k \in 1..Len(T[q]) : T[q][k].event # "UpdateEntity"
    BY <1>4, <1>5
  <2> QED
    BY <2>1
<1>10. time' \in [Pages -> Nat] /\ time'[r] <= clock - start[r]
  BY <1>1 DEF Types, PageInv, Clocked
<1>11. /\ simulated' \in Nat /\ simulated <= simulated' /\ born' \in Seq(0..simulated')
       /\ \A q \in Pages \ {r} : time'[q] = time[q]
  BY <1>2
<1>12. /\ down' = [q \in Pages |-> Join(down[q], T[q])]
       /\ \A q \in Pages : ~Listens(q) => T[q] = <<>>
  BY <1>5
<1> QED
  BY <1>6, <1>7, <1>8, <1>9, <1>10, <1>11, <1>12, ServedKeeps

LEMMA CreateEntityKeeps ==
    ASSUME Inv, NEW r \in Pages, CreateEntity(r)
    PROVE  Inv'
<1> DEFINE n == Len(born)
           event == [event |-> "AddEntity", id |-> n + 1]
<1>1. /\ Handled(r) /\ born' = Append(born, simulated) /\ simulated' = simulated /\ time' = time
      /\ down' = Broadcast([event |-> "AddEntity", id |-> Len(born')], r, Answer(r))
  BY DEF CreateEntity
<1>2. n \in Nat /\ born \in Seq(0..simulated) /\ simulated \in Nat
  BY DEF Inv, Types
<1>3. /\ born' \in Seq(0..simulated) /\ Len(born') = n + 1 /\ Len(born) <= Len(born')
      /\ \A e \in 1..Len(born) : born'[e] = born[e]
  BY <1>1, <1>2
<1>4. event \in Messages /\ event.event = "AddEntity" /\ event.id = n + 1
  BY <1>2 DEF Messages
<1>5. down' = Broadcast(event, r, Answer(r))
  BY <1>1, <1>3
<1> HIDE DEF event
<1> QED
  BY <1>1, <1>3, <1>4, <1>5, BroadcastKeeps

LEMMA ScheduleTripKeeps ==
    ASSUME Inv, NEW r \in Pages, ScheduleTrip(r)
    PROVE  Inv'
<1> DEFINE event == [event |-> "TripScheduled"]
<1>1. /\ Handled(r) /\ born' = born /\ simulated' = simulated /\ time' = time
      /\ down' = Broadcast(event, r, Answer(r))
  BY DEF ScheduleTrip, modelvars
<1>2. /\ born' \in Seq(0..simulated) /\ Len(born) <= Len(born')
      /\ \A e \in 1..Len(born) : born'[e] = born[e]
  BY <1>1 DEF Inv, Types
<1>3. event \in Messages /\ event.event = "TripScheduled"
  BY DEF Messages
<1> HIDE DEF event
<1> QED
  BY <1>1, <1>2, <1>3, BroadcastKeeps

\* A step that is not simulated at once goes beyond it by less than a fixed one.
LEMMA SimulatedBounds ==
    ASSUME NEW d \in Nat
    PROVE  Simulated(d) \in Nat /\ d <= Simulated(d) /\ Simulated(d) <= d + (FixedStep - 1)
<1>1. FixedStep \in Nat \ {0} /\ LongStep \in Nat
  BY StepsAssumption
<1>2. FixedStep * ((d + FixedStep - 1) \div FixedStep) \in d..(d + FixedStep - 1)
  BY <1>1, SMT
<1>3. \A x \in d..(d + FixedStep - 1) : x \in Nat /\ d <= x /\ x <= d + (FixedStep - 1)
  BY <1>1
<1>4. d \in d..(d + FixedStep - 1)
  BY <1>1
<1> QED
  BY <1>2, <1>3, <1>4 DEF Simulated

\* What Update does to the model and the session's clock.
LEMMA UpdateAdds ==
    ASSUME Inv, NEW r \in Pages, Update(r)
    PROVE  /\ Elapsed(r) \in Nat /\ time[r] \in Nat
           /\ time' = [time EXCEPT ![r] = time[r] + Elapsed(r)]
           /\ \E speed \in Speeds :
                 /\ speed * Elapsed(r) \in Nat
                 /\ simulated' = simulated + Simulated(speed * Elapsed(r))
<1>1. Types /\ PageInv(r) /\ Handled(r)
  BY DEF Inv, Update
<1>2. clock \in Nat /\ start[r] \in Nat /\ time[r] \in Nat
  BY <1>1, StepsAssumption DEF Types
<1>3. Elapsed(r) \in Nat
  BY <1>1, <1>2 DEF PageInv, Clocked, Elapsed
<1>4. Request(r) \in Requested
  BY <1>1, HandledIsNumbered DEF PageInv
<1>5. Command(r) \in Commands /\ Command(r).command = "Update"
  BY <1>4 DEF Command, Requested, NumberedCommands, Update
<1>6. Command(r).simSpeed \in Speeds
  BY <1>5 DEF Commands
<1>7. Command(r).simSpeed * Elapsed(r) \in Nat
  <2>1. \A a, b \in Nat : a * b \in Nat
    OBVIOUS
  <2> QED
    BY <1>3, <1>6, <2>1, StepsAssumption
<1>8. time' = [time EXCEPT ![r] = time[r] + Elapsed(r)]
  BY <1>1 DEF Update, Types
<1>9. simulated' = simulated + Simulated(Command(r).simSpeed * Elapsed(r))
  BY DEF Update
<1> QED
  BY <1>2, <1>3, <1>6, <1>7, <1>8, <1>9

LEMMA UpdateKeeps ==
    ASSUME Inv, NEW r \in Pages, Update(r)
    PROVE  Inv'
<1>1. Types /\ \A p \in Pages : PageInv(p)
  BY DEF Inv
<1> DEFINE n == Len(born)
           answer == Answer(r)
           at == simulated'
           U == [e \in 1..n |-> [event |-> "UpdateEntity", id |-> e, at |-> at]]
           t == IF Listens(r) THEN U \o <<answer>> ELSE <<>>
           T == [q \in Pages |-> IF q = r THEN t ELSE <<>>]
<1>2. /\ Handled(r) /\ born' = born
      /\ down' = IF ~Listens(r) THEN down
                 ELSE [down EXCEPT ![r] =
                         @ \o [e \in DOMAIN born |->
                                 [event |-> "UpdateEntity", id |-> e, at |-> simulated']]
                           \o <<answer>>]
  BY DEF Update, Entities
<1>3. n \in Nat /\ born \in Seq(0..simulated) /\ simulated \in Nat /\ DOMAIN born = 1..n
  BY <1>1 DEF Types
<1>4. simulated' \in Nat /\ simulated <= simulated'
  <2>1. PICK speed \in Speeds : /\ speed * Elapsed(r) \in Nat
                                /\ simulated' = simulated + Simulated(speed * Elapsed(r))
    BY UpdateAdds
  <2>2. Simulated(speed * Elapsed(r)) \in Nat
    BY <2>1, SimulatedBounds
  <2> QED
    BY <1>3, <2>1, <2>2
<1>5. time' \in [Pages -> Nat] /\ time'[r] = clock - start[r]
      /\ \A q \in Pages \ {r} : time'[q] = time[q]
  <2>1. clock \in Nat /\ start[r] \in Nat /\ time \in [Pages -> Nat]
    BY <1>1, StepsAssumption DEF Types
  <2>2. Elapsed(r) \in Nat /\ time[r] \in Nat
        /\ time' = [time EXCEPT ![r] = time[r] + Elapsed(r)]
    BY UpdateAdds
  <2>3. time[r] + Elapsed(r) = clock - start[r]
    BY <2>1, <2>2 DEF Elapsed
  <2> QED
    BY <2>1, <2>2, <2>3
<1>6. Request(r) \in Requested
  BY <1>1, <1>2, HandledIsNumbered DEF PageInv
<1>7. answer \in Messages /\ answer.event = "answer" /\ answer.id = Request(r).id
  BY <1>6 DEF Messages, Answer, Requested
<1> HIDE DEF answer, at, n
<1>8. at \in Nat
  BY <1>4 DEF at
<1>9. U \in Seq(Messages) /\ Len(U) = n
  <2>1. \A e \in 1..n : [event |-> "UpdateEntity", id |-> e, at |-> at] \in Messages
    BY <1>3, <1>8 DEF Messages
  <2> QED
    BY <1>3, <2>1
<1>10. \A k \in 1..n : U[k].event = "UpdateEntity" /\ U[k].id = k /\ U[k].at = at
  OBVIOUS
<1> HIDE DEF U
<1>11. <<answer>> \in Seq(Messages) /\ Len(<<answer>>) = 1 /\ <<answer>>[1] = answer
  BY <1>7
<1> DEFINE V == Join(U, <<answer>>)
<1>12. V \in Seq(Messages) /\ Len(V) = n + 1
  BY <1>9, <1>11, Joined DEF Join
<1>13. (\A k \in 1..n : V[k] = U[k]) /\ V[n + 1] = answer
  <2>1. /\ \A k \in 1..Len(U) : V[k] = U[k]
        /\ \A k \in 1..Len(<<answer>>) : V[Len(U) + k] = <<answer>>[k]
    BY <1>9, <1>11, Places
  <2>2. 1 \in 1..Len(<<answer>>)
    BY <1>11
  <2> QED
    BY <1>9, <1>11, <2>1, <2>2
<1> HIDE DEF V
<1>14. \A k \in 1..Len(V) :
          \/ k \in 1..n /\ V[k].event = "UpdateEntity" /\ V[k].id = k /\ V[k].at = at
          \/ k = n + 1 /\ V[k] = answer
  <2>1. \A k \in 1..(n + 1) : k \in 1..n \/ k = n + 1
    BY <1>3
  <2> QED
    BY <1>10, <1>12, <1>13, <2>1
<1>15. t = IF Listens(r) THEN V ELSE <<>>
  BY DEF V, Join
<1> HIDE DEF t
<1>16. <<>> \in Seq(Messages) /\ 1..Len(<<>>) = {}
  OBVIOUS
<1>17. T \in [Pages -> Seq(Messages)] /\ T[r] = t /\ \A q \in Pages \ {r} : T[q] = <<>>
  BY <1>12, <1>15, <1>16
<1>18. down' = [q \in Pages |-> Join(down[q], T[q])]
  <2>1. \A q \in Pages : down[q] \in Seq(Messages) /\ down[q] = Join(down[q], <<>>)
    BY <1>1 DEF Types, Join
  <2>2. (down[r] \o U) \o <<answer>> = Join(down[r], V)
    <3>1. \A x, y, z \in Seq(Messages) : (x \o y) \o z = x \o (y \o z)
      OBVIOUS
    <3> QED
      BY <1>9, <1>11, <2>1, <3>1 DEF Join, V
  <2>3. down \in [Pages -> Seq(Messages)]
    BY <1>1 DEF Types
  <2>4. CASE Listens(r)
    <3>1. down' = [down EXCEPT ![r] = (down[r] \o U) \o <<answer>>]
      BY <1>2, <1>3, <2>3, <2>4 DEF U, at
    <3> QED
      BY <1>15, <1>17, <2>1, <2>2, <2>3, <2>4, <3>1
  <2>5. CASE ~Listens(r)
    BY <1>2, <1>15, <1>17, <2>1, <2>3, <2>5
  <2> QED
    BY <2>4, <2>5
<1> HIDE DEF T
<1>19. \A q \in Pages : ~Listens(q) => T[q] = <<>>
  BY <1>15, <1>17
<1>20. \A q \in Pages \ {r} : \A k \in 1..Len(T[q]) : T[q][k].event # "answer"
  BY <1>16, <1>17
<1>21. ASSUME Listens(r)
       PROVE  /\ Len(T[r]) \in Nat \ {0} /\ T[r][Len(T[r])].event = "answer"
              /\ T[r][Len(T[r])].id = Request(r).id
              /\ \A k \in 1..Len(T[r]) : T[r][k].event = "answer" => k = Len(T[r])
  <2>1. T[r] = V /\ Len(V) = n + 1 /\ n + 1 \in Nat \ {0} /\ n + 1 \in 1..Len(V)
    BY <1>3, <1>12, <1>15, <1>17, <1>21
  <2>2. V[n + 1].event = "answer" /\ V[n + 1].id = Request(r).id
    BY <1>7, <1>13
  <2>3. \A k \in 1..Len(V) : V[k].event = "answer" => k = n + 1
    BY <1>14
  <2> QED
    BY <2>1, <2>2, <2>3
<1>22. ASSUME NEW q \in Pages, NEW k \in 1..Len(T[q])
       PROVE  /\ T[q][k].event = "UpdateEntity" => T[q][k].id \in 1..n /\ T[q][k].at = at
              /\ T[q][k].event # "AddEntity"
  <2>1. q = r /\ T[q] = V
    BY <1>15, <1>16, <1>17, <1>22
  <2>2. k \in 1..Len(V)
    BY <1>22, <2>1
  <2> QED
    BY <1>7, <1>14, <2>1, <2>2
<1>23. ASSUME NEW q \in Pages PROVE Told(q)'
  <2>1. /\ Told(q) /\ down[q] \in Seq(Messages) /\ T[q] \in Seq(Messages)
        /\ down'[q] = Join(down[q], T[q])
    BY <1>1, <1>17, <1>18 DEF PageInv, Types
  <2>2. /\ loading'[q] = loading[q] /\ shown'[q] = shown[q] /\ failed'[q] = failed[q]
        /\ session'[q] = session[q] /\ joined'[q] = joined[q] /\ page'[q] = page[q]
    BY <1>2 DEF Handled, apivars, viewvars
  <2>3. /\ \A k \in 1..Len(T[q]) : T[q][k].event # "AddEntity"
        /\ page[q] = "gone" => T[q] = <<>>
    BY <1>19, <1>22 DEF Listens
  <2>4. Len(born) \in Nat /\ Len(born') \in Nat /\ Len(born) <= Len(born') /\ Len(born') = Len(born)
    BY <1>2, <1>3 DEF n
  <2> QED
    BY <2>1, <2>2, <2>3, <2>4, ToldGrows
<1>24. /\ born' \in Seq(0..simulated') /\ Len(born) <= Len(born')
       /\ \A e \in 1..Len(born) : born'[e] = born[e]
  <2>1. 0..simulated \subseteq 0..simulated'
    BY <1>3, <1>4
  <2>2. \A A, B : A \subseteq B => Seq(A) \subseteq Seq(B)
    OBVIOUS
  <2>3. born \in Seq(0..simulated')
    BY <1>3, <2>1, <2>2
  <2>4. Len(born) <= Len(born)
    BY <1>3 DEF n
  <2> QED
    BY <1>2, <2>3, <2>4
<1>25. time'[r] <= clock - start[r]
  BY <1>1, <1>5, StepsAssumption DEF Types
<1>26. \A q \in Pages : \A k \in 1..Len(T[q]) : T[q][k].event = "UpdateEntity" =>
          T[q][k].id \in 1..Len(born) /\ T[q][k].at = simulated'
  BY <1>22 DEF n, at
<1> QED
  BY <1>2, <1>4, <1>5, <1>17, <1>18, <1>19, <1>20, <1>21, <1>23, <1>24, <1>25, <1>26, ServedKeeps

(***************************************************************************)
(* The page.                                                               *)
(***************************************************************************)

\* Answers are taken in order, each with its callback.
LEMMA AnsweredTaken ==
    ASSUME NEW p, NEW s \in Seq(Messages), s # <<>>, Answered(p),
           down[p] = s, down'[p] = Rest(s),
           page[p] = "connected", page'[p] = page[p],
           executed'[p] = executed[p], up'[p] = up[p], Len(executed[p]) \in Nat,
           \A id \in RequestIds(up[p]) : id \in Nat /\ id >= Len(executed[p]),
           s[1].event = "answer" => callbacks'[p] = callbacks[p] \ {s[1].id},
           s[1].event # "answer" => callbacks'[p] = callbacks[p]
    PROVE  Answered(p)'
<1> DEFINE u == Rest(s)
           A == At(s, "answer")
           B == At(u, "answer")
           R == RequestIds(up[p])
           n == Len(executed[p])
<1>1. /\ u \in Seq(Messages)
      /\ 1 \in A <=> s[1].event = "answer"
      /\ \A i \in B : i \in Nat \ {0} /\ i + 1 \in A /\ u[i] = s[i + 1]
      /\ \A i \in A : i \in Nat /\ (i = 1 \/ (i - 1 \in B /\ u[i - 1] = s[i]))
  BY PlacesTaken
<1>2. Answers(p) = A /\ Answers(p)' = B /\ down'[p] = u
  BY <1>1 DEF Answers, At
<1>3. \A i \in A : s[i].id \in Nat
  <2>1. \A m \in Messages : m.event = "answer" => m.id \in Nat
    BY DEF Messages
  <2>2. \A i \in A : s[i] \in Messages /\ s[i].event = "answer"
    BY DEF At
  <2> QED
    BY <2>1, <2>2
<1>4. \A i \in A : i \in 1..Len(s)
  BY DEF At
<1> HIDE DEF A, B, u, R, n
<1>5. /\ \A i \in A : s[i].id < n
      /\ \A i, j \in A : i < j => s[i].id < s[j].id
      /\ callbacks[p] = {s[i].id : i \in A} \union R
  BY <1>2 DEF Answered, RequestIds, R, n
<1>6. \A id \in R : id \in Nat /\ id >= n
  BY DEF R, n
<1>7. \A i \in B : u[i].id < n
  BY <1>1, <1>5
<1>8. ASSUME NEW i \in B, NEW j \in B, i < j PROVE u[i].id < u[j].id
  <2>1. i + 1 < j + 1 /\ i + 1 \in A /\ j + 1 \in A
    BY <1>1, <1>8
  <2> QED
    BY <1>1, <1>5, <2>1
<1>9. callbacks'[p] = {u[i].id : i \in B} \union R
  <2>1. CASE s[1].event = "answer"
    <3>1. \A i \in B : u[i].id \in {s[k].id : k \in A} /\ u[i].id # s[1].id
      <4> SUFFICES ASSUME NEW i \in B
                   PROVE  u[i].id \in {s[k].id : k \in A} /\ u[i].id # s[1].id
        OBVIOUS
      <4>1. i + 1 \in A /\ 1 \in A /\ 1 < i + 1 /\ u[i] = s[i + 1]
        BY <1>1, <2>1
      <4>2. s[1].id < s[i + 1].id /\ s[1].id \in Nat /\ s[i + 1].id \in Nat
        BY <1>3, <1>5, <4>1
      <4> QED
        BY <4>1, <4>2
    <3>2. \A k \in A : s[k].id = s[1].id \/ \E i \in B : s[k].id = u[i].id
      BY <1>1
    <3>3. s[1].id \notin R
      <4>1. 1 \in A /\ s[1].id < n /\ s[1].id \in Nat
        BY <1>1, <1>3, <1>5, <2>1
      <4>2. n \in Nat
        BY DEF n
      <4> QED
        BY <1>6, <4>1, <4>2
    <3>4. callbacks'[p] = ({s[k].id : k \in A} \union R) \ {s[1].id}
      BY <1>5, <2>1
    <3> QED
      BY <3>1, <3>2, <3>3, <3>4
  <2>2. CASE s[1].event # "answer"
    <3>1. {u[i].id : i \in B} = {s[k].id : k \in A}
      <4>1. \A i \in B : u[i].id \in {s[k].id : k \in A}
        BY <1>1
      <4>2. \A k \in A : k - 1 \in B /\ s[k].id = u[k - 1].id
        BY <1>1, <2>2
      <4> QED
        BY <4>1, <4>2
    <3> QED
      BY <1>5, <2>2, <3>1
  <2> QED
    BY <2>1, <2>2
<1>10. RequestIds(up'[p]) = R /\ Len(executed'[p]) = n
  BY DEF R, n
<1> QED
  BY <1>2, <1>7, <1>8, <1>9, <1>10 DEF Answered, RequestIds

\* An announcement that is taken is known from then on.
LEMMA ToldTaken ==
    ASSUME NEW p, NEW s \in Seq(Messages), s # <<>>, Told(p),
           down[p] = s, down'[p] = Rest(s), Len(born) \in Nat, born' = born,
           page[p] = "connected", page'[p] = page[p],
           session'[p] = session[p], joined'[p] = joined[p],
           s[1].event = "AddEntity" => Known(p)' = Known(p) \union {s[1].id},
           s[1].event # "AddEntity" => Known(p)' = Known(p),
           loading'[p] \intersect DOMAIN shown'[p] = {}
    PROVE  Told(p)'
<1> DEFINE u == Rest(s)
           A == At(s, "AddEntity")
           B == At(u, "AddEntity")
           U == At(s, "UpdateEntity")
           V == At(u, "UpdateEntity")
           K == Known(p)
           L == Known(p)'
           n == Len(born)
<1>1. /\ 1 \in A <=> s[1].event = "AddEntity"
      /\ \A i \in B : i \in Nat \ {0} /\ i + 1 \in A /\ u[i] = s[i + 1]
      /\ \A i \in A : i \in Nat /\ (i = 1 \/ (i - 1 \in B /\ u[i - 1] = s[i]))
  BY PlacesTaken
<1>2. \A i \in V : i \in Nat \ {0} /\ i + 1 \in U /\ u[i] = s[i + 1]
  BY PlacesTaken
<1>3. /\ Adds(p) = A /\ Adds(p)' = B /\ Updates(p) = U /\ Updates(p)' = V /\ down'[p] = u
  BY DEF Adds, Updates, At
<1> HIDE DEF A, B, U, V, u, K, n
<1>4. /\ K \subseteq 1..n
      /\ \A i \in A : s[i].id \in 1..n
      /\ \A i \in A : \A e \in K : e < s[i].id
      /\ \A i, j \in A : i < j => s[i].id < s[j].id
      /\ \A i \in U : \A j \in A : i < j => s[i].id < s[j].id
      /\ Listens(p) => {s[i].id : i \in A} \union K = (joined[p] + 1)..n
  BY <1>3 DEF Told, K, n
<1>5. /\ s[1].event = "AddEntity" => L = K \union {s[1].id}
      /\ s[1].event # "AddEntity" => L = K
  BY DEF K
<1> HIDE DEF L
<1>6. L \subseteq 1..n /\ \A i \in B : u[i].id \in 1..n
  BY <1>1, <1>4, <1>5
<1>7. ASSUME NEW i \in B, NEW e \in L PROVE e < u[i].id
  <2>1. i + 1 \in A /\ 1 < i + 1 /\ u[i] = s[i + 1]
    BY <1>1
  <2>2. CASE e \in K
    BY <1>4, <2>1, <2>2
  <2>3. CASE e \notin K
    <3>1. 1 \in A /\ e = s[1].id
      BY <1>1, <1>5, <1>7, <2>3
    <3> QED
      BY <1>4, <2>1, <3>1
  <2> QED
    BY <2>2, <2>3
<1>8. ASSUME NEW i \in B, NEW j \in B, i < j PROVE u[i].id < u[j].id
  <2>1. i + 1 < j + 1 /\ i + 1 \in A /\ j + 1 \in A
    BY <1>1, <1>8
  <2> QED
    BY <1>1, <1>4, <2>1
<1>9. ASSUME NEW i \in V, NEW j \in B, i < j PROVE u[i].id < u[j].id
  <2>1. i + 1 < j + 1 /\ i + 1 \in U /\ j + 1 \in A
    BY <1>1, <1>2, <1>9
  <2> QED
    BY <1>1, <1>2, <1>4, <2>1
<1>10. {u[i].id : i \in B} \union L = {s[i].id : i \in A} \union K
  <2>1. CASE s[1].event = "AddEntity"
    <3>1. \A i \in B : u[i].id \in {s[k].id : k \in A}
      BY <1>1
    <3>2. \A k \in A : s[k].id = s[1].id \/ \E i \in B : s[k].id = u[i].id
      BY <1>1
    <3>3. 1 \in A /\ L = K \union {s[1].id}
      BY <1>1, <1>5, <2>1
    <3> QED
      BY <3>1, <3>2, <3>3
  <2>2. CASE s[1].event # "AddEntity"
    <3>1. {u[i].id : i \in B} = {s[k].id : k \in A}
      <4>1. \A i \in B : u[i].id \in {s[k].id : k \in A}
        BY <1>1
      <4>2. \A k \in A : k - 1 \in B /\ s[k].id = u[k - 1].id
        BY <1>1, <2>2
      <4> QED
        BY <4>1, <4>2
    <3> QED
      BY <1>5, <2>2, <3>1
  <2> QED
    BY <2>1, <2>2
<1>11. Listens(p)' => {u[i].id : i \in B} \union L = (joined[p] + 1)..n
  BY <1>4, <1>10 DEF Listens
<1>12. Len(born') = n /\ joined'[p] = joined[p] /\ page'[p] = "connected"
  BY DEF n
<1> QED
  BY <1>3, <1>6, <1>7, <1>8, <1>9, <1>11, <1>12 DEF Told, L

\* A position that is taken is no later than those that follow.
LEMMA PlacedTaken ==
    ASSUME NEW p, NEW s \in Seq(Messages), s # <<>>, Placed(p),
           down[p] = s, down'[p] = Rest(s), born' = born,
           simulated \in Nat, simulated' = simulated,
           \A e \in DOMAIN shown'[p] :
              /\ e \in DOMAIN shown[p]
              /\ \/ shown'[p][e] = shown[p][e]
                 \/ s[1].event = "UpdateEntity" /\ shown'[p][e] = s[1].at
    PROVE  Placed(p)'
<1> DEFINE u == Rest(s)
           U == At(s, "UpdateEntity")
           V == At(u, "UpdateEntity")
<1>1. /\ 1 \in U <=> s[1].event = "UpdateEntity"
      /\ \A i \in V : i \in Nat \ {0} /\ i + 1 \in U /\ u[i] = s[i + 1]
  BY PlacesTaken
<1>2. Updates(p) = U /\ Updates(p)' = V /\ down'[p] = u
  BY DEF Updates, At
<1>3. \A i \in U : s[i].at \in Nat
  <2>1. \A m \in Messages : m.event = "UpdateEntity" => m.at \in Nat
    BY DEF Messages
  <2>2. \A i \in U : s[i] \in Messages /\ s[i].event = "UpdateEntity"
    BY DEF At
  <2> QED
    BY <2>1, <2>2
<1> HIDE DEF U, V, u
<1>4. /\ \A i \in U :
            /\ s[i].id \in 1..Len(born)
            /\ born[s[i].id] <= s[i].at
            /\ s[i].at <= simulated
            /\ s[i].id \in DOMAIN shown[p] => shown[p][s[i].id] <= s[i].at
      /\ \A i, j \in U : i < j => s[i].at <= s[j].at
      /\ \A e \in DOMAIN shown[p] : shown[p][e] \in 0..simulated
  BY <1>2 DEF Placed
<1>5. ASSUME NEW i \in V
      PROVE  /\ u[i].id \in 1..Len(born)
             /\ born[u[i].id] <= u[i].at
             /\ u[i].at <= simulated
             /\ u[i].id \in DOMAIN shown'[p] => shown'[p][u[i].id] <= u[i].at
  <2>1. i + 1 \in U /\ u[i] = s[i + 1] /\ 1 < i + 1
    BY <1>1
  <2>2. ASSUME u[i].id \in DOMAIN shown'[p] PROVE shown'[p][u[i].id] <= u[i].at
    <3>1. CASE shown'[p][u[i].id] = shown[p][u[i].id]
      BY <1>4, <2>1, <2>2, <3>1
    <3>2. CASE s[1].event = "UpdateEntity" /\ shown'[p][u[i].id] = s[1].at
      BY <1>1, <1>4, <2>1, <3>2
    <3> QED
      BY <2>2, <3>1, <3>2
  <2> QED
    BY <1>4, <2>1, <2>2
<1>6. ASSUME NEW i \in V, NEW j \in V, i < j PROVE u[i].at <= u[j].at
  <2>1. i + 1 < j + 1 /\ i + 1 \in U /\ j + 1 \in U
    BY <1>1, <1>6
  <2> QED
    BY <1>1, <1>4, <2>1
<1>7. ASSUME NEW e \in DOMAIN shown'[p] PROVE shown'[p][e] \in 0..simulated
  <2>1. CASE shown'[p][e] = shown[p][e]
    BY <1>4, <1>7, <2>1
  <2>2. CASE s[1].event = "UpdateEntity" /\ shown'[p][e] = s[1].at
    BY <1>1, <1>3, <1>4, <2>2
  <2> QED
    BY <2>1, <2>2
<1> QED
  BY <1>2, <1>5, <1>6, <1>7 DEF Placed

\* What the page's steps with a message have in common.
LEMMA ReceivedKeeps ==
    ASSUME Inv, NEW r \in Pages, Received(r),
           callbacks' \in [Pages -> SUBSET Nat],
           loading' \in [Pages -> SUBSET Nat], failed' \in [Pages -> SUBSET Nat],
           shown' \in [Pages -> Positions],
           \A q \in Pages \ {r} : /\ callbacks'[q] = callbacks[q] /\ loading'[q] = loading[q]
                                  /\ shown'[q] = shown[q] /\ failed'[q] = failed[q],
           Message(r).event = "answer" => callbacks'[r] = callbacks[r] \ {Message(r).id},
           Message(r).event # "answer" => callbacks'[r] = callbacks[r],
           Message(r).event = "AddEntity" => Known(r)' = Known(r) \union {Message(r).id},
           Message(r).event # "AddEntity" => Known(r)' = Known(r),
           loading'[r] \intersect DOMAIN shown'[r] = {},
           \A e \in DOMAIN shown'[r] :
              /\ e \in DOMAIN shown[r]
              /\ \/ shown'[r][e] = shown[r][e]
                 \/ Message(r).event = "UpdateEntity" /\ shown'[r][e] = Message(r).at
    PROVE  Inv'
<1> DEFINE s == down[r]
<1>1. Types /\ \A p \in Pages : PageInv(p)
  BY DEF Inv
<1>2. /\ page[r] = "connected" /\ s # <<>>
      /\ down' = [down EXCEPT ![r] = Rest(s)]
      /\ UNCHANGED <<clock, simulated, born, session, start, time, joined, executed, page,
                     issued, waiting, requestId, up>>
  BY <1>1 DEF Received, modelvars, sessionvars, Rest, Types
<1>3. s \in Seq(Messages)
  BY <1>1 DEF Types
<1>4. Rest(s) \in Seq(Messages) /\ Message(r) = s[1]
  BY <1>2, <1>3, PlacesTaken DEF Message
<1>5. /\ down' \in [Pages -> Seq(Messages)] /\ down'[r] = Rest(s)
      /\ \A q \in Pages \ {r} : down'[q] = down[q]
  BY <1>1, <1>2, <1>4 DEF Types
<1>6. Types'
  BY <1>1, <1>2, <1>5 DEF Types
<1>7. ASSUME NEW p \in Pages, p # r PROVE PageInv(p)'
  <2>1. Same(p) /\ clock <= clock' /\ UNCHANGED modelvars
    BY <1>1, <1>2, <1>5, <1>7 DEF Same, Types, modelvars
  <2> QED
    BY <2>1, <1>1, <1>6, PageKept
<1>8. PageInv(r) /\ Len(born) \in Nat /\ simulated \in Nat /\ Len(executed[r]) \in Nat
  BY <1>1 DEF Types
<1>9. Clocked(r)'
  BY <1>2, <1>8 DEF PageInv, Clocked
<1>10. Numbered(r)'
  BY <1>2, <1>8, NumberedKept DEF PageInv
<1>11. Answered(r)'
  <2>1. \A id \in RequestIds(up[r]) : id \in Nat /\ id >= Len(executed[r])
    <3> SUFFICES ASSUME NEW i \in 1..Len(up[r])
                 PROVE  up[r][i].id \in Nat /\ up[r][i].id >= Len(executed[r])
      BY DEF RequestIds
    <3>1. up[r][i].id = Len(executed[r]) + i - 1
      BY <1>8 DEF PageInv, Numbered
    <3>2. i \in Nat \ {0}
      OBVIOUS
    <3>3. \A a \in Nat : \A b \in Nat \ {0} : a + b - 1 \in Nat /\ a + b - 1 >= a
      OBVIOUS
    <3> QED
      BY <1>8, <3>1, <3>2, <3>3
  <2>2. Answered(r)
    BY <1>8 DEF PageInv
  <2> HIDE DEF s
  <2> QED
    BY <1>2, <1>3, <1>4, <1>5, <1>8, <2>1, <2>2, AnsweredTaken DEF s
<1>12. Told(r)'
  BY <1>2, <1>3, <1>4, <1>5, <1>8, ToldTaken DEF PageInv
<1>13. Placed(r)'
  BY <1>2, <1>3, <1>4, <1>5, <1>8, PlacedTaken DEF PageInv
<1> QED
  BY <1>6, <1>7, <1>9, <1>10, <1>11, <1>12, <1>13 DEF Inv, PageInv

LEMMA MessageIsTyped ==
    ASSUME Types, NEW r \in Pages, Received(r)
    PROVE  /\ Message(r) \in Messages
           /\ Message(r).event \in {"answer", "AddEntity", "UpdateEntity"} => Message(r).id \in Nat
           /\ Message(r).event = "UpdateEntity" => Message(r).at \in Nat
<1>1. down[r] \in Seq(Messages) /\ down[r] # <<>>
  BY DEF Types, Received
<1>2. Message(r) \in Messages
  BY <1>1 DEF Message
<1> QED
  BY <1>2 DEF Messages

LEMMA ReceiveAnswerKeeps ==
    ASSUME Inv, NEW r \in Pages, ReceiveAnswer(r)
    PROVE  Inv'
<1>1. /\ Received(r) /\ Message(r).event = "answer"
      /\ callbacks' = [callbacks EXCEPT ![r] = @ \ {Message(r).id}]
      /\ loading' = loading /\ shown' = shown /\ failed' = failed
  BY DEF ReceiveAnswer, viewvars
<1>2. Types /\ Told(r)
  BY DEF Inv, PageInv
<1>3. /\ callbacks' \in [Pages -> SUBSET Nat]
      /\ loading' \in [Pages -> SUBSET Nat] /\ failed' \in [Pages -> SUBSET Nat]
      /\ shown' \in [Pages -> Positions]
      /\ callbacks'[r] = callbacks[r] \ {Message(r).id}
      /\ \A q \in Pages \ {r} : callbacks'[q] = callbacks[q]
  BY <1>1, <1>2 DEF Types
<1>4. Known(r)' = Known(r) /\ loading'[r] \intersect DOMAIN shown'[r] = {}
  BY <1>1, <1>2 DEF Known, Told
<1> QED
  BY <1>1, <1>3, <1>4, ReceivedKeeps

LEMMA ReceiveTripKeeps ==
    ASSUME Inv, NEW r \in Pages, ReceiveTrip(r)
    PROVE  Inv'
<1>1. /\ Received(r) /\ Message(r).event = "TripScheduled"
      /\ callbacks' = callbacks /\ loading' = loading /\ shown' = shown /\ failed' = failed
  BY DEF ReceiveTrip, viewvars
<1>2. Types /\ Told(r)
  BY DEF Inv, PageInv
<1>3. /\ callbacks' \in [Pages -> SUBSET Nat]
      /\ loading' \in [Pages -> SUBSET Nat] /\ failed' \in [Pages -> SUBSET Nat]
      /\ shown' \in [Pages -> Positions]
  BY <1>1, <1>2 DEF Types
<1>4. Known(r)' = Known(r) /\ loading'[r] \intersect DOMAIN shown'[r] = {}
  BY <1>1, <1>2 DEF Known, Told
<1> QED
  BY <1>1, <1>3, <1>4, ReceivedKeeps

LEMMA ReceiveAddKeeps ==
    ASSUME Inv, NEW r \in Pages, ReceiveAdd(r)
    PROVE  Inv'
<1>1. /\ Received(r) /\ Message(r).event = "AddEntity"
      /\ loading' = [loading EXCEPT ![r] = @ \union {Message(r).id}]
      /\ callbacks' = callbacks /\ shown' = shown /\ failed' = failed
  BY DEF ReceiveAdd
<1>2. Types /\ Told(r)
  BY DEF Inv, PageInv
<1>3. Message(r).id \in Nat
  BY <1>1, <1>2, MessageIsTyped
<1>4. /\ callbacks' \in [Pages -> SUBSET Nat]
      /\ loading' \in [Pages -> SUBSET Nat] /\ failed' \in [Pages -> SUBSET Nat]
      /\ shown' \in [Pages -> Positions]
      /\ loading'[r] = loading[r] \union {Message(r).id}
      /\ \A q \in Pages \ {r} : loading'[q] = loading[q]
  BY <1>1, <1>2, <1>3 DEF Types
<1>5. Known(r)' = Known(r) \union {Message(r).id}
  BY <1>1, <1>4 DEF Known
<1>6. loading'[r] \intersect DOMAIN shown'[r] = {}
  <2>1. down[r] \in Seq(Messages) /\ down[r] # <<>>
    BY <1>1, <1>2 DEF Types, Received
  <2>2. 1 \in Adds(r) /\ Message(r) = down[r][1]
    <3>1. 1 \in 1..Len(down[r]) /\ Message(r) = down[r][1]
      BY <2>1 DEF Message
    <3> QED
      BY <1>1, <3>1 DEF Adds
  <2>3. \A e \in DOMAIN shown[r] : e < Message(r).id
    BY <1>2, <2>2 DEF Told, Known
  <2>4. Message(r).id \notin DOMAIN shown[r]
    BY <1>3, <2>3
  <2> QED
    BY <1>1, <1>2, <1>4, <2>4 DEF Told
<1> QED
  BY <1>1, <1>4, <1>5, <1>6, ReceivedKeeps

LEMMA ReceiveUpdateKeeps ==
    ASSUME Inv, NEW r \in Pages, ReceiveUpdate(r)
    PROVE  Inv'
<1>1. /\ Received(r) /\ Message(r).event = "UpdateEntity"
      /\ shown' = IF Message(r).id \in DOMAIN shown[r]
                  THEN [shown EXCEPT ![r][Message(r).id] = Message(r).at]
                  ELSE shown
      /\ callbacks' = callbacks /\ loading' = loading /\ failed' = failed
  BY DEF ReceiveUpdate
<1>2. Types /\ Told(r)
  BY DEF Inv, PageInv
<1>3. Message(r).at \in Nat
  BY <1>1, <1>2, MessageIsTyped
<1> DEFINE f == [shown[r] EXCEPT ![Message(r).id] = Message(r).at]
           g == IF Message(r).id \in DOMAIN shown[r] THEN f ELSE shown[r]
<1>4. shown' = [shown EXCEPT ![r] = g]
  BY <1>1, <1>2 DEF Types
<1>5. /\ DOMAIN g = DOMAIN shown[r]
      /\ \A e \in DOMAIN g : g[e] = shown[r][e] \/ g[e] = Message(r).at
  OBVIOUS
<1>6. g \in Positions
  <2>1. PICK E \in SUBSET Nat : shown[r] \in [E -> Nat]
    BY <1>2 DEF Types, Positions
  <2>2. g \in [E -> Nat]
    BY <1>3, <2>1
  <2> QED
    BY <2>2 DEF Positions
<1> HIDE DEF g
<1>7. /\ callbacks' \in [Pages -> SUBSET Nat]
      /\ loading' \in [Pages -> SUBSET Nat] /\ failed' \in [Pages -> SUBSET Nat]
      /\ shown' \in [Pages -> Positions]
      /\ shown'[r] = g
      /\ \A q \in Pages \ {r} : shown'[q] = shown[q]
  <2>1. /\ callbacks \in [Pages -> SUBSET Nat] /\ loading \in [Pages -> SUBSET Nat]
        /\ failed \in [Pages -> SUBSET Nat] /\ shown \in [Pages -> Positions]
    BY <1>2 DEF Types
  <2>2. /\ shown' \in [Pages -> Positions] /\ shown'[r] = g
        /\ \A q \in Pages \ {r} : shown'[q] = shown[q]
    BY <1>4, <1>6, <2>1
  <2> QED
    BY <1>1, <2>1, <2>2
<1>8. Known(r)' = Known(r) /\ loading'[r] \intersect DOMAIN shown'[r] = {}
  BY <1>1, <1>2, <1>5, <1>7 DEF Known, Told
<1> QED
  BY <1>1, <1>5, <1>7, <1>8, ReceivedKeeps

LEMMA LoadedKeeps ==
    ASSUME Inv, NEW r \in Pages, NEW e \in loading[r], Loaded(r, e)
    PROVE  Inv'
<1> DEFINE g == [x \in DOMAIN shown[r] \union {e} |-> IF x = e THEN born[e] ELSE shown[r][x]]
<1>1. Types /\ \A p \in Pages : PageInv(p)
  BY DEF Inv
<1>2. /\ shown' = [shown EXCEPT ![r] = g]
      /\ loading' = [loading EXCEPT ![r] = @ \ {e}]
      /\ UNCHANGED <<clock, simulated, born, session, start, time, joined, executed, page,
                     issued, waiting, requestId, callbacks, failed, up, down>>
  BY <1>1 DEF Loaded, modelvars, sessionvars, apivars, Types
<1>3. /\ born \in Seq(0..simulated) /\ simulated \in Nat /\ e \in 1..Len(born)
      /\ born[e] \in 0..simulated /\ e \notin DOMAIN shown[r] /\ e \in Nat
  <2>1. born \in Seq(0..simulated) /\ simulated \in Nat
    BY <1>1 DEF Types
  <2>2. e \in 1..Len(born) /\ e \notin DOMAIN shown[r]
    BY <1>1 DEF PageInv, Told, Known
  <2> QED
    BY <2>1, <2>2
<1>4. /\ DOMAIN g = DOMAIN shown[r] \union {e} /\ g[e] = born[e]
      /\ \A x \in DOMAIN shown[r] : g[x] = shown[r][x]
  BY <1>3
<1>5. g \in Positions
  <2>1. PICK E \in SUBSET Nat : shown[r] \in [E -> Nat]
    BY <1>1 DEF Types, Positions
  <2>2. g \in [E \union {e} -> Nat]
    BY <1>3, <2>1
  <2> QED
    BY <1>3, <2>2 DEF Positions
<1> HIDE DEF g
<1>6. /\ shown' \in [Pages -> Positions] /\ loading' \in [Pages -> SUBSET Nat]
      /\ shown'[r] = g /\ loading'[r] = loading[r] \ {e}
      /\ \A q \in Pages \ {r} : shown'[q] = shown[q] /\ loading'[q] = loading[q]
  BY <1>1, <1>2, <1>5 DEF Types
<1>7. Types'
  BY <1>1, <1>2, <1>6 DEF Types
<1>8. ASSUME NEW p \in Pages, p # r PROVE PageInv(p)'
  <2>1. Same(p) /\ clock <= clock' /\ UNCHANGED modelvars
    BY <1>1, <1>2, <1>6, <1>8 DEF Same, Types, modelvars
  <2> QED
    BY <2>1, <1>1, <1>7, PageKept
<1>9. Clocked(r)' /\ Numbered(r)' /\ Answered(r)'
  BY <1>1, <1>2, NumberedKept, AnsweredKept DEF PageInv, Clocked
<1>10. Told(r)'
  <2>1. Known(r)' = Known(r)
    BY <1>2, <1>4, <1>6 DEF Known
  <2>2. Adds(r)' = Adds(r) /\ Updates(r)' = Updates(r) /\ Listens(r)' = Listens(r)
    BY <1>2 DEF Adds, Updates, Listens
  <2>3. Told(r)
    BY <1>1 DEF PageInv
  <2>4. loading'[r] \intersect DOMAIN shown'[r] = {}
    BY <1>4, <1>6, <2>3 DEF Told
  <2> QED
    BY <1>2, <2>1, <2>2, <2>3, <2>4 DEF Told
<1>11. Placed(r)'
  <2>1. Placed(r) /\ Updates(r)' = Updates(r)
    BY <1>1, <1>2 DEF PageInv, Updates
  <2> QED
    BY <1>2, <1>3, <1>4, <1>6, <2>1 DEF Placed
<1> QED
  BY <1>7, <1>8, <1>9, <1>10, <1>11 DEF Inv, PageInv

LEMMA LoadFailsKeeps ==
    ASSUME Inv, NEW r \in Pages, NEW e \in loading[r], LoadFails(r, e)
    PROVE  Inv'
<1>1. Types /\ \A p \in Pages : PageInv(p)
  BY DEF Inv
<1>2. /\ loading' = [loading EXCEPT ![r] = @ \ {e}]
      /\ failed' = [failed EXCEPT ![r] = @ \union {e}]
      /\ UNCHANGED <<clock, simulated, born, session, start, time, joined, executed, page,
                     issued, waiting, requestId, callbacks, shown, up, down>>
  BY DEF LoadFails, modelvars, sessionvars, apivars
<1>3. e \in Nat
  BY <1>1 DEF Types
<1>4. /\ loading' \in [Pages -> SUBSET Nat] /\ failed' \in [Pages -> SUBSET Nat]
      /\ loading'[r] = loading[r] \ {e} /\ failed'[r] = failed[r] \union {e}
      /\ \A q \in Pages \ {r} : loading'[q] = loading[q] /\ failed'[q] = failed[q]
  BY <1>1, <1>2, <1>3 DEF Types
<1>5. Types'
  BY <1>1, <1>2, <1>4 DEF Types
<1>6. ASSUME NEW p \in Pages, p # r PROVE PageInv(p)'
  <2>1. Same(p) /\ clock <= clock' /\ UNCHANGED modelvars
    BY <1>1, <1>2, <1>4, <1>6 DEF Same, Types, modelvars
  <2> QED
    BY <2>1, <1>1, <1>5, PageKept
<1>7. Clocked(r)' /\ Numbered(r)' /\ Answered(r)' /\ Placed(r)'
  BY <1>1, <1>2, NumberedKept, AnsweredKept, PlacedKept DEF PageInv, Clocked
<1>8. Told(r)'
  <2>1. Known(r)' = Known(r)
    BY <1>2, <1>4 DEF Known
  <2>2. Adds(r)' = Adds(r) /\ Updates(r)' = Updates(r) /\ Listens(r)' = Listens(r)
    BY <1>2 DEF Adds, Updates, Listens
  <2>3. Told(r)
    BY <1>1 DEF PageInv
  <2>4. loading'[r] \intersect DOMAIN shown'[r] = {}
    BY <1>2, <1>4, <2>3 DEF Told
  <2> QED
    BY <1>2, <2>1, <2>2, <2>3, <2>4 DEF Told
<1> QED
  BY <1>5, <1>6, <1>7, <1>8 DEF Inv, PageInv

(***************************************************************************)
(* The invariant, and what follows from it.                                *)
(***************************************************************************)

LEMMA StepKeeps == Inv /\ [Next]_vars => Inv'
<1> SUFFICES ASSUME Inv, [Next]_vars PROVE Inv'
  OBVIOUS
<1>1. CASE Tick
  BY <1>1, TickKeeps
<1>2. ASSUME NEW p \in Pages, NEW c \in Commands, SendCommand(p, c) PROVE Inv'
  BY <1>2, SendCommandKeeps
<1>3. ASSUME NEW p \in Pages, Connected(p) \/ Leave(p) PROVE Inv'
  BY <1>3, ConnectedKeeps, LeaveKeeps
<1>4. ASSUME NEW p \in Pages, OpenSession(p) \/ EndSession(p) PROVE Inv'
  BY <1>4, OpenSessionKeeps, EndSessionKeeps
<1>5. ASSUME NEW p \in Pages, Handle(p) PROVE Inv'
  BY <1>5, CreateEntityKeeps, ScheduleTripKeeps, UpdateKeeps DEF Handle
<1>6. ASSUME NEW p \in Pages, Receive(p) PROVE Inv'
  BY <1>6, ReceiveAnswerKeeps, ReceiveAddKeeps, ReceiveUpdateKeeps, ReceiveTripKeeps DEF Receive
<1>7. ASSUME NEW p \in Pages, NEW e \in loading[p], Loaded(p, e) \/ LoadFails(p, e) PROVE Inv'
  BY <1>7, LoadedKeeps, LoadFailsKeeps
<1>8. CASE UNCHANGED vars
  <2>1. Types' /\ UNCHANGED modelvars /\ clock <= clock'
    BY <1>8, StepsAssumption
       DEF Inv, Types, vars, modelvars, sessionvars, apivars, viewvars
  <2>2. \A p \in Pages : Same(p)
    BY <1>8 DEF Same, vars, modelvars, sessionvars, apivars, viewvars
  <2> QED
    BY <2>1, <2>2, PageKept DEF Inv
<1> QED
  BY <1>1, <1>2, <1>3, <1>4, <1>5, <1>6, <1>7, <1>8 DEF Next

\* What holds of every page holds always, however many of them come and go.
LEMMA Invariance == Spec => []Inv
<1>1. Init => Inv
  BY InvInit
<1>2. Inv /\ [Next]_vars => Inv'
  BY StepKeeps
<1> QED
  BY <1>1, <1>2, PTL DEF Spec

LEMMA ElementsDecide ==
    ASSUME NEW S, NEW R, NEW s \in Seq(S), \A i \in 1..Len(s) : s[i] \in R
    PROVE  s \in Seq(R)
OBVIOUS

LEMMA InvTypeOK == Inv => TypeOK
<1> SUFFICES ASSUME Inv PROVE TypeOK
  OBVIOUS
<1>1. Types
  BY DEF Inv
<1>2. ASSUME NEW p \in Pages
      PROVE  /\ time[p] \in 0..(clock - start[p])
             /\ joined[p] \in 0..Len(born)
             /\ waiting[p] \in Seq([number : 1..issued[p], details : Commands])
             /\ up[p] \in Seq([data : [number : 1..issued[p], details : Commands],
                               id : 0..(requestId[p] - 1)])
             /\ callbacks[p] \subseteq 0..(requestId[p] - 1)
             /\ loading[p] \union DOMAIN shown[p] \union failed[p] \subseteq Entities
             /\ \A e \in DOMAIN shown[p] : shown[p][e] \in 0..simulated
  <2> DEFINE n == Len(executed[p])
             s == up[p]
             w == waiting[p]
             q == requestId[p]
             m == issued[p]
  <2>1. PageInv(p)
    BY DEF Inv
  <2>2. /\ clock \in Nat /\ start[p] \in Nat /\ time[p] \in Nat /\ joined[p] \in Nat
        /\ n \in Nat /\ q \in Nat /\ m \in Nat
        /\ w \in Seq(NumberedCommands) /\ s \in Seq(Requested)
        /\ down[p] \in Seq(Messages) /\ born \in Seq(0..simulated)
    BY <1>1, StepsAssumption DEF Types
  <2>3. time[p] \in 0..(clock - start[p]) /\ joined[p] \in 0..Len(born)
    BY <2>1, <2>2 DEF PageInv, Clocked
  <2> HIDE DEF n, s, w, q, m
  <2>4. /\ \A i \in 1..Len(s) : s[i].data.number = n + i /\ s[i].id = n + i - 1
        /\ \A i \in 1..Len(w) : w[i].number = i
        /\ n + Len(s) <= q /\ q <= m
        /\ page[p] = "connecting" => m = Len(w)
        /\ page[p] # "connecting" => w = <<>>
    BY <2>1 DEF PageInv, Numbered, n, s, w, q, m
  <2>5. w \in Seq([number : 1..m, details : Commands])
    <3>1. ASSUME NEW i \in 1..Len(w) PROVE w[i] \in [number : 1..m, details : Commands]
      <4>1. w[i] \in NumberedCommands /\ w[i].number = i
        BY <2>2, <2>4
      <4>2. i \in 1..m
        <5>1. CASE page[p] = "connecting"
          BY <2>4, <5>1
        <5>2. CASE page[p] # "connecting"
          <6>1. 1..Len(<<>>) = {}
            OBVIOUS
          <6> QED
            BY <2>4, <5>2, <6>1
        <5> QED
          BY <5>1, <5>2
      <4> QED
        BY <4>1, <4>2 DEF NumberedCommands
    <3> QED
      BY <2>2, <3>1, ElementsDecide
  <2>6. ASSUME NEW i \in 1..Len(s)
        PROVE  s[i].data.number \in 1..m /\ s[i].id \in 0..(q - 1)
    <3>1. \A a, b, c, d \in Nat : \A k \in 1..b :
             a + b <= c /\ c <= d => a + k \in 1..d /\ a + k - 1 \in 0..(c - 1)
      OBVIOUS
    <3>2. n + i \in 1..m /\ n + i - 1 \in 0..(q - 1)
      <4>1. Len(s) \in Nat /\ n + Len(s) <= q /\ q <= m
        BY <2>2, <2>4
      <4> QED
        BY <2>2, <3>1, <4>1
    <3>3. s[i].data.number = n + i /\ s[i].id = n + i - 1
      BY <2>4
    <3> QED
      BY <3>2, <3>3
  <2>7. s \in Seq([data : [number : 1..m, details : Commands], id : 0..(q - 1)])
    <3>1. ASSUME NEW i \in 1..Len(s)
          PROVE  s[i] \in [data : [number : 1..m, details : Commands], id : 0..(q - 1)]
      <4>1. s[i] \in Requested
        BY <2>2
      <4> QED
        BY <4>1, <2>6 DEF Requested, NumberedCommands
    <3> QED
      BY <2>2, <3>1, ElementsDecide
  <2>8. callbacks[p] \subseteq 0..(q - 1)
    <3>1. ASSUME NEW i \in Answers(p) PROVE down[p][i].id \in 0..(q - 1)
      <4>1. down[p][i] \in Messages /\ down[p][i].event = "answer"
        BY <2>2 DEF Answers
      <4>2. down[p][i].id \in Nat
        BY <4>1 DEF Messages
      <4>3. down[p][i].id < n
        BY <2>1 DEF PageInv, Answered, n
      <4>4. \A a, b, c, d \in Nat : a < b /\ b + c <= d => a \in 0..(d - 1)
        OBVIOUS
      <4> QED
        BY <2>2, <2>4, <4>2, <4>3, <4>4
    <3>2. CASE page[p] = "connected"
      BY <2>1, <2>6, <3>1, <3>2 DEF PageInv, Answered, s
    <3>3. CASE page[p] # "connected"
      BY <2>1, <3>3 DEF PageInv, Answered
    <3> QED
      BY <3>2, <3>3
  <2>9. loading[p] \union DOMAIN shown[p] \union failed[p] \subseteq Entities
    <3>1. Entities = 1..Len(born)
      BY <2>2 DEF Entities
    <3> QED
      BY <2>1, <3>1 DEF PageInv, Told, Known
  <2>10. \A e \in DOMAIN shown[p] : shown[p][e] \in 0..simulated
    BY <2>1 DEF PageInv, Placed
  <2> QED
    BY <2>3, <2>5, <2>7, <2>8, <2>9, <2>10 DEF n, s, w, q, m
<1> QED
  BY <1>1, <1>2 DEF TypeOK, Types

LEMMA InvCallbacks == Inv => CallbacksMatchRequests
<1> SUFFICES ASSUME Inv, NEW p \in Pages, page[p] = "connected"
             PROVE  LET answered == [i \in Answers(p) |-> down[p][i].id]
                        asked == [i \in DOMAIN up[p] |-> up[p][i].id]
                    IN  /\ callbacks[p] = Range(answered) \union Range(asked)
                        /\ IsInjective(answered) /\ IsInjective(asked)
                        /\ Range(answered) \intersect Range(asked) = {}
  BY DEF CallbacksMatchRequests
<1> DEFINE answered == [i \in Answers(p) |-> down[p][i].id]
           asked == [i \in 1..Len(up[p]) |-> up[p][i].id]
           n == Len(executed[p])
<1>1. PageInv(p) /\ Types
  BY DEF Inv
<1>2. /\ down[p] \in Seq(Messages) /\ up[p] \in Seq(Requested) /\ n \in Nat
      /\ DOMAIN up[p] = 1..Len(up[p])
  BY <1>1 DEF Types
<1>3. \A i \in Answers(p) : i \in Nat /\ down[p][i].id \in Nat
  <2>1. \A i \in Answers(p) : i \in Nat /\ down[p][i] \in Messages /\ down[p][i].event = "answer"
    BY <1>2 DEF Answers
  <2>2. \A m \in Messages : m.event = "answer" => m.id \in Nat
    BY DEF Messages
  <2> QED
    BY <2>1, <2>2
<1> HIDE DEF n
<1>4. /\ \A i \in Answers(p) : down[p][i].id < n
      /\ \A i, j \in Answers(p) : i < j => down[p][i].id < down[p][j].id
      /\ \A i \in 1..Len(up[p]) : up[p][i].id = n + i - 1
      /\ callbacks[p] = {down[p][i].id : i \in Answers(p)} \union
                        {up[p][i].id : i \in 1..Len(up[p])}
  BY <1>1 DEF PageInv, Answered, Numbered, n
<1>5. \A i \in 1..Len(up[p]) : n + i - 1 \in Nat /\ n + i - 1 >= n /\ i \in Nat
  BY <1>2
<1>6. /\ Range(answered) = {down[p][i].id : i \in Answers(p)}
      /\ Range(asked) = {up[p][i].id : i \in 1..Len(up[p])}
  BY DEF Range
<1>7. IsInjective(answered)
  <2> SUFFICES ASSUME NEW i \in Answers(p), NEW j \in Answers(p), down[p][i].id = down[p][j].id
               PROVE  i = j
    BY DEF IsInjective
  <2>1. ~(i < j) /\ ~(j < i)
    BY <1>3, <1>4
  <2> QED
    BY <1>3, <2>1
<1>8. IsInjective(asked)
  <2> SUFFICES ASSUME NEW i \in 1..Len(up[p]), NEW j \in 1..Len(up[p]), up[p][i].id = up[p][j].id
               PROVE  i = j
    BY DEF IsInjective
  <2>1. n + i - 1 = n + j - 1
    BY <1>4
  <2> QED
    BY <1>2, <1>5, <2>1
<1>9. Range(answered) \intersect Range(asked) = {}
  <2> SUFFICES ASSUME NEW i \in Answers(p), NEW j \in 1..Len(up[p])
               PROVE  down[p][i].id # up[p][j].id
    BY <1>6
  <2>1. down[p][i].id < n /\ up[p][j].id >= n /\ up[p][j].id \in Nat
    BY <1>4, <1>5
  <2> QED
    BY <1>2, <1>3, <2>1
<1> QED
  BY <1>2, <1>4, <1>6, <1>7, <1>8, <1>9

LEMMA InvOrder == Inv => CommandsKeepOrder
<1> SUFFICES ASSUME Inv, NEW p \in Pages
             PROVE  executed[p] = [i \in 1..Len(executed[p]) |-> i]
  BY DEF CommandsKeepOrder
<1>1. executed[p] \in Seq(Nat) /\ \A i \in 1..Len(executed[p]) : executed[p][i] = i
  BY DEF Inv, Types, PageInv, Numbered
<1> QED
  BY <1>1

LEMMA InvKnown == Inv => PagesKnowEntities
<1> SUFFICES ASSUME Inv, NEW p \in Pages, Listens(p)
             PROVE  /\ Added(p) \union loading[p] \union DOMAIN shown[p] \union failed[p]
                          = (joined[p] + 1)..Len(born)
                    /\ \A i, j \in DOMAIN down[p] :
                          (down[p][i].event = "UpdateEntity" /\ down[p][j].event = "AddEntity"
                             /\ i < j) => down[p][i].id # down[p][j].id
  BY DEF PagesKnowEntities
<1>1. Told(p) /\ Placed(p) /\ down[p] \in Seq(Messages) /\ Len(born) \in Nat
  BY DEF Inv, PageInv, Types
<1>2. DOMAIN down[p] = 1..Len(down[p])
  BY <1>1
<1>3. Added(p) = {down[p][i].id : i \in Adds(p)}
  <2>1. ToSet(down[p]) = {down[p][i] : i \in 1..Len(down[p])}
    BY <1>2 DEF ToSet
  <2> QED
    BY <2>1 DEF Added, Adds
<1>4. Added(p) \union loading[p] \union DOMAIN shown[p] \union failed[p]
         = (joined[p] + 1)..Len(born)
  <2>1. {down[p][i].id : i \in Adds(p)} \union Known(p) = (joined[p] + 1)..Len(born)
    BY <1>1 DEF Told
  <2> QED
    BY <1>3, <2>1 DEF Known
<1>5. ASSUME NEW i \in 1..Len(down[p]), NEW j \in 1..Len(down[p]),
             down[p][i].event = "UpdateEntity", down[p][j].event = "AddEntity", i < j
      PROVE  down[p][i].id # down[p][j].id
  <2>1. i \in Updates(p) /\ j \in Adds(p)
    BY <1>5 DEF Updates, Adds
  <2>2. down[p][i].id < down[p][j].id
    BY <1>1, <1>5, <2>1 DEF Told
  <2>3. down[p][i].id \in 1..Len(born) /\ down[p][j].id \in 1..Len(born)
    BY <1>1, <2>1 DEF Placed, Told
  <2> QED
    BY <1>1, <2>2, <2>3
<1> QED
  BY <1>2, <1>4, <1>5

\* A page and its session agree: a connected page has one callback for each command that was
\* not answered, commands are handled in the order in which they were given, and a page
\* knows the entities created since its session was opened (WSApi.js, main.js,
\* transit_service.cc).
THEOREM SessionsConsistent == Spec => []SessionsAreConsistent
<1>1. Inv => SessionsAreConsistent
  BY InvTypeOK, InvCallbacks, InvOrder, InvKnown DEF SessionsAreConsistent
<1> QED
  BY <1>1, Invariance, PTL

LEMMA StepGoesNotBack ==
    ASSUME Inv, [Next]_vars
    PROVE  \A p \in Pages : \A e \in DOMAIN shown[p] \intersect DOMAIN shown'[p] :
              shown[p][e] <= shown'[p][e]
<1>1. Types /\ \A p \in Pages : PageInv(p)
  BY DEF Inv
<1>2. \A p \in Pages : \A e \in DOMAIN shown[p] : shown[p][e] \in Nat
  <2>1. simulated \in Nat
    BY <1>1 DEF Types
  <2> QED
    BY <1>1, <2>1 DEF PageInv, Placed
<1> DEFINE Goal == \A p \in Pages : \A e \in DOMAIN shown[p] \intersect DOMAIN shown'[p] :
                      shown[p][e] <= shown'[p][e]
<1>3. CASE shown' = shown
  BY <1>2, <1>3
<1>4. ASSUME NEW r \in Pages, ReceiveUpdate(r) PROVE Goal
  <2>1. /\ Received(r) /\ Message(r).event = "UpdateEntity"
        /\ shown' = IF Message(r).id \in DOMAIN shown[r]
                    THEN [shown EXCEPT ![r][Message(r).id] = Message(r).at]
                    ELSE shown
    BY <1>4 DEF ReceiveUpdate
  <2>2. CASE Message(r).id \notin DOMAIN shown[r]
    BY <1>2, <2>1, <2>2
  <2>3. CASE Message(r).id \in DOMAIN shown[r]
    <3>1. down[r] \in Seq(Messages) /\ down[r] # <<>>
      BY <1>1, <2>1 DEF Types, Received
    <3>2. 1 \in 1..Len(down[r]) /\ Message(r) = down[r][1]
      BY <3>1 DEF Message
    <3>3. 1 \in Updates(r)
      BY <2>1, <3>2 DEF Updates
    <3>4. shown[r][Message(r).id] <= Message(r).at
      BY <1>1, <2>3, <3>2, <3>3 DEF PageInv, Placed
    <3>5. /\ shown'[r] = [shown[r] EXCEPT ![Message(r).id] = Message(r).at]
          /\ \A q \in Pages \ {r} : shown'[q] = shown[q]
      BY <1>1, <2>1, <2>3 DEF Types
    <3>6. \A e \in DOMAIN shown[r] : shown[r][e] <= shown'[r][e]
      BY <1>2, <3>4, <3>5
    <3> QED
      BY <1>2, <3>5, <3>6
  <2> QED
    BY <2>2, <2>3
<1>5. ASSUME NEW r \in Pages, NEW e \in loading[r], Loaded(r, e) PROVE Goal
  <2>1. shown' = [shown EXCEPT ![r] =
                    [x \in DOMAIN @ \union {e} |-> IF x = e THEN born[e] ELSE @[x]]]
    BY <1>5 DEF Loaded
  <2>2. e \notin DOMAIN shown[r]
    BY <1>1 DEF PageInv, Told
  <2>3. /\ \A x \in DOMAIN shown[r] : shown'[r][x] = shown[r][x]
        /\ \A q \in Pages \ {r} : shown'[q] = shown[q]
    BY <1>1, <2>1, <2>2 DEF Types
  <2> QED
    BY <1>2, <2>3
<1>6. ASSUME NEW r \in Pages, Leave(r) PROVE Goal
  <2>1. shown' = [shown EXCEPT ![r] = <<>>]
    BY <1>6 DEF Leave
  <2>2. DOMAIN shown'[r] = {} /\ \A q \in Pages \ {r} : shown'[q] = shown[q]
    BY <1>1, <2>1 DEF Types
  <2> QED
    BY <1>2, <2>2
<1>7. \/ shown' = shown
      \/ \E r \in Pages : \/ ReceiveUpdate(r) \/ Leave(r)
                          \/ \E e \in loading[r] : Loaded(r, e)
  <2>1. CASE UNCHANGED vars
    BY <2>1 DEF vars, viewvars
  <2>2. CASE Tick
    BY <2>2 DEF Tick, viewvars
  <2>3. ASSUME NEW p \in Pages, NEW c \in Commands, SendCommand(p, c) PROVE shown' = shown
    BY <2>3 DEF SendCommand, viewvars
  <2>4. ASSUME NEW p \in Pages, Connected(p) \/ OpenSession(p) \/ EndSession(p)
        PROVE  shown' = shown
    BY <2>4 DEF Connected, OpenSession, EndSession, viewvars
  <2>5. ASSUME NEW p \in Pages, Handle(p) PROVE shown' = shown
    BY <2>5 DEF Handle, CreateEntity, ScheduleTrip, Update, Handled, viewvars
  <2>6. ASSUME NEW p \in Pages, Receive(p) PROVE shown' = shown \/ ReceiveUpdate(p)
    BY <2>6 DEF Receive, ReceiveAnswer, ReceiveAdd, ReceiveTrip, viewvars
  <2>7. ASSUME NEW p \in Pages, NEW e \in loading[p], LoadFails(p, e) PROVE shown' = shown
    BY <2>7 DEF LoadFails
  <2> QED
    BY <2>1, <2>2, <2>3, <2>4, <2>5, <2>6, <2>7 DEF Next
<1> QED
  BY <1>3, <1>4, <1>5, <1>6, <1>7

\* On no page does an entity go back in time: what is received is in order, and the mesh of
\* an entity is put where it was created before the first position it takes (main.js 54-60,
\* 424-466).
THEOREM NeverGoBack == Spec => PagesNeverGoBack
<1>1. Inv /\ [Next]_vars =>
         [\A p \in Pages : \A e \in DOMAIN shown[p] \intersect DOMAIN shown'[p] :
             shown[p][e] <= shown'[p][e]]_vars
  BY StepGoesNotBack
<1> QED
  BY <1>1, Invariance, PTL DEF Spec, PagesNeverGoBack

(***************************************************************************)
(* Sums.  That of f over the set s is the number of its cells: for each x  *)
(* in s, f[x] of them.                                                     *)
(***************************************************************************)

\* Some natural number in a set of them is the least.
LEMMA LeastNumber ==
    ASSUME NEW T \in SUBSET Nat, T # {}
    PROVE  \E m \in T : \A k \in T : m <= k
<1>1. PICK m \in T : \A k \in T : ~(<<k, m>> \in OpToRel(<, Nat))
  BY NatLessThanWellFounded, WFMin
<1>2. OpToRel(<, Nat) = {ss \in Nat \X Nat : ss[1] < ss[2]}
  BY Zenon DEF OpToRel
<1>3. ASSUME NEW k \in T PROVE m <= k
  <2>1. <<k, m>> \notin {ss \in Nat \X Nat : ss[1] < ss[2]}
    BY <1>1, <1>2, Zenon
  <2> QED
    BY <2>1
<1> QED
  BY <1>3

\* Induction, on a set of natural numbers.
LEMMA InductiveSet ==
    ASSUME NEW S \in SUBSET Nat, 0 \in S, \A n \in S : n + 1 \in S
    PROVE  S = Nat
<1> SUFFICES ASSUME Nat \ S # {} PROVE FALSE
  OBVIOUS
<1>1. PICK m \in Nat \ S : \A k \in Nat \ S : m <= k
  BY LeastNumber
<1>2. m - 1 \in S
  BY <1>1
<1> QED
  BY <1>1, <1>2

Cells(f, s) == {c \in s \X Nat : c[2] # 0 /\ c[2] <= f[c[1]]}

SumOf(f, s) == Cardinality(Cells(f, s))

LEMMA CellsOfOne ==
    ASSUME NEW f, NEW x, f[x] \in Nat
    PROVE  IsFiniteSet(Cells(f, {x})) /\ Cardinality(Cells(f, {x})) = f[x]
<1> DEFINE n == f[x]
           T == Cells(f, {x})
           b == [k \in 1..n |-> <<x, k>>]
<1>1. \A k \in 1..n : b[k] \in T
  BY DEF Cells
<1>2. \A c \in T : \E k \in 1..n : b[k] = c
  BY DEF Cells
<1>3. b \in Bijection(1..n, T)
  <2>1. b \in [1..n -> T]
    BY <1>1
  <2>2. \A j, k \in 1..n : b[j] = b[k] => j = k
    OBVIOUS
  <2> HIDE DEF b, T, n
  <2> QED
    BY <1>2, <2>1, <2>2 DEF Bijection, Injection, Surjection, IsInjective
<1>4. ExistsBijection(1..n, T)
  BY <1>3 DEF ExistsBijection
<1>5. IsFiniteSet(1..n) /\ Cardinality(1..n) = n
  BY FS_Interval
<1> QED
  BY <1>4, <1>5, FS_Bijection

LEMMA SumIsFinite ==
    ASSUME NEW S, IsFiniteSet(S), NEW f, \A x \in S : f[x] \in Nat, NEW s \in SUBSET S
    PROVE  IsFiniteSet(s) /\ IsFiniteSet(Cells(f, s)) /\ SumOf(f, s) \in Nat
<1>1. IsFiniteSet(s)
  BY FS_Subset
<1> DEFINE P == {Cells(f, {x}) : x \in s}
<1>2. IsFiniteSet(P)
  <2> DEFINE h == [x \in s |-> Cells(f, {x})]
  <2>1. h \in [s -> P] /\ \A T \in P : \E x \in s : h[x] = T
    OBVIOUS
  <2> HIDE DEF h, P
  <2>2. h \in Surjection(s, P)
    BY <2>1 DEF Surjection
  <2> QED
    BY <1>1, <2>2, FS_Surjection
<1>3. \A T \in P : IsFiniteSet(T)
  BY CellsOfOne
<1>4. Cells(f, s) = UNION P
  BY DEF Cells
<1>5. IsFiniteSet(Cells(f, s))
  <2> HIDE DEF P
  <2> QED
    BY <1>2, <1>3, <1>4, FS_UNION
<1> QED
  BY <1>1, <1>5, FS_CardinalityType DEF SumOf

LEMMA SumSplits ==
    ASSUME NEW S, IsFiniteSet(S), NEW f, \A x \in S : f[x] \in Nat, NEW s \in SUBSET S, NEW x \in s
    PROVE  SumOf(f, s) = f[x] + SumOf(f, s \ {x})
<1> DEFINE A == Cells(f, {x})
           B == Cells(f, s \ {x})
<1>1. IsFiniteSet(A) /\ Cardinality(A) = f[x]
  BY CellsOfOne
<1>2. IsFiniteSet(B) /\ Cardinality(B) \in Nat
  BY SumIsFinite DEF SumOf
<1>3. A \union B = Cells(f, s) /\ A \intersect B = {}
  BY DEF Cells
<1> HIDE DEF A, B
<1>4. Cardinality(A \union B) = Cardinality(A) + Cardinality(B) - Cardinality({})
  BY <1>1, <1>2, <1>3, FS_Union
<1>5. Cardinality({}) = 0
  BY FS_EmptySet
<1>6. SumOf(f, s) = Cardinality(A \union B)
  BY <1>3 DEF SumOf
<1>7. SumOf(f, s \ {x}) = Cardinality(B)
  BY DEF SumOf, B
<1>8. f[x] \in Nat
  OBVIOUS
<1>9. Cardinality(A \union B) = f[x] + Cardinality(B)
  BY <1>1, <1>2, <1>4, <1>5, <1>8
<1> QED
  BY <1>6, <1>7, <1>9

LEMMA SumOfNothing == \A f : SumOf(f, {}) = 0
<1>1. \A f : Cells(f, {}) = {}
  BY DEF Cells
<1> QED
  BY <1>1, FS_EmptySet DEF SumOf

\* The function by which the elements of a set are added one after the other.
IsIter(f, S, iter) ==
    iter = [s \in SUBSET S |->
               IF s = {} THEN 0
               ELSE f[CHOOSE x \in s : TRUE] + iter[s \ {CHOOSE x \in s : TRUE}]]

LEMMA IterIsSum ==
    ASSUME NEW S, IsFiniteSet(S), NEW f, \A x \in S : f[x] \in Nat
    PROVE  (CHOOSE iter : IsIter(f, S, iter))[S] = SumOf(f, S)
<1> DEFINE g == [s \in SUBSET S |-> SumOf(f, s)]
<1>1. IsIter(f, S, g)
  <2>1. ASSUME NEW s \in SUBSET S
        PROVE  SumOf(f, s) = IF s = {} THEN 0
                             ELSE f[CHOOSE x \in s : TRUE] + g[s \ {CHOOSE x \in s : TRUE}]
    <3>1. CASE s = {}
      BY <3>1, SumOfNothing
    <3>2. CASE s # {}
      <4> DEFINE y == CHOOSE x \in s : TRUE
      <4>1. y \in s
        BY <3>2
      <4> HIDE DEF y
      <4>2. SumOf(f, s) = f[y] + SumOf(f, s \ {y})
        BY <4>1, SumSplits
      <4>3. g[s \ {y}] = SumOf(f, s \ {y})
        OBVIOUS
      <4> QED
        BY <3>2, <4>2, <4>3 DEF y
    <3> QED
      BY <3>1, <3>2
  <2> HIDE DEF SumOf
  <2> QED
    BY <2>1 DEF IsIter
<1> HIDE DEF g
<1>2. IsIter(f, S, CHOOSE iter : IsIter(f, S, iter))
  BY <1>1, Zenon
<1> DEFINE h == CHOOSE iter : IsIter(f, S, iter)
<1> HIDE DEF h
<1>3. \A s \in SUBSET S : h[s] = IF s = {} THEN 0
                                 ELSE f[CHOOSE x \in s : TRUE] + h[s \ {CHOOSE x \in s : TRUE}]
  <2>1. h = [s \in SUBSET S |->
               IF s = {} THEN 0
               ELSE f[CHOOSE x \in s : TRUE] + h[s \ {CHOOSE x \in s : TRUE}]]
    BY <1>2, Zenon DEF h, IsIter
  <2> QED
    BY <2>1, Zenon
<1> DEFINE N == {n \in Nat : \A s \in SUBSET S : Cardinality(s) = n => h[s] = SumOf(f, s)}
<1>4. 0 \in N
  <2>1. ASSUME NEW s \in SUBSET S, Cardinality(s) = 0 PROVE h[s] = SumOf(f, s)
    <3>1. s = {}
      BY <2>1, SumIsFinite, FS_EmptySet
    <3> QED
      BY <1>3, <3>1, SumOfNothing
  <2> QED
    BY <2>1
<1>5. ASSUME NEW n \in N PROVE n + 1 \in N
  <2>1. ASSUME NEW s \in SUBSET S, Cardinality(s) = n + 1 PROVE h[s] = SumOf(f, s)
    <3>1. IsFiniteSet(s) /\ s # {}
      BY <2>1, SumIsFinite, FS_EmptySet
    <3> DEFINE y == CHOOSE x \in s : TRUE
    <3>2. y \in s
      BY <3>1
    <3>3. h[s] = f[y] + h[s \ {y}]
      BY <1>3, <3>1
    <3> HIDE DEF y
    <3>4. Cardinality(s \ {y}) = n
      <4>1. Cardinality(s \ {y}) = Cardinality(s) - 1
        BY <3>1, <3>2, FS_RemoveElement
      <4>2. n \in Nat
        BY <1>5
      <4> QED
        BY <2>1, <4>1, <4>2
    <3>5. h[s \ {y}] = SumOf(f, s \ {y})
      BY <1>5, <3>4
    <3> QED
      BY <3>2, <3>3, <3>5, SumSplits
  <2> QED
    BY <2>1
<1>6. N = Nat
  <2>1. N \in SUBSET Nat
    OBVIOUS
  <2> HIDE DEF N
  <2> QED
    BY <1>4, <1>5, <2>1, InductiveSet
<1>7. Cardinality(S) \in N
  BY <1>6, FS_CardinalityType
<1>8. h[S] = SumOf(f, S)
  BY <1>7
<1> QED
  BY <1>8 DEF h

\* One of the numbers that are added changes.
LEMMA SumChanges ==
    ASSUME NEW S, IsFiniteSet(S), NEW f, NEW g, NEW x \in S, NEW d \in Nat,
           \A y \in S : f[y] \in Nat,
           g[x] = f[x] + d, \A y \in S \ {x} : g[y] = f[y]
    PROVE  SumOf(g, S) = SumOf(f, S) + d /\ SumOf(f, S) \in Nat
<1>1. \A y \in S : g[y] \in Nat
  OBVIOUS
<1>2. Cells(g, S \ {x}) = Cells(f, S \ {x})
  BY DEF Cells
<1>3. SumOf(g, S) = g[x] + SumOf(g, S \ {x}) /\ SumOf(f, S) = f[x] + SumOf(f, S \ {x})
  BY <1>1, SumSplits
<1>4. SumOf(f, S \ {x}) \in Nat /\ SumOf(f, S) \in Nat
  BY SumIsFinite
<1> QED
  BY <1>2, <1>3, <1>4 DEF SumOf

LEMMA SumKept ==
    ASSUME NEW S, NEW f, NEW g, \A y \in S : g[y] = f[y]
    PROVE  SumOf(g, S) = SumOf(f, S)
<1>1. Cells(g, S) = Cells(f, S)
  BY DEF Cells
<1> QED
  BY <1>1 DEF SumOf

LEMMA SumOfZeros ==
    ASSUME NEW S, NEW f, \A x \in S : f[x] = 0
    PROVE  SumOf(f, S) = 0
<1>1. Cells(f, S) = {}
  BY DEF Cells
<1> QED
  BY <1>1, FS_EmptySet DEF SumOf

(***************************************************************************)
(* The model's time.                                                       *)
(***************************************************************************)

LEMMA GreatestNumber ==
    ASSUME NEW S \in SUBSET Nat, IsFiniteSet(S), S # {}
    PROVE  \E m \in S : \A k \in S : k <= m
<1> DEFINE Bounded(T) == \E m \in T : \A k \in T : k <= m
           N == {n \in Nat : \A T \in SUBSET S : Cardinality(T) = n /\ T # {} => Bounded(T)}
<1>1. 0 \in N
  <2>1. \A T \in SUBSET S : Cardinality(T) = 0 => T = {}
    BY FS_Subset, FS_EmptySet
  <2> QED
    BY <2>1
<1>2. ASSUME NEW n \in N PROVE n + 1 \in N
  <2>1. ASSUME NEW T \in SUBSET S, Cardinality(T) = n + 1, T # {} PROVE Bounded(T)
    <3>1. PICK x \in T : TRUE
      BY <2>1
    <3>2. IsFiniteSet(T) /\ Cardinality(T \ {x}) = Cardinality(T) - 1
      BY <3>1, FS_Subset, FS_RemoveElement
    <3>3. Cardinality(T \ {x}) = n
      <4>1. n \in Nat
        BY <1>2
      <4> QED
        BY <2>1, <3>2, <4>1
    <3>4. CASE T \ {x} = {}
      BY <3>1, <3>4
    <3>5. CASE T \ {x} # {}
      <4>1. PICK m \in T \ {x} : \A k \in T \ {x} : k <= m
        BY <1>2, <3>3, <3>5
      <4>2. m \in Nat /\ x \in Nat
        OBVIOUS
      <4>3. CASE x <= m
        BY <4>1, <4>3
      <4>4. CASE ~(x <= m)
        <5>1. \A k \in T : k \in Nat
          OBVIOUS
        <5> QED
          BY <4>1, <4>2, <4>4, <5>1
      <4> QED
        BY <4>3, <4>4
    <3> QED
      BY <3>4, <3>5
  <2> QED
    BY <1>2, <2>1
<1>3. N = Nat
  <2>1. N \in SUBSET Nat
    OBVIOUS
  <2> HIDE DEF N
  <2> QED
    BY <1>1, <1>2, <2>1, InductiveSet
<1>4. Cardinality(S) \in N
  BY <1>3, FS_CardinalityType
<1> QED
  BY <1>4

LEMMA SpeedsAreBounded ==
    /\ Min(Speeds) \in Nat /\ Max(Speeds) \in Nat
    /\ \A speed \in Speeds : Min(Speeds) <= speed /\ speed <= Max(Speeds)
<1>1. Speeds \in SUBSET Nat /\ Speeds # {} /\ IsFiniteSet(Speeds)
  BY StepsAssumption
<1>2. \E m \in Speeds : \A k \in Speeds : m <= k
  BY <1>1, LeastNumber
<1>3. \E m \in Speeds : \A k \in Speeds : k <= m
  BY <1>1, GreatestNumber
<1>4. Min(Speeds) \in Speeds /\ \A k \in Speeds : Min(Speeds) <= k
  BY <1>2 DEF Min
<1>5. Max(Speeds) \in Speeds /\ \A k \in Speeds : k <= Max(Speeds)
  <2>1. \E m \in Speeds : \A k \in Speeds : m >= k
    BY <1>1, <1>3
  <2>2. Max(Speeds) \in Speeds /\ \A k \in Speeds : Max(Speeds) >= k
    BY <2>1 DEF Max
  <2> QED
    BY <1>1, <2>2
<1> QED
  BY <1>1, <1>4, <1>5

Lengths == [p \in Pages |-> Len(executed[p])]

\* What TimeAddsUp says, of the sums as numbers of cells.
Bounds ==
    /\ Min(Speeds) * SumOf(time, Pages) <= simulated
    /\ simulated <= Max(Speeds) * SumOf(time, Pages) + (FixedStep - 1) * SumOf(Lengths, Pages)

LEMMA SumsAreTyped ==
    ASSUME Types
    PROVE  /\ IsFiniteSet(Pages)
           /\ \A p \in Pages : time[p] \in Nat /\ Lengths[p] \in Nat
           /\ SumOf(time, Pages) \in Nat /\ SumOf(Lengths, Pages) \in Nat
           /\ simulated \in Nat
<1>1. IsFiniteSet(Pages)
  BY StepsAssumption
<1>2. \A p \in Pages : time[p] \in Nat /\ Lengths[p] \in Nat
  BY DEF Types, Lengths
<1>3. SumOf(time, Pages) \in Nat /\ SumOf(Lengths, Pages) \in Nat
  BY <1>1, <1>2, SumIsFinite
<1> QED
  BY <1>1, <1>2, <1>3 DEF Types

LEMMA SumFunctionIsSum == Types => SumFunction(time) = SumOf(time, Pages)
<1> SUFFICES ASSUME Types PROVE SumFunction(time) = SumOf(time, Pages)
  OBVIOUS
<1>1. DOMAIN time = Pages
  BY DEF Types
<1>2. SumFunction(time) = (CHOOSE iter : IsIter(time, DOMAIN time, iter))[DOMAIN time]
  BY DEF IsIter, SumFunction, SumFunctionOnSet, FoldFunctionOnSet, MapThenFoldSet
<1>3. (CHOOSE iter : IsIter(time, Pages, iter))[Pages] = SumOf(time, Pages)
  BY SumsAreTyped, IterIsSum
<1> QED
  BY <1>1, <1>2, <1>3, Zenon

LEMMA LengthsAreSum ==
    Types => MapThenSumSet(LAMBDA p : Len(executed[p]), Pages) = SumOf(Lengths, Pages)
<1> SUFFICES ASSUME Types
             PROVE  MapThenSumSet(LAMBDA p : Len(executed[p]), Pages) = SumOf(Lengths, Pages)
  OBVIOUS
<1>1. ASSUME NEW f, f = [p \in Pages |-> Len(executed[p])]
      PROVE  MapThenSumSet(LAMBDA p : Len(executed[p]), Pages)
                = (CHOOSE iter : IsIter(f, Pages, iter))[Pages]
  BY <1>1 DEF IsIter, MapThenSumSet, MapThenFoldSet
<1>2. MapThenSumSet(LAMBDA p : Len(executed[p]), Pages)
         = (CHOOSE iter : IsIter(Lengths, Pages, iter))[Pages]
  BY <1>1 DEF Lengths
<1>3. (CHOOSE iter : IsIter(Lengths, Pages, iter))[Pages] = SumOf(Lengths, Pages)
  BY SumsAreTyped, IterIsSum
<1> QED
  BY <1>2, <1>3

LEMMA BoundsAdd == Types /\ Bounds => TimeAddsUp
<1> SUFFICES ASSUME Types, Bounds PROVE TimeAddsUp
  OBVIOUS
<1>1. /\ SumFunction(time) = SumOf(time, Pages)
      /\ MapThenSumSet(LAMBDA p : Len(executed[p]), Pages) = SumOf(Lengths, Pages)
  BY SumFunctionIsSum, LengthsAreSum
<1>2. Min(Speeds) * SumOf(time, Pages) \in Nat /\ simulated \in Nat
  BY SumsAreTyped, SpeedsAreBounded
<1> QED
  BY <1>1, <1>2 DEF Bounds, TimeAddsUp

\* A session's step of e, simulated as x at a speed between the least and the greatest.
LEMMA StepAdds ==
    ASSUME NEW low \in Nat, NEW high \in Nat, NEW speed \in Nat, low <= speed, speed <= high,
           NEW total \in Nat, NEW handled \in Nat, NEW s \in Nat, NEW e \in Nat,
           NEW f \in Nat, NEW x \in Nat,
           low * total <= s, s <= high * total + f * handled,
           speed * e <= x, x <= speed * e + f
    PROVE  low * (total + e) <= s + x /\ s + x <= high * (total + e) + f * (handled + 1)
<1>1. \A a, b, c \in Nat : a * (b + c) = a * b + a * c
  OBVIOUS
<1>2. \A a, b, c \in Nat : a <= b => a * c <= b * c
  OBVIOUS
<1>3. \A a, b \in Nat : a * b \in Nat
  OBVIOUS
<1> DEFINE lt == low * total
           le == low * e
           ht == high * total
           he == high * e
           se == speed * e
           fh == f * handled
<1>4. /\ low * (total + e) = lt + le /\ high * (total + e) = ht + he
      /\ f * (handled + 1) = fh + f
  BY <1>1
<1>5. le <= se /\ se <= he
  BY <1>2
<1>6. lt \in Nat /\ le \in Nat /\ ht \in Nat /\ he \in Nat /\ se \in Nat /\ fh \in Nat
  BY <1>3
<1>7. lt <= s /\ s <= ht + fh /\ se <= x /\ x <= se + f
  OBVIOUS
<1> HIDE DEF lt, le, ht, he, se, fh
<1>8. lt + le <= s + x /\ s + x <= (ht + he) + (fh + f)
  BY <1>5, <1>6, <1>7
<1> QED
  BY <1>4, <1>8

LEMMA BoundsInit == Init => Bounds
<1> SUFFICES ASSUME Init PROVE Bounds
  OBVIOUS
<1>1. \A p \in Pages : time[p] = 0 /\ Lengths[p] = 0
  BY DEF Init, Lengths
<1>2. SumOf(time, Pages) = 0 /\ SumOf(Lengths, Pages) = 0
  BY <1>1, SumOfZeros
<1>3. simulated = 0
  BY DEF Init
<1>4. \A a \in Nat : a * 0 = 0
  OBVIOUS
<1>5. Min(Speeds) \in Nat /\ Max(Speeds) \in Nat /\ FixedStep - 1 \in Nat
  BY SpeedsAreBounded, StepsAssumption
<1> QED
  BY <1>2, <1>3, <1>4, <1>5 DEF Bounds

\* What a handled command adds to the number of them.
LEMMA HandledCounts ==
    ASSUME Inv, NEW r \in Pages, Handled(r)
    PROVE  SumOf(Lengths', Pages) = SumOf(Lengths, Pages) + 1
<1>1. Types /\ Numbered(r)
  BY DEF Inv, PageInv
<1>2. /\ \A q \in Pages \ {r} : executed'[q] = executed[q]
      /\ Len(executed'[r]) = Len(executed[r]) + 1
  BY <1>1, HandledIsNumbered
<1>3. Lengths'[r] = Lengths[r] + 1 /\ \A q \in Pages \ {r} : Lengths'[q] = Lengths[q]
  BY <1>2 DEF Lengths
<1>4. IsFiniteSet(Pages) /\ \A p \in Pages : Lengths[p] \in Nat
  BY <1>1, SumsAreTyped
<1>5. \A f, g : (/\ \A y \in Pages : f[y] \in Nat
                /\ g[r] = f[r] + 1
                /\ \A y \in Pages \ {r} : g[y] = f[y])
                 => SumOf(g, Pages) = SumOf(f, Pages) + 1
  BY <1>4, 1 \in Nat, SumChanges
<1> DEFINE before == Lengths
           after == Lengths'
<1>6. /\ \A y \in Pages : before[y] \in Nat
      /\ after[r] = before[r] + 1
      /\ \A y \in Pages \ {r} : after[y] = before[y]
  BY <1>3, <1>4
<1> HIDE DEF before, after
<1>7. SumOf(after, Pages) = SumOf(before, Pages) + 1
  BY <1>5, <1>6
<1> QED
  BY <1>7 DEF before, after

LEMMA BoundsStep == Inv /\ Bounds /\ [Next]_vars => Bounds'
<1> SUFFICES ASSUME Inv, Bounds, [Next]_vars PROVE Bounds'
  OBVIOUS
<1> DEFINE low == Min(Speeds)
           high == Max(Speeds)
           f == FixedStep - 1
           total == SumOf(time, Pages)
           handled == SumOf(Lengths, Pages)
<1>1. Types
  BY DEF Inv
<1>2. /\ low \in Nat /\ high \in Nat /\ f \in Nat
      /\ \A speed \in Speeds : speed \in Nat /\ low <= speed /\ speed <= high
  BY SpeedsAreBounded, StepsAssumption
<1>3. total \in Nat /\ handled \in Nat /\ simulated \in Nat
  BY <1>1, SumsAreTyped
<1>4. low * total <= simulated /\ simulated <= high * total + f * handled
  BY DEF Bounds
<1>5. CASE UNCHANGED <<simulated, time, executed>>
  <2>1. UNCHANGED <<simulated, time, Lengths>>
    BY <1>5 DEF Lengths
  <2> QED
    BY <2>1 DEF Bounds
<1>6. ASSUME NEW r \in Pages, Handled(r), UNCHANGED <<simulated, time>> PROVE Bounds'
  <2>1. SumOf(Lengths', Pages) = handled + 1
    BY <1>6, HandledCounts
  <2> HIDE DEF low, high, f, total, handled
  <2>2. f * handled <= f * (handled + 1)
    <3>1. f * (handled + 1) = f * handled + f /\ f * handled \in Nat
      BY <1>2, <1>3
    <3> QED
      BY <1>2, <3>1
  <2>3. simulated <= high * total + f * (handled + 1)
    <3>1. high * total \in Nat /\ f * handled \in Nat /\ f * (handled + 1) \in Nat
      <4>1. \A a, b \in Nat : a * b \in Nat /\ b + 1 \in Nat
        OBVIOUS
      <4> QED
        BY <1>2, <1>3, <4>1
    <3> QED
      BY <1>3, <1>4, <2>2, <3>1
  <2> QED
    BY <1>4, <1>6, <2>1, <2>3 DEF Bounds, low, high, f, total, handled
<1>7. ASSUME NEW r \in Pages, Update(r) PROVE Bounds'
  <2>1. /\ Elapsed(r) \in Nat /\ time[r] \in Nat
        /\ time' = [time EXCEPT ![r] = time[r] + Elapsed(r)]
    BY <1>7, UpdateAdds
  <2>2. PICK speed \in Speeds :
           /\ speed * Elapsed(r) \in Nat
           /\ simulated' = simulated + Simulated(speed * Elapsed(r))
    BY <1>7, UpdateAdds
  <2> DEFINE e == Elapsed(r)
             x == Simulated(speed * e)
  <2>3. x \in Nat /\ speed * e <= x /\ x <= speed * e + f
    BY <2>2, SimulatedBounds
  <2>4. SumOf(Lengths', Pages) = handled + 1
    BY <1>7, HandledCounts DEF Update
  <2>5. SumOf(time', Pages) = total + e
    <3>1. time'[r] = time[r] + e /\ \A q \in Pages \ {r} : time'[q] = time[q]
      BY <1>1, <2>1 DEF Types
    <3>2. IsFiniteSet(Pages) /\ \A p \in Pages : time[p] \in Nat
      BY <1>1, SumsAreTyped
    <3> HIDE DEF e
    <3>3. e \in Nat
      BY <2>1 DEF e
    <3> QED
      BY <3>1, <3>2, <3>3, SumChanges
  <2>6. speed \in Nat /\ low <= speed /\ speed <= high /\ e \in Nat
    BY <1>2, <2>1
  <2>7. simulated' = simulated + x
    BY <2>2
  <2> HIDE DEF low, high, f, total, handled, e, x
  <2>8. low * (total + e) <= simulated + x
        /\ simulated + x <= high * (total + e) + f * (handled + 1)
    BY <1>2, <1>3, <1>4, <2>3, <2>6, StepAdds
  <2> QED
    BY <2>4, <2>5, <2>7, <2>8 DEF Bounds, low, high, f
<1>8. \/ UNCHANGED <<simulated, time, executed>>
      \/ \E r \in Pages : Handled(r) /\ UNCHANGED <<simulated, time>>
      \/ \E r \in Pages : Update(r)
  <2>1. CASE UNCHANGED vars
    BY <2>1 DEF vars, modelvars, sessionvars
  <2>2. CASE Tick
    BY <2>2 DEF Tick, modelvars, sessionvars
  <2>3. ASSUME NEW p \in Pages, NEW c \in Commands, SendCommand(p, c)
        PROVE  UNCHANGED <<simulated, time, executed>>
    BY <2>3 DEF SendCommand, modelvars, sessionvars
  <2>4. ASSUME NEW p \in Pages, Connected(p) \/ Leave(p) \/ OpenSession(p) \/ EndSession(p)
        PROVE  UNCHANGED <<simulated, time, executed>>
    BY <2>4 DEF Connected, Leave, OpenSession, EndSession, modelvars, sessionvars
  <2>5. ASSUME NEW p \in Pages, Handle(p)
        PROVE  Update(p) \/ (Handled(p) /\ UNCHANGED <<simulated, time>>)
    BY <2>5 DEF Handle, CreateEntity, ScheduleTrip, modelvars
  <2>6. ASSUME NEW p \in Pages, Receive(p) PROVE UNCHANGED <<simulated, time, executed>>
    BY <2>6 DEF Receive, ReceiveAnswer, ReceiveAdd, ReceiveUpdate, ReceiveTrip, Received,
                modelvars, sessionvars
  <2>7. ASSUME NEW p \in Pages, NEW e \in loading[p], Loaded(p, e) \/ LoadFails(p, e)
        PROVE  UNCHANGED <<simulated, time, executed>>
    BY <2>7 DEF Loaded, LoadFails, modelvars, sessionvars
  <2> QED
    BY <2>1, <2>2, <2>3, <2>4, <2>5, <2>6, <2>7 DEF Next
<1> QED
  BY <1>5, <1>6, <1>7, <1>8

\* Every session simulates the time since its own last update, and all of them in the one
\* model: its time is the sum of theirs at the speeds they ask for, where each command may
\* take it beyond by less than a fixed step (transit_service.cc 36-54).
THEOREM TimesAddUp == Spec => []TimeAddsUp
<1>1. Init => Bounds
  BY BoundsInit
<1>2. Inv /\ Bounds /\ [Next]_vars => Bounds'
  BY BoundsStep
<1>3. Inv /\ Bounds => TimeAddsUp
  BY BoundsAdd DEF Inv
<1> QED
  BY <1>1, <1>2, <1>3, Invariance, PTL DEF Spec
=============================================================================
