------------------------- MODULE HttpConnectionProofs -------------------------
(***************************************************************************)
(* Theorems about HttpConnection, for any number of workers, any requests, *)
(* files, buffer and table of descriptors.  A step changes the place, the  *)
(* client and the local variables of one worker; Fits says which of these  *)
(* go together.  At the end, theorems about ConcurrentOpen, the barrier    *)
(* that the open and the fopen of a worker go through.                     *)
(***************************************************************************)
EXTENDS HttpConnection, ConcurrentOpen, SequenceTheorems, FiniteSetTheorems, TLAPS

Early == {"call", "stream", "line", "headers", "end", "stat", "open"}

\* A worker at place p has a client c and local variables l that fit each other.
Fits(p, c, l) ==
    /\ c.read <= Len(c.lines)
    /\ l.size # -1 => l.sent <= l.size
    /\ p # "call" => c.resource \in Resources
    /\ p = "call" => c.state = "none"
    /\ p \in Early => l.size = -1 /\ l.sent = 0
    /\ p \in {"first", "rest"} => l.size # -1
    /\ p = "headers" => c.read > 0
    /\ p = "close" /\ l.ret = 0 /\ l.size # -1 => l.sent = l.size
    /\ p \in Answering \union {"end"} /\ c.read < Len(c.lines) =>
          c.read > 0 /\ c.lines[c.read] \in {"blank", "filling"}

WorkersFit ==
    /\ pc \in [Workers -> Places]
    /\ client \in [Workers -> Clients]
    /\ local \in [Workers -> Locals]
    /\ \A w \in Workers : Fits(pc[w], client[w], local[w])

TableTypes ==
    /\ alive \in BOOLEAN
    /\ held \in SUBSET (Workers \X Uses)
    /\ lost \in Nat
    /\ file \in [Resources -> Nat \union {-1}]
    /\ changes \in 0..MaxChanges

IInv ==
    /\ WorkersFit
    /\ TableTypes
    /\ DescriptorsAreReleased
    /\ DeathHasACause

-----------------------------------------------------------------------------
LEMMA InitHolds == Init => IInv
<1> SUFFICES ASSUME Init PROVE IInv
  OBVIOUS
<1>1. NoClient \in Clients /\ NewLocal \in Locals
  <2>1. <<>> \in Seq(LineKinds) /\ <<>> \in Seq(Int) /\ 0 \in Nat
    OBVIOUS
  <2>2. [i \in 1..BUFSIZE |-> 0] \in [1..BUFSIZE -> Int]
    OBVIOUS
  <2> QED
    BY <2>1, <2>2 DEF NoClient, Clients, NewLocal, Locals
<1>2. Fits("call", NoClient, NewLocal)
  BY DEF Fits, NoClient, NewLocal, Answering
<1>3. WorkersFit
  BY <1>1, <1>2 DEF Init, WorkersFit, Places
<1>4. TableTypes
  BY FilesAssumption, BoundsAssumption DEF Init, TableTypes
<1>5. DescriptorsAreReleased
  BY DEF Init, DescriptorsAreReleased, UsedAt
<1> QED
  BY <1>3, <1>4, <1>5 DEF IInv, Init, DeathHasACause

\* A step that gives worker w another place, client and local variables.
LEMMA OneWorkerMoves ==
    ASSUME WorkersFit, NEW w \in Workers, NEW p \in Places, NEW c \in Clients, NEW l \in Locals,
           pc' = [pc EXCEPT ![w] = p], client' = [client EXCEPT ![w] = c],
           local' = [local EXCEPT ![w] = l], Fits(p, c, l)
    PROVE  WorkersFit'
BY DEF WorkersFit

\* What it opens and closes, u by u, is what UsedAt says of the two places.
LEMMA OneWorkerUses ==
    ASSUME WorkersFit, DescriptorsAreReleased, NEW w \in Workers, NEW p,
           pc' = [pc EXCEPT ![w] = p], NEW opened \in SUBSET Uses, NEW closed \in SUBSET Uses,
           held' = (held \ {<<w, u>> : u \in closed}) \union {<<w, u>> : u \in opened},
           UsedAt(p) = (UsedAt(pc[w]) \ closed) \union opened
    PROVE  DescriptorsAreReleased'
<1> SUFFICES ASSUME NEW v \in Workers
             PROVE  {u \in Uses : <<v, u>> \in held'} = UsedAt(pc'[v])
  BY DEF DescriptorsAreReleased
<1>1. {u \in Uses : <<v, u>> \in held} = UsedAt(pc[v])
  BY DEF DescriptorsAreReleased
<1>2. CASE v = w
  BY <1>1, <1>2 DEF WorkersFit
<1>3. CASE v # w
  BY <1>1, <1>3 DEF WorkersFit
<1> QED
  BY <1>2, <1>3

-----------------------------------------------------------------------------
(* What a step keeps while the process lives.                              *)

Live == WorkersFit /\ TableTypes /\ DescriptorsAreReleased

\* The facts about one worker that the steps below use.
LEMMA OfOneWorker ==
    ASSUME WorkersFit, NEW w \in Workers
    PROVE  /\ pc[w] \in Places /\ client[w] \in Clients /\ local[w] \in Locals
           /\ Fits(pc[w], client[w], local[w])
BY DEF WorkersFit

LEMMA ReturnKeeps ==
    ASSUME Live, NEW w \in Workers, NEW ret \in {0, -1}, pc[w] # "call", Return(w, ret),
           lost' \in Nat,
           ret = 0 /\ local[w].size # -1 => local[w].sent = local[w].size
    PROVE  Live'
<1> DEFINE l == [local[w] EXCEPT !.ret = ret]
<1>1. /\ pc[w] \in Places /\ client[w] \in Clients /\ local[w] \in Locals
      /\ Fits(pc[w], client[w], local[w])
  BY OfOneWorker DEF Live
<1>2. /\ l \in Locals
      /\ l.ret = ret /\ l.size = local[w].size /\ l.sent = local[w].sent
  BY <1>1 DEF Locals
<1>3. Fits("close", client[w], l)
  <2> HIDE DEF l
  <2> QED
    BY <1>1, <1>2 DEF Fits, Early, Answering
<1>4. WorkersFit'
  <2>1. /\ pc' = [pc EXCEPT ![w] = "close"]
        /\ client' = [client EXCEPT ![w] = client[w]]
        /\ local' = [local EXCEPT ![w] = l]
    BY DEF Return, Live, WorkersFit
  <2>2. "close" \in Places
    BY DEF Places
  <2> HIDE DEF l
  <2> QED
    BY <1>1, <1>2, <1>3, <2>1, <2>2, OneWorkerMoves DEF Live
<1>5. DescriptorsAreReleased'
  <2>1. UsedAt("close") = (UsedAt(pc[w]) \ {"copy", "file"}) \union {}
    BY <1>1 DEF UsedAt, Places
  <2>2. held' = (held \ {<<w, u>> : u \in {"copy", "file"}}) \union {<<w, u>> : u \in {}}
    BY DEF Return
  <2> QED
    BY <2>1, <2>2, OneWorkerUses DEF Return, Live, Uses
<1>6. TableTypes'
  BY DEF Live, TableTypes, Return
<1> QED
  BY <1>4, <1>5, <1>6 DEF Live

\* A step to another place that opens and closes descriptors.
LEMMA GoKeeps ==
    ASSUME Live, NEW w \in Workers, NEW p \in Places, GoTo(w, p),
           NEW c \in Clients, client' = [client EXCEPT ![w] = c],
           NEW l \in Locals, local' = [local EXCEPT ![w] = l],
           Fits(p, c, l),
           NEW opened \in SUBSET Uses, NEW closed \in SUBSET Uses,
           held' = (held \ {<<w, u>> : u \in closed}) \union {<<w, u>> : u \in opened},
           UsedAt(p) = (UsedAt(pc[w]) \ closed) \union opened
    PROVE  Live'
<1>1. WorkersFit'
  BY OneWorkerMoves DEF Live, GoTo
<1>2. DescriptorsAreReleased'
  BY OneWorkerUses DEF Live, GoTo
<1>3. TableTypes'
  BY DEF Live, TableTypes, GoTo
<1> QED
  BY <1>1, <1>2, <1>3 DEF Live

\* A step that opens or closes nothing, and changes neither client nor variables.
LEMMA JustGoKeeps ==
    ASSUME Live, NEW w \in Workers, NEW p \in Places, GoTo(w, p),
           UNCHANGED <<client, local, held>>,
           Fits(p, client[w], local[w]), UsedAt(p) = UsedAt(pc[w])
    PROVE  Live'
<1>1. /\ client[w] \in Clients /\ local[w] \in Locals
      /\ client' = [client EXCEPT ![w] = client[w]]
      /\ local' = [local EXCEPT ![w] = local[w]]
  BY OfOneWorker DEF Live, WorkersFit
<1>2. held' = (held \ {<<w, u>> : u \in {}}) \union {<<w, u>> : u \in {}}
  OBVIOUS
<1>3. {} \in SUBSET Uses /\ UsedAt(p) = (UsedAt(pc[w]) \ {}) \union {}
  OBVIOUS
<1> QED
  BY <1>1, <1>2, <1>3, GoKeeps

\* The worker consumes a line.
LEMMA ConsumeKeeps ==
    ASSUME Live, NEW w \in Workers, pc[w] \in {"line", "headers"}, Unread(w),
           NEW p \in {"headers", "end"}, Consume(w), GoTo(w, p), UNCHANGED <<local, held>>,
           p = "end" => EndsHeader(NextLine(w))
    PROVE  Live'
<1> DEFINE c == [client[w] EXCEPT !.read = @ + 1]
<1>1. /\ client[w] \in Clients /\ local[w] \in Locals
      /\ Fits(pc[w], client[w], local[w])
  BY OfOneWorker DEF Live
<1>2. /\ c \in Clients
      /\ c.read = client[w].read + 1 /\ c.lines = client[w].lines
      /\ c.resource = client[w].resource
  <2> DEFINE old == client[w]
             n == client[w].read + 1
  <2>1. old \in Clients /\ n \in Nat /\ c = [old EXCEPT !.read = n] /\ n = old.read + 1
    BY <1>1 DEF Clients
  <2> HIDE DEF old, n, c
  <2>2. /\ c \in Clients
        /\ c.read = n /\ c.lines = old.lines /\ c.resource = old.resource
    BY <2>1 DEF Clients
  <2> QED
    BY <2>1, <2>2 DEF old
<1>3. client[w].read \in Nat /\ Len(client[w].lines) \in Nat
  BY <1>1 DEF Clients
<1>4. Fits(p, c, local[w])
  <2> HIDE DEF c
  <2>1. c.read <= Len(c.lines)
    BY <1>2, <1>3 DEF Unread
  <2>2. c.read > 0 /\ (p = "end" => c.lines[c.read] \in {"blank", "filling"})
    BY <1>2, <1>3 DEF EndsHeader, NextLine
  <2> QED
    BY <1>1, <1>2, <2>1, <2>2 DEF Fits, Early, Answering
<1>5. /\ client' = [client EXCEPT ![w] = c]
      /\ local' = [local EXCEPT ![w] = local[w]]
  BY DEF Consume, Live, WorkersFit
<1>6. held' = (held \ {<<w, u>> : u \in {}}) \union {<<w, u>> : u \in {}}
  OBVIOUS
<1>7. {} \in SUBSET Uses /\ UsedAt(p) = (UsedAt(pc[w]) \ {}) \union {}
  BY DEF UsedAt
<1>8. p \in Places
  BY DEF Places
<1> HIDE DEF c
<1> QED
  BY <1>1, <1>2, <1>4, <1>5, <1>6, <1>7, <1>8, GoKeeps

LEMMA GetsClientKeeps ==
    ASSUME Live, NEW w \in Workers, GetsClient(w)
    PROVE  Live'
<1>1. PICK q \in Requests :
         client' = [client EXCEPT ![w] = [state |-> "open", lines |-> q.lines, read |-> 0,
                                          resource |-> q.resource, received |-> <<>>]]
  BY DEF GetsClient
<1> DEFINE c == [state |-> "open", lines |-> q.lines, read |-> 0,
                 resource |-> q.resource, received |-> <<>>]
<1>2. q.lines \in Seq(LineKinds) /\ q.resource \in Resources
  BY RequestsAssumption
<1>3. c \in Clients
  BY <1>2 DEF Clients
<1>4. NewLocal \in Locals
  <2>1. [i \in 1..BUFSIZE |-> 0] \in [1..BUFSIZE -> Int]
    OBVIOUS
  <2> QED
    BY <2>1 DEF NewLocal, Locals
<1>5. Fits("stream", c, NewLocal)
  BY <1>2 DEF Fits, NewLocal, Answering
<1>6. held' = (held \ {<<w, u>> : u \in {}}) \union {<<w, u>> : u \in {"client"}}
  BY DEF GetsClient
<1>7. /\ {} \in SUBSET Uses /\ {"client"} \in SUBSET Uses
      /\ UsedAt("stream") = (UsedAt(pc[w]) \ {}) \union {"client"}
  BY DEF GetsClient, UsedAt, Uses
<1>8. GoTo(w, "stream") /\ local' = [local EXCEPT ![w] = NewLocal] /\ "stream" \in Places
  BY DEF GetsClient, GoTo, Places
<1> HIDE DEF c
<1> QED
  BY <1>1, <1>3, <1>4, <1>5, <1>6, <1>7, <1>8, GoKeeps DEF c

\* Fewer lines than were announced, but all that were read.
LEMMA ClientLeavesKeeps ==
    ASSUME Live, NEW w \in Workers, NEW n \in client[w].read..Len(client[w].lines),
           NEW s \in {"finished", "closed", "reset"}, client[w].state # "none",
           client' = [client EXCEPT ![w].state = s, ![w].lines = SubSeq(@, 1, n)],
           UNCHANGED <<pc, local, held, lost, file, changes>>, alive' \in BOOLEAN
    PROVE  Live'
<1> DEFINE c == [client[w] EXCEPT !.state = s, !.lines = SubSeq(@, 1, n)]
<1>1. /\ pc[w] \in Places /\ client[w] \in Clients /\ local[w] \in Locals
      /\ Fits(pc[w], client[w], local[w])
  BY OfOneWorker DEF Live
<1>2. client[w].lines \in Seq(LineKinds) /\ client[w].read \in Nat
  BY <1>1 DEF Clients
<1>3. /\ SubSeq(client[w].lines, 1, n) \in Seq(LineKinds)
      /\ Len(SubSeq(client[w].lines, 1, n)) = n
      /\ \A k \in 1..n : SubSeq(client[w].lines, 1, n)[k] = client[w].lines[k]
  BY <1>2
<1>4. /\ c \in Clients
      /\ c.read = client[w].read /\ c.lines = SubSeq(client[w].lines, 1, n)
      /\ c.resource = client[w].resource /\ c.state # "none"
  BY <1>1, <1>3 DEF Clients
<1>5. client' = [client EXCEPT ![w] = c]
  BY <1>1 DEF Clients
<1> HIDE DEF c
<1>6. Fits(pc[w], c, local[w])
  <2>1. pc[w] # "call"
    BY <1>1 DEF Fits
  <2>2. c.read <= Len(c.lines)
    BY <1>2, <1>3, <1>4
  <2>3. c.read < Len(c.lines) =>
           client[w].read < Len(client[w].lines)
    BY <1>2, <1>3, <1>4
  <2>4. c.read > 0 => c.lines[c.read] = client[w].lines[client[w].read]
    BY <1>2, <1>3, <1>4
  <2>5. c.read = client[w].read /\ c.resource = client[w].resource
    BY <1>4
  <2> QED
    BY <1>1, <2>1, <2>2, <2>3, <2>4, <2>5 DEF Fits
<1>7. WorkersFit'
  <2>1. pc' = [pc EXCEPT ![w] = pc[w]] /\ local' = [local EXCEPT ![w] = local[w]]
    BY DEF Live, WorkersFit
  <2> QED
    BY <1>1, <1>4, <1>5, <1>6, <2>1, OneWorkerMoves DEF Live
<1> QED
  BY <1>7 DEF Live, TableTypes, DescriptorsAreReleased

LEMMA ReadingKeeps ==
    ASSUME Live, NEW w \in Workers, UNCHANGED alive,
           \/ OpenStream(w) \/ OpenStreamFails(w) \/ ReadRequestLine(w)
           \/ NoRequestLine(w) \/ ReadHeaderLine(w) \/ HeaderIsCut(w)
           \/ HeaderFails(w) \/ CloseStream(w)
    PROVE  Live' \/ UNCHANGED vars
<1>1. /\ pc[w] \in Places /\ client[w] \in Clients /\ local[w] \in Locals
      /\ Fits(pc[w], client[w], local[w])
      /\ lost \in Nat
  BY OfOneWorker DEF Live, TableTypes
<1>2. /\ client' = client => client' = [client EXCEPT ![w] = client[w]]
      /\ local' = local => local' = [local EXCEPT ![w] = local[w]]
  BY DEF Live, WorkersFit
<1>3. CASE OpenStream(w)
  <2>1. GoTo(w, "line") /\ UNCHANGED <<client, local>> /\ "line" \in Places
    BY <1>3 DEF OpenStream, Places
  <2>2. held' = (held \ {<<w, u>> : u \in {}}) \union {<<w, u>> : u \in {"copy"}}
    BY <1>3 DEF OpenStream
  <2>3. /\ {} \in SUBSET Uses /\ {"copy"} \in SUBSET Uses
        /\ UsedAt("line") = (UsedAt(pc[w]) \ {}) \union {"copy"}
    BY <1>3 DEF OpenStream, UsedAt, Uses
  <2>4. Fits("line", client[w], local[w])
    BY <1>1, <1>3 DEF Fits, OpenStream, Early, Answering
  <2> QED
    BY <1>1, <1>2, <2>1, <2>2, <2>3, <2>4, GoKeeps
<1>4. CASE OpenStreamFails(w)
  BY <1>1, <1>4, ReturnKeeps DEF OpenStreamFails
<1>5. CASE ReadRequestLine(w)
  <2>1. CASE ~NamesResource(NextLine(w)) /\ Crash
    BY <1>5, <2>1 DEF Crash, vars
  <2> DEFINE p == IF NextLine(w) = "filling" THEN "end" ELSE "headers"
  <2>2. p \in {"headers", "end"} /\ (p = "end" => EndsHeader(NextLine(w)))
    BY DEF EndsHeader
  <2>3. CASE Consume(w) /\ GoTo(w, p) /\ UNCHANGED <<local, held>>
    <3> HIDE DEF p
    <3> QED
      BY <1>5, <2>2, <2>3, ConsumeKeeps DEF ReadRequestLine
  <2> QED
    BY <1>5, <2>1, <2>3 DEF ReadRequestLine
<1>6. CASE NoRequestLine(w)
  BY <1>1, <1>6, ReturnKeeps DEF NoRequestLine
<1>7. CASE ReadHeaderLine(w)
  <2> DEFINE p == IF EndsHeader(NextLine(w)) THEN "end" ELSE "headers"
  <2>1. p \in {"headers", "end"} /\ (p = "end" => EndsHeader(NextLine(w))) /\ GoTo(w, p)
    BY <1>7 DEF ReadHeaderLine
  <2> HIDE DEF p
  <2> QED
    BY <1>7, <2>1, ConsumeKeeps DEF ReadHeaderLine
<1>8. CASE HeaderIsCut(w)
  <2>1. Fits("end", client[w], local[w])
    BY <1>1, <1>8 DEF Fits, HeaderIsCut, Early, Answering, Unread
  <2>2. UsedAt("end") = UsedAt(pc[w]) /\ "end" \in Places
    BY <1>8 DEF HeaderIsCut, UsedAt, Places
  <2> QED
    BY <1>8, <2>1, <2>2, JustGoKeeps DEF HeaderIsCut
<1>9. CASE HeaderFails(w)
  BY <1>1, <1>9, ReturnKeeps DEF HeaderFails
<1>10. CASE CloseStream(w)
  <2>1. CASE Return(w, -1) /\ UNCHANGED lost
    BY <1>1, <1>10, <2>1, ReturnKeeps DEF CloseStream
  <2>2. CASE held' = held \ {<<w, "copy">>} /\ GoTo(w, "stat") /\ UNCHANGED <<client, local>>
    <3>1. held' = (held \ {<<w, u>> : u \in {"copy"}}) \union {<<w, u>> : u \in {}}
      BY <2>2
    <3>2. /\ {} \in SUBSET Uses /\ {"copy"} \in SUBSET Uses
          /\ UsedAt("stat") = (UsedAt(pc[w]) \ {"copy"}) \union {}
      BY <1>10 DEF CloseStream, UsedAt, Uses
    <3>3. Fits("stat", client[w], local[w]) /\ "stat" \in Places
      BY <1>1, <1>10 DEF Fits, CloseStream, Early, Answering, Places
    <3> QED
      BY <1>1, <1>2, <2>2, <3>1, <3>2, <3>3, GoKeeps
  <2> QED
    BY <1>10, <2>1, <2>2 DEF CloseStream
<1> QED
  BY <1>3, <1>4, <1>5, <1>6, <1>7, <1>8, <1>9, <1>10

\* What is read from the file and put into the buffer.
LEMMA BlockIsTyped ==
    ASSUME Live, NEW w \in Workers, NEW from \in 0..(BUFSIZE - 1),
           pc[w] \in {"first", "rest"}
    PROVE  /\ Fetched(w, BUFSIZE - from) \in Nat
           /\ local[w].sent + Fetched(w, BUFSIZE - from) <= local[w].size
           /\ Response(w, from) \in [1..BUFSIZE -> Int]
           /\ Response(w, from) \in Seq(Int)
<1>1. local[w] \in Locals /\ Fits(pc[w], client[w], local[w])
  BY OfOneWorker DEF Live
<1>2. /\ local[w].size \in Int /\ local[w].sent \in Nat
      /\ local[w].response \in [1..BUFSIZE -> Int]
      /\ local[w].sent <= local[w].size
  BY <1>1 DEF Locals, Fits
<1>3. BUFSIZE \in Nat /\ BUFSIZE - from \in Nat
  BY BufferAssumption
<1>4. /\ Fetched(w, BUFSIZE - from) \in Nat
      /\ local[w].sent + Fetched(w, BUFSIZE - from) <= local[w].size
  BY <1>2, <1>3 DEF Fetched
<1>5. Response(w, from) \in [1..BUFSIZE -> Int]
  <2>1. ASSUME NEW i \in 1..BUFSIZE
        PROVE  local[w].sent + (i - from) \in Int /\ local[w].response[i] \in Int
    BY <1>2, <1>3
  <2> QED
    BY <2>1 DEF Response
<1>6. Response(w, from) \in Seq(Int)
  BY <1>3, <1>5
<1> QED
  BY <1>4, <1>5, <1>6

LEMMA WriteBlockKeeps ==
    ASSUME Live, NEW w \in Workers, NEW from \in 0..(BUFSIZE - 1), UNCHANGED alive,
           pc[w] \in {"first", "rest"}, WriteBlock(w, from)
    PROVE  Live' \/ UNCHANGED vars
<1>1. /\ pc[w] \in Places /\ client[w] \in Clients /\ local[w] \in Locals
      /\ Fits(pc[w], client[w], local[w])
      /\ lost \in Nat
  BY OfOneWorker DEF Live, TableTypes
<1>2. CASE Return(w, -1) /\ UNCHANGED lost
  BY <1>1, <1>2, ReturnKeeps
<1>3. CASE /\ local' = [local EXCEPT ![w].response = Response(w, from),
                                     ![w].sent = @ + Fetched(w, BUFSIZE - from)]
           /\ client' = [client EXCEPT ![w].received =
                                        IF Gone(w) THEN @ ELSE @ \o Response(w, from)]
           /\ GoTo(w, "rest")
           /\ UNCHANGED held
  <2> DEFINE n == Fetched(w, BUFSIZE - from)
             R == Response(w, from)
             l == [local[w] EXCEPT !.response = R, !.sent = @ + n]
             g == IF Gone(w) THEN client[w].received ELSE client[w].received \o R
             c == [client[w] EXCEPT !.received = g]
  <2>1. /\ n \in Nat /\ local[w].sent + n <= local[w].size
        /\ R \in [1..BUFSIZE -> Int] /\ R \in Seq(Int)
    BY BlockIsTyped
  <2>0. /\ local' = [local EXCEPT ![w].response = R, ![w].sent = @ + n]
        /\ client' = [client EXCEPT ![w].received = IF Gone(w) THEN @ ELSE @ \o R]
    BY <1>3
  <2> HIDE DEF n, R
  <2>2. /\ local' = [local EXCEPT ![w] = l]
        /\ client' = [client EXCEPT ![w] = c]
    <3>1. /\ local \in [Workers -> Locals] /\ client \in [Workers -> Clients]
          /\ DOMAIN local[w] = {"size", "sent", "response", "ret"}
      BY <1>1 DEF Live, WorkersFit, Locals
    <3>2. local' = [local EXCEPT ![w] = l]
      BY <2>0, <3>1
    <3>3. client' = [client EXCEPT ![w] = c]
      BY <2>0, <3>1
    <3> QED
      BY <3>2, <3>3
  <2>3. /\ l \in Locals /\ l.size = local[w].size /\ l.sent = local[w].sent + n
    <3> DEFINE old == local[w]
               m == local[w].sent + n
    <3>1. old \in Locals /\ m \in Nat /\ l = [old EXCEPT !.response = R, !.sent = m]
      BY <1>1, <2>1 DEF Locals
    <3> HIDE DEF old, m, l
    <3>2. l \in Locals /\ l.size = old.size /\ l.sent = m
      BY <2>1, <3>1 DEF Locals
    <3> QED
      BY <3>2 DEF old, m
  <2>4. g \in Seq(Int)
    BY <1>1, <2>1 DEF Clients
  <2> HIDE DEF l, g
  <2>5. /\ c \in Clients /\ c.read = client[w].read /\ c.lines = client[w].lines
        /\ c.resource = client[w].resource
    BY <1>1, <2>4 DEF Clients
  <2> HIDE DEF c
  <2>6. Fits("rest", c, l)
    <3>1. pc[w] \in Answering /\ pc[w] # "call"
      BY DEF Answering
    <3>2. c.read < Len(c.lines) => c.read > 0 /\ c.lines[c.read] \in {"blank", "filling"}
      BY <1>1, <2>5, <3>1 DEF Fits
    <3>3. l.size # -1 /\ l.sent <= l.size
      BY <1>1, <2>1, <2>3 DEF Fits
    <3>4. c.read <= Len(c.lines) /\ c.resource \in Resources
      BY <1>1, <2>5, <3>1 DEF Fits
    <3> QED
      BY <3>2, <3>3, <3>4 DEF Fits, Early
  <2>7. held' = (held \ {<<w, u>> : u \in {}}) \union {<<w, u>> : u \in {}}
    BY <1>3
  <2>8. /\ {} \in SUBSET Uses /\ "rest" \in Places
        /\ UsedAt("rest") = (UsedAt(pc[w]) \ {}) \union {}
    BY DEF UsedAt, Places
  <2>9. GoTo(w, "rest")
    BY <1>3
  <2> QED
    BY <2>2, <2>3, <2>5, <2>6, <2>7, <2>8, <2>9, GoKeeps
<1> QED
  BY <1>2, <1>3 DEF WriteBlock

LEMMA AnsweringKeeps ==
    ASSUME Live, NEW w \in Workers, UNCHANGED alive,
           \/ NotFound(w) \/ Found(w) \/ StatFails(w) \/ OpenFile(w)
           \/ WriteFirst(w) \/ WriteNext(w) \/ CloseFile(w) \/ CloseClient(w)
    PROVE  Live' \/ UNCHANGED vars
<1>1. /\ pc[w] \in Places /\ client[w] \in Clients /\ local[w] \in Locals
      /\ Fits(pc[w], client[w], local[w])
      /\ lost \in Nat
  BY OfOneWorker DEF Live, TableTypes
<1>2. client' = client => client' = [client EXCEPT ![w] = client[w]]
  BY DEF Live, WorkersFit
<1>3. CASE NotFound(w)
  BY <1>1, <1>3, ReturnKeeps DEF NotFound, Fits, Early
<1>4. CASE Found(w)
  <2>1. CASE Crash
    BY <1>4, <2>1 DEF Crash, vars
  <2>2. CASE Return(w, -1) /\ UNCHANGED lost
    BY <1>1, <1>4, <2>2, ReturnKeeps DEF Found
  <2>3. CASE GoTo(w, "open") /\ UNCHANGED <<client, local, held>>
    <3>1. Fits("open", client[w], local[w]) /\ UsedAt("open") = UsedAt(pc[w])
          /\ "open" \in Places
      BY <1>1, <1>4 DEF Found, Fits, Early, Answering, UsedAt, Places
    <3> QED
      BY <2>3, <3>1, JustGoKeeps
  <2> QED
    BY <1>4, <2>1, <2>2, <2>3 DEF Found
<1>5. CASE StatFails(w)
  BY <1>1, <1>5, ReturnKeeps DEF StatFails
<1>6. CASE OpenFile(w)
  <2>1. CASE Crash
    BY <1>6, <2>1 DEF Crash, vars
  <2>2. CASE /\ CanOpen(w)
             /\ held' = held \union {<<w, "file">>}
             /\ local' = [local EXCEPT ![w].size = file[client[w].resource]]
             /\ GoTo(w, "first")
             /\ UNCHANGED client
    <3> DEFINE f == file[client[w].resource]
               old == local[w]
               l == [old EXCEPT !.size = f]
    <3>1. client[w].resource \in Resources /\ old.size = -1 /\ old.sent = 0
      BY <1>1, <1>6 DEF OpenFile, Fits, Early
    <3>2. f \in Nat
      BY <2>2, <3>1 DEF CanOpen, Live, TableTypes
    <3>3. l \in Locals /\ l.size = f
      BY <1>1, <3>2 DEF Locals
    <3>4. local' = [local EXCEPT ![w] = l]
      BY <2>2
    <3>5. l.sent = old.sent
      BY <1>1 DEF Locals
    <3>6. Fits("first", client[w], l)
      <4> HIDE DEF l, f, old
      <4> QED
        BY <1>1, <1>6, <3>1, <3>2, <3>3, <3>5 DEF OpenFile, Fits, Early, Answering
    <3>7. held' = (held \ {<<w, u>> : u \in {}}) \union {<<w, u>> : u \in {"file"}}
      BY <2>2
    <3>8. /\ {} \in SUBSET Uses /\ {"file"} \in SUBSET Uses /\ "first" \in Places
          /\ UsedAt("first") = (UsedAt(pc[w]) \ {}) \union {"file"}
      BY <1>6 DEF OpenFile, UsedAt, Uses, Places
    <3>9. GoTo(w, "first")
      BY <2>2
    <3> HIDE DEF l, f, old
    <3> QED
      BY <1>1, <1>2, <2>2, <3>3, <3>4, <3>6, <3>7, <3>8, <3>9, GoKeeps, ZenonT(40)
  <2> QED
    BY <1>6, <2>1, <2>2 DEF OpenFile
<1>7. CASE WriteFirst(w)
  BY <1>7, WriteBlockKeeps, BufferAssumption DEF WriteFirst
<1>8. CASE WriteNext(w)
  BY <1>8, WriteBlockKeeps, BufferAssumption DEF WriteNext
<1>9. CASE CloseFile(w)
  <2>1. CASE ~More(w) /\ Return(w, 0)
    <3>1. local[w].sent = local[w].size
      BY <1>1, <1>9, <2>1, BufferAssumption DEF CloseFile, More, Fetched, Fits, Locals
    <3> QED
      BY <1>1, <1>9, <2>1, <3>1, ReturnKeeps DEF CloseFile
  <2>2. CASE Return(w, -1)
    BY <1>1, <1>9, <2>2, ReturnKeeps DEF CloseFile
  <2> QED
    BY <1>9, <2>1, <2>2 DEF CloseFile
<1>10. CASE CloseClient(w)
  <2>1. NoClient \in Clients /\ NewLocal \in Locals
    <3>1. [i \in 1..BUFSIZE |-> 0] \in [1..BUFSIZE -> Int]
      OBVIOUS
    <3> QED
      BY <3>1 DEF NoClient, Clients, NewLocal, Locals
  <2>2. Fits("call", NoClient, NewLocal)
    BY DEF Fits, NoClient, NewLocal, Answering
  <2>3. held' = (held \ {<<w, u>> : u \in {"client"}}) \union {<<w, u>> : u \in {}}
    BY <1>10 DEF CloseClient
  <2>4. /\ {} \in SUBSET Uses /\ {"client"} \in SUBSET Uses /\ "call" \in Places
        /\ UsedAt("call") = (UsedAt(pc[w]) \ {"client"}) \union {}
    BY <1>10 DEF CloseClient, UsedAt, Uses, Places
  <2>5. /\ GoTo(w, "call")
        /\ client' = [client EXCEPT ![w] = NoClient]
        /\ local' = [local EXCEPT ![w] = NewLocal]
    BY <1>10 DEF CloseClient
  <2> QED
    BY <2>1, <2>2, <2>3, <2>4, <2>5, GoKeeps
<1> QED
  BY <1>3, <1>4, <1>5, <1>6, <1>7, <1>8, <1>9, <1>10

-----------------------------------------------------------------------------
(* Death and the invariant.                                                *)

DiesOf(w) ==
    \/ pc[w] = "line" /\ Unread(w) /\ ~NamesResource(NextLine(w))
    \/ pc[w] = "stat" /\ Extension[client[w].resource] = "none"
    \/ pc[w] = "open" /\ ~CanOpen(w)

others == <<pc, client, local, held, lost, file, changes>>

LEMMA DeadlyStep ==
    ASSUME NEW w \in Workers, WorkerStep(w), ~(UNCHANGED alive)
    PROVE  UNCHANGED others /\ DiesOf(w)
<1> USE DEF WorkerStep, Crash, others, DiesOf, GoTo, Return
<1>1. CASE ReadRequestLine(w)
  BY <1>1 DEF ReadRequestLine
<1>2. CASE Found(w)
  BY <1>2 DEF Found
<1>3. CASE OpenFile(w)
  BY <1>3 DEF OpenFile
<1> QED
  BY <1>1, <1>2, <1>3 DEF WriteFirst, WriteNext, WriteBlock, OpenStream, OpenStreamFails, NoRequestLine,
     ReadHeaderLine, HeaderIsCut, HeaderFails, CloseStream, NotFound, StatFails,
     CloseFile, CloseClient

LEMMA NothingElseKeeps ==
    ASSUME IInv, UNCHANGED others, alive' \in BOOLEAN
    PROVE  Live'
BY DEF IInv, Live, others, WorkersFit, TableTypes, DescriptorsAreReleased

LEMMA StepKeeps == IInv /\ [Next]_vars => IInv'
<1> SUFFICES ASSUME IInv, [Next]_vars PROVE IInv'
  OBVIOUS
<1>1. Live
  BY DEF IInv, Live
<1>2. CASE UNCHANGED vars
  <2>1. Live'
    BY <1>2, NothingElseKeeps DEF vars, others, IInv, TableTypes
  <2>2. DeathHasACause'
    BY <1>2 DEF IInv, DeathHasACause, vars, Unread, NextLine, CanOpen, FdIsFree, Gone
  <2> QED
    BY <2>1, <2>2 DEF IInv, Live
<1>3. ASSUME NEW w \in Workers, WorkerStep(w), ~(UNCHANGED alive), alive PROVE IInv'
  <2>1. UNCHANGED others /\ DiesOf(w)
    BY <1>3, DeadlyStep
  <2>2. alive' \in BOOLEAN
    BY <1>3, <2>1 DEF WorkerStep, DiesOf, ReadRequestLine, Found, OpenFile, WriteFirst,
       WriteNext, WriteBlock, Crash, GoTo, Return, OpenStream, OpenStreamFails, NoRequestLine,
       ReadHeaderLine, HeaderIsCut, HeaderFails, CloseStream, NotFound, StatFails,
       CloseFile, CloseClient
  <2>3. DiesOf(w)'
    BY <2>1 DEF DiesOf, others, Unread, NextLine, CanOpen, FdIsFree, Gone
  <2>4. DeathHasACause'
    BY <2>3 DEF DeathHasACause, DiesOf
  <2>5. Live'
    BY <2>1, <2>2, NothingElseKeeps
  <2> QED
    BY <2>4, <2>5 DEF IInv, Live
<1>4. ASSUME alive, UNCHANGED alive, Live' PROVE IInv'
  BY <1>4 DEF IInv, Live, DeathHasACause
<1>5. ASSUME NEW w \in Workers, WorkerStep(w), UNCHANGED alive, alive PROVE IInv'
  <2>1. Live' \/ UNCHANGED vars
    BY <1>1, <1>5, ReadingKeeps, AnsweringKeeps DEF WorkerStep
  <2> QED
    BY <1>2, <1>4, <1>5, <2>1
<1>6. ASSUME NEW w \in Workers, GetsClient(w), alive PROVE IInv'
  <2>1. Live' /\ UNCHANGED alive
    BY <1>1, <1>6, GetsClientKeeps DEF GetsClient
  <2> QED
    BY <1>4, <1>6, <2>1
<1>7. ASSUME NEW w \in Workers, HangUp(w), alive PROVE IInv'
  <2>1. PICK n \in client[w].read..Len(client[w].lines), s \in {"finished", "closed"} :
           client' = [client EXCEPT ![w].state = s, ![w].lines = SubSeq(@, 1, n)]
    BY <1>7 DEF HangUp
  <2>2. Live' /\ UNCHANGED alive
    BY <1>1, <1>7, <2>1, ClientLeavesKeeps DEF HangUp
  <2> QED
    BY <1>4, <1>7, <2>2
<1>8. ASSUME NEW w \in Workers, Reset(w), alive PROVE IInv'
  <2> DEFINE n == client[w].read
  <2>1. n \in client[w].read..Len(client[w].lines)
    <3>1. client[w] \in Clients /\ client[w].read <= Len(client[w].lines)
      BY <1>1, OfOneWorker DEF Live, Fits
    <3> QED
      BY <3>1 DEF Clients
  <2>2. client' = [client EXCEPT ![w].state = "reset", ![w].lines = SubSeq(@, 1, n)]
    BY <1>8 DEF Reset
  <2> HIDE DEF n
  <2>3. Live' /\ UNCHANGED alive
    BY <1>1, <1>8, <2>1, <2>2, ClientLeavesKeeps DEF Reset
  <2> QED
    BY <1>4, <1>8, <2>3
<1>9. ASSUME NEW r \in Resources, NEW n \in Files[r], ChangeFile(r, n), alive PROVE IInv'
  <2>1. n \in Nat \union {-1}
    BY FilesAssumption
  <2>2. Live' /\ UNCHANGED alive
    BY <1>1, <1>9, <2>1, BoundsAssumption
       DEF ChangeFile, Live, WorkersFit, TableTypes, DescriptorsAreReleased
  <2> QED
    BY <1>4, <1>9, <2>2
<1> QED
  BY <1>2, <1>3, <1>5, <1>6, <1>7, <1>8, <1>9 DEF Next

\* What fits together does so in every state, whatever the clients and files do.
THEOREM Invariance == Spec => []IInv
<1>1. Init => IInv
  BY InitHolds
<1>2. IInv /\ [Next]_vars => IInv'
  BY StepKeeps
<1> QED
  BY <1>1, <1>2, PTL DEF Spec

-----------------------------------------------------------------------------
(* What it is for.                                                         *)

LEMMA Consequences == IInv => TypeOK /\ SuccessIsWholeFile /\ RequestIsReadFirst
BY DEF IInv, WorkersFit, TableTypes, Fits, TypeOK, SuccessIsWholeFile, RequestIsReadFirst,
   Unread

\* The types, and that nothing is read past the end of a request or a file.
THEOREM TypeCorrect == Spec => []TypeOK
BY Invariance, Consequences, PTL

\* On every path a worker has released its descriptors when it comes back.
THEOREM Released == Spec => []DescriptorsAreReleased
BY Invariance, PTL DEF IInv

\* A response that succeeded has sent the whole file, whatever its size.
THEOREM WholeFiles == Spec => []SuccessIsWholeFile
BY Invariance, Consequences, PTL

\* No response begins before the header was read, but for a filling line.
THEOREM ReadFirst == Spec => []RequestIsReadFirst
BY Invariance, Consequences, PTL

\* The process dies of three causes only; a client that goes is none of them.
THEOREM Deaths == Spec => []DeathHasACause
BY Invariance, PTL DEF IInv

\* All of it together, for any workers, requests, files and size of the buffer.
THEOREM Sound == Spec => []ExchangesAreSound
<1>1. IInv => ExchangesAreSound
  BY Consequences DEF IInv, ExchangesAreSound
<1> QED
  BY <1>1, Invariance, PTL
-----------------------------------------------------------------------------
(* Losses.                                                                 *)

LossIsBrokenRequest ==
    lost' # lost => /\ lost' = lost + 1
                    /\ \E w \in Workers : /\ client[w].state = "reset"
                                          /\ client[w].read > 0
                                          /\ pc[w] # "close" /\ pc'[w] = "close"

\* Of a worker's steps only HeaderFails loses a descriptor.
LEMMA OnlyHeaderFailsLoses ==
    ASSUME NEW w \in Workers, WorkerStep(w), ~HeaderFails(w)
    PROVE  lost' = lost
<1> USE DEF Crash, GoTo
<1>1. CASE OpenStream(w) \/ OpenStreamFails(w) \/ ReadRequestLine(w) \/ NoRequestLine(w)
           \/ ReadHeaderLine(w) \/ HeaderIsCut(w) \/ CloseStream(w)
  BY <1>1 DEF OpenStream, OpenStreamFails, ReadRequestLine, NoRequestLine, ReadHeaderLine,
     HeaderIsCut, CloseStream
<1>2. CASE NotFound(w) \/ Found(w) \/ StatFails(w) \/ OpenFile(w)
  BY <1>2 DEF NotFound, Found, StatFails, OpenFile
<1>3. CASE WriteFirst(w) \/ WriteNext(w) \/ CloseFile(w) \/ CloseClient(w)
  BY <1>3 DEF WriteFirst, WriteNext, WriteBlock, CloseFile, CloseClient
<1> QED
  BY <1>1, <1>2, <1>3 DEF WorkerStep

\* A descriptor is lost by a connection that breaks after its request line, one for each.
THEOREM LossesAreKnown == Spec => LossesAreBrokenRequests
<1>1. IInv /\ [Next]_vars => [LossIsBrokenRequest]_vars
  <2> SUFFICES ASSUME IInv, Next PROVE LossIsBrokenRequest
    BY DEF LossIsBrokenRequest, vars
  <2>1. ASSUME NEW w \in Workers, HeaderFails(w) PROVE LossIsBrokenRequest
    <3>1. /\ Fits(pc[w], client[w], local[w])
          /\ pc \in [Workers -> Places]
      BY OfOneWorker DEF IInv, WorkersFit
    <3>2. pc[w] = "headers" /\ client[w].state = "reset" /\ lost' = lost + 1
          /\ pc' = [pc EXCEPT ![w] = "close"]
      BY <2>1 DEF HeaderFails, Return
    <3> QED
      BY <3>1, <3>2 DEF Fits, LossIsBrokenRequest
  <2>2. ASSUME NEW w \in Workers, WorkerStep(w) PROVE LossIsBrokenRequest
    BY <2>1, <2>2, OnlyHeaderFailsLoses DEF LossIsBrokenRequest
  <2>3. ASSUME NEW w \in Workers, GetsClient(w) \/ HangUp(w) \/ Reset(w)
        PROVE  LossIsBrokenRequest
    BY <2>3 DEF GetsClient, HangUp, Reset, LossIsBrokenRequest
  <2>4. ASSUME NEW r \in Resources, NEW n \in Files[r], ChangeFile(r, n)
        PROVE  LossIsBrokenRequest
    BY <2>4 DEF ChangeFile, LossIsBrokenRequest
  <2> QED
    BY <2>2, <2>3, <2>4 DEF Next
<1> QED
  BY <1>1, Invariance, PTL DEF Spec, LossesAreBrokenRequests, LossIsBrokenRequest

-----------------------------------------------------------------------------
(* The bytes of a response.                                                *)

WholeBlocks(s) == Len(s) % BUFSIZE = 0

HasHeader(s) == \A i \in 1..HeaderLength : s[i] = -1

\* The first k bytes of the file follow the header.
HasFile(s, k) == \A i \in 1..k : s[HeaderLength + i] = i

\* A buffer with so much of a header and n bytes of the file after those sent before.
IsBlock(r, from, sent, n) ==
    /\ r \in [1..BUFSIZE -> Int]
    /\ n <= BUFSIZE - from
    /\ \A i \in 1..from : r[i] = -1
    /\ \A i \in 1..n : r[from + i] = sent + i

IsGone(c) == c.state \in {"closed", "reset"}

\* What client c has received from a worker at place p with local variables l.  While
\* there is more to read every block was a full one.
Sends(p, c, l) ==
    /\ p \in Early \union {"first"} => c.received = <<>> /\ l.sent = 0
    /\ WholeBlocks(c.received)
    /\ c.received # <<>> => HasHeader(c.received)
    /\ c.received # <<>> /\ ~IsGone(c) =>
          /\ HeaderLength + l.sent <= Len(c.received)
          /\ HasFile(c.received, l.sent)
    /\ p = "rest" /\ ~IsGone(c) =>
          /\ c.received # <<>>
          /\ l.sent < l.size => Len(c.received) = HeaderLength + l.sent

AllSend == \A w \in Workers : Sends(pc[w], client[w], local[w])

\* A block more keeps a whole number of blocks.
LEMMA BlocksAddUp ==
    ASSUME NEW n \in Nat, n % BUFSIZE = 0
    PROVE  (n + BUFSIZE) % BUFSIZE = 0
<1> DEFINE m == n + BUFSIZE
<1>1. BUFSIZE \in Nat /\ BUFSIZE > 0
  BY BufferAssumption
<1>2. n = BUFSIZE * (n \div BUFSIZE) + (n % BUFSIZE)
  BY <1>1
<1>3. PICK q \in Int : n = BUFSIZE * q
  BY <1>1, <1>2
<1>4. m = BUFSIZE * (q + 1)
  BY <1>1, <1>3
<1>5. /\ m = BUFSIZE * (m \div BUFSIZE) + (m % BUFSIZE)
      /\ m % BUFSIZE \in 0..(BUFSIZE - 1) /\ m \div BUFSIZE \in Int
  BY <1>1
<1>6. PICK d \in Int : m % BUFSIZE = BUFSIZE * d /\ d = q + 1 - (m \div BUFSIZE)
  BY <1>1, <1>4, <1>5
<1>7. d = 0
  BY <1>1, <1>5, <1>6
<1> QED
  BY <1>1, <1>6, <1>7

\* A step of worker w that writes nothing.
Quiet(w) ==
    /\ client'[w].received = client[w].received
    /\ IsGone(client[w]) => IsGone(client'[w])
    /\ local'[w].sent = local[w].sent
    /\ \/ pc'[w] = "close"
       \/ pc[w] \in Early /\ pc'[w] \in Early \union {"first"}
       \/ pc'[w] = pc[w] /\ local'[w].size = local[w].size

OthersStay(w) ==
    \A v \in Workers \ {w} : pc'[v] = pc[v] /\ client'[v] = client[v] /\ local'[v] = local[v]

\* Such a step leaves all responses as they are.
LEMMA QuietKeeps ==
    ASSUME WorkersFit, AllSend, NEW w \in Workers, OthersStay(w), Quiet(w)
    PROVE  AllSend'
<1>1. Sends(pc[w], client[w], local[w])
  BY DEF AllSend
<1>2. Sends(pc'[w], client'[w], local'[w])
  BY <1>1 DEF Sends, Quiet, Early
<1> QED
  BY <1>2 DEF AllSend, OthersStay

\* The client of a worker that begins.
LEMMA EmptySends ==
    ASSUME NEW p \in {"call", "stream"}, NEW c, NEW l, c.received = <<>>, l.sent = 0
    PROVE  Sends(p, c, l)
<1>1. WholeBlocks(<<>>)
  BY BufferAssumption DEF WholeBlocks
<1> QED
  BY <1>1 DEF Sends

\* Nothing is written while the request is read,
LEMMA ReadingIsQuiet ==
    ASSUME WorkersFit, NEW w \in Workers,
           \/ OpenStream(w) \/ OpenStreamFails(w) \/ ReadRequestLine(w)
           \/ NoRequestLine(w) \/ ReadHeaderLine(w) \/ HeaderIsCut(w)
           \/ HeaderFails(w) \/ CloseStream(w)
    PROVE  OthersStay(w) /\ Quiet(w)
<1>0. /\ pc \in [Workers -> Places] /\ client \in [Workers -> Clients]
      /\ local \in [Workers -> Locals]
  BY DEF WorkersFit
<1>1. ASSUME UNCHANGED <<client, local>>, NEW q \in Early, pc[w] \in Early,
             pc' = [pc EXCEPT ![w] = q]
      PROVE  OthersStay(w) /\ Quiet(w)
  BY <1>0, <1>1 DEF OthersStay, Quiet
<1>2. ASSUME UNCHANGED client, pc' = [pc EXCEPT ![w] = "close"],
             NEW r, local' = [local EXCEPT ![w].ret = r]
      PROVE  OthersStay(w) /\ Quiet(w)
  BY <1>0, <1>2 DEF OthersStay, Quiet, Locals
<1>3. ASSUME UNCHANGED local, NEW q \in {"end", "headers"}, pc[w] \in Early, Consume(w),
             pc' = [pc EXCEPT ![w] = q]
      PROVE  OthersStay(w) /\ Quiet(w)
  <2>1. client'[w] = [client[w] EXCEPT !.read = @ + 1]
    BY <1>0, <1>3 DEF Consume
  <2>2. client'[w].received = client[w].received /\ client'[w].state = client[w].state
    BY <1>0, <2>1 DEF Clients
  <2> QED
    BY <1>0, <1>3, <2>2 DEF OthersStay, Quiet, Consume, Early, IsGone
<1>4. ASSUME UNCHANGED <<pc, client, local>> PROVE OthersStay(w) /\ Quiet(w)
  BY <1>4 DEF OthersStay, Quiet
<1> USE DEF GoTo, Return, Early
<1>5. CASE OpenStream(w)
  BY <1>1, <1>5 DEF OpenStream
<1>6. CASE OpenStreamFails(w) \/ NoRequestLine(w) \/ HeaderFails(w)
  BY <1>2, <1>6 DEF OpenStreamFails, NoRequestLine, HeaderFails
<1>7. CASE ReadRequestLine(w)
  BY <1>3, <1>4, <1>7 DEF ReadRequestLine, Crash
<1>8. CASE ReadHeaderLine(w)
  BY <1>3, <1>8 DEF ReadHeaderLine
<1>9. CASE HeaderIsCut(w)
  BY <1>1, <1>9 DEF HeaderIsCut
<1>10. CASE CloseStream(w)
  BY <1>1, <1>2, <1>10 DEF CloseStream
<1> QED
  BY <1>5, <1>6, <1>7, <1>8, <1>9, <1>10

\* nor by the steps of an answer but those that write a block.
LEMMA AnsweringIsQuiet ==
    ASSUME WorkersFit, NEW w \in Workers,
           NotFound(w) \/ Found(w) \/ StatFails(w) \/ OpenFile(w) \/ CloseFile(w)
    PROVE  OthersStay(w) /\ Quiet(w)
<1>0. /\ pc \in [Workers -> Places] /\ client \in [Workers -> Clients]
      /\ local \in [Workers -> Locals]
  BY DEF WorkersFit
<1>1. ASSUME NEW r, Return(w, r) PROVE OthersStay(w) /\ Quiet(w)
  BY <1>0, <1>1 DEF OthersStay, Quiet, Locals, Return
<1>2. ASSUME Crash PROVE OthersStay(w) /\ Quiet(w)
  BY <1>2 DEF OthersStay, Quiet, Crash
<1>3. CASE NotFound(w) \/ StatFails(w) \/ CloseFile(w)
  BY <1>1, <1>3 DEF NotFound, StatFails, CloseFile
<1>4. CASE Found(w)
  <2>1. CASE GoTo(w, "open") /\ UNCHANGED <<client, local, held>>
    BY <1>0, <1>4, <2>1 DEF Found, GoTo, OthersStay, Quiet, Early
  <2> QED
    BY <1>1, <1>2, <1>4, <2>1 DEF Found
<1>5. CASE OpenFile(w)
  <2>1. CASE /\ local' = [local EXCEPT ![w].size = file[client[w].resource]]
             /\ GoTo(w, "first")
             /\ UNCHANGED client
    BY <1>0, <1>5, <2>1 DEF OpenFile, GoTo, OthersStay, Quiet, Early, Locals
  <2> QED
    BY <1>2, <1>5, <2>1 DEF OpenFile
<1> QED
  BY <1>3, <1>4, <1>5

\* The two parts of a sequence that was appended to.
LEMMA AppendedInts ==
    ASSUME NEW s \in Seq(Int), NEW r \in Seq(Int)
    PROVE  /\ s \o r \in Seq(Int)
           /\ Len(s \o r) = Len(s) + Len(r)
           /\ \A i \in 1..Len(s) : (s \o r)[i] = s[i]
           /\ \A i \in 1..Len(r) : (s \o r)[Len(s) + i] = r[i]
<1>1. Len(s) \in Nat /\ Len(r) \in Nat
  OBVIOUS
<1>2. s \o r \in Seq(Int) /\ Len(s \o r) = Len(s) + Len(r)
  OBVIOUS
<1>3. ASSUME NEW i \in 1..Len(s) PROVE (s \o r)[i] = s[i]
  <2>1. i \in 1..(Len(s) + Len(r)) /\ i <= Len(s)
    BY <1>1
  <2> QED
    BY <2>1, ConcatProperties
<1>4. ASSUME NEW i \in 1..Len(r) PROVE (s \o r)[Len(s) + i] = r[i]
  <2>1. /\ Len(s) + i \in 1..(Len(s) + Len(r)) /\ ~(Len(s) + i <= Len(s))
        /\ (Len(s) + i) - Len(s) = i
    BY <1>1
  <2> QED
    BY <2>1, ConcatProperties
<1> QED
  BY <1>2, <1>3, <1>4

\* Where byte j of what was read goes, after a header or what was sent before.
LEMMA NextByte ==
    ASSUME NEW has \in Nat, NEW from \in Nat, NEW sent \in Nat, NEW n \in Nat,
           n <= BUFSIZE - from, has + from = HeaderLength + sent
    PROVE  /\ \A j \in 1..n : /\ from + j \in 1..BUFSIZE
                              /\ HeaderLength + (sent + j) = has + (from + j)
           /\ HeaderLength + sent + n <= has + BUFSIZE
           /\ n = BUFSIZE - from => has + BUFSIZE = HeaderLength + sent + n
           /\ has + BUFSIZE > 0
<1>1. BUFSIZE \in Nat /\ HeaderLength \in Nat /\ BUFSIZE > 0
  BY BufferAssumption
<1> QED
  BY <1>1

\* The buffer is appended to what the client has: the header, then the file's bytes from
\* the one on that was not sent yet.
LEMMA AppendedSends ==
    ASSUME NEW R, NEW g \in Seq(Int), NEW from \in Nat, NEW sent \in Nat, NEW n \in Nat,
           IsBlock(R, from, sent, n),
           \/ from = HeaderLength /\ g = <<>> /\ sent = 0
           \/ from = 0 /\ g # <<>> /\ Len(g) = HeaderLength + sent,
           g # <<>> => HasHeader(g) /\ HasFile(g, sent)
    PROVE  /\ g \o R # <<>>
           /\ Len(g \o R) = Len(g) + BUFSIZE
           /\ HeaderLength + sent + n <= Len(g \o R)
           /\ n = BUFSIZE - from => Len(g \o R) = HeaderLength + sent + n
           /\ HasHeader(g \o R)
           /\ HasFile(g \o R, sent + n)
<1> DEFINE h == g \o R
<1>1. BUFSIZE \in Nat /\ HeaderLength \in 1..(BUFSIZE - 1)
  BY BufferAssumption
<1>2. /\ R \in Seq(Int) /\ Len(R) = BUFSIZE
      /\ Len(g) \in Nat
  BY <1>1 DEF IsBlock
<1>3. /\ n <= BUFSIZE - from
      /\ \A i \in 1..from : R[i] = -1
      /\ \A i \in 1..n : R[from + i] = sent + i
  BY DEF IsBlock
<1>4. /\ h \in Seq(Int) /\ Len(h) = Len(g) + BUFSIZE
      /\ \A i \in 1..Len(g) : h[i] = g[i]
      /\ \A i \in 1..BUFSIZE : h[Len(g) + i] = R[i]
  BY <1>2, AppendedInts
<1>5. Len(g) + from = HeaderLength + sent
  <2>1. CASE from = HeaderLength /\ g = <<>> /\ sent = 0
    <3>1. Len(g) = 0
      BY <2>1
    <3> QED
      BY <1>1, <2>1, <3>1
  <2>2. CASE from = 0 /\ g # <<>> /\ Len(g) = HeaderLength + sent
    BY <1>1, <2>2
  <2> QED
    BY <2>1, <2>2
<1> HIDE DEF h
<1>6. \A i \in 1..HeaderLength : h[i] = -1
  <2>1. CASE from = 0
    <3>1. g # <<>> /\ HeaderLength <= Len(g)
      BY <1>1, <1>2, <2>1
    <3>2. \A i \in 1..HeaderLength : i \in 1..Len(g) /\ g[i] = -1
      <4>1. \A i \in 1..HeaderLength : i \in 1..Len(g)
        BY <1>1, <1>2, <3>1
      <4> QED
        BY <3>1, <4>1 DEF HasHeader
    <3> QED
      BY <1>4, <3>2
  <2>2. CASE from # 0
    <3>1. from = HeaderLength /\ g = <<>> /\ Len(g) = 0
      BY <2>2
    <3>2. ASSUME NEW i \in 1..HeaderLength
          PROVE  i \in 1..BUFSIZE /\ i \in 1..from /\ Len(g) + i = i
      BY <1>1, <3>1
    <3> QED
      BY <1>4, <1>3, <3>2
  <2> QED
    BY <2>1, <2>2
<1>7. ASSUME NEW i \in 1..(sent + n) PROVE h[HeaderLength + i] = i
  <2>1. CASE i <= sent
    <3>1. i \in 1..sent /\ sent # 0 /\ g # <<>>
      BY <2>1
    <3>2. HeaderLength + i \in 1..Len(g)
      <4>1. from = 0
        BY <3>1
      <4> QED
        BY <1>1, <1>2, <1>5, <3>1, <4>1
    <3> QED
      BY <1>4, <3>1, <3>2 DEF HasFile
  <2>2. CASE i > sent
    <3>1. PICK j \in 1..n : i = sent + j
      <4>1. i - sent \in 1..n /\ i = sent + (i - sent)
        BY <2>2
      <4> QED
        BY <4>1
    <3>2. from + j \in 1..BUFSIZE /\ HeaderLength + i = Len(g) + (from + j)
      BY <1>2, <1>3, <1>5, <3>1, NextByte
    <3>3. h[Len(g) + (from + j)] = R[from + j] /\ R[from + j] = sent + j
      BY <1>4, <1>3, <3>1, <3>2
    <3> QED
      BY <3>1, <3>2, <3>3
  <2> QED
    BY <2>1, <2>2
<1>8. /\ HeaderLength + sent + n <= Len(h)
      /\ n = BUFSIZE - from => Len(h) = HeaderLength + sent + n
      /\ Len(h) > 0
  BY <1>2, <1>4, <1>3, <1>5, NextByte
<1>9. h # <<>>
  BY <1>8
<1> QED
  BY <1>4, <1>6, <1>7, <1>8, <1>9 DEF h, HasHeader, HasFile

\* A block that is written, the first or a later one, goes on where the last one ended.
LEMMA WriteBlockSends ==
    ASSUME WorkersFit, AllSend, NEW w \in Workers, WriteFirst(w) \/ WriteNext(w)
    PROVE  AllSend'
<1>0. /\ pc \in [Workers -> Places] /\ client \in [Workers -> Clients]
      /\ local \in [Workers -> Locals]
      /\ Fits(pc[w], client[w], local[w])
      /\ Sends(pc[w], client[w], local[w])
  BY DEF WorkersFit, AllSend
<1>1. PICK from \in {0, HeaderLength} :
         /\ WriteBlock(w, from)
         /\ \/ from = HeaderLength /\ pc[w] = "first"
            \/ from = 0 /\ pc[w] = "rest" /\ More(w)
  BY DEF WriteFirst, WriteNext
<1>2. CASE Return(w, -1)
  <2>1. OthersStay(w) /\ Quiet(w)
    BY <1>0, <1>2 DEF OthersStay, Quiet, Locals, Return
  <2> QED
    BY <2>1, QuietKeeps
<1>3. CASE Crash
  <2>1. OthersStay(w) /\ Quiet(w)
    BY <1>3 DEF OthersStay, Quiet, Crash
  <2> QED
    BY <2>1, QuietKeeps
<1>4. CASE /\ local' = [local EXCEPT ![w].response = Response(w, from),
                                     ![w].sent = @ + Fetched(w, BUFSIZE - from)]
           /\ client' = [client EXCEPT ![w].received =
                                        IF Gone(w) THEN @ ELSE @ \o Response(w, from)]
           /\ GoTo(w, "rest")
  <2> DEFINE n == Fetched(w, BUFSIZE - from)
             R == Response(w, from)
             g == client[w].received
             sent == local[w].sent
  <2>1. BUFSIZE \in Nat /\ HeaderLength \in 1..(BUFSIZE - 1) /\ from \in 0..(BUFSIZE - 1)
    BY BufferAssumption
  <2>2. /\ local[w].size \in Int /\ sent \in Nat /\ sent <= local[w].size
        /\ g \in Seq(Int)
        /\ local[w].response \in [1..BUFSIZE -> Int]
    BY <1>0, <1>1 DEF Locals, Clients, Fits
  <2>3. /\ n \in Nat /\ n <= BUFSIZE - from
        /\ sent + n < local[w].size => n = BUFSIZE - from
    BY <2>1, <2>2 DEF Fetched
  <2>4. IsBlock(R, from, sent, n)
    <3>1. ASSUME NEW i \in 1..BUFSIZE
          PROVE  sent + (i - from) \in Int /\ local[w].response[i] \in Int
      BY <2>1, <2>2
    <3>2. R \in [1..BUFSIZE -> Int]
      BY <3>1 DEF Response
    <3>3. \A i \in 1..from : R[i] = -1
      BY <2>1 DEF Response
    <3>4. ASSUME NEW i \in 1..n PROVE R[from + i] = sent + i
      <4>1. from + i \in 1..BUFSIZE /\ ~(from + i <= from) /\ (from + i) - from = i
        BY <2>1, <2>3
      <4> QED
        BY <2>3, <4>1 DEF Response
    <3> QED
      BY <2>3, <3>2, <3>3, <3>4 DEF IsBlock
  <2>5. /\ pc'[w] = "rest"
        /\ local'[w].sent = sent + n
        /\ local'[w].size = local[w].size
        /\ client'[w].received = IF Gone(w) THEN g ELSE g \o R
        /\ client'[w].state = client[w].state
    BY <1>0, <1>4 DEF GoTo, Locals, Clients
  <2>6. OthersStay(w)
    BY <1>0, <1>4 DEF OthersStay, GoTo
  <2> HIDE DEF n, R, g, sent
  <2>7. IsGone(client'[w]) <=> Gone(w)
    BY <2>5 DEF IsGone, Gone
  <2>8. CASE Gone(w)
    BY <1>0, <1>1, <2>1, <2>5, <2>6, <2>7, <2>8 DEF AllSend, OthersStay, Sends, Early, g, sent
  <2>9. CASE ~Gone(w)
    <3>1. /\ WholeBlocks(g)
          /\ g # <<>> => HasHeader(g) /\ HasFile(g, sent)
      BY <1>0, <2>9 DEF Sends, IsGone, Gone, g, sent
    <3>2. \/ from = HeaderLength /\ g = <<>> /\ sent = 0
          \/ from = 0 /\ g # <<>> /\ Len(g) = HeaderLength + sent
      <4>1. CASE from = HeaderLength /\ pc[w] = "first"
        BY <1>0, <4>1 DEF Sends, Fits, Early, g, sent
      <4>2. CASE from = 0 /\ pc[w] = "rest" /\ More(w)
        <5>1. sent < local[w].size
          BY <2>1, <2>2, <4>2 DEF More, Fetched, sent
        <5> QED
          BY <1>0, <2>9, <4>2, <5>1 DEF Sends, IsGone, Gone, g, sent
      <4> QED
        BY <1>1, <4>1, <4>2
    <3>3. /\ g \o R # <<>>
          /\ Len(g \o R) = Len(g) + BUFSIZE
          /\ HeaderLength + sent + n <= Len(g \o R)
          /\ n = BUFSIZE - from => Len(g \o R) = HeaderLength + sent + n
          /\ HasHeader(g \o R)
          /\ HasFile(g \o R, sent + n)
      <4>1. sent \in Nat /\ g \in Seq(Int) /\ from \in Nat /\ n \in Nat
        BY <2>1, <2>2, <2>3 DEF g, sent
      <4> QED
        BY <2>4, <3>1, <3>2, <4>1, AppendedSends
    <3>4. HeaderLength + sent + n = HeaderLength + (sent + n)
      BY <2>1, <2>2, <2>3
    <3>5. /\ sent + n < local[w].size => Len(g \o R) = HeaderLength + (sent + n)
          /\ HeaderLength + (sent + n) <= Len(g \o R)
      BY <2>3, <3>3, <3>4
    <3>6. WholeBlocks(g \o R)
      BY <2>2, <3>1, <3>3, BlocksAddUp DEF WholeBlocks, g
    <3>7. Sends(pc'[w], client'[w], local'[w])
      BY <2>5, <2>9, <3>3, <3>5, <3>6 DEF Sends, Early
    <3> QED
      BY <2>6, <3>7 DEF AllSend, OthersStay
  <2> QED
    BY <2>8, <2>9
<1> QED
  BY <1>1, <1>2, <1>3, <1>4 DEF WriteBlock

\* Every step keeps what clients have received a header and a file's beginning.
LEMMA StepSends == WorkersFit /\ AllSend /\ [Next]_vars => AllSend'
<1> SUFFICES ASSUME WorkersFit, AllSend, [Next]_vars PROVE AllSend'
  OBVIOUS
<1>0. /\ pc \in [Workers -> Places] /\ client \in [Workers -> Clients]
      /\ local \in [Workers -> Locals]
  BY DEF WorkersFit
<1>1. ASSUME NEW w \in Workers, WorkerStep(w) PROVE AllSend'
  <2>1. CASE CloseClient(w)
    <3>1. /\ pc'[w] = "call" /\ client'[w] = NoClient
          /\ OthersStay(w)
      BY <1>0, <2>1 DEF CloseClient, GoTo, OthersStay
    <3>2. local'[w].sent = 0
      BY <1>0, <2>1 DEF CloseClient, NewLocal
    <3>3. Sends(pc'[w], client'[w], local'[w])
      BY <3>1, <3>2, EmptySends DEF NoClient
    <3> QED
      BY <3>1, <3>3 DEF AllSend, OthersStay
  <2> QED
    BY <1>1, <2>1, ReadingIsQuiet, AnsweringIsQuiet, QuietKeeps, WriteBlockSends DEF WorkerStep
<1>2. ASSUME NEW w \in Workers, GetsClient(w) PROVE AllSend'
  <2>1. /\ pc'[w] = "stream" /\ client'[w].received = <<>> /\ local'[w].sent = 0
        /\ OthersStay(w)
    BY <1>0, <1>2 DEF GetsClient, OthersStay, NewLocal
  <2>2. Sends(pc'[w], client'[w], local'[w])
    BY <2>1, EmptySends
  <2> QED
    BY <2>1, <2>2 DEF AllSend, OthersStay
<1>3. ASSUME NEW w \in Workers, HangUp(w) \/ Reset(w) PROVE AllSend'
  <2>1. /\ client[w].state \in {"open", "finished"}
        /\ UNCHANGED <<pc, local>>
    BY <1>3 DEF HangUp, Reset
  <2>2. /\ client'[w].received = client[w].received
        /\ \A v \in Workers \ {w} : client'[v] = client[v]
    <3>1. CASE Reset(w)
      BY <1>0, <3>1 DEF Reset, Clients
    <3>2. CASE HangUp(w)
      <4>1. PICK n \in client[w].read..Len(client[w].lines), s \in {"finished", "closed"} :
               client' = [client EXCEPT ![w].state = s, ![w].lines = SubSeq(@, 1, n)]
        BY <3>2 DEF HangUp
      <4> QED
        BY <1>0, <4>1 DEF Clients
    <3> QED
      BY <1>3, <3>1, <3>2
  <2>3. OthersStay(w) /\ Quiet(w)
    BY <1>0, <2>1, <2>2 DEF OthersStay, Quiet, IsGone
  <2> QED
    BY <2>3, QuietKeeps
<1>4. ASSUME NEW r \in Resources, NEW n \in Files[r], ChangeFile(r, n) PROVE AllSend'
  BY <1>4 DEF ChangeFile, AllSend
<1>5. CASE UNCHANGED vars
  BY <1>5 DEF vars, AllSend
<1> QED
  BY <1>1, <1>2, <1>3, <1>4, <1>5 DEF Next

\* What a client has received is the header and the file from its beginning, in whole
\* blocks, for any length of either and of the buffer.
THEOREM ResponsesAreFiles == Spec => []ResponseIsFile
<1>1. Init => AllSend
  <2> SUFFICES ASSUME Init, NEW w \in Workers PROVE Sends(pc[w], client[w], local[w])
    BY DEF AllSend
  <2>1. pc[w] = "call" /\ client[w] = NoClient /\ local[w].sent = 0
    BY DEF Init, NewLocal
  <2> QED
    BY <2>1, EmptySends DEF NoClient
<1>2. IInv /\ AllSend /\ [Next]_vars => AllSend'
  BY StepSends DEF IInv
<1>3. AllSend => ResponseIsFile
  BY DEF AllSend, Sends, WholeBlocks, HasHeader, HasFile, ResponseIsFile, IsGone, Gone
<1> QED
  BY <1>1, <1>2, <1>3, Invariance, PTL DEF Spec

-----------------------------------------------------------------------------
(* The refinement.                                                         *)

Stages == [w \in Workers |-> Stage(w)]

StageOf(p) == CASE p \in {"stream", "line", "headers", "end"} -> "read"
                [] p \in Answering                            -> "write"
                [] OTHER                                       -> p

\* A worker's stage depends on its place alone.
LEMMA StagesAre == Stages = [w \in Workers |-> StageOf(pc[w])]
BY DEF Stages, Stage, StageOf

\* A step of one worker from place p to place q.
LEMMA OneStage ==
    ASSUME pc \in [Workers -> Places], NEW w \in Workers, NEW q \in Places,
           pc' = [pc EXCEPT ![w] = q]
    PROVE  Stages' = [Stages EXCEPT ![w] = StageOf(q)]
BY StagesAre DEF Stages, Stage, StageOf, Answering

\* What a request may do to the stage of its worker.
Leads(p, q) ==
    <<StageOf(p), StageOf(q)>> \in {<<"call", "read">>, <<"read", "write">>, <<"read", "close">>,
                                   <<"write", "close">>, <<"close", "call">>}
    \/ StageOf(p) = StageOf(q)

\* It is a step of the exchange, or none.
LEMMA OneStageMaps ==
    ASSUME pc \in [Workers -> Places], NEW w \in Workers, NEW q \in Places,
           pc' = [pc EXCEPT ![w] = q], Leads(pc[w], q)
    PROVE  [Exchange!Next]_Stages
<1>1. /\ Stages' = [Stages EXCEPT ![w] = StageOf(q)]
      /\ Stages[w] = StageOf(pc[w])
      /\ Stages = [Stages EXCEPT ![w] = StageOf(pc[w])]
  BY OneStage, StagesAre
<1>2. CASE StageOf(pc[w]) = StageOf(q)
  BY <1>1, <1>2
<1>3. CASE StageOf(pc[w]) # StageOf(q)
  <2>1. Exchange!Goes(w, StageOf(pc[w]), StageOf(q))
    BY <1>1 DEF Exchange!Goes, Stages
  <2>2. \/ Exchange!GetsClient(w)
        \/ Exchange!ReadRequest(w)
        \/ Exchange!RequestFails(w)
        \/ Exchange!WriteResponse(w)
        \/ Exchange!CloseClient(w)
    BY <1>3, <2>1 DEF Leads, Exchange!GetsClient, Exchange!ReadRequest, Exchange!RequestFails,
       Exchange!WriteResponse, Exchange!CloseClient
  <2> QED
    BY <2>2 DEF Exchange!Next
<1> QED
  BY <1>2, <1>3

\* Where a step of a worker leads.
LEMMA WorkerLeads ==
    ASSUME NEW w \in Workers, WorkerStep(w)
    PROVE  \/ UNCHANGED pc
           \/ \E q \in Places : pc' = [pc EXCEPT ![w] = q] /\ Leads(pc[w], q)
<1> USE DEF Crash, GoTo, Return, Leads, StageOf, Answering, Places
<1>1. CASE OpenStream(w) \/ OpenStreamFails(w) \/ NoRequestLine(w)
  BY <1>1 DEF OpenStream, OpenStreamFails, NoRequestLine
<1>2. CASE ReadRequestLine(w) \/ ReadHeaderLine(w)
  <2>1. UNCHANGED pc \/ \E q \in {"end", "headers"} : pc' = [pc EXCEPT ![w] = q]
    BY <1>2 DEF ReadRequestLine, ReadHeaderLine
  <2> QED
    BY <1>2, <2>1 DEF ReadRequestLine, ReadHeaderLine
<1>3. CASE HeaderIsCut(w) \/ HeaderFails(w) \/ CloseStream(w)
  BY <1>3 DEF HeaderIsCut, HeaderFails, CloseStream
<1>4. CASE NotFound(w) \/ Found(w) \/ StatFails(w) \/ OpenFile(w)
  BY <1>4 DEF NotFound, Found, StatFails, OpenFile
<1>5. CASE WriteFirst(w) \/ WriteNext(w)
  BY <1>5 DEF WriteFirst, WriteNext, WriteBlock
<1>6. CASE CloseFile(w) \/ CloseClient(w)
  BY <1>6 DEF CloseFile, CloseClient
<1> QED
  BY <1>1, <1>2, <1>3, <1>4, <1>5, <1>6 DEF WorkerStep

\* So is every step of the process.
LEMMA StepMaps ==
    ASSUME pc \in [Workers -> Places], [Next]_vars
    PROVE  [Exchange!Next]_Stages
<1>1. ASSUME UNCHANGED pc PROVE [Exchange!Next]_Stages
  BY <1>1, StagesAre DEF Stages, Stage
<1>2. ASSUME NEW w \in Workers, WorkerStep(w) PROVE [Exchange!Next]_Stages
  BY <1>1, <1>2, WorkerLeads, OneStageMaps
<1>3. ASSUME NEW w \in Workers, GetsClient(w) PROVE [Exchange!Next]_Stages
  <2>1. pc' = [pc EXCEPT ![w] = "stream"] /\ "stream" \in Places /\ Leads(pc[w], "stream")
    BY <1>3 DEF GetsClient, Places, Leads, StageOf, Answering
  <2> QED
    BY <2>1, OneStageMaps
<1>4. ASSUME NEW w \in Workers, HangUp(w) \/ Reset(w) PROVE [Exchange!Next]_Stages
  BY <1>1, <1>4 DEF HangUp, Reset
<1>5. ASSUME NEW r \in Resources, NEW n \in Files[r], ChangeFile(r, n)
      PROVE  [Exchange!Next]_Stages
  BY <1>1, <1>5 DEF ChangeFile
<1>6. CASE UNCHANGED vars
  BY <1>1, <1>6 DEF vars
<1> QED
  BY <1>2, <1>3, <1>4, <1>5, <1>6 DEF Next

\* Workers are what HttpServer takes them for: a request is read or fails, an answer is
\* written or fails, and the client is closed.
THEOREM WorkersAreAsAssumed == Spec => ImplementsHttpExchange
<1>1. Init => Exchange!Init
  BY DEF Init, Exchange!Init, Stage, Answering
<1>2. IInv /\ [Next]_vars => [Exchange!Next]_Stages
  BY StepMaps DEF IInv, WorkersFit
<1> QED
  BY <1>1, <1>2, Invariance, PTL DEF Spec, ImplementsHttpExchange, Exchange!Spec, Stages

(***************************************************************************)
(* The barrier that the workers' open and fopen go through, for any number *)
(* of threads and any CONCURRENCY_DEGREE > 0.  From here on the proofs are *)
(* about ConcurrentOpen and use none of HttpConnection's assumptions.      *)
(***************************************************************************)

-----------------------------------------------------------------------------
\* The number of waiting threads changes by one when a thread starts or stops
\* waiting, and by nothing else.
LEMMA WaitingCount ==
    ASSUME NEW t \in Threads, NEW place \in BPlaces, at \in [Threads -> BPlaces],
           at' = [at EXCEPT ![t] = place]
    PROVE  /\ Cardinality(Waiting) \in Nat
           /\ (at[t] # "wait" /\ place = "wait") =>
                  Cardinality(Waiting') = Cardinality(Waiting) + 1
           /\ (at[t] = "wait" /\ place # "wait") =>
                  Cardinality(Waiting') = Cardinality(Waiting) - 1
           /\ (at[t] # "wait" /\ place # "wait") => Waiting' = Waiting
<1>1. IsFiniteSet(Waiting) /\ Cardinality(Waiting) \in Nat
  <2>1. Waiting \subseteq Threads
    BY DEF Waiting
  <2>q. QED BY <2>1, OpenersAssumption, FS_Subset, FS_CardinalityType
<1>2. ASSUME at[t] # "wait", place = "wait"
      PROVE  Cardinality(Waiting') = Cardinality(Waiting) + 1
  <2>1. Waiting' = Waiting \union {t} /\ t \notin Waiting
    BY <1>2 DEF Waiting
  <2>q. QED BY <1>1, <2>1, FS_AddElement
<1>3. ASSUME at[t] = "wait", place # "wait"
      PROVE  Cardinality(Waiting') = Cardinality(Waiting) - 1
  <2>1. Waiting' = Waiting \ {t} /\ t \in Waiting
    BY <1>3 DEF Waiting
  <2>q. QED BY <1>1, <2>1, FS_RemoveElement
<1>4. (at[t] # "wait" /\ place # "wait") => Waiting' = Waiting
  BY DEF Waiting
<1>q. QED BY <1>1, <1>2, <1>3, <1>4

\* BarrierInv holds initially and every step preserves it.
THEOREM BarrierInvInductive == (BInit => BarrierInv) /\ (BarrierInv /\ [BNext]_bvars => BarrierInv')
<1>1. BInit => BarrierInv
  <2> SUFFICES ASSUME BInit PROVE BarrierInv
    OBVIOUS
  <2>1. Waiting = {}
    BY DEF BInit, Waiting
  <2>2. Cardinality(Waiting) = 0
    BY <2>1, FS_EmptySet
  <2>q. QED
    BY <2>2, OpenersAssumption, DegreeAssumption
    DEF BInit, BarrierInv, BTypeOK, BPlaces, PosterHoldsLock, TokensMatchWaiters
<1>2. BarrierInv /\ [BNext]_bvars => BarrierInv'
  <2> SUFFICES ASSUME BarrierInv, [BNext]_bvars PROVE BarrierInv'
    OBVIOUS
  <2> USE OpenersAssumption, DegreeAssumption DEF BarrierInv, BTypeOK, BPlaces
  <2>1. ASSUME NEW t \in Threads, Open(t) PROVE BarrierInv'
    <3>1. Waiting' = Waiting
      BY <2>1, WaitingCount DEF Open
    <3>2. BTypeOK' /\ PosterHoldsLock'
      BY <2>1 DEF Open, PosterHoldsLock
    <3>q. QED BY <2>1, <3>1, <3>2 DEF Open, TokensMatchWaiters
  <2>2. ASSUME NEW t \in Threads, InitSemaphore(t) PROVE BarrierInv'
    <3>0. PICK next \in {"barrier", "away"} : at' = [at EXCEPT ![t] = next]
      BY <2>2 DEF InitSemaphore
    <3>1. Waiting' = Waiting
      BY <2>2, <3>0, WaitingCount DEF InitSemaphore
    <3>2. semaphore' = semaphore
      BY <2>2 DEF InitSemaphore, PosterHoldsLock
    <3>3. BTypeOK' /\ PosterHoldsLock'
      BY <2>2, <3>0, <3>2 DEF InitSemaphore, PosterHoldsLock
    <3>q. QED BY <2>2, <3>1, <3>2, <3>3 DEF InitSemaphore, TokensMatchWaiters
  <2>3. ASSUME NEW t \in Threads, Wait(t) PROVE BarrierInv'
    <3>1. Cardinality(Waiting') = Cardinality(Waiting) + 1
      BY <2>3, WaitingCount DEF Wait
    <3>2. BTypeOK' /\ PosterHoldsLock'
      BY <2>3 DEF Wait, PosterHoldsLock
    <3>q. QED BY <2>3, <3>1, <3>2 DEF Wait, TokensMatchWaiters
  <2>4. ASSUME NEW t \in Threads, LastArrives(t) PROVE BarrierInv'
    <3>1. Waiting' = Waiting
      BY <2>4, WaitingCount DEF LastArrives
    <3>2. BTypeOK' /\ PosterHoldsLock'
      BY <2>4 DEF LastArrives, PosterHoldsLock, Waiting
    <3>q. QED BY <2>4, <3>1, <3>2 DEF LastArrives, TokensMatchWaiters
  <2>5. ASSUME NEW t \in Threads, Post(t) PROVE BarrierInv'
    <3>1. lock = t /\ lock # NoThread /\ Waiting' = Waiting
      BY <2>5 DEF Post, PosterHoldsLock, Waiting
    <3>2. BTypeOK' /\ PosterHoldsLock'
      BY <2>5, <3>1 DEF Post, PosterHoldsLock
    <3>q. QED BY <2>5, <3>1, <3>2 DEF Post, TokensMatchWaiters
  <2>6. ASSUME NEW t \in Threads, LastLeaves(t) PROVE BarrierInv'
    <3>1. lock = t /\ lock # NoThread /\ Waiting' = Waiting
      BY <2>6, WaitingCount DEF LastLeaves, PosterHoldsLock
    <3>2. BTypeOK' /\ PosterHoldsLock'
      BY <2>6, <3>1 DEF LastLeaves, PosterHoldsLock
    <3>q. QED BY <2>6, <3>1, <3>2 DEF LastLeaves, TokensMatchWaiters
  <2>7. ASSUME NEW t \in Threads, Pass(t) PROVE BarrierInv'
    <3>1. /\ Cardinality(Waiting') = Cardinality(Waiting) - 1
          /\ Cardinality(Waiting) \in Nat
      BY <2>7, WaitingCount DEF Pass
    <3>2. BTypeOK' /\ PosterHoldsLock'
      BY <2>7 DEF Pass, PosterHoldsLock
    <3>q. QED BY <2>7, <3>1, <3>2 DEF Pass, TokensMatchWaiters
  <2>8. CASE UNCHANGED bvars
    BY <2>8 DEF bvars, PosterHoldsLock, TokensMatchWaiters, Waiting
  <2>q. QED
    BY <2>1, <2>2, <2>3, <2>4, <2>5, <2>6, <2>7, <2>8 DEF BNext, Step
<1>q. QED BY <1>1, <1>2

\* Tokens are posted, one by one, for exactly the threads of full groups, for
\* any number of threads that come and go in any order.
THEOREM TokensAlwaysMatch == BSpec => []TokensMatchWaiters
<1>1. BarrierInv => TokensMatchWaiters
  BY DEF BarrierInv
<1>q. QED BY <1>1, BarrierInvInductive, PTL DEF BSpec

\* When a full group waits, there is a token for one of it, or the thread that
\* posts them is at it: everybody waiting on everybody is impossible.
THEOREM FullGroupIsNotStuck ==
    BSpec => [](Cardinality(Waiting) >= CONCURRENCY_DEGREE => semaphore > 0 \/ lock # NoThread)
<1>1. BarrierInv => (Cardinality(Waiting) >= CONCURRENCY_DEGREE => semaphore > 0 \/ lock # NoThread)
  BY DegreeAssumption DEF BarrierInv, BTypeOK, TokensMatchWaiters
<1>q. QED BY <1>1, BarrierInvInductive, PTL DEF BSpec

\* The barrier's bookkeeping holds whatever the threads do.
THEOREM BarrierInvAlways == BSpec => []BarrierInv
BY BarrierInvInductive, PTL DEF BSpec
=============================================================================
