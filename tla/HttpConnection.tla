---------------------------- MODULE HttpConnection ----------------------------
(***************************************************************************)
(* http.c, called by thread_func of http_server.c: workers that each read  *)
(* the request of one client and write a file to it, in one process with   *)
(* one table of descriptors, and files that other programs replace.        *)
(*                                                                         *)
(* A request is a sequence of lines and a resource; how slowly its lines   *)
(* arrive is how long a worker waits to read them.  A file is its size,    *)
(* its i-th byte is i; a byte of the header is -1, and one that nobody has *)
(* written is 0.  A descriptor is the worker that opened it and its use.   *)
(***************************************************************************)
EXTENDS Integers, Sequences, FiniteSets

CONSTANTS Workers,
          Requests,         \* [lines : Seq(LineKinds), resource : Resources]
          Resources,
          Extension,        \* [Resources -> {"known", "unknown", "none"}], "none": no dot
          BUFSIZE,
          HeaderLength,     \* of a response
          Files,            \* bound: [Resources -> what its file may be]
          MaxFds,           \* descriptors of the process that serve clients
          MaxChanges        \* bound: how often files change

\* "filling" is a line that is longer than the buffer by its "\r\n" exactly.
LineKinds == {"resource", "word", "short", "filling", "blank"}

ASSUME BufferAssumption ==
    /\ BUFSIZE \in Nat
    /\ HeaderLength \in 1..(BUFSIZE - 1)
ASSUME BoundsAssumption == MaxFds \in Nat /\ MaxChanges \in Nat
ASSUME RequestsAssumption == Requests \subseteq [lines : Seq(LineKinds), resource : Resources]
ASSUME FilesAssumption == Files \in [Resources -> SUBSET (Nat \union {-1})]
ASSUME ExtensionAssumption == Extension \in [Resources -> {"known", "unknown", "none"}]

VARIABLES alive,    \* FALSE once a fault has ended the process
          pc,       \* where each worker is in its loop
          client,   \* its client: the lines sent, how many were read, what it received
          local,    \* write_http_response's variables, and the value returned
          held,     \* descriptors that are open
          lost,     \* descriptors that are open and that no worker knows of
          file,     \* the file of each resource, -1 if there is none
          changes   \* bound: changes of files so far

vars == <<alive, pc, client, local, held, lost, file, changes>>

NoClient == [state |-> "none", lines |-> <<>>, read |-> 0, resource |-> "none", received |-> <<>>]

NewLocal == [size |-> -1, sent |-> 0, response |-> [i \in 1..BUFSIZE |-> 0], ret |-> 0]

Init ==
    /\ alive = TRUE
    /\ pc = [w \in Workers |-> "call"]
    /\ client = [w \in Workers |-> NoClient]
    /\ local = [w \in Workers |-> NewLocal]
    /\ held = {}
    /\ lost = 0
    /\ file \in {f \in [Resources -> UNION {Files[r] : r \in Resources}] :
                   \A r \in Resources : f[r] \in Files[r]}
    /\ changes = 0

-----------------------------------------------------------------------------
(* The environment.                                                        *)

FdIsFree == Cardinality(held) + lost < MaxFds

Gone(w) == client[w].state \in {"closed", "reset"}

\* connection_dequeue has returned a client's descriptor.
GetsClient(w) ==
    /\ pc[w] = "call"
    /\ FdIsFree
    /\ \E q \in Requests :
          client' = [client EXCEPT ![w] = [state |-> "open", lines |-> q.lines, read |-> 0,
                                           resource |-> q.resource, received |-> <<>>]]
    /\ held' = held \union {<<w, "client">>}
    /\ local' = [local EXCEPT ![w] = NewLocal]
    /\ pc' = [pc EXCEPT ![w] = "stream"]
    /\ UNCHANGED <<alive, lost, file, changes>>

\* The client sends no more lines, perhaps not all; it still listens, or closes.
HangUp(w) ==
    /\ client[w].state = "open"
    /\ \E n \in client[w].read..Len(client[w].lines), s \in {"finished", "closed"} :
          client' = [client EXCEPT ![w].state = s, ![w].lines = SubSeq(@, 1, n)]
    /\ UNCHANGED <<alive, pc, local, held, lost, file, changes>>

\* The connection breaks; lines that are under way are lost.
Reset(w) ==
    /\ client[w].state \in {"open", "finished"}
    /\ client' = [client EXCEPT ![w].state = "reset", ![w].lines = SubSeq(@, 1, client[w].read)]
    /\ UNCHANGED <<alive, pc, local, held, lost, file, changes>>

\* Another program replaces a file or removes it; open streams keep the old one.
ChangeFile(r, n) ==
    /\ changes < MaxChanges
    /\ changes' = changes + 1
    /\ n # file[r]
    /\ file' = [file EXCEPT ![r] = n]
    /\ UNCHANGED <<alive, pc, client, local, held, lost>>

-----------------------------------------------------------------------------
(* Where a worker's step leads.                                            *)

\* A read from NULL in one worker, SIGSEGV, ends the process with all its threads.
Crash ==
    /\ alive' = FALSE
    /\ UNCHANGED <<pc, client, local, held, lost, file, changes>>

\* The worker returns to thread_func, which will close the client.
Return(w, ret) ==
    /\ pc' = [pc EXCEPT ![w] = "close"]
    /\ local' = [local EXCEPT ![w].ret = ret]
    /\ held' = held \ {<<w, "copy">>, <<w, "file">>}
    /\ UNCHANGED <<alive, client, file, changes>>

GoTo(w, place) ==
    /\ pc' = [pc EXCEPT ![w] = place]
    /\ UNCHANGED <<alive, lost, file, changes>>

-----------------------------------------------------------------------------
(* read_http_request.                                                      *)

\* dup, fdopen and setvbuf.
OpenStream(w) ==
    /\ pc[w] = "stream"
    /\ FdIsFree
    /\ held' = held \union {<<w, "copy">>}
    /\ GoTo(w, "line")
    /\ UNCHANGED <<client, local>>

\* One of them fails; what was opened is closed.
OpenStreamFails(w) ==
    /\ pc[w] = "stream"
    /\ Return(w, -1)
    /\ UNCHANGED lost

Unread(w) == client[w].read < Len(client[w].lines)

NextLine(w) == client[w].lines[client[w].read + 1]

Consume(w) == client' = [client EXCEPT ![w].read = @ + 1]

NamesResource(line) == line \notin {"word", "blank"}

\* strtok_r finds no second word in a line of one or of none: strcpy reads from
\* NULL.  The second part of a filling line is the "\r\n" that ends the header.
ReadRequestLine(w) ==
    /\ pc[w] = "line"
    /\ Unread(w)
    /\ \/ ~NamesResource(NextLine(w)) /\ Crash
       \/ /\ NamesResource(NextLine(w))
          /\ Consume(w)
          /\ GoTo(w, IF NextLine(w) = "filling" THEN "end" ELSE "headers")
          /\ UNCHANGED <<local, held>>

\* Mutant: the stream is not closed when there is no request line.
NoRequestLine_KeepsStream(w) ==
    /\ pc[w] = "line"
    /\ ~Unread(w)
    /\ client[w].state # "open"
    /\ pc' = [pc EXCEPT ![w] = "close"]
    /\ local' = [local EXCEPT ![w].ret = -1]
    /\ UNCHANGED <<alive, client, held, lost, file, changes>>

\* The end of the input, or an error.
NoRequestLine(w) ==
    /\ pc[w] = "line"
    /\ ~Unread(w)
    /\ client[w].state # "open"
    /\ Return(w, -1)
    /\ UNCHANGED lost

\* fgets returns a filling line in two parts; the second is "\r\n".
EndsHeader(line) == line \in {"blank", "filling"}

ReadHeaderLine(w) ==
    /\ pc[w] = "headers"
    /\ Unread(w)
    /\ Consume(w)
    /\ GoTo(w, IF EndsHeader(NextLine(w)) THEN "end" ELSE "headers")
    /\ UNCHANGED <<local, held>>


\* Mutant: the end of the input is treated like an error.
HeaderIsCut_Loses(w) ==
    /\ pc[w] = "headers"
    /\ ~Unread(w)
    /\ client[w].state \in {"finished", "closed"}
    /\ Return(w, -1)
    /\ lost' = lost + 1

\* The end of the input ends the loop as well.
HeaderIsCut(w) ==
    /\ pc[w] = "headers"
    /\ ~Unread(w)
    /\ client[w].state \in {"finished", "closed"}
    /\ GoTo(w, "end")
    /\ UNCHANGED <<client, local, held>>

\* An error: the function returns without fclose.
HeaderFails(w) ==
    /\ pc[w] = "headers"
    /\ client[w].state = "reset"
    /\ Return(w, -1)
    /\ lost' = lost + 1

\* fclose, which closes the descriptor also when it reports an error.
CloseStream(w) ==
    /\ pc[w] = "end"
    /\ \/ /\ held' = held \ {<<w, "copy">>}
          /\ GoTo(w, "stat")
          /\ UNCHANGED <<client, local>>
       \/ Return(w, -1) /\ UNCHANGED lost

-----------------------------------------------------------------------------
(* write_http_response.                                                    *)

\* Mutant: the worker closes the client itself and goes on to the next one.
NotFound_Closes(w) ==
    /\ pc[w] = "stat"
    /\ file[client[w].resource] = -1
    /\ GoTo(w, "call")
    /\ held' = held \ {<<w, "client">>}
    /\ client' = [client EXCEPT ![w] = NoClient]
    /\ UNCHANGED local

\* Without a file the answer 404 is made up and not written.
NotFound(w) ==
    /\ pc[w] = "stat"
    /\ file[client[w].resource] = -1
    /\ Return(w, 0)
    /\ UNCHANGED lost

\* get_mime_type compares with NULL if there is no dot in the path.
Found(w) ==
    /\ pc[w] = "stat"
    /\ file[client[w].resource] # -1
    /\ LET e == Extension[client[w].resource] IN
       \/ e = "none" /\ Crash
       \/ e = "unknown" /\ Return(w, -1) /\ UNCHANGED lost
       \/ e = "known" /\ GoTo(w, "open") /\ UNCHANGED <<client, local, held>>

StatFails(w) ==
    /\ pc[w] = "stat"
    /\ Return(w, -1)
    /\ UNCHANGED lost

CanOpen(w) == file[client[w].resource] # -1 /\ FdIsFree

\* The test after fopen looks at the client's descriptor: without a stream
\* fread reads from NULL.
OpenFile(w) ==
    /\ pc[w] = "open"
    /\ \/ ~CanOpen(w) /\ Crash
       \/ /\ CanOpen(w)
          /\ held' = held \union {<<w, "file">>}
          /\ local' = [local EXCEPT ![w].size = file[client[w].resource]]
          /\ GoTo(w, "first")
          /\ UNCHANGED client

\* What fread can put into n bytes of the response.
Fetched(w, n) ==
    IF local[w].size - local[w].sent < n THEN local[w].size - local[w].sent ELSE n

\* Mutant: the file's bytes overwrite the header.
Response_NoHeader(w, from) ==
    [i \in 1..BUFSIZE |-> IF i <= Fetched(w, BUFSIZE) THEN local[w].sent + i
                          ELSE local[w].response[i]]

\* The buffer with a header of that length and what was read after it; the rest
\* is what the buffer held before.
Response(w, from) ==
    [i \in 1..BUFSIZE |-> IF i <= from THEN -1
                          ELSE IF i - from <= Fetched(w, BUFSIZE - from)
                          THEN local[w].sent + (i - from)
                          ELSE local[w].response[i]]

\* The whole buffer is written.  Workers have all signals blocked: to a client
\* that has gone, a write succeeds or returns -1, and SIGPIPE stays pending.
WriteBlock(w, from) ==
    \/ /\ local' = [local EXCEPT ![w].response = Response(w, from),
                                 ![w].sent = @ + Fetched(w, BUFSIZE - from)]
       /\ client' = [client EXCEPT ![w].received = IF Gone(w) THEN @ ELSE @ \o Response(w, from)]
       /\ GoTo(w, "rest")
       /\ UNCHANGED held
    \/ Return(w, -1) /\ UNCHANGED lost

WriteFirst(w) == pc[w] = "first" /\ WriteBlock(w, HeaderLength)

More(w) == Fetched(w, BUFSIZE) > 0

WriteNext(w) == pc[w] = "rest" /\ More(w) /\ WriteBlock(w, 0)

\* fclose; its failure, or one of fread, only changes what is returned.
CloseFile(w) ==
    /\ pc[w] = "rest"
    /\ \/ ~More(w) /\ Return(w, 0)
       \/ Return(w, -1)
    /\ UNCHANGED lost

\* thread_func closes the client whatever the two functions returned.
CloseClient(w) ==
    /\ pc[w] = "close"
    /\ held' = held \ {<<w, "client">>}
    /\ client' = [client EXCEPT ![w] = NoClient]
    /\ local' = [local EXCEPT ![w] = NewLocal]
    /\ GoTo(w, "call")

-----------------------------------------------------------------------------
WorkerStep(w) ==
    \/ OpenStream(w)
    \/ OpenStreamFails(w)
    \/ ReadRequestLine(w)
    \/ NoRequestLine(w)
    \/ ReadHeaderLine(w)
    \/ HeaderIsCut(w)
    \/ HeaderFails(w)
    \/ CloseStream(w)
    \/ NotFound(w)
    \/ Found(w)
    \/ StatFails(w)
    \/ OpenFile(w)
    \/ WriteFirst(w)
    \/ WriteNext(w)
    \/ CloseFile(w)
    \/ CloseClient(w)

Next ==
    /\ alive
    /\ \/ \E w \in Workers : GetsClient(w) \/ WorkerStep(w) \/ HangUp(w) \/ Reset(w)
       \/ \E r \in Resources : \E n \in Files[r] : ChangeFile(r, n)

Spec == Init /\ [][Next]_vars

\* Workers go on; of clients nothing is assumed.
FairSpec == Spec /\ \A w \in Workers : WF_vars(alive /\ WorkerStep(w))

-----------------------------------------------------------------------------
(* Invariants.                                                             *)

Places == {"call", "stream", "line", "headers", "end", "stat", "open", "first", "rest", "close"}

Uses == {"client", "copy", "file"}

Clients == [state : {"none", "open", "finished", "closed", "reset"}, lines : Seq(LineKinds),
            read : Nat, resource : Resources \union {"none"}, received : Seq(Int)]

Locals == [size : Int, sent : Nat, response : [1..BUFSIZE -> Int], ret : {0, -1}]

\* The types of the variables; workers do not read past what was sent, nor past
\* the end of a file.
TypeOK ==
    /\ alive \in BOOLEAN
    /\ pc \in [Workers -> Places]
    /\ client \in [Workers -> Clients]
    /\ local \in [Workers -> Locals]
    /\ held \in SUBSET (Workers \X Uses)
    /\ lost \in Nat
    /\ file \in [Resources -> Nat \union {-1}]
    /\ changes \in 0..MaxChanges
    /\ \A w \in Workers : client[w].read <= Len(client[w].lines)
    /\ \A w \in Workers : local[w].size # -1 => local[w].sent <= local[w].size

UsedAt(place) ==
    CASE place = "call"                       -> {}
      [] place \in {"line", "headers", "end"} -> {"client", "copy"}
      [] place \in {"first", "rest"}          -> {"client", "file"}
      [] OTHER                                -> {"client"}

\* On every path, with every failure, a worker has the descriptors open that it
\* uses, and none when it goes back for the next client.
DescriptorsAreReleased ==
    \A w \in Workers : {u \in Uses : <<w, u>> \in held} = UsedAt(pc[w])

\* The bytes of a response: the header, then the file that was opened from its
\* beginning, in blocks that are written whole, also the last.
ResponseIsFile ==
    \A w \in Workers :
       LET got == client[w].received IN
       got # <<>> =>
          /\ Len(got) % BUFSIZE = 0
          /\ \A i \in 1..HeaderLength : got[i] = -1
          /\ ~Gone(w) => /\ HeaderLength + local[w].sent <= Len(got)
                         /\ \A i \in 1..local[w].sent : got[HeaderLength + i] = i

\* http.h: "Returns 0 on success".  What a file's client has then got is all of it.
SuccessIsWholeFile ==
    \A w \in Workers :
       (/\ pc[w] = "close" /\ local[w].ret = 0
        /\ local[w].size # -1)
       => local[w].sent = local[w].size

Answering == {"stat", "open", "first", "rest"}

\* Nothing is written before the request was read: up to its blank line, to the
\* end of the input, or to a line that only looks like a blank one.
RequestIsReadFirst ==
    \A w \in Workers :
       (pc[w] \in Answering /\ Unread(w)) =>
          /\ client[w].read > 0
          /\ client[w].lines[client[w].read] \in {"blank", "filling"}

\* The process dies of a request line without a second word, of a path without a
\* dot, or of a file that cannot be opened although stat found it; of nothing
\* else, and of no client that goes while its response is written.
DeathHasACause ==
    ~alive => \E w \in Workers :
       \/ pc[w] = "line" /\ Unread(w) /\ ~NamesResource(NextLine(w))
       \/ pc[w] = "stat" /\ Extension[client[w].resource] = "none"
       \/ pc[w] = "open" /\ ~CanOpen(w)

\* A worker's way through http.c is sound on every path: descriptors, the reading of the
\* request, the length of the response, and what ends the process.
ExchangesAreSound ==
    /\ TypeOK
    /\ DescriptorsAreReleased
    /\ RequestIsReadFirst
    /\ SuccessIsWholeFile
    /\ DeathHasACause

-----------------------------------------------------------------------------
(* Action and temporal properties.                                         *)

\* A descriptor is lost by a connection that breaks after its request line, and
\* only by that; one for each.
LossesAreBrokenRequests ==
    [][lost' # lost => /\ lost' = lost + 1
                       /\ \E w \in Workers : /\ client[w].state = "reset"
                                             /\ client[w].read > 0
                                             /\ pc[w] # "close" /\ pc'[w] = "close"]_vars

Stage(w) == CASE pc[w] \in {"stream", "line", "headers", "end"} -> "read"
              [] pc[w] \in Answering                            -> "write"
              [] OTHER                                          -> pc[w]

Exchange == INSTANCE HttpExchange WITH worker <- [w \in Workers |-> Stage(w)]

\* Workers are what HttpServer takes them for.
ImplementsHttpExchange == Exchange!Spec

WaitsForLine(w) == pc[w] \in {"line", "headers"} /\ ~Unread(w) /\ client[w].state = "open"


=============================================================================
