----------------------------- MODULE HttpExchange -----------------------------
(***************************************************************************)
(* A worker of HttpServer and its client, as HttpServer sees them: the     *)
(* request is read, or fails; the response is written, or fails; then the  *)
(* client is closed.  HttpConnection is shown to implement this module, up *)
(* to the faults that end the process.                                     *)
(***************************************************************************)
CONSTANT Workers

VARIABLE worker     \* [Workers -> {"call", "read", "write", "close"}]

Init == worker = [w \in Workers |-> "call"]

Goes(w, from, to) ==
    /\ worker[w] = from
    /\ worker' = [worker EXCEPT ![w] = to]

GetsClient(w) == Goes(w, "call", "read")

ReadRequest(w) == Goes(w, "read", "write")

RequestFails(w) == Goes(w, "read", "close")

WriteResponse(w) == Goes(w, "write", "close")

CloseClient(w) == Goes(w, "close", "call")

Next ==
    \E w \in Workers :
       \/ GetsClient(w)
       \/ ReadRequest(w)
       \/ RequestFails(w)
       \/ WriteResponse(w)
       \/ CloseClient(w)

Spec == Init /\ [][Next]_worker
=============================================================================
