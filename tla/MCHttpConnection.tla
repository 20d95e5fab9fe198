--------------------------- MODULE MCHttpConnection ---------------------------
(***************************************************************************)
(* The requests and resources of the runs of HttpConnection: a page, a     *)
(* file of a type that is not served, and a directory, whose path has no   *)
(* dot; ordinary requests, one with a single word, one with none, and two  *)
(* of which the request line or a header line fills the buffer.            *)
(***************************************************************************)
EXTENDS HttpConnection, TLC

MCExtension == ("page" :> "known") @@ ("other" :> "unknown") @@ ("directory" :> "none")

MCFiles == ("page" :> {-1, 4}) @@ ("other" :> {0}) @@ ("directory" :> {0})

MCResources == DOMAIN MCExtension

Asks(lines, r) == [lines |-> lines, resource |-> r]

MCRequests ==
    {Asks(<<"resource", "blank">>, "page"),
     Asks(<<"resource">>, "other"),
     Asks(<<"resource", "filling", "short">>, "directory"),
     Asks(<<"filling", "short">>, "page"),
     Asks(<<"word">>, "page"),
     Asks(<<"blank">>, "page")}

=============================================================================
