--------------------------- MODULE MCSwishPipeline ---------------------------
(***************************************************************************)
(* SwishPipeline on lines of two and three commands, with arguments, and   *)
(* one with an empty command.                                              *)
(***************************************************************************)
EXTENDS SwishPipeline

MCLines == { <<"cat", "f", "|", "sort", "|", "head", "-1">>,
             <<"ls", "|", "wc">>,
             <<"|", "wc">> }
MCAllFailures == {"pipe", "fork", "close", "slice", "dup2", "exec"}
=============================================================================
