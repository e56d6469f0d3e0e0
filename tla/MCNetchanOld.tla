---------------------------- MODULE MCNetchanOld ----------------------------
(* NetchanOld with the bounds of its model-checking runs. *)
EXTENDS NetchanOld, TLC

\* The server writes and sends more than the client: two reliable batches of
\* one or two messages, with room to lose each.
MCMaxWritten == Server :> 3 @@ Client :> 1
MCMaxOutgoing == Server :> 5 @@ Client :> 3
=============================================================================
