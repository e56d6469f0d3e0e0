---------------------------- MODULE MCNetchanNew ----------------------------
(* NetchanNew with the bounds of its model-checking runs. *)
EXTENDS NetchanNew, TLC

MCMaxWritten == Server :> 3 @@ Client :> 0
MCMaxOutgoing == Server :> 4 @@ Client :> 3
MCMaxIsolated == Server :> 1 @@ Client :> 0
=============================================================================
