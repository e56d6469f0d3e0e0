---------------------------- MODULE MCNetchanLive ----------------------------
(* NetchanLive with the bounds of its model-checking runs. *)
EXTENDS NetchanLive, TLC

MCMaxWritten == Server :> 2 @@ Client :> 1
\* Never reached: a run that hit it would stop sending and break liveness.
MCMaxOutgoing == Server :> 40 @@ Client :> 40
MCMaxIsolated == Server :> 0 @@ Client :> 0
=============================================================================
