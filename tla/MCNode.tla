------------------------------- MODULE MCNode -------------------------------
(* One transaction in the pool, which a block can include. *)
EXTENDS NodeProps
=============================================================================
