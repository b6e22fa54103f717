---------------------------- MODULE MCValidators ----------------------------
(* Small instances of Validators. *)
EXTENDS ValidatorsProps

Padded == [n \in Nodes |-> IF n = "n1" THEN "v1" ELSE "v2"]
=============================================================================
