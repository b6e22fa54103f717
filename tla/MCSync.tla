------------------------------- MODULE MCSync -------------------------------
(* Two summaries that share a storage trie, of account 0 in the first and   *)
(* of account 2 in the second.  The larger tries are divided in two.  Keys  *)
(* are never adjacent, as hashes are not.                                   *)
EXTENDS SyncProps

MCAccount(r, c) == [root |-> r, code |-> c]

MCLeafs ==
    1 :> (0 :> MCAccount(11, 21) @@ 4 :> MCAccount(12, None)) @@
    2 :> (2 :> MCAccount(11, 21)) @@
    11 :> (1 :> 1 @@ 5 :> 2) @@
    12 :> (2 :> 3)

MCSymmetry == Permutations(Workers)

MCHeight == 1 :> 2 @@ 2 :> 4
=============================================================================
