---- MODULE MCStorage ----
(***************************************************************************)
(* The two stores of state side by side; they share nothing, so a          *)
(* behaviour belongs to one of them.                                       *)
(*                                                                         *)
(* The snapshot has account 1 with slot 2 and account 3.                   *)
(*   g - a1 - a2           a1 destructs account 1, creates it without slot,*)
(*     \ b1                a2 removes account 3 and sets slot 2 again.     *)
(* The path database holds the same tree above the empty state e, with one *)
(* node below the root.                                                    *)
(***************************************************************************)
EXTENDS SnapshotProps, PathDB

VARIABLE store

MCBlocks == {"g", "a1", "a2", "b1"}
MCGenesis == "g"
MCParent == [a1 |-> "g", a2 |-> "a1", b1 |-> "g"]
MCNumKeys == 3
MCOwner == <<1, 1, 3>>
MCState == [g  |-> <<1, 1, 1>>,
            a1 |-> <<2, 0, 1>>,
            a2 |-> <<2, 2, 0>>,
            b1 |-> <<0, 0, 2>>]
MCDestructs == [g |-> {}, a1 |-> {1}, a2 |-> {3}, b1 |-> {1}]

MCRoots == {"e", "g", "a1", "a2", "b1"}
MCNodes == [e |-> <<Absent, Absent>>, g |-> <<"g", "x">>, a1 |-> <<"a1", Absent>>,
            a2 |-> <<"a2", "x">>, b1 |-> <<"b1", "y">>]
MCSteps == {<<"e", "g">>, <<"g", "a1">>, <<"a1", "a2">>, <<"g", "b1">>}

MCVars == <<vars, pathVars, store>>
MCInit == Init /\ pathInit /\ store \in {"snapshot", "path"}
MCNext ==
    /\ UNCHANGED store
    /\ \/ store = "snapshot" /\ Next /\ UNCHANGED pathVars
       \/ store = "path" /\ pathNext /\ UNCHANGED vars
MCSpec == MCInit /\ [][MCNext]_MCVars /\ Fairness
====
