----------------------------- MODULE Validators -----------------------------
(***************************************************************************)
(* plugin/evm/validators: the validator state with its write-behind        *)
(* markers (state/state.go), the uptime manager and the pausable manager   *)
(* that wraps it (uptime/), and the manager that synchronises the state    *)
(* with the P-Chain validator set (manager.go).                            *)
(*                                                                         *)
(* The package is used with the VM lock held, so that every operation is   *)
(* one action.  Add, Update, Delete, SetStatus, Connect, Disconnect,       *)
(* StartTracking and StopTracking are the exported operations, called in   *)
(* any order; Sync and Shutdown are the manager's.  A crash loses all but  *)
(* the database, and time passes while the process is down.                *)
(*                                                                         *)
(* validatorData is abstracted to the node, one immutable field (StartTime *)
(* stands for IsL1Validator too), the weight, the status and UpDuration;   *)
(* LastUpdated is never read back.  A record in the database is its        *)
(* fixed-layout encoding (codec.go), which loses no field.  The manager's  *)
(* state is never nil, so that loadedFromState is true of every entry.     *)
(***************************************************************************)
EXTENDS Naturals

CONSTANTS
    Nodes,        \* ids.NodeID
    ValidationIDs,\* ids.ID, the database keys
    PaddedID,     \* PaddedID[n]: the validation ID sync makes of a node ID
    Weights,
    StartTimes,
    MaxTime,      \* bound on the clock
    None          \* absent: no record, no entry, the zero time

Data == [node : Nodes, start : StartTimes, weight : Weights,
         active : BOOLEAN, up : Nat]

Entry == [acc : Nat, last : Nat \cup {None}, tracking : BOOLEAN,
          pre : Nat, created : Nat]

ASSUME ValidatorsAssumption ==
    /\ PaddedID \in [Nodes -> ValidationIDs]
    /\ \A m, n \in Nodes : PaddedID[m] = PaddedID[n] => m = n
    /\ 0 \in StartTimes
    /\ MaxTime \in Nat
    /\ None \notin Nodes /\ None \notin ValidationIDs /\ None \notin Weights
    /\ None \notin {"updated", "deleted"}
    /\ None \notin Nat /\ None \notin Data /\ None \notin Entry

VARIABLES
    (* state/state.go *)
    data,          \* data[v]: the validator, or None
    index,         \* index[n]: the validation ID of a node, or None
    updatedData,   \* updatedData[v]: "updated", "deleted" or None
    disk,          \* disk[v]: the record in the database, or None
    (* uptime/manager.go *)
    connected,     \* nodes the inner manager regards as connected
    uptimes,       \* uptimes[n]: the nodeUptime, or None
    (* uptime/pausable_manager.go *)
    connectedVdrs, \* connected peers, paused or not
    pausedVdrs,    \* paused nodes
    (* environment *)
    clock,         \* the VM's clock
    running,       \* is the process up?
    credited       \* history: the time a node's entry should account for

stateVars == <<data, index, updatedData, disk>>
uptimeVars == <<connected, uptimes, connectedVdrs, pausedVdrs>>
vars == <<stateVars, uptimeVars, clock, running, credited>>

-----------------------------------------------------------------------------
(* uptime/manager.go, on single entries. *)

\* getData and UpDuration: what the record d, ix holds for node n.
Persisted(d, ix, n) ==
    IF ix[n] = None \/ d[ix[n]] = None THEN 0 ELSE d[ix[n]].up

MutLoaded(d, ix, n) == 0

\* The previous uptime getOrCreateUptime loads into a new entry.
Loaded(d, ix, n) == Persisted(d, ix, n)

NewEntry(loaded) == [acc |-> loaded, last |-> None, tracking |-> FALSE,
                     pre |-> 0, created |-> clock]

GetOrCreate(n) == IF uptimes[n] = None THEN NewEntry(Loaded(data, index, n))
                                       ELSE uptimes[n]

ConnectEntry(e) ==
    IF e.tracking /\ e.last = None THEN [e EXCEPT !.last = clock] ELSE e

\* The connected period of a tracked entry that is not yet accumulated.
Ongoing(e) == IF e.tracking /\ e.last # None THEN clock - e.last ELSE 0

MutDisconnectEntry(e) == [e EXCEPT !.acc = @ + Ongoing(e)]

DisconnectEntry(e) == [e EXCEPT !.acc = @ + Ongoing(e), !.last = None]

StartEntry(e, isConnected) ==
    IF e.tracking THEN e
    ELSE [e EXCEPT !.pre = @ + (clock - e.created), !.created = clock,
                   !.tracking = TRUE,
                   !.last = IF isConnected THEN clock ELSE @]

StopEntry(e) ==
    IF ~e.tracking THEN e
    ELSE [e EXCEPT !.acc = @ + Ongoing(e), !.last = None,
                   !.tracking = FALSE, !.created = clock]

\* CalculateUptime of a node with an entry: the uptime and the total duration.
CalculateUptime(e) ==
    e.pre + e.acc + Ongoing(e) + (IF e.tracking THEN 0 ELSE clock - e.created)

TotalDuration(e) == CalculateUptime(e)

\* The history follows the entries: a new one starts at what is persisted.
Follow == credited' = [n \in Nodes |->
            IF uptimes[n] = None /\ uptimes'[n] # None
            THEN Persisted(data, index, n) ELSE credited[n]]

-----------------------------------------------------------------------------
(* uptime/pausable_manager.go. *)

Connect(n) ==
    /\ running
    /\ connectedVdrs' = connectedVdrs \cup {n}
    /\ IF n \notin pausedVdrs /\ n \notin connected
       THEN /\ connected' = connected \cup {n}
            /\ uptimes' = [uptimes EXCEPT ![n] = ConnectEntry(GetOrCreate(n))]
       ELSE UNCHANGED <<connected, uptimes>>
    /\ Follow
    /\ UNCHANGED <<stateVars, pausedVdrs, clock, running>>

\* A paused node that the inner manager regards as connected is an error.
Disconnect(n) ==
    /\ running
    /\ connectedVdrs' = connectedVdrs \ {n}
    /\ IF n \in connected /\ n \notin pausedVdrs
       THEN /\ connected' = connected \ {n}
            /\ uptimes' = [uptimes EXCEPT ![n] = DisconnectEntry(GetOrCreate(n))]
       ELSE UNCHANGED <<connected, uptimes>>
    /\ Follow
    /\ UNCHANGED <<stateVars, pausedVdrs, clock, running>>

Pause(n) ==
    /\ pausedVdrs' = pausedVdrs \cup {n}
    /\ connected' = connected \ {n}
    /\ uptimes' = [uptimes EXCEPT ![n] =
                     IF n \in connected THEN DisconnectEntry(GetOrCreate(n))
                     ELSE GetOrCreate(n)]
    /\ Follow
    /\ UNCHANGED connectedVdrs

MutResume(N) ==
    /\ pausedVdrs' = pausedVdrs \ N
    /\ UNCHANGED <<connected, uptimes, connectedVdrs, credited>>

\* resume, of every node in N.
Resume(N) ==
    LET back == (N \cap connectedVdrs) \ connected
    IN  /\ pausedVdrs' = pausedVdrs \ N
        /\ connected' = connected \cup back
        /\ uptimes' = [n \in Nodes |-> IF n \in back
                         THEN ConnectEntry(GetOrCreate(n)) ELSE uptimes[n]]
        /\ Follow
        /\ UNCHANGED connectedVdrs

OnValidatorStatusUpdated(n, isActive) ==
    IF isActive THEN Resume({n}) ELSE Pause(n)

OnValidatorAdded(n, isActive) ==
    IF isActive THEN UNCHANGED <<uptimeVars, credited>> ELSE Pause(n)

MutOnValidatorRemoved(N) == {}

\* OnValidatorRemoved of the nodes in N: which of them are resumed.
OnValidatorRemoved(N) == N \cap pausedVdrs

StartTracking(n) ==
    /\ running
    /\ uptimes' = [uptimes EXCEPT ![n] =
                     StartEntry(GetOrCreate(n), n \in connected)]
    /\ Follow
    /\ UNCHANGED <<stateVars, connected, connectedVdrs, pausedVdrs, clock, running>>

\* A stop persists the total in the node's record, if there is one.
StopTracking(n) ==
    LET e == GetOrCreate(n)
        s == StopEntry(e)
        v == index[n]
    IN  /\ running
        /\ uptimes' = [uptimes EXCEPT ![n] = s]
        /\ IF e.tracking /\ v # None /\ data[v] # None
           THEN /\ data' = [data EXCEPT ![v] = [@ EXCEPT !.up = s.pre + s.acc]]
                /\ updatedData' = [updatedData EXCEPT ![v] = "updated"]
           ELSE UNCHANGED <<data, updatedData>>
        /\ Follow
        /\ UNCHANGED <<index, disk, connected, connectedVdrs, pausedVdrs, clock, running>>

-----------------------------------------------------------------------------
(* state/state.go. *)

MutCanAdd(v, n) == data[v] = None

\* addData: neither the validation ID nor the node is known.
CanAdd(v, n) == data[v] = None /\ index[n] = None

NewData(n, s, w, isActive) ==
    [node |-> n, start |-> s, weight |-> w, active |-> isActive, up |-> 0]

AddValidator(v, n, s, w, isActive) ==
    /\ running
    /\ CanAdd(v, n)
    /\ data' = [data EXCEPT ![v] = NewData(n, s, w, isActive)]
    /\ index' = [index EXCEPT ![n] = v]
    /\ updatedData' = [updatedData EXCEPT ![v] = "updated"]
    /\ OnValidatorAdded(n, isActive)
    /\ UNCHANGED <<disk, clock, running>>

UpdateValidator(v, w, isActive) ==
    /\ running
    /\ data[v] # None
    /\ data[v].weight # w \/ data[v].active # isActive
    /\ data' = [data EXCEPT ![v] = [@ EXCEPT !.weight = w, !.active = isActive]]
    /\ updatedData' = [updatedData EXCEPT ![v] = "updated"]
    /\ IF data[v].active # isActive
       THEN OnValidatorStatusUpdated(data[v].node, isActive)
       ELSE UNCHANGED <<uptimeVars, credited>>
    /\ UNCHANGED <<index, disk, clock, running>>

DeleteValidator(v) ==
    /\ running
    /\ data[v] # None
    /\ data' = [data EXCEPT ![v] = None]
    /\ index' = [index EXCEPT ![data[v].node] = None]
    /\ updatedData' = [updatedData EXCEPT ![v] = "deleted"]
    /\ Resume(OnValidatorRemoved({data[v].node}))
    /\ UNCHANGED <<disk, clock, running>>

SetStatus(v, isActive) ==
    /\ running
    /\ data[v] # None
    /\ data' = [data EXCEPT ![v] = [@ EXCEPT !.active = isActive]]
    /\ updatedData' = [updatedData EXCEPT ![v] = "updated"]
    /\ OnValidatorStatusUpdated(data[v].node, isActive)
    /\ UNCHANGED <<index, disk, clock, running>>

MutWritten(v, d, u) == CASE u[v] = "updated" -> d[v] [] OTHER -> disk[v]

\* What WriteState leaves in the database for v.
Written(v, d, u) == CASE u[v] = "updated" -> d[v]
                      [] u[v] = "deleted" -> None
                      [] OTHER -> disk[v]

WriteState(d, u) ==
    /\ disk' = [v \in ValidationIDs |-> Written(v, d, u)]
    /\ updatedData' = [v \in ValidationIDs |-> None]

-----------------------------------------------------------------------------
(* manager.go. *)

\* loadValidators first deletes the records whose ID the new set lacks.
Deleted(new) ==
    {v \in ValidationIDs : data[v] # None
        /\ ~\E n \in Nodes : new[n] # None /\ PaddedID[n] = v}

\* Loading node n fails: an immutable field differs, or the node has a record
\* under another ID that was not deleted.
LoadFails(new, n) ==
    LET d == data[PaddedID[n]]
    IN  IF d # None THEN d.node # n \/ d.start # 0
        ELSE index[n] # None /\ index[n] \notin Deleted(new)

\* The record of n after it was loaded with the given weight, always active.
LoadedData(n, w) ==
    LET d == data[PaddedID[n]]
    IN  IF d = None THEN NewData(n, 0, w, TRUE)
        ELSE [d EXCEPT !.weight = w, !.active = TRUE]

NodeOf(v) == CHOOSE n \in Nodes : PaddedID[n] = v

\* The state and its markers once the nodes in done are loaded.
LoadedState(new, done) ==
    [v \in ValidationIDs |->
        IF v \in {PaddedID[n] : n \in done} THEN LoadedData(NodeOf(v), new[NodeOf(v)])
        ELSE IF v \in Deleted(new) THEN None ELSE data[v]]

LoadedIndex(new, done) ==
    [n \in Nodes |->
        IF n \in done THEN PaddedID[n]
        ELSE IF n \in {data[v].node : v \in Deleted(new)} THEN None ELSE index[n]]

LoadedMarks(new, done) ==
    [v \in ValidationIDs |->
        IF v \in Deleted(new) THEN "deleted"
        ELSE IF LoadedState(new, done)[v] # data[v] THEN "updated" ELSE updatedData[v]]

\* Nodes whose listener call resumes them: their record was deleted, or it was
\* inactive and is loaded.
Resumed(new, done) ==
    OnValidatorRemoved({data[v].node : v \in Deleted(new)})
      \cup {n \in done : data[PaddedID[n]] # None /\ ~data[PaddedID[n]].active}

\* sync, once the P-Chain answered with the set new.  The loop over the new
\* set runs in any order and stops at the first failure, with the nodes in
\* done loaded; then nothing is written.
Sync(new, done) ==
    LET valid == {n \in Nodes : new[n] # None}
        failing == {n \in valid : LoadFails(new, n)}
    IN  /\ running
        /\ done \subseteq valid \ failing
        /\ failing = {} => done = valid
        /\ data' = LoadedState(new, done)
        /\ index' = LoadedIndex(new, done)
        /\ IF failing = {}
           THEN WriteState(LoadedState(new, done), LoadedMarks(new, done))
           ELSE updatedData' = LoadedMarks(new, done) /\ disk' = disk
        /\ Resume(Resumed(new, done))
        /\ UNCHANGED <<clock, running>>

Forget ==
    /\ data' = [v \in ValidationIDs |-> None]
    /\ index' = [n \in Nodes |-> None]
    /\ connected' = {} /\ connectedVdrs' = {} /\ pausedVdrs' = {}
    /\ uptimes' = [n \in Nodes |-> None]
    /\ credited' = [n \in Nodes |-> 0]
    /\ running' = FALSE
    /\ UNCHANGED clock

\* Shutdown writes the state; tracking is not stopped.
Shutdown ==
    /\ running
    /\ WriteState(data, updatedData)
    /\ Forget

Crash ==
    /\ running
    /\ updatedData' = [v \in ValidationIDs |-> None]
    /\ disk' = disk
    /\ Forget

\* loadFromDisk fails on two records of one node.
LoadPossible ==
    \A v, w \in ValidationIDs :
        disk[v] # None /\ disk[w] # None /\ disk[v].node = disk[w].node => v = w

\* The index loadFromDisk builds, and the nodes of inactive records.
DiskIndex ==
    [n \in Nodes |->
        IF \E v \in ValidationIDs : disk[v] # None /\ disk[v].node = n
        THEN CHOOSE v \in ValidationIDs : disk[v] # None /\ disk[v].node = n
        ELSE None]

Inactive == {n \in Nodes : DiskIndex[n] # None /\ ~disk[DiskIndex[n]].active}

\* NewManager: the state is loaded, and the listener is told of every record;
\* the nodes of inactive ones are paused.
Start ==
    /\ ~running
    /\ LoadPossible
    /\ running' = TRUE
    /\ data' = disk
    /\ index' = DiskIndex
    /\ pausedVdrs' = Inactive
    /\ uptimes' = [n \in Nodes |-> IF n \in Inactive
                     THEN NewEntry(Loaded(disk, DiskIndex, n)) ELSE None]
    /\ credited' = [n \in Nodes |-> IF n \in Inactive
                      THEN Persisted(disk, DiskIndex, n) ELSE 0]
    /\ UNCHANGED <<disk, updatedData, connected, connectedVdrs, clock>>

\* A node is up while it is a connected peer that is not paused; before and
\* after tracking it is assumed to be up.
Up(n) == uptimes[n] # None
           /\ (uptimes[n].tracking => n \in connectedVdrs \ pausedVdrs)

Tick ==
    /\ clock < MaxTime
    /\ clock' = clock + 1
    /\ credited' = [n \in Nodes |-> IF Up(n) THEN credited[n] + 1 ELSE credited[n]]
    /\ UNCHANGED <<stateVars, uptimeVars, running>>

-----------------------------------------------------------------------------
Init ==
    /\ data = [v \in ValidationIDs |-> None]
    /\ index = [n \in Nodes |-> None]
    /\ updatedData = [v \in ValidationIDs |-> None]
    /\ disk = [v \in ValidationIDs |-> None]
    /\ connected = {} /\ connectedVdrs = {} /\ pausedVdrs = {}
    /\ uptimes = [n \in Nodes |-> None]
    /\ clock = 0
    /\ running = FALSE
    /\ credited = [n \in Nodes |-> 0]

Next ==
    \/ \E n \in Nodes :
          Connect(n) \/ Disconnect(n) \/ StartTracking(n) \/ StopTracking(n)
    \/ \E v \in ValidationIDs, n \in Nodes, s \in StartTimes, w \in Weights,
          b \in BOOLEAN : AddValidator(v, n, s, w, b)
    \/ \E v \in ValidationIDs, w \in Weights, b \in BOOLEAN : UpdateValidator(v, w, b)
    \/ \E v \in ValidationIDs : DeleteValidator(v)
    \/ \E v \in ValidationIDs, b \in BOOLEAN : SetStatus(v, b)
    \/ \E new \in [Nodes -> Weights \cup {None}] :
          \E done \in SUBSET Nodes : Sync(new, done)
    \/ Shutdown \/ Crash \/ Start \/ Tick

Spec == Init /\ [][Next]_vars
=============================================================================
