-------------------------- MODULE ValidatorsProps --------------------------
(* What plugin/evm/validators must keep; the properties of Validators. *)
EXTENDS Validators

Marks == {"updated", "deleted", None}

\* Every variable has its type.
TypeOK ==
    /\ data \in [ValidationIDs -> Data \cup {None}]
    /\ index \in [Nodes -> ValidationIDs \cup {None}]
    /\ updatedData \in [ValidationIDs -> Marks]
    /\ disk \in [ValidationIDs -> Data \cup {None}]
    /\ connected \in SUBSET Nodes
    /\ uptimes \in [Nodes -> Entry \cup {None}]
    /\ connectedVdrs \in SUBSET Nodes
    /\ pausedVdrs \in SUBSET Nodes
    /\ clock \in Nat
    /\ running \in BOOLEAN
    /\ credited \in [Nodes -> Nat]

\* index is the inverse of data (addData, DeleteValidator, loadValidators): a
\* node has at most one record, and getData finds it.
IndexInverse ==
    \A n \in Nodes, v \in ValidationIDs :
        index[n] = v <=> (data[v] # None /\ data[v].node = n)

\* The paused nodes are exactly those whose validator is inactive, through
\* additions, removals, status changes, syncs and restarts.
PausedIsInactive ==
    \A n \in Nodes :
        n \in pausedVdrs <=>
            \E v \in ValidationIDs : data[v] # None /\ data[v].node = n /\ ~data[v].active

\* The inner manager sees a peer as connected exactly when it is connected and
\* not paused.  So Disconnect never meets errPausedDisconnect, the case its
\* comment says is never seen.
ConnectedUnlessPaused == connected = connectedVdrs \ pausedVdrs

\* Write-behind: a record that differs from the database is marked in
\* updatedData, an "updated" mark has a record to marshal (WriteState would
\* dereference nil otherwise), and a "deleted" one has none.
UnwrittenIsMarked ==
    \A v \in ValidationIDs :
        /\ updatedData[v] = "updated" => data[v] # None
        /\ updatedData[v] = "deleted" => data[v] = None
        /\ running /\ updatedData[v] = None => disk[v] = data[v]

\* The database never holds two records of one node, although deletions and
\* additions reach it later and together: NewState always loads it.
DiskLoads == LoadPossible

\* CalculateUptime neither counts a period twice nor drops one: it is the
\* uptime loaded from the state, plus the time the node was not tracked, plus
\* the time it was tracked while connected and not paused.
UptimeExact ==
    \A n \in Nodes : uptimes[n] # None => CalculateUptime(uptimes[n]) = credited[n]

\* The uptime of a validator never decreases while it stays a validator, also
\* when tracking restarts after a crash from what was persisted.
UptimeNeverShrinks ==
    [][\A v \in ValidationIDs :
          running /\ running' /\ data[v] # None /\ data'[v] # None
             => data'[v].up >= data[v].up]_vars

\* The total duration covers the tracking period (created is the start of
\* tracking while a node is tracked), as the comment in CalculateUptime says.
TotalCoversTracking ==
    \A n \in Nodes : uptimes[n] # None /\ uptimes[n].tracking
        => TotalDuration(uptimes[n]) >= clock - uptimes[n].created

-----------------------------------------------------------------------------
(* The inductive invariant. *)

\* The pause set in terms of the index, which needs no search.
PausedByIndex ==
    \A n \in Nodes :
        n \in pausedVdrs <=> (index[n] # None /\ ~data[index[n]].active)

\* A stopped process holds nothing.
DownIsEmpty ==
    ~running =>
        /\ \A v \in ValidationIDs : data[v] = None /\ updatedData[v] = None
        /\ \A n \in Nodes : index[n] = None /\ uptimes[n] = None
        /\ connectedVdrs = {}

\* Times lie in the past, and a connection time is set exactly while a node is
\* both tracked and connected.
EntryTimes ==
    \A n \in Nodes : uptimes[n] # None =>
        /\ uptimes[n].created <= clock
        /\ uptimes[n].last # None => uptimes[n].last <= clock
        /\ uptimes[n].last # None <=> (uptimes[n].tracking /\ n \in connected)

\* Nodes that are connected or paused have an entry.
HasEntry == \A n \in connected \cup pausedVdrs : uptimes[n] # None

\* What is persisted is part of what the entry holds.
PersistedIsHeld ==
    \A n \in Nodes : uptimes[n] # None /\ index[n] # None
        => data[index[n]].up <= uptimes[n].pre + uptimes[n].acc

VInv ==
    /\ TypeOK /\ IndexInverse /\ PausedByIndex /\ ConnectedUnlessPaused
    /\ UnwrittenIsMarked /\ DiskLoads /\ DownIsEmpty
    /\ EntryTimes /\ HasEntry /\ UptimeExact /\ PersistedIsHeld
=============================================================================
