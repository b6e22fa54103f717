-------------------------- MODULE ValidatorsProofs --------------------------
(***************************************************************************)
(* VInv is an invariant of Validators, for every set of nodes, validation  *)
(* IDs, weights and start times, and with it the properties of             *)
(* ValidatorsProps.  An action is a step of the uptime managers            *)
(* (UptimeInv) and a step of the state (StateInv), related by what the     *)
(* records persist and the entries hold.  Entries are handled one node at  *)
(* a time: an operation replaces the entry of a node by a function of      *)
(* GetOrCreate(n), and each of these functions leaves CalculateUptime as   *)
(* it is.                                                                  *)
(***************************************************************************)
EXTENDS ValidatorsProps, TLAPS

\* A leaf that names no prover is tried with each of these.
USE ZenonT(3), SMTT(20), ZenonT(20), Z3T(20)

\* What EntryTimes says of an entry of a node that is connected or not.
Timely(e, isConnected) ==
    /\ e \in Entry
    /\ e.created <= clock
    /\ e.last # None => e.last <= clock
    /\ e.last # None <=> (e.tracking /\ isConnected)

\* The uptime the history gives to the entry GetOrCreate(n).
Due(n) == IF uptimes[n] = None THEN Persisted(data, index, n) ELSE credited[n]

-----------------------------------------------------------------------------
(* Single entries. *)

\* The fields of a timely entry have their types, and its periods are not negative.
LEMMA EntryFields ==
    ASSUME clock \in Nat, NEW e, NEW b \in BOOLEAN, Timely(e, b)
    PROVE  /\ e.acc \in Nat /\ e.pre \in Nat /\ e.created \in Nat
           /\ e.tracking \in BOOLEAN /\ e.last \in Nat \cup {None}
           /\ Ongoing(e) \in Nat /\ clock - e.created \in Nat
BY ValidatorsAssumption DEF Timely, Entry, Ongoing

\* Connecting a node sets the connection time of a tracked entry and counts
\* nothing.
LEMMA ConnectEntryFacts ==
    ASSUME clock \in Nat, NEW e, Timely(e, FALSE)
    PROVE  /\ Timely(ConnectEntry(e), TRUE)
           /\ CalculateUptime(ConnectEntry(e)) = CalculateUptime(e)
           /\ ConnectEntry(e).pre + ConnectEntry(e).acc = e.pre + e.acc
BY ValidatorsAssumption DEF Timely, ConnectEntry, CalculateUptime, Ongoing, Entry

\* Disconnecting moves the ongoing period into the accumulated one.
LEMMA DisconnectEntryFacts ==
    ASSUME clock \in Nat, NEW e, NEW b \in BOOLEAN, Timely(e, b)
    PROVE  /\ Timely(DisconnectEntry(e), FALSE)
           /\ CalculateUptime(DisconnectEntry(e)) = CalculateUptime(e)
           /\ DisconnectEntry(e).pre + DisconnectEntry(e).acc >= e.pre + e.acc
<1> DEFINE f == DisconnectEntry(e)
<1>1. /\ e.acc \in Nat /\ e.pre \in Nat /\ e.created \in Nat
      /\ e.tracking \in BOOLEAN /\ Ongoing(e) \in Nat
  BY EntryFields
<1>2. /\ f.acc = e.acc + Ongoing(e) /\ f.last = None /\ f.tracking = e.tracking
      /\ f.pre = e.pre /\ f.created = e.created /\ f \in Entry
  <2> DEFINE a == e.acc + Ongoing(e)
  <2>1. f = [e EXCEPT !.acc = a, !.last = None] /\ a \in Nat /\ e \in Entry
    BY <1>1 DEF DisconnectEntry, Timely
  <2> HIDE DEF a, f
  <2>2. /\ f.acc = a /\ f.last = None /\ f.tracking = e.tracking
        /\ f.pre = e.pre /\ f.created = e.created /\ f \in Entry
    BY <2>1, Zenon DEF Entry
  <2> QED
    BY <2>2 DEF a
<1> HIDE DEF f
<1>3. Timely(f, FALSE)
  BY <1>2 DEF Timely
<1>4. Ongoing(f) = 0
  BY <1>2 DEF Ongoing
<1>5. CalculateUptime(f) = CalculateUptime(e)
  BY <1>1, <1>2, <1>4 DEF CalculateUptime
<1>6. f.pre + f.acc >= e.pre + e.acc
  BY <1>1, <1>2
<1> QED
  BY <1>3, <1>5, <1>6, Zenon DEF f

\* Starting to track moves the untracked period into the one credited before.
LEMMA StartEntryFacts ==
    ASSUME clock \in Nat, NEW e, NEW b \in BOOLEAN, Timely(e, b)
    PROVE  /\ Timely(StartEntry(e, b), b)
           /\ CalculateUptime(StartEntry(e, b)) = CalculateUptime(e)
           /\ StartEntry(e, b).pre + StartEntry(e, b).acc >= e.pre + e.acc
<1> DEFINE f == StartEntry(e, b)
<1>1. /\ e.acc \in Nat /\ e.pre \in Nat /\ e.created \in Nat /\ e.tracking \in BOOLEAN
      /\ clock - e.created \in Nat
  BY EntryFields
<1>2. CASE e.tracking
  BY <1>1, <1>2 DEF StartEntry
<1>3. CASE ~e.tracking
  <2>1. e.last = None
    BY <1>3 DEF Timely
  <2>2. /\ f.acc = e.acc /\ f.tracking = TRUE /\ f.pre = e.pre + (clock - e.created)
        /\ f.created = clock /\ f.last = (IF b THEN clock ELSE None) /\ f \in Entry
    <3> DEFINE p == e.pre + (clock - e.created)
               l == IF b THEN clock ELSE None
    <3>1. /\ f = [e EXCEPT !.pre = p, !.created = clock, !.tracking = TRUE, !.last = l]
          /\ p \in Nat /\ l \in Nat \cup {None} /\ e \in Entry
      BY <1>1, <1>3, <2>1 DEF StartEntry, Timely
    <3> HIDE DEF p, l, f
    <3>2. /\ f.acc = e.acc /\ f.tracking = TRUE /\ f.pre = p
          /\ f.created = clock /\ f.last = l /\ f \in Entry
      BY <3>1, Zenon DEF Entry
    <3> QED
      BY <3>2 DEF p, l
  <2> HIDE DEF f
  <2>3. Timely(f, b)
    BY <2>2, ValidatorsAssumption DEF Timely
  <2>4. Ongoing(f) = 0 /\ Ongoing(e) = 0
    BY <1>3, <2>1, <2>2 DEF Ongoing
  <2>5. CalculateUptime(f) = CalculateUptime(e)
    BY <1>1, <1>3, <2>2, <2>4 DEF CalculateUptime
  <2>6. f.pre + f.acc >= e.pre + e.acc
    BY <1>1, <2>2
  <2> QED
    BY <2>3, <2>5, <2>6 DEF f
<1> QED
  BY <1>1, <1>2, <1>3

\* Stopping to track moves the ongoing period into the accumulated one.
LEMMA StopEntryFacts ==
    ASSUME clock \in Nat, NEW e, NEW b \in BOOLEAN, Timely(e, b)
    PROVE  /\ Timely(StopEntry(e), b)
           /\ CalculateUptime(StopEntry(e)) = CalculateUptime(e)
           /\ StopEntry(e).pre + StopEntry(e).acc >= e.pre + e.acc
<1> DEFINE f == StopEntry(e)
<1>1. /\ e.acc \in Nat /\ e.pre \in Nat /\ e.created \in Nat /\ e.tracking \in BOOLEAN
      /\ Ongoing(e) \in Nat
  BY EntryFields
<1>2. CASE ~e.tracking
  BY <1>1, <1>2 DEF StopEntry
<1>3. CASE e.tracking
  <2>1. /\ f.acc = e.acc + Ongoing(e) /\ f.tracking = FALSE /\ f.pre = e.pre
        /\ f.created = clock /\ f.last = None /\ f \in Entry
    <3> DEFINE a == e.acc + Ongoing(e)
    <3>1. /\ f = [e EXCEPT !.acc = a, !.last = None, !.tracking = FALSE, !.created = clock]
          /\ a \in Nat /\ e \in Entry
      BY <1>1, <1>3 DEF StopEntry, Timely
    <3> HIDE DEF a, f
    <3>2. /\ f.acc = a /\ f.tracking = FALSE /\ f.pre = e.pre
          /\ f.created = clock /\ f.last = None /\ f \in Entry
      BY <3>1, Zenon DEF Entry
    <3> QED
      BY <3>2 DEF a
  <2> HIDE DEF f
  <2>2. Timely(f, b)
    BY <2>1 DEF Timely
  <2>3. Ongoing(f) = 0
    BY <2>1 DEF Ongoing
  <2>4. CalculateUptime(f) = CalculateUptime(e)
    BY <1>1, <1>3, <2>1, <2>3 DEF CalculateUptime
  <2>5. f.pre + f.acc >= e.pre + e.acc
    BY <1>1, <2>1
  <2> QED
    BY <2>2, <2>4, <2>5 DEF f
<1> QED
  BY <1>1, <1>2, <1>3

\* A new entry is timely and counts what was loaded.
LEMMA NewEntryFacts ==
    ASSUME clock \in Nat, NEW u \in Nat
    PROVE  /\ Timely(NewEntry(u), FALSE)
           /\ CalculateUptime(NewEntry(u)) = u
           /\ NewEntry(u).pre + NewEntry(u).acc = u
BY ValidatorsAssumption DEF Timely, NewEntry, CalculateUptime, Ongoing, Entry

\* What a node has persisted is a duration.
LEMMA PersistedNat ==
    ASSUME NEW d \in [ValidationIDs -> Data \cup {None}],
           NEW ix \in [Nodes -> ValidationIDs \cup {None}], NEW n \in Nodes
    PROVE  Persisted(d, ix, n) \in Nat
BY ValidatorsAssumption DEF Persisted, Data

\* getOrCreateUptime returns a timely entry that counts what is due.
LEMMA GetOrCreateFacts ==
    ASSUME VInv, NEW n \in Nodes
    PROVE  /\ Timely(GetOrCreate(n), n \in connected)
           /\ CalculateUptime(GetOrCreate(n)) = Due(n)
           /\ Persisted(data, index, n) <= GetOrCreate(n).pre + GetOrCreate(n).acc
           /\ Due(n) \in Nat
<1> USE DEF VInv, TypeOK
<1>1. CASE uptimes[n] = None
  <2>1. Persisted(data, index, n) \in Nat
    BY PersistedNat
  <2>2. n \notin connected
    BY <1>1 DEF HasEntry
  <2>3. GetOrCreate(n) = NewEntry(Persisted(data, index, n))
    BY <1>1 DEF GetOrCreate, Loaded
  <2>4. Timely(GetOrCreate(n), FALSE)
    BY <2>1, <2>3, NewEntryFacts, Zenon
  <2>5. Timely(GetOrCreate(n), n \in connected)
    BY <2>2, <2>4 DEF Timely
  <2>6. Due(n) = Persisted(data, index, n)
    BY <1>1 DEF Due
  <2>7. /\ CalculateUptime(GetOrCreate(n)) = Due(n)
        /\ GetOrCreate(n).pre + GetOrCreate(n).acc = Due(n)
    BY <2>1, <2>3, <2>6, NewEntryFacts, Zenon
  <2> QED
    BY <2>1, <2>5, <2>6, <2>7
<1>2. CASE uptimes[n] # None
  <2>1. GetOrCreate(n) = uptimes[n] /\ Due(n) = credited[n]
    BY <1>2 DEF GetOrCreate, Due
  <2>2. uptimes[n] \in Entry
    BY <1>2
  <2>3. Timely(uptimes[n], n \in connected) /\ CalculateUptime(uptimes[n]) = credited[n]
    BY <1>2, <2>2 DEF Timely, EntryTimes, UptimeExact
  <2>4. Persisted(data, index, n) <= uptimes[n].pre + uptimes[n].acc
    <3>1. uptimes[n].pre + uptimes[n].acc \in Nat /\ 0 <= uptimes[n].pre + uptimes[n].acc
      BY <2>2 DEF Entry
    <3> QED
      BY <1>2, <3>1 DEF Persisted, PersistedIsHeld
  <2> QED
    BY <2>1, <2>3, <2>4
<1> QED
  BY <1>1, <1>2

-----------------------------------------------------------------------------
(* Steps of the uptime managers. *)

UptimeInv ==
    /\ connected \in SUBSET Nodes
    /\ uptimes \in [Nodes -> Entry \cup {None}]
    /\ connectedVdrs \in SUBSET Nodes
    /\ pausedVdrs \in SUBSET Nodes
    /\ credited \in [Nodes -> Nat]
    /\ ConnectedUnlessPaused /\ EntryTimes /\ HasEntry /\ UptimeExact

\* The entries still hold what the record of their node had persisted.
Held == \A n \in Nodes : uptimes'[n] # None
            => Persisted(data, index, n) <= uptimes'[n].pre + uptimes'[n].acc

\* A step leaves the entry of n and its connection alone ...
Kept(n) == uptimes'[n] = uptimes[n] /\ (n \in connected' <=> n \in connected)

\* ... or replaces it by one that counts what is due.
Remade(n) ==
    /\ Timely(uptimes'[n], n \in connected')
    /\ CalculateUptime(uptimes'[n]) = Due(n)
    /\ uptimes'[n].pre + uptimes'[n].acc >= GetOrCreate(n).pre + GetOrCreate(n).acc

\* A step that keeps or remakes each entry preserves what is said of entries.
LEMMA EntriesStep ==
    ASSUME VInv, Follow, clock' = clock, connected' \in SUBSET Nodes,
           uptimes' = [n \in Nodes |-> uptimes'[n]],
           \A n \in Nodes : Kept(n) \/ Remade(n)
    PROVE  /\ uptimes' \in [Nodes -> Entry \cup {None}]
           /\ credited' \in [Nodes -> Nat]
           /\ EntryTimes' /\ UptimeExact' /\ Held
<1> USE DEF VInv, TypeOK
<1>1. ASSUME NEW n \in Nodes, Kept(n)
      PROVE  /\ uptimes'[n] \in Entry \cup {None}
             /\ credited'[n] = credited[n]
             /\ uptimes'[n] # None =>
                  /\ Timely(uptimes'[n], n \in connected')
                  /\ CalculateUptime(uptimes'[n]) = credited'[n]
                  /\ Persisted(data, index, n) <= uptimes'[n].pre + uptimes'[n].acc
  <2>1. uptimes'[n] = uptimes[n] /\ (n \in connected' <=> n \in connected)
    BY <1>1 DEF Kept
  <2>2. credited'[n] = credited[n]
    BY <2>1 DEF Follow
  <2>3. CASE uptimes[n] = None
    BY <2>1, <2>2, <2>3
  <2>4. CASE uptimes[n] # None
    <3>1. GetOrCreate(n) = uptimes[n] /\ Due(n) = credited[n]
      BY <2>4 DEF GetOrCreate, Due
    <3>2. /\ Timely(uptimes[n], n \in connected)
          /\ CalculateUptime(uptimes[n]) = credited[n]
          /\ Persisted(data, index, n) <= uptimes[n].pre + uptimes[n].acc
      BY <3>1, GetOrCreateFacts
    <3>3. Timely(uptimes'[n], n \in connected')
      BY <2>1, <3>2 DEF Timely
    <3> QED
      BY <2>1, <2>2, <3>2, <3>3
  <2> QED
    BY <2>3, <2>4
<1>2. ASSUME NEW n \in Nodes, Remade(n)
      PROVE  /\ uptimes'[n] \in Entry \cup {None}
             /\ credited'[n] = Due(n)
             /\ Timely(uptimes'[n], n \in connected')
             /\ CalculateUptime(uptimes'[n]) = credited'[n]
             /\ Persisted(data, index, n) <= uptimes'[n].pre + uptimes'[n].acc
  <2>1. uptimes'[n] \in Entry /\ uptimes'[n] # None
    BY <1>2, ValidatorsAssumption DEF Remade, Timely
  <2>2. credited'[n] = Due(n)
    BY <2>1 DEF Follow, Due
  <2>3. Persisted(data, index, n) <= GetOrCreate(n).pre + GetOrCreate(n).acc
    BY GetOrCreateFacts
  <2>4. Persisted(data, index, n) \in Nat
    BY PersistedNat
  <2>5. GetOrCreate(n).pre + GetOrCreate(n).acc \in Nat
    BY GetOrCreateFacts DEF Timely, Entry
  <2>6. uptimes'[n].pre + uptimes'[n].acc \in Nat
    BY <2>1 DEF Entry
  <2>7. uptimes'[n].pre + uptimes'[n].acc >= GetOrCreate(n).pre + GetOrCreate(n).acc
    BY <1>2 DEF Remade
  <2>8. Persisted(data, index, n) <= uptimes'[n].pre + uptimes'[n].acc
    BY <2>3, <2>4, <2>5, <2>6, <2>7
  <2> QED
    BY <1>2, <2>1, <2>2, <2>8 DEF Remade
<1>3. \A n \in Nodes :
        /\ uptimes'[n] \in Entry \cup {None} /\ credited'[n] \in Nat
        /\ uptimes'[n] # None =>
             /\ Timely(uptimes'[n], n \in connected')
             /\ CalculateUptime(uptimes'[n]) = credited'[n]
             /\ Persisted(data, index, n) <= uptimes'[n].pre + uptimes'[n].acc
  <2> TAKE n \in Nodes
  <2>1. Due(n) \in Nat /\ credited[n] \in Nat
    BY GetOrCreateFacts
  <2> QED
    BY <1>1, <1>2, <2>1
<1>4. uptimes' \in [Nodes -> Entry \cup {None}] /\ credited' \in [Nodes -> Nat]
  BY <1>3 DEF Follow
<1>5. EntryTimes'
  BY <1>3 DEF EntryTimes, Timely
<1>6. UptimeExact'
  BY <1>3 DEF UptimeExact, CalculateUptime, Ongoing
<1> QED
  BY <1>3, <1>4, <1>5, <1>6 DEF Held

\* The entries that the operations on a node store count what is due to it.
LEMMA RemadeFacts ==
    ASSUME VInv, NEW n \in Nodes
    PROVE  /\ uptimes'[n] = GetOrCreate(n) /\ n \notin connected /\ n \notin connected'
                => Remade(n)
           /\ uptimes'[n] = ConnectEntry(GetOrCreate(n)) /\ n \notin connected
                /\ n \in connected' => Remade(n)
           /\ uptimes'[n] = DisconnectEntry(GetOrCreate(n)) /\ n \notin connected'
                => Remade(n)
           /\ uptimes'[n] = StartEntry(GetOrCreate(n), n \in connected)
                /\ (n \in connected' <=> n \in connected) => Remade(n)
           /\ uptimes'[n] = StopEntry(GetOrCreate(n))
                /\ (n \in connected' <=> n \in connected) => Remade(n)
<1> DEFINE e == GetOrCreate(n)
           b == n \in connected
<1>1. clock \in Nat /\ b \in BOOLEAN
  BY DEF VInv, TypeOK
<1>2. Timely(e, b) /\ CalculateUptime(e) = Due(n) /\ e.pre + e.acc \in Nat
  <2>1. Timely(e, b) /\ CalculateUptime(e) = Due(n)
    BY GetOrCreateFacts
  <2> QED
    BY <2>1 DEF Timely, Entry
<1> HIDE DEF e
<1>3. ASSUME uptimes'[n] = e, n \notin connected, n \notin connected'
      PROVE  Remade(n)
  <2>1. Timely(e, n \in connected')
    BY <1>2, <1>3 DEF Timely
  <2> QED
    BY <1>2, <1>3, <2>1 DEF Remade, e
<1>4. ASSUME uptimes'[n] = ConnectEntry(e), n \notin connected, n \in connected'
      PROVE  Remade(n)
  <2>1. Timely(e, FALSE)
    BY <1>2, <1>4 DEF Timely
  <2>2. /\ Timely(uptimes'[n], TRUE) /\ CalculateUptime(uptimes'[n]) = Due(n)
        /\ uptimes'[n].pre + uptimes'[n].acc = e.pre + e.acc
    BY <1>1, <1>2, <1>4, <2>1, ConnectEntryFacts, Zenon
  <2>3. Timely(uptimes'[n], n \in connected')
    BY <1>4, <2>2 DEF Timely
  <2> QED
    BY <1>2, <2>2, <2>3 DEF Remade, e
<1>5. ASSUME uptimes'[n] = DisconnectEntry(e), n \notin connected'
      PROVE  Remade(n)
  <2>1. /\ Timely(uptimes'[n], FALSE) /\ CalculateUptime(uptimes'[n]) = Due(n)
        /\ uptimes'[n].pre + uptimes'[n].acc >= e.pre + e.acc
    BY <1>1, <1>2, <1>5, DisconnectEntryFacts, Zenon
  <2>2. Timely(uptimes'[n], n \in connected')
    BY <1>5, <2>1 DEF Timely
  <2> QED
    BY <2>1, <2>2 DEF Remade, e
<1>6. ASSUME uptimes'[n] = StartEntry(e, b), n \in connected' <=> n \in connected
      PROVE  Remade(n)
  <2>1. /\ Timely(uptimes'[n], b) /\ CalculateUptime(uptimes'[n]) = Due(n)
        /\ uptimes'[n].pre + uptimes'[n].acc >= e.pre + e.acc
    BY <1>1, <1>2, <1>6, StartEntryFacts, Zenon
  <2>2. Timely(uptimes'[n], n \in connected')
    BY <1>6, <2>1 DEF Timely
  <2> QED
    BY <2>1, <2>2 DEF Remade, e
<1>7. ASSUME uptimes'[n] = StopEntry(e), n \in connected' <=> n \in connected
      PROVE  Remade(n)
  <2>1. /\ Timely(uptimes'[n], b) /\ CalculateUptime(uptimes'[n]) = Due(n)
        /\ uptimes'[n].pre + uptimes'[n].acc >= e.pre + e.acc
    BY <1>1, <1>2, <1>7, StopEntryFacts, Zenon
  <2>2. Timely(uptimes'[n], n \in connected')
    BY <1>7, <2>1 DEF Timely
  <2> QED
    BY <2>1, <2>2 DEF Remade, e
<1> QED
  BY <1>3, <1>4, <1>5, <1>6, <1>7 DEF e

\* A timely entry is an entry, so a remade one is there.
LEMMA RemadeIsThere ==
    ASSUME NEW n \in Nodes, Remade(n)
    PROVE  uptimes'[n] # None
BY ValidatorsAssumption DEF Remade, Timely

\* pause disconnects a connected node.
LEMMA PauseStep ==
    ASSUME VInv, NEW n \in Nodes, Pause(n), clock' = clock
    PROVE  UptimeInv' /\ Held
<1> USE DEF VInv, TypeOK
<1>1. connected' \in SUBSET Nodes /\ uptimes' = [m \in Nodes |-> uptimes'[m]] /\ Follow
  BY Zenon DEF Pause
<1>2. Remade(n)
  BY RemadeFacts DEF Pause
<1>3. \A m \in Nodes \ {n} : Kept(m)
  BY DEF Pause, Kept
<1>4. /\ uptimes' \in [Nodes -> Entry \cup {None}] /\ credited' \in [Nodes -> Nat]
      /\ EntryTimes' /\ UptimeExact' /\ Held
  <2>1. \A m \in Nodes : Kept(m) \/ Remade(m)
    BY <1>2, <1>3
  <2> QED
    BY <1>1, <2>1, EntriesStep
<1>5. ConnectedUnlessPaused'
  BY DEF Pause, ConnectedUnlessPaused
<1>6. HasEntry'
  <2>1. uptimes'[n] # None
    BY <1>2, RemadeIsThere
  <2> QED
    BY <1>3, <2>1 DEF HasEntry, Pause, Kept
<1> QED
  BY <1>1, <1>4, <1>5, <1>6 DEF UptimeInv, Pause

\* resume connects the nodes that are connected peers.
LEMMA ResumeStep ==
    ASSUME VInv, NEW N \in SUBSET Nodes, Resume(N), clock' = clock
    PROVE  UptimeInv' /\ Held
<1> USE DEF VInv, TypeOK
<1> DEFINE back == (N \cap connectedVdrs) \ connected
<1>1. connected' \in SUBSET Nodes /\ uptimes' = [m \in Nodes |-> uptimes'[m]] /\ Follow
  BY DEF Resume
<1>2. \A m \in back : Remade(m)
  <2> TAKE m \in back
  <2>1. uptimes'[m] = ConnectEntry(GetOrCreate(m)) /\ m \notin connected /\ m \in connected'
    BY DEF Resume
  <2> QED
    BY <2>1, RemadeFacts
<1>3. \A m \in Nodes \ back : Kept(m)
  BY DEF Resume, Kept
<1>4. /\ uptimes' \in [Nodes -> Entry \cup {None}] /\ credited' \in [Nodes -> Nat]
      /\ EntryTimes' /\ UptimeExact' /\ Held
  <2>1. \A m \in Nodes : Kept(m) \/ Remade(m)
    BY <1>2, <1>3
  <2> QED
    BY <1>1, <2>1, EntriesStep
<1>5. ConnectedUnlessPaused'
  BY DEF Resume, ConnectedUnlessPaused
<1>6. HasEntry'
  <2>1. \A m \in back : uptimes'[m] # None
    BY <1>2, RemadeIsThere
  <2> QED
    BY <1>3, <2>1 DEF HasEntry, Resume, Kept
<1> QED
  BY <1>1, <1>4, <1>5, <1>6 DEF UptimeInv, Resume

\* Nothing happens to the uptime managers.
LEMMA QuietStep ==
    ASSUME VInv, UNCHANGED <<uptimeVars, credited>>, clock' = clock
    PROVE  UptimeInv' /\ Held
<1> USE DEF VInv, TypeOK
<1>1. \A m \in Nodes : Kept(m)
  BY DEF uptimeVars, Kept
<1>2. Follow /\ uptimes' = [m \in Nodes |-> uptimes'[m]] /\ connected' \in SUBSET Nodes
  BY DEF uptimeVars, Follow
<1>3. /\ uptimes' \in [Nodes -> Entry \cup {None}] /\ credited' \in [Nodes -> Nat]
      /\ EntryTimes' /\ UptimeExact' /\ Held
  BY <1>1, <1>2, EntriesStep
<1> QED
  BY <1>3 DEF UptimeInv, uptimeVars, ConnectedUnlessPaused, HasEntry

\* An operation on one node that stores an entry and keeps the pause set.
LEMMA NodeStep ==
    ASSUME VInv, NEW n \in Nodes, NEW e, uptimes' = [uptimes EXCEPT ![n] = e],
           Remade(n), Follow, clock' = clock, pausedVdrs' = pausedVdrs,
           connected' \in SUBSET Nodes, connectedVdrs' \in SUBSET Nodes,
           \A m \in Nodes \ {n} : m \in connected' <=> m \in connected,
           ConnectedUnlessPaused'
    PROVE  UptimeInv' /\ Held
<1> USE DEF VInv, TypeOK
<1>1. \A m \in Nodes \ {n} : Kept(m)
  BY DEF Kept
<1>2. \A m \in Nodes : Kept(m) \/ Remade(m)
  BY <1>1
<1>3. uptimes' = [m \in Nodes |-> uptimes'[m]]
  BY Zenon
<1>4. /\ uptimes' \in [Nodes -> Entry \cup {None}] /\ credited' \in [Nodes -> Nat]
      /\ EntryTimes' /\ UptimeExact' /\ Held
  BY <1>2, <1>3, EntriesStep
<1>5. HasEntry'
  <2>1. uptimes'[n] # None
    BY RemadeIsThere
  <2> QED
    BY <2>1, <1>1 DEF HasEntry, Kept
<1> QED
  BY <1>4, <1>5 DEF UptimeInv

\* Connect keeps the uptime half: a paused or known peer changes no entry.
LEMMA ConnectStep ==
    ASSUME VInv, NEW n \in Nodes, Connect(n)
    PROVE  UptimeInv' /\ Held
<1> USE DEF VInv, TypeOK
<1>1. CASE n \notin pausedVdrs /\ n \notin connected
  <2>1. /\ uptimes' = [uptimes EXCEPT ![n] = ConnectEntry(GetOrCreate(n))]
        /\ connected' = connected \cup {n} /\ connectedVdrs' = connectedVdrs \cup {n}
        /\ Follow /\ clock' = clock /\ pausedVdrs' = pausedVdrs
    BY <1>1 DEF Connect
  <2>2. Remade(n)
    BY <1>1, <2>1, RemadeFacts
  <2>3. ConnectedUnlessPaused'
    BY <1>1, <2>1 DEF ConnectedUnlessPaused
  <2> QED
    BY <2>1, <2>2, <2>3, NodeStep, Zenon
<1>2. CASE ~(n \notin pausedVdrs /\ n \notin connected)
  <2>1. /\ uptimes' = uptimes /\ connected' = connected
        /\ connectedVdrs' = connectedVdrs \cup {n}
        /\ Follow /\ clock' = clock /\ pausedVdrs' = pausedVdrs
    BY <1>2 DEF Connect
  <2>2. \A m \in Nodes : Kept(m)
    BY <2>1 DEF Kept
  <2>3. /\ uptimes' \in [Nodes -> Entry \cup {None}] /\ credited' \in [Nodes -> Nat]
        /\ EntryTimes' /\ UptimeExact' /\ Held
    BY <2>1, <2>2, EntriesStep
  <2> QED
    BY <1>2, <2>1, <2>3 DEF UptimeInv, ConnectedUnlessPaused, HasEntry
<1> QED
  BY <1>1, <1>2

\* Disconnect keeps the uptime half: only a connected, unpaused node has an
\* ongoing period to close.
LEMMA DisconnectStep ==
    ASSUME VInv, NEW n \in Nodes, Disconnect(n)
    PROVE  UptimeInv' /\ Held
<1> USE DEF VInv, TypeOK
<1>1. CASE n \in connected /\ n \notin pausedVdrs
  <2>1. /\ uptimes' = [uptimes EXCEPT ![n] = DisconnectEntry(GetOrCreate(n))]
        /\ connected' = connected \ {n} /\ connectedVdrs' = connectedVdrs \ {n}
        /\ Follow /\ clock' = clock /\ pausedVdrs' = pausedVdrs
    BY <1>1 DEF Disconnect
  <2>2. Remade(n)
    BY <2>1, RemadeFacts
  <2>3. ConnectedUnlessPaused'
    BY <1>1, <2>1 DEF ConnectedUnlessPaused
  <2> QED
    BY <2>1, <2>2, <2>3, NodeStep, Zenon
<1>2. CASE ~(n \in connected /\ n \notin pausedVdrs)
  <2>1. /\ uptimes' = uptimes /\ connected' = connected
        /\ connectedVdrs' = connectedVdrs \ {n}
        /\ Follow /\ clock' = clock /\ pausedVdrs' = pausedVdrs
    BY <1>2 DEF Disconnect
  <2>2. \A m \in Nodes : Kept(m)
    BY <2>1 DEF Kept
  <2>3. /\ uptimes' \in [Nodes -> Entry \cup {None}] /\ credited' \in [Nodes -> Nat]
        /\ EntryTimes' /\ UptimeExact' /\ Held
    BY <2>1, <2>2, EntriesStep
  <2> QED
    BY <1>2, <2>1, <2>3 DEF UptimeInv, ConnectedUnlessPaused, HasEntry
<1> QED
  BY <1>1, <1>2

\* StartTracking keeps the uptime half.
LEMMA StartTrackingStep ==
    ASSUME VInv, NEW n \in Nodes, StartTracking(n)
    PROVE  UptimeInv' /\ Held
<1> USE DEF VInv, TypeOK
<1>1. /\ uptimes' = [uptimes EXCEPT ![n] = StartEntry(GetOrCreate(n), n \in connected)]
      /\ connected' = connected /\ connectedVdrs' = connectedVdrs
      /\ Follow /\ clock' = clock /\ pausedVdrs' = pausedVdrs
  BY DEF StartTracking
<1>2. Remade(n)
  BY <1>1, RemadeFacts
<1> QED
  BY <1>1, <1>2, NodeStep, Zenon DEF ConnectedUnlessPaused

\* StopTracking keeps the uptime half.
LEMMA StopTrackingStep ==
    ASSUME VInv, NEW n \in Nodes, StopTracking(n)
    PROVE  UptimeInv' /\ Held /\ Remade(n)
<1> USE DEF VInv, TypeOK
<1>1. /\ uptimes' = [uptimes EXCEPT ![n] = StopEntry(GetOrCreate(n))]
      /\ connected' = connected /\ connectedVdrs' = connectedVdrs
      /\ Follow /\ clock' = clock /\ pausedVdrs' = pausedVdrs
  BY DEF StopTracking
<1>2. Remade(n)
  BY <1>1, RemadeFacts
<1> QED
  BY <1>1, <1>2, NodeStep, Zenon DEF ConnectedUnlessPaused

-----------------------------------------------------------------------------
(* Steps of the validator state. *)

StateInv ==
    /\ data \in [ValidationIDs -> Data \cup {None}]
    /\ index \in [Nodes -> ValidationIDs \cup {None}]
    /\ updatedData \in [ValidationIDs -> Marks]
    /\ disk \in [ValidationIDs -> Data \cup {None}]
    /\ IndexInverse /\ UnwrittenIsMarked /\ DiskLoads /\ PausedByIndex

\* A record persists no more than the record its node had before.
UpKept == \A n \in Nodes : index'[n] # None
            => data'[index'[n]].up <= Persisted(data, index, n)

\* A record persists no less than it did.
Grows == \A v \in ValidationIDs : data[v] # None /\ data'[v] # None
            => data'[v].up >= data[v].up

\* Entries that hold what was persisted hold what is persisted now.
LEMMA HeldIsKept ==
    ASSUME VInv, Held, UpKept, StateInv', UptimeInv'
    PROVE  PersistedIsHeld'
<1> SUFFICES ASSUME NEW n \in Nodes, uptimes'[n] # None, index'[n] # None
             PROVE  data'[index'[n]].up <= uptimes'[n].pre + uptimes'[n].acc
  BY DEF PersistedIsHeld
<1>1. Persisted(data, index, n) \in Nat
  BY PersistedNat DEF VInv, TypeOK
<1>2. index'[n] \in ValidationIDs /\ data'[index'[n]] # None
  BY DEF StateInv, IndexInverse
<1>3. data'[index'[n]].up \in Nat
  BY <1>2 DEF StateInv, Data
<1>4. uptimes'[n].pre + uptimes'[n].acc \in Nat
  BY DEF UptimeInv, Entry
<1>5. /\ data'[index'[n]].up <= Persisted(data, index, n)
      /\ Persisted(data, index, n) <= uptimes'[n].pre + uptimes'[n].acc
  BY DEF UpKept, Held
<1> QED
  BY <1>1, <1>3, <1>4, <1>5

\* What persisting means for a node with a record.
LEMMA PersistedOfRecord ==
    ASSUME VInv, NEW v \in ValidationIDs, data[v] # None
    PROVE  /\ data[v] \in Data /\ data[v].node \in Nodes /\ data[v].up \in Nat
           /\ index[data[v].node] = v
           /\ Persisted(data, index, data[v].node) = data[v].up
<1>1. data[v] \in Data /\ data[v].node \in Nodes /\ data[v].up \in Nat
  BY DEF VInv, TypeOK, Data
<1>2. index[data[v].node] = v
  BY <1>1 DEF VInv, IndexInverse
<1> QED
  BY <1>1, <1>2, ValidatorsAssumption DEF Persisted

\* Where index and data of a node are untouched, so is what it persists.
LEMMA SameRecord ==
    ASSUME VInv, NEW n \in Nodes, index'[n] = index[n], index[n] # None,
           data'[index[n]] = data[index[n]]
    PROVE  data'[index'[n]].up <= Persisted(data, index, n)
<1>1. index[n] \in ValidationIDs /\ data[index[n]] # None /\ data[index[n]].node = n
  BY DEF VInv, TypeOK, IndexInverse
<1>2. data[index[n]].up \in Nat /\ Persisted(data, index, n) = data[index[n]].up
  BY <1>1, PersistedOfRecord
<1> QED
  BY <1>2

\* A step that leaves the validator state and the pause set alone.
LEMMA SameState ==
    ASSUME VInv, UNCHANGED <<stateVars, pausedVdrs, running>>
    PROVE  StateInv' /\ UpKept /\ Grows
<1>1. StateInv'
  BY DEF VInv, TypeOK, StateInv, stateVars, IndexInverse, UnwrittenIsMarked, DiskLoads,
         LoadPossible, PausedByIndex
<1>2. UpKept
  BY SameRecord DEF UpKept, stateVars
<1>3. Grows
  <2>1. ASSUME NEW v \in ValidationIDs, data[v] # None
        PROVE  data[v].up \in Nat
    BY <2>1, PersistedOfRecord
  <2> QED
    BY <2>1 DEF Grows, stateVars
<1> QED
  BY <1>1, <1>2, <1>3

\* AddValidator keeps the state half: neither the ID nor the node was known.
LEMMA AddStep ==
    ASSUME VInv, NEW v \in ValidationIDs, NEW n \in Nodes, NEW s \in StartTimes,
           NEW w \in Weights, NEW b \in BOOLEAN, AddValidator(v, n, s, w, b)
    PROVE  StateInv' /\ UpKept /\ Grows
<1> USE DEF VInv, TypeOK
<1> DEFINE d == NewData(n, s, w, b)
<1>1. /\ data[v] = None /\ index[n] = None
      /\ data' = [data EXCEPT ![v] = d] /\ index' = [index EXCEPT ![n] = v]
      /\ updatedData' = [updatedData EXCEPT ![v] = "updated"]
      /\ disk' = disk /\ running' = running
      /\ pausedVdrs' = IF b THEN pausedVdrs ELSE pausedVdrs \cup {n}
  BY DEF AddValidator, CanAdd, OnValidatorAdded, Pause, uptimeVars
<1>2. d \in Data /\ d # None /\ d.node = n /\ d.up = 0 /\ d.active = b
  BY ValidatorsAssumption DEF NewData, Data
<1> HIDE DEF d
<1>3. /\ data' \in [ValidationIDs -> Data \cup {None}]
      /\ index' \in [Nodes -> ValidationIDs \cup {None}]
      /\ updatedData' \in [ValidationIDs -> Marks]
      /\ disk' \in [ValidationIDs -> Data \cup {None}]
  BY <1>1, <1>2 DEF Marks
<1>4. IndexInverse'
  BY <1>1, <1>2, ValidatorsAssumption DEF IndexInverse
<1>5. UnwrittenIsMarked'
  BY <1>1, <1>2, ValidatorsAssumption DEF UnwrittenIsMarked
<1>6. DiskLoads'
  BY <1>1 DEF DiskLoads, LoadPossible
<1>7. \A m \in Nodes \ {n} : index'[m] = index[m]
                              /\ (index[m] # None => data'[index[m]] = data[index[m]])
  BY <1>1 DEF IndexInverse
<1>8. PausedByIndex'
  <2> SUFFICES ASSUME NEW m \in Nodes
               PROVE  m \in pausedVdrs' <=> (index'[m] # None /\ ~data'[index'[m]].active)
    BY DEF PausedByIndex
  <2>1. CASE m = n
    <3>1. n \notin pausedVdrs
      BY <1>1 DEF PausedByIndex
    <3>2. index'[n] = v /\ data'[v] = d /\ v # None
      BY <1>1, ValidatorsAssumption
    <3> QED
      BY <1>1, <1>2, <2>1, <3>1, <3>2
  <2>2. CASE m # n
    BY <1>1, <1>7, <2>2 DEF PausedByIndex
  <2> QED
    BY <2>1, <2>2
<1>9. UpKept
  <2>1. ASSUME NEW m \in Nodes, index'[m] # None
        PROVE  data'[index'[m]].up <= Persisted(data, index, m)
    <3>1. CASE m = n
      <4>1. data'[index'[n]].up = 0
        BY <1>1, <1>2
      <4>2. Persisted(data, index, n) \in Nat
        BY PersistedNat
      <4> QED
        BY <3>1, <4>1, <4>2
    <3>2. CASE m # n
      BY <1>7, <2>1, <3>2, SameRecord
    <3> QED
      BY <3>1, <3>2
  <2> QED
    BY <2>1 DEF UpKept
<1>10. Grows
  <2>1. ASSUME NEW u \in ValidationIDs, data[u] # None
        PROVE  data'[u].up >= data[u].up
    <3>1. data[u].up \in Nat /\ data'[u] = data[u]
      BY <1>1, <2>1, PersistedOfRecord
    <3> QED
      BY <3>1
  <2> QED
    BY <2>1 DEF Grows
<1> QED
  BY <1>3, <1>4, <1>5, <1>6, <1>8, <1>9, <1>10 DEF StateInv

\* A record is replaced by one of the same node, and marked.
LEMMA RecordStep ==
    ASSUME VInv, NEW v \in ValidationIDs, data[v] # None,
           NEW d \in Data, d.node = data[v].node,
           data' = [data EXCEPT ![v] = d],
           updatedData' = [updatedData EXCEPT ![v] = "updated"],
           UNCHANGED <<index, disk, running>>
    PROVE  /\ data' \in [ValidationIDs -> Data \cup {None}]
           /\ index' \in [Nodes -> ValidationIDs \cup {None}]
           /\ updatedData' \in [ValidationIDs -> Marks]
           /\ disk' \in [ValidationIDs -> Data \cup {None}]
           /\ IndexInverse' /\ UnwrittenIsMarked' /\ DiskLoads'
           /\ index[data[v].node] = v /\ data'[v] = d
           /\ \A m \in Nodes \ {data[v].node} :
                 index[m] # None => data'[index[m]] = data[index[m]]
<1> USE DEF VInv, TypeOK
<1>1. d # None
  BY ValidatorsAssumption
<1>2. /\ data' \in [ValidationIDs -> Data \cup {None}]
      /\ index' \in [Nodes -> ValidationIDs \cup {None}]
      /\ updatedData' \in [ValidationIDs -> Marks]
      /\ disk' \in [ValidationIDs -> Data \cup {None}]
      /\ data'[v] = d
  BY DEF Marks
<1>3. index[data[v].node] = v
  BY PersistedOfRecord
<1>4. IndexInverse'
  BY <1>1 DEF IndexInverse
<1>5. UnwrittenIsMarked'
  BY <1>1, ValidatorsAssumption DEF UnwrittenIsMarked
<1>6. DiskLoads'
  BY DEF DiskLoads, LoadPossible
<1>7. \A m \in Nodes \ {data[v].node} :
         index[m] # None => data'[index[m]] = data[index[m]]
  BY <1>3 DEF IndexInverse
<1> QED
  BY <1>2, <1>3, <1>4, <1>5, <1>6, <1>7

\* A status or weight change leaves the persisted uptime alone; the pause set
\* follows the status.
LEMMA StatusStep ==
    ASSUME VInv, NEW v \in ValidationIDs, data[v] # None,
           NEW d \in Data, d.node = data[v].node, d.up = data[v].up,
           data' = [data EXCEPT ![v] = d],
           updatedData' = [updatedData EXCEPT ![v] = "updated"],
           UNCHANGED <<index, disk, running>>,
           pausedVdrs' = IF d.active THEN pausedVdrs \ {d.node}
                                     ELSE pausedVdrs \cup {d.node}
    PROVE  StateInv' /\ UpKept /\ Grows
<1> USE DEF VInv, TypeOK
<1> DEFINE n == data[v].node
<1>1. /\ data' \in [ValidationIDs -> Data \cup {None}]
      /\ index' \in [Nodes -> ValidationIDs \cup {None}]
      /\ updatedData' \in [ValidationIDs -> Marks]
      /\ disk' \in [ValidationIDs -> Data \cup {None}]
      /\ IndexInverse' /\ UnwrittenIsMarked' /\ DiskLoads'
      /\ index[n] = v /\ data'[v] = d
      /\ \A m \in Nodes \ {n} : index[m] # None => data'[index[m]] = data[index[m]]
  BY RecordStep, Zenon
<1>2. n \in Nodes /\ data[v].up \in Nat /\ Persisted(data, index, n) = data[v].up
  BY PersistedOfRecord
<1>3. d.active \in BOOLEAN
  BY DEF Data
<1> HIDE DEF n
<1>4. PausedByIndex'
  <2> SUFFICES ASSUME NEW m \in Nodes
               PROVE  m \in pausedVdrs' <=> (index'[m] # None /\ ~data'[index'[m]].active)
    BY DEF PausedByIndex
  <2>1. CASE m = n
    BY <1>1, <1>3, <2>1, ValidatorsAssumption DEF n
  <2>2. CASE m # n
    BY <1>1, <2>2 DEF PausedByIndex, n
  <2> QED
    BY <2>1, <2>2
<1>5. UpKept
  <2>1. ASSUME NEW m \in Nodes, index'[m] # None
        PROVE  data'[index'[m]].up <= Persisted(data, index, m)
    <3>1. CASE m = n
      <4>1. data'[index'[n]].up = data[v].up
        BY <1>1
      <4> QED
        BY <1>2, <3>1, <4>1
    <3>2. CASE m # n
      BY <1>1, <2>1, <3>2, SameRecord
    <3> QED
      BY <3>1, <3>2
  <2> QED
    BY <2>1 DEF UpKept
<1>6. Grows
  <2>1. ASSUME NEW u \in ValidationIDs, data[u] # None
        PROVE  data'[u].up >= data[u].up
    <3>1. data[u].up \in Nat /\ data'[u].up = data[u].up
      BY <1>1, <2>1, PersistedOfRecord
    <3> QED
      BY <3>1
  <2> QED
    BY <2>1 DEF Grows
<1> QED
  BY <1>1, <1>4, <1>5, <1>6 DEF StateInv

\* UpdateValidator keeps the state half: the listener hears of a status change
\* only.
LEMMA UpdateStep ==
    ASSUME VInv, NEW v \in ValidationIDs, NEW w \in Weights, NEW b \in BOOLEAN,
           UpdateValidator(v, w, b)
    PROVE  StateInv' /\ UpKept /\ Grows
<1> USE DEF VInv, TypeOK
<1> DEFINE d == [data[v] EXCEPT !.weight = w, !.active = b]
<1>1. data[v] # None /\ data[v] \in Data
  BY DEF UpdateValidator
<1>2. d \in Data /\ d.node = data[v].node /\ d.up = data[v].up /\ d.active = b
  BY <1>1, Zenon DEF Data
<1>3. /\ data' = [data EXCEPT ![v] = d]
      /\ updatedData' = [updatedData EXCEPT ![v] = "updated"]
      /\ UNCHANGED <<index, disk, running>>
  BY DEF UpdateValidator
<1>4. index[data[v].node] = v /\ data[v].node \in Nodes /\ data[v].active \in BOOLEAN
  BY <1>1, PersistedOfRecord DEF Data
<1>5. data[v].node \in pausedVdrs <=> ~data[v].active
  BY <1>4, ValidatorsAssumption DEF PausedByIndex
<1>6. pausedVdrs' = IF b THEN pausedVdrs \ {d.node} ELSE pausedVdrs \cup {d.node}
  <2>1. CASE data[v].active = b
    <3>1. pausedVdrs' = pausedVdrs
      BY <2>1 DEF UpdateValidator, uptimeVars
    <3> QED
      BY <1>2, <1>5, <2>1, <3>1
  <2>2. CASE data[v].active # b
    BY <1>2, <2>2 DEF UpdateValidator, OnValidatorStatusUpdated, Resume, Pause
  <2> QED
    BY <2>1, <2>2
<1> HIDE DEF d
<1> QED
  BY <1>1, <1>2, <1>3, <1>6, StatusStep, Zenon

\* SetStatus keeps the state half.
LEMMA SetStatusStep ==
    ASSUME VInv, NEW v \in ValidationIDs, NEW b \in BOOLEAN, SetStatus(v, b)
    PROVE  StateInv' /\ UpKept /\ Grows
<1> USE DEF VInv, TypeOK
<1> DEFINE d == [data[v] EXCEPT !.active = b]
<1>1. data[v] # None /\ data[v] \in Data
  BY DEF SetStatus
<1>2. d \in Data /\ d.node = data[v].node /\ d.up = data[v].up /\ d.active = b
  BY <1>1 DEF Data
<1>3. /\ data' = [data EXCEPT ![v] = d]
      /\ updatedData' = [updatedData EXCEPT ![v] = "updated"]
      /\ UNCHANGED <<index, disk, running>>
  BY DEF SetStatus
<1>4. pausedVdrs' = IF b THEN pausedVdrs \ {d.node} ELSE pausedVdrs \cup {d.node}
  BY <1>2 DEF SetStatus, OnValidatorStatusUpdated, Resume, Pause
<1> HIDE DEF d
<1> QED
  BY <1>1, <1>2, <1>3, <1>4, StatusStep, Zenon

\* StopTracking stores what the entry holds, which is no less than the record had.
LEMMA StopTrackingState ==
    ASSUME VInv, NEW n \in Nodes, StopTracking(n)
    PROVE  StateInv' /\ PersistedIsHeld' /\ Grows
<1> USE DEF VInv, TypeOK
<1> DEFINE s == StopEntry(GetOrCreate(n))
           v == index[n]
           up == s.pre + s.acc
           stored == GetOrCreate(n).tracking /\ v # None /\ data[v] # None
<1>1. UptimeInv' /\ Held /\ Remade(n)
  BY StopTrackingStep
<1>2. uptimes' = [uptimes EXCEPT ![n] = s] /\ uptimes'[n] = s
  BY DEF StopTracking
<1>3. up \in Nat
  BY <1>1, <1>2 DEF Remade, Timely, Entry
<1>4. CASE ~stored
  <2>1. UNCHANGED <<stateVars, pausedVdrs, running>>
    BY <1>4 DEF StopTracking, stateVars
  <2>2. StateInv' /\ UpKept /\ Grows
    BY <2>1, SameState
  <2> QED
    BY <1>1, <2>2, HeldIsKept
<1>5. CASE stored
  <2> DEFINE d == [data[v] EXCEPT !.up = up]
  <2>1. v \in ValidationIDs /\ data[v] \in Data /\ data[v].node = n
    BY <1>5 DEF IndexInverse
  <2>2. /\ data' = [data EXCEPT ![v] = d]
        /\ updatedData' = [updatedData EXCEPT ![v] = "updated"]
        /\ UNCHANGED <<index, disk, running, pausedVdrs>>
    BY <1>5 DEF StopTracking
  <2> HIDE DEF up
  <2>3. d \in Data /\ d.node = n /\ d.up = up /\ d.active = data[v].active
    BY <1>3, <2>1 DEF Data
  <2> HIDE DEF d, s, v
  <2>4. /\ data' \in [ValidationIDs -> Data \cup {None}]
        /\ index' \in [Nodes -> ValidationIDs \cup {None}]
        /\ updatedData' \in [ValidationIDs -> Marks]
        /\ disk' \in [ValidationIDs -> Data \cup {None}]
        /\ IndexInverse' /\ UnwrittenIsMarked' /\ DiskLoads'
        /\ data'[v] = d
        /\ \A m \in Nodes \ {n} : index[m] # None => data'[index[m]] = data[index[m]]
    BY <1>5, <2>1, <2>2, <2>3, RecordStep, ZenonT(40)
  <2>5. PausedByIndex'
    <3> SUFFICES ASSUME NEW m \in Nodes
                 PROVE  m \in pausedVdrs' <=> (index'[m] # None /\ ~data'[index'[m]].active)
      BY DEF PausedByIndex
    <3>1. CASE m = n
      BY <2>2, <2>3, <2>4, <3>1 DEF PausedByIndex, v
    <3>2. CASE m # n
      BY <2>2, <2>4, <3>2 DEF PausedByIndex
    <3> QED
      BY <3>1, <3>2
  <2>6. PersistedIsHeld'
    <3> SUFFICES ASSUME NEW m \in Nodes, uptimes'[m] # None, index'[m] # None
                 PROVE  data'[index'[m]].up <= uptimes'[m].pre + uptimes'[m].acc
      BY DEF PersistedIsHeld
    <3>1. CASE m = n
      <4>1. data'[index'[n]].up = up
        BY <2>2, <2>3, <2>4 DEF v
      <4>2. uptimes'[n].pre + uptimes'[n].acc = up
        BY <1>2 DEF up
      <4> QED
        BY <1>3, <3>1, <4>1, <4>2
    <3>2. CASE m # n
      <4>1. uptimes'[m] = uptimes[m] /\ index'[m] = index[m]
            /\ data'[index[m]] = data[index[m]]
        BY <1>2, <2>2, <2>4, <3>2
      <4> QED
        BY <4>1 DEF PersistedIsHeld
    <3> QED
      BY <3>1, <3>2
  <2>7. Grows
    <3>1. ASSUME NEW u \in ValidationIDs, data[u] # None
          PROVE  data'[u].up >= data[u].up
      <4>1. CASE u = v
        <5>1. data[v].up \in Nat /\ Persisted(data, index, n) = data[v].up
          BY <2>1, <3>1, <4>1, PersistedOfRecord
        <5>2. Persisted(data, index, n) <= up
          <6>1. uptimes'[n] # None /\ uptimes'[n].pre + uptimes'[n].acc = up
            BY <1>1, <1>2, RemadeIsThere DEF up
          <6> QED
            BY <1>1, <6>1 DEF Held
        <5>3. data'[v].up = up
          BY <2>3, <2>4
        <5> QED
          BY <1>3, <4>1, <5>1, <5>2, <5>3
      <4>2. CASE u # v
        <5>1. data'[u] = data[u] /\ data[u].up \in Nat
          BY <2>2, <3>1, <4>2, PersistedOfRecord
        <5> QED
          BY <5>1
      <4> QED
        BY <4>1, <4>2
    <3> QED
      BY <3>1 DEF Grows
  <2> QED
    BY <2>4, <2>5, <2>6, <2>7 DEF StateInv
<1> QED
  BY <1>4, <1>5

\* DeleteValidator keeps the state half: record, index and pause go together.
LEMMA DeleteStep ==
    ASSUME VInv, NEW v \in ValidationIDs, DeleteValidator(v)
    PROVE  StateInv' /\ UpKept /\ Grows
<1> USE DEF VInv, TypeOK
<1> DEFINE n == data[v].node
<1>1. /\ data[v] # None
      /\ data' = [data EXCEPT ![v] = None] /\ index' = [index EXCEPT ![n] = None]
      /\ updatedData' = [updatedData EXCEPT ![v] = "deleted"]
      /\ disk' = disk /\ running' = running
      /\ pausedVdrs' = pausedVdrs \ {n}
  BY DEF DeleteValidator, Resume, OnValidatorRemoved
<1>2. n \in Nodes /\ index[n] = v
  BY <1>1, PersistedOfRecord
<1>3. /\ data' \in [ValidationIDs -> Data \cup {None}]
      /\ index' \in [Nodes -> ValidationIDs \cup {None}]
      /\ updatedData' \in [ValidationIDs -> Marks]
      /\ disk' \in [ValidationIDs -> Data \cup {None}]
  BY <1>1, Zenon DEF Marks
<1>4. \A m \in Nodes \ {n} : index'[m] = index[m]
                              /\ (index[m] # None => data'[index[m]] = data[index[m]])
  BY <1>1, <1>2 DEF IndexInverse
<1>5. IndexInverse'
  BY <1>1, <1>2, ValidatorsAssumption DEF IndexInverse
<1>6. UnwrittenIsMarked'
  BY <1>1, ValidatorsAssumption DEF UnwrittenIsMarked
<1>7. DiskLoads'
  BY <1>1 DEF DiskLoads, LoadPossible
<1> HIDE DEF n
<1>8. PausedByIndex'
  BY <1>1, <1>2, <1>4 DEF PausedByIndex
<1>9. UpKept
  BY <1>1, <1>2, <1>4, SameRecord DEF UpKept
<1>10. Grows
  <2>1. ASSUME NEW u \in ValidationIDs, data[u] # None, data'[u] # None
        PROVE  data'[u].up >= data[u].up
    <3>1. data[u].up \in Nat /\ data'[u] = data[u]
      BY <1>1, <2>1, PersistedOfRecord
    <3> QED
      BY <3>1
  <2> QED
    BY <2>1 DEF Grows
<1> QED
  BY <1>3, <1>5, <1>6, <1>7, <1>8, <1>9, <1>10 DEF StateInv

-----------------------------------------------------------------------------
(* Writing the database, sync, and the ends of a process. *)

\* WriteState writes the records it is given: a mark of either kind says what
\* the record is, and an unmarked record is in the database already.
LEMMA WrittenIsData ==
    ASSUME NEW v \in ValidationIDs, NEW d, NEW u,
           u[v] \in Marks,
           u[v] = "deleted" => d[v] = None,
           u[v] = None => disk[v] = d[v]
    PROVE  Written(v, d, u) = d[v]
BY ValidatorsAssumption DEF Written, Marks

\* A set of records with an inverse index can be loaded.
LEMMA InverseLoads ==
    ASSUME NEW d \in [ValidationIDs -> Data \cup {None}], NEW ix,
           \A n \in Nodes, v \in ValidationIDs :
               ix[n] = v <=> (d[v] # None /\ d[v].node = n)
    PROVE  \A v, w \in ValidationIDs :
               d[v] # None /\ d[w] # None /\ d[v].node = d[w].node => v = w
BY DEF Data

\* Padding a node ID loses nothing.
LEMMA NodeOfPadded ==
    ASSUME NEW n \in Nodes
    PROVE  NodeOf(PaddedID[n]) = n
BY ValidatorsAssumption DEF NodeOf

\* The record of a node whose loading does not fail.
LEMMA LoadedDataFacts ==
    ASSUME VInv, NEW n \in Nodes, NEW w \in Weights, NEW new, ~LoadFails(new, n)
    PROVE  /\ LoadedData(n, w) \in Data /\ LoadedData(n, w) # None
           /\ LoadedData(n, w).node = n /\ LoadedData(n, w).active = TRUE
           /\ LoadedData(n, w).up <= Persisted(data, index, n)
           /\ data[PaddedID[n]] # None =>
                 /\ data[PaddedID[n]].node = n
                 /\ LoadedData(n, w).up = data[PaddedID[n]].up
<1>1. PaddedID[n] \in ValidationIDs
  BY ValidatorsAssumption
<1>2. CASE data[PaddedID[n]] = None
  <2> DEFINE d == NewData(n, 0, w, TRUE)
  <2>1. LoadedData(n, w) = d
    BY <1>2 DEF LoadedData
  <2>2. d \in Data /\ d.node = n /\ d.active = TRUE /\ d.up = 0
    BY ValidatorsAssumption DEF NewData, Data
  <2> HIDE DEF d
  <2>3. Persisted(data, index, n) \in Nat
    BY PersistedNat DEF VInv, TypeOK
  <2>4. d # None
    BY <2>2, ValidatorsAssumption
  <2>5. d.up <= Persisted(data, index, n)
    BY <2>2, <2>3
  <2> QED
    BY <1>2, <2>1, <2>2, <2>4, <2>5
<1>3. CASE data[PaddedID[n]] # None
  <2> DEFINE d == data[PaddedID[n]]
             e == [d EXCEPT !.weight = w, !.active = TRUE]
  <2>1. LoadedData(n, w) = e
    BY <1>3 DEF LoadedData
  <2>2. d \in Data /\ d.node = n /\ d.up \in Nat /\ Persisted(data, index, n) = d.up
    BY <1>1, <1>3, PersistedOfRecord DEF LoadFails
  <2>3. e \in Data /\ e.node = n /\ e.active = TRUE /\ e.up = d.up
    BY <2>2, Zenon DEF Data
  <2> HIDE DEF d, e
  <2>4. e # None
    BY <2>3, ValidatorsAssumption
  <2>5. e.up <= Persisted(data, index, n)
    BY <2>2, <2>3
  <2> QED
    BY <2>1, <2>2, <2>3, <2>4, <2>5 DEF d
<1> QED
  BY <1>2, <1>3, Zenon

\* What sync leaves for each validation ID and each node.
LEMMA LoadedFacts ==
    ASSUME VInv, NEW new \in [Nodes -> Weights \cup {None}],
           NEW done \in SUBSET Nodes,
           \A n \in done : new[n] # None /\ ~LoadFails(new, n)
    PROVE  /\ \A n \in done :
                 /\ LoadedState(new, done)[PaddedID[n]] = LoadedData(n, new[n])
                 /\ PaddedID[n] \notin Deleted(new)
           /\ \A v \in ValidationIDs : (\A n \in done : v # PaddedID[n]) =>
                 LoadedState(new, done)[v] = IF v \in Deleted(new) THEN None ELSE data[v]
           /\ \A n \in done : LoadedIndex(new, done)[n] = PaddedID[n]
           /\ \A n \in Nodes \ done : LoadedIndex(new, done)[n] =
                 IF index[n] \in Deleted(new) THEN None ELSE index[n]
<1>1. \A n \in done :
         /\ LoadedState(new, done)[PaddedID[n]] = LoadedData(n, new[n])
         /\ PaddedID[n] \notin Deleted(new)
  <2> TAKE n \in done
  <2>1. NodeOf(PaddedID[n]) = n /\ PaddedID[n] \in ValidationIDs
    BY NodeOfPadded, ValidatorsAssumption
  <2> QED
    BY <2>1 DEF LoadedState, Deleted
<1>2. \A v \in ValidationIDs : (\A n \in done : v # PaddedID[n]) =>
         LoadedState(new, done)[v] = IF v \in Deleted(new) THEN None ELSE data[v]
  BY DEF LoadedState
<1>3. \A n \in done : LoadedIndex(new, done)[n] = PaddedID[n]
  <2> TAKE n \in done
  <2> QED
    BY DEF LoadedIndex
<1>4. \A n \in Nodes : n \in {data[v].node : v \in Deleted(new)} <=> index[n] \in Deleted(new)
  <2> TAKE n \in Nodes
  <2>1. ASSUME NEW v \in Deleted(new), n = data[v].node
        PROVE  index[n] \in Deleted(new)
    BY <2>1, PersistedOfRecord DEF Deleted
  <2>2. ASSUME index[n] \in Deleted(new)
        PROVE  n = data[index[n]].node
    BY <2>2 DEF VInv, TypeOK, Deleted, IndexInverse
  <2> QED
    BY <2>1, <2>2
<1>5. \A n \in Nodes \ done : LoadedIndex(new, done)[n] =
         IF index[n] \in Deleted(new) THEN None ELSE index[n]
  BY <1>4, Zenon DEF LoadedIndex
<1> QED
  BY <1>1, <1>2, <1>3, <1>5

\* sync, complete or interrupted by a failing node.
LEMMA SyncStep ==
    ASSUME VInv, NEW new \in [Nodes -> Weights \cup {None}],
           NEW done \in SUBSET Nodes, Sync(new, done)
    PROVE  StateInv' /\ UpKept /\ Grows
<1> DEFINE ls == LoadedState(new, done)
           li == LoadedIndex(new, done)
           lm == LoadedMarks(new, done)
<1>1. /\ running /\ running' /\ data' = ls /\ index' = li
      /\ \A n \in done : new[n] # None /\ ~LoadFails(new, n)
      /\ pausedVdrs' = pausedVdrs \ Resumed(new, done)
      /\ \/ WriteState(ls, lm)
         \/ updatedData' = lm /\ disk' = disk
  BY SMTT(30) DEF Sync, Resume
<1>2. /\ \A n \in done : ls[PaddedID[n]] = LoadedData(n, new[n])
                          /\ PaddedID[n] \notin Deleted(new)
      /\ \A v \in ValidationIDs : (\A n \in done : v # PaddedID[n]) =>
            ls[v] = IF v \in Deleted(new) THEN None ELSE data[v]
      /\ \A n \in done : li[n] = PaddedID[n]
      /\ \A n \in Nodes \ done : li[n] =
            IF index[n] \in Deleted(new) THEN None ELSE index[n]
  BY <1>1, LoadedFacts
<1>3. \A n \in done :
         LET d == LoadedData(n, new[n]) IN
         /\ d \in Data /\ d # None /\ d.node = n /\ d.active = TRUE
         /\ d.up <= Persisted(data, index, n)
         /\ data[PaddedID[n]] # None =>
               data[PaddedID[n]].node = n /\ d.up = data[PaddedID[n]].up
  <2> TAKE n \in done
  <2>1. new[n] \in Weights
    BY <1>1
  <2> QED
    BY <1>1, <2>1, LoadedDataFacts, Zenon
\* A loaded node had no record, its padded one, or a deleted one.
<1>4. \A n \in done : \/ index[n] = None \/ index[n] = PaddedID[n]
                      \/ index[n] \in Deleted(new)
  <2> TAKE n \in done
  <2>1. PaddedID[n] \in ValidationIDs
    BY ValidatorsAssumption
  <2>2. CASE data[PaddedID[n]] = None
    BY <1>1, <2>2 DEF LoadFails
  <2>3. CASE data[PaddedID[n]] # None
    BY <1>3, <2>1, <2>3 DEF VInv, TypeOK, IndexInverse
  <2> QED
    BY <2>2, <2>3
\* The record of another node is not the padded one of a loaded node.
<1>5. \A n \in Nodes \ done : index[n] # None => \A m \in done : index[n] # PaddedID[m]
  <2> SUFFICES ASSUME NEW n \in Nodes \ done, index[n] # None, NEW m \in done,
                      index[n] = PaddedID[m]
               PROVE  FALSE
    OBVIOUS
  <2>1. data[PaddedID[m]] # None /\ data[PaddedID[m]].node = n
    BY ValidatorsAssumption, SMTT(30) DEF VInv, TypeOK, IndexInverse
  <2> QED
    BY <1>3, <2>1
<1>6. DOMAIN ls = ValidationIDs /\ DOMAIN li = Nodes /\ DOMAIN lm = ValidationIDs
      /\ ls = [v \in ValidationIDs |-> ls[v]] /\ li = [n \in Nodes |-> li[n]]
  BY DEF LoadedState, LoadedIndex, LoadedMarks
<1>7. \A v \in ValidationIDs : lm[v] = IF v \in Deleted(new) THEN "deleted"
                                   ELSE IF ls[v] # data[v] THEN "updated"
                                   ELSE updatedData[v]
  BY DEF LoadedMarks
<1>8. lm \in [ValidationIDs -> Marks]
  BY DEF VInv, TypeOK, LoadedMarks, Marks
<1> HIDE DEF ls, li, lm
<1>9. ls \in [ValidationIDs -> Data \cup {None}]
  <2>1. \A v \in ValidationIDs : ls[v] \in Data \cup {None}
    <3> TAKE v \in ValidationIDs
    <3>1. CASE \E n \in done : v = PaddedID[n]
      BY <1>2, <1>3, <3>1
    <3>2. CASE \A n \in done : v # PaddedID[n]
      BY <1>2, <3>2 DEF VInv, TypeOK
    <3> QED
      BY <3>1, <3>2
  <2> QED
    BY <1>6, <2>1
<1>10. li \in [Nodes -> ValidationIDs \cup {None}]
  <2>1. \A n \in Nodes : li[n] \in ValidationIDs \cup {None}
    BY <1>2, ValidatorsAssumption, Zenon DEF VInv, TypeOK
  <2> QED
    BY <1>6, <2>1
<1>11. ASSUME NEW n \in Nodes, NEW v \in ValidationIDs
       PROVE  li[n] = v <=> (ls[v] # None /\ ls[v].node = n)
  <2>1. CASE \E m \in done : v = PaddedID[m]
    <3>1. PICK m \in done : v = PaddedID[m]
      BY <2>1, SMTT(30)
    <3>2. ls[v] # None /\ ls[v].node = m
      BY <1>2, <1>3, <3>1
    <3>3. CASE n \in done
      BY <1>2, <3>1, <3>2, <3>3, ValidatorsAssumption
    <3>4. CASE n \notin done
      BY <1>2, <1>5, <3>1, <3>2, <3>4, ValidatorsAssumption
    <3> QED
      BY <3>3, <3>4
  <2>2. CASE \A m \in done : v # PaddedID[m]
    <3>1. ls[v] = IF v \in Deleted(new) THEN None ELSE data[v]
      BY <1>2, <2>2
    <3>2. CASE n \in done
      <4>1. li[n] # v
        BY <1>2, <2>2, <3>2
      <4>2. ls[v] # None => data[v].node # n
        BY <1>4, <2>2, <3>1, <3>2, ValidatorsAssumption, SMTT(30) DEF VInv, TypeOK, IndexInverse
      <4> QED
        BY <3>1, <4>1, <4>2
    <3>3. CASE n \notin done
      BY <1>2, <3>1, <3>3, ValidatorsAssumption, SMTT(30) DEF VInv, TypeOK, IndexInverse
    <3> QED
      BY <3>2, <3>3
  <2> QED
    BY <2>1, <2>2
<1>12. \A v \in ValidationIDs :
          /\ lm[v] = "updated" => ls[v] # None
          /\ lm[v] = "deleted" => ls[v] = None
          /\ lm[v] = None => disk[v] = ls[v]
  <2> TAKE v \in ValidationIDs
  <2>1. CASE v \in Deleted(new)
    <3>1. ls[v] = None
      BY <1>2, <2>1
    <3> QED
      BY <1>7, <2>1, <3>1, ValidatorsAssumption, SMTT(30)
  <2>2. CASE v \notin Deleted(new) /\ ls[v] # data[v]
    <3>1. ls[v] # None
      BY <1>2, <1>3, <2>2, SMTT(30)
    <3> QED
      BY <1>7, <2>2, <3>1, ValidatorsAssumption, SMTT(30)
  <2>3. CASE v \notin Deleted(new) /\ ls[v] = data[v]
    BY <1>1, <1>7, <2>3 DEF VInv, TypeOK, UnwrittenIsMarked
  <2> QED
    BY <2>1, <2>2, <2>3
<1>13. /\ updatedData' \in [ValidationIDs -> Marks]
       /\ disk' \in [ValidationIDs -> Data \cup {None}]
       /\ UnwrittenIsMarked' /\ DiskLoads'
  <2>1. CASE WriteState(ls, lm)
    <3>1. \A v \in ValidationIDs : Written(v, ls, lm) = ls[v]
      BY <1>8, <1>12, WrittenIsData
    <3>2. disk' = ls /\ updatedData' = [v \in ValidationIDs |-> None]
      BY <1>6, <2>1, <3>1 DEF WriteState
    <3>3. UnwrittenIsMarked'
      BY <1>1, <3>2, ValidatorsAssumption DEF UnwrittenIsMarked
    <3>4. DiskLoads'
      BY <1>9, <1>11, <3>2, InverseLoads DEF DiskLoads, LoadPossible
    <3> QED
      BY <1>9, <3>2, <3>3, <3>4 DEF Marks
  <2>2. CASE updatedData' = lm /\ disk' = disk
    <3>1. UnwrittenIsMarked'
      BY <1>1, <1>12, <2>2 DEF UnwrittenIsMarked
    <3>2. DiskLoads'
      BY <2>2 DEF VInv, TypeOK, DiskLoads, LoadPossible
    <3> QED
      BY <1>8, <2>2, <3>1, <3>2, SMTT(30) DEF VInv, TypeOK
  <2> QED
    BY <1>1, <2>1, <2>2
<1>14. PausedByIndex'
  <2> SUFFICES ASSUME NEW n \in Nodes
               PROVE  n \in pausedVdrs' <=> (li[n] # None /\ ~ls[li[n]].active)
    BY <1>1 DEF PausedByIndex
  <2>1. n \in Resumed(new, done) <=>
          \/ n \in pausedVdrs /\ index[n] \in Deleted(new)
          \/ n \in done /\ data[PaddedID[n]] # None /\ ~data[PaddedID[n]].active
    <3>1. n \in {data[v].node : v \in Deleted(new)} <=> index[n] \in Deleted(new)
      <4>1. ASSUME NEW v \in Deleted(new), n = data[v].node
            PROVE  index[n] \in Deleted(new)
        BY <4>1, PersistedOfRecord DEF Deleted
      <4>2. ASSUME index[n] \in Deleted(new)
            PROVE  n = data[index[n]].node
        BY <4>2 DEF VInv, TypeOK, Deleted, IndexInverse
      <4> QED
        BY <4>1, <4>2
    <3> QED
      BY <3>1 DEF Resumed, OnValidatorRemoved
  <2>2. n \in pausedVdrs <=> (index[n] # None /\ ~data[index[n]].active)
    BY DEF VInv, TypeOK, PausedByIndex
  <2>3. CASE n \in done
    <3>1. ls[li[n]].active = TRUE
      BY <1>2, <1>3, <2>3, SMTT(30)
    <3>2. index[n] = PaddedID[n] /\ index[n] # None => data[PaddedID[n]] # None
      BY ValidatorsAssumption, SMTT(30) DEF VInv, TypeOK, IndexInverse
    <3>3. n \notin pausedVdrs'
      BY <1>1, <1>4, <2>1, <2>2, <2>3, <3>2
    <3> QED
      BY <3>1, <3>3, SMTT(30)
  <2>4. CASE n \notin done
    <3>1. CASE index[n] \in Deleted(new)
      BY <1>1, <1>2, <2>1, <2>2, <2>4, <3>1, SMTT(30)
    <3>2. CASE index[n] \notin Deleted(new)
      <4>1. li[n] = index[n] /\ n \notin Resumed(new, done)
        BY <1>2, <2>1, <2>4, <3>2, SMTT(30)
      <4>2. index[n] # None => ls[index[n]] = data[index[n]]
        BY <1>2, <1>5, <2>4, <3>2 DEF VInv, TypeOK
      <4> QED
        BY <1>1, <2>2, <4>1, <4>2, SMTT(30)
    <3> QED
      BY <3>1, <3>2, SMTT(30)
  <2> QED
    BY <2>3, <2>4, SMTT(30)
<1>15. UpKept
  <2> SUFFICES ASSUME NEW n \in Nodes, li[n] # None
               PROVE  ls[li[n]].up <= Persisted(data, index, n)
    BY <1>1, SMTT(30) DEF UpKept
  <2>1. CASE n \in done
    BY <1>2, <1>3, <2>1, SMTT(30)
  <2>2. CASE n \notin done
    <3>1. li[n] = index[n] /\ index[n] # None /\ ls[index[n]] = data[index[n]]
      BY <1>2, <1>5, <2>2, SMTT(30) DEF VInv, TypeOK
    <3> QED
      BY <1>1, <3>1, SameRecord, SMTT(30)
  <2> QED
    BY <2>1, <2>2
<1>16. Grows
  <2> SUFFICES ASSUME NEW v \in ValidationIDs, data[v] # None, ls[v] # None
               PROVE  ls[v].up >= data[v].up
    BY <1>1, Zenon DEF Grows
  <2>1. data[v].up \in Nat
    BY PersistedOfRecord, SMTT(30)
  <2>2. ls[v].up = data[v].up
    BY <1>2, <1>3, SMTT(30)
  <2> QED
    BY <2>1, <2>2, SMTT(30)
<1>17. IndexInverse'
  BY <1>1, <1>11 DEF IndexInverse
<1> QED
  BY <1>1, <1>9, <1>10, <1>13, <1>14, <1>15, <1>16, <1>17 DEF StateInv

\* A process that ends holds nothing; only the database matters.
LEMMA ForgetStep ==
    ASSUME VInv, Forget, updatedData' = [v \in ValidationIDs |-> None],
           disk' \in [ValidationIDs -> Data \cup {None}], DiskLoads'
    PROVE  VInv'
<1>1. TypeOK'
  BY Zenon DEF VInv, TypeOK, Forget, Marks
<1>2. IndexInverse' /\ PausedByIndex'
  BY ValidatorsAssumption DEF Forget, IndexInverse, PausedByIndex
<1>3. ConnectedUnlessPaused' /\ DownIsEmpty' /\ HasEntry'
  BY SMTT(30) DEF Forget, ConnectedUnlessPaused, DownIsEmpty, HasEntry
<1>4. UnwrittenIsMarked'
  BY ValidatorsAssumption DEF Forget, UnwrittenIsMarked
<1>5. EntryTimes' /\ UptimeExact' /\ PersistedIsHeld'
  BY SMTT(30) DEF Forget, EntryTimes, UptimeExact, PersistedIsHeld
<1> QED
  BY <1>1, <1>2, <1>3, <1>4, <1>5 DEF VInv, TypeOK

\* Shutdown leaves a database that is exactly the state it wrote.
LEMMA ShutdownStep ==
    ASSUME VInv, Shutdown
    PROVE  VInv'
<1>1. \A v \in ValidationIDs : Written(v, data, updatedData) = data[v]
  BY WrittenIsData DEF Shutdown, VInv, TypeOK, UnwrittenIsMarked
<1>2. disk' = data
  BY <1>1 DEF Shutdown, WriteState, VInv, TypeOK
<1>3. DiskLoads'
  BY <1>2, InverseLoads, SMTT(30) DEF VInv, TypeOK, IndexInverse, DiskLoads, LoadPossible
<1> QED
  BY <1>2, <1>3, ForgetStep, SMTT(30) DEF Shutdown, WriteState, VInv, TypeOK

\* A crash leaves the database as it was.
LEMMA CrashStep ==
    ASSUME VInv, Crash
    PROVE  VInv'
<1>1. DiskLoads'
  BY DEF Crash, VInv, DiskLoads, LoadPossible
<1> QED
  BY <1>1, ForgetStep DEF Crash, VInv, TypeOK

\* NewManager rebuilds index and pause set from the records in the database.
LEMMA StartStep ==
    ASSUME VInv, Start
    PROVE  VInv'
<1>1. /\ data' = disk /\ disk' = disk /\ index' = DiskIndex /\ pausedVdrs' = Inactive
      /\ running' = TRUE /\ clock' = clock /\ updatedData' = updatedData
      /\ connected' = connected /\ connectedVdrs' = connectedVdrs
      /\ connectedVdrs = {} /\ connected = {}
      /\ \A v \in ValidationIDs : updatedData[v] = None
  BY DEF VInv, TypeOK, Start, DownIsEmpty, ConnectedUnlessPaused
<1>2. \A n \in Nodes, v \in ValidationIDs :
         DiskIndex[n] = v <=> (disk[v] # None /\ disk[v].node = n)
  <2> TAKE n \in Nodes, v \in ValidationIDs
  <2>1. CASE \E u \in ValidationIDs : disk[u] # None /\ disk[u].node = n
    <3>1. /\ DiskIndex[n] \in ValidationIDs
          /\ disk[DiskIndex[n]] # None /\ disk[DiskIndex[n]].node = n
      BY <2>1 DEF DiskIndex
    <3> QED
      BY <3>1 DEF VInv, TypeOK, DiskLoads, LoadPossible
  <2>2. CASE ~\E u \in ValidationIDs : disk[u] # None /\ disk[u].node = n
    BY <2>2, ValidatorsAssumption DEF DiskIndex
  <2> QED
    BY <2>1, <2>2
<1>3. DiskIndex \in [Nodes -> ValidationIDs \cup {None}]
  BY DEF DiskIndex
<1>4. IndexInverse'
  BY <1>1, <1>2 DEF IndexInverse
<1>5. PausedByIndex'
  BY <1>1 DEF PausedByIndex, Inactive
<1>6. UnwrittenIsMarked' /\ DiskLoads'
  BY <1>1, ValidatorsAssumption DEF VInv, TypeOK, UnwrittenIsMarked, DiskLoads, LoadPossible
<1>7. \A n \in Nodes :
         LET p == Persisted(disk, DiskIndex, n) IN
         /\ p \in Nat /\ Timely(NewEntry(p), FALSE) /\ NewEntry(p) # None
         /\ CalculateUptime(NewEntry(p)) = p /\ NewEntry(p).pre + NewEntry(p).acc = p
  <2> TAKE n \in Nodes
  <2>1. Persisted(disk, DiskIndex, n) \in Nat
    BY <1>3, PersistedNat DEF VInv, TypeOK
  <2>2. Timely(NewEntry(Persisted(disk, DiskIndex, n)), FALSE)
    BY <2>1, NewEntryFacts, Zenon DEF VInv, TypeOK
  <2>3. NewEntry(Persisted(disk, DiskIndex, n)) # None
    BY <2>2, ValidatorsAssumption, SMTT(30) DEF Timely
  <2> QED
    BY <2>1, <2>2, <2>3, NewEntryFacts, Zenon DEF VInv, TypeOK
<1>8. /\ \A n \in Inactive : /\ n \in Nodes
                             /\ uptimes'[n] = NewEntry(Persisted(disk, DiskIndex, n))
                             /\ credited'[n] = Persisted(disk, DiskIndex, n)
      /\ \A n \in Nodes \ Inactive : uptimes'[n] = None /\ credited'[n] = 0
      /\ uptimes' = [n \in Nodes |-> uptimes'[n]]
      /\ credited' = [n \in Nodes |-> credited'[n]]
  BY DEF Start, Inactive, Loaded
<1>9. uptimes' \in [Nodes -> Entry \cup {None}] /\ credited' \in [Nodes -> Nat]
  <2>1. \A n \in Nodes : uptimes'[n] \in Entry \cup {None} /\ credited'[n] \in Nat
    BY <1>7, <1>8 DEF Timely
  <2> QED
    BY <1>8, <2>1
<1>10. TypeOK'
  BY <1>1, <1>3, <1>9 DEF VInv, TypeOK, Inactive
<1>11. ConnectedUnlessPaused' /\ DownIsEmpty' /\ HasEntry'
  BY <1>1, <1>7, <1>8, Zenon DEF ConnectedUnlessPaused, DownIsEmpty, HasEntry
<1>12. \A n \in Nodes : uptimes'[n] # None =>
          /\ Timely(uptimes'[n], FALSE) /\ CalculateUptime(uptimes'[n]) = credited'[n]
          /\ uptimes'[n].pre + uptimes'[n].acc = Persisted(disk, DiskIndex, n)
          /\ Persisted(disk, DiskIndex, n) \in Nat
  BY <1>7, <1>8, Zenon
<1>13. EntryTimes'
  BY <1>1, <1>12 DEF EntryTimes, Timely
<1>14. UptimeExact'
  BY <1>1, <1>12, Zenon DEF UptimeExact, CalculateUptime, Ongoing
<1>15. PersistedIsHeld'
  <2> SUFFICES ASSUME NEW n \in Nodes, uptimes'[n] # None, index'[n] # None
               PROVE  data'[index'[n]].up <= uptimes'[n].pre + uptimes'[n].acc
    BY DEF PersistedIsHeld
  <2>1. DiskIndex[n] \in ValidationIDs /\ disk[DiskIndex[n]] # None
    BY <1>1, <1>2, <1>3
  <2>2. Persisted(disk, DiskIndex, n) = data'[index'[n]].up
    BY <1>1, <2>1, ValidatorsAssumption DEF Persisted
  <2>3. /\ uptimes'[n].pre + uptimes'[n].acc = Persisted(disk, DiskIndex, n)
        /\ Persisted(disk, DiskIndex, n) \in Nat
    BY <1>12, Zenon
  <2> QED
    BY <2>2, <2>3
<1> QED
  BY <1>4, <1>5, <1>6, <1>10, <1>11, <1>13, <1>14, <1>15, SMTT(30) DEF VInv, TypeOK

\* Time passes: each entry counts one more exactly when its node is up.
LEMMA TickStep ==
    ASSUME VInv, Tick
    PROVE  VInv'
<1>1. /\ clock' = clock + 1 /\ clock' \in Nat
      /\ UNCHANGED <<data, index, updatedData, disk, connected, uptimes,
                     connectedVdrs, pausedVdrs, running>>
      /\ credited' = [n \in Nodes |-> IF Up(n) THEN credited[n] + 1 ELSE credited[n]]
  BY DEF VInv, TypeOK, Tick, stateVars, uptimeVars
<1>2. TypeOK'
  <2>1. credited' \in [Nodes -> Nat]
    BY <1>1 DEF VInv, TypeOK
  <2> QED
    BY <1>1, <2>1 DEF VInv, TypeOK
<1>3. /\ IndexInverse' /\ PausedByIndex' /\ UnwrittenIsMarked' /\ DiskLoads'
      /\ ConnectedUnlessPaused' /\ DownIsEmpty' /\ HasEntry' /\ PersistedIsHeld'
  <2>0. ConnectedUnlessPaused /\ DownIsEmpty /\ HasEntry /\ PersistedIsHeld
    BY DEF VInv
  <2>1. StateInv'
    BY <1>1, SameState, SMTT(30) DEF stateVars
  <2>2. ConnectedUnlessPaused'
    BY <1>1, <2>0 DEF ConnectedUnlessPaused
  <2>3. DownIsEmpty'
    BY <1>1, <2>0 DEF DownIsEmpty
  <2>4. HasEntry'
    BY <1>1, <2>0 DEF HasEntry
  <2>5. PersistedIsHeld'
    BY <1>1, <2>0 DEF PersistedIsHeld
  <2> QED
    BY <2>1, <2>2, <2>3, <2>4, <2>5, Zenon DEF StateInv
<1>4. ASSUME NEW n \in Nodes, uptimes[n] # None
      PROVE  /\ uptimes[n].created <= clock'
             /\ uptimes[n].last # None => uptimes[n].last <= clock'
             /\ CalculateUptime(uptimes[n])' = credited'[n]
  <2> DEFINE e == uptimes[n]
  <2>1. Timely(e, n \in connected) /\ CalculateUptime(e) = credited[n]
    BY <1>4 DEF VInv, TypeOK, Timely, EntryTimes, UptimeExact
  <2>2. /\ e.acc \in Nat /\ e.pre \in Nat /\ e.created \in Nat /\ e.tracking \in BOOLEAN
        /\ e.created <= clock
    BY <2>1, EntryFields, Zenon DEF VInv, TypeOK, Timely
  <2>3. e.last # None => e.last \in Nat /\ e.last <= clock
    BY <1>4, <2>1 DEF Timely, Entry
  <2>4. Up(n) <=> (e.tracking => e.last # None)
    <3>1. n \in connected <=> n \in connectedVdrs \ pausedVdrs
      BY DEF VInv, ConnectedUnlessPaused
    <3> QED
      BY <1>4, <2>1, <3>1 DEF Up, Timely
  <2>5. e' = e
    BY <1>1, Zenon DEF e
  <2>0. clock \in Nat /\ clock' = clock + 1
    BY <1>1 DEF VInv, TypeOK
  <2> HIDE DEF e
  <2>6. CASE e.tracking /\ e.last # None
    <3>1. CalculateUptime(e) = e.pre + e.acc + (clock - e.last) + 0
      BY <2>6 DEF CalculateUptime, Ongoing
    <3>2. CalculateUptime(e)' = e.pre + e.acc + (clock' - e.last) + 0
      BY <2>5, <2>6 DEF CalculateUptime, Ongoing
    <3>3. credited'[n] = credited[n] + 1
      BY <1>1, <2>4, <2>6
    <3>4. e.pre + e.acc + ((clock + 1) - e.last) + 0
            = (e.pre + e.acc + (clock - e.last) + 0) + 1
      BY <2>0, <2>2, <2>3, <2>6
    <3>5. CalculateUptime(e)' = credited'[n]
      BY <2>0, <2>1, <3>1, <3>2, <3>3, <3>4, Zenon
    <3> QED
      BY <2>0, <2>2, <2>3, <3>5 DEF e
  <2>7. CASE e.tracking /\ e.last = None
    <3>1. CalculateUptime(e) = e.pre + e.acc + 0 + 0
      BY <2>7 DEF CalculateUptime, Ongoing
    <3>2. CalculateUptime(e)' = e.pre + e.acc + 0 + 0
      BY <2>5, <2>7 DEF CalculateUptime, Ongoing
    <3>3. credited'[n] = credited[n]
      BY <1>1, <2>4, <2>7
    <3>4. CalculateUptime(e)' = credited'[n]
      BY <2>1, <3>1, <3>2, <3>3, Zenon
    <3> QED
      BY <2>0, <2>2, <2>7, <3>4 DEF e
  <2>8. CASE ~e.tracking
    <3>1. CalculateUptime(e) = e.pre + e.acc + 0 + (clock - e.created)
      BY <2>8 DEF CalculateUptime, Ongoing
    <3>2. CalculateUptime(e)' = e.pre + e.acc + 0 + (clock' - e.created)
      BY <2>5, <2>8 DEF CalculateUptime, Ongoing
    <3>3. credited'[n] = credited[n] + 1
      BY <1>1, <2>4, <2>8
    <3>4. e.pre + e.acc + 0 + ((clock + 1) - e.created)
            = (e.pre + e.acc + 0 + (clock - e.created)) + 1
      BY <2>0, <2>2
    <3>5. CalculateUptime(e)' = credited'[n]
      BY <2>0, <2>1, <3>1, <3>2, <3>3, <3>4, Zenon
    <3> QED
      BY <2>0, <2>2, <2>3, <3>5 DEF e
  <2> QED
    BY <2>2, <2>6, <2>7, <2>8
<1>5. EntryTimes'
  BY <1>1, <1>4 DEF VInv, TypeOK, EntryTimes
<1>6. UptimeExact'
  BY <1>1, <1>4 DEF UptimeExact
<1> QED
  BY <1>1, <1>2, <1>3, <1>5, <1>6 DEF VInv, TypeOK

-----------------------------------------------------------------------------
(* The theorems. *)

\* The parts make up the invariant, for a step of a running process.
LEMMA Assemble ==
    ASSUME running', clock' \in Nat, running' \in BOOLEAN,
           StateInv', UptimeInv', PersistedIsHeld'
    PROVE  VInv'
BY DEF VInv, TypeOK, StateInv, UptimeInv, DownIsEmpty

\* Every step keeps the invariant, and no step of a running process lowers the
\* uptime persisted for a validator.
LEMMA NextKeeps ==
    ASSUME VInv, Next
    PROVE  VInv' /\ (running /\ running' => Grows)
<1>1. clock \in Nat /\ running \in BOOLEAN
  BY DEF VInv, TypeOK
<1>2. ASSUME NEW n \in Nodes, Connect(n)
      PROVE  VInv' /\ Grows
  <2>1. running' = running /\ running /\ clock' = clock
        /\ UNCHANGED <<stateVars, pausedVdrs, running>>
    BY <1>2 DEF Connect
  <2> QED
    BY <1>1, <1>2, <2>1, ConnectStep, SameState, HeldIsKept, Assemble
<1>3. ASSUME NEW n \in Nodes, Disconnect(n)
      PROVE  VInv' /\ Grows
  <2>1. running' = running /\ running /\ clock' = clock
        /\ UNCHANGED <<stateVars, pausedVdrs, running>>
    BY <1>3 DEF Disconnect
  <2> QED
    BY <1>1, <1>3, <2>1, DisconnectStep, SameState, HeldIsKept, Assemble
<1>4. ASSUME NEW n \in Nodes, StartTracking(n)
      PROVE  VInv' /\ Grows
  <2>1. running' = running /\ running /\ clock' = clock
        /\ UNCHANGED <<stateVars, pausedVdrs, running>>
    BY <1>4 DEF StartTracking
  <2> QED
    BY <1>1, <1>4, <2>1, StartTrackingStep, SameState, HeldIsKept, Assemble
<1>5. ASSUME NEW n \in Nodes, StopTracking(n)
      PROVE  VInv' /\ Grows
  <2>1. running' = running /\ running /\ clock' = clock
    BY <1>5 DEF StopTracking
  <2> QED
    BY <1>1, <1>5, <2>1, StopTrackingStep, StopTrackingState, Assemble
<1>6. ASSUME NEW v \in ValidationIDs, NEW n \in Nodes, NEW s \in StartTimes,
             NEW w \in Weights, NEW b \in BOOLEAN, AddValidator(v, n, s, w, b)
      PROVE  VInv' /\ Grows
  <2>1. running' = running /\ running /\ clock' = clock
        /\ (Pause(n) \/ UNCHANGED <<uptimeVars, credited>>)
    BY <1>6 DEF AddValidator, OnValidatorAdded
  <2>2. UptimeInv' /\ Held
    BY <2>1, PauseStep, QuietStep
  <2> QED
    BY <1>1, <1>6, <2>1, <2>2, AddStep, HeldIsKept, Assemble
<1>7. ASSUME NEW v \in ValidationIDs, NEW w \in Weights, NEW b \in BOOLEAN,
             UpdateValidator(v, w, b)
      PROVE  VInv' /\ Grows
  <2> DEFINE n == data[v].node
  <2>1. running' = running /\ running /\ clock' = clock /\ data[v] # None
        /\ (Pause(n) \/ Resume({n}) \/ UNCHANGED <<uptimeVars, credited>>)
    BY <1>7 DEF UpdateValidator, OnValidatorStatusUpdated
  <2>2. n \in Nodes /\ {n} \in SUBSET Nodes
    BY <2>1, PersistedOfRecord
  <2> HIDE DEF n
  <2>3. UptimeInv' /\ Held
    BY <2>1, <2>2, PauseStep, ResumeStep, QuietStep
  <2> QED
    BY <1>1, <1>7, <2>1, <2>3, UpdateStep, HeldIsKept, Assemble
<1>8. ASSUME NEW v \in ValidationIDs, DeleteValidator(v)
      PROVE  VInv' /\ Grows
  <2> DEFINE N == OnValidatorRemoved({data[v].node})
  <2>1. running' = running /\ running /\ clock' = clock /\ Resume(N)
    BY <1>8 DEF DeleteValidator
  <2>2. N \in SUBSET Nodes
    BY DEF OnValidatorRemoved, VInv, TypeOK
  <2> HIDE DEF N
  <2>3. UptimeInv' /\ Held
    BY <2>1, <2>2, ResumeStep
  <2> QED
    BY <1>1, <1>8, <2>1, <2>3, DeleteStep, HeldIsKept, Assemble
<1>9. ASSUME NEW v \in ValidationIDs, NEW b \in BOOLEAN, SetStatus(v, b)
      PROVE  VInv' /\ Grows
  <2> DEFINE n == data[v].node
  <2>1. running' = running /\ running /\ clock' = clock /\ data[v] # None
        /\ (Pause(n) \/ Resume({n}))
    BY <1>9 DEF SetStatus, OnValidatorStatusUpdated
  <2>2. n \in Nodes /\ {n} \in SUBSET Nodes
    BY <2>1, PersistedOfRecord
  <2> HIDE DEF n
  <2>3. UptimeInv' /\ Held
    BY <2>1, <2>2, PauseStep, ResumeStep
  <2> QED
    BY <1>1, <1>9, <2>1, <2>3, SetStatusStep, HeldIsKept, Assemble
<1>10. ASSUME NEW new \in [Nodes -> Weights \cup {None}], NEW done \in SUBSET Nodes,
              Sync(new, done)
       PROVE  VInv' /\ Grows
  <2> DEFINE N == Resumed(new, done)
  <2>1. running' = running /\ running /\ clock' = clock /\ Resume(N)
    BY <1>10, SMTT(30) DEF Sync
  <2>2. N \in SUBSET Nodes
    BY DEF Resumed, OnValidatorRemoved, VInv, TypeOK
  <2> HIDE DEF N
  <2>3. UptimeInv' /\ Held
    BY <2>1, <2>2, ResumeStep
  <2> QED
    BY <1>1, <1>10, <2>1, <2>3, SyncStep, HeldIsKept, Assemble
<1>11. ASSUME Shutdown PROVE VInv' /\ ~running'
  BY <1>11, ShutdownStep, Zenon DEF Shutdown, Forget
<1>12. ASSUME Crash PROVE VInv' /\ ~running'
  BY <1>12, CrashStep, Zenon DEF Crash, Forget
<1>13. ASSUME Start PROVE VInv' /\ ~running
  BY <1>13, StartStep, SMTT(30) DEF Start
<1>14. ASSUME Tick PROVE VInv' /\ Grows
  <2>1. data' = data
    BY <1>14, SMTT(30) DEF Tick, stateVars
  <2>2. ASSUME NEW v \in ValidationIDs, data[v] # None
        PROVE  data'[v].up >= data[v].up
    BY <2>1, <2>2, PersistedOfRecord, SMTT(30)
  <2> QED
    BY <1>14, <2>2, TickStep DEF Grows
<1> QED
  BY <1>2, <1>3, <1>4, <1>5, <1>6, <1>7, <1>8, <1>9, <1>10, <1>11, <1>12, <1>13, <1>14
     DEF Next

\* Stuttering keeps the invariant.
LEMMA StutterKeeps ==
    ASSUME VInv, UNCHANGED vars
    PROVE  VInv'
<1>1. UNCHANGED <<stateVars, pausedVdrs, running>> /\ UNCHANGED <<uptimeVars, credited>>
      /\ clock' = clock
  BY DEF vars, uptimeVars
<1>2. StateInv' /\ UpKept
  BY <1>1, SameState
<1>3. UptimeInv' /\ Held
  BY <1>1, QuietStep
<1>4. PersistedIsHeld'
  BY <1>2, <1>3, HeldIsKept, SMTT(30)
<1>5. DownIsEmpty'
  BY <1>1, Zenon DEF VInv, DownIsEmpty, stateVars, uptimeVars
<1>6. clock' \in Nat /\ running' \in BOOLEAN
  BY <1>1, Zenon DEF VInv, TypeOK
<1> QED
  BY <1>2, <1>3, <1>4, <1>5, <1>6, Zenon DEF VInv, TypeOK, StateInv, UptimeInv

\* An empty database and a process that is down satisfy the invariant.
LEMMA InitHolds == Init => VInv
<1> SUFFICES ASSUME Init PROVE VInv
  OBVIOUS
<1>1. TypeOK
  BY Zenon DEF Init, TypeOK, Marks
<1>2. IndexInverse /\ PausedByIndex /\ DownIsEmpty
  BY ValidatorsAssumption, SMTT(30) DEF Init, IndexInverse, PausedByIndex, DownIsEmpty
<1>3. UnwrittenIsMarked /\ DiskLoads
  BY ValidatorsAssumption DEF Init, UnwrittenIsMarked, DiskLoads, LoadPossible
<1>4. ConnectedUnlessPaused /\ EntryTimes /\ HasEntry /\ UptimeExact /\ PersistedIsHeld
  BY DEF Init, ConnectedUnlessPaused, EntryTimes, HasEntry, UptimeExact, PersistedIsHeld
<1> QED
  BY <1>1, <1>2, <1>3, <1>4 DEF VInv

\* The inductive invariant of the validator package holds.
THEOREM ValidatorsInvariant == Spec => []VInv
<1>1. VInv /\ [Next]_vars => VInv'
  BY NextKeeps, StutterKeeps
<1> QED
  BY InitHolds, <1>1, PTL DEF Spec

\* In every reachable state of the validator state (addData, DeleteValidator,
\* loadValidators, loadFromDisk) the index is the inverse of the records.
THEOREM IndexIsInverse == Spec => []IndexInverse
<1>1. VInv => IndexInverse
  BY DEF VInv
<1> QED
  BY ValidatorsInvariant, <1>1, PTL

\* The pausable manager pauses exactly the nodes whose validator is inactive.
THEOREM PausedAreInactive == Spec => []PausedIsInactive
<1>1. VInv => PausedIsInactive
  <2> SUFFICES ASSUME VInv, NEW n \in Nodes
               PROVE  n \in pausedVdrs <=> \E v \in ValidationIDs :
                         data[v] # None /\ data[v].node = n /\ ~data[v].active
    BY Zenon DEF PausedIsInactive
  <2>1. n \in pausedVdrs <=> (index[n] # None /\ ~data[index[n]].active)
    BY DEF VInv, PausedByIndex
  <2>2. index[n] # None => /\ index[n] \in ValidationIDs
                           /\ data[index[n]] # None /\ data[index[n]].node = n
    BY SMTT(30) DEF VInv, TypeOK, IndexInverse
  <2>3. \A v \in ValidationIDs :
           data[v] # None /\ data[v].node = n => index[n] = v /\ v # None
    BY ValidatorsAssumption, SMTT(30) DEF VInv, IndexInverse
  <2> QED
    BY <2>1, <2>2, <2>3
<1> QED
  BY ValidatorsInvariant, <1>1, PTL

\* The inner manager is connected to a peer exactly when it is not paused.
THEOREM ConnectedAreNotPaused == Spec => []ConnectedUnlessPaused
<1>1. VInv => ConnectedUnlessPaused
  BY DEF VInv
<1> QED
  BY ValidatorsInvariant, <1>1, PTL

\* Write-behind loses nothing, and WriteState leaves a database that the next
\* start can load, whatever crashes and failing syncs came before.
THEOREM WriteBehindIsSound == Spec => [](UnwrittenIsMarked /\ DiskLoads)
<1>1. VInv => UnwrittenIsMarked /\ DiskLoads
  BY DEF VInv
<1> QED
  BY ValidatorsInvariant, <1>1, PTL

\* CalculateUptime counts every period once.
THEOREM UptimeIsExact == Spec => []UptimeExact
<1>1. VInv => UptimeExact
  BY DEF VInv
<1> QED
  BY ValidatorsInvariant, <1>1, PTL

\* Neither pauses, tracking restarts nor syncs lower a persisted uptime.
THEOREM UptimeGrows == Spec => UptimeNeverShrinks
<1> DEFINE Kept1 == \A v \in ValidationIDs :
               running /\ running' /\ data[v] # None /\ data'[v] # None
                  => data'[v].up >= data[v].up
<1>1. VInv /\ [Next]_vars => [Kept1]_vars
  BY NextKeeps DEF Grows
<1> QED
  BY ValidatorsInvariant, <1>1, PTL DEF Spec, UptimeNeverShrinks
=============================================================================
