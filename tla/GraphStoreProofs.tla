-------------------------- MODULE GraphStoreProofs --------------------------
(***************************************************************************)
(* What the store's file holds, for any graph and however it grows, for    *)
(* any observers, crashes, lost saves, cancels, deletes and BaseExceptions.*)
(***************************************************************************)
EXTENDS GraphStore, TLAPS

Places == Using \cup {"down", "version", "drop", "create", "refused"}
Statuses == [Tasks -> TaskStatus \cup {None}]
Reads == [members : SUBSET Tasks, edges : SUBSET Edges, status : Statuses, result : Statuses]

-----------------------------------------------------------------------------
(* The constants.                                                          *)

LEMMA GraphFacts ==
    /\ Len(Order) \in Nat /\ DOMAIN Order = 1 .. Len(Order)
    /\ \A i \in DOMAIN Order : Order[i] \in Tasks
    /\ \A t \in Tasks : \E i \in DOMAIN Order : Order[i] = t
    /\ \A e \in Edges : e[1] \in Tasks /\ e[2] \in Tasks
    /\ None \notin TaskStatus /\ None \notin Tasks /\ None # Current
  BY GraphAssumption

\* A graph is closed under its dependencies.
LEMMA SubgraphFacts ==
    ASSUME NEW S \in Graphs
    PROVE  /\ S \in SUBSET Tasks /\ EdgesOf(S) \subseteq Edges
           /\ \A e \in EdgesOf(S) : e[1] \in S /\ e[2] \in S
           /\ EdgesOf(S) \subseteq S \X S
  BY GraphAssumption DEF Graphs, EdgesOf

LEMMA TableFacts ==
    /\ Len(Tables) = 3 /\ DOMAIN Tables = 1 .. 3
    /\ Tables[1] = "metadata" /\ Tables[2] = "tasks" /\ Tables[3] = "graphs"
    /\ AllTables = {"metadata", "tasks", "graphs"}
  BY DEF Tables, AllTables

LEMMA NothingFacts ==
    /\ Nothing \in Statuses
    /\ \A t \in Tasks : Nothing[t] = None
    /\ Unread \in Reads
  BY DEF Nothing, Unread, Reads, Statuses

\* An empty table is Nothing.
LEMMA EmptyIsNothing ==
    ASSUME NEW f \in Statuses, \A t \in Tasks : f[t] = None
    PROVE  f = Nothing
  BY DEF Nothing, Statuses

LEMMA RunnerIsOne == Runner \in Procs /\ Destructive \subseteq {Runner}
  BY ProcessesAssumption DEF Procs

\* What RowsFollow says of the rows and the runner's tasks.
RowsLive == RowsKept /\ RowsOrdered /\ LiveOrdered /\ LiveSaved

-----------------------------------------------------------------------------
(* Steps of one process, and what they leave of the others.                *)

Elsewhere(p) ==
    \A o \in Procs \ {p} :
        pc'[o] = pc[o] /\ pos'[o] = pos[o] /\ target'[o] = target[o] /\ got'[o] = got[o]

LEMMA Stepped ==
    ASSUME TypeOK, NEW p \in Procs, NEW where \in Places, NEW n \in Nat
    PROVE  /\ GoTo(p, where) => /\ pc' \in [Procs -> Places] /\ pc'[p] = where
                                /\ \A o \in Procs \ {p} : pc'[o] = pc[o]
           /\ StepTo(p, where, n) => /\ pc' \in [Procs -> Places] /\ pc'[p] = where
                                     /\ \A o \in Procs \ {p} : pc'[o] = pc[o] /\ pos'[o] = pos[o]
                                     /\ pos' \in [Procs -> Nat] /\ pos'[p] = n
  <1>1. pc \in [Procs -> Places] /\ pos \in [Procs -> Nat]
    BY DEF TypeOK, Places
  <1>2. GoTo(p, where) => /\ pc' \in [Procs -> Places] /\ pc'[p] = where
                          /\ \A o \in Procs \ {p} : pc'[o] = pc[o]
    BY <1>1 DEF GoTo
  <1>3. pos' = [pos EXCEPT ![p] = n] => /\ pos' \in [Procs -> Nat] /\ pos'[p] = n
                                        /\ \A o \in Procs \ {p} : pos'[o] = pos[o]
    BY <1>1
  <1> QED BY <1>2, <1>3 DEF StepTo

\* A process whose place and reads are as before has passed what it had passed.
LEMMA SamePassed ==
    ASSUME NEW o \in Procs, pc'[o] = pc[o], pos'[o] = pos[o]
    PROVE  Passed(o)' = Passed(o)
  BY DEF Passed

LEMMA SamePlace ==
    ASSUME NEW o \in Procs, PlaceOK(o), cancels # 0 => cancels' # 0,
           pc'[o] = pc[o], pos'[o] = pos[o], target'[o] = target[o], got'[o] = got[o],
           version' = version \/ version' \in {None, Current},
           pc[o] \in Cancelling => version' = Current
    PROVE  PlaceOK(o)'
  <1>1. Passed(o)' = Passed(o)
    BY SamePassed
  <1> QED BY <1>1 DEF PlaceOK, Using, Loading, Cancelling, Member

LEMMA SameReads ==
    ASSUME NEW o \in Procs, ReadsWhole(o), pc'[o] = pc[o], got'[o] = got[o],
           deletes' = 0 => deletes = 0 /\ (graphRow => graphRow') /\ members \subseteq members',
           o = Runner /\ pc[o] # "open" => members' = members
    PROVE  ReadsWhole(o)'
  BY DEF ReadsWhole, Loading

\* What one process read does not concern the others.
LEMMA OwnStep ==
    ASSUME StoreInv, NEW p \in Procs, Elsewhere(p), TypeOK',
           UNCHANGED <<schemaVars, dataVars, runVars, failures, deletes, escapes>>,
           cancels # 0 => cancels' # 0,
           pc[p] \in Using, pc'[p] \in Using,
           PlaceOK(p)', ReadsWhole(p)',
           pc'[p] \in Cancelling => pc[Runner] # "drop",
           p = Runner /\ phase # "none" => pc'[p] = "open",
           p = Runner /\ failures = 0 /\ cancels = 0 /\ deletes = 0 => RunnerReads'
    PROVE  StoreInv'
  <1> USE RunnerIsOne DEF StoreInv, schemaVars, dataVars, runVars
  <1>1. Integrity'
    BY DEF Integrity
  <1>2. SchemaOK'
    <2>1. pc'[Runner] = "drop" => pc[Runner] = "drop" /\ p # Runner
      BY DEF Elsewhere, Using
    <2>2. \A o \in Procs : pc'[o] \in Cancelling => pc[o] \in Cancelling \/ pc[Runner] # "drop"
      BY DEF Elsewhere
    <2>3. pc'[Runner] \in Using => pc[Runner] \in Using
      BY DEF Elsewhere
    <2> QED BY <2>1, <2>2, <2>3 DEF SchemaOK
  <1>3. RunnerOK'
    BY DEF RunnerOK, Elsewhere
  <1>4. SavedWhole'
    BY DEF SavedWhole
  <1>5. RowsFollow'
    <2> SUFFICES ASSUME failures = 0, cancels = 0, deletes = 0
                 PROVE  RowsLive' /\ RunnerReads'
      BY DEF RowsFollow, RowsLive
    <2>1. RowsLive'
      BY DEF RowsFollow, RowsLive, RowsKept, RowsOrdered, LiveOrdered, LiveSaved, Inactive
    <2>2. CASE p = Runner
      BY <2>1, <2>2
    <2>3. CASE p # Runner
      <3>1. Passed(Runner)' = Passed(Runner)
        BY <2>3, SamePassed DEF Elsewhere
      <3> QED BY <2>1, <2>3, <3>1 DEF RowsFollow, RunnerReads, Elsewhere
    <2> QED BY <2>2, <2>3
  <1>6. ASSUME NEW o \in Procs PROVE PlaceOK(o)' /\ ReadsWhole(o)'
    <2>1. CASE o = p
      BY <2>1
    <2>2. CASE o # p
      <3>1. PlaceOK(o)'
        BY <2>2, SamePlace DEF Elsewhere, PlaceOK
      <3> QED BY <2>2, <3>1, SameReads DEF Elsewhere
    <2> QED BY <2>1, <2>2
  <1> QED BY <1>1, <1>2, <1>3, <1>4, <1>5, <1>6

-----------------------------------------------------------------------------
LEMMA InitInv == Init => StoreInv
  <1> SUFFICES ASSUME Init PROVE StoreInv
    OBVIOUS
  <1> USE RunnerIsOne, NothingFacts
  <1>1. TypeOK
    <2>1. tables \subseteq AllTables /\ version \in Versions \cup {None, Current}
      BY DEF Init
    <2>2. /\ live \in [Tasks -> TaskStatus] /\ worker \in [Tasks -> {"none"}]
          /\ got \in [Procs -> Reads] /\ row \in Statuses /\ result \in Statuses
          /\ liveResult \in Statuses
      BY DEF Init, TaskStatus
    <2>3. pc \in [Procs -> {"down"}] /\ pos \in [Procs -> {1}] /\ target \in [Procs -> {None}]
      BY DEF Init
    <2>4. {runs, crashes, failures, cancels, deletes, escapes} \subseteq Nat
      BY DEF Init
    <2>5. graphRow \in BOOLEAN /\ members = {} /\ edges = {} /\ phase = "none" /\ graph = {}
          /\ inFlight = {}
      BY DEF Init
    <2> QED BY <2>1, <2>2, <2>3, <2>4, <2>5 DEF TypeOK, Reads, Statuses
  <1>2. Integrity
    BY <1>1 DEF Init, Integrity
  <1>3. SchemaOK
    BY TableFacts DEF Init, SchemaOK, Using
  <1>4. RunnerOK /\ SavedWhole
    BY DEF Init, RunnerOK, SavedWhole
  <1>5. RowsFollow
    <2>1. \A t \in Tasks : row[t] \notin Begun /\ row[t] # "running"
      BY GraphFacts DEF Init, Begun, TaskStatus
    <2>2. RowsOrdered
      BY <2>1, GraphFacts DEF RowsOrdered
    <2>3. RowsKept /\ LiveOrdered /\ LiveSaved /\ RunnerReads
      BY DEF Init, RowsKept, LiveOrdered, LiveSaved, RunnerReads, Loading
    <2> QED BY <2>2, <2>3 DEF RowsFollow
  <1>6. \A p \in Procs : PlaceOK(p) /\ ReadsWhole(p)
    BY DEF Init, PlaceOK, ReadsWhole, Using, Loading, Cancelling
  <1> QED BY <1>2, <1>3, <1>4, <1>5, <1>6 DEF StoreInv

-----------------------------------------------------------------------------
(* Opening.                                                                *)

\* Nothing but the schema and the place of the opener changes: what is dropped is empty.
Opens(p, where, n) ==
    /\ StepTo(p, where, n)
    /\ pc[p] \in {"down", "version", "drop", "create"}
    /\ where \in {"version", "drop", "create", "open", "refused"} /\ n \in 1 .. 4
    /\ where = "drop" => n \in 1 .. 3 /\ p = Runner
    /\ where = "drop" => row = Nothing /\ ~graphRow /\ \A o \in Procs : pc[o] \notin Cancelling
    /\ where \in {"create", "open"} => version' \in {None, Current}
    /\ where = "open" => version' = Current
    /\ tables' \subseteq AllTables
    /\ version' # None => "metadata" \in tables'
    /\ \/ version' = version
       \/ version = None /\ version' = Current
       \/ version' = None /\ pc[Runner] = "drop" /\ p = Runner

LEMMA OpenSteps ==
    ASSUME StoreInv, NEW p \in Procs, Open(p)
    PROVE  /\ UNCHANGED <<dataVars, target, got, runVars, bounds>>
           /\ \E where \in Places, n \in Nat : Opens(p, where, n)
  <1> USE RunnerIsOne
  <1>0. /\ \A o \in Procs : pc[o] \in Cancelling => o # Runner /\ version = Current
        /\ tables \subseteq AllTables
        /\ version # None => "metadata" \in tables
        /\ graphRow \/ row # Nothing => version = Current
        /\ None # Current /\ graphRow \in BOOLEAN
    BY GraphFacts DEF StoreInv, Integrity, PlaceOK, TypeOK, SchemaOK
  <1>1. CASE LookAtTables(p)
    <2>1. UNCHANGED <<tables, version>> /\ pc[p] = "down"
      BY <1>1 DEF LookAtTables, schemaVars
    <2>2. \/ tables = {} /\ StepTo(p, "create", 1)
          \/ StepTo(p, "version", 1)
          \/ "metadata" \notin tables /\ p = Runner /\ StepTo(p, "drop", 3)
          \/ StepTo(p, "refused", 1)
      BY <1>1, TableFacts DEF LookAtTables
    <2>3. "metadata" \notin tables => version = None /\ row = Nothing /\ ~graphRow
                                      /\ \A o \in Procs : pc[o] \notin Cancelling
      BY <1>0
    <2>4. CASE tables = {} /\ StepTo(p, "create", 1)
      <3>1. Opens(p, "create", 1)
        BY <1>0, <2>1, <2>3, <2>4 DEF Opens
      <3> QED BY <1>1, <3>1 DEF LookAtTables, Places
    <2>5. CASE StepTo(p, "version", 1)
      <3>1. Opens(p, "version", 1)
        BY <1>0, <2>1, <2>5 DEF Opens
      <3> QED BY <1>1, <3>1 DEF LookAtTables, Places
    <2>6. CASE "metadata" \notin tables /\ p = Runner /\ StepTo(p, "drop", 3)
      <3>1. Opens(p, "drop", 3)
        BY <1>0, <2>1, <2>3, <2>6 DEF Opens
      <3> QED BY <1>1, <3>1 DEF LookAtTables, Places
    <2>7. CASE StepTo(p, "refused", 1)
      <3>1. Opens(p, "refused", 1)
        BY <1>0, <2>1, <2>7 DEF Opens
      <3> QED BY <1>1, <3>1 DEF LookAtTables, Places
    <2> QED BY <2>2, <2>4, <2>5, <2>6, <2>7
  <1>2. CASE LookAtVersion(p)
    <2>1. UNCHANGED <<tables, version>> /\ pc[p] = "version"
      BY <1>2 DEF LookAtVersion, schemaVars
    <2>2. \/ version = Current /\ StepTo(p, "create", 1)
          \/ version # Current /\ p = Runner /\ StepTo(p, "drop", 3)
          \/ StepTo(p, "refused", 1)
      BY <1>2, TableFacts DEF LookAtVersion, Accepted
    <2>3. version # Current => row = Nothing /\ ~graphRow
                               /\ \A o \in Procs : pc[o] \notin Cancelling
      BY <1>0
    <2>4. CASE version = Current /\ StepTo(p, "create", 1)
      <3>1. Opens(p, "create", 1)
        BY <1>0, <2>1, <2>4 DEF Opens
      <3> QED BY <1>2, <3>1 DEF LookAtVersion, Places
    <2>5. CASE version # Current /\ p = Runner /\ StepTo(p, "drop", 3)
      <3>1. Opens(p, "drop", 3)
        BY <1>0, <2>1, <2>3, <2>5 DEF Opens
      <3> QED BY <1>2, <3>1 DEF LookAtVersion, Places
    <2>6. CASE StepTo(p, "refused", 1)
      <3>1. Opens(p, "refused", 1)
        BY <1>0, <2>1, <2>6 DEF Opens
      <3> QED BY <1>2, <3>1 DEF LookAtVersion, Places
    <2> QED BY <2>2, <2>4, <2>5, <2>6
  <1>3. CASE DropTable(p)
    <2>1. /\ pc[p] = "drop" /\ p = Runner /\ pos[p] \in 1 .. 3
          /\ row = Nothing /\ ~graphRow /\ \A o \in Procs : pc[o] \notin Cancelling
      BY <1>3, TableFacts DEF DropTable, StoreInv, SchemaOK, PlaceOK
    <2>2. result = Nothing /\ members = {} /\ edges = {}
      <3>1. members = {} /\ edges = {}
        BY <2>1, NothingFacts DEF StoreInv, Integrity, TypeOK
      <3>2. result \in Statuses /\ \A t \in Tasks : result[t] = None
        BY <2>1, NothingFacts DEF StoreInv, Integrity, TypeOK, Statuses
      <3> QED BY <3>1, <3>2, EmptyIsNothing
    <2>3. UNCHANGED dataVars
      BY <1>3, <2>1, <2>2 DEF DropTable, dataVars, StoreInv, Integrity, TypeOK
    <2>4. /\ tables' = tables \ {Tables[pos[p]]}
          /\ version' = IF Tables[pos[p]] = "metadata" THEN None ELSE version
          /\ UNCHANGED <<target, got, runVars, bounds>>
          /\ IF pos[p] = 1 THEN StepTo(p, "create", 1) ELSE StepTo(p, "drop", pos[p] - 1)
      BY <1>3 DEF DropTable
    <2>5. /\ tables' \subseteq AllTables
          /\ version' # None => "metadata" \in tables'
          /\ \/ version' = version
             \/ version' = None /\ pc[Runner] = "drop" /\ p = Runner
      BY <1>0, <2>1, <2>4, TableFacts
    <2>6. CASE pos[p] = 1
      <3>1. Opens(p, "create", 1)
        BY <2>1, <2>4, <2>5, <2>6, TableFacts DEF Opens
      <3> QED BY <2>3, <2>4, <3>1 DEF Places
    <2>7. CASE pos[p] # 1
      <3>1. pos[p] - 1 \in 1 .. 3 /\ pos[p] - 1 \in 1 .. 4 /\ pos[p] - 1 \in Nat
        BY <2>1, <2>7
      <3>2. Opens(p, "drop", pos[p] - 1)
        BY <2>1, <2>4, <2>5, <2>7, <3>1 DEF Opens
      <3> QED BY <2>3, <2>4, <3>1, <3>2 DEF Places
    <2> QED BY <2>6, <2>7
  <1>4. CASE CreateTable(p)
    <2>1. /\ pc[p] = "create" /\ pos[p] \in 1 .. 3 /\ version \in {None, Current}
          /\ Tables[pos[p]] \in AllTables
      BY <1>4, TableFacts DEF CreateTable, StoreInv, PlaceOK
    <2>2. pos[p] + 1 \in 1 .. 4 /\ pos[p] + 1 \in Nat
      BY <2>1
    <2>3. Opens(p, "create", pos[p] + 1)
      BY <1>0, <1>4, <2>1, <2>2 DEF Opens, CreateTable
    <2> QED BY <1>4, <2>2, <2>3 DEF CreateTable, Places
  <1>5. CASE Stamp(p)
    <2>1. pc[p] = "create" /\ version \in {None, Current} /\ UNCHANGED tables
      BY <1>5 DEF Stamp, StoreInv, PlaceOK
    <2>2. CASE "metadata" \in tables
      <3>1. version' = Current /\ StepTo(p, "open", 1)
        BY <1>0, <1>5, <2>1, <2>2 DEF Stamp
      <3>2. Opens(p, "open", 1)
        BY <1>0, <2>1, <2>2, <3>1 DEF Opens
      <3>3. UNCHANGED <<dataVars, target, got, runVars, bounds>>
        BY <1>5 DEF Stamp
      <3> QED BY <3>2, <3>3 DEF Places, Using
    <2>3. CASE "metadata" \notin tables
      <3>1. version' = version /\ StepTo(p, "refused", 1)
        BY <1>5, <2>3 DEF Stamp
      <3>2. Opens(p, "refused", 1)
        BY <1>0, <2>1, <2>3, <3>1 DEF Opens
      <3> QED BY <1>5, <3>2 DEF Stamp, Places
    <2> QED BY <2>2, <2>3
  <1> QED BY <1>1, <1>2, <1>3, <1>4, <1>5 DEF Open

LEMMA OpenInv ==
    ASSUME StoreInv, NEW p \in Procs, Open(p)
    PROVE  StoreInv'
  <1> USE RunnerIsOne
  <1>0. UNCHANGED <<dataVars, target, got, runVars, bounds>>
    BY OpenSteps
  <1>1. PICK where \in Places, n \in Nat : Opens(p, where, n)
    BY OpenSteps
  <1>2. TypeOK /\ where \in Places
    BY <1>1 DEF StoreInv, Integrity, Opens, Places, Using
  <1>3. /\ pc' \in [Procs -> Places] /\ pc'[p] = where /\ pos' \in [Procs -> Nat] /\ pos'[p] = n
        /\ \A o \in Procs \ {p} : pc'[o] = pc[o] /\ pos'[o] = pos[o]
    BY <1>1, <1>2, Stepped DEF Opens
  <1>4. version' = version \/ version' \in {None, Current}
    BY <1>1 DEF Opens
  <1>5. TypeOK'
    BY <1>0, <1>1, <1>2, <1>3, <1>4 DEF TypeOK, Opens, Places, dataVars, runVars, bounds
  <1>6. \A o \in Procs : pc'[o] \in Cancelling => pc[o] \in Cancelling /\ o # p
    BY <1>1, <1>3 DEF Opens, Cancelling
  <1>7. \A o \in Procs : pc[o] \in Cancelling => version = Current /\ pc[Runner] # "drop"
    BY DEF StoreInv, PlaceOK, SchemaOK
  <1>8. Integrity'
    BY <1>0, <1>5 DEF StoreInv, Integrity, dataVars
  <1>9. SchemaOK'
    <2>1. version' # None => "metadata" \in tables'
      BY <1>1 DEF Opens
    <2>2. graphRow' \/ row' # Nothing => version' = Current
      BY <1>0, <1>1, GraphFacts DEF Opens, StoreInv, SchemaOK, dataVars
    <2>3. pc'[Runner] \in Using => version' = Current
      BY <1>1, <1>3, GraphFacts DEF Opens, StoreInv, SchemaOK, Using
    <2>4. pc'[Runner] = "drop" =>
             row' = Nothing /\ ~graphRow' /\ \A o \in Procs : pc'[o] \notin Cancelling
      BY <1>0, <1>1, <1>3, <1>6 DEF Opens, StoreInv, SchemaOK, dataVars
    <2> QED BY <2>1, <2>2, <2>3, <2>4 DEF SchemaOK
  <1>10. RunnerOK' /\ SavedWhole'
    <2>1. p = Runner => phase = "none"
      BY <1>1 DEF Opens, StoreInv, RunnerOK
    <2>2. RunnerOK'
      BY <1>0, <1>3, <2>1 DEF StoreInv, RunnerOK, runVars, bounds
    <2> QED BY <1>0, <2>2 DEF StoreInv, SavedWhole, dataVars, runVars, bounds
  <1>11. RowsFollow'
    <2> SUFFICES ASSUME failures = 0, cancels = 0, deletes = 0
                 PROVE  RowsLive' /\ RunnerReads'
      BY <1>0 DEF RowsFollow, RowsLive, bounds
    <2>1. RowsLive'
      BY <1>0 DEF StoreInv, RowsFollow, RowsLive, RowsKept, RowsOrdered, LiveOrdered, LiveSaved,
                  Inactive, dataVars, runVars, bounds
    <2>2. CASE p = Runner
      BY <1>1, <1>3, <2>1, <2>2 DEF RunnerReads, Opens, Loading
    <2>3. CASE p # Runner
      <3>1. Passed(Runner)' = Passed(Runner)
        BY <1>3, <2>3, SamePassed
      <3> QED BY <1>0, <1>3, <2>1, <2>3, <3>1 DEF StoreInv, RowsFollow, RunnerReads, dataVars
    <2> QED BY <2>2, <2>3
  <1>12. ASSUME NEW o \in Procs PROVE PlaceOK(o)' /\ ReadsWhole(o)'
    <2>1. CASE o = p
      <3>1. n \in 1 .. 4 /\ (where = "drop" => n \in 1 .. 3 /\ p = Runner)
        BY <1>1 DEF Opens
      <3>2. PlaceOK(p)'
        BY <1>1, <1>3, <3>1, TableFacts DEF PlaceOK, Opens, Using, Loading, Cancelling
      <3>3. ReadsWhole(p)'
        BY <1>1, <1>3 DEF ReadsWhole, Opens, Loading
      <3> QED BY <2>1, <3>2, <3>3
    <2>2. CASE o # p
      <3>1. pc'[o] = pc[o] /\ pos'[o] = pos[o] /\ target'[o] = target[o] /\ got'[o] = got[o]
        BY <1>0, <1>3, <2>2
      <3>2. pc[o] \in Cancelling => version' = Current
        BY <1>1, <1>7, GraphFacts DEF Opens
      <3>3. PlaceOK(o)'
        BY <1>0, <1>4, <3>1, <3>2, SamePlace DEF StoreInv, bounds
      <3> QED BY <1>0, <3>1, <3>3, SameReads DEF StoreInv, bounds, dataVars
    <2> QED BY <2>1, <2>2
  <1> QED BY <1>8, <1>9, <1>10, <1>11, <1>12 DEF StoreInv

-----------------------------------------------------------------------------
(* Loading.                                                                *)

\* What NextMember leaves to be loaded is what the load has not passed.
LEMMA NextPlace ==
    ASSUME TypeOK, NEW p \in Procs, NEW n \in Nat, n > 0, NEW seen, NextMember(p, n, seen)
    PROVE  /\ pc' \in [Procs -> Places] /\ pos' \in [Procs -> Nat]
           /\ \A o \in Procs \ {p} : pc'[o] = pc[o] /\ pos'[o] = pos[o]
           /\ pc'[p] \in {"row", "loaded"}
           /\ pc'[p] = "row" => pos'[p] \in DOMAIN Order /\ Order[pos'[p]] \in seen
           /\ \A i \in Passed(p)' : i < n \/ Order[i] \notin seen
  <1> USE GraphFacts
  <1>1. "row" \in Places /\ "loaded" \in Places
    BY DEF Places, Using
  <1>2. CASE \E i \in n .. Len(Order) :
                /\ Order[i] \in seen
                /\ \A j \in n .. i - 1 : Order[j] \notin seen
                /\ StepTo(p, "row", i)
    <2>1. PICK i \in n .. Len(Order) :
                /\ Order[i] \in seen
                /\ \A j \in n .. i - 1 : Order[j] \notin seen
                /\ StepTo(p, "row", i)
      BY <1>2
    <2>2. i \in Nat /\ i \in DOMAIN Order
      OBVIOUS
    <2>3. /\ pc' \in [Procs -> Places] /\ pos' \in [Procs -> Nat]
          /\ pc'[p] = "row" /\ pos'[p] = i
          /\ \A o \in Procs \ {p} : pc'[o] = pc[o] /\ pos'[o] = pos[o]
      BY <1>1, <2>1, <2>2, Stepped
    <2>4. \A j \in Passed(p)' : j \in Nat /\ (j < n \/ j \in n .. i - 1)
      BY <2>2, <2>3 DEF Passed
    <2> QED BY <2>1, <2>2, <2>3, <2>4
  <1>3. CASE /\ \A i \in n .. Len(Order) : Order[i] \notin seen
             /\ StepTo(p, "loaded", 1)
    <2>1. /\ pc' \in [Procs -> Places] /\ pos' \in [Procs -> Nat] /\ pc'[p] = "loaded"
          /\ \A o \in Procs \ {p} : pc'[o] = pc[o] /\ pos'[o] = pos[o]
      BY <1>1, <1>3, Stepped
    <2>2. \A j \in Passed(p)' : j < n \/ j \in n .. Len(Order)
      BY DEF Passed
    <2> QED BY <1>3, <2>1, <2>2
  <1> QED BY <1>2, <1>3 DEF NextMember

\* What every step of a load leaves alone, and where the runner's graph is meanwhile.
LEMMA LoadFrame ==
    ASSUME StoreInv, NEW p \in Procs, Load(p)
    PROVE  /\ UNCHANGED <<schemaVars, dataVars, target, runVars, bounds>>
           /\ pc[p] \in Using \ {"cancelRow", "cancelResult", "cancelSave"}
           /\ p = Runner => phase = "none"
  BY DEF Load, LoadGraph, LoadMembers, LoadEdges, LoadRow, LoadResult, LoadDeps, Discard,
         Using, StoreInv, RunnerOK

LEMMA LoadType ==
    ASSUME TypeOK, NEW p \in Procs, NEW r,
           UNCHANGED <<schemaVars, dataVars, target, runVars, bounds>>,
           pc' \in [Procs -> Places], pos' \in [Procs -> Nat],
           \A o \in Procs \ {p} : pc'[o] = pc[o] /\ pos'[o] = pos[o],
           got' = [got EXCEPT ![p] = r], r \in Reads
    PROVE  TypeOK' /\ Elsewhere(p) /\ got'[p] = r
  <1>1. got' \in [Procs -> Reads] /\ got'[p] = r /\ \A o \in Procs \ {p} : got'[o] = got[o]
    BY DEF TypeOK, Reads, Statuses
  <1>2. Elsewhere(p)
    BY <1>1 DEF Elsewhere
  <1> QED BY <1>1, <1>2 DEF TypeOK, Reads, Statuses, Places, schemaVars, dataVars, runVars, bounds

LEMMA LoadInv ==
    ASSUME StoreInv, NEW p \in Procs, Load(p)
    PROVE  StoreInv'
  <1> USE RunnerIsOne, GraphFacts
  <1> DEFINE Quiet == failures = 0 /\ cancels = 0 /\ deletes = 0
  <1>0. /\ UNCHANGED <<schemaVars, dataVars, target, runVars, bounds>>
        /\ pc[p] \in Using \ {"cancelRow", "cancelResult", "cancelSave"}
        /\ p = Runner => phase = "none"
    BY LoadFrame
  <1>1. /\ TypeOK /\ PlaceOK(p) /\ ReadsWhole(p) /\ SavedWhole /\ version \in {None, Current}
        /\ UNCHANGED <<version, graphRow, row, members, edges, deletes, cancels, failures>>
        /\ got[p] \in Reads /\ got[p].members \subseteq Tasks
        /\ got[p].status \in Statuses /\ pos[p] \in Nat /\ pos \in [Procs -> Nat]
    BY <1>0 DEF StoreInv, Integrity, TypeOK, PlaceOK, Reads, Statuses, schemaVars, dataVars, bounds
  <1>2. Quiet /\ p = Runner => RunnerReads
    BY DEF StoreInv, RowsFollow
  <1>3. SUFFICES /\ TypeOK' /\ Elsewhere(p) /\ PlaceOK(p)' /\ ReadsWhole(p)'
                 /\ pc'[p] \in Using \ Cancelling
                 /\ Quiet /\ p = Runner => RunnerReads'
    BY <1>0, <1>1, OwnStep DEF bounds
  <1>4. CASE LoadGraph(p)
    <2>1. graphRow /\ GoTo(p, "members") /\ pos' = pos /\ got' = [got EXCEPT ![p] = Unread]
      BY <1>4 DEF LoadGraph
    <2>2. /\ pc' \in [Procs -> Places] /\ pc'[p] = "members"
          /\ \A o \in Procs \ {p} : pc'[o] = pc[o]
      BY <1>1, <2>1, Stepped DEF Places, Using
    <2>3. TypeOK' /\ Elsewhere(p)
      BY <1>0, <1>1, <2>1, <2>2, LoadType, NothingFacts DEF TypeOK
    <2> QED BY <1>1, <2>1, <2>2, <2>3
            DEF PlaceOK, ReadsWhole, RunnerReads, Using, Loading, Cancelling
  <1>5. CASE LoadMembers(p)
    <2> DEFINE r == [got[p] EXCEPT !.members = members]
    <2>1. /\ pc[p] = "members" /\ GoTo(p, "edges") /\ pos' = pos
          /\ got' = [got EXCEPT ![p] = r]
      BY <1>5 DEF LoadMembers
    <2>2. /\ pc' \in [Procs -> Places] /\ pc'[p] = "edges"
          /\ \A o \in Procs \ {p} : pc'[o] = pc[o]
      BY <1>1, <2>1, Stepped DEF Places, Using
    <2>3. r \in Reads /\ r.members = members
      BY <1>1 DEF TypeOK, Reads
    <2> HIDE DEF r
    <2>4. TypeOK' /\ Elsewhere(p) /\ got'[p] = r
      <3>1. TypeOK /\ pos' \in [Procs -> Nat] /\ \A o \in Procs \ {p} : pos'[o] = pos[o]
        BY <1>1, <2>1
      <3> QED BY <1>0, <1>1, <2>1, <2>2, <2>3, <3>1, LoadType
    <2> QED BY <1>1, <2>1, <2>2, <2>3, <2>4
            DEF PlaceOK, ReadsWhole, SavedWhole, RunnerReads, Using, Loading, Cancelling
  <1>6. CASE LoadEdges(p)
    <2> DEFINE r == [got[p] EXCEPT !.edges = edges]
    <2>1. pc[p] = "edges" /\ got' = [got EXCEPT ![p] = r] /\ r \in Reads
      BY <1>1, <1>6 DEF LoadEdges, TypeOK, Reads
    <2>2. r.members = got[p].members /\ r.edges = edges /\ r.status = got[p].status
      BY <1>1 DEF Reads
    <2>3. CASE \E e \in edges : e[1] \notin got[p].members
      <3>1. StepTo(p, "missing", 1)
        BY <1>6, <2>3 DEF LoadEdges
      <3>2. /\ pc' \in [Procs -> Places] /\ pos' \in [Procs -> Nat] /\ pc'[p] = "missing"
            /\ \A o \in Procs \ {p} : pc'[o] = pc[o] /\ pos'[o] = pos[o]
        BY <1>1, <3>1, Stepped DEF Places, Using
      <3>3. TypeOK' /\ Elsewhere(p) /\ got'[p] = r
        BY <1>0, <1>1, <2>1, <3>2, LoadType
      <3>4. deletes = 0 => got[p].members # members
        BY <1>1, <2>1, <2>3 DEF ReadsWhole, SavedWhole, EdgesOf
      <3>5. ReadsWhole(p)'
        BY <1>1, <2>1, <2>2, <3>2, <3>3, <3>4 DEF ReadsWhole, Loading
      <3> QED BY <1>1, <3>2, <3>3, <3>5
              DEF PlaceOK, RunnerReads, Using, Loading, Cancelling
    <2>4. CASE ~ \E e \in edges : e[1] \notin got[p].members
      <3>1. NextMember(p, 1, got[p].members)
        BY <1>6, <2>4 DEF LoadEdges
      <3>2. /\ pc' \in [Procs -> Places] /\ pos' \in [Procs -> Nat]
            /\ \A o \in Procs \ {p} : pc'[o] = pc[o] /\ pos'[o] = pos[o]
            /\ pc'[p] \in {"row", "loaded"}
            /\ pc'[p] = "row" => pos'[p] \in DOMAIN Order /\ Order[pos'[p]] \in got[p].members
            /\ \A i \in Passed(p)' : i < 1 \/ Order[i] \notin got[p].members
        BY <1>1, <3>1, NextPlace
      <3>3. TypeOK' /\ Elsewhere(p) /\ got'[p] = r
        BY <1>0, <1>1, <2>1, <3>2, LoadType
      <3>4. \A i \in Passed(p)' : i \in DOMAIN Order /\ Order[i] \notin got[p].members
        BY <3>2 DEF Passed
      <3>5. PlaceOK(p)'
        BY <1>1, <2>2, <3>2, <3>3, <3>4 DEF PlaceOK, Using, Loading, Cancelling, Member
      <3>6. ReadsWhole(p)'
        <4>1. ASSUME deletes = 0 PROVE edges = EdgesOf(got[p].members)
          <5>1. edges = EdgesOf(members) /\ got[p].members \subseteq members
            BY <1>1, <2>1, <4>1 DEF ReadsWhole, SavedWhole
          <5> QED BY <2>4, <5>1 DEF EdgesOf
        <4> QED BY <1>1, <2>1, <2>2, <3>2, <3>3, <4>1 DEF ReadsWhole, Loading
      <3>7. Quiet /\ p = Runner => got[p].members = members
        BY <1>1, <2>1 DEF ReadsWhole
      <3>8. Quiet /\ p = Runner => RunnerReads'
        BY <1>1, <3>4, <3>7 DEF RunnerReads
      <3> QED BY <3>2, <3>3, <3>5, <3>6, <3>8 DEF Using, Cancelling
    <2> QED BY <2>3, <2>4
  <1>7. CASE LoadRow(p)
    <2>1. pc[p] = "row" /\ pos' = pos /\ pos[p] \in DOMAIN Order /\ Member(p) \in Tasks
      BY <1>1, <1>7 DEF LoadRow, PlaceOK, Loading, Member
    <2>2. CASE row[Member(p)] = None
      <3>1. GoTo(p, "missing") /\ got' = got
        BY <1>7, <2>2 DEF LoadRow
      <3>2. /\ pc' \in [Procs -> Places] /\ pc'[p] = "missing"
            /\ \A o \in Procs \ {p} : pc'[o] = pc[o]
        BY <1>1, <3>1, Stepped DEF Places, Using
      <3>3. got' = [got EXCEPT ![p] = got[p]]
        BY <1>1, <3>1 DEF TypeOK
      <3>4. TypeOK' /\ Elsewhere(p)
        BY <1>0, <1>1, <2>1, <3>2, <3>3, LoadType DEF TypeOK
      <3>5. deletes # 0
        <4>1. Member(p) \in got[p].members /\ (deletes = 0 => got[p].members \subseteq members)
          BY <1>1, <2>1 DEF PlaceOK, ReadsWhole, Loading
        <4> QED BY <2>1, <2>2, <4>1 DEF StoreInv, Integrity
      <3> QED BY <1>1, <3>2, <3>4, <3>5
              DEF PlaceOK, ReadsWhole, RunnerReads, Using, Loading, Cancelling
    <2>3. CASE row[Member(p)] # None
      <3> DEFINE r == [got[p] EXCEPT !.status = [got[p].status EXCEPT ![Member(p)] = row[Member(p)]]]
      <3>1. GoTo(p, "result") /\ got' = [got EXCEPT ![p] = r]
        BY <1>7, <2>3 DEF LoadRow
      <3>2. /\ pc' \in [Procs -> Places] /\ pc'[p] = "result"
            /\ \A o \in Procs \ {p} : pc'[o] = pc[o]
        BY <1>1, <3>1, Stepped DEF Places, Using
      <3>3. row[Member(p)] \in TaskStatus \cup {None}
        BY <1>1, <2>1 DEF TypeOK
      <3>4. /\ r \in Reads /\ r.members = got[p].members /\ r.edges = got[p].edges
            /\ \A t \in Tasks : r.status[t] = IF t = Member(p) THEN row[t] ELSE got[p].status[t]
        BY <1>1, <2>1, <3>3 DEF Reads, Statuses
      <3> HIDE DEF r
      <3>5. TypeOK' /\ Elsewhere(p) /\ got'[p] = r
        <4>1. TypeOK /\ pos' \in [Procs -> Nat] /\ \A o \in Procs \ {p} : pos'[o] = pos[o]
          BY <1>1, <2>1
        <4> QED BY <1>0, <1>1, <2>1, <3>1, <3>2, <3>4, <4>1, LoadType
      <3>6. \A i \in Passed(p)' : i \in DOMAIN Order /\ (i \in Passed(p) \/ Order[i] = Member(p))
        BY <1>1, <2>1, <3>2 DEF Passed, Member
      <3>7. PlaceOK(p)'
        BY <1>1, <2>1, <2>3, <3>2, <3>4, <3>5, <3>6 DEF PlaceOK, Using, Loading, Cancelling, Member
      <3>8. ReadsWhole(p)'
        BY <1>1, <2>1, <3>2, <3>4, <3>5 DEF ReadsWhole, Loading
      <3>9. Quiet /\ p = Runner => RunnerReads'
        BY <1>1, <1>2, <2>1, <3>2, <3>4, <3>5, <3>6 DEF RunnerReads, Loading
      <3> QED BY <3>2, <3>5, <3>7, <3>8, <3>9 DEF Using, Cancelling
    <2> QED BY <2>2, <2>3
  <1>8. CASE LoadResult(p)
    <2> DEFINE r == [got[p] EXCEPT !.result = [got[p].result EXCEPT ![Member(p)] = result[Member(p)]]]
    <2>1. /\ pc[p] = "result" /\ pos' = pos /\ pos[p] \in DOMAIN Order /\ Member(p) \in Tasks
          /\ GoTo(p, "deps") /\ got' = [got EXCEPT ![p] = r]
      BY <1>1, <1>8 DEF LoadResult, PlaceOK, Loading, Member
    <2>2. /\ pc' \in [Procs -> Places] /\ pc'[p] = "deps"
          /\ \A o \in Procs \ {p} : pc'[o] = pc[o]
      BY <1>1, <2>1, Stepped DEF Places, Using
    <2>3. result[Member(p)] \in TaskStatus \cup {None}
      BY <1>1, <2>1 DEF TypeOK
    <2>4. /\ r \in Reads /\ r.members = got[p].members /\ r.edges = got[p].edges
          /\ r.status = got[p].status
      BY <1>1, <2>3 DEF Reads, Statuses
    <2> HIDE DEF r
    <2>5. TypeOK' /\ Elsewhere(p) /\ got'[p] = r
      <3>1. TypeOK /\ pos' \in [Procs -> Nat] /\ \A o \in Procs \ {p} : pos'[o] = pos[o]
        BY <1>1, <2>1
      <3> QED BY <1>0, <1>1, <2>1, <2>2, <2>4, <3>1, LoadType
    <2>6. Passed(p)' = Passed(p)
      BY <2>1, <2>2 DEF Passed
    <2>7. PlaceOK(p)'
      BY <1>1, <2>1, <2>2, <2>4, <2>5, <2>6 DEF PlaceOK, Using, Loading, Cancelling, Member
    <2>8. ReadsWhole(p)'
      BY <1>1, <2>1, <2>2, <2>4, <2>5 DEF ReadsWhole, Loading
    <2>9. Quiet /\ p = Runner => RunnerReads'
      BY <1>1, <1>2, <2>1, <2>2, <2>4, <2>5, <2>6 DEF RunnerReads, Loading
    <2> QED BY <2>2, <2>5, <2>7, <2>8, <2>9 DEF Using, Cancelling
  <1>9. CASE LoadDeps(p)
    <2>1. pc[p] = "deps" /\ got' = got /\ pos[p] \in DOMAIN Order
      BY <1>1, <1>9 DEF LoadDeps, PlaceOK, Loading
    <2>2. got' = [got EXCEPT ![p] = got[p]]
      BY <1>1, <2>1 DEF TypeOK
    <2>3. CASE \E e \in got[p].edges : e[1] = Member(p) /\ row[e[2]] = None
      <3>1. StepTo(p, "missing", 1)
        BY <1>9, <2>3 DEF LoadDeps
      <3>2. /\ pc' \in [Procs -> Places] /\ pos' \in [Procs -> Nat] /\ pc'[p] = "missing"
            /\ \A o \in Procs \ {p} : pc'[o] = pc[o] /\ pos'[o] = pos[o]
        BY <1>1, <3>1, Stepped DEF Places, Using
      <3>3. TypeOK' /\ Elsewhere(p)
        BY <1>0, <1>1, <2>2, <3>2, LoadType
      <3>4. deletes # 0
        <4> SUFFICES ASSUME deletes = 0 PROVE FALSE
          OBVIOUS
        <4>1. /\ got[p].members \subseteq members /\ got[p].members \in Graphs
              /\ got[p].edges = EdgesOf(got[p].members)
          BY <1>1, <2>1 DEF ReadsWhole, Loading
        <4>2. \A e \in got[p].edges : e[2] \in members
          BY <4>1, SubgraphFacts
        <4> QED BY <2>3, <4>2 DEF StoreInv, Integrity
      <3> QED BY <1>1, <3>2, <3>3, <3>4
              DEF PlaceOK, ReadsWhole, RunnerReads, Using, Loading, Cancelling
    <2>4. CASE ~ \E e \in got[p].edges : e[1] = Member(p) /\ row[e[2]] = None
      <3>1. NextMember(p, pos[p] + 1, got[p].members)
        BY <1>9, <2>4 DEF LoadDeps
      <3>2. /\ pc' \in [Procs -> Places] /\ pos' \in [Procs -> Nat]
            /\ \A o \in Procs \ {p} : pc'[o] = pc[o] /\ pos'[o] = pos[o]
            /\ pc'[p] \in {"row", "loaded"}
            /\ pc'[p] = "row" => pos'[p] \in DOMAIN Order /\ Order[pos'[p]] \in got[p].members
            /\ \A i \in Passed(p)' : i < pos[p] + 1 \/ Order[i] \notin got[p].members
        <4>1. pos[p] + 1 \in Nat /\ pos[p] + 1 > 0
          BY <1>1
        <4> QED BY <1>1, <3>1, <4>1, NextPlace
      <3>3. TypeOK' /\ Elsewhere(p)
        BY <1>0, <1>1, <2>2, <3>2, LoadType
      <3>4. \A i \in Passed(p)' : i \in DOMAIN Order /\ (i \in Passed(p) \/ Order[i] \notin got[p].members)
        BY <1>1, <2>1, <3>2 DEF Passed
      <3>5. PlaceOK(p)'
        BY <1>1, <2>1, <3>2, <3>4 DEF PlaceOK, Using, Loading, Cancelling, Member
      <3>6. ReadsWhole(p)'
        BY <1>1, <2>1, <3>2 DEF ReadsWhole, Loading
      <3>7. Quiet /\ p = Runner => \A i \in Passed(p)' : i \in Passed(p) \/ Order[i] \notin members
        BY <1>1, <2>1, <3>4 DEF ReadsWhole, Loading
      <3>8. Quiet /\ p = Runner => RunnerReads'
        BY <1>1, <1>2, <2>1, <3>7 DEF RunnerReads, Loading
      <3> QED BY <3>2, <3>3, <3>5, <3>6, <3>8 DEF Using, Cancelling
    <2> QED BY <2>3, <2>4
  <1>10. CASE Discard(p)
    <2>1. StepTo(p, "open", 1) /\ got' = [got EXCEPT ![p] = Unread]
      BY <1>10 DEF Discard
    <2>2. /\ pc' \in [Procs -> Places] /\ pos' \in [Procs -> Nat] /\ pc'[p] = "open"
          /\ \A o \in Procs \ {p} : pc'[o] = pc[o] /\ pos'[o] = pos[o]
      BY <1>1, <2>1, Stepped DEF Places, Using
    <2>3. TypeOK' /\ Elsewhere(p)
      BY <1>0, <1>1, <2>1, <2>2, LoadType, NothingFacts
    <2> QED BY <1>1, <2>2, <2>3 DEF PlaceOK, ReadsWhole, RunnerReads, Using, Loading, Cancelling
  <1> QED BY <1>4, <1>5, <1>6, <1>7, <1>8, <1>9, <1>10 DEF Load
-----------------------------------------------------------------------------
(* The observers' other operations.                                        *)

LEMMA CancelReadInv ==
    ASSUME StoreInv, NEW p \in Procs, NEW t \in Tasks, CancelRead(p, t)
    PROVE  StoreInv'
  <1> USE RunnerIsOne, GraphFacts
  <1> DEFINE r == [got[p] EXCEPT !.status = [got[p].status EXCEPT ![t] = row[t]]]
  <1>1. /\ p # Runner /\ pc[p] = "open" /\ row[t] # None /\ GoTo(p, "cancelResult")
        /\ UNCHANGED <<schemaVars, dataVars, pos, runVars, runs, crashes, failures, deletes,
                       escapes>>
        /\ cancels' = cancels + 1 /\ target' = [target EXCEPT ![p] = t]
        /\ got' = [got EXCEPT ![p] = r]
    BY DEF CancelRead
  <1>2. TypeOK /\ PlaceOK(p) /\ row[t] \in TaskStatus /\ cancels \in Nat /\ got[p] \in Reads
    BY <1>1 DEF StoreInv, Integrity, TypeOK, Reads, Statuses
  <1>3. version = Current /\ pc[Runner] # "drop"
    BY <1>1, NothingFacts DEF StoreInv, SchemaOK
  <1>4. /\ pc' \in [Procs -> Places] /\ pc'[p] = "cancelResult"
        /\ \A o \in Procs \ {p} : pc'[o] = pc[o]
    BY <1>1, <1>2, Stepped DEF Places, Using
  <1>5. r \in Reads /\ r.status[t] = row[t]
    BY <1>2 DEF Reads, Statuses
  <1> HIDE DEF r
  <1>6. /\ got' \in [Procs -> Reads] /\ got'[p] = r /\ \A o \in Procs \ {p} : got'[o] = got[o]
        /\ target' \in [Procs -> Tasks \cup {None}] /\ target'[p] = t
        /\ \A o \in Procs \ {p} : target'[o] = target[o]
    BY <1>1, <1>2, <1>5 DEF TypeOK, Reads, Statuses
  <1>7. Elsewhere(p)
    BY <1>1, <1>4, <1>6 DEF Elsewhere
  <1>8. cancels' \in Nat /\ cancels' # 0
    BY <1>1, <1>2
  <1>9. TypeOK'
    BY <1>1, <1>2, <1>4, <1>6, <1>8
       DEF TypeOK, Reads, Statuses, Places, schemaVars, dataVars, runVars
  <1>10. PlaceOK(p)'
    BY <1>1, <1>2, <1>3, <1>4, <1>5, <1>6, <1>8
       DEF PlaceOK, Using, Loading, Cancelling, schemaVars
  <1>11. ReadsWhole(p)'
    BY <1>4 DEF ReadsWhole, Loading
  <1> QED BY <1>1, <1>3, <1>4, <1>7, <1>8, <1>9, <1>10, <1>11, OwnStep DEF Using

LEMMA CancelReadResultInv ==
    ASSUME StoreInv, NEW p \in Procs, CancelReadResult(p)
    PROVE  StoreInv'
  <1> USE RunnerIsOne, GraphFacts
  <1> DEFINE t == target[p]
             r == [got[p] EXCEPT !.result = [got[p].result EXCEPT ![t] = result[t]]]
  <1>1. /\ pc[p] = "cancelResult" /\ GoTo(p, "cancelSave") /\ got' = [got EXCEPT ![p] = r]
        /\ UNCHANGED <<schemaVars, dataVars, pos, target, runVars, bounds>>
    BY DEF CancelReadResult
  <1>2. /\ TypeOK /\ PlaceOK(p) /\ t \in Tasks /\ result[t] \in TaskStatus \cup {None}
        /\ p # Runner /\ got[p] \in Reads /\ pc[Runner] # "drop"
    BY <1>1 DEF StoreInv, Integrity, TypeOK, Reads, Statuses, PlaceOK, Cancelling, SchemaOK
  <1>3. r \in Reads /\ r.status = got[p].status
    BY <1>2 DEF Reads, Statuses
  <1> HIDE DEF r
  <1>4. /\ pc' \in [Procs -> Places] /\ pc'[p] = "cancelSave"
        /\ \A o \in Procs \ {p} : pc'[o] = pc[o]
    BY <1>1, <1>2, Stepped DEF Places, Using
  <1>5. TypeOK' /\ Elsewhere(p) /\ got'[p] = r
    <2>1. pos' \in [Procs -> Nat] /\ pos' = pos
      BY <1>1, <1>2 DEF TypeOK
    <2> QED BY <1>1, <1>2, <1>3, <1>4, <2>1, LoadType
  <1>6. PlaceOK(p)'
    BY <1>1, <1>2, <1>3, <1>4, <1>5 DEF PlaceOK, Using, Loading, Cancelling, schemaVars, bounds
  <1>7. ReadsWhole(p)'
    BY <1>4 DEF ReadsWhole, Loading
  <1> QED BY <1>1, <1>2, <1>4, <1>5, <1>6, <1>7, OwnStep DEF Using, bounds

LEMMA CancelSaveInv ==
    ASSUME StoreInv, NEW p \in Procs, CancelSave(p)
    PROVE  StoreInv'
  <1> USE RunnerIsOne, GraphFacts
  <1> DEFINE t == target[p]
  <1>1. /\ pc[p] = "cancelSave" /\ p # Runner /\ t \in Tasks /\ got[p].status[t] # None
        /\ cancels # 0 /\ version = Current /\ pc[Runner] # "drop"
        /\ got[p] \in Reads /\ TypeOK
    BY DEF CancelSave, StoreInv, Integrity, TypeOK, Reads, Statuses, PlaceOK, Cancelling, SchemaOK
  <1>2. /\ UNCHANGED <<schemaVars, graphRow, members, edges, pos, runVars, bounds>>
        /\ GoTo(p, "open") /\ target' = [target EXCEPT ![p] = None]
        /\ got' = [got EXCEPT ![p] = Unread]
    BY DEF CancelSave
  <1>3. /\ row' \in Statuses /\ result' \in Statuses
        /\ row'[t] # None /\ \A u \in Tasks \ {t} : row'[u] = row[u] /\ result'[u] = result[u]
    <2>1. got[p].status[t] \in TaskStatus /\ got[p].result[t] \in TaskStatus \cup {None}
      BY <1>1 DEF Reads, Statuses
    <2>2. row' = [row EXCEPT ![t] = IF IsSink(got[p].status[t]) THEN got[p].status[t] ELSE "cancelled"]
      BY DEF CancelSave
    <2>3. result' = [result EXCEPT ![t] = got[p].result[t]]
      BY DEF CancelSave
    <2>4. "cancelled" \in TaskStatus
      BY DEF TaskStatus
    <2> QED BY <1>1, <2>1, <2>2, <2>3, <2>4 DEF TypeOK, Statuses
  <1>4. /\ pc' \in [Procs -> Places] /\ pc'[p] = "open"
        /\ \A o \in Procs \ {p} : pc'[o] = pc[o]
    BY <1>1, <1>2, Stepped DEF Places, Using
  <1>5. /\ got' \in [Procs -> Reads] /\ \A o \in Procs \ {p} : got'[o] = got[o]
        /\ target' \in [Procs -> Tasks \cup {None}]
        /\ \A o \in Procs \ {p} : target'[o] = target[o]
    BY <1>1, <1>2, NothingFacts DEF TypeOK, Reads, Statuses
  <1>6. TypeOK'
    BY <1>1, <1>2, <1>3, <1>4, <1>5
       DEF TypeOK, Reads, Statuses, Places, schemaVars, runVars, bounds
  <1>7. Integrity'
    <2>1. \A u \in Tasks : /\ row[u] # None => row'[u] # None
                           /\ result'[u] # None => row'[u] # None
      BY <1>3 DEF StoreInv, Integrity
    <2> QED BY <1>1, <1>2, <1>6, <2>1 DEF StoreInv, Integrity, TypeOK
  <1>8. SchemaOK'
    BY <1>1, <1>2, <1>4 DEF StoreInv, SchemaOK, schemaVars
  <1>9. RunnerOK' /\ SavedWhole' /\ RowsFollow'
    BY <1>1, <1>2, <1>3, <1>4 DEF StoreInv, RunnerOK, SavedWhole, RowsFollow, runVars, bounds
  <1>10. ASSUME NEW o \in Procs PROVE PlaceOK(o)' /\ ReadsWhole(o)'
    <2>1. CASE o = p
      BY <1>1, <1>2, <1>4, <2>1 DEF PlaceOK, ReadsWhole, Using, Loading, Cancelling, schemaVars
    <2>2. CASE o # p
      <3>1. /\ pc'[o] = pc[o] /\ pos'[o] = pos[o] /\ target'[o] = target[o] /\ got'[o] = got[o]
            /\ UNCHANGED <<version, cancels, deletes, graphRow, members>>
        BY <1>2, <1>4, <1>5, <2>2 DEF schemaVars, bounds
      <3>2. PlaceOK(o)'
        BY <1>1, <3>1, SamePlace DEF StoreInv
      <3> QED BY <3>1, <3>2, SameReads DEF StoreInv
    <2> QED BY <2>1, <2>2
  <1> QED BY <1>7, <1>8, <1>9, <1>10 DEF StoreInv

\* What is deleted goes with all that refers to it; after that the rows promise nothing more.
LEMMA DeleteInv ==
    ASSUME StoreInv, NEW p \in Procs, Delete(p)
    PROVE  StoreInv'
  <1> USE RunnerIsOne, GraphFacts
  <1>1. UNCHANGED <<schemaVars, loadVars, runVars, runs, crashes, failures, cancels, escapes>>
    BY DEF Delete, DeleteTask, DeleteGraph
  <1>2. TypeOK /\ deletes' = deletes + 1 /\ deletes' \in Nat /\ deletes' # 0
    <2>1. deletes' = deletes + 1
      BY DEF Delete, DeleteTask, DeleteGraph
    <2>2. deletes \in Nat /\ TypeOK
      BY DEF StoreInv, Integrity, TypeOK
    <2> QED BY <2>1, <2>2
  <1>3. /\ row' \in Statuses /\ result' \in Statuses /\ members' \subseteq members
        /\ edges' \subseteq edges /\ graphRow' \in BOOLEAN /\ (graphRow' => graphRow)
        /\ row = Nothing => row' = Nothing
        /\ \A t \in Tasks : result'[t] # None => row'[t] # None
        /\ \A t \in members' : row'[t] # None
        /\ edges' \subseteq members' \X members'
        /\ members' # {} => graphRow'
    <2>1. CASE \E t \in Tasks : DeleteTask(p, t)
      <3>1. PICK t \in Tasks : DeleteTask(p, t)
        BY <2>1
      <3>2. /\ row' = [row EXCEPT ![t] = None] /\ result' = [result EXCEPT ![t] = None]
            /\ members' = members \ {t} /\ edges' = {e \in edges : t \notin {e[1], e[2]}}
            /\ graphRow' = graphRow /\ row[t] # None
        BY <3>1 DEF DeleteTask
      <3>3. row' \in Statuses /\ result' \in Statuses /\ row # Nothing
        BY <1>2, <3>2, NothingFacts DEF TypeOK, Statuses
      <3>4. \A u \in Tasks : row'[u] = (IF u = t THEN None ELSE row[u])
                             /\ result'[u] = (IF u = t THEN None ELSE result[u])
        BY <1>2, <3>2 DEF TypeOK
      <3>5. edges' \subseteq members' \X members'
        BY <3>2 DEF StoreInv, Integrity
      <3> QED BY <1>2, <3>2, <3>3, <3>4, <3>5 DEF StoreInv, Integrity, TypeOK
    <2>2. CASE DeleteGraph(p)
      BY <1>2, <2>2 DEF DeleteGraph, StoreInv, Integrity, TypeOK, Statuses
    <2> QED BY <2>1, <2>2 DEF Delete
  <1>4. TypeOK'
    BY <1>1, <1>2, <1>3 DEF TypeOK, Statuses, schemaVars, loadVars, runVars
  <1>5. Integrity'
    BY <1>3, <1>4 DEF Integrity
  <1>6. SchemaOK'
    BY <1>1, <1>2, <1>3 DEF StoreInv, SchemaOK, schemaVars, loadVars, TypeOK
  <1>7. RunnerOK' /\ SavedWhole' /\ RowsFollow'
    BY <1>1, <1>2 DEF StoreInv, RunnerOK, SavedWhole, RowsFollow, loadVars, runVars
  <1>8. ASSUME NEW o \in Procs PROVE PlaceOK(o)' /\ ReadsWhole(o)'
    <2>1. PlaceOK(o)'
      BY <1>1, SamePlace DEF StoreInv, PlaceOK, schemaVars, loadVars
    <2> QED BY <1>2, <2>1 DEF ReadsWhole
  <1> QED BY <1>5, <1>6, <1>7, <1>8 DEF StoreInv
-----------------------------------------------------------------------------
(* The runner at work.                                                     *)

Workings == {"none", "starting", "begin", "handler", "ending", "done"}
Quiet == failures = 0 /\ cancels = 0 /\ deletes = 0

LEMMA RunnerStep ==
    ASSUME StoreInv, pc[Runner] = "open", TypeOK', Integrity', RunnerOK', SavedWhole',
           UNCHANGED <<schemaVars, loadVars, cancels, deletes>>, phase' # "none",
           deletes = 0 => members \subseteq members', graphRow => graphRow',
           failures' = 0 => failures = 0,
           Quiet' => RowsKept' /\ LiveOrdered' /\ LiveSaved'
    PROVE  StoreInv'
  <1> USE RunnerIsOne
  <1>1. UNCHANGED <<tables, version, pc, pos, target, got, cancels, deletes>>
    BY DEF schemaVars, loadVars
  <1>2. SchemaOK'
    BY <1>1 DEF StoreInv, SchemaOK, Using
  <1>3. RowsFollow'
    <2>1. Quiet' => members' \subseteq graph'
      BY DEF SavedWhole, Quiet
    <2>2. ASSUME Quiet', NEW e \in Edges, row'[e[1]] \in Begun PROVE e \in EdgesOf(graph')
      BY <2>1, <2>2, GraphFacts DEF RowsKept, EdgesOf, Begun, TaskStatus
    <2>3. Quiet' => RowsOrdered'
      BY <2>2 DEF RowsOrdered, LiveOrdered, Begun
    <2> QED BY <1>1, <2>3 DEF RowsFollow, RunnerReads, Loading, Quiet
  <1>4. ASSUME NEW o \in Procs PROVE PlaceOK(o)' /\ ReadsWhole(o)'
    <2>1. PlaceOK(o)'
      BY <1>1, SamePlace DEF StoreInv, PlaceOK
    <2> QED BY <1>1, <2>1, SameReads DEF StoreInv
  <1> QED BY <1>2, <1>3, <1>4 DEF StoreInv

\* What a save of some tasks, or of the graph, leaves in the rows.
LEMMA Saved ==
    ASSUME TypeOK, Integrity, NEW saved \in SUBSET Tasks, Commit(saved)
    PROVE  /\ row' \in Statuses /\ result' \in Statuses /\ inFlight' \subseteq Tasks
           /\ failures' = failures
           /\ \A t \in Tasks : row'[t] = IF t \in saved THEN live[t] ELSE row[t]
           /\ \A t \in Tasks : /\ result'[t] # None => row'[t] # None
                               /\ row[t] # None => row'[t] # None
                               /\ t \in saved => row'[t] # None
  <1>1. /\ row' \in Statuses /\ result' \in Statuses
        /\ \A t \in Tasks : row'[t] = IF t \in saved THEN live[t] ELSE row[t]
        /\ \A t \in Tasks : result'[t] = IF t \in saved THEN liveResult[t] ELSE result[t]
    BY DEF Commit, TypeOK, Statuses
  <1>2. \A t \in Tasks : live[t] # None
    BY GraphFacts DEF TypeOK
  <1> QED BY <1>1, <1>2 DEF Commit, TypeOK, Integrity

\* A save keeps the order, whether a run is on or begins with it.
LEMMA SavedOrdered ==
    ASSUME TypeOK, Integrity, NEW saved \in SUBSET Tasks, Commit(saved), phase # "none",
           UNCHANGED <<live, graph, escapes>>, graph \in Graphs, LiveOrdered,
           phase' = "active" /\ phase = "active" => \A t \in Tasks : Inactive(t) => Inactive(t)',
           phase' = "active" /\ phase # "active" =>
               saved = graph /\ \A t \in graph : live[t] # "running"
    PROVE  LiveOrdered'
  <1>1. \A t \in Tasks : row'[t] = IF t \in saved THEN live[t] ELSE row[t]
    BY Saved
  <1> SUFFICES ASSUME NEW e \in EdgesOf(graph)
               PROVE  /\ e[1] \notin Finally /\ (row'[e[1]] \in Begun \/ live[e[1]] \in Begun) =>
                            /\ row'[e[2]] \in Passable /\ live[e[2]] \in Passable
                            /\ phase' = "active" => IsSink(live[e[2]])
                      /\ e[1] \in Finally /\ (row'[e[1]] = "running" \/ live[e[1]] = "running")
                            /\ escapes = 0 =>
                            /\ IsTerminal(row'[e[2]]) /\ IsTerminal(live[e[2]])
                            /\ phase' = "active" => Inactive(e[2])'
    BY DEF LiveOrdered
  <1>2. e[1] \in graph /\ e[2] \in graph /\ graph \subseteq Tasks
    BY SubgraphFacts
  <1>3. ASSUME e[1] \notin Finally, row'[e[1]] \in Begun \/ live[e[1]] \in Begun
        PROVE  /\ row'[e[2]] \in Passable /\ live[e[2]] \in Passable
               /\ phase' = "active" => IsSink(live[e[2]])
    <2>1. /\ row[e[2]] \in Passable /\ live[e[2]] \in Passable
          /\ phase = "active" => IsSink(live[e[2]])
      BY <1>1, <1>2, <1>3 DEF LiveOrdered
    <2> QED BY <1>1, <1>2, <2>1 DEF Passable, IsSink
  <1>4. ASSUME e[1] \in Finally, row'[e[1]] = "running" \/ live[e[1]] = "running", escapes = 0
        PROVE  /\ IsTerminal(row'[e[2]]) /\ IsTerminal(live[e[2]])
               /\ phase' = "active" => Inactive(e[2])'
    <2>1. /\ IsTerminal(row[e[2]]) /\ IsTerminal(live[e[2]])
          /\ phase = "active" => Inactive(e[2])
      BY <1>1, <1>2, <1>4 DEF LiveOrdered
    <2>2. phase' = "active" => phase = "active"
      BY <1>1, <1>2, <1>4
    <2> QED BY <1>1, <1>2, <2>1, <2>2
  <1> QED BY <1>3, <1>4

LEMMA GraphSaved ==
    ASSUME TypeOK, Integrity, SaveGraph, graph \in Graphs
    PROVE  /\ row' \in Statuses /\ result' \in Statuses /\ inFlight' \subseteq Tasks
           /\ failures' = failures /\ graphRow' = TRUE /\ members' = graph
           /\ edges' = EdgesOf(graph) /\ edges' \subseteq members' \X members'
           /\ graph \subseteq Tasks /\ edges' \subseteq Edges
           /\ \A t \in graph : row'[t] = live[t] /\ row'[t] # None
           /\ \A t \in Tasks \ graph : row'[t] = row[t]
           /\ \A t \in Tasks : result'[t] # None => row'[t] # None
           /\ RowsKept /\ members \subseteq graph => RowsKept'
  <1>1. Commit(graph) /\ graphRow' = TRUE /\ members' = graph /\ edges' = EdgesOf(graph)
    BY DEF SaveGraph
  <1>2. graph \subseteq Tasks /\ EdgesOf(graph) \subseteq graph \X graph
        /\ EdgesOf(graph) \subseteq Edges
    BY SubgraphFacts
  <1>3. /\ row' \in Statuses /\ result' \in Statuses /\ inFlight' \subseteq Tasks
        /\ failures' = failures
        /\ \A t \in graph : row'[t] = live[t] /\ row'[t] # None
        /\ \A t \in Tasks \ graph : row'[t] = row[t]
        /\ \A t \in Tasks : result'[t] # None => row'[t] # None
    BY <1>1, <1>2, Saved
  <1> QED BY <1>1, <1>2, <1>3 DEF RowsKept

LEMMA LostSave ==
    ASSUME TypeOK, Swallowed
    PROVE  /\ UNCHANGED <<row, result, graphRow, members, edges, inFlight>>
           /\ failures' \in Nat /\ failures' # 0
  <1>1. failures \in Nat /\ failures' = failures + 1
    BY DEF TypeOK, Swallowed
  <1> QED BY <1>1 DEF Swallowed, dataVars

LEMMA BuildGraphInv == ASSUME StoreInv, BuildGraph PROVE StoreInv'
  <1> USE RunnerIsOne, GraphFacts
  <1>1. /\ pc[Runner] = "open" /\ phase = "none" /\ ~graphRow /\ row = Nothing
        /\ phase' = "ready" /\ live' = [t \in Tasks |-> "pending"] /\ liveResult' = Nothing
        /\ graph' \in Graphs
        /\ inFlight' = {} /\ UNCHANGED <<schemaVars, dataVars, loadVars, worker, bounds>>
    BY DEF BuildGraph
  <1>2. UNCHANGED <<row, result, graphRow, members, edges, failures, cancels, deletes>>
    BY <1>1 DEF dataVars, bounds
  <1>3. /\ live' \in [Tasks -> TaskStatus] /\ liveResult' \in Statuses /\ inFlight' \subseteq Tasks
        /\ graph' \subseteq Tasks
    BY <1>1, NothingFacts, SubgraphFacts DEF TaskStatus
  <1>4. TypeOK'
    BY <1>1, <1>3 DEF StoreInv, Integrity, TypeOK, Statuses, schemaVars, dataVars, loadVars, bounds
  <1>5. Integrity' /\ SavedWhole'
    BY <1>1, <1>2, <1>4 DEF StoreInv, Integrity, SavedWhole
  <1>6. \A t \in Tasks : worker[t] = "none"
    BY <1>1 DEF StoreInv, RunnerOK
  <1>7. RunnerOK'
    BY <1>1, <1>6, NothingFacts DEF RunnerOK, loadVars
  <1>8. Quiet' => RowsKept'
    BY <1>2 DEF StoreInv, RowsFollow, RowsKept, Quiet
  <1>9. LiveOrdered' /\ LiveSaved'
    BY <1>1, <1>2, <1>3, NothingFacts DEF LiveOrdered, LiveSaved, Begun, TaskStatus, EdgesOf
  <1> QED BY <1>1, <1>2, <1>4, <1>5, <1>7, <1>8, <1>9, RunnerStep DEF bounds

\* What is added has no row yet and waits; nothing waits for it.
LEMMA AddInv == ASSUME StoreInv, NEW t \in Tasks, Add(t) PROVE StoreInv'
  <1> USE RunnerIsOne, GraphFacts
  <1>1. /\ phase \in {"ready", "saved", "unsaved"} /\ phase' = "ready"
        /\ t \notin graph /\ row[t] = None
        /\ graph' = graph \cup {t} /\ graph' \in Graphs /\ inFlight' = inFlight \ {t}
        /\ UNCHANGED <<schemaVars, dataVars, loadVars, live, liveResult, worker, bounds>>
    BY DEF Add
  <1>2. UNCHANGED <<row, result, graphRow, members, edges, failures, cancels, deletes, escapes>>
    BY <1>1 DEF dataVars, bounds
  <1>3. /\ live[t] = "pending" /\ pc[Runner] = "open" /\ TypeOK
        /\ \A u \in Tasks : worker[u] = "none"
    BY <1>1 DEF StoreInv, RunnerOK, Integrity
  <1>4. TypeOK'
    BY <1>1, <1>3 DEF TypeOK, schemaVars, dataVars, loadVars, bounds
  <1>5. Integrity' /\ SavedWhole'
    BY <1>1, <1>2, <1>4 DEF StoreInv, Integrity, SavedWhole
  <1>6. RunnerOK'
    BY <1>1, <1>3 DEF StoreInv, RunnerOK, loadVars
  <1>7. ASSUME Quiet PROVE RowsKept' /\ LiveOrdered' /\ LiveSaved'
    <2>1. RowsKept' /\ LiveOrdered
      BY <1>2, <1>7 DEF StoreInv, RowsFollow, RowsKept, Quiet
    <2>2. row[t] \notin Begun /\ live[t] \notin Begun /\ row[t] # "running" /\ live[t] # "running"
      BY <1>1, <1>3 DEF Begun, TaskStatus
    <2>3. \A e \in EdgesOf(graph') : e \in EdgesOf(graph) \/ e[1] = t
      BY <1>1 DEF EdgesOf
    <2>4. LiveOrdered'
      BY <1>1, <1>2, <2>1, <2>2, <2>3 DEF LiveOrdered
    <2> QED BY <1>1, <2>1, <2>4 DEF LiveSaved
  <1> QED BY <1>1, <1>2, <1>3, <1>4, <1>5, <1>6, <1>7, RunnerStep DEF Quiet

LEMMA ResetInv == ASSUME StoreInv, NEW t \in Tasks, Reset(t) PROVE StoreInv'
  <1> USE RunnerIsOne, GraphFacts
  <1>1. /\ phase = "refused" /\ live[t] = "running" /\ phase' = "ready"
        /\ live' = [live EXCEPT ![t] = "cancelled"]
        /\ UNCHANGED <<schemaVars, dataVars, loadVars, graph, liveResult, worker, inFlight, bounds>>
    BY DEF Reset
  <1>2. UNCHANGED <<row, result, graphRow, members, edges, failures, cancels, deletes, escapes>>
    BY <1>1 DEF dataVars, bounds
  <1>3. /\ live' \in [Tasks -> TaskStatus]
        /\ \A u \in Tasks : live'[u] = IF u = t THEN "cancelled" ELSE live[u]
    BY <1>1 DEF StoreInv, Integrity, TypeOK, TaskStatus
  <1>4. TypeOK'
    BY <1>1, <1>3 DEF StoreInv, Integrity, TypeOK, schemaVars, dataVars, loadVars, bounds
  <1>5. Integrity' /\ SavedWhole'
    BY <1>1, <1>2, <1>4 DEF StoreInv, Integrity, SavedWhole
  <1>6. RunnerOK' /\ pc[Runner] = "open"
    BY <1>1, <1>2, <1>3 DEF StoreInv, RunnerOK, loadVars
  <1>7. ASSUME Quiet PROVE RowsKept' /\ LiveOrdered' /\ LiveSaved'
    <2>1. RowsKept' /\ LiveOrdered
      BY <1>2, <1>7 DEF StoreInv, RowsFollow, RowsKept, Quiet
    <2>2. \A u \in Tasks : /\ live'[u] \in Begun => live[u] \in Begun
                           /\ live'[u] = "running" => live[u] = "running"
                           /\ live[u] \in Passable => live'[u] \in Passable
                           /\ IsTerminal(live[u]) => IsTerminal(live'[u])
      BY <1>3 DEF Begun, Passable, IsTerminal
    <2>3. ASSUME NEW e \in EdgesOf(graph) PROVE e[1] \in Tasks /\ e[2] \in Tasks
      BY DEF EdgesOf
    <2>4. LiveOrdered'
      BY <1>1, <1>2, <2>1, <2>2, <2>3 DEF LiveOrdered
    <2> QED BY <1>1, <2>1, <2>4 DEF LiveSaved
  <1> QED BY <1>1, <1>2, <1>4, <1>5, <1>6, <1>7, RunnerStep DEF Quiet

LEMMA RunInv == ASSUME StoreInv, Run PROVE StoreInv'
  <1> USE RunnerIsOne, GraphFacts
  <1>1. /\ phase \in {"ready", "saved", "unsaved"} /\ runs' = runs + 1
        /\ \/ phase' = "refused" /\ UNCHANGED <<dataVars, inFlight, failures>>
           \/ phase' = "active" /\ (SaveGraph \/ Swallowed) /\ \A t \in graph : live[t] # "running"
        /\ UNCHANGED <<schemaVars, loadVars, graph, live, liveResult, worker, crashes, cancels,
                       deletes, escapes>>
    BY DEF Run
  <1>2. /\ TypeOK /\ Integrity /\ runs' \in Nat /\ \A t \in Tasks : worker[t] = "none"
        /\ graph \in Graphs /\ (deletes = 0 => members \subseteq graph)
    BY <1>1 DEF StoreInv, Integrity, TypeOK, RunnerOK, SavedWhole
  <1>3. RunnerOK' /\ pc[Runner] = "open"
    BY <1>1, <1>2 DEF StoreInv, RunnerOK, loadVars
  <1>4. CASE phase' \in {"refused", "active"}
             /\ UNCHANGED <<row, result, graphRow, members, edges, inFlight>>
             /\ failures' \in Nat /\ (failures' = 0 => failures = 0 /\ phase' = "refused")
    <2>1. TypeOK'
      BY <1>1, <1>2, <1>4 DEF TypeOK, schemaVars, loadVars
    <2>2. Integrity' /\ SavedWhole'
      BY <1>1, <1>4, <2>1 DEF StoreInv, Integrity, SavedWhole
    <2>3. Quiet' => RowsKept' /\ LiveOrdered' /\ LiveSaved'
      BY <1>1, <1>4 DEF StoreInv, RowsFollow, RowsKept, LiveOrdered, LiveSaved, Quiet
    <2> QED BY <1>1, <1>3, <1>4, <2>1, <2>2, <2>3, RunnerStep
  <1>5. CASE phase' = "active" /\ SaveGraph /\ \A t \in graph : live[t] # "running"
    <2>0. /\ row' \in Statuses /\ result' \in Statuses /\ inFlight' \subseteq Tasks
          /\ failures' = failures /\ graphRow' = TRUE /\ members' = graph /\ graph \subseteq Tasks
          /\ edges' = EdgesOf(graph) /\ edges' \subseteq members' \X members' /\ edges' \subseteq Edges
          /\ \A t \in graph : row'[t] = live[t] /\ row'[t] # None
          /\ \A t \in Tasks : result'[t] # None => row'[t] # None
      BY <1>2, <1>5, GraphSaved
    <2>1. TypeOK'
      BY <1>1, <1>2, <1>5, <2>0 DEF TypeOK, Statuses, schemaVars, loadVars
    <2>2. Integrity' /\ SavedWhole' /\ graphRow' /\ failures' = failures
      BY <1>1, <1>2, <2>0, <2>1 DEF Integrity, SavedWhole
    <2>3. LiveSaved'
      BY <1>1, <1>2, <1>5, <2>0 DEF LiveSaved
    <2>4. ASSUME Quiet PROVE RowsKept' /\ LiveOrdered'
      <3>1. RowsKept /\ LiveOrdered /\ members \subseteq graph
        BY <1>2, <2>4 DEF StoreInv, RowsFollow, Quiet
      <3>2. RowsKept'
        BY <1>1, <1>2, <1>5, <3>1, GraphSaved
      <3>3. LiveOrdered'
        BY <1>1, <1>2, <1>5, <2>0, <3>1, SavedOrdered DEF SaveGraph
      <3> QED BY <3>2, <3>3
    <2> QED BY <1>1, <1>2, <1>3, <1>5, <2>0, <2>1, <2>2, <2>3, <2>4, RunnerStep DEF Quiet
  <1>6. phase' = "active" /\ Swallowed => failures' \in Nat /\ failures' # 0
                /\ UNCHANGED <<row, result, graphRow, members, edges, inFlight>>
    BY <1>2, LostSave
  <1> QED BY <1>1, <1>2, <1>4, <1>5, <1>6 DEF TypeOK, dataVars

LEMMA EndRunInv == ASSUME StoreInv, EndRun PROVE StoreInv'
  <1> USE RunnerIsOne, GraphFacts
  <1>1. /\ phase = "active" /\ worker' = [t \in Tasks |-> "none"]
        /\ \/ SaveGraph /\ phase' = "saved"
           \/ Swallowed /\ phase' = "unsaved"
        /\ UNCHANGED <<schemaVars, loadVars, graph, live, liveResult, runs, crashes, cancels,
                       deletes, escapes>>
    BY DEF EndRun
  <1>2. /\ TypeOK /\ Integrity /\ worker' \in [Tasks -> Workings]
        /\ graph \in Graphs /\ (deletes = 0 => members \subseteq graph)
    BY <1>1 DEF StoreInv, Integrity, Workings, RunnerOK, SavedWhole
  <1>3. RunnerOK' /\ pc[Runner] = "open"
    BY <1>1 DEF StoreInv, RunnerOK, loadVars
  <1>4. CASE SaveGraph /\ phase' = "saved"
    <2>1. /\ row' \in Statuses /\ result' \in Statuses /\ inFlight' \subseteq Tasks
          /\ failures' = failures /\ graphRow' = TRUE /\ members' = graph /\ graph \subseteq Tasks
          /\ edges' = EdgesOf(graph) /\ edges' \subseteq members' \X members' /\ edges' \subseteq Edges
          /\ \A t \in graph : row'[t] = live[t] /\ row'[t] # None
          /\ \A t \in Tasks : result'[t] # None => row'[t] # None
      BY <1>2, <1>4, GraphSaved
    <2>2. TypeOK'
      BY <1>1, <1>2, <1>4, <2>1 DEF TypeOK, Statuses, Workings, schemaVars, loadVars
    <2>3. Integrity' /\ SavedWhole'
      BY <1>1, <1>2, <2>1, <2>2 DEF Integrity, SavedWhole
    <2>4. ASSUME Quiet PROVE RowsKept' /\ LiveOrdered' /\ LiveSaved'
      <3>1. RowsKept /\ LiveOrdered /\ members \subseteq graph
        BY <1>2, <2>4 DEF StoreInv, RowsFollow, Quiet
      <3>2. RowsKept'
        BY <1>1, <1>2, <1>4, <3>1, GraphSaved
      <3>3. LiveOrdered'
        BY <1>1, <1>2, <1>4, <2>1, <3>1, SavedOrdered DEF SaveGraph
      <3> QED BY <1>4, <3>2, <3>3 DEF LiveSaved
    <2> QED BY <1>1, <1>2, <1>3, <1>4, <2>1, <2>2, <2>3, <2>4, RunnerStep DEF Quiet
  <1>5. CASE Swallowed /\ phase' = "unsaved"
    <2>1. /\ UNCHANGED <<row, result, graphRow, members, edges, inFlight>>
          /\ failures' \in Nat /\ failures' # 0
      BY <1>2, <1>5, LostSave
    <2>2. TypeOK'
      BY <1>1, <1>2, <1>5, <2>1 DEF TypeOK, Workings, schemaVars, loadVars
    <2>3. Integrity' /\ SavedWhole'
      BY <1>1, <1>5, <2>1, <2>2 DEF StoreInv, Integrity, SavedWhole
    <2> QED BY <1>1, <1>3, <1>5, <2>1, <2>2, <2>3, RunnerStep DEF Quiet
  <1> QED BY <1>1, <1>4, <1>5

\* What a step of the worker of one task does, when it saves nothing.
LEMMA WorkerStep ==
    ASSUME StoreInv, NEW t \in Tasks, NEW s \in TaskStatus, NEW r \in TaskStatus \cup {None},
           NEW w \in Workings, phase = "active", t \in graph,
           live' = [live EXCEPT ![t] = s], liveResult' = [liveResult EXCEPT ![t] = r],
           worker' = [worker EXCEPT ![t] = w], inFlight' \subseteq Tasks,
           w \in {"starting", "begin", "handler"} => s = "running",
           w = "ending" \/ (w = "done" /\ escapes' = 0) => IsTerminal(s),
           s = live[t] \/ ~IsSink(live[t]), ~Inactive(t),
           w \in {"starting", "ending"} \/ (s = live[t] /\ worker[t] \notin {"starting", "ending"}),
           w = "ending" /\ s = "succeeded" => worker[t] = "handler" /\ live[t] = "running",
           Quiet /\ t \notin Finally =>
               \/ s \notin Begun \/ live[t] \in Begun
               \/ \A e \in EdgesOf(graph) : e[1] = t =>
                      e[2] # t /\ live[e[2]] = "succeeded" /\ row[e[2]] \in Passable,
           Quiet /\ t \in Finally /\ escapes = 0 =>
               \/ s # "running" \/ live[t] = "running"
               \/ \A e \in EdgesOf(graph) : e[1] = t =>
                      /\ e[2] # t /\ IsTerminal(live[e[2]]) /\ IsTerminal(row[e[2]])
                      /\ Inactive(e[2]),
           UNCHANGED <<schemaVars, dataVars, loadVars, phase, graph, runs, crashes, failures,
                       cancels, deletes>>,
           escapes' \in Nat, escapes' = 0 => escapes = 0
    PROVE  StoreInv'
  <1> USE RunnerIsOne, GraphFacts
  <1>1. /\ UNCHANGED <<row, result, graphRow, members, edges>>
        /\ TypeOK /\ pc[Runner] = "open" /\ graph \in Graphs
    BY DEF dataVars, StoreInv, Integrity, RunnerOK
  <1>2. /\ live' \in [Tasks -> TaskStatus] /\ worker' \in [Tasks -> Workings]
        /\ liveResult' \in Statuses
        /\ \A u \in Tasks : /\ live'[u] = IF u = t THEN s ELSE live[u]
                            /\ worker'[u] = IF u = t THEN w ELSE worker[u]
                            /\ liveResult'[u] = IF u = t THEN r ELSE liveResult[u]
    BY <1>1 DEF TypeOK, Workings, Statuses
  <1>3. TypeOK'
    BY <1>1, <1>2 DEF TypeOK, Workings, Statuses, schemaVars, dataVars, loadVars
  <1>4. Integrity' /\ SavedWhole'
    BY <1>1, <1>3 DEF StoreInv, Integrity, SavedWhole
  <1>5. RunnerOK'
    <2>1. phase' # "none" => pc'[Runner] = "open" /\ graph' \in Graphs
      BY <1>1 DEF loadVars
    <2>2. ASSUME NEW u \in Tasks
          PROVE  /\ worker'[u] # "none" => phase' = "active" /\ u \in graph'
                 /\ worker'[u] \in {"starting", "begin", "handler"} => live'[u] = "running"
                 /\ worker'[u] = "ending" \/ (worker'[u] = "done" /\ escapes' = 0) =>
                        IsTerminal(live'[u])
                 /\ u \notin graph' => live'[u] = "pending" /\ liveResult'[u] = None
      <3>1. CASE u = t
        BY <1>2, <3>1
      <3>2. CASE u # t
        BY <1>2, <3>2 DEF StoreInv, RunnerOK
      <3> QED BY <3>1, <3>2
    <2> QED BY <2>1, <2>2 DEF RunnerOK
  <1>6. ASSUME Quiet PROVE RowsKept' /\ LiveOrdered' /\ LiveSaved'
    <2>1. RowsKept /\ LiveOrdered /\ LiveSaved
      BY <1>6 DEF StoreInv, RowsFollow, Quiet
    <2>2. RowsKept'
      BY <1>1, <2>1 DEF RowsKept
    <2>3. LiveSaved'
      <3>1. /\ members = graph
            /\ \A u \in graph :
                  /\ worker[u] \notin {"starting", "ending"} => row[u] = live[u]
                  /\ worker[u] = "ending" /\ live[u] = "succeeded" => row[u] = "running"
        BY <2>1 DEF LiveSaved
      <3>2. graph \subseteq Tasks
        BY <1>1, SubgraphFacts
      <3> QED BY <1>1, <1>2, <3>1, <3>2 DEF LiveSaved
    <2>4. ASSUME NEW e \in EdgesOf(graph), e[1] \notin Finally,
                 row[e[1]] \in Begun \/ live'[e[1]] \in Begun
          PROVE  row[e[2]] \in Passable /\ live'[e[2]] \in Passable /\ IsSink(live'[e[2]])
      <3>0. e[1] \in Tasks /\ e[2] \in Tasks
        BY DEF EdgesOf
      <3>1. CASE row[e[1]] \in Begun \/ live[e[1]] \in Begun
        <4>1. row[e[2]] \in Passable /\ live[e[2]] \in Passable /\ IsSink(live[e[2]])
          BY <2>1, <2>4, <3>1 DEF LiveOrdered
        <4> QED BY <1>2, <3>0, <4>1
      <3>2. CASE e[1] = t /\ s \in Begun /\ live[t] \notin Begun
        <4>1. e[2] # t /\ live[e[2]] = "succeeded" /\ row[e[2]] \in Passable
          BY <1>6, <2>4, <3>2
        <4> QED BY <1>2, <3>0, <4>1 DEF Passable, IsSink
      <3> QED BY <1>2, <2>4, <3>0, <3>1, <3>2
    <2>5. ASSUME NEW e \in EdgesOf(graph), e[1] \in Finally, escapes' = 0,
                 row[e[1]] = "running" \/ live'[e[1]] = "running"
          PROVE  IsTerminal(row[e[2]]) /\ IsTerminal(live'[e[2]]) /\ Inactive(e[2])'
      <3>0. e[1] \in Tasks /\ e[2] \in Tasks
        BY DEF EdgesOf
      <3>1. e[2] # t /\ IsTerminal(row[e[2]]) /\ IsTerminal(live[e[2]]) /\ Inactive(e[2])
        <4>1. CASE row[e[1]] = "running" \/ live[e[1]] = "running"
          BY <2>1, <2>5, <4>1 DEF LiveOrdered
        <4>2. CASE e[1] = t /\ s = "running" /\ live[t] # "running"
          BY <1>6, <2>5, <4>2
        <4> QED BY <1>2, <2>5, <3>0, <4>1, <4>2
      <3> QED BY <1>2, <3>0, <3>1 DEF Inactive
    <2>6. LiveOrdered'
      BY <1>1, <2>4, <2>5 DEF LiveOrdered
    <2> QED BY <2>2, <2>3, <2>6
  <1> QED BY <1>1, <1>3, <1>4, <1>5, <1>6, RunnerStep DEF Quiet

\* What is so while a worker has a task.
LEMMA AtWork ==
    ASSUME StoreInv, NEW t \in Tasks, worker[t] # "none"
    PROVE  /\ phase = "active" /\ t \in graph /\ TypeOK /\ escapes \in Nat
           /\ live' = live => live' = [live EXCEPT ![t] = live[t]]
           /\ liveResult' = liveResult => liveResult' = [liveResult EXCEPT ![t] = liveResult[t]]
           /\ live[t] \in TaskStatus /\ liveResult[t] \in TaskStatus \cup {None}
           /\ worker[t] \in {"begin", "handler"} =>
                 live[t] = "running" /\ ~IsSink(live[t]) /\ live[t] \in Begun /\ ~Inactive(t)
  BY DEF StoreInv, Integrity, TypeOK, RunnerOK, IsSink, Begun, Inactive

LEMMA StartInv == ASSUME StoreInv, NEW t \in Tasks, Start(t) PROVE StoreInv'
  <1> USE GraphFacts
  <1>1. /\ phase = "active" /\ t \in graph /\ worker[t] = "none"
        /\ CanTransition(live[t], "running") /\ Ready(t)
        /\ live' = [live EXCEPT ![t] = "running"]
        /\ liveResult' = [liveResult EXCEPT ![t] = None]
        /\ worker' = [worker EXCEPT ![t] = "starting"]
        /\ UNCHANGED <<schemaVars, dataVars, loadVars, phase, graph, inFlight, bounds>>
    BY DEF Start
  <1>2. /\ TypeOK /\ live[t] \in TaskStatus /\ "running" \in TaskStatus /\ "starting" \in Workings
        /\ graph \in Graphs /\ inFlight' \subseteq Tasks
        /\ UNCHANGED <<runs, crashes, failures, cancels, deletes, escapes>> /\ escapes \in Nat
    BY <1>1 DEF StoreInv, Integrity, TypeOK, TaskStatus, Workings, RunnerOK, bounds
  <1>3. ~IsSink(live[t]) /\ ~Inactive(t)
    BY <1>1 DEF CanTransition, AllowedTransitions, IsSink, Inactive
  <1>4. ASSUME NEW e \in EdgesOf(graph), e[1] = t
        PROVE  e[2] \in Upstream(t) /\ e[2] \in graph /\ e[2] \in Tasks
    BY <1>2, <1>4, SubgraphFacts DEF Upstream, EdgesOf
  <1>5. ASSUME Quiet, t \notin Finally, NEW e \in EdgesOf(graph), e[1] = t
        PROVE  e[2] # t /\ live[e[2]] = "succeeded" /\ row[e[2]] \in Passable
    <2>1. live[e[2]] = "succeeded" /\ e[2] \in graph /\ e[2] \in Tasks
      BY <1>1, <1>4, <1>5 DEF Ready
    <2>2. row[e[2]] \in Passable
      <3>1. worker[e[2]] # "starting"
        BY <2>1 DEF StoreInv, RunnerOK
      <3> QED BY <1>1, <1>5, <2>1, <3>1 DEF StoreInv, RowsFollow, LiveSaved, Passable, Quiet
    <2> QED BY <1>3, <2>1, <2>2 DEF IsSink
  <1>6. ASSUME Quiet, t \in Finally, escapes = 0, NEW e \in EdgesOf(graph), e[1] = t
        PROVE  e[2] # t /\ IsTerminal(live[e[2]]) /\ IsTerminal(row[e[2]]) /\ Inactive(e[2])
    <2>1. Inactive(e[2]) /\ e[2] \in graph /\ e[2] \in Tasks
      BY <1>1, <1>4, <1>6 DEF Ready
    <2>2. IsTerminal(live[e[2]]) /\ worker[e[2]] \notin {"starting", "ending"}
      BY <1>6, <2>1 DEF Inactive, StoreInv, RunnerOK, IsSink, IsTerminal
    <2>3. row[e[2]] = live[e[2]]
      BY <1>1, <1>6, <2>1, <2>2 DEF StoreInv, RowsFollow, LiveSaved, Quiet
    <2> QED BY <1>3, <2>1, <2>2, <2>3
  <1> QED BY <1>1, <1>2, <1>3, <1>5, <1>6, WorkerStep

LEMMA BlockInv == ASSUME StoreInv, NEW t \in Tasks, Block(t) PROVE StoreInv'
  <1>1. /\ phase = "active" /\ t \in graph /\ worker[t] = "none" /\ live[t] = "pending"
        /\ live' = [live EXCEPT ![t] = "blocked"]
        /\ worker' = [worker EXCEPT ![t] = "ending"]
        /\ UNCHANGED <<schemaVars, dataVars, loadVars, phase, graph, liveResult, inFlight, bounds>>
    BY DEF Block
  <1>2. /\ "blocked" \in TaskStatus /\ "blocked" \notin Begun /\ "ending" \in Workings
        /\ IsTerminal("blocked") /\ ~IsSink(live[t]) /\ ~Inactive(t)
    BY <1>1 DEF TaskStatus, Begun, Workings, IsTerminal, IsSink, Inactive
  <1>3. /\ liveResult[t] \in TaskStatus \cup {None} /\ inFlight' \subseteq Tasks /\ escapes \in Nat
        /\ liveResult' = [liveResult EXCEPT ![t] = liveResult[t]]
        /\ UNCHANGED <<runs, crashes, failures, cancels, deletes, escapes>>
    BY <1>1 DEF StoreInv, Integrity, TypeOK, bounds
  <1> QED BY <1>1, <1>2, <1>3, WorkerStep

LEMMA HandlerEndsInv == ASSUME StoreInv, NEW t \in Tasks, HandlerEnds(t) PROVE StoreInv'
  <1>1. PICK s \in {"succeeded", "failed", "cancelled"} :
            live' = [live EXCEPT ![t] = s] /\ liveResult' = [liveResult EXCEPT ![t] = s]
    BY DEF HandlerEnds
  <1>2. /\ worker[t] = "handler" /\ worker' = [worker EXCEPT ![t] = "ending"]
        /\ UNCHANGED <<schemaVars, dataVars, loadVars, phase, graph, inFlight, bounds>>
    BY DEF HandlerEnds
  <1>3. s \in TaskStatus /\ "ending" \in Workings /\ IsTerminal(s) /\ s # "running"
    BY DEF TaskStatus, Workings, IsTerminal
  <1>4. /\ phase = "active" /\ t \in graph /\ live[t] = "running" /\ ~IsSink(live[t])
        /\ live[t] \in Begun /\ ~Inactive(t) /\ escapes \in Nat
    BY <1>2, AtWork
  <1>5. inFlight' \subseteq Tasks /\ UNCHANGED <<runs, crashes, failures, cancels, deletes, escapes>>
    BY <1>2 DEF StoreInv, Integrity, TypeOK, bounds
  <1> QED BY <1>1, <1>2, <1>3, <1>4, <1>5, WorkerStep

LEMMA HandlerEscapesInv == ASSUME StoreInv, NEW t \in Tasks, HandlerEscapes(t) PROVE StoreInv'
  <1>1. /\ worker[t] = "handler" /\ worker' = [worker EXCEPT ![t] = "done"]
        /\ escapes' = escapes + 1
        /\ UNCHANGED <<schemaVars, dataVars, loadVars, phase, graph, live, liveResult, inFlight,
                       runs, crashes, failures, cancels, deletes>>
    BY DEF HandlerEscapes
  <1>2. /\ phase = "active" /\ t \in graph /\ live[t] = "running" /\ ~IsSink(live[t])
        /\ live[t] \in Begun /\ ~Inactive(t) /\ live[t] \in TaskStatus
        /\ live' = [live EXCEPT ![t] = live[t]]
        /\ liveResult[t] \in TaskStatus \cup {None}
        /\ liveResult' = [liveResult EXCEPT ![t] = liveResult[t]]
    BY <1>1, AtWork
  <1>3. escapes' \in Nat /\ escapes' # 0
    <2>1. escapes \in Nat
      BY DEF StoreInv, Integrity, TypeOK
    <2> QED BY <1>1, <2>1
  <1>4. inFlight' \subseteq Tasks /\ "done" \in Workings
    BY <1>1 DEF StoreInv, Integrity, TypeOK, Workings
  <1> QED BY <1>1, <1>2, <1>3, <1>4, WorkerStep

LEMMA BeginHandlerInv == ASSUME StoreInv, NEW t \in Tasks, BeginHandler(t) PROVE StoreInv'
  <1>1. /\ worker[t] = "begin" /\ worker' = [worker EXCEPT ![t] = "handler"]
        /\ inFlight' = inFlight \cup {t}
        /\ UNCHANGED <<schemaVars, dataVars, loadVars, phase, graph, live, liveResult, bounds>>
    BY DEF BeginHandler
  <1>2. /\ phase = "active" /\ t \in graph /\ live[t] = "running" /\ ~IsSink(live[t])
        /\ live[t] \in Begun /\ ~Inactive(t) /\ live[t] \in TaskStatus /\ escapes \in Nat
        /\ live' = [live EXCEPT ![t] = live[t]]
        /\ liveResult[t] \in TaskStatus \cup {None}
        /\ liveResult' = [liveResult EXCEPT ![t] = liveResult[t]]
    BY <1>1, AtWork
  <1>3. /\ inFlight' \subseteq Tasks /\ "handler" \in Workings
        /\ UNCHANGED <<runs, crashes, failures, cancels, deletes, escapes>>
    BY <1>1 DEF StoreInv, Integrity, TypeOK, Workings, bounds
  <1> QED BY <1>1, <1>2, <1>3, WorkerStep

LEMMA SaveTaskInv == ASSUME StoreInv, NEW t \in Tasks, SaveTask(t) PROVE StoreInv'
  <1> USE RunnerIsOne, GraphFacts
  <1> DEFINE w == IF worker[t] = "starting" THEN "begin" ELSE "done"
  <1>1. /\ worker[t] \in {"starting", "ending"} /\ worker' = [worker EXCEPT ![t] = w]
        /\ \/ Commit({t}) /\ UNCHANGED <<graphRow, members, edges>>
           \/ Swallowed
        /\ UNCHANGED <<schemaVars, loadVars, phase, graph, live, liveResult, runs, crashes,
                       cancels, deletes, escapes>>
    BY DEF SaveTask
  <1>2. /\ TypeOK /\ Integrity /\ phase = "active" /\ pc[Runner] = "open" /\ graph \in Graphs
        /\ t \in graph /\ graph \subseteq Tasks
    BY <1>1, SubgraphFacts DEF StoreInv, Integrity, RunnerOK
  <1>3. /\ worker' \in [Tasks -> Workings]
        /\ \A u \in Tasks : worker'[u] = IF u = t THEN w ELSE worker[u]
    BY <1>1, <1>2 DEF TypeOK, Workings
  <1>4. RunnerOK'
    BY <1>1, <1>2, <1>3 DEF StoreInv, RunnerOK, loadVars
  <1>5. CASE Commit({t}) /\ UNCHANGED <<graphRow, members, edges>>
    <2>1. /\ row' \in Statuses /\ result' \in Statuses /\ inFlight' \subseteq Tasks
          /\ failures' = failures
          /\ \A u \in Tasks : row'[u] = IF u \in {t} THEN live[u] ELSE row[u]
          /\ \A u \in Tasks : /\ result'[u] # None => row'[u] # None
                              /\ row[u] # None => row'[u] # None
      BY <1>2, <1>5, Saved
    <2>2. TypeOK'
      BY <1>1, <1>2, <1>3, <1>5, <2>1 DEF TypeOK, Statuses, Workings, schemaVars, loadVars
    <2>3. Integrity' /\ SavedWhole'
      BY <1>1, <1>2, <1>5, <2>1, <2>2 DEF StoreInv, Integrity, SavedWhole, TypeOK
    <2>4. ASSUME Quiet PROVE RowsKept' /\ LiveOrdered' /\ LiveSaved'
      <3>1. RowsKept /\ LiveOrdered /\ LiveSaved
        BY <2>4 DEF StoreInv, RowsFollow, Quiet
      <3>2. RowsKept'
        BY <1>2, <1>5, <2>1, <3>1 DEF RowsKept, LiveSaved
      <3>3. \A u \in Tasks : Inactive(u) => Inactive(u)'
        BY <1>1, <1>3 DEF Inactive
      <3>4. LiveOrdered'
        BY <1>1, <1>2, <1>5, <3>1, <3>3, SavedOrdered
      <3>5. LiveSaved'
        <4>1. /\ members = graph
              /\ \A u \in graph :
                    /\ worker[u] \notin {"starting", "ending"} => row[u] = live[u]
                    /\ worker[u] = "ending" /\ live[u] = "succeeded" => row[u] = "running"
          BY <1>2, <3>1 DEF LiveSaved
        <4> QED BY <1>1, <1>2, <1>3, <1>5, <2>1, <4>1 DEF LiveSaved
      <3> QED BY <3>2, <3>4, <3>5
    <2> QED BY <1>1, <1>2, <1>4, <1>5, <2>1, <2>2, <2>3, <2>4, RunnerStep DEF Quiet
  <1>6. CASE Swallowed
    <2>1. /\ UNCHANGED <<row, result, graphRow, members, edges, inFlight>>
          /\ failures' \in Nat /\ failures' # 0
      BY <1>2, <1>6, LostSave
    <2>2. TypeOK'
      BY <1>1, <1>2, <1>3, <2>1 DEF TypeOK, Workings, schemaVars, loadVars
    <2>3. Integrity' /\ SavedWhole'
      BY <1>1, <2>1, <2>2 DEF StoreInv, Integrity, SavedWhole
    <2> QED BY <1>1, <1>2, <1>4, <2>1, <2>2, <2>3, RunnerStep DEF Quiet
  <1> QED BY <1>1, <1>5, <1>6

\* The tasks of a loaded graph have the statuses the store has, if those did not change meanwhile.
LEMMA AdoptGraphInv == ASSUME StoreInv, AdoptGraph PROVE StoreInv'
  <1> USE RunnerIsOne, GraphFacts
  <1>1. /\ pc[Runner] = "loaded" /\ phase = "none" /\ phase' = "ready"
        /\ graph' = got[Runner].members /\ graph' \in Graphs
        /\ live' = [t \in Tasks |-> IF t \in graph' THEN got[Runner].status[t] ELSE "pending"]
        /\ liveResult' = [t \in Tasks |-> IF t \in graph' THEN got[Runner].result[t] ELSE None]
        /\ StepTo(Runner, "open", 1) /\ got' = [got EXCEPT ![Runner] = Unread]
        /\ UNCHANGED <<schemaVars, dataVars, target, worker, inFlight, bounds>>
    BY DEF AdoptGraph
  <1>2. /\ UNCHANGED <<tables, version, row, result, graphRow, members, edges, failures,
                       cancels, deletes, escapes>>
        /\ TypeOK /\ got[Runner] \in Reads /\ PlaceOK(Runner) /\ ReadsWhole(Runner)
    BY <1>1 DEF schemaVars, dataVars, bounds, StoreInv, Integrity, TypeOK, Reads, Statuses
  <1>3. \A t \in graph' : t \in Tasks /\ got[Runner].status[t] # None
    <2>1. graph' \subseteq Tasks
      BY <1>1, SubgraphFacts
    <2> QED BY <1>1, <1>2, <2>1 DEF PlaceOK, Passed, Loading
  <1>4. live' \in [Tasks -> TaskStatus] /\ liveResult' \in Statuses
    BY <1>1, <1>2, <1>3 DEF Reads, Statuses, TaskStatus
  <1>5. /\ pc' \in [Procs -> Places] /\ pos' \in [Procs -> Nat] /\ pc'[Runner] = "open"
        /\ \A o \in Procs \ {Runner} : pc'[o] = pc[o] /\ pos'[o] = pos[o]
    BY <1>1, <1>2, Stepped DEF Places, Using
  <1>6. got' \in [Procs -> Reads] /\ \A o \in Procs \ {Runner} : got'[o] = got[o]
    BY <1>1, <1>2, NothingFacts DEF TypeOK, Reads, Statuses
  <1>7. TypeOK'
    <2>1. graph' \subseteq Tasks
      BY <1>3
    <2> QED BY <1>1, <1>2, <1>4, <1>5, <1>6, <2>1 DEF TypeOK, Reads, Statuses, Places, bounds
  <1>8. deletes = 0 => graph' = members
    BY <1>1, <1>2 DEF ReadsWhole
  <1>9. Integrity' /\ SavedWhole'
    BY <1>1, <1>2, <1>7, <1>8 DEF StoreInv, Integrity, SavedWhole
  <1>10. SchemaOK'
    BY <1>1, <1>2, <1>5 DEF StoreInv, SchemaOK, Using
  <1>11. \A t \in Tasks : worker[t] = "none"
    BY <1>1 DEF StoreInv, RunnerOK
  <1>12. RunnerOK'
    BY <1>1, <1>5, <1>11 DEF RunnerOK
  <1>13. RowsFollow'
    <2> SUFFICES ASSUME failures = 0, cancels = 0, deletes = 0
                 PROVE  RowsLive' /\ RunnerReads'
      BY <1>2 DEF RowsFollow, RowsLive
    <2>1. RowsKept /\ RowsOrdered /\ RunnerReads
      BY DEF StoreInv, RowsFollow
    <2>2. \A t \in graph' : live'[t] = row[t]
      BY <1>1, <1>3, <1>8, <2>1 DEF RunnerReads, Passed, Loading
    <2>3. RowsKept' /\ RowsOrdered'
      BY <1>2, <2>1 DEF RowsKept, RowsOrdered
    <2>4. LiveOrdered'
      <3>1. \A e \in EdgesOf(graph') : e \in Edges /\ live'[e[1]] = row[e[1]] /\ live'[e[2]] = row[e[2]]
        BY <1>1, <2>2, SubgraphFacts
      <3> QED BY <1>1, <1>2, <2>1, <3>1 DEF RowsOrdered, LiveOrdered
    <2>5. LiveSaved' /\ RunnerReads'
      BY <1>1, <1>5 DEF LiveSaved, RunnerReads, Loading
    <2> QED BY <2>3, <2>4, <2>5 DEF RowsLive
  <1>14. ASSUME NEW o \in Procs PROVE PlaceOK(o)' /\ ReadsWhole(o)'
    <2>1. CASE o = Runner
      BY <1>1, <1>2, <1>5, <2>1 DEF PlaceOK, ReadsWhole, Using, Loading, Cancelling
    <2>2. CASE o # Runner
      <3>1. pc'[o] = pc[o] /\ pos'[o] = pos[o] /\ target'[o] = target[o] /\ got'[o] = got[o]
        BY <1>1, <1>5, <1>6, <2>2
      <3>2. PlaceOK(o)'
        BY <1>2, <3>1, SamePlace DEF StoreInv, PlaceOK
      <3> QED BY <1>2, <3>1, <3>2, SameReads DEF StoreInv
    <2> QED BY <2>1, <2>2
  <1> QED BY <1>9, <1>10, <1>12, <1>13, <1>14 DEF StoreInv

-----------------------------------------------------------------------------
(* A process ends: what it held in memory is gone, the rows are not.       *)

LEMMA GoneInv ==
    ASSUME StoreInv, NEW p \in Procs, Gone(p), crashes' \in Nat,
           UNCHANGED <<runs, failures, cancels, deletes, escapes>>
    PROVE  StoreInv'
  <1> USE RunnerIsOne, GraphFacts
  <1>1. /\ StepTo(p, "down", 1) /\ target' = [target EXCEPT ![p] = None]
        /\ got' = [got EXCEPT ![p] = Unread]
        /\ p = Runner => /\ phase' = "none" /\ graph' = {}
                         /\ live' = [t \in Tasks |-> "pending"] /\ liveResult' = Nothing
                         /\ worker' = [t \in Tasks |-> "none"]
        /\ p # Runner => UNCHANGED <<phase, graph, live, liveResult, worker>>
        /\ UNCHANGED <<tables, version, row, result, graphRow, members, edges, inFlight>>
    BY DEF Gone, schemaVars, dataVars
  <1>2. TypeOK /\ "down" \in Places
    BY DEF StoreInv, Integrity, Places
  <1>3. /\ pc' \in [Procs -> Places] /\ pos' \in [Procs -> Nat] /\ pc'[p] = "down"
        /\ \A o \in Procs \ {p} : pc'[o] = pc[o] /\ pos'[o] = pos[o]
    BY <1>1, <1>2, Stepped
  <1>4. /\ got' \in [Procs -> Reads] /\ target' \in [Procs -> Tasks \cup {None}]
        /\ \A o \in Procs \ {p} : got'[o] = got[o] /\ target'[o] = target[o]
    BY <1>1, <1>2, NothingFacts DEF TypeOK, Reads, Statuses
  <1>5. /\ phase' \in {"none", phase} /\ graph' \subseteq Tasks /\ live' \in [Tasks -> TaskStatus]
        /\ liveResult' \in Statuses /\ worker' \in [Tasks -> Workings]
    BY <1>1, <1>2, NothingFacts DEF TypeOK, Workings, Statuses, TaskStatus
  <1>6. TypeOK'
    BY <1>1, <1>2, <1>3, <1>4, <1>5 DEF TypeOK, Reads, Statuses, Places, Workings
  <1>7. Integrity' /\ SavedWhole'
    BY <1>1, <1>6 DEF StoreInv, Integrity, SavedWhole
  <1>8. SchemaOK'
    <2>1. \A o \in Procs : pc'[o] # "down" => pc'[o] = pc[o]
      BY <1>3
    <2> QED BY <1>1, <2>1 DEF StoreInv, SchemaOK, Using, Cancelling
  <1>9. RunnerOK'
    BY <1>1, <1>3, NothingFacts DEF StoreInv, RunnerOK
  <1>10. RowsFollow'
    <2> SUFFICES ASSUME failures = 0, cancels = 0, deletes = 0
                 PROVE  RowsLive' /\ RunnerReads'
      BY DEF RowsFollow, RowsLive
    <2>1. RowsLive /\ RunnerReads
      BY DEF StoreInv, RowsFollow, RowsLive
    <2>2. RowsKept' /\ RowsOrdered'
      BY <1>1, <2>1 DEF RowsLive, RowsKept, RowsOrdered
    <2>3. CASE p = Runner
      BY <1>1, <1>3, <2>2, <2>3 DEF RowsLive, LiveOrdered, LiveSaved, RunnerReads, Loading
    <2>4. CASE p # Runner
      <3>1. Passed(Runner)' = Passed(Runner)
        BY <1>3, <2>4, SamePassed
      <3>2. RunnerReads'
        BY <1>1, <1>3, <1>4, <2>1, <2>4, <3>1 DEF RunnerReads
      <3> QED BY <1>1, <2>1, <2>2, <2>4, <3>2 DEF RowsLive, LiveOrdered, LiveSaved, Inactive
    <2> QED BY <2>3, <2>4
  <1>11. ASSUME NEW o \in Procs PROVE PlaceOK(o)' /\ ReadsWhole(o)'
    <2>1. CASE o = p
      BY <1>3, <2>1 DEF PlaceOK, ReadsWhole, Using, Loading, Cancelling
    <2>2. CASE o # p
      <3>1. pc'[o] = pc[o] /\ pos'[o] = pos[o] /\ target'[o] = target[o] /\ got'[o] = got[o]
        BY <1>3, <1>4, <2>2
      <3>2. PlaceOK(o)'
        BY <1>1, <3>1, SamePlace DEF StoreInv, PlaceOK
      <3> QED BY <1>1, <3>1, <3>2, SameReads DEF StoreInv
    <2> QED BY <2>1, <2>2
  <1> QED BY <1>7, <1>8, <1>9, <1>10, <1>11 DEF StoreInv

-----------------------------------------------------------------------------
LEMMA NextInv == StoreInv /\ [Next]_vars => StoreInv'
  <1> SUFFICES ASSUME StoreInv, [Next]_vars PROVE StoreInv'
    OBVIOUS
  <1>1. CASE UNCHANGED vars
    <2>1. Integrity' /\ SchemaOK' /\ RunnerOK' /\ SavedWhole'
      BY <1>1 DEF vars, schemaVars, dataVars, loadVars, runVars, bounds, StoreInv, Integrity,
                  TypeOK, SchemaOK, RunnerOK, SavedWhole
    <2>2. RowsFollow'
      BY <1>1 DEF vars, schemaVars, dataVars, loadVars, runVars, bounds, StoreInv, RowsFollow,
                  RowsKept, RowsOrdered, LiveOrdered, LiveSaved, Inactive, RunnerReads, Passed
    <2>3. \A p \in Procs : PlaceOK(p)' /\ ReadsWhole(p)'
      BY <1>1 DEF vars, schemaVars, dataVars, loadVars, runVars, bounds, StoreInv, PlaceOK,
                  ReadsWhole, Passed, Member
    <2> QED BY <2>1, <2>2, <2>3 DEF StoreInv
  <1>2. CASE RunStep
    <2>1. ASSUME Exit PROVE StoreInv'
      <3>1. Gone(Runner) /\ UNCHANGED <<runs, crashes, failures, cancels, deletes, escapes>>
        BY <2>1 DEF Exit, bounds
      <3>2. crashes' \in Nat
        BY <3>1 DEF StoreInv, Integrity, TypeOK
      <3> QED BY <3>1, <3>2, GoneInv, RunnerIsOne
    <2> QED BY <1>2, <2>1, BuildGraphInv, AdoptGraphInv, RunInv, EndRunInv, AddInv, StartInv,
               BlockInv, SaveTaskInv, BeginHandlerInv, HandlerEndsInv, HandlerEscapesInv, ResetInv
            DEF RunStep
  <1>3. ASSUME NEW p \in Procs, Open(p) \/ Load(p) \/ CancelSteps(p) \/ Delete(p) \/ Crash(p)
        PROVE  StoreInv'
    <2>1. ASSUME Crash(p) PROVE StoreInv'
      <3>1. /\ Gone(p) /\ crashes' = crashes + 1
            /\ UNCHANGED <<runs, failures, cancels, deletes, escapes>>
        BY <2>1 DEF Crash
      <3>2. crashes' \in Nat
        BY <3>1 DEF StoreInv, Integrity, TypeOK
      <3> QED BY <3>1, <3>2, GoneInv
    <2>2. ASSUME CancelSteps(p) PROVE StoreInv'
      BY <2>2, CancelReadInv, CancelReadResultInv, CancelSaveInv DEF CancelSteps
    <2> QED BY <1>3, <2>1, <2>2, OpenInv, LoadInv, DeleteInv
  <1> QED BY <1>1, <1>2, <1>3 DEF Next

\* Whatever processes open, load, cancel and delete, die and start again, the
\* rows refer to each other as the foreign keys demand, and as long as nothing is
\* deleted they hold a graph the runner had or none at all; with no lost save,
\* cancel() or delete they follow the runner's tasks, which start as ready() says.
THEOREM StoreInvariant == Spec => []StoreInv
  BY InitInv, NextInv, PTL DEF Spec

\* A process that dies leaves rows that some moment of the run could have left: no
\* ordinary task is recorded as begun before all its upstream tasks are, although
\* ready() does not wait for an upstream task's end to be saved; and no finally task
\* is recorded RUNNING before what it waits for is recorded as ended.
THEOREM StoredInOrder == Spec => []StoredOrder
  <1>1. StoreInv => StoredOrder
    BY DEF StoreInv, RowsFollow, RowsOrdered, Begun, StoredOrder
  <1> QED BY <1>1, StoreInvariant, PTL

\* As long as nothing is deleted what is loaded is a graph with all its dependencies,
\* whatever runs save and add() adds between its reads; and a load that fails has
\* read the members of a graph that has grown since.
THEOREM LoadedWhole == Spec => []LoadsWhole
  <1>1. StoreInv => LoadsWhole
    BY DEF StoreInv, ReadsWhole, Loading, LoadsWhole
  <1> QED BY <1>1, StoreInvariant, PTL
-----------------------------------------------------------------------------
(* The tables.  What a process has created stays, unless the runner may    *)
(* drop it and is doing so.                                                *)

Created(p) == {Tables[i] : i \in 1 .. pos[p] - 1}
TablesOK ==
    /\ pc[Runner] = "drop" => Destructive # {}
    /\ \A p \in Procs :
          p = Runner \/ Destructive = {} =>
              /\ pc[p] = "create" => Created(p) \subseteq tables
              /\ pc[p] \in Using => tables = AllTables /\ version = Current

\* A process that has opened the store stays in, or ends.
LEMMA StaysIn ==
    ASSUME TypeOK, NEW p \in Procs,
           Load(p) \/ CancelSteps(p) \/ Delete(p) \/ Crash(p)
    PROVE  /\ UNCHANGED schemaVars
           /\ \A o \in Procs : \/ pc'[o] = pc[o] /\ pos'[o] = pos[o]
                               \/ pc[o] \in Using /\ pc'[o] \in Using
                               \/ pc'[o] = "down"
  <1> USE RunnerIsOne
  <1>1. CASE Load(p)
    <2>1. /\ UNCHANGED schemaVars /\ pc[p] \in Using
          /\ \/ \E where \in Using : GoTo(p, where) /\ pos' = pos
             \/ \E where \in Using, n \in Nat : StepTo(p, where, n)
      <3>1. CASE LoadGraph(p) \/ LoadMembers(p) \/ LoadResult(p) \/ Discard(p)
        BY <3>1 DEF LoadGraph, LoadMembers, LoadResult, Discard, Using
      <3>2. CASE LoadRow(p)
        BY <3>2 DEF LoadRow, Using
      <3>3. ASSUME NEW n \in Nat, NEW seen, NextMember(p, n, seen)
            PROVE  \E where \in Using, m \in Nat : StepTo(p, where, m)
        BY <3>3, GraphFacts DEF NextMember, Using
      <3>4. CASE LoadEdges(p)
        BY <3>3, <3>4 DEF LoadEdges, Using
      <3>5. CASE LoadDeps(p)
        <4>1. pos[p] + 1 \in Nat
          BY DEF TypeOK
        <4> QED BY <3>3, <3>5, <4>1 DEF LoadDeps, Using
      <3> QED BY <1>1, <3>1, <3>2, <3>4, <3>5 DEF Load
    <2> QED BY <2>1 DEF GoTo, StepTo, TypeOK
  <1>2. CASE CancelSteps(p)
    BY <1>2 DEF CancelSteps, CancelRead, CancelReadResult, CancelSave, GoTo, TypeOK, Using
  <1>3. CASE Delete(p)
    BY <1>3 DEF Delete, DeleteTask, DeleteGraph, loadVars
  <1>4. CASE Crash(p)
    BY <1>4 DEF Crash, Gone, StepTo, GoTo, TypeOK
  <1> QED BY <1>1, <1>2, <1>3, <1>4

LEMMA RunnerStaysIn ==
    ASSUME TypeOK, RunStep
    PROVE  /\ UNCHANGED schemaVars
           /\ \A o \in Procs : \/ pc'[o] = pc[o] /\ pos'[o] = pos[o]
                               \/ pc[o] \in Using /\ pc'[o] \in Using
                               \/ pc'[o] = "down"
  <1> USE RunnerIsOne
  <1>1. CASE AdoptGraph
    BY <1>1 DEF AdoptGraph, StepTo, GoTo, TypeOK, Using
  <1>2. CASE Exit
    BY <1>2 DEF Exit, Gone, StepTo, GoTo, TypeOK
  <1>3. CASE BuildGraph \/ Run \/ EndRun
    BY <1>3 DEF BuildGraph, Run, EndRun, loadVars
  <1>4. ASSUME NEW t \in Tasks, \/ Add(t) \/ Start(t) \/ Block(t) \/ SaveTask(t) \/ Reset(t)
                                \/ BeginHandler(t) \/ HandlerEnds(t) \/ HandlerEscapes(t)
        PROVE  UNCHANGED <<schemaVars, loadVars>>
    BY <1>4 DEF Add, Start, Block, SaveTask, BeginHandler, HandlerEnds, HandlerEscapes, Reset
  <1> QED BY <1>1, <1>2, <1>3, <1>4 DEF RunStep, loadVars

LEMMA TablesInv == StoreInv /\ TablesOK /\ [Next]_vars => TablesOK'
  <1> SUFFICES ASSUME StoreInv, TablesOK, [Next]_vars PROVE TablesOK'
    OBVIOUS
  <1> USE RunnerIsOne
  <1>0. TypeOK
    BY DEF StoreInv, Integrity
  <1>1. ASSUME UNCHANGED schemaVars,
               \A o \in Procs : \/ pc'[o] = pc[o] /\ pos'[o] = pos[o]
                                \/ pc[o] \in Using /\ pc'[o] \in Using
                                \/ pc'[o] = "down"
        PROVE  TablesOK'
    <2>1. \A o \in Procs : /\ pc'[o] = "create" => pc[o] = "create" /\ Created(o)' = Created(o)
                           /\ pc'[o] \in Using => pc[o] \in Using
                           /\ pc'[o] = "drop" => pc[o] = "drop"
      BY <1>1 DEF Using, Created
    <2> QED BY <1>1, <2>1 DEF TablesOK, schemaVars
  <1>2. ASSUME NEW p \in Procs, Open(p) PROVE TablesOK'
    <2>0. PICK where \in Places, n \in Nat : Opens(p, where, n)
      BY <1>2, OpenSteps
    <2>1. /\ pc'[p] = where /\ pos'[p] = n
          /\ \A o \in Procs \ {p} : pc'[o] = pc[o] /\ pos'[o] = pos[o]
      BY <1>0, <2>0, Stepped DEF Opens
    <2>2. \/ tables \subseteq tables' /\ (version' = version \/ version' = Current)
          \/ p = Runner /\ Destructive # {}
      <3>1. CASE DropTable(p)
        BY <3>1 DEF DropTable, TablesOK, StoreInv, PlaceOK
      <3>2. CASE ~DropTable(p)
        BY <1>2, <3>2 DEF Open, LookAtTables, LookAtVersion, CreateTable, Stamp, schemaVars
      <3> QED BY <3>1, <3>2
    <2>3. pc'[Runner] = "drop" => Destructive # {}
      <3>1. CASE p = Runner
        <4>1. CASE DropTable(p)
          BY <3>1, <4>1 DEF DropTable, TablesOK
        <4>2. CASE LookAtTables(p) \/ LookAtVersion(p)
          BY <1>0, <3>1, <4>2 DEF LookAtTables, LookAtVersion, StepTo, GoTo, TypeOK
        <4>3. CASE CreateTable(p) \/ Stamp(p)
          BY <1>0, <3>1, <4>3 DEF CreateTable, Stamp, StepTo, GoTo, TypeOK
        <4> QED BY <1>2, <4>1, <4>2, <4>3 DEF Open
      <3>2. CASE p # Runner
        BY <2>1, <3>2 DEF TablesOK
      <3> QED BY <3>1, <3>2
    <2>4. pc'[p] = "create" => Created(p)' \subseteq tables'
                               \/ ~(p = Runner \/ Destructive = {})
      <3> SUFFICES ASSUME pc'[p] = "create", p = Runner \/ Destructive = {}
                   PROVE  Created(p)' \subseteq tables'
        OBVIOUS
      <3>1. CASE n = 1
        BY <2>1, <3>1 DEF Created
      <3>2. CASE n # 1
        <4>1. CreateTable(p)
          BY <1>0, <1>2, <2>1, <3>2
             DEF Open, LookAtTables, LookAtVersion, DropTable, Stamp, StepTo, GoTo, TypeOK
        <4>2. /\ pc[p] = "create" /\ n = pos[p] + 1 /\ tables' = tables \cup {Tables[pos[p]]}
              /\ pos[p] \in Nat
          BY <1>0, <2>1, <4>1 DEF CreateTable, StepTo, TypeOK
        <4>3. \A i \in 1 .. n - 1 : i = pos[p] \/ i \in 1 .. pos[p] - 1
          BY <4>2
        <4>4. Created(p) \subseteq tables
          BY <4>2 DEF TablesOK
        <4> QED BY <2>1, <4>2, <4>3, <4>4 DEF Created
      <3> QED BY <3>1, <3>2
    <2>5. pc'[p] \in Using /\ (p = Runner \/ Destructive = {}) =>
             tables' = AllTables /\ version' = Current
      <3> SUFFICES ASSUME pc'[p] \in Using, p = Runner \/ Destructive = {}
                   PROVE  tables' = AllTables /\ version' = Current
        OBVIOUS
      <3>1. where = "open"
        BY <2>0, <2>1 DEF Opens, Using
      <3>2. Stamp(p)
        BY <1>0, <1>2, <2>1, <3>1
           DEF Open, LookAtTables, LookAtVersion, DropTable, CreateTable, StepTo, GoTo, TypeOK
      <3>3. /\ pc[p] = "create" /\ pos[p] > 3 /\ pos[p] \in Nat /\ tables' = tables
        BY <1>0, <3>2, TableFacts DEF Stamp, TypeOK
      <3>4. Created(p) \subseteq tables /\ tables \subseteq AllTables
        BY <1>0, <3>3 DEF TablesOK, TypeOK
      <3>5. 1 \in 1 .. pos[p] - 1 /\ 2 \in 1 .. pos[p] - 1 /\ 3 \in 1 .. pos[p] - 1
        BY <3>3
      <3>6. Tables[1] \in tables /\ Tables[2] \in tables /\ Tables[3] \in tables
        BY <3>4, <3>5 DEF Created
      <3> QED BY <2>0, <3>1, <3>3, <3>4, <3>6, TableFacts DEF Opens
    <2>6. ASSUME NEW o \in Procs, o # p, o = Runner \/ Destructive = {}
          PROVE  /\ pc'[o] = "create" => Created(o)' \subseteq tables'
                 /\ pc'[o] \in Using => tables' = AllTables /\ version' = Current
      <3>1. pc'[o] = pc[o] /\ Created(o)' = Created(o)
        BY <2>1, <2>6 DEF Created
      <3>2. tables \subseteq tables' /\ (version' = version \/ version' = Current)
        BY <2>2, <2>6
      <3>3. tables' \subseteq AllTables
        BY <2>0 DEF Opens
      <3> QED BY <2>6, <3>1, <3>2, <3>3 DEF TablesOK
    <2> QED BY <2>3, <2>4, <2>5, <2>6 DEF TablesOK
  <1>3. CASE UNCHANGED vars
    BY <1>1, <1>3 DEF vars, loadVars
  <1>4. CASE RunStep
    BY <1>0, <1>1, <1>4, RunnerStaysIn
  <1>5. ASSUME NEW p \in Procs, Load(p) \/ CancelSteps(p) \/ Delete(p) \/ Crash(p)
        PROVE  TablesOK'
    BY <1>0, <1>1, <1>5, StaysIn
  <1> QED BY <1>2, <1>3, <1>4, <1>5 DEF Next

\* A store that has opened has all its tables and the current version, as long
\* as no process that may rebuild the file is on its way in.
THEOREM SchemaStaysWhole == Spec => []SchemaWhole
  <1>1. Init => TablesOK
    BY RunnerIsOne DEF Init, TablesOK, Using
  <1>2. StoreInv /\ TablesOK => SchemaWhole
    <2> SUFFICES ASSUME TablesOK, \A p \in Destructive : pc[p] \in Using,
                        NEW p \in Procs, pc[p] \in Using
                 PROVE  tables = AllTables /\ version = Current
      BY DEF SchemaWhole
    <2>1. CASE Destructive = {}
      BY <2>1 DEF TablesOK
    <2>2. CASE Runner \in Destructive
      BY <2>2, RunnerIsOne DEF TablesOK
    <2> QED BY <2>1, <2>2, RunnerIsOne
  <1> QED BY <1>1, <1>2, TablesInv, StoreInvariant, PTL DEF Spec
-----------------------------------------------------------------------------
SameSaved == \A t \in graph : row[t] = live[t] /\ result[t] = liveResult[t]

LEMMA CatchesUpStep == StoreInv /\ StoreCatchesUp /\ [Next]_vars => StoreCatchesUp'
  <1> SUFFICES ASSUME StoreInv, StoreCatchesUp, [Next]_vars,
                      phase' = "saved", cancels' = 0, deletes' = 0
               PROVE  SameSaved'
    BY DEF StoreCatchesUp, SameSaved
  <1>0. TypeOK /\ Integrity /\ cancels \in Nat /\ deletes \in Nat
    BY DEF StoreInv, Integrity, TypeOK
  <1>1. ASSUME UNCHANGED <<row, result, graph, live, liveResult, phase, cancels, deletes>>
        PROVE  SameSaved'
    BY <1>1 DEF StoreCatchesUp, SameSaved
  <1>2. CASE UNCHANGED vars
    BY <1>1, <1>2 DEF vars, dataVars, runVars, bounds
  <1>3. CASE RunStep
    <2>1. ASSUME NEW t \in Tasks, \/ Add(t) \/ Start(t) \/ Block(t) \/ SaveTask(t) \/ Reset(t)
                                  \/ BeginHandler(t) \/ HandlerEnds(t) \/ HandlerEscapes(t)
          PROVE  FALSE
      <3>1. CASE Add(t) \/ Start(t) \/ Block(t) \/ Reset(t)
        BY <3>1 DEF Add, Start, Block, Reset
      <3>2. CASE SaveTask(t) \/ BeginHandler(t) \/ HandlerEnds(t) \/ HandlerEscapes(t)
        BY <3>2, AtWork DEF SaveTask, BeginHandler, HandlerEnds, HandlerEscapes
      <3> QED BY <2>1, <3>1, <3>2
    <2>2. ~BuildGraph /\ ~AdoptGraph /\ ~Run
      BY DEF BuildGraph, AdoptGraph, Run
    <2>3. ~Exit
      BY RunnerIsOne DEF Exit, Gone
    <2>4. CASE EndRun
      <3>1. Commit(graph) /\ UNCHANGED <<graph, live, liveResult>>
        BY <2>4 DEF EndRun, SaveGraph
      <3>2. /\ row' = [t \in Tasks |-> IF t \in graph THEN live[t] ELSE row[t]]
            /\ result' = [t \in Tasks |-> IF t \in graph THEN liveResult[t] ELSE result[t]]
        BY <3>1 DEF Commit
      <3> QED BY <1>0, <3>1, <3>2 DEF TypeOK, SameSaved
    <2> QED BY <1>3, <2>1, <2>2, <2>3, <2>4 DEF RunStep
  <1>4. ASSUME NEW p \in Procs, Open(p) PROVE SameSaved'
    BY <1>1, <1>4, OpenSteps DEF dataVars, runVars, bounds
  <1>5. ASSUME NEW p \in Procs, Load(p) PROVE SameSaved'
    BY <1>1, <1>5, LoadFrame DEF dataVars, runVars, bounds
  <1>6. ASSUME NEW p \in Procs, CancelSteps(p) PROVE SameSaved'
    <2>1. CASE \E t \in Tasks : CancelRead(p, t)
      BY <1>0, <2>1 DEF CancelRead
    <2>2. CASE CancelReadResult(p)
      BY <1>1, <2>2 DEF CancelReadResult, dataVars, runVars, bounds
    <2>3. CASE CancelSave(p)
      BY <2>3 DEF CancelSave, StoreInv, PlaceOK, Cancelling, bounds
    <2> QED BY <1>6, <2>1, <2>2, <2>3 DEF CancelSteps
  <1>7. ASSUME NEW p \in Procs, Delete(p) PROVE FALSE
    BY <1>0, <1>7 DEF Delete, DeleteTask, DeleteGraph
  <1>8. ASSUME NEW p \in Procs, Crash(p) PROVE SameSaved'
    <2>1. p # Runner
      BY <1>8 DEF Crash, Gone
    <2> QED BY <1>1, <1>8, <2>1 DEF Crash, Gone, dataVars
  <1> QED BY <1>2, <1>3, <1>4, <1>5, <1>6, <1>7, <1>8 DEF Next

\* When run() has saved the graph the store holds what is in memory, whatever
\* saves of single tasks were lost, and nothing but the store's own cancel()
\* and deletes changes that before the next run.
THEOREM CatchesUp == Spec => []StoreCatchesUp
  <1>1. Init => StoreCatchesUp
    BY DEF Init, StoreCatchesUp
  <1> QED BY <1>1, CatchesUpStep, StoreInvariant, PTL DEF Spec
-----------------------------------------------------------------------------
(* No handler is repeated.  A task that is recorded as SUCCEEDED is over in *)
(* every copy that may still be run, and one whose handler's end is not     *)
(* recorded is, after a restart, RUNNING or CANCELLED.                      *)

Mild == failures = 0 /\ (cancels = 0 \/ deletes = 0)
Sinks == {"succeeded", "cancelled"}
Halted == {"running", "cancelled"}

\* What the runner's load has read of t is in S, if it has.
ReadAs(t, S) ==
    pc[Runner] \in Loading \cup {"loaded"} =>
        \A i \in Passed(Runner) :
            Order[i] = t /\ t \in got[Runner].members => got[Runner].status[t] \in S

Settled(t) ==
    row[t] \in Sinks /\ (phase # "none" /\ t \in graph => live[t] \in Sinks) /\ ReadAs(t, Sinks)

AtHand(t) ==
    \/ worker[t] = "handler"
    \/ worker[t] = "ending" /\ live[t] \in {"succeeded", "failed", "cancelled"}
    \/ worker[t] = "none" /\ live[t] \in Halted
    \/ worker[t] = "done" /\ live[t] = "running"

Unrecorded(t) ==
    /\ row[t] \in Halted \cup {None} /\ ReadAs(t, Halted)
    /\ phase # "none" /\ t \in graph => AtHand(t)

\* A cancel() that has read a task as SUCCEEDED will write that back.
WritesBack(p) == pc[p] \in Cancelling /\ got[p].status[target[p]] = "succeeded"

RepeatOK ==
    Mild =>
        /\ \A t \in Tasks : row[t] = "succeeded" => Settled(t)
        /\ \A p \in Procs : WritesBack(p) => Settled(target[p]) /\ target[p] \notin inFlight
        /\ \A t \in inFlight : Unrecorded(t)
        /\ \A t \in Tasks : worker[t] = "begin" => row[t] \in Halted \cup {None}

LEMMA SameReadAs ==
    ASSUME NEW t, NEW S, ReadAs(t, S), pc'[Runner] = pc[Runner], pos'[Runner] = pos[Runner],
           got'[Runner] = got[Runner]
    PROVE  ReadAs(t, S)'
  BY RunnerIsOne, SamePassed DEF ReadAs

\* The counters only grow.
LEMMA MildBefore == TypeOK /\ [Next]_vars /\ Mild' => Mild
  <1> SUFFICES ASSUME TypeOK, [Next]_vars, Mild' PROVE Mild
    OBVIOUS
  <1>0. failures \in Nat /\ cancels \in Nat /\ deletes \in Nat
    BY DEF TypeOK
  <1>1. CASE UNCHANGED vars
    BY <1>1 DEF vars, bounds, Mild
  <1>2. CASE RunStep
    <2>1. failures' = failures \/ failures' = failures + 1
      BY <1>2 DEF RunStep, BuildGraph, AdoptGraph, Run, EndRun, Exit, Add, Start, Block, SaveTask,
                  BeginHandler, HandlerEnds, HandlerEscapes, Reset, SaveGraph, Commit, Swallowed,
                  bounds
    <2>2. UNCHANGED <<cancels, deletes>>
      BY <1>2 DEF RunStep, BuildGraph, AdoptGraph, Run, EndRun, Exit, Add, Start, Block, SaveTask,
                  BeginHandler, HandlerEnds, HandlerEscapes, Reset, bounds
    <2> QED BY <1>0, <2>1, <2>2 DEF Mild
  <1>3. ASSUME NEW p \in Procs, Open(p) \/ Load(p) \/ CancelSteps(p) \/ Delete(p) \/ Crash(p)
        PROVE  Mild
    <2>1. UNCHANGED failures
      BY <1>3 DEF Open, LookAtTables, LookAtVersion, DropTable, CreateTable, Stamp, Load, LoadGraph,
                  LoadMembers, LoadEdges, LoadRow, LoadResult, LoadDeps, Discard, CancelSteps,
                  CancelRead, CancelReadResult, CancelSave, Delete, DeleteTask, DeleteGraph,
                  Crash, bounds
    <2>2. /\ cancels' = cancels \/ cancels' = cancels + 1
          /\ deletes' = deletes \/ deletes' = deletes + 1
      BY <1>3 DEF Open, LookAtTables, LookAtVersion, DropTable, CreateTable, Stamp, Load, LoadGraph,
                  LoadMembers, LoadEdges, LoadRow, LoadResult, LoadDeps, Discard, CancelSteps,
                  CancelRead, CancelReadResult, CancelSave, Delete, DeleteTask, DeleteGraph,
                  Crash, bounds
    <2> QED BY <1>0, <2>1, <2>2 DEF Mild
  <1> QED BY <1>1, <1>2, <1>3 DEF Next

\* A load of the runner reads the rows as they are.
LEMMA LoadReadsAs ==
    ASSUME StoreInv, Load(Runner), NEW t \in Tasks, NEW S, None \notin S,
           row[t] \in S \cup {None}, ReadAs(t, S)
    PROVE  ReadAs(t, S)'
  <1> USE RunnerIsOne, GraphFacts
  <1>1. TypeOK /\ PlaceOK(Runner) /\ pos[Runner] \in Nat /\ got[Runner] \in Reads
    BY DEF StoreInv, Integrity, TypeOK, Reads, Statuses
  <1>2. CASE LoadGraph(Runner) \/ LoadMembers(Runner) \/ Discard(Runner)
    <2>1. pc'[Runner] \in {"members", "edges", "open"}
      BY <1>1, <1>2 DEF LoadGraph, LoadMembers, Discard, GoTo, StepTo, TypeOK
    <2> QED BY <2>1 DEF ReadAs, Loading
  <1>3. CASE LoadEdges(Runner)
    <2>1. CASE \E e \in edges : e[1] \notin got[Runner].members
      BY <1>1, <1>3, <2>1 DEF LoadEdges, StepTo, GoTo, TypeOK, ReadAs, Loading
    <2>2. CASE ~ \E e \in edges : e[1] \notin got[Runner].members
      <3>1. NextMember(Runner, 1, got[Runner].members)
        BY <1>3, <2>2 DEF LoadEdges
      <3>2. \A i \in Passed(Runner)' : i < 1 \/ Order[i] \notin got[Runner].members
        BY <1>1, <3>1, NextPlace
      <3>3. got'[Runner].members = got[Runner].members
        BY <1>1, <1>3 DEF LoadEdges, TypeOK
      <3> QED BY <3>2, <3>3 DEF ReadAs, Passed
    <2> QED BY <2>1, <2>2
  <1>4. CASE LoadRow(Runner)
    <2>1. /\ pc[Runner] = "row" /\ pos' = pos /\ pos[Runner] \in DOMAIN Order
          /\ Member(Runner) \in Tasks
      BY <1>1, <1>4 DEF LoadRow, PlaceOK, Loading, Member
    <2>2. CASE row[Member(Runner)] = None
      BY <1>1, <1>4, <2>2 DEF LoadRow, GoTo, TypeOK, ReadAs, Loading
    <2>3. CASE row[Member(Runner)] # None
      <3>1. /\ pc'[Runner] = "result" /\ got'[Runner].members = got[Runner].members
            /\ got'[Runner].status = [got[Runner].status EXCEPT ![Member(Runner)] = row[Member(Runner)]]
        <4> DEFINE r == [got[Runner] EXCEPT
                           !.status = [got[Runner].status EXCEPT ![Member(Runner)] = row[Member(Runner)]]]
        <4>1. pc'[Runner] = "result" /\ got' = [got EXCEPT ![Runner] = r]
          BY <1>1, <1>4, <2>3 DEF LoadRow, GoTo, TypeOK
        <4>2. got'[Runner] = r
          BY <1>1, <4>1 DEF TypeOK
        <4>3. /\ r.members = got[Runner].members
              /\ r.status = [got[Runner].status EXCEPT ![Member(Runner)] = row[Member(Runner)]]
          BY <1>1 DEF Reads
        <4> QED BY <4>1, <4>2, <4>3
      <3>2. \A u \in Tasks : got'[Runner].status[u] = IF u = Member(Runner) THEN row[u]
                                                      ELSE got[Runner].status[u]
        BY <1>1, <2>1, <3>1 DEF Reads, Statuses
      <3>3. \A i \in Passed(Runner)' : i \in DOMAIN Order /\ (i \in Passed(Runner) \/ Order[i] = Member(Runner))
        BY <1>1, <2>1, <3>1 DEF Passed, Member
      <3> QED BY <2>1, <2>3, <3>1, <3>2, <3>3 DEF ReadAs, Loading
    <2> QED BY <2>2, <2>3
  <1>5. CASE LoadResult(Runner)
    <2>1. /\ pc[Runner] = "result" /\ pc'[Runner] = "deps" /\ pos' = pos
          /\ got'[Runner].members = got[Runner].members
          /\ got'[Runner].status = got[Runner].status
      BY <1>1, <1>5 DEF LoadResult, GoTo, TypeOK
    <2>2. Passed(Runner)' = Passed(Runner)
      BY <2>1 DEF Passed
    <2> QED BY <2>1, <2>2 DEF ReadAs, Loading
  <1>6. CASE LoadDeps(Runner)
    <2>1. pc[Runner] = "deps" /\ got' = got
      BY <1>6 DEF LoadDeps
    <2>2. CASE \E e \in got[Runner].edges : e[1] = Member(Runner) /\ row[e[2]] = None
      BY <1>1, <1>6, <2>2 DEF LoadDeps, StepTo, GoTo, TypeOK, ReadAs, Loading
    <2>3. CASE ~ \E e \in got[Runner].edges : e[1] = Member(Runner) /\ row[e[2]] = None
      <3>1. NextMember(Runner, pos[Runner] + 1, got[Runner].members)
        BY <1>6, <2>3 DEF LoadDeps
      <3>2. \A i \in Passed(Runner)' : i < pos[Runner] + 1 \/ Order[i] \notin got[Runner].members
        <4>1. pos[Runner] + 1 \in Nat /\ pos[Runner] + 1 > 0
          BY <1>1
        <4> QED BY <1>1, <3>1, <4>1, NextPlace
      <3>3. \A i \in Passed(Runner)' : i \in Passed(Runner) \/ Order[i] \notin got[Runner].members
        BY <1>1, <2>1, <3>2 DEF Passed
      <3> QED BY <2>1, <3>3 DEF ReadAs, Loading
    <2> QED BY <2>2, <2>3
  <1> QED BY <1>2, <1>3, <1>4, <1>5, <1>6 DEF Load
\* A step that only reads, and of one process at most.
LEMMA ReadRepeat ==
    ASSUME StoreInv, RepeatOK, Mild, NEW p \in Procs,
           UNCHANGED <<row, phase, graph, live, worker, inFlight>>,
           \A o \in Procs \ {p} :
               pc'[o] = pc[o] /\ pos'[o] = pos[o] /\ target'[o] = target[o] /\ got'[o] = got[o],
           WritesBack(p)' => \/ WritesBack(p) /\ target'[p] = target[p]
                             \/ target'[p] \in Tasks /\ row[target'[p]] = "succeeded",
           p = Runner => \A t \in Tasks, S \in {Sinks, Halted} :
                            row[t] \in S \cup {None} /\ ReadAs(t, S) => ReadAs(t, S)'
    PROVE  RepeatOK'
  <1> USE RunnerIsOne
  <1>1. \A t \in Tasks, S \in {Sinks, Halted} : row[t] \in S \cup {None} /\ ReadAs(t, S) => ReadAs(t, S)'
    BY SameReadAs
  <1>2. \A t \in Tasks : Settled(t) => Settled(t)'
    BY <1>1 DEF Settled
  <1>3. inFlight \subseteq Tasks /\ \A t \in inFlight : row[t] # "succeeded"
    BY GraphFacts DEF StoreInv, Integrity, TypeOK, RepeatOK, Unrecorded, Halted, TaskStatus
  <1>4. \A t \in inFlight : Unrecorded(t)'
    BY <1>1, <1>3 DEF RepeatOK, Unrecorded, AtHand
  <1>5. \A t \in Tasks : row[t] = "succeeded" => Settled(t)'
    BY <1>2 DEF RepeatOK
  <1>6. ASSUME NEW o \in Procs, WritesBack(o)'
        PROVE  Settled(target[o])' /\ target'[o] \notin inFlight
    <2>1. CASE WritesBack(o) /\ target'[o] = target[o]
      <3>1. target[o] \in Tasks /\ Settled(target[o]) /\ target[o] \notin inFlight
        BY <2>1 DEF StoreInv, PlaceOK, WritesBack, RepeatOK
      <3> QED BY <1>2, <2>1, <3>1 DEF Settled, ReadAs
    <2>2. CASE target'[o] \in Tasks /\ row[target'[o]] = "succeeded"
      <3>1. target'[o] \notin inFlight
        BY <1>3, <2>2
      <3>2. \A t \in Tasks : t = target'[o] => Settled(t)'
        BY <1>5, <2>2
      <3> QED BY <2>2, <3>1, <3>2 DEF Settled, ReadAs
    <2>3. o # p => WritesBack(o) /\ target'[o] = target[o]
      BY <1>6 DEF WritesBack
    <2> QED BY <1>6, <2>1, <2>2, <2>3
  <1> QED BY <1>4, <1>5, <1>6 DEF RepeatOK

\* A step of the runner on its graph: nothing that is over starts again.
LEMMA RunnerRepeat ==
    ASSUME StoreInv, RepeatOK, Mild, pc[Runner] = "open", UNCHANGED loadVars,
           inFlight' \subseteq Tasks,
           \A t \in Tasks : Settled(t) =>
               row'[t] \in Sinks /\ (phase' # "none" /\ t \in graph' => live'[t] \in Sinks),
           \A t \in Tasks : Settled(t) => t \in inFlight \/ t \notin inFlight',
           \A t \in Tasks : row'[t] = "succeeded" /\ phase' # "none" /\ t \in graph' =>
                              live'[t] \in Sinks,
           \A t \in inFlight' : /\ row'[t] \in Halted \cup {None}
                                /\ phase' # "none" /\ t \in graph' => AtHand(t)',
           \A t \in Tasks : worker'[t] = "begin" => row'[t] \in Halted \cup {None}
    PROVE  RepeatOK'
  <1> USE RunnerIsOne
  <1>1. UNCHANGED <<pc, pos, target, got>>
    BY DEF loadVars
  <1>2. \A t, S : ReadAs(t, S)'
    BY <1>1 DEF ReadAs, Loading
  <1>3. \A t \in Tasks : row'[t] = "succeeded" => Settled(t)'
    BY <1>2 DEF Settled, Sinks
  <1>4. \A t \in inFlight' : Unrecorded(t)'
    BY <1>2 DEF Unrecorded
  <1>5. ASSUME NEW o \in Procs, WritesBack(o)'
        PROVE  Settled(target[o])' /\ target'[o] \notin inFlight'
    <2>1. WritesBack(o) /\ target'[o] = target[o]
      BY <1>1, <1>5 DEF WritesBack
    <2>2. target[o] \in Tasks /\ Settled(target[o]) /\ target[o] \notin inFlight
      BY <2>1 DEF StoreInv, PlaceOK, WritesBack, RepeatOK
    <2>3. \A t \in Tasks : t = target[o] => Settled(t)' /\ t \notin inFlight'
      BY <1>2, <2>2 DEF Settled
    <2> QED BY <2>1, <2>2, <2>3 DEF Settled, ReadAs
  <1> QED BY <1>3, <1>4, <1>5 DEF RepeatOK

\* What is known of the runner's tasks in RepeatOK.
LEMMA Known ==
    ASSUME StoreInv, RepeatOK, Mild, phase # "none"
    PROVE  /\ TypeOK /\ pc[Runner] = "open"
           /\ \A t \in Tasks : /\ Settled(t) => row[t] \in Sinks /\ (t \in graph => live[t] \in Sinks)
                               /\ row[t] = "succeeded" /\ t \in graph => live[t] \in Sinks
           /\ \A t \in inFlight :
                 /\ t \in Tasks /\ row[t] \in Halted \cup {None}
                 /\ t \in graph => /\ AtHand(t)
                                   /\ live[t] \in {"running", "cancelled", "succeeded", "failed"}
  <1>1. TypeOK /\ pc[Runner] = "open"
    BY DEF StoreInv, Integrity, RunnerOK
  <1>2. \A t \in Tasks : /\ Settled(t) => row[t] \in Sinks /\ (t \in graph => live[t] \in Sinks)
                         /\ row[t] = "succeeded" /\ t \in graph => live[t] \in Sinks
    BY DEF RepeatOK, Settled
  <1>3. \A t \in inFlight : t \in Tasks /\ row[t] \in Halted \cup {None} /\ (t \in graph => AtHand(t))
    BY <1>1 DEF RepeatOK, Unrecorded, TypeOK
  <1>4. \A t \in inFlight : t \in graph => live[t] \in {"running", "cancelled", "succeeded", "failed"}
    BY <1>3 DEF AtHand, Halted, StoreInv, RunnerOK
  <1> QED BY <1>1, <1>2, <1>3, <1>4

\* A save writes what is in memory; what it records as ended is no longer in flight.
LEMMA SaveRepeat ==
    ASSUME StoreInv, RepeatOK, Mild, phase # "none", phase' # "none",
           UNCHANGED <<loadVars, graph, live>>,
           NEW saved \in SUBSET graph, Commit(saved),
           \A t \in inFlight \cap graph : t \notin saved \/ live[t] = "running" => AtHand(t)',
           \A t \in Tasks : worker'[t] = "begin" =>
                              worker[t] = "begin" \/ (t \in saved /\ live[t] = "running")
    PROVE  RepeatOK'
  <1> USE RunnerIsOne
  <1>1. /\ TypeOK /\ Integrity /\ pc[Runner] = "open" /\ saved \in SUBSET Tasks
        /\ \A t \in Tasks : /\ Settled(t) => row[t] \in Sinks /\ (t \in graph => live[t] \in Sinks)
                            /\ row[t] = "succeeded" /\ t \in graph => live[t] \in Sinks
        /\ \A t \in inFlight :
              /\ t \in Tasks /\ row[t] \in Halted \cup {None}
              /\ t \in graph => live[t] \in {"running", "cancelled", "succeeded", "failed"}
    BY Known DEF StoreInv, TypeOK
  <1>2. \A t \in Tasks : row'[t] = IF t \in saved THEN live[t] ELSE row[t]
    BY <1>1, Saved
  <1>3. inFlight' = inFlight \ {t \in saved : IsTerminal(live[t])}
    BY DEF Commit
  <1>4. \A t \in Tasks : Settled(t) => row'[t] \in Sinks /\ (t \in graph' => live'[t] \in Sinks)
    BY <1>1, <1>2
  <1>5. \A t \in Tasks : row'[t] = "succeeded" /\ t \in graph' => live'[t] \in Sinks
    BY <1>1, <1>2 DEF Sinks
  <1>6. \A t \in inFlight' : t \notin saved \/ live[t] = "running"
    BY <1>1, <1>3 DEF IsTerminal
  <1>7. \A t \in inFlight' : row'[t] \in Halted \cup {None} /\ (t \in graph' => AtHand(t)')
    BY <1>1, <1>2, <1>3, <1>6 DEF Halted
  <1>8. \A t \in Tasks : worker'[t] = "begin" => row'[t] \in Halted \cup {None}
    <2>1. \A t \in Tasks : worker[t] = "begin" => /\ row[t] \in Halted \cup {None}
                                                /\ live[t] = "running"
      BY DEF RepeatOK, StoreInv, RunnerOK
    <2> QED BY <1>2, <2>1 DEF Halted
  <1> QED BY <1>1, <1>3, <1>4, <1>5, <1>7, <1>8, RunnerRepeat

\* A step of a worker that saves nothing.
LEMMA WorkerRepeat ==
    ASSUME StoreInv, RepeatOK, Mild, phase = "active", UNCHANGED <<loadVars, row, phase, graph>>,
           NEW t \in graph, t \in Tasks, NEW s \in TaskStatus, NEW w,
           live' = [live EXCEPT ![t] = s], worker' = [worker EXCEPT ![t] = w],
           live[t] \in Sinks => s = live[t],
           inFlight' \subseteq inFlight \cup {t},
           t \in inFlight' => /\ row[t] \in Halted \cup {None} /\ live[t] \notin Sinks
                              /\ \/ w = "handler"
                                 \/ w = "ending" /\ s \in {"succeeded", "failed", "cancelled"}
                                 \/ w = "done" /\ s = "running",
           w # "begin"
    PROVE  RepeatOK'
  <1>1. /\ TypeOK /\ pc[Runner] = "open"
        /\ \A u \in Tasks : /\ Settled(u) => row[u] \in Sinks /\ (u \in graph => live[u] \in Sinks)
                            /\ row[u] = "succeeded" /\ u \in graph => live[u] \in Sinks
        /\ \A u \in inFlight : /\ u \in Tasks /\ row[u] \in Halted \cup {None}
                               /\ u \in graph => AtHand(u)
    BY Known
  <1>2. \A u \in Tasks : /\ live'[u] = IF u = t THEN s ELSE live[u]
                         /\ worker'[u] = IF u = t THEN w ELSE worker[u]
    BY <1>1 DEF TypeOK
  <1>3. \A u \in Tasks : live[u] \in Sinks => live'[u] \in Sinks
    BY <1>2
  <1>4. \A u \in inFlight' : row'[u] \in Halted \cup {None} /\ (u \in graph' => AtHand(u)')
    BY <1>1, <1>2 DEF AtHand
  <1>5. inFlight' \subseteq Tasks
    BY <1>1
  <1>6. \A u \in Tasks : worker'[u] = "begin" => row'[u] \in Halted \cup {None}
    BY <1>2 DEF RepeatOK
  <1>7. \A u \in Tasks : Settled(u) => row'[u] \in Sinks /\ (u \in graph' => live'[u] \in Sinks)
    BY <1>1, <1>3
  <1>8. \A u \in Tasks : Settled(u) => u \in inFlight \/ u \notin inFlight'
    BY <1>1
  <1>9. \A u \in Tasks : row'[u] = "succeeded" /\ u \in graph' => live'[u] \in Sinks
    BY <1>1, <1>3
  <1> QED BY <1>1, <1>4, <1>5, <1>6, <1>7, <1>8, <1>9, RunnerRepeat

LEMMA RunRepeat ==
    ASSUME StoreInv, RepeatOK, Mild, Mild',
           Run \/ EndRun \/ \E t \in Tasks : SaveTask(t)
    PROVE  RepeatOK'
  <1>1. phase # "none"
    <2>1. ASSUME NEW t \in Tasks, SaveTask(t) PROVE phase # "none"
      BY <2>1, AtWork DEF SaveTask
    <2> QED BY <2>1 DEF Run, EndRun
  <1>2. /\ TypeOK /\ pc[Runner] = "open" /\ graph \subseteq Tasks
        /\ \A t \in Tasks : /\ Settled(t) => row[t] \in Sinks /\ (t \in graph => live[t] \in Sinks)
                            /\ row[t] = "succeeded" /\ t \in graph => live[t] \in Sinks
        /\ \A t \in inFlight : /\ t \in Tasks /\ row[t] \in Halted \cup {None}
                               /\ t \in graph => AtHand(t)
    BY <1>1, Known DEF TypeOK
  <1>3. ~Swallowed
    BY <1>2, LostSave DEF Mild
  <1>4. CASE Run
    <2>1. /\ phase' \in {"refused", "active"} /\ UNCHANGED <<loadVars, graph, live, worker>>
          /\ SaveGraph \/ UNCHANGED <<row, inFlight>>
      BY <1>3, <1>4 DEF Run, dataVars
    <2>2. \A t \in inFlight \cap graph : AtHand(t)'
      BY <1>2, <2>1 DEF AtHand
    <2>3. CASE SaveGraph
      <3>1. Commit(graph) /\ phase' # "none" /\ graph \in SUBSET graph
        BY <2>1, <2>3 DEF SaveGraph
      <3>2. \A t \in Tasks : worker'[t] = "begin" =>
                              worker[t] = "begin" \/ (t \in graph /\ live[t] = "running")
        BY <2>1
      <3> QED BY <1>1, <2>1, <2>2, <3>1, <3>2, SaveRepeat
    <2>4. CASE UNCHANGED <<row, inFlight>>
      <3>1. \A t \in Tasks : worker'[t] = "begin" => row'[t] \in Halted \cup {None}
        BY <2>1, <2>4 DEF RepeatOK
      <3>2. \A t \in inFlight' : row'[t] \in Halted \cup {None} /\ (t \in graph' => AtHand(t)')
        BY <1>2, <2>1, <2>2, <2>4
      <3> QED BY <1>2, <2>1, <2>4, <3>1, <3>2, RunnerRepeat
    <2> QED BY <2>1, <2>3, <2>4
  <1>5. CASE EndRun
    <2>1. /\ SaveGraph /\ phase' = "saved" /\ UNCHANGED <<loadVars, graph, live>>
          /\ worker' = [t \in Tasks |-> "none"]
      BY <1>3, <1>5 DEF EndRun
    <2>2. \A t \in inFlight \cap graph : t \notin graph \/ live[t] = "running" => AtHand(t)'
      BY <1>2, <2>1 DEF AtHand, Halted
    <2>3. Commit(graph) /\ graph \in SUBSET graph /\ phase' # "none"
      BY <2>1 DEF SaveGraph
    <2> QED BY <1>1, <2>1, <2>2, <2>3, SaveRepeat
  <1>6. ASSUME NEW t \in Tasks, SaveTask(t) PROVE RepeatOK'
    <2>1. /\ Commit({t}) /\ UNCHANGED <<loadVars, graph, live, phase>>
          /\ worker[t] \in {"starting", "ending"}
          /\ worker' = [worker EXCEPT ![t] = IF worker[t] = "starting" THEN "begin" ELSE "done"]
      BY <1>3, <1>6 DEF SaveTask
    <2>2. \A u \in Tasks : worker'[u] = IF u = t THEN IF worker[t] = "starting" THEN "begin" ELSE "done"
                                                  ELSE worker[u]
      BY <1>2, <2>1 DEF TypeOK
    <2>3. \A u \in inFlight \cap graph : u # t => AtHand(u)'
      BY <1>2, <2>1, <2>2 DEF AtHand
    <2>4. t \in inFlight \cap graph => live[t] # "running"
      BY <1>2, <2>1 DEF AtHand
    <2>5. t \in graph /\ (worker[t] = "starting" => live[t] = "running")
      BY <2>1 DEF StoreInv, RunnerOK
    <2>6. \A u \in inFlight \cap graph : u \notin {t} \/ live[u] = "running" => AtHand(u)'
      BY <2>3, <2>4
    <2>7. \A u \in Tasks : worker'[u] = "begin" =>
                            worker[u] = "begin" \/ (u \in {t} /\ live[u] = "running")
      BY <2>2, <2>5
    <2>8. {t} \in SUBSET graph /\ phase' # "none"
      BY <1>1, <2>1, <2>5
    <2> QED BY <1>1, <2>1, <2>6, <2>7, <2>8, SaveRepeat
  <1> QED BY <1>4, <1>5, <1>6

LEMMA WorkRepeat ==
    ASSUME StoreInv, RepeatOK, Mild, NEW t \in Tasks,
           Start(t) \/ Block(t) \/ BeginHandler(t) \/ HandlerEnds(t) \/ HandlerEscapes(t)
    PROVE  RepeatOK'
  <1>1. phase = "active" /\ t \in graph
    BY AtWork DEF Start, Block, BeginHandler, HandlerEnds, HandlerEscapes
  <1>2. /\ TypeOK /\ pc[Runner] = "open"
        /\ \A u \in Tasks : row[u] = "succeeded" /\ u \in graph => live[u] \in Sinks
        /\ \A u \in inFlight : /\ u \in Tasks /\ row[u] \in Halted \cup {None}
                               /\ u \in graph => AtHand(u)
    BY <1>1, Known
  <1>3. UNCHANGED <<loadVars, row, phase, graph>>
    BY DEF Start, Block, BeginHandler, HandlerEnds, HandlerEscapes, dataVars
  <1>4. CASE Start(t)
    <2>1. /\ worker[t] = "none" /\ live[t] \notin Sinks \cup Halted /\ inFlight' = inFlight
          /\ live' = [live EXCEPT ![t] = "running"]
          /\ worker' = [worker EXCEPT ![t] = "starting"] /\ "running" \in TaskStatus
      BY <1>2, <1>4
         DEF Start, CanTransition, AllowedTransitions, TypeOK, TaskStatus, Sinks, Halted
    <2>2. t \notin inFlight
      BY <1>1, <1>2, <2>1 DEF AtHand
    <2> QED BY <1>1, <1>3, <2>1, <2>2, WorkerRepeat
  <1>5. CASE Block(t)
    <2>1. /\ worker[t] = "none" /\ live[t] = "pending" /\ inFlight' = inFlight
          /\ live' = [live EXCEPT ![t] = "blocked"]
          /\ worker' = [worker EXCEPT ![t] = "ending"] /\ "blocked" \in TaskStatus
      BY <1>5 DEF Block, TaskStatus
    <2>2. t \notin inFlight /\ live[t] \notin Sinks
      BY <1>1, <1>2, <2>1 DEF AtHand, Halted, Sinks
    <2> QED BY <1>1, <1>3, <2>1, <2>2, WorkerRepeat
  <1>6. CASE BeginHandler(t)
    <2>1. /\ worker[t] = "begin" /\ inFlight' = inFlight \cup {t} /\ live' = live
          /\ worker' = [worker EXCEPT ![t] = "handler"]
      BY <1>6 DEF BeginHandler
    <2>2. PICK s \in TaskStatus : s = live[t] /\ live' = [live EXCEPT ![t] = s]
      BY <2>1, AtWork
    <2>3. row[t] \in Halted \cup {None} /\ live[t] \notin Sinks
      BY <2>1, AtWork DEF RepeatOK, Sinks
    <2>4. inFlight' \subseteq inFlight \cup {t} /\ (live[t] \in Sinks => s = live[t])
      BY <2>1, <2>3
    <2> QED BY <1>1, <1>3, <2>1, <2>2, <2>3, <2>4, WorkerRepeat
  <1>7. CASE HandlerEnds(t)
    <2>1. PICK s \in {"succeeded", "failed", "cancelled"} : live' = [live EXCEPT ![t] = s]
      BY <1>7 DEF HandlerEnds
    <2>2. /\ worker[t] = "handler" /\ inFlight' = inFlight
          /\ worker' = [worker EXCEPT ![t] = "ending"] /\ s \in TaskStatus
      BY <1>7 DEF HandlerEnds, TaskStatus
    <2>3. live[t] \notin Sinks
      BY <2>2, AtWork DEF Sinks
    <2> QED BY <1>1, <1>2, <1>3, <2>1, <2>2, <2>3, WorkerRepeat
  <1>8. CASE HandlerEscapes(t)
    <2>1. /\ worker[t] = "handler" /\ inFlight' = inFlight /\ live' = live
          /\ worker' = [worker EXCEPT ![t] = "done"]
      BY <1>8 DEF HandlerEscapes
    <2>2. PICK s \in TaskStatus : s = live[t] /\ live' = [live EXCEPT ![t] = s]
      BY <2>1, AtWork
    <2>3. live[t] = "running" /\ live[t] \notin Sinks
      BY <2>1, AtWork DEF Sinks
    <2> QED BY <1>1, <1>2, <1>3, <2>1, <2>2, <2>3, WorkerRepeat
  <1> QED BY <1>4, <1>5, <1>6, <1>7, <1>8

LEMMA AdoptRepeat ==
    ASSUME StoreInv, RepeatOK, Mild, AdoptGraph
    PROVE  RepeatOK'
  <1> USE RunnerIsOne, GraphFacts
  <1>1. /\ pc[Runner] = "loaded" /\ graph' = got[Runner].members /\ phase = "none"
        /\ live' = [t \in Tasks |-> IF t \in graph' THEN got[Runner].status[t] ELSE "pending"]
        /\ UNCHANGED <<row, worker, inFlight, target>>
        /\ StepTo(Runner, "open", 1) /\ got' = [got EXCEPT ![Runner] = Unread]
    BY DEF AdoptGraph, dataVars
  <1>2. /\ pc'[Runner] = "open" /\ TypeOK
        /\ \A o \in Procs \ {Runner} : pc'[o] = pc[o] /\ got'[o] = got[o]
    BY <1>1 DEF StoreInv, Integrity, TypeOK, StepTo, GoTo
  <1>3. \A t, S : ReadAs(t, S)'
    BY <1>2 DEF ReadAs, Loading
  <1>4. \A t \in Tasks : \A S : ReadAs(t, S) /\ t \in graph' => live'[t] \in S
    BY <1>1 DEF ReadAs, Passed, Loading
  <1>5. \A t \in Tasks : Settled(t) => Settled(t)'
    BY <1>1, <1>3, <1>4 DEF Settled
  <1>6. \A t \in Tasks : worker[t] = "none"
    BY <1>1 DEF StoreInv, RunnerOK
  <1>7. \A t \in inFlight : t \in Tasks /\ Unrecorded(t)'
    BY <1>1, <1>2, <1>3, <1>4, <1>6 DEF RepeatOK, Unrecorded, AtHand, TypeOK
  <1>8. ASSUME NEW o \in Procs, WritesBack(o)'
        PROVE  Settled(target[o])' /\ target'[o] \notin inFlight'
    <2>1. WritesBack(o) /\ target'[o] = target[o]
      BY <1>1, <1>2, <1>8 DEF WritesBack, Cancelling
    <2>2. target[o] \in Tasks /\ Settled(target[o]) /\ target[o] \notin inFlight
      BY <2>1 DEF StoreInv, PlaceOK, WritesBack, RepeatOK
    <2> QED BY <1>1, <1>5, <2>1, <2>2 DEF Settled, ReadAs
  <1> QED BY <1>1, <1>5, <1>6, <1>7, <1>8 DEF RepeatOK

\* cancel() leaves a sink in the store, and SUCCEEDED only where it had been before.
LEMMA CancelSaveRepeat ==
    ASSUME StoreInv, RepeatOK, Mild, NEW p \in Procs, CancelSave(p)
    PROVE  RepeatOK'
  <1> USE RunnerIsOne, GraphFacts
  <1> DEFINE t == target[p]
  <1>1. /\ pc[p] = "cancelSave" /\ p # Runner /\ t \in Tasks /\ TypeOK
    BY DEF CancelSave, StoreInv, Integrity, PlaceOK, Cancelling
  <1>2. /\ UNCHANGED <<pos, runVars>> /\ GoTo(p, "open")
        /\ target' = [target EXCEPT ![p] = None] /\ got' = [got EXCEPT ![p] = Unread]
        /\ row' = [row EXCEPT ![t] = IF IsSink(got[p].status[t]) THEN got[p].status[t] ELSE "cancelled"]
    BY DEF CancelSave
  <1>3. /\ pc'[p] = "open"
        /\ \A o \in Procs \ {p} : pc'[o] = pc[o] /\ pos'[o] = pos[o] /\ target'[o] = target[o]
                                  /\ got'[o] = got[o]
    BY <1>1, <1>2 DEF TypeOK, GoTo
  <1>4. /\ \A u \in Tasks \ {t} : row'[u] = row[u]
        /\ row'[t] = "cancelled" \/ (row'[t] = "succeeded" /\ WritesBack(p))
    <2>1. /\ \A u \in Tasks \ {t} : row'[u] = row[u]
          /\ row'[t] = IF IsSink(got[p].status[t]) THEN got[p].status[t] ELSE "cancelled"
      BY <1>1, <1>2 DEF TypeOK
    <2>2. got[p].status[t] = "succeeded" => WritesBack(p)
      BY <1>1 DEF WritesBack, Cancelling
    <2> QED BY <2>1, <2>2 DEF IsSink
  <1>5. row'[t] \in Sinks /\ UNCHANGED <<phase, graph, live, worker, inFlight>>
    BY <1>2, <1>4 DEF Sinks, runVars
  <1>6. \A u, S : ReadAs(u, S) => ReadAs(u, S)'
    BY <1>1, <1>3, SameReadAs
  <1>7. \A u \in Tasks : Settled(u) => Settled(u)'
    BY <1>4, <1>5, <1>6 DEF Settled
  <1>8. WritesBack(p) => Settled(t) /\ t \notin inFlight
    BY DEF RepeatOK
  <1>9. \A u \in Tasks : row'[u] = "succeeded" => Settled(u)'
    BY <1>1, <1>4, <1>7, <1>8 DEF RepeatOK
  <1>10. \A u \in inFlight : u \in Tasks /\ Unrecorded(u)'
    BY <1>1, <1>4, <1>5, <1>6, <1>8 DEF RepeatOK, Unrecorded, AtHand, TypeOK, Halted
  <1>11. \A u \in Tasks : worker'[u] = "begin" => row'[u] \in Halted \cup {None}
    <2>1. worker[t] = "begin" => ~WritesBack(p)
      <3> SUFFICES ASSUME worker[t] = "begin", WritesBack(p) PROVE FALSE
        OBVIOUS
      <3>1. live[t] = "running" /\ phase # "none" /\ t \in graph
        BY <1>1 DEF StoreInv, RunnerOK
      <3> QED BY <1>8, <3>1 DEF Settled, Sinks
    <2> QED BY <1>4, <1>5, <2>1 DEF RepeatOK, Halted
  <1>12. ASSUME NEW o \in Procs, WritesBack(o)'
         PROVE  Settled(target[o])' /\ target'[o] \notin inFlight'
    <2>1. o # p /\ WritesBack(o) /\ target'[o] = target[o]
      BY <1>3, <1>12 DEF WritesBack, Cancelling
    <2>2. target[o] \in Tasks /\ Settled(target[o]) /\ target[o] \notin inFlight
      BY <2>1 DEF StoreInv, PlaceOK, WritesBack, RepeatOK
    <2> QED BY <1>5, <1>7, <2>1, <2>2 DEF Settled, ReadAs
  <1> QED BY <1>5, <1>9, <1>10, <1>11, <1>12 DEF RepeatOK

LEMMA DeleteRepeat ==
    ASSUME StoreInv, RepeatOK, Mild, Mild', NEW p \in Procs, Delete(p)
    PROVE  RepeatOK'
  <1> USE RunnerIsOne, GraphFacts
  <1>1. /\ UNCHANGED <<loadVars, runVars, cancels>> /\ deletes' = deletes + 1
        /\ row' = row \/ \E t \in Tasks : row' = [row EXCEPT ![t] = None]
    BY DEF Delete, DeleteTask, DeleteGraph
  <1>2. TypeOK /\ deletes' # 0
    BY <1>1 DEF StoreInv, Integrity, TypeOK
  <1>3. cancels = 0 /\ \A o \in Procs : ~WritesBack(o)
    BY <1>1, <1>2 DEF Mild, StoreInv, PlaceOK, WritesBack
  <1>4. \A t \in Tasks : row'[t] \in {row[t], None}
    BY <1>1, <1>2 DEF TypeOK
  <1>5. \A t, S : ReadAs(t, S) => ReadAs(t, S)'
    BY <1>1, SameReadAs DEF loadVars
  <1>6. \A t \in Tasks : row'[t] = "succeeded" => Settled(t)'
    BY <1>1, <1>4, <1>5 DEF RepeatOK, Settled, runVars, TaskStatus
  <1>7. \A t \in inFlight : t \in Tasks /\ Unrecorded(t)'
    BY <1>1, <1>2, <1>4, <1>5 DEF RepeatOK, Unrecorded, AtHand, TypeOK, runVars
  <1>8. \A t \in Tasks : worker'[t] = "begin" => row'[t] \in Halted \cup {None}
    BY <1>1, <1>4 DEF RepeatOK, runVars
  <1>9. \A o \in Procs : ~WritesBack(o)'
    BY <1>1, <1>3 DEF WritesBack, loadVars
  <1> QED BY <1>1, <1>6, <1>7, <1>8, <1>9 DEF RepeatOK, runVars

LEMMA GoneRepeat ==
    ASSUME StoreInv, RepeatOK, Mild, NEW p \in Procs, Gone(p)
    PROVE  RepeatOK'
  <1> USE RunnerIsOne, GraphFacts
  <1>1. /\ TypeOK /\ UNCHANGED <<row, inFlight>> /\ pc'[p] = "down"
        /\ \A o \in Procs \ {p} : pc'[o] = pc[o] /\ pos'[o] = pos[o] /\ target'[o] = target[o]
                                  /\ got'[o] = got[o]
    BY DEF StoreInv, Integrity, TypeOK, Gone, StepTo, GoTo, dataVars
  <1>2. CASE p # Runner
    <2>1. UNCHANGED <<phase, graph, live, worker>>
      BY <1>2 DEF Gone
    <2>2. ~WritesBack(p)'
      BY <1>1 DEF WritesBack, Cancelling
    <2> QED BY <1>1, <1>2, <2>1, <2>2, ReadRepeat
  <1>3. CASE p = Runner
    <2>1. phase' = "none" /\ worker' = [t \in Tasks |-> "none"]
      BY <1>3 DEF Gone
    <2>2. \A t, S : ReadAs(t, S)'
      BY <1>1, <1>3 DEF ReadAs, Loading
    <2>3. \A t \in Tasks : Settled(t) => Settled(t)'
      BY <1>1, <2>1, <2>2 DEF Settled
    <2>4. \A t \in inFlight : Unrecorded(t)'
      BY <1>1, <2>1, <2>2 DEF RepeatOK, Unrecorded
    <2>5. ASSUME NEW o \in Procs, WritesBack(o)'
          PROVE  Settled(target[o])' /\ target'[o] \notin inFlight'
      <3>1. WritesBack(o) /\ target'[o] = target[o]
        BY <1>1, <2>5 DEF WritesBack, Cancelling
      <3>2. target[o] \in Tasks /\ Settled(target[o]) /\ target[o] \notin inFlight
        BY <3>1 DEF StoreInv, PlaceOK, WritesBack, RepeatOK
      <3> QED BY <1>1, <2>3, <3>1, <3>2 DEF Settled, ReadAs
    <2> QED BY <1>1, <2>1, <2>3, <2>4, <2>5 DEF RepeatOK
  <1> QED BY <1>2, <1>3

LEMMA RepeatInv == StoreInv /\ RepeatOK /\ [Next]_vars => RepeatOK'
  <1> SUFFICES ASSUME StoreInv, RepeatOK, [Next]_vars, Mild' PROVE RepeatOK'
    BY DEF RepeatOK
  <1> USE RunnerIsOne, GraphFacts
  <1>0. TypeOK /\ Mild
    BY MildBefore DEF StoreInv, Integrity
  <1>1. CASE UNCHANGED vars
    BY <1>1 DEF vars, schemaVars, dataVars, loadVars, runVars, bounds, RepeatOK, Mild, Settled,
                Unrecorded, AtHand, ReadAs, WritesBack, Passed
  <1>2. CASE RunStep
    <2>1. ASSUME BuildGraph PROVE RepeatOK'
      <3>1. /\ pc[Runner] = "open" /\ row' = Nothing /\ row = Nothing /\ inFlight' = {}
            /\ UNCHANGED <<loadVars, worker>> /\ phase = "none"
        BY <2>1 DEF BuildGraph, dataVars
      <3>2. \A t \in Tasks : ~Settled(t) /\ row'[t] # "succeeded" /\ worker'[t] = "none"
        BY <3>1, NothingFacts DEF Settled, Sinks, TaskStatus, StoreInv, RunnerOK
      <3> QED BY <1>0, <3>1, <3>2, RunnerRepeat
    <2>2. ASSUME NEW t \in Tasks, Reset(t) PROVE RepeatOK'
      <3>1. /\ phase = "refused" /\ live' = [live EXCEPT ![t] = "cancelled"]
            /\ UNCHANGED <<loadVars, row, graph, worker, inFlight>>
        BY <2>2 DEF Reset, dataVars
      <3>2. /\ pc[Runner] = "open"
            /\ \A u \in Tasks : /\ Settled(u) => row[u] \in Sinks /\ (u \in graph => live[u] \in Sinks)
                                /\ row[u] = "succeeded" /\ u \in graph => live[u] \in Sinks
            /\ \A u \in inFlight : /\ u \in Tasks /\ row[u] \in Halted \cup {None}
                                   /\ u \in graph => AtHand(u)
        BY <1>0, <3>1, Known
      <3>3. \A u \in Tasks : live'[u] = (IF u = t THEN "cancelled" ELSE live[u]) /\ worker[u] = "none"
        BY <1>0, <3>1 DEF TypeOK, StoreInv, RunnerOK
      <3>4. \A u \in inFlight' : row'[u] \in Halted \cup {None} /\ (u \in graph' => AtHand(u)')
        BY <3>1, <3>2, <3>3 DEF AtHand, Halted
      <3>5. \A u \in Tasks : live[u] \in Sinks => live'[u] \in Sinks
        BY <3>3 DEF Sinks
      <3>6. inFlight' \subseteq Tasks
        BY <3>1, <3>2
      <3> QED BY <1>0, <3>1, <3>2, <3>3, <3>4, <3>5, <3>6, RunnerRepeat
    <2>3. ASSUME NEW t \in Tasks, Add(t) PROVE RepeatOK'
      <3>1. /\ phase \in {"ready", "saved", "unsaved"} /\ t \notin graph /\ row[t] = None
            /\ graph' = graph \cup {t} /\ inFlight' = inFlight \ {t}
            /\ UNCHANGED <<loadVars, row, live, worker>>
        BY <2>3 DEF Add, dataVars
      <3>2. /\ pc[Runner] = "open"
            /\ \A u \in Tasks : /\ Settled(u) => row[u] \in Sinks /\ (u \in graph => live[u] \in Sinks)
                                /\ row[u] = "succeeded" /\ u \in graph => live[u] \in Sinks
            /\ \A u \in inFlight : /\ u \in Tasks /\ row[u] \in Halted \cup {None}
                                   /\ u \in graph => AtHand(u)
        BY <1>0, <3>1, Known
      <3>3. row[t] \notin Sinks /\ row[t] # "succeeded" /\ \A u \in Tasks : worker[u] = "none"
        BY <3>1 DEF Sinks, TaskStatus, StoreInv, RunnerOK
      <3>4. \A u \in inFlight' : row'[u] \in Halted \cup {None} /\ (u \in graph' => AtHand(u)')
        BY <3>1, <3>2 DEF AtHand
      <3> QED BY <1>0, <3>1, <3>2, <3>3, <3>4, RunnerRepeat
    <2> QED BY <1>0, <1>2, <2>1, <2>2, <2>3, AdoptRepeat, RunRepeat, WorkRepeat, GoneRepeat
            DEF RunStep, Exit
  <1>3. ASSUME NEW p \in Procs, Open(p) PROVE RepeatOK'
    <2>0. PICK where \in Places, n \in Nat : Opens(p, where, n)
      BY <1>3, OpenSteps
    <2>1. /\ pc'[p] = where /\ where \in {"version", "drop", "create", "open", "refused"}
          /\ \A o \in Procs \ {p} : pc'[o] = pc[o] /\ pos'[o] = pos[o]
      BY <1>0, <2>0, Stepped DEF Opens
    <2>2. UNCHANGED <<row, phase, graph, live, worker, inFlight, target, got>>
      BY <1>3, OpenSteps DEF dataVars, runVars
    <2>3. ~WritesBack(p)' /\ (p = Runner => \A t, S : ReadAs(t, S)')
      BY <2>1 DEF WritesBack, Cancelling, ReadAs, Loading
    <2> QED BY <1>0, <2>1, <2>2, <2>3, ReadRepeat
  <1>4. ASSUME NEW p \in Procs, Load(p) PROVE RepeatOK'
    <2>1. UNCHANGED <<row, phase, graph, live, worker, inFlight, target>>
      BY <1>4, LoadFrame DEF dataVars, runVars
    <2>2. /\ pc'[p] \notin Cancelling
          /\ \A o \in Procs \ {p} : pc'[o] = pc[o] /\ pos'[o] = pos[o] /\ got'[o] = got[o]
      <3>1. CASE LoadGraph(p) \/ LoadMembers(p) \/ LoadRow(p) \/ LoadResult(p) \/ Discard(p)
        BY <1>0, <3>1 DEF LoadGraph, LoadMembers, LoadRow, LoadResult, Discard, StepTo, GoTo,
                          TypeOK, Cancelling
      <3>2. CASE LoadEdges(p)
        <4>1. got' = [got EXCEPT ![p].edges = edges]
              /\ (StepTo(p, "missing", 1) \/ NextMember(p, 1, got[p].members))
          BY <3>2 DEF LoadEdges
        <4>2. CASE StepTo(p, "missing", 1)
          BY <1>0, <4>1, <4>2 DEF StepTo, GoTo, TypeOK, Cancelling
        <4>3. CASE NextMember(p, 1, got[p].members)
          <5>1. /\ pc'[p] \in {"row", "loaded"}
                /\ \A o \in Procs \ {p} : pc'[o] = pc[o] /\ pos'[o] = pos[o]
            BY <1>0, <4>3, NextPlace
          <5> QED BY <1>0, <4>1, <5>1 DEF TypeOK, Cancelling
        <4> QED BY <4>1, <4>2, <4>3
      <3>3. CASE LoadDeps(p)
        <4>1. pos[p] + 1 \in Nat /\ pos[p] + 1 > 0
          BY <1>0 DEF TypeOK
        <4>2. got' = got
              /\ (StepTo(p, "missing", 1) \/ NextMember(p, pos[p] + 1, got[p].members))
          BY <3>3 DEF LoadDeps
        <4>3. CASE StepTo(p, "missing", 1)
          BY <1>0, <4>2, <4>3 DEF StepTo, GoTo, TypeOK, Cancelling
        <4>4. CASE NextMember(p, pos[p] + 1, got[p].members)
          <5>1. /\ pc'[p] \in {"row", "loaded"}
                /\ \A o \in Procs \ {p} : pc'[o] = pc[o] /\ pos'[o] = pos[o]
            BY <1>0, <4>1, <4>4, NextPlace
          <5> QED BY <4>2, <5>1 DEF Cancelling
        <4> QED BY <4>2, <4>3, <4>4
      <3> QED BY <1>4, <3>1, <3>2, <3>3 DEF Load
    <2>3. ~WritesBack(p)'
      BY <2>2 DEF WritesBack
    <2>4. p = Runner => \A t \in Tasks, S \in {Sinks, Halted} :
                           row[t] \in S \cup {None} /\ ReadAs(t, S) => ReadAs(t, S)'
      <3>1. None \notin Sinks /\ None \notin Halted
        BY DEF Sinks, Halted, TaskStatus
      <3> QED BY <1>4, <3>1, LoadReadsAs
    <2> QED BY <1>0, <2>1, <2>2, <2>3, <2>4, ReadRepeat
  <1>5. ASSUME NEW p \in Procs, CancelSteps(p) PROVE RepeatOK'
    <2>1. ASSUME NEW t \in Tasks, CancelRead(p, t) PROVE RepeatOK'
      <3>1. /\ p # Runner /\ UNCHANGED <<row, phase, graph, live, worker, inFlight, pos>>
            /\ got' = [got EXCEPT ![p].status[t] = row[t]] /\ GoTo(p, "cancelResult")
            /\ target' = [target EXCEPT ![p] = t]
        BY <2>1 DEF CancelRead, dataVars, runVars
      <3>2. /\ \A o \in Procs \ {p} : pc'[o] = pc[o] /\ target'[o] = target[o] /\ got'[o] = got[o]
            /\ target'[p] = t
        BY <1>0, <3>1 DEF GoTo, TypeOK
      <3>3. got'[p].status[t] = row[t]
        <4> DEFINE r == [got[p] EXCEPT !.status = [got[p].status EXCEPT ![t] = row[t]]]
        <4>1. got[p] \in Reads /\ got' = [got EXCEPT ![p] = r]
          BY <1>0, <3>1 DEF TypeOK, Reads, Statuses
        <4>2. got'[p] = r
          BY <1>0, <4>1 DEF TypeOK
        <4>3. r.status[t] = row[t]
          BY <4>1 DEF Reads, Statuses
        <4> QED BY <4>2, <4>3
      <3>4. WritesBack(p)' => row[t] = "succeeded"
        BY <3>2, <3>3 DEF WritesBack
      <3> QED BY <1>0, <3>1, <3>2, <3>4, ReadRepeat
    <2>2. ASSUME CancelReadResult(p) PROVE RepeatOK'
      <3> DEFINE r == [got[p] EXCEPT !.result = [got[p].result EXCEPT ![target[p]] = result[target[p]]]]
      <3>1. /\ pc[p] = "cancelResult" /\ UNCHANGED <<row, phase, graph, live, worker, inFlight, pos, target>>
            /\ got' = [got EXCEPT ![p] = r] /\ GoTo(p, "cancelSave")
        BY <2>2 DEF CancelReadResult, dataVars, runVars
      <3>2. p # Runner /\ \A o \in Procs \ {p} : pc'[o] = pc[o] /\ got'[o] = got[o]
        BY <1>0, <3>1 DEF GoTo, TypeOK, StoreInv, PlaceOK, Cancelling
      <3>3. got'[p].status = got[p].status
        <4>1. got[p] \in Reads /\ got'[p] = r
          BY <1>0, <3>1 DEF TypeOK, Reads, Statuses
        <4>2. r.status = got[p].status
          BY <4>1 DEF Reads
        <4> QED BY <4>1, <4>2
      <3>4. WritesBack(p)' => WritesBack(p)
        BY <3>1, <3>3 DEF WritesBack, Cancelling
      <3> QED BY <1>0, <3>1, <3>2, <3>4, ReadRepeat
    <2> QED BY <1>0, <1>5, <2>1, <2>2, CancelSaveRepeat DEF CancelSteps
  <1>6. ASSUME NEW p \in Procs, Delete(p) PROVE RepeatOK'
    BY <1>0, <1>6, DeleteRepeat
  <1>7. ASSUME NEW p \in Procs, Crash(p) PROVE RepeatOK'
    BY <1>0, <1>7, GoneRepeat DEF Crash
  <1> QED BY <1>1, <1>2, <1>3, <1>4, <1>5, <1>6, <1>7 DEF Next

\* Whenever processes die, unless a save was lost: a handler is called only when
\* no earlier call of it may have worked without a record of its end, and the
\* store does not have its task as SUCCEEDED.
THEOREM NeverRepeats == Spec => NoRepeat
  <1>1. Init => RepeatOK
    BY RunnerIsOne, NothingFacts, GraphFacts
       DEF Init, RepeatOK, Settled, ReadAs, WritesBack, Cancelling, Loading, TaskStatus
  <1>2. StoreInv /\ RepeatOK /\ [Next]_vars =>
           [failures = 0 /\ (cancels = 0 \/ deletes = 0) =>
               \A t \in Tasks : worker[t] = "begin" /\ worker'[t] = "handler" =>
                                   t \notin inFlight /\ row[t] # "succeeded"]_vars
    <2> SUFFICES ASSUME StoreInv, RepeatOK, Mild, NEW t \in Tasks, worker[t] = "begin"
                 PROVE  t \notin inFlight /\ row[t] # "succeeded"
      BY DEF Mild
    <2>1. row[t] # "succeeded"
      BY GraphFacts DEF RepeatOK, Halted, TaskStatus
    <2>2. phase # "none" /\ t \in graph /\ ~AtHand(t)
      BY DEF StoreInv, RunnerOK, AtHand
    <2> QED BY <2>1, <2>2 DEF RepeatOK, Unrecorded
  <1> QED BY <1>1, <1>2, RepeatInv, StoreInvariant, PTL DEF Spec, NoRepeat

-----------------------------------------------------------------------------
(* A RUNNING that nobody runs.  While no save is lost and no handler is     *)
(* passed by, a row that says so belongs to a task a worker has; one lost   *)
(* save leaves it until the graph is saved when the run ends, and then it   *)
(* takes a second loss, a crash or a BaseException.                         *)

Calm == crashes = 0 /\ escapes = 0 /\ failures <= 1
AtWorker == {"begin", "handler", "ending"}
Tidy == \A t \in Tasks : row[t] # "running" /\ live[t] # "running"
Attended ==
    \A t \in Tasks : /\ live[t] = "running" => worker[t] \in {"starting", "begin", "handler"}
                     /\ row[t] = "running" => t \in graph
RunningOK ==
    Calm =>
        /\ phase # "refused"
        /\ IF phase = "active" THEN Attended ELSE Tidy
        /\ \A t \in Tasks : got[Runner].status[t] # "running"
        /\ failures = 0 => \A t \in Tasks : row[t] = "running" => worker[t] \in AtWorker

LEMMA NotRunning == /\ None # "running" /\ \A t \in Tasks : Nothing[t] # "running"
                    /\ \A t \in Tasks : Unread.status[t] # "running"
  BY GraphFacts DEF Nothing, Unread, TaskStatus

\* Steps that concern neither the runner's tasks nor what it has read.
LEMMA OthersRunning ==
    ASSUME StoreInv, RunningOK, UNCHANGED <<phase, graph, live, worker, failures, escapes>>,
           crashes' = 0 => crashes = 0,
           \A t \in Tasks : row'[t] = "running" => row[t] = "running",
           Calm => \A t \in Tasks : got'[Runner].status[t] # "running"
    PROVE  RunningOK'
  BY DEF RunningOK, Tidy, Calm, Attended

\* What a load has read of a task was its row: nobody is at work while the runner loads.
LEMMA LoadRunning ==
    ASSUME StoreInv, RunningOK, NEW p \in Procs, Load(p)
    PROVE  RunningOK'
  <1> USE RunnerIsOne, NotRunning
  <1>0. got \in [Procs -> Reads] /\ row \in Statuses
    BY DEF StoreInv, Integrity, TypeOK, Reads, Statuses
  <1>1. UNCHANGED <<row, phase, graph, live, worker, failures, crashes, escapes>>
    BY LoadFrame DEF dataVars, runVars, bounds
  <1>2. ASSUME Calm, NEW t \in Tasks
        PROVE  got'[Runner].status[t] # "running"
    <2>0. got[Runner].status[t] # "running"
      BY <1>2 DEF RunningOK
    <2>1. CASE LoadRow(p)
      <3>1. CASE p = Runner /\ row[Member(p)] # None
        <4> DEFINE r == [got[p] EXCEPT !.status = [got[p].status EXCEPT ![Member(p)] = row[Member(p)]]]
        <4>1. pc[Runner] = "row" /\ got' = [got EXCEPT ![p] = r]
          BY <2>1, <3>1 DEF LoadRow
        <4>2. phase = "none"
          BY <4>1 DEF StoreInv, RunnerOK
        <4>3. row[t] # "running"
          BY <1>2, <4>2 DEF RunningOK, Tidy
        <4>4. r.status[t] = IF t = Member(p) THEN row[t] ELSE got[p].status[t]
          BY <1>0 DEF Reads, Statuses
        <4>5. got'[Runner] = r
          BY <1>0, <3>1, <4>1
        <4> QED BY <2>0, <3>1, <4>3, <4>4, <4>5
      <3>2. CASE p # Runner \/ row[Member(p)] = None
        BY <1>0, <2>0, <2>1, <3>2 DEF LoadRow
      <3> QED BY <3>1, <3>2
    <2>2. CASE LoadGraph(p) \/ Discard(p)
      BY <1>0, <2>0, <2>2 DEF LoadGraph, Discard
    <2>3. CASE LoadMembers(p) \/ LoadEdges(p) \/ LoadResult(p) \/ LoadDeps(p)
      <3>1. got'[Runner].status = got[Runner].status
        BY <1>0, <2>3 DEF LoadMembers, LoadEdges, LoadResult, LoadDeps, Reads
      <3> QED BY <2>0, <3>1
    <2> QED BY <2>1, <2>2, <2>3 DEF Load
  <1> QED BY <1>1, <1>2, OthersRunning

\* The store's cancel() and delete write no RUNNING and read nothing for the runner.
LEMMA WritesRunning ==
    ASSUME StoreInv, RunningOK, NEW p \in Procs, CancelSteps(p) \/ Delete(p)
    PROVE  RunningOK'
  <1> USE RunnerIsOne, NotRunning
  <1>0. got \in [Procs -> Reads] /\ row \in Statuses
    BY DEF StoreInv, Integrity, TypeOK, Reads, Statuses
  <1>1. UNCHANGED <<phase, graph, live, worker, failures, crashes, escapes>>
    BY DEF CancelSteps, CancelRead, CancelReadResult, CancelSave, Delete, DeleteTask, DeleteGraph,
           runVars, bounds
  <1>2. got'[Runner] = got[Runner]
    <2>1. pc[p] \in Cancelling => p # Runner
      BY DEF StoreInv, PlaceOK
    <2> QED BY <1>0, <2>1 DEF CancelSteps, CancelRead, CancelReadResult, CancelSave, Delete,
               DeleteTask, DeleteGraph, loadVars, Cancelling
  <1>3. \A t \in Tasks : row'[t] = "running" => row[t] = "running"
    <2>1. CASE CancelSave(p)
      BY <1>0, <2>1 DEF CancelSave, IsSink, Statuses
    <2>2. CASE \E t \in Tasks : DeleteTask(p, t)
      BY <1>0, <2>2 DEF DeleteTask, Statuses
    <2>3. CASE ~CancelSave(p) /\ ~\E t \in Tasks : DeleteTask(p, t)
      BY <2>3 DEF CancelSteps, CancelRead, CancelReadResult, Delete, DeleteGraph, dataVars
    <2> QED BY <2>1, <2>2, <2>3
  <1> QED BY <1>1, <1>2, <1>3, OthersRunning DEF RunningOK

\* A worker's step: it saves RUNNING only to go on, and its end before it stops.
LEMMA WorkerRunning ==
    ASSUME StoreInv, RunningOK, NEW t \in Tasks,
           \/ Start(t) \/ Block(t) \/ SaveTask(t) \/ BeginHandler(t) \/ HandlerEnds(t)
           \/ HandlerEscapes(t)
    PROVE  RunningOK'
  <1> USE NotRunning
  <1>0. /\ row \in Statuses /\ live \in [Tasks -> TaskStatus] /\ worker \in [Tasks -> Workings]
        /\ failures \in Nat /\ escapes \in Nat /\ TypeOK /\ Integrity
    BY DEF StoreInv, Integrity, TypeOK, Statuses, Workings
  <1>1. phase = "active" /\ t \in graph /\ UNCHANGED <<phase, graph, got, crashes>>
    BY AtWork DEF Start, Block, SaveTask, BeginHandler, HandlerEnds, HandlerEscapes, loadVars, bounds
  <1>2. CASE SaveTask(t)
    <2>1. /\ worker[t] \in {"starting", "ending"} /\ live' = live /\ escapes' = escapes
          /\ worker' = [worker EXCEPT ![t] = IF worker[t] = "starting" THEN "begin" ELSE "done"]
      BY <1>2 DEF SaveTask
    <2>2. worker[t] = "ending" => live[t] # "running"
      BY DEF StoreInv, RunnerOK, IsTerminal
    <2>3. Calm => \A u \in Tasks : live'[u] = "running" =>
                                     worker'[u] \in {"starting", "begin", "handler"}
      BY <1>0, <1>1, <2>1, <2>2 DEF RunningOK, Attended
    <2>4. CASE Commit({t})
      <3>1. /\ failures' = failures
            /\ \A u \in Tasks : row'[u] = IF u \in {t} THEN live[u] ELSE row[u]
        BY <1>0, <2>4, Saved
      <3>2. Calm => \A u \in Tasks : row'[u] = "running" => u \in graph
        BY <1>1, <3>1 DEF RunningOK, Attended
      <3>3. ASSUME Calm, failures = 0, NEW u \in Tasks, row'[u] = "running"
            PROVE  worker'[u] \in AtWorker
        BY <1>0, <2>1, <2>2, <3>1, <3>3 DEF RunningOK, AtWorker
      <3> QED BY <1>1, <2>1, <2>3, <3>1, <3>2, <3>3 DEF RunningOK, Calm, Attended
    <2>5. CASE Swallowed
      <3>1. failures' # 0 /\ failures' = failures + 1 /\ row' = row
        BY <1>0, <2>5 DEF Swallowed, dataVars
      <3>2. Calm' => Calm
        BY <1>0, <1>1, <2>1, <3>1 DEF Calm
      <3> QED BY <1>1, <2>3, <3>1, <3>2 DEF RunningOK, Attended
    <2> QED BY <1>2, <2>4, <2>5 DEF SaveTask
  <1>3. CASE Start(t) \/ Block(t) \/ BeginHandler(t) \/ HandlerEnds(t)
    <2>1. UNCHANGED <<row, failures, escapes>>
      BY <1>3 DEF Start, Block, BeginHandler, HandlerEnds, dataVars, bounds
    <2>2. Calm => \A u \in Tasks : live'[u] = "running" =>
                                     worker'[u] \in {"starting", "begin", "handler"}
      <3>1. Calm => \A u \in Tasks : live[u] = "running" =>
                                       worker[u] \in {"starting", "begin", "handler"}
        BY <1>1 DEF RunningOK, Attended
      <3>2. CASE Start(t)
        BY <1>0, <3>1, <3>2 DEF Start
      <3>3. CASE Block(t)
        BY <1>0, <3>1, <3>3 DEF Block
      <3>4. CASE BeginHandler(t)
        BY <1>0, <3>1, <3>4 DEF BeginHandler
      <3>5. CASE HandlerEnds(t)
        BY <1>0, <3>1, <3>5 DEF HandlerEnds
      <3> QED BY <1>3, <3>2, <3>3, <3>4, <3>5
    <2>3. \A u \in Tasks : worker[u] \in AtWorker => worker'[u] \in AtWorker
      BY <1>0, <1>3 DEF Start, Block, BeginHandler, HandlerEnds, AtWorker
    <2> QED BY <1>1, <2>1, <2>2, <2>3 DEF RunningOK, Calm, Attended
  <1>4. CASE HandlerEscapes(t)
    BY <1>0, <1>4 DEF HandlerEscapes, RunningOK, Calm
  <1> QED BY <1>2, <1>3, <1>4

\* A run ends with nobody at work; if that cannot be saved, each end was saved before.
LEMMA EndRunRunning == ASSUME StoreInv, RunningOK, EndRun PROVE RunningOK'
  <1>0. TypeOK /\ Integrity /\ failures \in Nat /\ graph \in Graphs
    BY DEF StoreInv, Integrity, TypeOK, RunnerOK, EndRun
  <1>1. /\ UNCHANGED <<live, graph, got, crashes, escapes>> /\ phase' \in {"saved", "unsaved"}
        /\ worker' = [t \in Tasks |-> "none"] /\ phase = "active"
    BY DEF EndRun, loadVars
  <1>2. \A t \in Tasks : worker[t] \in {"none", "done"}
    BY DEF EndRun, StoreInv, RunnerOK
  <1>3. Calm => \A t \in Tasks : live[t] # "running" /\ (row[t] = "running" => t \in graph)
    BY <1>1, <1>2 DEF RunningOK, Attended
  <1>4. CASE SaveGraph
    <2>1. /\ failures' = failures /\ \A t \in graph : row'[t] = live[t]
          /\ \A t \in Tasks \ graph : row'[t] = row[t]
      BY <1>0, <1>4, GraphSaved
    <2>2. Calm => Tidy'
      BY <1>1, <1>3, <2>1 DEF Tidy
    <2> QED BY <1>1, <2>1, <2>2 DEF RunningOK, Calm, Tidy
  <1>5. CASE Swallowed
    <2>1. failures' = failures + 1 /\ row' = row
      BY <1>5 DEF Swallowed, dataVars
    <2>2. Calm' => Calm /\ failures = 0 /\ failures' # 0
      BY <1>0, <1>1, <2>1 DEF Calm
    <2>3. Calm' => \A t \in Tasks : row[t] # "running"
      BY <1>2, <2>2 DEF RunningOK, AtWorker
    <2> QED BY <1>1, <1>3, <2>1, <2>2, <2>3 DEF RunningOK, Tidy
  <1> QED BY <1>4, <1>5 DEF EndRun

\* A run begins with the rows as they were or with those of tasks that are not RUNNING.
LEMMA RunRunning == ASSUME StoreInv, RunningOK, Run PROVE RunningOK'
  <1>0. TypeOK /\ Integrity /\ failures \in Nat /\ graph \in Graphs /\ graph \subseteq Tasks
    BY DEF StoreInv, Integrity, TypeOK, RunnerOK, Run
  <1>1. /\ UNCHANGED <<live, graph, got, worker, crashes, escapes>>
        /\ phase \in {"ready", "saved", "unsaved"}
    BY DEF Run, loadVars
  <1>2. Calm => Tidy
    BY <1>1 DEF RunningOK
  <1>3. CASE phase' = "active" /\ SaveGraph
    <2>1. /\ failures' = failures /\ \A t \in graph : row'[t] = live[t]
          /\ \A t \in Tasks \ graph : row'[t] = row[t]
      BY <1>0, <1>3, GraphSaved
    <2>2. Calm' = Calm
      BY <1>1, <2>1 DEF Calm
    <2>3. Calm => \A t \in Tasks : row'[t] # "running" /\ live'[t] # "running"
      BY <1>0, <1>1, <1>2, <2>1 DEF Tidy
    <2> QED BY <1>1, <1>3, <2>1, <2>2, <2>3 DEF RunningOK, Attended
  <1>4. CASE phase' = "active" /\ Swallowed
    <2>1. failures' = failures + 1 /\ row' = row
      BY <1>4 DEF Swallowed, dataVars
    <2>2. Calm' => Calm /\ failures' # 0
      BY <1>0, <1>1, <2>1 DEF Calm
    <2> QED BY <1>1, <1>2, <1>4, <2>1, <2>2 DEF RunningOK, Attended, Tidy
  <1>5. CASE phase' = "refused" /\ (\E t \in graph : live[t] = "running") /\ UNCHANGED failures
    <2>1. ~Calm /\ Calm' = Calm
      BY <1>0, <1>1, <1>2, <1>5 DEF Tidy, Calm
    <2> QED BY <2>1 DEF RunningOK
  <1> QED BY <1>3, <1>4, <1>5 DEF Run

\* A graph is built, loaded or grows while nothing is RUNNING.
LEMMA GraphRunning ==
    ASSUME StoreInv, RunningOK, BuildGraph \/ AdoptGraph \/ \E t \in Tasks : Add(t)
    PROVE  RunningOK'
  <1> USE RunnerIsOne, NotRunning
  <1>0. got \in [Procs -> Reads]
    BY DEF StoreInv, Integrity, TypeOK, Reads, Statuses
  <1>1. /\ phase \in {"none", "ready", "saved", "unsaved"} /\ phase' = "ready"
        /\ UNCHANGED <<row, worker, crashes, failures, escapes>>
        /\ \/ live' = [t \in Tasks |-> "pending"] /\ UNCHANGED got
           \/ /\ live' = [t \in Tasks |-> IF t \in graph' THEN got[Runner].status[t] ELSE "pending"]
              /\ got' = [got EXCEPT ![Runner] = Unread]
           \/ UNCHANGED <<live, got>>
    BY DEF BuildGraph, AdoptGraph, Add, dataVars, loadVars, bounds
  <1>2. ASSUME Calm
        PROVE  Tidy' /\ \A t \in Tasks : got'[Runner].status[t] # "running"
    BY <1>0, <1>1, <1>2 DEF RunningOK, Tidy
  <1> QED BY <1>1, <1>2 DEF RunningOK, Calm, Tidy

LEMMA GoneRunning ==
    ASSUME StoreInv, RunningOK, NEW p \in Procs, Gone(p), UNCHANGED <<failures, escapes>>,
           crashes' = 0 => crashes = 0 /\ p = Runner /\ phase # "active"
    PROVE  RunningOK'
  <1> USE RunnerIsOne, NotRunning
  <1>0. got \in [Procs -> Reads]
    BY DEF StoreInv, Integrity, TypeOK, Reads, Statuses
  <1>1. /\ UNCHANGED row /\ got' = [got EXCEPT ![p] = Unread]
        /\ p = Runner => /\ phase' = "none" /\ live' = [t \in Tasks |-> "pending"]
                         /\ worker' = [t \in Tasks |-> "none"]
    BY DEF Gone, dataVars
  <1>2. CASE crashes' = 0
    BY <1>0, <1>1, <1>2 DEF RunningOK, Tidy, Calm
  <1> QED BY <1>2 DEF RunningOK, Calm

LEMMA RunningInv == StoreInv /\ RunningOK /\ [Next]_vars => RunningOK'
  <1> SUFFICES ASSUME StoreInv, RunningOK, [Next]_vars PROVE RunningOK'
    OBVIOUS
  <1> USE RunnerIsOne
  <1>0. crashes \in Nat
    BY DEF StoreInv, Integrity, TypeOK
  <1>1. ASSUME UNCHANGED <<row, got, phase, graph, live, worker, failures, crashes, escapes>>
        PROVE  RunningOK'
    BY <1>1, OthersRunning DEF RunningOK
  <1>2. CASE UNCHANGED vars
    BY <1>1, <1>2 DEF vars, dataVars, loadVars, runVars, bounds
  <1>3. CASE RunStep
    <2>1. ASSUME NEW t \in Tasks, Reset(t) PROVE RunningOK'
      <3>1. phase = "refused" /\ UNCHANGED <<crashes, failures, escapes>>
        BY <2>1 DEF Reset, bounds
      <3> QED BY <3>1 DEF RunningOK, Calm
    <2>2. ASSUME Exit PROVE RunningOK'
      <3>1. Gone(Runner) /\ UNCHANGED <<failures, crashes, escapes>> /\ phase # "active"
        BY <2>2 DEF Exit, bounds
      <3> QED BY <3>1, GoneRunning
    <2> QED BY <1>3, <2>1, <2>2, GraphRunning, RunRunning, EndRunRunning, WorkerRunning DEF RunStep
  <1>4. ASSUME NEW p \in Procs, Open(p) \/ Load(p) \/ CancelSteps(p) \/ Delete(p) \/ Crash(p)
        PROVE  RunningOK'
    <2>1. CASE Open(p)
      BY <1>1, <2>1, OpenSteps DEF dataVars, runVars, bounds
    <2>2. CASE Crash(p)
      <3>1. Gone(p) /\ crashes' # 0 /\ UNCHANGED <<failures, escapes>>
        BY <1>0, <2>2 DEF Crash
      <3> QED BY <3>1, GoneRunning
    <2> QED BY <1>4, <2>1, <2>2, LoadRunning, WritesRunning
  <1> QED BY <1>2, <1>3, <1>4 DEF Next

\* As long as no process died, no BaseException passed a handler by and at most one save
\* was lost, no graph is refused for a RUNNING task, in this process or the next: each
\* task's end is saved twice, after its handler and with the graph.
THEOREM RefusalsExplained == Spec => []RefusedOnlyAfterCrash
  <1>1. Init => RunningOK
    BY NotRunning, RunnerIsOne DEF Init, RunningOK, Tidy
  <1>2. StoreInv /\ RunningOK => RefusedOnlyAfterCrash
    <2>1. StoreInv => crashes \in Nat /\ failures \in Nat /\ escapes \in Nat
      BY DEF StoreInv, Integrity, TypeOK
    <2> QED BY <2>1 DEF RunningOK, RefusedOnlyAfterCrash, Calm
  <1> QED BY <1>1, <1>2, StoreInvariant, RunningInv, PTL DEF Spec

=============================================================================
