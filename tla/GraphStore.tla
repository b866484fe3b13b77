----------------------------- MODULE GraphStore -----------------------------
(***************************************************************************)
(* SQLiteStore of _sqlite.py under the processes that share its file: one  *)
(* runs a task graph and auto-saves it, the others open the same file,     *)
(* load the graph, cancel tasks through the store and delete.  Processes   *)
(* may die at any moment and start again.                                  *)
(*                                                                         *)
(* What is one step is what is one transaction or one statement.  Python's *)
(* sqlite3 begins a transaction for INSERT, UPDATE and DELETE only, so a   *)
(* save or a delete is atomic, while every SELECT sees its own snapshot    *)
(* and every CREATE and DROP TABLE commits by itself.                      *)
(***************************************************************************)
EXTENDS Integers, Sequences, FiniteSets, TaskLifecycle

CONSTANTS
    Tasks, None,
    Order,        \* the tasks, in the order in which a graph may add them
    Edges,        \* their dependencies: <<task, upstream task>>
    Finally,      \* those that are added with finally_=True
    Runner,       \* the process that builds and runs the graph
    Observers,    \* the other processes
    Destructive,  \* processes that pass allow_destructive_migration=True
    Versions,     \* what the file may hold at first: None or a schema version
    MaxMembers, MaxRuns, MaxFaults  \* bounds

Procs == {Runner} \cup Observers
Current == "current"                       \* _SCHEMA_VERSION

\* Three groups stand for the six tables: metadata, tasks with their results,
\* graphs with their members and edges.  They are created in this order and
\* dropped in the opposite one.
Tables == <<"metadata", "tasks", "graphs">>
AllTables == {Tables[i] : i \in DOMAIN Tables}

ASSUME ProcessesAssumption == Runner \notin Observers /\ Destructive \subseteq {Runner}
ASSUME GraphAssumption ==
    /\ Order \in Seq(Tasks) /\ Tasks = {Order[i] : i \in DOMAIN Order}
    /\ Cardinality(Tasks) = Len(Order)
    /\ Finally \subseteq Tasks
    /\ Edges \subseteq Tasks \X Tasks /\ None \notin Tasks \cup TaskStatus \cup {Current}

VARIABLES
    tables, version,           \* the schema as committed
    row, result,               \* tasks and task_results: a status or None
    graphRow, members, edges,  \* graphs, graph_tasks, graph_dependencies
    pc, pos,                   \* per process: what it is doing, and how far it is
    target,                    \* per process: the task SQLiteTaskCollection.cancel is at
    got,                       \* per process: what its load has read so far
    phase,                     \* the runner's graph: "none" until built or loaded
    graph,                     \* its tasks
    live, liveResult,          \* what they are in memory
    worker,                    \* what the pool's worker does for each task
    inFlight,                  \* history: handlers begun whose end is not in the store
    runs, crashes, failures, cancels, deletes, escapes

schemaVars == <<tables, version>>
dataVars == <<row, result, graphRow, members, edges>>
loadVars == <<pc, pos, target, got>>
runVars == <<phase, graph, live, liveResult, worker, inFlight>>
bounds == <<runs, crashes, failures, cancels, deletes, escapes>>
vars == <<schemaVars, dataVars, loadVars, runVars, bounds>>

\* What may go wrong, or come from elsewhere, is bounded altogether.
Faults == crashes + failures + cancels + deletes + escapes

Upstream(t) == {e[2] : e \in {f \in Edges : f[1] = t}}
EdgesOf(S) == {e \in Edges : e[1] \in S}
\* What a graph can be: every task comes with its upstream tasks.
Graphs ==
    {S \in SUBSET Tasks : /\ S # {} /\ Cardinality(S) <= MaxMembers
                          /\ \A e \in EdgesOf(S) : e[2] \in S}
Nothing == [t \in Tasks |-> None]
Unread == [members |-> {}, edges |-> {}, status |-> Nothing, result |-> Nothing]

Init ==
    /\ \E v \in Versions : /\ version = v
                           /\ tables = IF v = None THEN {} ELSE AllTables
    /\ row = Nothing /\ result = Nothing
    /\ graphRow = FALSE /\ members = {} /\ edges = {}
    /\ pc = [p \in Procs |-> "down"]
    /\ pos = [p \in Procs |-> 1]
    /\ target = [p \in Procs |-> None]
    /\ got = [p \in Procs |-> Unread]
    /\ phase = "none" /\ graph = {}
    /\ live = [t \in Tasks |-> "pending"] /\ liveResult = Nothing
    /\ worker = [t \in Tasks |-> "none"]
    /\ inFlight = {}
    /\ runs = 0 /\ crashes = 0 /\ failures = 0 /\ cancels = 0 /\ deletes = 0 /\ escapes = 0

GoTo(p, where) == pc' = [pc EXCEPT ![p] = where]
StepTo(p, where, n) == GoTo(p, where) /\ pos' = [pos EXCEPT ![p] = n]

-----------------------------------------------------------------------------
(* _Connection.__init__: _enforce_schema_version, then the CREATE          *)
(* statements and the version row of _init_schema.                         *)

\* Mutant of Accepted: whatever version is stamped will do.
AcceptedIfAny(v) == v # None

\* The version row lets the opener reuse the tables.
Accepted(v) == v = Current

\* The names in sqlite_master.  (A runner that has had its MaxRuns does not come back.)
LookAtTables(p) ==
    /\ pc[p] = "down" /\ (p = Runner => runs < MaxRuns)
    /\ \/ tables = {} /\ StepTo(p, "create", 1)
       \/ tables # {} /\ "metadata" \in tables /\ StepTo(p, "version", 1)
       \/ /\ tables # {} /\ "metadata" \notin tables
          /\ IF p \in Destructive THEN StepTo(p, "drop", Len(Tables))
                                  ELSE StepTo(p, "refused", 1)
    /\ UNCHANGED <<schemaVars, dataVars, target, got, runVars, bounds>>

\* The schema_version row; a table dropped since then is an OperationalError.
LookAtVersion(p) ==
    /\ pc[p] = "version"
    /\ IF "metadata" \in tables /\ Accepted(version) THEN StepTo(p, "create", 1)
       ELSE IF "metadata" \in tables /\ p \in Destructive
              THEN StepTo(p, "drop", Len(Tables))
              ELSE StepTo(p, "refused", 1)
    /\ UNCHANGED <<schemaVars, dataVars, target, got, runVars, bounds>>

\* DROP TABLE IF EXISTS, with the rows that go with it.
DropTable(p) ==
    /\ pc[p] = "drop"
    /\ LET table == Tables[pos[p]] IN
         /\ tables' = tables \ {table}
         /\ version' = IF table = "metadata" THEN None ELSE version
         /\ IF table = "tasks" THEN row' = Nothing /\ result' = Nothing
                               ELSE UNCHANGED <<row, result>>
         /\ IF table = "graphs" THEN graphRow' = FALSE /\ members' = {} /\ edges' = {}
                                ELSE UNCHANGED <<graphRow, members, edges>>
    /\ IF pos[p] = 1 THEN StepTo(p, "create", 1) ELSE StepTo(p, "drop", pos[p] - 1)
    /\ UNCHANGED <<target, got, runVars, bounds>>

\* CREATE TABLE IF NOT EXISTS.
CreateTable(p) ==
    /\ pc[p] = "create" /\ pos[p] <= Len(Tables)
    /\ tables' = tables \cup {Tables[pos[p]]}
    /\ StepTo(p, "create", pos[p] + 1)
    /\ UNCHANGED <<version, dataVars, target, got, runVars, bounds>>

\* INSERT OR IGNORE of the version row; the store is open.
Stamp(p) ==
    /\ pc[p] = "create" /\ pos[p] > Len(Tables)
    /\ IF "metadata" \in tables
         THEN /\ version' = IF version = None THEN Current ELSE version
              /\ StepTo(p, "open", 1)
         ELSE StepTo(p, "refused", 1) /\ UNCHANGED version
    /\ UNCHANGED <<tables, dataVars, target, got, runVars, bounds>>

Open(p) ==
    LookAtTables(p) \/ LookAtVersion(p) \/ DropTable(p) \/ CreateTable(p) \/ Stamp(p)


-----------------------------------------------------------------------------
(* SQLiteGraphCollection.__getitem__ and SQLiteTaskCollection.__getitem__. *)
(* `members', `edges': about to read those rows; `row', `result': about to *)
(* read these of the pos-th member; `deps': about to load its upstream     *)
(* tasks, of which only the keys are used.                                 *)

Using == {"open", "members", "edges", "row", "result", "deps", "loaded", "missing",
          "cancelRow", "cancelResult", "cancelSave"}

Member(p) == Order[pos[p]]
\* The first place from n on that the members the load has seen occupy.
NextMember(p, n, seen) ==
    \/ \E i \in n .. Len(Order) :
          /\ Order[i] \in seen
          /\ \A j \in n .. i - 1 : Order[j] \notin seen
          /\ StepTo(p, "row", i)
    \/ /\ \A i \in n .. Len(Order) : Order[i] \notin seen
       /\ StepTo(p, "loaded", 1)

LoadGraph(p) ==
    /\ pc[p] = "open" /\ graphRow
    /\ p = Runner => phase = "none"
    /\ GoTo(p, "members")
    /\ got' = [got EXCEPT ![p] = Unread]
    /\ UNCHANGED <<schemaVars, dataVars, pos, target, runVars, bounds>>

LoadMembers(p) ==
    /\ pc[p] = "members"
    /\ got' = [got EXCEPT ![p].members = members]
    /\ GoTo(p, "edges")
    /\ UNCHANGED <<schemaVars, dataVars, pos, target, runVars, bounds>>

\* An edge of a task whose membership was not read is a KeyError.
LoadEdges(p) ==
    /\ pc[p] = "edges"
    /\ got' = [got EXCEPT ![p].edges = edges]
    /\ IF \E e \in edges : e[1] \notin got[p].members
         THEN StepTo(p, "missing", 1)
         ELSE NextMember(p, 1, got[p].members)
    /\ UNCHANGED <<schemaVars, dataVars, target, runVars, bounds>>

LoadRow(p) ==
    /\ pc[p] = "row"
    /\ IF row[Member(p)] = None
         THEN GoTo(p, "missing") /\ UNCHANGED got
         ELSE /\ got' = [got EXCEPT ![p].status[Member(p)] = row[Member(p)]]
              /\ GoTo(p, "result")
    /\ UNCHANGED <<schemaVars, dataVars, pos, target, runVars, bounds>>

LoadResult(p) ==
    /\ pc[p] = "result"
    /\ got' = [got EXCEPT ![p].result[Member(p)] = result[Member(p)]]
    /\ GoTo(p, "deps")
    /\ UNCHANGED <<schemaVars, dataVars, pos, target, runVars, bounds>>

LoadDeps(p) ==
    /\ pc[p] = "deps"
    /\ IF \E e \in got[p].edges : e[1] = Member(p) /\ row[e[2]] = None
         THEN StepTo(p, "missing", 1)
         ELSE NextMember(p, pos[p] + 1, got[p].members)
    /\ UNCHANGED <<schemaVars, dataVars, target, got, runVars, bounds>>

\* An observer looks at its graph and drops it, or meets the KeyError.
Discard(p) ==
    /\ p # Runner /\ pc[p] \in {"loaded", "missing"}
    /\ StepTo(p, "open", 1)
    /\ got' = [got EXCEPT ![p] = Unread]
    /\ UNCHANGED <<schemaVars, dataVars, target, runVars, bounds>>

Load(p) ==
    \/ LoadGraph(p) \/ LoadMembers(p) \/ LoadEdges(p)
    \/ LoadRow(p) \/ LoadResult(p) \/ LoadDeps(p) \/ Discard(p)

-----------------------------------------------------------------------------
(* The other operations of the two collections.                            *)

\* SQLiteTaskCollection.cancel: a task is read as above, cancelled in memory
\* and saved whole.
CancelRead(p, t) ==
    /\ p # Runner /\ pc[p] = "open" /\ Faults < MaxFaults
    /\ row[t] # None
    /\ target' = [target EXCEPT ![p] = t]
    /\ got' = [got EXCEPT ![p].status[t] = row[t]]
    /\ GoTo(p, "cancelResult")
    /\ cancels' = cancels + 1
    /\ UNCHANGED <<schemaVars, dataVars, pos, runVars, runs, crashes, failures,
                   deletes, escapes>>

CancelReadResult(p) ==
    /\ pc[p] = "cancelResult"
    /\ got' = [got EXCEPT ![p].result[target[p]] = result[target[p]]]
    /\ GoTo(p, "cancelSave")
    /\ UNCHANGED <<schemaVars, dataVars, pos, target, runVars, bounds>>

CancelSave(p) ==
    LET t == target[p]
        read == got[p].status[t]
    IN /\ pc[p] = "cancelSave"
       /\ row' = [row EXCEPT ![t] = IF IsSink(read) THEN read ELSE "cancelled"]
       /\ result' = [result EXCEPT ![t] = got[p].result[t]]
       /\ GoTo(p, "open")
       /\ target' = [target EXCEPT ![p] = None]
       /\ got' = [got EXCEPT ![p] = Unread]
       /\ UNCHANGED <<schemaVars, graphRow, members, edges, pos, runVars, bounds>>

\* Mutant of DeleteTask: without PRAGMA foreign_keys nothing cascades.
DeleteTaskAlone(p, t) ==
    /\ p # Runner /\ pc[p] = "open" /\ Faults < MaxFaults
    /\ row[t] # None
    /\ row' = [row EXCEPT ![t] = None]
    /\ deletes' = deletes + 1
    /\ UNCHANGED <<schemaVars, result, graphRow, members, edges, loadVars, runVars, runs,
                   crashes, failures, cancels, escapes>>

\* ON DELETE CASCADE: a task takes its result, its memberships and its edges
\* with it, a graph its memberships and edges but no task.
DeleteTask(p, t) ==
    /\ p # Runner /\ pc[p] = "open" /\ Faults < MaxFaults
    /\ row[t] # None
    /\ row' = [row EXCEPT ![t] = None]
    /\ result' = [result EXCEPT ![t] = None]
    /\ members' = members \ {t}
    /\ edges' = {e \in edges : t \notin {e[1], e[2]}}
    /\ deletes' = deletes + 1
    /\ UNCHANGED <<schemaVars, graphRow, loadVars, runVars, runs, crashes, failures,
                   cancels, escapes>>

DeleteGraph(p) ==
    /\ p # Runner /\ pc[p] = "open" /\ Faults < MaxFaults
    /\ graphRow
    /\ graphRow' = FALSE /\ members' = {} /\ edges' = {}
    /\ deletes' = deletes + 1
    /\ UNCHANGED <<schemaVars, row, result, loadVars, runVars, runs, crashes, failures,
                   cancels, escapes>>

-----------------------------------------------------------------------------
(* The runner: TaskGraph.run with an executor that has this store.         *)

\* With nothing saved a new graph is built; otherwise the saved one is loaded.
BuildGraph ==
    /\ pc[Runner] = "open" /\ phase = "none" /\ ~graphRow /\ row = Nothing
    /\ phase' = "ready"
    /\ graph' \in Graphs
    /\ live' = [t \in Tasks |-> "pending"] /\ liveResult' = Nothing
    /\ inFlight' = {}
    /\ UNCHANGED <<schemaVars, dataVars, loadVars, worker, bounds>>

\* _task_from_row, _result_from_row and TaskGraph.add.  A graph that lost
\* members or edges others need is not followed any further.
AdoptGraph ==
    /\ pc[Runner] = "loaded" /\ phase = "none"
    /\ got[Runner].members \in Graphs /\ got[Runner].edges = EdgesOf(got[Runner].members)
    /\ phase' = "ready"
    /\ graph' = got[Runner].members
    /\ live' = [t \in Tasks |-> IF t \in graph' THEN got[Runner].status[t] ELSE "pending"]
    /\ liveResult' = [t \in Tasks |-> IF t \in graph' THEN got[Runner].result[t] ELSE None]
    /\ StepTo(Runner, "open", 1)
    /\ got' = [got EXCEPT ![Runner] = Unread]
    /\ UNCHANGED <<schemaVars, dataVars, target, worker, inFlight, bounds>>

\* TaskGraph.add between two runs: the graph grows by a new task.
Add(t) ==
    /\ phase \in {"ready", "saved", "unsaved"}
    /\ t \notin graph /\ row[t] = None
    /\ \A i, j \in DOMAIN Order : Order[i] \in graph /\ Order[j] = t => i < j
    /\ graph' = graph \cup {t} /\ graph' \in Graphs
    /\ phase' = "ready"
    /\ inFlight' = inFlight \ {t}
    /\ UNCHANGED <<schemaVars, dataVars, loadVars, live, liveResult, worker, bounds>>

\* Task.cancel() of a loaded task, the only way out of a RUNNING nobody runs.
Reset(t) ==
    /\ phase = "refused" /\ live[t] = "running"
    /\ live' = [live EXCEPT ![t] = "cancelled"]
    /\ phase' = "ready"
    /\ UNCHANGED <<schemaVars, dataVars, loadVars, graph, liveResult, worker, inFlight, bounds>>

\* A save commits as a whole ...
Commit(saved) ==
    /\ row' = [t \in Tasks |-> IF t \in saved THEN live[t] ELSE row[t]]
    /\ result' = [t \in Tasks |-> IF t \in saved THEN liveResult[t] ELSE result[t]]
    /\ inFlight' = inFlight \ {t \in saved : IsTerminal(live[t])}
    /\ UNCHANGED failures

\* ... or fails as a whole, and the executor goes on without it.
Swallowed ==
    /\ Faults < MaxFaults
    /\ failures' = failures + 1
    /\ UNCHANGED <<dataVars, inFlight>>

\* Mutant of SaveGraph: the edges are inserted after the transaction.
SaveGraphWithoutEdges ==
    /\ Commit(graph)
    /\ graphRow' = TRUE /\ members' = graph /\ edges' = {}

\* SQLiteGraphCollection.__setitem__: every member the graph has by now, then the
\* graph, its memberships and its edges, rewritten.
SaveGraph ==
    Commit(graph) /\ graphRow' = TRUE /\ members' = graph /\ edges' = EdgesOf(graph)

Run ==
    /\ phase \in {"ready", "saved", "unsaved"} /\ runs < MaxRuns
    /\ runs' = runs + 1
    /\ IF \E t \in graph : live[t] = "running"
         THEN phase' = "refused" /\ UNCHANGED <<dataVars, inFlight, failures>>
         ELSE phase' = "active" /\ (SaveGraph \/ Swallowed)
    /\ UNCHANGED <<schemaVars, loadVars, graph, live, liveResult, worker, crashes, cancels,
                   deletes, escapes>>

\* Mutant of Inactive: the status is enough, also while the future has still to save it.
InactiveByStatus(t) == IsTerminal(live[t])

\* inactive(): the future is done, or there will be none in this run.
Inactive(t) == worker[t] = "done" \/ (worker[t] = "none" /\ IsSink(live[t]))

\* ready(): an ordinary task needs its upstream tasks' statuses, a finally task
\* waits until nothing more will happen to them.
Ready(t) ==
    \A d \in Upstream(t) : IF t \in Finally THEN Inactive(d) ELSE live[d] = "succeeded"

\* Mutant of Start: the handler is called before RUNNING is saved.
StartUnsaved(t) ==
    /\ phase = "active" /\ t \in graph /\ worker[t] = "none"
    /\ CanTransition(live[t], "running") /\ Ready(t)
    /\ live' = [live EXCEPT ![t] = "running"]
    /\ liveResult' = [liveResult EXCEPT ![t] = None]
    /\ worker' = [worker EXCEPT ![t] = "begin"]
    /\ UNCHANGED <<schemaVars, dataVars, loadVars, phase, graph, inFlight, bounds>>

\* A ready task enters RUNNING (TaskGraph has the scheduling in full) ...
Start(t) ==
    /\ phase = "active" /\ t \in graph /\ worker[t] = "none"
    /\ CanTransition(live[t], "running") /\ Ready(t)
    /\ live' = [live EXCEPT ![t] = "running"]
    /\ liveResult' = [liveResult EXCEPT ![t] = None]
    /\ worker' = [worker EXCEPT ![t] = "starting"]
    /\ UNCHANGED <<schemaVars, dataVars, loadVars, phase, graph, inFlight, bounds>>

\* first_bad_parent(): one that is done with, and did not succeed.
BadParent(d) == Inactive(d) /\ live[d] # "succeeded"

\* ... or one with a bad parent BLOCKED; _emit saves either.
Block(t) ==
    /\ phase = "active" /\ t \in graph \ Finally /\ worker[t] = "none" /\ live[t] = "pending"
    /\ \E d \in Upstream(t) : BadParent(d)
    /\ live' = [live EXCEPT ![t] = "blocked"]
    /\ worker' = [worker EXCEPT ![t] = "ending"]
    /\ UNCHANGED <<schemaVars, dataVars, loadVars, phase, graph, liveResult, inFlight, bounds>>

\* _persist, before and after the handler.
SaveTask(t) ==
    /\ worker[t] \in {"starting", "ending"}
    /\ \/ Commit({t}) /\ UNCHANGED <<graphRow, members, edges>>
       \/ Swallowed
    /\ worker' = [worker EXCEPT ![t] = IF @ = "starting" THEN "begin" ELSE "done"]
    /\ UNCHANGED <<schemaVars, loadVars, phase, graph, live, liveResult, runs, crashes,
                   cancels, deletes, escapes>>

BeginHandler(t) ==
    /\ worker[t] = "begin"
    /\ worker' = [worker EXCEPT ![t] = "handler"]
    /\ inFlight' = inFlight \cup {t}
    /\ UNCHANGED <<schemaVars, dataVars, loadVars, phase, graph, live, liveResult, bounds>>

\* _terminalize: the result, the status; then _emit.
HandlerEnds(t) ==
    /\ worker[t] = "handler"
    /\ \E s \in {"succeeded", "failed", "cancelled"} :
         /\ live' = [live EXCEPT ![t] = s]
         /\ liveResult' = [liveResult EXCEPT ![t] = s]
    /\ worker' = [worker EXCEPT ![t] = "ending"]
    /\ UNCHANGED <<schemaVars, dataVars, loadVars, phase, graph, inFlight, bounds>>

\* A BaseException passes execute() by: the future is done, the task stays RUNNING.
HandlerEscapes(t) ==
    /\ worker[t] = "handler" /\ Faults < MaxFaults
    /\ worker' = [worker EXCEPT ![t] = "done"]
    /\ escapes' = escapes + 1
    /\ UNCHANGED <<schemaVars, dataVars, loadVars, phase, graph, live, liveResult, inFlight, runs,
                   crashes, failures, cancels, deletes>>

\* Mutant of EndRun: run() does not save the graph again.
EndRunUnsaved ==
    /\ phase = "active"
    /\ \A t \in graph : worker[t] \in {"none", "done"}
    /\ phase' = "saved"
    /\ worker' = [t \in Tasks |-> "none"]
    /\ UNCHANGED <<schemaVars, dataVars, loadVars, graph, live, liveResult, inFlight, bounds>>

\* The pool has shut down and the finally clause of run() saves the graph.  Nothing is
\* asked of the tasks, since the scheduler may also have given up (see TaskGraph).
EndRun ==
    /\ phase = "active"
    /\ \A t \in graph : worker[t] \in {"none", "done"}
    /\ \/ SaveGraph /\ phase' = "saved"
       \/ Swallowed /\ phase' = "unsaved"
    /\ worker' = [t \in Tasks |-> "none"]
    /\ UNCHANGED <<schemaVars, loadVars, graph, live, liveResult, runs, crashes, cancels, deletes,
                   escapes>>

-----------------------------------------------------------------------------
(* Processes end, and start again with opening the store.                  *)

Gone(p) ==
    /\ StepTo(p, "down", 1)
    /\ target' = [target EXCEPT ![p] = None]
    /\ got' = [got EXCEPT ![p] = Unread]
    /\ IF p = Runner
         THEN /\ phase' = "none" /\ graph' = {}
              /\ live' = [t \in Tasks |-> "pending"] /\ liveResult' = Nothing
              /\ worker' = [t \in Tasks |-> "none"]
         ELSE UNCHANGED <<phase, graph, live, liveResult, worker>>
    /\ UNCHANGED <<schemaVars, dataVars, inFlight>>

Crash(p) ==
    /\ pc[p] # "down" /\ Faults < MaxFaults
    /\ crashes' = crashes + 1
    /\ Gone(p)
    /\ UNCHANGED <<runs, failures, cancels, deletes, escapes>>

Exit ==
    /\ phase \in {"saved", "unsaved"}
    /\ Gone(Runner)
    /\ UNCHANGED bounds

-----------------------------------------------------------------------------
RunStep == \/ BuildGraph \/ AdoptGraph \/ Run \/ EndRun \/ Exit
           \/ \E t \in Tasks : \/ Add(t) \/ Start(t) \/ Block(t) \/ SaveTask(t) \/ Reset(t)
                               \/ BeginHandler(t) \/ HandlerEnds(t) \/ HandlerEscapes(t)

CancelSteps(p) ==
    (\E t \in Tasks : CancelRead(p, t)) \/ CancelReadResult(p) \/ CancelSave(p)

Delete(p) == (\E t \in Tasks : DeleteTask(p, t)) \/ DeleteGraph(p)

Next == RunStep \/ \E p \in Procs : Open(p) \/ Load(p) \/ CancelSteps(p) \/ Delete(p) \/ Crash(p)

Spec == Init /\ [][Next]_vars

-----------------------------------------------------------------------------
(* Properties.                                                             *)

TypeOK ==
    /\ tables \subseteq AllTables /\ version \in Versions \cup {None, Current}
    /\ row \in [Tasks -> TaskStatus \cup {None}]
    /\ result \in [Tasks -> TaskStatus \cup {None}]
    /\ graphRow \in BOOLEAN /\ members \subseteq Tasks /\ edges \subseteq Edges
    /\ pc \in [Procs -> Using \cup {"down", "version", "drop", "create", "refused"}]
    /\ pos \in [Procs -> Nat] /\ target \in [Procs -> Tasks \cup {None}]
    /\ got \in [Procs -> [members : SUBSET Tasks, edges : SUBSET Edges,
                          status : [Tasks -> TaskStatus \cup {None}],
                          result : [Tasks -> TaskStatus \cup {None}]]]
    /\ phase \in {"none", "ready", "active", "refused", "saved", "unsaved"} /\ graph \subseteq Tasks
    /\ live \in [Tasks -> TaskStatus] /\ liveResult \in [Tasks -> TaskStatus \cup {None}]
    /\ worker \in [Tasks -> {"none", "starting", "begin", "handler", "ending", "done"}]
    /\ inFlight \subseteq Tasks
    /\ {runs, crashes, failures, cancels, deletes, escapes} \subseteq Nat

\* The foreign keys hold at every moment although they are enforced per
\* connection: no result, membership or edge outlives what it refers to, even
\* when a save or a cancel() of a loaded copy meets a delete.
Integrity ==
    /\ TypeOK
    /\ \A t \in Tasks : result[t] # None => row[t] # None
    /\ \A t \in members : row[t] # None
    /\ edges \subseteq members \X members
    /\ members # {} => graphRow

\* A store that has opened is whole, whoever else opens it, dies opening it, or
\* finds an old schema: while no process that may rebuild the file is on its
\* way in, every open store has all its tables and the current version.
SchemaWhole ==
    (\A p \in Destructive : pc[p] \in Using) =>
        \A p \in Procs : pc[p] \in Using => tables = AllTables /\ version = Current

\* "Return a detached graph snapshot": as long as nothing is deleted, what is loaded is a
\* graph the runner had, with all its dependencies, although its rows are read in many
\* snapshots while runs save it and it grows; and a load fails only if it has grown since
\* its members were read.
LoadsWhole ==
    deletes = 0 =>
        \A p \in Procs :
            /\ pc[p] = "missing" => got[p].members # members
            /\ pc[p] = "loaded" => /\ got[p].members \in Graphs
                                   /\ got[p].edges = EdgesOf(got[p].members)

\* What is on disk is a state some moment of the run could have left, whenever the
\* process dies.  A task is recorded as begun only after its upstream tasks were: one that
\* has succeeded may still be recorded RUNNING, or have been reset to CANCELLED in a later
\* life.  A finally task is recorded RUNNING only when all it waits for is recorded as
\* ended (unless a BaseException left that RUNNING).  A lost save, the store's own cancel()
\* and a delete make exceptions.
Begun == {"running", "succeeded", "failed"}
Passable == {"running", "succeeded", "cancelled"}
RowsOrdered ==
    \A e \in Edges :
        /\ e[1] \notin Finally /\ row[e[1]] \in Begun => row[e[2]] \in Passable
        /\ e[1] \in Finally /\ row[e[1]] = "running" /\ escapes = 0 => IsTerminal(row[e[2]])
StoredOrder == failures = 0 /\ cancels = 0 /\ deletes = 0 => RowsOrdered

\* What the properties above rest on.  Rows are kept under the current version only, and
\* nobody is about to write any while the runner drops the tables.
Cancelling == {"cancelResult", "cancelSave"}
SchemaOK ==
    /\ version # None => "metadata" \in tables
    /\ graphRow \/ row # Nothing => version = Current
    /\ pc[Runner] \in Using => version = Current
    /\ pc[Runner] = "drop" => row = Nothing /\ ~graphRow /\ \A p \in Procs : pc[p] \notin Cancelling

\* The runner's graph lives while its store is open, and is worked on during a run.
RunnerOK ==
    /\ phase # "none" => pc[Runner] = "open" /\ graph \in Graphs
    /\ \A t \in Tasks :
          /\ worker[t] # "none" => phase = "active" /\ t \in graph
          /\ worker[t] \in {"starting", "begin", "handler"} => live[t] = "running"
          /\ worker[t] = "ending" \/ (worker[t] = "done" /\ escapes = 0) => IsTerminal(live[t])
          /\ t \notin graph => live[t] = "pending" /\ liveResult[t] = None

\* Where a process is: only the runner drops tables, a load has read the rows of the
\* members it has passed, a cancel() that of its task.
Loading == {"row", "result", "deps"}
Passed(p) ==
    {i \in DOMAIN Order : \/ pc[p] = "loaded" \/ i < pos[p]
                          \/ i = pos[p] /\ pc[p] \in {"result", "deps"}}
PlaceOK(p) ==
    /\ pc[p] \in Using \cup {"create"} => version \in {None, Current}
    /\ pc[p] = "create" => pos[p] \in 1 .. Len(Tables) + 1
    /\ pc[p] = "drop" => p = Runner /\ pos[p] \in DOMAIN Tables
    /\ pc[p] \in Loading => pos[p] \in DOMAIN Order /\ Member(p) \in got[p].members
    /\ pc[p] \in Loading \cup {"loaded"} =>
          \A i \in Passed(p) : Order[i] \in got[p].members => got[p].status[Order[i]] # None
    /\ pc[p] \in Cancelling =>
          /\ p # Runner /\ target[p] \in Tasks /\ got[p].status[target[p]] # None
          /\ cancels # 0 /\ version = Current

\* As long as nothing is deleted a saved graph is there as a whole and only grows, and so is
\* what loads see.
SavedWhole ==
    deletes = 0 =>
        /\ graphRow => members \in Graphs /\ edges = EdgesOf(members)
        /\ phase # "none" => members \subseteq graph
ReadsWhole(p) ==
    deletes = 0 =>
        /\ pc[p] \in {"members", "edges", "loaded", "missing"} \cup Loading => graphRow
        /\ pc[p] \in {"edges", "loaded", "missing"} \cup Loading =>
              /\ got[p].members \subseteq members /\ got[p].members \in Graphs
              /\ p = Runner => got[p].members = members
        /\ pc[p] = "missing" => got[p].members # members
        /\ pc[p] \in {"loaded"} \cup Loading => got[p].edges = EdgesOf(got[p].members)

\* With no lost save, cancel() or delete, the rows follow the runner's tasks: they are equal
\* but between a change and its save, and while the runner loads them; and what a task that
\* is or was recorded as begun has waited for no longer changes.
RowsKept == \A t \in Tasks : row[t] # None => t \in members
LiveOrdered ==
    phase # "none" =>
        \A e \in EdgesOf(graph) :
            /\ e[1] \notin Finally /\ (row[e[1]] \in Begun \/ live[e[1]] \in Begun) =>
                  /\ row[e[2]] \in Passable /\ live[e[2]] \in Passable
                  /\ phase = "active" => IsSink(live[e[2]])
            /\ e[1] \in Finally /\ (row[e[1]] = "running" \/ live[e[1]] = "running")
                  /\ escapes = 0 =>
                  /\ IsTerminal(row[e[2]]) /\ IsTerminal(live[e[2]])
                  /\ phase = "active" => Inactive(e[2])
LiveSaved ==
    phase = "active" =>
        /\ members = graph
        /\ \A t \in graph :
              /\ worker[t] \notin {"starting", "ending"} => row[t] = live[t]
              /\ worker[t] = "ending" /\ live[t] = "succeeded" => row[t] = "running"
RunnerReads ==
    pc[Runner] \in Loading \cup {"loaded"} =>
        \A i \in Passed(Runner) :
            Order[i] \in members => got[Runner].status[Order[i]] = row[Order[i]]
RowsFollow ==
    failures = 0 /\ cancels = 0 /\ deletes = 0 =>
        RowsKept /\ RowsOrdered /\ LiveOrdered /\ LiveSaved /\ RunnerReads

\* The inductive invariant of the store and the processes that use it.
StoreInv ==
    /\ Integrity /\ SchemaOK /\ RunnerOK /\ SavedWhole /\ RowsFollow
    /\ \A p \in Procs : PlaceOK(p) /\ ReadsWhole(p)

\* "task and graph state to survive process restarts": unless a save was lost,
\* no handler is called again when an earlier call of it may have done its
\* work without a record, or is recorded as SUCCEEDED.  (A cancel() that writes
\* a copy read before its task was deleted may bring any record back.)
NoRepeat ==
    [][failures = 0 /\ (cancels = 0 \/ deletes = 0) =>
        \A t \in Tasks : worker[t] = "begin" /\ worker'[t] = "handler" =>
                            t \notin inFlight /\ row[t] # "succeeded"]_vars

\* A graph is refused as RUNNING only after a process died or a BaseException passed a
\* handler by; a single lost save is not enough, because the graph is saved again when the
\* run ends.
RefusedOnlyAfterCrash == phase = "refused" => crashes > 0 \/ escapes > 0 \/ failures > 1

\* When run() has saved the graph the store holds exactly what is in memory,
\* whatever saves of single tasks had been lost.
StoreCatchesUp ==
    phase = "saved" /\ cancels = 0 /\ deletes = 0 =>
        \A t \in graph : row[t] = live[t] /\ result[t] = liveResult[t]

=============================================================================
