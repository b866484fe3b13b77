# A verification project for ttasks

`ttasks` runs tasks: Python callables and shell commands with a small state
machine each, executed alone (`TaskExecutor.execute`), on a thread pool
(`TaskExecutor.submit`), or as a dependency graph (`TaskGraph.run`), with events,
persistence, retries, timeouts and cancellation from any thread, and agent sessions
shared by several tasks.  This directory models the parts of it whose correctness
depends on the order in which threads, coroutines and processes act, checks them
with TLC on small instances, and proves with TLAPS, for every instance, every safety
property they have: of the scheduler and of what a run leaves behind, of one task's
executor, of the subprocess runner, of asynchronous submission, of the agent session
and of what the SQLite store keeps across crashes; and that the scheduler implements an
abstract run of a graph and the executor, but for lost updates, an abstract task.
Liveness is left to TLC.

All paths below are relative to the repository; the implementation is
`src/ttasks/`.

1. [The system](#1-the-system)
2. [Modules and code](#2-modules-and-code)
3. [Atomicity](#3-atomicity)
4. [Runs](#4-runs)
5. [Fairness](#5-fairness)
6. [Findings](#6-findings)
7. [Proofs](#7-proofs)
8. [What is not modelled](#8-what-is-not-modelled)
9. [Plan](#9-plan)

## 1. The system

| Part | File | State | Operations | Correct when |
|---|---|---|---|---|
| Task state machine | `_task.py` | status, error, result, `blocked_by` | `transition_to`, `cancel`, predicates | a task only moves along `_ALLOWED_TRANSITIONS`; SUCCEEDED and CANCELLED are final |
| Graph ledger | `_graph.py` | `_tasks`, `_deps`, `_finally`, `_optional` | `add`, `_validate`, mapping protocol | a run starts only on an acyclic graph whose dependencies are registered and of which nothing is RUNNING |
| Graph scheduler | `_graph.py` `_run_inner` | `futures`, `_errors`, `entering_blocked`, `scheduler_error`, `done` | `schedule`, `submit`, `on_finish` | nothing runs before its dependencies, blocks are justified, finally tasks run last and always, every error is reported, `run()` ends |
| Executor | `_executor.py` | the task, the store row, the event bus | `execute`, retry loop, `cancel`, `mark_blocked`, `_terminalize` | status, result, events and the caller's verdict tell one story, whatever `cancel` races with |
| Async submission | `_executor.py` | `_pool`, `_closed`, futures | `submit`, `_execute_submitted`, `shutdown` | every future settles; `shutdown` drains and returns |
| Subprocesses | `_executor.py` | `_running_processes`, the process group, two reader threads | `_run_command`, `_terminate_process` | nothing survives the call; a cancel reaches the process; a timeout ends it |
| SQLite store | `_sqlite.py` | tables and their version; rows of tasks, results, graphs, members, edges | open and migrate, save, load, delete, cancel | an open store is whole; references hold; a stored graph is a state of its run, also after a crash; a load is complete |
| In-memory store | `_store.py` | dictionaries of live objects | mapping protocol | nothing to go wrong: it stores references |
| Event bus | `_events.py` | subscribers, `errors` | `subscribe`, `emit` | an event reaches those subscribed when it was emitted; a failing subscriber stops nobody |
| Agent session | `copilot.py` | background loop, send lock, handler lock, SDK session | enter, leave, `send_and_wait`, handler call, abort | one turn at a time; an abort hits the turn it was meant for; no lock is kept; every call comes back |

How they interact.  `TaskGraph.run` builds its own `ThreadPoolExecutor` and has
every worker call `TaskExecutor.execute`; the result comes back through the
future's done-callback, which runs the scheduler on the worker's thread under an
`RLock`.  `execute` and `cancel` write the task's fields, save it to the store
and emit an event, from whichever thread they are called on, without any lock
that covers a task.  `cancel` finds a running command's process through
`_running_processes`.  `TaskGraph.run` saves the graph before and after it runs.
Several processes may share one SQLite file; what one loads is a detached copy of
what another saves.  An AGENT handler of a session runs on a worker thread, posts a
coroutine to the session's own event loop and polls its future.

What is hard about it:

* `schedule()` is entered from the caller's thread, from every worker's callback
  and, because the lock is re-entrant and `add_done_callback` calls back at once
  on a finished future, from inside itself.
* Workers and cancellers change statuses, and workers complete futures, without
  the scheduler's lock: every condition `schedule()` tests may change before it
  acts.
* The status of a task turns terminal before its future is done, and the future
  is done before its callback has run; the scheduler reads all three.
* A graph may be run again: FAILED and BLOCKED tasks are then terminal and
  retryable at once.
* `execute` and `cancel` share the duty to announce a cancellation, and decide
  who does it from a status read earlier.  Nothing locks a task: what either of them,
  or `transition_to` inside them, has read may be out of date when it writes.
* A task may be submitted twice, and two pool threads may both find it PENDING.
* A command has a leader, descendants that hold its output, a deadline and any
  number of cancellers.
* A load of a graph reads its rows in many database snapshots, opening a store is
  many committed statements, a save that fails is swallowed, a process may die
  between any two of these, and the graph may have grown since the last save.
* A handler call holds a lock of threads while its coroutine holds a lock of
  coroutines, and either side may be cancelled or left behind by a closed session.

`PROJECT.json` lists each such place with its line (`hazards`) and the properties
that would show it going wrong.

## 2. Modules and code

| Module | Models | Lines |
|---|---|---|
| `TaskLifecycle` | `TaskStatus`, `_ALLOWED_TRANSITIONS`, the predicates; no state | `_task.py` |
| `TaskLedger` | the abstract task: one status moving along the table | `Task.transition_to` |
| `TaskGraph` | `add`, `_validate`, `run`, `_run_inner` with its pool and cancellers | `_graph.py` |
| `GraphRun` | the abstract run of a graph: what `run()` promises, without lock, passes, callbacks | `_graph.py`, `_executor.py` |
| `TaskExecutor` | one task under `execute`, `cancel`, `mark_blocked`, statement by statement, with the store's save | `_executor.py`, `_task.py`, `_sqlite.py` |
| `CommandRunner` | `_run_command`, `_terminate_process`, `cancel` for one subprocess | `_executor.py` |
| `AsyncSubmission` | `submit`, futures, the thread pool, `shutdown` | `_executor.py` |
| `GraphStore` | the SQLite file under several processes: opening, saving, loading, deleting, crashing | `_sqlite.py`, `_graph.py`, `_executor.py` |
| `AgentSession` | `CopilotAgentSession` in both modes, with its handler | `copilot.py` |
| `TaskGraphProofs` | theorems about `TaskGraph` | |
| `GraphOutcomeProofs` | theorems about what a run of `TaskGraph` leaves behind | |
| `GraphRefinementProofs` | `TaskGraph` implements `GraphRun` | |
| `TaskExecutorProofs` | theorems about `TaskExecutor`; it implements `TaskLedger` | |
| `CommandRunnerProofs` | theorems about `CommandRunner` | |
| `AgentSessionProofs` | theorems about `AgentSession` | |
| `AsyncSubmissionProofs` | theorems about `AsyncSubmission` | |
| `GraphStoreProofs` | theorems about `GraphStore` | |
| `MC*` | instances for TLC | |

`TaskGraph`, `TaskExecutor`, `AsyncSubmission`, `GraphRun` and `GraphStore` extend
`TaskLifecycle`.  `TaskExecutor` instantiates `TaskLedger`, which it implements
as long as no update is lost (`FollowsLedger`, with the identity as refinement mapping on
`status`).  `TaskGraph`
instantiates `GraphRun` (`Contract`, `ImplementsGraphRun`): the members and upstream
sets are read off the dictionaries, a task is *handed* out when it has a future,
*over* when that future is done, and the run is *active* from the kick-off until
`run()` is left.  `GraphStore` keeps of a run the order in which a task is saved,
started and ended; `TaskGraph` has its scheduling, `TaskExecutor` the statements of
one save.

**TaskGraph.**  The ledger is `order` (insertion order of `_tasks`), `deps`,
`finally`, `optional`.  A run keeps `fut` (a future is queued, running,
returning, done: in "returning" `execute()` is over and the future not yet done),
`cb` (the done-callback), `queue` (the pool's FIFO), `errors`, `enteringBlocked`,
`done`, `schedulerError`.  `frames` is the stack of activations of `schedule()`;
the lock is held exactly while it is not empty.  A frame says on whose behalf it
runs (`of`), where it stands in `_tasks` (`pos`), whether the pass has changed
anything (`changed`) and, between the test and `mark_blocked`, the parent it will
blame (`bad`).  The actions in the order of the code: `RunRejected`, `RunEmpty`,
`RunStart`; for each task of a pass `VisitSkip`, `VisitBlock` and `MarkBlocked`,
or `Submit` and `Register`; then `EndPass`, `CheckFinished`, and `AllFinished` or
`Guard`.  A worker does `ExecuteRejected`, `ExecuteUnhandled` or `ExecuteStart`
followed by one of the `Handler...` actions, `CompleteFuture`, `OnFinish`.  The
caller does `WaitDone` and `RunEnds`.  `Cancel` is anybody's
`TaskExecutor.cancel`.  `Throw` is what an exception inside `schedule()` does: in
a callback `concurrent.futures` logs it and goes on, in the kick-off it leaves
`run()` through the `with` block.

**TaskExecutor.**  One task and several threads, with a program counter each.
`Call` begins an operation; `SetResult`, `Compare`, `TransitionCheck`, `WriteError`,
`WriteStatus`, `Forget`, `Snapshot`, `Insert`, `Commit`, `Notify` are the reads and writes of
`_terminalize`, `transition_to`, `_upsert_task`, `_emit` that others can observe; `Cancel`,
`Previous` and `CancelTask` are the three looks of `cancel()` at the status; `then` says where
the operation goes on after `transition_to`.  The row in the store, SQLite's write lock and a
failing save are part of it.  Two history variables, which no guard reads, let the properties
speak of the past: `overtaken` is set when the status changes while another thread is
`Deciding`, that is, has looked at the status and not yet finished what it decided;
`sealed` is what the task was when it first was at rest SUCCEEDED or CANCELLED.

**CommandRunner.**  The process group is a leader (what `Popen` started) and
perhaps one descendant that inherited the output.  `PipesOpen` is what keeps the
two reader threads alive.  `registered` is the entry in `_running_processes`.
Each of the runner and the cancellers may be inside `_terminate_process`
(`Signal`, `Grace`, `Kill`) and returns to `back`.

**AsyncSubmission.**  Futures with the task each was submitted for, the pool's
queue and threads (external: `concurrent.futures`), clients that cancel futures and tasks,
an owner that calls `shutdown`, handlers that may call it too.  Of `execute` it has the last
look at the status before RUNNING and before the end, and the writes that rest on them, as
steps of their own (`Begin`, `WriteRunning`, `HandlerEnds`, `WriteEnd`, `Retry`); of `cancel`
likewise (`Look`, `Check`, `WriteCancelled`, `Settle`).  So two threads may run the handler of a
task that was submitted twice, and each may overwrite the other's end.  `TaskExecutor` is
the detailed model.

**GraphRun.**  `Begin`, then for each task `Hand`, `Work` (start, end, failure before the
start), `WorkOver`, or `Condemn`, and `End` when the workers are through; `CancelTask` at
any moment, `Edit` between runs.  It says that a task is handed out once per run and
only on upstream tasks that have succeeded (for a finally task: that are at rest),
that only its worker changes it, that a task is condemned only if an upstream task
cannot succeed any more, and that a run is not left while a worker is at work.

**GraphStore.**  The file is `tables`, `version` and the rows; each of the processes has
a place (`pc`, `pos`) in opening (`LookAtTables`, `LookAtVersion`, `DropTable`,
`CreateTable`, `Stamp`), in loading a graph (`LoadGraph`, `LoadMembers`, `LoadEdges`, then
`LoadRow`, `LoadResult`, `LoadDeps` for each member) or in the store's own `cancel`.  One
process, the `Runner`, also has a graph in memory (`graph`, `live`, `liveResult`) and runs it:
`Run` saves it (or refuses it as RUNNING), `Start`, `BeginHandler`, `HandlerEnds` or
`HandlerEscapes`, `Block` and `SaveTask` are its workers, `EndRun` saves it again.  A task starts
when `Ready` says so, which for an ordinary task looks at the upstream statuses only, whether
or not they are saved by then, and for a finally task at `Inactive`.  Between two runs `Add`
extends the graph by a new task (`TaskGraph.add`), and the next save writes what the graph
is by then.  A save commits whole (`Commit`) or is lost whole (`Swallowed`).  `Crash` may hit
any process anywhere; it starts again by opening the file.  `inFlight` is a history variable:
the handlers that were called and whose end no committed save contains.

**AgentSession.**  `ctx` is the context manager (out, opening, in, closing, stopping);
`gen` counts how often it was entered and names the loop, the SDK session and its
send lock, so that what belongs to an earlier entry can be told from what belongs to
this one.  A call is a record: the caller's place `pc`, the coroutine's place `co`, the
future `fut` between them, and the abort it has asked for.  In the sync mode calls are
handler calls (`HandlerCalled`, `Post`, `PollReturns`, `PollCancelled`, `AbortReturns`,
`AbortGivenUp`); in the async mode they await `send_and_wait` directly (`Send`,
`SendReturns`, `SendCancelled`).  The coroutine is `Begin` up to its first suspension,
`CoAcquire`, `TurnEnds`, `CoCancelled`, and stops where it is when its loop does.

Operators whose comment begins with "Mutant of" are not part of a specification.
Each is a version of the definition named with a plausible mistake; with
the mistake put in place of the definition, TLC finds the listed property
violated (`PROJECT.json`, `mutants`).  They show that each property depends on the
code it is about.

## 3. Atomicity

What one step of a model is decides what it can find.

`TaskGraph`: a visit of `schedule()` to one task is one step up to the first
side effect, because the other threads can only make its conditions "more true"
during it: `succeeded`, `futures` and `done()` never revert within a run.  Where
this is not so the visit is split: between the PENDING test and `mark_blocked`
(a canceller moves the task), between submission and `add_done_callback` (the
future may already be done), between the pass, the `all(finished(...))` test and
the no-progress guard (a future completes).  A worker's status change, the
completion of its future and its callback are separate steps.

`TaskExecutor`: each read or write of the task's status or result is a step, and the
interpreter may switch threads between any two of them.  Nothing in the code prevents it: no
lock covers the looks of `cancel` (`_executor.py:467` to `471`), the way from `_executor.py:643`
or `677` to `349`, or the test and the write of `transition_to` (`_task.py:228`, `239`).  So
updates do get lost: a worker's RUNNING may replace the CANCELLED of a `cancel()` that has
returned, a `cancel()` may replace SUCCEEDED, and a FAILED result may end up on a CANCELLED
task (`executor_lost_cancel`).  The properties are stated accordingly.  `NothingLeftRunning`
and `SettledForGood` hold whatever is overtaken.  `OutcomeAgrees`, `VerdictsHold` and
`FollowsLedger` say that a lost update is the *only* way to a result, an event, a verdict or
a transition that does not fit: each holds until the status changes under a thread that has
decided and not yet written (`overtaken`).  This is no restriction of the behaviours; all of
them are explored, and the invariant of the proofs says what remains true afterwards.

`AsyncSubmission` has a look at the status and the write that rests on it as separate steps,
too.  `TaskGraph` takes an entry into RUNNING or into an end as one step: a task has one
future per run, and what a lost update does to one task is `TaskExecutor`'s subject.

`GraphStore`: Python's `sqlite3` begins a transaction before INSERT, UPDATE and DELETE
only, and commits it when the connection's `with` block ends.  So a save and a delete
are one step each, every SELECT is a step of its own with its own snapshot, and every
CREATE and DROP commits by itself.  A save of a graph happens while none of its
workers runs, so that its tasks do not change under it, but it may write members that
the previous one did not have, between the SELECTs of another process's load.  A save of
one task by two threads is `TaskExecutor`'s subject.  The six tables are three groups, because
neighbours are created and dropped together and no code depends on the difference.

`AgentSession`: a coroutine's step is what it does between two suspensions, which no
other coroutine of its loop can interrupt; a thread's step ends where another thread
could see the difference (a lock, `_sync_active`, `_loop`, a future).

`CommandRunner`: each system call is a step.  Time is a deadline that passes at
some moment, and the grace period after SIGTERM may run out at any moment while
the leader is alive.

## 4. Runs

Passing runs (sizes with two TLC workers):

| Run | Instance | Distinct states | Shows |
|---|---|---|---|
| `graph_fresh` | every DAG of three tasks with every dependency order; no, one or two finally tasks; 2 workers; handlers return, raise, cancel their task, escape; one task without handler; one external cancel at any moment | 2.8 M | `RunsOnlyAfterDependencies`, `BlockedJustified`, `NothingLeftUndecided`, `BlockedHasCause`, `FinallyBecomesReady`, `FinallyIsLast` |
| `graph_rerun` | every graph two `add` calls can build of two tasks (re-registration included), two runs, 2 workers, one cancel of a task that is not PENDING; fairness | 0.7 M | `SchedulerInv`, `ErrorsComplete`, `RunTerminates`, `ImplementsGraphRun` |
| `executor` | two threads, three calls: execute with two attempts, cancel, mark_blocked; with or without a handler; saves may fail; a switch between any two reads or writes | 4.3 M | `ExecutorInv`, `NothingLeftRunning`, `SettledForGood`, `OutcomeAgrees`, `VerdictsHold`, `FollowsLedger` |
| `command` | timeout or none, descendant or none, leader that obeys SIGTERM or not, two cancellers; fairness | 30 k | `CommandInv`, `NothingSurvives`, `CancelReaches`, `OwnExitUnsignalled`, `TimeoutEnds` |
| `async` | a task submitted three times, two attempts each, two pool threads, a client that cancels futures and the task, shutdown by the owner or by a handler; fairness | 0.3 M | `AsyncInv`, `ShutdownDrains`, `TasksHaveEnded`, `FuturesSettle`, `ShutdownReturns` |
| `store` | tasks a, b behind a, and c that cleans up after a; a graph of one or two of them, run up to twice by one process, perhaps extended in between, and watched by another; a new file or an old schema; two faults altogether out of crashes, lost saves, BaseExceptions, store cancels and deletes | 1.9 M | `StoreInv`, `SchemaWhole`, `LoadsWhole`, `StoredOrder`, `NoRepeat`, `RefusedOnlyAfterCrash`, `StoreCatchesUp` |
| `agent` | a session entered up to twice; two handler calls or three direct calls; every call may be cancelled at any moment, every turn may answer, time out or fail; fairness | 0.3 M | `SessionInv`, `OneTurn`, `AbortHitsOwnTurn`, `CancelledCallsEnd`, `CallsEndUnlessStuck` |

Why these bounds.  Three tasks are the least with a chain, a fork and a join, a finally
task behind a blocked one, and a descendant of a task other than the one whose callback
runs.  `graph_fresh` takes all of them.  What a second run adds is carried-over FAILED
and BLOCKED tasks; two tasks and two `add` calls reach each kind of carry-over, next to
a new task or under a task registered again.  Two workers let two callbacks wait for the
lock.  One cancel is enough for each property, since each is about one task being moved
under the scheduler.  In `executor` two threads are enough for one to overtake the
other, and the third call comes after, or beside, what they have left: an execution
after a lost cancel, a cancel after both.  The proofs are for any number.  In `async`
three submissions of one task to two threads leave one queued while two run at once.  In
`store` one dependency is enough for an order of saves, a second fault hits the recovery
from the first, two members and a graph that grows by one reach every load whose SELECTs
see different graphs, and two processes are enough for every pair of operations on the
file.  A runner that has had its two runs does not open the file again, since all it
could do there is to load, as the observer does.  In `agent` the third direct call waits
behind a waiter, and the second entry makes an earlier session's lock and loop stale.

The remaining runs, named after what they show, each violate one property that the
code's own words promise: [Findings](#6-findings).  Their instances are the smallest
that show it.  The passing runs check some of the same properties on instances where
they hold: `BlockedHasCause` on a fresh graph (it fails on a re-run one),
`RunTerminates` when cancels do not hit PENDING tasks.  `CancelAnnounced` fails in the
instance of `executor`; what holds there of the same events is `OutcomeAgrees`.

Limits of what the properties say:

* `FinallyBecomesReady` is about runs without an external cancel.  A `cancel` of a
  PENDING upstream task in the middle of the last pass emits no callback, so the
  scheduler may not look again and reports "no progress".
* `NothingLeftUndecided` accepts a task that is RUNNING for ever: a handler that
  ends in a `BaseException` that is not an `Exception` passes every `except` of
  `_execute_once` and leaves it so, and a later `cancel` of it is silent.
  `TaskExecutor` excludes such behaviours from the properties of a task at rest
  (`escaped`).
* `OutcomeAgrees`, `VerdictsHold` and `FollowsLedger` stop at the first lost update
  (`overtaken`); what they exclude is in [Findings](#6-findings).  `SettledForGood` starts
  when no call is in progress: a call that is still under way, having read an older status,
  may move a task out of a sink.
* `TimeoutEnds` needs descendants that obey SIGTERM.  The escalation to SIGKILL
  waits for the leader only, so a descendant that ignores SIGTERM keeps
  `_run_command` waiting for its output (`MayIgnore = {"child"}` shows it).
* `ShutdownDrains` is about the `shutdown` that closes the executor.  A second one
  returns at once while the first still waits, and one called by a handler
  returns with its own future, and work queued for its own thread, unfinished.
* `TasksHaveEnded` does not say which end: with a task submitted twice, or cancelled while it
  runs, the last write wins.
* `SchemaWhole` speaks of the moments in which every process that may rebuild the file
  has it open.  An opener with `allow_destructive_migration=True` decides on a version
  and then drops the tables, whoever has opened them since.
* `LoadsWhole` is about behaviours without deletes: a delete between two SELECTs gives
  a `KeyError` or a graph without some members.  A load may also end in a `KeyError` when
  the graph was extended and saved between the SELECT of its members and that of its edges;
  the property admits a failed load in exactly that case.  The statuses of a loaded graph
  may come from different moments in any case.
* `StoredOrder` has two forms, since readiness is by status and saves come later: below an
  ordinary task that is recorded as begun, an upstream task is recorded as begun, too, and
  may still say RUNNING although it has succeeded; only below a finally task that is
  recorded RUNNING is everything recorded as ended.  A task reset to CANCELLED after a crash
  passes as well.
* `NoRepeat` and `StoredOrder` assume that no save was lost; `StoredOrder` and
  `StoreCatchesUp` also that the rows were not changed by the store's `cancel`, which
  writes back a whole copy read earlier, or by a delete.  `NoRepeat` leaves out only
  behaviours in which something was cancelled through the store and something deleted:
  a cancel that writes back the copy of a task deleted in between, which another process
  then loads and cancels in turn, can make a SUCCEEDED task look undone.  It takes more than
  the two faults of this instance.
* `RefusedOnlyAfterCrash` names three causes: a crash, a handler that ended in a
  BaseException (`run()` returns and saves the task as RUNNING), and two lost saves.  A
  graph with such a row can only be run again once that task is cancelled.  "reset
  before run()", the error says; no operation resets a task.
* `OneTurn` leaves out a session that is entered a second time in the async mode.  A
  call that was waiting for the first session's lock then starts its turn on the second
  session, whose lock it does not hold (`docs/quickstart.md:64` promises serialized
  turns; the handler lock keeps them so in the sync mode).
* `AbortHitsOwnTurn` is about aborts whose caller still waits.  After five seconds the
  caller leaves, and an abort that lands later hits whatever turn is on.
* `CallsEndUnlessStuck` assumes that no call is stuck for good: its turn ended in a
  timeout (`agent_timeout_hang`), or the context was left and its loop stopped with the
  call still on it.  Such a call polls until its task is cancelled, and every other
  handler call waits behind it.  `CancelledCallsEnd` shows that the cancellation helps.

Symmetry is not used: the scheduler visits tasks in registration order, and
liveness is checked in most other runs.

## 5. Fairness

`TaskGraph.FairSpec`: the thread inside `schedule()` goes on; each worker goes on
and every handler ends; the thread in `run()` wakes when `done` is set.  These are
the operating system's scheduling and the assumption that handlers end, which is
the caller's business.  A callback takes the lock once, so weak fairness suffices.
Nobody must call `run`, `add` or `cancel`.

`CommandRunner.FairSpec`: threads go on, the deadline passes, a process that was
sent SIGTERM and does not ignore it exits.  A process need not end by itself.

`AsyncSubmission.FairSpec`: pool threads go on, handlers end, and a `shutdown` that may
return does so.  Nobody must submit, cancel or shut down, and a cancel that has begun need
not end.

`AgentSession.FairSpec`: opening, closing and stopping go on; a running loop runs the
coroutines that are ready; the SDK ends a turn, by an answer, by the timeout it was
given or by an error (a session without a timeout relies on the SDK alone); a thread
goes on and gets a lock that stays free.  Nobody must enter or leave the context, call
or cancel.  A loop that was stopped runs nothing more.

`GraphStore` has no liveness property and no fairness.

Deadlock is not checked (`CHECK_DEADLOCK FALSE`): in each instance the program may
be finished.  That nobody waits for ever is what the liveness properties say.

## 6. Findings

| Run | Property | What the code does |
|---|---|---|
| `graph_lost_carryover` | `BlockedHasCause` | `finished()` (`_graph.py:387`) counts a FAILED or BLOCKED task this run is about to retry.  If only such tasks remain, the kick-off sets `done`, the pool closes, and the retried task's callback can submit nothing more.  `run()` returns normally with a descendant BLOCKED by a task that has SUCCEEDED. |
| `graph_false_alarm` | `NoProgressIsReal` | The guard (`_graph.py:446`) counts futures that are not done, but a future is done before its callback has the lock.  A future that completes between the pass and the guard makes `run()` raise although its callback would make progress. |
| `graph_cancel_hang` | `RunTerminates` | A `cancel` between the PENDING test and `mark_blocked` (`_graph.py:433`) makes `transition_to` raise inside the callback; `done` is never set and `run()` hangs. |
| `executor_lost_cancel` | `CancelAnnounced` | A handler raises and `_executor.py:677` reads RUNNING, so `execute` goes for FAILED.  Now `cancel` reads `previous` = RUNNING, writes CANCELLED and stays silent (`_executor.py:477`).  `_terminalize` attaches the FAILED result (`_executor.py:347`) and `transition_to` raises (`:349`) before the event.  The task ends CANCELLED with a FAILED result, no CANCELLED event, and a STARTED that never ends. |
| `agent_timeout_hang` | `TimeoutsEndCalls` | `except FutureTimeoutError` (`copilot.py:174`) means a poll that is not over, but a turn that ends in its timeout raises the same class.  The handler goes round for ever on a finished future and keeps `_handler_lock`, until its task is cancelled. |

`graph_lost_carryover` and `agent_timeout_hang` are deterministic in the program as
well; the other three need a thread switch at one place.  The words each one contradicts
are quoted with their place in `PROJECT.json`.

Other divergences have no run of their own: the properties they break are promised by no
text as plainly as those above, or a setting of an existing module and one formula show
them.

* *A refused new file.*  The tables of a new file are committed one by one and the version
  row comes last (`_sqlite.py:84`, `:161`).  A process that opens the file in between is refused
  (`_sqlite.py:207`) as if a foreign schema were there; so is every process after one that
  died in between.  `_sqlite.py:176` promises to accept a truly empty database, which the
  file then no longer is.  `Store.cfg` with `Versions = {None}`, `Destructive = {}` and the
  invariant `\A p \in Procs : pc[p] # "refused"`.
* *A finally task behind carried-over work.*  A finally task behind a BLOCKED task of an
  earlier run whose parent fails again never becomes ready, because `inactive()`
  (`_graph.py:352`) takes the blocked task for one that will be retried; `run()` raises "no
  progress" instead of running the cleanup.  `GraphLostCarryover.cfg` with
  `InitGraphs <- Chain`, `DepLists <- AnyDeps`, `MaxAdds = 1` and
  `INVARIANT FinallyBecomesReady`.
* *A task run twice.*  A task that is submitted twice may pass both checks
  (`_executor.py:587`, `_task.py:228`) before either writes RUNNING (`_task.py:239`); its handler
  runs on two pool threads at once.  `Async.cfg` with the invariant that no two workers at
  "handler" have the same `of[arg[w]]`.
* *A future's cancel that reaches another future's work.*  `submit()` says that
  `Future.cancel` only cancels work that has not started yet (`_executor.py:236` to `238`).  Of
  a task that was submitted twice the queued future's cancel runs `cancel(task)`, and so
  cancels the task while the other future is running it.
* *More lost updates.*  With a switch between `transition_to`'s test and its write, a
  worker's RUNNING replaces CANCELLED after `cancel()` has returned, a `cancel()` replaces
  SUCCEEDED after `execute()` has returned, and two `cancel()`s of a PENDING task announce it
  twice.  `Executor.cfg` with `OutcomeAgrees`, `VerdictsHold` or `FollowsLedger` without
  `overtaken`.
* *Saves out of order.*  Two saves of one task are not ordered (`_executor.py:417`): one
  reads the task (`_sqlite.py:512`), waits for the database and may commit after a newer one;
  the older row stays.  `Executor.cfg`, with `Commit` less the failing save, and the invariant
  that `store.status = status` when no call is in progress and a row was written.
* *A load that meets a graph that grew.*  `add()` and a second `run()` between a load's
  SELECT of the members and that of the edges make it raise `KeyError` (`_sqlite.py:410`), with
  nothing deleted.  `Store.cfg` with `MaxFaults = 0` and the invariant that no process is at
  "missing".
* *A BaseException in a handler.*  `run()` returns and saves the task RUNNING; the next run is
  refused although no process died.  `Store.cfg` with `RefusedOnlyAfterCrash` less
  `escapes > 0`.
* *A child that outlives its shell.*  `cancel` signals the group only while the leader runs
  (`_executor.py:474`).  If the shell has exited and a background child holds the output,
  `execute` waits for the child whatever is cancelled: `sleep 12 & exit 0`, cancelled at
  once, ends after twelve seconds.  `Command.cfg` with `PROPERTY CancelEnds`.
* *A session entered twice in the async mode*, as described under `OneTurn` in
  [Runs](#4-runs): `Agent.cfg` with `OneTurn` for every session.

## 7. Proofs

TLAPS checks eight modules; the proofs hold for every set of tasks, graphs,
dependency lists, workers, threads, cancellers and bounds that satisfy the modules'
assumptions.

**`TaskGraphProofs`.**  `SchedulerInvariant` shows `Spec => []SchedulerInv`, and
from it follow

* `TypeCorrect` (optional tasks are finally tasks included),
* `DependenciesRespected`: no task is handed to the pool before its upstream
  tasks have all succeeded,
* `BlocksAreJustified`: a task blocked in a run names an upstream task that is bad
  and cannot recover in that run,
* `FinallyRunsLast`: from the submission of a finally task on, nothing upstream of
  it does anything more in the run,
* `ErrorsAreComplete`: when `run()` is over, `_errors` holds exactly the tasks whose
  `execute()` raised in that run, and none of them is SUCCEEDED.

The properties are not inductive by themselves.  `SchedulerInv` adds:

* `FramesOK`: only the innermost activation of `schedule()` is in the middle of a
  visit.  Without it, leaving an activation could resume another one between its
  test and its effect.
* `IdleOK`: nothing of a run is left when it is over, so that the next one starts
  from empty futures.
* `QueueOK`: a work item is queued once.
* `ErrorsOK`: an error comes from a future that is done.  `inactive()` accepts a
  task in `_errors`; this part says that such a task is over.
* `FinallyAfterSettled`: upstream of a submitted finally task, each task's future
  is done, or the task will not be touched in this run.  This is the state form
  of `FinallyIsLast`.
* `RaisedOK`: an exception belongs to a future that ran, of a task that did not succeed.
* `OwnersOK`: an activation of `schedule()` that a callback has begun comes after the
  recording of that callback's exception.
* `CallbacksOK`: a future whose callback is not waiting is either the one `submit` is
  about to register, or its exception is recorded.  With `IdleOK` these three give
  `ErrorsComplete`: between runs every future is done, no callback waits and no
  registration is under way, so every exception has been recorded.
* `BlockingJustified`: the reason to block a task, read before `mark_blocked`,
  stands when it is called, whatever workers and cancellers did in between.

The argument about a step: workers and cancellers move statuses only forward
(a SUCCEEDED task stays so, a bad task with a finished future stays bad), graph
and `enteringBlocked` are constant within a run, and `schedule()` submits or blocks
only on conditions that those moves preserve.

**`GraphOutcomeProofs`.**  What `run()` leaves behind, on top of `SchedulerInv`:

* `NothingStaysPending`: whichever run it is, when it returns no task of the graph is
  PENDING,
* `FirstRunDecides`: the first run also handed every finally task to the pool, unless it
  was cancelled (`NothingLeftUndecided`),
* `BlocksHaveCauses`: a run that found no task BLOCKED leaves one BLOCKED only below a task
  that did not succeed (`BlockedHasCause`),
* `FinallyReleased`: `FinallyBecomesReady`, on a first run, and on a later one whenever no
  task at its end is one the run would retry (`NothingToRetry`).

The conditions are those under which the code keeps the promise.  On a later run
`finished()` takes a FAILED or BLOCKED task for finished before it was retried, so a
finally task that had failed can be left out, a task can stay BLOCKED by one that has
succeeded (`graph_lost_carryover`), and `inactive()` takes a BLOCKED task for one
that will be retried (the first of the divergences at the end of
[Findings](#6-findings)).

`OutcomeInv` follows a run to its end.  `Decided` is what the check `all(finished(...))`
asks of a task, in a form that stays true: a status that is not PENDING never is again,
and a future is not taken back within a run.  `CheckedOK` says that what the check has
gone through is decided, `DoneOK` carries it from the check to `done` and from there to
`run()`'s return, `FreshOK` and `StartedOK` that a future which has begun, and on a first
run any status that tells of work, goes with a task that was taken up.  `CauseOK` takes the
cause from the moment of the blocking (`BlockingJustified`) to the return.  `PassOK` is
about a pass that has changed nothing: each finally task it went by still has an upstream
task that is not inactive, or one whose future completed during the pass and whose
callback waits for the lock (`Recalled`), so that another pass is sure to come.
`ChangedOK` is what it needs of the stack of activations: an outer one waits inside a
`submit` and has already noted a change, so a pass that changed nothing is the innermost
one from its start.

**`GraphRefinementProofs`.**  `SchedulerImplementsRun` shows `Spec => ImplementsGraphRun`.
Each action of `TaskGraph` is mapped by a lemma of its own under `SchedulerInv`: `Add` is
`Edit`, the beginning of a run `Begin`, `Submit` a `Hand`, the worker's actions `Work`,
`CompleteFuture` is `WorkOver`, `MarkBlocked` is `Condemn`, `RunEnds` is `End`, `Cancel` is
`CancelTask`, and the rest (visits, callbacks, the guard, the pool) stutters.  The
invariant is needed where the code does not look at what the contract asks for:
`MarkBlocked` must find its task still unhanded and its reason standing
(`BlockingJustified`), `RunEnds` that no worker is left, and `Submit` that `ready()` speaks
of tasks that cannot change any more.

**`TaskExecutorProofs`.**  No theorem assumes anything about when threads are switched.
`ExecutorInvariant` is the inductive invariant `ExecutorInv`, checked in the run `executor`
too, for any threads, calls and attempts, whether or not saves fail; from it follow
`NothingRunning`, `Settled`, `OutcomesAgree`, `VerdictsAreTrue`, and `ImplementsLedger`: every
step leaves the status, moves it along the transition table, or comes after an overtaking
write.  The invariant has two halves.  What holds of every step:

* `PlaceOK`: where each operation can be, what it is moving the task to, and where it will
  go on.
* `RunningHeld`: a RUNNING task has an execution that has yet to write what it ends as
  (`Holds`), or was torn down.  An overtaken execution cannot leave without writing either:
  it raises only where the table forbids its move, which it never does from RUNNING.
* `SealedOK`: once a task is at rest in a sink every call is at a place from which it can do
  nothing to it (`Harmless`).  Only calls that begin later remain, and none of them gets past
  its own look at the status.

And what holds as long as nothing was overtaken (`AccountsOK`):

* `DecisionOK`: what a `Deciding` thread has read is still so.  Each step that changes the
  status sets `overtaken` if another thread is there, so the lemma to prove for it is about
  a thread that decides alone.
* `HolderOK`: one execution at a time has the task.  Two may be under way; the loser of
  `transition_to` raises.
* `ResultOK`: whose turn it is to write the result.  A `cancel` that interrupted a handler
  leaves it to the execution, which is why a task at rest has the result of its status.
* `AnnouncedOK`: the threads that still owe a CANCELLED event (`CancelledOwed`) and a
  SUCCEEDED one.  The event was emitted once if the status is reached and nobody owes it;
  never do two owe it.  `cancel` decides from a status read before its own
  transition, so this ties `previous` to the execution under way.
* `StartsOK`: STARTED events are no more than the terminal ones and the executions that
  have begun and not yet emitted their end, counted over all retries.

**`CommandRunnerProofs`.**  `CommandInvariant` shows `Spec => []CommandInv`; from it
`NoSurvivors`, `CancellationReaches` and `VerdictUndisturbed`.  `PlacesOK` says where
`_terminate_process` returns to, `ProcessOK` that the runner passes `wait` only when
the leader has exited and the join only when nobody holds the pipes, `CauseOK` that
a signal has a cancellation or a timeout behind it, and that neither comes after
the verdict.

**`AgentSessionProofs`.**  `SessionInvariant` shows `Spec => []SessionInv`, which is inductive:
`LocksAccounted` ties every send lock, its queue and the handler lock to the places of the
calls, and `TurnsOK` says that a turn's lock is one of a session that was opened, in the
sync mode the one of the loop it runs on.  The lemmas about queues say what joining, taking
the head and leaving from the middle do to a queue that holds each waiter once; `MoveInv`
covers a step that ends, starts or queues a turn, `HandlerInv` one that takes or releases the
handler lock, `QuietInv` the others.  From the invariant follow `TurnsSerialized` (all
turns of a session run under its lock, which has one holder) and `AbortsOwnTurn` (another
call that still waits for its turn would have to hold the handler lock).

**`AsyncSubmissionProofs`.**  `AsyncInvariant` shows `Spec => []AsyncInv`.  `FuturesOK` accounts
for every future that is not settled: a pending one is in the queue, a running one in the
hands of a thread.  `PlacesOK` and `PoolOK` say where threads and clients can be, and that a
pool thread ends only when the pool is down and the queue empty.  `RunningOK` is about tasks:
one that is RUNNING has a thread that has yet to write its end, however many threads run it
and whoever overwrites whom, and one whose future is done has left PENDING.
`ShutdownHasDrained` and `ShutdownEndsTasks` follow: when the owner's `shutdown` has returned
all threads have ended, so the queue is empty, nobody holds a future, and no task can be
RUNNING or PENDING behind a future that is done.

**`GraphStoreProofs`.**  `StoreInvariant` shows `Spec => []StoreInv`, whose parts are named
for what they say of the file, of each process on its way, and of the runner:

* `Integrity` and `SavedWhole`: the references hold, and a saved graph is there with all
  its members and only grows until something is deleted; `ReadsWhole(p)` says of what a
  process in the middle of a load has read so far that it is a graph the runner had.
* `SchemaOK`, `PlaceOK(p)`, `RunnerOK`: which tables there must be for a process to be where
  it is, and what the runner's memory is in each phase.
* `RowsFollow`: as long as no save is lost and nobody else writes, the rows are in the order
  of the graph (`RowsOrdered`), so are the tasks in memory (`LiveOrdered`), a row is
  behind its task only while the task's worker is about to save it (`LiveSaved`), and
  what a restarted runner has read so far is what the rows still say (`RunnerReads`).
  Readiness looks at statuses, so the order is one of rows that have begun (`Begun`) below
  rows that let them (`Passable`): an upstream task that has succeeded in memory is recorded
  RUNNING until its save, and CANCELLED once a later life has reset it.

`StoredInOrder` and `LoadedWhole` are parts of it.  `SchemaStaysWhole` adds `TablesOK`: what a
process has created on its way in stays unless one that may rebuild the file drops it.
`CatchesUp` is about the step `EndRun`.  `NeverRepeats` needs the strengthening `RepeatOK`, about
every copy of a task at once: a task that is recorded SUCCEEDED is settled in every copy
a process may run or write back, and one whose handler was called and has no record of its
end is RUNNING or CANCELLED in each of them.  The proof goes action by action through the
places where a copy is made: a load, an adoption, a store cancel, an `add` of a task whose
row is gone.  `RefusalsExplained`
(`RefusedOnlyAfterCrash`) needs `RunningOK`.  While no save is lost and no handler escapes, a
row says RUNNING only of a task that a worker has (`Attended`).  The end of each task is saved
twice, by its worker and with the graph when the run ends, so one lost save leaves no RUNNING
row behind once the run is over (`Tidy`); it takes a second one, a BaseException or a crash.

Only model-checked: liveness (`RunTerminates`, `TimeoutEnds`, `FuturesSettle`,
`ShutdownReturns`, `CancelledCallsEnd`, `CallsEndUnlessStuck`), which is beyond the
prover, and nothing else: every invariant, action property and refinement that a
passing run checks is stated by a theorem.

## 8. What is not modelled

* The event bus: only the number of lifecycle events is counted.  `unsubscribe()` called
  twice removes another registration of the same function (`_events.py:77`), although
  it is called idempotent.
* Of the agent session: subscriptions and `_dispatch_event`, options, argument checks;
  the join in `_stop_loop_thread` takes as long as it needs (the code gives up after
  five seconds, and a thread that ends later clears the `_loop` of its successor,
  `copilot.py:300`).  The SDK is what the code relies on: it answers, raises its
  timeout or another error, and aborts when it gets to it.
* Of the store: the directory, WAL mode, the busy timeout (a save that cannot get the
  database in time is a lost save), several graphs that share tasks, the columns other
  than status and result, iteration and counting.
* `add()` that fails half-way: on a bad `after` the `TypeError` (`_graph.py:76`) comes when the
  task is already in `_tasks` (`_graph.py:72`), with no entry in `_deps`.  The models call
  `add` with valid arguments only.
* In `GraphStore`: a task without a handler, and a live `executor.cancel` beside the run;
  both are in `TaskExecutor` and `TaskGraph`.
* The views of `TaskGraph` and `ok`: they compute from what is modelled.
* Progress and output events, timestamps, durations, texts, titles, payloads: no
  property tells them apart.
* The in-memory store, exceptions, exports, the demo and the scripts have no
  concurrent behaviour of their own.
* The steps of Kahn's algorithm in `_validate`: the model says whether the graph
  is acyclic.

## 9. Plan

Done, in this order: `TaskLifecycle`, `TaskGraph` and its proofs, `TaskLedger` and
`TaskExecutor`, `CommandRunner` and its proofs, `AsyncSubmission` and its proofs, `GraphRun`
and the refinement with its proof, `GraphStore` and its proofs, `AgentSession` and its
proofs, the proofs about `TaskExecutor`, `GraphOutcomeProofs`.

Next, most important first:

1. `EventBus`: subscribing and unsubscribing during an emit, failing subscribers.
2. Kahn's algorithm as a recursive function against acyclicity, over all
   graphs of four tasks.
3. Two graphs in one store that share tasks.
4. Proofs: what `GraphRun` promises by itself, so that it holds of `TaskGraph` through
   the refinement.

Runs stay few: those whose question another one has come to include are merged,
and the runs behind findings go when the code changes.
