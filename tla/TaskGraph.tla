----------------------------- MODULE TaskGraph -----------------------------
(***************************************************************************)
(* TaskGraph.add and TaskGraph.run of _graph.py: the DAG ledger and the    *)
(* scheduler that drives it through a ThreadPoolExecutor.                  *)
(*                                                                         *)
(* Three kinds of thread meet here: the caller of run(), the pool's        *)
(* workers, and whoever calls TaskExecutor.cancel() on a task from outside *)
(* the run.  schedule() runs under an RLock, first on the caller's thread  *)
(* (the kick-off) and then inside the done-callback of every future;       *)
(* workers and cancellers change task statuses and complete futures        *)
(* WITHOUT that lock, so they interleave with every step of schedule().    *)
(* Because the lock is re-entrant and add_done_callback runs the callback  *)
(* at once on a future that is already done, schedule() can be entered     *)
(* again from inside itself: `frames' is the stack of those activations.   *)
(***************************************************************************)
EXTENDS Integers, Sequences, FiniteSets, TaskLifecycle

CONSTANTS
    Tasks,       \* the tasks there are (a graph holds some of them)
    None,        \* Python's None
    Main,        \* the thread that calls run(); not a task
    InitGraphs,  \* graphs built by calls of add() before the behaviour starts
    DepLists,    \* the dependency lists a later add() may store
    Unhandled,   \* tasks whose type has no registered handler
    Outcomes,    \* how a handler may end
    CancelFrom,  \* the statuses in which an external cancel() may find a task
    MaxWorkers,  \* the max_workers argument of run()
    MaxRuns, MaxAdds, MaxCancels   \* bounds of the explored behaviours

ASSUME ThreadsAssumption == Main \notin Tasks /\ None \notin Tasks
ASSUME GraphsAssumption ==
    /\ \A g \in InitGraphs :
         /\ DOMAIN g = {"order", "deps", "finally", "optional"}
         /\ g.order \in Seq(Tasks)
         /\ g.deps \in [Tasks -> Seq(Tasks)]
         /\ g.finally \subseteq Tasks
         /\ g.optional \subseteq g.finally
    /\ \A s \in DepLists : s \in Seq(Tasks)
ASSUME EnvironmentAssumption ==
    /\ Unhandled \subseteq Tasks
    /\ Outcomes \subseteq {"return", "raise", "cancel", "escape"}
    /\ CancelFrom \subseteq TaskStatus
ASSUME BoundsAssumption ==
    /\ MaxWorkers \in Nat \ {0}
    /\ MaxRuns \in Nat /\ MaxAdds \in Nat /\ MaxCancels \in Nat

VARIABLES
    order,     \* keys of _tasks and _deps, in insertion order
    deps,      \* _deps: upstream tasks in declaration order
    finally,   \* _finally
    optional,  \* _optional
    status, blockedBy,        \* the tasks' own fields
    enteringBlocked,          \* entering_blocked
    fut,       \* futures: "none" until submitted, then the Future's progress
    raised,    \* tasks whose execute() call ended in an exception this run
    errors,    \* keys of _errors
    queue,     \* the pool's FIFO of work items
    cb,        \* per task: its done-callback
    frames,    \* activations of schedule(), innermost first; lock held iff any
    done,      \* the Event run() waits on
    schedulerError,           \* scheduler_error is not empty
    pool,      \* the `with ThreadPoolExecutor' block
    main,      \* where the thread in run() is
    outcome,   \* how the latest run() ended
    runs, adds, cancels       \* counters behind the bounds

graphVars == <<order, deps, finally, optional>>
taskVars  == <<status, blockedBy>>
poolVars  == <<fut, raised, queue, cb>>
runVars   == <<enteringBlocked, errors, done, schedulerError, pool>>
envVars   == <<runs, adds, cancels>>
vars == <<graphVars, taskVars, poolVars, runVars, frames, main, outcome, envVars>>

FutureState == {"none", "queued", "running", "returning", "done"}
Step == {"visit", "block", "register", "check", "guard"}
Frame == [of : Tasks \cup {Main}, step : Step, pos : Nat,
          changed : BOOLEAN, bad : Tasks \cup {None}]

Registered == {order[i] : i \in DOMAIN order}
Upstream(t) == {deps[t][i] : i \in DOMAIN deps[t]}

-----------------------------------------------------------------------------
(* The predicates schedule() is written with.                              *)

InFutures(t) == fut[t] # "none"
FutureIsDone(t) == fut[t] = "done"

Succeeded(t) == status[t] = "succeeded"

\* retryable_this_run
Retryable(t) ==
    /\ ~InFutures(t)
    /\ CanTransition(status[t], "running")
    /\ status[t] # "blocked" \/ t \in enteringBlocked

\* Mutant of Inactive: looks at the status only, not at the future.
InactiveByStatus(t) == IsTerminal(status[t])

\* inactive
Inactive(t) ==
    \/ InFutures(t) /\ FutureIsDone(t)
    \/ /\ ~InFutures(t)
       /\ \/ IsTerminal(status[t]) /\ ~Retryable(t)
          \/ t \in errors

\* Mutants of Ready: one upstream success is enough; finally tasks are treated
\* like the others.
ReadyOnFirstSuccess(t) ==
    IF t \in finally THEN \A d \in Upstream(t) : Inactive(d)
                     ELSE Upstream(t) = {} \/ \E d \in Upstream(t) : Succeeded(d)
ReadyIgnoringFinally(t) == \A d \in Upstream(t) : Succeeded(d)

\* ready
Ready(t) ==
    IF t \in finally THEN \A d \in Upstream(t) : Inactive(d)
                     ELSE \A d \in Upstream(t) : Succeeded(d)

\* Mutant of BadParent: an upstream task still to run is bad.
BadUnlessSucceeded(d) == ~Succeeded(d)

\* The test first_bad_parent makes on one dependency.
BadParent(d) ==
    /\ InFutures(d) => FutureIsDone(d)
    /\ d \in errors \/ (IsBad(status[d]) /\ ~Retryable(d))

\* finished
Finished(t) == IsTerminal(status[t]) \/ (InFutures(t) /\ FutureIsDone(t))

\* The early `continue's of schedule()'s loop over _deps.
Skipped(t) ==
    \/ InFutures(t)
    \/ IsSink(status[t])
    \/ status[t] = "blocked" /\ t \notin enteringBlocked

\* Mutant of Held: finally tasks are blocked too.
HeldEvenFinally(t) == \E d \in Upstream(t) : BadParent(d)

\* A non-finally task with a bad parent is never submitted.
Held(t) == t \notin finally /\ \E d \in Upstream(t) : BadParent(d)

-----------------------------------------------------------------------------
(* _validate: no task may be RUNNING, every dependency is registered, and  *)
(* the graph is acyclic: every non-empty set of its tasks has a member     *)
(* that depends on no other member.                                        *)

Acyclic == \A S \in SUBSET Registered :
              S # {} => \E t \in S : Upstream(t) \cap S = {}

Valid == /\ \A t \in Registered : status[t] # "running"
         /\ \A t \in Registered : Upstream(t) \subseteq Registered
         /\ Acyclic

-----------------------------------------------------------------------------
Init ==
    /\ \E g \in InitGraphs : /\ order = g.order
                             /\ deps = g.deps
                             /\ finally = g.finally
                             /\ optional = g.optional
    /\ status = [t \in Tasks |-> "pending"]
    /\ blockedBy = [t \in Tasks |-> None]
    /\ enteringBlocked = {}
    /\ fut = [t \in Tasks |-> "none"]
    /\ raised = {}
    /\ errors = {}
    /\ queue = <<>>
    /\ cb = [t \in Tasks |-> "none"]
    /\ frames = <<>>
    /\ done = FALSE
    /\ schedulerError = FALSE
    /\ pool = "none"
    /\ main = "idle"
    /\ outcome = "none"
    /\ runs = 0 /\ adds = 0 /\ cancels = 0

\* add(): _optional.
OptionalAfter(t, required) ==
    IF required THEN optional \ {t} ELSE optional \cup {t}

\* add(): registering a task again replaces its dependencies and its flags
\* but keeps its place in the dictionaries.  required=False needs finally_.
Add(t, ds, isFinally, required) ==
    /\ main = "idle" /\ adds < MaxAdds
    /\ required \/ isFinally
    /\ order' = IF t \in Registered THEN order ELSE Append(order, t)
    /\ deps' = [deps EXCEPT ![t] = ds]
    /\ finally' = IF isFinally THEN finally \cup {t} ELSE finally \ {t}
    /\ optional' = OptionalAfter(t, required)
    /\ adds' = adds + 1
    /\ outcome' = "none"
    /\ UNCHANGED <<taskVars, poolVars, runVars, frames, main, runs, cancels>>

-----------------------------------------------------------------------------
(* run(): validation, the early return, and the set-up of a run.           *)

NewFrame(who) ==
    [of |-> who, step |-> "visit", pos |-> 1, changed |-> FALSE, bad |-> None]

\* _validate raises; nothing of the graph changes, the old _errors included.
RunRejected ==
    /\ main = "idle" /\ runs < MaxRuns
    /\ ~Valid
    /\ runs' = runs + 1
    /\ outcome' = "invalid"
    /\ UNCHANGED <<graphVars, taskVars, poolVars, runVars, frames, main,
                   adds, cancels>>

\* A graph without tasks returns at once, before the pool exists.
RunEmpty ==
    /\ main = "idle" /\ runs < MaxRuns
    /\ order = <<>>
    /\ errors' = {}
    /\ runs' = runs + 1
    /\ outcome' = "returned"
    /\ UNCHANGED <<graphVars, taskVars, poolVars, enteringBlocked, done,
                   schedulerError, pool, frames, main, adds, cancels>>

RunStart ==
    /\ main = "idle" /\ runs < MaxRuns
    /\ Valid /\ order # <<>>
    /\ errors' = {}
    /\ enteringBlocked' = {t \in Registered : status[t] = "blocked"}
    /\ fut' = [t \in Tasks |-> "none"]
    /\ raised' = {}
    /\ cb' = [t \in Tasks |-> "none"]
    /\ done' = FALSE
    /\ schedulerError' = FALSE
    /\ pool' = "open"
    /\ main' = "kickoff"
    /\ frames' = <<NewFrame(Main)>>
    /\ outcome' = "none"
    /\ runs' = runs + 1
    /\ UNCHANGED <<graphVars, taskVars, queue, adds, cancels>>

-----------------------------------------------------------------------------
(* schedule(): the steps of the innermost activation.                      *)

Top == Head(frames)
At(step) == frames # <<>> /\ Top.step = step
Continue(frame) == frames' = <<frame>> \o Tail(frames)
NextVisit(changed) ==
    [of |-> Top.of, step |-> "visit", pos |-> Top.pos + 1,
     changed |-> changed, bad |-> None]

InPass == At("visit") /\ Top.pos \in 1 .. Len(order)
Visited == order[Top.pos]

\* schedule() returns: the kick-off goes on to done.wait(), a callback ends.
Leave ==
    /\ frames' = Tail(frames)
    /\ IF Top.of = Main
         THEN main' = "waiting" /\ UNCHANGED cb
         ELSE cb' = [cb EXCEPT ![Top.of] = "finished"] /\ UNCHANGED main

\* schedule() raises.  concurrent.futures logs and drops the exception of a
\* callback; from the kick-off it leaves run() through the pool's __exit__.
Throw ==
    /\ frames' = Tail(frames)
    /\ IF Top.of = Main
         THEN /\ main' = "closing" /\ pool' = "closed" /\ outcome' = "raised"
              /\ UNCHANGED cb
         ELSE /\ cb' = [cb EXCEPT ![Top.of] = "finished"]
              /\ UNCHANGED <<main, pool, outcome>>

\* Nothing to do for this task in this pass: it is skipped, held by a bad
\* parent although no longer PENDING, or not ready.
VisitSkip ==
    /\ InPass
    /\ \/ Skipped(Visited)
       \/ Held(Visited) /\ status[Visited] # "pending"
       \/ /\ ~Skipped(Visited) /\ ~Held(Visited)
          /\ ~Ready(Visited) \/ ~CanTransition(status[Visited], "running")
    /\ Continue(NextVisit(Top.changed))
    /\ UNCHANGED <<graphVars, taskVars, poolVars, runVars, main, outcome, envVars>>

\* The first bad parent in declaration order condemns a PENDING task ...
VisitBlock ==
    /\ InPass
    /\ ~Skipped(Visited) /\ Held(Visited) /\ status[Visited] = "pending"
    /\ \E i \in DOMAIN deps[Visited] :
         /\ BadParent(deps[Visited][i])
         /\ \A j \in 1 .. i - 1 : ~BadParent(deps[Visited][j])
         /\ Continue([Top EXCEPT !.step = "block", !.bad = deps[Visited][i]])
    /\ UNCHANGED <<graphVars, taskVars, poolVars, runVars, main, outcome, envVars>>

\* ... and executor.mark_blocked carries that out, unless the task left
\* PENDING since the test: then transition_to raises ValueError.
MarkBlocked ==
    /\ At("block")
    /\ \/ /\ CanTransition(status[Visited], "blocked")
          /\ status' = [status EXCEPT ![Visited] = "blocked"]
          /\ blockedBy' = [blockedBy EXCEPT ![Visited] = Top.bad]
          /\ Continue(NextVisit(TRUE))
          /\ UNCHANGED <<cb, pool, main, outcome>>
       \/ /\ ~CanTransition(status[Visited], "blocked")
          /\ Throw
          /\ UNCHANGED taskVars
    /\ UNCHANGED <<graphVars, fut, raised, queue, enteringBlocked, errors, done,
                   schedulerError, envVars>>

\* submit(): pool.submit and futures[tid] = fut.  A pool that is shutting
\* down raises RuntimeError instead.
Submit ==
    /\ InPass
    /\ ~Skipped(Visited) /\ ~Held(Visited)
    /\ Ready(Visited) /\ CanTransition(status[Visited], "running")
    /\ \/ /\ pool = "open"
          /\ fut' = [fut EXCEPT ![Visited] = "queued"]
          /\ queue' = Append(queue, Visited)
          /\ Continue([Top EXCEPT !.step = "register"])
          /\ UNCHANGED <<cb, pool, main, outcome>>
       \/ /\ pool = "closed"
          /\ Throw
          /\ UNCHANGED <<fut, queue>>
    /\ UNCHANGED <<graphVars, taskVars, raised, enteringBlocked, errors, done,
                   schedulerError, envVars>>

\* Mutant of RecordError: a cancellation is not an error.
RecordUnlessCancelled(t) ==
    errors' = IF t \in raised /\ status[t] # "cancelled" THEN errors \cup {t} ELSE errors

\* on_finish up to its call of schedule(): record the future's exception.
RecordError(t) == errors' = IF t \in raised THEN errors \cup {t} ELSE errors

\* submit(): add_done_callback.  On a future that is already done it calls
\* on_finish here and now, inside the activation that submitted the task.
Register ==
    /\ At("register")
    /\ IF FutureIsDone(Visited)
         THEN /\ RecordError(Visited)
              /\ frames' = <<NewFrame(Visited), NextVisit(TRUE)>> \o Tail(frames)
              /\ UNCHANGED cb
         ELSE /\ cb' = [cb EXCEPT ![Visited] = "registered"]
              /\ Continue(NextVisit(TRUE))
              /\ UNCHANGED errors
    /\ UNCHANGED <<graphVars, taskVars, fut, raised, queue, enteringBlocked, done,
                   schedulerError, pool, main, outcome, envVars>>

\* The end of a pass: another one if something changed.
EndPass ==
    /\ At("visit") /\ Top.pos > Len(order)
    /\ IF Top.changed
         THEN Continue([Top EXCEPT !.pos = 1, !.changed = FALSE])
         ELSE Continue([Top EXCEPT !.step = "check", !.pos = 1])
    /\ UNCHANGED <<graphVars, taskVars, poolVars, runVars, main, outcome, envVars>>

\* all(finished(tid) for tid in self._deps), one task at a time.
CheckFinished ==
    /\ At("check") /\ Top.pos <= Len(order)
    /\ IF Finished(Visited)
         THEN Continue([Top EXCEPT !.pos = @ + 1])
         ELSE Continue([Top EXCEPT !.step = "guard", !.pos = 1])
    /\ UNCHANGED <<graphVars, taskVars, poolVars, runVars, main, outcome, envVars>>

AllFinished ==
    /\ At("check") /\ Top.pos > Len(order)
    /\ done' = TRUE
    /\ Leave
    /\ UNCHANGED <<graphVars, taskVars, fut, raised, queue, enteringBlocked, errors,
                   schedulerError, pool, outcome, envVars>>

\* The no-progress guard: without a live future nothing will ever call
\* schedule() again.
Live == \E t \in Tasks : InFutures(t) /\ ~FutureIsDone(t)

Guard ==
    /\ At("guard")
    /\ IF Live THEN UNCHANGED <<done, schedulerError>>
               ELSE done' = TRUE /\ schedulerError' = TRUE
    /\ Leave
    /\ UNCHANGED <<graphVars, taskVars, fut, raised, queue, enteringBlocked, errors,
                   pool, outcome, envVars>>

-----------------------------------------------------------------------------
(* The pool's workers.  What happens inside TaskExecutor.execute is here   *)
(* only its effect on the task and on the future: TaskExecutor is the      *)
(* detailed model.                                                         *)

\* A worker is taken from dequeuing until its future's callbacks returned.
Busy == {t \in Tasks : \/ fut[t] \in {"running", "returning"}
                       \/ fut[t] = "done" /\ cb[t] = "registered"}

Dequeue(t) ==
    /\ queue # <<>> /\ t = Head(queue)
    /\ Cardinality(Busy) < MaxWorkers
    /\ queue' = Tail(queue)

\* execute() raises without touching a task that cannot enter RUNNING
\* (cancelled while it sat in the queue).
ExecuteRejected(t) ==
    /\ Dequeue(t)
    /\ ~CanTransition(status[t], "running")
    /\ fut' = [fut EXCEPT ![t] = "returning"]
    /\ raised' = raised \cup {t}
    /\ UNCHANGED <<graphVars, taskVars, cb, runVars, frames, main, outcome, envVars>>

\* No handler for the task's type: FAILED (through RUNNING, which forgets
\* blocked_by, unless it was PENDING), then ValueError.
ExecuteUnhandled(t) ==
    /\ Dequeue(t)
    /\ CanTransition(status[t], "running") /\ t \in Unhandled
    /\ status' = [status EXCEPT ![t] = "failed"]
    /\ blockedBy' = [blockedBy EXCEPT ![t] = IF status[t] = "pending" THEN @ ELSE None]
    /\ fut' = [fut EXCEPT ![t] = "returning"]
    /\ raised' = raised \cup {t}
    /\ UNCHANGED <<graphVars, cb, runVars, frames, main, outcome, envVars>>

ExecuteStart(t) ==
    /\ Dequeue(t)
    /\ CanTransition(status[t], "running") /\ t \notin Unhandled
    /\ status' = [status EXCEPT ![t] = "running"]
    /\ blockedBy' = [blockedBy EXCEPT ![t] = None]
    /\ fut' = [fut EXCEPT ![t] = "running"]
    /\ UNCHANGED <<graphVars, raised, cb, runVars, frames, main, outcome, envVars>>

\* The handler returned: SUCCEEDED.
HandlerReturns(t) ==
    /\ fut[t] = "running" /\ status[t] = "running" /\ "return" \in Outcomes
    /\ status' = [status EXCEPT ![t] = "succeeded"]
    /\ fut' = [fut EXCEPT ![t] = "returning"]
    /\ UNCHANGED <<graphVars, blockedBy, raised, queue, cb, runVars, frames, main,
                   outcome, envVars>>

\* The handler raised: an Exception makes the task FAILED and TaskCancelled
\* makes it CANCELLED; a BaseException passes every except clause and
\* leaves the task RUNNING.
HandlerRaises(t) ==
    /\ fut[t] = "running" /\ status[t] = "running"
    /\ \/ "raise" \in Outcomes /\ status' = [status EXCEPT ![t] = "failed"]
       \/ "cancel" \in Outcomes /\ status' = [status EXCEPT ![t] = "cancelled"]
       \/ "escape" \in Outcomes /\ UNCHANGED status
    /\ fut' = [fut EXCEPT ![t] = "returning"]
    /\ raised' = raised \cup {t}
    /\ UNCHANGED <<graphVars, blockedBy, queue, cb, runVars, frames, main, outcome,
                   envVars>>

\* An external cancel() came first: whatever the handler does then, the
\* task stays CANCELLED and the call ends in TaskCancelled.
HandlerUnwinds(t) ==
    /\ fut[t] = "running" /\ status[t] = "cancelled"
    /\ fut' = [fut EXCEPT ![t] = "returning"]
    /\ raised' = raised \cup {t}
    /\ UNCHANGED <<graphVars, taskVars, queue, cb, runVars, frames, main, outcome,
                   envVars>>

\* The task's status is final before its future is: the worker completes
\* the future only after execute() returned.
CompleteFuture(t) ==
    /\ fut[t] = "returning"
    /\ fut' = [fut EXCEPT ![t] = "done"]
    /\ UNCHANGED <<graphVars, taskVars, raised, queue, cb, runVars, frames, main,
                   outcome, envVars>>

\* Mutant of OnFinish: a callback that records an error does not schedule.
OnFinishUnlessRaised(t) ==
    /\ FutureIsDone(t) /\ cb[t] = "registered"
    /\ frames = <<>>
    /\ RecordError(t)
    /\ IF t \in raised
         THEN cb' = [cb EXCEPT ![t] = "finished"] /\ UNCHANGED frames
         ELSE frames' = <<NewFrame(t)>> /\ UNCHANGED cb
    /\ UNCHANGED <<graphVars, taskVars, fut, raised, queue, enteringBlocked, done,
                   schedulerError, pool, main, outcome, envVars>>

\* on_finish on the worker's thread, once the lock is free.
OnFinish(t) ==
    /\ FutureIsDone(t) /\ cb[t] = "registered"
    /\ frames = <<>>
    /\ RecordError(t)
    /\ frames' = <<NewFrame(t)>>
    /\ UNCHANGED <<graphVars, taskVars, poolVars, enteringBlocked, done,
                   schedulerError, pool, main, outcome, envVars>>

-----------------------------------------------------------------------------
(* The caller's thread after the kick-off, and the outside world.          *)

\* Mutant of WaitDone: the wait gives up before the event is set.
WaitTimesOut ==
    /\ main = "waiting"
    /\ main' = "closing"
    /\ pool' = "closed"
    /\ UNCHANGED <<graphVars, taskVars, poolVars, enteringBlocked, errors, done,
                   schedulerError, frames, outcome, envVars>>

\* done.wait() returns and the with block begins to shut the pool down.
WaitDone ==
    /\ main = "waiting" /\ done
    /\ main' = "closing"
    /\ pool' = "closed"
    /\ UNCHANGED <<graphVars, taskVars, poolVars, enteringBlocked, errors, done,
                   schedulerError, frames, outcome, envVars>>

\* shutdown(wait=True): every queued item still runs and every worker ends.
PoolIdle ==
    /\ queue = <<>> /\ frames = <<>> /\ Busy = {}
    /\ \A t \in Tasks : fut[t] \in {"none", "done"}

RunEnds ==
    /\ main = "closing" /\ PoolIdle
    /\ main' = "idle"
    /\ pool' = "none"
    /\ outcome' = IF outcome = "raised" \/ schedulerError THEN "raised" ELSE "returned"
    /\ UNCHANGED <<graphVars, taskVars, poolVars, enteringBlocked, errors, done,
                   schedulerError, frames, envVars>>

\* TaskExecutor.cancel(t) from another thread, at any moment.
Cancel(t) ==
    /\ cancels < MaxCancels
    /\ ~IsSink(status[t]) /\ status[t] \in CancelFrom
    /\ status' = [status EXCEPT ![t] = "cancelled"]
    /\ cancels' = cancels + 1
    /\ UNCHANGED <<graphVars, blockedBy, poolVars, runVars, frames, main, outcome,
                   runs, adds>>

-----------------------------------------------------------------------------
Scheduler ==
    \/ VisitSkip \/ VisitBlock \/ MarkBlocked \/ Submit \/ Register
    \/ EndPass \/ CheckFinished \/ AllFinished \/ Guard

Handler(t) == HandlerReturns(t) \/ HandlerRaises(t) \/ HandlerUnwinds(t)

Worker(t) ==
    \/ ExecuteRejected(t) \/ ExecuteUnhandled(t) \/ ExecuteStart(t)
    \/ Handler(t) \/ CompleteFuture(t) \/ OnFinish(t)

Caller ==
    \/ \E t \in Tasks, ds \in DepLists, isFinally, required \in BOOLEAN :
         Add(t, ds, isFinally, required)
    \/ RunRejected \/ RunEmpty \/ RunStart \/ WaitDone \/ RunEnds

Next == \/ Scheduler
        \/ \E t \in Tasks : Worker(t)
        \/ Caller
        \/ \E t \in Tasks : Cancel(t)

Spec == Init /\ [][Next]_vars

\* Threads are scheduled by the operating system and every handler ends; the
\* lock is handed to each waiting callback in turn because a callback takes
\* it exactly once.  Nothing obliges anyone to call run(), add() or cancel().
Fairness ==
    /\ WF_vars(Scheduler)
    /\ \A t \in Tasks : WF_vars(Worker(t))
    /\ WF_vars(WaitDone) /\ WF_vars(RunEnds)

FairSpec == Spec /\ Fairness

-----------------------------------------------------------------------------
(* Properties.                                                             *)

TypeOK ==
    /\ order \in Seq(Tasks)
    /\ deps \in [Tasks -> Seq(Tasks)]
    /\ finally \subseteq Tasks
    /\ optional \subseteq finally
    /\ status \in [Tasks -> TaskStatus]
    /\ blockedBy \in [Tasks -> Tasks \cup {None}]
    /\ enteringBlocked \subseteq Tasks
    /\ fut \in [Tasks -> FutureState]
    /\ raised \subseteq Tasks
    /\ errors \subseteq Tasks
    /\ queue \in Seq(Tasks)
    /\ cb \in [Tasks -> {"none", "registered", "finished"}]
    /\ frames \in Seq(Frame)
    /\ done \in BOOLEAN
    /\ schedulerError \in BOOLEAN
    /\ pool \in {"none", "open", "closed"}
    /\ main \in {"idle", "kickoff", "waiting", "closing"}
    /\ outcome \in {"none", "returned", "raised", "invalid"}
    /\ runs \in Nat /\ adds \in Nat /\ cancels \in Nat

InRun == main # "idle"
Returned == main = "idle" /\ outcome = "returned"

\* While a run is on, a task that is not a finally task has been handed to
\* the pool only if every one of its upstream tasks is SUCCEEDED: whatever
\* workers, callbacks and cancellers do, nothing runs on top of a failed,
\* cancelled, blocked or unfinished dependency.
RunsOnlyAfterDependencies ==
    InRun => \A t \in Registered \ finally :
               InFutures(t) => \A d \in Upstream(t) : Succeeded(d)

\* "tasks that get BLOCKED during this run stay terminal so finally readiness
\* and inactive() remain consistent": from the moment a finally task is handed
\* to the pool, none of its upstream tasks does anything more in that run.  Its
\* future does not move, and its status changes only by an external cancel().
FinallyIsLast ==
    [][\A f \in Registered \cap finally : \A d \in Upstream(f) :
         InRun /\ InFutures(f) =>
            /\ fut'[d] = fut[d]
            /\ status'[d] \in {status[d], "cancelled"}]_vars

\* A task BLOCKED during this run names a direct upstream task that really is
\* bad and cannot come back in this run: blocked_by is never a task that is
\* live, still retryable, or has succeeded without error.
BlockedJustified ==
    InRun => \A t \in Registered \ enteringBlocked :
               status[t] = "blocked" =>
                  /\ t \notin finally /\ ~InFutures(t)
                  /\ blockedBy[t] \in Upstream(t)
                  /\ BadParent(blockedBy[t])

\* When run() is over, _errors holds exactly the tasks whose execute() call
\* raised during that run, and none of them reads SUCCEEDED: no callback was
\* lost, none reported twice, none left over from the run before.
ErrorsComplete ==
    main = "idle" /\ outcome \in {"returned", "raised"} =>
        errors = raised /\ \A t \in errors : ~Succeeded(t)

\* A run() that returns leaves a task BLOCKED only if one of its upstream
\* tasks did not succeed.
BlockedHasCause ==
    Returned => \A t \in Registered :
                  status[t] = "blocked" => \E d \in Upstream(t) : ~Succeeded(d)

\* A run() that returns leaves nothing undecided: no task is still PENDING, and every
\* finally task was executed, whatever became of the tasks before it, except those that
\* somebody cancelled before they started and those that had succeeded in an earlier run.
NothingLeftUndecided ==
    Returned => \A t \in Registered :
                  /\ status[t] # "pending"
                  /\ t \in finally => InFutures(t) \/ IsSink(status[t])

\* "No live work to wait on and not finished: deadlocked": when run() raises
\* "scheduler made no progress", some task is stuck, and no stuck task has all
\* its upstream tasks settled.
NoProgressIsReal ==
    main = "idle" /\ schedulerError =>
        /\ \E t \in Registered : ~Finished(t)
        /\ \A t \in Registered : ~Finished(t) => ~Ready(t)

\* Nobody but the innermost activation of schedule() has anything left to do.
LastThread ==
    /\ Len(frames) = 1 /\ queue = <<>>
    /\ \A t \in Tasks : /\ fut[t] \in {"none", "done"}
                        /\ cb[t] = "registered" => t = Top.of

\* "it becomes ready once every listed upstream task is no longer active,
\* regardless of success": when schedule() has stopped making progress and no
\* other thread will resume it, no finally task is left PENDING behind upstream
\* tasks that are all terminal.  (An external cancel() in the middle of the last
\* pass can still be missed, so the property is about behaviours without one.)
FinallyBecomesReady ==
    cancels = 0 /\ At("guard") /\ LastThread =>
        \A f \in Registered \cap finally :
            status[f] = "pending" =>
                \E d \in Upstream(f) : ~IsTerminal(status[d])

\* "the run terminates instead of hanging": every run() comes to an end.
RunTerminates == InRun ~> ~InRun

-----------------------------------------------------------------------------
(* The abstract specification.                                             *)

Contract == INSTANCE GraphRun WITH
    members <- Registered,
    upstream <- [t \in Tasks |-> Upstream(t)],
    carried <- enteringBlocked,
    handed <- {t \in Tasks : InFutures(t)},
    over <- {t \in Tasks : FutureIsDone(t)},
    active <- InRun

\* Passes, callbacks, re-entries, errors and the pool are invisible in what a
\* run does to the tasks: every step of the scheduler, its workers and its
\* cancellers is a step of GraphRun or changes nothing there.
ImplementsGraphRun == Contract!Spec

-----------------------------------------------------------------------------
(* The inductive invariant behind the theorems of TaskGraphProofs.         *)

\* Only the innermost activation can be in the middle of a visit, and a visit
\* in progress is at a task of the graph.
FramesOK ==
    \A i \in DOMAIN frames :
        /\ i > 1 => frames[i].step = "visit"
        /\ frames[i].pos >= 1
        /\ frames[i].step \in {"block", "register"} => frames[i].pos <= Len(order)

\* Between runs no thread of a run is left.
IdleOK ==
    main = "idle" =>
        /\ frames = <<>> /\ queue = <<>>
        /\ \A t \in Tasks : /\ fut[t] \in {"none", "done"}
                            /\ fut[t] = "done" => cb[t] # "registered"

\* The pool's queue holds each queued task once, and nothing else.
QueueOK ==
    /\ \A i \in DOMAIN queue : fut[queue[i]] = "queued"
    /\ \A i, j \in DOMAIN queue : queue[i] = queue[j] => i = j

\* An error can only come from a completed future of this run.
ErrorsOK == InRun => \A t \in errors : FutureIsDone(t)

\* Nothing of this run can still happen to the task.
Settled(t) ==
    \/ FutureIsDone(t)
    \/ /\ fut[t] = "none"
       /\ IsSink(status[t]) \/ (status[t] = "blocked" /\ t \notin enteringBlocked)

FinallyAfterSettled ==
    InRun => \A f \in Registered \cap finally :
               InFutures(f) => \A d \in Upstream(f) : Settled(d)

\* While schedule() is about to block a task, its reason to do so stands.
BlockingJustified ==
    InRun /\ At("block") =>
        /\ Visited \notin finally /\ fut[Visited] = "none"
        /\ Top.bad \in Upstream(Visited) /\ BadParent(Top.bad)

\* The exception of the task's future, if any, has been recorded.
Recorded(t) == FutureIsDone(t) /\ (t \in raised => t \in errors)

\* Exceptions are those of futures that ran, and none belongs to a task that SUCCEEDED.
RaisedOK ==
    /\ errors \subseteq raised
    /\ \A t \in Tasks :
          /\ t \in raised => fut[t] \in {"returning", "done"} /\ ~Succeeded(t)
          /\ fut[t] = "queued" => ~Succeeded(t)

\* A callback records the exception before it schedules.
OwnersOK == \A i \in DOMAIN frames : frames[i].of # Main => Recorded(frames[i].of)

\* No callback is lost: a future whose callback is not waiting to run is the one that
\* schedule() is about to register, or its exception is recorded.
CallbacksOK ==
    \A t \in Tasks : InFutures(t) =>
        /\ t \in Registered
        /\ \/ cb[t] = "registered"
           \/ Recorded(t)
           \/ At("register") /\ Visited = t

\* The scheduler's state is consistent: the conjunction of the above with the
\* properties proved from it.
SchedulerInv ==
    /\ TypeOK /\ FramesOK /\ IdleOK /\ QueueOK /\ ErrorsOK
    /\ RunsOnlyAfterDependencies /\ FinallyAfterSettled
    /\ BlockingJustified /\ BlockedJustified
    /\ RaisedOK /\ OwnersOK /\ CallbacksOK

=============================================================================
