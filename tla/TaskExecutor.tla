---------------------------- MODULE TaskExecutor ----------------------------
(***************************************************************************)
(* TaskExecutor.execute, cancel and mark_blocked of _executor.py working   *)
(* on one task from several threads, down to the reads and writes of       *)
(* Task.transition_to and of the SQLite store's save.                      *)
(*                                                                         *)
(* No lock protects a Task, so a step is one read or one write of its      *)
(* status or result, and the interpreter may switch threads between any    *)
(* two of them: what a thread has read may be out of date when it writes.  *)
(* Two history variables, which no guard reads, record when that has come  *)
(* about and what the task was when it first was at rest in a sink.        *)
(***************************************************************************)
EXTENDS Integers, FiniteSets, TaskLifecycle

CONSTANTS
    Threads,      \* threads that call the executor
    Calls,        \* Calls[th]: the operations thread th may call
    MaxCalls,     \* bound on the calls made
    None,         \* Python's None
    MaxAttempts   \* retry_policy.max_attempts

PC == {"idle", "check", "unhandled", "transition", "error", "write", "forget", "result",
       "compare", "snapshot", "insert", "commit", "notify", "handler", "caught", "retry",
       "backoff", "cancel", "previous", "cancelTask", "settle", "block"}
Operation == {"execute", "cancel", "block"}
ResultStatus == {"succeeded", "failed", "cancelled"}

\* Where a thread has decided what becomes of the task and has not yet written
\* all of it: from the look at the status that the decision rests on to the last
\* assignment of transition_to.
Deciding == {"unhandled", "cancelTask", "result", "compare", "transition", "error", "write",
             "forget"}

ASSUME ThreadsAssumption == IsFiniteSet(Threads)
ASSUME CallsAssumption == Calls \in [Threads -> SUBSET Operation] /\ MaxCalls \in Nat
ASSUME PolicyAssumption == MaxAttempts \in Nat \ {0}
ASSUME NoneAssumption ==
    None \notin TaskStatus \cup Operation \cup {"returned", "raised"} \cup Threads

VARIABLES
    status, result,   \* the Task: its status, and the status its TaskResult has
    store,            \* the row of the task and of its result in the store
    storeLock,        \* SQLite's write lock: the thread inside a save, or None
    emitted,          \* how many events of each type were emitted
    pc, op,           \* per thread: where it is, and in which call
    target,           \* the status it is moving the task to
    then,             \* where it goes on once transition_to returned
    previous,         \* cancel's `previous'
    attempt,          \* execute's attempt, counted from 1
    raising,          \* the exception execute has in flight
    snap,             \* what its save has read of the task
    verdict,          \* how its latest call ended
    escaped,          \* some handler has ended in a BaseException
    hasHandler,       \* a handler is registered for the task's type
    calls,            \* counter behind MaxCalls
    overtaken,        \* history: the status has changed while another thread was Deciding
    sealed            \* history: the Outcome when the task first was at rest in a sink, or None

taskVars   == <<status, result>>
storeVars  == <<store, storeLock>>
scratch    == <<target, then, previous, attempt, raising, snap>>
localVars  == <<op, verdict, scratch>>
envVars    == <<escaped, hasHandler, calls>>
history    == <<overtaken, sealed>>
vars == <<taskVars, storeVars, emitted, pc, localVars, envVars, history>>

Row == [status : TaskStatus \cup {None}, result : ResultStatus \cup {None}]

NoRow == [status |-> None, result |-> None]

Init ==
    /\ status = "pending" /\ result = None
    /\ store = NoRow
    /\ storeLock = None
    /\ emitted = [e \in TaskStatus |-> 0]
    /\ pc = [th \in Threads |-> "idle"]
    /\ op = [th \in Threads |-> None]
    /\ target = [th \in Threads |-> None]
    /\ then = [th \in Threads |-> None]
    /\ previous = [th \in Threads |-> None]
    /\ attempt = [th \in Threads |-> 0]
    /\ raising = [th \in Threads |-> None]
    /\ snap = [th \in Threads |-> NoRow]
    /\ verdict = [th \in Threads |-> None]
    /\ escaped = FALSE /\ hasHandler \in BOOLEAN
    /\ calls = 0
    /\ overtaken = FALSE /\ sealed = None

-----------------------------------------------------------------------------
At(th, point) == pc[th] = point
Goto(th, point) == pc' = [pc EXCEPT ![th] = point]
Aim(th, to) == target' = [target EXCEPT ![th] = to]
Finish(th, how) ==
    /\ Goto(th, "idle")
    /\ verdict' = [verdict EXCEPT ![th] = how]
    /\ target' = [target EXCEPT ![th] = None]
    /\ then' = [then EXCEPT ![th] = None]
    /\ previous' = [previous EXCEPT ![th] = None]
    /\ attempt' = [attempt EXCEPT ![th] = 0]
    /\ raising' = [raising EXCEPT ![th] = None]
    /\ snap' = [snap EXCEPT ![th] = NoRow]

\* transition_to raised.  Inside _execute_once's try block (only its move to
\* SUCCEEDED can raise there) `except Exception' catches it; elsewhere it
\* leaves _execute_once, cancel or mark_blocked.
Fail(th) ==
    IF op[th] # "execute"
      THEN Finish(th, "raised")
      ELSE /\ Goto(th, IF target[th] = "succeeded" THEN "caught" ELSE "retry")
           /\ raising' = [raising EXCEPT ![th] = "Exception"]
           /\ UNCHANGED <<verdict, target, then, previous, attempt, snap>>

Call(th, o) ==
    /\ At(th, "idle") /\ calls < MaxCalls
    /\ Goto(th, IF o = "execute" THEN "check" ELSE o)
    /\ op' = [op EXCEPT ![th] = o]
    /\ attempt' = [attempt EXCEPT ![th] = 1]
    /\ verdict' = [verdict EXCEPT ![th] = None]
    /\ calls' = calls + 1
    /\ UNCHANGED <<taskVars, storeVars, emitted, target, then, previous, raising, snap,
                   escaped, hasHandler>>

-----------------------------------------------------------------------------
(* _execute_once.                                                          *)

\* can_transition_to(RUNNING), or ValueError.
Check(th) ==
    /\ At(th, "check")
    /\ IF CanTransition(status, "running")
         THEN /\ Goto(th, IF hasHandler THEN "transition" ELSE "unhandled")
              /\ Aim(th, "running")
              /\ then' = [then EXCEPT ![th] = IF hasHandler THEN "snapshot" ELSE "result"]
              /\ UNCHANGED raising
         ELSE /\ Goto(th, "retry")
              /\ raising' = [raising EXCEPT ![th] = "Exception"]
              /\ UNCHANGED <<target, then>>
    /\ UNCHANGED <<taskVars, storeVars, emitted, op, previous, attempt, snap,
                   verdict, envVars>>

\* No handler: FAILED directly where the table allows it, else through RUNNING.
Unhandled(th) ==
    /\ At(th, "unhandled")
    /\ IF CanTransition(status, "failed") THEN Goto(th, "result") /\ Aim(th, "failed")
                                          ELSE Goto(th, "transition") /\ UNCHANGED target
    /\ raising' = [raising EXCEPT ![th] = "Exception"]
    /\ UNCHANGED <<taskVars, storeVars, emitted, op, then, previous, attempt, snap,
                   verdict, envVars>>

\* A handler that returns is SUCCEEDED unless the task is CANCELLED by now
\* (raise_if_cancelled); it may also raise TaskCancelled itself.
HandlerReturns(th) ==
    /\ At(th, "handler")
    /\ Goto(th, "result")
    /\ IF status = "cancelled"
         THEN Aim(th, "cancelled") /\ raising' = [raising EXCEPT ![th] = "TaskCancelled"]
         ELSE Aim(th, "succeeded") /\ UNCHANGED raising
    /\ UNCHANGED <<taskVars, storeVars, emitted, op, then, previous, attempt, snap,
                   verdict, envVars>>

\* Mutant of HandlerCancels: TaskCancelled leaves execute() as if cancel() had written
\* the end already.
HandlerCancelsSilently(th) ==
    /\ At(th, "handler")
    /\ Goto(th, "retry")
    /\ raising' = [raising EXCEPT ![th] = "TaskCancelled"]
    /\ UNCHANGED <<taskVars, storeVars, emitted, op, target, then, previous, attempt, snap,
                   verdict, envVars>>

HandlerCancels(th) ==
    /\ At(th, "handler")
    /\ Goto(th, "result") /\ Aim(th, "cancelled")
    /\ raising' = [raising EXCEPT ![th] = "TaskCancelled"]
    /\ UNCHANGED <<taskVars, storeVars, emitted, op, then, previous, attempt, snap,
                   verdict, envVars>>

HandlerRaises(th) ==
    /\ At(th, "handler")
    /\ Goto(th, "caught")
    /\ UNCHANGED <<taskVars, storeVars, emitted, localVars, envVars>>

\* A BaseException passes both except clauses: no result, no event, and the
\* task stays as it is.
HandlerEscapes(th) ==
    /\ At(th, "handler")
    /\ Finish(th, "raised")
    /\ escaped' = TRUE
    /\ UNCHANGED <<taskVars, storeVars, emitted, op, hasHandler, calls>>

\* Mutant of Caught: every exception means FAILED.
CaughtAlwaysFails(th) ==
    /\ At(th, "caught")
    /\ Goto(th, "result") /\ Aim(th, "failed")
    /\ raising' = [raising EXCEPT ![th] = "Exception"]
    /\ UNCHANGED <<taskVars, storeVars, emitted, op, then, previous, attempt, snap,
                   verdict, envVars>>

\* except Exception: a task cancelled meanwhile ends CANCELLED, not FAILED.
Caught(th) ==
    /\ At(th, "caught")
    /\ Goto(th, "result")
    /\ IF status = "cancelled"
         THEN Aim(th, "cancelled") /\ raising' = [raising EXCEPT ![th] = "TaskCancelled"]
         ELSE Aim(th, "failed") /\ raising' = [raising EXCEPT ![th] = "Exception"]
    /\ UNCHANGED <<taskVars, storeVars, emitted, op, then, previous, attempt, snap,
                   verdict, envVars>>

\* The retry loop of execute(): what the exception in flight leads to.
MayRetry(th) ==
    /\ hasHandler /\ raising[th] = "Exception"
    /\ attempt[th] < MaxAttempts /\ status = "failed"

Retry(th) ==
    /\ At(th, "retry")
    /\ IF MayRetry(th) THEN Goto(th, "backoff") /\ UNCHANGED <<verdict, scratch>>
                       ELSE Finish(th, "raised")
    /\ UNCHANGED <<taskVars, storeVars, emitted, op, envVars>>

\* The sleep is over; a task cancelled during it is not tried again.
Backoff(th) ==
    /\ At(th, "backoff")
    /\ IF status = "cancelled"
         THEN Finish(th, "raised")
         ELSE /\ Goto(th, "check")
              /\ attempt' = [attempt EXCEPT ![th] = @ + 1]
              /\ raising' = [raising EXCEPT ![th] = None]
              /\ UNCHANGED <<verdict, target, then, previous, snap>>
    /\ UNCHANGED <<taskVars, storeVars, emitted, op, envVars>>

-----------------------------------------------------------------------------
(* Task.transition_to, _terminalize and _emit, shared by the operations.   *)

\* _terminalize attaches the result ...
SetResult(th) ==
    /\ At(th, "result")
    /\ result' = target[th]
    /\ Goto(th, "compare")
    /\ UNCHANGED <<status, storeVars, emitted, localVars, envVars>>

\* ... then moves the task unless it is there.
Compare(th) ==
    /\ At(th, "compare")
    /\ IF status = target[th]
         THEN Goto(th, "snapshot") /\ UNCHANGED then
         ELSE Goto(th, "transition") /\ then' = [then EXCEPT ![th] = "snapshot"]
    /\ UNCHANGED <<taskVars, storeVars, emitted, op, target, previous, attempt, raising,
                   snap, verdict, envVars>>

\* Mutant of TransitionCheck: no check.
TransitionUnchecked(th) ==
    /\ At(th, "transition")
    /\ Goto(th, "error")
    /\ UNCHANGED <<taskVars, storeVars, emitted, localVars, envVars>>

\* can_transition_to, or ValueError.
TransitionCheck(th) ==
    /\ At(th, "transition")
    /\ IF CanTransition(status, target[th])
         THEN Goto(th, "error") /\ UNCHANGED <<verdict, scratch>>
         ELSE Fail(th)
    /\ UNCHANGED <<taskVars, storeVars, emitted, op, envVars>>

\* self.error = error: __setattr__ refuses it on a SUCCEEDED task.
WriteError(th) ==
    /\ At(th, "error")
    /\ IF status = "succeeded"
         THEN Fail(th)
         ELSE Goto(th, "write") /\ UNCHANGED <<verdict, scratch>>
    /\ UNCHANGED <<taskVars, storeVars, emitted, op, envVars>>

\* self._status = status ...
WriteStatus(th) ==
    /\ At(th, "write")
    /\ status' = target[th]
    /\ Goto(th, IF target[th] = "running" THEN "forget" ELSE then[th])
    /\ UNCHANGED <<result, storeVars, emitted, localVars, envVars>>

\* ... and entering RUNNING forgets the previous result.
Forget(th) ==
    /\ At(th, "forget")
    /\ result' = None
    /\ Goto(th, then[th])
    /\ IF then[th] = "result" THEN Aim(th, "failed") ELSE UNCHANGED target
    /\ UNCHANGED <<status, storeVars, emitted, op, then, previous, attempt, raising, snap,
                   verdict, envVars>>

\* _upsert_task: the task's own fields are read before the INSERT waits for
\* the database, the result after it ...
Snapshot(th) ==
    /\ At(th, "snapshot")
    /\ snap' = [snap EXCEPT ![th].status = status]
    /\ Goto(th, "insert")
    /\ UNCHANGED <<taskVars, storeVars, emitted, op, target, then, previous, attempt,
                   raising, verdict, envVars>>

Insert(th) ==
    /\ At(th, "insert") /\ storeLock = None
    /\ storeLock' = th
    /\ snap' = [snap EXCEPT ![th].result = result]
    /\ Goto(th, "commit")
    /\ UNCHANGED <<taskVars, store, emitted, op, target, then, previous,
                   attempt, raising, verdict, envVars>>

\* ... and the transaction commits or rolls back; _persist swallows failures.
Commit(th) ==
    /\ At(th, "commit")
    /\ store' = snap[th] \/ UNCHANGED store
    /\ storeLock' = None
    /\ snap' = [snap EXCEPT ![th] = NoRow]
    /\ Goto(th, "notify")
    /\ UNCHANGED <<taskVars, emitted, op, target, then, previous, attempt, raising,
                   verdict, envVars>>

\* events.emit, and back to the operation that _emit was called from.
Notify(th) ==
    /\ At(th, "notify")
    /\ emitted' = [emitted EXCEPT ![target[th]] = @ + 1]
    /\ IF op[th] = "execute" /\ target[th] # "succeeded"
         THEN /\ Goto(th, IF target[th] = "running" THEN "handler" ELSE "retry")
              /\ UNCHANGED <<verdict, scratch>>
         ELSE Finish(th, "returned")
    /\ UNCHANGED <<taskVars, storeVars, op, envVars>>

-----------------------------------------------------------------------------
(* cancel and mark_blocked.                                                *)

Cancel(th) ==
    /\ At(th, "cancel")
    /\ IF status = "succeeded" THEN Finish(th, "returned")
                               ELSE Goto(th, "previous") /\ UNCHANGED <<verdict, scratch>>
    /\ UNCHANGED <<taskVars, storeVars, emitted, op, envVars>>

\* previous = task.status, a second look.
Previous(th) ==
    /\ At(th, "previous")
    /\ previous' = [previous EXCEPT ![th] = status]
    /\ Goto(th, "cancelTask")
    /\ UNCHANGED <<taskVars, storeVars, emitted, op, target, then, attempt, raising, snap,
                   verdict, envVars>>

\* Task.cancel: nothing to do in a sink status.
CancelTask(th) ==
    /\ At(th, "cancelTask")
    /\ Aim(th, "cancelled")
    /\ IF IsSink(status)
         THEN Goto(th, "settle") /\ UNCHANGED then
         ELSE Goto(th, "transition") /\ then' = [then EXCEPT ![th] = "settle"]
    /\ UNCHANGED <<taskVars, storeVars, emitted, op, previous, attempt, raising, snap,
                   verdict, envVars>>

\* Mutants of Announces: cancel() announces a running task's end too; every request.
AnnouncesRunning(from) == from # "cancelled"
AnnouncesAlways(from) == TRUE

\* Only the cancel of a task that was not RUNNING announces it; otherwise
\* the execute() in progress will.
Announces(from) == from \in {"pending", "failed", "blocked"}

Settle(th) ==
    /\ At(th, "settle")
    /\ IF Announces(previous[th]) THEN Goto(th, "result") /\ UNCHANGED <<verdict, scratch>>
                                  ELSE Finish(th, "returned")
    /\ UNCHANGED <<taskVars, storeVars, emitted, op, envVars>>

\* Mutant of Block: mark_blocked attaches a result like _terminalize.
BlockWithResult(th) ==
    /\ At(th, "block")
    /\ Aim(th, "blocked")
    /\ Goto(th, "result")
    /\ UNCHANGED <<taskVars, storeVars, emitted, op, then, previous, attempt, raising,
                   snap, verdict, envVars>>

\* mark_blocked
Block(th) ==
    /\ At(th, "block")
    /\ Aim(th, "blocked") /\ then' = [then EXCEPT ![th] = "snapshot"]
    /\ Goto(th, "transition")
    /\ UNCHANGED <<taskVars, storeVars, emitted, op, previous, attempt, raising, snap,
                   verdict, envVars>>

-----------------------------------------------------------------------------
Step(th) ==
    \/ Check(th) \/ Unhandled(th)
    \/ HandlerReturns(th) \/ HandlerCancels(th) \/ HandlerRaises(th) \/ HandlerEscapes(th)
    \/ Caught(th) \/ Retry(th) \/ Backoff(th)
    \/ SetResult(th) \/ Compare(th)
    \/ TransitionCheck(th) \/ WriteError(th) \/ WriteStatus(th) \/ Forget(th)
    \/ Snapshot(th) \/ Insert(th) \/ Commit(th) \/ Notify(th)
    \/ Cancel(th) \/ Previous(th) \/ CancelTask(th) \/ Settle(th) \/ Block(th)

\* No call is in progress, and none was torn down by a BaseException.
AtRest == ~escaped /\ \A th \in Threads : pc[th] = "idle"

\* What an observer can tell of the task.
Outcome == [status |-> status, result |-> result, emitted |-> emitted, store |-> store]

\* How each step updates the history variables.
Record(th) ==
    /\ overtaken' = \/ overtaken
                      \/ /\ status' # status
                         /\ \E other \in Threads \ {th} : pc[other] \in Deciding
    /\ sealed' = IF sealed = None /\ AtRest' /\ IsSink(status') THEN Outcome' ELSE sealed

Next ==
    \E th \in Threads :
        /\ Step(th) \/ \E o \in Calls[th] : Call(th, o)
        /\ Record(th)

Spec == Init /\ [][Next]_vars

-----------------------------------------------------------------------------
(* Types.                                                                  *)

TypeOK ==
    /\ status \in TaskStatus /\ result \in ResultStatus \cup {None}
    /\ store \in Row /\ storeLock \in Threads \cup {None}
    /\ emitted \in [TaskStatus -> Nat]
    /\ pc \in [Threads -> PC] /\ op \in [Threads -> Operation \cup {None}]
    /\ target \in [Threads -> TaskStatus \cup {None}]
    /\ then \in [Threads -> {"snapshot", "result", "settle", None}]
    /\ previous \in [Threads -> TaskStatus \cup {None}]
    /\ attempt \in [Threads -> Nat]
    /\ raising \in [Threads -> {"Exception", "TaskCancelled", None}]
    /\ snap \in [Threads -> Row]
    /\ verdict \in [Threads -> {"returned", "raised", None}]
    /\ calls \in Nat /\ overtaken \in BOOLEAN

-----------------------------------------------------------------------------
(* What holds of every step, whatever it overtakes.                        *)

Moving == {"transition", "error", "write"}
Terminalizing == {"result", "compare"} \cup Moving
Saving == {"snapshot", "insert", "commit", "notify"}

\* Where each operation can be, and what it is about to do there.
ExecutePlace(th) ==
    /\ pc[th] \in {"idle", "check", "unhandled", "forget", "handler", "caught", "retry",
                   "backoff"} \cup Terminalizing \cup Saving
    /\ pc[th] \in Terminalizing \cup Saving => target[th] \in ResultStatus \cup {"running"}
    /\ pc[th] \in {"result", "compare"} => target[th] \in ResultStatus
    /\ pc[th] \in {"unhandled", "forget"} => target[th] = "running"
    /\ pc[th] \in Moving \cup {"unhandled", "forget"} =>
          then[th] = IF target[th] = "running" /\ ~hasHandler THEN "result" ELSE "snapshot"
    /\ pc[th] \in {"handler", "caught"} => hasHandler
    /\ pc[th] \in Saving /\ target[th] = "running" => hasHandler
    /\ pc[th] = "unhandled" => ~hasHandler
    /\ ~hasHandler /\ pc[th] \in Terminalizing => target[th] \in {"failed", "running"}
CancelPlace(th) ==
    /\ pc[th] \in {"idle", "cancel", "previous", "cancelTask", "settle"}
                    \cup Terminalizing \cup Saving
    /\ pc[th] \in {"settle"} \cup Terminalizing \cup Saving => target[th] = "cancelled"
    /\ pc[th] \in Moving => then[th] \in {"settle", "snapshot"}
    /\ pc[th] \in {"result", "compare"} => Announces(previous[th])
BlockPlace(th) ==
    /\ pc[th] \in {"idle", "block"} \cup Moving \cup Saving
    /\ pc[th] \in Moving \cup Saving => target[th] = "blocked"
    /\ pc[th] \in Moving => then[th] = "snapshot"
PlaceOK(th) ==
    /\ op[th] = None => pc[th] = "idle"
    /\ op[th] = "execute" => ExecutePlace(th)
    /\ op[th] = "cancel" => CancelPlace(th)
    /\ op[th] = "block" => BlockPlace(th)
    /\ verdict[th] # None => pc[th] = "idle"

\* The execution that has the task: it has written RUNNING, or found no handler, and
\* has not yet written what the task ends as.
Holds(th) ==
    /\ op[th] = "execute"
    /\ \/ pc[th] \in {"forget", "handler", "caught"}
       \/ pc[th] \in Saving /\ target[th] = "running"
       \/ pc[th] \in Terminalizing /\ target[th] \in ResultStatus

\* A RUNNING task has one, unless it was torn down.
RunningHeld == status = "running" => escaped \/ \E th \in Threads : Holds(th)

\* A call that can do nothing to a task in a sink.
Harmless(th) ==
    \/ pc[th] \in {"idle", "check", "retry", "cancel", "previous", "block"}
    \/ pc[th] = "cancelTask" /\ ~Announces(previous[th])
    \/ pc[th] = "settle" /\ ~Announces(previous[th])
    \/ pc[th] = "transition" /\ op[th] = "block" /\ target[th] = "blocked"

SealedOK ==
    sealed # None =>
        /\ sealed = Outcome /\ IsSink(status) /\ ~escaped
        /\ \A th \in Threads : Harmless(th)

-----------------------------------------------------------------------------
(* What holds as long as no thread has been overtaken.                     *)

\* What a thread that is Deciding has read is still so.
DecisionOK(th) ==
    /\ op[th] = "execute" =>
         /\ pc[th] = "unhandled" => CanTransition(status, "running")
         /\ pc[th] \in {"result", "compare"} =>
                CanTransition(status, target[th]) \/ status = target[th]
         /\ pc[th] \in Moving => CanTransition(status, target[th])
         /\ pc[th] = "forget" => status = "running"
    /\ op[th] = "cancel" =>
         /\ pc[th] \in {"cancelTask"} \cup Moving => previous[th] = status
         /\ pc[th] \in Moving => then[th] = "settle" /\ ~IsSink(status)
         /\ pc[th] = "settle" => IsSink(status)
         /\ pc[th] = "settle" /\ Announces(previous[th]) => status = "cancelled"
         /\ pc[th] \in {"result", "compare"} => status = "cancelled"
    /\ op[th] = "block" /\ pc[th] \in {"error", "write"} => status = "pending"
    /\ pc[th] \in Saving /\ IsSink(target[th]) => status = target[th]
    /\ op[th] = "cancel" /\ verdict[th] = "returned" => IsSink(status)
    /\ op[th] = "execute" /\ verdict[th] = "returned" => status = "succeeded"

\* One execution at a time has the task, unless several find that there is no handler.
HolderOK ==
    /\ \A a, b \in Threads : Holds(a) /\ Holds(b) => a = b \/ status = "pending"
    /\ \A th \in Threads : Holds(th) =>
          /\ ~escaped
          /\ \/ status \in {"running", "cancelled"}
             \/ status = "pending" /\ ~hasHandler /\ pc[th] \in Terminalizing
    /\ escaped => status \in {"running", "cancelled"}

\* A cancel() on its way to announce the cancellation.
Announcing(th) ==
    /\ op[th] = "cancel"
    /\ \/ pc[th] \in {"result", "compare"}
       \/ pc[th] = "settle" /\ Announces(previous[th])

ResultOK ==
    ~escaped =>
        /\ \A th \in Threads : Holds(th) =>
              /\ pc[th] \in {"compare"} \cup Moving => result = target[th]
              /\ pc[th] \notin {"compare", "forget"} \cup Moving /\ status # "pending" =>
                     result = None
        /\ \A th \in Threads : Announcing(th) /\ pc[th] = "compare" => result = "cancelled"
        /\ \/ \E th \in Threads : Holds(th) \/ Announcing(th)
           \/ result = IF status \in ResultStatus THEN status ELSE None

\* The threads that will emit the CANCELLED event, and the SUCCEEDED one.
CancelledOwed ==
    { th \in Threads : \/ pc[th] \in Saving /\ target[th] = "cancelled"
                       \/ Announcing(th)
                       \/ Holds(th) /\ status = "cancelled" }
SucceededOwed == { th \in Threads : pc[th] \in Saving /\ target[th] = "succeeded" }

OnceOK(e, owed) ==
    /\ \A a, b \in owed : a = b
    /\ emitted[e] = IF status = e /\ owed = {} THEN 1 ELSE 0
    /\ status # e => owed = {}

AnnouncedOK ==
    /\ ~escaped => OnceOK("cancelled", CancelledOwed)
    /\ OnceOK("succeeded", SucceededOwed)

\* The executions that have begun and not yet emitted the event of their end.
Ending ==
    { th \in Threads :
        /\ op[th] = "execute"
        /\ \/ pc[th] \in {"handler", "caught"}
           \/ pc[th] \in Terminalizing \cup Saving /\ target[th] \in ResultStatus }
StartsOK ==
    ~escaped => emitted["running"] <= emitted["succeeded"] + emitted["failed"]
                                        + emitted["cancelled"] + Cardinality(Ending)

AccountsOK ==
    /\ HolderOK /\ ResultOK /\ AnnouncedOK /\ StartsOK
    /\ \A th \in Threads : DecisionOK(th)

\* The inductive invariant.
ExecutorInv ==
    /\ TypeOK /\ RunningHeld /\ SealedOK
    /\ \A th \in Threads : PlaceOK(th)
    /\ ~overtaken => AccountsOK

-----------------------------------------------------------------------------
(* Properties.                                                             *)

\* Whatever the threads' writes overtake, no task is left RUNNING when no call is in
\* progress, unless a BaseException has torn its execution down.
NothingLeftRunning == AtRest => status # "running"

\* A task that has come to rest SUCCEEDED or CANCELLED is settled for good: no call that
\* comes later, alone or with others, changes its status, its result or its row, or
\* emits another event.
SettledForGood == sealed # None => sealed = Outcome

\* A lost update is the only way to an inconsistent end.  If no thread has changed the
\* status while another was Deciding, then a task that no call is working on has the
\* result of its status, its cancellation and its success are announced exactly once,
\* and every STARTED event has a terminal event of its own.
OutcomeAgrees ==
    AtRest /\ ~overtaken =>
        /\ IF status \in ResultStatus THEN result = status ELSE result = None
        /\ emitted["cancelled"] = IF status = "cancelled" THEN 1 ELSE 0
        /\ emitted["succeeded"] = IF status = "succeeded" THEN 1 ELSE 0
        /\ emitted["running"] <= emitted["succeeded"] + emitted["failed"]
                                   + emitted["cancelled"]

\* ... and callers were told the truth: cancel() has returned of a task that stays in a
\* sink, execute() of one that has SUCCEEDED.
VerdictsHold ==
    ~overtaken =>
        \A th \in Threads : verdict[th] = "returned" =>
            /\ op[th] = "cancel" => IsSink(status)
            /\ op[th] = "execute" => status = "succeeded"

\* "use transition_to() or cancel() ... so invalid state transitions cannot be bypassed":
\* a change that is no edge of the transition table overtakes another thread's.
Ledger == INSTANCE TaskLedger
FollowsLedger == Ledger!Init /\ [][overtaken' \/ Ledger!Next]_status

\* The docstring of cancel() on a RUNNING task: "the active execute() loop owns the
\* terminal event for that task and will emit CANCELLED when its handler unwinds".  So a
\* task that has been cancelled has had its CANCELLED event when no call is in progress.
CancelAnnounced == AtRest /\ status = "cancelled" => emitted["cancelled"] > 0
=============================================================================
