-------------------------- MODULE AsyncSubmission --------------------------
(***************************************************************************)
(* TaskExecutor.submit, _execute_submitted and shutdown of _executor.py:   *)
(* futures, the pool they are queued in, and its shutdown from outside or  *)
(* from a handler that runs in it.  Of what execute() and cancel() do to a *)
(* task, the last look at its status and the write that rests on it are    *)
(* here, as steps of their own: nothing locks a task, which may be         *)
(* submitted twice.  TaskExecutor is the detailed model.                   *)
(***************************************************************************)
EXTENDS Naturals, Sequences, TaskLifecycle

CONSTANTS
    Tasks,    \* the tasks that are submitted, perhaps more than once
    Bound,    \* how often submit() is called
    MaxAttempts, \* of every retry policy
    Clients,  \* threads outside the pool that cancel futures and tasks
    Owner,    \* the thread outside the pool that shuts the executor down
    PoolSize, \* how many threads the pool may start
    None      \* Python's None

ASSUME AsyncAssumption ==
    /\ {Bound, PoolSize, MaxAttempts} \subseteq Nat \ {0}
    /\ (Clients \cup {Owner}) \cap 1..PoolSize = {} /\ Owner \notin Clients
    /\ None \notin 1..Bound /\ None \notin TaskStatus

Futures == 1..Bound
Workers == 1..PoolSize   \* started in this order
Threads == Clients \cup Workers \cup {Owner}

VARIABLES
    status,   \* the tasks' statuses
    of,       \* the task a future was submitted for
    fut,      \* the futures' states
    queue,    \* the pool's work items
    closed,   \* _closed
    pool,     \* the ThreadPoolExecutor: "none", "open", or "down"
    started, exited,   \* the pool's threads
    pc,       \* per thread: where it is
    arg,      \* per worker: its future; per client: the task it cancels
    aim,      \* per worker: the status it is about to write
    previous, \* per client: cancel's `previous'
    left,     \* per worker: the attempts it has left
    escaped   \* tasks a BaseException has left RUNNING

pools == <<closed, pool, started, exited>>
locals == <<pc, arg, aim, previous, left>>
vars == <<status, of, fut, queue, pools, locals, escaped>>

Init ==
    /\ status = [t \in Tasks |-> "pending"]
    /\ of = [f \in Futures |-> None]
    /\ fut = [f \in Futures |-> "none"]
    /\ queue = <<>>
    /\ closed = FALSE
    /\ pool = "none"
    /\ started = {} /\ exited = {}
    /\ pc = [th \in Threads |-> "idle"]
    /\ arg = [th \in Threads |-> None]
    /\ aim = [w \in Workers |-> None]
    /\ previous = [c \in Clients |-> None]
    /\ left = [w \in Workers |-> 0]
    /\ escaped = {}

At(th, point) == pc[th] = point
Goto(th, point) == pc' = [pc EXCEPT ![th] = point]

Settled(f) == fut[f] \in {"cancelled", "done"}

-----------------------------------------------------------------------------
(* submit() and Future.cancel().                                           *)

\* A work item enters the pool; the pool starts another thread unless one is
\* idle (it may also do so then, when the idle one is about to take an item).
Enqueue(f, t) ==
    /\ \A e \in Futures : e < f <=> fut[e] # "none"
    /\ of' = [of EXCEPT ![f] = t]
    /\ fut' = [fut EXCEPT ![f] = "pending"]
    /\ queue' = Append(queue, f)
    /\ \/ \E w \in Workers : started = 1..(w - 1) /\ started' = 1..w
       \/ /\ started = Workers \/ \E w \in started : At(w, "idle")
          /\ UNCHANGED started

\* Everything under _pool_lock; a closed executor raises RuntimeError.
Submit(f, t) ==
    /\ ~closed
    /\ Enqueue(f, t)
    /\ pool' = "open"
    /\ UNCHANGED <<status, closed, exited, locals, escaped>>

\* Future.cancel succeeds on a queued item, and its done-callback cancels the task.
FutureCancel(c, f) ==
    /\ At(c, "idle") /\ fut[f] = "pending"
    /\ fut' = [fut EXCEPT ![f] = "cancelled"]
    /\ Goto(c, "cancel")
    /\ arg' = [arg EXCEPT ![c] = of[f]]
    /\ UNCHANGED <<status, of, queue, pools, aim, previous, left, escaped>>

\* Somebody calls TaskExecutor.cancel(task).
CancelTask(c, t) ==
    /\ At(c, "idle")
    /\ Goto(c, "cancel")
    /\ arg' = [arg EXCEPT ![c] = t]
    /\ UNCHANGED <<status, of, fut, queue, pools, aim, previous, left, escaped>>

-----------------------------------------------------------------------------
(* TaskExecutor.cancel.                                                    *)

Leave(c) ==
    /\ Goto(c, "idle")
    /\ arg' = [arg EXCEPT ![c] = None]
    /\ previous' = [previous EXCEPT ![c] = None]

\* Nothing to do for a SUCCEEDED task; previous = task.status for any other one.
Look(c) ==
    /\ At(c, "cancel")
    /\ IF status[arg[c]] = "succeeded"
         THEN Leave(c)
         ELSE /\ Goto(c, "check")
              /\ previous' = [previous EXCEPT ![c] = status[arg[c]]]
              /\ UNCHANGED arg
    /\ UNCHANGED <<status, of, fut, queue, pools, aim, left, escaped>>

\* A task that was not RUNNING gets a CANCELLED result, by a second transition.
Onward(c) ==
    IF previous[c] \in {"pending", "failed", "blocked"}
      THEN Goto(c, "settle") /\ UNCHANGED <<arg, previous>>
      ELSE Leave(c)

\* Task.cancel: nothing to do in a sink status ...
Check(c) ==
    /\ At(c, "check")
    /\ IF IsSink(status[arg[c]]) THEN Onward(c)
                                 ELSE Goto(c, "cancelling") /\ UNCHANGED <<arg, previous>>
    /\ UNCHANGED <<status, of, fut, queue, pools, aim, left, escaped>>

\* ... and the write, whatever the status is by now.
WriteCancelled(c) ==
    /\ At(c, "cancelling")
    /\ status' = [status EXCEPT ![arg[c]] = "cancelled"]
    /\ Onward(c)
    /\ UNCHANGED <<of, fut, queue, pools, aim, left, escaped>>

\* _terminalize moves the task to CANCELLED once more if it is no longer there.
Settle(c) ==
    /\ At(c, "settle")
    /\ IF IsSink(status[arg[c]])
         THEN Leave(c)
         ELSE /\ Goto(c, "cancelling")
              /\ previous' = [previous EXCEPT ![c] = None]
              /\ UNCHANGED arg
    /\ UNCHANGED <<status, of, fut, queue, pools, aim, left, escaped>>

-----------------------------------------------------------------------------
(* The pool's threads.                                                     *)

\* A cancelled item is dropped, any other one runs.
Take(w) ==
    /\ w \in started \ exited /\ At(w, "idle") /\ queue # <<>>
    /\ queue' = Tail(queue)
    /\ IF fut[Head(queue)] = "cancelled"
         THEN UNCHANGED <<fut, pc, arg, left>>
         ELSE /\ fut' = [fut EXCEPT ![Head(queue)] = "running"]
              /\ arg' = [arg EXCEPT ![w] = Head(queue)]
              /\ left' = [left EXCEPT ![w] = MaxAttempts]
              /\ Goto(w, "begin")
    /\ UNCHANGED <<status, of, pools, aim, previous, escaped>>

\* The item's result or exception is set, and the thread is free.  (No property
\* looks at a task whose execution is over and whose future is not yet done.)
Finish(w) ==
    /\ fut' = [fut EXCEPT ![arg[w]] = "done"]
    /\ arg' = [arg EXCEPT ![w] = None]
    /\ aim' = [aim EXCEPT ![w] = None]
    /\ left' = [left EXCEPT ![w] = 0]
    /\ Goto(w, "idle")

\* The last look before RUNNING is written: of _execute_submitted, _execute_once and
\* transition_to, whichever refuses first.
Begin(w) ==
    /\ At(w, "begin")
    /\ Goto(w, IF CanTransition(status[of[arg[w]]], "running") THEN "starting" ELSE "retry")
    /\ UNCHANGED <<status, of, fut, queue, pools, arg, aim, previous, left, escaped>>

WriteRunning(w) ==
    /\ At(w, "starting")
    /\ status' = [status EXCEPT ![of[arg[w]]] = "running"]
    /\ Goto(w, "handler")
    /\ UNCHANGED <<of, fut, queue, pools, arg, aim, previous, left, escaped>>

\* Mutant of HandlerEnds: TaskCancelled ends an execution as if cancel() had moved the task.
HandlerEndsSilently(w) ==
    /\ At(w, "handler")
    /\ \E end \in {"succeeded", "failed", "cancelled"} :
         LET now  == status[of[arg[w]]]
             last == IF now = "cancelled" THEN "cancelled" ELSE end
         IN  IF last = "cancelled" \/ (last = now /\ last # "failed")
               THEN Finish(w)
               ELSE /\ IF CanTransition(now, last)
                         THEN Goto(w, "ending") /\ aim' = [aim EXCEPT ![w] = last]
                         ELSE Goto(w, "retry") /\ UNCHANGED aim
                    /\ UNCHANGED <<fut, arg, left>>
    /\ UNCHANGED <<status, of, queue, pools, previous, escaped>>

\* The handler returns, raises, or is cancelled.  The last look before the end is
\* written; a task cancelled meanwhile stays CANCELLED.
HandlerEnds(w) ==
    /\ At(w, "handler")
    /\ \E end \in {"succeeded", "failed", "cancelled"} :
         LET now  == status[of[arg[w]]]
             last == IF now = "cancelled" THEN "cancelled" ELSE end
         IN  IF last = now /\ last # "failed"
               THEN Finish(w)
               ELSE /\ IF CanTransition(now, last)
                         THEN Goto(w, "ending") /\ aim' = [aim EXCEPT ![w] = last]
                         ELSE Goto(w, "retry") /\ UNCHANGED aim
                    /\ UNCHANGED <<fut, arg, left>>
    /\ UNCHANGED <<status, of, queue, pools, previous, escaped>>

\* A BaseException leaves the task as it is.
HandlerEscapes(w) ==
    /\ At(w, "handler")
    /\ Finish(w)
    /\ escaped' = escaped \cup {of[arg[w]]}
    /\ UNCHANGED <<status, of, queue, pools, previous>>

WriteEnd(w) ==
    /\ At(w, "ending")
    /\ status' = [status EXCEPT ![of[arg[w]]] = aim[w]]
    /\ IF aim[w] = "failed"
         THEN Goto(w, "retry") /\ aim' = [aim EXCEPT ![w] = None] /\ UNCHANGED <<fut, arg, left>>
         ELSE Finish(w)
    /\ UNCHANGED <<of, queue, pools, previous, escaped>>

\* execute() raised: a FAILED task is attempted again while the policy allows it.
Retry(w) ==
    /\ At(w, "retry")
    /\ IF status[of[arg[w]]] = "failed" /\ left[w] > 1
         THEN /\ left' = [left EXCEPT ![w] = @ - 1]
              /\ Goto(w, "begin")
              /\ UNCHANGED <<fut, arg, aim>>
         ELSE Finish(w)
    /\ UNCHANGED <<status, of, queue, pools, previous, escaped>>

\* A thread ends when the pool is down and nothing is queued.
Exit(w) ==
    /\ w \in started \ exited /\ At(w, "idle")
    /\ pool = "down" /\ queue = <<>>
    /\ exited' = exited \cup {w}
    /\ UNCHANGED <<status, of, fut, queue, closed, pool, started, locals, escaped>>

-----------------------------------------------------------------------------
(* shutdown(): at most one caller finds _closed unset; the others return.  *)

\* Mutant of Shutdown: it does not record that the executor is closed.
ShutdownUnrecorded(th) ==
    /\ th \in {Owner} \cup Workers
    /\ At(th, IF th = Owner THEN "idle" ELSE "handler")
    /\ ~closed
    /\ IF pool = "none" THEN UNCHANGED <<pool, pc>> ELSE pool' = "down" /\ Goto(th, "joining")
    /\ UNCHANGED <<status, of, fut, queue, closed, started, exited, arg, aim, previous, left,
                   escaped>>

\* Called by the owner, or by a handler in one of the pool's threads.  No work
\* arrives once _closed is set, so pool.shutdown() is part of the same step.
Shutdown(th) ==
    /\ th \in {Owner} \cup Workers
    /\ At(th, IF th = Owner THEN "idle" ELSE "handler")
    /\ ~closed
    /\ closed' = TRUE
    /\ IF pool = "none" THEN UNCHANGED <<pool, pc>> ELSE pool' = "down" /\ Goto(th, "joining")
    /\ UNCHANGED <<status, of, fut, queue, started, exited, arg, aim, previous, left, escaped>>

\* Mutants of Join: wait=False for everybody; a thread joins itself, too.
JoinNobody(th) ==
    /\ At(th, "joining")
    /\ Goto(th, IF th = Owner THEN "returned" ELSE "handler")
    /\ UNCHANGED <<status, of, fut, queue, pools, arg, aim, previous, left, escaped>>
JoinAll(th) ==
    /\ At(th, "joining")
    /\ started = exited
    /\ Goto(th, IF th = Owner THEN "returned" ELSE "handler")
    /\ UNCHANGED <<status, of, fut, queue, pools, arg, aim, previous, left, escaped>>

\* The caller waits for the pool's threads, itself excepted.
Join(th) ==
    /\ At(th, "joining")
    /\ started \ {th} \subseteq exited
    /\ Goto(th, IF th = Owner THEN "returned" ELSE "handler")
    /\ UNCHANGED <<status, of, fut, queue, pools, arg, aim, previous, left, escaped>>

-----------------------------------------------------------------------------
Work(w) ==
    \/ Take(w) \/ Begin(w) \/ WriteRunning(w)
    \/ HandlerEnds(w) \/ HandlerEscapes(w) \/ WriteEnd(w) \/ Retry(w) \/ Exit(w)

Cancelling(c) == Look(c) \/ Check(c) \/ WriteCancelled(c) \/ Settle(c)

Next ==
    \/ \E f \in Futures, t \in Tasks : Submit(f, t)
    \/ \E c \in Clients, f \in Futures : FutureCancel(c, f)
    \/ \E c \in Clients, t \in Tasks : CancelTask(c, t)
    \/ \E c \in Clients : Cancelling(c)
    \/ \E w \in Workers : Work(w)
    \/ \E th \in Threads : Shutdown(th)
    \/ \E th \in Threads : Join(th)

Spec == Init /\ [][Next]_vars

\* Threads run and handlers end; nobody has to submit, cancel or shut down.
FairSpec ==
    /\ Spec
    /\ \A w \in Workers : WF_vars(Work(w) \/ Join(w))
    /\ WF_vars(Join(Owner))

-----------------------------------------------------------------------------
(* Properties.                                                             *)

\* Where a worker deals with an item, and where a thread can be at all.
Busy == {"begin", "starting", "handler", "joining", "ending", "retry"}
Places == Busy \cup {"idle", "cancel", "check", "cancelling", "settle", "returned"}

\* The variables have their types, and a pool that is down belongs to an executor
\* that takes no more work.
TypeOK ==
    /\ status \in [Tasks -> TaskStatus]
    /\ of \in [Futures -> Tasks \cup {None}]
    /\ fut \in [Futures -> {"none", "pending", "running", "cancelled", "done"}]
    /\ queue \in Seq(Futures)
    /\ closed \in BOOLEAN /\ pool \in {"none", "open", "down"}
    /\ pool = "down" => closed
    /\ started \subseteq Workers /\ exited \subseteq started
    /\ pc \in [Threads -> Places]
    /\ arg \in [Threads -> Futures \cup Tasks \cup {None}]
    /\ aim \in [Workers -> {"succeeded", "failed", "cancelled", None}]
    /\ previous \in [Clients -> TaskStatus \cup {None}]
    /\ left \in [Workers -> 0..MaxAttempts]
    /\ escaped \subseteq Tasks

\* "waits for already-submitted tasks to finish, including queued tasks that have
\* not started yet": when the owner's shutdown() has waited, every
\* future ever returned is settled, and it stays that way.
ShutdownDrains ==
    At(Owner, "returned") => \A f \in Futures : fut[f] # "none" => Settled(f)

\* ... and so has the work itself: the task of every future that was not cancelled has
\* ended, whatever other futures of that task and cancellations have overwritten, unless a
\* BaseException left it RUNNING.
TasksHaveEnded ==
    At(Owner, "returned") =>
        \A f \in Futures : fut[f] = "done" /\ of[f] \notin escaped => IsTerminal(status[of[f]])

\* What the two properties above rest on: where each kind of thread can be, that the
\* pool's threads end after the last item only, that a future which is not settled is in
\* the queue or in the hands of a thread, and that some thread has yet to write the end of a
\* task that is RUNNING, while one whose future is done has left PENDING.
PlacesOK ==
    /\ \A c \in Clients : \/ At(c, "idle") /\ arg[c] = None
                          \/ pc[c] \in {"cancel", "check", "cancelling", "settle"}
                             /\ arg[c] \in Tasks
    /\ pc[Owner] \in {"idle", "joining", "returned"}
    /\ \A w \in Workers : \/ At(w, "idle")
                          \/ /\ pc[w] \in Busy
                             /\ w \in started
                             /\ arg[w] \in Futures /\ fut[arg[w]] # "none"
                             /\ At(w, "ending") => aim[w] # None

PoolOK ==
    /\ pool = "down" => closed
    /\ pool # "none" <=> started # {}
    /\ pc[Owner] \in {"joining", "returned"} => pool = "down"
    /\ At(Owner, "returned") => started = exited
    /\ exited # {} => pool = "down" /\ queue = <<>>
    /\ \A w \in exited : At(w, "idle")

FuturesOK ==
    /\ \A f \in Futures : fut[f] # "none" => of[f] \in Tasks
    /\ \A i \in DOMAIN queue : fut[queue[i]] # "none"
    /\ \A f \in Futures : fut[f] = "pending" => \E i \in DOMAIN queue : queue[i] = f
    /\ \A f \in Futures : fut[f] = "running" =>
          \E w \in started : arg[w] = f /\ pc[w] \in Busy

RunningOK ==
    /\ \A t \in Tasks \ escaped : status[t] = "running" =>
          \E w \in started : /\ pc[w] \in {"handler", "joining", "ending"}
                             /\ of[arg[w]] = t
    /\ \A w \in Workers : pc[w] \in Busy \ {"begin", "starting"} => status[of[arg[w]]] # "pending"
    /\ \A f \in Futures : fut[f] = "done" => status[of[f]] # "pending"

\* The inductive invariant: together they hold in every state of submit() and shutdown().
AsyncInv == TypeOK /\ PlacesOK /\ PoolOK /\ FuturesOK /\ RunningOK

\* Every future is settled some day, whatever is shut down meanwhile.
FuturesSettle == \A f \in Futures : fut[f] = "pending" ~> Settled(f)

\* shutdown() returns, also the one called by a handler of the pool itself.
ShutdownReturns ==
    \A th \in {Owner} \cup Workers : At(th, "joining") ~> ~At(th, "joining")
=============================================================================
