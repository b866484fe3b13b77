--------------------------- MODULE CommandRunner ---------------------------
(***************************************************************************)
(* TaskExecutor._run_command and _terminate_process of _executor.py: one   *)
(* subprocess with its timeout, the draining of its output, and            *)
(* TaskExecutor.cancel() from other threads, for one RUNNING task.         *)
(*                                                                         *)
(* The command is a process group: its leader, which Popen started, and    *)
(* perhaps a descendant that inherited the output pipes.  The two reader   *)
(* threads end when nobody holds the pipes any more.  Time is a deadline   *)
(* that passes at some moment; the grace period of SIGTERM may run out at  *)
(* any moment while the leader is alive.                                   *)
(***************************************************************************)
CONSTANTS
    Runner,      \* the thread that executes the task
    Cancellers,  \* threads that call TaskExecutor.cancel() on it
    MayIgnore    \* which of "leader" and "child" may ignore SIGTERM

ASSUME RunnerAssumption == Runner \notin Cancellers
ASSUME IgnoreAssumption == MayIgnore \subseteq {"leader", "child"}

Threads == {Runner} \cup Cancellers
Exit == {"none", "zero", "nonzero"}

VARIABLES
    cancelled,   \* task.status is CANCELLED (context.cancelled)
    registered,  \* _running_processes holds the task's process
    leader,      \* the process of Popen: "none", "running" or "exited"
    code,        \* its returncode
    child,       \* the descendant that holds the pipes: "none", "alive", "gone"
    ignores,     \* the processes that ignore SIGTERM
    signalled,   \* SIGTERM was sent to the group
    deadline,    \* "none", "ahead" or "past"
    hasTimeout,  \* context.timeout is not None
    timedOut,    \* timed_out
    pc,          \* per thread: where it is
    back,        \* per thread: where it goes on after _terminate_process
    outcome      \* how the execute() call ends

groupVars == <<leader, code, child>>
fixedVars == <<ignores, hasTimeout>>
vars == <<cancelled, registered, groupVars, fixedVars, signalled, deadline, timedOut,
          pc, back, outcome>>

Init ==
    /\ cancelled = FALSE /\ registered = FALSE
    /\ leader = "none" /\ code = "none" /\ child = "none"
    /\ ignores \in SUBSET MayIgnore
    /\ signalled = FALSE
    /\ deadline = "none" /\ hasTimeout \in BOOLEAN /\ timedOut = FALSE
    /\ pc = [th \in Threads |-> IF th = Runner THEN "popen" ELSE "idle"]
    /\ back = [th \in Threads |-> "none"]
    /\ outcome = "none"

At(th, point) == pc[th] = point
Goto(th, point) == pc' = [pc EXCEPT ![th] = point] /\ UNCHANGED back
Terminate(th, next) ==
    pc' = [pc EXCEPT ![th] = "signal"] /\ back' = [back EXCEPT ![th] = next]

\* Somebody can still write: the reader threads are alive.
PipesOpen == leader = "running" \/ child = "alive"

-----------------------------------------------------------------------------
(* _run_command, on the runner's thread.                                   *)

Popen ==
    /\ At(Runner, "popen")
    /\ \/ /\ leader' = "running"
          /\ child' \in {"none", "alive"}
          /\ Goto(Runner, "register")
       \/ Goto(Runner, "report") /\ UNCHANGED <<leader, child>>   \* OSError
    /\ UNCHANGED <<cancelled, registered, code, fixedVars, signalled, deadline,
                   timedOut, outcome>>

\* The process enters the registry, the readers start, the clock too.
Register ==
    /\ At(Runner, "register")
    /\ registered' = TRUE
    /\ deadline' = IF hasTimeout THEN "ahead" ELSE "none"
    /\ Goto(Runner, "check")
    /\ UNCHANGED <<cancelled, groupVars, fixedVars, signalled, timedOut, outcome>>

\* Mutant of Check: a cancellation before the registration goes unnoticed.
CheckNothing ==
    /\ At(Runner, "check")
    /\ Goto(Runner, "wait")
    /\ UNCHANGED <<cancelled, registered, groupVars, fixedVars, signalled, deadline,
                   timedOut, outcome>>

\* A cancel() that came before the registration found no process to kill.
Check ==
    /\ At(Runner, "check")
    /\ IF cancelled THEN Terminate(Runner, "wait") ELSE Goto(Runner, "wait")
    /\ UNCHANGED <<cancelled, registered, groupVars, fixedVars, signalled, deadline,
                   timedOut, outcome>>

\* process.wait(timeout=context.timeout)
Wait ==
    /\ At(Runner, "wait")
    /\ \/ leader = "exited" /\ Goto(Runner, "join") /\ UNCHANGED timedOut
       \/ /\ leader = "running" /\ deadline = "past"
          /\ timedOut' = TRUE
          /\ Terminate(Runner, "join")
    /\ UNCHANGED <<cancelled, registered, groupVars, fixedVars, signalled, deadline,
                   outcome>>

\* Mutant of Join: output that is still open at the deadline is given up.
JoinGivesUp ==
    /\ At(Runner, "join")
    /\ ~PipesOpen \/ deadline = "past"
    /\ Goto(Runner, "pop")
    /\ UNCHANGED <<cancelled, registered, groupVars, fixedVars, signalled, deadline,
                   timedOut, outcome>>

\* thread.join(remaining_timeout()): the output is drained within the timeout
\* of the command; what still holds the pipes then is terminated as well.
Join ==
    /\ At(Runner, "join")
    /\ ~PipesOpen \/ deadline = "past"
    /\ IF timedOut
         THEN Goto(Runner, "drain") /\ UNCHANGED timedOut
         ELSE IF PipesOpen THEN timedOut' = TRUE /\ Terminate(Runner, "drain")
                           ELSE Goto(Runner, "pop") /\ UNCHANGED timedOut
    /\ UNCHANGED <<cancelled, registered, groupVars, fixedVars, signalled, deadline,
                   outcome>>

\* thread.join() without a timeout.
Drain ==
    /\ At(Runner, "drain") /\ ~PipesOpen
    /\ Goto(Runner, "pop")
    /\ UNCHANGED <<cancelled, registered, groupVars, fixedVars, signalled, deadline,
                   timedOut, outcome>>

Pop ==
    /\ At(Runner, "pop")
    /\ registered' = FALSE
    /\ Goto(Runner, "report")
    /\ UNCHANGED <<cancelled, groupVars, fixedVars, signalled, deadline, timedOut,
                   outcome>>

\* Mutant of Verdict: the exit code is looked at first.
ExitCodeFirst ==
    CASE code = "zero" -> "succeeded"
      [] cancelled -> "cancelled"
      [] timedOut -> "timeout"
      [] OTHER -> "failed"

\* What _run_command returns or raises, and what execute() makes of it.
Verdict ==
    CASE cancelled -> "cancelled"
      [] ~cancelled /\ timedOut -> "timeout"
      [] ~cancelled /\ ~timedOut /\ code = "zero" -> "succeeded"
      [] OTHER -> "failed"

Report ==
    /\ At(Runner, "report")
    /\ outcome' = Verdict
    /\ Goto(Runner, "done")
    /\ UNCHANGED <<cancelled, registered, groupVars, fixedVars, signalled, deadline,
                   timedOut>>

-----------------------------------------------------------------------------
(* TaskExecutor.cancel, on another thread while the task is RUNNING.       *)

CancelTask(th) ==
    /\ At(th, "idle") /\ ~At(Runner, "done")
    /\ cancelled' = TRUE
    /\ Goto(th, "lookup")
    /\ UNCHANGED <<registered, groupVars, fixedVars, signalled, deadline, timedOut,
                   outcome>>

\* Mutant of Lookup: the canceller looks again after the termination.
LookupAgain(th) ==
    /\ At(th, "lookup")
    /\ IF registered /\ leader = "running" THEN Terminate(th, "lookup")
                                           ELSE Goto(th, "done")
    /\ UNCHANGED <<cancelled, registered, groupVars, fixedVars, signalled, deadline,
                   timedOut, outcome>>

\* The registry's process, if process.poll() says that it is running.
Lookup(th) ==
    /\ At(th, "lookup")
    /\ IF registered /\ leader = "running" THEN Terminate(th, "done")
                                           ELSE Goto(th, "done")
    /\ UNCHANGED <<cancelled, registered, groupVars, fixedVars, signalled, deadline,
                   timedOut, outcome>>

-----------------------------------------------------------------------------
(* _terminate_process, on any thread.                                      *)

\* killpg(SIGTERM) reaches every member; without a leader to wait for, be the
\* group gone (ProcessLookupError) or not, the call is over.
Signal(th) ==
    /\ At(th, "signal")
    /\ signalled' = TRUE
    /\ Goto(th, IF leader = "exited" THEN back[th] ELSE "grace")
    /\ UNCHANGED <<cancelled, registered, groupVars, fixedVars, deadline, timedOut,
                   outcome>>

\* Mutant of Grace: no escalation to SIGKILL.
GraceForever(th) ==
    /\ At(th, "grace")
    /\ leader = "exited"
    /\ Goto(th, back[th])
    /\ UNCHANGED <<cancelled, registered, groupVars, fixedVars, signalled, deadline,
                   timedOut, outcome>>

\* process.wait(timeout=5)
Grace(th) ==
    /\ At(th, "grace")
    /\ Goto(th, IF leader = "exited" THEN back[th] ELSE "kill")
    /\ UNCHANGED <<cancelled, registered, groupVars, fixedVars, signalled, deadline,
                   timedOut, outcome>>

\* killpg(SIGKILL) and process.wait(): nobody can ignore it.
Kill(th) ==
    /\ At(th, "kill")
    /\ leader' = "exited"
    /\ code' = IF leader = "running" THEN "nonzero" ELSE code
    /\ child' = IF child = "alive" THEN "gone" ELSE child
    /\ Goto(th, back[th])
    /\ UNCHANGED <<cancelled, registered, fixedVars, signalled, deadline, timedOut,
                   outcome>>

-----------------------------------------------------------------------------
(* The command and the clock.                                              *)

LeaderExits ==
    /\ leader = "running"
    /\ leader' = "exited"
    /\ code' \in {"zero", "nonzero"}
    /\ UNCHANGED <<cancelled, registered, child, fixedVars, signalled, deadline,
                   timedOut, pc, back, outcome>>

ChildExits ==
    /\ child = "alive"
    /\ child' = "gone"
    /\ UNCHANGED <<cancelled, registered, leader, code, fixedVars, signalled, deadline,
                   timedOut, pc, back, outcome>>

DeadlinePasses ==
    /\ deadline = "ahead"
    /\ deadline' = "past"
    /\ UNCHANGED <<cancelled, registered, groupVars, fixedVars, signalled, timedOut,
                   pc, back, outcome>>

-----------------------------------------------------------------------------
Command == \/ Popen \/ Register \/ Check \/ Wait \/ Join \/ Drain \/ Pop \/ Report

Termination(th) == Signal(th) \/ Grace(th) \/ Kill(th)

Next ==
    \/ Command
    \/ \E th \in Threads : Termination(th)
    \/ \E th \in Cancellers : CancelTask(th) \/ Lookup(th)
    \/ LeaderExits \/ ChildExits \/ DeadlinePasses

Spec == Init /\ [][Next]_vars

\* Threads run and time passes.  A process need not end by itself; it does
\* after SIGTERM unless it ignores the signal.
Fairness ==
    /\ WF_vars(Command)
    /\ \A th \in Threads : WF_vars(Termination(th))
    /\ \A th \in Cancellers : WF_vars(Lookup(th))
    /\ WF_vars(DeadlinePasses)
    /\ WF_vars(signalled /\ "leader" \notin ignores /\ LeaderExits)
    /\ WF_vars(signalled /\ "child" \notin ignores /\ ChildExits)

FairSpec == Spec /\ Fairness

-----------------------------------------------------------------------------
(* Properties.                                                             *)

TypeOK ==
    /\ cancelled \in BOOLEAN /\ registered \in BOOLEAN
    /\ leader \in {"none", "running", "exited"} /\ code \in Exit
    /\ child \in {"none", "alive", "gone"} /\ ignores \subseteq MayIgnore
    /\ signalled \in BOOLEAN /\ hasTimeout \in BOOLEAN /\ timedOut \in BOOLEAN
    /\ deadline \in {"none", "ahead", "past"}
    /\ pc \in [Threads -> {"popen", "register", "check", "wait", "join", "drain", "pop",
                           "report", "idle", "lookup", "signal", "grace", "kill", "done"}]
    /\ back \in [Threads -> {"none", "wait", "join", "drain", "done"}]
    /\ outcome \in {"none", "succeeded", "failed", "timeout", "cancelled"}

\* When the call is over nothing of the command is left: the leader has been
\* waited for and no descendant holds the task's output, however timeouts,
\* cancellations and exits raced.
NothingSurvives == At(Runner, "done") => ~PipesOpen

\* A cancel() that has returned has reached the process: either the runner has
\* yet to look at the cancellation, or the leader is not running any more.
CancelReaches ==
    \A th \in Cancellers :
        At(th, "done") /\ leader = "running" =>
            \/ pc[Runner] \in {"register", "check"}
            \/ back[Runner] = "wait" /\ pc[Runner] \in {"signal", "grace", "kill"}

Terminating(th) == pc[th] \in {"signal", "grace", "kill"}

\* Who may be where, and where _terminate_process returns to.
PlacesOK ==
    /\ pc[Runner] \in {"popen", "register", "check", "wait", "join", "drain", "pop",
                       "report", "signal", "grace", "kill", "done"}
    /\ Terminating(Runner) => back[Runner] \in {"wait", "join", "drain"}
    /\ \A th \in Cancellers :
         /\ pc[th] \in {"idle", "lookup", "signal", "grace", "kill", "done"}
         /\ Terminating(th) => back[th] = "done"

\* What the runner's place says of the processes and of the registry.
ProcessOK ==
    /\ At(Runner, "popen") => leader = "none" /\ child = "none"
    /\ pc[Runner] \in {"join", "drain"} => leader # "running"
    /\ pc[Runner] \in {"pop", "report", "done"} => ~PipesOpen
    /\ leader = "running" /\ ~registered => At(Runner, "register")
    /\ \A th \in Cancellers : Terminating(th) => leader # "none"

\* Nobody sends a signal without a cancellation or a timeout, and neither comes
\* after a verdict that the exit code decided.
CauseOK ==
    /\ \A th \in Cancellers : ~At(th, "idle") => cancelled
    /\ signalled \/ Terminating(Runner) => cancelled \/ timedOut
    /\ outcome # "none" => At(Runner, "done")
    /\ outcome \in {"succeeded", "failed"} => ~cancelled /\ ~timedOut

\* The invariant behind the theorems of CommandRunnerProofs: each thread's place agrees with
\* the processes and the registry, and nobody signals the command without a cancellation or
\* a timeout, nor once its own exit code has decided.
CommandInv == TypeOK /\ PlacesOK /\ ProcessOK /\ CauseOK /\ CancelReaches

\* A command whose own exit decides the task (SUCCEEDED or FAILED by its exit
\* code) was never signalled: success after a kill is reported as cancellation
\* or timeout.
OwnExitUnsignalled == outcome \in {"succeeded", "failed"} => ~signalled

\* "the executor terminates the subprocess": a timeout that passes, or a SIGTERM
\* that was sent, ends the call, if the descendants obey SIGTERM.
TimeoutEnds == (deadline = "past" \/ signalled) ~> At(Runner, "done")

\* "wait indefinitely unless another caller cancels the task": a cancelled
\* command ends.
CancelEnds == cancelled ~> At(Runner, "done")
=============================================================================
