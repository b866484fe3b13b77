--------------------------- MODULE TaskLifecycle ---------------------------
(***************************************************************************)
(* The task state machine of _task.py: the six statuses, the one table of  *)
(* allowed transitions, and the status predicates the scheduler and the    *)
(* executor branch on.  No state: the modules that own tasks extend it.    *)
(***************************************************************************)

TaskStatus ==
    {"pending", "running", "succeeded", "failed", "cancelled", "blocked"}

\* Mutant of AllowedTransitions: a cancelled task may be run again.
CancelledIsRetryable ==
    [ pending   |-> {"running", "cancelled", "blocked", "failed"},
      running   |-> {"succeeded", "failed", "cancelled"},
      failed    |-> {"running", "cancelled"},
      blocked   |-> {"running", "cancelled"},
      succeeded |-> {},
      cancelled |-> {"running"} ]

\* _ALLOWED_TRANSITIONS
AllowedTransitions ==
    [ pending   |-> {"running", "cancelled", "blocked", "failed"},
      running   |-> {"succeeded", "failed", "cancelled"},
      failed    |-> {"running", "cancelled"},
      blocked   |-> {"running", "cancelled"},
      succeeded |-> {},
      cancelled |-> {} ]

\* Task.can_transition_to
CanTransition(from, to) == to \in AllowedTransitions[from]

\* TaskStatus.is_sink: no transition leaves these
IsSink(s) == s \in {"succeeded", "cancelled"}

\* TaskStatus.is_bad: an upstream task in this status blocks its descendants
IsBad(s) == s \in {"failed", "cancelled", "blocked"}

\* Task.is_terminal
IsTerminal(s) == s \in {"succeeded", "failed", "cancelled", "blocked"}

=============================================================================
