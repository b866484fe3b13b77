------------------------------ MODULE GraphRun ------------------------------
(***************************************************************************)
(* What TaskGraph.run() promises, without its scheduler: no lock, no       *)
(* passes, no callbacks.  A run hands each task to a worker at most once   *)
(* and only when its upstream tasks allow it, a worker changes only the    *)
(* task it was handed, and a task that will never be handed out may be     *)
(* condemned by an upstream task that will never succeed in this run.      *)
(* TaskGraph (ImplementsGraphRun there) is shown to implement it.          *)
(***************************************************************************)
EXTENDS TaskLifecycle

CONSTANT Tasks

VARIABLES
    members,    \* the tasks of the graph
    upstream,   \* the tasks each task depends on
    finally,    \* the tasks that run whatever became of those before them
    status,
    carried,    \* tasks that were BLOCKED when the latest run began
    handed,     \* tasks the latest run has handed to a worker
    over,       \* tasks whose worker is through
    active      \* a run is on

graph == <<members, upstream, finally>>
vars == <<graph, status, carried, handed, over, active>>

\* Nothing in this run will change the task any more, a cancel() excepted.
AtRest(t) ==
    \/ t \in over
    \/ /\ t \notin handed
       /\ IsSink(status[t]) \/ (status[t] = "blocked" /\ t \notin carried)

\* The task will not succeed in this run.
Hopeless(t) ==
    \/ t \in over /\ status[t] # "succeeded"
    \/ /\ t \notin handed
       /\ status[t] = "cancelled" \/ (status[t] = "blocked" /\ t \notin carried)

Init ==
    /\ members \subseteq Tasks /\ upstream \in [Tasks -> SUBSET Tasks]
    /\ finally \subseteq Tasks
    /\ status = [t \in Tasks |-> "pending"]
    /\ carried = {} /\ handed = {} /\ over = {}
    /\ active = FALSE

\* Between runs the graph may be changed at will.
Edit ==
    /\ ~active
    /\ members' \subseteq Tasks /\ upstream' \in [Tasks -> SUBSET Tasks]
    /\ finally' \subseteq Tasks
    /\ UNCHANGED <<status, carried, handed, over, active>>

\* A run begins with its dependencies in the graph and nothing RUNNING in it.
Begin ==
    /\ ~active /\ active'
    /\ \A t \in members : status[t] # "running" /\ upstream[t] \subseteq members
    /\ carried' = {t \in members : status[t] = "blocked"}
    /\ handed' = {} /\ over' = {}
    /\ UNCHANGED <<graph, status>>

Hand(t) ==
    /\ active /\ t \in members \ handed
    /\ CanTransition(status[t], "running")
    /\ \A d \in upstream[t] : IF t \in finally THEN AtRest(d)
                                               ELSE status[d] = "succeeded"
    /\ handed' = handed \cup {t}
    /\ UNCHANGED <<graph, status, carried, over, active>>

\* One step of a worker on its task: start it, end it, or fail it unstarted.
Work(t) ==
    /\ active /\ t \in handed \ over
    /\ \E s \in {"running", "succeeded", "failed", "cancelled"} :
         /\ \/ CanTransition(status[t], s)
            \/ CanTransition(status[t], "running") /\ s = "failed"
         /\ status' = [status EXCEPT ![t] = s]
    /\ UNCHANGED <<graph, carried, handed, over, active>>

WorkOver(t) ==
    /\ active /\ t \in handed \ over
    /\ over' = over \cup {t}
    /\ UNCHANGED <<graph, status, carried, handed, active>>

Condemn(t) ==
    /\ active /\ t \in members \ (handed \cup finally)
    /\ status[t] = "pending"
    /\ \E d \in upstream[t] : Hopeless(d)
    /\ status' = [status EXCEPT ![t] = "blocked"]
    /\ UNCHANGED <<graph, carried, handed, over, active>>

\* A run ends when the workers are through with everything it handed out.
End ==
    /\ active /\ ~active'
    /\ handed = over
    /\ UNCHANGED <<graph, status, carried, handed, over>>

\* cancel() from outside, at any moment.
CancelTask(t) ==
    /\ ~IsSink(status[t])
    /\ status' = [status EXCEPT ![t] = "cancelled"]
    /\ UNCHANGED <<graph, carried, handed, over, active>>

Next ==
    \/ Edit \/ Begin \/ End
    \/ \E t \in Tasks : Hand(t) \/ Work(t) \/ WorkOver(t) \/ Condemn(t) \/ CancelTask(t)

Spec == Init /\ [][Next]_vars

=============================================================================
