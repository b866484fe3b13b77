----------------------- MODULE GraphRefinementProofs -----------------------
(***************************************************************************)
(* TaskGraph implements GraphRun, for any tasks, graphs, worker count and  *)
(* interleaving: every step of the scheduler, the workers and the          *)
(* cancellers is a step of the abstract run or changes nothing there.      *)
(***************************************************************************)
EXTENDS TaskGraphProofs

\* The mapped variables that are not variables of TaskGraph.
Handed == {t \in Tasks : InFutures(t)}
Over == {t \in Tasks : FutureIsDone(t)}
GraphMap == [t \in Tasks |-> Upstream(t)]

\* The graph does not change in a step that leaves the dictionaries alone.
LEMMA SameGraph ==
    ASSUME UNCHANGED <<order, deps, finally>>
    PROVE  UNCHANGED <<Registered, GraphMap, finally>>
  BY DEF Registered, GraphMap, Upstream

\* What a step of the pool means for the abstract run.
LEMMA SameFutures ==
    ASSUME \A t \in Tasks : /\ InFutures(t)' = InFutures(t)
                            /\ FutureIsDone(t)' = FutureIsDone(t)
    PROVE  UNCHANGED <<Handed, Over>>
  BY DEF Handed, Over

\* A step that changes none of the mapped variables.
LEMMA Stutters ==
    ASSUME UNCHANGED <<order, deps, finally, status, enteringBlocked, Handed, Over, InRun>>
    PROVE  UNCHANGED Contract!vars
  BY SameGraph DEF Contract!vars, Contract!graph, Handed, Over, GraphMap

\* Both specifications read the same transition table.
LEMMA SameTable ==
    \A s, r : /\ Contract!CanTransition(s, r) = CanTransition(s, r)
              /\ Contract!IsSink(s) = IsSink(s)
  BY DEF CanTransition, AllowedTransitions, IsSink, Contract!CanTransition,
         Contract!AllowedTransitions, Contract!IsSink

LEMMA InitMaps == Init => Contract!Init
  <1>. SUFFICES ASSUME Init PROVE Contract!Init
    OBVIOUS
  <1>1. TypeOK
    BY TypeInit
  <1>2. Registered \subseteq Tasks /\ GraphMap \in [Tasks -> SUBSET Tasks] /\ finally \subseteq Tasks
    BY <1>1, GraphTypes DEF GraphMap, TypeOK
  <1>3. Handed = {} /\ Over = {}
    BY DEF Init, Handed, Over, InFutures, FutureIsDone
  <1>4. /\ status = [t \in Tasks |-> "pending"] /\ enteringBlocked = {}
        /\ InRun = FALSE
    BY DEF Init, InRun
  <1>. QED  BY <1>2, <1>3, <1>4 DEF Contract!Init, Handed, Over, GraphMap

-----------------------------------------------------------------------------
(* The caller's steps.                                                     *)

LEMMA CallerMaps ==
    ASSUME SchedulerInv, SchedulerInv', Caller
    PROVE  Contract!Next \/ UNCHANGED Contract!vars
  <1>0. TypeOK /\ TypeOK'
    BY DEF SchedulerInv
  <1>1. ASSUME NEW t \in Tasks, NEW ds \in DepLists, NEW isFinally \in BOOLEAN,
               NEW required \in BOOLEAN, Add(t, ds, isFinally, required)
        PROVE  Contract!Edit
    <2>1. Registered' \subseteq Tasks /\ GraphMap' \in [Tasks -> SUBSET Tasks]
          /\ finally' \subseteq Tasks
      BY <1>0, GraphTypes DEF GraphMap, TypeOK, Registered, Upstream
    <2>2. ~InRun /\ UNCHANGED <<status, enteringBlocked, fut, InRun>>
      BY <1>1 DEF Add, InRun, taskVars, runVars, poolVars
    <2>3. UNCHANGED <<Handed, Over>>
      BY <2>2, SameFutures DEF InFutures, FutureIsDone
    <2>. QED  BY <2>1, <2>2, <2>3 DEF Contract!Edit, Handed, Over, GraphMap
  <1>2. CASE RunRejected \/ RunEmpty \/ WaitDone
    <2>1. UNCHANGED <<order, deps, finally, status, enteringBlocked, fut, InRun>>
      BY <1>2 DEF RunRejected, RunEmpty, WaitDone, graphVars, taskVars, runVars, poolVars, InRun
    <2>2. UNCHANGED <<Handed, Over>>
      BY <2>1, SameFutures DEF InFutures, FutureIsDone
    <2>. QED  BY <2>1, <2>2, Stutters
  <1>3. CASE RunStart
    <2>1. /\ ~InRun /\ InRun' /\ UNCHANGED <<order, deps, finally, status>>
          /\ enteringBlocked' = {t \in Registered : status[t] = "blocked"}
          /\ \A t \in Registered : status[t] # "running" /\ Upstream(t) \subseteq Registered
      BY <1>3 DEF RunStart, Valid, InRun, graphVars, taskVars
    <2>2. Handed' = {} /\ Over' = {}
      BY <1>3 DEF RunStart, Handed, Over, InFutures, FutureIsDone
    <2>3. UNCHANGED <<Registered, GraphMap, finally>>
      BY <2>1, SameGraph
    <2>4. \A t \in Registered : GraphMap[t] \subseteq Registered
      BY <1>0, <2>1, GraphTypes DEF GraphMap
    <2>. QED
      BY <2>1, <2>2, <2>3, <2>4
      DEF Contract!Next, Contract!Begin, Contract!graph, Handed, Over, GraphMap
  <1>4. CASE RunEnds
    <2>1. /\ InRun /\ ~InRun'
          /\ UNCHANGED <<order, deps, finally, status, enteringBlocked, fut>>
      BY <1>4 DEF RunEnds, InRun, graphVars, taskVars, runVars, poolVars
    <2>2. UNCHANGED <<Handed, Over>>
      BY <2>1, SameFutures DEF InFutures, FutureIsDone
    <2>3. Handed = Over
      BY <1>4 DEF RunEnds, PoolIdle, Handed, Over, InFutures, FutureIsDone
    <2>4. UNCHANGED <<Registered, GraphMap, finally>>
      BY <2>1, SameGraph
    <2>. QED
      BY <2>1, <2>2, <2>3, <2>4
      DEF Contract!Next, Contract!End, Contract!graph, Handed, Over, GraphMap
  <1>. QED  BY <1>1, <1>2, <1>3, <1>4 DEF Caller, Contract!Next

-----------------------------------------------------------------------------
(* The scheduler's steps.                                                  *)

\* Leaving an activation of schedule() does not leave the run.
LEMMA LeavingStays ==
    ASSUME InRun, Leave \/ Throw
    PROVE  InRun'
  BY DEF Leave, Throw, InRun

\* A dependency that schedule() takes for inactive is at rest in the abstract run.
LEMMA InactiveAtRest ==
    ASSUME TypeOK, ErrorsOK, InRun, NEW d \in Tasks, Inactive(d)
    PROVE  Contract!AtRest(d)
  <1>1. Settled(d)
    BY InactiveSettled
  <1>. QED  BY <1>1, SameTable DEF Settled, Contract!AtRest, InFutures, FutureIsDone

\* A dependency that schedule() takes for bad will not succeed in the abstract run.
LEMMA BadHopeless ==
    ASSUME TypeOK, ErrorsOK, RaisedOK, InRun, NEW d \in Tasks, BadParent(d)
    PROVE  Contract!Hopeless(d)
  <1>1. CASE FutureIsDone(d)
    <2>1. status[d] # "succeeded"
      BY DEF BadParent, RaisedOK, Succeeded, IsBad
    <2>. QED  BY <1>1, <2>1 DEF Contract!Hopeless
  <1>2. CASE ~FutureIsDone(d)
    <2>1. ~InFutures(d) /\ d \notin errors
      BY <1>2 DEF BadParent, ErrorsOK
    <2>2. IsBad(status[d]) /\ ~Retryable(d)
      BY <2>1 DEF BadParent
    <2>3. status[d] = "cancelled" \/ (status[d] = "blocked" /\ d \notin enteringBlocked)
      BY <2>1, <2>2 DEF IsBad, Retryable, CanTransition, AllowedTransitions
    <2>. QED  BY <2>1, <2>3 DEF Contract!Hopeless
  <1>. QED  BY <1>1, <1>2

LEMMA SubmitMaps ==
    ASSUME SchedulerInv, InRun, Submit
    PROVE  Contract!Next \/ UNCHANGED Contract!vars
  <1>0. /\ TypeOK /\ ErrorsOK /\ UNCHANGED <<order, deps, finally, status, enteringBlocked>>
        /\ fut \in [Tasks -> FutureState]
    BY DEF SchedulerInv, TypeOK, Submit, graphVars, taskVars
  <1>1. CASE pool # "open"
    <2>1. fut' = fut /\ InRun'
      BY <1>1, LeavingStays DEF Submit
    <2>. QED  BY <1>0, <2>1, SameFutures, Stutters DEF InFutures, FutureIsDone
  <1>2. CASE pool = "open"
    <2>1. frames # <<>> /\ Top.pos \in 1 .. Len(order)
      BY DEF Submit, InPass, At
    <2>2. Visited \in Registered /\ Visited \in Tasks
      BY <1>0, <2>1, VisitedLemma
    <2>3. /\ fut' = [fut EXCEPT ![Visited] = "queued"] /\ fut[Visited] = "none"
          /\ CanTransition(status[Visited], "running") /\ Ready(Visited) /\ InRun'
      BY <1>2 DEF Submit, Skipped, InFutures, InRun
    <2>4. Handed' = Handed \cup {Visited} /\ Over' = Over /\ Visited \notin Handed
      BY <1>0, <2>2, <2>3 DEF Handed, Over, InFutures, FutureIsDone
    <2>5. \A d \in GraphMap[Visited] : IF Visited \in finally THEN Contract!AtRest(d)
                                                              ELSE status[d] = "succeeded"
      <3>1. GraphMap[Visited] = Upstream(Visited) /\ Upstream(Visited) \subseteq Tasks
        BY <1>0, <2>2, GraphTypes DEF GraphMap
      <3>. QED  BY <1>0, <2>3, <3>1, InactiveAtRest DEF Ready, Succeeded
    <2>6. UNCHANGED <<Registered, GraphMap, finally>>
      BY <1>0, SameGraph
    <2>7. Contract!Hand(Visited)
      BY <1>0, <2>2, <2>3, <2>4, <2>5, <2>6, SameTable
      DEF Contract!Hand, Contract!graph, Handed, Over, GraphMap
    <2>. QED  BY <2>2, <2>7 DEF Contract!Next
  <1>. QED  BY <1>1, <1>2

LEMMA MarkBlockedMaps ==
    ASSUME SchedulerInv, InRun, MarkBlocked
    PROVE  Contract!Next \/ UNCHANGED Contract!vars
  <1>0. /\ TypeOK /\ ErrorsOK /\ RaisedOK /\ FramesOK /\ BlockingJustified
        /\ UNCHANGED <<order, deps, finally, fut, enteringBlocked>>
    BY DEF SchedulerInv, MarkBlocked, graphVars
  <1>1. UNCHANGED <<Handed, Over>>
    BY <1>0, SameFutures DEF InFutures, FutureIsDone
  <1>2. CASE ~CanTransition(status[Visited], "blocked")
    <2>1. status' = status /\ InRun'
      BY <1>2, LeavingStays DEF MarkBlocked, taskVars
    <2>. QED  BY <1>0, <1>1, <2>1, Stutters
  <1>3. CASE CanTransition(status[Visited], "blocked")
    <2>1. status' = [status EXCEPT ![Visited] = "blocked"] /\ InRun'
      BY <1>3 DEF MarkBlocked, InRun
    <2>2. /\ Visited \notin finally /\ fut[Visited] = "none"
          /\ Top.bad \in Upstream(Visited) /\ BadParent(Top.bad)
          /\ frames # <<>> /\ Top.step = "block"
      BY <1>0 DEF MarkBlocked, BlockingJustified, At
    <2>3. Top.pos \in 1 .. Len(order)
      <3>1. Top = frames[1] /\ 1 \in DOMAIN frames /\ Top.pos \in Nat
        BY <1>0, <2>2, TopLemma
      <3>. QED  BY <1>0, <2>2, <3>1 DEF FramesOK, TypeOK
    <2>4. Visited \in Registered /\ Visited \in Tasks
      BY <1>0, <2>2, <2>3, VisitedLemma
    <2>5. Top.bad \in Tasks /\ GraphMap[Visited] = Upstream(Visited)
      BY <1>0, <2>2, <2>4, GraphTypes DEF GraphMap
    <2>6. Contract!Hopeless(Top.bad)
      BY <1>0, <2>2, <2>5, BadHopeless
    <2>7. Visited \notin Handed
      BY <2>2 DEF Handed, InFutures
    <2>8. UNCHANGED <<Registered, GraphMap, finally>>
      BY <1>0, SameGraph
    <2>9. status[Visited] = "pending"
      <3>1. status[Visited] \in TaskStatus
        BY <1>0, <2>4 DEF TypeOK
      <3>. QED  BY <1>3, <3>1 DEF CanTransition, AllowedTransitions, TaskStatus
    <2>10. Contract!Condemn(Visited)
      BY <1>0, <1>1, <2>1, <2>2, <2>4, <2>5, <2>6, <2>7, <2>8, <2>9
      DEF Contract!Condemn, Contract!graph, Handed, Over, GraphMap
    <2>. QED  BY <2>4, <2>10 DEF Contract!Next
  <1>. QED  BY <1>2, <1>3

LEMMA SchedulerMaps ==
    ASSUME SchedulerInv, Scheduler
    PROVE  Contract!Next \/ UNCHANGED Contract!vars
  <1>1. InRun
    <2>1. frames # <<>>
      BY DEF Scheduler, VisitSkip, VisitBlock, MarkBlocked, Submit, Register, EndPass,
         CheckFinished, AllFinished, Guard, InPass, At
    <2>. QED  BY <2>1 DEF SchedulerInv, IdleOK, InRun
  <1>2. CASE VisitSkip \/ VisitBlock \/ Register \/ EndPass \/ CheckFinished
             \/ AllFinished \/ Guard
    <2>1. UNCHANGED <<order, deps, finally, status, enteringBlocked, fut>>
      BY <1>2 DEF VisitSkip, VisitBlock, Register, EndPass, CheckFinished, AllFinished, Guard,
         graphVars, taskVars, poolVars, runVars
    <2>2. InRun'
      BY <1>1, <1>2, LeavingStays DEF VisitSkip, VisitBlock, Register, EndPass, CheckFinished,
         AllFinished, Guard, InRun
    <2>. QED  BY <1>1, <2>1, <2>2, SameFutures, Stutters DEF InFutures, FutureIsDone
  <1>. QED  BY <1>1, <1>2, SubmitMaps, MarkBlockedMaps DEF Scheduler

-----------------------------------------------------------------------------
(* The workers and the cancellers.                                         *)

LEMMA WorkerMaps ==
    ASSUME SchedulerInv, NEW t \in Tasks, Worker(t)
    PROVE  Contract!Next \/ UNCHANGED Contract!vars
  <1>0. /\ TypeOK /\ QueueOK /\ IdleOK
        /\ fut \in [Tasks -> FutureState] /\ status \in [Tasks -> TaskStatus]
    BY DEF SchedulerInv, TypeOK
  <1>1. /\ UNCHANGED <<order, deps, finally, enteringBlocked, main>>
        /\ UNCHANGED <<Registered, GraphMap, InRun>>
    <2>1. UNCHANGED <<order, deps, finally, enteringBlocked, main>>
      BY DEF Worker, ExecuteRejected, ExecuteUnhandled, ExecuteStart, Handler, HandlerReturns,
         HandlerRaises, HandlerUnwinds, CompleteFuture, OnFinish, graphVars, runVars
    <2>. QED  BY <2>1, SameGraph DEF InRun
  <1>2. CASE OnFinish(t)
    <2>1. UNCHANGED <<status, fut>>
      BY <1>2 DEF OnFinish, taskVars, poolVars
    <2>. QED  BY <1>1, <2>1, SameFutures, Stutters DEF InFutures, FutureIsDone
  <1>3. CASE ~OnFinish(t)
    <2>1. fut[t] \in {"queued", "running", "returning"}
      <3>1. Dequeue(t) => fut[t] = "queued"
        BY <1>0, PopStack DEF Dequeue, QueueOK, TypeOK
      <3>. QED  BY <1>3, <3>1 DEF Worker, ExecuteRejected, ExecuteUnhandled, ExecuteStart,
                   Handler, HandlerReturns, HandlerRaises, HandlerUnwinds, CompleteFuture
    <2>2. InRun /\ t \in Handed \ Over
      BY <1>0, <2>1 DEF IdleOK, InRun, Handed, Over, InFutures, FutureIsDone
    <2>3. CASE CompleteFuture(t)
      <3>1. status' = status /\ fut' = [fut EXCEPT ![t] = "done"] /\ fut[t] = "returning"
        BY <2>3 DEF CompleteFuture, taskVars
      <3>2. Handed' = Handed /\ Over' = Over \cup {t}
        BY <1>0, <3>1 DEF Handed, Over, InFutures, FutureIsDone
      <3>3. Contract!WorkOver(t)
        BY <1>1, <2>2, <3>1, <3>2 DEF Contract!WorkOver, Contract!graph, Handed, Over, GraphMap
      <3>. QED  BY <3>3 DEF Contract!Next
    <2>4. CASE ~CompleteFuture(t)
      <3>1. \E s \in {"running", "returning"} : fut' = [fut EXCEPT ![t] = s]
        BY <1>3, <2>4 DEF Worker, ExecuteRejected, ExecuteUnhandled, ExecuteStart, Handler,
           HandlerReturns, HandlerRaises, HandlerUnwinds
      <3>2. UNCHANGED <<Handed, Over>>
        BY <1>0, <2>1, <3>1 DEF Handed, Over, InFutures, FutureIsDone
      <3>3. CASE status' = status
        BY <1>1, <3>2, <3>3, Stutters
      <3>4. CASE status' # status
        <4>1. \E s \in {"running", "succeeded", "failed", "cancelled"} :
                 /\ \/ CanTransition(status[t], s)
                    \/ CanTransition(status[t], "running") /\ s = "failed"
                 /\ status' = [status EXCEPT ![t] = s]
          <5>1. CASE ExecuteUnhandled(t) \/ ExecuteStart(t)
            BY <5>1 DEF ExecuteUnhandled, ExecuteStart
          <5>2. CASE HandlerReturns(t)
            BY <5>2 DEF HandlerReturns, CanTransition, AllowedTransitions
          <5>3. CASE HandlerRaises(t)
            BY <3>4, <5>3 DEF HandlerRaises, CanTransition, AllowedTransitions
          <5>. QED  BY <1>3, <2>4, <3>4, <5>1, <5>2, <5>3
                    DEF Worker, Handler, ExecuteRejected, HandlerUnwinds, taskVars
        <4>2. Contract!Work(t)
          BY <1>1, <2>2, <3>2, <4>1, SameTable DEF Contract!Work, Contract!graph, Handed, Over, GraphMap
        <4>. QED  BY <4>2 DEF Contract!Next
      <3>. QED  BY <3>3, <3>4
    <2>. QED  BY <2>3, <2>4
  <1>. QED  BY <1>2, <1>3

LEMMA CancelMaps ==
    ASSUME SchedulerInv, NEW t \in Tasks, Cancel(t)
    PROVE  Contract!CancelTask(t)
  <1>1. /\ ~IsSink(status[t]) /\ status' = [status EXCEPT ![t] = "cancelled"]
        /\ UNCHANGED <<order, deps, finally, enteringBlocked, fut, main>>
    BY DEF Cancel, graphVars, poolVars, runVars
  <1>2. UNCHANGED <<Registered, GraphMap, finally, Handed, Over, InRun>>
    BY <1>1, SameGraph, SameFutures DEF InRun, InFutures, FutureIsDone
  <1>. QED  BY <1>1, <1>2, SameTable DEF Contract!CancelTask, Contract!graph, Handed, Over, GraphMap

LEMMA StepMaps ==
    SchedulerInv /\ SchedulerInv' /\ [Next]_vars => [Contract!Next]_(Contract!vars)
  <1>. SUFFICES ASSUME SchedulerInv, SchedulerInv', [Next]_vars
                PROVE  Contract!Next \/ UNCHANGED Contract!vars
    OBVIOUS
  <1>1. CASE UNCHANGED vars
    <2>1. UNCHANGED <<order, deps, finally, status, enteringBlocked, fut, InRun>>
      BY <1>1 DEF vars, graphVars, taskVars, poolVars, runVars, InRun
    <2>. QED  BY <2>1, SameFutures, Stutters DEF InFutures, FutureIsDone
  <1>2. ASSUME NEW t \in Tasks, Cancel(t) PROVE Contract!Next
    BY <1>2, CancelMaps DEF Contract!Next
  <1>. QED  BY <1>1, <1>2, CallerMaps, SchedulerMaps, WorkerMaps DEF Next

\* The scheduler implements the abstract run: whatever passes, callbacks and cancellers
\* do, tasks are handed out, worked on, condemned and left as GraphRun allows.
THEOREM SchedulerImplementsRun == Spec => ImplementsGraphRun
  BY InitMaps, StepMaps, SchedulerInvariant, PTL
  DEF Spec, ImplementsGraphRun, Contract!Spec

=============================================================================
