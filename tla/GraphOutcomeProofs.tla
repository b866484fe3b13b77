------------------------- MODULE GraphOutcomeProofs -------------------------
(***************************************************************************)
(* What a run of TaskGraph leaves behind: no task undecided, no task       *)
(* blocked without a cause, no finally task waiting for nothing.           *)
(***************************************************************************)
EXTENDS TaskGraphProofs

-----------------------------------------------------------------------------
(* How a run ends.  What is decided stays decided; `done' is set when the  *)
(* check has found every task decided, or with an error.                   *)

\* Not PENDING; on a first run, a finally task was handed to the pool or is at its end.
Decided(t) ==
    /\ status[t] # "pending"
    /\ runs <= 1 /\ t \in finally => InFutures(t) \/ IsSink(status[t])

\* A first run finds PENDING and CANCELLED tasks only: none to retry.
FreshOK ==
    /\ runs = 0 => main = "idle" /\ \A t \in Tasks : status[t] \in {"pending", "cancelled"}
    /\ runs <= 1 =>
          /\ enteringBlocked = {}
          /\ \A t \in Tasks : status[t] \in {"running", "succeeded", "failed"} => InFutures(t)

StartedOK ==
    \A t \in Tasks : fut[t] \in {"running", "returning", "done"} => status[t] # "pending"

CheckedOK == At("check") => \A i \in DOMAIN order : i < Top.pos => Decided(order[i])

DoneOK ==
    /\ InRun /\ done /\ ~schedulerError => \A t \in Registered : Decided(t)
    /\ main = "closing" => done \/ outcome = "raised"
    /\ Returned => \A t \in Registered : Decided(t)

\* Only a task that entered the run BLOCKED may leave it BLOCKED without a cause.
CauseOK ==
    Returned => \A t \in Registered \ enteringBlocked :
                   status[t] = "blocked" => \E d \in Upstream(t) : ~Succeeded(d)

\* No step makes a task PENDING, and the counters only grow.
LEMMA PendingOnlyBefore ==
    ASSUME TypeOK, [Next]_vars
    PROVE  /\ \A t \in Tasks : status'[t] = "pending" => status[t] = "pending"
           /\ runs' \in {runs, runs + 1} /\ cancels' \in {cancels, cancels + 1}
  <1>0. status \in [Tasks -> TaskStatus]
    BY DEF TypeOK
  <1>1. CASE Scheduler
    BY <1>0, <1>1 DEF Scheduler, VisitSkip, VisitBlock, MarkBlocked, Submit, Register, EndPass,
          CheckFinished, AllFinished, Guard, taskVars, envVars
  <1>2. ASSUME NEW u \in Tasks, Worker(u) \/ Cancel(u)
        PROVE  /\ \A t \in Tasks : status'[t] = "pending" => status[t] = "pending"
               /\ runs' \in {runs, runs + 1} /\ cancels' \in {cancels, cancels + 1}
    BY <1>0, <1>2 DEF Worker, ExecuteRejected, ExecuteUnhandled, ExecuteStart, Handler,
          HandlerReturns, HandlerRaises, HandlerUnwinds, CompleteFuture, OnFinish, Cancel,
          taskVars, envVars
  <1>3. CASE Caller
    BY <1>3 DEF Caller, Add, RunRejected, RunEmpty, RunStart, WaitDone, RunEnds, taskVars, envVars
  <1>4. CASE UNCHANGED vars
    BY <1>4 DEF vars, taskVars, envVars
  <1>. QED  BY <1>1, <1>2, <1>3, <1>4 DEF Next

LEMMA DecidedStays ==
    ASSUME TypeOK, QueueOK, [Next]_vars, NEW t \in Tasks, Decided(t), finally' = finally,
           InFutures(t) => InFutures(t)'
    PROVE  Decided(t)'
  <1>1. status'[t] # "pending"
    BY PendingOnlyBefore DEF Decided
  <1>2. runs' <= 1 => runs <= 1
    BY PendingOnlyBefore DEF TypeOK
  <1>3. IsSink(status[t]) => IsSink(status'[t])
    BY StatusStep DEF IsSink
  <1>. QED  BY <1>1, <1>2, <1>3 DEF Decided

\* In a run what was handed to the pool stays handed.
LEMMA RunDecided ==
    ASSUME TypeOK, QueueOK, InRun, [Next]_vars, NEW t \in Tasks, Decided(t)
    PROVE  Decided(t)'
  <1>1. InFutures(t) => InFutures(t)'
    BY FutureStep DEF InFutures
  <1>. QED  BY <1>1, DecidedStays, RunConstant

LEMMA FreshStep ==
    ASSUME SchedulerInv, FreshOK, [Next]_vars
    PROVE  FreshOK'
  <1>0. TypeOK /\ QueueOK /\ IdleOK /\ runs \in Nat /\ runs' \in {runs, runs + 1}
    BY PendingOnlyBefore DEF SchedulerInv, TypeOK
  <1>1. CASE RunStart
    <2>1. /\ runs' = runs + 1 /\ UNCHANGED status
          /\ enteringBlocked' = {t \in Registered : status[t] = "blocked"}
      BY <1>1 DEF RunStart, taskVars
    <2>2. ASSUME runs' <= 1 PROVE \A t \in Tasks : status[t] \in {"pending", "cancelled"}
      BY <1>0, <2>1, <2>2 DEF FreshOK
    <2>3. runs' <= 1 => enteringBlocked' = {}
      BY <1>0, <2>1, <2>2, GraphTypes
    <2>. QED  BY <1>0, <2>1, <2>2, <2>3 DEF FreshOK
  <1>2. CASE ~RunStart /\ ~InRun
    <2>1. frames = <<>> /\ UNCHANGED fut /\ ~InRun'
      BY <1>0, <1>2, IdleFrames, RunBegins
    <2>2. \A t \in Tasks : fut[t] \in {"none", "done"}
      BY <1>0, <1>2 DEF IdleOK, InRun
    <2>3. \A t \in Tasks : status'[t] \in {status[t], "cancelled"}
      BY <1>0, <2>1, <2>2, StatusStep DEF MarkBlocked, At
    <2>4. UNCHANGED enteringBlocked
      BY <1>0, <1>2, <2>1 DEF Next, Scheduler, VisitSkip, VisitBlock, MarkBlocked, Submit,
            Register, EndPass, CheckFinished, AllFinished, Guard, Worker, ExecuteRejected,
            ExecuteUnhandled, ExecuteStart, Handler, HandlerReturns, HandlerRaises,
            HandlerUnwinds, CompleteFuture, OnFinish, Caller, Add, RunRejected, RunEmpty,
            WaitDone, RunEnds, Cancel, runVars, vars
    <2>. QED  BY <1>0, <2>1, <2>3, <2>4 DEF FreshOK, InFutures, InRun
  <1>3. CASE InRun
    <2>1. runs # 0 /\ UNCHANGED enteringBlocked
      BY <1>3, RunConstant DEF FreshOK, InRun
    <2>2. ASSUME NEW t \in Tasks, runs <= 1, status'[t] \in {"running", "succeeded", "failed"}
          PROVE  InFutures(t)'
      <3>1. fut[t] # "none"
        BY <1>0, <2>2, StatusStep DEF FreshOK, InFutures
      <3>. QED  BY <1>0, <1>3, <3>1, FutureStep DEF InFutures
    <2>. QED  BY <1>0, <2>1, <2>2 DEF FreshOK
  <1>. QED  BY <1>1, <1>2, <1>3

LEMMA StartedStep ==
    ASSUME SchedulerInv, StartedOK, [Next]_vars
    PROVE  StartedOK'
  <1>0. TypeOK /\ QueueOK /\ IdleOK
    BY DEF SchedulerInv
  <1>. SUFFICES ASSUME NEW t \in Tasks, fut'[t] \in {"running", "returning", "done"}
                PROVE  status'[t] # "pending"
    BY DEF StartedOK
  <1>1. CASE ~InRun
    <2>1. ~RunStart
      BY DEF RunStart
    <2>. QED  BY <1>0, <1>1, <2>1, IdleFrames, PendingOnlyBefore DEF StartedOK
  <1>2. CASE InRun /\ fut[t] # "queued"
    <2>1. fut[t] \in {"running", "returning", "done"}
      BY <1>0, <1>2, FutureStep DEF TypeOK, FutureState
    <2>. QED  BY <1>0, <2>1, PendingOnlyBefore DEF StartedOK
  <1>3. CASE InRun /\ fut[t] = "queued"
    <2>1. fut \in [Tasks -> FutureState] /\ status \in [Tasks -> TaskStatus]
      BY <1>0 DEF TypeOK
    <2>2. ASSUME NEW u \in Tasks, Worker(u) PROVE status'[t] # "pending"
      <3>1. u = t
        BY <1>3, <2>1, <2>2 DEF Worker, ExecuteRejected, ExecuteUnhandled, ExecuteStart, Handler,
              HandlerReturns, HandlerRaises, HandlerUnwinds, CompleteFuture, OnFinish, poolVars
      <3>. QED  BY <1>3, <2>1, <2>2, <3>1 DEF Worker, ExecuteRejected, ExecuteUnhandled,
                ExecuteStart, Handler, HandlerReturns, HandlerRaises, HandlerUnwinds,
                CompleteFuture, OnFinish, CanTransition, AllowedTransitions, taskVars, poolVars
    <2>3. Scheduler \/ Caller \/ (\E u \in Tasks : Cancel(u)) \/ UNCHANGED vars => fut'[t] = "queued"
      BY <1>3, <2>1 DEF Scheduler, VisitSkip, VisitBlock, MarkBlocked, Submit, Register, EndPass,
            CheckFinished, AllFinished, Guard, Caller, Add, RunRejected, RunEmpty, RunStart,
            WaitDone, RunEnds, InRun, Cancel, poolVars, vars
    <2>. QED  BY <1>3, <2>2, <2>3 DEF Next
  <1>. QED  BY <1>1, <1>2, <1>3

\* A task that the check accepts is decided.
LEMMA FinishedDecided ==
    ASSUME SchedulerInv, FreshOK, StartedOK, InRun, NEW t \in Registered, Finished(t)
    PROVE  Decided(t)
  <1>0. t \in Tasks /\ status[t] \in TaskStatus
    BY GraphTypes DEF SchedulerInv, TypeOK
  <1>1. status[t] # "pending"
    BY <1>0 DEF Finished, FutureIsDone, StartedOK, IsTerminal
  <1>2. ASSUME runs <= 1, t \in finally, ~InFutures(t) PROVE IsSink(status[t])
    <2>1. IsTerminal(status[t]) /\ status[t] \notin {"running", "succeeded", "failed"}
      BY <1>0, <1>2 DEF Finished, FreshOK
    <2>2. status[t] # "blocked"
      BY <1>2 DEF SchedulerInv, BlockedJustified, FreshOK
    <2>. QED  BY <2>1, <2>2 DEF IsTerminal, IsSink
  <1>. QED  BY <1>1, <1>2 DEF Decided

-----------------------------------------------------------------------------
(* The activations.  Only the innermost one may be in a pass that has      *)
(* changed nothing: those below it wait in the registration of a future.   *)

ChangedOK == \A i \in DOMAIN frames : i > 1 => frames[i].changed

LEMMA ContinueTop ==
    ASSUME TypeOK, ChangedOK, frames # <<>>, NEW f \in Frame, Continue(f)
    PROVE  frames' # <<>> /\ Top' = f /\ ChangedOK'
  <1>1. /\ frames' # <<>> /\ Len(frames') = Len(frames) /\ frames'[1] = f /\ Head(frames') = f
        /\ frames' \in Seq(Frame) /\ \A i \in 2 .. Len(frames) : frames'[i] = frames[i]
    BY ReplaceTop DEF TypeOK, Continue
  <1>2. ASSUME NEW i \in DOMAIN frames', i > 1 PROVE frames'[i].changed
    <2>1. i \in 2 .. Len(frames) /\ i \in DOMAIN frames
      BY <1>1, <1>2 DEF TypeOK
    <2>. QED  BY <1>1, <1>2, <2>1 DEF ChangedOK
  <1>. QED  BY <1>1, <1>2 DEF Top, ChangedOK

LEMMA PopTop ==
    ASSUME TypeOK, FramesOK, ChangedOK, frames # <<>>, frames' = Tail(frames)
    PROVE  /\ ChangedOK'
           /\ frames' # <<>> => Top'.step = "visit" /\ Top'.changed
  <1>1. /\ frames' \in Seq(Frame) /\ Len(frames') = Len(frames) - 1
        /\ \A i \in 1 .. Len(frames) - 1 : frames'[i] = frames[i + 1]
    BY PopStack DEF TypeOK
  <1>2. ASSUME NEW i \in DOMAIN frames' PROVE frames'[i].step = "visit" /\ frames'[i].changed
    <2>1. i + 1 \in DOMAIN frames /\ i + 1 > 1 /\ frames'[i] = frames[i + 1]
      BY <1>1 DEF TypeOK
    <2>. QED  BY <2>1 DEF FramesOK, ChangedOK
  <1>3. frames' # <<>> => 1 \in DOMAIN frames' /\ Head(frames') = frames'[1]
    BY <1>1
  <1>. QED  BY <1>2, <1>3 DEF ChangedOK, Top

LEMMA EnterTop ==
    ASSUME NEW who \in Tasks \cup {Main}, frames' = <<NewFrame(who)>>
    PROVE  ChangedOK' /\ Top'.step = "visit" /\ Top'.pos = 1
  BY DEF ChangedOK, Top, NewFrame

LEMMA ReenterTop ==
    ASSUME TypeOK, ChangedOK, frames # <<>>, NEW who \in Tasks,
           frames' = <<NewFrame(who), NextVisit(TRUE)>> \o Tail(frames)
    PROVE  ChangedOK' /\ Top'.step = "visit" /\ Top'.pos = 1
  <1>1. NewFrame(who) \in Frame /\ NextVisit(TRUE) \in Frame /\ NextVisit(TRUE).changed
    BY NewFrameLemma, TopLemma DEF NextVisit
  <1>2. frames \in Seq(Frame) /\ frames # <<>>
    BY DEF TypeOK
  <1>. DEFINE x == NewFrame(who)  y == NextVisit(TRUE)
  <1>3. x \in Frame /\ y \in Frame /\ frames' = <<x, y>> \o Tail(frames)
    BY <1>1
  <1>. HIDE DEF x, y
  <1>4. /\ frames' \in Seq(Frame) /\ Len(frames') = Len(frames) + 1
        /\ Head(frames') = x /\ frames'[2] = y
        /\ \A i \in 3 .. Len(frames) + 1 : frames'[i] = frames[i - 1]
    BY ONLY <1>2, <1>3, CoverTop, SMTT(30)
  <1>5. y.changed
    BY <1>1 DEF y
  <1>6. ASSUME NEW i \in DOMAIN frames', i > 1 PROVE frames'[i].changed
    <2>1. CASE i = 2
      BY <1>4, <1>5, <2>1
    <2>2. CASE i # 2
      <3>1. i - 1 \in DOMAIN frames /\ i - 1 > 1 /\ frames'[i] = frames[i - 1]
        BY <1>2, <1>4, <1>6, <2>2
      <3>. QED  BY <3>1 DEF ChangedOK
    <2>. QED  BY <2>1, <2>2
  <1>7. x.step = "visit" /\ x.pos = 1
    BY DEF x, NewFrame
  <1>. QED  BY <1>4, <1>6, <1>7 DEF ChangedOK, Top

\* What a step does to the innermost activation.
Still ==
    /\ frames' = frames /\ UNCHANGED <<errors, cb>>
    /\ \A t \in Tasks : fut[t] = "none" /\ cancels' = cancels =>
                           status'[t] = status[t] /\ fut'[t] = "none"
Skips == VisitSkip /\ Top' = NextVisit(Top.changed)
Leaves == EndPass /\ ~Top.changed /\ Top' = [Top EXCEPT !.step = "check", !.pos = 1]
Checks ==
    /\ CheckFinished
    /\ \/ Finished(Visited) /\ Top' = [Top EXCEPT !.pos = @ + 1]
       \/ ~Finished(Visited) /\ Top' = [Top EXCEPT !.step = "guard", !.pos = 1]
Begins == Top'.step = "visit" /\ (Top'.changed \/ Top'.pos = 1)

LEMMA TopMoves ==
    ASSUME TypeOK, FramesOK, IdleOK, QueueOK, ChangedOK, [Next]_vars
    PROVE  /\ ChangedOK'
           /\ frames' # <<>> => \/ Still \/ Skips \/ Leaves \/ Checks \/ Begins
                                \/ Top'.step \in {"block", "register"}
  <1>. DEFINE G == /\ ChangedOK'
                   /\ frames' # <<>> => \/ Still \/ Skips \/ Leaves \/ Checks \/ Begins
                                        \/ Top'.step \in {"block", "register"}
  <1>1. CASE Scheduler
    <2>0. frames # <<>>
      BY <1>1 DEF Scheduler, VisitSkip, VisitBlock, MarkBlocked, Submit, Register, EndPass,
            CheckFinished, AllFinished, Guard, InPass, At
    <2>1. Top \in Frame /\ NextVisit(TRUE) \in Frame /\ NextVisit(Top.changed) \in Frame
          /\ NextVisit(TRUE).step = "visit" /\ NextVisit(TRUE).changed
          /\ Top.pos \in Nat
      BY <2>0, TopLemma DEF NextVisit
    <2>2. Leave \/ Throw => G
      BY <2>0, PopTop DEF Leave, Throw, Begins
    <2>3. Continue(NextVisit(TRUE)) => G
      BY <2>0, <2>1, ContinueTop DEF Begins
    <2>4. CASE VisitSkip
      BY <2>0, <2>1, <2>4, ContinueTop DEF VisitSkip, Skips
    <2>5. CASE VisitBlock
      <3>1. PICK d \in Tasks : Continue([Top EXCEPT !.step = "block", !.bad = d])
        <4>1. deps \in [Tasks -> Seq(Tasks)] /\ Visited \in Tasks
          BY <2>0, <2>5, VisitedLemma DEF TypeOK, VisitBlock, InPass
        <4>2. deps[Visited] \in Seq(Tasks)
          BY <4>1
        <4>3. \A i \in DOMAIN deps[Visited] : deps[Visited][i] \in Tasks
          BY <4>2
        <4>. QED  BY <2>5, <4>3 DEF VisitBlock
      <3>2. [Top EXCEPT !.step = "block", !.bad = d] \in Frame
        BY <2>1 DEF Frame, Step
      <3>3. Top' = [Top EXCEPT !.step = "block", !.bad = d] /\ ChangedOK'
        BY <2>0, <3>1, <3>2, ContinueTop
      <3>. QED  BY <2>1, <3>3 DEF Frame
    <2>6. CASE MarkBlocked
      BY <2>2, <2>3, <2>6 DEF MarkBlocked
    <2>7. CASE Submit
      <3>1. [Top EXCEPT !.step = "register"] \in Frame
        BY <2>1 DEF Frame, Step
      <3>2. CASE Continue([Top EXCEPT !.step = "register"])
        <4>1. Top' = [Top EXCEPT !.step = "register"] /\ ChangedOK'
          BY <2>0, <3>1, <3>2, ContinueTop
        <4>. QED  BY <2>1, <4>1 DEF Frame
      <3>. QED  BY <2>2, <2>7, <3>2 DEF Submit
    <2>8. CASE Register
      <3>1. CASE FutureIsDone(Visited)
        <4>1. Visited \in Tasks
          <5>1. Top.pos \in 1 .. Len(order)
            <6>1. Top = frames[1] /\ 1 \in DOMAIN frames /\ order \in Seq(Tasks)
              BY <2>0, TopLemma DEF TypeOK
            <6>2. Top.pos >= 1 /\ Top.pos <= Len(order) /\ Len(order) \in Nat
              BY <2>8, <6>1 DEF Register, At, FramesOK
            <6>. QED  BY <2>1, <6>2
          <5>. QED  BY <2>0, <5>1, VisitedLemma
        <4>. QED  BY <2>0, <2>8, <3>1, <4>1, ReenterTop DEF Register, Begins
      <3>. QED  BY <2>3, <2>8, <3>1 DEF Register
    <2>9. CASE EndPass
      <3>. DEFINE f == [Top EXCEPT !.pos = 1, !.changed = FALSE]
      <3>1. [Top EXCEPT !.step = "check", !.pos = 1] \in Frame
        BY <2>1 DEF Frame, Step
      <3>2. CASE Top.changed
        <4>1. f \in Frame /\ f.step = "visit" /\ f.pos = 1
          BY <2>1, <2>9 DEF Frame, Step, EndPass, At
        <4>2. Continue(f)
          BY <2>9, <3>2 DEF EndPass
        <4>. HIDE DEF f
        <4>. QED  BY <2>0, <4>1, <4>2, ContinueTop DEF Begins
      <3>3. CASE ~Top.changed
        BY <2>0, <2>9, <3>1, <3>3, ContinueTop DEF EndPass, Leaves
      <3>. QED  BY <3>2, <3>3
    <2>10. CASE CheckFinished
      <3>1. /\ [Top EXCEPT !.pos = @ + 1] \in Frame
            /\ [Top EXCEPT !.step = "guard", !.pos = 1] \in Frame
        <4>1. Top.pos + 1 \in Nat
          BY <2>1
        <4>. QED  BY <2>1, <4>1 DEF Frame, Step
      <3>. QED  BY <2>0, <2>10, <3>1, ContinueTop DEF CheckFinished, Checks
    <2>11. CASE AllFinished \/ Guard
      BY <2>2, <2>11 DEF AllFinished, Guard
    <2>. QED  BY <1>1, <2>4, <2>5, <2>6, <2>7, <2>8, <2>9, <2>10, <2>11 DEF Scheduler
  <1>2. ASSUME Still PROVE G
    BY <1>2 DEF Still, ChangedOK
  <1>3. ASSUME NEW u \in Tasks, Worker(u) \/ Cancel(u) PROVE G
    <2>0. fut \in [Tasks -> FutureState] /\ status \in [Tasks -> TaskStatus] /\ cancels \in Nat
      BY DEF TypeOK
    <2>1. Dequeue(u) => fut[u] = "queued"
      BY PopStack DEF Dequeue, QueueOK, TypeOK
    <2>2. CASE OnFinish(u)
      BY <2>2, EnterTop DEF OnFinish, Begins
    <2>3. CASE ~OnFinish(u)
      <3>1. frames' = frames /\ UNCHANGED <<errors, cb>>
        BY <1>3, <2>3 DEF Worker, ExecuteRejected, ExecuteUnhandled, ExecuteStart, Handler,
              HandlerReturns, HandlerRaises, HandlerUnwinds, CompleteFuture, Cancel, poolVars,
              runVars
      <3>2. \A t \in Tasks : fut[t] = "none" /\ cancels' = cancels =>
                                status'[t] = status[t] /\ fut'[t] = "none"
        BY <1>3, <2>0, <2>1, <2>3 DEF Worker, ExecuteRejected, ExecuteUnhandled, ExecuteStart,
              Handler, HandlerReturns, HandlerRaises, HandlerUnwinds, CompleteFuture, Cancel,
              taskVars, poolVars
      <3>. QED  BY <1>2, <3>1, <3>2 DEF Still
    <2>. QED  BY <2>2, <2>3
  <1>4. CASE Caller
    <2>1. CASE RunStart
      BY <2>1, EnterTop DEF RunStart, Begins
    <2>2. CASE WaitDone
      BY <1>2, <2>2 DEF WaitDone, Still, taskVars, poolVars
    <2>3. CASE ~RunStart /\ ~WaitDone
      <3>1. frames = <<>> /\ frames' = frames
        BY <1>4, <2>3 DEF Caller, Add, RunRejected, RunEmpty, RunEnds, PoolIdle, IdleOK
      <3>. QED  BY <3>1 DEF ChangedOK
    <2>. QED  BY <2>1, <2>2, <2>3
  <1>5. CASE UNCHANGED vars
    BY <1>2, <1>5 DEF vars, Still, taskVars, poolVars, runVars
  <1>. QED  BY <1>1, <1>3, <1>4, <1>5 DEF Next

LEMMA InRunFrames == ASSUME IdleOK, frames # <<>> PROVE InRun
  BY DEF IdleOK, InRun

LEMMA CheckedStep ==
    ASSUME SchedulerInv, FreshOK, StartedOK, ChangedOK, CheckedOK, [Next]_vars
    PROVE  CheckedOK'
  <1>0. TypeOK /\ QueueOK /\ IdleOK /\ FramesOK /\ IdleOK' /\ TypeOK'
    BY InvStep DEF SchedulerInv
  <1>. SUFFICES ASSUME frames' # <<>>, Top'.step = "check", NEW u \in Tasks,
                       NEW i \in DOMAIN order', i < Top'.pos, order'[i] = u
                PROVE  Decided(u)'
    <2>1. \A i \in DOMAIN order' : order'[i] \in Tasks
      BY <1>0 DEF TypeOK
    <2>. QED  BY <2>1 DEF CheckedOK, At, Decided, InFutures
  <1>1. Still \/ Skips \/ Leaves \/ Checks
    BY <1>0, TopMoves DEF Begins
  <1>2. frames # <<>> /\ InRun
    <2>1. frames # <<>>
      BY <1>1 DEF Still, Skips, Leaves, Checks, VisitSkip, EndPass, CheckFinished, InPass, At
    <2>. QED  BY <1>0, <2>1, InRunFrames
  <1>3. /\ Top \in Frame /\ Top.pos \in Nat /\ i \in Nat /\ i >= 1
        /\ order' = order /\ i \in DOMAIN order /\ order[i] = u /\ u \in Registered
    <2>1. order' = order
      BY <1>2, RunConstant
    <2>2. Top \in Frame /\ Top.pos \in Nat /\ order \in Seq(Tasks)
      BY <1>0, <1>2, TopLemma DEF TypeOK
    <2>. QED  BY <2>1, <2>2 DEF Registered
  <1>4. CASE Still
    <2>1. Top' = Top
      BY <1>4 DEF Still, Top
    <2>2. Decided(u)
      BY <1>2, <1>3, <2>1 DEF CheckedOK, At
    <2>. QED  BY <1>0, <1>2, <1>3, <2>2, RunDecided
  <1>5. CASE Checks
    <2>1. At("check") /\ Top.pos <= Len(order)
      BY <1>5 DEF Checks, CheckFinished
    <2>2. Finished(Visited) /\ Top' = [Top EXCEPT !.pos = @ + 1]
      BY <1>3, <1>5 DEF Checks, Frame
    <2>3. Top'.pos = Top.pos + 1
      BY <1>3, <2>2 DEF Frame
    <2>4. CASE i = Top.pos
      BY <1>0, <1>2, <1>3, <2>2, <2>4, FinishedDecided, RunDecided DEF Visited
    <2>5. CASE i # Top.pos
      <3>1. i < Top.pos
        BY <1>3, <2>3, <2>5
      <3>2. Decided(u)
        BY <1>3, <2>1, <3>1 DEF CheckedOK
      <3>. QED  BY <1>0, <1>2, <1>3, <3>2, RunDecided
    <2>. QED  BY <2>4, <2>5
  <1>6. CASE Leaves
    <2>1. Top'.pos = 1
      BY <1>3, <1>6 DEF Leaves, Frame
    <2>. QED  BY <1>3, <2>1
  <1>7. CASE Skips
    BY <1>7 DEF Skips, NextVisit
  <1>. QED  BY <1>1, <1>4, <1>5, <1>6, <1>7

-----------------------------------------------------------------------------
(* The end of run().                                                       *)

\* A step of a run sets `done' when all is decided, sets it with an error, or leaves it.
LEMMA DoneMoves ==
    ASSUME TypeOK, IdleOK, InRun, [Next]_vars
    PROVE  /\ \/ UNCHANGED <<done, schedulerError>>
              \/ AllFinished
              \/ schedulerError'
           /\ \/ main' # "closing"
              \/ main = "closing" /\ outcome' \in {outcome, "raised"}
              \/ done' \/ outcome' = "raised"
           /\ ~InRun' => RunEnds
  <1>1. CASE Scheduler
    <2>0. At("block") \/ At("register") \/ At("visit") \/ At("check") \/ At("guard")
      BY <1>1 DEF Scheduler, VisitSkip, VisitBlock, MarkBlocked, Submit, Register, EndPass,
            CheckFinished, AllFinished, Guard, InPass
    <2>1. Leave => main' # "idle" /\ (main' = "closing" => main = "closing")
      BY DEF Leave, InRun
    <2>2. Throw => main' # "idle" /\ (main' = "closing" => main = "closing" \/ outcome' = "raised")
                   /\ outcome' \in {outcome, "raised"}
      BY DEF Throw, InRun
    <2>. QED  BY <1>1, <2>1, <2>2 DEF Scheduler, VisitSkip, VisitBlock, MarkBlocked, Submit,
                 Register, EndPass, CheckFinished, AllFinished, Guard, InRun, runVars
  <1>2. ASSUME NEW t \in Tasks, Worker(t) \/ Cancel(t)
        PROVE  UNCHANGED <<done, schedulerError, main, outcome>>
    BY <1>2 DEF Worker, ExecuteRejected, ExecuteUnhandled, ExecuteStart, Handler, HandlerReturns,
          HandlerRaises, HandlerUnwinds, CompleteFuture, OnFinish, Cancel, runVars
  <1>3. CASE Caller
    BY <1>3 DEF Caller, Add, RunRejected, RunEmpty, RunStart, WaitDone, RunEnds, InRun
  <1>4. CASE UNCHANGED vars
    BY <1>4 DEF vars, runVars, InRun
  <1>. QED  BY <1>1, <1>2, <1>3, <1>4 DEF Next, InRun

\* Between runs a run() that returned has returned if nothing but cancels came since.
LEMMA ReturnedBefore ==
    ASSUME TypeOK, IdleOK, ~InRun, [Next]_vars, Returned'
    PROVE  \/ Registered' = {}
           \/ /\ Returned /\ UNCHANGED <<order, deps, finally, fut, enteringBlocked>>
              /\ \A t \in Tasks : status'[t] \in {status[t], "cancelled"}
  <1>0. frames = <<>> /\ ~RunStart /\ status \in [Tasks -> TaskStatus]
    BY DEF IdleOK, InRun, RunStart, Returned, TypeOK
  <1>1. ~Scheduler /\ \A t \in Tasks : ~Worker(t)
    <2>1. ~Scheduler
      BY <1>0 DEF Scheduler, VisitSkip, VisitBlock, MarkBlocked, Submit, Register, EndPass,
            CheckFinished, AllFinished, Guard, InPass, At
    <2>2. \A t \in Tasks : ~Worker(t)
      BY <1>0 DEF IdleOK, InRun, Worker, ExecuteRejected, ExecuteUnhandled, ExecuteStart,
            Handler, HandlerReturns, HandlerRaises, HandlerUnwinds, CompleteFuture, OnFinish,
            Dequeue, FutureIsDone
    <2>. QED  BY <2>1, <2>2
  <1>2. CASE Caller
    <2>1. RunEmpty
      BY <1>0, <1>2 DEF Caller, Add, RunRejected, WaitDone, RunEnds, InRun, Returned
    <2>. QED  BY <2>1 DEF RunEmpty, Registered, graphVars
  <1>3. CASE (\E t \in Tasks : Cancel(t)) \/ UNCHANGED vars
    BY <1>0, <1>3 DEF Cancel, vars, graphVars, taskVars, poolVars, runVars, Returned
  <1>. QED  BY <1>1, <1>2, <1>3 DEF Next

LEMMA DoneStep ==
    ASSUME SchedulerInv, CheckedOK, DoneOK, [Next]_vars
    PROVE  DoneOK'
  <1>0. TypeOK /\ QueueOK /\ IdleOK /\ \A t \in Registered : t \in Tasks
    BY GraphTypes DEF SchedulerInv
  <1>1. ASSUME InRun PROVE DoneOK'
    <2>1. Registered' = Registered
      BY <1>1, RunConstant DEF Registered
    <2>2. (\A t \in Registered : Decided(t)) => \A t \in Registered' : Decided(t)'
      BY <1>0, <1>1, <2>1, RunDecided
    <2>3. done' /\ ~schedulerError' => \A t \in Registered' : Decided(t)'
      <3>1. CASE AllFinished
        <4>0. Top.pos \in Nat /\ order \in Seq(Tasks)
          BY <1>0, <3>1, TopLemma DEF AllFinished, At, TypeOK
        <4>1. \A i \in DOMAIN order : i < Top.pos
          BY <3>1, <4>0 DEF AllFinished
        <4>. QED  BY <2>2, <3>1, <4>1 DEF AllFinished, CheckedOK, Registered
      <3>. QED  BY <1>0, <1>1, <2>2, <3>1, DoneMoves DEF DoneOK
    <2>4. main' = "closing" => done' \/ outcome' = "raised"
      <3>1. done => done'
        BY <1>1 DEF Next, Scheduler, VisitSkip, VisitBlock, MarkBlocked, Submit, Register,
              EndPass, CheckFinished, AllFinished, Guard, Worker, ExecuteRejected,
              ExecuteUnhandled, ExecuteStart, Handler, HandlerReturns, HandlerRaises,
              HandlerUnwinds, CompleteFuture, OnFinish, Caller, Add, RunRejected, RunEmpty,
              RunStart, WaitDone, RunEnds, Cancel, InRun, runVars, vars
      <3>. QED  BY <1>0, <1>1, <3>1, DoneMoves DEF DoneOK
    <2>5. Returned' => \A t \in Registered' : Decided(t)'
      <3>1. ASSUME Returned'
            PROVE  done /\ ~schedulerError
        <4>1. RunEnds
          BY <1>0, <1>1, <3>1, DoneMoves DEF Returned, InRun
        <4>. QED  BY <3>1, <4>1 DEF RunEnds, Returned, DoneOK
      <3>. QED  BY <1>1, <2>2, <3>1 DEF DoneOK
    <2>. QED  BY <2>3, <2>4, <2>5 DEF DoneOK
  <1>2. ASSUME ~InRun PROVE DoneOK'
    <2>1. InRun' => ~done' /\ main' # "closing"
      BY <1>0, <1>2, RunBegins DEF RunStart
    <2>2. ASSUME Returned', NEW t \in Registered' PROVE Decided(t)'
      <3>1. /\ Returned /\ UNCHANGED <<order, finally, fut>>
        BY <1>0, <1>2, <2>2, ReturnedBefore
      <3>2. t \in Registered /\ Decided(t)
        BY <2>2, <3>1 DEF DoneOK, Registered
      <3>. QED  BY <1>0, <3>1, <3>2, DecidedStays DEF InFutures
    <2>. QED  BY <2>1, <2>2 DEF DoneOK, InRun
  <1>. QED  BY <1>1, <1>2

LEMMA CauseStep ==
    ASSUME SchedulerInv, CauseOK, [Next]_vars
    PROVE  CauseOK'
  <1>0. TypeOK /\ IdleOK /\ RaisedOK /\ BlockedJustified
    BY DEF SchedulerInv
  <1>. SUFFICES ASSUME Returned', NEW t \in Registered' \ enteringBlocked', status'[t] = "blocked"
                PROVE  \E d \in Upstream(t)' : ~Succeeded(d)'
    BY DEF CauseOK
  <1>1. CASE InRun
    <2>1. RunEnds
      BY <1>0, <1>1, DoneMoves DEF Returned, InRun
    <2>2. UNCHANGED <<order, deps, status, enteringBlocked>>
      BY <2>1 DEF RunEnds, graphVars, taskVars
    <2>3. blockedBy[t] \in Upstream(t) /\ BadParent(blockedBy[t])
      BY <1>0, <1>1, <2>2 DEF BlockedJustified, Registered
    <2>4. ~Succeeded(blockedBy[t])
      BY <1>0, <2>3, GraphTypes DEF BadParent, RaisedOK, TypeOK, IsBad, Succeeded
    <2>. QED  BY <2>2, <2>3, <2>4 DEF Upstream, Succeeded
  <1>2. CASE ~InRun
    <2>1. /\ Returned /\ UNCHANGED <<order, deps, enteringBlocked>>
          /\ \A u \in Tasks : status'[u] \in {status[u], "cancelled"}
      BY <1>0, <1>2, ReturnedBefore
    <2>2. t \in Registered \ enteringBlocked /\ t \in Tasks /\ Upstream(t) \subseteq Tasks
      BY <1>0, <2>1, GraphTypes DEF Registered
    <2>3. PICK d \in Upstream(t) : ~Succeeded(d)
      BY <2>1, <2>2 DEF CauseOK
    <2>4. ~Succeeded(d)' /\ d \in Upstream(t)'
      BY <2>1, <2>2, <2>3 DEF Succeeded, Upstream
    <2>. QED  BY <2>4
  <1>. QED  BY <1>1, <1>2

-----------------------------------------------------------------------------
(* What a pass leaves behind.  A finally task that a pass which changes    *)
(* nothing found not ready still has an upstream task that is active, or   *)
(* one whose callback waits to start another pass.                         *)

\* The callback of a future that completed during the pass.
Recalled(d) == fut[d] = "done" /\ cb[d] = "registered" /\ d # Top.of
Unready(f) == \E d \in Upstream(f) : ~Inactive(d) \/ Recalled(d)
PassOver == Top.step \in {"check", "guard"}
PassOK ==
    frames # <<>> /\ cancels = 0 /\ (PassOver \/ (Top.step = "visit" /\ ~Top.changed)) =>
        \A i \in DOMAIN order :
            /\ PassOver \/ i < Top.pos
            /\ order[i] \in finally /\ status[order[i]] = "pending" /\ fut[order[i]] = "none"
            => Unready(order[i])

LEMMA UnreadySame ==
    ASSUME NEW f \in Tasks, Unready(f), Top'.of = Top.of,
           UNCHANGED <<deps, status, fut, cb, errors, enteringBlocked>>
    PROVE  Unready(f)'
  BY DEF Unready, Upstream, Recalled, Inactive, InFutures, FutureIsDone, Retryable

\* Workers only complete futures, whose callbacks then wait for this activation.
LEMMA UnreadyStays ==
    ASSUME SchedulerInv, InRun, frames # <<>>, Top.step \in {"visit", "check", "guard"},
           [Next]_vars, Still, cancels' = cancels, NEW f \in Tasks, Unready(f)
    PROVE  Unready(f)'
  <1>0. /\ TypeOK /\ QueueOK /\ OwnersOK /\ CallbacksOK
        /\ UNCHANGED <<deps, enteringBlocked, errors, cb, frames>>
    BY RunConstant DEF SchedulerInv, Still
  <1>1. PICK d \in Upstream(f) : ~Inactive(d) \/ Recalled(d)
    BY DEF Unready
  <1>2. d \in Tasks /\ d \in Upstream(f)' /\ Top' = Top /\ fut[d] \in FutureState
    BY <1>0, <1>1, GraphTypes DEF Upstream, Top, TypeOK
  <1>3. CASE fut[d] = "none"
    <2>1. status'[d] = status[d] /\ fut'[d] = "none" /\ ~Inactive(d)
      BY <1>1, <1>2, <1>3 DEF Still, Recalled
    <2>2. ~Inactive(d)'
      BY <1>0, <1>3, <2>1 DEF Inactive, InFutures, FutureIsDone, Retryable
    <2>. QED  BY <1>2, <2>2 DEF Unready
  <1>4. CASE fut[d] = "done"
    <2>1. Recalled(d) /\ fut'[d] = "done"
      BY <1>0, <1>1, <1>2, <1>4, FutureStep DEF Inactive, InFutures, FutureIsDone
    <2>. QED  BY <1>0, <1>2, <2>1 DEF Unready, Recalled
  <1>5. CASE fut[d] \notin {"none", "done"}
    <2>1. fut'[d] # "none"
      BY <1>0, <1>2, <1>5, FutureStep
    <2>2. cb[d] = "registered"
      BY <1>2, <1>5 DEF SchedulerInv, CallbacksOK, InFutures, Recorded, FutureIsDone, At
    <2>3. d # Top.of
      <3>1. Top = frames[1] /\ 1 \in DOMAIN frames
        BY <1>0, TopLemma
      <3>. QED  BY <1>0, <1>2, <1>5, <3>1, ThreadsAssumption DEF OwnersOK, Recorded, FutureIsDone
    <2>. QED  BY <1>0, <1>2, <2>1, <2>2, <2>3
              DEF Unready, Recalled, Inactive, InFutures, FutureIsDone
  <1>. QED  BY <1>3, <1>4, <1>5

LEMMA PassStep ==
    ASSUME SchedulerInv, ChangedOK, PassOK, [Next]_vars
    PROVE  PassOK'
  <1>0. TypeOK /\ QueueOK /\ IdleOK /\ FramesOK /\ cancels \in Nat /\ TypeOK'
    BY InvStep DEF SchedulerInv, TypeOK
  <1>. SUFFICES ASSUME frames' # <<>>, cancels' = 0,
                       PassOver' \/ (Top'.step = "visit" /\ ~Top'.changed),
                       NEW i \in DOMAIN order', PassOver' \/ i < Top'.pos,
                       NEW f \in Tasks, order'[i] = f, f \in finally', status'[f] = "pending",
                       fut'[f] = "none"
                PROVE  Unready(f)'
    <2>1. \A i \in DOMAIN order' : order'[i] \in Tasks
      BY <1>0 DEF TypeOK
    <2>. QED  BY <2>1 DEF PassOK, Unready, Upstream
  <1>1. cancels = 0
    BY <1>0, PendingOnlyBefore
  <1>2. CASE Begins
    <2>1. i < 1
      BY <1>2 DEF Begins, PassOver
    <2>2. order' \in Seq(Tasks)
      BY <1>0 DEF TypeOK
    <2>. QED  BY <2>1, <2>2
  <1>3. CASE Still \/ Skips \/ Leaves \/ Checks
    <2>1. frames # <<>> /\ InRun
      <3>1. frames # <<>>
        BY <1>3 DEF Still, Skips, Leaves, Checks, VisitSkip, EndPass, CheckFinished, InPass, At
      <3>. QED  BY <1>0, <3>1, InRunFrames
    <2>2. /\ Top \in Frame /\ Top.pos \in Nat /\ order \in Seq(Tasks) /\ i \in DOMAIN order
          /\ order[i] = f /\ order' = order /\ f \in finally
          /\ UNCHANGED <<deps, enteringBlocked>>
      BY <1>0, <2>1, TopLemma, RunConstant DEF TypeOK
    <2>3. status[f] = "pending" /\ fut[f] = "none"
      BY <1>0, <2>1, <2>2, PendingOnlyBefore, FutureStep
    <2>4. CASE Still
      <3>1. Top' = Top
        BY <2>4 DEF Still, Top
      <3>2. Unready(f) /\ Top.step \in {"visit", "check", "guard"}
        BY <1>1, <2>1, <2>2, <2>3, <3>1 DEF PassOK, PassOver
      <3>. QED  BY <1>1, <2>1, <2>2, <2>4, <3>2, UnreadyStays
    <2>5. CASE Skips
      <3>1. /\ InPass /\ Top' = NextVisit(Top.changed) /\ Top.step = "visit"
            /\ UNCHANGED <<status, fut, cb, errors>>
        BY <2>5 DEF Skips, VisitSkip, InPass, At, taskVars, poolVars, runVars
      <3>2. Top'.of = Top.of /\ Top'.pos = Top.pos + 1 /\ ~Top.changed
        BY <3>1 DEF NextVisit, PassOver
      <3>3. Unready(f)
        <4>1. CASE i = Top.pos
          <5>1. f = Visited /\ ~Skipped(f) /\ ~Held(f) /\ CanTransition(status[f], "running")
            BY <2>2, <2>3, <4>1
               DEF Visited, Skipped, InFutures, IsSink, Held, CanTransition, AllowedTransitions
          <5>2. ~Ready(f)
            BY <2>5, <5>1 DEF Skips, VisitSkip
          <5>. QED  BY <2>2, <5>2 DEF Ready, Unready
        <4>2. CASE i # Top.pos
          <5>1. i < Top.pos
            BY <2>2, <3>1, <3>2, <4>2 DEF PassOver, NextVisit
          <5>. QED  BY <1>1, <2>1, <2>2, <2>3, <3>1, <3>2, <5>1 DEF PassOK
        <4>. QED  BY <4>1, <4>2
      <3>. QED  BY <2>2, <3>1, <3>2, <3>3, UnreadySame
    <2>6. CASE Leaves \/ Checks
      <3>1. UNCHANGED <<status, fut, cb, errors>> /\ Top'.of = Top.of
        BY <2>2, <2>6 DEF Leaves, Checks, EndPass, CheckFinished, Frame, taskVars, poolVars, runVars
      <3>2. Unready(f)
        <4>1. CASE Leaves
          <5>1. At("visit") /\ Top.pos > Len(order) /\ ~Top.changed
            BY <4>1 DEF Leaves, EndPass
          <5>2. i < Top.pos
            BY <2>2, <5>1
          <5>. QED  BY <1>1, <2>1, <2>2, <2>3, <5>1, <5>2 DEF PassOK, At
        <4>2. CASE Checks
          BY <1>1, <2>1, <2>2, <2>3, <4>2 DEF Checks, CheckFinished, PassOK, PassOver, At
        <4>. QED  BY <2>6, <4>1, <4>2
      <3>. QED  BY <2>2, <3>1, <3>2, UnreadySame
    <2>. QED  BY <1>3, <2>4, <2>5, <2>6
  <1>. QED  BY <1>0, <1>2, <1>3, TopMoves DEF PassOver

\* No task that is at its end could be run again in this run.
NothingToRetry == \A t \in Tasks : IsTerminal(status[t]) => ~Retryable(t)

LEMMA FreshRetriesNothing ==
    ASSUME SchedulerInv, FreshOK, InRun, runs <= 1
    PROVE  NothingToRetry
  <1>. SUFFICES ASSUME NEW t \in Tasks, IsTerminal(status[t]), Retryable(t) PROVE FALSE
    BY DEF NothingToRetry
  <1>1. status[t] \notin {"succeeded", "failed", "blocked"}
    BY DEF FreshOK, Retryable
  <1>. QED  BY <1>1 DEF IsTerminal, Retryable, CanTransition, AllowedTransitions

LEMMA ReleasedOrWaited ==
    ASSUME SchedulerInv, StartedOK, PassOK, NothingToRetry
    PROVE  FinallyBecomesReady
  <1>0. TypeOK
    BY DEF SchedulerInv
  <1>. SUFFICES ASSUME cancels = 0, At("guard"), LastThread, NEW f \in Registered \cap finally,
                       status[f] = "pending", \A d \in Upstream(f) : IsTerminal(status[d])
                PROVE  FALSE
    BY DEF FinallyBecomesReady
  <1>1. f \in Tasks /\ fut[f] = "none"
    BY <1>0, GraphTypes DEF LastThread, StartedOK
  <1>2. Unready(f)
    BY <1>1 DEF PassOK, PassOver, At, Registered
  <1>3. PICK d \in Upstream(f) : ~Inactive(d) \/ Recalled(d)
    BY <1>2 DEF Unready
  <1>4. d \in Tasks /\ fut[d] \in {"none", "done"} /\ ~Recalled(d)
    BY <1>0, <1>1, <1>3, GraphTypes DEF LastThread, Recalled
  <1>5. Inactive(d)
    BY <1>3, <1>4 DEF Inactive, InFutures, FutureIsDone, NothingToRetry
  <1>. QED  BY <1>3, <1>4, <1>5

-----------------------------------------------------------------------------
OutcomeInv == FreshOK /\ StartedOK /\ ChangedOK /\ CheckedOK /\ DoneOK /\ CauseOK /\ PassOK

LEMMA OutcomeInvariant == Spec => []OutcomeInv
  <1>1. Init => OutcomeInv
    BY DEF Init, OutcomeInv, FreshOK, StartedOK, ChangedOK, CheckedOK, DoneOK, CauseOK, PassOK,
          At, InRun, Returned
  <1>2. SchedulerInv /\ OutcomeInv /\ [Next]_vars => OutcomeInv'
    <2>. SUFFICES ASSUME SchedulerInv, OutcomeInv, [Next]_vars PROVE OutcomeInv'
      OBVIOUS
    <2>1. FreshOK' /\ StartedOK' /\ CheckedOK' /\ DoneOK' /\ CauseOK' /\ PassOK'
      BY FreshStep, StartedStep, CheckedStep, DoneStep, CauseStep, PassStep DEF OutcomeInv
    <2>2. ChangedOK'
      BY TopMoves DEF OutcomeInv, SchedulerInv
    <2>. QED  BY <2>1, <2>2 DEF OutcomeInv
  <1>. QED  BY <1>1, <1>2, SchedulerInvariant, PTL DEF Spec

\* No run(), of however many, returns with a task that is still PENDING.
THEOREM NothingStaysPending ==
    Spec => [](Returned => \A t \in Registered : status[t] # "pending")
  <1>1. OutcomeInv => (Returned => \A t \in Registered : status[t] # "pending")
    BY DEF OutcomeInv, DoneOK, Decided
  <1>. QED  BY <1>1, OutcomeInvariant, PTL

\* The first run() of a graph that returns has handed every finally task to the
\* pool, unless somebody cancelled it.  (A later run may leave one out that had
\* FAILED before: finished() takes it for finished.)
THEOREM FirstRunDecides == Spec => [](runs <= 1 => NothingLeftUndecided)
  <1>1. OutcomeInv => (runs <= 1 => NothingLeftUndecided)
    BY DEF OutcomeInv, DoneOK, Decided, NothingLeftUndecided
  <1>. QED  BY <1>1, OutcomeInvariant, PTL

\* A run() that found no task BLOCKED, as a first one does, and returns has left
\* a task BLOCKED only below one that did not succeed.
THEOREM BlocksHaveCauses == Spec => [](runs <= 1 \/ enteringBlocked = {} => BlockedHasCause)
  <1>1. OutcomeInv => (runs <= 1 \/ enteringBlocked = {} => BlockedHasCause)
    BY DEF OutcomeInv, FreshOK, CauseOK, BlockedHasCause
  <1>. QED  BY <1>1, OutcomeInvariant, PTL

\* When the last activation of schedule() gives up, a finally task that is still
\* PENDING waits for an upstream task that is not at its end; in a first run, and in
\* any run once no task is left that it would retry.
THEOREM FinallyReleased == Spec => [](runs <= 1 \/ NothingToRetry => FinallyBecomesReady)
  <1>1. SchedulerInv /\ OutcomeInv => (runs <= 1 \/ NothingToRetry => FinallyBecomesReady)
    <2>. SUFFICES ASSUME SchedulerInv, OutcomeInv, runs <= 1 \/ NothingToRetry
                  PROVE  FinallyBecomesReady
      OBVIOUS
    <2>1. CASE ~InRun
      BY <2>1 DEF SchedulerInv, IdleOK, InRun, FinallyBecomesReady, At
    <2>2. CASE InRun
      BY <2>2, FreshRetriesNothing, ReleasedOrWaited DEF OutcomeInv
    <2>. QED  BY <2>1, <2>2
  <1>. QED  BY <1>1, SchedulerInvariant, OutcomeInvariant, PTL

=============================================================================
