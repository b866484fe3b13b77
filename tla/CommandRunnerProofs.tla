----------------------- MODULE CommandRunnerProofs -----------------------
(***************************************************************************)
(* Theorems about CommandRunner, for any number of cancellers.             *)
(***************************************************************************)
EXTENDS CommandRunner, TLAPS

-----------------------------------------------------------------------------
(* The invariant, part by part.                                            *)

\* TypeOK in two parts: the threads' places, and the data.
PlaceTypes ==
    /\ pc \in [Threads -> {"popen", "register", "check", "wait", "join", "drain", "pop",
                           "report", "idle", "lookup", "signal", "grace", "kill", "done"}]
    /\ back \in [Threads -> {"none", "wait", "join", "drain", "done"}]

DataTypes ==
    /\ cancelled \in BOOLEAN /\ registered \in BOOLEAN
    /\ leader \in {"none", "running", "exited"} /\ code \in Exit
    /\ child \in {"none", "alive", "gone"} /\ ignores \subseteq MayIgnore
    /\ signalled \in BOOLEAN /\ hasTimeout \in BOOLEAN /\ timedOut \in BOOLEAN
    /\ deadline \in {"none", "ahead", "past"}
    /\ outcome \in {"none", "succeeded", "failed", "timeout", "cancelled"}

\* Every step keeps the variables' types.
LEMMA TypeStep ==
    ASSUME TypeOK, PlacesOK, [Next]_vars
    PROVE  TypeOK'
  <1>0. PlaceTypes /\ DataTypes
    BY DEF TypeOK, PlaceTypes, DataTypes
  <1>1. CASE Popen
    <2>1. PlaceTypes'
      BY <1>0, <1>1, RunnerAssumption
      DEF Popen, PlaceTypes, PlacesOK, Terminating, At, Goto, Terminate, Threads
    <2>2. DataTypes'
      BY <1>0, <1>1 DEF Popen, DataTypes, Exit, groupVars, fixedVars
    <2>3. QED
      BY <2>1, <2>2 DEF TypeOK, PlaceTypes, DataTypes
  <1>2. CASE Register
    <2>1. PlaceTypes'
      BY <1>0, <1>2, RunnerAssumption
      DEF Register, PlaceTypes, PlacesOK, Terminating, At, Goto, Terminate, Threads
    <2>2. DataTypes'
      BY <1>0, <1>2 DEF Register, DataTypes, Exit, groupVars, fixedVars
    <2>3. QED
      BY <2>1, <2>2 DEF TypeOK, PlaceTypes, DataTypes
  <1>3. CASE Check
    <2>1. PlaceTypes'
      BY <1>0, <1>3, RunnerAssumption
      DEF Check, PlaceTypes, PlacesOK, Terminating, At, Goto, Terminate, Threads
    <2>2. DataTypes'
      BY <1>0, <1>3 DEF Check, DataTypes, Exit, groupVars, fixedVars
    <2>3. QED
      BY <2>1, <2>2 DEF TypeOK, PlaceTypes, DataTypes
  <1>4. CASE Wait
    <2>1. PlaceTypes'
      BY <1>0, <1>4, RunnerAssumption
      DEF Wait, PlaceTypes, PlacesOK, Terminating, At, Goto, Terminate, Threads
    <2>2. DataTypes'
      BY <1>0, <1>4 DEF Wait, DataTypes, Exit, groupVars, fixedVars
    <2>3. QED
      BY <2>1, <2>2 DEF TypeOK, PlaceTypes, DataTypes
  <1>5. CASE Join
    <2>1. PlaceTypes'
      BY <1>0, <1>5, RunnerAssumption
      DEF Join, PlaceTypes, PlacesOK, Terminating, At, Goto, Terminate, Threads
    <2>2. DataTypes'
      <3>1. timedOut' \in BOOLEAN
        BY <1>0, <1>5, Zenon DEF Join, DataTypes
      <3>2. QED
        BY <1>0, <1>5, <3>1 DEF Join, DataTypes, Exit, groupVars, fixedVars
    <2>3. QED
      BY <2>1, <2>2 DEF TypeOK, PlaceTypes, DataTypes
  <1>6. CASE Drain
    <2>1. PlaceTypes'
      BY <1>0, <1>6, RunnerAssumption
      DEF Drain, PlaceTypes, PlacesOK, Terminating, At, Goto, Terminate, Threads
    <2>2. DataTypes'
      BY <1>0, <1>6 DEF Drain, DataTypes, Exit, groupVars, fixedVars
    <2>3. QED
      BY <2>1, <2>2 DEF TypeOK, PlaceTypes, DataTypes
  <1>7. CASE Pop
    <2>1. PlaceTypes'
      BY <1>0, <1>7, RunnerAssumption
      DEF Pop, PlaceTypes, PlacesOK, Terminating, At, Goto, Terminate, Threads
    <2>2. DataTypes'
      BY <1>0, <1>7 DEF Pop, DataTypes, Exit, groupVars, fixedVars
    <2>3. QED
      BY <2>1, <2>2 DEF TypeOK, PlaceTypes, DataTypes
  <1>8. CASE Report
    <2>1. PlaceTypes'
      BY <1>0, <1>8, RunnerAssumption
      DEF Report, Verdict, PlaceTypes, PlacesOK, Terminating, At, Goto, Terminate, Threads
    <2>2. DataTypes'
      BY <1>0, <1>8 DEF Report, Verdict, DataTypes, Exit, groupVars, fixedVars
    <2>3. QED
      BY <2>1, <2>2 DEF TypeOK, PlaceTypes, DataTypes
  <1>9. CASE LeaderExits
    <2>1. PlaceTypes'
      BY <1>0, <1>9, RunnerAssumption
      DEF LeaderExits, PlaceTypes, PlacesOK, Terminating, At, Goto, Terminate, Threads
    <2>2. DataTypes'
      BY <1>0, <1>9 DEF LeaderExits, DataTypes, Exit, groupVars, fixedVars
    <2>3. QED
      BY <2>1, <2>2 DEF TypeOK, PlaceTypes, DataTypes
  <1>10. CASE ChildExits
    <2>1. PlaceTypes'
      BY <1>0, <1>10, RunnerAssumption
      DEF ChildExits, PlaceTypes, PlacesOK, Terminating, At, Goto, Terminate, Threads
    <2>2. DataTypes'
      BY <1>0, <1>10 DEF ChildExits, DataTypes, Exit, groupVars, fixedVars
    <2>3. QED
      BY <2>1, <2>2 DEF TypeOK, PlaceTypes, DataTypes
  <1>11. CASE DeadlinePasses
    <2>1. PlaceTypes'
      BY <1>0, <1>11, RunnerAssumption
      DEF DeadlinePasses, PlaceTypes, PlacesOK, Terminating, At, Goto, Terminate, Threads
    <2>2. DataTypes'
      BY <1>0, <1>11 DEF DeadlinePasses, DataTypes, Exit, groupVars, fixedVars
    <2>3. QED
      BY <2>1, <2>2 DEF TypeOK, PlaceTypes, DataTypes
  <1>12. ASSUME NEW th \in Threads, Termination(th) PROVE TypeOK'
    <2>1. PlaceTypes'
      BY <1>0, <1>12, RunnerAssumption
      DEF Termination, Signal, Grace, Kill, PlaceTypes, PlacesOK, Terminating, At, Goto,
          Terminate, Threads
    <2>2. DataTypes'
      BY <1>0, <1>12
      DEF Termination, Signal, Grace, Kill, DataTypes, Exit, groupVars, fixedVars
    <2>3. QED
      BY <2>1, <2>2 DEF TypeOK, PlaceTypes, DataTypes
  <1>13. ASSUME NEW th \in Cancellers, CancelTask(th) \/ Lookup(th) PROVE TypeOK'
    <2>1. PlaceTypes'
      BY <1>0, <1>13, RunnerAssumption
      DEF CancelTask, Lookup, PlaceTypes, PlacesOK, Terminating, At, Goto, Terminate, Threads
    <2>2. DataTypes'
      BY <1>0, <1>13 DEF CancelTask, Lookup, DataTypes, Exit, groupVars, fixedVars
    <2>3. QED
      BY <2>1, <2>2 DEF TypeOK, PlaceTypes, DataTypes
  <1>14. CASE UNCHANGED vars
    <2>1. PlaceTypes'
      BY <1>0, <1>14, RunnerAssumption
      DEF vars, PlaceTypes, PlacesOK, Terminating, At, Goto, Terminate, Threads
    <2>2. DataTypes'
      BY <1>0, <1>14 DEF vars, DataTypes, Exit, groupVars, fixedVars
    <2>3. QED
      BY <2>1, <2>2 DEF TypeOK, PlaceTypes, DataTypes
  <1>15. QED
    BY <1>1, <1>2, <1>3, <1>4, <1>5, <1>6, <1>7,
       <1>8, <1>9, <1>10, <1>11, <1>12, <1>13, <1>14 DEF Next, Command

\* Every step leads from a place to a place that may follow it.
LEMMA PlacesStep ==
    ASSUME TypeOK, PlacesOK, [Next]_vars
    PROVE  PlacesOK'
  <1>. USE RunnerAssumption
      DEF TypeOK, PlacesOK, Terminating, At, Goto, Terminate, groupVars, fixedVars,
          Threads
  <1>1. CASE Popen
    BY <1>1 DEF Popen
  <1>2. CASE Register
    BY <1>2 DEF Register
  <1>3. CASE Check
    BY <1>3 DEF Check
  <1>4. CASE Wait
    BY <1>4 DEF Wait
  <1>5. CASE Join
    BY <1>5 DEF Join
  <1>6. CASE Drain
    BY <1>6 DEF Drain
  <1>7. CASE Pop
    BY <1>7 DEF Pop
  <1>8. CASE Report
    BY <1>8 DEF Report
  <1>9. CASE LeaderExits
    BY <1>9 DEF LeaderExits
  <1>10. CASE ChildExits
    BY <1>10 DEF ChildExits
  <1>11. CASE DeadlinePasses
    BY <1>11 DEF DeadlinePasses
  <1>12. ASSUME NEW th \in Threads, Termination(th) PROVE PlacesOK'
    BY <1>12 DEF Termination, Signal, Grace, Kill
  <1>13. ASSUME NEW th \in Cancellers, CancelTask(th) \/ Lookup(th) PROVE PlacesOK'
    BY <1>13 DEF CancelTask, Lookup
  <1>14. CASE UNCHANGED vars
    BY <1>14 DEF vars
  <1>15. QED
    BY <1>1, <1>2, <1>3, <1>4, <1>5, <1>6, <1>7,
       <1>8, <1>9, <1>10, <1>11, <1>12, <1>13, <1>14 DEF Next, Command

\* The runner leaves _terminate_process only when the leader has exited, and
\* goes past the join only when nobody holds the pipes.
LEMMA ProcessStep ==
    ASSUME TypeOK, PlacesOK, ProcessOK, [Next]_vars
    PROVE  ProcessOK'
  <1>. USE RunnerAssumption
      DEF TypeOK, PlacesOK, ProcessOK, PipesOpen, Terminating, At, Goto, Terminate,
          groupVars, fixedVars, Threads
  <1>1. CASE Popen
    BY <1>1 DEF Popen
  <1>2. CASE Register
    BY <1>2 DEF Register
  <1>3. CASE Check
    BY <1>3 DEF Check
  <1>4. CASE Wait
    BY <1>4 DEF Wait
  <1>5. CASE Join
    BY <1>5 DEF Join
  <1>6. CASE Drain
    BY <1>6 DEF Drain
  <1>7. CASE Pop
    BY <1>7 DEF Pop
  <1>8. CASE Report
    BY <1>8 DEF Report
  <1>9. CASE LeaderExits
    BY <1>9 DEF LeaderExits
  <1>10. CASE ChildExits
    BY <1>10 DEF ChildExits
  <1>11. CASE DeadlinePasses
    BY <1>11 DEF DeadlinePasses
  <1>12. ASSUME NEW th \in Threads, Termination(th) PROVE ProcessOK'
    <2>1. CASE Signal(th)
      BY <1>12, <2>1 DEF Signal
    <2>2. CASE Grace(th)
      BY <1>12, <2>2 DEF Grace
    <2>3. CASE Kill(th)
      <3>1. leader' = "exited" /\ child' # "alive" /\ ~PipesOpen'
        BY <2>3 DEF Kill
      <3>2. pc[th] = "kill" /\ pc' = [pc EXCEPT ![th] = back[th]]
        BY <2>3 DEF Kill
      <3>3. pc'[Runner] # "popen"
        <4>1. CASE th = Runner
          BY <3>2, <4>1
        <4>2. CASE th \in Cancellers
          BY <3>2, <4>2
        <4>3. QED
          BY <1>12, <4>1, <4>2
      <3>4. QED
        BY <3>1, <3>3
    <2>4. QED
      BY <1>12, <2>1, <2>2, <2>3 DEF Termination
  <1>13. ASSUME NEW th \in Cancellers, CancelTask(th) \/ Lookup(th) PROVE ProcessOK'
    BY <1>13 DEF CancelTask, Lookup
  <1>14. CASE UNCHANGED vars
    BY <1>14 DEF vars
  <1>15. QED
    BY <1>1, <1>2, <1>3, <1>4, <1>5, <1>6, <1>7,
       <1>8, <1>9, <1>10, <1>11, <1>12, <1>13, <1>14 DEF Next, Command

\* Signals are caused, and the verdict is the last thing to happen.
LEMMA CauseStep ==
    ASSUME TypeOK, PlacesOK, CauseOK, [Next]_vars
    PROVE  CauseOK'
  <1>. USE RunnerAssumption
      DEF TypeOK, PlacesOK, CauseOK, Terminating, At, Goto, Terminate, groupVars,
          fixedVars, Threads
  <1>1. CASE Popen
    BY <1>1 DEF Popen
  <1>2. CASE Register
    BY <1>2 DEF Register
  <1>3. CASE Check
    BY <1>3 DEF Check
  <1>4. CASE Wait
    BY <1>4 DEF Wait
  <1>5. CASE Join
    BY <1>5 DEF Join
  <1>6. CASE Drain
    BY <1>6 DEF Drain
  <1>7. CASE Pop
    BY <1>7 DEF Pop
  <1>8. CASE Report
    BY <1>8 DEF Report, Verdict
  <1>9. CASE LeaderExits
    BY <1>9 DEF LeaderExits
  <1>10. CASE ChildExits
    BY <1>10 DEF ChildExits
  <1>11. CASE DeadlinePasses
    BY <1>11 DEF DeadlinePasses
  <1>12. ASSUME NEW th \in Threads, Termination(th) PROVE CauseOK'
    BY <1>12 DEF Termination, Signal, Grace, Kill
  <1>13. ASSUME NEW th \in Cancellers, CancelTask(th) \/ Lookup(th) PROVE CauseOK'
    BY <1>13 DEF CancelTask, Lookup
  <1>14. CASE UNCHANGED vars
    BY <1>14 DEF vars
  <1>15. QED
    BY <1>1, <1>2, <1>3, <1>4, <1>5, <1>6, <1>7,
       <1>8, <1>9, <1>10, <1>11, <1>12, <1>13, <1>14 DEF Next, Command

\* A cancel() returns only if the runner has yet to look or the leader is dead.
LEMMA ReachStep ==
    ASSUME TypeOK, PlacesOK, ProcessOK, CauseOK, CancelReaches, [Next]_vars
    PROVE  CancelReaches'
  <1>. USE RunnerAssumption
      DEF TypeOK, PlacesOK, ProcessOK, CauseOK, CancelReaches, PipesOpen, Terminating,
          At, Goto, Terminate, groupVars, fixedVars, Threads
  <1>1. CASE Popen
    BY <1>1 DEF Popen
  <1>2. CASE Register
    BY <1>2 DEF Register
  <1>3. CASE Check
    BY <1>3 DEF Check
  <1>4. CASE Wait
    BY <1>4 DEF Wait
  <1>5. CASE Join
    BY <1>5 DEF Join
  <1>6. CASE Drain
    BY <1>6 DEF Drain
  <1>7. CASE Pop
    BY <1>7 DEF Pop
  <1>8. CASE Report
    BY <1>8 DEF Report
  <1>9. CASE LeaderExits
    BY <1>9 DEF LeaderExits
  <1>10. CASE ChildExits
    BY <1>10 DEF ChildExits
  <1>11. CASE DeadlinePasses
    BY <1>11 DEF DeadlinePasses
  <1>12. ASSUME NEW th \in Threads, Termination(th) PROVE CancelReaches'
    BY <1>12 DEF Termination, Signal, Grace, Kill
  <1>13. ASSUME NEW th \in Cancellers, CancelTask(th) \/ Lookup(th) PROVE CancelReaches'
    BY <1>13 DEF CancelTask, Lookup
  <1>14. CASE UNCHANGED vars
    BY <1>14 DEF vars
  <1>15. QED
    BY <1>1, <1>2, <1>3, <1>4, <1>5, <1>6, <1>7,
       <1>8, <1>9, <1>10, <1>11, <1>12, <1>13, <1>14 DEF Next, Command

-----------------------------------------------------------------------------
(* The theorems.                                                           *)

\* The conjunction of the parts is an inductive invariant: _run_command,
\* _terminate_process and cancel() keep it in every interleaving.
THEOREM CommandInvariant == Spec => []CommandInv
  <1>1. Init => CommandInv
    BY RunnerAssumption
    DEF Init, CommandInv, TypeOK, PlacesOK, ProcessOK, CauseOK, CancelReaches, PipesOpen,
        Terminating, Exit, At, Threads
  <1>2. CommandInv /\ [Next]_vars => CommandInv'
    BY TypeStep, PlacesStep, ProcessStep, CauseStep, ReachStep DEF CommandInv
  <1>3. QED
    BY <1>1, <1>2, PTL DEF Spec

\* When _run_command is over, its leader has exited and nobody holds its output.
THEOREM NoSurvivors == Spec => []NothingSurvives
  <1>1. CommandInv => NothingSurvives
    BY DEF CommandInv, ProcessOK, NothingSurvives, At
  <1>2. QED
    BY <1>1, CommandInvariant, PTL

\* A cancel() that has returned has reached the process, or will be noticed by
\* the look at context.cancelled after the registration.
THEOREM CancellationReaches == Spec => []CancelReaches
  <1>1. CommandInv => CancelReaches
    BY DEF CommandInv
  <1>2. QED
    BY <1>1, CommandInvariant, PTL

\* A task that SUCCEEDED or FAILED by its command's exit code ran to that exit
\* undisturbed: no signal was ever sent.
THEOREM VerdictUndisturbed == Spec => []OwnExitUnsignalled
  <1>1. CommandInv => OwnExitUnsignalled
    BY DEF CommandInv, CauseOK, OwnExitUnsignalled
  <1>2. QED
    BY <1>1, CommandInvariant, PTL

=============================================================================
