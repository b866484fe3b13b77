------------------------- MODULE TaskExecutorProofs -------------------------
(***************************************************************************)
(* What one task's executor promises, for any number of threads and calls, *)
(* any retry policy and failing saves, wherever threads are switched; and  *)
(* what else it promises as long as no thread is overtaken.                *)
(***************************************************************************)
EXTENDS TaskExecutor, FiniteSetTheorems, TLAPS

\* What the other threads notice of a step of th: nothing of their own changes.
Elsewhere(th) ==
    \A o \in Threads \ {th} :
        /\ pc'[o] = pc[o] /\ op'[o] = op[o] /\ target'[o] = target[o] /\ then'[o] = then[o]
        /\ previous'[o] = previous[o] /\ verdict'[o] = verdict[o]

\* The task as observers see it.
Public == <<status, result, emitted, escaped>>

\* A step of th keeps a RUNNING task held, and a task that is settled as it is.
Keeps(th) ==
    /\ status' = "running" =>
          escaped' \/ Holds(th)' \/ (status = "running" /\ ~Holds(th))
    /\ escaped => escaped'
    /\ IsSink(status) /\ ~escaped /\ Harmless(th) =>
          Outcome' = Outcome /\ Harmless(th)' /\ ~escaped'

\* The part of the invariant that no overtaking can break.
Shape == TypeOK /\ RunningHeld /\ SealedOK /\ \A th \in Threads : PlaceOK(th)

LEMMA RecordType ==
    ASSUME NEW th \in Threads, TypeOK, Record(th)
    PROVE  overtaken' \in BOOLEAN /\ (~overtaken' => ~overtaken)
  BY DEF Record, TypeOK

\* A thread that takes no step keeps its place and its role.
LEMMA OthersStay ==
    ASSUME NEW th \in Threads, Elsewhere(th), hasHandler' = hasHandler
    PROVE  \A o \in Threads \ {th} :
              /\ PlaceOK(o) => PlaceOK(o)'
              /\ Harmless(o) => Harmless(o)'
              /\ Holds(o)' <=> Holds(o)
              /\ Announcing(o)' <=> Announcing(o)
              /\ (o \in SucceededOwed)' <=> o \in SucceededOwed
              /\ (o \in Ending)' <=> o \in Ending
  <1> SUFFICES ASSUME NEW o \in Threads \ {th}
               PROVE  /\ PlaceOK(o) => PlaceOK(o)'
                      /\ Harmless(o) => Harmless(o)'
                      /\ Holds(o)' <=> Holds(o)
                      /\ Announcing(o)' <=> Announcing(o)
                      /\ (o \in SucceededOwed)' <=> o \in SucceededOwed
                      /\ (o \in Ending)' <=> o \in Ending
    OBVIOUS
  <1>1. PlaceOK(o) => PlaceOK(o)'
    BY DEF Elsewhere, PlaceOK, ExecutePlace, CancelPlace, BlockPlace
  <1>2. Harmless(o) => Harmless(o)'
    BY DEF Elsewhere, Harmless
  <1>3. /\ Holds(o)' <=> Holds(o)
        /\ Announcing(o)' <=> Announcing(o)
    BY DEF Elsewhere, Holds, Announcing
  <1>4. /\ (o \in SucceededOwed)' <=> o \in SucceededOwed
        /\ (o \in Ending)' <=> o \in Ending
    BY DEF Elsewhere, SucceededOwed, Ending
  <1> QED BY <1>1, <1>2, <1>3, <1>4

LEMMA ShapeStep ==
    ASSUME ExecutorInv, NEW th \in Threads, Elsewhere(th), Record(th), Keeps(th), TypeOK',
           PlaceOK(th)', hasHandler' = hasHandler
    PROVE  Shape'
  <1>1. \A o \in Threads : PlaceOK(o)'
    BY OthersStay DEF ExecutorInv
  <1>2. RunningHeld'
    BY OthersStay DEF ExecutorInv, RunningHeld, Keeps
  <1>3. SealedOK'
    <2>1. CASE sealed # None
      <3>1. /\ sealed = Outcome /\ IsSink(status) /\ ~escaped
            /\ \A o \in Threads : Harmless(o)
        BY <2>1 DEF ExecutorInv, SealedOK
      <3>2. sealed' = sealed /\ Outcome' = Outcome /\ ~escaped'
        BY <2>1, <3>1 DEF Record, Keeps
      <3>3. \A o \in Threads : Harmless(o)'
        BY <3>1, OthersStay DEF Keeps
      <3>4. status' = status
        BY <3>2 DEF Outcome
      <3> QED BY <3>1, <3>2, <3>3, <3>4 DEF SealedOK
    <2>2. CASE sealed = None /\ AtRest' /\ IsSink(status')
      BY <2>2 DEF Record, SealedOK, AtRest, Harmless
    <2>3. CASE sealed = None /\ ~(AtRest' /\ IsSink(status'))
      BY <2>3 DEF Record, SealedOK
    <2> QED BY <2>1, <2>2, <2>3
  <1> QED BY <1>1, <1>2, <1>3 DEF Shape

\* The other threads' decisions stand while the status does, or if they made none.
LEMMA OthersDecided ==
    ASSUME AccountsOK, NEW th \in Threads, Elsewhere(th),
           \/ status' = status
           \/ ~IsSink(status) /\ \A o \in Threads \ {th} : pc[o] \notin Deciding,
           \A o \in Threads \ {th} : PlaceOK(o)
    PROVE  \A o \in Threads \ {th} : DecisionOK(o)'
  <1> SUFFICES ASSUME NEW o \in Threads \ {th}
               PROVE  DecisionOK(o)'
    OBVIOUS
  <1>0. DecisionOK(o) /\ PlaceOK(o)
    BY DEF AccountsOK
  <1>1. CASE status' = status
    BY <1>0, <1>1 DEF Elsewhere, DecisionOK
  <1>2. CASE ~IsSink(status) /\ \A p \in Threads \ {th} : pc[p] \notin Deciding
    BY <1>0, <1>2 DEF Elsewhere, DecisionOK, Deciding, Moving, IsSink
  <1> QED BY <1>1, <1>2

\* A step that neither touches the task nor moves th between the roles an
\* execution or a cancellation can have.
Quiet(th) ==
    /\ Public' = Public
    /\ Holds(th)' <=> Holds(th)
    /\ Announcing(th)' <=> Announcing(th)
    /\ (th \in CancelledOwed)' <=> th \in CancelledOwed
    /\ (th \in SucceededOwed)' <=> th \in SucceededOwed
    /\ (th \in Ending)' <=> th \in Ending
    /\ Holds(th) =>
         /\ pc[th] \in Terminalizing => pc'[th] \in Terminalizing
         /\ pc'[th] \in {"compare"} \cup Moving <=> pc[th] \in {"compare"} \cup Moving
         /\ pc'[th] = "forget" <=> pc[th] = "forget"
         /\ pc[th] \in Terminalizing => target'[th] = target[th]
    /\ Announcing(th) => (pc'[th] = "compare" <=> pc[th] = "compare")

LEMMA QuietAccounts ==
    ASSUME ExecutorInv, AccountsOK, NEW th \in Threads, Elsewhere(th), Quiet(th),
           DecisionOK(th)', hasHandler' = hasHandler
    PROVE  AccountsOK'
  <1> USE DEF AccountsOK
  <1>1. \A o \in Threads : DecisionOK(o)'
    BY OthersDecided DEF Quiet, Public, ExecutorInv
  <1>2. \A o \in Threads : Holds(o)' <=> Holds(o)
    BY OthersStay DEF Quiet
  <1>3. HolderOK'
    <2>1. \A o \in Threads : Holds(o) /\ pc[o] \in Terminalizing => pc'[o] \in Terminalizing
      BY DEF Elsewhere, Quiet
    <2> QED BY <1>2, <2>1 DEF HolderOK, Quiet, Public
  <1>4. \A o \in Threads \ {th} : pc'[o] = pc[o] /\ target'[o] = target[o]
    BY DEF Elsewhere
  <1>5. ResultOK'
    <2>1. \A o \in Threads : (Holds(o) \/ Announcing(o))' <=> Holds(o) \/ Announcing(o)
      BY OthersStay DEF Quiet
    <2>2. \A o \in Threads : Holds(o) =>
             /\ pc'[o] \in {"compare"} \cup Moving <=> pc[o] \in {"compare"} \cup Moving
             /\ pc'[o] = "forget" <=> pc[o] = "forget"
             /\ pc[o] \in {"compare"} \cup Moving => target'[o] = target[o]
      BY <1>4 DEF Quiet, Terminalizing
    <2>3. \A o \in Threads : /\ Announcing(o)' <=> Announcing(o)
                             /\ Announcing(o) => (pc'[o] = "compare" <=> pc[o] = "compare")
      BY <1>4, OthersStay DEF Quiet
    <2> QED BY <1>2, <2>1, <2>2, <2>3 DEF ResultOK, Quiet, Public
  <1>6. CancelledOwed' = CancelledOwed /\ SucceededOwed' = SucceededOwed /\ Ending' = Ending
    <2>1. \A o \in Threads : (o \in CancelledOwed)' <=> o \in CancelledOwed
      BY <1>4, OthersStay DEF CancelledOwed, Quiet, Public
    <2>2. \A o \in Threads : /\ (o \in SucceededOwed)' <=> o \in SucceededOwed
                             /\ (o \in Ending)' <=> o \in Ending
      BY OthersStay DEF Quiet
    <2> QED BY <2>1, <2>2 DEF CancelledOwed, SucceededOwed, Ending
  <1>7. AnnouncedOK'
    BY <1>6 DEF AnnouncedOK, OnceOK, Quiet, Public
  <1>8. StartsOK'
    BY <1>6 DEF StartsOK, Quiet, Public
  <1> QED BY <1>1, <1>3, <1>5, <1>7, <1>8

LEMMA FinishTypes ==
    ASSUME TypeOK, NEW th \in Threads, NEW how \in {"returned", "raised"}, Finish(th, how)
    PROVE  /\ pc' \in [Threads -> PC]
           /\ verdict' \in [Threads -> {"returned", "raised", None}]
           /\ target' \in [Threads -> TaskStatus \cup {None}]
           /\ then' \in [Threads -> {"snapshot", "result", "settle", None}]
           /\ previous' \in [Threads -> TaskStatus \cup {None}]
           /\ attempt' \in [Threads -> Nat]
           /\ raising' \in [Threads -> {"Exception", "TaskCancelled", None}]
           /\ snap' \in [Threads -> Row]
           /\ Elsewhere(th) \/ op' # op
  <1>1. NoRow \in Row
    BY DEF NoRow, Row
  <1> QED BY <1>1 DEF TypeOK, Finish, Goto, PC, Elsewhere

LEMMA QuietStep ==
    ASSUME ExecutorInv, NEW th \in Threads, Elsewhere(th), Record(th), Keeps(th), TypeOK',
           PlaceOK(th)', hasHandler' = hasHandler,
           AccountsOK => Quiet(th) /\ DecisionOK(th)'
    PROVE  ExecutorInv'
  <1>1. Shape'
    BY ShapeStep
  <1>2. ~overtaken' => AccountsOK'
    BY QuietAccounts, RecordType DEF ExecutorInv
  <1> QED BY <1>1, <1>2 DEF ExecutorInv, Shape

LEMMA AccountedStep ==
    ASSUME ExecutorInv, NEW th \in Threads, Elsewhere(th), Record(th), Keeps(th), TypeOK',
           PlaceOK(th)', hasHandler' = hasHandler,
           AccountsOK /\ ~overtaken' => AccountsOK'
    PROVE  ExecutorInv'
  <1>1. Shape'
    BY ShapeStep
  <1> QED BY <1>1, RecordType DEF ExecutorInv, Shape

-----------------------------------------------------------------------------
(* Steps that only take a thread further.                                  *)

USE DEF taskVars, storeVars, scratch, localVars, envVars, At, Goto, Aim

LEMMA HandlerReturnsInv ==
    ASSUME ExecutorInv, NEW th \in Threads, HandlerReturns(th), Record(th)
    PROVE  ExecutorInv'
  <1> USE NoneAssumption DEF HandlerReturns
  <1>0. PlaceOK(th) /\ TypeOK
    BY DEF ExecutorInv
  <1>1. CASE status = "cancelled"
    <2>1. TypeOK' /\ Elsewhere(th) /\ hasHandler' = hasHandler
      BY <1>0, <1>1, RecordType DEF TypeOK, Elsewhere, PC, TaskStatus, Row, NoRow
    <2>2. PlaceOK(th)' /\ Keeps(th)
      BY <1>0, <1>1 DEF TypeOK, PlaceOK, ExecutePlace,
           CancelPlace, BlockPlace, Keeps, Outcome, Holds, Harmless, Moving, Terminalizing,
           Saving, ResultStatus, Operation, Announces, IsSink
    <2>3. AccountsOK => Quiet(th) /\ DecisionOK(th)'
      BY <1>0, <1>1 DEF AccountsOK, HolderOK, TypeOK, PlaceOK,
           ExecutePlace, CancelPlace, BlockPlace, Quiet, Public, Holds, Announcing,
           CancelledOwed, SucceededOwed, Ending, DecisionOK, Moving, Terminalizing, Saving,
           ResultStatus, TaskStatus, Operation, CanTransition, AllowedTransitions, IsSink,
           Announces
    <2> QED BY <2>1, <2>2, <2>3, QuietStep
  <1>2. CASE status # "cancelled"
    <2>1. TypeOK' /\ Elsewhere(th) /\ hasHandler' = hasHandler
      BY <1>0, <1>2, RecordType DEF TypeOK, Elsewhere, PC, TaskStatus, Row, NoRow
    <2>2. PlaceOK(th)' /\ Keeps(th)
      BY <1>0, <1>2 DEF TypeOK, PlaceOK, ExecutePlace,
           CancelPlace, BlockPlace, Keeps, Outcome, Holds, Harmless, Moving, Terminalizing,
           Saving, ResultStatus, Operation, Announces, IsSink
    <2>3. AccountsOK => Quiet(th) /\ DecisionOK(th)'
      BY <1>0, <1>2 DEF AccountsOK, HolderOK, TypeOK, PlaceOK,
           ExecutePlace, CancelPlace, BlockPlace, Quiet, Public, Holds, Announcing,
           CancelledOwed, SucceededOwed, Ending, DecisionOK, Moving, Terminalizing, Saving,
           ResultStatus, TaskStatus, Operation, CanTransition, AllowedTransitions, IsSink,
           Announces
    <2> QED BY <2>1, <2>2, <2>3, QuietStep
  <1> QED BY <1>1, <1>2

LEMMA HandlerCancelsInv ==
    ASSUME ExecutorInv, NEW th \in Threads, HandlerCancels(th), Record(th)
    PROVE  ExecutorInv'
  <1> USE NoneAssumption DEF HandlerCancels
  <1>0. PlaceOK(th) /\ TypeOK
    BY DEF ExecutorInv
  <1>1. TypeOK' /\ Elsewhere(th) /\ hasHandler' = hasHandler
    BY <1>0, RecordType DEF TypeOK, Elsewhere, PC, TaskStatus, Row, NoRow
  <1>2. PlaceOK(th)' /\ Keeps(th)
    BY <1>0 DEF TypeOK, PlaceOK, ExecutePlace,
         CancelPlace, BlockPlace, Keeps, Outcome, Holds, Harmless, Moving, Terminalizing,
         Saving, ResultStatus, Operation, Announces, IsSink
  <1>3. AccountsOK => Quiet(th) /\ DecisionOK(th)'
    BY <1>0 DEF AccountsOK, HolderOK, TypeOK, PlaceOK,
         ExecutePlace, CancelPlace, BlockPlace, Quiet, Public, Holds, Announcing,
         CancelledOwed, SucceededOwed, Ending, DecisionOK, Moving, Terminalizing, Saving,
         ResultStatus, TaskStatus, Operation, CanTransition, AllowedTransitions, IsSink,
         Announces
  <1> QED BY <1>1, <1>2, <1>3, QuietStep

LEMMA HandlerRaisesInv ==
    ASSUME ExecutorInv, NEW th \in Threads, HandlerRaises(th), Record(th)
    PROVE  ExecutorInv'
  <1> USE NoneAssumption DEF HandlerRaises
  <1>0. PlaceOK(th) /\ TypeOK
    BY DEF ExecutorInv
  <1>1. TypeOK' /\ Elsewhere(th) /\ hasHandler' = hasHandler
    BY <1>0, RecordType DEF TypeOK, Elsewhere, PC, TaskStatus, Row, NoRow
  <1>2. PlaceOK(th)' /\ Keeps(th)
    BY <1>0 DEF TypeOK, PlaceOK, ExecutePlace,
         CancelPlace, BlockPlace, Keeps, Outcome, Holds, Harmless, Moving, Terminalizing,
         Saving, ResultStatus, Operation, Announces, IsSink
  <1>3. AccountsOK => Quiet(th) /\ DecisionOK(th)'
    BY <1>0 DEF AccountsOK, HolderOK, TypeOK, PlaceOK,
         ExecutePlace, CancelPlace, BlockPlace, Quiet, Public, Holds, Announcing,
         CancelledOwed, SucceededOwed, Ending, DecisionOK, Moving, Terminalizing, Saving,
         ResultStatus, TaskStatus, Operation, CanTransition, AllowedTransitions, IsSink,
         Announces
  <1> QED BY <1>1, <1>2, <1>3, QuietStep

LEMMA CaughtInv ==
    ASSUME ExecutorInv, NEW th \in Threads, Caught(th), Record(th)
    PROVE  ExecutorInv'
  <1> USE NoneAssumption DEF Caught
  <1>0. PlaceOK(th) /\ TypeOK
    BY DEF ExecutorInv
  <1>1. CASE status = "cancelled"
    <2>1. TypeOK' /\ Elsewhere(th) /\ hasHandler' = hasHandler
      BY <1>0, <1>1, RecordType DEF TypeOK, Elsewhere, PC, TaskStatus, Row, NoRow
    <2>2. PlaceOK(th)' /\ Keeps(th)
      BY <1>0, <1>1 DEF TypeOK, PlaceOK, ExecutePlace,
           CancelPlace, BlockPlace, Keeps, Outcome, Holds, Harmless, Moving, Terminalizing,
           Saving, ResultStatus, Operation, Announces, IsSink
    <2>3. AccountsOK => Quiet(th) /\ DecisionOK(th)'
      BY <1>0, <1>1 DEF AccountsOK, HolderOK, TypeOK, PlaceOK,
           ExecutePlace, CancelPlace, BlockPlace, Quiet, Public, Holds, Announcing,
           CancelledOwed, SucceededOwed, Ending, DecisionOK, Moving, Terminalizing, Saving,
           ResultStatus, TaskStatus, Operation, CanTransition, AllowedTransitions, IsSink,
           Announces
    <2> QED BY <2>1, <2>2, <2>3, QuietStep
  <1>2. CASE status # "cancelled"
    <2>1. TypeOK' /\ Elsewhere(th) /\ hasHandler' = hasHandler
      BY <1>0, <1>2, RecordType DEF TypeOK, Elsewhere, PC, TaskStatus, Row, NoRow
    <2>2. PlaceOK(th)' /\ Keeps(th)
      BY <1>0, <1>2 DEF TypeOK, PlaceOK, ExecutePlace,
           CancelPlace, BlockPlace, Keeps, Outcome, Holds, Harmless, Moving, Terminalizing,
           Saving, ResultStatus, Operation, Announces, IsSink
    <2>3. AccountsOK => Quiet(th) /\ DecisionOK(th)'
      BY <1>0, <1>2 DEF AccountsOK, HolderOK, TypeOK, PlaceOK,
           ExecutePlace, CancelPlace, BlockPlace, Quiet, Public, Holds, Announcing,
           CancelledOwed, SucceededOwed, Ending, DecisionOK, Moving, Terminalizing, Saving,
           ResultStatus, TaskStatus, Operation, CanTransition, AllowedTransitions, IsSink,
           Announces
    <2> QED BY <2>1, <2>2, <2>3, QuietStep
  <1> QED BY <1>1, <1>2

LEMMA RetryInv ==
    ASSUME ExecutorInv, NEW th \in Threads, Retry(th), Record(th)
    PROVE  ExecutorInv'
  <1> USE NoneAssumption DEF Retry
  <1>0. PlaceOK(th) /\ TypeOK
    BY DEF ExecutorInv
  <1>1. CASE MayRetry(th)
    <2>1. TypeOK' /\ Elsewhere(th) /\ hasHandler' = hasHandler
      BY <1>0, <1>1, RecordType DEF TypeOK, Elsewhere, PC, TaskStatus, Row, NoRow, MayRetry
    <2>2. PlaceOK(th)' /\ Keeps(th)
      BY <1>0, <1>1 DEF TypeOK, PlaceOK, ExecutePlace,
           CancelPlace, BlockPlace, Keeps, Outcome, Holds, Harmless, Moving, Terminalizing,
           Saving, ResultStatus, Operation, Announces, IsSink, Finish, MayRetry
    <2>3. AccountsOK => Quiet(th) /\ DecisionOK(th)'
      BY <1>0, <1>1 DEF AccountsOK, HolderOK, TypeOK, PlaceOK,
           ExecutePlace, CancelPlace, BlockPlace, Quiet, Public, Holds, Announcing,
           CancelledOwed, SucceededOwed, Ending, DecisionOK, Moving, Terminalizing, Saving,
           ResultStatus, TaskStatus, Operation, CanTransition, AllowedTransitions, IsSink,
           Announces, Finish, MayRetry
    <2> QED BY <2>1, <2>2, <2>3, QuietStep
  <1>2. CASE ~MayRetry(th)
    <2>1. TypeOK' /\ Elsewhere(th) /\ hasHandler' = hasHandler
      BY <1>0, <1>2, RecordType, FinishTypes DEF TypeOK, Elsewhere, MayRetry
    <2>2. PlaceOK(th)' /\ Keeps(th)
      BY <1>0, <1>2 DEF TypeOK, PlaceOK, ExecutePlace,
           CancelPlace, BlockPlace, Keeps, Outcome, Holds, Harmless, Moving, Terminalizing,
           Saving, ResultStatus, Operation, Announces, IsSink, Finish, MayRetry
    <2>3. AccountsOK => Quiet(th) /\ DecisionOK(th)'
      BY <1>0, <1>2 DEF AccountsOK, HolderOK, TypeOK, PlaceOK,
           ExecutePlace, CancelPlace, BlockPlace, Quiet, Public, Holds, Announcing,
           CancelledOwed, SucceededOwed, Ending, DecisionOK, Moving, Terminalizing, Saving,
           ResultStatus, TaskStatus, Operation, CanTransition, AllowedTransitions, IsSink,
           Announces, Finish, MayRetry
    <2> QED BY <2>1, <2>2, <2>3, QuietStep
  <1> QED BY <1>1, <1>2

LEMMA BackoffInv ==
    ASSUME ExecutorInv, NEW th \in Threads, Backoff(th), Record(th)
    PROVE  ExecutorInv'
  <1> USE NoneAssumption DEF Backoff
  <1>0. PlaceOK(th) /\ TypeOK
    BY DEF ExecutorInv
  <1>1. CASE status = "cancelled"
    <2>1. TypeOK' /\ Elsewhere(th) /\ hasHandler' = hasHandler
      BY <1>0, <1>1, RecordType, FinishTypes DEF TypeOK, Elsewhere
    <2>2. PlaceOK(th)' /\ Keeps(th)
      BY <1>0, <1>1 DEF TypeOK, PlaceOK, ExecutePlace,
           CancelPlace, BlockPlace, Keeps, Outcome, Holds, Harmless, Moving, Terminalizing,
           Saving, ResultStatus, Operation, Announces, IsSink, Finish
    <2>3. AccountsOK => Quiet(th) /\ DecisionOK(th)'
      BY <1>0, <1>1 DEF AccountsOK, HolderOK, TypeOK, PlaceOK,
           ExecutePlace, CancelPlace, BlockPlace, Quiet, Public, Holds, Announcing,
           CancelledOwed, SucceededOwed, Ending, DecisionOK, Moving, Terminalizing, Saving,
           ResultStatus, TaskStatus, Operation, CanTransition, AllowedTransitions, IsSink,
           Announces, Finish
    <2> QED BY <2>1, <2>2, <2>3, QuietStep
  <1>2. CASE status # "cancelled"
    <2>0. /\ attempt' \in [Threads -> Nat] /\ Goto(th, "check")
          /\ raising' = [raising EXCEPT ![th] = None]
      BY <1>0, <1>2 DEF TypeOK
    <2>1. TypeOK' /\ Elsewhere(th) /\ hasHandler' = hasHandler
      BY <1>0, <1>2, <2>0, RecordType DEF TypeOK, Elsewhere, PC, TaskStatus, Row, NoRow
    <2>2. PlaceOK(th)' /\ Keeps(th)
      BY <1>0, <1>2, <2>0 DEF TypeOK, PlaceOK, ExecutePlace,
           CancelPlace, BlockPlace, Keeps, Outcome, Holds, Harmless, Moving, Terminalizing,
           Saving, ResultStatus, Operation, Announces, IsSink, Finish
    <2>3. AccountsOK => Quiet(th) /\ DecisionOK(th)'
      BY <1>0, <1>2, <2>0 DEF AccountsOK, HolderOK, TypeOK, PlaceOK,
           ExecutePlace, CancelPlace, BlockPlace, Quiet, Public, Holds, Announcing,
           CancelledOwed, SucceededOwed, Ending, DecisionOK, Moving, Terminalizing, Saving,
           ResultStatus, TaskStatus, Operation, CanTransition, AllowedTransitions, IsSink,
           Announces, Finish
    <2> QED BY <2>1, <2>2, <2>3, QuietStep
  <1> QED BY <1>1, <1>2

LEMMA CheckInv ==
    ASSUME ExecutorInv, NEW th \in Threads, Check(th), Record(th)
    PROVE  ExecutorInv'
  <1> USE NoneAssumption DEF Check
  <1>0. PlaceOK(th) /\ TypeOK
    BY DEF ExecutorInv
  <1>1. CASE CanTransition(status, "running") /\ hasHandler
    <2>0. /\ Goto(th, "transition") /\ Aim(th, "running")
          /\ then' = [then EXCEPT ![th] = "snapshot"] /\ UNCHANGED raising
      BY <1>0, <1>1
    <2>1. TypeOK' /\ Elsewhere(th) /\ hasHandler' = hasHandler
      BY <1>0, <1>1, <2>0, RecordType DEF TypeOK, Elsewhere, PC, TaskStatus, Row, NoRow
    <2>2. PlaceOK(th)' /\ Keeps(th)
      BY <1>0, <1>1, <2>0 DEF TypeOK, PlaceOK, ExecutePlace,
           CancelPlace, BlockPlace, Keeps, Outcome, Holds, Harmless, Moving, Terminalizing,
           Saving, ResultStatus, Operation, Announces, IsSink, CanTransition,
           AllowedTransitions, TaskStatus
    <2>3. AccountsOK => Quiet(th) /\ DecisionOK(th)'
      BY <1>0, <1>1, <2>0 DEF AccountsOK, HolderOK, TypeOK, PlaceOK,
           ExecutePlace, CancelPlace, BlockPlace, Quiet, Public, Holds, Announcing,
           CancelledOwed, SucceededOwed, Ending, DecisionOK, Moving, Terminalizing, Saving,
           ResultStatus, TaskStatus, Operation, CanTransition, AllowedTransitions, IsSink,
           Announces
    <2> QED BY <2>1, <2>2, <2>3, QuietStep
  <1>2. CASE CanTransition(status, "running") /\ ~hasHandler
    <2>0. /\ Goto(th, "unhandled") /\ Aim(th, "running")
          /\ then' = [then EXCEPT ![th] = "result"] /\ UNCHANGED raising
      BY <1>0, <1>2
    <2>1. TypeOK' /\ Elsewhere(th) /\ hasHandler' = hasHandler
      BY <1>0, <1>2, <2>0, RecordType DEF TypeOK, Elsewhere, PC, TaskStatus, Row, NoRow
    <2>2. PlaceOK(th)' /\ Keeps(th)
      BY <1>0, <1>2, <2>0 DEF TypeOK, PlaceOK, ExecutePlace,
           CancelPlace, BlockPlace, Keeps, Outcome, Holds, Harmless, Moving, Terminalizing,
           Saving, ResultStatus, Operation, Announces, IsSink, CanTransition,
           AllowedTransitions, TaskStatus
    <2>3. AccountsOK => Quiet(th) /\ DecisionOK(th)'
      BY <1>0, <1>2, <2>0 DEF AccountsOK, HolderOK, TypeOK, PlaceOK,
           ExecutePlace, CancelPlace, BlockPlace, Quiet, Public, Holds, Announcing,
           CancelledOwed, SucceededOwed, Ending, DecisionOK, Moving, Terminalizing, Saving,
           ResultStatus, TaskStatus, Operation, CanTransition, AllowedTransitions, IsSink,
           Announces
    <2> QED BY <2>1, <2>2, <2>3, QuietStep
  <1>3. CASE ~CanTransition(status, "running")
    <2>0. /\ Goto(th, "retry") /\ raising' = [raising EXCEPT ![th] = "Exception"]
          /\ UNCHANGED <<target, then>>
      BY <1>0, <1>3
    <2>1. TypeOK' /\ Elsewhere(th) /\ hasHandler' = hasHandler
      BY <1>0, <1>3, <2>0, RecordType DEF TypeOK, Elsewhere, PC, TaskStatus, Row, NoRow
    <2>2. PlaceOK(th)' /\ Keeps(th)
      BY <1>0, <1>3, <2>0 DEF TypeOK, PlaceOK, ExecutePlace,
           CancelPlace, BlockPlace, Keeps, Outcome, Holds, Harmless, Moving, Terminalizing,
           Saving, ResultStatus, Operation, Announces, IsSink, CanTransition,
           AllowedTransitions, TaskStatus
    <2>3. AccountsOK => Quiet(th) /\ DecisionOK(th)'
      BY <1>0, <1>3, <2>0 DEF AccountsOK, HolderOK, TypeOK, PlaceOK,
           ExecutePlace, CancelPlace, BlockPlace, Quiet, Public, Holds, Announcing,
           CancelledOwed, SucceededOwed, Ending, DecisionOK, Moving, Terminalizing, Saving,
           ResultStatus, TaskStatus, Operation, CanTransition, AllowedTransitions, IsSink,
           Announces
    <2> QED BY <2>1, <2>2, <2>3, QuietStep
  <1> QED BY <1>1, <1>2, <1>3

LEMMA SnapshotInv ==
    ASSUME ExecutorInv, NEW th \in Threads, Snapshot(th), Record(th)
    PROVE  ExecutorInv'
  <1> USE NoneAssumption DEF Snapshot
  <1>0. PlaceOK(th) /\ TypeOK
    BY DEF ExecutorInv
  <1>1. TypeOK' /\ Elsewhere(th) /\ hasHandler' = hasHandler
    BY <1>0, RecordType DEF TypeOK, Elsewhere, PC, TaskStatus, Row, NoRow
  <1>2. PlaceOK(th)' /\ Keeps(th)
    BY <1>0 DEF TypeOK, PlaceOK, ExecutePlace,
         CancelPlace, BlockPlace, Keeps, Outcome, Holds, Harmless, Moving, Terminalizing,
         Saving, ResultStatus, Operation, Announces, IsSink
  <1>3. AccountsOK => Quiet(th) /\ DecisionOK(th)'
    BY <1>0 DEF AccountsOK, HolderOK, TypeOK, PlaceOK,
         ExecutePlace, CancelPlace, BlockPlace, Quiet, Public, Holds, Announcing,
         CancelledOwed, SucceededOwed, Ending, DecisionOK, Moving, Terminalizing, Saving,
         ResultStatus, TaskStatus, Operation, CanTransition, AllowedTransitions, IsSink,
         Announces
  <1> QED BY <1>1, <1>2, <1>3, QuietStep

LEMMA InsertInv ==
    ASSUME ExecutorInv, NEW th \in Threads, Insert(th), Record(th)
    PROVE  ExecutorInv'
  <1> USE NoneAssumption DEF Insert
  <1>0. PlaceOK(th) /\ TypeOK
    BY DEF ExecutorInv
  <1>1. TypeOK' /\ Elsewhere(th) /\ hasHandler' = hasHandler
    BY <1>0, RecordType DEF TypeOK, Elsewhere, PC, TaskStatus, Row, NoRow
  <1>2. PlaceOK(th)' /\ Keeps(th)
    BY <1>0 DEF TypeOK, PlaceOK, ExecutePlace,
         CancelPlace, BlockPlace, Keeps, Outcome, Holds, Harmless, Moving, Terminalizing,
         Saving, ResultStatus, Operation, Announces, IsSink
  <1>3. AccountsOK => Quiet(th) /\ DecisionOK(th)'
    BY <1>0 DEF AccountsOK, HolderOK, TypeOK, PlaceOK,
         ExecutePlace, CancelPlace, BlockPlace, Quiet, Public, Holds, Announcing,
         CancelledOwed, SucceededOwed, Ending, DecisionOK, Moving, Terminalizing, Saving,
         ResultStatus, TaskStatus, Operation, CanTransition, AllowedTransitions, IsSink,
         Announces
  <1> QED BY <1>1, <1>2, <1>3, QuietStep

LEMMA CommitInv ==
    ASSUME ExecutorInv, NEW th \in Threads, Commit(th), Record(th)
    PROVE  ExecutorInv'
  <1> USE NoneAssumption DEF Commit
  <1>0. PlaceOK(th) /\ TypeOK
    BY DEF ExecutorInv
  <1>1. CASE store' = snap[th]
    <2>1. TypeOK' /\ Elsewhere(th) /\ hasHandler' = hasHandler
      BY <1>0, <1>1, RecordType DEF TypeOK, Elsewhere, PC, TaskStatus, Row, NoRow
    <2>2. PlaceOK(th)' /\ Keeps(th)
      BY <1>0, <1>1 DEF TypeOK, PlaceOK, ExecutePlace,
           CancelPlace, BlockPlace, Keeps, Outcome, Holds, Harmless, Moving, Terminalizing,
           Saving, ResultStatus, Operation, Announces, IsSink
    <2>3. AccountsOK => Quiet(th) /\ DecisionOK(th)'
      BY <1>0, <1>1 DEF AccountsOK, HolderOK, TypeOK, PlaceOK,
           ExecutePlace, CancelPlace, BlockPlace, Quiet, Public, Holds, Announcing,
           CancelledOwed, SucceededOwed, Ending, DecisionOK, Moving, Terminalizing, Saving,
           ResultStatus, TaskStatus, Operation, CanTransition, AllowedTransitions, IsSink,
           Announces
    <2> QED BY <2>1, <2>2, <2>3, QuietStep
  <1>2. CASE UNCHANGED store
    <2>1. TypeOK' /\ Elsewhere(th) /\ hasHandler' = hasHandler
      BY <1>0, <1>2, RecordType DEF TypeOK, Elsewhere, PC, TaskStatus, Row, NoRow
    <2>2. PlaceOK(th)' /\ Keeps(th)
      BY <1>0, <1>2 DEF TypeOK, PlaceOK, ExecutePlace,
           CancelPlace, BlockPlace, Keeps, Outcome, Holds, Harmless, Moving, Terminalizing,
           Saving, ResultStatus, Operation, Announces, IsSink
    <2>3. AccountsOK => Quiet(th) /\ DecisionOK(th)'
      BY <1>0, <1>2 DEF AccountsOK, HolderOK, TypeOK, PlaceOK,
           ExecutePlace, CancelPlace, BlockPlace, Quiet, Public, Holds, Announcing,
           CancelledOwed, SucceededOwed, Ending, DecisionOK, Moving, Terminalizing, Saving,
           ResultStatus, TaskStatus, Operation, CanTransition, AllowedTransitions, IsSink,
           Announces
    <2> QED BY <2>1, <2>2, <2>3, QuietStep
  <1> QED BY <1>1, <1>2

LEMMA CancelInv ==
    ASSUME ExecutorInv, NEW th \in Threads, Cancel(th), Record(th)
    PROVE  ExecutorInv'
  <1> USE NoneAssumption DEF Cancel
  <1>0. PlaceOK(th) /\ TypeOK
    BY DEF ExecutorInv
  <1>1. CASE status = "succeeded"
    <2>1. TypeOK' /\ Elsewhere(th) /\ hasHandler' = hasHandler
      BY <1>0, <1>1, RecordType, FinishTypes DEF TypeOK, Elsewhere
    <2>2. PlaceOK(th)' /\ Keeps(th)
      BY <1>0, <1>1 DEF TypeOK, PlaceOK, ExecutePlace,
           CancelPlace, BlockPlace, Keeps, Outcome, Holds, Harmless, Moving, Terminalizing,
           Saving, ResultStatus, Operation, Announces, IsSink, Finish
    <2>3. AccountsOK => Quiet(th) /\ DecisionOK(th)'
      BY <1>0, <1>1 DEF AccountsOK, HolderOK, TypeOK, PlaceOK,
           ExecutePlace, CancelPlace, BlockPlace, Quiet, Public, Holds, Announcing,
           CancelledOwed, SucceededOwed, Ending, DecisionOK, Moving, Terminalizing, Saving,
           ResultStatus, TaskStatus, Operation, CanTransition, AllowedTransitions, IsSink,
           Announces, Finish
    <2> QED BY <2>1, <2>2, <2>3, QuietStep
  <1>2. CASE status # "succeeded"
    <2>1. TypeOK' /\ Elsewhere(th) /\ hasHandler' = hasHandler
      BY <1>0, <1>2, RecordType DEF TypeOK, Elsewhere, PC, TaskStatus, Row, NoRow
    <2>2. PlaceOK(th)' /\ Keeps(th)
      BY <1>0, <1>2 DEF TypeOK, PlaceOK, ExecutePlace,
           CancelPlace, BlockPlace, Keeps, Outcome, Holds, Harmless, Moving, Terminalizing,
           Saving, ResultStatus, Operation, Announces, IsSink, Finish
    <2>3. AccountsOK => Quiet(th) /\ DecisionOK(th)'
      BY <1>0, <1>2 DEF AccountsOK, HolderOK, TypeOK, PlaceOK,
           ExecutePlace, CancelPlace, BlockPlace, Quiet, Public, Holds, Announcing,
           CancelledOwed, SucceededOwed, Ending, DecisionOK, Moving, Terminalizing, Saving,
           ResultStatus, TaskStatus, Operation, CanTransition, AllowedTransitions, IsSink,
           Announces, Finish
    <2> QED BY <2>1, <2>2, <2>3, QuietStep
  <1> QED BY <1>1, <1>2

LEMMA PreviousInv ==
    ASSUME ExecutorInv, NEW th \in Threads, Previous(th), Record(th)
    PROVE  ExecutorInv'
  <1> USE NoneAssumption DEF Previous
  <1>0. PlaceOK(th) /\ TypeOK
    BY DEF ExecutorInv
  <1>1. TypeOK' /\ Elsewhere(th) /\ hasHandler' = hasHandler
    BY <1>0, RecordType DEF TypeOK, Elsewhere, PC, TaskStatus, Row, NoRow
  <1>2. PlaceOK(th)' /\ Keeps(th)
    BY <1>0 DEF TypeOK, PlaceOK, ExecutePlace,
         CancelPlace, BlockPlace, Keeps, Outcome, Holds, Harmless, Moving, Terminalizing,
         Saving, ResultStatus, Operation, Announces, IsSink
  <1>3. AccountsOK => Quiet(th) /\ DecisionOK(th)'
    BY <1>0 DEF AccountsOK, HolderOK, TypeOK, PlaceOK,
         ExecutePlace, CancelPlace, BlockPlace, Quiet, Public, Holds, Announcing,
         CancelledOwed, SucceededOwed, Ending, DecisionOK, Moving, Terminalizing, Saving,
         ResultStatus, TaskStatus, Operation, CanTransition, AllowedTransitions, IsSink,
         Announces
  <1> QED BY <1>1, <1>2, <1>3, QuietStep

LEMMA CancelTaskInv ==
    ASSUME ExecutorInv, NEW th \in Threads, CancelTask(th), Record(th)
    PROVE  ExecutorInv'
  <1> USE NoneAssumption DEF CancelTask
  <1>0. PlaceOK(th) /\ TypeOK
    BY DEF ExecutorInv
  <1>1. CASE IsSink(status)
    <2>1. TypeOK' /\ Elsewhere(th) /\ hasHandler' = hasHandler
      BY <1>0, <1>1, RecordType DEF TypeOK, Elsewhere, PC, TaskStatus, Row, NoRow
    <2>2. PlaceOK(th)' /\ Keeps(th)
      BY <1>0, <1>1 DEF TypeOK, PlaceOK, ExecutePlace,
           CancelPlace, BlockPlace, Keeps, Outcome, Holds, Harmless, Moving, Terminalizing,
           Saving, ResultStatus, Operation, Announces, IsSink
    <2>3. AccountsOK => Quiet(th) /\ DecisionOK(th)'
      BY <1>0, <1>1 DEF AccountsOK, HolderOK, TypeOK, PlaceOK,
           ExecutePlace, CancelPlace, BlockPlace, Quiet, Public, Holds, Announcing,
           CancelledOwed, SucceededOwed, Ending, DecisionOK, Moving, Terminalizing, Saving,
           ResultStatus, TaskStatus, Operation, CanTransition, AllowedTransitions, IsSink,
           Announces
    <2> QED BY <2>1, <2>2, <2>3, QuietStep
  <1>2. CASE ~IsSink(status)
    <2>1. TypeOK' /\ Elsewhere(th) /\ hasHandler' = hasHandler
      BY <1>0, <1>2, RecordType DEF TypeOK, Elsewhere, PC, TaskStatus, Row, NoRow
    <2>2. PlaceOK(th)' /\ Keeps(th)
      BY <1>0, <1>2 DEF TypeOK, PlaceOK, ExecutePlace,
           CancelPlace, BlockPlace, Keeps, Outcome, Holds, Harmless, Moving, Terminalizing,
           Saving, ResultStatus, Operation, Announces, IsSink
    <2>3. AccountsOK => Quiet(th) /\ DecisionOK(th)'
      BY <1>0, <1>2 DEF AccountsOK, HolderOK, TypeOK, PlaceOK,
           ExecutePlace, CancelPlace, BlockPlace, Quiet, Public, Holds, Announcing,
           CancelledOwed, SucceededOwed, Ending, DecisionOK, Moving, Terminalizing, Saving,
           ResultStatus, TaskStatus, Operation, CanTransition, AllowedTransitions, IsSink,
           Announces
    <2> QED BY <2>1, <2>2, <2>3, QuietStep
  <1> QED BY <1>1, <1>2

LEMMA SettleInv ==
    ASSUME ExecutorInv, NEW th \in Threads, Settle(th), Record(th)
    PROVE  ExecutorInv'
  <1> USE NoneAssumption DEF Settle
  <1>0. PlaceOK(th) /\ TypeOK
    BY DEF ExecutorInv
  <1>1. CASE Announces(previous[th])
    <2>0. Goto(th, "result") /\ UNCHANGED <<verdict, scratch>>
      BY <1>0, <1>1
    <2>1. TypeOK' /\ Elsewhere(th) /\ hasHandler' = hasHandler
      BY <1>0, <1>1, <2>0, RecordType DEF TypeOK, Elsewhere, PC, TaskStatus, Row,
         NoRow, Announces
    <2>2. PlaceOK(th)' /\ Keeps(th)
      BY <1>0, <1>1, <2>0 DEF TypeOK, PlaceOK, ExecutePlace,
           CancelPlace, BlockPlace, Keeps, Outcome, Holds, Harmless, Moving, Terminalizing,
           Saving, ResultStatus, Operation, Announces, IsSink, Finish
    <2>3. AccountsOK => Quiet(th) /\ DecisionOK(th)'
      BY <1>0, <1>1, <2>0 DEF AccountsOK, HolderOK, TypeOK, PlaceOK,
           ExecutePlace, CancelPlace, BlockPlace, Quiet, Public, Holds, Announcing,
           CancelledOwed, SucceededOwed, Ending, DecisionOK, Moving, Terminalizing, Saving,
           ResultStatus, TaskStatus, Operation, CanTransition, AllowedTransitions, IsSink,
           Announces, Finish
    <2> QED BY <2>1, <2>2, <2>3, QuietStep
  <1>2. CASE ~Announces(previous[th])
    <2>1. TypeOK' /\ Elsewhere(th) /\ hasHandler' = hasHandler
      BY <1>0, <1>2, RecordType, FinishTypes DEF TypeOK, Elsewhere, Announces
    <2>2. PlaceOK(th)' /\ Keeps(th)
      BY <1>0, <1>2 DEF TypeOK, PlaceOK, ExecutePlace,
           CancelPlace, BlockPlace, Keeps, Outcome, Holds, Harmless, Moving, Terminalizing,
           Saving, ResultStatus, Operation, Announces, IsSink, Finish
    <2>3. AccountsOK => Quiet(th) /\ DecisionOK(th)'
      BY <1>0, <1>2 DEF AccountsOK, HolderOK, TypeOK, PlaceOK,
           ExecutePlace, CancelPlace, BlockPlace, Quiet, Public, Holds, Announcing,
           CancelledOwed, SucceededOwed, Ending, DecisionOK, Moving, Terminalizing, Saving,
           ResultStatus, TaskStatus, Operation, CanTransition, AllowedTransitions, IsSink,
           Announces, Finish
    <2> QED BY <2>1, <2>2, <2>3, QuietStep
  <1> QED BY <1>1, <1>2

LEMMA BlockInv ==
    ASSUME ExecutorInv, NEW th \in Threads, Block(th), Record(th)
    PROVE  ExecutorInv'
  <1> USE NoneAssumption DEF Block
  <1>0. PlaceOK(th) /\ TypeOK
    BY DEF ExecutorInv
  <1>1. TypeOK' /\ Elsewhere(th) /\ hasHandler' = hasHandler
    BY <1>0, RecordType DEF TypeOK, Elsewhere, PC, TaskStatus, Row, NoRow
  <1>2. PlaceOK(th)' /\ Keeps(th)
    BY <1>0 DEF TypeOK, PlaceOK, ExecutePlace,
         CancelPlace, BlockPlace, Keeps, Outcome, Holds, Harmless, Moving, Terminalizing,
         Saving, ResultStatus, Operation, Announces, IsSink
  <1>3. AccountsOK => Quiet(th) /\ DecisionOK(th)'
    BY <1>0 DEF AccountsOK, HolderOK, TypeOK, PlaceOK,
         ExecutePlace, CancelPlace, BlockPlace, Quiet, Public, Holds, Announcing,
         CancelledOwed, SucceededOwed, Ending, DecisionOK, Moving, Terminalizing, Saving,
         ResultStatus, TaskStatus, Operation, CanTransition, AllowedTransitions, IsSink,
         Announces
  <1> QED BY <1>1, <1>2, <1>3, QuietStep

LEMMA CallInv ==
    ASSUME ExecutorInv, NEW th \in Threads, NEW o \in Calls[th], Call(th, o), Record(th)
    PROVE  ExecutorInv'
  <1> USE NoneAssumption DEF Call
  <1>0. PlaceOK(th) /\ TypeOK /\ o \in Operation
    BY CallsAssumption DEF ExecutorInv
  <1>1. TypeOK' /\ Elsewhere(th) /\ hasHandler' = hasHandler
    BY <1>0, RecordType DEF TypeOK, Elsewhere, PC, Operation
  <1>2. /\ pc[th] = "idle" /\ pc'[th] = IF o = "execute" THEN "check" ELSE o
        /\ op'[th] = o /\ verdict'[th] = None
    BY <1>0 DEF TypeOK
  <1>3. PlaceOK(th)' /\ Keeps(th)
    BY <1>0, <1>2 DEF PlaceOK, ExecutePlace, CancelPlace, BlockPlace, Keeps, Outcome, Holds,
       Harmless, Moving, Terminalizing, Saving, Operation, IsSink
  <1>4. AccountsOK => Quiet(th) /\ DecisionOK(th)'
    BY <1>0, <1>2 DEF Quiet, Public, Holds, Announcing, CancelledOwed, SucceededOwed, Ending,
       DecisionOK, Moving, Terminalizing, Saving, Operation
  <1> QED BY <1>1, <1>3, <1>4, QuietStep

LEMMA TransitionCheckInv ==
    ASSUME ExecutorInv, NEW th \in Threads, TransitionCheck(th), Record(th)
    PROVE  ExecutorInv'
  <1> USE NoneAssumption DEF TransitionCheck
  <1>0. PlaceOK(th) /\ TypeOK
    BY DEF ExecutorInv
  <1>1. CASE CanTransition(status, target[th])
    <2>0. Goto(th, "error") /\ UNCHANGED <<verdict, scratch>>
      BY <1>1
    <2>1. TypeOK' /\ Elsewhere(th) /\ hasHandler' = hasHandler
      BY <1>0, <2>0, RecordType DEF TypeOK, Elsewhere, PC
    <2>2. PlaceOK(th)' /\ Keeps(th)
      BY <1>0, <1>1, <2>0 DEF TypeOK, PlaceOK, ExecutePlace, CancelPlace, BlockPlace, Keeps,
         Outcome, Holds, Harmless, Moving, Terminalizing, Saving, ResultStatus, Operation,
         IsSink, CanTransition, AllowedTransitions
    <2>3. AccountsOK => Quiet(th) /\ DecisionOK(th)'
      BY <1>0, <1>1, <2>0 DEF AccountsOK, TypeOK, PlaceOK, ExecutePlace, CancelPlace,
         BlockPlace, Quiet, Public, Holds, Announcing, CancelledOwed, SucceededOwed, Ending,
         DecisionOK, Moving, Terminalizing, Saving, ResultStatus, TaskStatus, Operation,
         CanTransition, AllowedTransitions, IsSink
    <2> QED BY <2>1, <2>2, <2>3, QuietStep
  <1>2. CASE ~CanTransition(status, target[th]) /\ op[th] = "execute"
    <2>0. /\ Goto(th, IF target[th] = "succeeded" THEN "caught" ELSE "retry")
          /\ raising' = [raising EXCEPT ![th] = "Exception"]
          /\ UNCHANGED <<verdict, target, then, previous, attempt, snap>>
      BY <1>2 DEF Fail
    <2>1. TypeOK' /\ Elsewhere(th) /\ hasHandler' = hasHandler
      BY <1>0, <2>0, RecordType DEF TypeOK, Elsewhere, PC
    <2>2. PlaceOK(th)' /\ Keeps(th)
      BY <1>0, <1>2, <2>0 DEF TypeOK, PlaceOK, ExecutePlace, Keeps, Outcome, Holds, Harmless,
         Moving, Terminalizing, Saving, ResultStatus, IsSink, CanTransition,
         AllowedTransitions
    <2>3. ~AccountsOK
      BY <1>0, <1>2 DEF AccountsOK, DecisionOK, Moving
    <2> QED BY <2>1, <2>2, <2>3, QuietStep
  <1>3. CASE ~CanTransition(status, target[th]) /\ op[th] # "execute"
    <2>0. Finish(th, "raised")
      BY <1>3 DEF Fail
    <2>1. TypeOK' /\ Elsewhere(th) /\ hasHandler' = hasHandler
      BY <1>0, <2>0, RecordType, FinishTypes DEF TypeOK, Elsewhere
    <2>2. pc'[th] = "idle" /\ target'[th] = None /\ verdict'[th] = "raised"
      BY <1>0, <2>0 DEF TypeOK, Finish
    <2>3. PlaceOK(th)' /\ Keeps(th)
      BY <1>0, <1>3, <2>2 DEF TypeOK, PlaceOK, CancelPlace, BlockPlace, ExecutePlace, Keeps,
         Outcome, Holds, Harmless, Moving, Terminalizing, Saving, Operation
    <2>4. AccountsOK => Quiet(th) /\ DecisionOK(th)'
      BY <1>0, <1>3, <2>2 DEF AccountsOK, TypeOK, PlaceOK, CancelPlace, BlockPlace, Quiet,
         Public, Holds, Announcing, CancelledOwed, SucceededOwed, Ending, DecisionOK, Moving,
         Terminalizing, Saving, ResultStatus, TaskStatus, Operation, CanTransition,
         AllowedTransitions, IsSink
    <2> QED BY <2>1, <2>3, <2>4, QuietStep
  <1> QED BY <1>1, <1>2, <1>3

LEMMA WriteErrorInv ==
    ASSUME ExecutorInv, NEW th \in Threads, WriteError(th), Record(th)
    PROVE  ExecutorInv'
  <1> USE NoneAssumption DEF WriteError
  <1>0. PlaceOK(th) /\ TypeOK
    BY DEF ExecutorInv
  <1>1. CASE status # "succeeded"
    <2>1. TypeOK' /\ Elsewhere(th) /\ hasHandler' = hasHandler
      BY <1>0, <1>1, RecordType DEF TypeOK, Elsewhere, PC
    <2>2. PlaceOK(th)' /\ Keeps(th)
      BY <1>0, <1>1 DEF TypeOK, PlaceOK, ExecutePlace, CancelPlace, BlockPlace, Keeps,
         Outcome, Holds, Harmless, Moving, Terminalizing, Saving, ResultStatus, Operation,
         IsSink
    <2>3. AccountsOK => Quiet(th) /\ DecisionOK(th)'
      BY <1>0, <1>1 DEF AccountsOK, TypeOK, PlaceOK, ExecutePlace, CancelPlace,
         BlockPlace, Quiet, Public, Holds, Announcing, CancelledOwed, SucceededOwed, Ending,
         DecisionOK, Moving, Terminalizing, Saving, ResultStatus, TaskStatus, Operation,
         IsSink
    <2> QED BY <2>1, <2>2, <2>3, QuietStep
  <1>2. ~AccountsOK \/ status # "succeeded"
    BY <1>0 DEF AccountsOK, DecisionOK, PlaceOK, Moving, TypeOK, Operation, CanTransition,
       AllowedTransitions, IsSink
  <1>3. CASE status = "succeeded" /\ op[th] = "execute"
    <2>0. /\ Goto(th, IF target[th] = "succeeded" THEN "caught" ELSE "retry")
          /\ raising' = [raising EXCEPT ![th] = "Exception"]
          /\ UNCHANGED <<verdict, target, then, previous, attempt, snap>>
      BY <1>3 DEF Fail
    <2>1. TypeOK' /\ Elsewhere(th) /\ hasHandler' = hasHandler
      BY <1>0, <2>0, RecordType DEF TypeOK, Elsewhere, PC
    <2>2. PlaceOK(th)' /\ Keeps(th)
      BY <1>0, <1>3, <2>0 DEF TypeOK, PlaceOK, ExecutePlace, Keeps, Outcome, Holds, Harmless,
         Moving, Terminalizing, Saving, ResultStatus, IsSink
    <2> QED BY <1>2, <1>3, <2>1, <2>2, QuietStep
  <1>4. CASE status = "succeeded" /\ op[th] # "execute"
    <2>0. Finish(th, "raised")
      BY <1>4 DEF Fail
    <2>1. TypeOK' /\ Elsewhere(th) /\ hasHandler' = hasHandler
      BY <1>0, <2>0, RecordType, FinishTypes DEF TypeOK, Elsewhere
    <2>2. pc'[th] = "idle" /\ target'[th] = None /\ verdict'[th] = "raised"
      BY <1>0, <2>0 DEF TypeOK, Finish
    <2>3. PlaceOK(th)' /\ Keeps(th)
      BY <1>0, <1>4, <2>2 DEF TypeOK, PlaceOK, CancelPlace, BlockPlace, ExecutePlace, Keeps,
         Outcome, Holds, Harmless, Moving, Terminalizing, Saving, Operation
    <2> QED BY <1>2, <1>4, <2>1, <2>3, QuietStep
  <1> QED BY <1>1, <1>3, <1>4

-----------------------------------------------------------------------------
(* Steps that begin, end or announce something.                            *)

\* The debt of terminal events after a step of th.
LEMMA EndingChange ==
    ASSUME NEW th \in Threads, Elsewhere(th), hasHandler' = hasHandler
    PROVE  /\ Cardinality(Ending) \in Nat /\ Cardinality(Ending)' \in Nat
           /\ th \in Ending /\ (th \notin Ending)' =>
                Cardinality(Ending)' = Cardinality(Ending) - 1
           /\ th \notin Ending /\ (th \in Ending)' =>
                Cardinality(Ending)' = Cardinality(Ending) + 1
           /\ (th \in Ending <=> (th \in Ending)') =>
                Cardinality(Ending)' = Cardinality(Ending)
  <1>1. Ending \subseteq Threads /\ Ending' \subseteq Threads
    BY DEF Ending
  <1>2. IsFiniteSet(Ending) /\ IsFiniteSet(Ending')
    BY <1>1, ThreadsAssumption, FS_Subset
  <1>3. Cardinality(Ending) \in Nat /\ Cardinality(Ending') \in Nat
    BY <1>2, FS_CardinalityType
  <1>4. Ending \ {th} = Ending' \ {th}
    BY <1>1, OthersStay
  <1>5. /\ Cardinality(Ending \ {th}) =
             IF th \in Ending THEN Cardinality(Ending) - 1 ELSE Cardinality(Ending)
        /\ Cardinality(Ending' \ {th}) =
             IF th \in Ending' THEN Cardinality(Ending') - 1 ELSE Cardinality(Ending')
    BY <1>2, FS_RemoveElement
  <1> QED BY <1>3, <1>4, <1>5

\* A step that leaves the status alone changes only th's part in who owes an event.
LEMMA OthersOwe ==
    ASSUME NEW th \in Threads, Elsewhere(th), hasHandler' = hasHandler, status' = status
    PROVE  \A o \in Threads \ {th} : (o \in CancelledOwed)' <=> o \in CancelledOwed
  BY OthersStay DEF CancelledOwed, Elsewhere

LEMMA SameOwed ==
    ASSUME NEW th \in Threads, Elsewhere(th), hasHandler' = hasHandler, status' = status,
           (th \in CancelledOwed)' <=> th \in CancelledOwed,
           (th \in SucceededOwed)' <=> th \in SucceededOwed
    PROVE  CancelledOwed' = CancelledOwed /\ SucceededOwed' = SucceededOwed
  BY OthersOwe, OthersStay DEF CancelledOwed, SucceededOwed

\* While the task may still move, no cancellation or success is owed or was announced, and
\* nobody but its holder has anything to do with its end.
LEMMA NothingOwed ==
    ASSUME AccountsOK, ~IsSink(status), \A o \in Threads : PlaceOK(o)
    PROVE  /\ \A o \in Threads : /\ ~Announcing(o)
                                 /\ pc[o] \in Saving => ~IsSink(target[o])
           /\ SucceededOwed = {} /\ CancelledOwed = {} /\ emitted["succeeded"] = 0
           /\ ~escaped => emitted["cancelled"] = 0
  <1>1. \A o \in Threads : ~Announcing(o)
    BY DEF AccountsOK, DecisionOK, Announcing, IsSink
  <1>2. \A o \in Threads : pc[o] \in Saving => ~IsSink(target[o])
    BY DEF AccountsOK, DecisionOK
  <1> QED
    BY <1>1, <1>2 DEF AccountsOK, AnnouncedOK, OnceOK, IsSink, SucceededOwed, CancelledOwed

\* Where the task has a result to come, several executions at most found no handler.
LEMMA PendingHolders ==
    ASSUME AccountsOK, status = "pending", NEW a \in Threads, Holds(a), PlaceOK(a)
    PROVE  /\ ~hasHandler /\ pc[a] \in Terminalizing /\ target[a] = "failed"
           /\ pc[a] \in Deciding
  <1>1. ~hasHandler /\ pc[a] \in Terminalizing /\ op[a] = "execute"
    BY DEF AccountsOK, HolderOK, Holds
  <1>2. target[a] = "failed"
    BY <1>1 DEF PlaceOK, ExecutePlace, Holds, Terminalizing, Moving, Saving, ResultStatus
  <1> QED BY <1>1, <1>2 DEF Terminalizing, Moving, Deciding

LEMMA UnhandledInv ==
    ASSUME ExecutorInv, NEW th \in Threads, Unhandled(th), Record(th)
    PROVE  ExecutorInv'
  <1> USE NoneAssumption DEF Unhandled
  <1>0. PlaceOK(th) /\ TypeOK
    BY DEF ExecutorInv
  <1>a. /\ op[th] = "execute" /\ pc[th] = "unhandled" /\ target[th] = "running"
        /\ then[th] = "result" /\ ~hasHandler
    BY <1>0 DEF PlaceOK, ExecutePlace, CancelPlace, BlockPlace, TypeOK, Operation, Moving,
       Terminalizing, Saving
  <1>1. CASE ~CanTransition(status, "failed")
    <2>0. Goto(th, "transition") /\ UNCHANGED target
      BY <1>1
    <2>1. TypeOK' /\ Elsewhere(th) /\ hasHandler' = hasHandler
      BY <1>0, <2>0, RecordType DEF TypeOK, Elsewhere, PC
    <2>2. PlaceOK(th)' /\ Keeps(th)
      BY <1>0, <1>a, <2>0 DEF TypeOK, PlaceOK, ExecutePlace, Keeps, Outcome, Holds, Harmless,
         Moving, Terminalizing, Saving, ResultStatus
    <2>3. AccountsOK => Quiet(th) /\ DecisionOK(th)'
      BY <1>0, <1>a, <2>0 DEF AccountsOK, TypeOK, PlaceOK, Quiet, Public, Holds, Announcing,
         CancelledOwed, SucceededOwed, Ending, DecisionOK, Moving, Terminalizing, Saving,
         ResultStatus
    <2> QED BY <2>1, <2>2, <2>3, QuietStep
  <1>2. CASE CanTransition(status, "failed")
    <2>0. Goto(th, "result") /\ Aim(th, "failed")
      BY <1>2
    <2>1. TypeOK' /\ Elsewhere(th) /\ hasHandler' = hasHandler
      BY <1>0, <2>0, RecordType DEF TypeOK, Elsewhere, PC, TaskStatus
    <2>2. /\ pc'[th] = "result" /\ target'[th] = "failed" /\ op' = op /\ then' = then
          /\ verdict' = verdict /\ UNCHANGED <<status, result, emitted, escaped, store>>
      BY <1>0, <2>0 DEF TypeOK
    <2>3. PlaceOK(th)' /\ Keeps(th)
      BY <1>0, <1>a, <2>1, <2>2 DEF PlaceOK, ExecutePlace, Keeps, Outcome, Holds, Harmless,
         Moving, Terminalizing, Saving, ResultStatus
    <2>4. ASSUME AccountsOK PROVE AccountsOK'
      <3> USE <2>4
      <3>1. status = "pending" /\ ~IsSink(status) /\ ~escaped
        BY <1>0, <1>2, <1>a DEF AccountsOK, DecisionOK, HolderOK, TypeOK, TaskStatus,
           CanTransition, AllowedTransitions, IsSink
      <3>2. /\ Holds(th)' /\ ~Announcing(th)' /\ (th \in Ending)' /\ th \notin Ending
            /\ th \notin SucceededOwed /\ (th \notin SucceededOwed)'
            /\ th \notin CancelledOwed /\ (th \notin CancelledOwed)'
        BY <1>a, <2>2, <3>1 DEF Holds, Announcing, Ending, SucceededOwed, CancelledOwed,
           ResultStatus, Saving, Moving, Terminalizing
      <3>3. \A o \in Threads : DecisionOK(o)'
        <4>1. DecisionOK(th)'
          BY <1>a, <1>2, <2>2 DEF AccountsOK, DecisionOK, Moving, Saving
        <4> QED BY <2>1, <2>2, <4>1, OthersDecided DEF ExecutorInv
      <3>4. HolderOK'
        BY <1>a, <2>1, <2>2, <3>1, <3>2, OthersStay DEF AccountsOK, HolderOK, Terminalizing,
           Elsewhere
      <3>5. ResultOK'
        BY <1>a, <2>1, <2>2, <3>1, <3>2, OthersStay DEF AccountsOK, ResultOK, Terminalizing,
           Moving, Elsewhere
      <3>6. AnnouncedOK'
        BY <2>1, <2>2, <3>2, SameOwed DEF AccountsOK, AnnouncedOK, OnceOK
      <3>7. StartsOK'
        BY <1>0, <2>1, <2>2, <3>2, EndingChange DEF AccountsOK, StartsOK, TypeOK, TaskStatus
      <3> QED BY <3>3, <3>4, <3>5, <3>6, <3>7 DEF AccountsOK
    <2> QED BY <2>1, <2>3, <2>4, AccountedStep
  <1> QED BY <1>1, <1>2

LEMMA HandlerEscapesInv ==
    ASSUME ExecutorInv, NEW th \in Threads, HandlerEscapes(th), Record(th)
    PROVE  ExecutorInv'
  <1> USE NoneAssumption DEF HandlerEscapes
  <1>0. PlaceOK(th) /\ TypeOK /\ pc[th] = "handler" /\ op[th] = "execute"
    BY DEF ExecutorInv, PlaceOK, CancelPlace, BlockPlace, TypeOK, Operation, Moving,
       Terminalizing, Saving
  <1>1. TypeOK' /\ Elsewhere(th) /\ hasHandler' = hasHandler
    BY <1>0, RecordType, FinishTypes DEF TypeOK, Elsewhere
  <1>2. /\ pc'[th] = "idle" /\ op' = op /\ escaped' /\ verdict'[th] = "raised"
        /\ UNCHANGED <<status, result, emitted, hasHandler, store>>
    BY <1>0 DEF TypeOK, Finish
  <1>3. PlaceOK(th)' /\ Keeps(th)
    BY <1>0, <1>2 DEF PlaceOK, ExecutePlace, Keeps, Outcome, Holds, Harmless, Saving, Moving,
       Terminalizing
  <1>4. ASSUME AccountsOK PROVE AccountsOK'
    <2> USE <1>4
    <2>1. Holds(th) /\ ~Holds(th)'
      BY <1>0, <1>2 DEF Holds, Saving, Moving, Terminalizing
    <2>2. status \in {"running", "cancelled"}
      BY <1>0, <2>1 DEF AccountsOK, HolderOK, Terminalizing, Moving
    <2>3. \A o \in Threads : ~Holds(o)'
      BY <1>1, <2>1, <2>2, OthersStay DEF AccountsOK, HolderOK
    <2>4. HolderOK' /\ ResultOK' /\ StartsOK'
      BY <1>2, <2>2, <2>3 DEF HolderOK, ResultOK, StartsOK
    <2>5. \A o \in Threads : DecisionOK(o)'
      <3>1. DecisionOK(th)'
        BY <1>0, <1>2 DEF AccountsOK, DecisionOK, Moving, Saving
      <3> QED BY <1>1, <1>2, <3>1, OthersDecided DEF ExecutorInv
    <2>6. SucceededOwed' = SucceededOwed
      BY <1>0, <1>1, <1>2, OthersStay DEF SucceededOwed, Saving
    <2>7. AnnouncedOK'
      BY <1>2, <2>6 DEF AccountsOK, AnnouncedOK, OnceOK
    <2> QED BY <2>4, <2>5, <2>7 DEF AccountsOK
  <1> QED BY <1>1, <1>3, <1>4, AccountedStep

LEMMA SetResultInv ==
    ASSUME ExecutorInv, NEW th \in Threads, SetResult(th), Record(th)
    PROVE  ExecutorInv'
  <1> USE NoneAssumption DEF SetResult
  <1>0. PlaceOK(th) /\ TypeOK /\ pc[th] = "result"
    BY DEF ExecutorInv
  <1>1. /\ target[th] \in ResultStatus
        /\ \/ op[th] = "execute" /\ Holds(th) /\ ~Announcing(th)
           \/ op[th] = "cancel" /\ Announcing(th) /\ ~Holds(th) /\ target[th] = "cancelled"
    BY <1>0 DEF PlaceOK, ExecutePlace, CancelPlace, BlockPlace, ResultStatus, Operation,
       Moving, Saving, Terminalizing, TypeOK, Holds, Announcing
  <1>2. /\ result' = target[th] /\ pc'[th] = "compare"
        /\ UNCHANGED <<status, store, emitted, escaped, hasHandler, target, then, op,
                       previous, verdict>>
    BY <1>0 DEF TypeOK
  <1>3. TypeOK' /\ Elsewhere(th)
    BY <1>0, <1>1, RecordType DEF TypeOK, Elsewhere, PC
  <1>4. PlaceOK(th)' /\ Keeps(th)
    BY <1>0, <1>1, <1>2 DEF PlaceOK, ExecutePlace, CancelPlace, BlockPlace, Keeps, Outcome,
       Holds, Harmless, Moving, Terminalizing, Saving
  <1>5. ASSUME AccountsOK PROVE AccountsOK'
    <2> USE <1>5
    <2>1. /\ Holds(th)' <=> Holds(th)
          /\ Announcing(th)' <=> Announcing(th)
      BY <1>0, <1>1, <1>2 DEF Holds, Announcing, Terminalizing, Moving, Saving
    <2>2. /\ th \in CancelledOwed <=> (th \in CancelledOwed)'
          /\ th \notin SucceededOwed /\ (th \notin SucceededOwed)'
          /\ th \in Ending <=> (th \in Ending)'
      BY <1>0, <1>1, <1>2, <2>1 DEF CancelledOwed, SucceededOwed, Ending, Saving, Moving,
         Terminalizing
    <2>3. CancelledOwed' = CancelledOwed /\ SucceededOwed' = SucceededOwed
      BY <1>2, <1>3, <2>2, SameOwed
    <2>4. \A o \in Threads : DecisionOK(o)'
      <3>1. DecisionOK(th)'
        BY <1>0, <1>1, <1>2 DEF AccountsOK, DecisionOK, Moving, Saving
      <3> QED BY <1>2, <1>3, <3>1, OthersDecided DEF ExecutorInv
    <2>5. \A o \in Threads : /\ Holds(o)' <=> Holds(o)
                             /\ Announcing(o)' <=> Announcing(o)
                             /\ o # th => pc'[o] = pc[o]
      BY <1>2, <1>3, <2>1, OthersStay DEF Elsewhere
    <2>6. HolderOK'
      BY <1>0, <1>2, <2>5 DEF AccountsOK, HolderOK, Terminalizing
    <2>7. ResultOK'
      <3> SUFFICES ASSUME ~escaped PROVE ResultOK'
        BY <1>2 DEF ResultOK
      <3>1. CASE Holds(th)
        <4>1. \A o \in Threads \ {th} : Holds(o) => target[o] = target[th]
          BY <3>1, PendingHolders DEF AccountsOK, HolderOK, ExecutorInv
        <4>2. \A o \in Threads \ {th} :
                 Holds(o) => pc[o] \in Terminalizing /\ status = "pending"
          BY <3>1, PendingHolders DEF AccountsOK, HolderOK, ExecutorInv
        <4>3. \A o \in Threads : Announcing(o) => target[th] = "cancelled"
          <5> SUFFICES ASSUME NEW o \in Threads, Announcing(o)
                       PROVE  target[th] = "cancelled"
            OBVIOUS
          <5>1. status = "cancelled"
            BY DEF AccountsOK, DecisionOK, Announcing
          <5> QED BY <1>1, <3>1, <5>1 DEF CancelledOwed, AccountsOK, AnnouncedOK, OnceOK
        <4> QED BY <1>1, <1>2, <2>5, <3>1, <4>1, <4>2, <4>3 DEF ResultOK
      <3>2. CASE ~Holds(th)
        <4>1. op[th] = "cancel" /\ Announcing(th) /\ target[th] = "cancelled"
          BY <1>1, <3>2
        <4>2. status = "cancelled"
          BY <1>0, <4>1 DEF AccountsOK, DecisionOK
        <4>3. \A o \in Threads : ~Holds(o)
          BY <3>2, <4>1, <4>2 DEF CancelledOwed, AccountsOK, AnnouncedOK, OnceOK
        <4> QED BY <1>2, <2>5, <4>1, <4>3 DEF ResultOK
      <3> QED BY <3>1, <3>2
    <2>8. AnnouncedOK' /\ StartsOK'
      BY <1>2, <1>3, <2>2, <2>3, EndingChange DEF AccountsOK, AnnouncedOK, OnceOK, StartsOK
    <2> QED BY <2>4, <2>6, <2>7, <2>8 DEF AccountsOK
  <1> QED BY <1>2, <1>3, <1>4, <1>5, AccountedStep

LEMMA CompareInv ==
    ASSUME ExecutorInv, NEW th \in Threads, Compare(th), Record(th)
    PROVE  ExecutorInv'
  <1> USE NoneAssumption DEF Compare
  <1>0. PlaceOK(th) /\ TypeOK /\ pc[th] = "compare"
    BY DEF ExecutorInv
  <1>1. /\ target[th] \in ResultStatus
        /\ \/ op[th] = "execute" /\ Holds(th) /\ ~Announcing(th)
           \/ op[th] = "cancel" /\ Announcing(th) /\ ~Holds(th) /\ target[th] = "cancelled"
        /\ op[th] = "execute" /\ ~hasHandler => target[th] = "failed"
    BY <1>0 DEF PlaceOK, ExecutePlace, CancelPlace, BlockPlace, ResultStatus, Operation,
       Moving, Saving, Terminalizing, TypeOK, Holds, Announcing
  <1>2. CASE status # target[th]
    <2>0. Goto(th, "transition") /\ then' = [then EXCEPT ![th] = "snapshot"]
      BY <1>2
    <2>1. TypeOK' /\ Elsewhere(th) /\ hasHandler' = hasHandler
      BY <1>0, <2>0, RecordType DEF TypeOK, Elsewhere, PC
    <2>2. PlaceOK(th)' /\ Keeps(th)
      BY <1>0, <1>1, <2>0 DEF TypeOK, PlaceOK, ExecutePlace, CancelPlace, BlockPlace, Keeps,
         Outcome, Holds, Harmless, Moving, Terminalizing, Saving, ResultStatus
    <2>3. AccountsOK => Quiet(th) /\ DecisionOK(th)'
      BY <1>0, <1>1, <1>2, <2>0 DEF AccountsOK, TypeOK, Quiet, Public, Holds, Announcing,
         CancelledOwed, SucceededOwed, Ending, DecisionOK, Moving, Terminalizing, Saving,
         ResultStatus
    <2> QED BY <2>1, <2>2, <2>3, QuietStep
  <1>3. CASE status = target[th]
    <2>0. Goto(th, "snapshot") /\ UNCHANGED then
      BY <1>3
    <2>1. TypeOK' /\ Elsewhere(th) /\ hasHandler' = hasHandler
      BY <1>0, <2>0, RecordType DEF TypeOK, Elsewhere, PC
    <2>2. /\ pc'[th] = "snapshot"
          /\ UNCHANGED <<status, result, store, emitted, escaped, target, op, previous, then,
                         verdict>>
      BY <1>0, <2>0 DEF TypeOK
    <2>3. PlaceOK(th)' /\ Keeps(th)
      BY <1>0, <1>1, <1>3, <2>2 DEF PlaceOK, ExecutePlace, CancelPlace, BlockPlace, Keeps,
         Outcome, Holds, Harmless, Moving, Terminalizing, Saving, ResultStatus
    <2>4. ASSUME AccountsOK PROVE AccountsOK'
      <3> USE <2>4
      <3>1. status = "cancelled" /\ target[th] = "cancelled"
        BY <1>0, <1>1, <1>3 DEF AccountsOK, HolderOK, ResultStatus
      <3>2. /\ ~Holds(th)' /\ ~Announcing(th)'
            /\ th \in CancelledOwed /\ (th \in CancelledOwed)'
            /\ th \notin SucceededOwed /\ (th \notin SucceededOwed)'
            /\ th \in Ending <=> (th \in Ending)'
        BY <1>0, <1>1, <2>2, <3>1 DEF Holds, Announcing, CancelledOwed, SucceededOwed,
           Ending, Saving, Moving, Terminalizing, ResultStatus
      <3>3. CancelledOwed' = CancelledOwed /\ SucceededOwed' = SucceededOwed
        BY <2>1, <2>2, <3>2, SameOwed
      <3>4. \A o \in Threads : DecisionOK(o)'
        <4>1. DecisionOK(th)'
          BY <1>0, <1>1, <2>2, <3>1 DEF AccountsOK, DecisionOK, Moving, Saving, IsSink
        <4> QED BY <2>1, <2>2, <4>1, OthersDecided DEF ExecutorInv
      <3>5. HolderOK'
        BY <2>1, <2>2, <3>2, OthersStay DEF AccountsOK, HolderOK, Elsewhere
      <3>6. ResultOK'
        <4>1. SUFFICES ASSUME ~escaped
                       PROVE  /\ result = "cancelled"
                              /\ \A o \in Threads : ~Holds(o)' /\ ~Announcing(o)'
          BY <2>2, <3>1 DEF ResultOK, ResultStatus
        <4>2. \A o \in Threads \ {th} : Holds(o) \/ Announcing(o) => o \in CancelledOwed
          BY <3>1 DEF CancelledOwed
        <4>3. \A o \in Threads : ~Holds(o)' /\ ~Announcing(o)'
          BY <2>1, <3>2, <4>1, <4>2, OthersStay DEF AccountsOK, AnnouncedOK, OnceOK
        <4>4. result = "cancelled"
          BY <1>0, <1>1, <3>1, <4>1 DEF AccountsOK, ResultOK
        <4> QED BY <4>3, <4>4
      <3>7. AnnouncedOK' /\ StartsOK'
        BY <2>1, <2>2, <3>2, <3>3, EndingChange DEF AccountsOK, AnnouncedOK, OnceOK, StartsOK
      <3> QED BY <3>4, <3>5, <3>6, <3>7 DEF AccountsOK
    <2> QED BY <2>1, <2>3, <2>4, AccountedStep
  <1> QED BY <1>2, <1>3

LEMMA ForgetInv ==
    ASSUME ExecutorInv, NEW th \in Threads, Forget(th), Record(th)
    PROVE  ExecutorInv'
  <1> USE NoneAssumption DEF Forget
  <1>0. PlaceOK(th) /\ TypeOK /\ pc[th] = "forget"
    BY DEF ExecutorInv
  <1>1. /\ op[th] = "execute" /\ target[th] = "running" /\ Holds(th)
        /\ \/ then[th] = "snapshot" /\ hasHandler
           \/ then[th] = "result" /\ ~hasHandler
    BY <1>0 DEF PlaceOK, ExecutePlace, CancelPlace, BlockPlace, Operation, Moving, Saving,
       Terminalizing, TypeOK, Holds
  <1>2. /\ result' = None /\ pc'[th] = then[th]
        /\ target'[th] = IF then[th] = "result" THEN "failed" ELSE "running"
        /\ UNCHANGED <<status, store, emitted, escaped, hasHandler, then, op, previous,
                       verdict>>
    BY <1>0, <1>1 DEF TypeOK
  <1>3. TypeOK' /\ Elsewhere(th)
    <2>1. CASE then[th] = "result"
      BY <1>0, <2>1, RecordType DEF TypeOK, Elsewhere, PC, TaskStatus
    <2>2. CASE then[th] # "result"
      BY <1>0, <1>1, <2>2, RecordType DEF TypeOK, Elsewhere, PC, TaskStatus
    <2> QED BY <2>1, <2>2
  <1>4. PlaceOK(th)' /\ Keeps(th)
    BY <1>0, <1>1, <1>2 DEF PlaceOK, ExecutePlace, Keeps, Outcome, Holds, Harmless, Moving,
       Terminalizing, Saving, ResultStatus
  <1>5. ASSUME AccountsOK PROVE AccountsOK'
    <2> USE <1>5
    <2>1. status = "running" /\ ~IsSink(status) /\ ~escaped
      BY <1>0, <1>1 DEF AccountsOK, DecisionOK, HolderOK, IsSink
    <2>2. /\ Holds(th)' /\ ~Announcing(th)'
          /\ th \notin Ending /\ ((th \in Ending)' <=> then[th] = "result")
          /\ th \notin SucceededOwed /\ (th \notin SucceededOwed)'
          /\ th \notin CancelledOwed /\ (th \notin CancelledOwed)'
      BY <1>0, <1>1, <1>2, <2>1 DEF Holds, Announcing, Ending, SucceededOwed, CancelledOwed,
         Moving, Saving, Terminalizing, ResultStatus
    <2>3. \A o \in Threads : DecisionOK(o)'
      <3>1. DecisionOK(th)'
        BY <1>0, <1>1, <1>2, <2>1 DEF AccountsOK, DecisionOK, Moving, Saving, IsSink,
           CanTransition, AllowedTransitions
      <3> QED BY <1>2, <1>3, <3>1, OthersDecided DEF ExecutorInv
    <2>4. \A o \in Threads \ {th} : ~Holds(o)'
      BY <1>1, <1>2, <1>3, <2>1, OthersStay DEF AccountsOK, HolderOK
    <2>5. \A o \in Threads : ~Announcing(o)'
      BY <1>2, <1>3, <2>1, <2>2, OthersStay, NothingOwed DEF ExecutorInv
    <2>6. HolderOK' /\ ResultOK'
      BY <1>1, <1>2, <2>1, <2>2, <2>4, <2>5 DEF HolderOK, ResultOK, Moving
    <2>7. AnnouncedOK'
      BY <1>2, <1>3, <2>2, SameOwed DEF AccountsOK, AnnouncedOK, OnceOK
    <2>8. StartsOK'
      BY <1>0, <1>2, <1>3, <2>2, EndingChange DEF AccountsOK, StartsOK, TypeOK, TaskStatus
    <2> QED BY <2>3, <2>6, <2>7, <2>8 DEF AccountsOK
  <1> QED BY <1>2, <1>3, <1>4, <1>5, AccountedStep

LEMMA NotifyInv ==
    ASSUME ExecutorInv, NEW th \in Threads, Notify(th), Record(th)
    PROVE  ExecutorInv'
  <1> USE NoneAssumption DEF Notify
  <1>0. PlaceOK(th) /\ TypeOK /\ pc[th] = "notify"
    BY DEF ExecutorInv
  <1>1. /\ target[th] \in TaskStatus
        /\ op[th] = "execute" => target[th] \in ResultStatus \cup {"running"}
        /\ op[th] = "cancel" => target[th] = "cancelled"
        /\ op[th] = "block" => target[th] = "blocked"
        /\ op[th] \in Operation
    BY <1>0 DEF PlaceOK, ExecutePlace, CancelPlace, BlockPlace, Operation, Moving,
       Terminalizing, Saving, TypeOK, ResultStatus, TaskStatus
  <1>2. /\ emitted' = [emitted EXCEPT ![target[th]] = @ + 1]
        /\ UNCHANGED <<status, result, store, escaped, hasHandler, op>>
    BY <1>0
  <1>3. CASE op[th] = "execute" /\ target[th] = "running"
    <2>1. TypeOK' /\ Elsewhere(th) /\ pc'[th] = "handler" /\ UNCHANGED <<verdict, target>>
      BY <1>0, <1>1, <1>3, RecordType DEF TypeOK, Elsewhere, PC
    <2>2. PlaceOK(th)' /\ Keeps(th)
      BY <1>0, <1>2, <1>3, <2>1 DEF PlaceOK, ExecutePlace, Keeps, Outcome, Holds, Harmless,
         Saving, Moving, Terminalizing
    <2>3. ASSUME AccountsOK PROVE AccountsOK'
      <3> USE <2>3
      <3>1. Holds(th) /\ Holds(th)' /\ ~Announcing(th) /\ ~Announcing(th)'
        BY <1>0, <1>2, <1>3, <2>1 DEF Holds, Announcing, Saving
      <3>2. /\ th \in CancelledOwed <=> (th \in CancelledOwed)'
            /\ th \notin SucceededOwed /\ (th \notin SucceededOwed)'
            /\ th \notin Ending /\ (th \in Ending)'
        BY <1>0, <1>2, <1>3, <2>1, <3>1 DEF CancelledOwed, SucceededOwed, Ending, Saving,
           Moving, Terminalizing, ResultStatus
      <3>3. CancelledOwed' = CancelledOwed /\ SucceededOwed' = SucceededOwed
        BY <1>2, <2>1, <3>2, SameOwed
      <3>4. \A o \in Threads : DecisionOK(o)'
        <4>1. DecisionOK(th)'
          BY <1>0, <1>2, <1>3, <2>1 DEF AccountsOK, DecisionOK, Moving, Saving
        <4> QED BY <1>2, <2>1, <4>1, OthersDecided DEF ExecutorInv
      <3>5. \A o \in Threads : /\ Holds(o)' <=> Holds(o)
                               /\ Announcing(o)' <=> Announcing(o)
                               /\ o # th => pc'[o] = pc[o] /\ target'[o] = target[o]
        BY <1>2, <2>1, <3>1, OthersStay DEF Elsewhere
      <3>6. HolderOK'
        BY <1>0, <1>2, <2>1, <3>1, <3>5 DEF AccountsOK, HolderOK, Terminalizing, Moving
      <3>7. ResultOK'
        BY <1>0, <1>2, <2>1, <3>1, <3>5 DEF AccountsOK, ResultOK, Moving
      <3>8. /\ emitted'["running"] = emitted["running"] + 1
            /\ \A e \in TaskStatus \ {"running"} : emitted'[e] = emitted[e]
        BY <1>0, <1>2, <1>3 DEF TypeOK, TaskStatus
      <3>9. AnnouncedOK'
        BY <1>2, <3>3, <3>8 DEF AccountsOK, AnnouncedOK, OnceOK, TaskStatus
      <3>10. StartsOK'
        BY <1>0, <1>2, <2>1, <3>2, <3>8, EndingChange DEF AccountsOK, StartsOK, TypeOK,
           TaskStatus
      <3> QED BY <3>4, <3>6, <3>7, <3>9, <3>10 DEF AccountsOK
    <2> QED BY <1>2, <2>1, <2>2, <2>3, AccountedStep
  <1>4. CASE ~(op[th] = "execute" /\ target[th] = "running")
    <2>1. /\ TypeOK' /\ Elsewhere(th)
          /\ \/ pc'[th] = "retry" /\ verdict'[th] = verdict[th] /\ op[th] = "execute"
             \/ /\ pc'[th] = "idle" /\ verdict'[th] = "returned"
                /\ op[th] = "execute" => target[th] = "succeeded"
      <3>1. CASE op[th] = "execute" /\ target[th] # "succeeded"
        BY <1>0, <1>1, <1>4, <3>1, RecordType DEF TypeOK, Elsewhere, PC
      <3>2. CASE ~(op[th] = "execute" /\ target[th] # "succeeded")
        <4>0. Finish(th, "returned")
          BY <3>2
        <4>1. TypeOK' /\ Elsewhere(th)
          BY <1>0, <1>1, <4>0, RecordType, FinishTypes DEF TypeOK, Elsewhere
        <4>2. pc'[th] = "idle" /\ verdict'[th] = "returned"
          BY <1>0, <4>0 DEF TypeOK, Finish
        <4> QED BY <3>2, <4>1, <4>2
      <3> QED BY <3>1, <3>2
    <2>2. PlaceOK(th)' /\ Keeps(th)
      BY <1>0, <1>1, <1>2, <1>4, <2>1 DEF PlaceOK, ExecutePlace, CancelPlace, BlockPlace,
         Keeps, Outcome, Holds, Harmless, Saving, Moving, Terminalizing
    <2>3. ASSUME AccountsOK PROVE AccountsOK'
      <3> USE <2>3
      <3>0. IsSink(target[th]) => status = target[th]
        BY <1>0 DEF AccountsOK, DecisionOK, Saving
      <3>1. ~Holds(th) /\ ~Holds(th)' /\ ~Announcing(th) /\ ~Announcing(th)'
        BY <1>0, <1>2, <1>4, <2>1 DEF Holds, Announcing, Saving, Moving, Terminalizing
      <3>2. /\ (th \notin CancelledOwed)' /\ (th \notin SucceededOwed)'
            /\ (th \notin Ending)'
            /\ th \in CancelledOwed <=> target[th] = "cancelled"
            /\ th \in SucceededOwed <=> target[th] = "succeeded"
            /\ th \in Ending <=> op[th] = "execute"
        BY <1>0, <1>1, <1>2, <1>4, <2>1, <3>1 DEF CancelledOwed, SucceededOwed, Ending,
           Saving, Moving, Terminalizing
      <3>3. \A o \in Threads : DecisionOK(o)'
        <4>1. DecisionOK(th)'
          BY <1>0, <1>1, <1>2, <1>4, <2>1, <3>0 DEF AccountsOK, DecisionOK, Moving, Saving,
             IsSink
        <4> QED BY <1>2, <2>1, <4>1, OthersDecided DEF ExecutorInv
      <3>4. \A o \in Threads : /\ Holds(o)' <=> Holds(o)
                               /\ Announcing(o)' <=> Announcing(o)
                               /\ o # th => pc'[o] = pc[o] /\ target'[o] = target[o]
        BY <1>2, <2>1, <3>1, OthersStay DEF Elsewhere
      <3>5. HolderOK'
        BY <1>2, <3>1, <3>4 DEF AccountsOK, HolderOK
      <3>6. ResultOK'
        BY <1>2, <3>1, <3>4 DEF AccountsOK, ResultOK
      <3>7. /\ emitted'[target[th]] = emitted[target[th]] + 1
            /\ \A e \in TaskStatus \ {target[th]} : emitted'[e] = emitted[e]
        BY <1>0, <1>1, <1>2 DEF TypeOK
      <3>8. /\ CancelledOwed' = CancelledOwed \ {th}
            /\ SucceededOwed' = SucceededOwed \ {th}
        BY <1>2, <2>1, <3>2, OthersOwe, OthersStay DEF CancelledOwed, SucceededOwed
      <3>9. ~escaped => OnceOK("cancelled", CancelledOwed)'
        <4>1. CASE target[th] = "cancelled"
          BY <1>0, <1>1, <1>2, <3>0, <3>2, <3>7, <3>8, <4>1 DEF AccountsOK, AnnouncedOK,
             OnceOK, TaskStatus, TypeOK, IsSink
        <4>2. CASE target[th] # "cancelled"
          BY <1>0, <1>2, <3>2, <3>7, <3>8, <4>2 DEF AccountsOK, AnnouncedOK, OnceOK,
             TaskStatus
        <4> QED BY <4>1, <4>2
      <3>10. OnceOK("succeeded", SucceededOwed)'
        <4>1. CASE target[th] = "succeeded"
          BY <1>0, <1>1, <1>2, <3>0, <3>2, <3>7, <3>8, <4>1 DEF AccountsOK, AnnouncedOK,
             OnceOK, TaskStatus, TypeOK, IsSink
        <4>2. CASE target[th] # "succeeded"
          BY <1>0, <1>2, <3>2, <3>7, <3>8, <4>2 DEF AccountsOK, AnnouncedOK, OnceOK,
             TaskStatus
        <4> QED BY <4>1, <4>2
      <3>11. AnnouncedOK'
        BY <1>2, <3>9, <3>10 DEF AnnouncedOK
      <3>12. StartsOK'
        BY <1>0, <1>1, <1>2, <1>4, <2>1, <3>2, <3>7, EndingChange DEF AccountsOK, StartsOK,
           TypeOK, TaskStatus, ResultStatus, Operation
      <3> QED BY <3>3, <3>5, <3>6, <3>11, <3>12 DEF AccountsOK
    <2> QED BY <1>2, <2>1, <2>2, <2>3, AccountedStep
  <1> QED BY <1>3, <1>4

\* Whoever's decision a write of the status does not overtake has none pending.
LEMMA NobodyDecides ==
    ASSUME NEW th \in Threads, Record(th), ~overtaken', status' # status
    PROVE  \A o \in Threads \ {th} : pc[o] \notin Deciding
  BY DEF Record

\* transition_to begins an execution.
LEMMA WriteRunning ==
    ASSUME ExecutorInv, NEW th \in Threads, WriteStatus(th), Record(th),
           target[th] = "running"
    PROVE  ExecutorInv'
  <1> USE NoneAssumption DEF WriteStatus
  <1>0. PlaceOK(th) /\ TypeOK /\ pc[th] = "write"
    BY DEF ExecutorInv
  <1>1. op[th] = "execute"
    BY <1>0 DEF PlaceOK, ExecutePlace, CancelPlace, BlockPlace, Operation, Moving,
       Terminalizing, Saving, TypeOK
  <1>2. /\ status' = "running" /\ pc'[th] = "forget"
        /\ UNCHANGED <<result, store, emitted, escaped, hasHandler, target, then, op,
                       previous, verdict>>
    BY <1>0 DEF TypeOK
  <1>3. TypeOK' /\ Elsewhere(th)
    BY <1>0, RecordType DEF TypeOK, Elsewhere, PC, TaskStatus
  <1>4. PlaceOK(th)' /\ Keeps(th)
    BY <1>0, <1>1, <1>2 DEF PlaceOK, ExecutePlace, Keeps, Holds, Harmless, Moving, Saving,
       Terminalizing
  <1>5. ASSUME AccountsOK, ~overtaken' PROVE AccountsOK'
    <2> USE <1>5
    <2>1. CanTransition(status, "running")
      BY <1>0, <1>1 DEF AccountsOK, DecisionOK, Moving
    <2>2. status \in {"pending", "failed", "blocked"} /\ ~IsSink(status) /\ ~escaped
      BY <1>0, <2>1 DEF AccountsOK, HolderOK, CanTransition, AllowedTransitions, TypeOK,
         TaskStatus, IsSink
    <2>3. \A o \in Threads \ {th} : pc[o] \notin Deciding
      BY <1>2, <2>2, NobodyDecides
    <2>4. \A o \in Threads \ {th} : ~Holds(o)'
      BY <1>2, <1>3, <2>2, <2>3, OthersStay, PendingHolders DEF AccountsOK, HolderOK,
         ExecutorInv
    <2>5. /\ Holds(th)' /\ ~Announcing(th)'
          /\ th \notin Ending /\ (th \notin Ending)'
      BY <1>0, <1>1, <1>2 DEF Holds, Announcing, Ending, Moving, Saving, Terminalizing,
         ResultStatus
    <2>6. \A o \in Threads : ~Announcing(o)'
      BY <1>2, <1>3, <2>2, <2>5, OthersStay, NothingOwed DEF ExecutorInv
    <2>7. \A o \in Threads : DecisionOK(o)'
      <3>1. DecisionOK(th)'
        BY <1>0, <1>1, <1>2 DEF PlaceOK, DecisionOK, Moving, Saving
      <3> QED BY <1>3, <2>2, <2>3, <3>1, OthersDecided DEF ExecutorInv
    <2>8. HolderOK' /\ ResultOK'
      BY <1>2, <2>2, <2>4, <2>5, <2>6 DEF HolderOK, ResultOK, Moving
    <2>9. CancelledOwed' = {} /\ SucceededOwed' = {}
      <3>1. \A o \in Threads : pc'[o] \in Saving => ~IsSink(target'[o])
        BY <1>2, <1>3, <2>2, NothingOwed DEF Elsewhere, IsSink, Saving, ExecutorInv
      <3> QED BY <1>2, <2>6, <3>1 DEF CancelledOwed, SucceededOwed, IsSink
    <2>10. AnnouncedOK'
      BY <1>2, <2>2, <2>9, NothingOwed DEF AnnouncedOK, OnceOK, ExecutorInv
    <2>11. StartsOK'
      BY <1>2, <1>3, <2>5, EndingChange DEF AccountsOK, StartsOK
    <2> QED BY <2>7, <2>8, <2>10, <2>11 DEF AccountsOK
  <1> QED BY <1>2, <1>3, <1>4, <1>5, AccountedStep

\* transition_to ends one.
LEMMA WriteEnd ==
    ASSUME ExecutorInv, NEW th \in Threads, WriteStatus(th), Record(th),
           op[th] = "execute", target[th] # "running"
    PROVE  ExecutorInv'
  <1> USE NoneAssumption DEF WriteStatus
  <1>0. PlaceOK(th) /\ TypeOK /\ pc[th] = "write"
    BY DEF ExecutorInv
  <1>1. target[th] \in ResultStatus /\ then[th] = "snapshot"
    BY <1>0 DEF PlaceOK, ExecutePlace, Moving, Terminalizing
  <1>2. /\ status' = target[th] /\ pc'[th] = "snapshot"
        /\ UNCHANGED <<result, store, emitted, escaped, hasHandler, target, then, op,
                       previous, verdict>>
    BY <1>0, <1>1 DEF TypeOK
  <1>3. TypeOK' /\ Elsewhere(th)
    BY <1>0, <1>1, RecordType DEF TypeOK, Elsewhere, PC, ResultStatus, TaskStatus
  <1>4. PlaceOK(th)' /\ Keeps(th)
    BY <1>0, <1>1, <1>2 DEF PlaceOK, ExecutePlace, Keeps, Holds, Harmless, Moving, Saving,
       Terminalizing, ResultStatus
  <1>5. ASSUME AccountsOK, ~overtaken' PROVE AccountsOK'
    <2> USE <1>5
    <2>1. Holds(th)
      BY <1>0, <1>1 DEF Holds, Terminalizing, Moving
    <2>2. CanTransition(status, target[th])
      BY <1>0 DEF AccountsOK, DecisionOK, Moving
    <2>3. status \in {"running", "pending"} /\ ~IsSink(status) /\ ~escaped
      BY <1>0, <2>1, <2>2 DEF AccountsOK, HolderOK, CanTransition, AllowedTransitions, IsSink
    <2>4. status' # status
      BY <1>1, <1>2, <2>3 DEF ResultStatus
    <2>5. \A o \in Threads \ {th} : pc[o] \notin Deciding
      BY <2>4, NobodyDecides
    <2>6. ~Holds(th)' /\ ~Announcing(th)' /\ th \in Ending /\ (th \in Ending)'
      BY <1>0, <1>1, <1>2 DEF Holds, Announcing, Ending, Terminalizing, Moving, Saving,
         ResultStatus
    <2>7. \A o \in Threads : ~Holds(o)'
      BY <1>2, <1>3, <2>1, <2>3, <2>5, <2>6, OthersStay, PendingHolders DEF AccountsOK,
         HolderOK, ExecutorInv
    <2>8. \A o \in Threads : DecisionOK(o)'
      <3>1. DecisionOK(th)'
        BY <1>0, <1>2 DEF PlaceOK, DecisionOK, Moving, Saving
      <3> QED BY <1>3, <2>3, <2>5, <3>1, OthersDecided DEF ExecutorInv
    <2>9. HolderOK' /\ ResultOK'
      <3>1. result = target[th] /\ \A o \in Threads : ~Announcing(o)'
        BY <1>0, <1>2, <1>3, <2>1, <2>3, <2>6, OthersStay, NothingOwed DEF AccountsOK,
           ResultOK, Moving, ExecutorInv
      <3> QED BY <1>1, <1>2, <2>3, <2>7, <3>1 DEF HolderOK, ResultOK
    <2>10. \A o \in Threads \ {th} : (o \notin CancelledOwed)' /\ (o \notin SucceededOwed)'
      <3>1. \A o \in Threads \ {th} : pc'[o] \in Saving => ~IsSink(target'[o])
        BY <1>3, <2>3, NothingOwed DEF Elsewhere, ExecutorInv
      <3>2. \A o \in Threads \ {th} : ~Announcing(o)'
        BY <1>2, <1>3, <2>3, NothingOwed, OthersStay DEF ExecutorInv
      <3> QED BY <2>7, <3>1, <3>2 DEF CancelledOwed, SucceededOwed, IsSink
    <2>11. /\ CancelledOwed' = IF target[th] = "cancelled" THEN {th} ELSE {}
           /\ SucceededOwed' = IF target[th] = "succeeded" THEN {th} ELSE {}
      BY <1>2, <2>6, <2>7, <2>10 DEF CancelledOwed, SucceededOwed, Saving
    <2>12. AnnouncedOK'
      BY <1>2, <2>3, <2>11, NothingOwed DEF AnnouncedOK, OnceOK, ExecutorInv
    <2>13. StartsOK'
      BY <1>2, <1>3, <2>6, EndingChange DEF AccountsOK, StartsOK
    <2> QED BY <2>8, <2>9, <2>12, <2>13 DEF AccountsOK
  <1> QED BY <1>2, <1>3, <1>4, <1>5, AccountedStep

\* Task.cancel moves the task, whoever has it.
LEMMA WriteCancelled ==
    ASSUME ExecutorInv, NEW th \in Threads, WriteStatus(th), Record(th), op[th] = "cancel"
    PROVE  ExecutorInv'
  <1> USE NoneAssumption DEF WriteStatus
  <1>0. PlaceOK(th) /\ TypeOK /\ pc[th] = "write"
    BY DEF ExecutorInv
  <1>1. target[th] = "cancelled" /\ then[th] \in {"settle", "snapshot"}
    BY <1>0 DEF PlaceOK, CancelPlace, Moving, Terminalizing
  <1>2. /\ status' = "cancelled" /\ pc'[th] = then[th]
        /\ UNCHANGED <<result, store, emitted, escaped, hasHandler, target, then, op,
                       previous, verdict>>
    BY <1>0, <1>1 DEF TypeOK
  <1>3. TypeOK' /\ Elsewhere(th)
    BY <1>0, <1>1, RecordType DEF TypeOK, Elsewhere, PC, TaskStatus
  <1>4. PlaceOK(th)' /\ Keeps(th)
    BY <1>0, <1>1, <1>2 DEF PlaceOK, CancelPlace, Keeps, Harmless, Moving, Saving,
       Terminalizing
  <1>5. ASSUME AccountsOK, ~overtaken' PROVE AccountsOK'
    <2> USE <1>5
    <2>1. previous[th] = status /\ then[th] = "settle" /\ ~IsSink(status)
      BY <1>0 DEF AccountsOK, DecisionOK, Moving
    <2>2. \A o \in Threads \ {th} : pc[o] \notin Deciding
      BY <1>2, <2>1, NobodyDecides DEF IsSink
    <2>3. \A o \in Threads : Holds(o)' <=> Holds(o)
      BY <1>1, <1>2, <1>3, OthersStay DEF Holds
    <2>4. ~Holds(th) /\ th \notin Ending /\ (th \notin Ending)'
      BY <1>2 DEF Holds, Ending
    <2>5. Announcing(th)' <=> status # "running"
      BY <1>0, <1>2, <2>1 DEF Announcing, Announces, TypeOK, TaskStatus, IsSink
    <2>6. \A o \in Threads \ {th} : ~Announcing(o)'
      BY <1>2, <1>3, <2>1, NothingOwed, OthersStay DEF ExecutorInv
    <2>7. \A o \in Threads : DecisionOK(o)'
      <3>1. DecisionOK(th)'
        BY <1>0, <1>2, <2>1 DEF AccountsOK, DecisionOK, Moving, Saving, IsSink
      <3> QED BY <1>3, <2>1, <2>2, <3>1, OthersDecided DEF ExecutorInv
    <2>8. \A o \in Threads : Holds(o) => status = "running"
      BY <2>1, <2>2, <2>4, PendingHolders DEF AccountsOK, HolderOK, ExecutorInv, IsSink
    <2>9. HolderOK'
      BY <1>2, <2>3, <2>8 DEF AccountsOK, HolderOK
    <2>10. ResultOK'
      <3>1. ~escaped /\ status = "running" => \E o \in Threads : Holds(o)
        BY DEF ExecutorInv, RunningHeld
      <3>2. \A o \in Threads \ {th} : pc'[o] = pc[o] /\ pc[o] \notin {"compare"} \cup Moving
        BY <1>3, <2>2 DEF Elsewhere, Moving, Deciding
      <3>3. \A o \in Threads : ~(Announcing(o)' /\ pc'[o] = "compare")
        BY <1>2, <2>1, <2>6
      <3>4. \A o \in Threads : Holds(o) /\ ~escaped /\ pc[o] # "forget" => result = None
        BY <2>4, <2>8, <3>2 DEF AccountsOK, ResultOK
      <3> QED BY <1>2, <2>3, <2>4, <2>5, <3>1, <3>2, <3>3, <3>4 DEF ResultOK
    <2>11. \A o \in Threads : pc'[o] \in Saving => ~IsSink(target'[o])
      BY <1>2, <1>3, <2>1, NothingOwed DEF Elsewhere, Saving, ExecutorInv
    <2>12. SucceededOwed' = {}
      BY <2>11 DEF SucceededOwed, IsSink
    <2>13. ~escaped => /\ \A a, b \in CancelledOwed' : a = b
                       /\ CancelledOwed' # {}
      <3>1. \A o \in Threads : (o \in CancelledOwed)' <=> Holds(o) \/ Announcing(o)'
        BY <1>2, <2>3, <2>11 DEF CancelledOwed, IsSink
      <3>2. CASE status = "running"
        BY <2>5, <2>6, <3>1, <3>2 DEF AccountsOK, HolderOK, CancelledOwed, ExecutorInv,
           RunningHeld
      <3>3. CASE status # "running"
        BY <2>5, <2>6, <2>8, <3>1, <3>3 DEF CancelledOwed
      <3> QED BY <3>2, <3>3
    <2>14. AnnouncedOK'
      BY <1>2, <2>1, <2>12, <2>13, NothingOwed DEF AnnouncedOK, OnceOK, ExecutorInv
    <2>15. StartsOK'
      BY <1>2, <1>3, <2>4, EndingChange DEF AccountsOK, StartsOK
    <2> QED BY <2>7, <2>9, <2>10, <2>14, <2>15 DEF AccountsOK
  <1> QED BY <1>2, <1>3, <1>4, <1>5, AccountedStep

\* mark_blocked moves a PENDING task, which nobody has.
LEMMA WriteBlocked ==
    ASSUME ExecutorInv, NEW th \in Threads, WriteStatus(th), Record(th), op[th] = "block"
    PROVE  ExecutorInv'
  <1> USE NoneAssumption DEF WriteStatus
  <1>0. PlaceOK(th) /\ TypeOK /\ pc[th] = "write"
    BY DEF ExecutorInv
  <1>1. target[th] = "blocked" /\ then[th] = "snapshot"
    BY <1>0 DEF PlaceOK, BlockPlace, Moving
  <1>2. /\ status' = "blocked" /\ pc'[th] = "snapshot"
        /\ UNCHANGED <<result, store, emitted, escaped, hasHandler, target, then, op,
                       previous, verdict>>
    BY <1>0, <1>1 DEF TypeOK
  <1>3. TypeOK' /\ Elsewhere(th)
    BY <1>0, <1>1, RecordType DEF TypeOK, Elsewhere, PC, TaskStatus
  <1>4. PlaceOK(th)' /\ Keeps(th)
    BY <1>0, <1>1, <1>2 DEF PlaceOK, BlockPlace, Keeps, Harmless, Moving, Saving
  <1>5. ASSUME AccountsOK, ~overtaken' PROVE AccountsOK'
    <2> USE <1>5
    <2>1. status = "pending" /\ ~IsSink(status) /\ ~escaped
      BY <1>0 DEF AccountsOK, DecisionOK, HolderOK, IsSink
    <2>2. \A o \in Threads \ {th} : pc[o] \notin Deciding
      BY <1>2, <2>1, NobodyDecides
    <2>3. /\ ~Holds(th) /\ ~Holds(th)' /\ ~Announcing(th)'
          /\ th \notin Ending /\ (th \notin Ending)'
      BY <1>2 DEF Holds, Announcing, Ending
    <2>4. \A o \in Threads : ~Holds(o) /\ ~Holds(o)' /\ ~Announcing(o) /\ ~Announcing(o)'
      BY <1>2, <1>3, <2>1, <2>2, <2>3, PendingHolders, NothingOwed, OthersStay DEF
         ExecutorInv
    <2>5. \A o \in Threads : DecisionOK(o)'
      <3>1. DecisionOK(th)'
        BY <1>0, <1>1, <1>2 DEF DecisionOK, Saving, IsSink
      <3> QED BY <1>3, <2>1, <2>2, <3>1, OthersDecided DEF ExecutorInv
    <2>6. HolderOK' /\ ResultOK'
      BY <1>2, <2>1, <2>4 DEF AccountsOK, HolderOK, ResultOK, ResultStatus
    <2>7. \A o \in Threads : pc'[o] \in Saving => ~IsSink(target'[o])
      BY <1>1, <1>2, <1>3, <2>1, NothingOwed DEF Elsewhere, Saving, IsSink, ExecutorInv
    <2>8. AnnouncedOK'
      BY <1>2, <2>1, <2>4, <2>7, NothingOwed DEF AnnouncedOK, OnceOK, CancelledOwed,
         SucceededOwed, IsSink, ExecutorInv
    <2>9. StartsOK'
      BY <1>2, <1>3, <2>3, EndingChange DEF AccountsOK, StartsOK
    <2> QED BY <2>5, <2>6, <2>8, <2>9 DEF AccountsOK
  <1> QED BY <1>2, <1>3, <1>4, <1>5, AccountedStep

LEMMA WriteStatusInv ==
    ASSUME ExecutorInv, NEW th \in Threads, WriteStatus(th), Record(th)
    PROVE  ExecutorInv'
  <1>1. op[th] \in Operation
    BY DEF WriteStatus, ExecutorInv, TypeOK, PlaceOK
  <1> QED BY <1>1, WriteRunning, WriteEnd, WriteCancelled, WriteBlocked DEF Operation

-----------------------------------------------------------------------------
(* The theorems.                                                           *)

LEMMA InitInv == Init => ExecutorInv
  <1> SUFFICES ASSUME Init PROVE ExecutorInv
    OBVIOUS
  <1> USE NoneAssumption DEF Init
  <1>1. TypeOK
    BY DEF TypeOK, Row, NoRow, PC, TaskStatus
  <1>2. \A th \in Threads : PlaceOK(th) /\ DecisionOK(th) /\ ~Holds(th) /\ ~Announcing(th)
    BY DEF PlaceOK, DecisionOK, Holds, Announcing, Operation, Saving
  <1>3. CancelledOwed = {} /\ SucceededOwed = {} /\ Ending = {}
    BY <1>2 DEF CancelledOwed, SucceededOwed, Ending, Saving, Operation
  <1>4. HolderOK /\ ResultOK /\ AnnouncedOK
    BY <1>2, <1>3 DEF HolderOK, ResultOK, AnnouncedOK, OnceOK, ResultStatus, TaskStatus
  <1>5. StartsOK
    BY <1>3, FS_EmptySet DEF StartsOK, TaskStatus
  <1>6. RunningHeld /\ SealedOK
    BY DEF RunningHeld, SealedOK
  <1> QED BY <1>1, <1>2, <1>4, <1>5, <1>6 DEF ExecutorInv, AccountsOK

LEMMA NextInv == ASSUME ExecutorInv, [Next]_vars PROVE ExecutorInv'
  <1>1. CASE Next
    <2>1. ASSUME NEW th \in Threads, Step(th), Record(th) PROVE ExecutorInv'
      BY <2>1, CheckInv, UnhandledInv, HandlerReturnsInv, HandlerCancelsInv,
         HandlerRaisesInv, HandlerEscapesInv, CaughtInv, RetryInv, BackoffInv, SetResultInv,
         CompareInv, TransitionCheckInv, WriteErrorInv, WriteStatusInv, ForgetInv,
         SnapshotInv, InsertInv, CommitInv, NotifyInv, CancelInv, PreviousInv,
         CancelTaskInv, SettleInv, BlockInv DEF Step
    <2> QED BY <1>1, <2>1, CallInv DEF Next
  <1>2. CASE UNCHANGED vars
    BY <1>2 DEF vars, history, ExecutorInv, TypeOK, RunningHeld, SealedOK, Outcome, Harmless,
       PlaceOK, ExecutePlace, CancelPlace, BlockPlace, AccountsOK, HolderOK, Holds, ResultOK,
       Announcing, CancelledOwed, SucceededOwed, OnceOK, AnnouncedOK, Ending, StartsOK,
       DecisionOK
  <1> QED BY <1>1, <1>2

\* However many threads execute, cancel and block a task at once, and wherever they are
\* switched, the executor's invariant holds.
THEOREM ExecutorInvariant == Spec => []ExecutorInv
  <1>1. Init => ExecutorInv
    BY InitInv
  <1>2. ExecutorInv /\ [Next]_vars => ExecutorInv'
    BY NextInv
  <1> QED BY <1>1, <1>2, PTL DEF Spec

LEMMA RestsEmpty ==
    ASSUME AtRest
    PROVE  /\ \A th \in Threads : ~Holds(th) /\ ~Announcing(th)
           /\ CancelledOwed = {} /\ SucceededOwed = {} /\ Ending = {}
  <1>1. \A th \in Threads : ~Holds(th) /\ ~Announcing(th)
    BY DEF AtRest, Holds, Announcing, Saving, Moving, Terminalizing
  <1> QED
    BY <1>1 DEF AtRest, CancelledOwed, SucceededOwed, Ending, Saving, Moving, Terminalizing

\* No overtaking leaves a task RUNNING behind.
THEOREM NothingRunning == Spec => []NothingLeftRunning
  <1>1. ExecutorInv => NothingLeftRunning
    BY RestsEmpty DEF ExecutorInv, RunningHeld, NothingLeftRunning, AtRest
  <1> QED BY <1>1, ExecutorInvariant, PTL

\* A task that has come to rest in a sink never changes again.
THEOREM Settled == Spec => []SettledForGood
  <1>1. ExecutorInv => SettledForGood
    BY DEF ExecutorInv, SealedOK, SettledForGood
  <1> QED BY <1>1, ExecutorInvariant, PTL

\* Status, result and events of a task at rest agree unless a thread was overtaken.
THEOREM OutcomesAgree == Spec => []OutcomeAgrees
  <1>1. ExecutorInv => OutcomeAgrees
    <2> SUFFICES ASSUME ExecutorInv, AtRest, ~overtaken PROVE OutcomeAgrees
      BY DEF OutcomeAgrees
    <2>1. AccountsOK /\ TypeOK /\ ~escaped
      BY DEF ExecutorInv, AtRest
    <2>2. result = IF status \in ResultStatus THEN status ELSE None
      BY <2>1, RestsEmpty DEF AccountsOK, ResultOK
    <2>3. /\ emitted["cancelled"] = IF status = "cancelled" THEN 1 ELSE 0
          /\ emitted["succeeded"] = IF status = "succeeded" THEN 1 ELSE 0
      BY <2>1, RestsEmpty DEF AccountsOK, AnnouncedOK, OnceOK
    <2>4. Cardinality(Ending) = 0
      BY RestsEmpty, FS_EmptySet
    <2>5. emitted["running"] <= emitted["succeeded"] + emitted["failed"]
                                  + emitted["cancelled"]
      BY <2>1, <2>4 DEF AccountsOK, StartsOK, TypeOK, TaskStatus
    <2> QED BY <2>2, <2>3, <2>5 DEF OutcomeAgrees
  <1> QED BY <1>1, ExecutorInvariant, PTL

\* What a call has returned of the task is true unless a thread was overtaken.
THEOREM VerdictsAreTrue == Spec => []VerdictsHold
  <1>1. ExecutorInv => VerdictsHold
    BY DEF ExecutorInv, AccountsOK, DecisionOK, VerdictsHold
  <1> QED BY <1>1, ExecutorInvariant, PTL

\* Only WriteStatus moves the task: along an edge of the table, or it overtakes someone.
LEMMA MovesAlongTable ==
    ASSUME ExecutorInv, [Next]_vars
    PROVE  [overtaken' \/ Ledger!Next]_status
  <1> SUFFICES ASSUME NEW th \in Threads, WriteStatus(th), Record(th), ~overtaken'
               PROVE  Ledger!Next
    BY DEF Next, Step, vars, Call, Check, Unhandled, HandlerReturns, HandlerCancels,
       HandlerRaises, HandlerEscapes, Caught, Retry, Backoff, SetResult, Compare,
       TransitionCheck, WriteError, Forget, Snapshot, Insert, Commit, Notify, Cancel,
       Previous, CancelTask, Settle, Block
  <1>1. PlaceOK(th) /\ DecisionOK(th) /\ pc[th] = "write" /\ TypeOK
    BY RecordType DEF ExecutorInv, AccountsOK, WriteStatus
  <1>2. CanTransition(status, target[th])
    BY <1>1 DEF PlaceOK, DecisionOK, ExecutePlace, CancelPlace, BlockPlace, Moving,
       Terminalizing, TypeOK, Operation, Saving, CanTransition, AllowedTransitions, IsSink,
       TaskStatus
  <1> QED
    BY <1>2 DEF WriteStatus, CanTransition, Ledger!Next, Ledger!AllowedTransitions,
       AllowedTransitions

\* The executor implements the ledger up to its first lost update.
THEOREM ImplementsLedger == Spec => FollowsLedger
  <1>1. Init => Ledger!Init
    BY DEF Init, Ledger!Init
  <1>2. ExecutorInv /\ [Next]_vars => [overtaken' \/ Ledger!Next]_status
    BY MovesAlongTable
  <1> QED BY <1>1, <1>2, ExecutorInvariant, PTL DEF Spec, FollowsLedger
=============================================================================
