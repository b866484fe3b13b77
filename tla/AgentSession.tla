---------------------------- MODULE AgentSession ----------------------------
(***************************************************************************)
(* ttasks.copilot.CopilotAgentSession: one SDK session shared by several   *)
(* calls.  In the "sync" mode the session lives on a background event loop *)
(* (__enter__/__exit__) and the calls are AGENT handler calls on worker    *)
(* threads, which post a coroutine to the loop and poll its future.  In    *)
(* the "async" mode (__aenter__/__aexit__) the calls await send_and_wait   *)
(* on the caller's own loop.  One step of a coroutine runs from an await   *)
(* to the next; a step of a thread from one shared access to the next.     *)
(* The SDK and the asyncio lock are modelled by what the code relies on.   *)
(***************************************************************************)
EXTENDS Naturals, Sequences, FiniteSets

CONSTANTS
    HandlerCalls,   \* the handler calls made in the sync mode, each once
    DirectCalls,    \* the calls of send_and_wait in the async mode, each once
    Modes,          \* the ways the session may be entered, out of "sync" and "async"
    None,           \* nobody
    MaxOpens        \* bound: how often the context is entered

Calls == HandlerCalls \cup DirectCalls

ASSUME SessionAssumption ==
    /\ Modes \subseteq {"sync", "async"}
    /\ None \notin Calls
    /\ MaxOpens \in Nat

VARIABLES
    mode,         \* how this session object is used
    ctx,          \* where the context manager is
    gen,          \* how often it has been entered; names the loop and the SDK session
    session,      \* _session, _send_lock and _active, set and cleared together; 0: None
    syncActive,   \* _sync_active
    loop,         \* _loop and its thread: "none", "up", "stopped" (run_forever returned)
    handlerLock,  \* holder of _handler_lock
    holder,       \* holder[g]: the coroutine inside the send lock of session g
    queue,        \* queue[g]: the coroutines waiting for it, first come first served
    call          \* one record per call, see NewCall

vars == <<mode, ctx, gen, session, syncActive, loop, handlerLock, holder, queue, call>>
contextVars == <<mode, ctx, gen, session, syncActive, loop>>
lockVars == <<holder, queue>>

Generations == 1 .. MaxOpens

\* pc is the caller's place, co the coroutine's, fut the future between them;
\* born and abortGen name the loop each was posted to, lock the send lock taken,
\* used the SDK session the turn runs on, target the one abort() was called on.
NewCall == [pc |-> "idle", co |-> "none", fut |-> "pending", cancelled |-> FALSE,
            born |-> 0, lock |-> 0, used |-> 0,
            abort |-> "none", abortGen |-> 0, target |-> 0]

Init ==
    /\ mode \in Modes
    /\ ctx = "out"
    /\ gen = 0
    /\ session = 0
    /\ syncActive = FALSE
    /\ loop = "none"
    /\ handlerLock = None
    /\ holder = [g \in Generations |-> None]
    /\ queue = [g \in Generations |-> <<>>]
    /\ call = [k \in Calls |-> NewCall]

-----------------------------------------------------------------------------
(* The context manager.                                                    *)

\* __enter__ starts the loop thread and waits for it; both then run _open_async.
Enter ==
    /\ ctx = "out"
    /\ session = 0
    /\ gen < MaxOpens
    /\ ctx' = "opening"
    /\ gen' = gen + 1
    /\ loop' = IF mode = "sync" THEN "up" ELSE loop
    /\ UNCHANGED <<mode, session, syncActive, handlerLock, lockVars, call>>

\* The client and the session are open: a new send lock comes with them.
Opened ==
    /\ ctx = "opening"
    /\ ctx' = "in"
    /\ session' = gen
    /\ syncActive' = (mode = "sync")
    /\ UNCHANGED <<mode, gen, loop, handlerLock, lockVars, call>>

OpenFails ==
    /\ ctx = "opening"
    /\ ctx' = IF mode = "sync" THEN "stopping" ELSE "out"
    /\ UNCHANGED <<mode, gen, session, syncActive, loop, handlerLock, lockVars, call>>

\* _close_async forgets the session before it awaits the SDK.
CloseBegins ==
    /\ ctx = "in"
    /\ ctx' = "closing"
    /\ session' = 0
    /\ UNCHANGED <<mode, gen, syncActive, loop, handlerLock, lockVars, call>>

\* The SDK's exits are over, with or without an error; __exit__ then stops the loop.
CloseEnds ==
    /\ ctx = "closing"
    /\ ctx' = IF mode = "sync" THEN "stopping" ELSE "out"
    /\ syncActive' = FALSE
    /\ UNCHANGED <<mode, gen, session, loop, handlerLock, lockVars, call>>

\* run_forever returns: what is still on this loop never runs again.
LoopStops ==
    /\ ctx = "stopping"
    /\ loop = "up"
    /\ loop' = "stopped"
    /\ UNCHANGED <<mode, ctx, gen, session, syncActive, handlerLock, lockVars, call>>

\* The thread's finally clause, and the join of __exit__ or of a failed __enter__.
LoopGone ==
    /\ loop = "stopped"
    /\ loop' = "none"
    /\ ctx' = "out"
    /\ UNCHANGED <<mode, gen, session, syncActive, handlerLock, lockVars, call>>

-----------------------------------------------------------------------------
(* send_and_wait, a coroutine on the loop.                                 *)

\* The loop the call's coroutine was posted to still runs.
Alive(k) == mode = "async" \/ (loop = "up" /\ call[k].born = gen)

\* The coroutine of call record r ends with `how', which a cancelled future does not take.
Finished(r, how) ==
    [r EXCEPT !.co = "done", !.fut = IF @ = "pending" THEN how ELSE @]

\* The turn starts on the session of NOW, under the lock fetched before the wait.
Sending(r, lock) == [r EXCEPT !.co = "sending", !.lock = lock, !.used = session]

\* Mutant: the lock is taken only when it is free, and the turn starts in any case.
BeginUnlocked(k, r) ==
    \/ /\ session = 0
       /\ call' = [call EXCEPT ![k] = Finished(r, "broken")]
       /\ UNCHANGED lockVars
    \/ /\ session # 0
       /\ holder' = [holder EXCEPT ![session] = k]
       /\ call' = [call EXCEPT ![k] = Sending(r, session)]
       /\ UNCHANGED queue

\* From the call to its first suspension; r is the call record with its caller's part done.
Begin(k, r) ==
    \/ /\ session = 0
       /\ call' = [call EXCEPT ![k] = Finished(r, "broken")]
       /\ UNCHANGED lockVars
    \/ /\ session # 0
       /\ holder[session] = None
       /\ queue[session] = <<>>
       /\ holder' = [holder EXCEPT ![session] = k]
       /\ call' = [call EXCEPT ![k] = Sending(r, session)]
       /\ UNCHANGED queue
    \/ /\ session # 0
       /\ holder[session] # None \/ queue[session] # <<>>
       /\ queue' = [queue EXCEPT ![session] = Append(@, k)]
       /\ call' = [call EXCEPT ![k] = [r EXCEPT !.co = "waiting", !.lock = session]]
       /\ UNCHANGED holder

\* The loop runs the posted coroutine, even when its future was cancelled meanwhile.
CoStart(k) ==
    /\ call[k].co = "posted"
    /\ Alive(k)
    /\ Begin(k, call[k])
    /\ UNCHANGED <<contextVars, handlerLock>>

\* The first waiter gets the free lock; it may find the session closed, or another one.
CoAcquire(k) ==
    LET g == call[k].lock IN
    /\ call[k].co = "waiting"
    /\ Alive(k)
    /\ holder[g] = None
    /\ Head(queue[g]) = k
    /\ queue' = [queue EXCEPT ![g] = Tail(@)]
    /\ IF session = 0
       THEN /\ call' = [call EXCEPT ![k] = Finished(@, "broken")]
            /\ UNCHANGED holder
       ELSE /\ call' = [call EXCEPT ![k] = Sending(@, g)]
            /\ holder' = [holder EXCEPT ![g] = k]
    /\ UNCHANGED <<contextVars, handlerLock>>

\* Mutant: self._send_lock.release() by hand: the lock of now, not the one that was acquired.
TurnEndsByHand(k) ==
    /\ call[k].co = "sending"
    /\ Alive(k)
    /\ \E how \in {"answer", "timeout", "broken"} :
           call' = [call EXCEPT ![k] = Finished(@, how)]
    /\ holder' = IF session = 0 THEN holder ELSE [holder EXCEPT ![session] = None]
    /\ UNCHANGED <<contextVars, handlerLock, queue>>

\* The SDK's send_and_wait ends: an answer, its own timeout, or another error.
TurnEnds(k) ==
    /\ call[k].co = "sending"
    /\ Alive(k)
    /\ \E how \in {"answer", "timeout", "broken"} :
           call' = [call EXCEPT ![k] = Finished(@, how)]
    /\ holder' = [holder EXCEPT ![call[k].lock] = None]
    /\ UNCHANGED <<contextVars, handlerLock, queue>>

\* A queue without k, which is in it at most once.
Without(s, k) ==
    IF \E i \in DOMAIN s : s[i] = k
    THEN LET n == CHOOSE i \in DOMAIN s : s[i] = k
         IN [i \in 1 .. Len(s) - 1 |-> s[IF i < n THEN i ELSE i + 1]]
    ELSE s

\* Mutant: the lock is released after a turn that returns or raises, not after a cancelled one.
CoCancelledKeepsLock(k) ==
    /\ call[k].fut = "cancelled"
    /\ call[k].co \in {"waiting", "sending"}
    /\ Alive(k)
    /\ call' = [call EXCEPT ![k] = Finished(@, "cancelled")]
    /\ queue' = [queue EXCEPT ![call[k].lock] = Without(@, k)]
    /\ UNCHANGED <<contextVars, handlerLock, holder>>

\* The cancellation of a cancelled future reaches the coroutine.
CoCancelled(k) ==
    LET g == call[k].lock IN
    /\ call[k].fut = "cancelled"
    /\ call[k].co \in {"waiting", "sending"}
    /\ Alive(k)
    /\ call' = [call EXCEPT ![k] = Finished(@, "cancelled")]
    /\ holder' = [holder EXCEPT ![g] = IF @ = k THEN None ELSE @]
    /\ queue' = [queue EXCEPT ![g] = Without(@, k)]
    /\ UNCHANGED <<contextVars, handlerLock>>

-----------------------------------------------------------------------------
(* The AGENT handler, on a worker thread.                                  *)

\* The task of call k is cancelled: the handler sees it in its context.
Cancel(k) ==
    /\ mode = "sync"
    /\ k \in HandlerCalls
    /\ call[k].pc # "ended"
    /\ call[k].cancelled = FALSE
    /\ call' = [call EXCEPT ![k].cancelled = TRUE]
    /\ UNCHANGED <<contextVars, handlerLock, lockVars>>

\* Before the lock: a cancelled task or an inactive session ends the call at once.
HandlerCalled(k) ==
    /\ mode = "sync"
    /\ k \in HandlerCalls
    /\ call[k].pc = "idle"
    /\ call' = [call EXCEPT ![k].pc =
                  IF call[k].cancelled \/ ~syncActive \/ loop = "none"
                  THEN "ended" ELSE "entered"]
    /\ UNCHANGED <<contextVars, handlerLock, lockVars>>

\* Under the lock: the session may have been left since.  A loop that is None or closed
\* raises, one that has stopped takes the coroutine and never runs it.
Post(k) ==
    /\ call[k].pc = "entered"
    /\ handlerLock = None
    /\ \/ /\ call[k].cancelled \/ loop \in {"none", "stopped"}
          /\ call' = [call EXCEPT ![k].pc = "ended"]
          /\ UNCHANGED handlerLock
       \/ /\ ~call[k].cancelled
          /\ loop # "none"
          /\ handlerLock' = k
          /\ call' = [call EXCEPT ![k] =
                        [@ EXCEPT !.pc = "polling", !.co = "posted", !.born = gen]]
    /\ UNCHANGED <<contextVars, lockVars>>

\* The caller returns or raises, and `with self._handler_lock' ends.
Leave(k) ==
    /\ call' = [call EXCEPT ![k].pc = "ended"]
    /\ handlerLock' = None
    /\ UNCHANGED <<contextVars, lockVars>>

\* future.result() returns or raises.  A TimeoutError of the turn is taken for a
\* poll that timed out (they are one class), and the loop goes on.
PollReturns(k) ==
    /\ call[k].pc = "polling"
    /\ call[k].fut \in {"answer", "broken", "cancelled"}
    /\ Leave(k)

\* Mutant: the abort is sent after the handler lock was released.
PollCancelledUnlocked(k) ==
    /\ call[k].pc = "polling"
    /\ call[k].cancelled
    /\ loop # "none"
    /\ call' = [call EXCEPT ![k] =
                  [@ EXCEPT !.fut = "cancelled", !.pc = "aborting", !.abort = "posted",
                            !.abortGen = gen]]
    /\ handlerLock' = None
    /\ UNCHANGED <<contextVars, lockVars>>

\* A poll that timed out finds the task cancelled: cancel the future, abort the session.
PollCancelled(k) ==
    LET cancelled == [call[k] EXCEPT !.fut = IF @ = "pending" THEN "cancelled" ELSE @]
    IN  /\ call[k].pc = "polling"
        /\ call[k].cancelled
        /\ \/ /\ loop # "none"
              /\ call' = [call EXCEPT ![k] =
                            [cancelled EXCEPT !.pc = "aborting", !.abort = "posted",
                                              !.abortGen = gen]]
              /\ UNCHANGED handlerLock
           \/ /\ loop # "up"
              /\ call' = [call EXCEPT ![k] = [cancelled EXCEPT !.pc = "ended"]]
              /\ handlerLock' = None
        /\ UNCHANGED <<contextVars, lockVars>>

\* _abort_active_async: without a session there is nothing to abort.
AbortStart(k) ==
    /\ call[k].abort = "posted"
    /\ loop = "up"
    /\ call[k].abortGen = gen
    /\ call' = [call EXCEPT ![k].abort = IF session = 0 THEN "done" ELSE "calling",
                            ![k].target = session]
    /\ UNCHANGED <<contextVars, handlerLock, lockVars>>

\* The SDK has carried the abort out, or refused it.
AbortEnds(k) ==
    /\ call[k].abort = "calling"
    /\ loop = "up"
    /\ call[k].abortGen = gen
    /\ call' = [call EXCEPT ![k].abort = "done"]
    /\ UNCHANGED <<contextVars, handlerLock, lockVars>>

\* _abort_active returns.
AbortReturns(k) ==
    /\ call[k].pc = "aborting"
    /\ call[k].abort = "done"
    /\ Leave(k)

\* Mutant: future.result() without a timeout.
AbortGivenUpNever(k) == FALSE

\* Five seconds have passed: the caller leaves and the abort may still land later.
AbortGivenUp(k) ==
    /\ call[k].pc = "aborting"
    /\ call[k].abort # "done"
    /\ Leave(k)

-----------------------------------------------------------------------------
(* Direct use in the async mode.                                           *)

Send(k) ==
    /\ mode = "async"
    /\ k \in DirectCalls
    /\ call[k].pc = "idle"
    /\ Begin(k, [call[k] EXCEPT !.pc = "awaiting"])
    /\ UNCHANGED <<contextVars, handlerLock>>

\* The asyncio task that awaits send_and_wait is cancelled.
SendCancelled(k) ==
    /\ call[k].pc = "awaiting"
    /\ call[k].fut = "pending"
    /\ call' = [call EXCEPT ![k].fut = "cancelled"]
    /\ UNCHANGED <<contextVars, handlerLock, lockVars>>

SendReturns(k) ==
    /\ call[k].pc = "awaiting"
    /\ call[k].co = "done"
    /\ call' = [call EXCEPT ![k].pc = "ended"]
    /\ UNCHANGED <<contextVars, handlerLock, lockVars>>

-----------------------------------------------------------------------------
CoroutineStep(k) ==
    CoStart(k) \/ CoAcquire(k) \/ TurnEnds(k) \/ CoCancelled(k) \/ AbortStart(k) \/ AbortEnds(k)

CallerStep(k) ==
    Post(k) \/ PollReturns(k) \/ PollCancelled(k) \/ AbortReturns(k) \/ AbortGivenUp(k)
        \/ SendReturns(k)

ContextStep == Opened \/ OpenFails \/ CloseEnds \/ LoopStops \/ LoopGone

Next ==
    \/ Enter \/ CloseBegins \/ ContextStep
    \/ \E k \in Calls :
           \/ CoroutineStep(k) \/ CallerStep(k)
           \/ HandlerCalled(k) \/ Send(k)
           \/ Cancel(k) \/ SendCancelled(k)

Spec == Init /\ [][Next]_vars

\* A running loop runs what is ready; the SDK ends a turn, by an answer or by the timeout it
\* was given; a thread gets to run, and gets a lock that stays free.
FairSpec ==
    /\ Spec
    /\ WF_vars(ContextStep)
    /\ \A k \in Calls : WF_vars(CoroutineStep(k)) /\ WF_vars(CallerStep(k))

-----------------------------------------------------------------------------
(* Properties.                                                             *)

CallState ==
    [pc : {"idle", "entered", "polling", "aborting", "awaiting", "ended"},
     co : {"none", "posted", "waiting", "sending", "done"},
     fut : {"pending", "answer", "timeout", "broken", "cancelled"},
     cancelled : BOOLEAN, born : 0 .. MaxOpens, lock : 0 .. MaxOpens,
     used : 0 .. MaxOpens, abort : {"none", "posted", "calling", "done"},
     abortGen : 0 .. MaxOpens, target : 0 .. MaxOpens]

TypeOK ==
    /\ mode \in Modes
    /\ ctx \in {"out", "opening", "in", "closing", "stopping"}
    /\ gen \in 0 .. MaxOpens
    /\ session \in {0, gen}
    /\ syncActive \in BOOLEAN
    /\ loop \in {"none", "up", "stopped"}
    /\ handlerLock \in Calls \cup {None}
    /\ holder \in [Generations -> Calls \cup {None}]
    /\ queue \in [Generations -> Seq(Calls)]
    /\ call \in [Calls -> CallState]

\* A send lock is held exactly by the call whose turn runs under it and queues exactly the
\* calls that wait for it, each once: cancelling, failing or closing at any moment neither
\* leaks a send lock nor leaves a dead waiter in front of the others.  The handler lock is
\* held exactly by the handler call that polls or aborts.
LocksAccounted ==
    /\ \A k \in Calls : handlerLock = k <=> call[k].pc \in {"polling", "aborting"}
    /\ \A k \in Calls, g \in Generations :
          /\ holder[g] = k <=> (call[k].co = "sending" /\ call[k].lock = g)
          /\ (\E i \in DOMAIN queue[g] : queue[g][i] = k)
                <=> (call[k].co = "waiting" /\ call[k].lock = g)
    /\ \A g \in Generations :
          \A i, j \in DOMAIN queue[g] : queue[g][i] = queue[g][j] => i = j

\* A coroutine that has reached the send lock took the one of a session that was opened;
\* in the sync mode it is the lock of the loop it runs on, and as long as there was only
\* one session, or the mode is sync, a turn runs on the session its lock belongs to.
TurnsOK ==
    \A k \in Calls :
        /\ call[k].pc \in {"idle", "entered"} => call[k].co = "none"
        /\ call[k].co \in {"waiting", "sending"} =>
              /\ call[k].lock \in 1 .. gen
              /\ mode = "sync" => call[k].lock = call[k].born
        /\ call[k].co = "sending" /\ (mode = "sync" \/ gen = 1) =>
              call[k].used = call[k].lock

\* The inductive invariant of a session's locks and turns.
SessionInv == TypeOK /\ LocksAccounted /\ TurnsOK

\* The SDK session never has two turns at once ("serializes turns with an async lock"),
\* whatever is cancelled, times out or is abandoned half-way.  A session entered again in
\* the async mode is left out: see the README.
OneTurn ==
    mode = "sync" \/ gen = 1 =>
        \A g \in Generations :
            Cardinality({k \in Calls : call[k].co = "sending" /\ call[k].used = g}) <= 1

\* While the handler call that asked for an abort waits for it, the abort finds no turn on
\* its session that another handler call still waits for.
AbortHitsOwnTurn ==
    \A k, j \in Calls :
        /\ call[k].abort = "calling" /\ call[k].pc \in {"polling", "aborting"}
        /\ call[j].co = "sending" /\ call[j].used = call[k].target
        /\ call[j].pc = "polling"
        => j = k

\* A handler call whose task is cancelled comes back, wherever its coroutine is: queued,
\* sending, over by timeout, or on a loop that the end of the context has stopped.
CancelledCallsEnd ==
    \A k \in Calls :
        (call[k].pc = "polling" /\ call[k].cancelled) ~> (call[k].pc = "ended")

\* A handler call that waits although its future will never end its wait: the turn ended in
\* a timeout, or the loop it was posted to is gone.
Stuck(k) == call[k].pc = "polling" /\ (call[k].fut = "timeout" \/ ~Alive(k))

\* Unless one such call holds the handler lock, every call comes back: no cancelled,
\* failed or abandoned call keeps a lock, and no wake-up is lost.
CallsEndUnlessStuck ==
    <>[](\A k \in Calls : ~Stuck(k)) =>
        \A k \in Calls :
            (call[k].pc \in {"entered", "polling", "awaiting"}) ~> (call[k].pc = "ended")

\* "Task timeout overrides the session default timeout for handler calls": a handler call
\* whose turn has reached its timeout comes back while the context is open.
TimeoutsEndCalls ==
    \A k \in Calls :
        (call[k].pc = "polling" /\ call[k].fut = "timeout" /\ ctx = "in")
            ~> (call[k].pc = "ended" \/ ctx # "in")
=============================================================================
