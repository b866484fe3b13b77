------------------------- MODULE AgentSessionProofs -------------------------
(***************************************************************************)
(* The locks of an agent session are accounted for in every reachable      *)
(* state, for any calls and any number of openings; from this follow that  *)
(* turns never overlap and that an abort hits the turn it was meant for.   *)
(***************************************************************************)
EXTENDS AgentSession, SequenceTheorems, FiniteSetTheorems, TLAPS

Distinct(s) == \A i, j \in DOMAIN s : s[i] = s[j] => i = j
Occurs(k, s) == \E i \in DOMAIN s : s[i] = k

-----------------------------------------------------------------------------
(* The queue of a send lock.                                               *)

\* Joining the queue at its end.
LEMMA AppendQueue ==
    ASSUME NEW S, NEW s \in Seq(S), NEW k \in S, Distinct(s), ~Occurs(k, s)
    PROVE  /\ Append(s, k) \in Seq(S)
           /\ Distinct(Append(s, k))
           /\ \A m : Occurs(m, Append(s, k)) <=> (m = k \/ Occurs(m, s))
  <1>1. /\ Append(s, k) \in Seq(S)
        /\ DOMAIN s = 1 .. Len(s)
        /\ DOMAIN Append(s, k) = 1 .. Len(s) + 1
        /\ Append(s, k)[Len(s) + 1] = k
        /\ \A i \in 1 .. Len(s) : Append(s, k)[i] = s[i]
        /\ Len(s) \in Nat
    OBVIOUS
  <1>2. Distinct(Append(s, k))
    BY <1>1 DEF Distinct, Occurs
  <1>3. \A m : Occurs(m, Append(s, k)) <=> (m = k \/ Occurs(m, s))
    BY <1>1 DEF Occurs
  <1> QED BY <1>1, <1>2, <1>3

\* Taking its head.
LEMMA TailQueue ==
    ASSUME NEW S, NEW s \in Seq(S), s # <<>>, Distinct(s)
    PROVE  /\ Tail(s) \in Seq(S)
           /\ Distinct(Tail(s))
           /\ \A m : Occurs(m, Tail(s)) <=> (m # Head(s) /\ Occurs(m, s))
  <1>1. /\ Tail(s) \in Seq(S)
        /\ Len(s) \in Nat \ {0}
        /\ Len(Tail(s)) = Len(s) - 1
        /\ DOMAIN s = 1 .. Len(s) /\ DOMAIN Tail(s) = 1 .. Len(s) - 1
        /\ Head(s) = s[1]
        /\ \A i \in 1 .. Len(s) - 1 : Tail(s)[i] = s[i + 1]
    BY HeadTailProperties
  <1>2. Distinct(Tail(s))
    BY <1>1 DEF Distinct
  <1>3. ASSUME NEW m PROVE Occurs(m, Tail(s)) <=> (m # Head(s) /\ Occurs(m, s))
    <2>1. ASSUME Occurs(m, Tail(s)) PROVE m # Head(s) /\ Occurs(m, s)
      BY <1>1, <2>1 DEF Occurs, Distinct
    <2>2. ASSUME m # Head(s), Occurs(m, s) PROVE Occurs(m, Tail(s))
      <3>1. PICK i \in 1 .. Len(s) : s[i] = m
        BY <1>1, <2>2 DEF Occurs
      <3>2. i - 1 \in 1 .. Len(s) - 1 /\ Tail(s)[i - 1] = m
        BY <1>1, <2>2, <3>1
      <3> QED BY <1>1, <3>2 DEF Occurs
    <2> QED BY <2>1, <2>2
  <1> QED BY <1>1, <1>2, <1>3

\* Leaving it from any place.
LEMMA WithoutQueue ==
    ASSUME NEW S, NEW s \in Seq(S), NEW k, Distinct(s)
    PROVE  /\ Without(s, k) \in Seq(S)
           /\ Distinct(Without(s, k))
           /\ \A m : Occurs(m, Without(s, k)) <=> (m # k /\ Occurs(m, s))
  <1>0. DOMAIN s = 1 .. Len(s) /\ Len(s) \in Nat /\ \A i \in 1 .. Len(s) : s[i] \in S
    OBVIOUS
  <1>1. CASE ~Occurs(k, s)
    <2>1. Without(s, k) = s
      BY <1>1 DEF Without, Occurs
    <2> QED BY <1>1, <2>1 DEF Occurs
  <1>2. CASE Occurs(k, s)
    <2> DEFINE n == CHOOSE i \in DOMAIN s : s[i] = k
               w == [i \in 1 .. Len(s) - 1 |-> s[IF i < n THEN i ELSE i + 1]]
    <2>1. n \in 1 .. Len(s) /\ s[n] = k
      BY <1>0, <1>2 DEF Occurs
    <2>9. Without(s, k) = w
      BY <1>2 DEF Without, Occurs
    <2> HIDE DEF n
    <2>6. w \in Seq(S) /\ DOMAIN w = 1 .. Len(s) - 1
          /\ \A i \in 1 .. Len(s) - 1 : w[i] = IF i < n THEN s[i] ELSE s[i + 1]
      <3>1. \A i \in 1 .. Len(s) - 1 : s[IF i < n THEN i ELSE i + 1] \in S
        BY <1>0
      <3>2. Len(s) - 1 \in Nat
        BY <1>0, <2>1
      <3> QED BY <3>1, <3>2
    <2> HIDE DEF w
    <2>7. Distinct(w)
      <3>1. ASSUME NEW i \in 1 .. Len(s) - 1, NEW j \in 1 .. Len(s) - 1, w[i] = w[j]
            PROVE  i = j
        <4> DEFINE x == IF i < n THEN i ELSE i + 1
                   y == IF j < n THEN j ELSE j + 1
        <4>1. x \in DOMAIN s /\ y \in DOMAIN s
          BY <1>0, <2>1
        <4>2. w[i] = s[x] /\ w[j] = s[y]
          BY <2>6
        <4>3. x = y
          BY <3>1, <4>1, <4>2 DEF Distinct
        <4> QED BY <1>0, <2>1, <4>3
      <3> QED BY <2>6, <3>1 DEF Distinct
    <2>8. ASSUME NEW m PROVE Occurs(m, w) <=> (m # k /\ Occurs(m, s))
      <3>1. ASSUME Occurs(m, w) PROVE m # k /\ Occurs(m, s)
        BY <1>0, <2>1, <2>6, <3>1 DEF Occurs, Distinct
      <3>2. ASSUME m # k, Occurs(m, s) PROVE Occurs(m, w)
        <4>1. PICK i \in 1 .. Len(s) : s[i] = m
          BY <1>0, <3>2 DEF Occurs
        <4>2. CASE i < n
          BY <1>0, <2>1, <2>6, <4>1, <4>2 DEF Occurs
        <4>3. CASE i > n
          <5>1. i - 1 \in 1 .. Len(s) - 1 /\ w[i - 1] = m
            BY <1>0, <2>1, <2>6, <4>1, <4>3
          <5> QED BY <2>6, <5>1 DEF Occurs
        <4> QED BY <1>0, <2>1, <3>2, <4>1, <4>2, <4>3
      <3> QED BY <3>1, <3>2
    <2> QED BY <2>6, <2>7, <2>8, <2>9
  <1> QED BY <1>1, <1>2

-----------------------------------------------------------------------------
(* The inductive invariant.                                                *)

LEMMA InitInv == Init => SessionInv
  <1> SUFFICES ASSUME Init PROVE SessionInv
    OBVIOUS
  <1>1. TypeOK
    <2>1. NewCall \in CallState
      BY SessionAssumption DEF NewCall, CallState
    <2>2. <<>> \in Seq(Calls)
      OBVIOUS
    <2>3. queue \in [Generations -> Seq(Calls)] /\ holder \in [Generations -> Calls \cup {None}]
      BY <2>2 DEF Init
    <2>4. call \in [Calls -> CallState]
      BY <2>1 DEF Init
    <2>5. gen \in 0 .. MaxOpens /\ session \in {0, gen}
      BY SessionAssumption DEF Init
    <2> QED BY <2>3, <2>4, <2>5 DEF Init, TypeOK
  <1>2. LocksAccounted
    BY SessionAssumption DEF Init, LocksAccounted, NewCall
  <1>3. TurnsOK
    BY DEF Init, TurnsOK, NewCall
  <1> QED BY <1>1, <1>2, <1>3 DEF SessionInv

\* The steps of the context manager move no call and no lock.
LEMMA ContextInv ==
    ASSUME SessionInv, Enter \/ CloseBegins \/ ContextStep
    PROVE  SessionInv'
  <1> USE DEF SessionInv
  <1>1. /\ UNCHANGED <<mode, handlerLock, holder, queue, call>>
        /\ gen' = gen \/ gen' = gen + 1
    BY DEF Enter, CloseBegins, ContextStep, Opened, OpenFails, CloseEnds, LoopStops,
           LoopGone, lockVars
  <1>2. TypeOK'
    <2>1. /\ ctx' \in {"out", "opening", "in", "closing", "stopping"}
          /\ syncActive' \in BOOLEAN /\ loop' \in {"none", "up", "stopped"}
      BY DEF TypeOK, Enter, CloseBegins, ContextStep, Opened, OpenFails, CloseEnds,
             LoopStops, LoopGone
    <2>2. gen' \in 0 .. MaxOpens /\ session' \in {0, gen'}
      BY SessionAssumption DEF TypeOK, Enter, CloseBegins, ContextStep, Opened, OpenFails,
             CloseEnds, LoopStops, LoopGone
    <2> QED BY <1>1, <2>1, <2>2 DEF TypeOK
  <1>3. LocksAccounted'
    BY <1>1 DEF LocksAccounted
  <1>4. TurnsOK'
    <2>1. ASSUME gen' = gen + 1, NEW k \in Calls, call[k].co = "sending", mode # "sync",
                 gen' = 1
          PROVE  FALSE
      BY <2>1 DEF TurnsOK, TypeOK
    <2> QED BY <1>1, <2>1 DEF TurnsOK, TypeOK
  <1> QED BY <1>2, <1>3, <1>4

\* A step of one call that touches neither its coroutine nor a lock.
LEMMA QuietInv ==
    ASSUME SessionInv, UNCHANGED <<contextVars, handlerLock, lockVars>>,
           NEW k \in Calls, NEW r \in CallState,
           call' = [call EXCEPT ![k] = r],
           r.co = call[k].co \/ (call[k].co \in {"none", "posted"} /\ r.co = "done"),
           r.lock = call[k].lock, r.born = call[k].born, r.used = call[k].used,
           r.pc \in {"polling", "aborting"} <=> call[k].pc \in {"polling", "aborting"},
           r.pc \in {"idle", "entered"} => r.co = "none"
    PROVE  SessionInv'
  <1>1. TypeOK'
    BY DEF SessionInv, TypeOK, contextVars, lockVars
  <1>2. \A j \in Calls :
           /\ call'[j].pc \in {"polling", "aborting"} <=> call[j].pc \in {"polling", "aborting"}
           /\ call'[j].lock = call[j].lock /\ call'[j].born = call[j].born
           /\ call'[j].used = call[j].used
           /\ call'[j].co = "waiting" <=> call[j].co = "waiting"
           /\ call'[j].co = "sending" <=> call[j].co = "sending"
           /\ call'[j].pc \in {"idle", "entered"} => call'[j].co = "none"
    BY DEF SessionInv, TypeOK, TurnsOK
  <1>3. LocksAccounted'
    BY <1>2 DEF SessionInv, LocksAccounted, contextVars, lockVars
  <1>4. TurnsOK'
    BY <1>2 DEF SessionInv, TurnsOK, contextVars, lockVars
  <1> QED BY <1>1, <1>3, <1>4 DEF SessionInv

\* What a step that ends, starts or queues a turn must establish: call k moves to the
\* record r, and the holders and the queues of the send locks follow it.
CallMoved(k, r) ==
    /\ UNCHANGED <<contextVars, handlerLock>>
    /\ call' = [call EXCEPT ![k] = r]
    /\ r.pc \in {"polling", "aborting"} <=> call[k].pc \in {"polling", "aborting"}
    /\ r.pc \notin {"idle", "entered"}
    /\ r.co \in {"waiting", "sending"} =>
          /\ r.lock \in 1 .. gen
          /\ mode = "sync" => r.lock = r.born
    /\ r.co = "sending" /\ (mode = "sync" \/ gen = 1) => r.used = r.lock

HolderMoved(k, r) ==
    /\ holder' \in [Generations -> Calls \cup {None}]
    /\ \A g \in Generations :
          /\ holder'[g] = k <=> (r.co = "sending" /\ r.lock = g)
          /\ \A j \in Calls \ {k} : holder'[g] = j <=> holder[g] = j

QueueMoved(k, r) ==
    /\ queue' \in [Generations -> Seq(Calls)]
    /\ \A g \in Generations :
          /\ Distinct(queue'[g])
          /\ Occurs(k, queue'[g]) <=> (r.co = "waiting" /\ r.lock = g)
          /\ \A j \in Calls \ {k} : Occurs(j, queue'[g]) <=> Occurs(j, queue[g])

LEMMA MoveInv ==
    ASSUME SessionInv, NEW k \in Calls, NEW r \in CallState,
           CallMoved(k, r), HolderMoved(k, r), QueueMoved(k, r)
    PROVE  SessionInv'
  <1>1. TypeOK'
    BY DEF SessionInv, TypeOK, contextVars, CallMoved, HolderMoved, QueueMoved
  <1>2. call'[k] = r /\ \A j \in Calls \ {k} : call'[j] = call[j]
    BY DEF SessionInv, TypeOK, CallMoved
  <1>3. LocksAccounted'
    <2>1. \A j \in Calls : handlerLock' = j <=> call'[j].pc \in {"polling", "aborting"}
      BY <1>2 DEF SessionInv, LocksAccounted, CallMoved
    <2>2. \A j \in Calls, g \in Generations :
             holder'[g] = j <=> (call'[j].co = "sending" /\ call'[j].lock = g)
      BY <1>2 DEF SessionInv, LocksAccounted, HolderMoved
    <2>3. \A j \in Calls, g \in Generations :
             Occurs(j, queue'[g]) <=> (call'[j].co = "waiting" /\ call'[j].lock = g)
      BY <1>2 DEF SessionInv, LocksAccounted, Occurs, QueueMoved
    <2>4. \A g \in Generations : Distinct(queue'[g])
      BY DEF QueueMoved
    <2> QED BY <2>1, <2>2, <2>3, <2>4 DEF LocksAccounted, Occurs, Distinct
  <1>4. TurnsOK'
    BY <1>2 DEF SessionInv, TurnsOK, contextVars, CallMoved
  <1> QED BY <1>1, <1>3, <1>4 DEF SessionInv

\* The queues and locks in the form the lemmas about them use.
LEMMA Queues ==
    ASSUME SessionInv
    PROVE  /\ holder \in [Generations -> Calls \cup {None}]
           /\ queue \in [Generations -> Seq(Calls)]
           /\ \A g \in Generations : queue[g] \in Seq(Calls) /\ Distinct(queue[g])
           /\ \A j \in Calls, g \in Generations :
                 /\ holder[g] = j <=> (call[j].co = "sending" /\ call[j].lock = g)
                 /\ Occurs(j, queue[g]) <=> (call[j].co = "waiting" /\ call[j].lock = g)
  BY DEF SessionInv, TypeOK, LocksAccounted, Distinct, Occurs

\* The send lock of now belongs to the latest session.
LEMMA SessionNow ==
    ASSUME SessionInv, session # 0
    PROVE  session = gen /\ session \in Generations /\ session \in 1 .. gen
                /\ session \in 0 .. MaxOpens
  BY SessionAssumption DEF SessionInv, TypeOK, Generations

\* A call that leaves the queues as they are was in none, and is in none.
LEMMA SameQueues ==
    ASSUME SessionInv, UNCHANGED queue, NEW k \in Calls, NEW r,
           call[k].co # "waiting", r.co # "waiting"
    PROVE  QueueMoved(k, r)
  BY Queues DEF QueueMoved

\* And likewise for the locks.
LEMMA SameHolders ==
    ASSUME SessionInv, UNCHANGED holder, NEW k \in Calls, NEW r,
           call[k].co # "sending", r.co # "sending"
    PROVE  HolderMoved(k, r)
  BY Queues DEF HolderMoved

LEMMA FinishedFields ==
    ASSUME NEW r \in CallState, NEW how \in {"answer", "timeout", "broken", "cancelled"}
    PROVE  /\ Finished(r, how) \in CallState
           /\ Finished(r, how).pc = r.pc /\ Finished(r, how).co = "done"
           /\ Finished(r, how).lock = r.lock /\ Finished(r, how).born = r.born
           /\ Finished(r, how).used = r.used
  BY DEF Finished, CallState

LEMMA SendingFields ==
    ASSUME NEW r \in CallState, NEW lock \in 0 .. MaxOpens, session \in 0 .. MaxOpens
    PROVE  /\ Sending(r, lock) \in CallState
           /\ Sending(r, lock).pc = r.pc /\ Sending(r, lock).co = "sending"
           /\ Sending(r, lock).lock = lock /\ Sending(r, lock).born = r.born
           /\ Sending(r, lock).used = session
  BY DEF Sending, CallState

LEMMA BeginInv ==
    ASSUME SessionInv, UNCHANGED <<contextVars, handlerLock>>,
           NEW k \in Calls, NEW r \in CallState, Begin(k, r),
           call[k].co \in {"none", "posted"}, r.co = call[k].co,
           r.pc \in {"polling", "aborting"} <=> call[k].pc \in {"polling", "aborting"},
           r.pc \notin {"idle", "entered"},
           mode = "sync" => r.born = gen
    PROVE  SessionInv'
  <1>1. CASE session = 0
    <2> DEFINE f == Finished(r, "broken")
    <2>1. f \in CallState /\ f.pc = r.pc /\ f.co = "done"
      BY FinishedFields
    <2>2. call' = [call EXCEPT ![k] = f] /\ UNCHANGED holder /\ UNCHANGED queue
      BY <1>1 DEF Begin, lockVars
    <2> HIDE DEF f
    <2>3. CallMoved(k, f)
      BY <2>1, <2>2 DEF CallMoved
    <2>4. HolderMoved(k, f)
      BY <2>1, <2>2, SameHolders
    <2>5. QueueMoved(k, f)
      BY <2>1, <2>2, SameQueues
    <2> QED BY <2>1, <2>3, <2>4, <2>5, MoveInv
  <1>2. CASE session # 0 /\ holder[session] = None /\ queue[session] = <<>>
    <2> DEFINE f == Sending(r, session)
    <2>0. session = gen /\ session \in Generations /\ session \in 1 .. gen
          /\ session \in 0 .. MaxOpens
      BY <1>2, SessionNow
    <2>1. /\ f \in CallState /\ f.pc = r.pc /\ f.co = "sending"
          /\ f.lock = session /\ f.used = session /\ f.born = r.born
      BY <2>0, SendingFields
    <2>2. /\ call' = [call EXCEPT ![k] = f]
          /\ holder' = [holder EXCEPT ![session] = k] /\ UNCHANGED queue
      BY <1>2 DEF Begin
    <2> HIDE DEF f
    <2>3. CallMoved(k, f)
      BY <2>0, <2>1, <2>2 DEF CallMoved
    <2>4. HolderMoved(k, f)
      BY <1>2, <2>0, <2>1, <2>2, Queues, SessionAssumption DEF HolderMoved
    <2>5. QueueMoved(k, f)
      BY <2>1, <2>2, SameQueues
    <2> QED BY <2>1, <2>3, <2>4, <2>5, MoveInv
  <1>3. CASE session # 0 /\ (holder[session] # None \/ queue[session] # <<>>)
    <2> DEFINE f == [r EXCEPT !.co = "waiting", !.lock = session]
    <2>0. session = gen /\ session \in Generations /\ session \in 1 .. gen
          /\ session \in 0 .. MaxOpens
      BY <1>3, SessionNow
    <2>1. /\ f \in CallState /\ f.pc = r.pc /\ f.co = "waiting"
          /\ f.lock = session /\ f.born = r.born
      BY <2>0 DEF CallState
    <2>2. /\ call' = [call EXCEPT ![k] = f]
          /\ queue' = [queue EXCEPT ![session] = Append(@, k)] /\ UNCHANGED holder
      BY <1>3 DEF Begin
    <2> HIDE DEF f
    <2>3. CallMoved(k, f)
      BY <2>0, <2>1, <2>2 DEF CallMoved
    <2>4. HolderMoved(k, f)
      BY <2>1, <2>2, SameHolders
    <2>5. /\ Append(queue[session], k) \in Seq(Calls)
          /\ Distinct(Append(queue[session], k))
          /\ \A m : Occurs(m, Append(queue[session], k)) <=> (m = k \/ Occurs(m, queue[session]))
      BY <2>0, Queues, AppendQueue
    <2>6. QueueMoved(k, f)
      BY <2>0, <2>1, <2>2, <2>5, Queues DEF QueueMoved
    <2> QED BY <2>1, <2>3, <2>4, <2>6, MoveInv
  <1> QED BY <1>1, <1>2, <1>3

LEMMA CoAcquireInv ==
    ASSUME SessionInv, NEW k \in Calls, CoAcquire(k)
    PROVE  SessionInv'
  <1> DEFINE g == call[k].lock
  <1>0. /\ UNCHANGED <<contextVars, handlerLock>>
        /\ call[k].co = "waiting" /\ call[k] \in CallState
        /\ call[k].pc \notin {"idle", "entered"}
        /\ g \in 1 .. gen /\ g \in Generations /\ g \in 0 .. MaxOpens
        /\ mode = "sync" => g = call[k].born
    <2>1. UNCHANGED <<contextVars, handlerLock>> /\ call[k].co = "waiting"
      BY DEF CoAcquire
    <2>2. /\ g \in 1 .. gen /\ (mode = "sync" => g = call[k].born)
          /\ call[k].pc \notin {"idle", "entered"}
      BY <2>1 DEF SessionInv, TurnsOK
    <2>3. call[k] \in CallState /\ gen \in 0 .. MaxOpens
      BY DEF SessionInv, TypeOK
    <2>4. g \in Generations /\ g \in 0 .. MaxOpens
      BY <2>2, <2>3, SessionAssumption DEF Generations
    <2> QED BY <2>1, <2>2, <2>3, <2>4
  <1>1. /\ holder[g] = None /\ Head(queue[g]) = k
        /\ queue' = [queue EXCEPT ![g] = Tail(@)]
    BY DEF CoAcquire
  <1>2. Occurs(k, queue[g]) /\ queue[g] # <<>>
    BY <1>0, Queues DEF Occurs
  <1>3. /\ Tail(queue[g]) \in Seq(Calls)
        /\ Distinct(Tail(queue[g]))
        /\ \A m : Occurs(m, Tail(queue[g])) <=> (m # k /\ Occurs(m, queue[g]))
    BY <1>0, <1>1, <1>2, Queues, TailQueue
  <1>4. ASSUME NEW r, r.co # "waiting" PROVE QueueMoved(k, r)
    BY <1>0, <1>1, <1>3, <1>4, Queues DEF QueueMoved
  <1>5. CASE session = 0
    <2> DEFINE f == Finished(call[k], "broken")
    <2>1. f \in CallState /\ f.pc = call[k].pc /\ f.co = "done"
      BY <1>0, FinishedFields
    <2>2. call' = [call EXCEPT ![k] = f] /\ UNCHANGED holder
      BY <1>5 DEF CoAcquire
    <2> HIDE DEF f
    <2>3. CallMoved(k, f)
      BY <1>0, <2>1, <2>2 DEF CallMoved
    <2>4. HolderMoved(k, f)
      BY <1>0, <2>1, <2>2, SameHolders
    <2> QED BY <1>4, <2>1, <2>3, <2>4, MoveInv
  <1>6. CASE session # 0
    <2> DEFINE f == Sending(call[k], g)
    <2>0. session = gen /\ session \in 0 .. MaxOpens /\ (gen = 1 => g = session)
      BY <1>0, <1>6, SessionNow
    <2>1. /\ f \in CallState /\ f.pc = call[k].pc /\ f.co = "sending"
          /\ f.lock = g /\ f.used = session /\ f.born = call[k].born
      BY <1>0, <2>0, SendingFields
    <2>2. call' = [call EXCEPT ![k] = f] /\ holder' = [holder EXCEPT ![g] = k]
      BY <1>6 DEF CoAcquire
    <2> HIDE DEF f
    <2>3. mode = "sync" => g = session
      BY <1>0, <2>0 DEF CoAcquire, Alive
    <2>4. CallMoved(k, f)
      BY <1>0, <2>0, <2>1, <2>2, <2>3 DEF CallMoved
    <2>5. HolderMoved(k, f)
      BY <1>0, <1>1, <2>1, <2>2, Queues, SessionAssumption DEF HolderMoved
    <2> QED BY <1>4, <2>1, <2>4, <2>5, MoveInv
  <1> QED BY <1>5, <1>6

LEMMA TurnEndsInv ==
    ASSUME SessionInv, NEW k \in Calls, TurnEnds(k)
    PROVE  SessionInv'
  <1> DEFINE g == call[k].lock
  <1>0. /\ UNCHANGED <<contextVars, handlerLock>> /\ UNCHANGED queue
        /\ call[k].co = "sending" /\ call[k] \in CallState
        /\ call[k].pc \notin {"idle", "entered"}
        /\ g \in Generations /\ holder' = [holder EXCEPT ![g] = None]
    BY SessionAssumption
    DEF TurnEnds, SessionInv, TypeOK, TurnsOK, Generations
  <1>1. PICK how \in {"answer", "timeout", "broken"} :
           call' = [call EXCEPT ![k] = Finished(call[k], how)]
    BY DEF TurnEnds
  <1> DEFINE f == Finished(call[k], how)
  <1>2. f \in CallState /\ f.pc = call[k].pc /\ f.co = "done"
    BY <1>0, FinishedFields
  <1>3. call' = [call EXCEPT ![k] = f]
    BY <1>1
  <1> HIDE DEF f
  <1>4. CallMoved(k, f)
    BY <1>0, <1>2, <1>3 DEF CallMoved
  <1>5. HolderMoved(k, f)
    <2>1. holder[g] = k
      BY <1>0, Queues
    <2> QED BY <1>0, <1>2, <2>1, Queues, SessionAssumption DEF HolderMoved
  <1>6. QueueMoved(k, f)
    BY <1>0, <1>2, SameQueues
  <1> QED BY <1>2, <1>4, <1>5, <1>6, MoveInv

LEMMA CoCancelledInv ==
    ASSUME SessionInv, NEW k \in Calls, CoCancelled(k)
    PROVE  SessionInv'
  <1> DEFINE g == call[k].lock
             f == Finished(call[k], "cancelled")
  <1>0. /\ UNCHANGED <<contextVars, handlerLock>>
        /\ call[k].co \in {"waiting", "sending"} /\ call[k] \in CallState
        /\ call[k].pc \notin {"idle", "entered"}
        /\ g \in Generations
        /\ holder' = [holder EXCEPT ![g] = IF @ = k THEN None ELSE @]
        /\ queue' = [queue EXCEPT ![g] = Without(@, k)]
        /\ call' = [call EXCEPT ![k] = f]
    <2>1. /\ UNCHANGED <<contextVars, handlerLock>>
          /\ call[k].co \in {"waiting", "sending"}
          /\ holder' = [holder EXCEPT ![g] = IF @ = k THEN None ELSE @]
          /\ queue' = [queue EXCEPT ![g] = Without(@, k)]
          /\ call' = [call EXCEPT ![k] = f]
      BY DEF CoCancelled
    <2>2. g \in 1 .. gen /\ call[k].pc \notin {"idle", "entered"}
      BY <2>1 DEF SessionInv, TurnsOK
    <2>3. call[k] \in CallState /\ gen \in 0 .. MaxOpens
      BY DEF SessionInv, TypeOK
    <2>4. g \in Generations
      BY <2>2, <2>3, SessionAssumption DEF Generations
    <2> QED BY <2>1, <2>2, <2>3, <2>4
  <1>1. f \in CallState /\ f.pc = call[k].pc /\ f.co = "done"
    BY <1>0, FinishedFields
  <1> HIDE DEF f
  <1>2. CallMoved(k, f)
    BY <1>0, <1>1 DEF CallMoved
  <1>3. HolderMoved(k, f)
    BY <1>0, <1>1, Queues, SessionAssumption DEF HolderMoved
  <1>4. /\ Without(queue[g], k) \in Seq(Calls)
        /\ Distinct(Without(queue[g], k))
        /\ \A m : Occurs(m, Without(queue[g], k)) <=> (m # k /\ Occurs(m, queue[g]))
    BY <1>0, Queues, WithoutQueue
  <1>5. QueueMoved(k, f)
    BY <1>0, <1>1, <1>4, Queues DEF QueueMoved
  <1> QED BY <1>1, <1>2, <1>3, <1>5, MoveInv

-----------------------------------------------------------------------------
(* The steps of the callers.                                               *)

\* A step that takes or releases the handler lock, and no send lock.
LEMMA HandlerInv ==
    ASSUME SessionInv, UNCHANGED <<contextVars, lockVars>>,
           NEW k \in Calls, NEW r \in CallState,
           call' = [call EXCEPT ![k] = r],
           \/ r.co = call[k].co /\ r.born = call[k].born
           \/ call[k].co = "none" /\ r.co = "posted",
           r.lock = call[k].lock, r.used = call[k].used,
           r.pc \notin {"idle", "entered"},
           handlerLock' \in Calls \cup {None},
           handlerLock' = k <=> r.pc \in {"polling", "aborting"},
           \A j \in Calls \ {k} : handlerLock' = j <=> handlerLock = j
    PROVE  SessionInv'
  <1>1. TypeOK'
    BY DEF SessionInv, TypeOK, contextVars, lockVars
  <1>2. call'[k] = r /\ \A j \in Calls \ {k} : call'[j] = call[j]
    BY DEF SessionInv, TypeOK
  <1>3. \A j \in Calls :
           /\ call'[j].lock = call[j].lock /\ call'[j].used = call[j].used
           /\ call'[j].co = "waiting" <=> call[j].co = "waiting"
           /\ call'[j].co = "sending" <=> call[j].co = "sending"
           /\ call[j].co \in {"waiting", "sending"} => call'[j].born = call[j].born
           /\ call'[j].pc \in {"idle", "entered"} => call'[j].co = "none"
    BY <1>2 DEF SessionInv, TurnsOK
  <1>4. \A j \in Calls : handlerLock' = j <=> call'[j].pc \in {"polling", "aborting"}
    BY <1>2 DEF SessionInv, LocksAccounted
  <1>5. LocksAccounted'
    BY <1>3, <1>4 DEF SessionInv, LocksAccounted, lockVars
  <1>6. TurnsOK'
    BY <1>3 DEF SessionInv, TurnsOK, contextVars
  <1> QED BY <1>1, <1>5, <1>6 DEF SessionInv

LEMMA LeaveInv ==
    ASSUME SessionInv, NEW k \in Calls, call[k].pc \in {"polling", "aborting"}, Leave(k)
    PROVE  SessionInv'
  <1> DEFINE r == [call[k] EXCEPT !.pc = "ended"]
  <1>1. /\ r \in CallState /\ r.pc = "ended" /\ r.co = call[k].co /\ r.born = call[k].born
        /\ r.lock = call[k].lock /\ r.used = call[k].used
    BY DEF SessionInv, TypeOK, CallState
  <1>2. /\ call' = [call EXCEPT ![k] = r] /\ handlerLock' = None
        /\ UNCHANGED <<contextVars, lockVars>>
    BY DEF Leave
  <1> HIDE DEF r
  <1>3. handlerLock = k
    BY DEF SessionInv, LocksAccounted
  <1> QED BY <1>1, <1>2, <1>3, HandlerInv, SessionAssumption

LEMMA PostInv ==
    ASSUME SessionInv, NEW k \in Calls, Post(k)
    PROVE  SessionInv'
  <1>0. /\ call[k].pc = "entered" /\ call[k].co = "none" /\ call[k] \in CallState
        /\ handlerLock = None /\ UNCHANGED <<contextVars, lockVars>>
        /\ gen \in 0 .. MaxOpens
    BY DEF Post, SessionInv, TypeOK, TurnsOK
  <1>1. CASE call' = [call EXCEPT ![k].pc = "ended"] /\ UNCHANGED handlerLock
    <2> DEFINE r == [call[k] EXCEPT !.pc = "ended"]
    <2>1. /\ r \in CallState /\ r.pc = "ended" /\ r.co = call[k].co
          /\ r.born = call[k].born /\ r.lock = call[k].lock /\ r.used = call[k].used
      BY <1>0 DEF CallState
    <2>2. call' = [call EXCEPT ![k] = r]
      BY <1>1
    <2> HIDE DEF r
    <2> QED BY <1>0, <1>1, <2>1, <2>2, HandlerInv, SessionAssumption
  <1>2. CASE /\ handlerLock' = k
             /\ call' = [call EXCEPT ![k] =
                           [@ EXCEPT !.pc = "polling", !.co = "posted", !.born = gen]]
    <2> DEFINE r == [call[k] EXCEPT !.pc = "polling", !.co = "posted", !.born = gen]
    <2>1. /\ r \in CallState /\ r.pc = "polling" /\ r.co = "posted"
          /\ r.lock = call[k].lock /\ r.used = call[k].used
      BY <1>0 DEF CallState
    <2>2. call' = [call EXCEPT ![k] = r]
      BY <1>2
    <2> HIDE DEF r
    <2> QED BY <1>0, <1>2, <2>1, <2>2, HandlerInv, SessionAssumption
  <1> QED BY <1>1, <1>2 DEF Post

LEMMA PollCancelledInv ==
    ASSUME SessionInv, NEW k \in Calls, PollCancelled(k)
    PROVE  SessionInv'
  <1> DEFINE c == [call[k] EXCEPT !.fut = IF @ = "pending" THEN "cancelled" ELSE @]
  <1>0. /\ call[k].pc = "polling" /\ call[k] \in CallState /\ handlerLock = k
        /\ UNCHANGED <<contextVars, lockVars>> /\ gen \in 0 .. MaxOpens
    BY DEF PollCancelled, SessionInv, TypeOK, LocksAccounted
  <1>1. CASE /\ call' = [call EXCEPT ![k] = [c EXCEPT !.pc = "aborting", !.abort = "posted",
                                                      !.abortGen = gen]]
             /\ UNCHANGED handlerLock
    <2> DEFINE r == [c EXCEPT !.pc = "aborting", !.abort = "posted", !.abortGen = gen]
    <2>1. /\ r \in CallState /\ r.pc = "aborting" /\ r.co = call[k].co
          /\ r.born = call[k].born /\ r.lock = call[k].lock /\ r.used = call[k].used
      BY <1>0 DEF CallState
    <2>2. call' = [call EXCEPT ![k] = r]
      BY <1>1
    <2> HIDE DEF r
    <2> QED BY <1>0, <1>1, <2>1, <2>2, HandlerInv
  <1>2. CASE call' = [call EXCEPT ![k] = [c EXCEPT !.pc = "ended"]] /\ handlerLock' = None
    <2> DEFINE r == [c EXCEPT !.pc = "ended"]
    <2>1. /\ r \in CallState /\ r.pc = "ended" /\ r.co = call[k].co
          /\ r.born = call[k].born /\ r.lock = call[k].lock /\ r.used = call[k].used
      BY <1>0 DEF CallState
    <2>2. call' = [call EXCEPT ![k] = r]
      BY <1>2
    <2> HIDE DEF r
    <2>3. handlerLock' = None
      BY <1>2
    <2> QED BY <1>0, <2>1, <2>2, <2>3, HandlerInv, SessionAssumption
  <1> QED BY <1>1, <1>2 DEF PollCancelled

\* The steps that touch neither a lock nor the place of a coroutine.
LEMMA RestInv ==
    ASSUME SessionInv, NEW k \in Calls,
           Cancel(k) \/ HandlerCalled(k) \/ AbortStart(k) \/ AbortEnds(k)
              \/ SendCancelled(k) \/ SendReturns(k)
    PROVE  SessionInv'
  <1>0. /\ UNCHANGED <<contextVars, handlerLock, lockVars>> /\ call[k] \in CallState
        /\ call[k].pc \in {"idle", "entered"} => call[k].co = "none"
    BY DEF Cancel, HandlerCalled, AbortStart, AbortEnds, SendCancelled, SendReturns,
           SessionInv, TypeOK, TurnsOK
  <1>1. CASE Cancel(k) \/ AbortEnds(k) \/ SendCancelled(k)
    <2>1. \/ call' = [call EXCEPT ![k] = [call[k] EXCEPT !.cancelled = TRUE]]
          \/ call' = [call EXCEPT ![k] = [call[k] EXCEPT !.abort = "done"]]
          \/ call' = [call EXCEPT ![k] = [call[k] EXCEPT !.fut = "cancelled"]]
      BY <1>1 DEF Cancel, AbortEnds, SendCancelled
    <2>2. PICK r \in { [call[k] EXCEPT !.cancelled = TRUE], [call[k] EXCEPT !.abort = "done"],
                       [call[k] EXCEPT !.fut = "cancelled"] } : call' = [call EXCEPT ![k] = r]
      BY <2>1
    <2>3. /\ r \in CallState /\ r.pc = call[k].pc /\ r.co = call[k].co
          /\ r.born = call[k].born /\ r.lock = call[k].lock /\ r.used = call[k].used
      BY <1>0, <2>2 DEF CallState
    <2> QED BY <1>0, <2>2, <2>3, QuietInv
  <1>2. CASE HandlerCalled(k)
    <2> DEFINE r == [call[k] EXCEPT !.pc = IF call[k].cancelled \/ ~syncActive \/ loop = "none"
                                           THEN "ended" ELSE "entered"]
    <2>1. /\ r \in CallState /\ r.pc \in {"ended", "entered"} /\ r.co = call[k].co
          /\ r.born = call[k].born /\ r.lock = call[k].lock /\ r.used = call[k].used
      BY <1>0 DEF CallState
    <2>2. call' = [call EXCEPT ![k] = r] /\ call[k].pc = "idle"
      BY <1>2 DEF HandlerCalled
    <2> HIDE DEF r
    <2> QED BY <1>0, <2>1, <2>2, QuietInv
  <1>3. CASE AbortStart(k)
    <2> DEFINE r == [call[k] EXCEPT !.abort = IF session = 0 THEN "done" ELSE "calling",
                                    !.target = session]
    <2>0. session \in 0 .. MaxOpens
      BY SessionNow, SessionAssumption
    <2>1. /\ r \in CallState /\ r.pc = call[k].pc /\ r.co = call[k].co
          /\ r.born = call[k].born /\ r.lock = call[k].lock /\ r.used = call[k].used
      BY <1>0, <2>0 DEF CallState
    <2>2. call' = [call EXCEPT ![k] = r]
      BY <1>0, <1>3 DEF AbortStart, CallState, SessionInv, TypeOK
    <2> HIDE DEF r
    <2> QED BY <1>0, <2>1, <2>2, QuietInv
  <1>4. CASE SendReturns(k)
    <2> DEFINE r == [call[k] EXCEPT !.pc = "ended"]
    <2>1. /\ r \in CallState /\ r.pc = "ended" /\ r.co = call[k].co
          /\ r.born = call[k].born /\ r.lock = call[k].lock /\ r.used = call[k].used
      BY <1>0 DEF CallState
    <2>2. call' = [call EXCEPT ![k] = r] /\ call[k].pc = "awaiting"
      BY <1>4 DEF SendReturns
    <2> HIDE DEF r
    <2> QED BY <1>0, <2>1, <2>2, QuietInv
  <1> QED BY <1>1, <1>2, <1>3, <1>4

LEMMA NextInv == SessionInv /\ [Next]_vars => SessionInv'
  <1> SUFFICES ASSUME SessionInv, [Next]_vars PROVE SessionInv'
    OBVIOUS
  <1>1. CASE Enter \/ CloseBegins \/ ContextStep
    BY <1>1, ContextInv
  <1>2. ASSUME NEW k \in Calls, CoStart(k) PROVE SessionInv'
    <2>1. /\ call[k] \in CallState /\ call[k].co = "posted"
          /\ call[k].pc \notin {"idle", "entered"}
          /\ mode = "sync" => call[k].born = gen
          /\ UNCHANGED <<contextVars, handlerLock>> /\ Begin(k, call[k])
      BY <1>2 DEF CoStart, Alive, SessionInv, TypeOK, TurnsOK
    <2> QED BY <2>1, BeginInv
  <1>3. ASSUME NEW k \in Calls, Send(k) PROVE SessionInv'
    <2> DEFINE r == [call[k] EXCEPT !.pc = "awaiting"]
    <2>1. /\ call[k].pc = "idle" /\ call[k].co = "none" /\ mode # "sync"
          /\ UNCHANGED <<contextVars, handlerLock>> /\ Begin(k, r)
      BY <1>3 DEF Send, SessionInv, TurnsOK
    <2>2. r \in CallState /\ r.pc = "awaiting" /\ r.co = call[k].co
      BY DEF SessionInv, TypeOK, CallState
    <2> HIDE DEF r
    <2> QED BY <2>1, <2>2, BeginInv
  <1>4. ASSUME NEW k \in Calls, PollReturns(k) \/ AbortReturns(k) \/ AbortGivenUp(k)
        PROVE  SessionInv'
    BY <1>4, LeaveInv DEF PollReturns, AbortReturns, AbortGivenUp
  <1>5. ASSUME NEW k \in Calls,
               Cancel(k) \/ HandlerCalled(k) \/ AbortStart(k) \/ AbortEnds(k)
                  \/ SendCancelled(k) \/ SendReturns(k)
        PROVE  SessionInv'
    BY <1>5, RestInv
  <1>6. CASE UNCHANGED vars
    BY <1>6 DEF SessionInv, TypeOK, LocksAccounted, TurnsOK, vars
  <1> QED
    BY <1>1, <1>2, <1>3, <1>4, <1>5, <1>6, CoAcquireInv, TurnEndsInv, CoCancelledInv, PostInv,
       PollCancelledInv
    DEF Next, CoroutineStep, CallerStep

-----------------------------------------------------------------------------
(* The theorems.                                                           *)

\* In every reachable state the send locks and their queues belong exactly to the calls that
\* send and wait, and the handler lock to the handler call that polls or aborts: no
\* cancellation, timeout, failure or end of the context leaks one or strands a waiter.
THEOREM SessionInvariant == Spec => []SessionInv
  <1>1. Init => SessionInv
    BY InitInv
  <1>2. SessionInv /\ [Next]_vars => SessionInv'
    BY NextInv
  <1> QED BY <1>1, <1>2, PTL DEF Spec

\* The SDK session never has two turns at once, in the sync mode and for a session entered
\* once: the turns of a session all run under its lock, which has one holder.
THEOREM TurnsSerialized == Spec => []OneTurn
  <1>1. SessionInv => OneTurn
    <2> SUFFICES ASSUME SessionInv, mode = "sync" \/ gen = 1, NEW g \in Generations
                 PROVE  Cardinality({k \in Calls : call[k].co = "sending" /\ call[k].used = g}) <= 1
      BY DEF OneTurn
    <2> DEFINE T == {k \in Calls : call[k].co = "sending" /\ call[k].used = g}
    <2>1. \A k \in T : holder[g] = k
      BY DEF SessionInv, LocksAccounted, TurnsOK
    <2> HIDE DEF T
    <2>2. Cardinality(T) <= 1
      <3>1. CASE T = {}
        BY <3>1, FS_EmptySet
      <3>2. CASE T # {}
        <4>1. PICK k \in T : T = {k}
          BY <2>1, <3>2
        <4>2. Cardinality({k}) = 1
          BY FS_Singleton
        <4> QED BY <4>1, <4>2
      <3> QED BY <3>1, <3>2
    <2> QED BY <2>2 DEF T
  <1> QED BY <1>1, SessionInvariant, PTL

\* While the call that asked for an abort waits for it, no other handler call waits for a
\* turn: it would have to hold the handler lock.
THEOREM AbortsOwnTurn == Spec => []AbortHitsOwnTurn
  <1>1. SessionInv => AbortHitsOwnTurn
    BY DEF SessionInv, LocksAccounted, AbortHitsOwnTurn
  <1> QED BY <1>1, SessionInvariant, PTL
=============================================================================
