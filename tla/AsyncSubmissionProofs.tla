------------------------ MODULE AsyncSubmissionProofs ------------------------
(***************************************************************************)
(* What submission and shutdown promise, for any tasks, clients, pool size *)
(* and number of submissions.                                              *)
(***************************************************************************)
EXTENDS AsyncSubmission, SequenceTheorems, TLAPS

\* The three kinds of threads are apart.
LEMMA Kinds ==
    /\ Threads = Clients \cup Workers \cup {Owner}
    /\ \A c \in Clients : c \notin Workers /\ c # Owner
    /\ Owner \notin Workers
    /\ Workers # {} /\ Workers \subseteq Nat /\ Futures \subseteq Nat
    /\ None \notin Futures
  BY AsyncAssumption DEF Threads, Workers, Futures

\* What a step of one thread does to its own place, and to no other one's.
LEMMA GotoOne ==
    ASSUME pc \in [Threads -> Places],
           NEW th \in Threads, NEW point, Goto(th, point)
    PROVE  pc'[th] = point /\ \A o \in Threads \ {th} : pc'[o] = pc[o]
  BY DEF Goto

\* Where a thread of each kind can go.
LEMMA PlacesTypes ==
    /\ Busy \subseteq Places
    /\ {"idle", "cancel", "check", "cancelling", "settle", "returned"} \subseteq Places
    /\ "idle" \notin Busy /\ "pending" # "cancelled"
  BY DEF Busy, Places

\* Appending a work item, and taking the first.
LEMMA QueueTail ==
    ASSUME queue \in Seq(Futures), queue # <<>>
    PROVE  /\ Tail(queue) \in Seq(Futures) /\ Head(queue) \in Futures
           /\ \A i \in DOMAIN Tail(queue) : \E j \in DOMAIN queue : Tail(queue)[i] = queue[j]
           /\ \E j \in DOMAIN queue : Head(queue) = queue[j]
           /\ \A j \in DOMAIN queue : queue[j] # Head(queue) =>
                 \E i \in DOMAIN Tail(queue) : Tail(queue)[i] = queue[j]
  <1>1. /\ Tail(queue) \in Seq(Futures)
        /\ Len(queue) \in Nat \ {0}
        /\ DOMAIN queue = 1 .. Len(queue) /\ DOMAIN Tail(queue) = 1 .. Len(queue) - 1
        /\ Head(queue) = queue[1] /\ Head(queue) \in Futures
        /\ \A i \in 1 .. Len(queue) - 1 : Tail(queue)[i] = queue[i + 1]
    BY HeadTailProperties
  <1>2. ASSUME NEW j \in DOMAIN queue, queue[j] # Head(queue)
        PROVE  \E i \in DOMAIN Tail(queue) : Tail(queue)[i] = queue[j]
    <2>1. j - 1 \in 1 .. Len(queue) - 1 /\ Tail(queue)[j - 1] = queue[j]
      BY <1>1, <1>2
    <2> QED BY <1>1, <2>1
  <1>3. \A i \in 1 .. Len(queue) - 1 : i + 1 \in DOMAIN queue
    BY <1>1
  <1> QED BY <1>1, <1>2, <1>3

LEMMA QueueAppend ==
    ASSUME queue \in Seq(Futures), NEW f \in Futures
    PROVE  /\ Append(queue, f) \in Seq(Futures)
           /\ \A i \in DOMAIN Append(queue, f) :
                 Append(queue, f)[i] = f \/ \E j \in DOMAIN queue : Append(queue, f)[i] = queue[j]
           /\ \E i \in DOMAIN Append(queue, f) : Append(queue, f)[i] = f
           /\ \A j \in DOMAIN queue : \E i \in DOMAIN Append(queue, f) :
                 Append(queue, f)[i] = queue[j]
  <1>1. /\ Append(queue, f) \in Seq(Futures)
        /\ DOMAIN queue = 1 .. Len(queue)
        /\ DOMAIN Append(queue, f) = 1 .. Len(queue) + 1
        /\ Append(queue, f)[Len(queue) + 1] = f
        /\ \A i \in 1 .. Len(queue) : Append(queue, f)[i] = queue[i]
        /\ Len(queue) \in Nat
    OBVIOUS
  <1> QED BY <1>1

-----------------------------------------------------------------------------
LEMMA InitInv == Init => AsyncInv
  <1> SUFFICES ASSUME Init PROVE AsyncInv
    OBVIOUS
  <1>1. TypeOK
    <2>1. status \in [Tasks -> TaskStatus]
      BY DEF Init, TaskStatus
    <2>2. left \in [Workers -> 0..MaxAttempts]
      BY AsyncAssumption DEF Init
    <2>3. queue \in Seq(Futures)
      BY DEF Init
    <2> QED BY <2>1, <2>2, <2>3, PlacesTypes DEF Init, TypeOK
  <1>2. PlacesOK
    BY Kinds DEF Init, PlacesOK, At
  <1>3. PoolOK /\ FuturesOK
    BY Kinds DEF Init, PoolOK, FuturesOK, At
  <1>4. RunningOK
    BY Kinds, PlacesTypes DEF Init, RunningOK
  <1> QED BY <1>1, <1>2, <1>3, <1>4 DEF AsyncInv

LEMMA SubmitInv ==
    ASSUME AsyncInv, NEW f \in Futures, NEW t \in Tasks, Submit(f, t)
    PROVE  AsyncInv'
  <1> USE DEF AsyncInv
  <1>1. /\ fut[f] = "none" /\ of' = [of EXCEPT ![f] = t]
        /\ fut' = [fut EXCEPT ![f] = "pending"] /\ queue' = Append(queue, f)
        /\ pool' = "open" /\ closed = FALSE /\ pool # "down"
        /\ UNCHANGED <<status, closed, exited, pc, arg, aim, previous, left, escaped>>
    BY DEF Submit, Enqueue, TypeOK, Futures, locals
  <1>2. started' \subseteq Workers /\ started \subseteq started' /\ started' # {}
    <2>1. CASE \E w \in Workers : started = 1..(w - 1) /\ started' = 1..w
      <3>1. PICK w \in Workers : started = 1..(w - 1) /\ started' = 1..w
        BY <2>1
      <3>2. w \in Nat /\ PoolSize \in Nat /\ 1 <= w /\ w <= PoolSize
        BY AsyncAssumption DEF Workers
      <3>3. 1..(w - 1) \subseteq 1..w /\ 1..w \subseteq 1..PoolSize /\ w \in 1..w
        BY <3>2
      <3> QED BY <3>1, <3>3 DEF Workers
    <2>2. CASE /\ started = Workers \/ \E w \in started : At(w, "idle")
               /\ UNCHANGED started
      BY <2>2, Kinds DEF TypeOK
    <2> QED BY <2>1, <2>2 DEF Submit, Enqueue
  <1>3. TypeOK'
    BY <1>1, <1>2, QueueAppend DEF TypeOK
  <1>4. PlacesOK'
    BY <1>1, <1>2 DEF PlacesOK, TypeOK, At
  <1>5. PoolOK'
    BY <1>1, <1>2 DEF PoolOK, TypeOK, At
  <1>6. FuturesOK'
    <2>1. \A e \in Futures : fut'[e] # "none" => of'[e] \in Tasks
      BY <1>1 DEF FuturesOK, TypeOK
    <2>2. \A i \in DOMAIN queue' : fut'[queue'[i]] # "none"
      <3> TAKE i \in DOMAIN queue'
      <3>1. queue'[i] = f \/ \E j \in DOMAIN queue : queue'[i] = queue[j]
        BY <1>1, QueueAppend DEF TypeOK
      <3>2. \A j \in DOMAIN queue : queue[j] \in Futures
        BY DEF TypeOK
      <3> QED BY <1>1, <3>1, <3>2 DEF FuturesOK, TypeOK
    <2>3. ASSUME NEW e \in Futures, fut'[e] = "pending"
          PROVE  \E i \in DOMAIN queue' : queue'[i] = e
      <3>1. CASE e = f
        BY <1>1, <3>1, QueueAppend DEF TypeOK
      <3>2. CASE e # f
        <4>1. PICK j \in DOMAIN queue : queue[j] = e
          BY <1>1, <2>3, <3>2 DEF FuturesOK, TypeOK
        <4> QED BY <1>1, <4>1, QueueAppend DEF TypeOK
      <3> QED BY <3>1, <3>2
    <2>4. \A e \in Futures : fut'[e] = "running" =>
             \E w \in started' : arg'[w] = e /\ pc'[w] \in Busy
      BY <1>1, <1>2 DEF FuturesOK, TypeOK
    <2> QED BY <2>1, <2>2, <2>3, <2>4 DEF FuturesOK
  <1>7. RunningOK'
    <2>1. \A w \in Workers : pc[w] \in Busy =>
             arg[w] \in Futures /\ of'[arg[w]] = of[arg[w]] /\ of[arg[w]] \in Tasks
      BY <1>1, PlacesTypes DEF PlacesOK, FuturesOK, TypeOK, At
    <2>2. ASSUME NEW u \in Tasks \ escaped, status[u] = "running"
          PROVE  \E w \in started' : /\ pc[w] \in {"handler", "joining", "ending"}
                                     /\ of'[arg[w]] = u
      <3>1. PICK w \in started : /\ pc[w] \in {"handler", "joining", "ending"}
                                 /\ of[arg[w]] = u
        BY <2>2 DEF RunningOK
      <3> QED BY <1>2, <2>1, <3>1 DEF TypeOK, Busy
    <2>3. \A w \in Workers : pc[w] \in Busy \ {"begin", "starting"} =>
             status[of'[arg[w]]] # "pending"
      BY <2>1 DEF RunningOK
    <2>4. \A e \in Futures : fut'[e] = "done" => status[of'[e]] # "pending"
      BY <1>1 DEF RunningOK, TypeOK
    <2> QED BY <1>1, <2>2, <2>3, <2>4 DEF RunningOK
  <1> QED BY <1>3, <1>4, <1>5, <1>6, <1>7

LEMMA FutureCancelInv ==
    ASSUME AsyncInv, NEW c \in Clients, NEW f \in Futures, FutureCancel(c, f)
    PROVE  AsyncInv'
  <1> USE DEF AsyncInv, pools
  <1>1. /\ pc[c] = "idle" /\ fut[f] = "pending" /\ c \in Threads /\ of[f] \in Tasks
        /\ fut' = [fut EXCEPT ![f] = "cancelled"] /\ arg' = [arg EXCEPT ![c] = of[f]]
        /\ UNCHANGED <<status, of, queue, pools, aim, previous, left, escaped>>
    BY Kinds DEF FutureCancel, FuturesOK, At
  <1>2. pc'[c] = "cancel" /\ \A o \in Threads \ {c} : pc'[o] = pc[o]
    BY <1>1, GotoOne DEF FutureCancel, TypeOK
  <1>3. TypeOK'
    BY <1>1, PlacesTypes DEF TypeOK, FutureCancel, Goto
  <1>4. PlacesOK'
    BY <1>1, <1>2, Kinds DEF PlacesOK, TypeOK, At
  <1>5. PoolOK'
    BY <1>1, <1>2, Kinds DEF PoolOK, TypeOK, At
  <1>6. FuturesOK'
    <2>1. \A e \in Futures : fut'[e] # "none" => of'[e] \in Tasks
      BY <1>1 DEF FuturesOK, TypeOK
    <2>2. \A i \in DOMAIN queue' : fut'[queue'[i]] # "none"
      <3>1. \A i \in DOMAIN queue : queue[i] \in Futures
        BY DEF TypeOK
      <3> QED BY <1>1, <3>1 DEF FuturesOK, TypeOK
    <2>3. \A e \in Futures : fut'[e] = "pending" => \E i \in DOMAIN queue' : queue'[i] = e
      BY <1>1 DEF FuturesOK, TypeOK
    <2>4. \A w \in started : pc'[w] = pc[w] /\ arg'[w] = arg[w]
      BY <1>1, <1>2, Kinds DEF TypeOK
    <2>5. \A e \in Futures : fut'[e] = "running" =>
             \E w \in started' : arg'[w] = e /\ pc'[w] \in Busy
      BY <1>1, <2>4 DEF FuturesOK, TypeOK
    <2> QED BY <2>1, <2>2, <2>3, <2>5 DEF FuturesOK
  <1>7. RunningOK'
    <2>1. \A w \in Workers : pc'[w] = pc[w] /\ arg'[w] = arg[w]
      BY <1>1, <1>2, Kinds DEF TypeOK
    <2>2. \A w \in started : pc'[w] = pc[w] /\ arg'[w] = arg[w]
      BY <2>1 DEF TypeOK
    <2>3. \A e \in Futures : fut'[e] = "done" => fut[e] = "done"
      BY <1>1 DEF TypeOK
    <2> QED BY <1>1, <2>1, <2>2, <2>3 DEF RunningOK
  <1> QED BY <1>3, <1>4, <1>5, <1>6, <1>7

\* A client goes on with the task it cancels, or is done with it.
LEMMA ClientInv ==
    ASSUME AsyncInv, NEW c \in Clients,
           NEW point \in {"idle", "cancel", "check", "cancelling", "settle"}, Goto(c, point),
           NEW a \in Tasks \cup {None}, arg' = [arg EXCEPT ![c] = a],
           point = "idle" => a = None, point # "idle" => a \in Tasks,
           previous' \in [Clients -> TaskStatus \cup {None}],
           UNCHANGED <<of, fut, queue, pools, aim, left, escaped>>,
           \/ UNCHANGED status
           \/ \E t \in Tasks : status' = [status EXCEPT ![t] = "cancelled"]
    PROVE  AsyncInv'
  <1> USE DEF AsyncInv, pools
  <1>1. c \in Threads /\ \A w \in Workers : w # c /\ w \in Threads
    BY Kinds
  <1>2. pc'[c] = point /\ \A o \in Threads \ {c} : pc'[o] = pc[o]
    BY <1>1, GotoOne DEF TypeOK
  <1>3. arg'[c] = a /\ \A o \in Threads \ {c} : arg'[o] = arg[o]
    BY <1>1 DEF TypeOK
  <1>4. /\ status' \in [Tasks -> TaskStatus]
        /\ \A u \in Tasks : status'[u] = status[u] \/ status'[u] = "cancelled"
    BY DEF TypeOK, TaskStatus
  <1>5. TypeOK'
    BY <1>1, <1>4, PlacesTypes DEF TypeOK, Goto
  <1>6. PlacesOK'
    BY <1>1, <1>2, <1>3, Kinds DEF PlacesOK, At
  <1>7. PoolOK'
    BY <1>1, <1>2, Kinds DEF PoolOK, TypeOK, At
  <1>8. FuturesOK'
    BY <1>1, <1>2, <1>3 DEF FuturesOK, TypeOK
  <1>9. RunningOK'
    <2>1. \A w \in Workers : pc'[w] = pc[w] /\ arg'[w] = arg[w]
      BY <1>1, <1>2, <1>3
    <2>2. \A w \in Workers : pc[w] \in Busy => of[arg[w]] \in Tasks
      BY PlacesTypes DEF PlacesOK, FuturesOK, At
    <2>3. \A f \in Futures : fut[f] = "done" => of[f] \in Tasks
      BY DEF FuturesOK
    <2>4. \A w \in started : pc'[w] = pc[w] /\ arg'[w] = arg[w]
      BY <2>1 DEF TypeOK
    <2> QED BY <1>4, <2>1, <2>2, <2>3, <2>4 DEF RunningOK
  <1> QED BY <1>5, <1>6, <1>7, <1>8, <1>9

\* ... in particular, when it leaves.
LEMMA LeaveInv ==
    ASSUME AsyncInv, NEW c \in Clients, Leave(c),
           UNCHANGED <<of, fut, queue, pools, aim, left, escaped>>,
           \/ UNCHANGED status
           \/ \E t \in Tasks : status' = [status EXCEPT ![t] = "cancelled"]
    PROVE  AsyncInv'
  <1>1. previous' \in [Clients -> TaskStatus \cup {None}]
    BY DEF AsyncInv, TypeOK, Leave
  <1>2. PICK point \in {"idle", "cancel", "check", "cancelling", "settle"},
             a \in Tasks \cup {None} :
           /\ Goto(c, point) /\ arg' = [arg EXCEPT ![c] = a]
           /\ point = "idle" /\ a = None
    BY DEF Leave
  <1> QED BY <1>1, <1>2, ClientInv

LEMMA CancelInv ==
    ASSUME AsyncInv, NEW c \in Clients,
           Cancelling(c) \/ \E t \in Tasks : CancelTask(c, t)
    PROVE  AsyncInv'
  <1>1. /\ c \in Threads /\ arg[c] \in Tasks \cup {None}
        /\ pc[c] # "idle" => arg[c] \in Tasks
        /\ arg \in [Threads -> Futures \cup Tasks \cup {None}]
        /\ previous \in [Clients -> TaskStatus \cup {None}]
        /\ status \in [Tasks -> TaskStatus]
    BY Kinds DEF AsyncInv, PlacesOK, TypeOK, At
  <1>2. arg = [arg EXCEPT ![c] = arg[c]]
    BY <1>1
  <1>3. ASSUME NEW t \in Tasks, CancelTask(c, t) PROVE AsyncInv'
    BY <1>1, <1>3, ClientInv DEF CancelTask
  <1>4. CASE Look(c)
    <2>0. pc[c] = "cancel"
      BY <1>4 DEF Look, At
    <2>1. CASE status[arg[c]] = "succeeded"
      BY <1>4, <2>1, LeaveInv DEF Look
    <2>2. CASE status[arg[c]] # "succeeded"
      <3>1. previous' \in [Clients -> TaskStatus \cup {None}]
        BY <1>1, <1>4, <2>0, <2>2 DEF Look
      <3> QED BY <1>1, <1>2, <1>4, <2>0, <2>2, <3>1, ClientInv DEF Look
    <2> QED BY <2>1, <2>2
  <1>5. ASSUME Onward(c), pc[c] # "idle",
               UNCHANGED <<of, fut, queue, pools, aim, left, escaped>>,
               \/ UNCHANGED status
               \/ \E t \in Tasks : status' = [status EXCEPT ![t] = "cancelled"]
        PROVE  AsyncInv'
    <2>1. CASE previous[c] \in {"pending", "failed", "blocked"}
      BY <1>1, <1>2, <1>5, <2>1, ClientInv DEF Onward
    <2>2. CASE previous[c] \notin {"pending", "failed", "blocked"}
      BY <1>5, <2>2, LeaveInv DEF Onward
    <2> QED BY <2>1, <2>2
  <1>6. CASE Check(c)
    <2>0. pc[c] = "check"
      BY <1>6 DEF Check, At
    <2>1. CASE IsSink(status[arg[c]])
      BY <1>5, <1>6, <2>0, <2>1 DEF Check
    <2>2. CASE ~IsSink(status[arg[c]])
      BY <1>1, <1>2, <1>6, <2>0, <2>2, ClientInv DEF Check
    <2> QED BY <2>1, <2>2
  <1>7. CASE WriteCancelled(c)
    BY <1>1, <1>5, <1>7 DEF WriteCancelled, At
  <1>8. CASE Settle(c)
    <2>0. /\ pc[c] = "settle"
          /\ [previous EXCEPT ![c] = None] \in [Clients -> TaskStatus \cup {None}]
      BY <1>1, <1>8 DEF Settle, At
    <2>1. CASE IsSink(status[arg[c]])
      BY <1>8, <2>1, LeaveInv DEF Settle
    <2>2. CASE ~IsSink(status[arg[c]])
      BY <1>1, <1>2, <1>8, <2>0, <2>2, ClientInv DEF Settle
    <2> QED BY <2>1, <2>2
  <1> QED BY <1>3, <1>4, <1>6, <1>7, <1>8 DEF Cancelling

LEMMA TakeInv ==
    ASSUME AsyncInv, NEW w \in Workers, Take(w)
    PROVE  AsyncInv'
  <1> USE DEF AsyncInv, pools
  <1> DEFINE f == Head(queue)
  <1>1. /\ w \in started \ exited /\ pc[w] = "idle" /\ queue # <<>> /\ w \in Threads
        /\ queue' = Tail(queue)
        /\ UNCHANGED <<status, of, pools, aim, previous, escaped>>
        /\ exited = {}
    BY Kinds DEF Take, At, PoolOK
  <1>2. /\ f \in Futures /\ queue' \in Seq(Futures)
        /\ \A i \in DOMAIN queue' : \E j \in DOMAIN queue : queue'[i] = queue[j]
        /\ \A j \in DOMAIN queue : queue[j] # f => \E i \in DOMAIN queue' : queue'[i] = queue[j]
        /\ \A j \in DOMAIN queue : queue[j] \in Futures
        /\ fut[f] # "none"
    BY <1>1, QueueTail DEF TypeOK, FuturesOK
  <1> HIDE DEF f
  <1>3. CASE fut[f] = "cancelled"
    <2>1. UNCHANGED <<fut, pc, arg, left>>
      BY <1>3 DEF Take, f
    <2>2. TypeOK' /\ PlacesOK' /\ PoolOK' /\ RunningOK'
      BY <1>1, <1>2, <2>1 DEF TypeOK, PlacesOK, PoolOK, RunningOK, At
    <2>3. \A i \in DOMAIN queue' : fut'[queue'[i]] # "none"
      BY <1>2, <2>1 DEF FuturesOK
    <2>4. \A e \in Futures : fut'[e] = "pending" => \E i \in DOMAIN queue' : queue'[i] = e
      BY <1>2, <1>3, <2>1 DEF FuturesOK
    <2>5. FuturesOK'
      BY <1>1, <2>1, <2>3, <2>4 DEF FuturesOK
    <2> QED BY <2>2, <2>5
  <1>4. CASE fut[f] # "cancelled"
    <2>1. /\ fut' = [fut EXCEPT ![f] = "running"]
          /\ arg' = [arg EXCEPT ![w] = f]
          /\ left' = [left EXCEPT ![w] = MaxAttempts]
          /\ Goto(w, "begin")
      BY <1>4 DEF Take, f
    <2>2. pc'[w] = "begin" /\ \A o \in Threads \ {w} : pc'[o] = pc[o]
      BY <1>1, <2>1, GotoOne DEF TypeOK
    <2>3. TypeOK'
      <3>1. pc' \in [Threads -> Places]
        BY <1>1, <2>1 DEF TypeOK, Goto, Places, Busy
      <3>2. left' \in [Workers -> 0..MaxAttempts]
        BY <2>1, AsyncAssumption DEF TypeOK
      <3> QED BY <1>1, <1>2, <2>1, <3>1, <3>2 DEF TypeOK
    <2>4. PlacesOK'
      <3>1. \A c \in Clients : c # w /\ pc'[c] = pc[c] /\ arg'[c] = arg[c]
        BY <1>1, <2>1, <2>2, Kinds DEF TypeOK
      <3>2. \A e \in Futures : fut[e] # "none" => fut'[e] # "none"
        BY <1>1, <1>2, <2>1 DEF TypeOK
      <3>3. \A v \in Workers : v = w \/ (pc'[v] = pc[v] /\ arg'[v] = arg[v])
        BY <1>1, <2>1, <2>2, Kinds DEF TypeOK
      <3>4. pc'[Owner] = pc[Owner]
        BY <1>1, <2>1, <2>2, Kinds
      <3> QED BY <1>1, <1>2, <2>1, <2>2, <3>1, <3>2, <3>3, <3>4 DEF PlacesOK, TypeOK, At, Busy
    <2>5. PoolOK'
      BY <1>1, <2>2, Kinds DEF PoolOK, TypeOK, At
    <2>6. FuturesOK'
      <3>1. \A e \in Futures : fut'[e] # "none" => of'[e] \in Tasks
        BY <1>1, <1>2, <2>1 DEF FuturesOK, TypeOK
      <3>2. \A i \in DOMAIN queue' : fut'[queue'[i]] # "none"
        BY <1>2, <2>1 DEF FuturesOK, TypeOK
      <3>3. \A e \in Futures : fut'[e] = "pending" => \E i \in DOMAIN queue' : queue'[i] = e
        BY <1>2, <2>1 DEF FuturesOK, TypeOK
      <3>4. ASSUME NEW e \in Futures, fut'[e] = "running"
            PROVE  \E v \in started' : arg'[v] = e /\ pc'[v] \in Busy
        <4>1. CASE e = f
          BY <1>1, <2>1, <2>2, <4>1, Kinds DEF TypeOK, Busy
        <4>2. CASE e # f
          <5>1. PICK v \in started : arg[v] = e /\ pc[v] \in Busy
            BY <2>1, <3>4, <4>2 DEF FuturesOK, TypeOK
          <5>2. v # w /\ v \in Threads
            BY <1>1, <5>1, Kinds, PlacesTypes DEF TypeOK
          <5> QED BY <1>1, <2>1, <2>2, <5>1, <5>2, Kinds DEF TypeOK
        <4> QED BY <4>1, <4>2
      <3> QED BY <3>1, <3>2, <3>3, <3>4 DEF FuturesOK
    <2>7. RunningOK'
      <3>1. \A v \in Workers : v # w => pc'[v] = pc[v] /\ arg'[v] = arg[v]
        BY <1>1, <2>1, <2>2, Kinds DEF TypeOK
      <3>2. \A v \in started : pc[v] # "idle" => pc'[v] = pc[v] /\ arg'[v] = arg[v]
        BY <1>1, <3>1 DEF TypeOK
      <3>3. \A e \in Futures : fut'[e] = "done" => fut[e] = "done"
        BY <1>2, <2>1 DEF TypeOK
      <3> QED BY <1>1, <2>2, <3>1, <3>2, <3>3 DEF RunningOK
    <2> QED BY <2>3, <2>4, <2>5, <2>6, <2>7
  <1> QED BY <1>3, <1>4

\* What the step of a worker does to the task it works on.
LEMMA TaskMoves ==
    ASSUME AsyncInv, NEW t \in Tasks,
           UNCHANGED status \/ \E s \in TaskStatus : status' = [status EXCEPT ![t] = s],
           status[t] # "pending" => status'[t] # "pending"
    PROVE  /\ status' \in [Tasks -> TaskStatus]
           /\ \A u \in Tasks \ {t} : status'[u] = status[u]
           /\ \A u \in Tasks : status[u] # "pending" => status'[u] # "pending"
  BY DEF AsyncInv, TypeOK

Bearing == {"handler", "joining", "ending"}

\* Worker w leaves the item it works on.
LEMMA FinishInv ==
    ASSUME AsyncInv, NEW w \in Workers, pc[w] \in Busy, Finish(w),
           UNCHANGED <<of, queue, pools, previous>>,
           \/ UNCHANGED status
           \/ \E s \in TaskStatus : status' = [status EXCEPT ![of[arg[w]]] = s],
           status'[of[arg[w]]] # "pending",
           escaped' \in SUBSET Tasks, escaped \subseteq escaped',
           status'[of[arg[w]]] = "running" /\ of[arg[w]] \notin escaped' =>
              status[of[arg[w]]] = "running" /\ pc[w] \notin Bearing
    PROVE  AsyncInv'
  <1> USE DEF AsyncInv, pools
  <1> DEFINE f == arg[w]
             t == of[f]
  <1>1. /\ f \in Futures /\ fut[f] # "none" /\ w \in Threads /\ t \in Tasks
        /\ fut' = [fut EXCEPT ![f] = "done"] /\ arg' = [arg EXCEPT ![w] = None]
        /\ left' = [left EXCEPT ![w] = 0] /\ aim' = [aim EXCEPT ![w] = None]
    BY Kinds, PlacesTypes DEF PlacesOK, FuturesOK, At, Finish
  <1>2. pc'[w] = "idle" /\ \A o \in Threads \ {w} : pc'[o] = pc[o]
    BY <1>1, GotoOne DEF TypeOK, Finish
  <1>3. /\ status' \in [Tasks -> TaskStatus]
        /\ \A u \in Tasks \ {t} : status'[u] = status[u]
        /\ \A u \in Tasks : status[u] # "pending" => status'[u] # "pending"
    BY <1>1, TaskMoves
  <1>a. /\ \A v \in Workers : v = w \/ (pc'[v] = pc[v] /\ arg'[v] = arg[v])
        /\ \A v \in started : v \in Workers
    BY <1>1, <1>2, Kinds DEF TypeOK
  <1>4. /\ status'[t] # "pending"
        /\ status'[t] = "running" /\ t \notin escaped' => status[t] = "running" /\ pc[w] \notin Bearing
    OBVIOUS
  <1> HIDE DEF f, t
  <1>5. TypeOK'
    <2>1. pc' \in [Threads -> Places]
      BY <1>1, PlacesTypes DEF TypeOK, Finish, Goto
    <2>2. left' \in [Workers -> 0..MaxAttempts]
      BY <1>1, AsyncAssumption DEF TypeOK
    <2>3. /\ arg' \in [Threads -> Futures \cup Tasks \cup {None}]
          /\ fut' \in [Futures -> {"none", "pending", "running", "cancelled", "done"}]
          /\ aim' \in [Workers -> {"succeeded", "failed", "cancelled", None}]
      BY <1>1 DEF TypeOK
    <2> QED BY <1>3, <2>1, <2>2, <2>3 DEF TypeOK
  <1>6. PlacesOK'
    <2>1. \A c \in Clients : c # w /\ pc'[c] = pc[c] /\ arg'[c] = arg[c]
      BY <1>1, <1>2, Kinds DEF TypeOK
    <2>2. \A e \in Futures : fut[e] # "none" => fut'[e] # "none"
      BY <1>1 DEF TypeOK
    <2>3. pc'[Owner] = pc[Owner]
      BY <1>1, <1>2, Kinds
    <2>4. \A v \in Workers : v # w => aim'[v] = aim[v]
      BY <1>1 DEF TypeOK
    <2> QED BY <1>1, <1>2, <1>a, <2>1, <2>2, <2>3, <2>4 DEF PlacesOK, TypeOK, At
  <1>7. PoolOK'
    BY <1>1, <1>2, Kinds DEF PoolOK, TypeOK, At
  <1>8. FuturesOK'
    <2>1. \A e \in Futures : fut'[e] # "none" => of'[e] \in Tasks
      BY <1>1 DEF FuturesOK, TypeOK
    <2>2. \A i \in DOMAIN queue' : fut'[queue'[i]] # "none"
      <3>1. \A i \in DOMAIN queue : queue[i] \in Futures
        BY DEF TypeOK
      <3> QED BY <1>1, <3>1 DEF FuturesOK, TypeOK
    <2>3. \A e \in Futures : fut'[e] = "pending" => \E i \in DOMAIN queue' : queue'[i] = e
      BY <1>1 DEF FuturesOK, TypeOK
    <2>4. ASSUME NEW e \in Futures, fut'[e] = "running"
          PROVE  \E v \in started' : arg'[v] = e /\ pc'[v] \in Busy
      <3>1. e # f /\ fut[e] = "running"
        BY <1>1, <2>4 DEF TypeOK
      <3>2. PICK v \in started : arg[v] = e /\ pc[v] \in Busy
        BY <3>1 DEF FuturesOK
      <3>3. v # w
        BY <3>1, <3>2 DEF f
      <3> QED BY <1>a, <3>2, <3>3
    <2> QED BY <2>1, <2>2, <2>3, <2>4 DEF FuturesOK
  <1>9. RunningOK'
    <2>1. ASSUME NEW u \in Tasks \ escaped', status'[u] = "running"
          PROVE  \E v \in started' : pc'[v] \in Bearing /\ of'[arg'[v]] = u
      <3>1. status[u] = "running" /\ (u = t => pc[w] \notin Bearing)
        BY <1>3, <1>4, <2>1
      <3>2. PICK v \in started : pc[v] \in Bearing /\ of[arg[v]] = u
        BY <2>1, <3>1 DEF RunningOK, Bearing
      <3>3. v # w
        BY <3>1, <3>2 DEF t, f
      <3> QED BY <1>a, <3>2, <3>3
    <2>2. ASSUME NEW v \in Workers, pc'[v] \in Busy \ {"begin", "starting"}
          PROVE  status'[of'[arg'[v]]] # "pending"
      <3>1. v # w
        BY <1>2, <2>2, PlacesTypes
      <3>2. of[arg[v]] \in Tasks /\ status[of[arg[v]]] # "pending"
        BY <1>a, <2>2, <3>1, PlacesTypes DEF PlacesOK, FuturesOK, RunningOK, At
      <3> QED BY <1>a, <1>3, <3>1, <3>2
    <2>3. ASSUME NEW e \in Futures, fut'[e] = "done" PROVE status'[of'[e]] # "pending"
      <3>1. CASE e = f
        BY <1>4, <3>1 DEF t
      <3>2. CASE e # f
        <4>1. fut[e] = "done" /\ of[e] \in Tasks
          BY <1>1, <2>3, <3>2 DEF TypeOK, FuturesOK
        <4> QED BY <1>3, <4>1 DEF RunningOK
      <3> QED BY <3>1, <3>2
    <2> QED BY <2>1, <2>2, <2>3 DEF RunningOK, Bearing
  <1> QED BY <1>5, <1>6, <1>7, <1>8, <1>9

\* Worker w goes to another place with the item it works on.
LEMMA WorkInv ==
    ASSUME AsyncInv, NEW w \in Workers, pc[w] \in Busy, w \in started,
           NEW point \in Busy, Goto(w, point),
           UNCHANGED <<of, fut, queue, arg, previous, escaped, started, exited>>,
           closed' \in BOOLEAN, pool' \in {"open", "down"}, pool' = "down" => closed',
           pool = "down" => pool' = "down",
           left' \in [Workers -> 0..MaxAttempts],
           aim' \in [Workers -> {"succeeded", "failed", "cancelled", None}],
           \A v \in Workers \ {w} : aim'[v] = aim[v],
           point = "ending" => aim'[w] # None,
           \/ UNCHANGED status
           \/ \E s \in TaskStatus : status' = [status EXCEPT ![of[arg[w]]] = s],
           status[of[arg[w]]] # "pending" => status'[of[arg[w]]] # "pending",
           point \in {"begin", "starting"} \/ status'[of[arg[w]]] # "pending",
           status'[of[arg[w]]] = "running" =>
              point \in Bearing \/ (status[of[arg[w]]] = "running" /\ pc[w] \notin Bearing)
    PROVE  AsyncInv'
  <1> USE DEF AsyncInv
  <1> DEFINE t == of[arg[w]]
  <1>1. /\ w \in Threads /\ arg[w] \in Futures /\ fut[arg[w]] # "none" /\ t \in Tasks
        /\ w \notin exited
    <2>1. pc[w] # "idle"
      BY PlacesTypes
    <2> QED BY <2>1, Kinds DEF PlacesOK, FuturesOK, PoolOK, At
  <1>2. pc'[w] = point /\ \A o \in Threads \ {w} : pc'[o] = pc[o]
    BY <1>1, GotoOne DEF TypeOK
  <1>3. /\ status' \in [Tasks -> TaskStatus]
        /\ \A u \in Tasks \ {t} : status'[u] = status[u]
        /\ \A u \in Tasks : status[u] # "pending" => status'[u] # "pending"
    BY <1>1, TaskMoves
  <1>4. TypeOK'
    BY <1>1, <1>3, PlacesTypes DEF TypeOK, Goto
  <1>5. /\ \A c \in Clients : pc'[c] = pc[c]
        /\ \A v \in Workers : v # w => pc'[v] = pc[v]
        /\ pc'[Owner] = pc[Owner]
        /\ \A v \in started : v \in Workers
    BY <1>2, Kinds DEF TypeOK
  <1>6. PlacesOK'
    BY <1>1, <1>2, <1>5 DEF PlacesOK, At
  <1>7. PoolOK'
    BY <1>1, <1>2, <1>5 DEF PoolOK, TypeOK, At
  <1>8. FuturesOK'
    <2>1. \A v \in started : pc[v] \in Busy => pc'[v] \in Busy
      BY <1>2, <1>5
    <2>2. \A f \in Futures : fut'[f] = "running" =>
             \E v \in started' : arg'[v] = f /\ pc'[v] \in Busy
      BY <2>1 DEF FuturesOK
    <2> QED BY <2>2 DEF FuturesOK
  <1>9. RunningOK'
    <2>1. ASSUME NEW u \in Tasks \ escaped', status'[u] = "running"
          PROVE  \E v \in started' : pc'[v] \in Bearing /\ of'[arg'[v]] = u
      <3>1. CASE u = t /\ point \in Bearing
        BY <1>2, <3>1
      <3>2. CASE ~(u = t /\ point \in Bearing)
        <4>1. status[u] = "running" /\ (u = t => pc[w] \notin Bearing)
          BY <1>3, <2>1, <3>2
        <4>2. PICK v \in started : pc[v] \in Bearing /\ of[arg[v]] = u
          BY <2>1, <4>1 DEF RunningOK, Bearing
        <4>3. v # w
          BY <4>1, <4>2
        <4> QED BY <1>5, <4>2, <4>3
      <3> QED BY <3>1, <3>2
    <2>2. ASSUME NEW v \in Workers, pc'[v] \in Busy \ {"begin", "starting"}
          PROVE  status'[of'[arg'[v]]] # "pending"
      <3>1. CASE v = w
        BY <1>2, <2>2, <3>1
      <3>2. CASE v # w
        <4>1. of[arg[v]] \in Tasks /\ status[of[arg[v]]] # "pending"
          BY <1>5, <2>2, <3>2, PlacesTypes DEF PlacesOK, FuturesOK, RunningOK, At
        <4> QED BY <1>3, <4>1
      <3> QED BY <3>1, <3>2
    <2>3. \A e \in Futures : fut'[e] = "done" => status'[of'[e]] # "pending"
      BY <1>3 DEF RunningOK, FuturesOK
    <2> QED BY <2>1, <2>2, <2>3 DEF RunningOK, Bearing
  <1> QED BY <1>4, <1>6, <1>7, <1>8, <1>9

\* A thread that deals with an item was started, and so the pool exists.
LEMMA BusyStarted ==
    ASSUME AsyncInv, NEW w \in Workers, pc[w] \in Busy
    PROVE  /\ w \in started /\ pool \in {"open", "down"}
           /\ of[arg[w]] \in Tasks /\ status[of[arg[w]]] \in TaskStatus
           /\ closed \in BOOLEAN /\ (pool = "down" => closed)
           /\ left \in [Workers -> 0..MaxAttempts]
           /\ aim \in [Workers -> {"succeeded", "failed", "cancelled", None}]
           /\ escaped \in SUBSET Tasks
           /\ pc[w] \notin {"begin", "starting"} => status[of[arg[w]]] # "pending"
  <1>1. pc[w] # "idle"
    BY PlacesTypes
  <1> QED BY <1>1 DEF AsyncInv, TypeOK, PlacesOK, PoolOK, FuturesOK, RunningOK, At

LEMMA BeginInv ==
    ASSUME AsyncInv, NEW w \in Workers, Begin(w) \/ WriteRunning(w)
    PROVE  AsyncInv'
  <1> USE DEF pools, Busy, Bearing
  <1>1. CASE Begin(w)
    <2>1. pc[w] = "begin"
      BY <1>1 DEF Begin, At
    <2>2. CASE CanTransition(status[of[arg[w]]], "running")
      <3>1. Goto(w, "starting")
        BY <1>1, <2>2 DEF Begin
      <3> QED BY <1>1, <2>1, <3>1, BusyStarted, WorkInv DEF Begin
    <2>3. CASE ~CanTransition(status[of[arg[w]]], "running")
      <3>1. Goto(w, "retry")
        BY <1>1, <2>3 DEF Begin
      <3>2. status[of[arg[w]]] # "pending"
        BY <2>3 DEF CanTransition, AllowedTransitions
      <3> QED BY <1>1, <2>1, <3>1, <3>2, BusyStarted, WorkInv DEF Begin
    <2> QED BY <2>2, <2>3
  <1>2. CASE WriteRunning(w)
    <2>1. /\ pc[w] = "starting" /\ Goto(w, "handler")
          /\ status' = [status EXCEPT ![of[arg[w]]] = "running"]
      BY <1>2 DEF WriteRunning, At
    <2>2. status'[of[arg[w]]] = "running" /\ "running" \in TaskStatus
      BY <2>1, BusyStarted DEF AsyncInv, TypeOK, TaskStatus
    <2> QED BY <1>2, <2>1, <2>2, BusyStarted, WorkInv DEF WriteRunning
  <1> QED BY <1>1, <1>2

LEMMA HandlerEndsInv ==
    ASSUME AsyncInv, NEW w \in Workers, HandlerEnds(w) \/ HandlerEscapes(w)
    PROVE  AsyncInv'
  <1> DEFINE t == of[arg[w]]
  <1> USE DEF pools, Busy, Bearing
  <1>1. /\ pc[w] = "handler" /\ w \in started /\ t \in Tasks /\ status[t] # "pending"
        /\ status[t] \in TaskStatus
    BY BusyStarted DEF HandlerEnds, HandlerEscapes, At
  <1>2. CASE HandlerEscapes(w)
    BY <1>1, <1>2, BusyStarted, FinishInv DEF HandlerEscapes
  <1>3. CASE HandlerEnds(w)
    <2>1. PICK end \in {"succeeded", "failed", "cancelled"} :
             LET now  == status[t]
                 last == IF now = "cancelled" THEN "cancelled" ELSE end
             IN  IF last = now /\ last # "failed"
                   THEN Finish(w)
                   ELSE /\ IF CanTransition(now, last)
                             THEN Goto(w, "ending") /\ aim' = [aim EXCEPT ![w] = last]
                             ELSE Goto(w, "retry") /\ UNCHANGED aim
                        /\ UNCHANGED <<fut, arg, left>>
      BY <1>3 DEF HandlerEnds
    <2> DEFINE last == IF status[t] = "cancelled" THEN "cancelled" ELSE end
    <2>2. last \in {"succeeded", "failed", "cancelled"} /\ last # None
      BY AsyncAssumption DEF TaskStatus
    <2>3. CASE last = status[t] /\ last # "failed"
      BY <1>1, <1>3, <2>1, <2>3, BusyStarted, FinishInv DEF HandlerEnds
    <2>4. CASE ~(last = status[t] /\ last # "failed") /\ CanTransition(status[t], last)
      <3>1. /\ Goto(w, "ending") /\ aim' = [aim EXCEPT ![w] = last]
            /\ UNCHANGED <<fut, arg, left>>
        BY <2>1, <2>4
      <3>2. /\ aim' \in [Workers -> {"succeeded", "failed", "cancelled", None}]
            /\ aim'[w] = last /\ \A v \in Workers \ {w} : aim'[v] = aim[v]
        BY <1>1, <2>2, <3>1, BusyStarted
      <3> QED BY <1>1, <1>3, <2>2, <3>1, <3>2, BusyStarted, WorkInv DEF HandlerEnds
    <2>5. CASE ~(last = status[t] /\ last # "failed") /\ ~CanTransition(status[t], last)
      <3>1. Goto(w, "retry") /\ UNCHANGED <<aim, fut, arg, left>>
        BY <2>1, <2>5
      <3>2. status[t] # "running"
        BY <2>2, <2>5 DEF CanTransition, AllowedTransitions
      <3> QED BY <1>1, <1>3, <3>1, <3>2, BusyStarted, WorkInv DEF HandlerEnds
    <2> QED BY <2>3, <2>4, <2>5
  <1> QED BY <1>2, <1>3

LEMMA WriteEndInv ==
    ASSUME AsyncInv, NEW w \in Workers, WriteEnd(w)
    PROVE  AsyncInv'
  <1> DEFINE t == of[arg[w]]
  <1> USE DEF pools, Busy, Bearing
  <1>1. /\ pc[w] = "ending" /\ w \in started /\ t \in Tasks
        /\ aim[w] \in {"succeeded", "failed", "cancelled"}
        /\ status' = [status EXCEPT ![t] = aim[w]]
    BY BusyStarted DEF WriteEnd, At, AsyncInv, PlacesOK
  <1>2. status'[t] = aim[w] /\ aim[w] \in TaskStatus
    BY <1>1 DEF AsyncInv, TypeOK, TaskStatus
  <1>3. CASE aim[w] = "failed"
    <2>1. /\ Goto(w, "retry") /\ aim' = [aim EXCEPT ![w] = None]
          /\ UNCHANGED <<fut, arg, left, of, queue, pools, previous, escaped>>
      BY <1>3 DEF WriteEnd
    <2>2. /\ aim' \in [Workers -> {"succeeded", "failed", "cancelled", None}]
          /\ \A v \in Workers \ {w} : aim'[v] = aim[v]
      BY <1>1, <2>1, BusyStarted
    <2> QED BY <1>1, <1>2, <2>1, <2>2, BusyStarted, WorkInv
  <1>4. CASE aim[w] # "failed"
    BY <1>1, <1>2, <1>4, BusyStarted, FinishInv DEF WriteEnd
  <1> QED BY <1>3, <1>4

LEMMA RetryInv ==
    ASSUME AsyncInv, NEW w \in Workers, Retry(w)
    PROVE  AsyncInv'
  <1> DEFINE t == of[arg[w]]
  <1> USE DEF pools, Busy, Bearing
  <1>1. pc[w] = "retry" /\ w \in started /\ t \in Tasks /\ status[t] # "pending"
    BY BusyStarted DEF Retry, At
  <1>2. CASE status[t] = "failed" /\ left[w] > 1
    <2>1. /\ left' = [left EXCEPT ![w] = left[w] - 1] /\ Goto(w, "begin")
          /\ UNCHANGED <<fut, arg, aim, status, of, queue, pools, previous, escaped>>
      BY <1>2 DEF Retry
    <2>2. left[w] - 1 \in 0..MaxAttempts
      <3>1. left[w] \in 0..MaxAttempts /\ MaxAttempts \in Nat
        BY <1>1, BusyStarted, AsyncAssumption
      <3> QED BY <1>2, <3>1
    <2>3. left' \in [Workers -> 0..MaxAttempts]
      BY <1>1, <2>1, <2>2, BusyStarted
    <2> QED BY <1>1, <1>2, <2>1, <2>3, BusyStarted, WorkInv
  <1>3. CASE ~(status[t] = "failed" /\ left[w] > 1)
    BY <1>1, <1>3, BusyStarted, FinishInv DEF Retry
  <1> QED BY <1>2, <1>3

LEMMA ExitInv ==
    ASSUME AsyncInv, NEW w \in Workers, Exit(w)
    PROVE  AsyncInv'
  <1> USE DEF AsyncInv
  <1>1. /\ w \in started /\ pc[w] = "idle" /\ pool = "down" /\ queue = <<>>
        /\ exited' = exited \cup {w}
        /\ UNCHANGED <<status, of, fut, queue, closed, pool, started, pc, arg, aim, previous,
                       left, escaped>>
    BY DEF Exit, At, locals
  <1>2. TypeOK'
    BY <1>1 DEF TypeOK
  <1>3. PoolOK'
    BY <1>1 DEF PoolOK, TypeOK, At
  <1>4. PlacesOK' /\ FuturesOK' /\ RunningOK'
    BY <1>1 DEF PlacesOK, FuturesOK, RunningOK, At
  <1> QED BY <1>2, <1>3, <1>4

\* The owner starts or ends its shutdown; a handler's is a step of its worker.
LEMMA OwnerInv ==
    ASSUME AsyncInv, Shutdown(Owner) \/ Join(Owner)
    PROVE  AsyncInv'
  <1> USE DEF AsyncInv, pools
  <1>1. /\ UNCHANGED <<status, of, fut, queue, started, exited, arg, aim, previous, left, escaped>>
        /\ Owner \in Threads
    BY Kinds DEF Shutdown, Join
  <1>2. /\ closed' \in BOOLEAN /\ (closed => closed')
        /\ pool' \in {"none", "open", "down"} /\ (pool' = "down" => closed')
        /\ (pool = "down" => pool' = "down") /\ (pool' # "none" <=> pool # "none")
    BY DEF Shutdown, Join, TypeOK
  <1>3. \/ UNCHANGED pc /\ (pc[Owner] \in {"joining", "returned"} => pool' = "down")
        \/ Goto(Owner, "joining") /\ pool' = "down" /\ pc[Owner] = "idle"
        \/ Goto(Owner, "returned") /\ pool' = "down" /\ started \ {Owner} \subseteq exited
    BY DEF Shutdown, Join, PoolOK, At
  <1>4. /\ pc' \in [Threads -> Places]
        /\ \A o \in Threads \ {Owner} : pc'[o] = pc[o]
        /\ pc'[Owner] \in {"idle", "joining", "returned"}
        /\ pc'[Owner] \in {"joining", "returned"} => pool' = "down"
        /\ pc'[Owner] = "returned" => started = exited
    <2>1. CASE UNCHANGED pc /\ (pc[Owner] \in {"joining", "returned"} => pool' = "down")
      BY <2>1 DEF TypeOK, PlacesOK, PoolOK, At
    <2>2. CASE Goto(Owner, "joining") /\ pool' = "down"
      BY <1>1, <2>2, GotoOne, PlacesTypes DEF TypeOK, Goto, Busy
    <2>3. CASE Goto(Owner, "returned") /\ pool' = "down" /\ started \ {Owner} \subseteq exited
      <3>1. started = exited
        <4>1. started \subseteq Workers /\ exited \subseteq started
          BY DEF TypeOK
        <4> QED BY <2>3, <4>1, Kinds
      <3>2. pc'[Owner] = "returned" /\ \A o \in Threads \ {Owner} : pc'[o] = pc[o]
        BY <1>1, <2>3, GotoOne DEF TypeOK
      <3>3. pc' \in [Threads -> Places]
        BY <1>1, <2>3, PlacesTypes DEF TypeOK, Goto
      <3> QED BY <2>3, <3>1, <3>2, <3>3
    <2> QED BY <1>3, <2>1, <2>2, <2>3
  <1>5. (\A c \in Clients : pc'[c] = pc[c]) /\ (\A v \in Workers : pc'[v] = pc[v])
    BY <1>4, Kinds
  <1>6. TypeOK'
    BY <1>1, <1>2, <1>4 DEF TypeOK
  <1>7. PlacesOK'
    BY <1>1, <1>4, <1>5 DEF PlacesOK, At
  <1>8. PoolOK'
    BY <1>1, <1>2, <1>4, <1>5 DEF PoolOK, TypeOK, At
  <1>9. FuturesOK'
    <2>1. \A v \in started : pc'[v] = pc[v]
      BY <1>5 DEF TypeOK
    <2> QED BY <1>1, <2>1 DEF FuturesOK
  <1>10. RunningOK'
    <2>1. \A v \in started : pc'[v] = pc[v]
      BY <1>5 DEF TypeOK
    <2> QED BY <1>1, <1>5, <2>1 DEF RunningOK
  <1> QED BY <1>6, <1>7, <1>8, <1>9, <1>10

LEMMA HandlerShutdownInv ==
    ASSUME AsyncInv, NEW w \in Workers, Shutdown(w) \/ Join(w)
    PROVE  AsyncInv'
  <1> USE DEF pools, Busy, Bearing
  <1>1. /\ UNCHANGED <<status, of, fut, queue, started, exited, arg, aim, previous, left, escaped>>
        /\ pc[w] \in {"handler", "joining"} /\ w # Owner
    BY Kinds DEF Shutdown, Join, At
  <1>2. w \in started /\ pool \in {"open", "down"}
    BY <1>1, BusyStarted
  <1>3. \E point \in {"handler", "joining"} : Goto(w, point)
    BY <1>1, <1>2 DEF Shutdown, Join
  <1>4. /\ closed' \in BOOLEAN /\ pool' \in {"open", "down"} /\ (pool' = "down" => closed')
        /\ (pool = "down" => pool' = "down")
    <2>1. closed \in BOOLEAN /\ (pool = "down" => closed)
      BY <1>1, BusyStarted
    <2> QED BY <1>2, <2>1 DEF Shutdown, Join
  <1> QED BY <1>1, <1>2, <1>3, <1>4, BusyStarted, WorkInv

LEMMA NextInv == AsyncInv /\ [Next]_vars => AsyncInv'
  <1> SUFFICES ASSUME AsyncInv, [Next]_vars PROVE AsyncInv'
    OBVIOUS
  <1>1. ASSUME NEW w \in Workers, Work(w) PROVE AsyncInv'
    BY <1>1, TakeInv, BeginInv, HandlerEndsInv, WriteEndInv, RetryInv, ExitInv DEF Work
  <1>2. ASSUME NEW th \in Threads, Shutdown(th) \/ Join(th) PROVE AsyncInv'
    <2>1. th \in Workers \/ th = Owner
      BY <1>2, Kinds DEF Shutdown, Join, At, AsyncInv, PlacesOK
    <2> QED BY <1>2, <2>1, OwnerInv, HandlerShutdownInv
  <1>3. CASE UNCHANGED vars
    BY <1>3
    DEF vars, pools, locals, AsyncInv, TypeOK, PlacesOK, PoolOK, FuturesOK, RunningOK, At
  <1> QED BY <1>1, <1>2, <1>3, SubmitInv, FutureCancelInv, CancelInv DEF Next

-----------------------------------------------------------------------------
(* The theorems.                                                           *)

\* The inductive invariant of submission and shutdown holds in every reachable state.
THEOREM AsyncInvariant == Spec => []AsyncInv
  <1>1. Init => AsyncInv
    BY InitInv
  <1>2. AsyncInv /\ [Next]_vars => AsyncInv'
    BY NextInv
  <1> QED BY <1>1, <1>2, PTL DEF Spec

\* When the owner's shutdown() returns all futures are settled: all threads have ended, none
\* ends before the queue is empty, and a future that is not settled needs one or the other.
THEOREM ShutdownHasDrained == Spec => []ShutdownDrains
  <1>1. AsyncInv => ShutdownDrains
    <2> SUFFICES ASSUME AsyncInv, At(Owner, "returned"), NEW f \in Futures, fut[f] # "none",
                        ~Settled(f)
                 PROVE  FALSE
      BY DEF ShutdownDrains
    <2>1. started = exited /\ started # {} /\ queue = <<>>
      BY DEF AsyncInv, PoolOK, At
    <2>2. fut[f] # "pending"
      BY <2>1 DEF AsyncInv, FuturesOK
    <2>3. fut[f] # "running"
      BY <2>1, PlacesTypes DEF AsyncInv, FuturesOK, PoolOK, At
    <2> QED BY <2>2, <2>3 DEF AsyncInv, TypeOK, Settled
  <1> QED BY <1>1, AsyncInvariant, PTL

\* ... and the tasks of those that ran have ended: some thread has still to write the end of
\* a RUNNING task, and all threads are gone.
THEOREM ShutdownEndsTasks == Spec => []TasksHaveEnded
  <1>1. AsyncInv => TasksHaveEnded
    <2> SUFFICES ASSUME AsyncInv, At(Owner, "returned"), NEW f \in Futures, fut[f] = "done",
                        of[f] \notin escaped
                 PROVE  IsTerminal(status[of[f]])
      BY DEF TasksHaveEnded
    <2>1. of[f] \in Tasks /\ status[of[f]] \in TaskStatus
      BY DEF AsyncInv, FuturesOK, TypeOK
    <2>2. status[of[f]] # "running"
      BY <2>1 DEF AsyncInv, RunningOK, PoolOK, At
    <2>3. status[of[f]] # "pending"
      BY DEF AsyncInv, RunningOK
    <2> QED BY <2>1, <2>2, <2>3 DEF TaskStatus, IsTerminal
  <1> QED BY <1>1, AsyncInvariant, PTL
=============================================================================
