-------------------------- MODULE TaskGraphProofs --------------------------
(***************************************************************************)
(* TLAPS proofs about TaskGraph, for every set of tasks, every graph, and  *)
(* every number of workers, runs, additions and cancellations.             *)
(***************************************************************************)
EXTENDS TaskGraph, TLAPS

\* Removing, replacing or covering the innermost activation of a stack.
LEMMA PopStack ==
    ASSUME NEW S, NEW s \in Seq(S), s # <<>>
    PROVE  /\ Head(s) \in S /\ Head(s) = s[1] /\ 1 \in DOMAIN s
           /\ Tail(s) \in Seq(S)
           /\ Len(Tail(s)) = Len(s) - 1
           /\ \A i \in 1 .. Len(s) - 1 : Tail(s)[i] = s[i + 1]
  OBVIOUS

LEMMA ReplaceTop ==
    ASSUME NEW S, NEW s \in Seq(S), s # <<>>, NEW x \in S,
           NEW r, r = <<x>> \o Tail(s)
    PROVE  /\ r \in Seq(S) /\ r # <<>> /\ Len(r) = Len(s)
           /\ r[1] = x /\ Head(r) = x
           /\ \A i \in 2 .. Len(s) : r[i] = s[i]
  BY PopStack

LEMMA CoverTop ==
    ASSUME NEW S, NEW s \in Seq(S), s # <<>>, NEW x \in S, NEW y \in S,
           NEW r, r = <<x, y>> \o Tail(s)
    PROVE  /\ r \in Seq(S) /\ r # <<>> /\ Len(r) = Len(s) + 1
           /\ r[1] = x /\ Head(r) = x /\ r[2] = y
           /\ \A i \in 3 .. Len(s) + 1 : r[i] = s[i - 1]
  BY PopStack

-----------------------------------------------------------------------------
(* Shapes of the innermost activation.                                     *)

LEMMA TopLemma ==
    ASSUME TypeOK, frames # <<>>
    PROVE  /\ Top \in Frame /\ Top = frames[1] /\ 1 \in DOMAIN frames
           /\ Top.of \in Tasks \cup {Main} /\ Top.pos \in Nat
           /\ Top.changed \in BOOLEAN /\ Top.bad \in Tasks \cup {None}
           /\ NextVisit(TRUE) \in Frame /\ NextVisit(Top.changed) \in Frame
           /\ NextVisit(TRUE).step = "visit" /\ NextVisit(Top.changed).step = "visit"
           /\ NextVisit(TRUE).pos >= 1 /\ NextVisit(Top.changed).pos >= 1
  <1>1. Top \in Frame /\ Top = frames[1] /\ 1 \in DOMAIN frames
    BY PopStack DEF TypeOK, Top
  <1>2. /\ Top.of \in Tasks \cup {Main} /\ Top.pos \in Nat
        /\ Top.changed \in BOOLEAN /\ Top.bad \in Tasks \cup {None}
    BY <1>1 DEF Frame
  <1>3. ASSUME NEW c \in BOOLEAN
        PROVE  /\ NextVisit(c) \in Frame
               /\ NextVisit(c).step = "visit" /\ NextVisit(c).pos >= 1
    BY <1>2 DEF NextVisit, Frame, Step
  <1>4. /\ NextVisit(TRUE) \in Frame /\ NextVisit(TRUE).step = "visit"
        /\ NextVisit(TRUE).pos >= 1
    BY <1>3
  <1>5. /\ NextVisit(Top.changed) \in Frame /\ NextVisit(Top.changed).step = "visit"
        /\ NextVisit(Top.changed).pos >= 1
    BY <1>2, <1>3
  <1>. QED  BY <1>1, <1>2, <1>4, <1>5

LEMMA NewFrameLemma ==
    ASSUME NEW who \in Tasks \cup {Main}
    PROVE  /\ NewFrame(who) \in Frame
           /\ NewFrame(who).step = "visit" /\ NewFrame(who).pos = 1
  BY DEF NewFrame, Frame, Step

LEMMA VisitedLemma ==
    ASSUME TypeOK, frames # <<>>, Top.pos \in 1 .. Len(order)
    PROVE  Visited \in Registered /\ Visited \in Tasks
  <1>1. order \in Seq(Tasks)
    BY DEF TypeOK
  <1>2. Top.pos \in DOMAIN order
    BY <1>1
  <1>. QED  BY <1>1, <1>2 DEF Visited, Registered

\* The innermost activation goes on with another frame.
LEMMA ContinueLemma ==
    ASSUME TypeOK, FramesOK, frames # <<>>, order' = order,
           NEW f \in Frame, Continue(f), f.pos >= 1,
           f.step \in {"block", "register"} => f.pos <= Len(order)
    PROVE  /\ frames' \in Seq(Frame) /\ frames' # <<>> /\ FramesOK'
           /\ Head(frames') = f
  <1>1. /\ frames' \in Seq(Frame) /\ frames' # <<>> /\ Len(frames') = Len(frames)
        /\ frames'[1] = f /\ Head(frames') = f
        /\ \A i \in 2 .. Len(frames) : frames'[i] = frames[i]
    BY ReplaceTop DEF TypeOK, Continue
  <1>2. ASSUME NEW i \in DOMAIN frames'
        PROVE  /\ i > 1 => frames'[i].step = "visit"
               /\ frames'[i].pos >= 1
               /\ frames'[i].step \in {"block", "register"} =>
                     frames'[i].pos <= Len(order)
    <2>1. CASE i = 1
      BY <2>1, <1>1
    <2>2. CASE i # 1
      <3>1. i \in 2 .. Len(frames) /\ i \in DOMAIN frames
        BY <2>2, <1>1 DEF TypeOK
      <3>. QED  BY <3>1, <1>1 DEF FramesOK
    <2>. QED  BY <2>1, <2>2
  <1>. QED  BY <1>1, <1>2 DEF FramesOK

\* The innermost activation ends.
LEMMA PopLemma ==
    ASSUME TypeOK, FramesOK, frames # <<>>, order' = order,
           frames' = Tail(frames)
    PROVE  /\ frames' \in Seq(Frame) /\ FramesOK'
           /\ frames' # <<>> => Head(frames').step = "visit"
  <1>1. /\ frames' \in Seq(Frame) /\ Len(frames') = Len(frames) - 1
        /\ \A i \in 1 .. Len(frames) - 1 : frames'[i] = frames[i + 1]
    BY PopStack DEF TypeOK
  <1>2. ASSUME NEW i \in DOMAIN frames'
        PROVE  frames'[i].step = "visit" /\ frames'[i].pos >= 1
    <2>1. i + 1 \in DOMAIN frames /\ i + 1 > 1 /\ frames'[i] = frames[i + 1]
      BY <1>1 DEF TypeOK
    <2>. QED  BY <2>1 DEF FramesOK
  <1>3. frames' # <<>> => 1 \in DOMAIN frames' /\ Head(frames') = frames'[1]
    BY <1>1
  <1>. QED  BY <1>1, <1>2, <1>3 DEF FramesOK

\* schedule() is entered with the lock free.
LEMMA EnterLemma ==
    ASSUME NEW who \in Tasks \cup {Main}, frames' = <<NewFrame(who)>>
    PROVE  /\ frames' \in Seq(Frame) /\ frames' # <<>> /\ FramesOK'
           /\ Head(frames').step = "visit"
  BY NewFrameLemma DEF FramesOK

\* schedule() is entered from inside itself.
LEMMA ReenterLemma ==
    ASSUME TypeOK, FramesOK, frames # <<>>, order' = order,
           NEW who \in Tasks,
           frames' = <<NewFrame(who), NextVisit(TRUE)>> \o Tail(frames)
    PROVE  /\ frames' \in Seq(Frame) /\ frames' # <<>> /\ FramesOK'
           /\ Head(frames').step = "visit"
  <1>1. NewFrame(who) \in Frame /\ NextVisit(TRUE) \in Frame
    BY NewFrameLemma, TopLemma
  <1>2. /\ frames' \in Seq(Frame) /\ frames' # <<>>
        /\ Len(frames') = Len(frames) + 1
        /\ frames'[1] = NewFrame(who) /\ Head(frames') = NewFrame(who)
        /\ frames'[2] = NextVisit(TRUE)
        /\ \A i \in 3 .. Len(frames) + 1 : frames'[i] = frames[i - 1]
    <2>1. frames \in Seq(Frame) /\ frames # <<>>
      BY DEF TypeOK
    <2>. DEFINE x == NewFrame(who)  y == NextVisit(TRUE)
    <2>2. x \in Frame /\ y \in Frame /\ frames' = <<x, y>> \o Tail(frames)
      BY <1>1
    <2>. HIDE DEF x, y
    <2>3. /\ frames' \in Seq(Frame) /\ frames' # <<>>
          /\ Len(frames') = Len(frames) + 1
          /\ frames'[1] = x /\ Head(frames') = x /\ frames'[2] = y
          /\ \A i \in 3 .. Len(frames) + 1 : frames'[i] = frames[i - 1]
      BY ONLY <2>1, <2>2, CoverTop, SMTT(30)
    <2>. QED  BY <2>3 DEF x, y
  <1>4. NextVisit(TRUE).step = "visit" /\ NextVisit(TRUE).pos >= 1
    BY TopLemma, Zenon
  <1>5. Len(frames) \in Nat /\ DOMAIN frames = 1 .. Len(frames)
    BY DEF TypeOK
  <1>3. ASSUME NEW i \in DOMAIN frames'
        PROVE  frames'[i].step = "visit" /\ frames'[i].pos >= 1
    <2>1. CASE i = 1
      BY <2>1, <1>2, NewFrameLemma
    <2>2. CASE i = 2
      BY <2>2, <1>2, <1>4
    <2>3. CASE i > 2
      <3>1. /\ i \in 3 .. Len(frames) + 1
            /\ i - 1 \in DOMAIN frames /\ i - 1 > 1
        BY <2>3, <1>2, <1>5
      <3>. QED  BY <3>1, <1>2 DEF FramesOK
    <2>4. i \in Nat /\ i >= 1
      BY <1>2
    <2>. QED  BY <2>1, <2>2, <2>3, <2>4
  <1>. QED  BY <1>2, <1>3, NewFrameLemma DEF FramesOK

-----------------------------------------------------------------------------
(* Types, and the shape of the stack.                                      *)

LEMMA TypeInit == Init => TypeOK /\ FramesOK /\ IdleOK
  <1>. SUFFICES ASSUME Init PROVE TypeOK /\ FramesOK /\ IdleOK
    OBVIOUS
  <1>1. PICK g \in InitGraphs : /\ order = g.order /\ deps = g.deps
                                /\ finally = g.finally /\ optional = g.optional
    BY DEF Init
  <1>2. /\ order \in Seq(Tasks) /\ deps \in [Tasks -> Seq(Tasks)]
        /\ finally \subseteq Tasks /\ optional \subseteq finally
    BY <1>1, GraphsAssumption
  <1>3. TypeOK
    <2>1. done \in BOOLEAN /\ schedulerError \in BOOLEAN
      BY DEF Init
    <2>2. /\ status \in [Tasks -> TaskStatus]
          /\ blockedBy \in [Tasks -> Tasks \cup {None}]
          /\ fut \in [Tasks -> FutureState]
          /\ cb \in [Tasks -> {"none", "registered", "finished"}]
      BY DEF Init, TaskStatus, FutureState
    <2>3. queue \in Seq(Tasks) /\ frames \in Seq(Frame)
      BY DEF Init
    <2>. QED  BY <1>2, <2>1, <2>2, <2>3 DEF Init, TypeOK
  <1>4. FramesOK /\ IdleOK
    BY DEF Init, FramesOK, IdleOK
  <1>. QED  BY <1>3, <1>4

\* Steps of schedule() that leave everything but the stack alone.
LEMMA TypeVisit ==
    ASSUME TypeOK, FramesOK, VisitSkip \/ VisitBlock \/ EndPass \/ CheckFinished
    PROVE  TypeOK' /\ FramesOK'
  <1>0. /\ frames # <<>>
        /\ UNCHANGED <<graphVars, taskVars, poolVars, runVars, main, outcome, envVars>>
    BY DEF VisitSkip, VisitBlock, EndPass, CheckFinished, InPass, At
  <1>1. Top \in Frame /\ Top.pos \in Nat /\ Len(order) \in Nat
    <2>1. Len(order) \in Nat
      BY DEF TypeOK
    <2>. QED  BY <1>0, <2>1, TopLemma
  <1>2. Top.pos >= 1
    BY <1>0, TopLemma DEF FramesOK
  <1>3. frames' \in Seq(Frame) /\ FramesOK'
    <2>1. CASE VisitSkip
      <3>1. Continue(NextVisit(Top.changed))
        BY <2>1 DEF VisitSkip
      <3>2. /\ NextVisit(Top.changed) \in Frame
            /\ NextVisit(Top.changed).step = "visit"
            /\ NextVisit(Top.changed).pos >= 1
        BY <1>0, TopLemma
      <3>. QED  BY <1>0, <3>1, <3>2, ContinueLemma DEF graphVars
    <2>2. CASE VisitBlock
      <3>1. PICK i \in DOMAIN deps[Visited] :
               Continue([Top EXCEPT !.step = "block", !.bad = deps[Visited][i]])
        BY <2>2 DEF VisitBlock
      <3>2. Visited \in Tasks /\ Top.pos <= Len(order)
        <4>1. Top.pos \in 1 .. Len(order)
          BY <2>2 DEF VisitBlock, InPass
        <4>. QED  BY <1>0, <4>1, VisitedLemma
      <3>3. deps[Visited][i] \in Tasks
        <4>1. deps[Visited] \in Seq(Tasks)
          BY <3>2 DEF TypeOK
        <4>. QED  BY <4>1
      <3>. DEFINE f == [Top EXCEPT !.step = "block", !.bad = deps[Visited][i]]
      <3>4. f \in Frame /\ f.step = "block" /\ f.pos = Top.pos
        BY <1>1, <3>3 DEF Frame, Step
      <3>5. Continue(f)
        BY <3>1
      <3>. HIDE DEF f
      <3>. QED  BY <1>0, <1>2, <3>2, <3>4, <3>5, ContinueLemma DEF graphVars
    <2>3. CASE EndPass
      <3>. DEFINE f == [Top EXCEPT !.pos = 1, !.changed = FALSE]
                  g == [Top EXCEPT !.step = "check", !.pos = 1]
      <3>1. /\ f \in Frame /\ f.step = "visit" /\ f.pos = 1
            /\ g \in Frame /\ g.step = "check" /\ g.pos = 1
        BY <1>1, <2>3 DEF Frame, Step, EndPass, At
      <3>2. Continue(f) \/ Continue(g)
        BY <2>3 DEF EndPass
      <3>. HIDE DEF f, g
      <3>3. CASE Continue(f)
        BY <1>0, <3>1, <3>3, ContinueLemma DEF graphVars
      <3>4. CASE Continue(g)
        BY <1>0, <3>1, <3>4, ContinueLemma DEF graphVars
      <3>. QED  BY <3>2, <3>3, <3>4
    <2>4. CASE CheckFinished
      <3>. DEFINE f == [Top EXCEPT !.pos = Top.pos + 1]
                  g == [Top EXCEPT !.step = "guard", !.pos = 1]
      <3>1. /\ f \in Frame /\ f.step = "check" /\ f.pos >= 1
            /\ g \in Frame /\ g.step = "guard" /\ g.pos = 1
        <4>1. Top.step = "check"
          BY <2>4 DEF CheckFinished, At
        <4>2. Top.pos + 1 \in Nat /\ Top.pos + 1 >= 1
          BY <1>1
        <4>3. f \in Frame /\ f.step = "check" /\ f.pos = Top.pos + 1
          BY <1>1, <4>1, <4>2 DEF Frame, Step
        <4>4. g \in Frame /\ g.step = "guard" /\ g.pos = 1
          BY <1>1 DEF Frame, Step
        <4>. QED  BY <4>2, <4>3, <4>4
      <3>2. Continue(f) \/ Continue(g)
        BY <2>4 DEF CheckFinished
      <3>. HIDE DEF f, g
      <3>3. CASE Continue(f)
        BY <1>0, <3>1, <3>3, ContinueLemma DEF graphVars
      <3>4. CASE Continue(g)
        BY <1>0, <3>1, <3>4, ContinueLemma DEF graphVars
      <3>. QED  BY <3>2, <3>3, <3>4
    <2>. QED  BY <2>1, <2>2, <2>3, <2>4
  <1>4. TypeOK'
    BY <1>0, <1>3 DEF TypeOK, graphVars, taskVars, poolVars, runVars, envVars
  <1>. QED  BY <1>3, <1>4

\* schedule() returning or raising.
LEMMA TypeLeave ==
    ASSUME TypeOK, FramesOK, frames # <<>>, order' = order, Leave
    PROVE  /\ frames' \in Seq(Frame) /\ FramesOK'
           /\ cb' \in [Tasks -> {"none", "registered", "finished"}]
           /\ main' \in {"idle", "kickoff", "waiting", "closing"}
  <1>1. frames' \in Seq(Frame) /\ FramesOK'
    BY PopLemma DEF Leave
  <1>. QED  BY <1>1 DEF Leave, TypeOK

LEMMA TypeThrow ==
    ASSUME TypeOK, FramesOK, frames # <<>>, order' = order, Throw
    PROVE  /\ frames' \in Seq(Frame) /\ FramesOK'
           /\ cb' \in [Tasks -> {"none", "registered", "finished"}]
           /\ main' \in {"idle", "kickoff", "waiting", "closing"}
           /\ pool' \in {"none", "open", "closed"}
           /\ outcome' \in {"none", "returned", "raised", "invalid"}
  <1>1. frames' \in Seq(Frame) /\ FramesOK'
    BY PopLemma DEF Throw
  <1>. QED  BY <1>1 DEF Throw, TypeOK

\* Steps of schedule() that reach out of it.
LEMMA TypeSchedule ==
    ASSUME TypeOK, FramesOK,
           MarkBlocked \/ Submit \/ Register \/ AllFinished \/ Guard
    PROVE  TypeOK' /\ FramesOK'
  <1>0. frames # <<>> /\ UNCHANGED <<graphVars, envVars, enteringBlocked>>
    BY DEF MarkBlocked, Submit, Register, AllFinished, Guard, InPass, At
  <1>1. /\ Top \in Frame /\ Top.pos \in Nat /\ Top = frames[1] /\ 1 \in DOMAIN frames
        /\ Top.bad \in Tasks \cup {None}
    BY <1>0, TopLemma
  <1>2. order' = order
    BY <1>0 DEF graphVars
  <1>3. NextVisit(TRUE) \in Frame /\ NextVisit(TRUE).step = "visit" /\ NextVisit(TRUE).pos >= 1
    BY <1>0, TopLemma
  <1>4. Continue(NextVisit(TRUE)) => frames' \in Seq(Frame) /\ FramesOK'
    BY <1>0, <1>2, <1>3, ContinueLemma
  <1>5. Throw => /\ frames' \in Seq(Frame) /\ FramesOK'
                 /\ cb' \in [Tasks -> {"none", "registered", "finished"}]
                 /\ main' \in {"idle", "kickoff", "waiting", "closing"}
                 /\ pool' \in {"none", "open", "closed"}
                 /\ outcome' \in {"none", "returned", "raised", "invalid"}
    BY <1>0, <1>2, TypeThrow
  <1>6. Leave => /\ frames' \in Seq(Frame) /\ FramesOK'
                 /\ cb' \in [Tasks -> {"none", "registered", "finished"}]
                 /\ main' \in {"idle", "kickoff", "waiting", "closing"}
    BY <1>0, <1>2, TypeLeave
  <1>7. CASE MarkBlocked
    <2>1. /\ frames' \in Seq(Frame) /\ FramesOK'
          /\ cb' \in [Tasks -> {"none", "registered", "finished"}]
          /\ main' \in {"idle", "kickoff", "waiting", "closing"}
          /\ pool' \in {"none", "open", "closed"}
          /\ outcome' \in {"none", "returned", "raised", "invalid"}
      BY <1>4, <1>5, <1>7 DEF MarkBlocked, TypeOK
    <2>2. /\ status' \in [Tasks -> TaskStatus]
          /\ blockedBy' \in [Tasks -> Tasks \cup {None}]
      BY <1>1, <1>7 DEF MarkBlocked, TypeOK, TaskStatus, taskVars
    <2>. QED  BY <1>0, <1>7, <2>1, <2>2 DEF MarkBlocked, TypeOK, graphVars, envVars
  <1>8. CASE Submit
    <2>0. Top.pos \in 1 .. Len(order)
      BY <1>8 DEF Submit, InPass
    <2>1. Visited \in Tasks /\ Top.pos >= 1 /\ Top.pos <= Len(order)
      BY <1>0, <2>0, VisitedLemma
    <2>. DEFINE f == [Top EXCEPT !.step = "register"]
    <2>2. f \in Frame /\ f.step = "register" /\ f.pos = Top.pos
      BY <1>1 DEF Frame, Step
    <2>3. Continue(f) \/ Throw
      BY <1>8 DEF Submit
    <2>. HIDE DEF f
    <2>4. Continue(f) => frames' \in Seq(Frame) /\ FramesOK'
      BY <1>0, <1>2, <2>1, <2>2, ContinueLemma
    <2>5. /\ frames' \in Seq(Frame) /\ FramesOK'
          /\ cb' \in [Tasks -> {"none", "registered", "finished"}]
          /\ main' \in {"idle", "kickoff", "waiting", "closing"}
          /\ pool' \in {"none", "open", "closed"}
          /\ outcome' \in {"none", "returned", "raised", "invalid"}
      <3>1. CASE Throw
        BY <3>1, <1>5
      <3>2. CASE ~Throw
        <4>1. UNCHANGED <<cb, pool, main, outcome>>
          BY <3>2, <1>8 DEF Submit
        <4>. QED  BY <3>2, <2>3, <2>4, <4>1 DEF TypeOK
      <3>. QED  BY <3>1, <3>2
    <2>6. fut' \in [Tasks -> FutureState] /\ queue' \in Seq(Tasks)
      <3>1. \/ /\ fut' = [fut EXCEPT ![Visited] = "queued"]
               /\ queue' = Append(queue, Visited)
            \/ UNCHANGED <<fut, queue>>
        BY <1>8 DEF Submit
      <3>2. fut \in [Tasks -> FutureState] /\ queue \in Seq(Tasks)
        BY DEF TypeOK
      <3>. QED  BY <2>1, <3>1, <3>2 DEF FutureState
    <2>. QED  BY <1>0, <1>8, <2>5, <2>6 DEF Submit, TypeOK, graphVars, taskVars, envVars
  <1>9. CASE Register
    <2>1. Top.step = "register" /\ Top.pos >= 1 /\ Top.pos <= Len(order)
      BY <1>1, <1>9 DEF Register, At, FramesOK
    <2>2. Top.pos \in 1 .. Len(order)
      BY <1>1, <2>1 DEF TypeOK
    <2>3. Visited \in Tasks
      BY <1>0, <2>2, VisitedLemma
    <2>4. frames' = <<NewFrame(Visited), NextVisit(TRUE)>> \o Tail(frames)
             => frames' \in Seq(Frame) /\ FramesOK'
      BY <1>0, <1>2, <2>3, ReenterLemma
    <2>5. frames' \in Seq(Frame) /\ FramesOK'
      BY <1>4, <1>9, <2>4 DEF Register
    <2>6. cb' \in [Tasks -> {"none", "registered", "finished"}] /\ errors' \subseteq Tasks
      BY <1>9, <2>3 DEF Register, RecordError, TypeOK
    <2>. QED  BY <1>0, <1>9, <2>5, <2>6 DEF Register, TypeOK, graphVars, taskVars, envVars
  <1>10. CASE AllFinished
    <2>1. done' \in BOOLEAN
      BY <1>10 DEF AllFinished
    <2>. QED
      BY <1>0, <1>6, <1>10, <2>1 DEF AllFinished, TypeOK, graphVars, taskVars, envVars
  <1>11. CASE Guard
    <2>1. done' \in BOOLEAN /\ schedulerError' \in BOOLEAN
      BY <1>11, Zenon DEF Guard, TypeOK
    <2>. QED
      BY <1>0, <1>6, <1>11, <2>1 DEF Guard, TypeOK, graphVars, taskVars, envVars
  <1>. QED  BY <1>7, <1>8, <1>9, <1>10, <1>11

\* Steps that leave the stack and the graph alone.
LEMMA TypeWorker ==
    ASSUME TypeOK, FramesOK, NEW t \in Tasks,
           \/ ExecuteRejected(t) \/ ExecuteUnhandled(t) \/ ExecuteStart(t)
           \/ Handler(t) \/ CompleteFuture(t) \/ Cancel(t)
    PROVE  TypeOK' /\ FramesOK'
  <1>0. UNCHANGED <<graphVars, cb, runVars, frames, main, outcome, runs, adds>>
    BY DEF ExecuteRejected, ExecuteUnhandled, ExecuteStart, Handler, HandlerReturns,
           HandlerRaises, HandlerUnwinds, CompleteFuture, Cancel, poolVars, envVars
  <1>1. queue' \in Seq(Tasks)
    <2>1. queue' = queue \/ (queue # <<>> /\ queue' = Tail(queue))
      BY DEF ExecuteRejected, ExecuteUnhandled, ExecuteStart, Handler, HandlerReturns,
             HandlerRaises, HandlerUnwinds, CompleteFuture, Cancel, poolVars, Dequeue
    <2>2. queue \in Seq(Tasks)
      BY DEF TypeOK
    <2>. QED  BY <2>1, <2>2, PopStack
  <1>2. status' \in [Tasks -> TaskStatus] /\ fut' \in [Tasks -> FutureState]
    BY DEF ExecuteRejected, ExecuteUnhandled, ExecuteStart, Handler, HandlerReturns,
           HandlerRaises, HandlerUnwinds, CompleteFuture, Cancel, poolVars, taskVars,
           TypeOK, TaskStatus, FutureState
  <1>3. blockedBy' \in [Tasks -> Tasks \cup {None}] /\ raised' \subseteq Tasks
    BY DEF ExecuteRejected, ExecuteUnhandled, ExecuteStart, Handler, HandlerReturns,
           HandlerRaises, HandlerUnwinds, CompleteFuture, Cancel, poolVars, taskVars,
           TypeOK
  <1>4. cancels' \in Nat
    BY DEF ExecuteRejected, ExecuteUnhandled, ExecuteStart, Handler, HandlerReturns,
           HandlerRaises, HandlerUnwinds, CompleteFuture, Cancel, envVars, TypeOK
  <1>5. TypeOK'
    BY <1>0, <1>1, <1>2, <1>3, <1>4 DEF TypeOK, graphVars, runVars
  <1>. QED  BY <1>0, <1>5 DEF FramesOK, graphVars

LEMMA TypeCaller ==
    ASSUME TypeOK, FramesOK, IdleOK, Caller \/ \E t \in Tasks : OnFinish(t)
    PROVE  TypeOK' /\ FramesOK'
  <1>1. ASSUME NEW t \in Tasks, NEW ds \in DepLists, NEW isFinally \in BOOLEAN,
               NEW required \in BOOLEAN, Add(t, ds, isFinally, required)
        PROVE  TypeOK' /\ FramesOK'
    <2>1. frames = <<>> /\ frames' = <<>>
      BY <1>1 DEF Add, IdleOK
    <2>2. ds \in Seq(Tasks)
      BY GraphsAssumption
    <2>3. order' \in Seq(Tasks) /\ deps' \in [Tasks -> Seq(Tasks)] /\ adds' \in Nat
      BY <1>1, <2>2 DEF Add, OptionalAfter, TypeOK
    <2>4. finally' \subseteq Tasks /\ optional' \subseteq finally'
      BY <1>1 DEF Add, OptionalAfter, TypeOK
    <2>5. TypeOK'
      BY <1>1, <2>3, <2>4 DEF Add, TypeOK, taskVars, poolVars, runVars
    <2>. QED  BY <2>1, <2>5 DEF FramesOK
  <1>2. CASE RunRejected \/ RunEmpty \/ WaitDone \/ RunEnds
    <2>1. UNCHANGED <<graphVars, taskVars, poolVars, frames>>
      BY <1>2 DEF RunRejected, RunEmpty, WaitDone, RunEnds
    <2>2. TypeOK'
      BY <1>2, <2>1 DEF RunRejected, RunEmpty, WaitDone, RunEnds, TypeOK, graphVars,
                        taskVars, poolVars, runVars, envVars
    <2>. QED  BY <2>1, <2>2 DEF FramesOK, graphVars
  <1>3. CASE RunStart
    <2>1. frames' \in Seq(Frame) /\ FramesOK'
      BY <1>3, EnterLemma DEF RunStart
    <2>2. /\ fut' \in [Tasks -> FutureState]
          /\ cb' \in [Tasks -> {"none", "registered", "finished"}]
          /\ enteringBlocked' \subseteq Tasks
      BY <1>3 DEF RunStart, FutureState, Registered, TypeOK
    <2>3. done' \in BOOLEAN /\ schedulerError' \in BOOLEAN
      BY <1>3 DEF RunStart
    <2>4. runs' \in Nat /\ errors' = {} /\ raised' = {}
      BY <1>3 DEF RunStart, TypeOK
    <2>. QED
      BY <1>3, <2>1, <2>2, <2>3, <2>4 DEF RunStart, TypeOK, graphVars, taskVars
  <1>4. ASSUME NEW t \in Tasks, OnFinish(t)
        PROVE  TypeOK' /\ FramesOK'
    <2>1. frames' \in Seq(Frame) /\ FramesOK'
      BY <1>4, EnterLemma DEF OnFinish
    <2>2. errors' \subseteq Tasks
      BY <1>4 DEF OnFinish, RecordError, TypeOK
    <2>. QED
      BY <1>4, <2>1, <2>2 DEF OnFinish, TypeOK, graphVars, taskVars, poolVars, envVars
  <1>. QED  BY <1>1, <1>2, <1>3, <1>4 DEF Caller

LEMMA TypeStep ==
    ASSUME TypeOK, FramesOK, IdleOK, [Next]_vars
    PROVE  TypeOK' /\ FramesOK'
  <1>1. CASE Scheduler
    BY <1>1, TypeVisit, TypeSchedule DEF Scheduler
  <1>2. ASSUME NEW t \in Tasks, Worker(t) \/ Cancel(t)
        PROVE  TypeOK' /\ FramesOK'
    BY <1>2, TypeWorker, TypeCaller DEF Worker
  <1>3. CASE Caller
    BY <1>3, TypeCaller
  <1>4. CASE UNCHANGED vars
    BY <1>4 DEF vars, graphVars, taskVars, poolVars, runVars, envVars, TypeOK, FramesOK
  <1>. QED  BY <1>1, <1>2, <1>3, <1>4 DEF Next

-----------------------------------------------------------------------------
(* What one step can do to a run, to one future and to one task.           *)

\* The graph and entering_blocked are fixed during a run, and _errors grows.
LEMMA RunConstant ==
    ASSUME InRun, [Next]_vars
    PROVE  /\ UNCHANGED <<order, deps, finally, optional, enteringBlocked>>
           /\ errors \subseteq errors'
  <1>. USE DEF InRun, graphVars, runVars
  <1>1. CASE Scheduler
    BY <1>1 DEF Scheduler, VisitSkip, VisitBlock, MarkBlocked, Submit, Register,
                EndPass, CheckFinished, AllFinished, Guard, RecordError
  <1>2. ASSUME NEW t \in Tasks, Worker(t) \/ Cancel(t)
        PROVE  /\ UNCHANGED <<order, deps, finally, optional, enteringBlocked>>
               /\ errors \subseteq errors'
    BY <1>2 DEF Worker, ExecuteRejected, ExecuteUnhandled, ExecuteStart, Handler,
                HandlerReturns, HandlerRaises, HandlerUnwinds, CompleteFuture,
                OnFinish, RecordError, Cancel
  <1>3. CASE Caller
    BY <1>3 DEF Caller, Add, RunRejected, RunEmpty, RunStart, WaitDone, RunEnds
  <1>4. CASE UNCHANGED vars
    BY <1>4 DEF vars
  <1>. QED  BY <1>1, <1>2, <1>3, <1>4 DEF Next

\* A run begins with RunStart and nothing else.
LEMMA RunBegins ==
    ASSUME TypeOK, IdleOK, ~InRun, [Next]_vars
    PROVE  ~InRun' \/ RunStart
  <1>. USE DEF InRun
  <1>0. /\ main = "idle" /\ frames = <<>> /\ queue = <<>>
        /\ \A t \in Tasks : /\ fut[t] \in {"none", "done"}
                            /\ fut[t] = "done" => cb[t] # "registered"
    BY DEF IdleOK
  <1>1. CASE Scheduler
    BY <1>0, <1>1 DEF Scheduler, VisitSkip, VisitBlock, MarkBlocked, Submit, Register,
                EndPass, CheckFinished, AllFinished, Guard, InPass, At
  <1>2. ASSUME NEW t \in Tasks, Worker(t) \/ Cancel(t)
        PROVE  main' = main
    BY <1>2 DEF Worker, ExecuteRejected, ExecuteUnhandled, ExecuteStart, Handler,
                HandlerReturns, HandlerRaises, HandlerUnwinds, CompleteFuture,
                OnFinish, Cancel
  <1>3. CASE Caller
    BY <1>0, <1>3 DEF Caller, Add, RunRejected, RunEmpty, WaitDone, RunEnds
  <1>4. CASE UNCHANGED vars
    BY <1>4 DEF vars
  <1>. QED  BY <1>0, <1>1, <1>2, <1>3, <1>4 DEF Next

\* A future is born by Submit, queued, and then goes one way.
LEMMA FutureStep ==
    ASSUME TypeOK, QueueOK, InRun, [Next]_vars, NEW t \in Tasks
    PROVE  \/ fut'[t] = fut[t]
           \/ Submit /\ t = Visited /\ fut[t] = "none" /\ fut'[t] = "queued"
           \/ fut[t] = "queued" /\ fut'[t] \in {"running", "returning"}
           \/ fut[t] = "running" /\ fut'[t] = "returning"
           \/ fut[t] = "returning" /\ fut'[t] = "done"
  <1>. DEFINE G == \/ fut'[t] = fut[t]
                   \/ Submit /\ t = Visited /\ fut[t] = "none" /\ fut'[t] = "queued"
                   \/ fut[t] = "queued" /\ fut'[t] \in {"running", "returning"}
                   \/ fut[t] = "running" /\ fut'[t] = "returning"
                   \/ fut[t] = "returning" /\ fut'[t] = "done"
  <1>0. fut \in [Tasks -> FutureState]
    BY DEF TypeOK
  <1>1. CASE Scheduler
    <2>1. CASE Submit
      BY <1>0, <2>1 DEF Submit, Skipped, InFutures
    <2>2. CASE ~Submit
      BY <1>1, <2>2 DEF Scheduler, VisitSkip, VisitBlock, MarkBlocked, Register,
                EndPass, CheckFinished, AllFinished, Guard, poolVars
    <2>. QED  BY <2>1, <2>2
  <1>2. ASSUME NEW u \in Tasks, Worker(u) \/ Cancel(u)
        PROVE  G
    <2>1. CASE Dequeue(u)
      <3>1. 1 \in DOMAIN queue /\ queue[1] = u
        <4>1. queue \in Seq(Tasks) /\ queue # <<>> /\ u = Head(queue)
          BY <2>1 DEF Dequeue, TypeOK
        <4>. QED  BY <4>1, PopStack
      <3>2. fut[u] = "queued"
        BY <3>1 DEF QueueOK
      <3>. QED
        BY <1>0, <1>2, <2>1, <3>2 DEF Worker, ExecuteRejected, ExecuteUnhandled,
            ExecuteStart, Handler, HandlerReturns, HandlerRaises, HandlerUnwinds,
            CompleteFuture, OnFinish, Cancel, poolVars
    <2>2. CASE ~Dequeue(u)
      BY <1>0, <1>2, <2>2 DEF Worker, ExecuteRejected, ExecuteUnhandled,
            ExecuteStart, Handler, HandlerReturns, HandlerRaises, HandlerUnwinds,
            CompleteFuture, OnFinish, Cancel, poolVars
    <2>. QED  BY <2>1, <2>2
  <1>3. CASE Caller
    BY <1>3 DEF Caller, Add, RunRejected, RunEmpty, RunStart, WaitDone, RunEnds,
                InRun, poolVars
  <1>4. CASE UNCHANGED vars
    BY <1>4 DEF vars, poolVars
  <1>. QED  BY <1>1, <1>2, <1>3, <1>4 DEF Next

\* A status changes by an external cancel, by mark_blocked, or by the
\* execution of a task the pool holds; a sink status never changes.
LEMMA StatusStep ==
    ASSUME TypeOK, QueueOK, [Next]_vars, NEW t \in Tasks
    PROVE  \/ status'[t] = status[t] /\ blockedBy'[t] = blockedBy[t]
           \/ /\ ~IsSink(status[t]) /\ status'[t] = "cancelled"
              /\ blockedBy'[t] = blockedBy[t]
           \/ /\ MarkBlocked /\ t = Visited
              /\ status[t] = "pending" /\ status'[t] = "blocked"
              /\ blockedBy'[t] = Top.bad
           \/ fut[t] = "queued" /\ ~IsSink(status[t]) /\ status'[t] # "blocked"
           \/ fut[t] = "running" /\ status[t] = "running" /\ status'[t] # "blocked"
  <1>. DEFINE G == \/ status'[t] = status[t] /\ blockedBy'[t] = blockedBy[t]
                   \/ /\ ~IsSink(status[t]) /\ status'[t] = "cancelled"
                      /\ blockedBy'[t] = blockedBy[t]
                   \/ /\ MarkBlocked /\ t = Visited
                      /\ status[t] = "pending" /\ status'[t] = "blocked"
                      /\ blockedBy'[t] = Top.bad
                   \/ fut[t] = "queued" /\ ~IsSink(status[t]) /\ status'[t] # "blocked"
                   \/ fut[t] = "running" /\ status[t] = "running" /\ status'[t] # "blocked"
  <1>0. /\ status \in [Tasks -> TaskStatus]
        /\ blockedBy \in [Tasks -> Tasks \cup {None}]
    BY DEF TypeOK
  <1>1. CASE Scheduler
    <2>1. CASE MarkBlocked
      <3>1. CASE t = Visited /\ CanTransition(status[t], "blocked")
        <4>1. status[t] = "pending"
          BY <1>0, <3>1 DEF CanTransition, AllowedTransitions, TaskStatus
        <4>2. /\ status' = [status EXCEPT ![t] = "blocked"]
              /\ blockedBy' = [blockedBy EXCEPT ![t] = Top.bad]
          BY <2>1, <3>1 DEF MarkBlocked
        <4>. QED  BY <1>0, <2>1, <3>1, <4>1, <4>2
      <3>2. CASE ~(t = Visited /\ CanTransition(status[t], "blocked"))
        BY <1>0, <2>1, <3>2 DEF MarkBlocked, taskVars
      <3>. QED  BY <3>1, <3>2
    <2>2. CASE ~MarkBlocked
      BY <1>1, <2>2 DEF Scheduler, VisitSkip, VisitBlock, Submit, Register,
                EndPass, CheckFinished, AllFinished, Guard, taskVars
    <2>. QED  BY <2>1, <2>2
  <1>2. ASSUME NEW u \in Tasks, Worker(u) \/ Cancel(u)
        PROVE  G
    <2>1. CASE Dequeue(u) /\ CanTransition(status[u], "running")
      <3>1. 1 \in DOMAIN queue /\ queue[1] = u
        <4>1. queue \in Seq(Tasks) /\ queue # <<>> /\ u = Head(queue)
          BY <2>1 DEF Dequeue, TypeOK
        <4>. QED  BY <4>1, PopStack
      <3>2. fut[u] = "queued"
        BY <3>1 DEF QueueOK
      <3>3. ~IsSink(status[u])
        BY <1>0, <2>1 DEF CanTransition, AllowedTransitions, IsSink
      <3>. QED
        BY <1>0, <1>2, <2>1, <3>2, <3>3 DEF Worker, ExecuteRejected, ExecuteUnhandled,
            ExecuteStart, Handler, HandlerReturns, HandlerRaises, HandlerUnwinds,
            CompleteFuture, OnFinish, Cancel, taskVars, IsSink
    <2>2. CASE ~(Dequeue(u) /\ CanTransition(status[u], "running"))
      BY <1>0, <1>2, <2>2 DEF Worker, ExecuteRejected, ExecuteUnhandled,
            ExecuteStart, Handler, HandlerReturns, HandlerRaises, HandlerUnwinds,
            CompleteFuture, OnFinish, Cancel, taskVars, IsSink
    <2>. QED  BY <2>1, <2>2
  <1>3. CASE Caller
    BY <1>3 DEF Caller, Add, RunRejected, RunEmpty, RunStart, WaitDone, RunEnds, taskVars
  <1>4. CASE UNCHANGED vars
    BY <1>4 DEF vars, taskVars
  <1>. QED  BY <1>1, <1>2, <1>3, <1>4 DEF Next

-----------------------------------------------------------------------------
(* The parts of the invariant that do not depend on the graph's shape.     *)

LEMMA IdleStep ==
    ASSUME TypeOK, IdleOK, [Next]_vars
    PROVE  IdleOK'
  <1>. SUFFICES ASSUME main' = "idle"
                PROVE  /\ frames' = <<>> /\ queue' = <<>>
                       /\ \A t \in Tasks : /\ fut'[t] \in {"none", "done"}
                                           /\ fut'[t] = "done" => cb'[t] # "registered"
    BY DEF IdleOK
  <1>1. CASE main # "idle"
    <2>1. RunEnds
      <3>1. ~Scheduler
        BY <1>1 DEF Scheduler, VisitSkip, VisitBlock, MarkBlocked, Submit, Register,
              EndPass, CheckFinished, AllFinished, Guard, Leave, Throw
      <3>2. ASSUME NEW t \in Tasks PROVE ~Worker(t) /\ ~Cancel(t)
        BY <1>1 DEF Worker, ExecuteRejected, ExecuteUnhandled, ExecuteStart, Handler,
                HandlerReturns, HandlerRaises, HandlerUnwinds, CompleteFuture,
                OnFinish, Cancel
      <3>3. ~UNCHANGED vars
        BY <1>1 DEF vars
      <3>4. Caller
        BY <3>1, <3>2, <3>3 DEF Next
      <3>. QED
        BY <1>1, <3>4 DEF Caller, Add, RunRejected, RunEmpty, RunStart, WaitDone
    <2>2. /\ frames' = <<>> /\ queue' = <<>> /\ Busy = {} /\ fut' = fut /\ cb' = cb
          /\ \A t \in Tasks : fut[t] \in {"none", "done"}
      BY <2>1 DEF RunEnds, PoolIdle, poolVars
    <2>. QED  BY <2>2 DEF Busy
  <1>2. CASE main = "idle"
    <2>1. /\ frames = <<>> /\ queue = <<>>
          /\ \A t \in Tasks : /\ fut[t] \in {"none", "done"}
                              /\ fut[t] = "done" => cb[t] # "registered"
      BY <1>2 DEF IdleOK
    <2>2. ~Scheduler
      BY <2>1 DEF Scheduler, VisitSkip, VisitBlock, MarkBlocked, Submit, Register,
            EndPass, CheckFinished, AllFinished, Guard, InPass, At
    <2>3. ASSUME NEW t \in Tasks PROVE ~Worker(t)
      BY <2>1 DEF Worker, ExecuteRejected, ExecuteUnhandled, ExecuteStart, Dequeue,
            Handler, HandlerReturns, HandlerRaises, HandlerUnwinds, CompleteFuture,
            OnFinish, FutureIsDone
    <2>4. CASE Caller
      BY <1>2, <2>1, <2>4 DEF Caller, Add, RunRejected, RunEmpty, RunStart, WaitDone,
            RunEnds, poolVars
    <2>5. ASSUME NEW t \in Tasks, Cancel(t) PROVE UNCHANGED <<frames, queue, fut, cb>>
      BY <2>5 DEF Cancel, poolVars
    <2>6. CASE UNCHANGED vars
      BY <2>1, <2>6 DEF vars, poolVars
    <2>. QED  BY <2>1, <2>2, <2>3, <2>4, <2>5, <2>6 DEF Next
  <1>. QED  BY <1>1, <1>2

LEMMA QueueStep ==
    ASSUME TypeOK, FramesOK, QueueOK, IdleOK, [Next]_vars
    PROVE  QueueOK'
  <1>0. fut \in [Tasks -> FutureState] /\ queue \in Seq(Tasks)
    BY DEF TypeOK
  <1>1. CASE UNCHANGED <<queue, fut>>
    BY <1>1 DEF QueueOK
  <1>2. CASE Submit
    <2>1. CASE pool = "open"
      <3>1. Top.pos \in 1 .. Len(order) /\ frames # <<>>
        BY <1>2 DEF Submit, InPass, At
      <3>2. Visited \in Tasks
        BY <3>1, VisitedLemma
      <3>3. /\ fut[Visited] = "none"
            /\ fut' = [fut EXCEPT ![Visited] = "queued"]
            /\ queue' = Append(queue, Visited)
        BY <1>2, <2>1 DEF Submit, Skipped, InFutures
      <3>4. /\ Len(queue') = Len(queue) + 1 /\ Len(queue) \in Nat
            /\ DOMAIN queue = 1 .. Len(queue) /\ DOMAIN queue' = 1 .. Len(queue) + 1
            /\ queue'[Len(queue) + 1] = Visited
            /\ \A i \in DOMAIN queue : queue'[i] = queue[i] /\ queue[i] \in Tasks
        BY <1>0, <3>2, <3>3
      <3>5. \A i \in DOMAIN queue : queue[i] # Visited /\ fut'[queue[i]] = "queued"
        BY <1>0, <3>2, <3>3, <3>4 DEF QueueOK
      <3>6. \A i \in DOMAIN queue' : i \in DOMAIN queue \/ i = Len(queue) + 1
        BY <3>4
      <3>7. fut'[Visited] = "queued"
        BY <1>0, <3>2, <3>3
      <3>. QED  BY <3>4, <3>5, <3>6, <3>7 DEF QueueOK
    <2>2. CASE pool # "open"
      BY <1>1, <1>2, <2>2 DEF Submit
    <2>. QED  BY <2>1, <2>2
  <1>3. CASE Scheduler /\ ~Submit
    BY <1>1, <1>3 DEF Scheduler, VisitSkip, VisitBlock, MarkBlocked, Register,
          EndPass, CheckFinished, AllFinished, Guard, poolVars
  <1>4. ASSUME NEW t \in Tasks, Worker(t) \/ Cancel(t)
        PROVE  QueueOK'
    <2>1. CASE Dequeue(t)
      <3>1. queue # <<>> /\ queue' = Tail(queue) /\ queue[1] = t /\ 1 \in DOMAIN queue
        <4>1. queue # <<>> /\ queue' = Tail(queue) /\ t = Head(queue)
          BY <2>1 DEF Dequeue
        <4>. QED  BY <1>0, <4>1, PopStack
      <3>2. \A u \in Tasks \ {t} : fut'[u] = fut[u]
        BY <1>0, <1>4 DEF Worker, ExecuteRejected, ExecuteUnhandled, ExecuteStart,
          Handler, HandlerReturns, HandlerRaises, HandlerUnwinds, CompleteFuture,
          OnFinish, Cancel, poolVars
      <3>3. ASSUME NEW i \in DOMAIN queue'
            PROVE  /\ i + 1 \in DOMAIN queue /\ i + 1 # 1
                   /\ queue'[i] = queue[i + 1] /\ queue'[i] \in Tasks \ {t}
        <4>1. /\ Len(queue') = Len(queue) - 1 /\ queue' \in Seq(Tasks)
              /\ \A j \in 1 .. Len(queue) - 1 : queue'[j] = queue[j + 1]
          BY <1>0, <3>1, PopStack
        <4>2. i \in 1 .. Len(queue) - 1 /\ Len(queue) \in Nat
          BY <1>0, <4>1
        <4>3. i + 1 \in 1 .. Len(queue) /\ i + 1 # 1
          BY <4>2
        <4>4. i + 1 \in DOMAIN queue /\ queue'[i] = queue[i + 1] /\ queue[i + 1] \in Tasks
          BY <1>0, <4>1, <4>2, <4>3
        <4>5. queue[i + 1] # queue[1]
          BY <3>1, <4>3, <4>4 DEF QueueOK
        <4>6. queue'[i] \in Tasks \ {t}
          BY ONLY <3>1, <4>4, <4>5
        <4>. QED  BY ONLY <4>3, <4>4, <4>6
      <3>4. ASSUME NEW i \in DOMAIN queue'
            PROVE  fut'[queue'[i]] = "queued"
        BY <3>2, <3>3 DEF QueueOK
      <3>5. ASSUME NEW i \in DOMAIN queue', NEW j \in DOMAIN queue', queue'[i] = queue'[j]
            PROVE  i = j
        <4>1. i \in Nat /\ j \in Nat
          BY <1>0, <3>1
        <4>2. i + 1 \in DOMAIN queue /\ j + 1 \in DOMAIN queue
              /\ queue[i + 1] = queue[j + 1]
          BY <3>3, <3>5
        <4>3. i + 1 = j + 1
          BY <4>2 DEF QueueOK
        <4>. QED  BY <4>1, <4>3
      <3>. QED  BY <3>4, <3>5 DEF QueueOK
    <2>2. CASE ~Dequeue(t) /\ fut[t] # "queued"
      <3>1. queue' = queue /\ \A u \in Tasks \ {t} : fut'[u] = fut[u]
        BY <1>0, <1>4, <2>2 DEF Worker, ExecuteRejected, ExecuteUnhandled, ExecuteStart,
          Handler, HandlerReturns, HandlerRaises, HandlerUnwinds, CompleteFuture,
          OnFinish, Cancel, poolVars
      <3>2. \A i \in DOMAIN queue : queue[i] \in Tasks \ {t}
        BY <1>0, <2>2 DEF QueueOK
      <3>. QED  BY <3>1, <3>2 DEF QueueOK
    <2>3. CASE ~Dequeue(t) /\ fut[t] = "queued"
      BY <1>1, <1>4, <2>3 DEF Worker, ExecuteRejected, ExecuteUnhandled, ExecuteStart,
          Handler, HandlerReturns, HandlerRaises, HandlerUnwinds, CompleteFuture,
          OnFinish, Cancel, poolVars
    <2>. QED  BY <2>1, <2>2, <2>3
  <1>5. CASE RunStart
    BY <1>5 DEF RunStart, IdleOK, QueueOK
  <1>6. CASE Caller /\ ~RunStart
    BY <1>1, <1>6 DEF Caller, Add, RunRejected, RunEmpty, WaitDone, RunEnds, poolVars
  <1>7. CASE UNCHANGED vars
    BY <1>1, <1>7 DEF vars, poolVars
  <1>. QED  BY <1>2, <1>3, <1>4, <1>5, <1>6, <1>7 DEF Next

LEMMA ErrorsStep ==
    ASSUME TypeOK, QueueOK, IdleOK, ErrorsOK, [Next]_vars
    PROVE  ErrorsOK'
  <1>. SUFFICES ASSUME InRun', NEW t \in errors'
                PROVE  fut'[t] = "done"
    BY DEF ErrorsOK, FutureIsDone
  <1>1. CASE ~InRun
    BY <1>1, RunBegins DEF RunStart
  <1>2. CASE InRun /\ t \in errors
    <2>1. fut[t] = "done" /\ t \in Tasks
      BY <1>2 DEF ErrorsOK, FutureIsDone, TypeOK
    <2>. QED  BY <1>2, <2>1, FutureStep
  <1>3. CASE InRun /\ t \notin errors
    <2>1. CASE Scheduler
      BY <1>3, <2>1 DEF Scheduler, VisitSkip, VisitBlock, MarkBlocked, Submit, Register,
                EndPass, CheckFinished, AllFinished, Guard, RecordError, runVars,
                FutureIsDone
    <2>2. ASSUME NEW u \in Tasks, Worker(u) \/ Cancel(u)
          PROVE  fut'[t] = "done"
      BY <1>3, <2>2 DEF Worker, ExecuteRejected, ExecuteUnhandled, ExecuteStart,
                Handler, HandlerReturns, HandlerRaises, HandlerUnwinds, CompleteFuture,
                OnFinish, RecordError, Cancel, runVars, poolVars, FutureIsDone
    <2>3. CASE Caller
      BY <1>3, <2>3 DEF Caller, Add, RunRejected, RunEmpty, RunStart, WaitDone,
                RunEnds, InRun, runVars
    <2>4. CASE UNCHANGED vars
      BY <1>3, <2>4 DEF vars, runVars
    <2>. QED  BY <2>1, <2>2, <2>3, <2>4 DEF Next
  <1>. QED  BY <1>1, <1>2, <1>3

-----------------------------------------------------------------------------
(* The parts that relate a task to its upstream tasks.                     *)

LEMMA GraphTypes ==
    ASSUME TypeOK
    PROVE  /\ Registered \subseteq Tasks
           /\ \A t \in Tasks : Upstream(t) \subseteq Tasks
  <1>1. order \in Seq(Tasks) /\ deps \in [Tasks -> Seq(Tasks)]
    BY DEF TypeOK
  <1>2. \A i \in DOMAIN order : order[i] \in Tasks
    BY <1>1
  <1>3. ASSUME NEW t \in Tasks, NEW i \in DOMAIN deps[t] PROVE deps[t][i] \in Tasks
    <2>1. deps[t] \in Seq(Tasks)
      BY <1>1
    <2>. QED  BY <2>1
  <1>. QED  BY <1>2, <1>3 DEF Registered, Upstream

\* SUCCEEDED is for ever.
LEMMA SucceededStays ==
    ASSUME TypeOK, QueueOK, [Next]_vars, NEW t \in Tasks, Succeeded(t)
    PROVE  Succeeded(t)'
  BY StatusStep DEF Succeeded, IsSink

LEMMA RunsOnlyStep ==
    ASSUME TypeOK, QueueOK, IdleOK, RunsOnlyAfterDependencies, [Next]_vars
    PROVE  RunsOnlyAfterDependencies'
  <1>. SUFFICES ASSUME InRun', NEW t \in Registered' \ finally', fut'[t] # "none",
                       NEW d \in Upstream(t)'
                PROVE  Succeeded(d)'
    BY DEF RunsOnlyAfterDependencies, InFutures
  <1>1. CASE ~InRun
    <2>1. RunStart
      BY <1>1, RunBegins
    <2>2. Registered' = Registered /\ fut' = [x \in Tasks |-> "none"]
      BY <2>1 DEF RunStart, graphVars, Registered
    <2>. QED  BY <2>2, GraphTypes
  <1>2. CASE InRun
    <2>1. /\ t \in Registered \ finally /\ d \in Upstream(t)
          /\ t \in Tasks /\ d \in Tasks
      <3>1. UNCHANGED <<order, deps, finally>>
        BY <1>2, RunConstant
      <3>2. t \in Registered \ finally /\ d \in Upstream(t)
        BY <3>1 DEF Registered, Upstream
      <3>. QED  BY <3>2, GraphTypes
    <2>2. CASE fut[t] # "none"
      <3>1. Succeeded(d)
        BY <1>2, <2>1, <2>2 DEF RunsOnlyAfterDependencies, InFutures
      <3>. QED  BY <2>1, <3>1, SucceededStays
    <2>3. CASE fut[t] = "none"
      <3>1. Submit /\ t = Visited
        BY <1>2, <2>1, <2>3, FutureStep
      <3>2. Ready(t) /\ status' = status
        BY <3>1 DEF Submit, taskVars
      <3>. QED  BY <2>1, <3>2 DEF Ready, Succeeded
    <2>. QED  BY <2>2, <2>3
  <1>. QED  BY <1>1, <1>2

\* A settled task stays settled, and only an external cancel touches it.
LEMMA SettledStays ==
    ASSUME TypeOK, QueueOK, BlockingJustified, InRun, [Next]_vars,
           NEW t \in Tasks, Settled(t)
    PROVE  /\ Settled(t)' /\ fut'[t] = fut[t]
           /\ status'[t] \in {status[t], "cancelled"}
  <1>1. fut[t] \in {"none", "done"}
    BY DEF Settled, FutureIsDone
  <1>2. fut'[t] = fut[t]
    <2>1. CASE Submit /\ t = Visited /\ fut[t] = "none"
      BY <2>1 DEF Submit, Skipped, Settled, FutureIsDone
    <2>2. CASE ~(Submit /\ t = Visited /\ fut[t] = "none")
      BY <1>1, <2>2, FutureStep
    <2>. QED  BY <2>1, <2>2
  <1>3. ~(MarkBlocked /\ t = Visited /\ status[t] = "pending")
    <2>. SUFFICES ASSUME MarkBlocked, t = Visited, status[t] = "pending" PROVE FALSE
      OBVIOUS
    <2>1. fut[t] = "none"
      BY DEF BlockingJustified, MarkBlocked
    <2>. QED  BY <2>1 DEF Settled, FutureIsDone, IsSink
  <1>4. status'[t] \in {status[t], "cancelled"}
    BY <1>1, <1>3, StatusStep
  <1>5. enteringBlocked' = enteringBlocked
    BY RunConstant
  <1>. QED  BY <1>2, <1>4, <1>5 DEF Settled, FutureIsDone, IsSink

\* inactive() recognises exactly settled tasks when errors are in order.
LEMMA InactiveSettled ==
    ASSUME TypeOK, ErrorsOK, InRun, NEW t \in Tasks, Inactive(t)
    PROVE  Settled(t)
  <1>1. status[t] \in TaskStatus
    BY DEF TypeOK
  <1>2. CASE InFutures(t)
    BY <1>2 DEF Inactive, Settled
  <1>3. CASE ~InFutures(t)
    <2>1. fut[t] = "none" /\ t \notin errors
      BY <1>3 DEF InFutures, ErrorsOK, FutureIsDone
    <2>2. IsTerminal(status[t]) /\ ~Retryable(t)
      BY <1>3, <2>1 DEF Inactive
    <2>. QED
      BY <1>1, <1>3, <2>1, <2>2 DEF Retryable, CanTransition, AllowedTransitions,
         IsTerminal, IsSink, Settled
  <1>. QED  BY <1>2, <1>3

LEMMA FinallyStep ==
    ASSUME TypeOK, QueueOK, IdleOK, ErrorsOK, BlockingJustified,
           FinallyAfterSettled, [Next]_vars
    PROVE  FinallyAfterSettled'
  <1>. SUFFICES ASSUME InRun', NEW f \in Registered' \cap finally', fut'[f] # "none",
                       NEW d \in Upstream(f)'
                PROVE  Settled(d)'
    BY DEF FinallyAfterSettled, InFutures
  <1>1. CASE ~InRun
    <2>1. RunStart
      BY <1>1, RunBegins
    <2>2. Registered' = Registered /\ fut' = [x \in Tasks |-> "none"]
      BY <2>1 DEF RunStart, graphVars, Registered
    <2>. QED  BY <2>2, GraphTypes
  <1>2. CASE InRun
    <2>1. /\ f \in Registered \cap finally /\ d \in Upstream(f)
          /\ f \in Tasks /\ d \in Tasks
      <3>1. UNCHANGED <<order, deps, finally>>
        BY <1>2, RunConstant
      <3>2. f \in Registered \cap finally /\ d \in Upstream(f)
        BY <3>1 DEF Registered, Upstream
      <3>. QED  BY <3>2, GraphTypes
    <2>2. Settled(d)
      <3>1. CASE fut[f] # "none"
        BY <1>2, <2>1, <3>1 DEF FinallyAfterSettled, InFutures
      <3>2. CASE fut[f] = "none"
        <4>1. Submit /\ f = Visited
          BY <1>2, <2>1, <3>2, FutureStep
        <4>2. Inactive(d)
          BY <2>1, <4>1 DEF Submit, Ready
        <4>. QED  BY <1>2, <2>1, <4>2, InactiveSettled
      <3>. QED  BY <3>1, <3>2
    <2>. QED  BY <1>2, <2>1, <2>2, SettledStays
  <1>. QED  BY <1>1, <1>2

\* A reason to block does not go away while the run lasts.
LEMMA BadParentStays ==
    ASSUME TypeOK, QueueOK, ErrorsOK, InRun, [Next]_vars,
           NEW t \in Tasks, BadParent(t)
    PROVE  BadParent(t)'
  <1>1. status[t] \in TaskStatus /\ fut[t] \in {"none", "done"}
    BY DEF TypeOK, BadParent, InFutures, FutureIsDone
  <1>2. enteringBlocked' = enteringBlocked /\ errors \subseteq errors'
    BY RunConstant
  <1>3. fut[t] = "none" =>
          /\ t \notin errors
          /\ IsSink(status[t]) \/ (status[t] = "blocked" /\ t \notin enteringBlocked)
    BY <1>1 DEF ErrorsOK, FutureIsDone, BadParent, IsBad, Retryable, InFutures,
                CanTransition, AllowedTransitions, IsSink
  <1>4. fut'[t] = fut[t]
    <2>1. CASE Submit /\ t = Visited /\ fut[t] = "none"
      BY <1>3, <2>1 DEF Submit, Skipped
    <2>2. CASE ~(Submit /\ t = Visited /\ fut[t] = "none")
      BY <1>1, <2>2, FutureStep
    <2>. QED  BY <2>1, <2>2
  <1>5. CASE t \in errors
    BY <1>1, <1>2, <1>4, <1>5 DEF BadParent, InFutures, FutureIsDone
  <1>6. CASE t \notin errors
    <2>1. IsBad(status[t]) /\ ~Retryable(t)
      BY <1>6 DEF BadParent
    <2>2. status'[t] \in {status[t], "cancelled"}
      BY <1>1, <2>1, StatusStep DEF IsBad
    <2>3. IsBad(status'[t])
      BY <2>1, <2>2 DEF IsBad
    <2>4. ~Retryable(t)'
      BY <1>2, <1>4, <2>1, <2>2 DEF Retryable, InFutures, CanTransition, AllowedTransitions
    <2>. QED  BY <1>1, <1>4, <2>3, <2>4 DEF BadParent, InFutures, FutureIsDone
  <1>. QED  BY <1>5, <1>6

\* Only VisitBlock makes an activation intend to block a task.
LEMMA BlockEntered ==
    ASSUME TypeOK, FramesOK, InRun, [Next]_vars, At("block")'
    PROVE  VisitBlock \/ frames' = frames
  <1>. SUFFICES ASSUME ~VisitBlock, frames' # frames PROVE Head(frames').step # "block"
    BY DEF At, Top
  <1>0. order' = order
    BY RunConstant
  <1>1. CASE Scheduler
    <2>0. frames # <<>>
      BY <1>1 DEF Scheduler, VisitSkip, VisitBlock, MarkBlocked, Submit, Register,
            EndPass, CheckFinished, AllFinished, Guard, InPass, At
    <2>1. CASE Leave \/ Throw
      <3>1. frames' = Tail(frames)
        BY <2>1 DEF Leave, Throw
      <3>2. frames' # <<>> /\ Head(frames').step = "visit"
        <4>1. frames' # <<>>
          BY DEF At
        <4>. QED  BY <1>0, <2>0, <3>1, <4>1, PopLemma
      <3>. QED  BY <3>2
    <2>2. ASSUME NEW f, Continue(f), f.step # "block" PROVE Head(frames').step # "block"
      <3>1. Head(<<f>> \o Tail(frames)) = f
        <4>1. Tail(frames) \in Seq(Frame)
          BY <2>0, PopStack DEF TypeOK
        <4>. QED  BY <4>1
      <3>. QED  BY <2>2, <3>1 DEF Continue
    <2>3. NextVisit(TRUE).step = "visit" /\ NextVisit(Top.changed).step = "visit"
      BY <2>0, TopLemma
    <2>4. Top \in Frame
      BY <2>0, TopLemma
    <2>5. CASE VisitSkip
      BY <2>2, <2>3, <2>5 DEF VisitSkip
    <2>6. CASE MarkBlocked
      BY <2>1, <2>2, <2>3, <2>6 DEF MarkBlocked
    <2>7. CASE Submit
      <3>1. [Top EXCEPT !.step = "register"].step = "register"
        BY <2>4 DEF Frame
      <3>. QED  BY <2>1, <2>2, <2>7, <3>1 DEF Submit
    <2>8. CASE Register
      <3>1. CASE Continue(NextVisit(TRUE))
        BY <2>2, <2>3, <3>1
      <3>2. CASE frames' = <<NewFrame(Visited), NextVisit(TRUE)>> \o Tail(frames)
        <4>1. Top.step = "register" /\ Top = frames[1] /\ 1 \in DOMAIN frames /\ Top.pos \in Nat
          BY <2>0, <2>8, TopLemma DEF Register, At
        <4>2. Top.pos \in 1 .. Len(order)
          BY <4>1 DEF FramesOK, TypeOK
        <4>3. Visited \in Tasks
          BY <2>0, <4>2, VisitedLemma
        <4>. QED  BY <1>0, <2>0, <3>2, <4>3, ReenterLemma
      <3>. QED  BY <2>8, <3>1, <3>2 DEF Register
    <2>9. CASE EndPass
      <3>1. /\ [Top EXCEPT !.pos = 1, !.changed = FALSE].step = Top.step
            /\ [Top EXCEPT !.step = "check", !.pos = 1].step = "check"
        BY <2>4 DEF Frame
      <3>. QED  BY <2>2, <2>9, <3>1 DEF EndPass, At
    <2>10. CASE CheckFinished
      <3>1. /\ [Top EXCEPT !.pos = Top.pos + 1].step = Top.step
            /\ [Top EXCEPT !.step = "guard", !.pos = 1].step = "guard"
        BY <2>4 DEF Frame
      <3>. QED  BY <2>2, <2>10, <3>1 DEF CheckFinished, At
    <2>11. CASE AllFinished \/ Guard
      BY <2>1, <2>11 DEF AllFinished, Guard
    <2>. QED
      BY <1>1, <2>5, <2>6, <2>7, <2>8, <2>9, <2>10, <2>11 DEF Scheduler
  <1>2. ASSUME NEW u \in Tasks, Worker(u) \/ Cancel(u)
        PROVE  Head(frames').step # "block"
    <2>1. OnFinish(u)
      BY <1>2 DEF Worker, ExecuteRejected, ExecuteUnhandled, ExecuteStart, Handler,
            HandlerReturns, HandlerRaises, HandlerUnwinds, CompleteFuture, Cancel
    <2>. QED  BY <2>1, EnterLemma DEF OnFinish
  <1>3. CASE Caller
    BY <1>3 DEF Caller, Add, RunRejected, RunEmpty, RunStart, WaitDone, RunEnds, InRun
  <1>4. CASE UNCHANGED vars
    BY <1>4 DEF vars
  <1>. QED  BY <1>1, <1>2, <1>3, <1>4 DEF Next

LEMMA BlockingStep ==
    ASSUME TypeOK, FramesOK, IdleOK, QueueOK, ErrorsOK, BlockingJustified, [Next]_vars
    PROVE  BlockingJustified'
  <1>. SUFFICES ASSUME InRun', At("block")'
                PROVE  /\ Visited' \notin finally' /\ fut'[Visited'] = "none"
                       /\ Top'.bad \in Upstream(Visited)' /\ BadParent(Top.bad)'
    BY DEF BlockingJustified
  <1>1. CASE ~InRun
    <2>1. RunStart
      BY <1>1, RunBegins
    <2>2. Head(frames').step = "visit"
      BY <2>1, EnterLemma DEF RunStart
    <2>. QED  BY <2>2 DEF At, Top
  <1>2. CASE InRun
    <2>0. UNCHANGED <<order, deps, finally>>
      BY <1>2, RunConstant
    <2>1. CASE VisitBlock
      <3>0. /\ frames # <<>> /\ Top.pos \in 1 .. Len(order)
            /\ UNCHANGED <<fut, status, errors, enteringBlocked>>
        BY <2>1 DEF VisitBlock, InPass, At, taskVars, poolVars, runVars
      <3>1. Top \in Frame /\ Visited \in Tasks
        BY <3>0, TopLemma, VisitedLemma
      <3>2. PICK i \in DOMAIN deps[Visited] :
              /\ BadParent(deps[Visited][i])
              /\ Continue([Top EXCEPT !.step = "block", !.bad = deps[Visited][i]])
        BY <2>1 DEF VisitBlock
      <3>3. frames' = <<[Top EXCEPT !.step = "block", !.bad = deps[Visited][i]]>> \o Tail(frames)
        BY <3>2 DEF Continue
      <3>4. Top' = [Top EXCEPT !.step = "block", !.bad = deps[Visited][i]]
        <4>1. Tail(frames) \in Seq(Frame)
          BY <3>0, PopStack DEF TypeOK
        <4>. QED  BY <3>3, <4>1 DEF Top
      <3>5. Top'.pos = Top.pos /\ Top'.bad = deps[Visited][i]
        BY <3>1, <3>4 DEF Frame
      <3>6. Visited' = Visited
        BY <2>0, <3>5 DEF Visited
      <3>7. Visited \notin finally /\ fut[Visited] = "none"
        BY <2>1 DEF VisitBlock, Held, Skipped, InFutures
      <3>8. deps[Visited][i] \in Upstream(Visited)
        BY DEF Upstream
      <3>9. BadParent(Top.bad)'
        BY <3>0, <3>2, <3>5 DEF BadParent, InFutures, FutureIsDone, Retryable
      <3>. QED  BY <2>0, <3>0, <3>5, <3>6, <3>7, <3>8, <3>9 DEF Upstream
    <2>2. CASE frames' = frames
      <3>1. Top' = Top /\ Visited' = Visited /\ At("block")
        BY <2>0, <2>2 DEF Top, Visited, At
      <3>2. /\ Visited \notin finally /\ fut[Visited] = "none"
            /\ Top.bad \in Upstream(Visited) /\ BadParent(Top.bad)
        BY <1>2, <3>1 DEF BlockingJustified
      <3>3. /\ frames # <<>> /\ Top.step = "block" /\ Top = frames[1]
            /\ 1 \in DOMAIN frames /\ Top.pos \in Nat
        BY <3>1, TopLemma DEF At
      <3>4. Top.pos \in 1 .. Len(order)
        BY <3>3 DEF FramesOK, TypeOK
      <3>5. Visited \in Tasks
        BY <3>3, <3>4, VisitedLemma
      <3>6. Top.bad \in Tasks
        BY <3>2, <3>5, GraphTypes
      <3>7. ~Submit
        BY <3>1 DEF Submit, InPass, At
      <3>8. fut'[Visited] = "none"
        BY <1>2, <3>2, <3>5, <3>7, FutureStep
      <3>9. BadParent(Top.bad)'
        BY <1>2, <3>1, <3>2, <3>6, BadParentStays
      <3>. QED  BY <2>0, <3>1, <3>2, <3>8, <3>9 DEF Upstream
    <2>. QED  BY <1>2, <2>1, <2>2, BlockEntered
  <1>. QED  BY <1>1, <1>2

LEMMA BlockedStep ==
    ASSUME TypeOK, FramesOK, IdleOK, QueueOK, ErrorsOK, BlockingJustified,
           BlockedJustified, [Next]_vars
    PROVE  BlockedJustified'
  <1>. SUFFICES ASSUME InRun', NEW t \in Registered' \ enteringBlocked',
                       status'[t] = "blocked"
                PROVE  /\ t \notin finally' /\ fut'[t] = "none"
                       /\ blockedBy'[t] \in Upstream(t)'
                       /\ BadParent(blockedBy[t])'
    BY DEF BlockedJustified, InFutures
  <1>1. CASE ~InRun
    <2>1. RunStart
      BY <1>1, RunBegins
    <2>. QED  BY <2>1 DEF RunStart, graphVars, taskVars, Registered
  <1>2. CASE InRun
    <2>0. UNCHANGED <<order, deps, finally, enteringBlocked>>
      BY <1>2, RunConstant
    <2>1. t \in Registered \ enteringBlocked /\ t \in Tasks
      BY <2>0, GraphTypes DEF Registered
    <2>2. CASE status[t] = "blocked"
      <3>1. /\ t \notin finally /\ fut[t] = "none"
            /\ blockedBy[t] \in Upstream(t) /\ BadParent(blockedBy[t])
        BY <1>2, <2>1, <2>2 DEF BlockedJustified, InFutures
      <3>2. blockedBy'[t] = blockedBy[t]
        BY <2>1, <2>2, <3>1, StatusStep
      <3>3. fut'[t] = "none"
        <4>1. ~(Submit /\ t = Visited)
          BY <2>1, <2>2 DEF Submit, Skipped
        <4>. QED  BY <1>2, <2>1, <3>1, <4>1, FutureStep
      <3>4. blockedBy[t] \in Tasks
        BY <2>1, <3>1, GraphTypes
      <3>5. BadParent(blockedBy[t])'
        BY <1>2, <3>1, <3>2, <3>4, BadParentStays
      <3>. QED  BY <2>0, <3>1, <3>2, <3>3, <3>5 DEF Upstream
    <2>3. CASE status[t] # "blocked"
      <3>1. MarkBlocked /\ t = Visited /\ blockedBy'[t] = Top.bad
        BY <2>1, <2>3, StatusStep
      <3>2. /\ t \notin finally /\ fut[t] = "none"
            /\ Top.bad \in Upstream(t) /\ BadParent(Top.bad)
        BY <1>2, <3>1 DEF BlockingJustified, MarkBlocked
      <3>3. fut' = fut
        BY <3>1 DEF MarkBlocked
      <3>4. Top.bad \in Tasks
        BY <2>1, <3>2, GraphTypes
      <3>5. BadParent(blockedBy[t])'
        BY <1>2, <3>1, <3>2, <3>4, BadParentStays
      <3>. QED  BY <2>0, <3>1, <3>2, <3>3, <3>5 DEF Upstream
    <2>. QED  BY <2>2, <2>3
  <1>. QED  BY <1>1, <1>2

-----------------------------------------------------------------------------
(* The futures' exceptions and the callbacks that record them.             *)

LEMMA RaisedStep ==
    ASSUME TypeOK, QueueOK, RaisedOK, [Next]_vars
    PROVE  RaisedOK'
  <1>0. /\ fut \in [Tasks -> FutureState] /\ status \in [Tasks -> TaskStatus]
        /\ raised \subseteq Tasks /\ errors \subseteq raised
    BY DEF TypeOK, RaisedOK
  <1>. DEFINE OK(t) == /\ t \in raised => fut[t] \in {"returning", "done"} /\ status[t] # "succeeded"
                       /\ fut[t] = "queued" => status[t] # "succeeded"
  <1>1. \A t \in Tasks : OK(t)
    BY DEF RaisedOK, Succeeded
  <1>2. CASE Scheduler
    <2>1. raised' = raised
      BY <1>2 DEF Scheduler, VisitSkip, VisitBlock, MarkBlocked, Submit, Register, EndPass,
            CheckFinished, AllFinished, Guard, poolVars
    <2>2. errors' \subseteq raised
      BY <1>0, <1>2 DEF Scheduler, VisitSkip, VisitBlock, MarkBlocked, Submit, Register,
            EndPass, CheckFinished, AllFinished, Guard, RecordError, runVars
    <2>3. ASSUME NEW t \in Tasks PROVE OK(t)'
      <3>1. CASE UNCHANGED <<fut, status>>
        BY <1>1, <2>1, <3>1
      <3>2. CASE MarkBlocked
        <4>1. fut' = fut /\ status'[t] \in {status[t], "blocked"}
          BY <1>0, <3>2 DEF MarkBlocked, taskVars
        <4>. QED  BY <1>1, <2>1, <4>1
      <3>3. CASE Submit
        <4>1. /\ status' = status
              /\ fut'[t] = fut[t] \/ (fut[t] = "none" /\ fut'[t] = "queued" /\ t = Visited)
          BY <1>0, <3>3 DEF Submit, Skipped, InFutures, taskVars
        <4>2. CanTransition(status[Visited], "running")
          BY <3>3 DEF Submit
        <4>3. status[t] = "succeeded" => ~CanTransition(status[t], "running")
          BY DEF CanTransition, AllowedTransitions
        <4>. QED  BY <1>1, <2>1, <4>1, <4>2, <4>3
      <3>. QED  BY <1>2, <3>1, <3>2, <3>3 DEF Scheduler, VisitSkip, VisitBlock, Register,
                   EndPass, CheckFinished, AllFinished, Guard, poolVars, taskVars
    <2>. QED  BY <2>1, <2>2, <2>3 DEF RaisedOK, Succeeded
  <1>3. ASSUME NEW u \in Tasks, Worker(u) \/ Cancel(u) PROVE RaisedOK'
    <2>1. errors' \subseteq raised' /\ raised' \subseteq raised \cup {u}
      BY <1>0, <1>3 DEF Worker, ExecuteRejected, ExecuteUnhandled, ExecuteStart, Handler,
            HandlerReturns, HandlerRaises, HandlerUnwinds, CompleteFuture, OnFinish,
            RecordError, Cancel, runVars, poolVars
    <2>2. \A t \in Tasks \ {u} : fut'[t] = fut[t] /\ status'[t] = status[t]
      BY <1>0, <1>3 DEF Worker, ExecuteRejected, ExecuteUnhandled, ExecuteStart, Handler,
            HandlerReturns, HandlerRaises, HandlerUnwinds, CompleteFuture, OnFinish,
            Cancel, poolVars, taskVars
    <2>3. OK(u)'
      <3>1. Dequeue(u) => fut[u] = "queued"
        BY <1>0, PopStack DEF Dequeue, QueueOK, TypeOK
      <3>2. OK(u)
        BY <1>1
      <3>3. CASE ExecuteRejected(u) \/ ExecuteUnhandled(u) \/ ExecuteStart(u)
        BY <1>0, <3>1, <3>2, <3>3 DEF ExecuteRejected, ExecuteUnhandled, ExecuteStart, taskVars
      <3>4. CASE Handler(u)
        BY <1>0, <3>2, <3>4 DEF Handler, HandlerReturns, HandlerRaises, HandlerUnwinds, taskVars
      <3>5. CASE CompleteFuture(u) \/ OnFinish(u) \/ Cancel(u)
        BY <1>0, <3>2, <3>5 DEF CompleteFuture, OnFinish, Cancel, poolVars, taskVars
      <3>. QED  BY <1>3, <3>3, <3>4, <3>5 DEF Worker
    <2>. QED  BY <1>1, <2>1, <2>2, <2>3 DEF RaisedOK, Succeeded
  <1>4. CASE Caller /\ ~RunStart
    BY <1>4 DEF Caller, Add, RunRejected, RunEmpty, WaitDone, RunEnds, poolVars, taskVars,
          runVars, RaisedOK, Succeeded
  <1>5. CASE RunStart
    BY <1>5 DEF RunStart, RaisedOK, Succeeded
  <1>6. CASE UNCHANGED vars
    BY <1>6 DEF vars, poolVars, taskVars, runVars, RaisedOK, Succeeded
  <1>. QED  BY <1>2, <1>3, <1>4, <1>5, <1>6 DEF Next

\* Outside a run there is no activation, and only RunStart leaves that state.
LEMMA IdleFrames ==
    ASSUME TypeOK, IdleOK, ~InRun, [Next]_vars
    PROVE  \/ RunStart
           \/ /\ frames = <<>> /\ frames' = <<>> /\ ~RunStart
              /\ UNCHANGED <<fut, raised, cb>>
              /\ errors' = errors \/ RunEmpty
              /\ Registered \subseteq Registered'
  <1>0. frames = <<>> /\ queue = <<>>
    BY DEF IdleOK, InRun
  <1>1. ~Scheduler
    BY <1>0 DEF Scheduler, VisitSkip, VisitBlock, MarkBlocked, Submit, Register, EndPass,
          CheckFinished, AllFinished, Guard, InPass, At
  <1>2. \A t \in Tasks : ~Worker(t)
    BY <1>0 DEF IdleOK, InRun, Worker, ExecuteRejected, ExecuteUnhandled, ExecuteStart,
          Handler, HandlerReturns, HandlerRaises, HandlerUnwinds, CompleteFuture, OnFinish,
          Dequeue, FutureIsDone
  <1>3. ASSUME NEW t \in Tasks, NEW ds \in DepLists, NEW isFinally \in BOOLEAN,
               NEW required \in BOOLEAN, Add(t, ds, isFinally, required)
        PROVE  Registered \subseteq Registered'
    <2>1. CASE order' = order
      BY <2>1 DEF Registered
    <2>2. CASE order' = Append(order, t)
      <3>1. order \in Seq(Tasks)
        BY DEF TypeOK
      <3>2. \A i \in DOMAIN order : i \in DOMAIN order' /\ order'[i] = order[i]
        BY <2>2, <3>1
      <3>. QED  BY <3>2 DEF Registered
    <2>. QED  BY <1>3, <2>1, <2>2 DEF Add
  <1>4. CASE \E t \in Tasks, ds \in DepLists, isFinally, required \in BOOLEAN :
                Add(t, ds, isFinally, required)
    BY <1>0, <1>3, <1>4 DEF Add, RunStart, poolVars, runVars, InRun
  <1>5. CASE RunRejected \/ RunEmpty \/ WaitDone \/ RunEnds
    BY <1>0, <1>5 DEF RunRejected, RunEmpty, WaitDone, RunEnds, RunStart, poolVars, runVars,
          graphVars, Registered, InRun
  <1>6. CASE (\E t \in Tasks : Cancel(t)) \/ UNCHANGED vars
    BY <1>0, <1>6 DEF Cancel, vars, RunStart, poolVars, runVars, graphVars, Registered
  <1>. QED  BY <1>1, <1>2, <1>4, <1>5, <1>6 DEF Next, Caller

\* Exceptions are only added to futures that were not completed.
LEMMA RecordedStays ==
    ASSUME TypeOK, QueueOK, InRun, [Next]_vars, NEW t \in Tasks, Recorded(t)
    PROVE  Recorded(t)'
  <1>1. fut[t] = "done" /\ (t \in raised => t \in errors)
    BY DEF Recorded, FutureIsDone
  <1>2. fut'[t] = "done"
    BY <1>1, FutureStep
  <1>3. t \in raised' => t \in raised
    <2>1. \A u \in Tasks : Dequeue(u) => fut[u] = "queued"
      BY PopStack DEF Dequeue, QueueOK, TypeOK
    <2>2. CASE Scheduler \/ UNCHANGED vars
      BY <2>2 DEF Scheduler, VisitSkip, VisitBlock, MarkBlocked, Submit, Register, EndPass,
            CheckFinished, AllFinished, Guard, poolVars, vars
    <2>3. CASE Caller
      BY <2>3 DEF Caller, Add, RunRejected, RunEmpty, RunStart, WaitDone, RunEnds, poolVars
    <2>4. CASE \E u \in Tasks : Worker(u) \/ Cancel(u)
      BY <1>1, <2>1, <2>4 DEF Worker, ExecuteRejected, ExecuteUnhandled, ExecuteStart,
            Handler, HandlerReturns, HandlerRaises, HandlerUnwinds, CompleteFuture, OnFinish,
            Cancel, poolVars
    <2>. QED  BY <2>2, <2>3, <2>4 DEF Next
  <1>. QED  BY <1>1, <1>2, <1>3, RunConstant DEF Recorded, FutureIsDone

\* What a step of a run does to the stack of activations: it keeps the owners, drops the
\* innermost one, or puts the recorder of a completed future on top.
LEMMA OwnersMove ==
    ASSUME TypeOK, FramesOK, InRun, [Next]_vars, NEW i \in DOMAIN frames'
    PROVE  \/ \E j \in DOMAIN frames : frames'[i].of = frames[j].of
           \/ \E t \in Tasks : /\ frames'[i].of = t /\ FutureIsDone(t)
                               /\ RecordError(t) /\ UNCHANGED <<fut, raised>>
  <1>0. frames \in Seq(Frame)
    BY DEF TypeOK
  <1>1. ASSUME NEW f, Continue(f), f.of = Top.of, f \in Frame, frames # <<>>
        PROVE  \E j \in DOMAIN frames : frames'[i].of = frames[j].of
    <2>1. frames' = <<f>> \o Tail(frames)
      BY <1>1 DEF Continue
    <2>2. Top = frames[1]
      BY <1>1, TopLemma
    <2>3. i \in DOMAIN frames /\ (i = 1 \/ i \in 2 .. Len(frames))
      BY <1>0, <1>1, <2>1, ReplaceTop
    <2>. QED  BY <1>0, <1>1, <2>1, <2>2, <2>3, ReplaceTop
  <1>2. ASSUME frames' = Tail(frames), frames # <<>>
        PROVE  \E j \in DOMAIN frames : frames'[i].of = frames[j].of
    <2>1. i + 1 \in DOMAIN frames /\ frames'[i] = frames[i + 1]
      BY <1>0, <1>2, PopStack
    <2>. QED  BY <2>1
  <1>3. CASE Scheduler
    <2>1. frames # <<>>
      BY <1>3 DEF Scheduler, VisitSkip, VisitBlock, MarkBlocked, Submit, Register,
            EndPass, CheckFinished, AllFinished, Guard, InPass, At
    <2>2. Top \in Frame /\ Top = frames[1] /\ 1 \in DOMAIN frames /\ Top.pos \in Nat
      BY <2>1, TopLemma
    <2>3. /\ NextVisit(TRUE) \in Frame /\ NextVisit(TRUE).of = Top.of
          /\ NextVisit(Top.changed) \in Frame /\ NextVisit(Top.changed).of = Top.of
      BY <2>1, TopLemma DEF NextVisit
    <2>4. CASE Leave \/ Throw
      BY <1>2, <2>1, <2>4 DEF Leave, Throw
    <2>5. CASE VisitSkip
      BY <1>1, <2>1, <2>3, <2>5 DEF VisitSkip
    <2>6. CASE VisitBlock
      <3>1. Visited \in Tasks
        BY <2>1, <2>6, VisitedLemma DEF VisitBlock, InPass
      <3>2. PICK k \in DOMAIN deps[Visited] :
               Continue([Top EXCEPT !.step = "block", !.bad = deps[Visited][k]])
        BY <2>6 DEF VisitBlock
      <3>3. deps[Visited][k] \in Tasks
        BY <3>1 DEF TypeOK
      <3>4. /\ [Top EXCEPT !.step = "block", !.bad = deps[Visited][k]] \in Frame
            /\ [Top EXCEPT !.step = "block", !.bad = deps[Visited][k]].of = Top.of
        BY <2>2, <3>3 DEF Frame, Step
      <3>. QED  BY <1>1, <2>1, <3>2, <3>4
    <2>7. CASE MarkBlocked
      BY <1>1, <2>1, <2>3, <2>4, <2>7 DEF MarkBlocked
    <2>8. CASE Submit
      <3>1. /\ [Top EXCEPT !.step = "register"] \in Frame
            /\ [Top EXCEPT !.step = "register"].of = Top.of
        BY <2>2 DEF Frame, Step
      <3>. QED  BY <1>1, <2>1, <2>4, <2>8, <3>1 DEF Submit
    <2>9. CASE Register
      <3>1. CASE Continue(NextVisit(TRUE))
        BY <1>1, <2>1, <2>3, <3>1
      <3>2. CASE /\ FutureIsDone(Visited) /\ RecordError(Visited)
                 /\ frames' = <<NewFrame(Visited), NextVisit(TRUE)>> \o Tail(frames)
        <4>1. Visited \in Tasks
          <5>1. Top.pos \in 1 .. Len(order)
            BY <2>2, <2>9 DEF Register, At, FramesOK, TypeOK
          <5>. QED  BY <2>1, <5>1, VisitedLemma
        <4>2. /\ Len(frames') = Len(frames) + 1 /\ frames' \in Seq(Frame)
              /\ frames'[1] = NewFrame(Visited) /\ frames'[2] = NextVisit(TRUE)
              /\ \A k \in 3 .. Len(frames) + 1 : frames'[k] = frames[k - 1]
          <5>. DEFINE x == NewFrame(Visited)  y == NextVisit(TRUE)
          <5>1. x \in Frame /\ y \in Frame /\ frames' = <<x, y>> \o Tail(frames)
            BY <2>3, <3>2, <4>1, NewFrameLemma
          <5>. HIDE DEF x, y
          <5>2. /\ Len(frames') = Len(frames) + 1 /\ frames' \in Seq(Frame)
                /\ frames'[1] = x /\ frames'[2] = y
                /\ \A k \in 3 .. Len(frames) + 1 : frames'[k] = frames[k - 1]
            BY ONLY <1>0, <2>1, <5>1, CoverTop, SMTT(30)
          <5>. QED  BY <5>2 DEF x, y
        <4>3. CASE i = 1
          <5>1. frames'[i].of = Visited
            BY <4>2, <4>3 DEF NewFrame
          <5>2. UNCHANGED <<fut, raised>>
            BY <2>9 DEF Register
          <5>. QED  BY <3>2, <4>1, <5>1, <5>2
        <4>4. CASE i = 2
          BY <2>2, <2>3, <4>2, <4>4
        <4>5. CASE i # 1 /\ i # 2
          <5>1. i \in 3 .. Len(frames) + 1 /\ i - 1 \in DOMAIN frames
            BY <1>0, <4>2, <4>5
          <5>. QED  BY <4>2, <5>1
        <4>. QED  BY <4>3, <4>4, <4>5
      <3>. QED  BY <2>9, <3>1, <3>2 DEF Register
    <2>10. CASE EndPass
      <3>1. /\ [Top EXCEPT !.pos = 1, !.changed = FALSE] \in Frame
            /\ [Top EXCEPT !.pos = 1, !.changed = FALSE].of = Top.of
            /\ [Top EXCEPT !.step = "check", !.pos = 1] \in Frame
            /\ [Top EXCEPT !.step = "check", !.pos = 1].of = Top.of
        BY <2>2 DEF Frame, Step
      <3>. QED  BY <1>1, <2>1, <2>10, <3>1 DEF EndPass
    <2>11. CASE CheckFinished
      <3>1. /\ [Top EXCEPT !.step = "guard", !.pos = 1] \in Frame
            /\ [Top EXCEPT !.step = "guard", !.pos = 1].of = Top.of
        BY <2>2 DEF Frame, Step
      <3>2. Top.pos + 1 \in Nat
        BY <2>2
      <3>3. /\ [Top EXCEPT !.pos = Top.pos + 1] \in Frame
            /\ [Top EXCEPT !.pos = Top.pos + 1].of = Top.of
        BY <2>2, <3>2 DEF Frame
      <3>. QED  BY <1>1, <2>1, <2>11, <3>1, <3>3 DEF CheckFinished
    <2>12. CASE AllFinished \/ Guard
      BY <2>4, <2>12 DEF AllFinished, Guard
    <2>. QED  BY <1>3, <2>5, <2>6, <2>7, <2>8, <2>9, <2>10, <2>11, <2>12 DEF Scheduler
  <1>4. ASSUME NEW u \in Tasks, OnFinish(u)
        PROVE  /\ frames'[i].of = u /\ FutureIsDone(u)
               /\ RecordError(u) /\ UNCHANGED <<fut, raised>>
    <2>1. frames' = <<NewFrame(u)>>
      BY <1>4 DEF OnFinish
    <2>2. i = 1
      BY <2>1
    <2>. QED  BY <1>4, <2>1, <2>2 DEF OnFinish, NewFrame, poolVars
  <1>5. CASE frames' = frames
    BY <1>5
  <1>6. ASSUME NEW u \in Tasks, Worker(u) \/ Cancel(u)
        PROVE  OnFinish(u) \/ frames' = frames
    BY <1>6 DEF Worker, ExecuteRejected, ExecuteUnhandled, ExecuteStart, Handler,
          HandlerReturns, HandlerRaises, HandlerUnwinds, CompleteFuture, Cancel
  <1>7. Caller \/ UNCHANGED vars => frames' = frames
    BY DEF Caller, Add, RunRejected, RunEmpty, RunStart, WaitDone, RunEnds, InRun, vars
  <1>. QED  BY <1>3, <1>4, <1>5, <1>6, <1>7 DEF Next

LEMMA OwnersStep ==
    ASSUME TypeOK, FramesOK, IdleOK, QueueOK, OwnersOK, [Next]_vars
    PROVE  OwnersOK'
  <1>. DEFINE Then(t) == fut'[t] = "done" /\ (t \in raised' => t \in errors')
  <1>. SUFFICES ASSUME NEW i \in DOMAIN frames', frames'[i].of # Main
                PROVE  Then(frames'[i].of)
    BY DEF OwnersOK, Recorded, FutureIsDone
  <1>1. CASE InRun
    <2>1. ASSUME NEW j \in DOMAIN frames, frames'[i].of = frames[j].of
          PROVE  Then(frames[j].of)
      <3>1. frames[j] \in Frame /\ frames[j].of # Main
        BY <2>1 DEF TypeOK
      <3>2. frames[j].of \in Tasks /\ Recorded(frames[j].of)
        BY <3>1 DEF OwnersOK, Frame
      <3>3. \A t \in Tasks : Recorded(t) => Then(t)
        BY <1>1, RecordedStays DEF Recorded, FutureIsDone
      <3>. QED  BY <3>2, <3>3
    <2>2. ASSUME NEW t \in Tasks, FutureIsDone(t), RecordError(t), UNCHANGED <<fut, raised>>
          PROVE  Then(t)
      BY <2>2 DEF FutureIsDone, RecordError
    <2>. HIDE DEF Then
    <2>. QED  BY <1>1, <2>1, <2>2, OwnersMove
  <1>2. CASE ~InRun
    <2>1. RunStart \/ frames' = <<>>
      BY <1>2, IdleFrames
    <2>. QED  BY <2>1 DEF RunStart, NewFrame
  <1>. QED  BY <1>1, <1>2

\* A callback ends, or schedule() raises in it: its future had been recorded.
LEMMA CallbackOver ==
    ASSUME TypeOK, QueueOK, OwnersOK, InRun, [Next]_vars, frames # <<>>, Leave \/ Throw,
           NEW t \in Tasks
    PROVE  cb'[t] = cb[t] \/ Recorded(t)
  <1>1. Top = frames[1] /\ 1 \in DOMAIN frames /\ cb \in [Tasks -> {"none", "registered", "finished"}]
    BY TopLemma DEF TypeOK
  <1>2. cb'[t] = cb[t] \/ (Top.of = t /\ Top.of # Main)
    BY <1>1 DEF Leave, Throw
  <1>. QED  BY <1>1, <1>2 DEF OwnersOK

LEMMA CallbacksStep ==
    ASSUME TypeOK, FramesOK, IdleOK, QueueOK, OwnersOK, CallbacksOK, [Next]_vars
    PROVE  CallbacksOK'
  <1>. SUFFICES ASSUME NEW t \in Tasks, fut'[t] # "none"
                PROVE  /\ t \in Registered'
                       /\ cb'[t] = "registered" \/ Recorded(t)' \/ (At("register") /\ Visited = t)'
    BY DEF CallbacksOK, InFutures
  <1>1. CASE ~InRun
    <2>1. ~RunStart
      BY DEF RunStart
    <2>2. /\ frames = <<>> /\ UNCHANGED <<fut, raised, cb>>
          /\ errors' = errors \/ RunEmpty
          /\ Registered \subseteq Registered'
      BY <1>1, <2>1, IdleFrames
    <2>3. t \in Registered /\ (cb[t] = "registered" \/ Recorded(t))
      BY <2>2 DEF CallbacksOK, InFutures, At
    <2>4. ~RunEmpty
      BY <2>3 DEF RunEmpty, Registered
    <2>. QED  BY <2>2, <2>3, <2>4 DEF Recorded, FutureIsDone
  <1>2. CASE InRun
    <2>0. /\ UNCHANGED order /\ Registered' = Registered
          /\ cb \in [Tasks -> {"none", "registered", "finished"}]
          /\ frames \in Seq(Frame)
      BY <1>2, RunConstant DEF Registered, TypeOK
    <2>1. Recorded(t) => Recorded(t)'
      BY <1>2, RecordedStays
    <2>2. CASE Submit /\ t = Visited /\ fut[t] = "none"
      <3>1. frames # <<>> /\ Top.pos \in 1 .. Len(order)
        BY <2>2 DEF Submit, InPass, At
      <3>2. t \in Registered
        BY <2>2, <3>1, VisitedLemma
      <3>3. pool = "open"
        BY <2>2 DEF Submit
      <3>4. frames' = <<[Top EXCEPT !.step = "register"]>> \o Tail(frames)
        BY <2>2, <3>3 DEF Submit, Continue
      <3>5. Top \in Frame /\ [Top EXCEPT !.step = "register"] \in Frame
        BY <3>1, TopLemma DEF Frame, Step
      <3>6. frames' # <<>> /\ Head(frames') = [Top EXCEPT !.step = "register"]
        BY ONLY <2>0, <3>1, <3>4, <3>5, ReplaceTop
      <3>7. Head(frames').step = "register" /\ Head(frames').pos = Top.pos
        BY <3>5, <3>6 DEF Frame
      <3>8. At("register")' /\ Visited' = Visited
        BY <2>0, <3>6, <3>7 DEF At, Top, Visited
      <3>. QED  BY <2>0, <2>2, <3>2, <3>8
    <2>3. CASE ~(Submit /\ t = Visited /\ fut[t] = "none")
      <3>1. fut[t] # "none"
        BY <1>2, <2>3, FutureStep
      <3>2. /\ t \in Registered'
            /\ cb[t] = "registered" \/ Recorded(t) \/ (At("register") /\ Visited = t)
        BY <2>0, <3>1 DEF CallbacksOK, InFutures
      <3>3. CASE Recorded(t)
        BY <2>1, <3>2, <3>3
      <3>4. CASE ~Recorded(t) /\ cb[t] = "registered"
        <4>1. cb'[t] = cb[t]
          <5>1. CASE Register
            BY <2>0, <3>4, <5>1 DEF Register
          <5>2. CASE frames # <<>> /\ (Leave \/ Throw)
            BY <1>2, <3>4, <5>2, CallbackOver
          <5>3. CASE Scheduler /\ ~Register
            <6>1. frames # <<>>
              BY <5>3 DEF Scheduler, VisitSkip, VisitBlock, MarkBlocked, Submit, EndPass,
                    CheckFinished, AllFinished, Guard, InPass, At
            <6>. QED  BY <5>2, <5>3, <6>1 DEF Scheduler, VisitSkip, VisitBlock, MarkBlocked,
                         Submit, EndPass, CheckFinished, AllFinished, Guard, poolVars
          <5>4. CASE (\E u \in Tasks : Worker(u) \/ Cancel(u)) \/ UNCHANGED vars
            BY <5>4 DEF Worker, ExecuteRejected, ExecuteUnhandled, ExecuteStart, Handler,
                  HandlerReturns, HandlerRaises, HandlerUnwinds, CompleteFuture, OnFinish,
                  Cancel, poolVars, vars
          <5>5. CASE Caller
            BY <1>2, <5>5 DEF Caller, Add, RunRejected, RunEmpty, RunStart, WaitDone, RunEnds,
                  InRun, poolVars
          <5>. QED  BY <5>1, <5>3, <5>4, <5>5 DEF Next
        <4>. QED  BY <3>2, <3>4, <4>1
      <3>5. CASE ~Recorded(t) /\ cb[t] # "registered"
        <4>1. At("register") /\ Visited = t
          BY <3>2, <3>5
        <4>2. CASE frames' = frames
          BY <2>0, <3>2, <4>1, <4>2 DEF At, Top, Visited
        <4>3. CASE Register
          <5>1. CASE FutureIsDone(Visited)
            BY <3>2, <4>1, <4>3, <5>1 DEF Register, RecordError, Recorded, FutureIsDone
          <5>2. CASE ~FutureIsDone(Visited)
            BY <2>0, <3>2, <4>1, <4>3, <5>2 DEF Register
          <5>. QED  BY <5>1, <5>2
        <4>4. Scheduler => Register
          BY <4>1 DEF Scheduler, VisitSkip, VisitBlock, MarkBlocked, Submit, EndPass,
                CheckFinished, AllFinished, Guard, InPass, At
        <4>5. (\E u \in Tasks : Worker(u) \/ Cancel(u)) => frames' = frames
          BY <4>1 DEF Worker, ExecuteRejected, ExecuteUnhandled, ExecuteStart, Handler,
                HandlerReturns, HandlerRaises, HandlerUnwinds, CompleteFuture, OnFinish,
                Cancel, At
        <4>6. Caller \/ UNCHANGED vars => frames' = frames
          BY <1>2 DEF Caller, Add, RunRejected, RunEmpty, RunStart, WaitDone, RunEnds,
                InRun, vars
        <4>. QED  BY <4>2, <4>3, <4>4, <4>5, <4>6 DEF Next
      <3>. QED  BY <3>3, <3>4, <3>5
    <2>. QED  BY <2>2, <2>3
  <1>. QED  BY <1>1, <1>2

-----------------------------------------------------------------------------
(* The theorems.                                                           *)

LEMMA InvInit == Init => SchedulerInv
  <1>. SUFFICES ASSUME Init PROVE SchedulerInv
    OBVIOUS
  <1>1. TypeOK /\ FramesOK /\ IdleOK
    BY TypeInit
  <1>2. QueueOK
    BY DEF Init, QueueOK
  <1>3. ~InRun
    BY DEF Init, InRun
  <1>4. RaisedOK /\ OwnersOK /\ CallbacksOK
    BY DEF Init, RaisedOK, OwnersOK, CallbacksOK, InFutures, Succeeded
  <1>. QED
    BY <1>1, <1>2, <1>3, <1>4 DEF SchedulerInv, ErrorsOK, RunsOnlyAfterDependencies,
       FinallyAfterSettled, BlockingJustified, BlockedJustified

LEMMA InvStep == SchedulerInv /\ [Next]_vars => SchedulerInv'
  <1>. SUFFICES ASSUME SchedulerInv, [Next]_vars PROVE SchedulerInv'
    OBVIOUS
  <1>0. /\ TypeOK /\ FramesOK /\ IdleOK /\ QueueOK /\ ErrorsOK
        /\ RunsOnlyAfterDependencies /\ FinallyAfterSettled
        /\ BlockingJustified /\ BlockedJustified
        /\ RaisedOK /\ OwnersOK /\ CallbacksOK
    BY DEF SchedulerInv
  <1>1. TypeOK' /\ FramesOK'
    BY <1>0, TypeStep
  <1>2. IdleOK' /\ QueueOK' /\ ErrorsOK'
    BY <1>0, IdleStep, QueueStep, ErrorsStep
  <1>3. RunsOnlyAfterDependencies'
    BY <1>0, RunsOnlyStep
  <1>4. FinallyAfterSettled'
    BY <1>0, FinallyStep
  <1>5. BlockingJustified' /\ BlockedJustified'
    BY <1>0, BlockingStep, BlockedStep
  <1>6. RaisedOK' /\ OwnersOK' /\ CallbacksOK'
    BY <1>0, RaisedStep, OwnersStep, CallbacksStep
  <1>. QED  BY <1>1, <1>2, <1>3, <1>4, <1>5, <1>6 DEF SchedulerInv

\* The scheduler's state is consistent at every moment, however workers,
\* callbacks and cancellers interleave with schedule().
THEOREM SchedulerInvariant == Spec => []SchedulerInv
  BY InvInit, InvStep, PTL DEF Spec

\* Every variable of the graph, the scheduler and the pool keeps its type.
THEOREM TypeCorrect == Spec => []TypeOK
  <1>1. SchedulerInv => TypeOK
    BY DEF SchedulerInv
  <1>. QED  BY <1>1, SchedulerInvariant, PTL

\* During a run no task that is not a finally task is handed to the pool
\* before all its upstream tasks have SUCCEEDED.
THEOREM DependenciesRespected == Spec => []RunsOnlyAfterDependencies
  <1>1. SchedulerInv => RunsOnlyAfterDependencies
    BY DEF SchedulerInv
  <1>. QED  BY <1>1, SchedulerInvariant, PTL

\* Whenever a run has a task BLOCKED that did not enter it so, blocked_by
\* names an upstream task that is bad and cannot recover in that run.
THEOREM BlocksAreJustified == Spec => []BlockedJustified
  <1>1. SchedulerInv => BlockedJustified
    BY DEF SchedulerInv
  <1>. QED  BY <1>1, SchedulerInvariant, PTL

\* When run() is over, _errors holds exactly the tasks whose execute() raised in it,
\* and none of them reads SUCCEEDED.
THEOREM ErrorsAreComplete == Spec => []ErrorsComplete
  <1>1. SchedulerInv => ErrorsComplete
    <2>. SUFFICES ASSUME SchedulerInv, main = "idle"
                  PROVE  errors = raised /\ \A t \in errors : ~Succeeded(t)
      BY DEF ErrorsComplete
    <2>1. errors \subseteq raised /\ raised \subseteq Tasks
      BY DEF SchedulerInv, RaisedOK, TypeOK
    <2>2. ASSUME NEW t \in raised PROVE t \in errors /\ ~Succeeded(t)
      <3>1. fut[t] \in {"returning", "done"} /\ ~Succeeded(t)
        BY <2>1 DEF SchedulerInv, RaisedOK
      <3>2. fut[t] = "done" /\ cb[t] # "registered" /\ frames = <<>>
        BY <2>1, <3>1 DEF SchedulerInv, IdleOK
      <3>3. Recorded(t)
        BY <2>1, <3>2 DEF SchedulerInv, CallbacksOK, InFutures, At
      <3>. QED  BY <3>1, <3>3 DEF Recorded
    <2>. QED  BY <2>1, <2>2
  <1>. QED  BY <1>1, SchedulerInvariant, PTL

\* Once a finally task has been handed to the pool its upstream tasks are
\* left alone for the rest of the run, external cancels excepted.
THEOREM FinallyRunsLast == Spec => FinallyIsLast
  <1>. DEFINE A == \A f \in Registered \cap finally : \A d \in Upstream(f) :
                     InRun /\ InFutures(f) =>
                        /\ fut'[d] = fut[d]
                        /\ status'[d] \in {status[d], "cancelled"}
  <1>1. SchedulerInv /\ [Next]_vars => [A]_vars
    <2>. SUFFICES ASSUME SchedulerInv, [Next]_vars,
                         NEW f \in Registered \cap finally, NEW d \in Upstream(f),
                         InRun, InFutures(f)
                  PROVE  /\ fut'[d] = fut[d]
                         /\ status'[d] \in {status[d], "cancelled"}
      OBVIOUS
    <2>1. TypeOK /\ QueueOK /\ BlockingJustified /\ FinallyAfterSettled
      BY DEF SchedulerInv
    <2>2. d \in Tasks
      BY <2>1, GraphTypes
    <2>3. Settled(d)
      BY <2>1 DEF FinallyAfterSettled
    <2>. QED  BY <2>1, <2>2, <2>3, SettledStays
  <1>. QED  BY <1>1, SchedulerInvariant, PTL DEF Spec, FinallyIsLast

=============================================================================
