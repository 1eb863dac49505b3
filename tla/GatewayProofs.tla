---------------------------- MODULE GatewayProofs ----------------------------
(***************************************************************************)
(* What the gateway guarantees for every number of connections and ingress *)
(* threads and for every capacity.  The arguments:                         *)
(*                                                                         *)
(*  - HonestRefusal rests on the order of ~WorkerJoinGuard.  Its inductive  *)
(*    form (FlagFirst) says that whoever has met the closed queue will     *)
(*    meet the raised flag, although it reads the flag without the lock.   *)
(*  - Bounded rests on the two halves of a staging pass never exceeding    *)
(*    together what the pass began with (Staging).                         *)
(*  - SocketsAreOwned rests on every open socket having exactly one holder *)
(*    (Sockets): a queue entry, a thread, or the reactor.                  *)
(*  - AdmittedHasWaiter and CleanExit rest on what the queues, the worker  *)
(*    and the main thread may be at together (Jobs, Phases, Idle, Exits).  *)
(*    A thread throws out of a job only after its wait, and by then a job  *)
(*    that is not over is the stream the worker is on (JobOf, Waited).     *)
(*  - ControlPlaneHasThread counts: fewer jobs are admitted than there are *)
(*    ingress threads, so one of them waits for none.                      *)
(***************************************************************************)
EXTENDS Gateway, SequenceTheorems, FiniteSetTheorems, TLAPS

\* What a thread may say and why, in its value sets.
ThreadTypes ==
    /\ tpc \in [Threads -> {"pop", "route", "admit", "refused", "serve", "send",
                            "exited"}]
    /\ status \in [Threads -> {0, 200, 400, 429, 500, 503}]
    /\ refusal \in [Threads -> {"none", "full", "closed"}]
    /\ answer \in [Conns -> {0, 200, 500, 503}]
    /\ at \in [Threads -> Conns \cup {None}]

\* A thread that is past pop() holds a connection.
Holding == \A t \in Threads : tpc[t] \notin {"pop", "exited"} => at[t] \in Conns

\* The worker holds a job while it executes one.
WorkerHolds == wpc \in Executing => wjob \in Conns

\* The queues hold connections.
QueueTypes ==
    /\ pending \in Seq(Conns) /\ todo \in Seq(Conns)
    /\ ready \in Seq(Conns) /\ jobs \in Seq(Conns)

\* The flag is up before the inference queue is closed.
FlagFirst ==
    /\ mpc \in {"close_ready", "close_jobs", "join_ingress", "join_worker",
                "exited"} => stop_requested
    /\ jobs_closed => stop_requested

\* A thread's refusal, and what it makes of it.
RefusalOf(t) ==
    /\ refusal[t] = "closed" => stop_requested
    /\ tpc[t] = "refused" => refusal[t] # "none"
    /\ status[t] = 429 => tpc[t] = "send" /\ refusal[t] = "full"

\* RefusalOf holds of every thread.
Refusals == \A t \in Threads : RefusalOf(t)

\* A staging pass is over whenever the reactor is elsewhere.
Staging == mpc # "stage" => todo = << >>

-----------------------------------------------------------------------------
USE CapacityAssumption, NoneAssumption

\* Only ingress threads change what a thread says and holds.
LEMMA ThreadsQuiet ==
    Next => UNCHANGED threads \/ \E t \in Threads : Ingress(t)
  BY DEF Next, Reactor, Worker, Environment, Exited, vars, threads, Stop,
    Connect, RequestArrives, DeadlinePasses, HangsUp, Poll, StageOne, StageDone,
    Accept, AcceptLate, AcceptDone, Leave, Shutdown, Join, PopJob, BeginJob,
    StartStream, PushWaits, EndJob, JobThrows,
      Poison, PublishPoisoned, Refresh

\* Nobody lowers the stop flag.
LEMMA FlagStays == stop_requested /\ [Next]_vars => stop_requested'
  BY DEF Next, Reactor, Worker, Environment, Exited, vars, flags, Stop,
    Connect, RequestArrives, DeadlinePasses, HangsUp, Poll, StageOne, StageDone,
    Accept, AcceptLate, AcceptDone, Leave, Shutdown, StopThenCloseQueues, Join,
    PopJob, BeginJob, StartStream, PushWaits, EndJob, JobThrows,
      Poison, PublishPoisoned, Refresh,
    Ingress, PopConnection, RouteStopping, Route, Admit, Refuse, ServeAborts,
    ServeAnswered, SendEnds, StreamAborts, ThreadThrows

\* Only the reactor moves, and only ~WorkerJoinGuard closes the queue.
LEMMA ReactorQuiet ==
    Next => UNCHANGED <<mpc, jobs_closed>> \/ Reactor
  BY DEF Next, Worker, Environment, Exited, vars, reactor, jobq, Stop, Connect,
    RequestArrives, DeadlinePasses, HangsUp, PopJob, BeginJob, StartStream, PushWaits,
    EndJob, JobThrows, Poison, PublishPoisoned, Refresh, Ingress, PopConnection,
    RouteStopping, Route, Admit, Refuse, ServeAborts, ServeAnswered, SendEnds,
    StreamAborts, ThreadThrows

\* One value of a function is replaced by another of the same set.
LEMMA UpdateType ==
    ASSUME NEW S, NEW T, NEW f \in [S -> T], NEW v \in T, NEW x
    PROVE  [f EXCEPT ![x] = v] \in [S -> T]
  OBVIOUS

\* FinishJob publishes the status it is given or keeps the one there is.
LEMMA FinishJobType ==
    ASSUME answer \in [Conns -> {0, 200, 500, 503}], wjob \in Conns,
           NEW code \in {0, 200, 500, 503}, FinishJob(code)
    PROVE  answer' \in [Conns -> {0, 200, 500, 503}]
<1>1. (IF answer[wjob] = 0 THEN code ELSE answer[wjob]) \in {0, 200, 500, 503}
  OBVIOUS
<1> QED
  BY <1>1 DEF FinishJob

\* The worker publishes one of the four statuses.
LEMMA AnswerType ==
    ASSUME answer \in [Conns -> {0, 200, 500, 503}], WorkerHolds, [Next]_vars
    PROVE  answer' \in [Conns -> {0, 200, 500, 503}]
<1>1. CASE UNCHANGED answer
  BY <1>1
<1>2. CASE BeginJob
  BY <1>2, FinishJobType DEF BeginJob, WorkerHolds, Executing
<1>3. CASE StartStream
  <2>1. answer' = [answer EXCEPT ![wjob] = 200]
    BY <1>3 DEF StartStream
  <2> DEFINE A == {0, 200, 500, 503}
  <2>2. 200 \in A /\ answer \in [Conns -> A]
    OBVIOUS
  <2>3. answer' \in [Conns -> A]
    <3> HIDE DEF A
    <3> QED BY <2>1, <2>2
  <2> QED
    BY <2>3
<1>4. CASE EndJob \/ JobThrows
  BY <1>4, FinishJobType DEF EndJob, JobThrows, Generating, WorkerHolds, Executing
<1>5. CASE PublishPoisoned
  BY <1>5, FinishJobType DEF PublishPoisoned, WorkerHolds, Executing
<1>6. CASE Reactor \/ Environment \/ Exited
  <2>1. UNCHANGED answer
    BY <1>6 DEF Reactor, Environment, Exited, vars, mailbox, Stop, Connect, RequestArrives,
      DeadlinePasses, HangsUp, Poll, StageOne, StageDone, Accept, AcceptLate, AcceptDone, Leave,
      Shutdown, Join
  <2> QED
    BY <1>1, <2>1
<1>7. CASE \E t \in Threads : Ingress(t)
  <2>1. UNCHANGED answer
    BY <1>7 DEF Ingress, mailbox, PopConnection, RouteStopping, Route, Admit, Refuse, ServeAborts,
      ServeAnswered, SendEnds, StreamAborts, ThreadThrows
  <2> QED
    BY <1>1, <2>1
<1>8. CASE PopJob \/ PushWaits \/ Poison \/ Refresh \/ UNCHANGED vars
  <2>1. UNCHANGED answer
    BY <1>8 DEF vars, mailbox, PopJob, PushWaits, Poison, Refresh
  <2> QED
    BY <1>1, <2>1
<1> QED
  BY <1>2, <1>3, <1>4, <1>5, <1>6, <1>7, <1>8 DEF Next, Worker

\* The worker only executes what it popped.
LEMMA NextWorkerHolds == WorkerHolds /\ QueueTypes /\ [Next]_vars => WorkerHolds'
<1> SUFFICES ASSUME WorkerHolds, QueueTypes, [Next]_vars PROVE WorkerHolds'
  OBVIOUS
<1>1. CASE UNCHANGED worker
  BY <1>1 DEF WorkerHolds, worker
<1>2. CASE PopJob
  <2>1. CASE wpc' = "begin" /\ wjob' = Head(jobs) /\ jobs # << >>
    BY <2>1 DEF WorkerHolds, QueueTypes
  <2>2. CASE wpc' = "exited"
    BY <2>2 DEF WorkerHolds, Executing
  <2> QED
    BY <1>2, <2>1, <2>2 DEF PopJob
<1>3. CASE wpc' \in {"refresh", "pop"}
  BY <1>3 DEF WorkerHolds, Executing
<1>4. CASE wpc \in Executing /\ wjob' = wjob
  BY <1>4 DEF WorkerHolds
<1> QED
  BY <1>1, <1>2, <1>3, <1>4 DEF Next, Reactor, Worker, Environment, Exited, vars,
    Stop, Connect, RequestArrives, DeadlinePasses, HangsUp, Poll, StageOne,
    StageDone, Accept, AcceptLate, AcceptDone, Leave, Shutdown, Join, BeginJob,
    StartStream, PushWaits, EndJob, JobThrows, FinishJob, Poison, PublishPoisoned, Refresh,
    Generating, Executing, Ingress,
    PopConnection, RouteStopping, Route, Admit, Refuse, ServeAborts,
    ServeAnswered, SendEnds, StreamAborts, ThreadThrows

\* One step of one ingress thread keeps the threads' value sets.
LEMMA IngressTypes ==
    ASSUME ThreadTypes, QueueTypes, Holding, NEW t \in Threads, Ingress(t)
    PROVE  /\ tpc' \in [Threads -> {"pop", "route", "admit", "refused", "serve",
                                    "send", "exited"}]
           /\ status' \in [Threads -> {0, 200, 400, 429, 500, 503}]
           /\ refusal' \in [Threads -> {"none", "full", "closed"}]
           /\ at' \in [Threads -> Conns \cup {None}]
           /\ Holding'
<1> USE DEF ThreadTypes, Holding, threads
<1>1. CASE PopConnection(t)
  <2>1. CASE ready # << >> /\ at' = [at EXCEPT ![t] = Head(ready)]
                 /\ tpc' = [tpc EXCEPT ![t] = "route"]
    <3>1. Head(ready) \in Conns
      BY <2>1 DEF QueueTypes
    <3> QED
      BY <1>1, <2>1, <3>1 DEF PopConnection
  <2>2. CASE tpc' = [tpc EXCEPT ![t] = "exited"] /\ at' = at
    BY <1>1, <2>2 DEF PopConnection
  <2> QED
    BY <1>1, <2>1, <2>2 DEF PopConnection
<1>2. CASE Route(t)
  BY <1>2 DEF Route, Respond
<1>3. CASE Admit(t)
  BY <1>3 DEF Admit
<1>4. CASE Refuse(t)
  BY <1>4 DEF Refuse, Respond
<1>5. CASE ServeAnswered(t)
  BY <1>5 DEF ServeAnswered, Respond
<1>6. CASE Release(t)
  BY <1>6 DEF Release
<1> QED
  BY <1>1, <1>2, <1>3, <1>4, <1>5, <1>6 DEF Ingress, RouteStopping, ServeAborts,
    SendEnds, StreamAborts, ThreadThrows

\* The first half of ~WorkerJoinGuard.
LEMMA NextFlagFirst == FlagFirst /\ [Next]_vars => FlagFirst'
<1> SUFFICES ASSUME FlagFirst, [Next]_vars PROVE FlagFirst'
  OBVIOUS
<1>1. CASE UNCHANGED <<mpc, jobs_closed>>
  BY <1>1, FlagStays DEF FlagFirst
<1>2. CASE Shutdown
  BY <1>2, FlagStays DEF FlagFirst, Shutdown, StopThenCloseQueues
<1>3. CASE Join
  BY <1>3, FlagStays DEF FlagFirst, Join, jobq
<1>4. CASE mpc' \in {"poll", "stage", "accept", "leave", "stop"} /\ UNCHANGED jobq
  BY <1>4, FlagStays DEF FlagFirst, jobq
<1> QED
  BY <1>1, <1>2, <1>3, <1>4, ReactorQuiet DEF vars, reactor, jobq, Reactor, Poll,
    StageOne, StageDone, Accept, AcceptLate, AcceptDone, Leave

\* What one thread's step makes of its own refusal.
LEMMA IngressRefusal ==
    ASSUME ThreadTypes, Holding, FlagFirst, Refusals, NEW t \in Threads,
           Ingress(t), [Next]_vars
    PROVE  Refusals'
<1> SUFFICES ASSUME NEW u \in Threads PROVE RefusalOf(u)'
  BY DEF Refusals
<1>0. RefusalOf(u) /\ RefusalOf(t) /\ (stop_requested => stop_requested')
  BY FlagStays DEF Refusals
<1> USE DEF ThreadTypes, RefusalOf, threads, flags
<1>1. CASE PopConnection(t)
  BY <1>0, <1>1 DEF PopConnection
<1>2. CASE Route(t)
  BY <1>0, <1>2 DEF Route, Respond
<1>3. CASE Admit(t)
  BY <1>0, <1>3 DEF Admit, FlagFirst
<1>4. CASE Refuse(t)
  BY <1>0, <1>4 DEF Refuse, Respond
<1>5. CASE ServeAnswered(t)
  <2>1. at[t] \in Conns
    BY <1>5 DEF ServeAnswered, Holding
  <2>2. answer[at[t]] # 429
    BY <2>1
  <2> QED
    BY <1>0, <1>5, <2>2 DEF ServeAnswered, Respond
<1>6. CASE Release(t)
  BY <1>0, <1>6 DEF Release
<1> QED
  BY <1>1, <1>2, <1>3, <1>4, <1>5, <1>6 DEF Ingress, RouteStopping, ServeAborts,
    SendEnds, StreamAborts, ThreadThrows

-----------------------------------------------------------------------------
\* Only these steps touch a queue.
LEMMA QueuesQuiet ==
    Next => \/ UNCHANGED <<mpc, pending, todo, ready, jobs>>
            \/ Reactor \/ PopJob
            \/ \E t \in Threads : PopConnection(t) \/ Admit(t)
  BY DEF Next, Worker, Environment, Exited, vars, reactor, readyq, jobq, Stop,
    Connect, RequestArrives, DeadlinePasses, HangsUp, BeginJob, StartStream, PushWaits,
    EndJob, JobThrows, Poison, PublishPoisoned, Refresh, Ingress, RouteStopping, Route,
    Refuse, ServeAborts, ServeAnswered, SendEnds, StreamAborts, ThreadThrows

\* What the queue operations preserve together.
QInv == QueueTypes /\ Staging /\ Bounded

\* Lengths and members of the results of the queue operations.
LEMMA QueueFacts ==
    ASSUME NEW q \in Seq(Conns)
    PROVE  /\ Len(q) \in Nat
           /\ \A c \in Conns : Append(q, c) \in Seq(Conns)
                               /\ Len(Append(q, c)) = Len(q) + 1
           /\ q # << >> => /\ Head(q) \in Conns /\ Tail(q) \in Seq(Conns)
                           /\ Len(Tail(q)) = Len(q) - 1 /\ Len(q) > 0
           /\ << >> \in Seq(Conns) /\ Len(<< >>) = 0
  OBVIOUS

\* No step makes a queue outgrow its capacity.
LEMMA NextQInv == QInv /\ Holding /\ [Next]_vars => QInv'
<1> SUFFICES ASSUME QInv, Holding, [Next]_vars PROVE QInv'
  OBVIOUS
<1>0. /\ pending \in Seq(Conns) /\ todo \in Seq(Conns)
      /\ ready \in Seq(Conns) /\ jobs \in Seq(Conns)
      /\ Len(pending) \in Nat /\ Len(todo) \in Nat
      /\ Len(ready) \in Nat /\ Len(jobs) \in Nat
      /\ << >> \in Seq(Conns) /\ Len(<< >>) = 0
  BY DEF QInv, QueueTypes
<1> USE DEF QInv, QueueTypes, Staging, Bounded, readyq, jobq
<1>1. CASE UNCHANGED <<mpc, pending, todo, ready, jobs>>
  BY <1>1
<1>2. CASE Poll
  <2>1. CASE UNCHANGED <<pending, todo>>
    BY <1>2, <2>1 DEF Poll
  <2>2. CASE mpc' = "stage" /\ todo' = pending /\ pending' = << >> /\ todo = << >>
    BY <1>0, <1>2, <2>2 DEF Poll
  <2> QED
    BY <1>2, <2>1, <2>2 DEF Poll
<1>3. CASE StageOne
  <2>1. /\ todo' = Tail(todo) /\ todo # << >> /\ Head(todo) \in Conns
        /\ mpc = "stage" /\ mpc' = mpc /\ jobs' = jobs
    BY <1>0, <1>3 DEF StageOne
  <2>2. Tail(todo) \in Seq(Conns) /\ Len(Tail(todo)) = Len(todo) - 1
    BY <1>0, <2>1, QueueFacts
  <2>3. CASE pending' = pending /\ ready' = ready
    BY <1>0, <2>1, <2>2, <2>3
  <2>4. CASE pending' = pending /\ ready' = Append(ready, Head(todo))
             /\ Len(ready) < ReadyCapacity
    <3>1. Append(ready, Head(todo)) \in Seq(Conns)
          /\ Len(Append(ready, Head(todo))) = Len(ready) + 1
      BY <1>0, <2>1, QueueFacts
    <3> QED
      BY <1>0, <2>1, <2>2, <2>4, <3>1
  <2>5. CASE pending' = Append(pending, Head(todo)) /\ ready' = ready
    <3>1. Append(pending, Head(todo)) \in Seq(Conns)
          /\ Len(Append(pending, Head(todo))) = Len(pending) + 1
      BY <1>0, <2>1, QueueFacts
    <3> QED
      BY <1>0, <2>1, <2>2, <2>5, <3>1
  <2> QED
    BY <1>3, <2>3, <2>4, <2>5 DEF StageOne, TryPush
<1>4. CASE StageDone \/ AcceptDone \/ Shutdown \/ Join
  BY <1>4 DEF StageDone, AcceptDone, Shutdown, StopThenCloseQueues, Join
<1>5. CASE Leave
  BY <1>0, <1>5 DEF Leave
<1>6. ASSUME NEW c \in Conns, Accept(c) PROVE QInv'
  <2>1. /\ todo = << >> /\ todo' = todo /\ mpc' = mpc
        /\ jobs' = jobs /\ ready' = ready
    BY <1>6 DEF Accept
  <2>2. CASE EvictOldest
    <3>1. pending # << >> /\ pending' = Append(Tail(pending), c)
      BY <1>0, <1>6, <2>2 DEF Accept, EvictOldest
    <3>2. Tail(pending) \in Seq(Conns) /\ Len(Tail(pending)) = Len(pending) - 1
      BY <1>0, <3>1, QueueFacts
    <3>3. pending' \in Seq(Conns) /\ Len(pending') = Len(Tail(pending)) + 1
      BY <3>1, <3>2, QueueFacts
    <3>4. Len(pending') = Len(pending)
      BY <1>0, <3>2, <3>3
    <3> QED
      BY <1>0, <2>1, <3>3, <3>4
  <2>3. CASE ~EvictOldest
    <3>0. pending' = Append(pending, c)
      BY <1>6, <2>3 DEF Accept
    <3>1. pending' \in Seq(Conns) /\ Len(pending') = Len(pending) + 1
      BY <1>0, <3>0, QueueFacts
    <3> QED
      BY <1>0, <2>1, <2>3, <3>1 DEF EvictOldest
  <2> QED
    BY <2>2, <2>3
<1>7. ASSUME NEW c \in Conns, AcceptLate(c) PROVE QInv'
  BY <1>7 DEF AcceptLate
<1>8. CASE PopJob
  <2>1. CASE jobs # << >> /\ jobs' = Tail(jobs)
    <3>1. jobs' \in Seq(Conns) /\ Len(jobs') = Len(jobs) - 1
      BY <1>0, <2>1, QueueFacts
    <3> QED
      BY <1>0, <1>8, <3>1 DEF PopJob, reactor
  <2>2. CASE jobs' = jobs
    BY <1>8, <2>2 DEF PopJob, reactor
  <2> QED
    BY <1>8, <2>1, <2>2 DEF PopJob
<1>9. ASSUME NEW t \in Threads, PopConnection(t) PROVE QInv'
  <2>1. CASE ready # << >> /\ ready' = Tail(ready)
    <3>1. ready' \in Seq(Conns) /\ Len(ready') = Len(ready) - 1
      BY <1>0, <2>1, QueueFacts
    <3> QED
      BY <1>0, <1>9, <3>1 DEF PopConnection, reactor
  <2>2. CASE ready' = ready
    BY <1>9, <2>2 DEF PopConnection, reactor
  <2> QED
    BY <1>9, <2>1, <2>2 DEF PopConnection
<1>10. ASSUME NEW t \in Threads, Admit(t) PROVE QInv'
  <2>1. at[t] \in Conns
    BY <1>10 DEF Admit, Holding
  <2>2. CASE jobs' = Append(jobs, at[t]) /\ Len(jobs) < QueueCapacity
    <3>1. jobs' \in Seq(Conns) /\ Len(jobs') = Len(jobs) + 1
      BY <1>0, <2>1, <2>2, QueueFacts
    <3> QED
      BY <1>0, <1>10, <2>2, <3>1 DEF Admit, reactor
  <2>3. CASE jobs' = jobs
    BY <1>10, <2>3 DEF Admit, reactor
  <2> QED
    BY <1>10, <2>2, <2>3 DEF Admit, TryPush
<1> QED
  BY <1>1, <1>2, <1>3, <1>4, <1>5, <1>6, <1>7, <1>8, <1>9, <1>10, QueuesQuiet
  DEF Reactor, vars, reactor

-----------------------------------------------------------------------------
\* The inductive invariant.
IInv == ThreadTypes /\ Holding /\ WorkerHolds /\ FlagFirst /\ Refusals /\ QInv

\* The conjunction of all parts is inductive.
LEMMA GatewayInductive == IInv /\ [Next]_vars => IInv'
<1> SUFFICES ASSUME IInv, [Next]_vars PROVE IInv'
  OBVIOUS
<1>1. FlagFirst' /\ QInv' /\ WorkerHolds'
  BY NextFlagFirst, NextQInv, NextWorkerHolds DEF IInv, QInv
<1>2. answer' \in [Conns -> {0, 200, 500, 503}]
  BY AnswerType DEF IInv, ThreadTypes
<1>3. CASE UNCHANGED threads
  <2>1. ThreadTypes' /\ Holding'
    BY <1>2, <1>3 DEF IInv, ThreadTypes, Holding, threads
  <2>2. Refusals'
    BY <1>3, FlagStays DEF IInv, Refusals, RefusalOf, threads
  <2> QED
    BY <1>1, <2>1, <2>2 DEF IInv
<1>4. ASSUME NEW t \in Threads, Ingress(t) PROVE IInv'
  <2>1. Refusals'
    BY <1>4, IngressRefusal DEF IInv
  <2>2. ThreadTypes' /\ Holding'
    BY <1>2, <1>4, IngressTypes DEF IInv, QInv, ThreadTypes
  <2> QED
    BY <1>1, <2>1, <2>2 DEF IInv
<1> QED
  BY <1>3, <1>4, ThreadsQuiet DEF vars

\* The server starts with empty queues, idle threads and the flag down.
LEMMA InitIInv == Init => IInv
<1> SUFFICES ASSUME Init PROVE IInv
  OBVIOUS
<1>1. << >> \in Seq(Conns) /\ Len(<< >>) = 0
  OBVIOUS
<1>2. ThreadTypes /\ Holding /\ WorkerHolds /\ FlagFirst
  BY DEF Init, ThreadTypes, Holding, WorkerHolds, FlagFirst, Executing
<1>3. Refusals
  BY DEF Init, Refusals, RefusalOf
<1>4. QInv
  BY <1>1 DEF Init, QInv, QueueTypes, Staging, Bounded
<1> QED
  BY <1>2, <1>3, <1>4 DEF IInv

\* Every reachable state satisfies the parts the two theorems need.
LEMMA GatewayInvariant == Spec => []IInv
  BY InitIInv, GatewayInductive, PTL DEF Spec

\* A client is told "queue full" only if the inference queue was full, for
\* every number of ingress threads: handle_connection may tell a full from a
\* closed queue by the stop flag.
THEOREM GatewayHonestRefusal == Spec => []HonestRefusal
<1>1. IInv => HonestRefusal
  BY DEF IInv, Refusals, RefusalOf, HonestRefusal
<1> QED
  BY <1>1, GatewayInvariant, PTL

\* The staging set and both bounded queues never exceed their capacity, for
\* every capacity and however many clients arrive.
THEOREM GatewayBounded == Spec => []Bounded
<1>1. IInv => Bounded
  BY DEF IInv, QInv
<1> QED
  BY <1>1, GatewayInvariant, PTL
-----------------------------------------------------------------------------
(***************************************************************************)
(* Who owns which socket.                                                  *)
(***************************************************************************)
\* No connection is twice in a queue.
Distinct(q) == \A i, j \in 1..Len(q) : q[i] = q[j] => i = j

\* A thread has the socket.
Served(c) == \E t \in Threads : at[t] = c

\* The reactor, the ready queue or a thread has the socket.
Owned(c) == \/ c \in Elements(pending) \/ c \in Elements(todo)
            \/ c \in Elements(ready) \/ Served(c)

\* The owners of the sockets do not overlap, and the open sockets are the
\* owned ones.
Sockets ==
    /\ Distinct(pending) /\ Distinct(todo) /\ Distinct(ready)
    /\ \A t, u \in Threads : at[t] = at[u] /\ at[t] # None => t = u
    /\ \A c \in Conns : /\ ~(c \in Elements(pending) /\ c \in Elements(todo))
                        /\ ~(c \in Elements(pending) /\ c \in Elements(ready))
                        /\ ~(c \in Elements(todo) /\ c \in Elements(ready))
                        /\ Served(c) => /\ c \notin Elements(pending)
                                        /\ c \notin Elements(todo)
                                        /\ c \notin Elements(ready)
    /\ \A c \in Conns : phase[c] = "open" <=> Owned(c)

\* A thread that is back at pop() holds nothing.
Idle == \A t \in Threads : tpc[t] \in {"pop", "exited"} => at[t] = None

(***************************************************************************)
(* Which job is where.                                                     *)
(***************************************************************************)
\* The job of a connection and the thread that has it.
JobOf(t) ==
    /\ tpc[t] \in {"route", "admit", "refused"} => job[at[t]] = "none"
    /\ tpc[t] = "serve" => job[at[t]] # "none"
    /\ tpc[t] = "send" => job[at[t]] # "queued"
    /\ tpc[t] = "send" /\ job[at[t]] = "active" => answer[at[t]] # 0

\* The queue and the worker hold the undecided jobs, each once, and only a
\* job that was taken up has an answer.
Jobs ==
    /\ Distinct(jobs)
    /\ \A c \in Conns : job[c] = "queued" <=> c \in Elements(jobs)
    /\ \A c \in Conns :
         job[c] = "active" <=> c = wjob /\ wpc \in Executing
    /\ \A c \in Conns : answer[c] # 0 => job[c] \in {"active", "done"}
    /\ \A c \in Conns :
         job[c] # "none" =>
           \/ phase[c] = "closed"
           \/ \E t \in Threads : tpc[t] \in {"serve", "send"} /\ at[t] = c
    /\ \A t \in Threads : JobOf(t)

\* The inductive form of AdmittedHasWaiter: only a job that has begun to
\* answer is left behind by a thread that throws.
Waited ==
    \A c \in Conns :
        job[c] \in {"queued", "active"} /\ ~cancelled[c]
            => HasWaiter(c) \/ answer[c] # 0

(***************************************************************************)
(* What each phase of the shutdown leaves.                                 *)
(***************************************************************************)
Closing == {"stop", "close_ready", "close_jobs", "join_ingress", "join_worker", "exited"}

Exits ==
    /\ ready_closed <=> mpc \in {"close_jobs", "join_ingress", "join_worker", "exited"}
    /\ jobs_closed <=> mpc \in {"join_ingress", "join_worker", "exited"}
    /\ mpc \in Closing => pending = << >> /\ \A c \in Conns : phase[c] # "backlog"
    /\ \A t \in Threads : tpc[t] = "exited" => ready_closed /\ ready = << >>
    /\ wpc = "exited" => jobs_closed /\ jobs = << >>
    /\ mpc \in {"join_worker", "exited"} => \A t \in Threads : tpc[t] = "exited"
    /\ mpc = "exited" => wpc = "exited"

-----------------------------------------------------------------------------
\* What the queue operations do to what a queue holds.
LEMMA QueueElements ==
    ASSUME NEW q \in Seq(Conns)
    PROVE  /\ q # << >> => /\ Elements(q) = {Head(q)} \cup Elements(Tail(q))
                           /\ Distinct(q) => /\ Distinct(Tail(q))
                                             /\ Head(q) \notin Elements(Tail(q))
           /\ \A c \in Conns :
                /\ Elements(Append(q, c)) = Elements(q) \cup {c}
                /\ Distinct(q) /\ c \notin Elements(q) => Distinct(Append(q, c))
           /\ Elements(q) \subseteq Conns
           /\ Elements(<< >>) = {} /\ Distinct(<< >>)
<1>1. ASSUME q # << >>
      PROVE  /\ Elements(q) = {Head(q)} \cup Elements(Tail(q))
             /\ Distinct(q) => Distinct(Tail(q)) /\ Head(q) \notin Elements(Tail(q))
  <2>1. /\ Len(q) \in Nat /\ Len(q) >= 1 /\ Tail(q) \in Seq(Conns)
        /\ Len(Tail(q)) = Len(q) - 1 /\ Head(q) = q[1]
        /\ \A i \in 1..Len(q) - 1 : Tail(q)[i] = q[i + 1]
    BY <1>1
  <2>2. Elements(q) = {Head(q)} \cup Elements(Tail(q))
    <3>1. ASSUME NEW i \in 1..Len(q) PROVE q[i] \in {Head(q)} \cup Elements(Tail(q))
      <4>1. CASE i = 1
        BY <2>1, <4>1
      <4>2. CASE i # 1
        <5>1. i - 1 \in 1..Len(Tail(q)) /\ Tail(q)[i - 1] = q[i]
          BY <2>1, <4>2
        <5> QED
          BY <5>1 DEF Elements
      <4> QED
        BY <4>1, <4>2
    <3>2. ASSUME NEW i \in 1..Len(Tail(q)) PROVE Tail(q)[i] \in Elements(q)
      <4>1. i + 1 \in 1..Len(q) /\ Tail(q)[i] = q[i + 1]
        BY <2>1
      <4> QED
        BY <4>1 DEF Elements
    <3>3. Head(q) \in Elements(q)
      <4>1. 1 \in 1..Len(q)
        BY <2>1
      <4> QED
        BY <2>1, <4>1 DEF Elements
    <3> QED
      BY <3>1, <3>2, <3>3 DEF Elements
  <2>3. ASSUME Distinct(q) PROVE Distinct(Tail(q)) /\ Head(q) \notin Elements(Tail(q))
    <3>1. ASSUME NEW i \in 1..Len(Tail(q)), NEW j \in 1..Len(Tail(q)), Tail(q)[i] = Tail(q)[j]
          PROVE  i = j
      <4>1. i + 1 \in 1..Len(q) /\ j + 1 \in 1..Len(q) /\ q[i + 1] = q[j + 1]
        BY <2>1, <3>1
      <4>2. i + 1 = j + 1
        BY <2>3, <4>1 DEF Distinct
      <4> QED
        BY <4>2
    <3>2. ASSUME NEW i \in 1..Len(Tail(q)), Tail(q)[i] = Head(q) PROVE FALSE
      <4>1. i + 1 \in 1..Len(q) /\ 1 \in 1..Len(q) /\ q[i + 1] = q[1]
        BY <2>1, <3>2
      <4>2. i + 1 = 1
        BY <2>3, <4>1 DEF Distinct
      <4> QED
        BY <4>2
    <3> QED
      BY <3>1, <3>2 DEF Distinct, Elements
  <2> QED
    BY <2>2, <2>3
<1>2. ASSUME NEW c \in Conns
      PROVE  /\ Elements(Append(q, c)) = Elements(q) \cup {c}
             /\ Distinct(q) /\ c \notin Elements(q) => Distinct(Append(q, c))
  <2> DEFINE a == Append(q, c)
  <2>1. /\ Len(q) \in Nat /\ Len(a) = Len(q) + 1 /\ a[Len(q) + 1] = c
        /\ \A i \in 1..Len(q) : a[i] = q[i]
    OBVIOUS
  <2> HIDE DEF a
  <2>2. \A i \in 1..Len(a) : i \in 1..Len(q) \/ i = Len(q) + 1
    BY <2>1
  <2>3. 1..Len(q) \subseteq 1..Len(a) /\ Len(q) + 1 \in 1..Len(a)
    BY <2>1
  <2>4. Elements(a) = Elements(q) \cup {c}
    BY <2>1, <2>2, <2>3 DEF Elements
  <2>5. ASSUME Distinct(q), c \notin Elements(q) PROVE Distinct(a)
    BY <2>1, <2>2, <2>5 DEF Distinct, Elements
  <2> QED
    BY <2>4, <2>5 DEF a
<1>3. Elements(q) \subseteq Conns
  BY DEF Elements
<1>4. Elements(<< >>) = {} /\ Distinct(<< >>)
  BY DEF Elements, Distinct
<1> QED
  BY <1>1, <1>2, <1>3, <1>4

\* handle_connection returns, and its socket has no owner any more.
LEMMA ReleaseSockets ==
    ASSUME ThreadTypes, Holding, Sockets, NEW t \in Threads, Release(t),
           tpc[t] \notin {"pop", "exited"}, phase \in [Conns -> {"new", "backlog", "open", "closed"}],
           UNCHANGED <<pending, todo, ready>>
    PROVE  Sockets'
<1> DEFINE c == at[t]
<1>1. c \in Conns /\ c # None
  BY DEF Holding
<1>2. at' = [at EXCEPT ![t] = None] /\ phase' = [phase EXCEPT ![c] = "closed"]
  BY DEF Release, Close
<1>3. at \in [Threads -> Conns \cup {None}]
  BY DEF ThreadTypes
<1> HIDE DEF c
<1>4. at'[t] = None /\ \A u \in Threads \ {t} : at'[u] = at[u] /\ at[u] # c
  BY <1>1, <1>2, <1>3 DEF Sockets, c
<1>5. \A d \in Conns : Served(d)' <=> Served(d) /\ d # c
  BY <1>1, <1>4 DEF Served, c
<1>6. Served(c) /\ at[t] = c
  BY DEF Served, c
<1>7. \A d \in Conns : phase'[d] = IF d = c THEN "closed" ELSE phase[d]
  BY <1>2
<1>8. \A d \in Conns : d = c => ~Owned(d)'
  BY <1>1, <1>5, <1>6 DEF Owned, Sockets
<1>9. \A d \in Conns \ {c} : Owned(d)' <=> Owned(d)
  BY <1>5 DEF Owned
<1>10. \A d \in Conns : phase'[d] = "open" <=> Owned(d)'
  BY <1>7, <1>8, <1>9 DEF Sockets
<1>11. \A u, v \in Threads : at'[u] = at'[v] /\ at'[u] # None => u = v
  BY <1>4 DEF Sockets
<1> QED
  BY <1>5, <1>10, <1>11 DEF Sockets

\* A connection goes from the ready queue to one thread.
LEMMA PopSockets ==
    ASSUME ThreadTypes, QueueTypes, Idle, Sockets, NEW t \in Threads, PopConnection(t)
    PROVE  Sockets'
<1>0. UNCHANGED <<pending, todo, phase>> /\ tpc[t] = "pop"
  BY DEF PopConnection, reactor
<1>1. CASE UNCHANGED <<at, ready>>
  BY <1>0, <1>1 DEF Sockets, Owned, Served
<1>2. CASE ready # << >> /\ at' = [at EXCEPT ![t] = Head(ready)] /\ ready' = Tail(ready)
  <2> DEFINE c == Head(ready)
  <2>1. /\ c \in Conns /\ Elements(ready) = {c} \cup Elements(ready') /\ c \notin Elements(ready')
        /\ Distinct(ready')
    BY <1>2, QueueElements, QueueFacts DEF QueueTypes, Sockets
  <2>2. at[t] = None /\ at \in [Threads -> Conns \cup {None}] /\ c # None
    BY <1>0, <2>1 DEF Idle, ThreadTypes
  <2>3. at'[t] = c /\ \A u \in Threads \ {t} : at'[u] = at[u]
    BY <1>2, <2>2
  <2> HIDE DEF c
  <2>4. \A u \in Threads : at[u] # c
    BY <2>1 DEF Sockets, Served
  <2>5. \A d \in Conns : Served(d)' <=> Served(d) \/ d = c
    BY <2>2, <2>3 DEF Served
  <2>6. \A d \in Conns : Owned(d)' <=> Owned(d)
    BY <1>0, <2>1, <2>5 DEF Owned
  <2>7. \A u, v \in Threads : at'[u] = at'[v] /\ at'[u] # None => u = v
    BY <2>3, <2>4 DEF Sockets
  <2> QED
    BY <1>0, <2>1, <2>5, <2>6, <2>7 DEF Sockets
<1> QED
  BY <1>1, <1>2 DEF PopConnection

\* What the reactor does with one staged connection.
LEMMA StageSockets ==
    ASSUME QueueTypes, Sockets, StageOne, phase \in [Conns -> {"new", "backlog", "open", "closed"}]
    PROVE  Sockets'
<1> DEFINE c == Head(todo)
<1>1. /\ c \in Conns /\ Elements(todo) = {c} \cup Elements(todo') /\ c \notin Elements(todo')
      /\ Distinct(todo') /\ UNCHANGED at
  BY QueueElements, QueueFacts DEF StageOne, QueueTypes, Sockets, threads
<1>2. \/ phase' = [phase EXCEPT ![c] = "closed"] /\ UNCHANGED <<pending, ready>>
      \/ ready' = Append(ready, c) /\ UNCHANGED <<pending, phase>>
      \/ pending' = Append(pending, c) /\ UNCHANGED <<phase, ready>>
  BY DEF StageOne, Close
<1> HIDE DEF c
<1>3. /\ c \notin Elements(pending) /\ c \notin Elements(ready) /\ ~Served(c)
      /\ \A d \in Conns : Served(d)' <=> Served(d)
  BY <1>1 DEF Sockets, Served
<1>4. CASE phase' = [phase EXCEPT ![c] = "closed"] /\ UNCHANGED <<pending, ready>>
  <2>1. \A d \in Conns : phase'[d] = IF d = c THEN "closed" ELSE phase[d]
    BY <1>4
  <2>2. \A d \in Conns : Owned(d)' <=> Owned(d) /\ d # c
    BY <1>1, <1>3, <1>4 DEF Owned
  <2>3. \A d \in Conns : phase'[d] = "open" <=> Owned(d)'
    BY <2>1, <2>2 DEF Sockets
  <2> QED
    BY <1>1, <1>3, <1>4, <2>3 DEF Sockets
<1>5. CASE ready' = Append(ready, c) /\ UNCHANGED <<pending, phase>>
  <2>1. Elements(ready') = Elements(ready) \cup {c} /\ Distinct(ready')
    BY <1>1, <1>3, <1>5, QueueElements DEF QueueTypes, Sockets
  <2>2. \A d \in Conns : Owned(d)' <=> Owned(d)
    BY <1>1, <1>3, <1>5, <2>1 DEF Owned
  <2> QED
    BY <1>1, <1>3, <1>5, <2>1, <2>2 DEF Sockets
<1>6. CASE pending' = Append(pending, c) /\ UNCHANGED <<phase, ready>>
  <2>1. Elements(pending') = Elements(pending) \cup {c} /\ Distinct(pending')
    BY <1>1, <1>3, <1>6, QueueElements DEF QueueTypes, Sockets
  <2>2. \A d \in Conns : Owned(d)' <=> Owned(d)
    BY <1>1, <1>3, <1>6, <2>1 DEF Owned
  <2> QED
    BY <1>1, <1>3, <1>6, <2>1, <2>2 DEF Sockets
<1> QED
  BY <1>2, <1>4, <1>5, <1>6

\* A connection is accepted, and may push out the oldest staged one.
LEMMA AcceptSockets ==
    ASSUME QInv, Sockets, NEW c \in Conns, Accept(c),
           phase \in [Conns -> {"new", "backlog", "open", "closed"}]
    PROVE  Sockets'
<1>1. /\ UNCHANGED <<todo, ready, at>> /\ phase[c] = "backlog" /\ pending \in Seq(Conns)
  BY DEF Accept, readyq, threads, QInv, QueueTypes
<1>2. ~Owned(c) /\ c \notin Elements(pending)
  BY <1>1 DEF Sockets, Owned
<1>3. \A d \in Conns : Served(d)' <=> Served(d)
  BY <1>1 DEF Served
<1>4. CASE EvictOldest
  <2> DEFINE h == Head(pending)
             s == Tail(pending)
  <2>1. pending # << >> /\ pending' = Append(s, c) /\ phase' = [phase EXCEPT ![c] = "open", ![h] = "closed"]
    BY <1>1, <1>4 DEF Accept, EvictOldest
  <2>2. /\ h \in Conns /\ s \in Seq(Conns) /\ Elements(pending) = {h} \cup Elements(s)
        /\ h \notin Elements(s) /\ Distinct(s)
    BY <1>1, <2>1, QueueElements, QueueFacts DEF Sockets
  <2>3. c # h /\ c \notin Elements(s)
    BY <1>2, <2>2
  <2> HIDE DEF h, s
  <2>4. Elements(pending') = Elements(s) \cup {c} /\ Distinct(pending')
    BY <2>1, <2>2, <2>3, QueueElements
  <2>5. \A d \in Conns : phase'[d] = IF d = c THEN "open" ELSE IF d = h THEN "closed" ELSE phase[d]
    BY <2>1, <2>2, <2>3
  <2>6. \A d \in Conns : Owned(d)' <=> d = c \/ (Owned(d) /\ d # h)
    BY <1>1, <1>3, <2>2, <2>4 DEF Owned, Sockets
  <2>7. \A d \in Conns : phase'[d] = "open" <=> Owned(d)'
    BY <2>3, <2>5, <2>6 DEF Sockets
  <2>8. /\ c \notin Elements(todo) /\ c \notin Elements(ready) /\ ~Served(c)
    BY <1>2 DEF Owned
  <2> QED
    BY <1>1, <1>3, <2>2, <2>4, <2>7, <2>8 DEF Sockets
<1>5. CASE ~EvictOldest
  <2>1. pending' = Append(pending, c) /\ phase' = [phase EXCEPT ![c] = "open"]
    BY <1>5 DEF Accept
  <2>2. Elements(pending') = Elements(pending) \cup {c} /\ Distinct(pending')
    BY <1>1, <1>2, <2>1, QueueElements DEF Sockets
  <2>3. \A d \in Conns : phase'[d] = IF d = c THEN "open" ELSE phase[d]
    BY <2>1
  <2>4. \A d \in Conns : Owned(d)' <=> d = c \/ Owned(d)
    BY <1>1, <1>3, <2>2 DEF Owned
  <2>5. \A d \in Conns : phase'[d] = "open" <=> Owned(d)'
    BY <2>3, <2>4 DEF Sockets
  <2>6. /\ c \notin Elements(todo) /\ c \notin Elements(ready) /\ ~Served(c)
    BY <1>2 DEF Owned
  <2> QED
    BY <1>1, <1>3, <2>2, <2>5, <2>6 DEF Sockets
<1> QED
  BY <1>4, <1>5

Phases == {"new", "backlog", "open", "closed"}

\* A step that moves no socket.
LEMMA QuietSockets ==
    ASSUME Sockets, UNCHANGED <<pending, todo, ready, at>>,
           \A c \in Conns : phase'[c] = "open" <=> phase[c] = "open"
    PROVE  Sockets'
<1>1. \A c \in Conns : (Served(c)' <=> Served(c)) /\ (Owned(c)' <=> Owned(c))
  BY DEF Served, Owned
<1> QED
  BY <1>1 DEF Sockets

\* No step leaves a socket without an owner or gives it two.
LEMMA NextSockets ==
    ASSUME ThreadTypes, Holding, QInv, Idle, Sockets, phase \in [Conns -> Phases], [Next]_vars
    PROVE  Sockets'
<1> USE DEF Phases
<1>1. CASE UNCHANGED <<pending, todo, ready, at, phase>>
  BY <1>1, QuietSockets
<1>2. CASE Poll
  <2>1. UNCHANGED <<ready, at, phase>>
    BY <1>2 DEF Poll, readyq, threads
  <2>2. CASE UNCHANGED <<pending, todo>>
    BY <2>1, <2>2, QuietSockets
  <2>3. CASE todo' = pending /\ pending' = << >>
    <3>1. todo = << >>
      BY <1>2 DEF Poll, QInv, Staging
    <3>2. Elements(<< >>) = {} /\ Distinct(<< >>)
      BY QueueElements DEF QInv, QueueTypes
    <3>3. Elements(todo') = Elements(pending) /\ Elements(pending') = {} /\ Elements(todo) = {}
      BY <2>3, <3>1, <3>2
    <3>4. \A c \in Conns : (Served(c)' <=> Served(c)) /\ (Owned(c)' <=> Owned(c))
      BY <2>1, <3>3 DEF Served, Owned
    <3>5. Distinct(todo') /\ Distinct(pending')
      BY <2>3, <3>2 DEF Sockets
    <3> QED
      BY <2>1, <3>3, <3>4, <3>5 DEF Sockets
  <2> QED
    BY <1>2, <2>2, <2>3 DEF Poll
<1>3. CASE StageOne
  BY <1>3, StageSockets DEF QInv
<1>4. ASSUME NEW c \in Conns, Accept(c) PROVE Sockets'
  BY <1>4, AcceptSockets
<1>5. ASSUME NEW c \in Conns, AcceptLate(c) PROVE Sockets'
  BY <1>5, QuietSockets DEF AcceptLate, Close, readyq, threads
<1>6. CASE Leave
  <2>1. /\ pending' = << >> /\ UNCHANGED <<todo, ready, at>>
        /\ \A c \in Conns : phase'[c] = IF phase[c] = "backlog" \/ c \in Elements(pending)
                                          THEN "closed" ELSE phase[c]
    BY <1>6 DEF Leave, readyq, threads
  <2>2. Elements(pending') = {} /\ Distinct(pending')
    BY <2>1, QueueElements DEF QInv, QueueTypes
  <2>3. \A c \in Conns : (Served(c)' <=> Served(c))
                           /\ (Owned(c)' <=> Owned(c) /\ c \notin Elements(pending))
    BY <2>1, <2>2 DEF Served, Owned, Sockets
  <2> QED
    BY <2>1, <2>2, <2>3 DEF Sockets
<1>7. ASSUME NEW c \in Conns, Connect(c) PROVE Sockets'
  BY <1>7, QuietSockets DEF Connect, reactor, readyq, threads
<1>8. ASSUME NEW t \in Threads, PopConnection(t) PROVE Sockets'
  BY <1>8, PopSockets DEF QInv
<1>9. ASSUME NEW t \in Threads, Release(t), tpc[t] \notin {"pop", "exited"},
             UNCHANGED <<reactor, readyq>>
      PROVE  Sockets'
  BY <1>9, ReleaseSockets DEF reactor, readyq
<1>10. CASE Reactor
  <2>1. CASE StageDone \/ AcceptDone \/ Shutdown \/ Join
    BY <1>1, <2>1 DEF StageDone, AcceptDone, Shutdown, Join, readyq, threads
  <2> QED
    BY <1>2, <1>3, <1>4, <1>5, <1>6, <1>10, <2>1 DEF Reactor
<1>11. ASSUME NEW t \in Threads, Ingress(t) PROVE Sockets'
  <2>1. CASE RouteStopping(t) \/ ServeAborts(t) \/ SendEnds(t) \/ StreamAborts(t)
             \/ ThreadThrows(t)
    BY <1>9, <2>1 DEF RouteStopping, ServeAborts, SendEnds, StreamAborts, ThreadThrows
  <2>2. CASE Route(t) \/ Admit(t) \/ Refuse(t) \/ ServeAnswered(t)
    BY <1>1, <2>2 DEF Route, Admit, Refuse, ServeAnswered, reactor, readyq
  <2> QED
    BY <1>8, <1>11, <2>1, <2>2 DEF Ingress
<1>12. CASE Worker
  BY <1>1, <1>12 DEF Worker, PopJob, BeginJob, StartStream, PushWaits, EndJob, JobThrows,
      Poison, PublishPoisoned,
    Refresh, reactor, readyq, threads
<1>13. CASE Environment
  BY <1>1, <1>7, <1>13 DEF Environment, Stop, RequestArrives, DeadlinePasses, HangsUp,
    reactor, readyq, threads
<1>14. CASE UNCHANGED vars
  BY <1>1, <1>14 DEF vars, reactor, readyq, threads
<1> QED
  BY <1>10, <1>11, <1>12, <1>13, <1>14 DEF Next, Exited

\* A thread that goes back to pop() has let its connection go.
LEMMA NextIdle ==
    ASSUME ThreadTypes, Idle, QueueTypes, [Next]_vars
    PROVE  Idle'
<1>1. CASE UNCHANGED threads
  BY <1>1 DEF Idle, threads
<1>2. ASSUME NEW t \in Threads, Ingress(t) PROVE Idle'
  <2> USE DEF ThreadTypes, Idle
  <2>1. CASE PopConnection(t)
    BY <2>1 DEF PopConnection
  <2>2. CASE Release(t)
    BY <2>2 DEF Release
  <2>3. CASE Route(t)
    BY <2>3 DEF Route, Respond
  <2>4. CASE Admit(t)
    BY <2>4 DEF Admit
  <2>5. CASE Refuse(t) \/ ServeAnswered(t)
    BY <2>5 DEF Refuse, ServeAnswered, Respond
  <2> QED
    BY <1>2, <2>1, <2>2, <2>3, <2>4, <2>5 DEF Ingress, RouteStopping, ServeAborts,
      SendEnds, StreamAborts, ThreadThrows
<1> QED
  BY <1>1, <1>2, ThreadsQuiet DEF vars

\* The value sets of the rest of the state.
RestTypes ==
    /\ stop_requested \in BOOLEAN /\ healthy \in BOOLEAN
    /\ mpc \in {"poll", "stage", "accept", "leave", "stop", "close_ready",
                "close_jobs", "join_ingress", "join_worker", "exited"}
    /\ readable \in BOOLEAN /\ accepted \in 0..MaxAccepts
    /\ ready_closed \in BOOLEAN /\ jobs_closed \in BOOLEAN
    /\ wpc \in Executing \cup {"pop", "refresh", "exited"}
    /\ wjob \in Conns \cup {None}
    /\ job \in [Conns -> {"none", "queued", "active", "done"}]
    /\ cancelled \in [Conns -> BOOLEAN]
    /\ phase \in [Conns -> Phases]
    /\ kind \in [Conns -> Kinds]
    /\ recv \in [Conns -> {"partial", "whole", "late"}]
    /\ gone \in [Conns -> BOOLEAN]

\* No step leaves them.
LEMMA NextRestTypes ==
    ASSUME RestTypes, ThreadTypes, Holding, WorkerHolds, QueueTypes, [Next]_vars
    PROVE  RestTypes'
<1> USE DEF RestTypes, Phases, Executing, flags, reactor, readyq, jobq, threads, worker, mailbox,
          clients
<1>1. CASE Environment
  <2>1. CASE Stop
    BY <2>1 DEF Stop
  <2>2. ASSUME NEW c \in Conns, Connect(c) PROVE RestTypes'
    BY <2>2 DEF Connect
  <2>3. ASSUME NEW c \in Conns, RequestArrives(c) \/ DeadlinePasses(c) PROVE RestTypes'
    BY <2>3 DEF RequestArrives, DeadlinePasses
  <2>4. ASSUME NEW c \in Conns, HangsUp(c) PROVE RestTypes'
    BY <2>4 DEF HangsUp
  <2> QED
    BY <1>1, <2>1, <2>2, <2>3, <2>4 DEF Environment
<1>2. CASE Reactor
  <2>1. CASE Poll
    <3>1. readable' \in BOOLEAN
      BY <2>1, Zenon DEF Poll
    <3> QED
      BY <2>1, <3>1 DEF Poll
  <2>2. CASE StageOne
    <3>1. Head(todo) \in Conns
      BY <2>2, QueueFacts DEF StageOne, QueueTypes
    <3> QED
      BY <2>2, <3>1 DEF StageOne, Close
  <2>3. CASE StageDone \/ AcceptDone
    <3>1. 0 \in 0..MaxAccepts
      OBVIOUS
    <3>2. CASE StageDone
      BY <3>2 DEF StageDone
    <3>3. CASE AcceptDone
      <4>1. accepted' = 0 /\ mpc' \in {"poll", "leave"}
        BY <3>3 DEF AcceptDone
      <4> QED
        BY <3>1, <3>3, <4>1 DEF AcceptDone
    <3> QED
      BY <2>3, <3>2, <3>3
  <2>4. ASSUME NEW c \in Conns, Accept(c) PROVE RestTypes'
    <3>1. accepted' \in 0..MaxAccepts
      BY <2>4 DEF Accept, BudgetLeft
    <3>2. phase' \in [Conns -> Phases]
      BY <2>4 DEF Accept
    <3> QED
      BY <2>4, <3>1, <3>2 DEF Accept
  <2>5. ASSUME NEW c \in Conns, AcceptLate(c) PROVE RestTypes'
    BY <2>5 DEF AcceptLate, Close
  <2>6. CASE Leave
    BY <2>6 DEF Leave
  <2>7. CASE Shutdown
    <3>1. stop_requested' \in BOOLEAN /\ ready_closed' \in BOOLEAN /\ jobs_closed' \in BOOLEAN
      BY <2>7, Zenon DEF Shutdown, StopThenCloseQueues
    <3>2. mpc' \in {"close_ready", "close_jobs", "join_ingress"}
      BY <2>7 DEF Shutdown, StopThenCloseQueues
    <3> QED
      BY <2>7, <3>1, <3>2 DEF Shutdown
  <2>8. CASE Join
    BY <2>8 DEF Join
  <2> QED
    BY <1>2, <2>1, <2>2, <2>3, <2>4, <2>5, <2>6, <2>7, <2>8 DEF Reactor
<1>3. ASSUME NEW t \in Threads, Ingress(t) PROVE RestTypes'
  <2>1. tpc[t] \notin {"pop", "exited"} => at[t] \in Conns
    BY DEF Holding
  <2>2. CASE PopConnection(t) \/ Route(t) \/ Refuse(t) \/ ServeAnswered(t)
    BY <2>2 DEF PopConnection, Route, Refuse, ServeAnswered
  <2>3. CASE Admit(t)
    BY <2>1, <2>3 DEF Admit
  <2>4. CASE RouteStopping(t) \/ SendEnds(t) \/ ThreadThrows(t)
    BY <2>1, <2>4 DEF RouteStopping, SendEnds, ThreadThrows, Release, Close
  <2>5. CASE ServeAborts(t) \/ StreamAborts(t)
    <3>1. cancelled' \in [Conns -> BOOLEAN]
      BY <2>1, <2>5 DEF ServeAborts, StreamAborts, GiveUp
    <3>2. phase' \in [Conns -> Phases]
      BY <2>1, <2>5 DEF ServeAborts, StreamAborts, Release, Close
    <3> QED
      BY <2>5, <3>1, <3>2 DEF ServeAborts, StreamAborts
  <2> QED
    BY <1>3, <2>2, <2>3, <2>4, <2>5 DEF Ingress
<1>4. CASE Worker
  <2>1. wpc \in Executing => wjob \in Conns
    BY DEF WorkerHolds
  <2>2. CASE PopJob
    <3>1. jobs # << >> => Head(jobs) \in Conns
      BY QueueFacts DEF QueueTypes
    <3> QED
      BY <2>2, <3>1 DEF PopJob
  <2>3. CASE BeginJob
    BY <2>1, <2>3 DEF BeginJob, FinishJob
  <2>4. CASE StartStream \/ PushWaits \/ Poison \/ Refresh
    <3>1. CASE StartStream \/ PushWaits
      BY <3>1 DEF StartStream, PushWaits
    <3>2. CASE Poison
      BY <3>2 DEF Poison
    <3>3. CASE Refresh
      <4>1. healthy' \in BOOLEAN
        BY <3>3, Zenon DEF Refresh
      <4> QED
        BY <3>3, <4>1 DEF Refresh
    <3> QED
      BY <2>4, <3>1, <3>2, <3>3
  <2>5. CASE EndJob \/ PublishPoisoned
    BY <2>1, <2>5 DEF EndJob, PublishPoisoned, FinishJob
  <2>6. CASE JobThrows
    <3>1. cancelled' \in [Conns -> BOOLEAN]
      BY <2>6, Zenon DEF JobThrows, GiveUp
    <3> QED
      BY <2>6, <3>1 DEF JobThrows, FinishJob
  <2> QED
    BY <1>4, <2>2, <2>3, <2>4, <2>5, <2>6 DEF Worker
<1>5. CASE UNCHANGED vars
  BY <1>5 DEF vars
<1> QED
  BY <1>1, <1>2, <1>3, <1>4, <1>5 DEF Next, Exited

\* A closed socket stays closed, and only the ingress threads and the worker
\* touch the jobs.
LEMMA ClosedStays ==
    ASSUME RestTypes, [Next]_vars
    PROVE  \A c \in Conns : phase[c] = "closed" => phase'[c] = "closed"
<1> USE DEF RestTypes, Phases
<1>1. CASE UNCHANGED phase
  BY <1>1
<1>2. CASE \E c : phase' = [phase EXCEPT ![c] = "closed"]
  BY <1>2
<1>3. ASSUME NEW c \in Conns, Accept(c) PROVE \A d \in Conns : phase[d] = "closed" => phase'[d] = "closed"
  BY <1>3 DEF Accept
<1>4. ASSUME NEW c \in Conns, Connect(c) PROVE \A d \in Conns : phase[d] = "closed" => phase'[d] = "closed"
  BY <1>4 DEF Connect
<1>5. CASE Leave
  BY <1>5 DEF Leave
<1>6. CASE Reactor
  BY <1>1, <1>2, <1>3, <1>5, <1>6 DEF Reactor, Poll, StageOne, StageDone, AcceptLate, AcceptDone,
    Shutdown, Join, Close
<1>7. CASE Environment
  BY <1>1, <1>4, <1>7 DEF Environment, Stop, RequestArrives, DeadlinePasses, HangsUp
<1>8. CASE Worker
  BY <1>1, <1>8 DEF Worker, PopJob, BeginJob, StartStream, PushWaits, EndJob, JobThrows,
      Poison, PublishPoisoned, Refresh
<1>9. ASSUME NEW t \in Threads, Ingress(t) PROVE \A d \in Conns : phase[d] = "closed" => phase'[d] = "closed"
  <2>1. CASE Release(t)
    BY <1>2, <2>1 DEF Release, Close
  <2> QED
    BY <1>1, <1>9, <2>1 DEF Ingress, PopConnection, RouteStopping, Route, Admit, Refuse,
      ServeAborts, ServeAnswered, SendEnds, StreamAborts, ThreadThrows
<1> QED
  BY <1>1, <1>6, <1>7, <1>8, <1>9 DEF Next, Exited, vars

\* A step that touches no job and no thread.
LEMMA QuietJobs ==
    ASSUME Jobs, Waited, UNCHANGED <<job, jobs, wjob, wpc, answer, cancelled, tpc, at>>,
           \A c \in Conns : phase[c] = "closed" => phase'[c] = "closed"
    PROVE  Jobs' /\ Waited'
  BY DEF Jobs, JobOf, Waited, HasWaiter

\* What the steps of one thread do to the jobs.
LEMMA IngressJobs ==
    ASSUME ThreadTypes, Holding, Idle, QueueTypes, RestTypes, Sockets, Jobs, Waited,
           NEW t \in Threads, Ingress(t),
           \A c \in Conns : phase[c] = "closed" => phase'[c] = "closed"
    PROVE  Jobs' /\ Waited'
<1> DEFINE c == at[t]
           Busy(p) == p \notin {"pop", "exited"}
<1>1. /\ tpc \in [Threads -> {"pop", "route", "admit", "refused", "serve", "send", "exited"}]
      /\ at \in [Threads -> Conns \cup {None}]
      /\ job \in [Conns -> {"none", "queued", "active", "done"}]
      /\ cancelled \in [Conns -> BOOLEAN] /\ phase \in [Conns -> Phases]
  BY DEF ThreadTypes, RestTypes
<1>2. \A u \in Threads : Busy(tpc[u]) => at[u] \in Conns /\ at[u] # None
  BY DEF Holding
<1>3. \A u, v \in Threads : at[u] = at[v] /\ at[u] # None => u = v
  BY DEF Sockets
<1>4. CASE PopConnection(t)
  <2>1. /\ tpc[t] = "pop"
        /\ UNCHANGED <<job, jobs, wjob, wpc, answer, cancelled, phase>>
    BY <1>4 DEF PopConnection, jobq, worker, mailbox
  <2>2. CASE tpc' = [tpc EXCEPT ![t] = "exited"] /\ at' = at
    BY <1>1, <2>1, <2>2 DEF Jobs, JobOf, Waited, HasWaiter
  <2>3. CASE ready # << >> /\ at' = [at EXCEPT ![t] = Head(ready)]
             /\ tpc' = [tpc EXCEPT ![t] = "route"]
    <3> DEFINE h == Head(ready)
    <3>1. h \in Conns /\ h \in Elements(ready)
      BY <2>3, QueueElements, QueueFacts DEF QueueTypes
    <3> HIDE DEF h
    <3>2. phase[h] = "open" /\ ~Served(h)
      BY <3>1 DEF Sockets, Owned
    <3>3. job[h] = "none"
      BY <3>1, <3>2 DEF Jobs, Served
    <3>4. /\ at'[t] = h /\ tpc'[t] = "route"
          /\ \A u \in Threads \ {t} : at'[u] = at[u] /\ tpc'[u] = tpc[u]
      BY <1>1, <2>3 DEF h
    <3>5. \A u \in Threads : JobOf(u)'
      BY <2>1, <3>3, <3>4 DEF Jobs, JobOf
    <3>6. \A d \in Conns : (\E u \in Threads : tpc[u] \in {"serve", "send"} /\ at[u] = d)
                           => \E u \in Threads : tpc'[u] \in {"serve", "send"} /\ at'[u] = d
      BY <2>1, <3>4
    <3> QED
      BY <2>1, <3>5, <3>6 DEF Jobs, Waited, HasWaiter
  <2> QED
    BY <1>4, <2>2, <2>3 DEF PopConnection
<1>5. ASSUME Release(t), Busy(tpc[t]), UNCHANGED <<job, jobs, wjob, wpc, answer>>,
             \A d \in Conns : cancelled[d] => cancelled'[d],
             job[c] \in {"queued", "active"} => cancelled'[c] \/ answer[c] # 0
      PROVE  Jobs' /\ Waited'
  <2>1. c \in Conns
    BY <1>2, <1>5
  <2>2. /\ at'[t] = None /\ tpc'[t] = "pop"
        /\ \A u \in Threads \ {t} : at'[u] = at[u] /\ tpc'[u] = tpc[u]
    BY <1>1, <1>5 DEF Release
  <2>3. phase'[c] = "closed"
    BY <1>1, <1>5, <2>1 DEF Release, Close
  <2> HIDE DEF c
  <2>4. \A u \in Threads : JobOf(u)'
    BY <1>5, <2>2 DEF Jobs, JobOf
  <2>5. \A d \in Conns \ {c} : (\E u \in Threads : tpc[u] \in {"serve", "send"} /\ at[u] = d)
                           => \E u \in Threads : tpc'[u] \in {"serve", "send"} /\ at'[u] = d
    BY <2>2 DEF c
  <2>6. \A d \in Conns : job'[d] # "none" =>
           \/ phase'[d] = "closed"
           \/ \E u \in Threads : tpc'[u] \in {"serve", "send"} /\ at'[u] = d
    BY <1>5, <2>3, <2>5 DEF Jobs
  <2>7. Waited'
    BY <1>5, <2>5 DEF Waited, HasWaiter
  <2> QED
    BY <1>5, <2>4, <2>6, <2>7 DEF Jobs
<1>6. ASSUME Busy(tpc[t]), NEW p \in {"admit", "refused", "serve", "send"},
             tpc' = [tpc EXCEPT ![t] = p], at' = at,
             UNCHANGED <<job, jobs, wjob, wpc, answer, cancelled, phase>>,
             p \in {"admit", "refused"} => job[c] = "none",
             p = "serve" => job[c] # "none", p = "send" => job[c] # "queued",
             p = "send" /\ job[c] = "active" => answer[c] # 0,
             tpc[t] \in {"serve", "send"} => p \in {"serve", "send"}
      PROVE  Jobs' /\ Waited'
  <2>1. tpc'[t] = p /\ \A u \in Threads \ {t} : tpc'[u] = tpc[u]
    BY <1>1, <1>6
  <2>2. \A u \in Threads : JobOf(u)'
    BY <1>6, <2>1 DEF Jobs, JobOf
  <2>3. \A d \in Conns : (\E u \in Threads : tpc[u] \in {"serve", "send"} /\ at[u] = d)
                         => \E u \in Threads : tpc'[u] \in {"serve", "send"} /\ at'[u] = d
    BY <1>6, <2>1
  <2> QED
    BY <1>6, <2>2, <2>3 DEF Jobs, Waited, HasWaiter
<1>7. CASE Route(t)
  <2>1. job[c] = "none"
    BY <1>7 DEF Route, Jobs, JobOf
  <2>2. \E p \in {"admit", "send"} : tpc' = [tpc EXCEPT ![t] = p]
    BY <1>7 DEF Route, Respond
  <2> QED
    BY <1>6, <1>7, <2>1, <2>2 DEF Route, jobq, worker, mailbox
<1>8. CASE Refuse(t)
  <2>1. job[c] = "none"
    BY <1>8 DEF Refuse, Jobs, JobOf
  <2> QED
    BY <1>6, <1>8, <2>1 DEF Refuse, Respond, jobq, worker, mailbox
<1>9. CASE ServeAnswered(t)
  <2>1. job[c] # "queued"
    BY <1>2, <1>9 DEF ServeAnswered, Jobs
  <2> QED
    BY <1>6, <1>9, <2>1 DEF ServeAnswered, Respond, jobq, worker, mailbox
<1>10. CASE RouteStopping(t) \/ ThreadThrows(t)
  <2>1. job[c] \in {"queued", "active"} => answer[c] # 0
    BY <1>10 DEF RouteStopping, ThreadThrows, Jobs, JobOf
  <2> QED
    BY <1>5, <1>10, <2>1 DEF RouteStopping, ThreadThrows, jobq, worker, mailbox
<1>11. CASE SendEnds(t)
  <2>1. job[c] \notin {"queued", "active"}
    BY <1>11 DEF SendEnds, Jobs, JobOf
  <2> QED
    BY <1>5, <1>11, <2>1 DEF SendEnds, jobq, worker, mailbox
<1>12. CASE ServeAborts(t) \/ StreamAborts(t)
  <2>1. Busy(tpc[t]) /\ c \in Conns /\ cancelled' = [cancelled EXCEPT ![c] = TRUE]
    BY <1>2, <1>12 DEF ServeAborts, StreamAborts, GiveUp
  <2>2. cancelled'[c] /\ \A d \in Conns : cancelled[d] => cancelled'[d]
    BY <1>1, <2>1
  <2> QED
    BY <1>5, <1>12, <2>1, <2>2 DEF ServeAborts, StreamAborts, jobq, worker
<1>13. CASE Admit(t)
  <2>1. c \in Conns /\ job[c] = "none" /\ c # None /\ tpc[t] = "admit"
    BY <1>2, <1>13 DEF Admit, Jobs, JobOf
  <2>2. CASE ~TryPush(jobs, QueueCapacity, jobs_closed)
    BY <1>6, <1>13, <2>1, <2>2 DEF Admit, worker
  <2>3. CASE TryPush(jobs, QueueCapacity, jobs_closed)
    <3>1. /\ jobs' = Append(jobs, c) /\ job' = [job EXCEPT ![c] = "queued"]
          /\ tpc' = [tpc EXCEPT ![t] = "serve"]
          /\ UNCHANGED <<wjob, wpc, answer, cancelled, phase, at>>
      BY <1>13, <2>3 DEF Admit, worker
    <3>2. c \notin Elements(jobs)
      BY <2>1 DEF Jobs
    <3>3. Elements(jobs') = Elements(jobs) \cup {c} /\ Distinct(jobs')
      BY <2>1, <3>1, <3>2, QueueElements DEF QueueTypes, Jobs
    <3>4. \A u \in Threads \ {t} : at[u] # c /\ tpc'[u] = tpc[u]
      BY <1>1, <1>3, <2>1, <3>1
    <3>5. tpc'[t] = "serve" /\ at'[t] = c
      BY <1>1, <3>1
    <3> HIDE DEF c
    <3>6. job'[c] = "queued" /\ \A d \in Conns \ {c} : job'[d] = job[d]
      BY <1>1, <2>1, <3>1
    <3>7. \A u \in Threads : JobOf(u)'
      <4> SUFFICES ASSUME NEW u \in Threads PROVE JobOf(u)'
        OBVIOUS
      <4>1. CASE u = t
        BY <3>5, <3>6, <4>1 DEF JobOf
      <4>2. CASE u # t /\ Busy(tpc[u])
        <5>1. at[u] \in Conns \ {c} /\ at'[u] = at[u]
          BY <1>2, <3>1, <3>4, <4>2
        <5> QED
          BY <3>1, <3>4, <3>6, <4>2, <5>1 DEF Jobs, JobOf
      <4>3. CASE u # t /\ ~Busy(tpc[u])
        BY <3>4, <4>3 DEF JobOf
      <4> QED
        BY <4>1, <4>2, <4>3
    <3>8. \A d \in Conns : (\E u \in Threads : tpc[u] \in {"serve", "send"} /\ at[u] = d)
                         => \E u \in Threads : tpc'[u] \in {"serve", "send"} /\ at'[u] = d
      BY <2>1, <3>1, <3>4
    <3>9. \E u \in Threads : tpc'[u] \in {"serve", "send"} /\ at'[u] = c
      BY <3>5
    <3>10. \A d \in Conns : job'[d] = "queued" <=> d \in Elements(jobs')
      BY <3>3, <3>6 DEF Jobs
    <3>11. \A d \in Conns :
             job'[d] = "active" <=> d = wjob' /\ wpc' \in Executing
      BY <2>1, <3>1, <3>6 DEF Jobs
    <3>12. \A d \in Conns : answer'[d] # 0 => job'[d] \in {"active", "done"}
      BY <2>1, <3>1, <3>6 DEF Jobs
    <3>13. \A d \in Conns : job'[d] # "none" =>
             \/ phase'[d] = "closed"
             \/ \E u \in Threads : tpc'[u] \in {"serve", "send"} /\ at'[u] = d
      BY <3>1, <3>6, <3>8, <3>9 DEF Jobs
    <3>14. Waited'
      BY <3>1, <3>6, <3>8, <3>9 DEF Waited, HasWaiter
    <3> QED
      BY <3>3, <3>7, <3>10, <3>11, <3>12, <3>13, <3>14 DEF Jobs
  <2> QED
    BY <2>2, <2>3
<1> QED
  BY <1>4, <1>7, <1>8, <1>9, <1>10, <1>11, <1>12, <1>13 DEF Ingress

\* What the worker does to the jobs.
LEMMA WorkerJobs ==
    ASSUME WorkerHolds, Holding, QueueTypes, RestTypes, ThreadTypes, Jobs, Waited, Worker
    PROVE  Jobs' /\ Waited'
<1>1. /\ job \in [Conns -> {"none", "queued", "active", "done"}]
      /\ answer \in [Conns -> {0, 200, 500, 503}]
  BY DEF RestTypes, ThreadTypes
<1>2. UNCHANGED <<tpc, at, phase>> /\ \A d \in Conns : cancelled[d] => cancelled'[d]
  <2>1. CASE UNCHANGED <<threads, phase, cancelled>>
    BY <2>1 DEF threads
  <2>2. CASE JobThrows
    BY <2>2 DEF JobThrows, GiveUp, RestTypes, threads
  <2> QED
    BY <2>1, <2>2 DEF Worker, PopJob, BeginJob, StartStream, PushWaits, EndJob, Poison,
      PublishPoisoned, Refresh, mailbox
<1>3. CASE PopJob
  <2>1. CASE jobs # << >> /\ wjob' = Head(jobs) /\ jobs' = Tail(jobs)
             /\ job' = [job EXCEPT ![Head(jobs)] = "active"] /\ wpc' = "begin"
    <3> DEFINE h == Head(jobs)
    <3>1. /\ h \in Conns /\ Elements(jobs) = {h} \cup Elements(jobs') /\ h \notin Elements(jobs')
          /\ Distinct(jobs')
      BY <2>1, QueueElements, QueueFacts DEF QueueTypes, Jobs
    <3>2. wpc = "pop" /\ answer' = answer
      BY <1>3 DEF PopJob
    <3>3. wjob' = h /\ wpc' = "begin" /\ job' = [job EXCEPT ![h] = "active"]
      BY <2>1
    <3> HIDE DEF h
    <3>4. job[h] = "queued" /\ job'[h] = "active" /\ \A d \in Conns \ {h} : job'[d] = job[d]
      BY <1>1, <3>1, <3>3 DEF Jobs
    <3>5. \A d \in Conns : job'[d] = "queued" <=> d \in Elements(jobs')
      BY <3>1, <3>4 DEF Jobs
    <3>6. \A d \in Conns :
            job'[d] = "active" <=> d = wjob' /\ wpc' \in Executing
      BY <3>2, <3>3, <3>4 DEF Jobs, Executing
    <3>7. \A d \in Conns : answer'[d] # 0 => job'[d] \in {"active", "done"}
      BY <3>2, <3>4 DEF Jobs
    <3>8. \A d \in Conns : /\ job'[d] # "none" => job[d] # "none"
                           /\ job'[d] \in {"queued", "active"} => job[d] \in {"queued", "active"}
      BY <3>4
    <3>9. \A u \in Threads : JobOf(u)'
      BY <1>1, <1>2, <3>1, <3>2, <3>3, <3>4 DEF Jobs, JobOf
    <3>10. Waited'
      BY <1>2, <3>2, <3>8 DEF Waited, HasWaiter
    <3> QED
      BY <1>2, <3>1, <3>5, <3>6, <3>7, <3>8, <3>9, <3>10 DEF Jobs
  <2>2. CASE wpc' = "exited" /\ UNCHANGED <<wjob, jobs, job>> /\ wpc = "pop" /\ answer' = answer
    BY <1>2, <2>2 DEF Jobs, JobOf, Waited, HasWaiter, Executing
  <2> QED
    BY <1>3, <2>1, <2>2 DEF PopJob
<1>4. ASSUME NEW code \in {0, 200, 500, 503}, FinishJob(code), jobs' = jobs,
             wpc \in Executing
      PROVE  Jobs' /\ Waited'
  <2> DEFINE w == wjob
  <2>1. w \in Conns /\ job[w] = "active"
    BY <1>4 DEF WorkerHolds, Jobs
  <2>2. /\ job' = [job EXCEPT ![w] = "done"] /\ wjob' = None /\ wpc' = "refresh"
        /\ \A d \in Conns : d # w => answer'[d] = answer[d]
    BY <1>1, <1>4 DEF FinishJob
  <2>3. \A d \in Conns : job[d] = "active" => d = w
    BY DEF Jobs
  <2> HIDE DEF w
  <2>4. job'[w] = "done" /\ \A d \in Conns \ {w} : job'[d] = job[d]
    BY <1>1, <2>1, <2>2
  <2>5. \A d \in Conns : job'[d] = "queued" <=> d \in Elements(jobs')
    BY <1>4, <2>1, <2>4 DEF Jobs
  <2>6. \A d \in Conns :
          job'[d] = "active" <=> d = wjob' /\ wpc' \in Executing
    BY <2>2, <2>3, <2>4 DEF Executing
  <2>7. \A d \in Conns : answer'[d] # 0 => job'[d] \in {"active", "done"}
    BY <2>2, <2>4 DEF Jobs
  <2>8. \A d \in Conns : /\ job'[d] # "none" => job[d] # "none"
                         /\ job'[d] \in {"queued", "active"} => job[d] \in {"queued", "active"}
    BY <2>1, <2>4
  <2>9. \A u \in Threads : JobOf(u)'
    <3> SUFFICES ASSUME NEW u \in Threads, tpc[u] \notin {"pop", "exited"} PROVE JobOf(u)'
      BY <1>2 DEF JobOf
    <3>1. at[u] \in Conns /\ JobOf(u)
      BY DEF Holding, Jobs
    <3>2. CASE at[u] = w
      BY <1>2, <2>1, <2>4, <3>1, <3>2 DEF JobOf
    <3>3. CASE at[u] # w
      BY <1>2, <2>2, <2>4, <3>1, <3>3 DEF JobOf
    <3> QED
      BY <3>2, <3>3
  <2>10. Waited'
    BY <1>2, <2>2, <2>4, <2>8 DEF Waited, HasWaiter
  <2> QED
    BY <1>2, <1>4, <2>5, <2>6, <2>7, <2>8, <2>9, <2>10 DEF Jobs
<1>5. ASSUME UNCHANGED <<job, jobs, wjob, answer>>,
             wpc' \in Executing <=> wpc \in Executing
      PROVE  Jobs' /\ Waited'
  BY <1>2, <1>5 DEF Jobs, JobOf, Waited, HasWaiter
<1>6. CASE BeginJob
  BY <1>4, <1>5, <1>6 DEF BeginJob, jobq, Executing
<1>7. CASE EndJob \/ PublishPoisoned \/ JobThrows
  BY <1>4, <1>7 DEF EndJob, PublishPoisoned, JobThrows, Generating, jobq, Executing
<1>8. CASE PushWaits \/ Poison \/ Refresh
  BY <1>5, <1>8 DEF PushWaits, Poison, Refresh, Generating, jobq, mailbox, Executing
<1>9. CASE StartStream
  <2>1. /\ wjob \in Conns /\ job[wjob] = "active" /\ UNCHANGED <<job, jobs, wjob, wpc>>
        /\ \A d \in Conns : answer'[d] = answer[d] \/ (d = wjob /\ answer'[d] # 0)
    BY <1>1, <1>9 DEF StartStream, WorkerHolds, Jobs, jobq, worker, Executing
  <2>2. \A d \in Conns : answer'[d] # 0 => job'[d] \in {"active", "done"}
    BY <2>1 DEF Jobs
  <2>3. \A u \in Threads : JobOf(u)'
    <3> SUFFICES ASSUME NEW u \in Threads, tpc[u] \notin {"pop", "exited"} PROVE JobOf(u)'
      BY <1>2 DEF JobOf
    <3>1. at[u] \in Conns /\ JobOf(u)
      BY DEF Holding, Jobs
    <3> QED
      BY <1>2, <2>1, <3>1 DEF JobOf
  <2>4. Waited'
    BY <1>2, <2>1 DEF Waited, HasWaiter
  <2> QED
    BY <1>2, <2>1, <2>2, <2>3, <2>4 DEF Jobs
<1> QED
  BY <1>3, <1>6, <1>7, <1>8, <1>9 DEF Worker

\* What each phase of the shutdown leaves stays so.
LEMMA NextExits ==
    ASSUME RestTypes, ThreadTypes, QInv, Exits, [Next]_vars
    PROVE  Exits'
<1> USE DEF Closing
<1>1. /\ tpc \in [Threads -> {"pop", "route", "admit", "refused", "serve", "send", "exited"}]
      /\ ready \in Seq(Conns) /\ jobs \in Seq(Conns)
  BY DEF ThreadTypes, QInv, QueueTypes
<1>2. CASE Environment
  <2>1. /\ UNCHANGED <<mpc, pending, ready, ready_closed, jobs, jobs_closed, tpc, wpc>>
    BY <1>2 DEF Environment, Stop, Connect, RequestArrives, DeadlinePasses, HangsUp, reactor,
      readyq, jobq, threads, worker
  <2>2. mpc \in Closing => UNCHANGED phase
    BY <1>2 DEF Environment, Stop, Connect, RequestArrives, DeadlinePasses, HangsUp
  <2> QED
    BY <2>1, <2>2 DEF Exits
<1>3. CASE Worker
  <2>1. UNCHANGED <<mpc, pending, ready, ready_closed, jobs_closed, tpc, phase>>
    BY <1>3 DEF Worker, PopJob, BeginJob, StartStream, PushWaits, EndJob, JobThrows,
      Poison, PublishPoisoned, Refresh,
      reactor, readyq, jobq, threads
  <2>2. wpc # "exited"
    BY <1>3 DEF Worker, PopJob, BeginJob, StartStream, PushWaits, EndJob, JobThrows, Poison,
      PublishPoisoned, Refresh, Generating
  <2>3. wpc' = "exited" => jobs_closed' /\ jobs' = << >>
    BY <1>3, <2>2 DEF Worker, PopJob, BeginJob, StartStream, PushWaits, EndJob, JobThrows,
      Poison, PublishPoisoned,
      Refresh, FinishJob, Drained, worker
  <2> QED
    BY <2>1, <2>2, <2>3 DEF Exits
<1>4. ASSUME NEW t \in Threads, Ingress(t) PROVE Exits'
  <2>1. /\ UNCHANGED <<mpc, pending, ready_closed, jobs_closed, wpc>> /\ tpc[t] # "exited"
    BY <1>4 DEF Ingress, PopConnection, RouteStopping, Route, Admit, Refuse, ServeAborts,
      ServeAnswered, SendEnds, StreamAborts, ThreadThrows, reactor, readyq, jobq, worker
  <2>2. \A u \in Threads \ {t} : tpc'[u] = tpc[u]
    BY <1>1, <1>4 DEF Ingress, PopConnection, RouteStopping, Route, Admit, Refuse, ServeAborts,
      ServeAnswered, SendEnds, StreamAborts, ThreadThrows, Release, Respond
  <2>3. tpc'[t] = "exited" => ready_closed /\ ready' = << >>
    BY <1>1, <1>4 DEF Ingress, PopConnection, RouteStopping, Route, Admit, Refuse, ServeAborts,
      ServeAnswered, SendEnds, StreamAborts, ThreadThrows, Release, Respond, Drained
  <2>4. ready = << >> => ready' = << >>
    BY <1>4 DEF Ingress, PopConnection, RouteStopping, Route, Admit, Refuse, ServeAborts,
      ServeAnswered, SendEnds, StreamAborts, ThreadThrows, readyq
  <2>5. jobs_closed => jobs' = jobs
    BY <1>4 DEF Ingress, PopConnection, RouteStopping, Route, Admit, Refuse, ServeAborts,
      ServeAnswered, SendEnds, StreamAborts, ThreadThrows, jobq, TryPush
  <2>6. \A c \in Conns : phase'[c] = "backlog" => phase[c] = "backlog"
    <3>1. phase \in [Conns -> Phases]
      BY DEF RestTypes
    <3> QED
      BY <1>4, <3>1 DEF Ingress, PopConnection, RouteStopping, Route, Admit, Refuse, ServeAborts,
        ServeAnswered, SendEnds, StreamAborts, ThreadThrows, Release, Close
  <2>7. mpc \notin {"join_worker", "exited"}
    BY <2>1 DEF Exits
  <2> QED
    BY <2>1, <2>2, <2>3, <2>4, <2>5, <2>6, <2>7 DEF Exits
<1>5. CASE Reactor
  <2>1. UNCHANGED <<jobs, tpc, wpc>>
    BY <1>5 DEF Reactor, Poll, StageOne, StageDone, Accept, AcceptLate, AcceptDone, Leave,
      Shutdown, Join, jobq, threads, worker
  <2>2. ASSUME mpc \in {"poll", "stage", "accept", "leave"},
               mpc' \in {"poll", "stage", "accept", "leave"},
               UNCHANGED <<ready_closed, jobs_closed>>
        PROVE  Exits'
    BY <2>1, <2>2 DEF Exits
  <2>3. CASE Poll \/ StageOne \/ StageDone \/ AcceptDone
    BY <2>2, <2>3 DEF Poll, StageOne, StageDone, AcceptDone, readyq, jobq
  <2>4. ASSUME NEW c \in Conns, Accept(c) \/ AcceptLate(c) PROVE Exits'
    BY <2>2, <2>4 DEF Accept, AcceptLate, readyq, jobq
  <2>5. CASE Leave
    BY <2>1, <2>5 DEF Leave, Exits, readyq, jobq
  <2>6. CASE Shutdown
    BY <2>1, <2>6 DEF Shutdown, StopThenCloseQueues, Exits
  <2>7. CASE Join
    BY <2>1, <2>7 DEF Join, Exits, readyq, jobq
  <2> QED
    BY <1>5, <2>3, <2>4, <2>5, <2>6, <2>7 DEF Reactor
<1>6. CASE UNCHANGED vars
  BY <1>6 DEF vars, reactor, readyq, jobq, threads, worker, Exits
<1> QED
  BY <1>2, <1>3, <1>4, <1>5, <1>6 DEF Next, Exited

-----------------------------------------------------------------------------
\* The inductive invariant of the four results below.
FullInv == IInv /\ RestTypes /\ Idle /\ Sockets /\ Jobs /\ Waited /\ Exits

\* The conjunction of all parts is inductive.
LEMMA FullInductive == FullInv /\ [Next]_vars => FullInv'
<1> SUFFICES ASSUME FullInv, [Next]_vars PROVE FullInv'
  OBVIOUS
<1>1. /\ IInv /\ RestTypes /\ Idle /\ Sockets /\ Jobs /\ Waited /\ Exits
      /\ ThreadTypes /\ Holding /\ WorkerHolds /\ QInv /\ QueueTypes
  BY DEF FullInv, IInv, QInv
<1>2. IInv'
  BY <1>1, GatewayInductive
<1>3. RestTypes' /\ Idle' /\ Exits'
  BY <1>1, NextRestTypes, NextIdle, NextExits
<1>4. Sockets'
  BY <1>1, NextSockets DEF RestTypes
<1>5. \A c \in Conns : phase[c] = "closed" => phase'[c] = "closed"
  BY <1>1, ClosedStays
<1>6. Jobs' /\ Waited'
  <2>1. CASE Worker
    BY <1>1, <2>1, WorkerJobs
  <2>2. ASSUME NEW t \in Threads, Ingress(t) PROVE Jobs' /\ Waited'
    BY <1>1, <1>5, <2>2, IngressJobs
  <2>3. CASE UNCHANGED <<job, jobs, wjob, wpc, answer, cancelled, tpc, at>>
    BY <1>1, <1>5, <2>3, QuietJobs
  <2>4. CASE Reactor
    BY <2>3, <2>4 DEF Reactor, Poll, StageOne, StageDone, Accept, AcceptLate, AcceptDone, Leave,
      Shutdown, Join, jobq, threads, worker, mailbox
  <2>5. CASE Environment
    BY <2>3, <2>5 DEF Environment, Stop, Connect, RequestArrives, DeadlinePasses, HangsUp, jobq,
      threads, worker, mailbox
  <2>6. CASE UNCHANGED vars
    BY <2>3, <2>6 DEF vars, jobq, threads, worker, mailbox
  <2> QED
    BY <2>1, <2>2, <2>4, <2>5, <2>6 DEF Next, Exited
<1> QED
  BY <1>2, <1>3, <1>4, <1>6 DEF FullInv

\* The server starts in a state the invariant allows.
LEMMA FullInit == Init => FullInv
<1> SUFFICES ASSUME Init PROVE FullInv
  OBVIOUS
<1>0. Elements(<< >>) = {} /\ Distinct(<< >>)
  BY DEF Elements, Distinct
<1>1. RestTypes
  <2>1. /\ stop_requested \in BOOLEAN /\ healthy \in BOOLEAN
        /\ readable \in BOOLEAN /\ ready_closed \in BOOLEAN /\ jobs_closed \in BOOLEAN
    BY DEF Init
  <2>2. accepted \in 0..MaxAccepts
    BY DEF Init
  <2>3. cancelled \in [Conns -> BOOLEAN] /\ gone \in [Conns -> BOOLEAN]
    BY DEF Init
  <2> QED
    BY <2>1, <2>2, <2>3 DEF Init, RestTypes, Phases
<1>2. Idle
  BY DEF Init, Idle
<1>3. Sockets
  <2>1. \A c \in Conns : ~Served(c) /\ ~Owned(c)
    BY <1>0 DEF Init, Served, Owned
  <2> QED
    BY <1>0, <2>1 DEF Init, Sockets
<1>4. Jobs /\ Waited
  BY <1>0 DEF Init, Jobs, JobOf, Waited
<1>5. Exits
  BY DEF Init, Exits, Closing
<1>6. IInv
  BY InitIInv
<1> QED
  BY <1>1, <1>2, <1>3, <1>4, <1>5, <1>6 DEF FullInv

\* There is an ingress thread.
LEMMA ThreadsNonEmpty == Threads # {}
<1> SUFFICES ASSUME Threads = {} PROVE FALSE
  OBVIOUS
<1>1. Cardinality(Threads) = 0
  BY FS_EmptySet
<1> QED
  BY <1>1, ThreadsAssumption

\* A connection is in a queue without repetitions once or not at all.
LEMMA Occurrences ==
    ASSUME NEW q \in Seq(Conns), Distinct(q), NEW c \in Conns
    PROVE  Cardinality({i \in 1..Len(q) : q[i] = c}) = IF c \in Elements(q) THEN 1 ELSE 0
<1>1. CASE c \in Elements(q)
  <2>1. PICK i \in 1..Len(q) : q[i] = c
    BY <1>1 DEF Elements
  <2>2. {j \in 1..Len(q) : q[j] = c} = {i}
    BY <2>1 DEF Distinct
  <2> QED
    BY <1>1, <2>2, FS_Singleton
<1>2. CASE c \notin Elements(q)
  <2>1. {j \in 1..Len(q) : q[j] = c} = {}
    BY <1>2 DEF Elements
  <2> QED
    BY <1>2, <2>1, FS_EmptySet
<1> QED
  BY <1>1, <1>2

\* The first n numbers are n.
LEMMA IntervalFinite ==
    ASSUME NEW n \in Nat
    PROVE  IsFiniteSet(1..n) /\ Cardinality(1..n) = n
  BY FS_Interval

\* A queue holds at most as many connections as it is long.
LEMMA ElementsFinite ==
    ASSUME NEW q \in Seq(Conns)
    PROVE  /\ IsFiniteSet(Elements(q)) /\ Cardinality(Elements(q)) \in Nat
           /\ Cardinality(Elements(q)) <= Len(q)
<1> DEFINE S == 1..Len(q)
           f == [i \in S |-> q[i]]
           E == Elements(q)
<1>1. Len(q) \in Nat /\ IsFiniteSet(S) /\ Cardinality(S) = Len(q)
  <2>1. Len(q) \in Nat
    OBVIOUS
  <2>2. IsFiniteSet(1..Len(q)) /\ Cardinality(1..Len(q)) = Len(q)
    BY <2>1, IntervalFinite
  <2> QED
    BY <2>1, <2>2
<1>2. f \in Surjection(S, E)
  BY DEF Surjection, Elements
<1> HIDE DEF S, f, E
<1>3. IsFiniteSet(E) /\ Cardinality(E) <= Cardinality(S)
  BY <1>1, <1>2, FS_Surjection
<1> QED
  BY <1>1, <1>3, FS_CardinalityType DEF E

\* Sockets, threads, jobs and the phases of the shutdown agree in every
\* reachable state, exceptions in every thread included.
THEOREM GatewayState == Spec => []FullInv
  BY FullInit, FullInductive, PTL DEF Spec

\* An admitted job that is not cancelled has an ingress thread in
\* wait_for_response, wait_for_stream_start or stream_response, or it is the
\* stream the worker is on, left by a thread that threw while it sent
\* (ingress_worker's catch): the exception strands at most one job, and never
\* one that is still queued.
THEOREM GatewayAdmitted == Spec => []AdmittedHasWaiter
<1>1. FullInv => AdmittedHasWaiter
  BY DEF FullInv, Waited, Jobs, AdmittedHasWaiter
<1> QED
  BY <1>1, GatewayState, PTL

\* When ~WorkerJoinGuard has joined its threads no queue holds anything, no
\* job is undecided and no socket is open.
THEOREM GatewayCleanExit == Spec => []CleanExit
<1>1. FullInv => CleanExit
  <2> SUFFICES ASSUME FullInv, mpc = "exited"
               PROVE  /\ \A t \in Threads : tpc[t] = "exited"
                      /\ wpc = "exited"
                      /\ jobs = << >> /\ ready = << >> /\ pending = << >>
                      /\ \A c \in Conns : /\ phase[c] \in {"new", "closed"}
                                          /\ job[c] \in {"none", "done"}
    BY DEF CleanExit
  <2>1. /\ \A t \in Threads : tpc[t] = "exited"
        /\ wpc = "exited" /\ jobs = << >> /\ pending = << >> /\ todo = << >>
        /\ \A c \in Conns : phase[c] # "backlog"
    BY DEF FullInv, Exits, Closing, IInv, QInv, Staging
  <2>2. ready = << >>
    <3>1. PICK t \in Threads : TRUE
      BY ThreadsNonEmpty
    <3> QED
      BY <2>1, <3>1 DEF FullInv, Exits
  <2>3. Elements(<< >>) = {}
    BY DEF Elements
  <2>4. \A c \in Conns : ~Owned(c)
    <3>1. \A t \in Threads : at[t] = None
      BY <2>1 DEF FullInv, Idle
    <3> QED
      BY <2>1, <2>2, <2>3, <3>1 DEF Owned, Served
  <2>5. \A c \in Conns : phase[c] \in {"new", "closed"}
    BY <2>1, <2>4 DEF FullInv, RestTypes, Phases, Sockets
  <2>6. \A c \in Conns : job[c] \in {"none", "done"}
    BY <2>1, <2>3 DEF FullInv, RestTypes, Jobs, Executing
  <2> QED
    BY <2>1, <2>2, <2>5, <2>6
<1> QED
  BY <1>1, GatewayState, PTL

\* A socket is moved from the staging vector through the ready queue to one
\* ingress thread: while it is open exactly one of them has it, and none
\* before it is accepted or after it is closed.
THEOREM GatewaySockets == Spec => []SocketsAreOwned
<1>1. FullInv => SocketsAreOwned
  <2> SUFFICES ASSUME FullInv PROVE SocketsAreOwned
    OBVIOUS
  <2>1. TypeOK
    BY DEF FullInv, IInv, RestTypes, ThreadTypes, QInv, QueueTypes, TypeOK, Phases
  <2>2. /\ Sockets /\ pending \in Seq(Conns) /\ todo \in Seq(Conns) /\ ready \in Seq(Conns)
    BY DEF FullInv, IInv, QInv, QueueTypes
  <2>3. ASSUME NEW c \in Conns PROVE Holders(c) = IF phase[c] = "open" THEN 1 ELSE 0
    <3> DEFINE P == Cardinality({i \in 1..Len(pending) : pending[i] = c})
               D == Cardinality({i \in 1..Len(todo) : todo[i] = c})
               R == Cardinality({i \in 1..Len(ready) : ready[i] = c})
               A == Cardinality({t \in Threads : at[t] = c})
    <3>1. /\ P = IF c \in Elements(pending) THEN 1 ELSE 0
          /\ D = IF c \in Elements(todo) THEN 1 ELSE 0
          /\ R = IF c \in Elements(ready) THEN 1 ELSE 0
      BY <2>2, Occurrences DEF Sockets
    <3>2. A = IF Served(c) THEN 1 ELSE 0
      <4>1. CASE Served(c)
        <5>1. PICK t \in Threads : at[t] = c
          BY <4>1 DEF Served
        <5>2. {u \in Threads : at[u] = c} = {t}
          BY <2>2, <5>1 DEF Sockets
        <5> QED
          BY <4>1, <5>2, FS_Singleton
      <4>2. CASE ~Served(c)
        <5>1. {u \in Threads : at[u] = c} = {}
          BY <4>2 DEF Served
        <5> QED
          BY <4>2, <5>1, FS_EmptySet
      <4> QED
        BY <4>1, <4>2
    <3>3. Holders(c) = P + D + R + A
      BY DEF Holders
    <3> HIDE DEF P, D, R, A
    <3>4. Holders(c) = IF Owned(c) THEN 1 ELSE 0
      <4>1. P + D + R + A = IF Owned(c) THEN 1 ELSE 0
        BY <2>2, <3>1, <3>2 DEF Owned, Sockets
      <4> QED
        BY <3>3, <4>1
    <3> QED
      BY <2>2, <3>4 DEF Sockets
  <2> QED
    BY <2>1, <2>3 DEF SocketsAreOwned, OneOwner
<1> QED
  BY <1>1, GatewayState, PTL

\* valid_options asks for two threads more than the inference queue holds
\* jobs: one of them never waits for the worker, so a health probe or a refused
\* request is answered even while a generation never ends.
THEOREM GatewayControlPlane == Spec => []ControlPlaneHasThread
<1>1. FullInv => ControlPlaneHasThread
  <2> SUFFICES ASSUME FullInv, ~ControlPlaneHasThread PROVE FALSE
    OBVIOUS
  <2>1. \A t \in Threads : tpc[t] \in {"serve", "send"} /\ job[at[t]] \in {"queued", "active"}
    BY DEF ControlPlaneHasThread
  <2>2. jobs \in Seq(Conns) /\ Len(jobs) <= QueueCapacity /\ Len(jobs) \in Nat
    BY DEF FullInv, IInv, QInv, QueueTypes, Bounded
  <2> DEFINE W == Elements(jobs) \cup {wjob}
             f == [t \in Threads |-> at[t]]
  <2>3. \A t \in Threads : at[t] \in Conns /\ at[t] \in W
    <3>1. \A t \in Threads : at[t] \in Conns
      BY <2>1 DEF FullInv, IInv, Holding
    <3> QED
      BY <2>1, <3>1 DEF FullInv, Jobs
  <2>4. \A t, u \in Threads : at[t] = at[u] => t = u
    BY <2>3, NoneAssumption DEF FullInv, Sockets
  <2>5. IsFiniteSet(Elements(jobs)) /\ Cardinality(Elements(jobs)) \in Nat
        /\ Cardinality(Elements(jobs)) <= Len(jobs)
    BY <2>2, ElementsFinite
  <2>6. IsFiniteSet(W) /\ Cardinality(W) <= Cardinality(Elements(jobs)) + 1 /\ Cardinality(W) \in Nat
    <3> DEFINE E == Elements(jobs)
    <3>1. IsFiniteSet(E) /\ Cardinality(E) \in Nat
      BY <2>5
    <3> HIDE DEF E
    <3>2. /\ IsFiniteSet(E \cup {wjob})
          /\ Cardinality(E \cup {wjob}) = IF wjob \in E THEN Cardinality(E) ELSE Cardinality(E) + 1
      BY <3>1, FS_AddElement
    <3>3. IsFiniteSet(W) /\ Cardinality(W) <= Cardinality(E) + 1 /\ Cardinality(W) \in Nat
      BY <3>1, <3>2 DEF E
    <3> QED
      BY <3>3 DEF E
  <2>7. f \in Injection(Threads, W)
    BY <2>3, <2>4 DEF Injection, IsInjective
  <2>8. Cardinality(Threads) <= Cardinality(W)
    <3> HIDE DEF W, f
    <3> QED
      BY <2>6, <2>7, FS_Injection
  <2>9. Cardinality(Threads) \in Nat /\ Cardinality(Threads) >= QueueCapacity + 2
    BY ThreadsAssumption, FS_CardinalityType
  <2> HIDE DEF W, f
  <2> QED
    BY <2>2, <2>5, <2>6, <2>8, <2>9
<1> QED
  BY <1>1, GatewayState, PTL
=============================================================================
