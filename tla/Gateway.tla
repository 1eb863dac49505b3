------------------------------ MODULE Gateway ------------------------------
(***************************************************************************)
(* The evaluation gateway around the jobs: the reactor thread that accepts *)
(* connections and stages them until their request is complete             *)
(* (run_evaluation_server, stage_http_connections), the ingress threads    *)
(* that route a complete request, admit it to the bounded inference queue  *)
(* and answer it (ingress_worker, handle_connection), the single inference *)
(* worker (inference_worker), and the shutdown order of WorkerJoinGuard.   *)
(*                                                                         *)
(* A job is reduced to its life cycle; what its two threads do to each     *)
(* other inside it is module InferenceJob.  A thread in "serve" is in      *)
(* wait_for_response or wait_for_stream_start, a thread in "send" writes a *)
(* response or is in stream_response.                                      *)
(***************************************************************************)
EXTENDS Naturals, Sequences, FiniteSets

CONSTANTS
    Conns,          \* the clients' connections
    Threads,        \* options.ingress_threads
    ReadyCapacity,  \* options.accepted_connection_capacity
    QueueCapacity,  \* options.inference_queue_capacity
    MaxAccepts,     \* kMaximumAcceptsPerPoll
    Kinds,          \* the kinds of request the clients send
    MaxHangUps,     \* bound on the clients that hang up
    None            \* no connection

ASSUME CapacityAssumption ==
    /\ ReadyCapacity \in Nat \ {0}
    /\ QueueCapacity \in Nat \ {0}
    /\ MaxAccepts \in Nat \ {0}
    /\ MaxHangUps \in Nat
ASSUME KindsAssumption == Kinds \subseteq {"inference", "health", "rejected"}
ASSUME NoneAssumption == None \notin Conns
\* valid_options
ASSUME ThreadsAssumption ==
    IsFiniteSet(Threads) /\ Cardinality(Threads) >= QueueCapacity + 2

VARIABLES
    stop_requested, \* the stop flag, set by a signal or by WorkerJoinGuard
    healthy,        \* EvaluationProductionRuntimeHealth::ready()
    mpc,            \* where the reactor thread is; its exit code is left out
    readable,       \* the listener's POLLIN in the last poll
    accepted,       \* accepted_this_poll
    pending,        \* staged connections, the ones this turn has visited
    todo,           \* staged connections this turn still has to visit
    ready,          \* BoundedQueue<ReadyConnection>
    ready_closed,
    jobs,           \* BoundedQueue<shared_ptr<InferenceJob>>
    jobs_closed,
    tpc,            \* where each ingress thread is
    at,             \* the connection it holds
    status,         \* the status it sends
    refusal,        \* history: why its try_push was refused
    wpc,            \* where the inference worker is
    wjob,           \* the job it holds
    job,            \* life cycle of the job of each connection
    cancelled,      \* InferenceJob::cancelled
    answer,         \* status the job's mailbox holds, 0 for none yet
    phase,          \* each connection: new, backlog, open or closed
    kind,           \* what its request asks for
    recv,           \* what of the request has arrived
    gone            \* the client hung up

flags   == <<stop_requested, healthy>>
reactor == <<mpc, readable, accepted, pending, todo>>
readyq  == <<ready, ready_closed>>
jobq    == <<jobs, jobs_closed>>
threads == <<tpc, at, status, refusal>>
worker  == <<wpc, wjob>>
mailbox == <<job, cancelled, answer>>
clients == <<kind, recv, gone>>
vars    == <<flags, reactor, readyq, jobq, threads, worker, mailbox, phase,
             clients>>

-----------------------------------------------------------------------------
Elements(s) == {s[i] : i \in 1..Len(s)}

Init ==
    /\ stop_requested = FALSE /\ healthy = TRUE
    /\ mpc = "poll" /\ readable = FALSE /\ accepted = 0
    /\ pending = << >> /\ todo = << >>
    /\ ready = << >> /\ ready_closed = FALSE
    /\ jobs = << >> /\ jobs_closed = FALSE
    /\ tpc = [t \in Threads |-> "pop"] /\ at = [t \in Threads |-> None]
    /\ status = [t \in Threads |-> 0] /\ refusal = [t \in Threads |-> "none"]
    /\ wpc = "pop" /\ wjob = None
    /\ job = [c \in Conns |-> "none"]
    /\ cancelled = [c \in Conns |-> FALSE]
    /\ answer = [c \in Conns |-> 0]
    /\ phase = [c \in Conns |-> "new"]
    /\ kind \in [Conns -> Kinds]
    /\ recv = [c \in Conns |-> "partial"]
    /\ gone = [c \in Conns |-> FALSE]

-----------------------------------------------------------------------------
(***************************************************************************)
(* The environment: the signal handler and the clients.                    *)
(***************************************************************************)
Stop ==
    /\ ~stop_requested
    /\ stop_requested' = TRUE
    /\ UNCHANGED <<healthy, reactor, readyq, jobq, threads, worker, mailbox,
                   phase, clients>>

Connect(c) ==
    /\ phase[c] = "new" /\ mpc \in {"poll", "stage", "accept"}
    /\ phase' = [phase EXCEPT ![c] = "backlog"]
    /\ UNCHANGED <<flags, reactor, readyq, jobq, threads, worker, mailbox,
                   clients>>

\* The rest of the request arrives in the kernel's buffer.
RequestArrives(c) ==
    /\ phase[c] \in {"backlog", "open"} /\ recv[c] = "partial" /\ ~gone[c]
    /\ recv' = [recv EXCEPT ![c] = "whole"]
    /\ UNCHANGED <<flags, reactor, readyq, jobq, threads, worker, mailbox,
                   phase, kind, gone>>

\* The staging deadline passes before the reactor has read the request.
DeadlinePasses(c) ==
    /\ c \in Elements(pending) \cup Elements(todo) /\ recv[c] # "late"
    /\ recv' = [recv EXCEPT ![c] = "late"]
    /\ UNCHANGED <<flags, reactor, readyq, jobq, threads, worker, mailbox,
                   phase, kind, gone>>

HangsUp(c) ==
    /\ phase[c] \in {"backlog", "open"} /\ ~gone[c]
    /\ Cardinality({d \in Conns : gone[d]}) < MaxHangUps
    /\ gone' = [gone EXCEPT ![c] = TRUE]
    /\ UNCHANGED <<flags, reactor, readyq, jobq, threads, worker, mailbox,
                   phase, kind, recv>>

-----------------------------------------------------------------------------
(***************************************************************************)
(* The reactor thread.                                                     *)
(***************************************************************************)
Close(c) == phase' = [phase EXCEPT ![c] = "closed"]

\* The reactor keeps serving on an unhealthy runtime.
MayServeAnyway == ~stop_requested

\* The loop's two tests.
MayServe == ~stop_requested /\ healthy

\* The top of the loop: it leaves on a stop, a closed health latch, or a
\* failing poll; otherwise poll() reports whether the listener is readable.
Poll ==
    /\ mpc = "poll"
    /\ \/ /\ mpc' = "leave"
          /\ UNCHANGED <<readable, pending, todo>>
       \/ /\ MayServe
          /\ mpc' = "stage"
          /\ readable' = (\E c \in Conns : phase[c] = "backlog")
          /\ todo' = pending /\ pending' = << >>
    /\ UNCHANGED <<flags, accepted, readyq, jobq, threads, worker, mailbox,
                   phase, clients>>

\* The deadline is never looked at.
ExpiredIgnored(c) == stop_requested

\* The first test of stage_http_connections.
Expired(c) == stop_requested \/ recv[c] = "late"

\* The queue takes one more than its capacity.
TryPushOneMore(q, capacity, closed) == ~closed /\ Len(q) <= capacity

\* BoundedQueue::try_push
TryPush(q, capacity, closed) == ~closed /\ Len(q) < capacity

\* One pass over a staged connection: it is dropped, kept, handed to the
\* ingress threads, or refused with a best-effort 503.
StageOne ==
    /\ mpc = "stage" /\ todo # << >>
    /\ todo' = Tail(todo)
    /\ LET c == Head(todo) IN
       \/ /\ Expired(c)
          /\ Close(c)
          /\ UNCHANGED <<pending, ready>>
       \/ /\ ~Expired(c) /\ recv[c] = "whole"
          /\ TryPush(ready, ReadyCapacity, ready_closed)
          /\ ready' = Append(ready, c)
          /\ UNCHANGED <<pending, phase>>
       \/ /\ ~Expired(c) /\ recv[c] = "whole"
          /\ ~TryPush(ready, ReadyCapacity, ready_closed)
          /\ Close(c)
          /\ UNCHANGED <<pending, ready>>
       \/ /\ ~Expired(c) /\ recv[c] = "partial" /\ gone[c]
          /\ Close(c)
          /\ UNCHANGED <<pending, ready>>
       \/ /\ ~Expired(c) /\ recv[c] = "partial" /\ ~gone[c]
          /\ pending' = Append(pending, c)
          /\ UNCHANGED <<phase, ready>>
    /\ UNCHANGED <<flags, mpc, readable, accepted, ready_closed, jobq,
                   threads, worker, mailbox, clients>>

StageDone ==
    /\ mpc = "stage" /\ todo = << >>
    /\ mpc' = IF readable THEN "accept" ELSE "poll"
    /\ readable' = FALSE
    /\ UNCHANGED <<flags, accepted, pending, todo, readyq, jobq, threads,
                   worker, mailbox, phase, clients>>

\* New arrivals are staged on top of a full set.
EvictNever == FALSE

EvictOldest == Len(pending) >= ReadyCapacity

BudgetLeft == accepted < MaxAccepts

\* accept4 returns a connection; at capacity the oldest staged one is dropped.
Accept(c) ==
    /\ mpc = "accept" /\ BudgetLeft /\ ~stop_requested
    /\ phase[c] = "backlog"
    /\ accepted' = accepted + 1
    /\ IF EvictOldest
       THEN /\ pending' = Append(Tail(pending), c)
            /\ phase' = [phase EXCEPT ![c] = "open", ![Head(pending)] = "closed"]
       ELSE /\ pending' = Append(pending, c)
            /\ phase' = [phase EXCEPT ![c] = "open"]
    /\ UNCHANGED <<flags, mpc, readable, todo, readyq, jobq, threads,
                   worker, mailbox, clients>>

\* The stop flag was raised between the loop's test and accept4's return.
AcceptLate(c) ==
    /\ mpc = "accept" /\ BudgetLeft /\ stop_requested
    /\ phase[c] = "backlog"
    /\ Close(c)
    /\ mpc' = "poll" /\ accepted' = 0
    /\ UNCHANGED <<flags, readable, pending, todo, readyq, jobq, threads,
                   worker, mailbox, clients>>

\* The accept loop ends: its budget is used, a stop, EAGAIN, or an error.
AcceptDone ==
    /\ mpc = "accept"
    /\ \/ /\ \/ ~BudgetLeft \/ stop_requested
             \/ \A c \in Conns : phase[c] # "backlog"
          /\ mpc' = "poll"
       \/ mpc' = "leave"
    /\ accepted' = 0
    /\ UNCHANGED <<flags, readable, pending, todo, readyq, jobq, threads, worker,
                   mailbox, phase, clients>>

\* listener.reset(), then the staged sockets go with the vector.
Leave ==
    /\ mpc = "leave"
    /\ mpc' = "stop"
    /\ phase' = [c \in Conns |->
                   IF phase[c] = "backlog" \/ c \in Elements(pending)
                   THEN "closed" ELSE phase[c]]
    /\ pending' = << >>
    /\ UNCHANGED <<flags, readable, accepted, todo, readyq, jobq, threads,
                   worker, mailbox, clients>>

-----------------------------------------------------------------------------
(***************************************************************************)
(* ~WorkerJoinGuard: the flag, then both queues, then the joins.           *)
(***************************************************************************)

\* The inference queue is closed before the flag is up.
CloseQueuesFirst ==
    \/ /\ mpc = "stop" /\ mpc' = "close_ready"
       /\ jobs_closed' = TRUE /\ UNCHANGED <<stop_requested, ready_closed>>
    \/ /\ mpc = "close_ready" /\ mpc' = "close_jobs"
       /\ ready_closed' = TRUE /\ UNCHANGED <<stop_requested, jobs_closed>>
    \/ /\ mpc = "close_jobs" /\ mpc' = "join_ingress"
       /\ stop_requested' = TRUE /\ UNCHANGED <<ready_closed, jobs_closed>>

StopThenCloseQueues ==
    \/ /\ mpc = "stop" /\ mpc' = "close_ready"
       /\ stop_requested' = TRUE /\ UNCHANGED <<ready_closed, jobs_closed>>
    \/ /\ mpc = "close_ready" /\ mpc' = "close_jobs"
       /\ ready_closed' = TRUE /\ UNCHANGED <<stop_requested, jobs_closed>>
    \/ /\ mpc = "close_jobs" /\ mpc' = "join_ingress"
       /\ jobs_closed' = TRUE /\ UNCHANGED <<stop_requested, ready_closed>>

Shutdown ==
    /\ StopThenCloseQueues
    /\ UNCHANGED <<healthy, readable, accepted, pending, todo, ready,
                   jobs, threads, worker, mailbox, phase, clients>>

Join ==
    /\ \/ /\ mpc = "join_ingress" /\ \A t \in Threads : tpc[t] = "exited"
          /\ mpc' = "join_worker"
       \/ /\ mpc = "join_worker" /\ wpc = "exited"
          /\ mpc' = "exited"
    /\ UNCHANGED <<flags, readable, accepted, pending, todo, readyq, jobq,
                   threads, worker, mailbox, phase, clients>>

-----------------------------------------------------------------------------
(***************************************************************************)
(* An ingress thread: ingress_worker and handle_connection.                *)
(***************************************************************************)

\* Go on to send a fixed response.
Respond(t, code) ==
    /\ tpc' = [tpc EXCEPT ![t] = "send"]
    /\ status' = [status EXCEPT ![t] = code]

\* The thread forgets the socket without closing it.
ReleaseWithoutClose(t) ==
    /\ UNCHANGED phase
    /\ tpc' = [tpc EXCEPT ![t] = "pop"]
    /\ at' = [at EXCEPT ![t] = None]
    /\ status' = [status EXCEPT ![t] = 0]
    /\ refusal' = [refusal EXCEPT ![t] = "none"]

\* handle_connection returns: the socket closes, the thread pops again.
Release(t) ==
    /\ Close(at[t])
    /\ tpc' = [tpc EXCEPT ![t] = "pop"]
    /\ at' = [at EXCEPT ![t] = None]
    /\ status' = [status EXCEPT ![t] = 0]
    /\ refusal' = [refusal EXCEPT ![t] = "none"]

\* A closed queue is abandoned with what it still holds.
DrainedWhenClosed(q, closed) == closed

\* BoundedQueue::pop returns false.
Drained(q, closed) == closed /\ q = << >>

PopConnection(t) ==
    /\ tpc[t] = "pop"
    /\ \/ /\ ~Drained(ready, ready_closed) /\ ready # << >>
          /\ at' = [at EXCEPT ![t] = Head(ready)]
          /\ ready' = Tail(ready)
          /\ tpc' = [tpc EXCEPT ![t] = "route"]
       \/ /\ Drained(ready, ready_closed)
          /\ tpc' = [tpc EXCEPT ![t] = "exited"]
          /\ UNCHANGED <<at, ready>>
    /\ UNCHANGED <<flags, reactor, ready_closed, jobq, status, refusal, worker,
                   mailbox, phase, clients>>

\* The loop test of handle_connection: a stopping server drops the client.
RouteStopping(t) ==
    /\ tpc[t] = "route" /\ stop_requested
    /\ Release(t)
    /\ UNCHANGED <<flags, reactor, readyq, jobq, worker, mailbox, clients>>

\* Routing, up to an answer that needs no inference or a validated request.
\* A malformed request is refused before or after the health test.
Route(t) ==
    /\ tpc[t] = "route" /\ ~stop_requested
    /\ LET k == kind[at[t]] IN
       \/ k = "health" /\ Respond(t, IF healthy THEN 200 ELSE 503)
       \/ k = "rejected" /\ Respond(t, 400)
       \/ k # "health" /\ ~healthy /\ Respond(t, 503)
       \/ /\ k = "inference" /\ healthy
          /\ tpc' = [tpc EXCEPT ![t] = "admit"]
          /\ UNCHANGED status
    /\ UNCHANGED <<flags, reactor, readyq, jobq, at, refusal, worker, mailbox,
                   phase, clients>>

\* inference_queue.try_push(job)
Admit(t) ==
    /\ tpc[t] = "admit"
    /\ IF TryPush(jobs, QueueCapacity, jobs_closed)
       THEN /\ jobs' = Append(jobs, at[t])
            /\ job' = [job EXCEPT ![at[t]] = "queued"]
            /\ tpc' = [tpc EXCEPT ![t] = "serve"]
            /\ UNCHANGED refusal
       ELSE /\ tpc' = [tpc EXCEPT ![t] = "refused"]
            /\ refusal' = [refusal EXCEPT
                             ![t] = IF jobs_closed THEN "closed" ELSE "full"]
            /\ UNCHANGED <<jobs, job>>
    /\ UNCHANGED <<flags, reactor, readyq, jobs_closed, at, status, worker,
                   cancelled, answer, phase, clients>>

\* The flag is read only after the queue's lock was given up.
Refuse(t) ==
    /\ tpc[t] = "refused"
    /\ Respond(t, IF stop_requested THEN 503 ELSE 429)
    /\ UNCHANGED <<flags, reactor, readyq, jobq, at, refusal, worker, mailbox,
                   phase, clients>>

\* The thread leaves and the job keeps its place.
GiveUpSilently(c) == UNCHANGED cancelled

\* job->cancelled.store(true)
GiveUp(c) == cancelled' = [cancelled EXCEPT ![c] = TRUE]

\* A wait ends without an answer.
ServeAborts(t) ==
    /\ tpc[t] = "serve"
    /\ stop_requested \/ gone[at[t]] \/ cancelled[at[t]]
    /\ GiveUp(at[t])
    /\ Release(t)
    /\ UNCHANGED <<flags, reactor, readyq, jobq, worker, job, answer, clients>>

\* A wait ends with the job's answer, or with the start of its stream.
ServeAnswered(t) ==
    /\ tpc[t] = "serve" /\ answer[at[t]] # 0
    /\ Respond(t, answer[at[t]])
    /\ UNCHANGED <<flags, reactor, readyq, jobq, at, refusal, worker, mailbox,
                   phase, clients>>

\* The response is written, or the write fails or times out.  A stream is
\* only over when its job is.
SendEnds(t) ==
    /\ tpc[t] = "send"
    /\ job[at[t]] # "active"
    /\ Release(t)
    /\ UNCHANGED <<flags, reactor, readyq, jobq, worker, mailbox, clients>>

\* stream_response gives up while its job is running.
StreamAborts(t) ==
    /\ tpc[t] = "send"
    /\ job[at[t]] = "active"
    /\ GiveUp(at[t])
    /\ Release(t)
    /\ UNCHANGED <<flags, reactor, readyq, jobq, worker, job, answer, clients>>

\* An exception leaves handle_connection and ingress_worker only logs it.  No
\* wait throws; after one, the copy of the answer, the headers or a chunk of
\* the stream may, and then the job is left behind without being cancelled.
ThreadThrows(t) ==
    /\ tpc[t] \in {"route", "admit", "refused", "send"}
    /\ Release(t)
    /\ UNCHANGED <<flags, reactor, readyq, jobq, worker, mailbox, clients>>

Ingress(t) ==
    \/ PopConnection(t) \/ RouteStopping(t) \/ Route(t) \/ Admit(t) \/ Refuse(t)
    \/ ServeAborts(t) \/ ServeAnswered(t) \/ SendEnds(t) \/ StreamAborts(t)
    \/ ThreadThrows(t)

-----------------------------------------------------------------------------
(***************************************************************************)
(* The inference worker.                                                   *)
(***************************************************************************)
PopJob ==
    /\ wpc = "pop"
    /\ \/ /\ ~Drained(jobs, jobs_closed) /\ jobs # << >>
          /\ wjob' = Head(jobs) /\ jobs' = Tail(jobs)
          /\ job' = [job EXCEPT ![Head(jobs)] = "active"]
          /\ wpc' = "begin"
       \/ /\ Drained(jobs, jobs_closed)
          /\ wpc' = "exited"
          /\ UNCHANGED <<wjob, jobs, job>>
    /\ UNCHANGED <<flags, reactor, readyq, jobs_closed, threads, cancelled,
                   answer, phase, clients>>

\* The job is over; an answer is published unless its stream has started or
\* its client has been given up on (code 0).
FinishJob(code) ==
    /\ job' = [job EXCEPT ![wjob] = "done"]
    /\ answer' = [answer EXCEPT ![wjob] = IF @ = 0 THEN code ELSE @]
    /\ wjob' = None /\ wpc' = "refresh"

\* execute_job's first tests.
BeginJob ==
    /\ wpc = "begin"
    /\ IF ~healthy \/ cancelled[wjob] \/ stop_requested
       THEN FinishJob(503)
       ELSE wpc' = "run" /\ UNCHANGED <<job, answer, wjob>>
    /\ UNCHANGED <<flags, reactor, readyq, jobq, threads, cancelled, phase,
                   clients>>

\* The first event of a stream is pushed.
StartStream ==
    /\ wpc = "run" /\ answer[wjob] = 0
    /\ answer' = [answer EXCEPT ![wjob] = 200]
    /\ UNCHANGED <<flags, reactor, readyq, jobq, threads, worker, job, cancelled,
                   phase, clients>>

\* push_event finds the deque full, for a token or for the error event that
\* follows a poisoning.  Waits that end are only told from running on by the
\* last, so a generation goes on to its end from there.
PushWaits ==
    /\ wpc \in {"run", "poisoned"} /\ answer[wjob] # 0
    /\ ~cancelled[wjob] /\ ~stop_requested
    /\ wpc' = IF wpc = "run" THEN "push" ELSE "push_error"
    /\ UNCHANGED <<flags, reactor, readyq, jobq, threads, wjob, mailbox, phase,
                   clients>>

\* Only a reader makes room.
ReaderMakesRoom == \E t \in Threads : tpc[t] = "send" /\ at[t] = wjob

\* The loop of push_event ends.
PushMayEnd == cancelled[wjob] \/ stop_requested \/ ReaderMakesRoom

\* The generation goes on: no push is waiting for room.
Generating == wpc = "run" \/ (wpc = "push" /\ PushMayEnd)

\* The generation succeeds, fails, or is cancelled, its last event pushed.
EndJob ==
    /\ Generating
    /\ \/ FinishJob(200)
       \/ FinishJob(500)
       \/ (cancelled[wjob] \/ stop_requested) /\ FinishJob(0)
    /\ UNCHANGED <<flags, reactor, readyq, jobq, threads, cancelled, phase,
                   clients>>

\* An unrecoverable failure or a diverged receipt closes the latch before
\* anything is published, and then answers 503.
Poison ==
    /\ Generating
    /\ healthy' = FALSE
    /\ wpc' = "poisoned"
    /\ UNCHANGED <<stop_requested, reactor, readyq, jobq, threads, wjob, mailbox,
                   phase, clients>>

PublishPoisoned ==
    /\ \/ wpc = "poisoned"
       \/ wpc = "push_error" /\ PushMayEnd
    /\ FinishJob(503)
    /\ UNCHANGED <<flags, reactor, readyq, jobq, threads, cancelled, phase,
                   clients>>

\* An exception leaves execute_job: an error is published, or if that throws
\* as well, the job is cancelled.
JobThrows ==
    /\ wpc \in {"begin", "poisoned"} \/ Generating
    /\ \/ FinishJob(500) /\ UNCHANGED cancelled
       \/ FinishJob(0) /\ GiveUp(wjob)
    /\ UNCHANGED <<flags, reactor, readyq, jobq, threads, phase, clients>>

\* The receipt is revalidated after every item.
Refresh ==
    /\ wpc = "refresh"
    /\ wpc' = "pop"
    /\ healthy' \in {healthy, FALSE}
    /\ UNCHANGED <<stop_requested, reactor, readyq, jobq, threads, wjob, mailbox,
                   phase, clients>>

Worker ==
    \/ PopJob \/ BeginJob \/ StartStream \/ PushWaits \/ EndJob
    \/ Poison \/ PublishPoisoned \/ JobThrows \/ Refresh

-----------------------------------------------------------------------------
Reactor ==
    \/ Poll \/ StageOne \/ StageDone \/ AcceptDone \/ Leave \/ Shutdown \/ Join
    \/ \E c \in Conns : Accept(c) \/ AcceptLate(c)

Environment ==
    \/ Stop
    \/ \E c \in Conns : Connect(c) \/ RequestArrives(c) \/ DeadlinePasses(c)
                           \/ HangsUp(c)

Exited == mpc = "exited" /\ UNCHANGED vars

Next == \/ Reactor \/ Worker \/ Environment \/ Exited
        \/ \E t \in Threads : Ingress(t)

Spec == Init /\ [][Next]_vars

\* The threads are scheduled, every wait polls again within 100 ms, every send
\* ends within the write timeout, and deadlines pass.  Some ingress thread
\* being scheduled is all that is needed: less than the kernel promises.  A
\* generation has at most max_tokens tokens and ends.
Fairness ==
    /\ WF_vars(Reactor) /\ WF_vars(Worker)
    /\ WF_vars(\E t \in Threads : Ingress(t))
    /\ WF_vars(\E c \in Conns : DeadlinePasses(c))

-----------------------------------------------------------------------------
(***************************************************************************)
(* Properties.                                                             *)
(***************************************************************************)

\* Where the worker has a job in its hands.
Executing == {"begin", "run", "push", "poisoned", "push_error"}

\* Every thread, queue and connection stays within its value set.
TypeOK ==
    /\ stop_requested \in BOOLEAN /\ healthy \in BOOLEAN
    /\ mpc \in {"poll", "stage", "accept", "leave", "stop", "close_ready",
                "close_jobs", "join_ingress", "join_worker", "exited"}
    /\ readable \in BOOLEAN /\ accepted \in 0..MaxAccepts
    /\ pending \in Seq(Conns) /\ todo \in Seq(Conns)
    /\ ready \in Seq(Conns) /\ ready_closed \in BOOLEAN
    /\ jobs \in Seq(Conns) /\ jobs_closed \in BOOLEAN
    /\ tpc \in [Threads -> {"pop", "route", "admit", "refused", "serve", "send",
                            "exited"}]
    /\ at \in [Threads -> Conns \cup {None}]
    /\ status \in [Threads -> {0, 200, 400, 429, 500, 503}]
    /\ refusal \in [Threads -> {"none", "full", "closed"}]
    /\ wpc \in Executing \cup {"pop", "refresh", "exited"}
    /\ wjob \in Conns \cup {None}
    /\ job \in [Conns -> {"none", "queued", "active", "done"}]
    /\ cancelled \in [Conns -> BOOLEAN]
    /\ answer \in [Conns -> {0, 200, 500, 503}]
    /\ phase \in [Conns -> {"new", "backlog", "open", "closed"}]
    /\ kind \in [Conns -> Kinds]
    /\ recv \in [Conns -> {"partial", "whole", "late"}]
    /\ gone \in [Conns -> BOOLEAN]

\* A socket has exactly one owner while it is open, and none before it is
\* accepted or after it is closed: it is moved, never shared or dropped, from
\* the staging vector through the ready queue to one ingress thread.
Holders(c) ==
      Cardinality({i \in 1..Len(pending) : pending[i] = c})
    + Cardinality({i \in 1..Len(todo) : todo[i] = c})
    + Cardinality({i \in 1..Len(ready) : ready[i] = c})
    + Cardinality({t \in Threads : at[t] = c})

OneOwner == \A c \in Conns : Holders(c) = IF phase[c] = "open" THEN 1 ELSE 0

\* Every open connection is owned, by somebody the types allow.
SocketsAreOwned == TypeOK /\ OneOwner

\* The staging set and both queues stay within their configured capacity,
\* however many clients arrive in one accept burst.
Bounded ==
    /\ Len(pending) + Len(todo) <= ReadyCapacity
    /\ Len(ready) <= ReadyCapacity
    /\ Len(jobs) <= QueueCapacity

\* A thread waits for the job of c or streams it.
HasWaiter(c) == \E t \in Threads : tpc[t] \in {"serve", "send"} /\ at[t] = c

\* An admitted job that is not cancelled has an ingress thread waiting for it
\* or streaming it.  The one exception is the stream the worker is on: a thread
\* that throws while it sends leaves it uncancelled.  So nothing in the queue
\* is computed for a client nobody serves, whoever gave up, threw or stopped.
AdmittedHasWaiter ==
    \A c \in Conns :
        job[c] \in {"queued", "active"} /\ ~cancelled[c]
            => HasWaiter(c) \/ (c = wjob /\ answer[c] # 0)

\* A client is told "queue full" (429) only if the queue was full.  try_push
\* also fails on a closed queue and the flag that tells the two apart is read
\* later, without the lock: it works because the flag is raised first.
HonestRefusal ==
    \A t \in Threads : status[t] = 429 => refusal[t] = "full"

\* When run_evaluation_server returns, no thread runs, no queue holds
\* anything, no job is left undecided and no socket is left open.
CleanExit ==
    mpc = "exited" =>
        /\ \A t \in Threads : tpc[t] = "exited"
        /\ wpc = "exited"
        /\ jobs = << >> /\ ready = << >> /\ pending = << >>
        /\ \A c \in Conns : /\ phase[c] \in {"new", "closed"}
                            /\ job[c] \in {"none", "done"}

\* A stop request and a closed health latch both end the process: nobody
\* waits for anybody in a circle while the queues are closed and joined.
ShutdownCompletes == (stop_requested \/ ~healthy) ~> (mpc = "exited")

\* The worker waits in push_event for a reader that has left by an exception,
\* and will until the server stops.
WorkerStranded ==
    /\ wpc \in {"push", "push_error"} /\ ~cancelled[wjob] /\ ~stop_requested
    /\ \A t \in Threads : at[t] # wjob

\* Every accepted connection is eventually closed, whatever its client does: an
\* unfinished request meets its deadline and a ready one is served.  Only a
\* stranded worker can keep a client waiting until the server stops, and then
\* only one that asked for inference: everybody else is still answered.
AcceptedIsClosed ==
    \A c \in Conns :
        phase[c] = "open" ~> \/ phase[c] = "closed"
                             \/ kind[c] = "inference" /\ WorkerStranded

\* EvaluationServerOptions: "Keep enough threads for the active request, every
\* bounded queued request, and one control-plane/overload response".  At least
\* one thread does not wait for the worker, so health and refused requests are
\* served even if a generation never ends.
ControlPlaneHasThread ==
    \E t \in Threads :
        ~(tpc[t] \in {"serve", "send"} /\ job[at[t]] \in {"queued", "active"})

\* stage_http_connections: "New arrivals can evict the oldest incomplete
\* connection under saturation".  An evicted connection is an incomplete one.
EvictsOnlyIncomplete ==
    [][\A c \in Conns :
          mpc = "accept" /\ mpc' = "accept"
          /\ c \in Elements(pending) /\ c \notin Elements(pending')
             => recv[c] # "whole"]_vars
=============================================================================
