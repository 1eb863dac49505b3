---------------------------- MODULE InferenceJob ----------------------------
(***************************************************************************)
(* One admitted request of the evaluation gateway and the two threads that *)
(* share it: the inference worker, which runs the engine and publishes the *)
(* result (execute_job, publish_job_error, observe_gateway_token), and the *)
(* ingress thread that admitted it, which waits for the result and writes  *)
(* it to the client's socket (wait_for_response, wait_for_stream_start,    *)
(* stream_response and the tail of handle_connection).                     *)
(*                                                                         *)
(* They meet in InferenceJob: a mutex-protected mailbox with a bounded     *)
(* event deque, a one-shot response, and a lock-free cancellation flag.    *)
(* One action is one critical section of that mutex, one engine callback,  *)
(* or one blocking send.  Every connection carries one request             *)
(* (kMaximumRequestsPerConnection = 1).                                    *)
(*                                                                         *)
(* The health latch is the one of the sealed production route, which       *)
(* enforces the receipt.  A development route never closes it: there       *)
(* receipt_ok stays TRUE and no diagnostic counts as "poison".             *)
(***************************************************************************)
EXTENDS Naturals, Sequences

CONSTANTS
    EventCapacity,   \* options.stream_event_capacity
    MaxTokens        \* request.max_tokens

ASSUME EventCapacityAssumption == EventCapacity \in Nat \ {0}
ASSUME MaxTokensAssumption     == MaxTokens \in Nat \ {0}

VARIABLES
    request,             \* [stream, include_usage] of the parsed body
    stopping,            \* the server-wide stop flag
    peer_gone,           \* the client closed its end
    cancelled,           \* InferenceJob::cancelled
    events,              \* InferenceJob::events
    event_stream_closed, \* InferenceJob::event_stream_closed
    stream_start,        \* InferenceJob::stream_start
    response_ready,      \* InferenceJob::response_ready
    response_status,     \* InferenceJob::response_status
    healthy,             \* EvaluationProductionRuntimeHealth::healthy_
    receipt_ok,          \* the engine's live receipt still matches
    wpc,                 \* where the inference worker is in this job
    token,               \* tokens the engine has committed
    gen,                 \* result of engine.generate_*
    protocol_failure,    \* ObserverContext::protocol_failure
    pend,                \* the event the worker is pushing
    error_status,        \* status of the error being published
    caught,              \* exceptions that left execute_job or its handler
    ipc,                 \* where the ingress thread is
    inflight,            \* event popped and not yet written
    reply,               \* header written to the socket
    sent,                \* events written to the socket, in order
    ended,               \* the chunked body was terminated
    pushed,              \* history: every event ever pushed
    send_failed          \* history: a send timed out or was refused

mailbox   == <<cancelled, events, event_stream_closed, stream_start,
               response_ready, response_status>>
engine    == <<token, gen, protocol_failure, receipt_ok>>
worker    == <<wpc, pend, error_status, caught, healthy>>
ingress   == <<ipc, inflight>>
socket    == <<reply, sent, ended, send_failed>>
ambient   == <<request, stopping, peer_gone>>
vars      == <<mailbox, engine, worker, ingress, socket, ambient, pushed>>

-----------------------------------------------------------------------------
FinishReasons == {"none", "stop", "length"}

\* The server-sent events of a stream, reduced to what distinguishes them.
TokenEvent(i, finish) == [kind |-> "token", index |-> i, finish |-> finish]
UsageEvent == [kind |-> "usage", index |-> 0, finish |-> "none"]
DoneEvent  == [kind |-> "done",  index |-> 0, finish |-> "none"]
ErrorEvent == [kind |-> "error", index |-> 0, finish |-> "none"]
NoEvent    == [kind |-> "none",  index |-> 0, finish |-> "none"]

Event == [kind : {"token", "usage", "done", "error", "none"},
          index : Nat, finish : FinishReasons]

Statuses == {0, 200, 400, 500, 503}

\* prefill_cancelled and the first test of observe_gateway_token.
Interrupted == cancelled \/ stopping

Init ==
    /\ request \in [stream : BOOLEAN, include_usage : BOOLEAN]
    /\ stopping = FALSE /\ peer_gone = FALSE
    /\ cancelled = FALSE /\ events = << >> /\ event_stream_closed = FALSE
    /\ stream_start = "Pending"
    /\ response_ready = FALSE /\ response_status = 500
    /\ healthy \in BOOLEAN /\ receipt_ok \in BOOLEAN
    /\ healthy => receipt_ok
    /\ wpc = "queued" /\ pend = NoEvent /\ error_status = 0 /\ caught = 0
    /\ token = 0 /\ gen = "none" /\ protocol_failure = FALSE
    /\ ipc = "wait" /\ inflight = << >>
    /\ reply = 0 /\ sent = << >> /\ ended = FALSE /\ send_failed = FALSE
    /\ pushed = << >>

-----------------------------------------------------------------------------
(***************************************************************************)
(* The environment: a signal sets the stop flag, the client hangs up.      *)
(***************************************************************************)
Stop ==
    /\ ~stopping
    /\ stopping' = TRUE
    /\ UNCHANGED <<request, peer_gone, mailbox, engine, worker, ingress,
                   socket, pushed>>

PeerDisconnects ==
    /\ ~peer_gone
    /\ peer_gone' = TRUE
    /\ UNCHANGED <<request, stopping, mailbox, engine, worker, ingress,
                   socket, pushed>>

-----------------------------------------------------------------------------
(***************************************************************************)
(* The inference worker.                                                   *)
(***************************************************************************)

\* Continue with publish_job_error(status).
ToPublish(status) == wpc' = "publish" /\ error_status' = status

\* execute_job, up to the call of engine.generate_*.
BeginExecute ==
    /\ wpc = "queued"
    /\ IF ~healthy \/ Interrupted
       THEN ToPublish(503)
       ELSE wpc' = "generate" /\ UNCHANGED error_status
    /\ UNCHANGED <<pend, caught, healthy, mailbox, engine, ingress, socket,
                   ambient, pushed>>

\* The engine polls the cancellation probe during prefill, or offers the next
\* token to an observer that declines it.
EngineStops ==
    /\ wpc = "generate"
    /\ Interrupted
    /\ gen' = "cancelled" /\ wpc' = "observe"
    /\ UNCHANGED <<token, protocol_failure, receipt_ok, pend, error_status,
                   caught, healthy, mailbox, ingress, socket, ambient, pushed>>

\* The length test compares the token after the last one allowed.
FinishReasonOffByOne(i, is_stop_token) ==
    IF is_stop_token THEN "stop"
    ELSE IF i = MaxTokens + 1 THEN "length" ELSE "none"

\* The finish reason observe_gateway_token attaches to the i-th token.
FinishReason(i, is_stop_token) ==
    IF is_stop_token THEN "stop"
    ELSE IF i = MaxTokens THEN "length" ELSE "none"

\* The engine itself ends after a stop token or the last token allowed.
GenAfter(i, is_stop_token) ==
    IF is_stop_token \/ i = MaxTokens THEN "ok" ELSE "none"

\* observe_gateway_token accepts a token of a request that does not stream.
ObserveToken ==
    /\ wpc = "generate" /\ ~request.stream
    /\ ~Interrupted
    /\ token' = token + 1
    /\ \E is_stop_token \in BOOLEAN : gen' = GenAfter(token + 1, is_stop_token)
    /\ wpc' = IF gen' = "ok" THEN "observe" ELSE "generate"
    /\ UNCHANGED <<protocol_failure, receipt_ok, pend, error_status, caught,
                   healthy, mailbox, ingress, socket, ambient, pushed>>

\* observe_gateway_token renders a streamed token and enters push_event.
EncodeToken ==
    /\ wpc = "generate" /\ request.stream
    /\ ~Interrupted
    /\ token' = token + 1
    /\ \E is_stop_token \in BOOLEAN :
          /\ pend' = TokenEvent(token + 1, FinishReason(token + 1, is_stop_token))
          /\ gen' = GenAfter(token + 1, is_stop_token)
    /\ wpc' = "push"
    /\ UNCHANGED <<protocol_failure, receipt_ok, error_status, caught,
                   healthy, mailbox, ingress, socket, ambient, pushed>>

\* The observer's own exception handler: the token is lost, the engine stops.
EncodeFails ==
    /\ wpc = "generate" /\ request.stream
    /\ ~Interrupted
    /\ protocol_failure' = TRUE
    /\ gen' = "cancelled" /\ wpc' = "observe"
    /\ UNCHANGED <<token, receipt_ok, pend, error_status, caught, healthy,
                   mailbox, ingress, socket, ambient, pushed>>

\* engine.generate_* returns a diagnostic: one that answers 400, one that
\* answers 500, or one that observe_failure takes as unrecoverable.
EngineFails ==
    /\ wpc = "generate"
    /\ gen' \in {"client_error", "engine_error", "poison"}
    /\ wpc' = "observe"
    /\ UNCHANGED <<token, protocol_failure, receipt_ok, pend, error_status,
                   caught, healthy, mailbox, ingress, socket, ambient, pushed>>

\* Graph replay retires the engine-lifetime cache inside generate().
ReceiptDiverges ==
    /\ wpc = "generate"
    /\ receipt_ok
    /\ receipt_ok' = FALSE
    /\ UNCHANGED <<token, gen, protocol_failure, worker, mailbox, ingress,
                   socket, ambient, pushed>>

-----------------------------------------------------------------------------
(***************************************************************************)
(* InferenceJob::push_event.  It blocks while the deque is full, and what  *)
(* follows depends on the event being pushed.                              *)
(***************************************************************************)
HasRoom == Len(events) < EventCapacity

PushSucceeds ==
    /\ wpc = "push"
    /\ ~Interrupted /\ ~event_stream_closed
    /\ HasRoom
    /\ events' = Append(events, pend)
    /\ pushed' = Append(pushed, pend)
    /\ stream_start' = IF stream_start = "Pending" THEN "Success"
                                                   ELSE stream_start
    /\ wpc' = CASE pend.kind = "token" ->
                     IF gen = "ok" THEN "observe" ELSE "generate"
                [] pend.kind = "usage" -> "push"
                [] OTHER -> "close"
    /\ pend' = IF pend.kind = "usage" THEN DoneEvent ELSE pend
    /\ UNCHANGED <<cancelled, event_stream_closed, response_ready,
                   response_status, engine, error_status, caught, healthy,
                   ingress, socket, ambient>>

PushRefused ==
    /\ wpc = "push"
    /\ Interrupted \/ (HasRoom /\ event_stream_closed)
    /\ cancelled' = (cancelled \/ pend.kind \in {"token", "usage"})
    /\ IF pend.kind = "token"
       THEN wpc' = "observe" /\ gen' = "cancelled"
       ELSE wpc' = "close" /\ UNCHANGED gen
    /\ UNCHANGED <<events, event_stream_closed, stream_start, response_ready,
                   response_status, token, protocol_failure, receipt_ok, pend,
                   error_status, caught, healthy, ingress, socket, ambient,
                   pushed>>

\* InferenceJob::close_events, the last thing execute_job does to a stream.
CloseEvents ==
    /\ wpc = "close"
    /\ event_stream_closed' = TRUE
    /\ wpc' = "refresh"
    /\ UNCHANGED <<cancelled, events, stream_start, response_ready,
                   response_status, engine, pend, error_status, caught,
                   healthy, ingress, socket, ambient, pushed>>

-----------------------------------------------------------------------------
(***************************************************************************)
(* execute_job after engine.generate_* returned.                           *)
(***************************************************************************)

\* Only the diagnostic is consulted, never the live receipt.
HealthyWithoutReceipt == healthy /\ gen # "poison"

\* observe_failure and EvaluationProductionRuntimeHealth::observe.
HealthyAfterGenerate == healthy /\ gen # "poison" /\ receipt_ok

\* observe_failure, then refresh_production_runtime_health.
ObserveHealth ==
    /\ wpc = "observe"
    /\ healthy' = HealthyAfterGenerate
    /\ wpc' = "conclude"
    /\ UNCHANGED <<pend, error_status, caught, mailbox, engine, ingress,
                   socket, ambient, pushed>>

\* The error ladder, in the order the code tests it.
ConcludeError ==
    /\ wpc = "conclude"
    /\ \/ ~healthy /\ ToPublish(503)
       \/ healthy /\ protocol_failure /\ ToPublish(500)
       \/ /\ healthy /\ ~protocol_failure /\ ~Interrupted
          /\ gen \in {"client_error", "engine_error"}
          /\ ToPublish(IF gen = "client_error" THEN 400 ELSE 500)
    /\ UNCHANGED <<pend, caught, healthy, mailbox, engine, ingress, socket,
                   ambient, pushed>>

\* A cancelled or stopping request is closed without an answer.
ConcludeCancelled ==
    /\ wpc = "conclude"
    /\ healthy /\ ~protocol_failure
    /\ Interrupted \/ gen = "cancelled"
    /\ wpc' = "close"
    /\ UNCHANGED <<pend, error_status, caught, healthy, mailbox, engine,
                   ingress, socket, ambient, pushed>>

ConcludeStream ==
    /\ wpc = "conclude"
    /\ healthy /\ ~protocol_failure /\ ~Interrupted
    /\ gen = "ok" /\ request.stream
    /\ pend' = IF request.include_usage THEN UsageEvent ELSE DoneEvent
    /\ wpc' = "push"
    /\ UNCHANGED <<error_status, caught, healthy, mailbox, engine, ingress,
                   socket, ambient, pushed>>

\* The waiter is woken without the flag it waits for.
SetResponseNotReady(status) ==
    /\ response_status' = status
    /\ response_ready' = response_ready
    /\ wpc' = "refresh"

\* InferenceJob::set_response.
SetResponse(status) ==
    /\ response_status' = status
    /\ response_ready' = TRUE
    /\ wpc' = "refresh"

ConcludeResponse ==
    /\ wpc = "conclude"
    /\ healthy /\ ~protocol_failure /\ ~Interrupted
    /\ gen = "ok" /\ ~request.stream
    /\ SetResponse(200)
    /\ UNCHANGED <<cancelled, events, event_stream_closed, stream_start, engine,
                   pend, error_status, caught, healthy, ingress, socket,
                   ambient, pushed>>

-----------------------------------------------------------------------------
(***************************************************************************)
(* publish_job_error.                                                      *)
(***************************************************************************)

\* An empty deque is taken for a stream that has not started.
NotStartedIfEmpty == events = << >>

NotStarted == stream_start = "Pending"

PublishResponse ==
    /\ wpc = "publish" /\ ~request.stream
    /\ SetResponse(error_status)
    /\ UNCHANGED <<cancelled, events, event_stream_closed, stream_start, engine,
                   pend, error_status, caught, healthy, ingress, socket,
                   ambient, pushed>>

\* The stream has not started: the error becomes a fixed response, under one
\* hold of the job's mutex.
PublishEarlyError ==
    /\ wpc = "publish" /\ request.stream
    /\ NotStarted
    /\ stream_start' = "EarlyError"
    /\ event_stream_closed' = TRUE
    /\ SetResponse(error_status)
    /\ UNCHANGED <<cancelled, events, engine, pend, error_status, caught,
                   healthy, ingress, socket, ambient, pushed>>

\* The stream has started: the error is one more event, unless the client
\* has been given up on.
PublishErrorEvent ==
    /\ wpc = "publish" /\ request.stream
    /\ ~NotStarted
    /\ IF cancelled
       THEN wpc' = "close" /\ UNCHANGED pend
       ELSE wpc' = "push" /\ pend' = ErrorEvent
    /\ UNCHANGED <<error_status, caught, healthy, mailbox, engine, ingress,
                   socket, ambient, pushed>>

\* A host exception (an allocation failure) leaves execute_job.  The catch
\* block publishes one error; a second exception gives the job up.
WorkerThrows ==
    /\ \/ wpc \in {"observe", "conclude", "publish"}
       \/ wpc = "push" /\ pend.kind \in {"usage", "done", "error"}
    /\ caught' = caught + 1
    /\ IF caught = 0
       THEN /\ ToPublish(500)
            /\ UNCHANGED <<cancelled, event_stream_closed>>
       ELSE /\ cancelled' = TRUE
            /\ event_stream_closed' = TRUE
            /\ wpc' = "refresh"
            /\ UNCHANGED error_status
    /\ UNCHANGED <<events, stream_start, response_ready, response_status,
                   engine, pend, healthy, ingress, socket, ambient, pushed>>

HealthyAfterItem == healthy /\ receipt_ok

\* inference_worker revalidates the receipt after every queue item.
RefreshHealth ==
    /\ wpc = "refresh"
    /\ healthy' = HealthyAfterItem
    /\ wpc' = "finished"
    /\ UNCHANGED <<pend, error_status, caught, mailbox, engine, ingress,
                   socket, ambient, pushed>>

-----------------------------------------------------------------------------
(***************************************************************************)
(* The ingress thread, after inference_queue.try_push(job) succeeded.      *)
(***************************************************************************)

\* The job is left running for a client nobody serves any more.
AbandonSilently == UNCHANGED cancelled

\* job->cancelled.store(true): the worker stops producing for this client.
Abandon == cancelled' = TRUE

\* What ends the wait loops of wait_for_response and wait_for_stream_start.
ResultVisible ==
    IF request.stream THEN stream_start # "Pending" \/ event_stream_closed
                      ELSE response_ready

\* Either wait gives up after a 100 ms poll: no response at all.
WaitAborts ==
    /\ ipc = "wait"
    /\ Interrupted \/ peer_gone
    /\ Abandon
    /\ ipc' = "released"
    /\ UNCHANGED <<events, event_stream_closed, stream_start, response_ready,
                   response_status, engine, worker, inflight, socket, ambient,
                   pushed>>

\* The wait ends and handle_connection picks how to answer.
WaitEnds ==
    /\ ipc = "wait"
    /\ ResultVisible
    /\ ipc' = CASE request.stream /\ stream_start = "Success" -> "headers"
                [] response_ready -> "fixed"
                [] OTHER -> "released"
    /\ UNCHANGED <<inflight, mailbox, engine, worker, socket, ambient, pushed>>

\* send_fixed_response of the job's status and body.  Only the streaming
\* branch of handle_connection marks the job cancelled afterwards.
SendFixed ==
    /\ ipc = "fixed"
    /\ ipc' = "released"
    /\ cancelled' = (cancelled \/ request.stream)
    /\ \/ reply' = response_status /\ UNCHANGED send_failed
       \/ send_failed' = TRUE /\ UNCHANGED reply
    /\ UNCHANGED <<events, event_stream_closed, stream_start, response_ready,
                   response_status, engine, worker, inflight, sent, ended,
                   ambient, pushed>>

\* send_sse_headers; on failure the stream is abandoned.
SendHeaders ==
    /\ ipc = "headers"
    /\ \/ /\ reply' = 200
          /\ ipc' = "stream"
          /\ UNCHANGED <<cancelled, send_failed>>
       \/ /\ send_failed' = TRUE
          /\ Abandon
          /\ ipc' = "released"
          /\ UNCHANGED reply
    /\ UNCHANGED <<events, event_stream_closed, stream_start, response_ready,
                   response_status, engine, worker, inflight, sent, ended,
                   ambient, pushed>>

\* stream_response finds nothing to send and waits on the condition variable.
StreamBlocks ==
    /\ ipc = "stream"
    /\ events = << >> /\ ~event_stream_closed
    /\ ipc' = "stream_wait"
    /\ UNCHANGED <<inflight, mailbox, engine, worker, socket, ambient, pushed>>

\* After a wait, and only then, it notices a stop or a hang-up.
StreamAborts ==
    /\ ipc = "stream_wait"
    /\ stopping \/ peer_gone
    /\ Abandon
    /\ ipc' = "released"
    /\ UNCHANGED <<events, event_stream_closed, stream_start, response_ready,
                   response_status, engine, worker, inflight, socket, ambient,
                   pushed>>

\* The event that was sent stays at the front of the deque.
RestKept == events

Rest == Tail(events)

StreamPops ==
    /\ ipc \in {"stream", "stream_wait"}
    /\ events # << >>
    /\ inflight' = <<Head(events)>>
    /\ events' = Rest
    /\ ipc' = "send"
    /\ UNCHANGED <<cancelled, event_stream_closed, stream_start, response_ready,
                   response_status, engine, worker, socket, ambient, pushed>>

\* send_chunk, outside the mutex.
SendChunk ==
    /\ ipc = "send"
    /\ \/ /\ sent' = sent \o inflight
          /\ inflight' = << >>
          /\ ipc' = "stream"
          /\ UNCHANGED <<cancelled, send_failed>>
       \/ /\ send_failed' = TRUE
          /\ Abandon
          /\ ipc' = "released"
          /\ UNCHANGED <<sent, inflight>>
    /\ UNCHANGED <<events, event_stream_closed, stream_start, response_ready,
                   response_status, engine, worker, reply, ended, ambient,
                   pushed>>

\* send_chunk_end, and the return of handle_connection.
StreamEnds ==
    /\ ipc \in {"stream", "stream_wait"}
    /\ events = << >> /\ event_stream_closed
    /\ \/ ended' = TRUE /\ UNCHANGED send_failed
       \/ send_failed' = TRUE /\ UNCHANGED ended
    /\ Abandon
    /\ ipc' = "released"
    /\ UNCHANGED <<events, event_stream_closed, stream_start, response_ready,
                   response_status, engine, worker, inflight, reply, sent,
                   ambient, pushed>>

\* A host exception (an allocation failure while a response, a header or a
\* chunk is built) leaves handle_connection; ingress_worker logs it and drops
\* the connection.  Nobody marks the job cancelled.
IngressThrows ==
    /\ ipc \in {"fixed", "headers", "send"}
    /\ ipc' = "threw"
    /\ UNCHANGED <<inflight, mailbox, engine, worker, socket, ambient, pushed>>

-----------------------------------------------------------------------------
WorkerNext ==
    \/ BeginExecute \/ EngineStops \/ ObserveToken \/ EncodeToken
    \/ EncodeFails \/ EngineFails \/ ReceiptDiverges
    \/ PushSucceeds \/ PushRefused \/ CloseEvents
    \/ ObserveHealth \/ ConcludeError \/ ConcludeCancelled \/ ConcludeStream
    \/ ConcludeResponse \/ PublishResponse \/ PublishEarlyError
    \/ PublishErrorEvent \/ WorkerThrows \/ RefreshHealth

IngressNext ==
    \/ WaitAborts \/ WaitEnds \/ SendFixed \/ SendHeaders \/ StreamBlocks
    \/ StreamAborts \/ StreamPops \/ SendChunk \/ StreamEnds \/ IngressThrows

\* Both threads have left the job.
Terminated ==
    /\ wpc = "finished" /\ ipc \in {"released", "threw"}
    /\ UNCHANGED vars

Next == Stop \/ PeerDisconnects \/ WorkerNext \/ IngressNext \/ Terminated

Spec == Init /\ [][Next]_vars

\* Each thread is scheduled, the engine keeps stepping, and every send ends
\* within options.write_timeout_milliseconds.
FairSpec == Spec /\ WF_vars(WorkerNext) /\ WF_vars(IngressNext)

-----------------------------------------------------------------------------
(***************************************************************************)
(* Properties.                                                             *)
(***************************************************************************)

\* The mailbox, both threads and the socket stay within their value sets.
TypeOK ==
    /\ request \in [stream : BOOLEAN, include_usage : BOOLEAN]
    /\ stopping \in BOOLEAN /\ peer_gone \in BOOLEAN
    /\ cancelled \in BOOLEAN
    /\ events \in Seq(Event)
    /\ event_stream_closed \in BOOLEAN
    /\ stream_start \in {"Pending", "Success", "EarlyError"}
    /\ response_ready \in BOOLEAN
    /\ response_status \in Statuses
    /\ healthy \in BOOLEAN /\ receipt_ok \in BOOLEAN
    /\ wpc \in {"queued", "generate", "push", "observe", "conclude", "publish",
                "close", "refresh", "finished"}
    /\ token \in 0..MaxTokens
    /\ gen \in {"none", "ok", "cancelled", "client_error", "engine_error",
                "poison"}
    /\ protocol_failure \in BOOLEAN
    /\ pend \in Event
    /\ error_status \in Statuses
    /\ caught \in 0..2
    /\ ipc \in {"wait", "headers", "fixed", "stream", "stream_wait", "send",
                "released", "threw"}
    /\ inflight \in Seq(Event)
    /\ reply \in Statuses
    /\ sent \in Seq(Event)
    /\ ended \in BOOLEAN
    /\ pushed \in Seq(Event)
    /\ send_failed \in BOOLEAN

\* What the client has been sent, the event in the ingress thread's hand and
\* the deque are together exactly what the worker pushed, in that order: the
\* hand-over through push_event and stream_response loses, repeats and
\* reorders nothing, although the send happens outside the mutex.
StreamIsFifo == pushed = sent \o inflight \o events

\* A success ([DONE] pushed, or a 200 response made ready) is only published
\* for a generation that completed while the live receipt still matched:
\* execute_job revalidates before it publishes.
SuccessIsSound ==
    (\/ \E i \in 1..Len(pushed) : pushed[i] = DoneEvent
     \/ response_ready /\ response_status = 200)
        => gen = "ok" /\ receipt_ok

\* A client is never sent both an error response and a stream: once an event
\* is in the stream publish_job_error cannot fall back to a fixed response.
OneKindOfAnswer ==
    /\ stream_start = "EarlyError" => pushed = << >>
    /\ response_ready => pushed = << >>
    /\ sent # << >> => reply = 200

\* What may come after event e in a stream: tokens are numbered without a
\* gap, a finish reason ends the tokens, then usage and [DONE]; an error may
\* cut the stream short.
Follows(e, f) ==
    \/ e.kind = "token" /\ e.finish = "none" /\ f.kind = "token" /\ f.index = e.index + 1
    \/ e.kind = "token" /\ e.finish # "none" /\ f.kind \in {"usage", "done"}
    \/ e.kind = "usage" /\ f.kind = "done"
    \/ e.kind \in {"token", "usage"} /\ f.kind = "error"

\* Whatever was pushed, by the observer, execute_job and publish_job_error
\* together, is the beginning of a well-formed stream: exactly the last token
\* carries a finish reason, [DONE] only follows it, nothing follows [DONE].
StreamWellFormed ==
    /\ pushed # << >> => pushed[1].kind = "token" /\ pushed[1].index = 1
    /\ \A i \in 1..(Len(pushed) - 1) : Follows(pushed[i], pushed[i + 1])

\* A client that stays connected to a running server is answered in full: a
\* fixed response, or a stream whose terminated body ends in [DONE] or an
\* error event.  (A second exception in the worker's handler gives up.)
AnsweredInFull ==
    ipc = "released" /\ ~peer_gone /\ ~stopping /\ ~send_failed /\ caught < 2
        => /\ reply # 0
           /\ sent # << >> =>
                 ended /\ sent[Len(sent)].kind \in {"done", "error"}

\* inference_worker's comment: every completed queue item is fail-closed,
\* also when the generation itself reported an unrecoverable failure.
FailureFailsClosed == wpc = "finished" /\ gen = "poison" => ~healthy

\* The worker is in push_event at a full deque whose reader left by a host
\* exception, and nobody has told it to give up.
WaitsForNobody ==
    wpc = "push" /\ ~HasRoom /\ ipc = "threw" /\ ~Interrupted

\* The worker always gets out of the job: a full deque cannot hold it once
\* the client is given up on or the server stops.  The one exception is a
\* stream whose reader threw, for as long as the server does not stop.
WorkerNeverStranded == <>(wpc = "finished") \/ <>[]WaitsForNobody

\* The ingress thread always gets out of the job, whatever the engine and
\* the client do.
IngressNeverStranded == <>(ipc \in {"released", "threw"})

\* push_event, wait_for_response and wait_for_stream_start block on each other's
\* publications: neither thread waits for ever.
NeitherStranded == WorkerNeverStranded /\ IngressNeverStranded
=============================================================================
