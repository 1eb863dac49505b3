------------------------- MODULE InferenceJobProofs -------------------------
(***************************************************************************)
(* What InferenceJob guarantees for every deque capacity and every number  *)
(* of tokens.  None of the promised invariants is inductive by itself: the *)
(* missing facts tie the worker's place in execute_job to what it has      *)
(* already pushed (Progress, Frontier) and to what it has learned about    *)
(* the engine (Verdict), and the ingress thread's place to the socket      *)
(* (Delivery).                                                             *)
(***************************************************************************)
EXTENDS InferenceJob, SequenceTheorems, TLAPS

\* The engine has a token left whenever it runs, and exceptions are bounded.
Progress ==
    /\ wpc = "queued" => token = 0 /\ gen = "none"
    /\ wpc = "generate" => token < MaxTokens /\ gen = "none"
    /\ wpc = "push" /\ pend.kind = "token" => gen \in {"none", "ok"}
    /\ wpc = "push" /\ pend.kind = "token" /\ gen = "none" => token < MaxTokens
    /\ wpc = "push" => request.stream /\ pend.kind # "none"
    /\ wpc = "publish" => error_status \in {400, 500, 503}
    /\ caught = 2 => wpc \in {"refresh", "finished"}

\* A success has been or is about to be published.
Succeeding ==
    \/ wpc = "push" /\ pend.kind \in {"usage", "done"}
    \/ \E i \in 1..Len(pushed) : pushed[i] = DoneEvent
    \/ response_ready /\ response_status = 200

\* What the worker knows once it has observed the engine's health.
Verdict ==
    /\ wpc = "conclude" /\ healthy => receipt_ok
    /\ Succeeding => gen = "ok" /\ receipt_ok
    /\ (\E i \in 1..Len(pushed) : pushed[i] = DoneEvent)
          => wpc \in {"close", "refresh", "finished"}
    /\ response_ready \/ stream_start = "EarlyError"
          => wpc \in {"refresh", "finished"}

\* Which kind of answer the mailbox holds.
Answer ==
    /\ stream_start = "Success" <=> pushed # << >>
    /\ response_ready => pushed = << >>
    /\ ~request.stream => stream_start # "Success"

\* The ingress thread's place, the event in its hand and the header.
Delivery ==
    /\ ipc \notin {"send", "released", "threw"} => inflight = << >>
    /\ ipc \in {"stream", "stream_wait", "send"} => reply = 200
    /\ sent # << >> => reply = 200
    /\ ipc \in {"wait", "headers", "fixed"} => sent = << >>

\* The inductive invariant.
IInv == /\ TypeOK /\ StreamIsFifo
        /\ Progress /\ Verdict /\ Answer /\ Delivery

-----------------------------------------------------------------------------
USE EventCapacityAssumption, MaxTokensAssumption

\* The events the worker builds are events.
LEMMA EventsAreEvents ==
    /\ UsageEvent \in Event /\ DoneEvent \in Event
    /\ ErrorEvent \in Event /\ NoEvent \in Event
    /\ \A i \in Nat, f \in FinishReasons : TokenEvent(i, f) \in Event
  BY DEF Event, UsageEvent, DoneEvent, ErrorEvent, NoEvent, TokenEvent,
         FinishReasons

\* Appending to the right-hand part of a concatenation.
LEMMA AppendToConcat ==
    ASSUME NEW S, NEW s \in Seq(S), NEW t \in Seq(S), NEW e \in S
    PROVE  s \o Append(t, e) = Append(s \o t, e)
  OBVIOUS

\* Moving the head of a sequence to a singleton in front of it.
LEMMA HeadThenTail ==
    ASSUME NEW S, NEW s \in Seq(S), NEW t \in Seq(S), t # << >>
    PROVE  (s \o <<Head(t)>>) \o Tail(t) = s \o t
  OBVIOUS

\* A job that has just been admitted satisfies the invariant.
LEMMA InitIInv == Init => IInv
<1> SUFFICES ASSUME Init PROVE IInv
  OBVIOUS
<1>1. TypeOK
  <2>1. << >> \in Seq(Event)
    OBVIOUS
  <2>2. healthy \in BOOLEAN /\ receipt_ok \in BOOLEAN
    BY DEF Init
  <2>3. token \in 0..MaxTokens /\ caught \in 0..2
    BY DEF Init
  <2> QED
    BY <2>1, <2>2, <2>3, EventsAreEvents, Zenon DEF Init, TypeOK, Statuses
<1>2. StreamIsFifo
  BY DEF Init, StreamIsFifo
<1>3. Progress /\ Verdict /\ Answer /\ Delivery
  BY DEF Init, Progress, Succeeding, Verdict, Answer, Delivery, NoEvent
<1> QED
  BY <1>1, <1>2, <1>3 DEF IInv

\* A chunk is moved to the socket whole, or kept when the send fails.
LEMMA SendChunkSeqs ==
    ASSUME sent \in Seq(Event), inflight \in Seq(Event), SendChunk
    PROVE  sent' \in Seq(Event) /\ inflight' \in Seq(Event)
<1>1. CASE sent' = sent \o inflight /\ inflight' = << >>
  BY <1>1
<1>2. CASE sent' = sent /\ inflight' = inflight
  BY <1>2
<1> QED
  BY <1>1, <1>2 DEF SendChunk

\* The flags of a connection stay flags when a send ends, well or not.
LEMMA SendFlags ==
    ASSUME cancelled \in BOOLEAN, send_failed \in BOOLEAN, ended \in BOOLEAN,
           SendFixed \/ SendHeaders \/ SendChunk \/ StreamEnds
    PROVE  cancelled' \in BOOLEAN /\ send_failed' \in BOOLEAN /\ ended' \in BOOLEAN
<1>1. CASE SendFixed
  BY <1>1, Zenon DEF SendFixed
<1>2. CASE SendHeaders
  BY <1>2, Zenon DEF SendHeaders, Abandon
<1>3. CASE SendChunk
  BY <1>3, Zenon DEF SendChunk, Abandon
<1>4. CASE StreamEnds
  BY <1>4, Zenon DEF StreamEnds, Abandon
<1> QED
  BY <1>1, <1>2, <1>3, <1>4

\* So do the two that an exception of the worker raises.
LEMMA ThrowFlags ==
    ASSUME cancelled \in BOOLEAN, event_stream_closed \in BOOLEAN, WorkerThrows
    PROVE  cancelled' \in BOOLEAN /\ event_stream_closed' \in BOOLEAN
  BY Zenon DEF WorkerThrows

\* Every step keeps the types; a commit needs Progress for the token count.
LEMMA NextTypeOK == IInv /\ [Next]_vars => TypeOK'
<1> SUFFICES ASSUME IInv, [Next]_vars PROVE TypeOK'
  OBVIOUS
<1> USE DEF IInv, TypeOK, Progress, mailbox, engine, worker, ingress, socket,
            ambient
<1>1. CASE Stop
  BY <1>1 DEF Stop
<1>2. CASE PeerDisconnects
  BY <1>2 DEF PeerDisconnects
<1>3. CASE BeginExecute
  BY <1>3 DEF BeginExecute, ToPublish, Statuses
<1>4. CASE EngineStops
  BY <1>4 DEF EngineStops
<1>5. CASE ObserveToken
  BY <1>5 DEF ObserveToken, GenAfter
<1>6. CASE EncodeToken
  <2>1. pend' \in Event
    BY <1>6, EventsAreEvents DEF EncodeToken, GenAfter, FinishReason, FinishReasons
  <2>2. gen' \in {"none", "ok"} /\ token' \in 0..MaxTokens
    BY <1>6 DEF EncodeToken, GenAfter, FinishReason, FinishReasons
  <2> QED
    BY <1>6, <2>1, <2>2 DEF EncodeToken, GenAfter, FinishReason, FinishReasons
<1>7. CASE EncodeFails
  BY <1>7 DEF EncodeFails
<1>8. CASE EngineFails
  BY <1>8 DEF EngineFails
<1>9. CASE ReceiptDiverges
  <2>1. receipt_ok' \in BOOLEAN
    BY <1>9 DEF ReceiptDiverges
  <2> QED
    BY <1>9, <2>1 DEF ReceiptDiverges
<1>10. CASE PushSucceeds
  BY <1>10, EventsAreEvents DEF PushSucceeds, HasRoom
<1>11. CASE PushRefused
  BY <1>11 DEF PushRefused
<1>12. CASE CloseEvents
  BY <1>12 DEF CloseEvents
<1>13. CASE ObserveHealth
  BY <1>13 DEF ObserveHealth, HealthyAfterGenerate
<1>14. CASE ConcludeError
  BY <1>14 DEF ConcludeError, ToPublish, Statuses
<1>15. CASE ConcludeCancelled
  BY <1>15 DEF ConcludeCancelled
<1>16. CASE ConcludeStream
  BY <1>16, EventsAreEvents DEF ConcludeStream, UsageEvent, DoneEvent
<1>17. CASE ConcludeResponse
  BY <1>17 DEF ConcludeResponse, SetResponse, Statuses
<1>18. CASE PublishResponse
  BY <1>18 DEF PublishResponse, SetResponse, Statuses
<1>19. CASE PublishEarlyError
  BY <1>19 DEF PublishEarlyError, SetResponse, Statuses, NotStarted
<1>20. CASE PublishErrorEvent
  BY <1>20, EventsAreEvents DEF PublishErrorEvent, NotStarted, ErrorEvent
<1>21. CASE WorkerThrows
  <2>1. cancelled' \in BOOLEAN /\ event_stream_closed' \in BOOLEAN
    BY <1>21, ThrowFlags
  <2>4. caught' \in 0..2
    BY <1>21 DEF WorkerThrows, ToPublish, Statuses
  <2>5. error_status' \in Statuses /\ wpc' \in {"publish", "refresh"}
    BY <1>21 DEF WorkerThrows, ToPublish, Statuses
  <2> QED
    BY <1>21, <2>1, <2>4, <2>5 DEF WorkerThrows, ToPublish, Statuses
<1>22. CASE RefreshHealth
  BY <1>22 DEF RefreshHealth, HealthyAfterItem
<1>23. CASE WaitAborts
  BY <1>23 DEF WaitAborts, Abandon
<1>24. CASE WaitEnds
  BY <1>24 DEF WaitEnds
<1>25. CASE SendFixed
  <2>1. cancelled' \in BOOLEAN /\ send_failed' \in BOOLEAN
    BY <1>25, SendFlags
  <2>3. reply' \in Statuses
    BY <1>25 DEF SendFixed
  <2> QED
    BY <1>25, <2>1, <2>3 DEF SendFixed
<1>26. CASE SendHeaders
  <2>1. cancelled' \in BOOLEAN /\ send_failed' \in BOOLEAN
    BY <1>26, SendFlags
  <2>3. reply' \in Statuses /\ ipc' \in {"stream", "released"}
    BY <1>26 DEF SendHeaders, Abandon, Statuses
  <2> QED
    BY <1>26, <2>1, <2>3 DEF SendHeaders, Abandon, Statuses
<1>27. CASE StreamBlocks
  BY <1>27 DEF StreamBlocks
<1>28. CASE StreamAborts
  BY <1>28 DEF StreamAborts, Abandon
<1>29. CASE StreamPops
  BY <1>29 DEF StreamPops, Rest
<1>30. CASE SendChunk
  <2>1. cancelled' \in BOOLEAN /\ send_failed' \in BOOLEAN
    BY <1>30, SendFlags
  <2>3. sent' \in Seq(Event)
    BY <1>30, SendChunkSeqs DEF SendChunk, Abandon
  <2>4. inflight' \in Seq(Event)
    BY <1>30, SendChunkSeqs DEF SendChunk, Abandon
  <2>5. ipc' \in {"stream", "released"}
    BY <1>30 DEF SendChunk, Abandon
  <2> QED
    BY <1>30, <2>1, <2>3, <2>4, <2>5 DEF SendChunk, Abandon
<1>31. CASE StreamEnds
  <2>1. ended' \in BOOLEAN /\ send_failed' \in BOOLEAN
    BY <1>31, SendFlags
  <2> QED
    BY <1>31, <2>1 DEF StreamEnds, Abandon
<1>33. CASE IngressThrows
  BY <1>33 DEF IngressThrows
<1>32. CASE UNCHANGED vars
  BY <1>32 DEF vars
<1> QED
  BY <1>1, <1>2, <1>3, <1>4, <1>5, <1>6, <1>7, <1>8, <1>9, <1>10, <1>11,
     <1>12, <1>13, <1>14, <1>15, <1>16, <1>17, <1>18, <1>19, <1>20, <1>21,
     <1>22, <1>23, <1>24, <1>25, <1>26, <1>27, <1>28, <1>29, <1>30, <1>31,
     <1>32, <1>33
  DEF Next, WorkerNext, IngressNext, Terminated

\* Only three actions touch the deque, the socket and what lies between.
LEMMA Quiet ==
    Next => \/ UNCHANGED <<events, pushed, sent, inflight>>
            \/ PushSucceeds \/ StreamPops \/ SendChunk
  BY DEF Next, WorkerNext, IngressNext, Terminated, vars, mailbox, engine, worker,
    ingress, socket, ambient, Stop, PeerDisconnects, BeginExecute, EngineStops,
    ObserveToken, EncodeToken, EncodeFails, EngineFails, ReceiptDiverges,
    PushRefused, CloseEvents, ObserveHealth, ConcludeError, ConcludeCancelled,
    ConcludeStream, ConcludeResponse, PublishResponse, PublishEarlyError,
    PublishErrorEvent, WorkerThrows, RefreshHealth, WaitAborts, WaitEnds,
    SendFixed, SendHeaders, StreamBlocks, StreamAborts, StreamEnds, IngressThrows

\* The hand-over keeps the order.
LEMMA NextFifo == IInv /\ [Next]_vars => StreamIsFifo'
<1> SUFFICES ASSUME IInv, [Next]_vars PROVE StreamIsFifo'
  OBVIOUS
<1>0. /\ events \in Seq(Event) /\ sent \in Seq(Event) /\ inflight \in Seq(Event)
      /\ pushed \in Seq(Event) /\ pend \in Event
      /\ sent \o inflight \in Seq(Event)
  BY DEF IInv, TypeOK
<1>1. CASE UNCHANGED <<events, pushed, sent, inflight>>
  BY <1>1 DEF IInv, StreamIsFifo
<1>2. CASE PushSucceeds
  <2>1. (sent \o inflight) \o Append(events, pend) = Append((sent \o inflight) \o events, pend)
    BY <1>0, AppendToConcat
  <2>2. StreamIsFifo'
    BY <1>2, <2>1 DEF PushSucceeds, IInv, StreamIsFifo, ingress, socket
  <2> QED BY <2>2
<1>3. CASE StreamPops
  <2>1. inflight = << >> /\ events # << >>
    BY <1>3 DEF StreamPops, IInv, Delivery
  <2>2. sent \o inflight = sent
    BY <1>0, <2>1
  <2>3. (sent \o <<Head(events)>>) \o Tail(events) = sent \o events
    BY <1>0, <2>1, HeadThenTail
  <2>4. StreamIsFifo'
    BY <1>3, <2>2, <2>3 DEF StreamPops, Rest, IInv, StreamIsFifo, socket
  <2> QED BY <2>4
<1>4. CASE SendChunk
  <2>1. CASE sent' = sent \o inflight /\ inflight' = << >>
    <3>1. (sent \o inflight) \o << >> = sent \o inflight
      BY <1>0
    <3> QED
      BY <1>4, <2>1, <3>1 DEF SendChunk, IInv, StreamIsFifo
  <2>2. CASE UNCHANGED <<sent, inflight>>
    BY <1>4, <2>2 DEF SendChunk, IInv, StreamIsFifo
  <2> QED BY <1>4, <2>1, <2>2 DEF SendChunk
<1>5. CASE UNCHANGED vars
  BY <1>5, <1>1 DEF vars, mailbox, ingress, socket
<1> QED BY <1>1, <1>2, <1>3, <1>4, <1>5, Quiet

\* Every step keeps the engine's progress and the bound on exceptions.
LEMMA NextProgress == IInv /\ [Next]_vars => Progress'
<1> SUFFICES ASSUME IInv, [Next]_vars PROVE Progress'
  OBVIOUS
<1> USE DEF IInv, Progress, TypeOK, UsageEvent, DoneEvent, ErrorEvent,
            mailbox, engine, worker, ingress, socket, ambient
<1>1. CASE Stop
  BY <1>1 DEF Stop
<1>2. CASE PeerDisconnects
  BY <1>2 DEF PeerDisconnects
<1>3. CASE BeginExecute
  BY <1>3 DEF BeginExecute, ToPublish, Statuses
<1>4. CASE EngineStops
  BY <1>4 DEF EngineStops
<1>5. CASE ObserveToken
  BY <1>5 DEF ObserveToken, GenAfter
<1>6. CASE EncodeToken
  BY <1>6 DEF EncodeToken, GenAfter, FinishReason, FinishReasons, TokenEvent
<1>7. CASE EncodeFails
  BY <1>7 DEF EncodeFails
<1>8. CASE EngineFails
  BY <1>8 DEF EngineFails
<1>9. CASE ReceiptDiverges
  BY <1>9 DEF ReceiptDiverges
<1>10. CASE PushSucceeds
  BY <1>10 DEF PushSucceeds, HasRoom
<1>11. CASE PushRefused
  BY <1>11 DEF PushRefused
<1>12. CASE CloseEvents
  BY <1>12 DEF CloseEvents
<1>13. CASE ObserveHealth
  BY <1>13 DEF ObserveHealth, HealthyAfterGenerate
<1>14. CASE ConcludeError
  BY <1>14 DEF ConcludeError, ToPublish, Statuses
<1>15. CASE ConcludeCancelled
  BY <1>15 DEF ConcludeCancelled
<1>16. CASE ConcludeStream
  BY <1>16 DEF ConcludeStream, UsageEvent, DoneEvent
<1>17. CASE ConcludeResponse
  BY <1>17 DEF ConcludeResponse, SetResponse, Statuses
<1>18. CASE PublishResponse
  BY <1>18 DEF PublishResponse, SetResponse, Statuses
<1>19. CASE PublishEarlyError
  BY <1>19 DEF PublishEarlyError, SetResponse, Statuses, NotStarted
<1>20. CASE PublishErrorEvent
  BY <1>20 DEF PublishErrorEvent, NotStarted, ErrorEvent
<1>21. CASE WorkerThrows
  BY <1>21 DEF WorkerThrows, ToPublish, Statuses
<1>22. CASE RefreshHealth
  BY <1>22 DEF RefreshHealth, HealthyAfterItem
<1>23. CASE WaitAborts
  BY <1>23 DEF WaitAborts, Abandon
<1>24. CASE WaitEnds
  BY <1>24 DEF WaitEnds
<1>25. CASE SendFixed
  BY <1>25 DEF SendFixed
<1>26. CASE SendHeaders
  BY <1>26 DEF SendHeaders, Abandon, Statuses
<1>27. CASE StreamBlocks
  BY <1>27 DEF StreamBlocks
<1>28. CASE StreamAborts
  BY <1>28 DEF StreamAborts, Abandon
<1>29. CASE StreamPops
  BY <1>29 DEF StreamPops, Rest
<1>30. CASE SendChunk
  BY <1>30 DEF SendChunk, Abandon
<1>31. CASE StreamEnds
  BY <1>31 DEF StreamEnds, Abandon
<1>33. CASE IngressThrows
  BY <1>33 DEF IngressThrows
<1>32. CASE UNCHANGED vars
  BY <1>32 DEF vars
<1> QED
  BY <1>1, <1>2, <1>3, <1>4, <1>5, <1>6, <1>7, <1>8, <1>9, <1>10, <1>11,
     <1>12, <1>13, <1>14, <1>15, <1>16, <1>17, <1>18, <1>19, <1>20, <1>21,
     <1>22, <1>23, <1>24, <1>25, <1>26, <1>27, <1>28, <1>29, <1>30, <1>31,
     <1>32, <1>33
  DEF Next, WorkerNext, IngressNext, Terminated

\* What is in neither a sequence nor the appended element is not in the result.
LEMMA AppendAvoids ==
    ASSUME NEW S, NEW s \in Seq(S), NEW e \in S, NEW d, e # d,
           \A i \in 1..Len(s) : s[i] # d
    PROVE  \A i \in 1..Len(Append(s, e)) : Append(s, e)[i] # d
  OBVIOUS

\* A success is only started after the revalidation of the receipt.
LEMMA NextVerdict == IInv /\ [Next]_vars => Verdict'
<1> SUFFICES ASSUME IInv, [Next]_vars PROVE Verdict'
  OBVIOUS
<1> USE DEF IInv, Progress, Succeeding, Verdict, TypeOK, mailbox, engine,
            worker, ingress, socket, ambient
<1>1. CASE Stop
  BY <1>1 DEF Stop
<1>2. CASE PeerDisconnects
  BY <1>2 DEF PeerDisconnects
<1>3. CASE BeginExecute
  BY <1>3 DEF BeginExecute, ToPublish, Statuses
<1>4. CASE EngineStops
  BY <1>4 DEF EngineStops
<1>5. CASE ObserveToken
  BY <1>5 DEF ObserveToken, GenAfter
<1>6. CASE EncodeToken
  BY <1>6 DEF EncodeToken, GenAfter, FinishReason, FinishReasons, TokenEvent
<1>7. CASE EncodeFails
  BY <1>7 DEF EncodeFails
<1>8. CASE EngineFails
  BY <1>8 DEF EngineFails
<1>9. CASE ReceiptDiverges
  BY <1>9 DEF ReceiptDiverges
<1>10. CASE PushSucceeds
  <2>1. /\ ~response_ready /\ stream_start # "EarlyError"
        /\ \A i \in 1..Len(pushed) : pushed[i] # DoneEvent
    BY <1>10 DEF PushSucceeds
  <2>2. pushed' = Append(pushed, pend) /\ pushed \in Seq(Event) /\ pend \in Event
    BY <1>10 DEF PushSucceeds
  <2>3. CASE pend.kind \in {"token", "error"}
    <3>1. pend # DoneEvent
      BY <2>3 DEF DoneEvent
    <3>2. \A i \in 1..Len(pushed') : pushed'[i] # DoneEvent
      BY <2>1, <2>2, <3>1, AppendAvoids, SMT
    <3> QED
      BY <1>10, <2>1, <2>3, <3>2 DEF PushSucceeds
  <2>4. CASE pend.kind = "usage"
    <3>1. pend # DoneEvent
      BY <2>4 DEF DoneEvent
    <3>2. \A i \in 1..Len(pushed') : pushed'[i] # DoneEvent
      BY <2>1, <2>2, <3>1, AppendAvoids, SMT
    <3> QED
      BY <1>10, <2>1, <2>4, <3>2 DEF PushSucceeds
  <2>5. CASE pend.kind = "done"
    BY <1>10, <2>1, <2>5 DEF PushSucceeds
  <2>6. pend.kind \in {"token", "usage", "done", "error"}
    BY <1>10 DEF PushSucceeds, Event
  <2> QED
    BY <2>3, <2>4, <2>5, <2>6, Zenon
<1>11. CASE PushRefused
  BY <1>11 DEF PushRefused
<1>12. CASE CloseEvents
  BY <1>12 DEF CloseEvents
<1>13. CASE ObserveHealth
  BY <1>13 DEF ObserveHealth, HealthyAfterGenerate
<1>14. CASE ConcludeError
  BY <1>14 DEF ConcludeError, ToPublish, Statuses
<1>15. CASE ConcludeCancelled
  BY <1>15 DEF ConcludeCancelled
<1>16. CASE ConcludeStream
  BY <1>16 DEF ConcludeStream, UsageEvent, DoneEvent
<1>17. CASE ConcludeResponse
  BY <1>17 DEF ConcludeResponse, SetResponse, Statuses
<1>18. CASE PublishResponse
  BY <1>18 DEF PublishResponse, SetResponse, Statuses
<1>19. CASE PublishEarlyError
  BY <1>19 DEF PublishEarlyError, SetResponse, Statuses, NotStarted
<1>20. CASE PublishErrorEvent
  BY <1>20 DEF PublishErrorEvent, NotStarted, ErrorEvent
<1>21. CASE WorkerThrows
  BY <1>21 DEF WorkerThrows, ToPublish, Statuses
<1>22. CASE RefreshHealth
  BY <1>22 DEF RefreshHealth, HealthyAfterItem
<1>23. CASE WaitAborts
  BY <1>23 DEF WaitAborts, Abandon
<1>24. CASE WaitEnds
  BY <1>24 DEF WaitEnds
<1>25. CASE SendFixed
  BY <1>25 DEF SendFixed
<1>26. CASE SendHeaders
  BY <1>26 DEF SendHeaders, Abandon, Statuses
<1>27. CASE StreamBlocks
  BY <1>27 DEF StreamBlocks
<1>28. CASE StreamAborts
  BY <1>28 DEF StreamAborts, Abandon
<1>29. CASE StreamPops
  BY <1>29 DEF StreamPops, Rest
<1>30. CASE SendChunk
  BY <1>30 DEF SendChunk, Abandon
<1>31. CASE StreamEnds
  BY <1>31 DEF StreamEnds, Abandon
<1>33. CASE IngressThrows
  BY <1>33 DEF IngressThrows
<1>32. CASE UNCHANGED vars
  BY <1>32 DEF vars
<1> QED
  BY <1>1, <1>2, <1>3, <1>4, <1>5, <1>6, <1>7, <1>8, <1>9, <1>10, <1>11,
     <1>12, <1>13, <1>14, <1>15, <1>16, <1>17, <1>18, <1>19, <1>20, <1>21,
     <1>22, <1>23, <1>24, <1>25, <1>26, <1>27, <1>28, <1>29, <1>30, <1>31,
     <1>32, <1>33
  DEF Next, WorkerNext, IngressNext, Terminated

\* Every step keeps the one kind of answer the mailbox holds.
LEMMA NextAnswer == IInv /\ [Next]_vars => Answer'
<1> SUFFICES ASSUME IInv, [Next]_vars PROVE Answer'
  OBVIOUS
<1> USE DEF IInv, Progress, Answer, Verdict, TypeOK, mailbox, engine, worker,
            ingress, socket, ambient
<1>1. CASE Stop
  BY <1>1 DEF Stop
<1>2. CASE PeerDisconnects
  BY <1>2 DEF PeerDisconnects
<1>3. CASE BeginExecute
  BY <1>3 DEF BeginExecute, ToPublish, Statuses
<1>4. CASE EngineStops
  BY <1>4 DEF EngineStops
<1>5. CASE ObserveToken
  BY <1>5 DEF ObserveToken, GenAfter
<1>6. CASE EncodeToken
  BY <1>6 DEF EncodeToken, GenAfter, FinishReason, FinishReasons, TokenEvent
<1>7. CASE EncodeFails
  BY <1>7 DEF EncodeFails
<1>8. CASE EngineFails
  BY <1>8 DEF EngineFails
<1>9. CASE ReceiptDiverges
  BY <1>9 DEF ReceiptDiverges
<1>10. CASE PushSucceeds
  BY <1>10 DEF PushSucceeds, HasRoom
<1>11. CASE PushRefused
  BY <1>11 DEF PushRefused
<1>12. CASE CloseEvents
  BY <1>12 DEF CloseEvents
<1>13. CASE ObserveHealth
  BY <1>13 DEF ObserveHealth, HealthyAfterGenerate
<1>14. CASE ConcludeError
  BY <1>14 DEF ConcludeError, ToPublish, Statuses
<1>15. CASE ConcludeCancelled
  BY <1>15 DEF ConcludeCancelled
<1>16. CASE ConcludeStream
  BY <1>16 DEF ConcludeStream, UsageEvent, DoneEvent
<1>17. CASE ConcludeResponse
  BY <1>17 DEF ConcludeResponse, SetResponse, Statuses
<1>18. CASE PublishResponse
  BY <1>18 DEF PublishResponse, SetResponse, Statuses
<1>19. CASE PublishEarlyError
  BY <1>19 DEF PublishEarlyError, SetResponse, Statuses, NotStarted
<1>20. CASE PublishErrorEvent
  BY <1>20 DEF PublishErrorEvent, NotStarted, ErrorEvent
<1>21. CASE WorkerThrows
  BY <1>21 DEF WorkerThrows, ToPublish, Statuses
<1>22. CASE RefreshHealth
  BY <1>22 DEF RefreshHealth, HealthyAfterItem
<1>23. CASE WaitAborts
  BY <1>23 DEF WaitAborts, Abandon
<1>24. CASE WaitEnds
  BY <1>24 DEF WaitEnds
<1>25. CASE SendFixed
  BY <1>25 DEF SendFixed
<1>26. CASE SendHeaders
  BY <1>26 DEF SendHeaders, Abandon, Statuses
<1>27. CASE StreamBlocks
  BY <1>27 DEF StreamBlocks
<1>28. CASE StreamAborts
  BY <1>28 DEF StreamAborts, Abandon
<1>29. CASE StreamPops
  BY <1>29 DEF StreamPops, Rest
<1>30. CASE SendChunk
  BY <1>30 DEF SendChunk, Abandon
<1>31. CASE StreamEnds
  BY <1>31 DEF StreamEnds, Abandon
<1>33. CASE IngressThrows
  BY <1>33 DEF IngressThrows
<1>32. CASE UNCHANGED vars
  BY <1>32 DEF vars
<1> QED
  BY <1>1, <1>2, <1>3, <1>4, <1>5, <1>6, <1>7, <1>8, <1>9, <1>10, <1>11,
     <1>12, <1>13, <1>14, <1>15, <1>16, <1>17, <1>18, <1>19, <1>20, <1>21,
     <1>22, <1>23, <1>24, <1>25, <1>26, <1>27, <1>28, <1>29, <1>30, <1>31,
     <1>32, <1>33
  DEF Next, WorkerNext, IngressNext, Terminated

\* Every step keeps what the ingress thread has in its hand and has sent.
LEMMA NextDelivery == IInv /\ [Next]_vars => Delivery'
<1> SUFFICES ASSUME IInv, [Next]_vars PROVE Delivery'
  OBVIOUS
<1> USE DEF IInv, Delivery, TypeOK, mailbox, engine, worker, ingress, socket,
            ambient
<1>1. CASE Stop
  BY <1>1 DEF Stop
<1>2. CASE PeerDisconnects
  BY <1>2 DEF PeerDisconnects
<1>3. CASE BeginExecute
  BY <1>3 DEF BeginExecute, ToPublish, Statuses
<1>4. CASE EngineStops
  BY <1>4 DEF EngineStops
<1>5. CASE ObserveToken
  BY <1>5 DEF ObserveToken, GenAfter
<1>6. CASE EncodeToken
  BY <1>6 DEF EncodeToken, GenAfter, FinishReason, FinishReasons, TokenEvent
<1>7. CASE EncodeFails
  BY <1>7 DEF EncodeFails
<1>8. CASE EngineFails
  BY <1>8 DEF EngineFails
<1>9. CASE ReceiptDiverges
  BY <1>9 DEF ReceiptDiverges
<1>10. CASE PushSucceeds
  BY <1>10 DEF PushSucceeds, HasRoom
<1>11. CASE PushRefused
  BY <1>11 DEF PushRefused
<1>12. CASE CloseEvents
  BY <1>12 DEF CloseEvents
<1>13. CASE ObserveHealth
  BY <1>13 DEF ObserveHealth, HealthyAfterGenerate
<1>14. CASE ConcludeError
  BY <1>14 DEF ConcludeError, ToPublish, Statuses
<1>15. CASE ConcludeCancelled
  BY <1>15 DEF ConcludeCancelled
<1>16. CASE ConcludeStream
  BY <1>16 DEF ConcludeStream, UsageEvent, DoneEvent
<1>17. CASE ConcludeResponse
  BY <1>17 DEF ConcludeResponse, SetResponse, Statuses
<1>18. CASE PublishResponse
  BY <1>18 DEF PublishResponse, SetResponse, Statuses
<1>19. CASE PublishEarlyError
  BY <1>19 DEF PublishEarlyError, SetResponse, Statuses, NotStarted
<1>20. CASE PublishErrorEvent
  BY <1>20 DEF PublishErrorEvent, NotStarted, ErrorEvent
<1>21. CASE WorkerThrows
  BY <1>21 DEF WorkerThrows, ToPublish, Statuses
<1>22. CASE RefreshHealth
  BY <1>22 DEF RefreshHealth, HealthyAfterItem
<1>23. CASE WaitAborts
  BY <1>23 DEF WaitAborts, Abandon
<1>24. CASE WaitEnds
  BY <1>24 DEF WaitEnds
<1>25. CASE SendFixed
  BY <1>25 DEF SendFixed
<1>26. CASE SendHeaders
  BY <1>26 DEF SendHeaders, Abandon, Statuses
<1>27. CASE StreamBlocks
  BY <1>27 DEF StreamBlocks
<1>28. CASE StreamAborts
  BY <1>28 DEF StreamAborts, Abandon
<1>29. CASE StreamPops
  BY <1>29 DEF StreamPops, Rest
<1>30. CASE SendChunk
  BY <1>30 DEF SendChunk, Abandon
<1>31. CASE StreamEnds
  BY <1>31 DEF StreamEnds, Abandon
<1>33. CASE IngressThrows
  BY <1>33 DEF IngressThrows
<1>32. CASE UNCHANGED vars
  BY <1>32 DEF vars
<1> QED
  BY <1>1, <1>2, <1>3, <1>4, <1>5, <1>6, <1>7, <1>8, <1>9, <1>10, <1>11,
     <1>12, <1>13, <1>14, <1>15, <1>16, <1>17, <1>18, <1>19, <1>20, <1>21,
     <1>22, <1>23, <1>24, <1>25, <1>26, <1>27, <1>28, <1>29, <1>30, <1>31,
     <1>32, <1>33
  DEF Next, WorkerNext, IngressNext, Terminated

\* The strengthened invariant holds of every reachable state.
THEOREM JobInvariant == Spec => []IInv
<1>1. IInv /\ [Next]_vars => IInv'
  BY NextTypeOK, NextFifo, NextProgress, NextVerdict, NextAnswer, NextDelivery
  DEF IInv
<1> QED
  BY InitIInv, <1>1, PTL DEF Spec

\* The mailbox, the two threads and the socket keep their types.
THEOREM JobTypeCorrect == Spec => []TypeOK
<1>1. IInv => TypeOK
  BY DEF IInv
<1> QED
  BY JobInvariant, <1>1, PTL

\* For every capacity and every length: what the client was sent, the event
\* in flight and the deque are together what the worker pushed, in order.
THEOREM JobStreamIsFifo == Spec => []StreamIsFifo
<1>1. IInv => StreamIsFifo
  BY DEF IInv
<1> QED
  BY JobInvariant, <1>1, PTL

\* A success is only published for a complete generation whose receipt still
\* matched.
THEOREM JobSuccessIsSound == Spec => []SuccessIsSound
<1>1. IInv => SuccessIsSound
  BY DEF IInv, Verdict, Succeeding, SuccessIsSound
<1> QED
  BY JobInvariant, <1>1, PTL

\* An error response and a stream exclude each other.
THEOREM JobOneKindOfAnswer == Spec => []OneKindOfAnswer
<1>1. IInv => OneKindOfAnswer
  BY DEF IInv, Answer, Delivery, OneKindOfAnswer
<1> QED
  BY JobInvariant, <1>1, PTL

-----------------------------------------------------------------------------
(***************************************************************************)
(* The shape of the stream.  Frontier says, for every place the worker can *)
(* be in, which event it pushed last.                                      *)
(***************************************************************************)
\* The last event pushed.
Last == pushed[Len(pushed)]

\* The last event is the i-th token, and more are expected.
OpenAt(i) ==
    \/ i = 0 /\ pushed = << >>
    \/ /\ pushed # << >>
       /\ Last.kind = "token" /\ Last.index = i /\ Last.finish = "none"

\* The last event is the token that carries the finish reason.
Finished == pushed # << >> /\ Last.kind = "token" /\ Last.finish # "none"

\* For every place of the worker, what it pushed last.
Frontier ==
    /\ wpc = "queued" => pushed = << >>
    /\ wpc = "generate" /\ request.stream => OpenAt(token)
    /\ wpc = "push" /\ pend.kind = "token" =>
          /\ token \in Nat \ {0} /\ pend.index = token /\ OpenAt(token - 1)
          /\ pend.finish = "none" <=> gen = "none"
    /\ wpc = "push" /\ pend.kind = "usage" => Finished
    /\ wpc = "push" /\ pend.kind = "done" =>
          Finished \/ (pushed # << >> /\ Last.kind = "usage")
    /\ wpc = "push" /\ pend.kind = "error" =>
          pushed # << >> /\ Last.kind \in {"token", "usage"}
    /\ wpc \in {"observe", "conclude"} /\ pushed # << >> => Last.kind = "token"
    /\ wpc \in {"observe", "conclude"} /\ gen = "ok" /\ request.stream => Finished
    /\ wpc = "publish" /\ pushed # << >> => Last.kind \in {"token", "usage"}

\* Nothing has been pushed at first.
LEMMA InitFrontier == Init => Frontier /\ StreamWellFormed
  BY DEF Init, Frontier, StreamWellFormed

\* The event the worker pushes may follow the last one.
LEMMA NextWellFormed ==
    IInv /\ Frontier /\ StreamWellFormed /\ [Next]_vars => StreamWellFormed'
<1> SUFFICES ASSUME IInv, Frontier, StreamWellFormed, [Next]_vars
             PROVE  StreamWellFormed'
  OBVIOUS
<1>1. CASE pushed' = pushed
  BY <1>1 DEF StreamWellFormed
<1>2. CASE PushSucceeds
  <2>0. pushed \in Seq(Event) /\ pend \in Event /\ Len(pushed) \in Nat
    BY DEF IInv, TypeOK
  <2>1. /\ Len(pushed') = Len(pushed) + 1
        /\ \A i \in 1..Len(pushed) : pushed'[i] = pushed[i]
        /\ pushed'[Len(pushed) + 1] = pend
    BY <1>2, <2>0, AppendProperties DEF PushSucceeds
  <2>2. pend.kind \in {"token", "usage", "done", "error"}
    BY <1>2, <2>0 DEF PushSucceeds, IInv, Progress, Event
  <2>3. CASE pushed = << >>
    <3>1. pend.kind = "token" /\ pend.index = 1
      BY <1>2, <2>2, <2>3 DEF PushSucceeds, Frontier, OpenAt, Finished
    <3>2. Len(pushed) = 0
      BY <2>3
    <3> QED
      BY <2>1, <3>1, <3>2 DEF StreamWellFormed
  <2>4. CASE pushed # << >>
    <3>1. Len(pushed) > 0
      BY <2>0, <2>4, EmptySeq
    <3>2. Follows(pushed[Len(pushed)], pend)
      <4>0. wpc = "push"
        BY <1>2 DEF PushSucceeds
      <4>1. CASE pend.kind = "token"
        <5>1. token \in Nat /\ pend.index = token /\ OpenAt(token - 1)
          BY <4>0, <4>1 DEF Frontier
        <5> QED
          BY <2>4, <4>1, <5>1 DEF OpenAt, Last, Follows
      <4>2. CASE pend.kind # "token"
        BY <2>2, <4>0, <4>2 DEF Frontier, Finished, Last, Follows
      <4> QED
        BY <4>1, <4>2
    <3>3. \A i \in 1..(Len(pushed') - 1) : Follows(pushed'[i], pushed'[i + 1])
      <4> SUFFICES ASSUME NEW i \in 1..Len(pushed)
                   PROVE  Follows(pushed'[i], pushed'[i + 1])
        BY <2>0, <2>1
      <4>1. CASE i = Len(pushed)
        BY <2>0, <2>1, <3>2, <4>1
      <4>2. CASE i < Len(pushed)
        <5>1. i \in 1..(Len(pushed) - 1) /\ i + 1 \in 1..Len(pushed)
          BY <2>0, <4>2
        <5> QED
          BY <2>1, <5>1 DEF StreamWellFormed
      <4> QED
        BY <2>0, <4>1, <4>2
    <3> QED
      BY <2>1, <2>4, <3>1, <3>3 DEF StreamWellFormed
  <2> QED
    BY <2>3, <2>4
<1>3. CASE UNCHANGED vars
  BY <1>1, <1>3 DEF vars
<1> QED
  BY <1>1, <1>2, <1>3, Quiet DEF StreamPops, SendChunk

\* Only the worker moves the frontier.
LEMMA FrontierQuiet ==
    Next => \/ UNCHANGED <<pushed, wpc, pend, token, gen, request>>
            \/ WorkerNext
  BY DEF Next, IngressNext, Terminated, vars, mailbox, engine, worker,
    ingress, socket, ambient, Stop, PeerDisconnects, WaitAborts, WaitEnds,
    SendFixed, SendHeaders, StreamBlocks, StreamAborts, StreamPops, SendChunk,
    StreamEnds, IngressThrows

\* Every step of the worker moves to the place its last event implies.
LEMMA NextFrontier == IInv /\ Frontier /\ [Next]_vars => Frontier'
<1> SUFFICES ASSUME IInv, Frontier, [Next]_vars PROVE Frontier'
  OBVIOUS
<1> USE DEF IInv, TypeOK, Progress, Answer, Frontier, OpenAt, Finished, Last,
            mailbox, engine, worker, ingress, socket, ambient
<1>1. CASE BeginExecute
  BY <1>1 DEF BeginExecute, ToPublish
<1>2. CASE EngineStops
  BY <1>2 DEF EngineStops
<1>3. CASE ObserveToken
  BY <1>3 DEF ObserveToken, GenAfter
<1>4. CASE EncodeToken
  BY <1>4 DEF EncodeToken, GenAfter, FinishReason, TokenEvent
<1>5. CASE EncodeFails
  BY <1>5 DEF EncodeFails
<1>6. CASE EngineFails
  BY <1>6 DEF EngineFails
<1>7. CASE ReceiptDiverges
  BY <1>7 DEF ReceiptDiverges
<1>8. CASE PushSucceeds
  <2>0. pushed \in Seq(Event) /\ pend \in Event /\ pushed' = Append(pushed, pend)
    BY <1>8 DEF PushSucceeds
  <2>1. /\ Len(pushed') = Len(pushed) + 1 /\ Len(pushed) \in Nat
        /\ pushed'[Len(pushed) + 1] = pend
        /\ pushed' # << >>
    BY ONLY <2>0, AppendProperties, LenProperties
  <2>2. Last' = pend
    BY <2>1
  <2>3. CASE pend.kind = "token"
    BY <1>8, <2>1, <2>2, <2>3 DEF PushSucceeds
  <2>4. CASE pend.kind = "usage"
    BY <1>8, <2>1, <2>2, <2>4 DEF PushSucceeds, DoneEvent
  <2>5. CASE pend.kind \notin {"token", "usage"}
    BY <1>8, <2>5 DEF PushSucceeds
  <2> QED
    BY <2>3, <2>4, <2>5
<1>9. CASE PushRefused
  BY <1>9 DEF PushRefused
<1>10. CASE CloseEvents
  BY <1>10 DEF CloseEvents
<1>11. CASE ObserveHealth
  BY <1>11 DEF ObserveHealth
<1>12. CASE ConcludeError
  BY <1>12 DEF ConcludeError, ToPublish
<1>13. CASE ConcludeCancelled
  BY <1>13 DEF ConcludeCancelled
<1>14. CASE ConcludeStream
  BY <1>14 DEF ConcludeStream, UsageEvent, DoneEvent
<1>15. CASE ConcludeResponse
  BY <1>15 DEF ConcludeResponse, SetResponse
<1>16. CASE PublishResponse
  BY <1>16 DEF PublishResponse, SetResponse
<1>17. CASE PublishEarlyError
  BY <1>17 DEF PublishEarlyError, SetResponse
<1>18. CASE PublishErrorEvent
  BY <1>18 DEF PublishErrorEvent, NotStarted, ErrorEvent, Verdict
<1>19. CASE WorkerThrows
  BY <1>19 DEF WorkerThrows, ToPublish
<1>20. CASE RefreshHealth
  BY <1>20 DEF RefreshHealth
<1>21. CASE UNCHANGED <<pushed, wpc, pend, token, gen, request>>
  BY <1>21
<1>22. CASE UNCHANGED vars
  BY <1>21, <1>22 DEF vars
<1> QED
  BY <1>1, <1>2, <1>3, <1>4, <1>5, <1>6, <1>7, <1>8, <1>9, <1>10, <1>11,
     <1>12, <1>13, <1>14, <1>15, <1>16, <1>17, <1>18, <1>19, <1>20, <1>21,
     <1>22, FrontierQuiet
  DEF WorkerNext

\* For every capacity and every length the pushed events begin a well-formed
\* stream: tokens without a gap, one finish reason, [DONE] only after it.
THEOREM JobStreamWellFormed == Spec => []StreamWellFormed
<1>1. IInv /\ Frontier /\ StreamWellFormed /\ [Next]_vars
         => (Frontier /\ StreamWellFormed)'
  BY NextFrontier, NextWellFormed
<1> QED
  BY JobInvariant, InitFrontier, <1>1, PTL DEF Spec
-----------------------------------------------------------------------------
(***************************************************************************)
(* The answer is whole.                                                    *)
(***************************************************************************)
\* Nothing happened that excuses the server from answering.
Calm == ~peer_gone /\ ~stopping /\ ~send_failed /\ caught < 2

\* A stream that ends as a client expects it to.
Complete(s) == s # << >> /\ s[Len(s)].kind \in {"done", "error"}

Over == {"refresh", "finished"}

\* On a calm connection the worker is never interrupted, closes the events only
\* behind a complete stream or a response, and is let go by the ingress thread
\* only when its answer is out.
Whole ==
    /\ cancelled => ipc = "released"
    /\ ipc = "released" => wpc \in Over
    /\ wpc = "close" => Complete(pushed)
    /\ event_stream_closed => response_ready \/ Complete(pushed)
    /\ gen = "cancelled" => protocol_failure
    /\ ipc = "released" =>
         /\ reply # 0
         /\ sent # << >> => ended /\ Complete(sent)

\* What holds on every connection.
Replies ==
    /\ event_stream_closed => wpc \in Over
    /\ stream_start = "EarlyError" => response_ready
    /\ response_status # 0
    /\ ipc = "fixed" => response_ready

\* The part of the inductive invariant that the complete answer needs.
AnswerInv == Replies /\ (Calm => Whole)

\* Appending a last event completes a stream.
LEMMA AppendCompletes ==
    ASSUME NEW s \in Seq(Event), NEW e \in Event
    PROVE  Complete(Append(s, e)) <=> e.kind \in {"done", "error"}
<1>1. Append(s, e) # << >> /\ Append(s, e)[Len(Append(s, e))] = e
  OBVIOUS
<1> QED
  BY <1>1 DEF Complete

\* What is true of every connection stays true.
LEMMA NextReplies == IInv /\ AnswerInv /\ [Next]_vars => Replies'
<1> SUFFICES ASSUME IInv, AnswerInv, [Next]_vars PROVE Replies'
  OBVIOUS
<1> USE DEF IInv, AnswerInv, Replies, Progress, TypeOK, Over, mailbox, worker, ingress, socket, ambient
<1>1. CASE Stop
  BY <1>1 DEF Stop
<1>2. CASE PeerDisconnects
  BY <1>2 DEF PeerDisconnects
<1>3. CASE BeginExecute
  BY <1>3 DEF BeginExecute, ToPublish
<1>4. CASE EngineStops
  BY <1>4 DEF EngineStops, Interrupted
<1>5. CASE ObserveToken
  BY <1>5 DEF ObserveToken, GenAfter
<1>6. CASE EncodeToken
  BY <1>6 DEF EncodeToken, GenAfter
<1>7. CASE EncodeFails
  BY <1>7 DEF EncodeFails
<1>8. CASE EngineFails
  BY <1>8 DEF EngineFails
<1>9. CASE ReceiptDiverges
  BY <1>9 DEF ReceiptDiverges
<1>10. CASE PushSucceeds
  BY <1>10 DEF PushSucceeds
<1>11. CASE PushRefused
  BY <1>11 DEF PushRefused, Interrupted
<1>12. CASE CloseEvents
  BY <1>12 DEF CloseEvents
<1>13. CASE ObserveHealth
  BY <1>13 DEF ObserveHealth
<1>14. CASE ConcludeError
  BY <1>14 DEF ConcludeError, ToPublish
<1>15. CASE ConcludeCancelled
  BY <1>15 DEF ConcludeCancelled, Interrupted
<1>16. CASE ConcludeStream
  BY <1>16 DEF ConcludeStream
<1>17. CASE ConcludeResponse
  BY <1>17 DEF ConcludeResponse, SetResponse
<1>18. CASE PublishResponse
  BY <1>18 DEF PublishResponse, SetResponse
<1>19. CASE PublishEarlyError
  BY <1>19 DEF PublishEarlyError, SetResponse
<1>20. CASE PublishErrorEvent
  BY <1>20 DEF PublishErrorEvent
<1>21. CASE WorkerThrows
  BY <1>21 DEF WorkerThrows, ToPublish
<1>22. CASE RefreshHealth
  BY <1>22 DEF RefreshHealth
<1>23. CASE WaitAborts
  BY <1>23 DEF WaitAborts, Interrupted, Abandon
<1>24. CASE WaitEnds
  BY <1>24 DEF WaitEnds, ResultVisible
<1>25. CASE SendFixed
  BY <1>25 DEF SendFixed
<1>26. CASE SendHeaders
  BY <1>26 DEF SendHeaders, Abandon
<1>27. CASE StreamBlocks
  BY <1>27 DEF StreamBlocks
<1>28. CASE StreamAborts
  BY <1>28 DEF StreamAborts, Abandon
<1>29. CASE StreamPops
  BY <1>29 DEF StreamPops
<1>30. CASE SendChunk
  BY <1>30 DEF SendChunk, Abandon
<1>31. CASE StreamEnds
  BY <1>31 DEF StreamEnds, Abandon
<1>32. CASE IngressThrows
  BY <1>32 DEF IngressThrows
<1>33. CASE UNCHANGED vars
  BY <1>33 DEF vars
<1> QED
  BY <1>1, <1>2, <1>3, <1>4, <1>5, <1>6, <1>7, <1>8, <1>9, <1>10, <1>11,
     <1>12, <1>13, <1>14, <1>15, <1>16, <1>17, <1>18, <1>19, <1>20, <1>21,
     <1>22, <1>23, <1>24, <1>25, <1>26, <1>27, <1>28, <1>29, <1>30, <1>31,
     <1>32, <1>33
  DEF Next, WorkerNext, IngressNext, Terminated

\* A calm connection was calm before.
LEMMA CalmBefore == IInv /\ [Next]_vars /\ Calm' => Calm
<1> SUFFICES ASSUME IInv, [Next]_vars, ~Calm PROVE ~Calm'
  OBVIOUS
<1>1. /\ (peer_gone => peer_gone')
      /\ (stopping => stopping')
      /\ (send_failed => send_failed')
      /\ (caught' = caught \/ caught' = caught + 1)
  BY DEF Next, WorkerNext, IngressNext, Terminated, vars, mailbox, engine, worker, ingress, socket,
    ambient, Stop, PeerDisconnects, BeginExecute, EngineStops, ObserveToken, EncodeToken,
    EncodeFails, EngineFails, ReceiptDiverges, PushSucceeds, PushRefused, CloseEvents,
    ObserveHealth, ConcludeError, ConcludeCancelled, ConcludeStream, ConcludeResponse,
    PublishResponse, PublishEarlyError, PublishErrorEvent, WorkerThrows, RefreshHealth,
    WaitAborts, WaitEnds, SendFixed, SendHeaders, StreamBlocks, StreamAborts, StreamPops,
    SendChunk, StreamEnds, IngressThrows
<1> QED
  BY <1>1 DEF Calm, IInv, TypeOK

\* On a calm connection every step keeps the answer whole.
LEMMA NextWhole == IInv /\ AnswerInv /\ [Next]_vars /\ Calm' => Whole'
<1> SUFFICES ASSUME IInv, AnswerInv, [Next]_vars, Calm' PROVE Whole'
  OBVIOUS
<1>0. /\ Calm /\ Whole /\ Replies /\ ~stopping /\ ~peer_gone /\ ~stopping' /\ ~peer_gone'
      /\ ~send_failed' /\ (wpc \notin Over => ~cancelled)
      /\ (ipc # "released" => ~cancelled)
  BY CalmBefore DEF AnswerInv, Calm, Whole
<1> USE DEF Whole, Over, mailbox, engine, worker, ingress, socket, ambient
<1>1. CASE Stop
  BY <1>0, <1>1 DEF Stop, Replies, Calm, IInv, TypeOK, Progress
<1>2. CASE PeerDisconnects
  BY <1>0, <1>2 DEF PeerDisconnects, Replies, Calm, IInv, TypeOK, Progress
<1>3. CASE BeginExecute
  BY <1>0, <1>3 DEF BeginExecute, ToPublish, Replies, Calm, IInv, TypeOK, Progress
<1>4. CASE EngineStops
  BY <1>0, <1>4 DEF EngineStops, Interrupted, Replies, Calm, IInv, TypeOK, Progress
<1>5. CASE ObserveToken
  BY <1>0, <1>5 DEF ObserveToken, GenAfter, Replies, Calm, IInv, TypeOK, Progress
<1>6. CASE EncodeToken
  BY <1>0, <1>6 DEF EncodeToken, GenAfter, Replies, Calm, IInv, TypeOK, Progress
<1>7. CASE EncodeFails
  BY <1>0, <1>7 DEF EncodeFails, Replies, Calm, IInv, TypeOK, Progress
<1>8. CASE EngineFails
  BY <1>0, <1>8 DEF EngineFails, Replies, Calm, IInv, TypeOK, Progress
<1>9. CASE ReceiptDiverges
  BY <1>0, <1>9 DEF ReceiptDiverges, Replies, Calm, IInv, TypeOK, Progress
<1>10. CASE PushSucceeds
  <2>1. wpc' = "close" => pend.kind \in {"done", "error"}
    BY <1>10 DEF PushSucceeds, IInv, TypeOK, Progress, Event
  <2>2. wpc' = "close" => Complete(pushed')
    BY <1>10, <2>1, AppendCompletes DEF PushSucceeds, IInv, TypeOK
  <2>3. ~event_stream_closed' /\ ipc' = ipc /\ ipc # "released"
    BY <1>0, <1>10 DEF PushSucceeds, Replies
  <2> QED
    BY <1>0, <1>10, <2>2, <2>3 DEF PushSucceeds
<1>11. CASE PushRefused
  BY <1>0, <1>11 DEF PushRefused, Interrupted, Replies, Calm, IInv, TypeOK, Progress
<1>12. CASE CloseEvents
  BY <1>0, <1>12 DEF CloseEvents, Replies, Calm, IInv, TypeOK, Progress
<1>13. CASE ObserveHealth
  BY <1>0, <1>13 DEF ObserveHealth, Replies, Calm, IInv, TypeOK, Progress
<1>14. CASE ConcludeError
  BY <1>0, <1>14 DEF ConcludeError, ToPublish, Replies, Calm, IInv, TypeOK, Progress
<1>15. CASE ConcludeCancelled
  BY <1>0, <1>15 DEF ConcludeCancelled, Interrupted, Replies, Calm, IInv, TypeOK, Progress
<1>16. CASE ConcludeStream
  BY <1>0, <1>16 DEF ConcludeStream, Replies, Calm, IInv, TypeOK, Progress
<1>17. CASE ConcludeResponse
  BY <1>0, <1>17 DEF ConcludeResponse, SetResponse, Replies, Calm, IInv, TypeOK, Progress
<1>18. CASE PublishResponse
  BY <1>0, <1>18 DEF PublishResponse, SetResponse, Replies, Calm, IInv, TypeOK, Progress
<1>19. CASE PublishEarlyError
  BY <1>0, <1>19 DEF PublishEarlyError, SetResponse, Replies, Calm, IInv, TypeOK, Progress
<1>20. CASE PublishErrorEvent
  BY <1>0, <1>20 DEF PublishErrorEvent, Replies, Calm, IInv, TypeOK, Progress
<1>21. CASE WorkerThrows
  BY <1>0, <1>21 DEF WorkerThrows, ToPublish, Replies, Calm, IInv, TypeOK, Progress
<1>22. CASE RefreshHealth
  BY <1>0, <1>22 DEF RefreshHealth, Replies, Calm, IInv, TypeOK, Progress
<1>23. CASE WaitAborts
  BY <1>0, <1>23 DEF WaitAborts, Interrupted, Abandon, Replies, Calm, IInv, TypeOK, Progress
<1>24. CASE WaitEnds
  <2>1. ipc' # "released"
    <3>1. Complete(pushed) => stream_start = "Success"
      BY DEF IInv, Answer, Complete
    <3> QED
      BY <1>0, <1>24, <3>1 DEF WaitEnds, ResultVisible, Replies, IInv, TypeOK
  <2> QED
    BY <1>0, <1>24, <2>1 DEF WaitEnds
<1>25. CASE SendFixed
  <2>1. sent = << >> /\ response_ready /\ response_status # 0 /\ wpc \in Over
    BY <1>0, <1>25 DEF SendFixed, IInv, Delivery, Replies, Verdict
  <2>2. reply' = response_status
    BY <1>0, <1>25 DEF SendFixed
  <2> QED
    BY <1>0, <1>25, <2>1, <2>2 DEF SendFixed
<1>26. CASE SendHeaders
  BY <1>0, <1>26 DEF SendHeaders, Abandon, Replies, Calm, IInv, TypeOK, Progress
<1>27. CASE StreamBlocks
  BY <1>0, <1>27 DEF StreamBlocks, Replies, Calm, IInv, TypeOK, Progress
<1>28. CASE StreamAborts
  BY <1>0, <1>28 DEF StreamAborts, Abandon, Replies, Calm, IInv, TypeOK, Progress
<1>29. CASE StreamPops
  BY <1>0, <1>29 DEF StreamPops, Replies, Calm, IInv, TypeOK, Progress
<1>30. CASE SendChunk
  BY <1>0, <1>30 DEF SendChunk, Abandon, Replies, Calm, IInv, TypeOK, Progress
<1>31. CASE StreamEnds
  <2>1. events = << >> /\ event_stream_closed /\ inflight = << >> /\ reply = 200
    BY <1>31 DEF StreamEnds, IInv, Delivery
  <2>2. pushed = sent
    BY <2>1 DEF IInv, StreamIsFifo, TypeOK
  <2>3. sent # << >> => Complete(sent)
    BY <1>0, <2>1, <2>2 DEF IInv, Answer
  <2>4. ended'
    BY <1>0, <1>31 DEF StreamEnds
  <2>5. wpc \in Over
    BY <1>0, <2>1 DEF Replies
  <2> QED
    BY <1>0, <1>31, <2>1, <2>3, <2>4, <2>5 DEF StreamEnds
<1>32. CASE IngressThrows
  BY <1>0, <1>32 DEF IngressThrows, Replies, Calm, IInv, TypeOK, Progress
<1>33. CASE UNCHANGED vars
  BY <1>0, <1>33 DEF vars
<1> QED
  BY <1>1, <1>2, <1>3, <1>4, <1>5, <1>6, <1>7, <1>8, <1>9, <1>10, <1>11,
     <1>12, <1>13, <1>14, <1>15, <1>16, <1>17, <1>18, <1>19, <1>20, <1>21,
     <1>22, <1>23, <1>24, <1>25, <1>26, <1>27, <1>28, <1>29, <1>30, <1>31,
     <1>32, <1>33
  DEF Next, WorkerNext, IngressNext, Terminated

\* A client that stays connected to a running server gets a fixed response, or
\* a stream whose terminated body ends in [DONE] or an error event, however the
\* two threads interleave and wherever one host exception strikes.
THEOREM JobAnsweredInFull == Spec => []AnsweredInFull
<1>1. Init => AnswerInv
  BY DEF Init, AnswerInv, Replies, Whole, Calm, Over
<1>2. IInv /\ AnswerInv /\ [Next]_vars => AnswerInv'
  BY NextReplies, NextWhole DEF AnswerInv
<1>3. AnswerInv => AnsweredInFull
  BY DEF AnswerInv, Calm, Whole, Complete, AnsweredInFull
<1> QED
  BY <1>1, <1>2, <1>3, JobInvariant, PTL DEF Spec
=============================================================================
