---------------------- MODULE HttpConnectionWireProofs ----------------------
(***************************************************************************)
(* Proofs about the responses of HttpConnection: their order, their length, *)
(* whose content they hold, what they say about the connection, and that    *)
(* the connection implements HttpExchange; for every value of the           *)
(* constants, where a theorem's assumptions allow it.                       *)
(***************************************************************************)
EXTENDS HttpConnectionProofs

\* What the invariant says of the messages, the response and the requests,
\* whatever the application and the devices do.
Promises ==
  /\ Counts
  /\ UnderWay
  /\ Progress
  /\ Emitting
  /\ Over
  /\ OthersOver
  /\ OneAtATime
  /\ LengthHonoured
  /\ Persists
  /\ Params

(***************************************************************************)
(* Steps that write no message and complete none.                          *)
(***************************************************************************)

Messages == <<wire, delivered, answered, script, bufLo, fieldsOf>>

\* A step after which nothing is claimed of the messages that was not claimed
\* before.
NoNewPromise ==
  /\ AppHolds' => AppHolds
  /\ HeadWritten' => HeadWritten
  /\ Completing' => Completing
  /\ AllAnswered' => AllAnswered
  /\ LastIsOpen => LastIsOpen'
  /\ AppHolds' \/ HeadWritten' \/ Completing' => nread' = nread
  /\ HeadWritten' \/ Completing' => resp' = resp
  /\ state' = "SendingHeaders" =>
       state = "SendingHeaders" /\ resp'.sent = resp.sent
  /\ Top' = "completed" => NothingMissing'
  /\ Top' = "requestCompleted" => Top = "requestCompleted" /\ stack' = stack
  /\ Top' = "flushing" \/ state' = "Flushing" =>
       Top = "flushing" \/ state = "Flushing"
  /\ MayWriteNext' => MayWriteNext
  /\ Receiving' \/ Top' = "receivingHeaders" =>
       Receiving \/ Top = "receivingHeaders"
  /\ Top' = "receivingHeaders" => Top = "receivingHeaders"
  /\ StaleAnswers \/ paramsOf' \in {paramsOf, fieldsOf}

\* Such a step keeps the promises.
LEMMA PromisesKept ==
  ASSUME Promises, UNCHANGED Messages, NoNewPromise
  PROVE  Promises'
<1> USE DEF Messages, NoNewPromise, Promises
<1>1. Counts'
  BY DEF Counts
<1>2. UnderWay'
  BY DEF UnderWay, Last, Current
<1>3. Progress'
  BY DEF Progress, Current
<1>4. Over' /\ Emitting'
  BY DEF Over, Emitting, Last, Current
<1>5. OthersOver'
  BY DEF OthersOver, IsResponse
<1>6. OneAtATime'
  BY DEF OneAtATime
<1>7. LengthHonoured'
  BY DEF LengthHonoured, RequestAt
<1>8. Persists'
  BY DEF Persists, Last
<1>9. Params'
  BY DEF Params
<1>10. QED
  BY <1>1, <1>2, <1>3, <1>4, <1>5, <1>6, <1>7, <1>8, <1>9

\* A call returns; the promises do not depend on what it returns to.
LEMMA ReturnPromises ==
  ASSUME Inductive, Promises, stack # <<>>, Return,
         UNCHANGED <<Messages, state, nread, paramsOf, resp>>,
         Top \in {"processInput", "requestReady", "requestCompleted",
                  "sendingContentTail", "writeResponseTail"}
  PROVE  Promises'
<1>1. \/ Top' \in Suspended \cup {"idle"} /\ Top # "requestCompleted"
      \/ Top = "requestCompleted" /\ Top' = "completedTail"
  <2>1. CASE Top = "requestCompleted"
    <3>1. Len(stack) >= 2 /\ stack[2].at = "completedTail"
      BY <2>1 DEF Promises, Emitting
    <3>2. /\ stack' \in Seq(Frame)
          /\ Len(stack') = Len(stack) - 1
          /\ \A i \in 1 .. Len(stack) - 1 : stack'[i] = stack[i + 1]
      BY DropHead DEF Return, Inductive, TypeOK
    <3>3. stack' # <<>> /\ stack'[1] = stack[2]
      BY <3>1, <3>2
    <3>4. QED
      BY <2>1, <3>1, <3>2, <3>3, DropHead DEF Top
  <2>2. CASE Top # "requestCompleted"
    BY <2>2, Returned DEF Inductive, TypeOK
  <2>3. QED
    BY <2>1, <2>2
<1>2. CalledIn
  BY DEF Inductive
<1>3. NoNewPromise
  BY <1>1, <1>2
     DEF NoNewPromise, AppHolds, HeadWritten, Completing, AllAnswered,
         LettingGo, LastIsOpen, MayWriteNext, Receiving, Suspended
<1>4. QED
  BY <1>3, PromisesKept

\* Nothing that the promises are about changes.
LEMMA SamePromises ==
  ASSUME Inductive, Promises,
         UNCHANGED <<Messages, state, nread, paramsOf, resp, stack>>
  PROVE  Promises'
<1>1. Top' = Top
  BY SameStack
<1>2. NoNewPromise
  BY <1>1
     DEF NoNewPromise, AppHolds, HeadWritten, Completing, AllAnswered,
         LettingGo, LastIsOpen, MayWriteNext, Receiving, Promises, Progress,
         NothingMissing, RequestAt, Messages
<1>3. QED
  BY <1>2, PromisesKept

\* The connection closes under the event loop or the application.
LEMMA ClosingPromises ==
  ASSUME Inductive, Promises,
         Top \in {"idle", "requestReady", "requestCompleted"},
         TransitionToClosed,
         UNCHANGED <<inputVars, requestVars, resp, worldVars, historyVars,
                     stack, crashed>>
  PROVE  Promises'
<1>1. Top' = Top
  BY SameStack
<1>2. NoNewPromise
  BY <1>1
     DEF NoNewPromise, AppHolds, HeadWritten, Completing, AllAnswered,
         LettingGo, LastIsOpen, MayWriteNext, Receiving, TransitionToClosed,
         requestVars
<1>3. QED
  BY <1>2, PromisesKept DEF Messages, inputVars, requestVars, historyVars

LEMMA StutteringPromises ==
  ASSUME Inductive, Promises, UNCHANGED vars
  PROVE  Promises'
  BY SamePromises
     DEF vars, Messages, inputVars, requestVars, outputVars, historyVars

LEMMA PeerClosesPromises ==
  ASSUME Inductive, Promises, PeerCloses
  PROVE  Promises'
  BY LoopRuns, ClosingPromises DEF PeerCloses

LEMMA ClosePromises ==
  ASSUME Inductive, Promises, Close
  PROVE  Promises'
  BY ApplicationRuns, ClosingPromises DEF Close

LEMMA BytesWrittenPromises ==
  ASSUME Inductive, Promises,
         Top \in {"idle", "requestReady", "requestCompleted"}, BytesWritten
  PROVE  Promises'
<1>1. CASE drainOn /\ state = "Flushing"
  BY <1>1, ClosingPromises DEF BytesWritten
<1>2. CASE ~(drainOn /\ state = "Flushing")
  BY <1>2, SamePromises
     DEF BytesWritten, Messages, inputVars, requestVars, historyVars
<1>3. QED
  BY <1>1, <1>2

LEMMA DeviceWritesPromises ==
  ASSUME Inductive, Promises, DeviceWrites
  PROVE  Promises'
  BY LoopRuns, BytesWrittenPromises DEF DeviceWrites

LEMMA FlushPromises ==
  ASSUME Inductive, Promises, Flush
  PROVE  Promises'
  BY ApplicationRuns, BytesWrittenPromises, ClosingPromises DEF Flush

LEMMA StopListeningPromises ==
  ASSUME Inductive, Promises, StopListening
  PROVE  Promises'
  BY SamePromises
     DEF StopListening, Messages, inputVars, requestVars, outputVars,
         historyVars

LEMMA ProcessInputCrashPromises ==
  ASSUME Inductive, Promises, ProcessInputCrash
  PROVE  Promises'
  BY SamePromises
     DEF ProcessInputCrash, Messages, inputVars, requestVars, outputVars,
         historyVars

LEMMA ProcessInputIdlePromises ==
  ASSUME Inductive, Promises, ProcessInputIdle
  PROVE  Promises'
  BY FunctionRuns, ReturnPromises
     DEF ProcessInputIdle, Messages, inputVars, requestVars, outputVars,
         historyVars

LEMMA HandlerReturnsPromises ==
  ASSUME Inductive, Promises, HandlerReturns
  PROVE  Promises'
<1>1. Top \in {"requestReady", "requestCompleted"}
  BY DEF HandlerReturns, AppRuns, AppFrames, Top
<1>2. QED
  BY <1>1, ReturnPromises
     DEF HandlerReturns, Messages, inputVars, requestVars, outputVars,
         historyVars

\* The parameters are those of the request whose fields are set.
LEMMA RequestParamsPromises ==
  ASSUME Inductive, Promises, RequestParams
  PROVE  Promises'
<1>1. Top' = Top
  BY SameStack DEF RequestParams
<1>2. UNCHANGED <<Messages, state, nread, resp, stack>>
  BY DEF RequestParams, Messages, inputVars, outputVars, historyVars
<1>3. StaleAnswers \/ paramsOf' \in {paramsOf, fieldsOf}
  BY DEF RequestParams
<1>4. NoNewPromise
  BY <1>1, <1>2, <1>3
     DEF NoNewPromise, AppHolds, HeadWritten, Completing, AllAnswered,
         LettingGo, LastIsOpen, MayWriteNext, Receiving, Promises, Progress,
         NothingMissing, RequestAt, Messages
<1>5. QED
  BY <1>2, <1>4, PromisesKept

\* The event loop, that is, nothing, calls processInput().
LEMMA InputPromises ==
  ASSUME Inductive, Promises, EventLoop, Enter(Call("processInput")),
         UNCHANGED <<Messages, state, nread, paramsOf, resp>>
  PROVE  Promises'
<1>1. Top = "idle" /\ Top' = "processInput"
  BY LoopRuns, Entered, CallIsFrame DEF Inductive, TypeOK, Frames
<1>2. NoNewPromise
  BY <1>1
     DEF NoNewPromise, AppHolds, HeadWritten, Completing, AllAnswered,
         LettingGo, LastIsOpen, MayWriteNext, Receiving
<1>3. QED
  BY <1>2, PromisesKept

LEMMA PumpTimerPromises ==
  ASSUME Inductive, Promises, PumpTimer
  PROVE  Promises'
  BY InputPromises
     DEF PumpTimer, Messages, inputVars, requestVars, outputVars, historyVars

LEMMA ReadyReadPromises ==
  ASSUME Inductive, Promises, NEW k \in 1 .. Len(script), ReadyRead(k)
  PROVE  Promises'
  BY InputPromises
     DEF ReadyRead, Messages, requestVars, outputVars, historyVars

\* The input that is read and parsed belongs to a request that is not delivered.
LEMMA ParsePromises ==
  ASSUME Inductive, Promises, Top = "processInput", stack # <<>>, Receiving,
         NEW f \in Frame, Return \/ Become(f),
         f.at \in {"badRequest", "receivingContent", "sendingHeaders"},
         UNCHANGED <<Messages, state, paramsOf, resp>>
  PROVE  Promises'
<1>1. Top' \in Suspended \cup
        {"idle", "badRequest", "receivingContent", "sendingHeaders"}
  <2>1. CASE Return
    BY <2>1, Returned DEF Inductive, TypeOK
  <2>2. CASE Become(f)
    BY <2>2, Became DEF Inductive, TypeOK
  <2>3. QED
    BY <2>1, <2>2
<1>2. NoNewPromise
  BY <1>1
     DEF NoNewPromise, AppHolds, HeadWritten, Completing, AllAnswered,
         LettingGo, LastIsOpen, MayWriteNext, Receiving, Suspended
<1>3. QED
  BY <1>2, PromisesKept

LEMMA ParseHeadersPromises ==
  ASSUME Inductive, Promises, ParseHeaders
  PROVE  Promises'
<1>1. PICK f \in Frame : /\ f.at \in {"badRequest", "receivingContent"}
                         /\ Return \/ Become(f)
  BY CallIsFrame DEF ParseHeaders, Frames
<1>2. QED
  BY <1>1, FunctionRuns, ParsePromises
     DEF ParseHeaders, Messages, inputVars, outputVars, historyVars, Receiving

LEMMA PumpContentPromises ==
  ASSUME Inductive, Promises, PumpContent
  PROVE  Promises'
<1>1. PICK f \in Frame : f.at = "sendingHeaders" /\ (Return \/ Become(f))
  BY CallIsFrame DEF PumpContent, Frames
<1>2. QED
  BY <1>1, FunctionRuns, ParsePromises
     DEF PumpContent, Messages, inputVars, outputVars, historyVars, Receiving

LEMMA TransitionToReceivingHeadersPromises ==
  ASSUME Inductive, Promises, TransitionToReceivingHeaders
  PROVE  Promises'
<1>1. /\ Top = "receivingHeaders" /\ stack # <<>>
      /\ state \in {"Completed", "Closed"}
  BY FunctionRuns DEF TransitionToReceivingHeaders, Inductive, CalledIn
<1>2. Top' = "processInput"
  BY <1>1, Became, CallIsFrame
     DEF TransitionToReceivingHeaders, Inductive, TypeOK, Frames
<1>3. NoNewPromise
  BY <1>1, <1>2
     DEF NoNewPromise, AppHolds, HeadWritten, Completing, AllAnswered,
         LettingGo, LastIsOpen, MayWriteNext, Receiving,
         TransitionToReceivingHeaders
<1>4. QED
  BY <1>3, PromisesKept
     DEF TransitionToReceivingHeaders, Messages, inputVars, historyVars

LEMMA TransitionToFlushingPromises ==
  ASSUME Inductive, Promises, TransitionToFlushing
  PROVE  Promises'
<1>1. Top = "flushing" /\ stack # <<>> /\ ~AppHolds /\ state # "Flushing"
  BY FunctionRuns DEF TransitionToFlushing, Inductive, CalledIn
<1>2. Top' \in Suspended \cup {"idle"}
  BY <1>1, Returned DEF TransitionToFlushing, Inductive, TypeOK
<1>3. state' \in {"Closed", "Flushing"}
  BY DEF TransitionToFlushing, TransitionToClosed
<1>4. UNCHANGED <<Messages, paramsOf, nread, resp>>
  BY DEF TransitionToFlushing, Messages, inputVars, requestVars, historyVars
<1>5. NoNewPromise
  BY <1>1, <1>2, <1>3, <1>4
     DEF NoNewPromise, AppHolds, HeadWritten, Completing, AllAnswered,
         LettingGo, LastIsOpen, MayWriteNext, Receiving, Suspended
<1>6. QED
  BY <1>4, <1>5, PromisesKept

(***************************************************************************)
(* Steps that decide whether the connection outlives the response.         *)
(***************************************************************************)

\* While a response is under way, taking back the promise that the connection
\* outlives it where its end cannot be told takes nothing back: it was not made.
LEMMA KeepAliveKept ==
  ASSUME Inductive, Promises, HeadWritten
  PROVE  resp.keepAlive => resp.length >= 0 \/ resp.chunked
<1>1. /\ wire # <<>>
      /\ Last.length = resp.length
      /\ Last.chunked = resp.chunked
      /\ Last.keepAlive = resp.keepAlive
  BY DEF Promises, UnderWay
<1>2. Len(wire) \in 1 .. Len(wire)
  BY <1>1 DEF Inductive, TypeOK
<1>3. QED
  BY <1>1, <1>2 DEF Promises, Persists, Last

\* So the response stays what it is.
LEMMA SameKeepAlive ==
  ASSUME Inductive, NEW keep \in BOOLEAN,
         resp.keepAlive => keep,
         resp' = [resp EXCEPT !.keepAlive = @ /\ keep]
  PROVE  resp' = resp
<1>1. resp \in Response /\ resp.keepAlive \in BOOLEAN
  BY DEF Inductive, TypeOK, Response
<1>2. (resp.keepAlive /\ keep) = resp.keepAlive
  BY <1>1
<1>3. QED
  BY <1>1, <1>2 DEF Response

LEMMA SendingContentTailPromises ==
  ASSUME Inductive, Promises, SendingContentTail
  PROVE  Promises'
<1>1. Top = "sendingContentTail" /\ stack # <<>>
  BY FunctionRuns DEF SendingContentTail
<1>2. Top' \in Suspended \cup {"idle"}
  BY <1>1, Returned DEF SendingContentTail, Inductive, TypeOK
<1>3. UNCHANGED <<Messages, state, nread, paramsOf>>
  BY DEF SendingContentTail, Messages, inputVars, requestVars, historyVars
<1>4. HeadWritten => resp' = resp
  <2>1. /\ (resp.length >= 0 \/ resp.chunked) \in BOOLEAN
        /\ resp' = [resp EXCEPT !.keepAlive =
                      @ /\ (resp.length >= 0 \/ resp.chunked)]
    BY DEF SendingContentTail, Inductive, TypeOK, Response
  <2>2. QED
    BY <2>1, KeepAliveKept, SameKeepAlive
<1>5. resp'.sent = resp.sent
  BY DEF SendingContentTail, Inductive, TypeOK, Response
<1>6. NoNewPromise
  BY <1>1, <1>2, <1>3, <1>4, <1>5
     DEF NoNewPromise, AppHolds, HeadWritten, Completing, AllAnswered,
         LettingGo, LastIsOpen, MayWriteNext, Receiving, Suspended
<1>7. QED
  BY <1>3, <1>6, PromisesKept

LEMMA EndContentPromises ==
  ASSUME Inductive, Promises, EndContent
  PROVE  Promises'
<1>1. /\ Top \in {"idle", "requestReady"}
      /\ state = "SendingContent" /\ resp.length < 0
  BY AnswersFrom DEF EndContent, AppHolds
<1>2. Top' = "completed"
  BY <1>1, Entered, CallIsFrame
     DEF EndContent, Inductive, TypeOK, Frames, Suspended
<1>3. UNCHANGED <<Messages, state, nread, paramsOf>>
  BY DEF EndContent, Messages, inputVars, requestVars, historyVars
<1>4. resp' = resp
  <2>1. resp.length \in Int /\ resp.chunked \in BOOLEAN
    BY DEF Inductive, TypeOK, Response
  <2>2. resp.keepAlive => resp.chunked
    BY <1>1, <2>1, KeepAliveKept DEF HeadWritten
  <2>3. QED
    BY <2>1, <2>2, SameKeepAlive DEF EndContent
<1>5. NothingMissing'
  BY <1>1, <1>4 DEF NothingMissing
<1>6. NoNewPromise
  BY <1>1, <1>2, <1>3, <1>4, <1>5
     DEF NoNewPromise, AppHolds, HeadWritten, Completing, AllAnswered,
         LettingGo, LastIsOpen, MayWriteNext, Receiving
<1>7. QED
  BY <1>3, <1>6, PromisesKept

LEMMA TransitionToSendingContentPromises ==
  ASSUME Inductive, Promises, TransitionToSendingContent
  PROVE  Promises'
<1>1. Top = "sendingContent" /\ stack # <<>> /\ state = "SendingHeaders"
  BY FunctionRuns DEF TransitionToSendingContent, Inductive, CalledIn
<1>2. UNCHANGED <<Messages, nread, paramsOf, resp>> /\ state' = "SendingContent"
  BY DEF TransitionToSendingContent, Messages, inputVars, requestVars,
         outputVars, historyVars
<1>3. Top' \in {"completed", "sendingContentTail"} /\
      (Top' = "completed" => NoContentDue)
  <2>1. /\ Call("completed") \in Frame
        /\ Call("completed").at = "completed"
        /\ Call("sendingContentTail") \in Frame
        /\ Call("sendingContentTail").at = "sendingContentTail"
        /\ "sendingContentTail" \in Suspended
    BY CallIsFrame DEF Frames, Suspended
  <2>2. CASE NoContentDue
    BY <1>1, <2>1, <2>2, BecameTwo
       DEF TransitionToSendingContent, Inductive, TypeOK
  <2>3. CASE ~NoContentDue
    BY <1>1, <2>1, <2>3, Became
       DEF TransitionToSendingContent, Inductive, TypeOK
  <2>4. QED
    BY <2>2, <2>3
<1>4. Top' = "completed" => NothingMissing'
  BY <1>1, <1>2, <1>3
     DEF NothingMissing, NoContentDue, Promises, Progress, RequestAt, Messages
<1>5. NoNewPromise
  BY <1>1, <1>2, <1>3, <1>4
     DEF NoNewPromise, AppHolds, HeadWritten, Completing, AllAnswered,
         LettingGo, LastIsOpen, MayWriteNext, Receiving
<1>6. QED
  BY <1>2, <1>5, PromisesKept

(***************************************************************************)
(* Steps that begin a message.                                             *)
(***************************************************************************)

\* What is written next comes last.
LEMMA WrittenNext ==
  ASSUME Inductive, NEW m \in Message, wire' = Append(wire, m)
  PROVE  /\ wire' # <<>>
         /\ Len(wire') = Len(wire) + 1
         /\ Len(wire) \in Nat
         /\ wire'[Len(wire) + 1] = m
         /\ \A i \in 1 .. Len(wire) : wire'[i] = wire[i]
         /\ Last' = m
<1>1. wire \in Seq(Message)
  BY DEF Inductive, TypeOK
<1>2. QED
  BY <1>1, Appended DEF Last

\* A message that lets the connection live on, and tells where it ends.
Lasting(r) == r.keepAlive /\ (r.length >= 0 \/ r.chunked)

\* When a message may follow, every response is over and no message announces
\* the end of the connection.
LEMMA NothingUnderWay ==
  ASSUME Inductive, Promises, MayWriteNext,
         Top \notin {"requestCompleted", "completedTail"}
  PROVE  /\ \A m \in 1 .. Len(wire) :
              IsResponse(m) => wire[m].ended /\ wire[m].req <= bufLo
         /\ \A m \in 1 .. Len(wire) : Lasting(wire[m])
<1>1. ~LastIsOpen
  BY DEF MayWriteNext, LastIsOpen, HeadWritten, Completing, LettingGo,
         Receiving, Inductive, CalledIn
<1>2. \A m \in 1 .. Len(wire) :
        IsResponse(m) => wire[m].ended /\ wire[m].req <= bufLo
  BY <1>1 DEF Promises, OthersOver
<1>3. \A m \in 1 .. Len(wire) : wire[m].keepAlive
  BY DEF Promises, Persists, Last
<1>4. \A m \in 1 .. Len(wire) : wire[m].length >= 0 \/ wire[m].chunked
  BY <1>3 DEF Promises, Persists
<1>5. QED
  BY <1>2, <1>3, <1>4 DEF Lasting

\* LengthHonoured, of one response to the peer that sent s.
Honoured(s, r) ==
  IF s[r.req].request.head THEN r.body + r.foreign = 0
  ELSE r.length >= 0 => /\ r.body + r.foreign <= r.length
                        /\ r.ended => r.body + r.foreign = r.length

LEMMA HonouredNow ==
  ASSUME LengthHonoured
  PROVE  \A m \in 1 .. Len(wire) : IsResponse(m) => Honoured(script, wire[m])
  BY DEF LengthHonoured, Honoured, RequestAt, IsResponse

LEMMA HonouredThen ==
  ASSUME \A m \in 1 .. Len(wire') :
           wire'[m].kind = "response" => Honoured(script', wire'[m])
  PROVE  LengthHonoured'
  BY DEF LengthHonoured, Honoured, RequestAt

\* The connection itself says something while it receives a request: to go on,
\* or that it is over.
LEMMA SaidByConnection ==
  ASSUME Inductive, Promises, Receiving, Receiving',
         Top \in {"receivingContent", "badRequest", "tooLarge"},
         Top' \in {"badRequest", "tooLarge", "processInput", "sendingHeaders",
                   "flushing"},
         NEW kind \in {"continue", "error"},
         kind = "error" <=> Top' = "flushing",
         wire' = Append(wire, Plain(kind, Current)),
         UNCHANGED <<delivered, answered, script, bufLo, fieldsOf, paramsOf,
                     resp>>
  PROVE  Promises'
<1>1. /\ Plain(kind, Current) \in Message
      /\ Plain(kind, Current).kind = kind
      /\ kind = "continue" => Lasting(Plain(kind, Current))
      /\ kind = "error" => ~Plain(kind, Current).keepAlive
  <2>1. Current \in Nat
    BY DEF Current, Inductive, TypeOK
  <2>2. Plain(kind, Current) \in Message
    BY <2>1, PlainIsMessage
  <2>3. Plain(kind, Current).kind = kind
    BY DEF Plain
  <2>4. kind = "continue" => Plain(kind, Current).keepAlive
    BY DEF Plain
  <2>5. kind = "error" => ~Plain(kind, Current).keepAlive
    BY DEF Plain
  <2>6. Plain(kind, Current).length >= 0
    BY DEF Plain
  <2>7. QED
    BY <2>2, <2>3, <2>4, <2>5, <2>6 DEF Lasting
<1> DEFINE m == Plain(kind, Current)
<1> HIDE DEF m
<1>2. /\ wire' # <<>>
      /\ Len(wire') = Len(wire) + 1
      /\ Len(wire) \in Nat
      /\ wire'[Len(wire) + 1] = m
      /\ \A i \in 1 .. Len(wire) : wire'[i] = wire[i]
      /\ Last' = m
  BY <1>1, WrittenNext DEF m
<1>3. /\ m.kind = kind
      /\ kind = "continue" => Lasting(m)
      /\ kind = "error" => ~m.keepAlive
  BY <1>1 DEF m
<1>4. MayWriteNext
  BY DEF MayWriteNext
<1>5. /\ \A i \in 1 .. Len(wire) :
           IsResponse(i) => wire[i].ended /\ wire[i].req <= bufLo
      /\ \A i \in 1 .. Len(wire) : Lasting(wire[i])
  BY <1>4, NothingUnderWay
<1>6. Counts'
  BY DEF Promises, Counts, AllAnswered, AppHolds, Receiving, Completing,
         LettingGo
<1>7. UnderWay' /\ Over' /\ Progress' /\ Emitting'
  BY DEF UnderWay, Over, Progress, Emitting, HeadWritten, Completing, AppHolds,
         Receiving
<1>8. \A i \in 1 .. Len(wire') :
        IsResponse(i)' => i \in 1 .. Len(wire) /\ IsResponse(i)
  BY <1>2, <1>3 DEF IsResponse
<1>9. OthersOver'
  BY <1>2, <1>5, <1>8 DEF OthersOver
<1>10. OneAtATime'
  <2>1. \A i \in 1 .. answered : \E n \in 1 .. Len(wire') :
          /\ wire'[n].kind = "response"
          /\ wire'[n].req = delivered[i]
          /\ wire'[n].ended
    BY <1>2 DEF Promises, OneAtATime
  <2>2. ASSUME NEW i \in 1 .. Len(wire'), NEW n \in 1 .. Len(wire'),
               wire'[i].kind = "response", wire'[n].kind = "response", i < n
        PROVE  wire'[i].ended /\ wire'[i].req < wire'[n].req
    BY <1>2, <1>8, <2>2 DEF Promises, OneAtATime, IsResponse
  <2>3. QED
    BY <2>1, <2>2 DEF Promises, OneAtATime
<1>11. LengthHonoured'
  <2>1. \A i \in 1 .. Len(wire) : IsResponse(i) => Honoured(script, wire[i])
    BY HonouredNow DEF Promises
  <2>2. \A i \in 1 .. Len(wire') :
          wire'[i].kind = "response" => Honoured(script', wire'[i])
    BY <1>2, <1>8, <2>1 DEF IsResponse
  <2>3. QED
    BY <2>2, HonouredThen
<1>12. Persists'
  <2>1. CASE kind = "continue"
    <3>1. \A i \in 1 .. Len(wire') : Lasting(wire'[i])
      BY <1>2, <1>3, <1>5, <2>1
    <3>2. Last'.keepAlive
      BY <1>2, <1>3, <2>1 DEF Lasting
    <3>3. ~(Top' = "flushing" \/ state' = "Flushing")
      BY <2>1 DEF Receiving
    <3>4. QED
      BY <3>1, <3>2, <3>3 DEF Persists, Lasting
  <2>2. CASE kind = "error"
    <3>1. \A i \in 1 .. Len(wire') : i # Len(wire') => Lasting(wire'[i])
      BY <1>2, <1>5
    <3>2. ~Last'.keepAlive /\ ~wire'[Len(wire')].keepAlive
      BY <1>2, <1>3, <2>2
    <3>3. ~MayWriteNext'
      BY <2>2 DEF MayWriteNext
    <3>4. QED
      BY <1>2, <3>1, <3>2, <3>3 DEF Persists, Lasting
  <2>3. QED
    BY <2>1, <2>2
<1>13. Params'
  BY DEF Promises, Params
<1>14. QED
  BY <1>6, <1>7, <1>9, <1>10, <1>11, <1>12, <1>13 DEF Promises

LEMMA WriteRequestErrorResponsePromises ==
  ASSUME Inductive, Promises, WriteRequestErrorResponse
  PROVE  Promises'
<1>1. /\ Top \in {"badRequest", "tooLarge"} /\ stack # <<>>
      /\ Receiving
  BY FunctionRuns DEF WriteRequestErrorResponse, Inductive, CalledIn
<1>2. Top' = "flushing"
  BY <1>1, Became, CallIsFrame
     DEF WriteRequestErrorResponse, Inductive, TypeOK, Frames
<1>3. /\ wire' = Append(wire, Plain("error", Current))
      /\ state' = state
      /\ UNCHANGED <<delivered, answered, script, bufLo, fieldsOf, paramsOf,
                     resp>>
  BY DEF WriteRequestErrorResponse, inputVars, requestVars
<1>4. Receiving'
  BY <1>1, <1>3 DEF Receiving
<1>5. QED
  BY <1>1, <1>2, <1>3, <1>4, SaidByConnection

LEMMA TransitionToReceivingContentPromises ==
  ASSUME Inductive, Promises, TransitionToReceivingContent
  PROVE  Promises'
<1>1. Top = "receivingContent" /\ stack # <<>> /\ state = "ReceivingHeaders"
  BY FunctionRuns DEF TransitionToReceivingContent, Inductive, CalledIn
<1>2. /\ state' = "ReceivingContent"
      /\ UNCHANGED <<delivered, answered, script, bufLo, fieldsOf, paramsOf,
                     resp, nread>>
      /\ \/ wire' = Append(wire, Plain("continue", Current))
         \/ wire' = wire
  BY DEF TransitionToReceivingContent, inputVars
<1>3. PICK at \in {"badRequest", "tooLarge", "processInput", "sendingHeaders"} :
        Become(Call(at))
  BY DEF TransitionToReceivingContent
<1>4. Top' \in {"badRequest", "tooLarge", "processInput", "sendingHeaders"}
  BY <1>1, <1>3, Became, CallIsFrame DEF Inductive, TypeOK, Frames
<1>5. Receiving /\ Receiving'
  BY <1>1, <1>2 DEF Receiving
<1>6. CASE wire' = Append(wire, Plain("continue", Current))
  BY <1>1, <1>2, <1>4, <1>5, <1>6, SaidByConnection
<1>7. CASE wire' = wire
  <2>1. NoNewPromise
    BY <1>1, <1>2, <1>4
       DEF NoNewPromise, AppHolds, HeadWritten, Completing, AllAnswered,
           LettingGo, LastIsOpen, MayWriteNext, Receiving
  <2>2. QED
    BY <1>2, <1>7, <2>1, PromisesKept DEF Messages
<1>8. QED
  BY <1>2, <1>6, <1>7

\* The head of a response is written once every response before it is over, for
\* the current request, and says of the response what its fields say.
LEMMA WriteHeadPromises ==
  ASSUME Inductive, Promises, NEW h \in HeaderSets, NEW known \in Int,
         WriteHead(h, known), Top \in {"idle", "requestReady"},
         Top' = "sendingContent"
  PROVE  Promises'
<1> DEFINE length  == LengthOf(h, known)
           chunked == ChunkedOf(h, fieldsOf, length)
           keep    == /\ ClientWantsKeepAlive(fieldsOf)
                      /\ ServerWantsKeepAlive(h, length, chunked)
                      /\ listening
           m == ResponseHead(fieldsOf, length, chunked, keep)
<1>1. /\ length \in Int /\ chunked \in BOOLEAN /\ keep \in BOOLEAN
      /\ keep => length >= 0 \/ chunked
  <2>1. h \in HeaderSet
    BY HeaderSetsAssumption
  <2>2. length \in Int
    BY <2>1 DEF LengthOf, HeaderSet
  <2>3. chunked \in BOOLEAN
    BY DEF ChunkedOf
  <2>4. keep => length >= 0 \/ chunked
    BY DEF ServerWantsKeepAlive
  <2>5. QED
    BY <2>2, <2>3, <2>4
<1>2. /\ state = "SendingHeaders"
      /\ resp' = [resp EXCEPT !.length = length, !.chunked = chunked,
                              !.keepAlive = keep]
      /\ wire' = Append(wire, m)
      /\ UNCHANGED <<state, delivered, answered, script, bufLo, fieldsOf,
                     paramsOf, nread>>
  BY DEF WriteHead, HeadIsDue, inputVars, requestVars
<1> HIDE DEF length, chunked, keep
<1>3. m \in Message
  BY <1>1, HeadIsMessage DEF Inductive, TypeOK
<1>4. /\ m.kind = "response" /\ m.req = fieldsOf /\ ~m.ended
      /\ m.length = length /\ m.chunked = chunked /\ m.keepAlive = keep
      /\ m.body = 0 /\ m.foreign = 0
  BY DEF ResponseHead
<1>5. /\ resp'.length = length /\ resp'.chunked = chunked
      /\ resp'.keepAlive = keep /\ resp'.sent = 0
  <2>1. resp.sent = 0
    BY <1>2 DEF Promises, Progress
  <2>2. QED
    BY <1>2, <2>1 DEF Inductive, TypeOK, Response
<1> HIDE DEF m
<1>6. /\ wire' # <<>>
      /\ Len(wire') = Len(wire) + 1
      /\ Len(wire) \in Nat
      /\ wire'[Len(wire) + 1] = m
      /\ \A i \in 1 .. Len(wire) : wire'[i] = wire[i]
      /\ Last' = m
  BY <1>2, <1>3, WrittenNext
<1>7. fieldsOf = Current /\ Current' = Current /\ bufLo < Current
  BY <1>2 DEF Inductive, RequestViewIntact, AppHolds, Current, Promises,
              Progress
<1>8. MayWriteNext
  BY <1>2 DEF MayWriteNext
<1>9. /\ \A i \in 1 .. Len(wire) :
           IsResponse(i) => wire[i].ended /\ wire[i].req <= bufLo
      /\ \A i \in 1 .. Len(wire) : Lasting(wire[i])
  BY <1>8, NothingUnderWay
<1>10. Counts'
  BY <1>2 DEF Promises, Counts, AllAnswered, AppHolds, Completing, LettingGo
<1>11. UnderWay'
  BY <1>4, <1>5, <1>6, <1>7 DEF UnderWay
<1>12. Progress' /\ Emitting' /\ Over'
  BY <1>5, <1>7, <1>2
     DEF Progress, Emitting, Over, Completing, Promises, AppHolds
<1>13. OthersOver'
  BY <1>2, <1>6, <1>9
     DEF OthersOver, IsResponse, LastIsOpen, HeadWritten
<1>14. OneAtATime'
  <2>1. \A i \in 1 .. answered : \E n \in 1 .. Len(wire') :
          /\ wire'[n].kind = "response"
          /\ wire'[n].req = delivered[i]
          /\ wire'[n].ended
    BY <1>6 DEF Promises, OneAtATime
  <2>2. ASSUME NEW i \in 1 .. Len(wire'), NEW n \in 1 .. Len(wire'),
               wire'[i].kind = "response", wire'[n].kind = "response", i < n
        PROVE  wire'[i].ended /\ wire'[i].req < wire'[n].req
    <3>1. i \in 1 .. Len(wire) /\ wire'[i] = wire[i] /\ IsResponse(i)
      BY <1>6, <2>2 DEF IsResponse
    <3>2. CASE n \in 1 .. Len(wire)
      BY <1>6, <2>2, <3>1, <3>2 DEF Promises, OneAtATime, IsResponse
    <3>3. CASE n = Len(wire) + 1
      <4>1. wire[i].req \in Nat /\ bufLo \in Nat /\ Current \in Nat
        <5>1. wire[i] \in Message
          BY <3>1 DEF Inductive, TypeOK
        <5>2. wire[i].req \in Nat
          BY <5>1 DEF Message
        <5>3. bufLo \in Nat /\ Current \in Nat
          BY DEF Inductive, TypeOK, Current
        <5>4. QED
          BY <5>2, <5>3
      <4>2. wire[i].ended /\ wire[i].req <= bufLo
        BY <1>9, <3>1
      <4>3. wire'[n].req = Current
        BY <1>4, <1>6, <1>7, <3>3
      <4>4. QED
        BY <1>7, <3>1, <4>1, <4>2, <4>3
    <3>4. QED
      BY <1>6, <3>2, <3>3
  <2>3. QED
    BY <1>2, <2>1, <2>2 DEF Promises, OneAtATime
<1>15. LengthHonoured'
  <2>1. \A i \in 1 .. Len(wire) : IsResponse(i) => Honoured(script, wire[i])
    BY HonouredNow DEF Promises
  <2>2. Honoured(script, m)
    BY <1>1, <1>4 DEF Honoured
  <2>3. \A i \in 1 .. Len(wire') :
          wire'[i].kind = "response" => Honoured(script', wire'[i])
    BY <1>2, <1>6, <2>1, <2>2 DEF IsResponse
  <2>4. QED
    BY <2>3, HonouredThen
<1>16. Persists'
  <2>1. \A i \in 1 .. Len(wire) :
          /\ wire'[i].keepAlive
          /\ wire'[i].length >= 0 \/ wire'[i].chunked
    BY <1>6, <1>9 DEF Lasting
  <2>2. m.keepAlive => m.length >= 0 \/ m.chunked
    BY <1>1, <1>4
  <2>3. ~(Top' = "flushing" \/ state' = "Flushing") /\ ~MayWriteNext'
    BY <1>2 DEF MayWriteNext, Receiving
  <2>4. QED
    BY <1>6, <2>1, <2>2, <2>3 DEF Persists
<1>17. Params'
  BY <1>2 DEF Promises, Params, Receiving
<1>18. QED
  BY <1>10, <1>11, <1>12, <1>13, <1>14, <1>15, <1>16, <1>17 DEF Promises

LEMMA WriteHeadersPromises ==
  ASSUME Inductive, Promises, NEW h \in HeaderSets, WriteHeaders(h)
  PROVE  Promises'
<1>1. WriteHead(h, resp.length) /\ resp.length \in Int
  BY DEF WriteHeaders, Inductive, TypeOK, Response
<1>2. Top \in {"idle", "requestReady"}
  BY <1>1, AnswersFrom DEF WriteHeaders, WriteHead, HeadIsDue, AppHolds
<1>3. Top' = "sendingContent"
  BY <1>2, Entered, CallIsFrame
     DEF WriteHeaders, Inductive, TypeOK, Frames, Suspended
<1>4. QED
  BY <1>1, <1>2, <1>3, WriteHeadPromises

LEMMA WriteResponsePromises ==
  ASSUME Inductive, Promises, NEW h \in HeaderSets, NEW n \in Sizes,
         WriteResponse(h, n)
  PROVE  Promises'
<1> DEFINE tail == [at |-> "writeResponseTail", req |-> Intended, size |-> n]
<1>1. WriteHead(h, n) /\ n \in Int /\ n \in Nat
  BY SizesAssumption DEF WriteResponse
<1>2. Top \in {"idle", "requestReady"}
  BY <1>1, AnswersFrom DEF WriteResponse, WriteHead, HeadIsDue, AppHolds
<1>3. tail \in Frame /\ tail.at = "writeResponseTail"
  BY <1>1, IntendedTyped DEF Frame, Frames
<1>4. stack' = <<Call("sendingContent"), tail>> \o stack
  BY DEF WriteResponse
<1> HIDE DEF tail
<1>5. Top' = "sendingContent"
  BY <1>2, <1>3, <1>4, EnteredTwo, CallIsFrame
     DEF Inductive, TypeOK, Frames, Suspended
<1>6. QED
  BY <1>1, <1>2, <1>5, WriteHeadPromises

(***************************************************************************)
(* Steps that add to the last message, or end it.                          *)
(***************************************************************************)

\* r becomes s: the same message, with n more octets.
Grown(r, s, n) ==
  /\ s.kind = r.kind /\ s.req = r.req
  /\ s.length = r.length /\ s.chunked = r.chunked
  /\ s.keepAlive = r.keepAlive
  /\ s.body + s.foreign = r.body + r.foreign + n

LEMMA GrownMessage ==
  ASSUME NEW m \in Message, NEW n \in Nat
  PROVE  /\ Grown(m, [m EXCEPT !.body = @ + n], n)
         /\ [m EXCEPT !.body = @ + n].ended = m.ended
         /\ Grown(m, [m EXCEPT !.foreign = @ + n], n)
         /\ [m EXCEPT !.foreign = @ + n].ended = m.ended
         /\ Grown(m, [m EXCEPT !.ended = TRUE], 0)
         /\ [m EXCEPT !.ended = TRUE].ended
<1>1. /\ Grown(m, [m EXCEPT !.body = @ + n], n)
      /\ [m EXCEPT !.body = @ + n].ended = m.ended
  BY DEF Grown, Message
<1>2. /\ Grown(m, [m EXCEPT !.foreign = @ + n], n)
      /\ [m EXCEPT !.foreign = @ + n].ended = m.ended
  BY DEF Grown, Message
<1>3. /\ Grown(m, [m EXCEPT !.ended = TRUE], 0)
      /\ [m EXCEPT !.ended = TRUE].ended
  BY DEF Grown, Message
<1>4. QED
  BY <1>1, <1>2, <1>3

\* The last of the messages is replaced.
LEMMA ReplacedLast ==
  ASSUME NEW w \in Seq(Message), w # <<>>, NEW m
  PROVE  /\ Len([w EXCEPT ![Len(w)] = m]) = Len(w)
         /\ Len(w) \in Nat \ {0}
         /\ [w EXCEPT ![Len(w)] = m][Len(w)] = m
         /\ \A i \in 1 .. Len(w) : i # Len(w) => [w EXCEPT ![Len(w)] = m][i] = w[i]
         /\ w[Len(w)] \in Message
         /\ [w EXCEPT ![Len(w)] = m] # <<>>
  OBVIOUS

\* What the wire looks like when n octets were added to the last message.
LastGrown(n) ==
  /\ Len(wire') = Len(wire)
  /\ wire' # <<>>
  /\ \A i \in 1 .. Len(wire) : i # Len(wire) => wire'[i] = wire[i]
  /\ Grown(Last, Last', n)

LEMMA ContentGrows ==
  ASSUME Inductive, wire # <<>>, NEW n \in Nat,
         \/ wire' = [wire EXCEPT ![Len(wire)].body = @ + n]
         \/ wire' = [wire EXCEPT ![Len(wire)].foreign = @ + n]
  PROVE  LastGrown(n) /\ Last'.ended = Last.ended
<1>1. wire \in Seq(Message)
  BY DEF Inductive, TypeOK
<1> DEFINE m == IF wire' = [wire EXCEPT ![Len(wire)].body = @ + n]
                THEN [Last EXCEPT !.body = @ + n]
                ELSE [Last EXCEPT !.foreign = @ + n]
<1>2. wire' = [wire EXCEPT ![Len(wire)] = m]
  BY DEF Last
<1>3. Last \in Message
  BY <1>1, ReplacedLast DEF Last
<1>4. Grown(Last, m, n) /\ m.ended = Last.ended
  BY <1>3, GrownMessage
<1> HIDE DEF m
<1>5. /\ Len(wire') = Len(wire)
      /\ wire' # <<>>
      /\ \A i \in 1 .. Len(wire) : i # Len(wire) => wire'[i] = wire[i]
      /\ wire'[Len(wire)] = m
  BY <1>1, <1>2, ReplacedLast
<1>6. Last' = m
  BY <1>5 DEF Last
<1>7. QED
  BY <1>4, <1>5, <1>6 DEF LastGrown

LEMMA ResponseEnds ==
  ASSUME Inductive, wire # <<>>,
         wire' = [wire EXCEPT ![Len(wire)].ended = TRUE]
  PROVE  LastGrown(0) /\ Last'.ended
<1>1. wire \in Seq(Message)
  BY DEF Inductive, TypeOK
<1> DEFINE m == [Last EXCEPT !.ended = TRUE]
<1>2. wire' = [wire EXCEPT ![Len(wire)] = m]
  BY DEF Last
<1>3. Last \in Message
  BY <1>1, ReplacedLast DEF Last
<1>4. Grown(Last, m, 0) /\ m.ended
  BY <1>3, GrownMessage
<1> HIDE DEF m
<1>5. /\ Len(wire') = Len(wire)
      /\ wire' # <<>>
      /\ \A i \in 1 .. Len(wire) : i # Len(wire) => wire'[i] = wire[i]
      /\ wire'[Len(wire)] = m
  BY <1>1, <1>2, ReplacedLast
<1>6. Last' = m
  BY <1>5 DEF Last
<1>7. QED
  BY <1>4, <1>5, <1>6 DEF LastGrown

\* Adding to the last response, or ending it, keeps what concerns the other
\* messages.
LEMMA OthersKept ==
  ASSUME Inductive, Promises, wire # <<>>, NEW n, LastGrown(n),
         Last.kind = "response", Honoured(script, Last'),
         Last.ended => Last'.ended,
         UNCHANGED <<script, bufLo>>
  PROVE  /\ LastIsOpen' => OthersOver'
         /\ LengthHonoured'
         /\ \A i \in 1 .. Len(wire) :
              IsResponse(i) /\ wire[i].ended =>
                /\ wire'[i].kind = "response" /\ wire'[i].ended
                /\ wire'[i].req = wire[i].req
         /\ \A i, k \in 1 .. Len(wire') :
              wire'[i].kind = "response" /\ wire'[k].kind = "response" /\ i < k =>
                wire'[i].ended /\ wire'[i].req < wire'[k].req
         /\ \A i \in 1 .. Len(wire') :
              IF wire'[i].keepAlive
              THEN wire'[i].length >= 0 \/ wire'[i].chunked
              ELSE i = Len(wire')
<1>1. /\ Len(wire') = Len(wire) /\ Len(wire) \in Nat \ {0}
      /\ \A i \in 1 .. Len(wire) : i # Len(wire) => wire'[i] = wire[i]
      /\ wire'[Len(wire)] = Last' /\ wire[Len(wire)] = Last
  <2>1. wire \in Seq(Message) /\ wire # <<>>
    BY DEF Inductive, TypeOK
  <2>2. Len(wire) \in Nat \ {0}
    BY <2>1
  <2>3. QED
    BY <2>2 DEF LastGrown, Last
<1>2. /\ Last'.kind = "response" /\ Last'.req = Last.req
      /\ Last'.length = Last.length /\ Last'.chunked = Last.chunked
      /\ Last'.keepAlive = Last.keepAlive
  BY DEF LastGrown, Grown
<1>3. LastIsOpen' => OthersOver'
  BY <1>1 DEF Promises, OthersOver, IsResponse
<1>4. LengthHonoured'
  <2>1. \A i \in 1 .. Len(wire) : IsResponse(i) => Honoured(script, wire[i])
    BY HonouredNow DEF Promises
  <2>2. \A i \in 1 .. Len(wire') :
          wire'[i].kind = "response" => Honoured(script', wire'[i])
    BY <1>1, <2>1 DEF IsResponse
  <2>3. QED
    BY <2>2, HonouredThen
<1>5. ASSUME NEW i \in 1 .. Len(wire), IsResponse(i), wire[i].ended
      PROVE  /\ wire'[i].kind = "response" /\ wire'[i].ended
             /\ wire'[i].req = wire[i].req
  BY <1>1, <1>2, <1>5 DEF IsResponse
<1>6. ASSUME NEW i \in 1 .. Len(wire'), NEW k \in 1 .. Len(wire'),
             wire'[i].kind = "response", wire'[k].kind = "response", i < k
      PROVE  wire'[i].ended /\ wire'[i].req < wire'[k].req
  <2>1. /\ i # Len(wire) /\ wire'[i] = wire[i]
        /\ wire[k].kind = "response" /\ wire'[k].req = wire[k].req
    BY <1>1, <1>2, <1>6
  <2>2. wire[i].ended /\ wire[i].req < wire[k].req
    BY <1>1, <1>6, <2>1 DEF Promises, OneAtATime
  <2>3. QED
    BY <2>1, <2>2
<1>7. ASSUME NEW i \in 1 .. Len(wire')
      PROVE  IF wire'[i].keepAlive
             THEN wire'[i].length >= 0 \/ wire'[i].chunked
             ELSE i = Len(wire')
  BY <1>1, <1>2 DEF Promises, Persists
<1>8. QED
  BY <1>1, <1>3, <1>4, <1>5, <1>6, <1>7

\* Content is written only to the current response, and never more of it than
\* was announced.
LEMMA PutContentPromises ==
  ASSUME Inductive, Promises, NEW n \in Nat, NEW owner, NEW rest,
         PutContent(n, owner, rest),
         Top' \in Suspended \cup {"idle", "completed"},
         Top' = "completed" => resp.sent + n = resp.length
  PROVE  Promises'
<1>1. /\ state = "SendingContent" /\ state' = "SendingContent"
      /\ UNCHANGED <<delivered, answered, script, bufLo, fieldsOf, paramsOf,
                     nread>>
      /\ ~ContentRefused(n)
      /\ resp' = [resp EXCEPT !.sent = resp.sent + n]
  BY DEF PutContent, inputVars, requestVars
<1>2. /\ wire # <<>>
      /\ Last.kind = "response" /\ Last.req = Current /\ ~Last.ended
      /\ Last.length = resp.length /\ Last.chunked = resp.chunked
      /\ Last.keepAlive = resp.keepAlive
      /\ Last.body + Last.foreign = resp.sent
  BY <1>1 DEF Promises, UnderWay, HeadWritten
<1>3. LastGrown(n) /\ Last'.ended = Last.ended
  BY <1>2, ContentGrows DEF PutContent
<1>4. /\ Last'.kind = "response" /\ Last'.req = Current
      /\ Last'.length = resp.length /\ Last'.chunked = resp.chunked
      /\ Last'.keepAlive = resp.keepAlive
      /\ Last'.body + Last'.foreign = resp.sent + n
      /\ ~Last'.ended
  BY <1>2, <1>3 DEF LastGrown, Grown
<1>5. /\ resp'.sent = resp.sent + n /\ resp'.length = resp.length
      /\ resp'.chunked = resp.chunked /\ resp'.keepAlive = resp.keepAlive
      /\ resp.sent \in Nat /\ resp.length \in Int
  BY <1>1 DEF Inductive, TypeOK, Response
<1>6. fieldsOf = Current /\ Current' = Current
  BY <1>1 DEF Inductive, RequestViewIntact, AppHolds, Current
<1>7. Honoured(script, Last')
  <2>1. /\ ~RequestAt(Current).head
        /\ resp.length # 0
        /\ resp.length > 0 => resp.sent + n <= resp.length
    BY <1>1, <1>5, <1>6 DEF ContentRefused
  <2>2. QED
    BY <1>4, <1>5, <2>1 DEF Honoured, RequestAt
<1>8. LastIsOpen'
  BY <1>1 DEF LastIsOpen, HeadWritten
<1>9. Counts'
  BY <1>1 DEF Promises, Counts, AllAnswered, AppHolds, Completing, LettingGo,
              Suspended
<1>10. UnderWay'
  BY <1>3, <1>4, <1>5, <1>6 DEF UnderWay, LastGrown
<1>11. Progress' /\ Emitting' /\ Over'
  BY <1>1, <1>5, <1>6
     DEF Progress, Emitting, Over, NothingMissing, Promises, AppHolds,
         Completing, Suspended
<1>12. OthersOver' /\ LengthHonoured'
  BY <1>1, <1>2, <1>3, <1>7, <1>8, OthersKept
<1>13. OneAtATime'
  <2>1. \A i \in 1 .. Len(wire) :
          IsResponse(i) /\ wire[i].ended =>
            /\ wire'[i].kind = "response" /\ wire'[i].ended
            /\ wire'[i].req = wire[i].req
    BY <1>1, <1>2, <1>3, <1>7, OthersKept
  <2>2. \A i, k \in 1 .. Len(wire') :
          wire'[i].kind = "response" /\ wire'[k].kind = "response" /\ i < k =>
            wire'[i].ended /\ wire'[i].req < wire'[k].req
    BY <1>1, <1>2, <1>3, <1>7, OthersKept
  <2>3. \A i \in 1 .. answered : \E m \in 1 .. Len(wire') :
          /\ wire'[m].kind = "response"
          /\ wire'[m].req = delivered[i]
          /\ wire'[m].ended
    BY <1>3, <2>1 DEF Promises, OneAtATime, IsResponse, LastGrown
  <2>4. QED
    BY <1>1, <2>2, <2>3 DEF Promises, OneAtATime
<1>14. Persists'
  <2>1. \A i \in 1 .. Len(wire') :
          IF wire'[i].keepAlive
          THEN wire'[i].length >= 0 \/ wire'[i].chunked
          ELSE i = Len(wire')
    BY <1>1, <1>2, <1>3, <1>7, OthersKept
  <2>2. ~(Top' = "flushing" \/ state' = "Flushing") /\ ~MayWriteNext'
    BY <1>1 DEF MayWriteNext, Receiving, Suspended
  <2>3. QED
    BY <2>1, <2>2 DEF Persists
<1>15. Params'
  BY <1>1 DEF Promises, Params, Receiving, Suspended
<1>16. QED
  BY <1>9, <1>10, <1>11, <1>12, <1>13, <1>14, <1>15 DEF Promises

LEMMA WriteContentPromises ==
  ASSUME Inductive, Promises, NEW n \in Sizes, WriteContent(n)
  PROVE  Promises'
<1>1. PutContent(n, Intended, stack) /\ n \in Nat
  BY SizesAssumption DEF WriteContent
<1>2. Top \in {"idle", "requestReady"}
  BY <1>1, AnswersFrom DEF WriteContent, PutContent, AppHolds
<1>3. \/ stack' = <<Call("completed")>> \o stack /\ resp.sent + n = resp.length
      \/ stack' = stack
  BY <1>1 DEF PutContent
<1>4. /\ Top' \in Suspended \cup {"idle", "completed"}
      /\ Top' = "completed" => resp.sent + n = resp.length
  <2>1. CASE stack' = stack
    BY <1>2, <2>1, SameStack DEF Suspended
  <2>2. CASE /\ stack' = <<Call("completed")>> \o stack
             /\ resp.sent + n = resp.length
    BY <1>2, <2>2, Entered, CallIsFrame
       DEF Enter, Inductive, TypeOK, Frames, Suspended
  <2>3. QED
    BY <1>3, <2>1, <2>2
<1>5. QED
  BY <1>1, <1>4, PutContentPromises

LEMMA WriteResponseTailPromises ==
  ASSUME Inductive, Promises, WriteResponseTail
  PROVE  Promises'
<1>1. Top = "writeResponseTail" /\ stack # <<>>
  BY FunctionRuns DEF WriteResponseTail
<1> DEFINE n == Head(stack).size
<1>2. n \in Nat
  BY <1>1, DropHead DEF Inductive, TypeOK, Frame
<1>3. CASE PutContent(n, Head(stack).req, Tail(stack))
  <2>1. \/ Become(Call("completed")) /\ resp.sent + n = resp.length
        \/ Return
    BY <1>3 DEF PutContent, Become, Return
  <2>2. /\ Top' \in Suspended \cup {"idle", "completed"}
        /\ Top' = "completed" => resp.sent + n = resp.length
    <3>1. CASE Return
      BY <1>1, <3>1, Returned DEF Inductive, TypeOK, Suspended
    <3>2. CASE Become(Call("completed")) /\ resp.sent + n = resp.length
      BY <1>1, <3>2, Became, CallIsFrame DEF Inductive, TypeOK, Frames
    <3>3. QED
      BY <2>1, <3>1, <3>2
  <2>3. QED
    BY <1>2, <1>3, <2>2, PutContentPromises
<1>4. CASE Return /\ UNCHANGED <<state, attached, inputVars, requestVars,
                                 outputVars, worldVars, historyVars, crashed>>
  BY <1>1, <1>4, ReturnPromises
     DEF Messages, inputVars, requestVars, outputVars, historyVars
<1>5. QED
  BY <1>3, <1>4 DEF WriteResponseTail

\* A response ends when nothing of it is missing.
LEMMA TransitionToCompletedPromises ==
  ASSUME Inductive, Promises, TransitionToCompleted
  PROVE  Promises'
<1>1. /\ stack # <<>> /\ Top = "completed" /\ state = "SendingContent"
      /\ state' = "Completed"
      /\ answered' = answered + 1
      /\ wire' = [wire EXCEPT ![Len(wire)].ended = TRUE]
      /\ UNCHANGED <<delivered, script, bufLo, fieldsOf, paramsOf, nread, resp,
                     reqLen>>
  BY FunctionRuns
     DEF TransitionToCompleted, Inductive, CalledIn, inputVars, requestVars,
         outputVars
<1>2. /\ wire # <<>>
      /\ Last.kind = "response" /\ Last.req = Current /\ ~Last.ended
      /\ Last.length = resp.length /\ Last.chunked = resp.chunked
      /\ Last.keepAlive = resp.keepAlive
      /\ Last.body + Last.foreign = resp.sent
  BY <1>1 DEF Promises, UnderWay, HeadWritten
<1>3. LastGrown(0) /\ Last'.ended
  BY <1>1, <1>2, ResponseEnds
<1>4. resp.sent \in Nat /\ Len(wire) \in Nat \ {0} /\ Len(delivered) \in Nat
  BY <1>2 DEF Inductive, TypeOK, Response
<1>5. /\ Last'.kind = "response" /\ Last'.req = Current
      /\ Last'.length = resp.length
      /\ Last'.keepAlive = resp.keepAlive
      /\ Last'.body + Last'.foreign = resp.sent
      /\ Last' = wire'[Len(wire)]
  <2>1. Last'.body + Last'.foreign = resp.sent + 0
    BY <1>2, <1>3 DEF LastGrown, Grown
  <2>2. Last'.body + Last'.foreign = resp.sent
    BY <1>4, <2>1
  <2>3. QED
    BY <1>2, <1>3, <2>2 DEF LastGrown, Grown, Last
<1>6. fieldsOf = Current /\ Current' = Current
  BY <1>1 DEF Inductive, RequestViewIntact, AppHolds, Current
<1>7. Top' = "requestCompleted" /\ Emitting'
  <2>1. /\ [at |-> "requestCompleted", req |-> fieldsOf, size |-> 0] \in Frame
        /\ Call("completedTail") \in Frame
        /\ Call("completedTail").at = "completedTail"
    BY CallIsFrame DEF Inductive, TypeOK, Frame, Frames, AppFrames
  <2>2. Top' = "requestCompleted"
    BY <1>1, <2>1, BecameTwo DEF TransitionToCompleted, Inductive, TypeOK
  <2>3. Len(stack') >= 2 /\ stack'[2].at = "completedTail"
    <3>1. Tail(stack) \in Seq(Frame) /\ Len(Tail(stack)) \in Nat
      BY <1>1, DropHead DEF Inductive, TypeOK
    <3>2. QED
      BY <2>1, <3>1, PrependTwo DEF TransitionToCompleted
  <2>4. QED
    BY <2>2, <2>3 DEF Emitting
<1>8. Honoured(script, Last')
  <2>1. \/ resp.length < 0 \/ RequestAt(Current).head
        \/ resp.sent = resp.length
    BY <1>1, <1>6 DEF Promises, Progress, NothingMissing
  <2>2. RequestAt(Current).head => resp.sent = 0
    <3>1. Honoured(script, Last)
      <4>1. Len(wire) \in 1 .. Len(wire)
        BY <1>4
      <4>2. QED
        BY <1>2, <4>1, HonouredNow DEF Promises, IsResponse, Last
    <3>2. QED
      BY <1>2, <3>1 DEF Honoured, RequestAt
  <2>3. resp.length \in Int
    BY DEF Inductive, TypeOK, Response
  <2>4. QED
    BY <1>4, <1>5, <2>1, <2>2, <2>3 DEF Honoured, RequestAt
<1>9. LastIsOpen'
  BY <1>7 DEF LastIsOpen, Completing
<1>10. AppHolds /\ Len(delivered) = answered + 1 /\ answered \in Nat
  BY <1>1 DEF Promises, Counts, AppHolds, Inductive, TypeOK
<1>11. Counts'
  BY <1>1, <1>10 DEF Counts, AppHolds
<1>12. UnderWay' /\ Progress'
  BY <1>1, <1>7 DEF UnderWay, HeadWritten, Progress, AppHolds
<1>13. Over'
  BY <1>1, <1>3, <1>5, <1>6 DEF Over, LastGrown
<1>14. OthersOver' /\ LengthHonoured'
  BY <1>1, <1>2, <1>3, <1>8, <1>9, OthersKept
<1>15. OneAtATime'
  <2>1. \A i \in 1 .. Len(wire) :
          IsResponse(i) /\ wire[i].ended =>
            /\ wire'[i].kind = "response" /\ wire'[i].ended
            /\ wire'[i].req = wire[i].req
    BY <1>1, <1>2, <1>3, <1>8, OthersKept
  <2>2. \A i, k \in 1 .. Len(wire') :
          wire'[i].kind = "response" /\ wire'[k].kind = "response" /\ i < k =>
            wire'[i].ended /\ wire'[i].req < wire'[k].req
    BY <1>1, <1>2, <1>3, <1>8, OthersKept
  <2>3. delivered[answered + 1] = Current
    BY <1>1, <1>10 DEF Inductive, Positions, AppHolds, CurrentDelivered
  <2>4. ASSUME NEW i \in 1 .. answered'
        PROVE  \E m \in 1 .. Len(wire') :
                 /\ wire'[m].kind = "response"
                 /\ wire'[m].req = delivered'[i]
                 /\ wire'[m].ended
    <3>1. CASE i \in 1 .. answered
      BY <1>1, <1>3, <2>1, <3>1
         DEF Promises, OneAtATime, IsResponse, LastGrown
    <3>2. CASE i = answered + 1
      <4>1. Len(wire) \in 1 .. Len(wire')
        BY <1>3, <1>4 DEF LastGrown
      <4>2. QED
        BY <1>1, <1>3, <1>5, <2>3, <3>2, <4>1
    <3>3. QED
      BY <1>1, <1>10, <3>1, <3>2
  <2>5. answered' <= Len(delivered') /\ Len(delivered') <= answered' + 1
    BY <1>1, <1>10
  <2>6. QED
    BY <2>2, <2>4, <2>5 DEF OneAtATime
<1>16. Persists'
  <2>1. \A i \in 1 .. Len(wire') :
          IF wire'[i].keepAlive
          THEN wire'[i].length >= 0 \/ wire'[i].chunked
          ELSE i = Len(wire')
    BY <1>1, <1>2, <1>3, <1>8, OthersKept
  <2>2. ~(Top' = "flushing" \/ state' = "Flushing") /\ ~MayWriteNext'
    BY <1>1, <1>7 DEF MayWriteNext, Receiving
  <2>3. QED
    BY <2>1, <2>2 DEF Persists
<1>17. Params'
  BY <1>1, <1>7 DEF Promises, Params, Receiving
<1>18. QED
  BY <1>7, <1>11, <1>12, <1>13, <1>14, <1>15, <1>16, <1>17 DEF Promises

(***************************************************************************)
(* Steps from one request to the next.                                     *)
(***************************************************************************)

\* The completed response's request leaves the buffer.
LEMMA CompletedTailPromises ==
  ASSUME Inductive, Promises, CompletedTail
  PROVE  Promises'
<1>1. /\ Top = "completedTail" /\ stack # <<>>
      /\ state \in {"Completed", "Closed"}
      /\ state' \in {"Completed", "Closed"}
      /\ bufLo' = NextInBuffer
      /\ fieldsOf' = 0 /\ paramsOf' = 0
      /\ UNCHANGED <<script, delivered, answered, wire>>
  BY FunctionRuns DEF CompletedTail, ForgetRequest, TransitionToClosed,
                      Inductive, CalledIn, Completing, inputVars, historyVars
<1>2. \/ resp.keepAlive /\ Top' = "receivingHeaders"
      \/ ~resp.keepAlive /\ Top' = "flushing"
  BY <1>1, Became, CallIsFrame DEF CompletedTail, Inductive, TypeOK, Frames
<1>3. /\ wire # <<>>
      /\ Last.kind = "response" /\ Last.req = Current /\ Last.ended
      /\ Last.keepAlive = resp.keepAlive
  BY <1>1 DEF Promises, Over, Completing
<1>4. Current <= bufLo' /\ bufLo <= bufLo'
  <2>1. CurrentDelivered
    BY <1>1 DEF Inductive, Positions, Completing
  <2>2. {bufHi, bufLo, nread} \subseteq Nat /\ reqLen \in Int
    BY DEF Inductive, TypeOK
  <2>3. QED
    BY <1>1, <2>1, <2>2 DEF CurrentDelivered, NextInBuffer, Current
<1>5. Counts'
  BY <1>1, <1>2 DEF Promises, Counts, AllAnswered, AppHolds, Completing
<1>6. UnderWay' /\ Progress' /\ Emitting' /\ Over'
  BY <1>1, <1>2, <1>3
     DEF UnderWay, HeadWritten, Progress, AppHolds, Emitting, Over, Completing
<1>7. OthersOver'
  <2>1. ASSUME NEW m \in 1 .. Len(wire), IsResponse(m)
        PROVE  wire[m].ended /\ wire[m].req <= bufLo'
    <3>1. wire[m] \in Message
      BY DEF Inductive, TypeOK
    <3>2. /\ wire[m].req \in Nat
          /\ {bufLo, Current, bufHi} \subseteq Nat /\ reqLen \in Int
      <4>1. wire[m].req \in Nat
        BY <3>1 DEF Message
      <4>2. {bufLo, Current, bufHi} \subseteq Nat /\ reqLen \in Int
        BY DEF Inductive, TypeOK, Current
      <4>3. QED
        BY <4>1, <4>2
    <3>3. bufLo' \in Int
      BY <1>1, <3>2 DEF NextInBuffer
    <3>4. CASE m = Len(wire)
      BY <1>3, <1>4, <3>4 DEF Last
    <3>5. CASE m # Len(wire)
      <4>1. wire[m].ended /\ wire[m].req <= bufLo
        BY <2>1, <3>5 DEF Promises, OthersOver
      <4>2. QED
        BY <1>4, <3>2, <3>3, <4>1
    <3>6. QED
      BY <3>4, <3>5
  <2>2. QED
    BY <1>1, <2>1 DEF OthersOver, IsResponse
<1>8. OneAtATime'
  BY <1>1 DEF Promises, OneAtATime
<1>9. LengthHonoured'
  BY <1>1 DEF Promises, LengthHonoured, RequestAt
<1>10. Persists'
  <2>1. Last' = Last /\ state' # "Flushing"
    BY <1>1 DEF Last
  <2>2. Top' = "flushing" => ~Last'.keepAlive
    BY <1>2, <1>3, <2>1
  <2>3. MayWriteNext' => Last'.keepAlive
    BY <1>1, <1>2, <1>3, <2>1 DEF MayWriteNext, Receiving
  <2>4. QED
    BY <1>1, <1>3, <2>1, <2>2, <2>3 DEF Promises, Persists
<1>11. Params'
  BY <1>1 DEF Params
<1>12. QED
  BY <1>5, <1>6, <1>7, <1>8, <1>9, <1>10, <1>11 DEF Promises

\* A request is delivered once those before it are answered.
LEMMA TransitionToSendingHeadersPromises ==
  ASSUME Inductive, Promises, TransitionToSendingHeaders
  PROVE  Promises'
<1>1. /\ Top = "sendingHeaders" /\ stack # <<>> /\ state = "ReceivingContent"
      /\ state' = "SendingHeaders"
      /\ fieldsOf' = Current
      /\ resp' = UnknownResponse
      /\ delivered' = Append(delivered, Current)
      /\ UNCHANGED <<script, bufLo, nread, paramsOf, answered, wire>>
  BY FunctionRuns DEF TransitionToSendingHeaders, Inductive, CalledIn, inputVars
<1>2. HeadParsed
  BY <1>1 DEF Inductive, Positions, GivingUp
<1>3. Current \in 1 .. Len(script) /\ Current' = Current /\ bufLo < Current
  <2>1. bufLo < Current /\ Current <= bufHi
    BY <1>2 DEF HeadParsed
  <2>2. Current' = Current
    BY <1>1 DEF Current
  <2>3. bufLo \in Nat /\ nread \in Nat /\ bufHi \in Nat /\ bufHi <= Len(script)
    BY DEF Inductive, TypeOK
  <2>4. Len(script) \in Nat /\ Current \in Int
    BY <2>3 DEF Inductive, TypeOK, Current
  <2>5. QED
    BY <2>1, <2>2, <2>3, <2>4
<1>4. Top' = "requestReady"
  <2>1. [at |-> "requestReady", req |-> Current, size |-> 0] \in Frame
    BY <1>3 DEF Frame, Frames, AppFrames, Inductive, TypeOK
  <2>2. QED
    BY <1>1, <2>1, Became DEF TransitionToSendingHeaders, Inductive, TypeOK
<1>5. /\ Len(delivered') = Len(delivered) + 1
      /\ Len(delivered) \in Nat
      /\ \A i \in 1 .. Len(delivered) : delivered'[i] = delivered[i]
  <2>1. delivered \in Seq(1 .. Len(script))
    BY DEF Inductive, TypeOK
  <2>2. QED
    BY <1>1, <1>3, <2>1, Appended
<1>6. Len(delivered) = answered
  BY <1>1 DEF Promises, Counts, AllAnswered, AppHolds
<1>7. Counts'
  BY <1>1, <1>4, <1>5, <1>6
     DEF Counts, AllAnswered, AppHolds, Completing, LettingGo
<1>8. UnderWay' /\ Over' /\ Emitting'
  BY <1>1, <1>4 DEF UnderWay, HeadWritten, Over, Completing, Emitting
<1>9. Progress'
  BY <1>1, <1>3, <1>4 DEF Progress, UnknownResponse
<1>10. ~LastIsOpen
  BY <1>1 DEF LastIsOpen, HeadWritten, Completing
<1>11. OthersOver'
  BY <1>1, <1>10 DEF Promises, OthersOver, IsResponse
<1>12. OneAtATime'
  <2>1. answered' <= Len(delivered') /\ Len(delivered') <= answered' + 1
    BY <1>1, <1>5, <1>6
  <2>2. \A i \in 1 .. answered : delivered'[i] = delivered[i]
    BY <1>5, <1>6
  <2>3. ASSUME NEW i \in 1 .. answered
        PROVE  \E m \in 1 .. Len(wire) :
                 /\ wire[m].kind = "response"
                 /\ wire[m].req = delivered'[i]
                 /\ wire[m].ended
    <3>1. PICK m \in 1 .. Len(wire) : /\ wire[m].kind = "response"
                                     /\ wire[m].req = delivered[i]
                                     /\ wire[m].ended
      BY DEF Promises, OneAtATime
    <3>2. QED
      BY <2>2, <3>1
  <2>4. QED
    BY <1>1, <2>1, <2>3 DEF Promises, OneAtATime
<1>13. LengthHonoured'
  BY <1>1 DEF Promises, LengthHonoured, RequestAt
<1>14. Persists'
  <2>1. Last' = Last /\ MayWriteNext
    BY <1>1 DEF Last, MayWriteNext, Receiving
  <2>2. QED
    BY <1>1, <1>4, <2>1 DEF Promises, Persists
<1>15. Params'
  BY <1>1, <1>4 DEF Promises, Params, Receiving
<1>16. QED
  BY <1>7, <1>8, <1>9, <1>11, <1>12, <1>13, <1>14, <1>15 DEF Promises

LEMMA InitializePromises ==
  ASSUME Inductive, Promises, NEW s \in Scripts, NEW k \in 0 .. Len(s),
         Initialize(s, k)
  PROVE  Promises'
<1>1. Top' = "idle"
  BY LoopRuns, SameStack DEF Initialize
<1>2. /\ state' = "ReceivingHeaders"
      /\ delivered' = <<>> /\ answered' = 0 /\ wire' = <<>>
      /\ fieldsOf' = 0 /\ paramsOf' = 0
  BY DEF Initialize, DropLeftovers
<1>3. Counts' /\ UnderWay' /\ Progress' /\ Emitting' /\ Over'
  BY <1>1, <1>2
     DEF Counts, UnderWay, Progress, Emitting, Over, AppHolds, HeadWritten,
         Completing
<1>4. OthersOver' /\ OneAtATime' /\ LengthHonoured'
  BY <1>2 DEF OthersOver, OneAtATime, LengthHonoured
<1>5. Persists' /\ Params'
  BY <1>1, <1>2 DEF Persists, Params
<1>6. QED
  BY <1>3, <1>4, <1>5 DEF Promises

(***************************************************************************)
(* The promises hold.                                                      *)
(***************************************************************************)

LEMMA InitPromises ==
  ASSUME Init
  PROVE  Promises
<1>1. Top = "idle"
  BY DEF Init, Top
<1>2. Counts /\ UnderWay /\ Progress /\ Emitting /\ Over
  BY <1>1 DEF Init, Counts, UnderWay, Progress, Emitting, Over, AppHolds,
              HeadWritten, Completing
<1>3. OthersOver /\ OneAtATime /\ LengthHonoured
  BY DEF Init, OthersOver, OneAtATime, LengthHonoured
<1>4. Persists /\ Params
  BY <1>1 DEF Init, Persists, Params
<1>5. QED
  BY <1>2, <1>3, <1>4 DEF Promises

LEMMA PromisesStep ==
  ASSUME Inductive, Promises, [Next]_vars
  PROVE  Promises'
<1>1. CASE UNCHANGED vars
  BY <1>1, StutteringPromises
<1>2. CASE Application
  BY <1>2, WriteHeadersPromises, WriteResponsePromises, WriteContentPromises,
     EndContentPromises, ClosePromises, FlushPromises, RequestParamsPromises,
     StopListeningPromises DEF Application
<1>3. CASE Device
  BY <1>3, InitializePromises, ReadyReadPromises, PeerClosesPromises DEF Device
<1>4. CASE PumpTimer \/ DeviceWrites \/ HandlerReturns
  BY <1>4, PumpTimerPromises, DeviceWritesPromises, HandlerReturnsPromises
<1>5. CASE Internal
  BY <1>5, ProcessInputIdlePromises, ProcessInputCrashPromises,
     ParseHeadersPromises, TransitionToReceivingContentPromises,
     PumpContentPromises, TransitionToSendingHeadersPromises,
     WriteRequestErrorResponsePromises, TransitionToSendingContentPromises,
     SendingContentTailPromises, WriteResponseTailPromises,
     TransitionToCompletedPromises, CompletedTailPromises,
     TransitionToReceivingHeadersPromises, TransitionToFlushingPromises
     DEF Internal
<1>6. QED
  BY <1>1, <1>2, <1>3, <1>4, <1>5 DEF Next

(***************************************************************************)
(* The connection keeps its devices.                                       *)
(***************************************************************************)

InUse == state \notin {"Uninitialized", "Closed"}

\* A step of a connection that is, and stays, in use.
LEMMA DevicesUsed ==
  ASSUME Devices, InUse, InUse', UNCHANGED <<attached, crashed>>
  PROVE  Devices'
  BY DEF Devices, DeviceInUse, InUse

\* A step that does not touch the devices and completes no response.
LEMMA DevicesAlone ==
  ASSUME Devices, UNCHANGED <<state, attached, crashed>>,
         Completing' \/ LettingGo' => Completing \/ LettingGo
  PROVE  Devices'
  BY DEF Devices, DeviceInUse

LEMMA StackAloneDevices ==
  ASSUME Inductive, Devices, UNCHANGED <<state, attached, crashed, stack>>
  PROVE  Devices'
<1>1. Top' = Top
  BY SameStack
<1>2. QED
  BY <1>1, DevicesAlone DEF Completing, LettingGo

LEMMA ReturnDevices ==
  ASSUME Inductive, Devices, stack # <<>>, Return,
         UNCHANGED <<state, attached, crashed>>
  PROVE  Devices'
<1>1. \/ Top' \in Suspended \cup {"idle"}
      \/ Top = "requestCompleted" /\ Top' = "completedTail"
  BY Returned DEF Inductive, TypeOK
<1>2. QED
  BY <1>1, DevicesAlone DEF Completing, LettingGo, Suspended

LEMMA InputDevices ==
  ASSUME Inductive, Devices, EventLoop, Enter(Call("processInput")),
         UNCHANGED <<state, attached, crashed>>
  PROVE  Devices'
<1>1. Top' = "processInput"
  BY LoopRuns, Entered, CallIsFrame DEF Inductive, TypeOK, Frames
<1>2. QED
  BY <1>1, DevicesAlone DEF Completing, LettingGo

\* The connection closes, but not under transitionToCompleted().
LEMMA ClosingDevices ==
  ASSUME Inductive, Devices, TransitionToClosed, UNCHANGED <<stack, crashed>>,
         Top \in {"idle", "requestReady", "requestCompleted"},
         state \in {"Completed", "Closed"} =>
           Top # "requestCompleted" \/ CloseInCompleted \/ AbortInFlush
  PROVE  Devices'
<1>1. Top' = Top
  BY SameStack
<1>2. Top = "requestCompleted" => state \in {"Completed", "Closed"}
  BY DEF Inductive, CalledIn, Completing
<1>3. QED
  BY <1>1, <1>2
     DEF Devices, DeviceInUse, TransitionToClosed, Completing, LettingGo

LEMMA BytesWrittenDevices ==
  ASSUME Inductive, Devices, BytesWritten,
         Top \in {"idle", "requestReady", "requestCompleted"}
  PROVE  Devices'
<1>1. CASE drainOn /\ state = "Flushing"
  BY <1>1, ClosingDevices DEF BytesWritten
<1>2. CASE ~(drainOn /\ state = "Flushing")
  BY <1>2, StackAloneDevices DEF BytesWritten
<1>3. QED
  BY <1>1, <1>2

LEMMA ApplicationDevices ==
  ASSUME Inductive, Devices, Application
  PROVE  Devices'
<1>1. ASSUME NEW h \in HeaderSets, NEW known, WriteHead(h, known)
      PROVE  Devices'
  BY <1>1, DevicesUsed DEF WriteHead, HeadIsDue, InUse
<1>2. ASSUME NEW n, NEW owner, NEW rest, PutContent(n, owner, rest)
      PROVE  Devices'
  BY <1>2, DevicesUsed DEF PutContent, InUse
<1>3. CASE EndContent
  BY <1>3, DevicesUsed DEF EndContent, InUse
<1>4. CASE Close
  <2>1. Top \in {"idle", "requestReady", "requestCompleted"}
    BY <1>4, ApplicationRuns DEF Close
  <2>2. QED
    BY <1>4, <2>1, ClosingDevices DEF Close
<1>5. CASE Flush
  <2>1. Top \in {"idle", "requestReady", "requestCompleted"}
    BY <1>5, ApplicationRuns DEF Flush
  <2>2. QED
    BY <1>5, <2>1, BytesWrittenDevices, ClosingDevices DEF Flush
<1>6. CASE RequestParams
  BY <1>6, StackAloneDevices DEF RequestParams
<1>7. CASE StopListening
  BY <1>7, StackAloneDevices DEF StopListening
<1>8. QED
  BY <1>1, <1>2, <1>3, <1>4, <1>5, <1>6, <1>7
     DEF Application, WriteHeaders, WriteResponse, WriteContent

LEMMA DeviceDevices ==
  ASSUME Inductive, Devices, Device
  PROVE  Devices'
<1>1. ASSUME NEW s, NEW k, Initialize(s, k)
      PROVE  Devices'
  <2>1. Top' = "idle"
    BY <1>1, LoopRuns, SameStack DEF Initialize
  <2>2. state' = "ReceivingHeaders" /\ attached' = TRUE /\ crashed' = crashed
    BY <1>1 DEF Initialize
  <2>3. QED
    BY <2>1, <2>2 DEF Devices, DeviceInUse, Completing, LettingGo
<1>2. ASSUME NEW k, ReadyRead(k)
      PROVE  Devices'
  BY <1>2, InputDevices DEF ReadyRead
<1>3. CASE PeerCloses
  BY <1>3, LoopRuns, ClosingDevices DEF PeerCloses
<1>4. QED
  BY <1>1, <1>2, <1>3 DEF Device

\* The crash is out of reach of a connection that has its devices.
LEMMA ProcessInputCrashDevices ==
  ASSUME Devices, ProcessInputCrash
  PROVE  Devices'
  BY DEF Devices, DeviceInUse, ProcessInputCrash, Receiving

LEMMA CompletedTailDevices ==
  ASSUME Inductive, Devices, CompletedTail
  PROVE  Devices'
<1>1. Top = "completedTail" /\ crashed' = crashed
  BY FunctionRuns DEF CompletedTail
<1>2. CASE AbortInFlush
  BY <1>2 DEF Devices
<1>3. CASE ~AbortInFlush
  <2>1. UNCHANGED <<state, attached>>
    BY <1>3 DEF CompletedTail
  <2>2. QED
    BY <1>1, <2>1, DevicesAlone DEF Completing
<1>4. QED
  BY <1>2, <1>3

LEMMA TransitionToReceivingHeadersDevices ==
  ASSUME Inductive, Devices, TransitionToReceivingHeaders
  PROVE  Devices'
<1>1. Top = "receivingHeaders" /\ LettingGo
  BY FunctionRuns DEF TransitionToReceivingHeaders, LettingGo
<1>2. QED
  BY <1>1 DEF TransitionToReceivingHeaders, Devices, DeviceInUse

LEMMA TransitionToFlushingDevices ==
  ASSUME Inductive, Devices, TransitionToFlushing
  PROVE  Devices'
<1>1. Top = "flushing" /\ stack # <<>> /\ LettingGo
  BY FunctionRuns DEF TransitionToFlushing, LettingGo
<1>2. Top' \in Suspended \cup {"idle"}
  BY <1>1, Returned DEF TransitionToFlushing, Inductive, TypeOK
<1>3. /\ crashed' = crashed
      /\ state' = "Closed" \/ (state' = "Flushing" /\ attached' = attached)
  BY DEF TransitionToFlushing, TransitionToClosed
<1>4. ~Completing' /\ ~LettingGo'
  BY <1>2 DEF Completing, LettingGo, Suspended
<1>5. QED
  BY <1>1, <1>3, <1>4 DEF Devices, DeviceInUse

LEMMA InternalDevices ==
  ASSUME Inductive, Devices, Internal
  PROVE  Devices'
<1>1. CASE ProcessInputIdle
  BY <1>1, FunctionRuns, ReturnDevices DEF ProcessInputIdle
<1>2. CASE ParseHeaders
  BY <1>2, DevicesUsed DEF ParseHeaders, InUse
<1>3. CASE TransitionToReceivingContent
  <2>1. state = "ReceivingHeaders"
    BY <1>3, FunctionRuns DEF TransitionToReceivingContent, Inductive, CalledIn
  <2>2. QED
    BY <1>3, <2>1, DevicesUsed DEF TransitionToReceivingContent, InUse
<1>4. CASE PumpContent
  BY <1>4, DevicesUsed DEF PumpContent, InUse
<1>5. CASE TransitionToSendingHeaders
  <2>1. state = "ReceivingContent"
    BY <1>5, FunctionRuns DEF TransitionToSendingHeaders, Inductive, CalledIn
  <2>2. QED
    BY <1>5, <2>1, DevicesUsed DEF TransitionToSendingHeaders, InUse
<1>6. CASE WriteRequestErrorResponse
  <2>1. Receiving
    BY <1>6, FunctionRuns DEF WriteRequestErrorResponse, Inductive, CalledIn
  <2>2. QED
    BY <1>6, <2>1, DevicesUsed DEF WriteRequestErrorResponse, InUse, Receiving
<1>7. CASE TransitionToSendingContent
  <2>1. state = "SendingHeaders"
    BY <1>7, FunctionRuns DEF TransitionToSendingContent, Inductive, CalledIn
  <2>2. QED
    BY <1>7, <2>1, DevicesUsed DEF TransitionToSendingContent, InUse
<1>8. CASE SendingContentTail
  BY <1>8, FunctionRuns, ReturnDevices DEF SendingContentTail
<1>9. CASE WriteResponseTail
  <2>1. stack # <<>>
    BY <1>9, FunctionRuns DEF WriteResponseTail
  <2>2. CASE PutContent(Head(stack).size, Head(stack).req, Tail(stack))
    BY <2>2, DevicesUsed DEF PutContent, InUse
  <2>3. CASE Return /\ UNCHANGED <<state, attached, crashed>>
    BY <2>1, <2>3, ReturnDevices
  <2>4. QED
    BY <1>9, <2>2, <2>3 DEF WriteResponseTail
<1>10. CASE TransitionToCompleted
  <2>1. state = "SendingContent"
    BY <1>10, FunctionRuns DEF TransitionToCompleted, Inductive, CalledIn
  <2>2. QED
    BY <1>10, <2>1, DevicesUsed DEF TransitionToCompleted, InUse
<1>11. QED
  BY <1>1, <1>2, <1>3, <1>4, <1>5, <1>6, <1>7, <1>8, <1>9, <1>10,
     ProcessInputCrashDevices, CompletedTailDevices,
     TransitionToReceivingHeadersDevices, TransitionToFlushingDevices
     DEF Internal

LEMMA DevicesStep ==
  ASSUME Inductive, Devices, [Next]_vars
  PROVE  Devices'
<1>1. CASE UNCHANGED vars
  BY <1>1, StackAloneDevices DEF vars
<1>2. CASE PumpTimer
  BY <1>2, InputDevices DEF PumpTimer
<1>3. CASE DeviceWrites
  BY <1>3, LoopRuns, BytesWrittenDevices DEF DeviceWrites
<1>4. CASE HandlerReturns
  BY <1>4, ReturnDevices DEF HandlerReturns
<1>5. QED
  BY <1>1, <1>2, <1>3, <1>4, ApplicationDevices, DeviceDevices,
     InternalDevices DEF Next

(***************************************************************************)
(* Content that is left to write, of handlers that keep to their request.   *)
(***************************************************************************)

\* A writeResponse() that has content left to write.
Waits(frame) == frame.at = "writeResponseTail" /\ frame.size > 0

TailFree == \A i \in 1 .. Len(stack) : ~Waits(stack[i])

\* Handlers keep to their request, and to content that may be sent.
Orderly == ~BodyOnBodiless /\ ~StaleAnswers

\* Nothing waits below the functions that may complete a response.
LEMMA NothingWaits ==
  ASSUME Inductive, Tails, Orderly,
         Top \notin {"writeResponseTail", "sendingContentTail",
                     "sendingContent"}
  PROVE  TailFree
<1>1. SUFFICES ASSUME NEW i \in 1 .. Len(stack), Waits(stack[i])
               PROVE  FALSE
  BY DEF TailFree
<1>2. i = 1
  BY <1>1 DEF Tails, Orderly, Waits
<1>3. stack # <<>> /\ Top = stack[1].at
  BY <1>1, <1>2, DropHead DEF Inductive, TypeOK, Top
<1>4. QED
  BY <1>1, <1>2, <1>3 DEF Waits

LEMMA CallWaitsNot ==
  ASSUME NEW at
  PROVE  ~Waits(Call(at))
  BY DEF Call, Waits

\* Calls other than writeResponse(), and returns, leave nothing waiting.
LEMMA StillNothingWaits ==
  ASSUME stack \in Seq(Frame), TailFree, NEW f \in Frame, ~Waits(f),
         \/ stack' = stack
         \/ stack # <<>> /\ Return
         \/ stack # <<>> /\ Become(f)
         \/ Enter(f)
  PROVE  TailFree'
<1>1. CASE stack' = stack
  BY <1>1 DEF TailFree
<1>2. CASE stack # <<>> /\ Return
  <2>1. /\ Len(stack') = Len(stack) - 1
        /\ Len(stack) \in Nat \ {0}
        /\ \A i \in 1 .. Len(stack) - 1 : stack'[i] = stack[i + 1]
    BY <1>2, DropHead DEF Return
  <2>2. QED
    BY <2>1 DEF TailFree
<1>3. CASE stack # <<>> /\ Become(f)
  <2> DEFINE t == Tail(stack)
  <2>1. /\ t \in Seq(Frame)
        /\ Len(t) = Len(stack) - 1
        /\ Len(stack) \in Nat \ {0}
        /\ \A i \in 1 .. Len(stack) - 1 : t[i] = stack[i + 1]
    BY <1>3, DropHead
  <2>2. stack' = <<f>> \o t
    BY <1>3 DEF Become
  <2> HIDE DEF t
  <2>3. /\ Len(stack') = Len(stack)
        /\ stack'[1] = f
        /\ \A i \in 2 .. Len(stack) : stack'[i] = stack[i]
    BY <2>1, <2>2, Prepend
  <2>4. QED
    BY <2>1, <2>3 DEF TailFree
<1>4. CASE Enter(f)
  <2>1. /\ Len(stack') = Len(stack) + 1
        /\ stack'[1] = f
        /\ \A i \in 2 .. Len(stack) + 1 : stack'[i] = stack[i - 1]
        /\ Len(stack) \in Nat
    BY <1>4, Prepend DEF Enter
  <2>2. QED
    BY <2>1 DEF TailFree
<1>5. QED
  BY <1>1, <1>2, <1>3, <1>4

\* So do a call and the one it leaves pending.
LEMMA NeitherWaits ==
  ASSUME stack \in Seq(Frame), stack # <<>>, TailFree,
         NEW f \in Frame, ~Waits(f), NEW g \in Frame, ~Waits(g),
         stack' = <<f, g>> \o Tail(stack)
  PROVE  TailFree'
<1> DEFINE t == Tail(stack)
<1>1. /\ t \in Seq(Frame)
      /\ Len(t) = Len(stack) - 1
      /\ Len(stack) \in Nat \ {0}
      /\ \A i \in 1 .. Len(stack) - 1 : t[i] = stack[i + 1]
  BY DropHead
<1>2. stack' = <<f, g>> \o t
  OBVIOUS
<1> HIDE DEF t
<1>3. /\ Len(stack') = Len(stack) + 1
      /\ stack'[1] = f /\ stack'[2] = g
      /\ \A i \in 3 .. Len(stack) + 1 : stack'[i] = stack[i - 1]
  BY <1>1, <1>2, PrependTwo
<1>4. ASSUME NEW i \in 1 .. Len(stack')
      PROVE  ~Waits(stack'[i])
  <2>1. CASE i \in {1, 2}
    BY <1>3, <2>1
  <2>2. CASE i \notin {1, 2}
    <3>1. i \in 3 .. Len(stack) + 1 /\ i - 1 \in 1 .. Len(stack)
      BY <1>1, <1>3, <2>2
    <3>2. stack'[i] = stack[i - 1]
      BY <1>3, <3>1
    <3>3. QED
      BY <3>1, <3>2 DEF TailFree
  <2>3. QED
    BY <2>1, <2>2
<1>5. QED
  BY <1>4 DEF TailFree

LEMMA TailsWhenFree ==
  ASSUME TailFree', NoForeignContent'
  PROVE  Tails'
  BY DEF Tails, TailFree, Waits

\* A step that neither writes nor leaves anything to write.
LEMMA QuietTails ==
  ASSUME Inductive, Tails, Orderly,
         Top \notin {"writeResponseTail", "sendingContentTail",
                     "sendingContent"},
         wire' = wire, NEW at \in Frames,
         \/ stack' = stack
         \/ stack # <<>> /\ Return
         \/ stack # <<>> /\ Become(Call(at))
         \/ Enter(Call(at))
  PROVE  Tails'
<1>1. TailFree
  BY NothingWaits
<1>2. TailFree'
  BY <1>1, CallIsFrame, CallWaitsNot, StillNothingWaits DEF Inductive, TypeOK
<1>3. NoForeignContent'
  BY DEF Tails, Orderly, NoForeignContent
<1>4. QED
  BY <1>2, <1>3, TailsWhenFree

\* A message without foreign content is written.
LEMMA NoneForeign ==
  ASSUME Inductive, NoForeignContent, NEW m \in Message, m.foreign = 0,
         wire' = Append(wire, m)
  PROVE  NoForeignContent'
<1>1. /\ Len(wire') = Len(wire) + 1
      /\ Len(wire) \in Nat
      /\ wire'[Len(wire) + 1] = m
      /\ \A i \in 1 .. Len(wire) : wire'[i] = wire[i]
  BY WrittenNext
<1>2. QED
  BY <1>1 DEF NoForeignContent

\* The head of a response has no content.
LEMMA WriteHeadForeign ==
  ASSUME Inductive, NoForeignContent, NEW h \in HeaderSets, NEW known \in Int,
         WriteHead(h, known)
  PROVE  /\ NoForeignContent'
         /\ resp'.length = LengthOf(h, known)
         /\ UNCHANGED <<fieldsOf, script>>
<1> DEFINE length  == LengthOf(h, known)
           chunked == ChunkedOf(h, fieldsOf, length)
           keep    == /\ ClientWantsKeepAlive(fieldsOf)
                      /\ ServerWantsKeepAlive(h, length, chunked)
                      /\ listening
           m == ResponseHead(fieldsOf, length, chunked, keep)
<1>1. length \in Int /\ chunked \in BOOLEAN /\ keep \in BOOLEAN
  <2>1. h \in HeaderSet
    BY HeaderSetsAssumption
  <2>2. length \in Int
    BY <2>1 DEF LengthOf, HeaderSet
  <2>3. chunked \in BOOLEAN
    BY DEF ChunkedOf
  <2>4. QED
    BY <2>2, <2>3
<1>2. /\ resp' = [resp EXCEPT !.length = length, !.chunked = chunked,
                              !.keepAlive = keep]
      /\ wire' = Append(wire, m)
      /\ UNCHANGED <<fieldsOf, script>>
  BY DEF WriteHead, inputVars, requestVars
<1> HIDE DEF length, chunked, keep
<1>3. m \in Message
  BY <1>1, HeadIsMessage DEF Inductive, TypeOK
<1>4. m.foreign = 0
  BY DEF ResponseHead
<1>5. resp'.length = length
  BY <1>2 DEF Inductive, TypeOK, Response
<1> HIDE DEF m
<1>6. NoForeignContent'
  BY <1>2, <1>3, <1>4, NoneForeign
<1>7. QED
  BY <1>2, <1>5, <1>6 DEF length

LEMMA WriteHeadersTails ==
  ASSUME Inductive, Tails, Orderly, NEW h \in HeaderSets, WriteHeaders(h)
  PROVE  Tails'
<1>1. WriteHead(h, resp.length) /\ resp.length \in Int
  BY DEF WriteHeaders, Inductive, TypeOK, Response
<1>2. Top \in {"idle", "requestReady"}
  BY <1>1, AnswersFrom DEF WriteHeaders, WriteHead, HeadIsDue, AppHolds
<1>3. TailFree
  BY <1>2, NothingWaits
<1>4. /\ Call("sendingContent") \in Frame
      /\ ~Waits(Call("sendingContent"))
      /\ Enter(Call("sendingContent"))
  BY CallIsFrame, CallWaitsNot DEF WriteHeaders, Frames
<1>5. TailFree'
  BY <1>3, <1>4, StillNothingWaits DEF Inductive, TypeOK
<1>6. NoForeignContent'
  BY <1>1, WriteHeadForeign DEF Tails, Orderly
<1>7. QED
  BY <1>5, <1>6, TailsWhenFree

\* writeResponse() leaves content to write only if the response has some, and
\* the content is the current response's.
LEMMA WriteResponseTails ==
  ASSUME Inductive, Tails, Orderly, NEW h \in HeaderSets, NEW n \in Sizes,
         WriteResponse(h, n)
  PROVE  Tails'
<1> DEFINE tail == [at |-> "writeResponseTail", req |-> Intended, size |-> n]
<1>1. WriteHead(h, n) /\ n \in Int /\ n \in Nat /\ AppAnswers
  BY SizesAssumption DEF WriteResponse
<1>2. Top \in {"idle", "requestReady"}
  BY <1>1, AnswersFrom DEF WriteHead, HeadIsDue, AppHolds
<1>3. /\ tail \in Frame /\ tail.at = "writeResponseTail"
      /\ tail.req = Intended /\ tail.size = n
  BY <1>1, IntendedTyped DEF Frame, Frames
<1>4. stack' = <<Call("sendingContent"), tail>> \o stack
  BY DEF WriteResponse
<1> HIDE DEF tail
<1>5. /\ Call("sendingContent") \in Frame
      /\ Call("sendingContent").at = "sendingContent"
      /\ stack \in Seq(Frame)
  BY CallIsFrame DEF Frames, Inductive, TypeOK
<1>6. /\ Len(stack') = Len(stack) + 2
      /\ Len(stack) \in Nat
      /\ stack'[1] = Call("sendingContent") /\ stack'[2] = tail
      /\ \A i \in 3 .. Len(stack) + 2 : stack'[i] = stack[i - 2]
      /\ Top' = "sendingContent"
  <2>1. Top' = Head(stack').at /\ Head(stack') = Call("sendingContent")
    BY <1>3, <1>4, <1>5, PrependTwo DEF Top
  <2>2. QED
    BY <1>3, <1>4, <1>5, <2>1, PrependTwo
<1>7. TailFree
  BY <1>2, NothingWaits
<1>8. /\ NoForeignContent'
      /\ resp'.length = LengthOf(h, n)
      /\ UNCHANGED <<fieldsOf, script>>
  BY <1>1, WriteHeadForeign DEF Tails, Orderly
<1>9. Intended = fieldsOf
  BY <1>1 DEF AppAnswers, Orderly
<1>10. n > 0 => ~NoContentDue'
  BY <1>1, <1>8
     DEF WriteResponse, Orderly, Bodiless, NoContentDue, RequestAt
<1>11. ASSUME NEW i \in 1 .. Len(stack'), Waits(stack'[i])
       PROVE  i = 2 /\ stack'[i].req = fieldsOf' /\ ~NoContentDue'
  <2>1. CASE i = 1
    BY <1>5, <1>6, <1>11, <2>1 DEF Waits
  <2>2. CASE i = 2
    <3>1. n > 0
      BY <1>3, <1>6, <1>11, <2>2 DEF Waits
    <3>2. QED
      BY <1>3, <1>6, <1>8, <1>9, <1>10, <2>2, <3>1
  <2>3. CASE i > 2
    <3>1. stack'[i] = stack[i - 2] /\ i - 2 \in 1 .. Len(stack)
      BY <1>6, <2>3
    <3>2. QED
      BY <1>7, <1>11, <3>1 DEF TailFree
  <2>4. QED
    BY <2>1, <2>2, <2>3
<1>12. QED
  BY <1>6, <1>8, <1>11 DEF Tails, Waits

\* What is written belongs to the current response.
LEMMA PutContentForeign ==
  ASSUME Inductive, Promises, NoForeignContent, NEW n \in Nat,
         NEW owner, NEW rest, PutContent(n, owner, rest), owner = fieldsOf
  PROVE  NoForeignContent'
<1>1. state = "SendingContent"
  BY DEF PutContent
<1>2. wire # <<>> /\ Last.req = Current /\ fieldsOf = Current
  BY <1>1 DEF Promises, UnderWay, HeadWritten, Inductive, RequestViewIntact,
              AppHolds
<1>3. wire' = [wire EXCEPT ![Len(wire)].body = @ + n]
  BY <1>2 DEF PutContent, Last
<1>4. wire \in Seq(Message)
  BY DEF Inductive, TypeOK
<1> DEFINE m == [Last EXCEPT !.body = @ + n]
<1>5. wire' = [wire EXCEPT ![Len(wire)] = m]
  BY <1>3 DEF Last
<1>6. m.foreign = Last.foreign
  BY <1>2, <1>4, ReplacedLast DEF Last, Message
<1> HIDE DEF m
<1>7. /\ Len(wire') = Len(wire)
      /\ Len(wire) \in Nat \ {0}
      /\ \A i \in 1 .. Len(wire) : i # Len(wire) => wire'[i] = wire[i]
      /\ wire'[Len(wire)] = m
  BY <1>2, <1>4, <1>5, ReplacedLast
<1>8. QED
  BY <1>6, <1>7 DEF NoForeignContent, Last

LEMMA WriteContentTails ==
  ASSUME Inductive, Promises, Tails, Orderly, NEW n \in Sizes, WriteContent(n)
  PROVE  Tails'
<1>1. PutContent(n, Intended, stack) /\ n \in Nat /\ AppAnswers
  BY SizesAssumption DEF WriteContent
<1>2. Top \in {"idle", "requestReady"}
  BY <1>1, AnswersFrom DEF PutContent, AppHolds
<1>3. TailFree
  BY <1>2, NothingWaits
<1>4. /\ Call("completed") \in Frame
      /\ ~Waits(Call("completed"))
      /\ Enter(Call("completed")) \/ stack' = stack
  BY <1>1, CallIsFrame, CallWaitsNot DEF PutContent, Enter, Frames
<1>5. TailFree'
  BY <1>3, <1>4, StillNothingWaits DEF Inductive, TypeOK
<1>6. NoForeignContent'
  BY <1>1, PutContentForeign DEF AppAnswers, Tails, Orderly
<1>7. QED
  BY <1>5, <1>6, TailsWhenFree

LEMMA WriteResponseTailTails ==
  ASSUME Inductive, Promises, Tails, Orderly, WriteResponseTail
  PROVE  Tails'
<1>1. Top = "writeResponseTail" /\ stack # <<>>
  BY FunctionRuns DEF WriteResponseTail
<1>2. /\ Len(stack) \in Nat \ {0}
      /\ Head(stack) = stack[1] /\ Head(stack) \in Frame
      /\ stack[1].at = "writeResponseTail"
      /\ stack \in Seq(Frame)
  BY <1>1, DropHead DEF Inductive, TypeOK, Top
<1>3. \A i \in 2 .. Len(stack) : ~Waits(stack[i])
  BY <1>1, <1>2 DEF Tails, Orderly, Waits
<1> DEFINE t == Tail(stack)
<1>4. /\ t \in Seq(Frame)
      /\ Len(t) = Len(stack) - 1
      /\ \A i \in 1 .. Len(stack) - 1 : t[i] = stack[i + 1]
  BY <1>1, <1>2, DropHead
<1> DEFINE n == Head(stack).size
<1>5. n \in Nat
  BY <1>2 DEF Frame
<1>6. \/ PutContent(n, Head(stack).req, t)
      \/ Return /\ wire' = wire
  BY DEF WriteResponseTail, historyVars
<1>7. stack' = t \/ stack' = <<Call("completed")>> \o t
  BY <1>6 DEF PutContent, Return
<1> HIDE DEF t
<1>8. TailFree'
  <2>1. CASE stack' = t
    BY <1>2, <1>3, <1>4, <2>1 DEF TailFree
  <2>2. CASE stack' = <<Call("completed")>> \o t
    <3>1. Call("completed") \in Frame /\ ~Waits(Call("completed"))
      BY CallIsFrame, CallWaitsNot DEF Frames
    <3>2. /\ Len(stack') = Len(stack)
          /\ stack'[1] = Call("completed")
          /\ \A i \in 2 .. Len(stack) : stack'[i] = stack[i]
      BY <1>2, <1>4, <2>2, <3>1, Prepend
    <3>3. QED
      BY <1>2, <1>3, <3>1, <3>2 DEF TailFree
  <2>3. QED
    BY <1>7, <2>1, <2>2
<1>9. NoForeignContent'
  <2>1. CASE Return /\ wire' = wire
    BY <2>1 DEF Tails, Orderly, NoForeignContent
  <2>2. CASE PutContent(n, Head(stack).req, t)
    <3>1. n > 0
      BY <1>5, <2>2 DEF PutContent, ContentRefused
    <3>2. Head(stack).req = fieldsOf
      BY <1>2, <3>1 DEF Tails, Orderly
    <3>3. QED
      BY <1>5, <2>2, <3>2, PutContentForeign DEF Tails, Orderly
  <2>3. QED
    BY <1>6, <2>1, <2>2
<1>10. QED
  BY <1>8, <1>9, TailsWhenFree

LEMMA ApplicationTails ==
  ASSUME Inductive, Promises, Tails, Orderly, Application
  PROVE  Tails'
<1>1. CASE EndContent
  <2>1. /\ Top \in {"idle", "requestReady"}
        /\ wire' = wire
        /\ Enter(Call("completed"))
    BY <1>1, AnswersFrom DEF EndContent, AppHolds, historyVars
  <2>2. QED
    BY <2>1, QuietTails DEF Frames
<1>2. ASSUME Top \in {"idle", "requestReady", "requestCompleted"},
             UNCHANGED <<wire, stack>>
      PROVE  Tails'
  BY <1>2, QuietTails DEF Frames
<1>3. CASE Close
  BY <1>2, <1>3, ApplicationRuns DEF Close, historyVars
<1>4. CASE Flush
  BY <1>2, <1>4, ApplicationRuns DEF Flush, BytesWritten, historyVars
<1>5. CASE RequestParams
  BY <1>2, <1>5, ApplicationRuns DEF RequestParams, historyVars
<1>6. CASE StopListening
  BY <1>2, <1>6, ApplicationRuns DEF StopListening, historyVars
<1>7. QED
  BY <1>1, <1>3, <1>4, <1>5, <1>6, WriteHeadersTails, WriteResponseTails,
     WriteContentTails DEF Application

LEMMA DeviceTails ==
  ASSUME Inductive, Tails, Orderly, Device
  PROVE  Tails'
<1>1. ASSUME NEW s, NEW k, Initialize(s, k)
      PROVE  Tails'
  <2>1. stack' = <<>> /\ wire' = <<>>
    BY <1>1, LoopRuns DEF Initialize
  <2>2. QED
    BY <2>1 DEF Tails, NoForeignContent
<1>2. ASSUME NEW k, ReadyRead(k)
      PROVE  Tails'
  BY <1>2, LoopRuns, QuietTails DEF ReadyRead, historyVars, Frames
<1>3. CASE PeerCloses
  BY <1>3, LoopRuns, QuietTails DEF PeerCloses, historyVars, Frames
<1>4. QED
  BY <1>1, <1>2, <1>3 DEF Device

\* transitionToSendingContent() does not complete a response whose content waits.
LEMMA TransitionToSendingContentTails ==
  ASSUME Inductive, Tails, Orderly, TransitionToSendingContent
  PROVE  Tails'
<1>1. /\ Top = "sendingContent" /\ stack # <<>>
      /\ UNCHANGED <<wire, fieldsOf>>
  BY FunctionRuns DEF TransitionToSendingContent, historyVars, requestVars
<1>2. /\ Len(stack) \in Nat \ {0}
      /\ stack[1].at = "sendingContent"
      /\ stack \in Seq(Frame)
  BY <1>1, DropHead DEF Inductive, TypeOK, Top
<1>3. NoForeignContent'
  BY <1>1 DEF Tails, Orderly, NoForeignContent
<1>4. /\ Call("completed") \in Frame
      /\ ~Waits(Call("completed"))
      /\ Call("sendingContentTail") \in Frame
      /\ Call("sendingContentTail").at = "sendingContentTail"
      /\ ~Waits(Call("sendingContentTail"))
  BY CallIsFrame, CallWaitsNot DEF Frames
<1>5. CASE NoContentDue
  <2>1. TailFree
    BY <1>1, <1>2, <1>5 DEF Tails, Orderly, TailFree, Waits
  <2>2. stack' = <<Call("completed"), Call("sendingContentTail")>>
                 \o Tail(stack)
    BY <1>5 DEF TransitionToSendingContent
  <2>3. TailFree'
    BY <1>1, <1>2, <1>4, <2>1, <2>2, NeitherWaits
  <2>4. QED
    BY <1>3, <2>3, TailsWhenFree
<1>6. CASE ~NoContentDue
  <2> DEFINE t == Tail(stack)
  <2>1. /\ t \in Seq(Frame)
        /\ Len(t) = Len(stack) - 1
        /\ \A i \in 1 .. Len(stack) - 1 : t[i] = stack[i + 1]
    BY <1>1, <1>2, DropHead
  <2>2. stack' = <<Call("sendingContentTail")>> \o t
    BY <1>6 DEF TransitionToSendingContent, Become
  <2> HIDE DEF t
  <2>3. /\ Len(stack') = Len(stack)
        /\ stack'[1] = Call("sendingContentTail")
        /\ \A i \in 2 .. Len(stack) : stack'[i] = stack[i]
        /\ stack' # <<>> /\ Head(stack') = Call("sendingContentTail")
    BY <1>2, <1>4, <2>1, <2>2, Prepend
  <2>4. Top' = "sendingContentTail"
    BY <1>4, <2>3 DEF Top
  <2>5. ASSUME NEW i \in 1 .. Len(stack'), Waits(stack'[i])
        PROVE  stack'[i].req = fieldsOf' /\ i = 2
    <3>1. i # 1 /\ i \in 2 .. Len(stack) /\ stack'[i] = stack[i]
      BY <1>2, <1>4, <2>3, <2>5
    <3>2. QED
      BY <1>1, <2>5, <3>1 DEF Tails, Orderly, Waits
  <2>6. QED
    BY <1>3, <2>4, <2>5 DEF Tails, Waits
<1>7. QED
  BY <1>5, <1>6

\* What waits below the tail of transitionToSendingContent() runs next.
LEMMA SendingContentTailTails ==
  ASSUME Inductive, Tails, Orderly, SendingContentTail
  PROVE  Tails'
<1>1. /\ Top = "sendingContentTail" /\ stack # <<>>
      /\ UNCHANGED <<wire, fieldsOf>>
      /\ Return
  BY FunctionRuns DEF SendingContentTail, historyVars, requestVars
<1>2. /\ Len(stack') = Len(stack) - 1
      /\ Len(stack) \in Nat \ {0}
      /\ \A i \in 1 .. Len(stack) - 1 : stack'[i] = stack[i + 1]
  BY <1>1, DropHead DEF Return, Inductive, TypeOK
<1>3. NoForeignContent'
  BY <1>1 DEF Tails, Orderly, NoForeignContent
<1>4. ASSUME NEW i \in 1 .. Len(stack'), Waits(stack'[i])
      PROVE  stack'[i].req = fieldsOf' /\ i = 1
  <2>1. stack'[i] = stack[i + 1] /\ i + 1 \in 1 .. Len(stack) /\ i + 1 # 1
    BY <1>2
  <2>2. stack[i + 1].req = fieldsOf /\ i + 1 = 2
    BY <1>1, <1>4, <2>1 DEF Tails, Orderly, Waits
  <2>3. QED
    BY <1>1, <2>1, <2>2
<1>5. QED
  BY <1>3, <1>4 DEF Tails, Waits

\* The connection's own messages have no content.
LEMMA PlainForeign ==
  ASSUME Inductive, Tails, Orderly, NEW kind \in {"continue", "error"},
         wire' = Append(wire, Plain(kind, Current))
  PROVE  NoForeignContent'
<1>1. Current \in Nat
  BY DEF Current, Inductive, TypeOK
<1>2. Plain(kind, Current) \in Message
  BY <1>1, PlainIsMessage
<1>3. Plain(kind, Current).foreign = 0
  BY DEF Plain
<1>4. QED
  BY <1>2, <1>3, NoneForeign DEF Tails, Orderly

LEMMA TransitionToReceivingContentTails ==
  ASSUME Inductive, Tails, Orderly, TransitionToReceivingContent
  PROVE  Tails'
<1>1. Top = "receivingContent" /\ stack # <<>>
  BY FunctionRuns DEF TransitionToReceivingContent
<1>2. PICK at \in Frames : Become(Call(at))
  BY DEF TransitionToReceivingContent, Frames
<1>3. TailFree
  BY <1>1, NothingWaits
<1>4. TailFree'
  BY <1>1, <1>2, <1>3, CallIsFrame, CallWaitsNot, StillNothingWaits
     DEF Inductive, TypeOK
<1>5. \/ wire' = Append(wire, Plain("continue", Current))
      \/ wire' = wire
  BY DEF TransitionToReceivingContent
<1>6. NoForeignContent'
  <2>1. CASE wire' = wire
    BY <2>1 DEF Tails, Orderly, NoForeignContent
  <2>2. CASE wire' = Append(wire, Plain("continue", Current))
    BY <2>2, PlainForeign
  <2>3. QED
    BY <1>5, <2>1, <2>2
<1>7. QED
  BY <1>4, <1>6, TailsWhenFree

LEMMA WriteRequestErrorResponseTails ==
  ASSUME Inductive, Tails, Orderly, WriteRequestErrorResponse
  PROVE  Tails'
<1>1. /\ Top \in {"badRequest", "tooLarge"} /\ stack # <<>>
      /\ Become(Call("flushing"))
      /\ wire' = Append(wire, Plain("error", Current))
  BY FunctionRuns DEF WriteRequestErrorResponse
<1>2. TailFree
  BY <1>1, NothingWaits
<1>3. TailFree'
  BY <1>1, <1>2, CallIsFrame, CallWaitsNot, StillNothingWaits
     DEF Inductive, TypeOK, Frames
<1>4. NoForeignContent'
  BY <1>1, PlainForeign
<1>5. QED
  BY <1>3, <1>4, TailsWhenFree

LEMMA TransitionToCompletedTails ==
  ASSUME Inductive, Promises, Tails, Orderly, TransitionToCompleted
  PROVE  Tails'
<1>1. /\ Top = "completed" /\ stack # <<>> /\ state = "SendingContent"
      /\ wire' = [wire EXCEPT ![Len(wire)].ended = TRUE]
  BY FunctionRuns DEF TransitionToCompleted, Inductive, CalledIn
<1>2. TailFree
  BY <1>1, NothingWaits
<1> DEFINE f == [at |-> "requestCompleted", req |-> fieldsOf, size |-> 0]
<1>3. /\ f \in Frame /\ ~Waits(f)
      /\ Call("completedTail") \in Frame /\ ~Waits(Call("completedTail"))
  <2>1. f \in Frame
    BY DEF Inductive, TypeOK, Frame, Frames, AppFrames
  <2>2. ~Waits(f)
    BY DEF Waits
  <2>3. QED
    BY <2>1, <2>2, CallIsFrame, CallWaitsNot DEF Frames
<1>4. stack' = <<f, Call("completedTail")>> \o Tail(stack)
  BY DEF TransitionToCompleted
<1> HIDE DEF f
<1>5. TailFree'
  BY <1>1, <1>2, <1>3, <1>4, NeitherWaits DEF Inductive, TypeOK
<1>6. NoForeignContent'
  <2>1. wire # <<>> /\ wire \in Seq(Message)
    BY <1>1 DEF Promises, UnderWay, HeadWritten, Inductive, TypeOK
  <2> DEFINE m == [Last EXCEPT !.ended = TRUE]
  <2>2. wire' = [wire EXCEPT ![Len(wire)] = m]
    BY <1>1 DEF Last
  <2>3. m.foreign = Last.foreign
    BY <2>1, ReplacedLast DEF Last, Message
  <2> HIDE DEF m
  <2>4. /\ Len(wire') = Len(wire)
        /\ Len(wire) \in Nat \ {0}
        /\ \A i \in 1 .. Len(wire) : i # Len(wire) => wire'[i] = wire[i]
        /\ wire'[Len(wire)] = m
    BY <2>1, <2>2, ReplacedLast
  <2>5. QED
    BY <2>3, <2>4 DEF Tails, Orderly, NoForeignContent, Last
<1>7. QED
  BY <1>5, <1>6, TailsWhenFree

LEMMA InternalTails ==
  ASSUME Inductive, Promises, Tails, Orderly, Internal
  PROVE  Tails'
<1>1. CASE ProcessInputIdle
  BY <1>1, FunctionRuns, QuietTails DEF ProcessInputIdle, historyVars, Frames
<1>2. CASE ProcessInputCrash
  BY <1>2, FunctionRuns, QuietTails DEF ProcessInputCrash, historyVars, Frames
<1>3. CASE ParseHeaders
  <2>1. PICK at \in Frames : Return \/ Become(Call(at))
    BY <1>3 DEF ParseHeaders, Frames
  <2>2. QED
    BY <1>3, <2>1, FunctionRuns, QuietTails DEF ParseHeaders, historyVars
<1>4. CASE PumpContent
  <2>1. PICK at \in Frames : Return \/ Become(Call(at))
    BY <1>4 DEF PumpContent, Frames
  <2>2. QED
    BY <1>4, <2>1, FunctionRuns, QuietTails DEF PumpContent, historyVars
<1>5. CASE TransitionToSendingHeaders
  <2>1. /\ Top = "sendingHeaders" /\ stack # <<>> /\ wire' = wire
        /\ Become([at |-> "requestReady", req |-> Current, size |-> 0])
    BY <1>5, FunctionRuns DEF TransitionToSendingHeaders
  <2>2. /\ [at |-> "requestReady", req |-> Current, size |-> 0] \in Frame
        /\ ~Waits([at |-> "requestReady", req |-> Current, size |-> 0])
    BY DEF Frame, Frames, AppFrames, Waits, Current, Inductive, TypeOK
  <2>3. TailFree'
    BY <2>1, <2>2, NothingWaits, StillNothingWaits DEF Inductive, TypeOK
  <2>4. QED
    BY <2>1, <2>3, TailsWhenFree DEF Tails, Orderly, NoForeignContent
<1>6. CASE CompletedTail
  <2>1. PICK at \in Frames : Become(Call(at))
    BY <1>6 DEF CompletedTail, Frames
  <2>2. QED
    BY <1>6, <2>1, FunctionRuns, QuietTails DEF CompletedTail, historyVars
<1>7. CASE TransitionToReceivingHeaders
  BY <1>7, FunctionRuns, QuietTails
     DEF TransitionToReceivingHeaders, historyVars, Frames
<1>8. CASE TransitionToFlushing
  BY <1>8, FunctionRuns, QuietTails
     DEF TransitionToFlushing, historyVars, Frames
<1>9. QED
  BY <1>1, <1>2, <1>3, <1>4, <1>5, <1>6, <1>7, <1>8,
     TransitionToReceivingContentTails, WriteRequestErrorResponseTails,
     TransitionToSendingContentTails, SendingContentTailTails,
     WriteResponseTailTails, TransitionToCompletedTails DEF Internal

LEMMA TailsStep ==
  ASSUME Inductive, Promises, Tails, [Next]_vars
  PROVE  Tails'
<1>1. CASE ~Orderly
  BY <1>1 DEF Tails, Orderly
<1>2. CASE Orderly /\ UNCHANGED vars
  BY <1>2
     DEF vars, historyVars, requestVars, outputVars, inputVars, Tails, Orderly,
         NoForeignContent, Top, NoContentDue, RequestAt
<1>3. CASE Orderly /\ PumpTimer
  BY <1>3, LoopRuns, QuietTails DEF PumpTimer, historyVars, Frames
<1>4. CASE Orderly /\ DeviceWrites
  BY <1>4, LoopRuns, QuietTails
     DEF DeviceWrites, BytesWritten, historyVars, Frames
<1>5. CASE Orderly /\ HandlerReturns
  BY <1>5, ApplicationRuns, QuietTails DEF HandlerReturns, historyVars, Frames
<1>6. QED
  BY <1>1, <1>2, <1>3, <1>4, <1>5, ApplicationTails, DeviceTails,
     InternalTails DEF Next

(***************************************************************************)
(* The theorems.                                                           *)
(***************************************************************************)

LEMMA WireParts ==
  WireInductive <=> Promises /\ Devices /\ Tails
  BY DEF WireInductive, Promises

LEMMA InitWire ==
  ASSUME Init
  PROVE  WireInductive
<1>1. Devices
  BY DEF Init, Devices, DeviceInUse, Completing, LettingGo, Top
<1>2. Tails
  BY DEF Init, Tails, NoForeignContent
<1>3. QED
  BY <1>1, <1>2, InitPromises, WireParts

\* Every step of the connection, its peer, its devices and its application
\* preserves the inductive invariant of the responses.
THEOREM WireStep ==
  ASSUME Inductive, WireInductive, [Next]_vars
  PROVE  WireInductive'
<1>1. Promises /\ Devices /\ Tails
  BY WireParts
<1>2. Promises' /\ Devices' /\ Tails'
  BY <1>1, PromisesStep, DevicesStep, TailsStep
<1>3. QED
  BY <1>2 DEF WireInductive, Promises

\* It holds throughout: what the pending calls of the connection and of the
\* application know about the response under way stays true while they wait.
THEOREM WireInvariant == Spec => []WireInductive
<1>1. Init => Inductive /\ WireInductive
  BY InitInductive, InitWire
<1>2. Inductive /\ WireInductive /\ [Next]_vars =>
        (Inductive /\ WireInductive)'
  BY InductiveStep, WireStep
<1>3. QED
  BY <1>1, <1>2, PTL DEF Spec

\* Pipelined requests are answered one at a time and in order, each once, also
\* by an application that goes on writing when its response is over.
THEOREM AnsweredInOrder == Spec => []OneAtATime
<1>1. WireInductive => OneAtATime
  BY DEF WireInductive
<1>2. QED
  BY <1>1, WireInvariant, PTL

\* No response exceeds the Content-Length it announced, falls short of it or
\* has content in answer to HEAD, whatever the application writes.
THEOREM LengthsHonoured == Spec => []LengthHonoured
<1>1. WireInductive => LengthHonoured
  BY DEF WireInductive
<1>2. QED
  BY <1>1, WireInvariant, PTL

\* What a message says about the connection is what happens to it, although the
\* code computes it before, and looks at it again after, the response is over.
THEOREM PersistenceKept == Spec => []PersistenceAgreed
<1>1. WireInductive => PersistenceAgreed
  <2>1. SUFFICES ASSUME WireInductive
                 PROVE  PersistenceAgreed
    OBVIOUS
  <2>2. Receiving /\ stack = <<>> => MayWriteNext
    BY DEF MayWriteNext, Top
  <2>3. QED
    BY <2>1, <2>2 DEF WireInductive, Persists, PersistenceAgreed, Last
<1>2. QED
  BY <1>1, WireInvariant, PTL

\* Where handlers keep to their own request and to contents that may be sent,
\* no response has content that was written for another one.  Where they do not
\* it may: a HEAD request's writeResponse() resumes under the next response.
THEOREM ContentStaysHome ==
  ASSUME BodyOnBodiless = FALSE, StaleAnswers = FALSE
  PROVE  Spec => []NoForeignContent
<1>1. WireInductive => NoForeignContent
  BY DEF WireInductive, Tails
<1>2. QED
  BY <1>1, WireInvariant, PTL

\* Where handlers keep to their own request, the parameters they get are its.
THEOREM ParamsStayCurrent ==
  ASSUME StaleAnswers = FALSE
  PROVE  Spec => []ParamsOfCurrent
<1>1. WireInductive => ParamsOfCurrent
  BY DEF WireInductive, Params, ParamsOfCurrent
<1>2. QED
  BY <1>1, WireInvariant, PTL

\* Where nothing closes the connection while transitionToCompleted() is under
\* way, a connection in use has its devices and never dereferences a null one.
THEOREM DevicesStay ==
  ASSUME CloseInCompleted = FALSE, AbortInFlush = FALSE
  PROVE  Spec => [](DeviceInUse /\ ~crashed)
<1>1. WireInductive => DeviceInUse /\ ~crashed
  BY DEF WireInductive, Devices
<1>2. QED
  BY <1>1, WireInvariant, PTL

(***************************************************************************)
(* HttpConnection implements HttpExchange, as long as nothing closes the    *)
(* connection under transitionToCompleted(): every step of the connection   *)
(* is a step of the exchange, or leaves all of it as it is.                 *)
(***************************************************************************)

Seen == <<Phase, Len(delivered), answered, Owed, Persistent>>

\* What both invariants say, where nothing closes the connection under
\* transitionToCompleted().
Sound ==
  /\ Inductive /\ WireInductive
  /\ ~CloseInCompleted /\ ~AbortInFlush

(***************************************************************************)
(* The refinement mapping, state by state.                                 *)
(***************************************************************************)

LEMMA PhaseOf ==
  ASSUME state \in State
  PROVE  /\ Phase = "closed" <=> state \in {"Uninitialized", "Closed"}
         /\ Phase = "receiving" <=> Receiving
         /\ Phase = "answering" <=> state = "SendingHeaders"
         /\ Phase = "sending" <=> state = "SendingContent"
         /\ Phase = "completed" <=> state = "Completed"
         /\ Phase = "draining" <=> state = "Flushing"
  BY DEF Phase, State, Receiving

LEMMA PhaseThen ==
  ASSUME state' \in State
  PROVE  /\ Phase' = "closed" <=> state' \in {"Uninitialized", "Closed"}
         /\ Phase' = "receiving" <=> Receiving'
         /\ Phase' = "answering" <=> state' = "SendingHeaders"
         /\ Phase' = "sending" <=> state' = "SendingContent"
         /\ Phase' = "completed" <=> state' = "Completed"
         /\ Phase' = "draining" <=> state' = "Flushing"
  BY DEF Phase, State, Receiving

LEMMA NothingOwed ==
  ASSUME state # "SendingContent"
  PROVE  Owed = 0
  BY DEF Owed

LEMMA NothingOwedThen ==
  ASSUME state' # "SendingContent"
  PROVE  Owed' = 0
  BY DEF Owed

LEMMA NotPersistent ==
  ASSUME state \notin {"SendingContent", "Completed"}
  PROVE  Persistent = FALSE
  BY DEF Persistent

LEMMA NotPersistentThen ==
  ASSUME state' \notin {"SendingContent", "Completed"}
  PROVE  Persistent' = FALSE
  BY DEF Persistent

\* While content is sent, the response is the last message, and what is owed is
\* what is missing of it.
LEMMA OwedWhileSending ==
  ASSUME Sound, state = "SendingContent"
  PROVE  /\ wire # <<>> /\ Last \in Message /\ Last.req = fieldsOf
         /\ Last.length = resp.length
         /\ Last.body + Last.foreign = resp.sent
         /\ RequestAt(fieldsOf).head => Owed = 0
         /\ ~RequestAt(fieldsOf).head =>
              Owed = IF resp.length < 0 THEN -1 ELSE resp.length - resp.sent
         /\ Owed \in Nat \cup {-1}
         /\ Persistent = Last.keepAlive
         /\ resp.sent \in Nat /\ resp.length \in Int
<1>1. /\ wire # <<>> /\ Last.kind = "response" /\ Last.req = Current
      /\ Last.length = resp.length
      /\ Last.body + Last.foreign = resp.sent
  BY DEF Sound, WireInductive, UnderWay, HeadWritten
<1>2. Last.req = fieldsOf
  BY <1>1 DEF Sound, Inductive, RequestViewIntact, AppHolds
<1>3. wire \in Seq(Message) /\ Len(wire) \in 1 .. Len(wire)
  BY <1>1 DEF Sound, Inductive, TypeOK
<1>4. Last \in Message
  BY <1>3 DEF Last
<1>5. resp.sent \in Nat /\ resp.length \in Int
  BY DEF Sound, Inductive, TypeOK, Response
<1>6. Last.body \in Nat /\ Last.foreign \in Nat /\ Last.keepAlive \in BOOLEAN
  BY <1>4 DEF Message
<1>7. RequestAt(fieldsOf).head => Owed = 0
  BY <1>2 DEF Owed, Last
<1>8. ~RequestAt(fieldsOf).head =>
        Owed = IF resp.length < 0 THEN -1 ELSE resp.length - resp.sent
  BY <1>1, <1>2, <1>5, <1>6 DEF Owed, Last
<1>9. ~RequestAt(fieldsOf).head /\ resp.length >= 0 =>
        resp.sent <= resp.length
  BY <1>1, <1>2, <1>3 DEF Sound, WireInductive, LengthHonoured, Last
<1>10. Owed \in Nat \cup {-1}
  BY <1>5, <1>7, <1>8, <1>9
<1>11. Persistent = Last.keepAlive
  BY <1>6 DEF Persistent, Last
<1>12. QED
  BY <1>1, <1>2, <1>4, <1>5, <1>7, <1>8, <1>10, <1>11

(***************************************************************************)
(* Steps the exchange does not see.                                        *)
(***************************************************************************)

LEMMA UnseenStep ==
  ASSUME UNCHANGED <<state, script, delivered, answered, wire>>
  PROVE  UNCHANGED Seen
<1>1. Phase' = Phase
  BY DEF Phase, Receiving
<1>2. Owed' = Owed
  BY DEF Owed, RequestAt
<1>3. Persistent' = Persistent
  BY DEF Persistent
<1>4. QED
  BY <1>1, <1>2, <1>3 DEF Seen

\* Outside a response, the messages are not seen either.
LEMMA UnseenMessage ==
  ASSUME UNCHANGED <<Phase, delivered, answered>>,
         state \notin {"SendingContent", "Completed"},
         state' \notin {"SendingContent", "Completed"}
  PROVE  UNCHANGED Seen
  BY NothingOwed, NothingOwedThen, NotPersistent, NotPersistentThen DEF Seen

LEMMA UnseenApplication ==
  ASSUME Sound,
         \/ \E h \in HeaderSets : WriteHeaders(h)
         \/ \E h \in HeaderSets, n \in Sizes : WriteResponse(h, n)
         \/ EndContent
         \/ RequestParams
         \/ StopListening
  PROVE  UNCHANGED Seen
<1>1. ASSUME NEW h, NEW known, WriteHead(h, known)
      PROVE  UNCHANGED Seen
  <2>1. /\ state = "SendingHeaders" /\ state' = state
        /\ UNCHANGED <<delivered, answered>>
    BY <1>1 DEF WriteHead, HeadIsDue
  <2>2. Phase' = Phase
    BY <2>1 DEF Phase, Receiving
  <2>3. QED
    BY <2>1, <2>2, UnseenMessage
<1>2. CASE EndContent
  BY <1>2, UnseenStep DEF EndContent, inputVars, historyVars
<1>3. CASE RequestParams
  BY <1>3, UnseenStep DEF RequestParams, inputVars, historyVars
<1>4. CASE StopListening
  BY <1>4, UnseenStep DEF StopListening, inputVars, historyVars
<1>5. QED
  BY <1>1, <1>2, <1>3, <1>4 DEF WriteHeaders, WriteResponse

LEMMA UnseenInternal ==
  ASSUME Sound,
         \/ ProcessInputIdle
         \/ ProcessInputCrash
         \/ ParseHeaders
         \/ TransitionToReceivingContent
         \/ PumpContent
         \/ WriteRequestErrorResponse
         \/ SendingContentTail
         \/ CompletedTail
         \/ PumpTimer
         \/ HandlerReturns
         \/ \E k \in 1 .. Len(script) : ReadyRead(k)
  PROVE  UNCHANGED Seen
<1> USE DEF inputVars, historyVars
<1>1. CASE ProcessInputIdle \/ ProcessInputCrash \/ ParseHeaders
  BY <1>1, UnseenStep DEF ProcessInputIdle, ProcessInputCrash, ParseHeaders
<1>2. CASE PumpContent \/ SendingContentTail \/ PumpTimer \/ HandlerReturns
  BY <1>2, UnseenStep
     DEF PumpContent, SendingContentTail, PumpTimer, HandlerReturns
<1>3. CASE \E k \in 1 .. Len(script) : ReadyRead(k)
  BY <1>3, UnseenStep DEF ReadyRead
<1>4. CASE TransitionToReceivingContent
  <2>1. /\ state = "ReceivingHeaders" /\ state' = "ReceivingContent"
        /\ UNCHANGED <<delivered, answered>>
    BY <1>4, FunctionRuns
       DEF TransitionToReceivingContent, Sound, Inductive, CalledIn
  <2>2. Phase' = Phase
    BY <2>1 DEF Phase, Receiving
  <2>3. QED
    BY <2>1, <2>2, UnseenMessage
<1>5. CASE WriteRequestErrorResponse
  <2>1. /\ Receiving /\ state' = state
        /\ UNCHANGED <<delivered, answered>>
    BY <1>5, FunctionRuns
       DEF WriteRequestErrorResponse, Sound, Inductive, CalledIn
  <2>2. Phase' = Phase
    BY <2>1 DEF Phase, Receiving
  <2>3. QED
    BY <2>1, <2>2, UnseenMessage DEF Receiving
<1>6. CASE CompletedTail
  <2>1. state' = state
    BY <1>6 DEF CompletedTail, Sound
  <2>2. QED
    BY <1>6, <2>1, UnseenStep DEF CompletedTail
<1>7. QED
  BY <1>1, <1>2, <1>3, <1>4, <1>5, <1>6

(***************************************************************************)
(* Steps the exchange sees.                                                *)
(***************************************************************************)

LEMMA StatesOfSound ==
  ASSUME Sound
  PROVE  state \in State /\ Len(delivered) \in Nat /\ answered \in Nat
  BY DEF Sound, Inductive, TypeOK

\* Whoever closes the connection, and in whatever state.
LEMMA ClosingSeen ==
  ASSUME Sound, TransitionToClosed, UNCHANGED <<delivered, answered>>
  PROVE  [Exchange!Next]_Seen
<1>1. state' = "Closed" /\ state \in State
  BY StatesOfSound DEF TransitionToClosed
<1>2. Phase' = "closed" /\ Owed' = 0 /\ Persistent' = FALSE
  BY <1>1, PhaseThen, NothingOwedThen, NotPersistentThen DEF State
<1>3. CASE state \in {"Uninitialized", "Closed"}
  BY <1>1, <1>2, <1>3, PhaseOf, NothingOwed, NotPersistent DEF Seen
<1>4. CASE state \notin {"Uninitialized", "Closed"}
  BY <1>1, <1>2, <1>4, PhaseOf DEF Exchange!Next, Exchange!Close
<1>5. QED
  BY <1>3, <1>4

LEMMA BytesWrittenSeen ==
  ASSUME Sound, BytesWritten
  PROVE  [Exchange!Next]_Seen
<1>1. CASE drainOn /\ state = "Flushing"
  BY <1>1, ClosingSeen DEF BytesWritten, historyVars
<1>2. CASE ~(drainOn /\ state = "Flushing")
  BY <1>2, UnseenStep DEF BytesWritten, inputVars, historyVars
<1>3. QED
  BY <1>1, <1>2

LEMMA ClosesSeen ==
  ASSUME Sound, PeerCloses \/ Close \/ DeviceWrites \/ Flush
  PROVE  [Exchange!Next]_Seen
<1>1. CASE PeerCloses \/ Close
  BY <1>1, ClosingSeen DEF PeerCloses, Close, historyVars
<1>2. CASE DeviceWrites
  BY <1>2, BytesWrittenSeen DEF DeviceWrites
<1>3. CASE Flush
  BY <1>3, BytesWrittenSeen DEF Flush, Sound
<1>4. QED
  BY <1>1, <1>2, <1>3

LEMMA InitializeSeen ==
  ASSUME Sound, NEW s \in Scripts, NEW k \in 0 .. Len(s), Initialize(s, k)
  PROVE  [Exchange!Next]_Seen
<1>1. /\ state \in {"Uninitialized", "Closed"} /\ state' = "ReceivingHeaders"
      /\ delivered' = <<>> /\ answered' = 0
  BY DEF Initialize
<1>2. state \in State /\ state' \in State
  BY <1>1 DEF State
<1>3. Phase = "closed" /\ Phase' = "receiving"
  BY <1>1, <1>2, PhaseOf, PhaseThen DEF Receiving
<1>4. Owed' = 0 /\ Persistent' = FALSE /\ Len(delivered') = 0
  BY <1>1, NothingOwedThen, NotPersistentThen
<1>5. QED
  BY <1>1, <1>3, <1>4 DEF Exchange!Next, Exchange!Open

LEMMA TransitionToSendingHeadersSeen ==
  ASSUME Sound, TransitionToSendingHeaders
  PROVE  [Exchange!Next]_Seen
<1>1. /\ state = "ReceivingContent" /\ state' = "SendingHeaders"
      /\ delivered' = Append(delivered, Current)
      /\ answered' = answered
  BY FunctionRuns DEF TransitionToSendingHeaders, Sound, Inductive, CalledIn
<1>2. state \in State /\ state' \in State
  BY <1>1 DEF State
<1>3. Phase = "receiving" /\ Phase' = "answering"
  BY <1>1, <1>2, PhaseOf, PhaseThen DEF Receiving
<1>4. Owed' = Owed /\ Persistent' = Persistent
  BY <1>1, NothingOwed, NothingOwedThen, NotPersistent, NotPersistentThen
<1>5. Len(delivered') = Len(delivered) + 1
  <2>1. delivered \in Seq(1 .. Len(script))
    BY DEF Sound, Inductive, TypeOK
  <2>2. QED
    BY <1>1, <2>1
<1>6. QED
  BY <1>1, <1>3, <1>4, <1>5 DEF Exchange!Next, Exchange!Ready

\* The head is written before the state says so: nothing of the content is.
LEMMA TransitionToSendingContentSeen ==
  ASSUME Sound, TransitionToSendingContent
  PROVE  [Exchange!Next]_Seen
<1>1. /\ Top = "sendingContent" /\ state = "SendingHeaders"
      /\ state' = "SendingContent"
      /\ UNCHANGED <<script, fieldsOf, resp, delivered, answered, wire>>
  BY FunctionRuns
     DEF TransitionToSendingContent, Sound, Inductive, CalledIn, inputVars,
         requestVars, outputVars, historyVars
<1>2. state \in State /\ state' \in State
  BY <1>1 DEF State
<1>3. Phase = "answering" /\ Phase' = "sending"
  BY <1>1, <1>2, PhaseOf, PhaseThen
<1>4. /\ wire # <<>> /\ Last.length = resp.length
      /\ Last.body + Last.foreign = resp.sent /\ resp.sent = 0
  BY <1>1 DEF Sound, WireInductive, UnderWay, HeadWritten, Progress
<1>5. Last \in Message
  <2>1. wire \in Seq(Message) /\ Len(wire) \in 1 .. Len(wire)
    BY <1>4 DEF Sound, Inductive, TypeOK
  <2>2. QED
    BY <2>1 DEF Last
<1>6. /\ Last.body \in Nat /\ Last.foreign \in Nat /\ Last.length \in Int
      /\ Last.keepAlive \in BOOLEAN
  BY <1>5 DEF Message
<1>7. Last.body = 0 /\ Last.foreign = 0
  BY <1>4, <1>6
<1>8. Owed' \in Nat \cup {-1}
  <2>1. CASE script[Last.req].request.head
    BY <1>1, <2>1 DEF Owed, RequestAt, Last
  <2>2. CASE ~script[Last.req].request.head
    <3>1. Owed' = IF Last.length < 0 THEN -1
                  ELSE Last.length - Last.body - Last.foreign
      BY <1>1, <2>2 DEF Owed, RequestAt, Last
    <3>2. QED
      BY <1>6, <1>7, <3>1
  <2>3. QED
    BY <2>1, <2>2
<1>9. Persistent' \in BOOLEAN
  BY <1>1, <1>6 DEF Persistent, Last
<1>10. QED
  BY <1>1, <1>3, <1>8, <1>9 DEF Exchange!Next, Exchange!Head

\* Content counts against what the head announced; of a response that announced
\* nothing, the exchange does not see it.
LEMMA PutContentSeen ==
  ASSUME Sound, NEW n \in Nat, NEW owner, NEW rest,
         PutContent(n, owner, rest)
  PROVE  [Exchange!Next]_Seen
<1>1. /\ state = "SendingContent" /\ state' = "SendingContent"
      /\ UNCHANGED <<script, fieldsOf, delivered, answered>>
      /\ ~ContentRefused(n)
  BY DEF PutContent, inputVars, requestVars
<1>2. state \in State /\ state' \in State
  BY <1>1 DEF State
<1>3. Phase = "sending" /\ Phase' = "sending"
  BY <1>1, <1>2, PhaseOf, PhaseThen
<1>4. /\ wire # <<>> /\ Last \in Message /\ Last.req = fieldsOf
      /\ Last.length = resp.length
      /\ Last.body + Last.foreign = resp.sent
      /\ Persistent = Last.keepAlive
      /\ Owed \in Nat \cup {-1}
      /\ resp.sent \in Nat /\ resp.length \in Int
  BY <1>1, OwedWhileSending
<1>5. /\ ~RequestAt(fieldsOf).head
      /\ resp.length >= 0 => resp.sent + n <= resp.length
  BY <1>1, <1>4 DEF ContentRefused
<1>6. Owed = IF resp.length < 0 THEN -1 ELSE resp.length - resp.sent
  BY <1>1, <1>5, OwedWhileSending
<1>7. LastGrown(n) /\ Last' \in Message
  <2>1. LastGrown(n) /\ wire \in Seq(Message)
    BY <1>4, ContentGrows DEF PutContent, Sound, Inductive, TypeOK
  <2>2. \/ wire' = [wire EXCEPT ![Len(wire)].body = @ + n]
        \/ wire' = [wire EXCEPT ![Len(wire)].foreign = @ + n]
    BY DEF PutContent
  <2>3. PICK m : m \in Message /\ wire' = [wire EXCEPT ![Len(wire)] = m]
    <3> DEFINE last == Last
    <3>1. last \in Message /\ last = wire[Len(wire)]
      BY <1>4 DEF Last
    <3> HIDE DEF last
    <3>2. last.body \in Nat /\ last.foreign \in Nat /\ n \in Nat
      BY <1>4, <3>1 DEF Message
    <3>3. last.body + n \in Nat /\ last.foreign + n \in Nat
      BY <3>2
    <3>4. [last EXCEPT !.body = last.body + n] \in Message
      BY <3>1, <3>3 DEF Message
    <3>5. [last EXCEPT !.foreign = last.foreign + n] \in Message
      BY <3>1, <3>3 DEF Message
    <3>6. QED
      BY <2>2, <3>1, <3>4, <3>5
  <2>4. Last' = m
    BY <1>4, <2>1, <2>3, ReplacedLast DEF Last
  <2>5. QED
    BY <2>1, <2>3, <2>4
<1>8. /\ Last'.req = fieldsOf /\ Last'.length = resp.length
      /\ Last'.keepAlive = Last.keepAlive
      /\ Last'.body + Last'.foreign = resp.sent + n
  BY <1>4, <1>7 DEF LastGrown, Grown
<1>9. Last'.body \in Nat /\ Last'.foreign \in Nat /\ Last'.keepAlive \in BOOLEAN
  BY <1>7 DEF Message
<1>10. Owed' = IF resp.length < 0 THEN -1
               ELSE Last'.length - Last'.body - Last'.foreign
  BY <1>1, <1>5, <1>8 DEF Owed, RequestAt, Last
<1>11. Persistent' = Persistent
  BY <1>1, <1>4, <1>8, <1>9 DEF Persistent, Last
<1>12. CASE resp.length < 0
  BY <1>1, <1>3, <1>6, <1>10, <1>11, <1>12 DEF Seen
<1>13. CASE resp.length >= 0
  <2>1. Owed = resp.length - resp.sent
    BY <1>4, <1>6, <1>13
  <2>2. Owed' = resp.length - resp.sent - n
    BY <1>4, <1>8, <1>9, <1>10, <1>13
  <2>3. Owed' \in 0 .. Owed
    BY <1>4, <1>5, <1>13, <2>1, <2>2
  <2>4. QED
    BY <1>1, <1>3, <1>11, <2>3 DEF Exchange!Next, Exchange!Body
<1>14. QED
  BY <1>4, <1>12, <1>13

LEMMA ContentSeen ==
  ASSUME Sound,
         (\E n \in Sizes : WriteContent(n)) \/ WriteResponseTail
  PROVE  [Exchange!Next]_Seen
<1>1. ASSUME NEW n \in Sizes, WriteContent(n)
      PROVE  [Exchange!Next]_Seen
  <2>1. n \in Nat /\ PutContent(n, Intended, stack)
    BY <1>1, SizesAssumption DEF WriteContent
  <2>2. QED
    BY <2>1, PutContentSeen
<1>2. CASE WriteResponseTail
  <2>1. stack # <<>>
    BY <1>2, FunctionRuns DEF WriteResponseTail
  <2>2. Head(stack).size \in Nat
    BY <2>1, DropHead DEF Sound, Inductive, TypeOK, Frame
  <2>3. CASE PutContent(Head(stack).size, Head(stack).req, Tail(stack))
    BY <2>2, <2>3, PutContentSeen
  <2>4. CASE UNCHANGED <<state, inputVars, historyVars>>
    BY <2>4, UnseenStep DEF inputVars, historyVars
  <2>5. QED
    BY <1>2, <2>3, <2>4 DEF WriteResponseTail
<1>3. QED
  BY <1>1, <1>2

\* A response is completed when nothing of it is owed.
LEMMA TransitionToCompletedSeen ==
  ASSUME Sound, TransitionToCompleted
  PROVE  [Exchange!Next]_Seen
<1>1. /\ Top = "completed" /\ state = "SendingContent"
      /\ state' = "Completed"
      /\ answered' = answered + 1 /\ delivered' = delivered
      /\ wire' = [wire EXCEPT ![Len(wire)].ended = TRUE]
  BY FunctionRuns DEF TransitionToCompleted, Sound, Inductive, CalledIn
<1>2. state \in State /\ state' \in State
  BY <1>1 DEF State
<1>3. Phase = "sending" /\ Phase' = "completed"
  BY <1>1, <1>2, PhaseOf, PhaseThen
<1>4. /\ wire # <<>> /\ Last \in Message
      /\ Persistent = Last.keepAlive
      /\ resp.sent \in Nat /\ resp.length \in Int
  BY <1>1, OwedWhileSending
<1>5. Owed \in {-1, 0}
  <2>1. NothingMissing
    BY <1>1 DEF Sound, WireInductive, Progress
  <2>2. CASE RequestAt(fieldsOf).head
    BY <1>1, <2>2, OwedWhileSending
  <2>3. CASE ~RequestAt(fieldsOf).head
    <3>1. Owed = IF resp.length < 0 THEN -1 ELSE resp.length - resp.sent
      BY <1>1, <2>3, OwedWhileSending
    <3>2. resp.length < 0 \/ resp.sent = resp.length
      BY <2>1, <2>3 DEF NothingMissing
    <3>3. QED
      BY <1>4, <3>1, <3>2
  <2>4. QED
    BY <2>2, <2>3
<1>6. Owed' = 0
  BY <1>1, NothingOwedThen
<1>7. Persistent' = Persistent
  <2>1. LastGrown(0)
    BY <1>1, <1>4, ResponseEnds DEF Sound
  <2>2. Last'.keepAlive = Last.keepAlive
    BY <2>1 DEF LastGrown, Grown
  <2>3. Last.keepAlive \in BOOLEAN
    BY <1>4 DEF Message
  <2>4. QED
    BY <1>1, <1>4, <2>2, <2>3 DEF Persistent, Last
<1>8. QED
  BY <1>1, <1>3, <1>5, <1>6, <1>7 DEF Exchange!Next, Exchange!Complete

\* The response that was completed said whether the connection goes on.
LEMMA CompletedPersists ==
  ASSUME Sound, state = "Completed", wire # <<>>
  PROVE  Persistent = Last.keepAlive
<1>1. wire \in Seq(Message) /\ Len(wire) \in 1 .. Len(wire)
  BY DEF Sound, Inductive, TypeOK
<1>2. Last \in Message
  BY <1>1 DEF Last
<1>3. Last.keepAlive \in BOOLEAN
  BY <1>2 DEF Message
<1>4. QED
  BY <1>3 DEF Persistent, Last

LEMMA TransitionToReceivingHeadersSeen ==
  ASSUME Sound, TransitionToReceivingHeaders
  PROVE  [Exchange!Next]_Seen
<1>1. /\ Top = "receivingHeaders" /\ state' = "ReceivingHeaders"
      /\ state \in {"Completed", "Closed"}
      /\ UNCHANGED <<delivered, answered>>
  BY FunctionRuns
     DEF TransitionToReceivingHeaders, Sound, Inductive, CalledIn, historyVars
<1>2. state = "Completed"
  BY <1>1 DEF Sound, WireInductive, Devices, LettingGo
<1>3. state \in State /\ state' \in State
  BY <1>1 DEF State
<1>4. Phase = "completed" /\ Phase' = "receiving"
  BY <1>1, <1>2, <1>3, PhaseOf, PhaseThen DEF Receiving
<1>5. wire # <<>> /\ Last.keepAlive
  BY <1>1 DEF Sound, WireInductive, Over, Persists, MayWriteNext
<1>6. Persistent
  BY <1>2, <1>5, CompletedPersists
<1>7. Owed' = Owed /\ Persistent' = FALSE
  BY <1>1, <1>2, NothingOwed, NothingOwedThen, NotPersistentThen
<1>8. QED
  BY <1>1, <1>4, <1>6, <1>7 DEF Exchange!Next, Exchange!Continue

\* The connection sets out to close after an error response of its own, or after
\* a response that said so.
LEMMA TransitionToFlushingSeen ==
  ASSUME Sound, TransitionToFlushing
  PROVE  [Exchange!Next]_Seen
<1>1. /\ Top = "flushing" /\ ~AppHolds /\ state # "Flushing"
      /\ UNCHANGED <<delivered, answered>>
  BY FunctionRuns
     DEF TransitionToFlushing, Sound, Inductive, CalledIn, historyVars
<1>2. state \notin {"Uninitialized", "Closed"}
  BY <1>1 DEF Sound, WireInductive, Devices, LettingGo
<1>3. Receiving \/ state = "Completed"
  BY <1>1, <1>2, StatesOfSound DEF State, AppHolds, Receiving
<1>4. CASE TransitionToClosed
  BY <1>1, <1>4, ClosingSeen
<1>5. CASE state' = "Flushing"
  <2>1. state \in State /\ state' \in State
    BY <1>5, StatesOfSound DEF State
  <2>2. Phase' = "draining" /\ Owed' = 0 /\ Persistent' = FALSE
    BY <1>5, <2>1, PhaseThen, NothingOwedThen, NotPersistentThen
  <2>3. CASE Receiving
    <3>1. Phase = "receiving" /\ Owed = 0 /\ Persistent = FALSE
      BY <2>1, <2>3, PhaseOf, NothingOwed, NotPersistent DEF Receiving
    <3>2. QED
      BY <1>1, <2>2, <3>1 DEF Exchange!Next, Exchange!Refuse
  <2>4. CASE state = "Completed"
    <3>1. Phase = "completed" /\ Owed = 0
      BY <2>1, <2>4, PhaseOf, NothingOwed
    <3>2. wire # <<>> /\ ~Last.keepAlive
      BY <1>1 DEF Sound, WireInductive, Persists
    <3>3. ~Persistent
      BY <2>4, <3>2, CompletedPersists
    <3>4. QED
      BY <1>1, <2>2, <3>1, <3>3 DEF Exchange!Next, Exchange!Continue
  <2>5. QED
    BY <1>3, <2>3, <2>4
<1>6. QED
  BY <1>4, <1>5 DEF TransitionToFlushing

(***************************************************************************)
(* The refinement.                                                         *)
(***************************************************************************)

LEMMA StepSeen ==
  ASSUME Sound, [Next]_vars
  PROVE  [Exchange!Next]_Seen
<1>1. CASE UNCHANGED vars
  BY <1>1, UnseenStep DEF vars, inputVars, historyVars
<1>2. CASE Application
  BY <1>2, UnseenApplication, ContentSeen, ClosesSeen DEF Application
<1>3. CASE Device
  BY <1>3, InitializeSeen, UnseenInternal, ClosesSeen DEF Device
<1>4. CASE PumpTimer \/ HandlerReturns
  BY <1>4, UnseenInternal
<1>5. CASE DeviceWrites
  BY <1>5, ClosesSeen
<1>6. CASE Internal
  BY <1>6, UnseenInternal, TransitionToSendingHeadersSeen,
     TransitionToSendingContentSeen, ContentSeen, TransitionToCompletedSeen,
     TransitionToReceivingHeadersSeen, TransitionToFlushingSeen
     DEF Internal
<1>7. QED
  BY <1>1, <1>2, <1>3, <1>4, <1>5, <1>6 DEF Next

LEMMA InitSeen ==
  ASSUME Init
  PROVE  Exchange!Init
<1>1. state = "Uninitialized" /\ delivered = <<>> /\ answered = 0
  BY DEF Init
<1>2. Phase = "closed" /\ Owed = 0 /\ Persistent = FALSE
  BY <1>1, PhaseOf, NothingOwed, NotPersistent DEF State
<1>3. QED
  BY <1>1, <1>2 DEF Exchange!Init

\* Seen through its signals and its wire, a connection that nothing closes under
\* transitionToCompleted() is an HttpExchange, for every peer and application:
\* one response per request, complete when and only when the content its head
\* announced is written, on a connection that outlives it only as announced.
THEOREM ConnectionImplementsExchange ==
  ASSUME CloseInCompleted = FALSE, AbortInFlush = FALSE
  PROVE  Spec => ExchangeRefined
<1>1. Inductive /\ WireInductive => Sound
  BY DEF Sound
<1>2. Sound /\ [Next]_vars => [Exchange!Next]_(Exchange!vars)
  BY StepSeen DEF Seen, Exchange!vars
<1>3. Init => Exchange!Init
  BY InitSeen
<1>4. QED
  BY <1>1, <1>2, <1>3, InductiveInvariant, WireInvariant, PTL
     DEF Spec, ExchangeRefined, Exchange!Spec
=============================================================================
