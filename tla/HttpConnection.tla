--------------------------- MODULE HttpConnection ---------------------------
(***************************************************************************)
(* The server side of one HTTP connection: Pillow::HttpConnection and its  *)
(* HttpConnectionPrivate (pillowcore/HttpConnection.cpp).                   *)
(*                                                                         *)
(* The class is single threaded but reentrant.  While it emits requestReady *)
(* or requestCompleted the application runs, and may call writeResponse,    *)
(* writeHeaders, writeContent, endContent or close on the very object whose *)
(* function is still on the call stack; completing a keep-alive response    *)
(* parses the next pipelined request and emits requestReady again, inside   *)
(* the call that completed the previous one.  The call stack is therefore   *)
(* part of the state: "stack" holds what each function still has to do, its *)
(* head being the innermost one.  The event loop (device signals, timers)   *)
(* runs only when the stack is empty.                                       *)
(*                                                                         *)
(* The octets the peer sends are abstracted to units: a "part" of a request *)
(* head, the "end" of a head (which carries what the code reads from it), a *)
(* "body" octet, and "bad" for anything the request parser rejects.         *)
(***************************************************************************)
EXTENDS Integers, Sequences

CONSTANTS
  Scripts,          \* the unit sequences a peer may send over one device
  MaxHead,          \* MaximumRequestHeaderLength, in units
  MaxContent,       \* MaximumRequestContentLength, in units
  HeaderSets,       \* what the application's response headers may say
  Sizes,            \* sizes of the contents the application writes
  MaxSessions,      \* bound: devices one connection object is given in turn
  MayStopListening, \* may the owning server stop listening?
  AbortInFlush,     \* may the socket fail, and disconnect, inside flush()?
  CloseInCompleted, \* may a requestCompleted handler call close()?
  BodyOnBodiless,   \* may writeResponse be given a body it must not send?
  StaleAnswers,     \* may a handler go on using the connection after its
                    \* response is over?
  MaxBody           \* bound: octets written to a body of unknown length

Request ==
  [head : BOOLEAN, http11 : BOOLEAN,
   connection : {"none", "close", "keep-alive"},
   length : Int, lengthOk : BOOLEAN, expect : BOOLEAN]

Unit == [kind : {"part", "end", "body", "bad"}, request : Request]

HeaderSet ==
  [hasLength : BOOLEAN, length : Int, close : BOOLEAN, chunked : BOOLEAN]

ASSUME ScriptsAssumption == Scripts \subseteq Seq(Unit)
ASSUME LimitsAssumption == MaxHead \in Nat /\ MaxContent \in Nat
ASSUME HeaderSetsAssumption == HeaderSets \subseteq HeaderSet
ASSUME SizesAssumption == Sizes \subseteq Nat
ASSUME BoundsAssumption == MaxSessions \in Nat /\ MaxBody \in Nat
ASSUME FlagsAssumption ==
  {MayStopListening, AbortInFlush, CloseInCompleted, BodyOnBodiless,
   StaleAnswers} \subseteq BOOLEAN

VARIABLES
  state,         \* _state
  attached,      \* _inputDevice and _outputDevice are not null
  script,        \* what the peer of this session sends, from first to last
  arrived,       \* how much of it the device has received
  bufLo, bufHi,  \* _requestBuffer holds script[bufLo + 1 .. bufHi]
  nread,         \* _parser.nread; also body_start once a head is parsed
  reqLen,        \* _requestContentLength
  headersShort,  \* _requestHeaders.size() # _requestHeadersRef.size(), for
                 \* the request whose headers were set up last
  headersFresh,  \* _requestHeaders point into the current _requestBuffer
  fieldsOf,      \* the request _requestMethod etc. point at, 0 if dangling
  paramsOf,      \* the request _requestParams were parsed from, 0 if empty
  resp,          \* _responseContentLength, ...BytesSent, ...KeepAlive, ...
  unsent,        \* _outputDevice->bytesToWrite() > 0
  drainOn,       \* bytesWritten is connected to drain()
  pump,          \* zero-delay timers of initialize() that have not fired yet
  listening,     \* the QTcpServer that owns the device is listening
  stack,         \* pending calls, innermost first
  crashed,       \* a null device was dereferenced
  sessions,      \* history: number of calls of initialize()
  delivered,     \* history: requests requestReady was emitted for, by the
                 \* position of the end of their head
  answered,      \* history: number of requestCompleted emissions
  wire           \* history: messages written to the device, oldest first

inputVars   == <<script, arrived>>
requestVars == <<bufLo, bufHi, nread, reqLen, headersShort, headersFresh,
                 fieldsOf, paramsOf>>
outputVars  == <<resp, unsent, drainOn>>
worldVars   == <<pump, listening, sessions>>
historyVars == <<delivered, answered, wire>>

vars == <<state, attached, inputVars, requestVars, outputVars, worldVars,
          historyVars, stack, crashed>>

State == {"Uninitialized", "ReceivingHeaders", "ReceivingContent",
          "SendingHeaders", "SendingContent", "Completed", "Flushing",
          "Closed"}

Receiving == state \in {"ReceivingHeaders", "ReceivingContent"}

\* The application owes the current request an answer.
AppHolds == state \in {"SendingHeaders", "SendingContent"}

\* The request whose head ends at position id of the script.
RequestAt(id) == script[id].request

\* The Content-Length that governs the body of request id (toInt() yields 0
\* for a value it cannot convert).
ContentLength(id) ==
  IF RequestAt(id).lengthOk THEN RequestAt(id).length ELSE 0

\* The request at the front of the buffer, once its head has been parsed.
Current == bufLo + nread

(***************************************************************************)
(* The call stack.                                                         *)
(***************************************************************************)

AppFrames == {"requestReady", "requestCompleted"}

Frames == AppFrames \cup
  {"processInput", "receivingContent", "sendingHeaders", "sendingContent",
   "sendingContentTail", "completed", "completedTail", "receivingHeaders",
   "writeResponseTail", "flushing", "badRequest", "tooLarge"}

Frame == [at : Frames, req : Nat, size : Nat]

Call(at) == [at |-> at, req |-> 0, size |-> 0]

Running(at) == ~crashed /\ stack # <<>> /\ Head(stack).at = at

EventLoop == ~crashed /\ stack = <<>>

\* The application has control: inside a signal it handles, or from the event
\* loop (a timer, another device) while it owes an answer.
AppRuns == ~crashed /\ (stack # <<>> => Head(stack).at \in AppFrames)

\* The request the running application code means to answer.
Intended == IF stack = <<>> THEN fieldsOf ELSE Head(stack).req

AppAnswers == AppRuns /\ (StaleAnswers \/ Intended = fieldsOf)

Return == stack' = Tail(stack)
Become(frame) == stack' = <<frame>> \o Tail(stack)
Enter(frame) == stack' = <<frame>> \o stack

(***************************************************************************)
(* Messages on the wire.                                                   *)
(***************************************************************************)

Message ==
  [kind : {"response", "continue", "error"}, req : Nat, length : Int,
   chunked : BOOLEAN, keepAlive : BOOLEAN,
   body : Nat, foreign : Nat, ended : BOOLEAN]

\* A message without a body, written whole.
Plain(kind, id) ==
  [kind |-> kind, req |-> id, length |-> 0, chunked |-> FALSE,
   keepAlive |-> kind = "continue", body |-> 0, foreign |-> 0, ended |-> TRUE]

ResponseHead(id, length, chunked, keep) ==
  [kind |-> "response", req |-> id, length |-> length, chunked |-> chunked,
   keepAlive |-> keep, body |-> 0, foreign |-> 0, ended |-> FALSE]

Response ==
  [length : Int, sent : Nat, keepAlive : BOOLEAN, chunked : BOOLEAN]

\* What transitionToSendingHeaders resets the response fields to.
UnknownResponse ==
  [length |-> -1, sent |-> 0, keepAlive |-> TRUE, chunked |-> FALSE]

Init ==
  /\ state = "Uninitialized"
  /\ attached = FALSE
  /\ script = <<>>
  /\ arrived = 0
  /\ bufLo = 0
  /\ bufHi = 0
  /\ nread = 0
  /\ reqLen = 0
  /\ headersShort = FALSE
  /\ headersFresh = FALSE
  /\ fieldsOf = 0
  /\ paramsOf = 0
  /\ resp = UnknownResponse
  /\ unsent = FALSE
  /\ drainOn = FALSE
  /\ pump = 0
  /\ listening = TRUE
  /\ stack = <<>>
  /\ crashed = FALSE
  /\ sessions = 0
  /\ delivered = <<>>
  /\ answered = 0
  /\ wire = <<>>

(***************************************************************************)
(* Life of the devices.                                                    *)
(***************************************************************************)

\* Mutant of DropLeftovers: the parsed parameters stay.
DropLeftoversButParams ==
  /\ bufLo' = 0
  /\ bufHi' = 0
  /\ UNCHANGED paramsOf

\* Mutant of DropLeftovers: the buffer keeps its size.
DropLeftoversButBuffer ==
  /\ paramsOf' = 0
  /\ UNCHANGED <<bufLo, bufHi>>

\* What a request that never completed may have left behind is dropped.
DropLeftovers ==
  /\ bufLo' = 0
  /\ bufHi' = 0
  /\ paramsOf' = 0

\* Mutant of SchedulePump: waits for readyRead, which was emitted long ago.
NoPump(k) == pump' = pump

\* A device that holds k units already is read as soon as the event loop runs.
SchedulePump(k) == pump' = IF k > 0 THEN pump + 1 ELSE pump

\* initialize(): the object, new or closed, is given the devices of the next
\* peer.
Initialize(s, k) ==
  /\ EventLoop
  /\ state \in {"Uninitialized", "Closed"}
  /\ sessions < MaxSessions
  /\ k <= Len(s)
  /\ state' = "ReceivingHeaders"
  /\ attached' = TRUE
  /\ script' = s
  /\ arrived' = k
  /\ DropLeftovers
  /\ nread' = 0
  /\ reqLen' = 0
  /\ headersShort' = FALSE
  /\ headersFresh' = FALSE
  /\ fieldsOf' = 0
  /\ unsent' = FALSE
  /\ drainOn' = FALSE
  /\ SchedulePump(k)
  /\ sessions' = sessions + 1
  /\ delivered' = <<>>
  /\ answered' = 0
  /\ wire' = <<>>
  /\ UNCHANGED <<resp, listening, stack, crashed>>

\* transitionToClosed(): closes and lets go of the devices, emits closed.  Every
\* slot is a no-op in state Closed, so nothing a handler of closed may do to
\* this object has an effect.
TransitionToClosed ==
  /\ state' = "Closed"
  /\ attached' = FALSE
  /\ drainOn' = FALSE
  /\ unsent' = FALSE

\* The zero-delay timer of initialize() fires.  It belongs to the connection
\* object, not to the device it was started for.
PumpTimer ==
  /\ EventLoop
  /\ pump > 0
  /\ pump' = pump - 1
  /\ Enter(Call("processInput"))
  /\ UNCHANGED <<state, attached, inputVars, requestVars, outputVars,
                 listening, sessions, historyVars, crashed>>

\* The device receives k more units and emits readyRead.
ReadyRead(k) ==
  /\ EventLoop
  /\ attached
  /\ k > 0
  /\ arrived + k <= Len(script)
  /\ arrived' = arrived + k
  /\ Enter(Call("processInput"))
  /\ UNCHANGED <<state, attached, script, requestVars, outputVars, worldVars,
                 historyVars, crashed>>

\* The peer goes away: disconnected (or aboutToClose) is connected to close().
PeerCloses ==
  /\ EventLoop
  /\ attached
  /\ state # "Closed"
  /\ TransitionToClosed
  /\ UNCHANGED <<inputVars, requestVars, resp, worldVars, historyVars, stack,
                 crashed>>

\* The device hands everything it holds to the kernel and emits bytesWritten,
\* which runs drain() once transitionToFlushing() has connected it.  (Handing
\* over a part of it changes nothing here.)
BytesWritten ==
  /\ attached
  /\ unsent
  /\ \/ /\ drainOn /\ state = "Flushing"
        /\ TransitionToClosed
     \/ /\ ~(drainOn /\ state = "Flushing")
        /\ unsent' = FALSE
        /\ UNCHANGED <<state, attached, drainOn>>
  /\ UNCHANGED <<inputVars, requestVars, resp, worldVars, historyVars, stack,
                 crashed>>

DeviceWrites == EventLoop /\ BytesWritten

\* QTcpServer::close() on the server that owns the device.
StopListening ==
  /\ MayStopListening
  /\ AppRuns
  /\ listening
  /\ listening' = FALSE
  /\ UNCHANGED <<state, attached, inputVars, requestVars, outputVars, pump,
                 sessions, historyVars, stack, crashed>>

(***************************************************************************)
(* Receiving a request.                                                    *)
(***************************************************************************)

\* processInput() returns: wrong state, or nothing to read and nothing buffered.
ProcessInputIdle ==
  /\ Running("processInput")
  /\ ~Receiving \/ (attached /\ arrived = bufHi /\ bufHi = bufLo)
  /\ Return
  /\ UNCHANGED <<state, attached, inputVars, requestVars, outputVars,
                 worldVars, historyVars, crashed>>

\* processInput() asks a null device for its bytesAvailable().
ProcessInputCrash ==
  /\ Running("processInput")
  /\ Receiving
  /\ ~attached
  /\ crashed' = TRUE
  /\ UNCHANGED <<state, attached, inputVars, requestVars, outputVars,
                 worldVars, historyVars, stack>>

\* Mutant of ReadAvailable: the buffer is not cut back to what was read.
ReadTooMuch ==
  /\ bufHi' = bufHi + arrived
  /\ headersFresh' = (headersFresh /\ arrived = bufHi)

\* Reading appends to _requestBuffer, which may move it.
ReadAvailable ==
  /\ bufHi' = arrived
  /\ headersFresh' = (headersFresh /\ arrived = bufHi)

\* Where the parser, resuming after nread, stops before the end of its input.
ParserStops ==
  {p \in (bufLo + nread + 1) .. arrived : script[p].kind # "part"}

\* processInput() while the head is incomplete: read, parse from where the
\* parser stopped last, and go on by what it found.
ParseHeaders ==
  /\ Running("processInput")
  /\ state = "ReceivingHeaders"
  /\ attached
  /\ arrived > bufLo
  /\ ReadAvailable
  /\ \/ /\ ParserStops = {}
        /\ nread' = arrived - bufLo
        /\ IF nread' > MaxHead THEN Become(Call("badRequest")) ELSE Return
     \/ \E p \in ParserStops :
          /\ \A q \in ParserStops : p <= q
          /\ nread' = p - bufLo
          /\ IF nread' > MaxHead \/ script[p].kind # "end"
             THEN Become(Call("badRequest"))
             ELSE Become(Call("receivingContent"))
  /\ UNCHANGED <<state, attached, inputVars, bufLo, reqLen, headersShort,
                 fieldsOf, paramsOf, outputVars, worldVars, historyVars,
                 crashed>>

\* Mutant of MakeRoom: no header is dropped, so none is set up again.
MakeRoomOnly(some) ==
  /\ headersShort' = FALSE
  /\ headersFresh' = ~some

\* Makes the buffer large enough for the content if there is some, which may
\* move it; one header is dropped to have the headers set up again later.
MakeRoom(some) ==
  /\ headersShort' = some
  /\ headersFresh' = ~some

\* transitionToReceivingContent(): the head is complete, its headers are set up
\* and its content length is read.  The content may already be in the buffer.
TransitionToReceivingContent ==
  /\ Running("receivingContent")
  /\ state' = "ReceivingContent"
  /\ reqLen' = ContentLength(Current)
  /\ MakeRoom(reqLen' \in 1 .. MaxContent)
  /\ Become(Call(IF reqLen' < 0 THEN "badRequest"
                 ELSE IF reqLen' > MaxContent \/ ~RequestAt(Current).lengthOk
                 THEN "tooLarge"
                 ELSE IF reqLen' > 0 THEN "processInput"
                 ELSE "sendingHeaders"))
  /\ \/ /\ reqLen' \in 1 .. MaxContent
        /\ RequestAt(Current).expect
        /\ wire' = Append(wire, Plain("continue", Current))
        /\ unsent' = TRUE
     \/ /\ ~(reqLen' \in 1 .. MaxContent /\ RequestAt(Current).expect)
        /\ UNCHANGED <<wire, unsent>>
  /\ UNCHANGED <<attached, inputVars, bufLo, bufHi, nread, fieldsOf, paramsOf,
                 resp, drainOn, worldVars, delivered, answered, crashed>>

\* Mutant of ContentArrived: counts the head as content.
ContentOrHeadArrived == arrived - bufLo >= reqLen

\* The whole content of the current request has arrived.
ContentArrived == arrived - bufLo - nread >= reqLen

\* processInput() while the body is incomplete.
PumpContent ==
  /\ Running("processInput")
  /\ state = "ReceivingContent"
  /\ attached
  /\ arrived > bufLo
  /\ ReadAvailable
  /\ IF ContentArrived THEN Become(Call("sendingHeaders")) ELSE Return
  /\ UNCHANGED <<state, attached, inputVars, bufLo, nread, reqLen,
                 headersShort, fieldsOf, paramsOf, outputVars, worldVars,
                 historyVars, crashed>>

\* Sets the headers up (again) if one is missing, as all of them then are.
SetupRequestHeaders ==
  /\ headersFresh' = (headersFresh \/ headersShort)
  /\ headersShort' = FALSE

\* transitionToSendingHeaders(): points the request fields at the buffer, forgets
\* the previous response and emits requestReady.
TransitionToSendingHeaders ==
  /\ Running("sendingHeaders")
  /\ state' = "SendingHeaders"
  /\ SetupRequestHeaders
  /\ fieldsOf' = Current
  /\ resp' = UnknownResponse
  /\ delivered' = Append(delivered, Current)
  /\ Become([at |-> "requestReady", req |-> Current, size |-> 0])
  /\ UNCHANGED <<attached, inputVars, bufLo, bufHi, nread, reqLen, paramsOf,
                 unsent, drainOn, worldVars, answered, wire, crashed>>

\* writeRequestErrorResponse(): answers 400 or 413 and closes once that is sent.
WriteRequestErrorResponse ==
  /\ Running("badRequest") \/ Running("tooLarge")
  /\ state # "Closed"
  /\ wire' = Append(wire, Plain("error", Current))
  /\ unsent' = TRUE
  /\ Become(Call("flushing"))
  /\ UNCHANGED <<state, attached, inputVars, requestVars, resp, drainOn,
                 worldVars, delivered, answered, crashed>>

(***************************************************************************)
(* The application's calls.  A call in any other state than the one its    *)
(* guard names returns with a warning and changes nothing.                 *)
(***************************************************************************)

\* Mutant of ServerWantsKeepAlive: forgets that the length may be unknown.
ServerAlwaysWantsKeepAlive(h, length, chunked) == ~h.close

\* The length the response gets: its Content-Length header if there is one (-1
\* if that does not parse), what was known before otherwise.
LengthOf(h, known) == IF h.hasLength THEN h.length ELSE known

\* Chunked encoding needs HTTP/1.1 and an unknown length.
ChunkedOf(h, id, length) == h.chunked /\ RequestAt(id).http11 /\ length = -1

ClientWantsKeepAlive(id) ==
  IF RequestAt(id).http11 THEN RequestAt(id).connection # "close"
                          ELSE RequestAt(id).connection = "keep-alive"

ServerWantsKeepAlive(h, length, chunked) ==
  (length >= 0 \/ chunked) /\ ~h.close

\* Mutant of HeadIsDue: a second head may follow the first.
HeadIsPossible == AppHolds

\* No head has been written for the current request.
HeadIsDue == state = "SendingHeaders"

\* The part of writeHeaders() before transitionToSendingContent().
WriteHead(h, known) ==
  LET length  == LengthOf(h, known)
      chunked == ChunkedOf(h, fieldsOf, length)
      keep    == /\ ClientWantsKeepAlive(fieldsOf)
                 /\ ServerWantsKeepAlive(h, length, chunked)
                 /\ listening
  IN  /\ HeadIsDue
      /\ resp' = [resp EXCEPT !.length = length, !.chunked = chunked,
                              !.keepAlive = keep]
      /\ wire' = Append(wire, ResponseHead(fieldsOf, length, chunked, keep))
      /\ unsent' = TRUE
      /\ UNCHANGED <<state, attached, inputVars, requestVars, drainOn,
                     worldVars, delivered, answered, crashed>>

WriteHeaders(h) ==
  /\ AppAnswers
  /\ WriteHead(h, resp.length)
  /\ Enter(Call("sendingContent"))

\* Will the response be over once its head is written?
Bodiless(h, n) == RequestAt(fieldsOf).head \/ LengthOf(h, n) = 0

WriteResponse(h, n) ==
  /\ AppAnswers
  /\ WriteHead(h, n)
  /\ BodyOnBodiless \/ n = 0 \/ ~Bodiless(h, n)
  /\ stack' = <<Call("sendingContent"),
                [at |-> "writeResponseTail", req |-> Intended, size |-> n]>>
              \o stack

\* Mutant of NoContentDue: off by one.
OneOctetIsNone == resp.length \in {0, 1} \/ RequestAt(fieldsOf).head

\* There is no content to wait for.
NoContentDue == resp.length = 0 \/ RequestAt(fieldsOf).head

\* transitionToSendingContent() up to its tail: a response without a body is
\* complete.
TransitionToSendingContent ==
  /\ Running("sendingContent")
  /\ state' = "SendingContent"
  /\ IF NoContentDue
     THEN stack' = <<Call("completed"), Call("sendingContentTail")>>
                   \o Tail(stack)
     ELSE Become(Call("sendingContentTail"))
  /\ UNCHANGED <<attached, inputVars, requestVars, outputVars, worldVars,
                 historyVars, crashed>>

\* Mutant of SendingContentTail: sets the flag instead of only clearing it.
SendingContentTailSets ==
  /\ Running("sendingContentTail")
  /\ resp' = [resp EXCEPT !.keepAlive = resp.length >= 0 \/ resp.chunked]
  /\ Return
  /\ UNCHANGED <<state, attached, inputVars, requestVars, unsent, drainOn,
                 worldVars, historyVars, crashed>>

\* The tail of transitionToSendingContent(), after a completed response and all
\* that its completion started: it looks at whatever response is now current.
SendingContentTail ==
  /\ Running("sendingContentTail")
  /\ resp' = [resp EXCEPT !.keepAlive =
                @ /\ (resp.length >= 0 \/ resp.chunked)]
  /\ Return
  /\ UNCHANGED <<state, attached, inputVars, requestVars, unsent, drainOn,
                 worldVars, historyVars, crashed>>

\* Mutant of ContentRefused: looks only at what was sent before.
ContentRefusedLate(n) ==
  \/ resp.length >= 0 /\ resp.sent >= resp.length
  \/ n = 0
  \/ RequestAt(fieldsOf).head

\* writeContent() does nothing with these n octets.
ContentRefused(n) ==
  \/ resp.length = 0
  \/ resp.length > 0 /\ resp.sent + n > resp.length
  \/ n = 0
  \/ RequestAt(fieldsOf).head

\* The part of writeContent() that writes, for the handler of request owner,
\* the rest of whose call is "rest".
PutContent(n, owner, rest) ==
  LET sent == resp.sent + n
      last == Len(wire)
  IN  /\ state = "SendingContent"
      /\ ~ContentRefused(n)
      /\ resp' = [resp EXCEPT !.sent = sent]
      /\ wire' = IF owner = wire[last].req
                 THEN [wire EXCEPT ![last].body = @ + n]
                 ELSE [wire EXCEPT ![last].foreign = @ + n]
      /\ unsent' = TRUE
      /\ stack' = IF sent = resp.length THEN <<Call("completed")>> \o rest
                                        ELSE rest
      /\ UNCHANGED <<state, attached, inputVars, requestVars, drainOn,
                     worldVars, delivered, answered, crashed>>

WriteContent(n) ==
  /\ AppAnswers
  /\ resp.length >= 0 \/ resp.sent + n <= MaxBody
  /\ PutContent(n, Intended, stack)

\* The tail of writeResponse(): the content, unless there is none or
\* _requestMethod, as it is now, says HEAD.
WriteResponseTail ==
  /\ Running("writeResponseTail")
  /\ \/ PutContent(Head(stack).size, Head(stack).req, Tail(stack))
     \/ /\ state = "SendingContent" => ContentRefused(Head(stack).size)
        /\ Return
        /\ UNCHANGED <<state, attached, inputVars, requestVars, outputVars,
                       worldVars, historyVars, crashed>>

\* endContent(): ends a response of unknown length.
EndContent ==
  /\ AppAnswers
  /\ state = "SendingContent"
  /\ resp.length < 0
  /\ resp' = [resp EXCEPT !.keepAlive = @ /\ resp.chunked]
  /\ unsent' = (unsent \/ resp.chunked)
  /\ Enter(Call("completed"))
  /\ UNCHANGED <<state, attached, inputVars, requestVars, drainOn, worldVars,
                 historyVars, crashed>>

\* close(), by the application.
Close ==
  /\ AppRuns
  /\ state # "Closed"
  /\ CloseInCompleted \/ state # "Completed"
  /\ TransitionToClosed
  /\ UNCHANGED <<inputVars, requestVars, resp, worldVars, historyVars, stack,
                 crashed>>

\* The flush() slot: it may write everything, or find the socket dead.
Flush ==
  /\ AppRuns
  /\ \/ BytesWritten
     \/ /\ AbortInFlush
        /\ attached /\ unsent
        /\ TransitionToClosed
        /\ UNCHANGED <<inputVars, requestVars, resp, worldVars, historyVars,
                       stack, crashed>>

\* requestParams(), requestParamValue(), setRequestParam(): the parameters are
\* parsed on first use and kept.  Dangling request fields still hold, if
\* anything, what the last request left there.
RequestParams ==
  /\ AppRuns
  /\ StaleAnswers \/ (fieldsOf # 0 /\ Intended = fieldsOf)
  /\ paramsOf = 0
  /\ delivered # <<>>
  /\ paramsOf' = IF fieldsOf = 0 THEN delivered[Len(delivered)] ELSE fieldsOf
  /\ UNCHANGED <<state, attached, inputVars, bufLo, bufHi, nread, reqLen,
                 headersShort, headersFresh, fieldsOf, outputVars, worldVars,
                 historyVars, stack, crashed>>

\* The handler of requestReady or requestCompleted returns.
HandlerReturns ==
  /\ AppRuns
  /\ stack # <<>>
  /\ Return
  /\ UNCHANGED <<state, attached, inputVars, requestVars, outputVars,
                 worldVars, historyVars, crashed>>

(***************************************************************************)
(* Completing a response.                                                  *)
(***************************************************************************)

\* transitionToCompleted() up to and including emit requestCompleted.
TransitionToCompleted ==
  /\ Running("completed")
  /\ state \notin {"Completed", "Closed", "Flushing"}
  /\ state' = "Completed"
  /\ answered' = answered + 1
  /\ wire' = [wire EXCEPT ![Len(wire)].ended = TRUE]
  /\ stack' = <<[at |-> "requestCompleted", req |-> fieldsOf, size |-> 0],
                Call("completedTail")>> \o Tail(stack)
  /\ UNCHANGED <<attached, inputVars, requestVars, outputVars, worldVars,
                 delivered, crashed>>

\* The parsed parameters go; the other request fields are left dangling.
ForgetRequest ==
  /\ paramsOf' = 0
  /\ fieldsOf' = 0
  /\ headersFresh' = FALSE

\* Where the buffer begins once the current request has left it.
NextInBuffer == IF bufHi > Current + reqLen THEN Current + reqLen ELSE bufHi

\* The rest of transitionToCompleted(): the request leaves the buffer, what
\* follows it stays; then flush() and on to the next request, or to closing.
CompletedTail ==
  /\ Running("completedTail")
  /\ bufLo' = NextInBuffer
  /\ ForgetRequest
  /\ \/ /\ resp.keepAlive
        /\ Become(Call("receivingHeaders"))
        /\ \/ unsent' \in {unsent, FALSE} /\ UNCHANGED <<state, attached, drainOn>>
           \/ AbortInFlush /\ attached /\ unsent /\ TransitionToClosed
     \/ /\ ~resp.keepAlive
        /\ Become(Call("flushing"))
        /\ UNCHANGED <<state, attached, unsent, drainOn>>
  /\ UNCHANGED <<inputVars, bufHi, nread, reqLen, headersShort, resp,
                 worldVars, historyVars, crashed>>

\* transitionToReceivingHeaders() followed by processInput().
TransitionToReceivingHeaders ==
  /\ Running("receivingHeaders")
  /\ state' = "ReceivingHeaders"
  /\ nread' = 0
  /\ reqLen' = 0
  /\ Become(Call("processInput"))
  /\ UNCHANGED <<attached, inputVars, bufLo, bufHi, headersShort,
                 headersFresh, fieldsOf, paramsOf, outputVars, worldVars,
                 historyVars, crashed>>

\* Mutant of TransitionToFlushing: drains first, and sets its state after that.
FlushingAfterDrain ==
  /\ Running("flushing")
  /\ Return
  /\ state' = "Flushing"
  /\ \/ attached' = FALSE /\ drainOn' = FALSE /\ unsent' = FALSE
     \/ drainOn' = attached /\ UNCHANGED <<attached, unsent>>
  /\ UNCHANGED <<inputVars, requestVars, resp, worldVars, historyVars,
                 crashed>>

\* Mutant of TransitionToFlushing: nobody listens to bytesWritten.
FlushingUnheard ==
  /\ Running("flushing")
  /\ Return
  /\ \/ attached /\ TransitionToClosed
     \/ /\ attached => unsent
        /\ state' = "Flushing"
        /\ UNCHANGED <<attached, unsent, drainOn>>
  /\ UNCHANGED <<inputVars, requestVars, resp, worldVars, historyVars,
                 crashed>>

\* transitionToFlushing(), with the drain() it calls: closed at once if all is
\* written (or the socket fails), else as soon as the device has written it.
\* Without a device there is nothing to write and nothing to wait for.
TransitionToFlushing ==
  /\ Running("flushing")
  /\ Return
  /\ \/ attached /\ TransitionToClosed
     \/ /\ attached => unsent
        /\ state' = "Flushing"
        /\ drainOn' = attached
        /\ UNCHANGED <<attached, unsent>>
  /\ UNCHANGED <<inputVars, requestVars, resp, worldVars, historyVars,
                 crashed>>

-----------------------------------------------------------------------------

Application ==
  \/ \E h \in HeaderSets : WriteHeaders(h)
  \/ \E h \in HeaderSets, n \in Sizes : WriteResponse(h, n)
  \/ \E n \in Sizes : WriteContent(n)
  \/ EndContent
  \/ Close
  \/ Flush
  \/ RequestParams
  \/ StopListening

Device ==
  \/ \E s \in Scripts : \E k \in 0 .. Len(s) : Initialize(s, k)
  \/ \E k \in 1 .. Len(script) : ReadyRead(k)
  \/ PeerCloses

Internal ==
  \/ ProcessInputIdle
  \/ ProcessInputCrash
  \/ ParseHeaders
  \/ TransitionToReceivingContent
  \/ PumpContent
  \/ TransitionToSendingHeaders
  \/ WriteRequestErrorResponse
  \/ TransitionToSendingContent
  \/ SendingContentTail
  \/ WriteResponseTail
  \/ TransitionToCompleted
  \/ CompletedTail
  \/ TransitionToReceivingHeaders
  \/ TransitionToFlushing

Next == Application \/ Device \/ PumpTimer \/ DeviceWrites \/ HandlerReturns
        \/ Internal

\* The code runs to completion, handlers return, zero-delay timers fire, and a
\* peer that stays connected takes what is sent to it.  The application need
\* not answer and the peer need not send.
Fairness ==
  /\ WF_vars(Internal)
  /\ WF_vars(HandlerReturns)
  /\ WF_vars(PumpTimer)
  /\ WF_vars(DeviceWrites)

Spec == Init /\ [][Next]_vars /\ Fairness

-----------------------------------------------------------------------------

(***************************************************************************)
(* Properties.                                                             *)
(***************************************************************************)

\* The type invariant, with the order of the positions in the peer's stream:
\* what is parsed is buffered, what is buffered has arrived.
TypeOK ==
  /\ state \in State
  /\ attached \in BOOLEAN
  /\ script \in Seq(Unit)
  /\ arrived \in 0 .. Len(script)
  /\ bufHi \in 0 .. arrived
  /\ bufLo \in 0 .. bufHi
  /\ nread \in Nat
  /\ reqLen \in Int
  /\ headersShort \in BOOLEAN
  /\ headersFresh \in BOOLEAN
  /\ fieldsOf \in 0 .. Len(script)
  /\ paramsOf \in 0 .. Len(script)
  /\ resp \in Response
  /\ unsent \in BOOLEAN
  /\ drainOn \in BOOLEAN
  /\ pump \in 0 .. MaxSessions
  /\ listening \in BOOLEAN
  /\ stack \in Seq(Frame)
  /\ crashed \in BOOLEAN
  /\ sessions \in 0 .. MaxSessions
  /\ delivered \in Seq(1 .. Len(script))
  /\ answered \in Nat
  /\ wire \in Seq(Message)

\* As long as a request is being answered, its fields, headers and content are
\* what the peer sent, in memory the buffer still owns: nothing is read into,
\* or dropped from, the buffer meanwhile, and the headers dropped while the
\* buffer grew for the content have been set up again.
RequestViewIntact ==
  AppHolds => /\ fieldsOf = Current
              /\ headersFresh /\ ~headersShort
              /\ Current + reqLen <= bufHi

\* The parameters a handler gets are those of the request it handles, never the
\* ones a previous request on the same connection left in the cache.
ParamsOfCurrent == AppHolds => paramsOf \in {0, fieldsOf}

\* When the connection waits for input, it has read everything that arrived and
\* what it has does not complete a request: a pipelined request, or a body that
\* came with its head, is never left lying in the buffer.
NothingStranded ==
  EventLoop /\ pump = 0 =>
    /\ state = "ReceivingHeaders" =>
         /\ bufHi = arrived
         /\ Current = arrived
         /\ \A p \in (bufLo + 1) .. arrived : script[p].kind = "part"
    /\ state = "ReceivingContent" =>
         /\ bufHi = arrived
         /\ arrived < Current + reqLen

\* Where request number i of the stream begins, by the framing of HTTP.
StartOf(i) ==
  IF i = 1 THEN 0 ELSE delivered[i - 1] + ContentLength(delivered[i - 1])

\* However the peer's octets were cut into pieces, the requests delivered to the
\* application are the ones the peer framed, in order and without gap: each one
\* starts where the content of the one before ends, and is delivered only once
\* its content is there.
FramedAsSent ==
  \A i \in 1 .. Len(delivered) :
    /\ script[delivered[i]].kind = "end"
    /\ StartOf(i) < delivered[i]
    /\ \A p \in (StartOf(i) + 1) .. (delivered[i] - 1) :
         script[p].kind = "part"
    /\ delivered[i] + ContentLength(delivered[i]) <= arrived

\* Pipelined requests are answered one at a time and in order: requestReady is
\* not emitted again before requestCompleted, and the responses on the wire are
\* those of the delivered requests, one each, oldest first.
OneAtATime ==
  /\ answered <= Len(delivered)
  /\ Len(delivered) <= answered + 1
  /\ \A i \in 1 .. answered : \E m \in 1 .. Len(wire) :
       /\ wire[m].kind = "response"
       /\ wire[m].req = delivered[i]
       /\ wire[m].ended
  /\ \A m, n \in 1 .. Len(wire) :
       wire[m].kind = "response" /\ wire[n].kind = "response" /\ m < n =>
         wire[m].ended /\ wire[m].req < wire[n].req

\* A response never carries more content than the Content-Length it announced,
\* carries exactly that much when it is complete, and none when it answers HEAD.
LengthHonoured ==
  \A m \in 1 .. Len(wire) :
    LET r == wire[m]
        sent == r.body + r.foreign
    IN  r.kind = "response" =>
          IF RequestAt(r.req).head THEN sent = 0
          ELSE r.length >= 0 => /\ sent <= r.length
                                /\ r.ended => sent = r.length

\* What one request is answered with never ends up in the response to another.
NoForeignContent == \A m \in 1 .. Len(wire) : wire[m].foreign = 0

\* What a message says about the connection is what happens to it: after one
\* that announced its end nothing more is written, only after one that did the
\* connection sets out to close by itself, and one that did not tells its peer
\* where it ends.
PersistenceAgreed ==
  /\ \A m \in 1 .. Len(wire) :
       IF wire[m].keepAlive
       THEN wire[m].length >= 0 \/ wire[m].chunked
       ELSE m = Len(wire)
  /\ wire # <<>> /\ wire[Len(wire)].ended =>
       /\ state = "Flushing" => ~wire[Len(wire)].keepAlive
       /\ ~wire[Len(wire)].keepAlive => ~Receiving \/ stack # <<>>

\* A connection in use has its devices; without them it is closed (or new).
DeviceInUse == state \notin {"Uninitialized", "Closed"} => attached

\* Where the next request in the stream ends its head, if all of it has arrived.
NextRequestArrived ==
  \E p \in (bufLo + 1) .. arrived :
    /\ \A q \in (bufLo + 1) .. (p - 1) : script[q].kind = "part"
    /\ script[p].kind = "end"
    /\ p + ContentLength(p) <= arrived

\* A request that has arrived in full is taken up (delivered or refused), unless
\* the connection closes.
RequestTakenUp == Receiving /\ NextRequestArrived ~> ~Receiving

\* A connection that is flushing its last response gets closed.
FlushingEnds == state = "Flushing" ~> state = "Closed"

-----------------------------------------------------------------------------

(***************************************************************************)
(* Refinement: an HttpConnection is an HttpExchange.                       *)
(***************************************************************************)

Phase ==
  CASE state \in {"Uninitialized", "Closed"} -> "closed"
    [] Receiving                             -> "receiving"
    [] state = "SendingHeaders"              -> "answering"
    [] state = "SendingContent"              -> "sending"
    [] state = "Completed"                   -> "completed"
    [] state = "Flushing"                    -> "draining"

Owed ==
  IF state # "SendingContent" \/ RequestAt(wire[Len(wire)].req).head THEN 0
  ELSE LET r == wire[Len(wire)]
       IN  IF r.length < 0 THEN -1 ELSE r.length - r.body - r.foreign

Persistent ==
  state \in {"SendingContent", "Completed"} /\ wire[Len(wire)].keepAlive

Exchange == INSTANCE HttpExchange WITH
  phase <- Phase, served <- Len(delivered), owed <- Owed,
  persistent <- Persistent

\* Seen through its signals and its wire, the connection keeps the promises of
\* HttpExchange: one response per request, complete when and only when the
\* announced content is written, a connection that lives on only as announced.
ExchangeRefined == Exchange!Spec
=============================================================================
