------------------------------ MODULE HttpClient ------------------------------
(***************************************************************************)
(* The client: Pillow::HttpClient over its HttpResponseParser, which wraps *)
(* the vendored http_parser (pillowcore/HttpClient.cpp).                   *)
(*                                                                         *)
(* Everything happens inside device_readyRead(): it injects what it read   *)
(* into the parser, whose callbacks emit the client's signals, in whose    *)
(* handlers the application may abort, consume or ask for the next         *)
(* request.  The stack has the functions and signals in progress.          *)
(*                                                                         *)
(* A response is a sequence of units, each with the request it answers:    *)
(*   begin            the status line                                      *)
(*   header           a header field and its value                         *)
(*   continue         the end of the head of a 100 Continue                *)
(*   end, endEmpty    the end of a head; endEmpty: no content follows      *)
(*   frame, last      chunk framing; the last chunk                        *)
(*   body, bodyLast   an octet of content; bodyLast completes the content  *)
(*   bad              anything http_parser rejects                         *)
(***************************************************************************)
EXTENDS Integers, Sequences, FiniteSets

CONSTANTS
  Servers,          \* hosts and ports
  Answers,          \* the responses servers give, see Answer
  KeepAliveTimeout, \* keepAliveTimeout: -1 none, 0 no keep-alive
  ReadBufferSize,   \* readBufferSize, 0 if not limited
  Expansion,        \* bound: how many octets inflate() makes of one at most
  Interrupts,       \* can a response end halfway (abort, lost connection)?
  AbortsHead,       \* does the application abort() in headersCompleted of HEAD?
  AsksTwice,        \* does it ask for another request while one is put off?
  MaxRequests,      \* bound: requests asked for
  MaxTimers         \* bound: pending zero-delay timers

\* What a server answers.  It may first send 100 Continue.
Answer ==
  [interim : Nat, headers : Nat, gzip : BOOLEAN, keepAlive : BOOLEAN,
   framing : {"length", "chunked", "eof"}, body : Nat, bad : BOOLEAN]

ASSUME AnswersAssumption == Answers \subseteq Answer /\ Answers # {}
ASSUME LimitsAssumption ==
  KeepAliveTimeout \in Int /\ ReadBufferSize \in Nat
\* Compression has its limits, and what inflate() rejects stays as it is.
ASSUME ExpansionAssumption == Expansion \in Nat \ {0}
ASSUME FlagsAssumption ==
  Interrupts \in BOOLEAN /\ AbortsHead \in BOOLEAN /\ AsksTwice \in BOOLEAN
ASSUME BoundsAssumption == MaxRequests \in Nat /\ MaxTimers \in Nat

VARIABLES
  asked,     \* history: the requests accepted so far
  request,   \* _request, as an index of asked; 0 before the first
  deferred,  \* _pendingRequest, 0 if null
  pending,   \* _responsePending
  error,     \* _error
  device,    \* state of _device
  stream,    \* what the server has written and the device not received
  inbox,     \* what the device has received
  buffer,    \* the part of _buffer that is not parsed
  parser,    \* http_parser: its state and http_errno
  headers,   \* requests whose responses contributed to _headers
  field,     \* the same of _field and _value
  wasValue,  \* _lastWasValue
  content,   \* size of _content
  decoder,   \* _contentDecoder: the response it was made for, 0 if null, and
             \* whether it is in the middle of a compressed stream
  timers,    \* calls of device_readyRead() that consumeContent() scheduled
  stack,     \* signals and functions in progress, innermost first
  answer,    \* history: what the server answers to the request sent last
  parsed,    \* history: units of that answer parsed, octets of it received,
             \* whether some were decoded, and whether they were decoded by
             \* what was not made for them
  cut,       \* history: did the server close before it had sent its answer?
  ended      \* history: how often finished was emitted for each request

deviceVars == <<device, stream, inbox>>
parserVars == <<parser, headers, field, wasValue, content, decoder>>
historyVars == <<answer, parsed, cut>>
requestVars == <<asked, request, deferred, pending, error>>

vars ==
  <<requestVars, deviceVars, buffer, parserVars, timers, stack, historyVars,
    ended>>

Requests == 1 .. MaxRequests

Request == [head : BOOLEAN, server : Servers]

Errors ==
  {"NoError", "NetworkError", "ResponseInvalidError", "RemoteHostClosedError",
   "AbortedError"}

UnitKinds ==
  {"begin", "header", "continue", "end", "endEmpty", "frame", "last", "body",
   "bodyLast", "bad"}

Unit == [of : Requests, kind : UnitKinds]

\* http_parser between messages, in a head, in content, and with the completion
\* of a message or of a 100 Continue as its next step.
Parser ==
  [at : {"start", "head", "content", "complete", "continued"},
   errno : {"ok", "paused", "failed"}]

NewParser == [at |-> "start", errno |-> "ok"]

NoDecoder == [of |-> 0, begun |-> FALSE]

NothingParsed ==
  [units |-> 0, octets |-> 0, decoded |-> FALSE, garbled |-> FALSE]

Signals == {"headersCompleted", "contentReadyRead", "finished"}

\* device_readyRead() with the parser at work, for the first and for the second
\* time, and after the parser has failed.
Parsing == {"reading", "rereading"}
Frames == Signals \cup Parsing \cup {"rejecting"}

\* What runs.
Top == IF stack = <<>> THEN "eventLoop" ELSE Head(stack)

EventLoop == Top = "eventLoop"
AppRuns == Top \in Signals \cup {"eventLoop"}
IsParsing == \E i \in 1 .. Len(stack) : stack[i] \in Parsing

Init ==
  /\ asked = <<>>
  /\ request = 0
  /\ deferred = 0
  /\ pending = FALSE
  /\ error = "NoError"
  /\ device = "unconnected"
  /\ stream = <<>>
  /\ inbox = <<>>
  /\ buffer = <<>>
  /\ parser = NewParser
  /\ headers = {}
  /\ field = {}
  /\ wasValue = FALSE
  /\ content = 0
  /\ decoder = NoDecoder
  /\ timers = 0
  /\ stack = <<>>
  /\ answer = CHOOSE a \in Answers : TRUE
  /\ parsed = NothingParsed
  /\ cut = FALSE
  /\ ended = [r \in Requests |-> 0]

(***************************************************************************)
(* What servers send.                                                      *)
(***************************************************************************)

\* n times the sequence s.
Times(n, s) == [i \in 1 .. n * Len(s) |-> s[((i - 1) % Len(s)) + 1]]

ContentKinds(a) ==
  CASE a.framing = "chunked" -> Times(a.body, <<"frame", "body">>) \o <<"last">>
    [] a.framing = "eof" -> Times(a.body, <<"body">>)
    [] a.framing = "length" /\ a.body > 0 ->
         Times(a.body - 1, <<"body">>) \o <<"bodyLast">>
    [] OTHER -> <<>>

\* The units of answer a, which has no content if it answers HEAD.
Kinds(a, head) ==
  Times(a.interim, <<"begin", "continue">>)
    \o <<"begin">> \o Times(a.headers, <<"header">>)
    \o IF a.bad THEN <<"bad">>
       ELSE IF a.framing = "length" /\ a.body = 0 THEN <<"endEmpty">>
       ELSE IF head THEN <<"end">>
       ELSE <<"end">> \o ContentKinds(a)

Units(r, a, head) ==
  LET kinds == Kinds(a, head)
  IN  [i \in 1 .. Len(kinds) |-> [of |-> r, kind |-> kinds[i]]]

(***************************************************************************)
(* The device.                                                             *)
(***************************************************************************)

\* close(), abort(): what was not read is lost.
CloseDevice ==
  /\ device' = "unconnected"
  /\ stream' = <<>>
  /\ inbox' = <<>>

\* The end of a response closes the connection unless both sides keep it alive.
CloseUnlessKept ==
  IF KeepAliveTimeout = 0 \/ ~answer.keepAlive \/ answer.framing = "eof"
  THEN CloseDevice
  ELSE UNCHANGED deviceVars

\* sendRequest(): the request is written, and a server makes up its answer.
SendRequest(r, head) ==
  \E a \in Answers :
    /\ answer' = a
    /\ stream' = stream \o Units(r, a, head)
    /\ parsed' = NothingParsed

(***************************************************************************)
(* Requests.                                                               *)
(***************************************************************************)

\* clear(): a new parser and an empty response.  _field, _value and
\* _lastWasValue stay.
Clear ==
  /\ parser' = NewParser
  /\ headers' = {}
  /\ content' = 0

\* Is the device connected to the server of the request "what"?
CanReuse(what) ==
  device = "connected" /\ request # 0 /\ what.server = asked[request].server

\* The keep-alive timeout may have expired since the last response.
Expired == IF KeepAliveTimeout >= 0 THEN BOOLEAN ELSE {FALSE}

\* Mutant of StartRequest: the error of the previous request stays.
StartRequestKeepError(r, what) ==
  /\ request' = r
  /\ pending' = TRUE
  /\ error' = error
  /\ Clear
  /\ \E expired \in Expired :
       IF CanReuse(what) /\ ~expired
       THEN /\ SendRequest(r, what.head)
            /\ UNCHANGED <<device, inbox, cut>>
       ELSE /\ device' = "connecting"
            /\ stream' = <<>>
            /\ inbox' = <<>>
            /\ UNCHANGED historyVars

\* request() when no response is pending and nothing is being parsed: request r
\* is sent on the connection there is or on a new one.
StartRequest(r, what) ==
  /\ request' = r
  /\ pending' = TRUE
  /\ error' = "NoError"
  /\ Clear
  /\ \E expired \in Expired :
       IF CanReuse(what) /\ ~expired
       THEN /\ SendRequest(r, what.head)
            /\ UNCHANGED <<device, inbox, cut>>
       ELSE /\ device' = "connecting"
            /\ stream' = <<>>
            /\ inbox' = <<>>
            /\ UNCHANGED historyVars

\* The application calls request(), get(), ..., followRedirection().
RequestNow(what) ==
  /\ AppRuns
  /\ Len(asked) < MaxRequests
  /\ ~pending
  /\ ~IsParsing
  /\ asked' = Append(asked, what)
  /\ StartRequest(Len(asked) + 1, what)
  /\ UNCHANGED <<deferred, buffer, field, wasValue, decoder, timers, stack,
                 ended>>

\* The same in a handler of a signal that the parser is emitting: the request is
\* put off until the parser has returned.
RequestLater(what) ==
  /\ AppRuns
  /\ Len(asked) < MaxRequests
  /\ ~pending
  /\ IsParsing
  /\ deferred # 0 => AsksTwice
  /\ asked' = Append(asked, what)
  /\ deferred' = Len(asked) + 1
  /\ UNCHANGED <<request, pending, error, deviceVars, buffer, parserVars, timers,
                 stack, historyVars, ended>>

\* finished is emitted, from within the functions and signals "rest".
EmitFinished(rest) ==
  /\ stack' = <<"finished">> \o rest
  /\ ended' = [ended EXCEPT ![request] = @ + 1]

\* Mutant of AbortResponse: the connection stays.
AbortAndStay ==
  /\ AppRuns
  /\ pending
  /\ Interrupts \/ parser.at = "start"
  /\ Top = "headersCompleted" /\ asked[request].head => AbortsHead
  /\ parser' = [parser EXCEPT !.errno = "paused"]
  /\ error' = "AbortedError"
  /\ pending' = FALSE
  /\ EmitFinished(stack)
  /\ UNCHANGED <<deviceVars, asked, request, deferred, buffer, headers, field,
                 wasValue, content, decoder, timers, historyVars>>

\* abort() while a response is pending.
AbortResponse ==
  /\ AppRuns
  /\ pending
  /\ Interrupts \/ parser.at = "start"
  /\ Top = "headersCompleted" /\ asked[request].head => AbortsHead
  /\ CloseDevice
  /\ parser' = [parser EXCEPT !.errno = "paused"]
  /\ error' = "AbortedError"
  /\ pending' = FALSE
  /\ EmitFinished(stack)
  /\ UNCHANGED <<asked, request, deferred, buffer, headers, field, wasValue,
                 content, decoder, timers, historyVars>>

\* abort() otherwise: only the connection goes.
AbortConnection ==
  /\ AppRuns
  /\ ~pending
  /\ CloseDevice
  /\ UNCHANGED <<requestVars, buffer, parserVars, timers, stack, historyVars,
                 ended>>

\* Mutant of ConsumeContent: nobody comes back for what the device holds.
ConsumeQuietly ==
  /\ AppRuns
  /\ content' = 0
  /\ UNCHANGED <<requestVars, deviceVars, buffer, parser, headers, field,
                 wasValue, decoder, timers, stack, historyVars, ended>>

\* consumeContent(): there is room again, so what the device holds is read.
ConsumeContent ==
  /\ AppRuns
  /\ content' = 0
  /\ IF pending /\ inbox # <<>>
     THEN timers < MaxTimers /\ timers' = timers + 1
     ELSE UNCHANGED timers
  /\ UNCHANGED <<requestVars, deviceVars, buffer, parser, headers, field,
                 wasValue, decoder, stack, historyVars, ended>>

(***************************************************************************)
(* device_readyRead().                                                     *)
(***************************************************************************)

\* Mutant of Room: what is not consumed does not count.
WholeRoom(available) ==
  IF ReadBufferSize = 0 THEN available ELSE ReadBufferSize

\* How much device_readyRead() tries to read.
Room(available) ==
  IF ReadBufferSize = 0 THEN available ELSE ReadBufferSize - content

\* device_readyRead() up to the parser, when the device holds "units" and has yet
\* to receive "rest".
DeviceReadyRead(units, rest) ==
  LET room == Room(Len(units))
      n == IF room < Len(units) THEN room ELSE Len(units)
  IN  \/ /\ ~pending
         /\ CloseDevice
         /\ UNCHANGED <<buffer, stack>>
      \/ /\ pending
         /\ n <= 0
         /\ inbox' = units
         /\ stream' = rest
         /\ UNCHANGED <<device, buffer, stack>>
      \/ /\ pending
         /\ n > 0
         /\ buffer' = SubSeq(units, 1, n)
         /\ inbox' = SubSeq(units, n + 1, Len(units))
         /\ stream' = rest
         /\ stack' = <<"reading">>
         /\ UNCHANGED device

\* The device receives n units and emits readyRead.
ReadyRead(n) ==
  /\ EventLoop
  /\ n \in 1 .. Len(stream)
  /\ ReadBufferSize > 0 => Len(inbox) + n <= ReadBufferSize
  /\ DeviceReadyRead(inbox \o SubSeq(stream, 1, n),
                     SubSeq(stream, n + 1, Len(stream)))
  /\ UNCHANGED <<requestVars, parserVars, timers, historyVars, ended>>

\* The server sends what nobody asked for.
UnaskedInput ==
  /\ EventLoop
  /\ device = "connected"
  /\ ~pending
  /\ DeviceReadyRead(inbox, stream)
  /\ UNCHANGED <<requestVars, parserVars, timers, historyVars, ended>>

\* A call scheduled by consumeContent().
TimerFires ==
  /\ EventLoop
  /\ timers > 0
  /\ timers' = timers - 1
  /\ DeviceReadyRead(inbox, stream)
  /\ UNCHANGED <<requestVars, parserVars, historyVars, ended>>

(***************************************************************************)
(* The parser and its callbacks.                                           *)
(***************************************************************************)

\* The parser goes on with the next unit.
ParserRuns == Top \in Parsing /\ parser.errno = "ok"

\* What may follow.
Expected ==
  CASE parser.at = "start" -> {"begin"}
    [] parser.at = "head" -> {"header", "continue", "end", "endEmpty"}
    [] parser.at = "content" -> {"frame", "last", "body", "bodyLast"}
    [] OTHER -> {}

ParserMeets(kinds) ==
  /\ ParserRuns
  /\ buffer # <<>>
  /\ Head(buffer).kind \in kinds \cap Expected

\* The parser takes the first n units of the buffer.
Take(n) ==
  /\ buffer' = SubSeq(buffer, n + 1, Len(buffer))
  /\ parsed' = [parsed EXCEPT !.units = @ + n]

ParserAt(at) == parser' = [parser EXCEPT !.at = at]

\* messageBegin(): forgets the previous response, but not _field and _value.
MessageBegin ==
  /\ ParserMeets({"begin"})
  /\ Take(1)
  /\ ParserAt("head")
  /\ headers' = {}
  /\ content' = 0
  /\ wasValue' = FALSE
  /\ UNCHANGED <<requestVars, deviceVars, field, decoder, timers, stack, answer,
                 cut, ended>>

\* pushHeader() completes the header before, of "headers", if there is one.
PushHeader ==
  headers' = IF wasValue THEN headers \cup field ELSE headers

\* parser_on_header_field(), parser_on_header_value().
OnHeader ==
  /\ ParserMeets({"header"})
  /\ Take(1)
  /\ PushHeader
  /\ field' = {Head(buffer).of} \cup IF wasValue THEN {} ELSE field
  /\ wasValue' = TRUE
  /\ UNCHANGED <<requestVars, deviceVars, parser, content, decoder, timers,
                 stack, answer, cut, ended>>

\* Mutant of LastHeader: the header is not cleared once pushed.
PushLastHeader ==
  /\ PushHeader
  /\ wasValue' = FALSE
  /\ UNCHANGED field

\* parser_on_headers_complete() up to headersComplete().
LastHeader ==
  /\ PushHeader
  /\ field' = IF wasValue THEN {} ELSE field
  /\ wasValue' = FALSE

\* The head of a 100 Continue ends: headersComplete() keeps quiet.
OnContinue ==
  /\ ParserMeets({"continue"})
  /\ Take(1)
  /\ LastHeader
  /\ ParserAt("continued")
  /\ UNCHANGED <<requestVars, deviceVars, content, decoder, timers, stack,
                 answer, cut, ended>>

\* messageComplete() of a 100 Continue: it never happened.
ContinueComplete ==
  /\ ParserRuns
  /\ parser.at = "continued"
  /\ parser' = [NewParser EXCEPT !.errno = "paused"]
  /\ headers' = {}
  /\ content' = 0
  /\ decoder' = NoDecoder
  /\ UNCHANGED <<requestVars, deviceVars, buffer, field, wasValue, timers, stack,
                 historyVars, ended>>

\* The head of a response ends: headersComplete() emits headersCompleted.
HeadersComplete ==
  /\ ParserMeets({"end", "endEmpty"})
  /\ Take(1)
  /\ LastHeader
  /\ ParserAt(IF Head(buffer).kind = "end" THEN "content" ELSE "complete")
  /\ stack' = <<"headersCompleted">> \o stack
  /\ UNCHANGED <<requestVars, deviceVars, content, decoder, timers, answer, cut,
                 ended>>

\* messageComplete() of a response: it is reported, and the parser paused.
MessageComplete(rest) ==
  /\ parser' = [parser EXCEPT !.errno = "paused"]
  /\ decoder' = NoDecoder
  /\ pending' = FALSE
  /\ CloseUnlessKept
  /\ EmitFinished(rest)

\* The handlers of headersCompleted have run.  The response to HEAD ends here.
HeadersHandled ==
  /\ Top = "headersCompleted"
  /\ IF asked[request].head
     THEN MessageComplete(Tail(stack))
     ELSE /\ decoder' = IF answer.gzip THEN [of |-> request, begun |-> FALSE]
                        ELSE decoder
          /\ stack' = Tail(stack)
          /\ UNCHANGED <<pending, deviceVars, parser, ended>>
  /\ UNCHANGED <<asked, request, deferred, error, buffer, headers, field,
                 wasValue, content, timers, historyVars>>

\* Chunk framing.
OnFraming ==
  /\ ParserMeets({"frame", "last"})
  /\ Take(1)
  /\ ParserAt(IF Head(buffer).kind = "last" THEN "complete" ELSE "content")
  /\ UNCHANGED <<requestVars, deviceVars, headers, field, wasValue, content,
                 decoder, timers, stack, answer, cut, ended>>

\* The octets at the beginning of the buffer that the parser hands over at once.
Octets(n) == \A i \in 1 .. n : buffer[i].kind \in {"body", "bodyLast"}

ContentRun(n) == Octets(n) /\ (n < Len(buffer) => ~Octets(n + 1))

\* transform() in the middle of another response's stream: inflate() rejects the
\* input, which is then passed through, or makes something of it.
Garbles == IF decoder.begun /\ decoder.of # request THEN BOOLEAN ELSE {FALSE}

\* How many octets become of n.  What inflate() holds back comes with a later
\* octet; a stream it rejects is passed through.
Decoded(n) == IF decoder.of = 0 THEN {n} ELSE 0 .. Expansion * n

\* messageContent(): decodes, appends to _content and emits contentReadyRead.
MessageContent ==
  /\ ParserMeets({"body", "bodyLast"})
  /\ \E n \in 1 .. Len(buffer) :
         /\ ContentRun(n)
         /\ buffer' = SubSeq(buffer, n + 1, Len(buffer))
         /\ \E garbled \in Garbles :
              parsed' = [units |-> parsed.units + n,
                         octets |-> parsed.octets + n,
                         decoded |-> parsed.decoded \/ decoder.of # 0,
                         garbled |-> parsed.garbled \/ garbled]
         /\ \E k \in Decoded(n) : content' = content + k
         /\ ParserAt(IF buffer[n].kind = "bodyLast" THEN "complete"
                     ELSE "content")
  /\ decoder' = [decoder EXCEPT !.begun = @ \/ decoder.of = request]
  /\ stack' = <<"contentReadyRead">> \o stack
  /\ UNCHANGED <<requestVars, deviceVars, headers, field, wasValue, timers,
                 answer, cut, ended>>

ContentHandled ==
  /\ Top = "contentReadyRead"
  /\ stack' = Tail(stack)
  /\ UNCHANGED <<requestVars, deviceVars, buffer, parserVars, timers,
                 historyVars, ended>>

\* The end of a response.
ResponseComplete ==
  /\ ParserRuns
  /\ parser.at = "complete"
  /\ MessageComplete(stack)
  /\ UNCHANGED <<asked, request, deferred, error, buffer, headers, field,
                 wasValue, content, timers, historyVars>>

\* http_parser rejects what may not follow.
ParserFails ==
  /\ ParserRuns
  /\ parser.at \notin {"complete", "continued"}
  /\ buffer # <<>>
  /\ Head(buffer).kind \notin Expected
  /\ parser' = [parser EXCEPT !.errno = "failed"]
  /\ UNCHANGED <<requestVars, deviceVars, buffer, headers, field, wasValue,
                 content, decoder, timers, stack, historyVars, ended>>

(***************************************************************************)
(* inject() has returned to device_readyRead().                            *)
(***************************************************************************)

\* The parser is done with the buffer or was stopped.
ParserReturns ==
  /\ Top \in Parsing
  /\ \/ parser.errno # "ok"
     \/ buffer = <<>> /\ parser.at \notin {"complete", "continued"}

\* inject() unpauses the parser.
Unpaused ==
  IF Top \in Parsing /\ parser.errno = "paused"
  THEN [parser EXCEPT !.errno = "ok"]
  ELSE parser

\* Mutant of AgainDue: the rest of the buffer is dropped.
AgainNever == FALSE

\* After a 100 Continue, the rest of the buffer is injected once more.
AgainDue ==
  pending /\ parser.errno # "failed" /\ buffer # <<>> /\ Top = "reading"

InjectAgain ==
  /\ ParserReturns
  /\ AgainDue
  /\ parser' = Unpaused
  /\ stack' = <<"rereading">>
  /\ UNCHANGED <<requestVars, deviceVars, buffer, headers, field, wasValue,
                 content, decoder, timers, historyVars, ended>>

\* The response cannot be parsed.
RejectResponse ==
  /\ ParserReturns
  /\ pending
  /\ parser.errno = "failed"
  /\ error' = "ResponseInvalidError"
  /\ CloseDevice
  /\ pending' = FALSE
  /\ EmitFinished(<<"rejecting">>)
  /\ UNCHANGED <<asked, request, deferred, buffer, parserVars, timers,
                 historyVars>>

\* Mutant of Release: the request is not forgotten once made.
ReleaseAgain ==
  \/ /\ ~pending /\ deferred # 0
     /\ StartRequest(deferred, asked[deferred])
     /\ UNCHANGED <<asked, deferred>>
  \/ /\ pending \/ deferred = 0
     /\ parser' = Unpaused
     /\ UNCHANGED <<requestVars, deviceVars, headers, content, historyVars>>

\* The end of device_readyRead(): a request that was put off is made now.
Release ==
  \/ /\ ~pending /\ deferred # 0
     /\ deferred' = 0
     /\ StartRequest(deferred, asked[deferred])
     /\ UNCHANGED asked
  \/ /\ pending \/ deferred = 0
     /\ parser' = Unpaused
     /\ UNCHANGED <<requestVars, deviceVars, headers, content, historyVars>>

\* Nothing is left to be done but to empty the buffer.
ReadyReadReturns ==
  /\ \/ ParserReturns /\ ~AgainDue /\ ~(pending /\ parser.errno = "failed")
     \/ Top = "rejecting"
  /\ buffer' = <<>>
  /\ stack' = <<>>
  /\ Release
  /\ UNCHANGED <<field, wasValue, decoder, timers, ended>>

\* The handlers of finished have run.
FinishedHandled ==
  /\ Top = "finished"
  /\ stack' = Tail(stack)
  /\ UNCHANGED <<requestVars, deviceVars, buffer, parserVars, timers,
                 historyVars, ended>>

(***************************************************************************)
(* Other signals of the device.                                            *)
(***************************************************************************)

\* device_connected()
DeviceConnected ==
  /\ EventLoop
  /\ device = "connecting"
  /\ device' = "connected"
  /\ IF pending
     THEN SendRequest(request, asked[request].head)
     ELSE UNCHANGED <<stream, answer, parsed>>
  /\ cut' = FALSE
  /\ UNCHANGED <<requestVars, inbox, buffer, parserVars, timers, stack, ended>>

\* device_error(): a connection that cannot be made or is lost.
DeviceError(e) ==
  /\ EventLoop
  /\ CloseDevice
  /\ cut' = (stream # <<>>)
  /\ IF pending
     THEN /\ error' = e
          /\ pending' = FALSE
          /\ EmitFinished(<<>>)
     ELSE UNCHANGED <<error, pending, stack, ended>>
  /\ UNCHANGED <<asked, request, deferred, buffer, parserVars, timers, answer,
                 parsed>>

ConnectFails == device = "connecting" /\ DeviceError("NetworkError")

ConnectionFails ==
  device = "connected" /\ (Interrupts \/ parser.at = "start")
    /\ DeviceError("NetworkError")

\* The server closes the connection.
RemoteHostCloses ==
  /\ device = "connected"
  /\ Interrupts \/ parser.at = "start" \/ (answer.framing = "eof" /\ stream = <<>>)
  /\ DeviceError("RemoteHostClosedError")

-----------------------------------------------------------------------------

\* What the client's own code does, and handlers that return.
Steps ==
  \/ MessageBegin
  \/ OnHeader
  \/ OnContinue
  \/ ContinueComplete
  \/ HeadersComplete
  \/ HeadersHandled
  \/ OnFraming
  \/ MessageContent
  \/ ContentHandled
  \/ ResponseComplete
  \/ ParserFails
  \/ InjectAgain
  \/ RejectResponse
  \/ ReadyReadReturns
  \/ FinishedHandled

Application ==
  \/ \E what \in Request : RequestNow(what) \/ RequestLater(what)
  \/ AbortResponse
  \/ AbortConnection
  \/ ConsumeContent

Receive == \E n \in 1 .. Len(stream) : ReadyRead(n)

Network ==
  \/ DeviceConnected
  \/ ConnectFails
  \/ ConnectionFails
  \/ RemoteHostCloses
  \/ UnaskedInput

Next == Steps \/ Application \/ Receive \/ TimerFires \/ Network

\* Code runs, handlers return, connections are made or fail, servers send their
\* answers, and the application consumes what it is given.  Nobody need abort or
\* close.
Fairness ==
  /\ WF_vars(Steps)
  /\ WF_vars(content > 0 /\ ConsumeContent)
  /\ WF_vars(Receive)
  /\ WF_vars(TimerFires)
  /\ WF_vars(DeviceConnected \/ ConnectFails)

Spec == Init /\ [][Next]_vars /\ Fairness

-----------------------------------------------------------------------------

(***************************************************************************)
(* Properties.                                                             *)
(***************************************************************************)

\* The types of the variables.
TypeOK ==
  /\ asked \in Seq(Request) /\ Len(asked) <= MaxRequests
  /\ request \in 0 .. Len(asked)
  /\ deferred \in {0} \cup (request + 1 .. Len(asked))
  /\ pending \in BOOLEAN
  /\ error \in Errors
  /\ device \in {"unconnected", "connecting", "connected"}
  /\ stream \in Seq(Unit)
  /\ inbox \in Seq(Unit)
  /\ buffer \in Seq(Unit)
  /\ parser \in Parser
  /\ headers \subseteq Requests
  /\ field \subseteq Requests
  /\ wasValue \in BOOLEAN
  /\ content \in Nat
  /\ decoder \in [of : 0 .. MaxRequests, begun : BOOLEAN]
  /\ timers \in 0 .. MaxTimers
  /\ stack \in Seq(Frames)
  /\ answer \in Answers
  /\ parsed \in
       [units : Nat, octets : Nat, decoded : BOOLEAN, garbled : BOOLEAN]
  /\ cut \in BOOLEAN
  /\ ended \in [Requests -> Nat]

\* finished is emitted once for each request: it is under way, put off, or was
\* reported as finished exactly once.
FinishedOnce ==
  \A r \in 1 .. Len(asked) :
    \/ r = request /\ pending /\ ended[r] = 0
    \/ r = deferred /\ r # request /\ ended[r] = 0
    \/ ~(r = request /\ pending) /\ r # deferred /\ ended[r] = 1

\* A request that is reported without an error got the whole of its response and
\* nothing else: header fields, content as it was sent, in this order.
Reported ==
  ~pending /\ request # 0 /\ error = "NoError" =>
    /\ headers \subseteq {request}
    /\ ~parsed.garbled
    /\ parsed.octets = IF asked[request].head THEN 0 ELSE answer.body

\* What is parsed while a response is pending belongs to it, and all of it is
\* parsed or still there to be parsed.
ResponseConserved ==
  pending /\ device = "connected" =>
    /\ \A i \in 1 .. Len(buffer) : buffer[i].of = request
    /\ parsed.units + Len(buffer) + Len(inbox) + Len(stream) =
         Len(Units(request, answer, asked[request].head))

\* The connection that is kept for the next request holds nothing of the last.
KeptConnectionIsClean ==
  EventLoop /\ ~pending /\ device = "connected" =>
    stream = <<>> /\ inbox = <<>> /\ error = "NoError"

\* How many octets of content one octet that was read may take.
Weight == IF parsed.decoded THEN Expansion ELSE 1

\* The device holds no more than the read buffer's size, and neither does the
\* client, of content that is not compressed.  What is read counts before it is
\* decoded (HttpClient.cpp:575), so decoded content may be more than that
\* (HttpClient.h:194-198), but no more than what one full buffer is decoded to.
BuffersBounded ==
  ReadBufferSize > 0 =>
    content <= Weight * ReadBufferSize /\ Len(inbox) <= ReadBufferSize

\* Received input is only left alone while the read buffer is full
\* (HttpClient.h, readBufferSize).
NothingLeftUnread ==
  EventLoop /\ pending /\ inbox # <<>> /\ stream = <<>> /\ timers = 0 =>
    ReadBufferSize > 0 /\ content >= ReadBufferSize

\* The header fields reported are those of the response.
HeadersOwn == \A i \in 1 .. Len(stack) :
  stack[i] = "headersCompleted" => headers \subseteq {request}

\* RemoteHostClosedError means that the server did not send its full reply.
ClosedEarly == error = "RemoteHostClosedError" => cut

(***************************************************************************)
(* The inductive invariant.                                                *)
(***************************************************************************)

\* Parsing is what runs first, the signals of a response are emitted right from
\* it, and the response has ended when a handler of finished runs above it.
StackShape ==
  \A i \in 1 .. Len(stack) :
    /\ stack[i] \in Parsing \cup {"rejecting"} => i = Len(stack)
    /\ stack[i] \in {"headersCompleted", "contentReadyRead"} =>
         i + 1 = Len(stack) /\ stack[i + 1] \in Parsing
    /\ stack[i] = "finished" /\ IsParsing => ~pending

\* A parser at work that was not stopped parses the pending response; otherwise
\* it waits for more of it.  While a response is pending, only a 100 Continue
\* pauses the parser.  A request is put off only while parsing.
ParserInStep ==
  /\ IsParsing =>
       /\ request # 0
       /\ pending => device = "connected"
       /\ parser.errno = "ok" => pending
  /\ pending /\ ~IsParsing =>
       parser.errno = "ok" /\ parser.at \notin {"complete", "continued"}
  /\ pending /\ parser.errno = "paused" => parser.at = "start"
  /\ deferred # 0 => ~pending /\ IsParsing
  /\ pending => request # 0 /\ error = "NoError"

\* Only a connected device holds anything, and what was read is parsed at once.
DeviceInStep ==
  /\ device # "connected" => stream = <<>> /\ inbox = <<>>
  /\ device = "connecting" => pending /\ parser = NewParser /\ content = 0
  /\ buffer # <<>> => \E i \in 1 .. Len(stack) : stack[i] # "finished"
  /\ ReadBufferSize = 0 => inbox = <<>>

\* There is room for what is being parsed, and for what it is decoded to.
RoomLeft ==
  ReadBufferSize > 0 =>
    /\ content <= Weight * ReadBufferSize /\ Len(inbox) <= ReadBufferSize
    /\ IsParsing /\ pending =>
         content + Weight * Len(buffer) <= Weight * ReadBufferSize

ClientInductive ==
  /\ TypeOK
  /\ StackShape
  /\ ParserInStep
  /\ DeviceInStep
  /\ RoomLeft

\* What the server answers to the pending request, and what is left of it.
Sought == Units(request, answer, asked[request].head)
Remaining == buffer \o (inbox \o stream)
LastParsed == Sought[parsed.units].kind

\* Where the parser can be when it has parsed a unit of this kind.
After(kind) ==
  CASE kind \in {"begin", "header"} -> {"head"}
    [] kind = "continue" -> {"continued", "start"}
    [] kind \in {"end", "frame", "body"} -> {"content"}
    [] kind = "bad" -> {}
    [] OTHER -> {"complete"}

\* What was parsed and what remains make the answer; the parser is where it was
\* left by what was parsed; it starts on the buffer again only after the first
\* 100 Continue.
Conserved ==
  pending /\ device = "connected" =>
    /\ parsed.units + Len(Remaining) = Len(Sought)
    /\ \A i \in 1 .. Len(Remaining) : Remaining[i] = Sought[parsed.units + i]
    /\ IF parsed.units = 0 THEN parser.at = "start"
       ELSE parser.at \in After(LastParsed)
    /\ Top = "headersCompleted" =>
         parsed.units > 0 /\ LastParsed \in {"end", "endEmpty"}
    /\ parsed.units > 0 /\ LastParsed = "end" /\ asked[request].head =>
         Top = "headersCompleted"
    /\ parser.errno = "paused" => Top = "reading" /\ parsed.units > 1
    /\ (\E i \in 1 .. Len(stack) : stack[i] = "rereading") =>
         parsed.units > 1 /\ parser.at # "continued"

\* A connection without a request has nothing of the last one, and a rejected
\* response leaves no connection.
Kept ==
  device = "connected" =>
    /\ ~pending =>
         stream = <<>> /\ inbox = <<>> /\ buffer = <<>> /\ error = "NoError"
    /\ \A i \in 1 .. Len(stack) : stack[i] # "rejecting"

ConservedInductive == ClientInductive /\ Conserved /\ Kept

\* The octets among the first n units of the answer, when all of it is sent and
\* its end can be told: a frame comes before each octet of a chunked response.
OctetsAmong(n) ==
  LET inHead == 2 * answer.interim + answer.headers + 2
  IN  IF n <= inHead THEN 0
      ELSE IF answer.framing = "chunked" THEN (n - inHead) \div 2
      ELSE n - inHead

\* The handlers of a response's signals leave it pending, in its content.
HandlersLeavePending ==
  \A i \in 1 .. Len(stack) :
    stack[i] \in {"headersCompleted", "contentReadyRead"} =>
      i = 1 /\ pending /\ parser.at \in {"content", "complete"}

\* _field is empty outside the head of the pending response.
FieldInHead ==
  IF wasValue THEN field = {request} /\ pending /\ parser.at = "head"
  ELSE field = {}

\* A decoder at work is that of the pending response.
DecoderOwn ==
  decoder.begun =>
    decoder.of = request /\ pending /\ parser.at \in {"content", "complete"}

OctetsCounted ==
  pending /\ device = "connected" =>
    ~parsed.garbled /\ parsed.octets = OctetsAmong(parsed.units)

\* A response that nothing interrupts and that can be parsed.
Faithful ==
  /\ parser.errno # "failed"
  /\ HandlersLeavePending
  /\ FieldInHead
  /\ DecoderOwn
  /\ pending => headers \subseteq {request}
  /\ OctetsCounted
  /\ Reported

FaithfulInductive == ConservedInductive /\ Faithful

\* FinishedOnce, with the requests not yet made.  What was put off is the last
\* request made, and a HEAD is pending until the handlers of its headers return.
EndedOnce ==
  /\ FinishedOnce
  /\ \A r \in Requests : r > Len(asked) => ended[r] = 0
  /\ deferred # 0 => deferred = Len(asked)
  /\ \A i \in 1 .. Len(stack) :
       stack[i] = "headersCompleted" /\ asked[request].head => pending

EndedInductive == ClientInductive /\ EndedOnce

\* Whatever servers answer, a request ends, provided content is consumed.
EveryRequestEnds ==
  \A r \in Requests : request = r /\ pending ~> ended[r] > 0
=============================================================================
