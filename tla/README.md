# Pillow in TLA+

Pillow is an HTTP library for Qt: a server (`HttpServer`, `HttpConnection`), request handlers, and a client
(`HttpClient`, `NetworkAccessManager`). All of it runs in one thread, on Qt's event loop. What makes it hard is not
preemption but *reentrancy*: signals are plain calls, an application's slot may call back into the object that is
emitting, and completing one response parses and dispatches the next pipelined request inside the call that completed
it. The modules here model that control flow; the checks and proofs say what survives it.

Paths below are relative to the repository's root unless they name a module.

## 1. Inventory

| part | state it keeps | operations | who calls it, whom it calls |
|---|---|---|---|
| `HttpConnection` | `_state`, the two devices, `_requestBuffer` and the fields that point into it, parser, response length/sent/keep-alive/chunked, parameter cache | `initialize`, `processInput`, `transitionTo*`, `writeResponse`, `writeHeaders`, `writeContent`, `endContent`, `flush`, `close`, `requestParams` | devices (`readyRead`, `bytesWritten`, `disconnected`), the server, the application; emits `requestReady`, `requestCompleted`, `closed` |
| `HttpServer`, `HttpLocalServer` | reserve of at most 25 closed connections; owns connections and sockets | `incomingConnection`, `connection_closed`, `takeConnection`, `putConnection` | `QTcpServer`; `HttpConnection::initialize` and its `closed` |
| `HttpsServer` | key and certificate | `incomingConnection`, `sslSocket_encrypted` | as `HttpServer`, `initialize` only after the handshake |
| `HttpHandlerStack`, `Fixed`, `404`, `Function` | children | `handleRequest` | `requestReady`; the connection's slots |
| `HttpHandlerLog` | map from connection to the request being timed | `handleRequest`, slots on `requestCompleted`, `closed`, `destroyed` | connection |
| `HttpHandlerFile`, `HttpHandlerFileTransfer` | open file, buffer size | `handleRequest`, `writeNextPayload` | connection, `bytesWritten` of its device (queued) |
| `HttpHandlerProxy`, its pipe | upstream reply, connection, headers sent?, broken? | `sendHeaders`, `pump`, `finished`, `teardown` | `QNetworkReply` and connection signals |
| `ElasticNetworkAccessManager` | child managers | `createRequest` | proxy |
| `HttpHandlerSimpleRouter` | routes | `addRoute`, `pathToRegExp`, `handleRequest` | connection (`setRequestParam`, responses) |
| `HttpClient` (`HttpRequestWriter`, `HttpResponseParser`) | device, pending request, decoder, buffered content | `request`, `followRedirection`, `abort`, `consumeContent`, device slots, parser callbacks | socket; emits `headersCompleted`, `contentReadyRead`, `finished` |
| `NetworkAccessManager`, `NetworkReply` | pool of clients per host | `createRequest`, `client_finished` | `HttpClient` |
| `HttpHeader`, `ByteArrayHelpers`, `HttpHelpers` | none | number formatting, percent decoding, comparison, lookup, tables | everybody |
| request parser (`parser.rl`) | parser state and marks | `thin_http_parser_execute` | `HttpConnection` |
| response parser (`http_parser.c`) | parser state, flags, remaining length; marks local to a call | `http_parser_execute` | `HttpResponseParser` |
| `HttpRequest` | not compiled by any build file | | nobody |

What makes each part correct:

- **HttpConnection**: requests are delivered as the peer framed them, one at a time; a handler sees its own request and
  no other; responses carry the content they announce; what a response says about the connection is what happens; no
  request and no flush is forgotten.
- **HttpServer**: a connection is in use or in reserve, never both; none is destroyed while its own code runs; sockets
  are freed.
- **File transfer**: a file is sent once, in order, into its own response; the transfer goes away with it.
- **Proxy pipe**: the end, failure or loss of either side ends the other.
- **HttpClient**: a response is matched to its request, reported finished exactly once, and leaves nothing behind for
  the next; **NetworkAccessManager**: a client serves one reply at a time.
- **Log**: a line tells of the request it was logged for.
- **Router**: a parameter gets the part of the path its name stands for; a refusal gives its reason.
- **Writers and parsers**: what one end writes the other reads as it was meant, wherever the network cuts it.

How the modules compose:

```
HttpConnection  --implements-->  HttpExchange          HttpServer       HttpClient
HandledConnection  <-- HttpHandler, HttpHandlerProxy <-- HandlerStack   NetworkAccessManager
ByteArrayHelpers   <-- ThinHttpParser, HttpResponseParser <-- HttpWire
ByteArrayHelpers   <-- HttpHandlerSimpleRouter
```

`HttpConnection` and `HttpClient` model control over units of input; `HttpWire` models the text both write and read;
`HandledConnection` and `NetworkAccessManager` reduce the two to what the parts above them see.

The hard behaviours, each at its line, are the `hazards` of `PROJECT.json`.

## 2. HttpConnection

`HttpConnection.tla` is the component; `HttpExchange.tla` is the abstract specification it implements;
`HttpConnectionInvariant.tla` holds the two inductive invariants; the proofs are in `HttpConnectionProofs.tla` (requests)
and `HttpConnectionWireProofs.tla` (responses and the refinement), which extends it; `MCHttpConnection.tla` has the instances for TLC.

### The state

| variable | code |
|---|---|
| `state`, `attached` | `_state`; whether `_inputDevice` and `_outputDevice` are set |
| `script`, `arrived` | what the peer will send and how much of it the device has received |
| `bufLo`, `bufHi` | the slice of `script` that is in `_requestBuffer` |
| `nread`, `reqLen` | `_parser.nread` (also `body_start` after the head), `_requestContentLength` |
| `headersShort`, `headersFresh` | whether a header was dropped to force setting them up again; whether they point into the buffer's present memory |
| `fieldsOf`, `paramsOf` | which request `_requestMethod` and friends, and the cached parameters, belong to |
| `resp` | `_responseContentLength`, `...BytesSent`, `...ConnectionKeepAlive`, `...ChunkedTransferEncoding` |
| `unsent`, `drainOn` | `bytesToWrite() > 0`; `bytesWritten` connected to `drain()` |
| `pump`, `listening` | zero-delay timers that have not fired; whether the `QTcpServer` listens |
| `stack` | the functions on the C++ call stack, each with what it still has to do |
| `crashed` | a null device was dereferenced |
| `sessions`, `delivered`, `answered`, `wire` | history: what was given to the object, delivered, completed, written |

Octets are abstracted to units: `part` of a head, the `end` of a head (which carries method, version, `Connection`,
`Expect` and `Content-Length`), a `body` octet, and `bad`. Reads never fall short (`QIODevice::read` of
`bytesAvailable()` octets). All positions are positions in the peer's stream, so "the buffer holds the right octets" is
arithmetic. A `requestCompleted` or `requestReady` frame on `stack` carries the request its handler was called for, so
that "content of request 1 written into the response of request 2" can be said (`foreign`).

### The actions

One per function, or per part of a function between two points where other code can run: `transitionToCompleted()` is
`TransitionToCompleted` (up to the `emit`) and `CompletedTail`; `writeResponse()` is `WriteResponse` and
`WriteResponseTail`; `transitionToSendingContent()` has its tail, too. Between them the application's actions are enabled
whenever it has control: inside a signal, or in the event loop. Device actions and timers run only with an empty stack.
A slot called in the wrong state returns with a warning, which is a stuttering step and has no action. `initialize()` is
modelled for new and closed connections, which is how the servers use it.

Four constants say how well the application and the network behave: `AbortInFlush`, `CloseInCompleted`,
`BodyOnBodiless`, `StaleAnswers`. The careless values are legal uses of the interface; they are switches because some
properties hold only without them (see section 9), and a run states which it assumes.

### Runs

| run | application | result |
|---|---|---|
| `conn_serve` | disciplined; may close or flush at any time; the peer may vanish, the server may stop listening | what handlers see, length, persistence, devices and whose content is sent are right; the refinement of `HttpExchange` holds |
| `conn_careless` | all four switches on, three requests in a row | both inductive invariants (and with them length and persistence) and the order of responses still hold |
| `conn_reuse` | two peers in turn on one object | framing, the parameter cache; an arrived request is taken up; flushing ends in closing |

The properties, each stated in full above its definition: `RequestViewIntact`, `ParamsOfCurrent` (what a handler sees),
`FramedAsSent`, `RequestTakenUp` (what is delivered), `OneAtATime`, `LengthHonoured`,
`NoForeignContent`, `PersistenceAgreed` (what is written), `DeviceInUse`, `FlushingEnds` (the connection's life).

**Bounds.** Streams have at most three requests and about six units, cut into reads at every point; the limits
`MaxHead = 3` and `MaxContent = 2` stand for 32 KiB and 128 MiB, so that heads and bodies at, below and above them occur;
contents are 0, 1 or 2 octets against announced lengths -1, 0 and 2: below, equal, above, and in several writes.
`MaxBody = 2` bounds bodies of unknown length, which would otherwise make the state space infinite, `MaxSessions` the
devices one object is given. A third request adds no new interaction: the code keeps nothing of a request beyond the
next one, and the stack can only nest through completions of which two are already overlapping. `conn_serve` has about
524 000 states.

**Deadlock** is not checked: a run may legitimately end with all sessions closed, or with an application that never
answers.

**Fairness** (for the liveness of `conn_reuse`): the code's own steps and the return of handlers (C++ code that runs, returns),
the zero-delay timer (the event loop runs), and the device writing what it was given (a peer that stays connected reads).
Nothing is assumed of the application's answers, nor of the peer sending more, nor of anybody closing.

### Refinement

`ExchangeRefined` maps the connection to `HttpExchange`: the phase from `_state`, what is *owed* from the message being
written (announced minus written), *persistent* from what its head said. So the code's own counters
(`_responseContentBytesSent`, `_responseConnectionKeepAlive`) are compared with what the peer was told. Refusals (400,
413) go from receiving to draining.

### Proofs

The theorems hold for all scripts, limits, header sets and sizes; the assumptions on the constants (`ScriptsAssumption`,
`LimitsAssumption`, `HeaderSetsAssumption`, `SizesAssumption`, `BoundsAssumption`, `FlagsAssumption`) only give them their
types. A theorem with a further hypothesis names it, and section 9 has the run without it that shows why it is there.

| theorem | property | hypotheses |
|---|---|---|
| `InductiveInvariant` | `Inductive` | |
| `TypeCorrect`, `RequestViewStaysIntact`, `DeliveredAsFramed` | `TypeOK`, `RequestViewIntact`, `FramedAsSent` | |
| `WireInvariant` | `WireInductive` | |
| `AnsweredInOrder`, `LengthsHonoured`, `PersistenceKept` | `OneAtATime`, `LengthHonoured`, `PersistenceAgreed` | |
| `ContentStaysHome` | `NoForeignContent` | `BodyOnBodiless` and `StaleAnswers` off (counterexample 1) |
| `ParamsStayCurrent` | `ParamsOfCurrent` | `StaleAnswers` off |
| `DevicesStay` | `DeviceInUse`, and no null device is ever dereferenced | `CloseInCompleted` and `AbortInFlush` off (counterexample 2) |
| `ConnectionImplementsExchange` | `ExchangeRefined` | the same two |

**Requests** (`Inductive`). None of the three properties is inductive. That the buffer starts where the delivered requests
end (`Positions`) is needed for the next delivery to be framed right; it is disturbed and restored by functions that run in
the middle of other functions, so the invariant has to say, for each function at the top of the stack, in which state it is
called (`CalledIn`) and what may be suspended below it (`StackShape`): only functions whose tails tolerate any state, or
`transitionToCompleted()` directly under the signal it emits. That is the argument why nesting is harmless for framing, and
it is independent of what the application does. `Headers` tracks the dropped header until the headers are set up again. The
proof has one lemma per action, one step per conjunct it can disturb; `FramedAsSent` is carried over by a lemma on
appending a delivery.

**Responses** (`WireInductive`). The properties speak of messages already written, and a function that was suspended may
still write. So the invariant says when the last message may still change (`LastIsOpen`) and that all others are over
(`OthersOver`); that the code's counters are those of the last message while it is written (`UnderWay`), and that nothing
is missing when it is completed (`Progress`); what holds while `requestCompleted` is emitted, when the response is over but
`_responseConnectionKeepAlive` still has to be looked at (`Emitting`, `Over`); that no message follows one which announced
the end (`Persists`); that requests delivered and completed alternate (`Counts`); and when the request's fields and
parameters are cleared (`Params`). `Devices` and `Tails` carry the three properties that need a disciplined application:
each is an implication from the switches, so that one invariant serves every value of them. The heart of `Tails` is that a
`writeResponse()` with content left to write is only ever suspended right above functions that complete nothing; with the
switches on, counterexample 1 is the way it fails. Most steps write and complete nothing: `PromisesKept` says once what
such a step must not do, and the lemma of such an action only has to show that.

**The refinement.** With both invariants, every step of the connection is shown to be a step of `HttpExchange` or to leave
its variables alone (`StepSeen`), one lemma per action: `OwedWhileSending` says what is owed in terms of the code's
counters, and the completion, which the code computes from them, is then the abstract one's.

Model-checked only: `RequestTakenUp` and `FlushingEnds` (liveness, out of the prover's reach).

### What is left out

Text of messages, status codes and header fields without effect on control (section 7 has those with effect); percent-decoded copies of the request
fields; the text of heads and the conversion of the announced length (section 7); partial flushes (they change nothing
the code looks at except whether all is written); `closed` handlers calling back (every slot is a no-op in `Closed`).

## 3. HttpServer

`HttpServer.tla` models the three servers, `HttpServerProofs.tla` holds the proofs, `MCHttpServer.tla` the instances. An
`HttpConnection` is reduced to what the server sees of it: it is given a socket, it is open until `transitionToClosed()`,
and its signals run handlers, which may use this connection or, with `CrossUse`, any open one. The previous section has
the inside.

### The state

| variable | code |
|---|---|
| `created`, `deleted` | the `HttpConnection` objects made by `createConnection()`, and those deleted by `putConnection()` |
| `reserved` | `reservedConnections`; `takeLast()` and `append()` work on its end |
| `open` | connections between `initialize()` and `transitionToClosed()` |
| `device` | `_inputDevice` of each connection, 0 when null: it is let go of only after `closed` was emitted |
| `socket` | life of each socket: handshaking, connected, closed, marked by `deleteLater()` ("doomed"), deleted |
| `calls` | the signals being emitted, innermost first, and whether the emitting function (or one below it) uses the connection again afterwards |

### The actions

`IncomingConnection` stands for `HttpServer::incomingConnection()` and `HttpLocalServer::this_newConnection()`;
`StartServerEncryption`, `Encrypted` and `HandshakeFails` for the two halves of `HttpsServer`'s; all but the handshake
take a connection (`TakeConnection`). `TransitionToClosed` is the part of `transitionToClosed()` up to and including
`connection_closed()`, which was connected first and therefore runs before the application's slots: it marks the socket
and puts the connection into the reserve (`PutConnection`) *before* `ClosedReturns` lets the connection go of its device.
It is reached from the peer, from `close()`, and from the end of `transitionToCompleted()`, each possibly inside handlers
of other connections. After `requestReady` nothing is done with the connection, except when a bodiless response dispatched
the next request from within `writeResponse()` (`resumes`).

### Runs

| run | assumes | result |
|---|---|---|
| `server_reserve` | handlers use any connection | `EachInOnePlace`, `ReserveRefilled`, `OwnSocket`, `SocketsFreed` |
| `server_tls` | TLS; handlers keep to their own connection | `NoReturnIntoDeleted`, the inductive invariant |

**Bounds.** The reserve is 2 instead of 25 and at most four sockets and connections exist: it is emptied, refilled,
filled beyond its size by two, and connections are reused. Three or two pending calls (`MaxDepth`):
a deletion under a running function takes two. `server_reserve` has three sockets, and no symmetry, which TLC does not
support for liveness. A socket is not reused once deleted, which bounds the number of peers.

**Deadlock** is not checked: when all sockets are deleted, nothing more happens.

**Fairness** (`SocketsFreed`): calls return, whatever they call meanwhile (strong fairness for each depth: a handler that
makes nested calls is interrupted again and again, and C++ code still comes to its end), and the event loop carries out
deferred deletions although other events keep arriving.

### Proofs

`HttpServerProofs` proves for every size of the reserve, every set of sockets and every depth:

- `ServerInductiveInvariant`: `ServerInductive`, which is `ReserveInductive` (`TypeOK`, `EachInOnePlace`,
  `EnoughConnections`, `OneConnectionRuns`) with `OwnSocket`, `ClosedStaysClosed` and `ConnectedIsServed`;
- `ConnectionsInOnePlace`, `ReserveIsRefilled`, `SocketsAreOwned`: the safety properties of `server_reserve`;
- `OwnConnectionIsSafe`: `NoReturnIntoDeleted`, from the assumption `CrossUse = FALSE` (counterexample 3).

`ReserveRefilled` is not inductive: it only speaks of states in which all is closed. `EnoughConnections` (reserve and open
connections together never fall below the size of the reserve) is what is preserved, with the bound on the reserve from
`TypeOK`. Since no connection is in the reserve twice (`EachInOnePlace`), its length counts the living connections when
none is open. For `NoReturnIntoDeleted`, the connection just put into the reserve is never the one deleted to make room
for it, and with `OneConnectionRuns` no other one has pending calls.

`OwnSocket` is disturbed by the handlers of `closed`, which run when the connection is in the reserve already and before
it lets go of its device. `ClosedStaysClosed`: in between nobody opens it again, because sockets are accepted in the event
loop only, when no call is pending; otherwise `ClosedReturns` would take the new socket from it. `ConnectedIsServed` is
what `OwnSocket` says of the event loop, in the middle of calls: each socket that is still connected has an open connection.

Model-checked only: `SocketsFreed` (liveness).

### What is left out

The destructor; nested event loops in handlers; the rest of `transitionToCompleted()` on a connection its own
`requestCompleted` handler closed (counterexample 2 has what comes of it); sockets of failed or hanging handshakes are modelled
but have no property: nothing deletes them before the server goes, and nothing in the repository says it should.

## 4. HttpClient

`HttpClient.tla` is the component with its `HttpResponseParser`, and its inductive invariants; `HttpClientProofs.tla` and
`HttpClientResponseProofs.tla` have the proofs, `MCHttpClient.tla` the instances. Servers are
external: each request that reaches one gets an answer out of `Answers`, a head, framing and content, perhaps after
`100 Continue`.

### The state

| variable | code |
|---|---|
| `request`, `deferred`, `asked` | `_request` and `_pendingRequest` as positions in the history of requests accepted |
| `pending`, `error` | `_responsePending`, `_error` |
| `device`, `inbox`, `stream` | state of `_device`, what it has received, what the server wrote and has not arrived |
| `buffer` | the part of `_buffer` that is not parsed |
| `parser` | `http_parser`: where it is in a message, and `http_errno` (fine, paused, failed) |
| `headers`, `field`, `wasValue` | `_headers`, `_field` with `_value`, `_lastWasValue`: which requests' responses contributed to them |
| `content`, `decoder` | size of `_content`, decoded if there is a decoder; `_contentDecoder`: for which response it was made, and whether it is mid-stream |
| `timers` | calls of `device_readyRead()` that `consumeContent()` scheduled |
| `stack` | signals and functions in progress, innermost first |
| `answer`, `parsed`, `cut`, `ended` | history: the answer to the request sent last, what was parsed of it (units, octets before decoding, whether a decoder had to do with them), whether the server left it unfinished, how often `finished` was emitted for each request |

### The actions

`device_readyRead()` is the one long function, and everything happens inside it: `ReadyRead`, `TimerFires` and
`UnaskedInput` are its start, the parser's callbacks (`MessageBegin` to `ResponseComplete`, `ParserFails`) run while
`"reading"` is on the stack, and `InjectAgain`, `RejectResponse` and `ReadyReadReturns` are what follows `inject()`. A
signal puts its name on the stack; while it is there the application may abort, consume or make a request
(`RequestNow`, or `RequestLater` when the parser is at work), and its removal (`HeadersHandled`, `ContentHandled`,
`FinishedHandled`) goes on with the code after the emission, which finds whatever the handlers left. The device's other
signals are `DeviceConnected` and `DeviceError`.

Compressed content is counted decoded: `messageContent()` appends to `_content` what the decoder makes of the octets it gets
(`HttpClient.cpp:709-717`), and `device_readyRead()` compares that with `readBufferSize()` (`:575`), although it is the
octets before decoding that are read. So `_content` can pass the read buffer's size, as `HttpClient.h:194-198` says. In the
model n octets become anything between none (`inflate()` holds them back) and `Expansion * n` (`Decoded`). `Expansion` is a
bound: one octet of a deflate stream stands for a limited number of octets, the ones held back included, and a stream that
is rejected is passed through as it is.

Three switches keep the passing runs to what the code can take: `AbortsHead`, `AsksTwice` and `Interrupts` (with
`Interrupts = FALSE` a response may still be aborted, or its connection lost, but not in the middle of a message). What
happens otherwise is in section 9.

### Runs

| run | bounds | result |
|---|---|---|
| `client_serve` | 3 requests, GET or HEAD, 2 servers, 5 kinds of answers, aborts and lost connections anywhere, keep-alive that may expire | `FinishedOnce`, `ResponseConserved`, `KeptConnectionIsClean`, `ClosedEarly` |
| `client_flow` | 3 requests, a read buffer of 2 units, content of up to 3, plain, compressed and compressed after 100 Continue, octets decoded to 0, 1 or 2 each (`Expansion = 2`), responses not interrupted | `Reported`, `BuffersBounded`, `EveryRequestEnds` |

**Bounds.** Three requests are one under way, one put off in its handlers and one after it: a request only meets its
predecessor's leftovers. Two servers are a reused connection and a changed one. `Receive` takes any prefix of what was
sent, so answers with one header and two octets are split at every place that matters to the client. A buffer of two
units is smaller than a head and than the content, and an expansion of 2 is enough for `_content` to exceed it, so that the
room at `HttpClient.cpp:575` becomes negative. `client_serve` has about 156 000 states, `client_flow` 6 000.

`BuffersBounded` says what the limit is worth: the device holds no more than `readBufferSize`, the client no more than that of
content that is not compressed, and of compressed content no more than one full buffer is decoded to, however the application
consumes. That a client reads on while it still holds decoded content, and the sum grows, is what it excludes.

**Deadlock** is not checked: with no request left to make, the client rests.

**Fairness** (`EveryRequestEnds`): code runs and handlers return, what the server wrote arrives, timers fire, a
connection attempt succeeds or fails (the operating system sees to that), and the application consumes content it was
given, without which a full read buffer rightly stops everything. Nothing is assumed of aborts or closing servers.

### Proofs

For any servers and answers, any number of requests and timers, every size of the read buffer, every `Expansion` and, where
nothing else is said, with all switches on. The assumptions on the constants are their types.

| theorem | property | hypotheses |
|---|---|---|
| `ClientInductiveInvariant` | `ClientInductive` | |
| `BuffersStayBounded` | `BuffersBounded` | |
| `RequestsFinishOnce` | `FinishedOnce` | `AbortsHead` and `AsksTwice` off (counterexample 4 and the first of the others) |
| `ConservedInductiveInvariant` | `ConservedInductive` | `OneInterim`: no server sends two `100 Continue` for one request (`ContinuedTwice` in section 9) |
| `ResponseIsConserved`, `KeptConnectionStaysClean` | `ResponseConserved`, `KeptConnectionIsClean` | `OneInterim` |
| `ClosedIsEarly` | `ClosedEarly` | `OneInterim`, every response tells its length (`Undelimited` in section 9), no read buffer limit: with one, what is left unread is lost with the connection |
| `ResponsesAreReported` | `Reported` | `OneInterim`, every answer can be parsed and tells its end (`AnswersTellTheirEnd`), `Interrupts` off: what an interrupted or rejected response leaves in `_field` and in the decoder gets into the next one (counterexample 5, and the decoder in section 9) |

There are four invariants, because the properties rest on different arguments.

- `ClientInductive` is about control. `StackShape`: parsing is the outermost call, the parser's signals are emitted right
  from it, and above a parser that is interrupted by `finished` the response is over. `ParserInStep`: a parser that runs and
  was not stopped has a response pending (so its callbacks never touch a request that is not there), and a request is only
  put off under one. `DeviceInStep`: only a connected device holds anything, and `_buffer` is empty between reads.
  `RoomLeft`: content and what the octets being parsed may become together fit in what a full read buffer is decoded to
  (`Weight` for each octet: 1, or `Expansion` once a decoder had to do with the response). Between reads only the content's
  own bound holds; a read starts from `content + n <= ReadBufferSize`, which implies the other at every weight (`Scaled`), and
  n octets that become k leave it intact (`WithinMoved`). The first octets decoded raise the weight: until then everything
  was within the size itself, which is enough for any weight (`HeavierRoom`).
- `ConservedInductive` adds the data. `Conserved`: the units parsed and those in the buffer, the device and on their way are
  together *the* answer of the pending request, unit for unit, and the parser stands where the last unit parsed leaves it
  (`After`). The count alone, which is what `ResponseConserved` says, is not inductive: that a unit which ends the message
  is the last one of the answer is what leaves nothing behind, and this depends on the grammar of answers (`Grammar`,
  proved from `Kinds` for contents of every length and framing). The second `inject()` after a pause is covered because the
  only pause in a pending response is at a `100 Continue`, after which the parser is at a start again. `Kept`: a
  connection without a request holds nothing.
- `FaithfulInductive` adds to that what makes a report true. `OctetsCounted`: the octets received are those among the units
  parsed (`OctetsAmong`, counted from the positions in the answer: the lemmas `Layout`, `Counting` and `Succession` say what
  stands where in an answer of any length, and that a unit which is no octet does not count). `FieldInHead`: `_field` holds
  something only between a header and the end of its head, although neither `clear()` nor `messageBegin()` empties it, and
  what it holds is of the pending response. `DecoderOwn`: a decoder in the middle of a stream is in the pending response's
  stream. `HandlersLeavePending`: nobody ends a response from its own handlers, since nothing interrupts it. That the
  parser never fails is proved, not assumed: each unit of an answer may follow the one before it (`AsExpected`), whatever
  the pieces it comes in. A request without an error has then had every unit of its answer, and `Counting` says how many octets those are.
- `EndedInductive` is the bookkeeping of `finished`: what was put off is the last request made, and a HEAD is pending as
  long as the handlers of its headers run.

An answer's units are defined by their positions (`Times`), without recursion, so that these proofs cover contents of every
length. `client_serve` and `client_flow` check the properties; `client_inductive.cfg` and `client_flow_inductive.cfg`
have TLC check the invariants with the constants of these runs (`tlc -config client_inductive.cfg MCHttpClient`).

Model-checked only: `EveryRequestEnds` (liveness).

### What is left out

The text of requests and responses (section 7); what the header accessors compute; octets (the read buffer counts units); the closing state of
the device between `disconnectFromHost()` and the new connection; input nobody asked for that races a new request;
interim responses other than 100; `followRedirection()` beyond its being a `request()`. `ReadBufferSize` is fixed.

## 5. The handlers

`HandledConnection.tla` is `HttpConnection` as handlers use it; `HttpHandler.tla` (file, log, fixed, function, 404, the
stack's order) and `HttpHandlerProxy.tla` (proxy, pipe, elastic manager) extend it with theirs, and `HandlerStack.tla`
composes them on one connection, as the repository's README and examples do. `HandlerStackInvariant.tla` has the inductive
invariants, `HandlerStackProofs.tla` the proofs, and `MCHandlerStack.tla` the pipelines.

### The state

| variable | code |
|---|---|
| `pipeline`, `arrived` | what the peer sends, as whole requests: target, method, version, persistence; how many have arrived |
| `conn` | `_state`, the number of the current request, `_responseContentLength`, `...BytesSent`, `...ConnectionKeepAlive`, `...ChunkedTransferEncoding`, `bytesToWrite()` |
| `answers` | what was written for each request, and how its response ended: history, and the subject of the properties |
| `frames` | calls with something left to do: of the connection (`dispatch`, `completing`, `completed`, `tail`, `content`), of a transfer (`payload`, `written`, `transfer`), of a pipe (`readyRead`, `pump`, `finished`, `ended`) |
| `info`, `lines` | the connection's entry in `_requestInfoMap`; the log |
| `transfers`, `position`, `doomed`, `deleted` | `HttpHandlerFileTransfer` objects: the request each was made for, `_sourceDevice->pos()`, `deleteLater()` called, gone |
| `fileSize` | `_sourceDevice->size()`, which another process may change |
| `posted` | the event loop's queue: queued `bytesWritten` calls and deferred deletions, in order; a call to a transfer that was deleted meanwhile is dropped when it is due |
| `replies`, `sent`, `broken`, `managers` | `QNetworkReply` of each request; `_headersSent`, `_broken` of its pipe; the children of `ElasticNetworkAccessManager` |

A unit of content says which request's target it belongs to and where in it, so that content in the wrong response, out
of order or twice can be told.

### The actions

One per call, cut where other code can run: `writeResponse()` is `WriteHeaders`, then perhaps the completion and the next
request's dispatch, then `WriteResponseTail`, which writes to whatever request is current then. `writeNextPayload()` is
`WriteNextPayload` and `PayloadWritten` (which looks for the end of the file after `writeContent()` has returned);
`proxiedReply_readyRead()` is `ReadyRead` and `Pump`; `proxiedReply_finished()` is `FinishedWell` with `EndContent`, or
`FinishedBadly`. Slots of `requestCompleted`, `closed` and `bytesWritten` belong to the step that emits them (`Slots` in
`HandlerStack`): the log's line, the pipe's teardown, the transfer's `deleteLater()`, and the queued call. What the
application answers later (`FunctionAnswers`), the upstream server (`UpstreamContent`, `UpstreamEnds`) and other
processes (`FileIsChanged`) do comes from the event loop, between any two of these.

### The run

`handlers` checks `LoggedOnce`, `ServedIntact`, `PipeHasItsRequest`, `NothingLeaks` and, as liveness,
`EveryRequestIsAnswered` on eleven pipelines of two or three requests (48 732 states). **Bounds:** a file of 5
units against buffers of 2 and 3 is sent in at least two payloads, depending on what the device has written; one of 2 is
sent at once; the two buffer sizes differ because the transfer corrects a small one and the file handler does not.
Files shrink by one unit while sent. Managers have room for one reply, so that a second one is needed as soon as the reply of
a torn down pipe is not deleted yet. Three requests suffice: what a transfer or pipe may disturb is the request after its
own. **Deadlock** is not checked: the peer may stop sending. **Fairness:** pending calls return; the event loop delivers
what is posted; the device writes (the peer reads or disconnects); the function answers and the upstream server ends its
reply. Nothing is assumed of the peer's requests. `EveryRequestIsAnswered` excepts, by name (`Abandoned`), the two cases
in which the code gives up: a file that changed under its transfer, and an upstream failure after the headers.

### Proofs

For any pipelines, buffer sizes, changes of files, upstream servers and room in the managers:

| theorem | property | hypotheses |
|---|---|---|
| `BookkeepingInvariant` | `TypeOK`, `StackShape`, `InOrder` | |
| `LogIsSound` | `LoggedOnce` | |
| `PipesHaveTheirRequests` | `PipeHasItsRequest` | |
| `NothingIsLeft` | `NothingLeaks` | `NoHeadOfFiles`: no file large enough for a transfer is asked for by HEAD (counterexample 6, and `Final(HeadOf(Large))` in section 9) |
| `ResponsesAreWhole` | `ServedIntact` | the same; `NothingBehindHead`: other requests by HEAD are for the proxy or come last (counterexample 1 with these handlers, the second `ServedIntact` row of section 9); `FilesOnlyShrink`: no file grows while it is sent (the first) |

- The next-state relation has thirty alternatives and most of them may complete, close or begin a response. `Kinds` reduces
  them to a few: what a step does to the state of the connection, the number of the current request and the stack of calls.
  The order of responses (`InOrder`) and the shape of the stack (`StackShape`: what waits below the innermost call is only a
  call that asks for the state again when it goes on) are preserved by each kind.
- `LoggedOnce`: the connection has one entry, which the next request overwrites. The line of a completed response is
  written in the very step that completes it (`Ends`), and until then `info` is the number of the current request; a later
  one is larger, so the lines are in order, and `status` and `length` of a completed response are not written again.
- `PipesInOrder`: a pipe that is not torn down is the current request's, and its `_headersSent` agrees with the state of the
  connection, also in the middle of the calls it makes. The step that completes or closes tears it down.
- `NothingLeaks` speaks of states in which nothing is posted; what is preserved is `LeavesNothing`, which speaks of all: a
  transfer not marked for deletion serves the response being sent (`TransfersInUse`), one that is marked and not deleted
  has its deletion posted, and the same of replies (`RepliesInUse`). `TransferCallInPlace` says that the call which makes a
  transfer comes right after the headers of its response; a HEAD completes the response in between, which is
  where the hypothesis is used.
- `ServedIntact` says of completed responses what is preserved of the one in service (`Intact`). A writer does not know
  whose response it writes to, so each is tied to the one in service: `ContentInPlace` (the content written is the
  target's own, from its first unit on, as long as `_responseContentBytesSent`; the length announced is the target's or
  the response is of a kind that need not be whole; the call that completes a response runs with all of it written),
  `ContentCallInPlace` (the rest of `writeResponse()` has what its headers announced, and nothing has run between but
  the call that ends them), `TransfersInPlace` (a transfer in use stands at the end of what was written, and one that was
  not deleted yet has nothing left to read, so that the `bytesWritten` call still queued to it writes nothing) and
  `RepliesInPlace` (what a pipe has read of its reply is what was written). A step either writes nothing, begins or ends
  a response, writes its headers, or adds units to it: `Effects` says which, once for all properties, and `OnlyOwn` that
  the units go on where the content ends. Three lemmas say that no writer is refused what it has taken out of its
  source, where `pos()` and the reply's buffer would move on without the response: `PumpWrites`, `PumpReads`,
  `TransfersKeepUp`. The hypotheses are those under which the code does this; each has its counterexample.

`handlers_inductive.cfg` has TLC check these invariants with the constants of `handlers`
(`tlc -config handlers_inductive.cfg MCHandlerStack`).

Model-checked only: `EveryRequestIsAnswered` (liveness).

### What is left out

The text of log lines, dates, names and types of files, `If-Modified-Since` beyond its outcome, which headers a proxy
passes on; the removal of a log entry with its connection (no connection dies here; section 3 has that); HTTP/1.0
persistence.

## 6. NetworkAccessManager

`NetworkAccessManager.tla` is the end of `HttpClient.cpp`: Qt's interface on a pool of clients;
`NetworkAccessManagerProofs.tla` has the proofs, `MCNetworkAccessManager` is its instance. A client is reduced to what its signals and its answers to `request()` show (section 4 has the inside);
in particular it keeps a request that is made while its parser is on the stack.

| variable | code |
|---|---|
| `authority`, `pool` | `_clientToUrlMap`, `_urlToClientsMap` (a `QMultiHash`: the client put last is found first) |
| `client` | of each `HttpClient`: `_responsePending`, `isParsing()`, paused, `_request`, `_pendingRequest`, `error()`, progress of the response |
| `listening` | `_client` of each reply |
| `heard` | what each reply was told, and about which request (history) |
| `frames` | signals whose slots run, and parsers, innermost first |

`CreateRequest` is `createRequest()` whole: find an idle client or make one, erase it from the pool, connect the reply, send
by operation. `Finish` is what `finished` sets off, in the order of connection: `client_finished()` of the manager puts
the client back, then the reply lets go of it and tells the application, which may make its next request and be given the
same client. `HeadersHandled` is the end of `headersComplete()` for HEAD, `ParserReturns` the release of the request put off.

`nam` checks the inductive invariant `PoolInductive`, `OwnResponse`, `PoolSound` and, as liveness, `EveryReplyFinishes` for four requests (three to one authority,
one HEAD, one with an unknown operation; about 18 000 states): enough for a client that is taken, put back, taken again
while its parser runs, and for a second client of the same authority. **Fairness:** signals return and the parser comes to
the end of its input; each client with a pending response gets input; and if it gets input again and again, the response
ends (strong fairness per client). Aborts and failing connections have none.

### Proofs

For any set of requests to any authorities with any operations, from `AbortsInHead = FALSE` (without it, a client gets into
the pool twice: section 9):

- `PoolInductiveInvariant`: `PoolInductive`;
- `RepliesHearTheirOwn`: `OwnResponse`; `ClientsAreShared`: `PoolSound`.

`PoolSound` counts; what is preserved is said without counting: the pool has no client twice, no two replies listen to one
client, and a client is in the pool exactly when nobody listens to it (`SharedOut`). `Serving` says what each client in use
does: it has the request of the reply that listens to it either under way or put off until its parser returns, never both.
`OwnResponse` is about the past; what ties it to the present is `Hearing`: how far a reply has heard is how far its
client's response has come, so that the next signal is the next thing to hear. `Parsing` is the client's own shape of
calls, reduced to what the pool needs: a client that was put back and taken again inside its own parser parses on only if
what it began is still pending or done, and a HEAD is pending as long as the handlers of its headers run, which is where
the hypothesis is used. `ClientsAreShared` then takes the cardinalities from `SharedOut`.

Model-checked only: `EveryReplyFinishes` (liveness).

### What is left out

Cookies, request attributes, a reply's buffer of content, URLs with other schemes (passed on to Qt), and the
clients' deletion (nothing deletes a pooled client before the manager goes).

## 7. The wire

`HttpWire.tla` writes requests and responses as `HttpRequestWriter`, `HttpClient::sendRequest()` and
`HttpConnection::writeHeaders()`, `writeContent()`, `endContent()` do, and reads them with `ThinHttpParser.tla`
(`parser/parser.c`, as `processInput()` resumes it) and `HttpResponseParser.tla` (the response half of
`parser/http_parser.c` with `HttpResponseParser`'s callbacks). `ByteArrayHelpers.tla` has numbers in their width, percent
decoding, comparison and lookup. `MCHttpWire.tla` has 13 requests, 7 answers and some 35 responses of other servers.

Text is a sequence of symbols: single characters where the code looks at them one by one, words or halves of words where it
only compares them (`con` `tent-length`: the half lets a field name be cut, or begin like another). Both parsers take one
symbol per step. The states `http_parser.c` needs to match a constant letter by letter are one state with the constant as
symbol; the machine of `parser.c` has one state per grammar position, except that the twenty states counting a method's
length are one with a bound (`MethodLimit`).

| variable | code |
|---|---|
| `buffer`, `p` | `_requestBuffer`; the symbol a call of `thin_http_parser_execute()` is at |
| `thin`, `fields` | `http_parser` of `parser.h`: state, marks, positions of the parts; `_requestHeadersRef` |
| `rp`, `self` | `http_parser` of `http_parser.h`; `_field`, `_value`, `_lastWasValue`, `_headers`, `_content` |
| `data`, `q`, `again`, `mark` | what a call was given, where it is, whether it executes the symbol again (`goto reexecute_byte`), its local marks |
| `rest`, `read` | what the call left when paused at the end of a message; the messages completed (history) |
| `sent`, `given`, `closed` | how much of the request and response has arrived; whether the connection's end was seen |
| `messages`, `refused`, `persists` | what the text means: messages with their ends, where it breaks the grammar, `_responseConnectionKeepAlive` |

`wire` checks `RequestAsWritten`, `ResponseAsWritten` and `PersistenceUnderstood` on every way to cut the texts into pieces
of one symbol, two symbols and the rest, mixed (85 585 states). What each text means is stated beside it in
`MCHttpWire.tla`, by hand, not computed by the parsers. `wire_status` is the finding of section 9. **Bounds:** `int` has 6 bits
and a parsed length 8, so that chunk sizes and lengths reach their limits; heads up to 60 symbols reach
`HTTP_MAX_HEADER_SIZE`; methods of 3 and 4 symbols are at and beyond the longest. `injectEof()`, which `HttpClient` never calls,
is used by `ServerCloses` as the class offers it. **Deadlock** is not checked: a text ends.

## 8. HttpHandlerSimpleRouter

`HttpHandlerSimpleRouter.tla` has `addRoute()` (five kinds of targets), the settings, `handleRequest()` and the request's
parameters (`HttpConnection::requestParams()`, `requestParamValue()`, `setRequestParam()`, over `ByteArrayHelpers`). A
pattern is a sequence of elements; the expression `pathToRegExp()` makes of it is modelled by what it matches and captures
(`Ends`, `Fits`, `Begins`: `QRegularExpression` is greedy from left to right), with the names collected parameters first,
splats second. The code escapes nothing (`HttpHandlerSimpleRouter.cpp:232-233`). Of what this makes special the model has the
dot, which is any symbol but a line feed, as in `(.*)`, and `$`, which also matches before a line feed at the end (`/a%0A`
goes to the route `/a`: `MatchEnds`). Patterns with another metacharacter (`\ ^ $ [ | ( ) ? * + {`, and a `:` or `*` that
begins no name) are outside the model: `RouterAssumption` (`IsPattern`) excludes them, and what they do is in section 9.
Names are words over `WordSymbols`, the symbols that stand for `\w`; paths and queries have percent signs only before the
code of a character the models write (`Encoded`), so that what is decoded is again a symbol of the model.

`router` checks `NamedPartsMakeThePath` and `RefusedForTheReasonGiven` for every sequence of up to three out of seven
routes, both error actions, `_method` accepted or not, deleted targets, and nine requests with encoded slashes and line feeds,
parameters in competing case, and several matching routes (70 960 states). Three routes are needed for a match behind a mismatch
behind a miss; more of them only repeat the loop.

### Proofs

`HttpHandlerSimpleRouterProofs.tla` proves both properties for any routes and requests within `RouterAssumption` and
`WordAssumption`, with patterns and paths of any length. Besides types the assumptions say that no pattern has a metacharacter
other than the dot, that names are words, and that percent signs are followed by codes: for other patterns the theorems claim
nothing. `router_inductive.cfg` checks with TLC what the proofs
rest on (`TypeOK`, and that the routes of the run meet `AllReadable`).

| theorem | property | hypothesis |
|---|---|---|
| `RouterIsTyped` | `TypeOK` | |
| `RefusalsGiveTheirReason` | `RefusedForTheReasonGiven` | |
| `PathsAreReadBack` | `NamedPartsMakeThePath` | `AllReadable`: no pattern has a dot, a name twice or a splat before a parameter (each has its counterexample in section 9). No pattern has another metacharacter by `RouterAssumption`. The path is made again up to a line feed at its end, which `$` lets pass |

Here the invariants are simple, since the router remembers nothing of a request but its outcome; what is hard is what one
step computes. The loops of the code are functions recursive over `0 .. n`. `Inductive` gets induction over the naturals
from the well-founded minimum (`WFMin`: the library's rules with an operator as parameter cannot be used), `RecursionRuns`
the existence of a function defined by such a recursion and `RecursionKeeps` what all its values have. With these:

- `InOrderLists`: the loop over the routes lists those it means to, each once and in their order, from which
  `RefusalsGiveTheirReason` follows: a route that fits is in the list whose emptiness, first member or methods decide.
- `MatchDivides`: a match divides the path, each element from where it begins to where the next does. The greedy choice
  cannot fail later, since it is taken among the ends from which the rest still matches.
- `NamesAsCaptured`: names collected parameters first and splats second are in the order of the captures if the splats
  come last (`ListsJoin`).
- `SetHolds`, `SetKeeps`, `EveryNameHolds`: `setRequestParam()` for one name leaves every other name its value, whichever
  fields of the query the first of these names was found at, so that after the loop each has its own.
- `PartsJoin`: the parts of a divided path, put together, are the path.

## 9. Finding and counterexamples

**Finding** (`wire_status`). For a status that is not in its table, `writeHeaders()` warns that it is "Using 500 Internal
Server Error instead" (`HttpConnection.cpp:551`) and takes `getStatusMessage(500)`, which is the phrase *without* the code.
The status line is `HTTP/1.1 Internal Server Error`; `HttpClient` refuses the response with `INVALID_STATUS`.

**Counterexample configurations.** Apart from `client_inductive.cfg`, `client_flow_inductive.cfg` (section 4),
`handlers_inductive.cfg` (section 5) and `router_inductive.cfg` (section 8), which pass, the six `.cfg` files beside
the runs assume more of the environment than the runs do, and
TLC finds the property named there violated (`tlc -config X.cfg M`):

| | configuration, module | violated | what the code does |
|---|---|---|---|
| 1 | `conn_head_body`, `MCHttpConnection` | `NoForeignContent` | `writeResponse()` asks method and state again after `writeHeaders()` (`HttpConnection.cpp:533-535`), which for HEAD completes the response and may dispatch the next request: content meant for HEAD is written into the next response. |
| 2 | `conn_close_completed`, `MCHttpConnection` | `DeviceInUse` | After `emit requestCompleted`, `transitionToCompleted()` goes on unconditionally (`:407`): a handler that calls `close()` leaves a closed connection that returns to a live state with null devices, and with keep-alive `processInput()` dereferences one. |
| 3 | `server_close_other`, `MCHttpServer` | `NoReturnIntoDeleted` | With the reserve full, a `closed` handler that closes another connection has `putConnection()` delete the one put last (`HttpServer.cpp:65`), whose `transitionToClosed()` is still running. |
| 4 | `client_abort_head`, `MCHttpClient` | `FinishedOnce` | `abort()` in `headersCompleted` of a HEAD emits `finished`; `headersComplete()` goes on and emits it again (`HttpClient.cpp:690`). |
| 5 | `client_half_head`, `MCHttpClient` | `HeadersOwn` | Neither `clear()` nor `messageBegin()` clears `_field` and `_value` (`:235`): after an interrupted head, the next response's first header is appended to what was left. |
| 6 | `handlers_head`, `MCHandlerStack` | `ServedIntact` | `HttpHandlerFile` makes a transfer for HEAD as well, after `writeHeaders()` has completed the response (`HttpHandler.cpp:335`): with a large file pipelined behind, the transfer of the first writes into the response of the second. |

**Others**, found by changing a constant or an input of a run:

| what the code does | change | violated |
|---|---|---|
| A second `request()` while one is put off replaces it; the first never finishes (`HttpClient.cpp:466`, against `:465` "Keep the request for after we come out of parsing") | `AsksTwice = TRUE` in `client_serve` | `FinishedOnce` |
| The decoder of interrupted compressed content decodes the next, uncompressed response (`HttpClient.cpp:709`) | `Interrupts = TRUE` in `client_flow` | `Reported` (also 5) |
| A response that ends with the connection is a `RemoteHostClosedError`: `injectEof()` has no caller (`HttpClient.cpp:543`, against `HttpClient.h:104` and `:181`) | `Answers <- Undelimited` in `client_serve` | `ClosedEarly` |
| With chunked content, input is left unread with room in the read buffer (`HttpClient.cpp:575`) | `Answers <- ChunkedOnly`, `ReadBufferSize = 3` in `client_flow` | `NothingLeftUnread` |
| After two `100 Continue` in one read, the beginning of the final response is dropped (`HttpClient.cpp:606`, against `:728` "Completely hide and ignore the 100 response") | `Answers <- ContinuedTwice` in `client_serve` | `ResponseConserved` |
| A file that grows while it is sent: the response completes with the length it announced, but a `bytesWritten` call already queued to the transfer runs before the transfer's deferred deletion, finds that the file has something left, and writes a unit of it into the *next* response (`HttpHandler.cpp:366-386`) | `FileChanges = {1}` in `handlers` | `ServedIntact` |
| HEAD for a fixed response pipelined before a large file: case 1 above with the library's own handlers | a pipeline `HeadOf(To("fixed", 1, ""))`, `Large` | `ServedIntact` |
| The transfer made for a HEAD on a connection that is closing stays until the server goes (`HttpHandler.cpp:337`) | a pipeline `Final(HeadOf(Large))` | `NothingLeaks` |
| An upstream failure after the headers were passed on leaves the client's request open (`HttpHandlerProxy.cpp:154-159`) | `Abandoned` without its second case | `EveryRequestIsAnswered` |
| Case 4 puts the client into the pool twice | `AbortsInHead = TRUE` in `nam` | `PoolSound` |
| A request with an unknown operation takes a client and never returns it (`HttpClient.cpp:974`) | `PoolSound` without its exception | `PoolSound` |
| A length of 2^31 or more is written as a negative number or as no number (`HttpConnection.cpp:667`) | an answer of 32 octets in `wire`, with `int` of 6 bits | `ResponseAsWritten` |
| The overflow checks compare with the length before, and so take numbers that wrap beyond it (`http_parser.c:1466`, `:1739`) | `WithLength(<<"9", "9", "9">>)` among the bad responses of `wire` | `ResponseAsWritten` |
| 204 with a length makes the client wait for content (`http_parser.c:1625`) | such a response in `wire` | `ResponseAsWritten` |
| A header line without a colon is put before the next header's name (`HttpClient.cpp:281`) | such a line before another in `wire` | `ResponseAsWritten` |
| The last trailer of a chunked message becomes part of the next response's first header (`http_parser.c:1560`: no `headers_complete`) | two messages, the first with a trailer | `ResponseAsWritten` |
| A splat before a parameter: each gets the other's value (`HttpHandlerSimpleRouter.cpp:202-227`); a dot in a pattern matches anything (`:232`); of two parts with one name the last wins | such routes in `router` | `NamedPartsMakeThePath` |

Three more are seen in the code and are in no module. A pattern is compiled with all its metacharacters
(`HttpHandlerSimpleRouter.cpp:232-233`): `+`, `?`, `|`, `[` and the others change what a route matches, a pattern that is no
expression matches nothing, and a `(` opens a group of its own, so that line 259, which numbers captures by the names alone,
gives every name behind it another's value. `readBufferSize` does not limit decoded content: one read of a well compressed
response puts many times its size into `_content`, which `HttpClient.h:196-197` allows for and `BuffersBounded` bounds only by
the expansion. And a log line written because a connection closed before its response has status and length of the response
before, or none.

Two more follow from the modules without a property: a proxied error without content (404, 500) becomes 503, because
`QNetworkReply::error()` is also set by the status and nothing was passed on (`HttpHandlerProxy.cpp:156`); and a route
whose target is deleted, declines or was named with its signature (`HttpHandlerSimpleRouter.cpp:152` ignores
`indexOfMethod()`) counts as handled, and the request is never answered (`:260`).

## 10. Not modelled

- `HttpRequest.cpp` and `parser/thin.c` are compiled by no build file: the one is the predecessor of `HttpConnection`,
  the other a Ruby binding.
- `private/zlib.h`, `private/zconf.h` declare another library; decompression is what `HttpClient.tla` says of its
  `Decoder`.
- The half of `http_parser.c` that parses requests and URLs: `HttpResponseParser` initialises it for responses only.
  Its `F_SKIPBODY` is never set, since `on_headers_complete` returns 0.
- The MIME table and dates of `HttpHelpers.cpp`: constants and formatting.
- Tests, examples and the benchmark: users of the library.

## 11. Plan

Modelled and checked: all of the above. Proved: the safety properties of sections 2, 3, 4, 5, 6 and 8, and the refinement
of section 2. Only model-checked: `RequestAsWritten`, `ResponseAsWritten` and `PersistenceUnderstood` of section 7, and
liveness. The first three compare what the parsers make of given texts with meanings stated by hand: for other constants
they hold only if those meanings are right, which is what TLC computes; a theorem would need the grammar as a definition of
its own. Liveness is out of the prover's reach.
