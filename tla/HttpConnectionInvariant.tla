----------------------- MODULE HttpConnectionInvariant -----------------------
(***************************************************************************)
(* The inductive invariant of HttpConnection: what each pending call knows *)
(* about the connection, and where the buffer stands in the peer's stream.  *)
(***************************************************************************)
EXTENDS HttpConnection

\* The call that runs, or "idle" in the event loop.
Top == IF stack = <<>> THEN "idle" ELSE Head(stack).at

\* Calls that can be pending below the running one.
Suspended == {"requestReady", "sendingContentTail", "writeResponseTail"}

\* The tail of transitionToCompleted() is pending exactly under the signal it
\* emits; everything else below the running call tolerates any state.
StackShape ==
  \A i \in 2 .. Len(stack) :
    \/ stack[i].at \in Suspended
    \/ stack[i].at = "completedTail" /\ i = 2 /\ Top = "requestCompleted"

\* Frames of a response being completed.
Completing == Top \in {"requestCompleted", "completedTail"}

\* Frames that only lead to closing the connection.
GivingUp == Top \in {"badRequest", "tooLarge", "flushing"}

\* The states in which each function is called.
CalledIn ==
  /\ Top = "receivingContent" => state = "ReceivingHeaders"
  /\ Top = "sendingHeaders" => state = "ReceivingContent"
  /\ Top \in {"badRequest", "tooLarge"} => Receiving
  /\ Top = "sendingContent" => state = "SendingHeaders"
  /\ Top = "completed" => state = "SendingContent"
  /\ Completing \/ Top = "receivingHeaders" => state \in {"Completed", "Closed"}
  /\ Top = "flushing" => ~AppHolds /\ state # "Flushing"

\* The head of the current request has been parsed and is in the buffer, from
\* its first unit to its last.
HeadParsed ==
  /\ bufLo < Current
  /\ Current <= bufHi
  /\ script[Current].kind = "end"
  /\ \A p \in (bufLo + 1) .. (Current - 1) : script[p].kind = "part"

\* Where the next request begins, after all those delivered.
NextStart == StartOf(Len(delivered) + 1)

\* The current request is the one delivered last, and all of it is buffered.
CurrentDelivered ==
  /\ delivered # <<>>
  /\ delivered[Len(delivered)] = Current
  /\ reqLen = ContentLength(Current)
  /\ reqLen >= 0
  /\ Current + reqLen <= bufHi

Positions ==
  /\ Receiving \/ Top = "receivingHeaders" => bufLo = NextStart
  /\ state = "ReceivingHeaders" /\ Top # "receivingContent" /\ ~GivingUp =>
       /\ Current <= bufHi
       /\ \A p \in (bufLo + 1) .. Current : script[p].kind = "part"
  /\ Top = "receivingContent" => HeadParsed
  /\ state = "ReceivingContent" /\ ~GivingUp =>
       /\ HeadParsed
       /\ reqLen = ContentLength(Current)
       /\ reqLen >= 0
  /\ Top = "sendingHeaders" => Current + reqLen <= bufHi
  /\ AppHolds \/ Completing => CurrentDelivered

\* The request headers are set up, or known to be in need of it.
Headers ==
  state = "ReceivingContent" /\ ~GivingUp =>
    headersShort \/ (headersFresh /\ Top = "sendingHeaders")

TimersStarted == pump <= sessions

Inductive ==
  /\ TypeOK
  /\ StackShape
  /\ CalledIn
  /\ Positions
  /\ Headers
  /\ TimersStarted
  /\ RequestViewIntact
  /\ FramedAsSent

-----------------------------------------------------------------------------

(***************************************************************************)
(* What the pending calls know about the responses, the devices and the    *)
(* application.                                                            *)
(***************************************************************************)

\* The message written last.
Last == wire[Len(wire)]

IsResponse(m) == wire[m].kind = "response"

\* The head of the current request's response is written and the response is
\* not complete.
HeadWritten == state = "SendingContent" \/ Top = "sendingContent"

\* The tail of transitionToCompleted() has let go of the request.
LettingGo == Top \in {"receivingHeaders", "flushing"}

\* No response is under way, and the connection has not given up: another message
\* may follow.
MayWriteNext ==
  /\ \/ Receiving
     \/ state = "SendingHeaders" /\ Top # "sendingContent"
     \/ Top = "receivingHeaders"
  /\ Top # "flushing"

\* Every request that was delivered is answered.
AllAnswered == (~AppHolds /\ state # "Closed") \/ Completing \/ LettingGo

\* The last response need not be complete, or was completed just now.
LastIsOpen == HeadWritten \/ Completing \/ (state = "Closed" /\ ~LettingGo)

\* requestReady and requestCompleted alternate.
Counts ==
  /\ answered <= Len(delivered) /\ Len(delivered) <= answered + 1
  /\ AppHolds => Len(delivered) = answered + 1
  /\ AllAnswered => Len(delivered) = answered

\* The last message is the response to the current request, and the response
\* fields say of it what is true.
UnderWay ==
  HeadWritten =>
    /\ wire # <<>>
    /\ Last.kind = "response" /\ Last.req = Current /\ ~Last.ended
    /\ Last.length = resp.length /\ Last.chunked = resp.chunked
    /\ Last.keepAlive = resp.keepAlive
    /\ Last.body + Last.foreign = resp.sent

\* The response may end.
NothingMissing ==
  resp.length < 0 \/ RequestAt(fieldsOf).head \/ resp.sent = resp.length

\* The current request's position in the stream is beyond what left the buffer;
\* nothing of its response has been sent before its head is; and a response is
\* completed when nothing is missing.
Progress ==
  /\ AppHolds => bufLo < Current
  /\ state = "SendingHeaders" => resp.sent = 0
  /\ Top = "completed" => NothingMissing

\* The function that emits requestCompleted waits for its handler.
Emitting ==
  Top = "requestCompleted" =>
    Len(stack) >= 2 /\ stack[2].at = "completedTail"

\* While requestCompleted is emitted, and after that, the last message is the
\* response that was completed.
Over ==
  /\ Completing => /\ wire # <<>>
                   /\ Last.kind = "response" /\ Last.req = Current
                   /\ Last.ended /\ Last.keepAlive = resp.keepAlive
  /\ Top = "receivingHeaders" => wire # <<>>

\* The other responses are complete, and answer requests that left the buffer.
OthersOver ==
  \A m \in 1 .. Len(wire) : IsResponse(m) =>
    \/ wire[m].ended /\ wire[m].req <= bufLo
    \/ m = Len(wire) /\ LastIsOpen

\* No message but the last announces the end of the connection; the last one
\* does when the connection is being closed, and does not when another message
\* may follow.
Persists ==
  /\ \A m \in 1 .. Len(wire) :
       IF wire[m].keepAlive THEN wire[m].length >= 0 \/ wire[m].chunked
                            ELSE m = Len(wire)
  /\ Top = "flushing" \/ state = "Flushing" => wire # <<>> /\ ~Last.keepAlive
  /\ MayWriteNext /\ wire # <<>> => Last.keepAlive

\* The request fields are cleared between two requests, and the parameters, if
\* handlers keep to their own request, are cleared with them.
Params ==
  /\ Receiving \/ Top = "receivingHeaders" => fieldsOf = 0
  /\ ~StaleAnswers => paramsOf \in {0, fieldsOf}

\* If nothing closes the connection under transitionToCompleted(), it has its
\* devices as long as it is in use.
Devices ==
  ~CloseInCompleted /\ ~AbortInFlush =>
    /\ DeviceInUse
    /\ Completing \/ LettingGo => state \notin {"Uninitialized", "Closed"}
    /\ ~crashed

\* If handlers keep to their own request and to contents that may be sent, a
\* writeResponse() that has content left to write is right above the functions
\* that complete nothing, and what it writes belongs to the current response.
Tails ==
  ~BodyOnBodiless /\ ~StaleAnswers =>
    /\ \A i \in 1 .. Len(stack) :
         stack[i].at = "writeResponseTail" /\ stack[i].size > 0 =>
           /\ stack[i].req = fieldsOf
           /\ \/ i = 1
              \/ i = 2 /\ Top = "sendingContentTail"
              \/ i = 2 /\ Top = "sendingContent" /\ ~NoContentDue
    /\ NoForeignContent

\* The inductive invariant of the responses, together with Inductive.
WireInductive ==
  /\ Counts
  /\ UnderWay
  /\ Progress
  /\ Emitting
  /\ Over
  /\ OthersOver
  /\ OneAtATime
  /\ LengthHonoured
  /\ Persists
  /\ Params
  /\ Devices
  /\ Tails
=============================================================================
