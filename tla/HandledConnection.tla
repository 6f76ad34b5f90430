--------------------------- MODULE HandledConnection ---------------------------
(***************************************************************************)
(* An HttpConnection as the request handlers use it: requestReady hands    *)
(* them a request, they call writeHeaders(), writeContent(),               *)
(* writeResponse() and close(), and the connection tells them with         *)
(* requestCompleted, closed and, through its output device, bytesWritten.  *)
(* HttpConnection.tla models the connection in full; here reading is       *)
(* reduced to whole requests and a response to units of content.           *)
(*                                                                         *)
(* A call that completes a response dispatches the next pipelined request  *)
(* before it returns, so the calls that still have something to do are     *)
(* kept as a stack of frames.  Each action of this module is one frame's   *)
(* work; the modules of the handlers extend it with theirs.                *)
(***************************************************************************)
EXTENDS Integers, Sequences, FiniteSets

CONSTANT Pipelines \* sequences of requests that a peer may send

VARIABLES
  pipeline, \* the requests this peer sends
  arrived,  \* how many of them have arrived
  conn,     \* the connection: its state, the number of the request it serves,
            \* the response's announced length (-1: unknown) and content sent,
            \* how it ends, and the units the output device has yet to write
  answers,  \* what was written for each request, and how it ended
  frames    \* the calls that go on when those above them return

connVars == <<pipeline, arrived, conn, answers, frames>>

Targets == {"fixed", "function", "file", "proxy"}

\* What a handler can tell of a request, and what its target is like.
Request ==
  [to : Targets, head : BOOLEAN, keep : BOOLEAN, http11 : BOOLEAN,
   size : Nat, variant : STRING]

ASSUME PipelinesAssumption == Pipelines \subseteq Seq(Request)

Frame(at, of) == [at |-> at, of |-> of, content |-> <<>>]
ContentFrame(content) == [at |-> "content", of |-> 0, content |-> content]
Top(at) == frames # <<>> /\ Head(frames).at = at
Who == Head(frames).of
Below == Tail(frames)
EventLoop == frames = <<>>

Current == pipeline[conn.now]
Open == conn.state # "Closed"

Unanswered == [status |-> 0, length |-> -1, content |-> <<>>, end |-> "open"]

ConnInit ==
  /\ pipeline \in Pipelines
  /\ arrived = 0
  /\ conn = [state |-> "ReceivingHeaders", now |-> 0, length |-> -1, sent |-> 0,
             keep |-> TRUE, chunked |-> FALSE, buffered |-> 0]
  /\ answers = [r \in 1 .. Len(pipeline) |-> Unanswered]
  /\ frames = <<>>

(***************************************************************************)
(* What a step emits, for the slots of the handlers.                       *)
(***************************************************************************)

\* requestCompleted
Completes == conn.state # "Completed" /\ conn'.state = "Completed"

\* closed
Closes == Open /\ conn'.state = "Closed"

\* bytesWritten of the output device
Written == conn'.buffered < conn.buffered

(***************************************************************************)
(* The connection's side.                                                  *)
(***************************************************************************)

\* Requests are there; if the connection waits for one, it is dispatched.
RequestArrives ==
  /\ EventLoop /\ Open
  /\ arrived' \in arrived + 1 .. Len(pipeline)
  /\ frames' = IF conn.state = "ReceivingHeaders" THEN <<Frame("dispatch", 0)>>
               ELSE <<>>
  /\ UNCHANGED <<pipeline, conn, answers>>

\* transitionToSendingHeaders(): a new request, nothing known of its response.
Dispatch ==
  /\ Top("dispatch")
  /\ conn' = [conn EXCEPT !.state = "SendingHeaders", !.now = @ + 1,
                !.length = -1, !.sent = 0, !.keep = TRUE, !.chunked = FALSE]
  /\ frames' = <<Frame("handle", 0)>> \o Below
  /\ UNCHANGED <<pipeline, arrived, answers>>

\* transitionToClosed(), of a connection that may have a request.
Shut ==
  /\ conn' = [conn EXCEPT !.state = "Closed"]
  /\ answers' = [r \in DOMAIN answers |->
                   IF r = conn.now /\ answers[r].end = "open"
                   THEN [answers[r] EXCEPT !.end = "closed"]
                   ELSE answers[r]]

\* transitionToCompleted(), up to its signal.
CompleteResponse ==
  /\ Top("completing")
  /\ IF conn.state = "SendingContent"
     THEN /\ conn' = [conn EXCEPT !.state = "Completed"]
          /\ answers' = [answers EXCEPT ![conn.now].end = "completed"]
          /\ frames' = <<Frame("completed", 0)>> \o Below
     ELSE /\ frames' = Below
          /\ UNCHANGED <<conn, answers>>
  /\ UNCHANGED <<pipeline, arrived>>

\* The rest of it, on a connection kept alive: flush() writes some of what is
\* buffered, and a request that has arrived is dispatched at once.
NextRequest ==
  /\ Top("completed") /\ conn.keep
  /\ \E left \in 0 .. conn.buffered :
       conn' = [conn EXCEPT !.state = "ReceivingHeaders", !.buffered = left]
  /\ frames' = (IF arrived > conn.now THEN <<Frame("dispatch", 0)>> ELSE <<>>)
                 \o Below
  /\ UNCHANGED <<pipeline, arrived, answers>>

\* And on one that is not: it closes once everything is written.
FlushAndClose ==
  /\ Top("completed") /\ ~conn.keep
  /\ \E left \in 0 .. conn.buffered :
       conn' = [conn EXCEPT !.buffered = left,
                  !.state = IF left = 0 THEN "Closed" ELSE "Flushing"]
  /\ frames' = Below
  /\ UNCHANGED <<pipeline, arrived, answers>>

\* The end of transitionToSendingContent(), after a completion it may have made.
SendingContentTail ==
  /\ Top("tail")
  /\ conn' = [conn EXCEPT !.keep = @ /\ (conn.length >= 0 \/ conn.chunked)]
  /\ frames' = Below
  /\ UNCHANGED <<pipeline, arrived, answers>>

\* The device writes some of its buffer to the network.
DeviceWrites ==
  /\ EventLoop /\ Open
  /\ \E left \in 0 .. conn.buffered - 1 :
       conn' = [conn EXCEPT !.buffered = left,
                  !.state = IF @ = "Flushing" /\ left = 0 THEN "Closed" ELSE @]
  /\ UNCHANGED <<pipeline, arrived, answers, frames>>

\* The peer disconnects.
PeerCloses ==
  /\ EventLoop /\ Open
  /\ Shut
  /\ UNCHANGED <<pipeline, arrived, frames>>

(***************************************************************************)
(* What handlers call.  "then" are the frames that go on afterwards.       *)
(***************************************************************************)

Ignored(then) == frames' = then /\ UNCHANGED <<conn, answers>>

\* writeHeaders(); the length is what the headers announce or what
\* writeResponse() has set.
WriteHeaders(status, length, chunkedHeader, then) ==
  IF conn.state # "SendingHeaders" THEN Ignored(then)
  ELSE
    LET chunked == chunkedHeader /\ Current.http11 /\ length = -1 IN
    /\ conn' = [conn EXCEPT !.state = "SendingContent", !.length = length,
                  !.chunked = chunked, !.buffered = @ + 1,
                  !.keep = Current.keep /\ (length >= 0 \/ chunked)]
    /\ answers' = [answers EXCEPT ![conn.now].status = status,
                                  ![conn.now].length = length]
    /\ frames' = (IF length = 0 \/ Current.head
                  THEN <<Frame("completing", 0)>> ELSE <<>>)
                   \o <<Frame("tail", 0)>> \o then

\* writeContent() refuses what exceeds an announced length.
ContentFits(content) ==
  conn.length >= 0 => conn.sent + Len(content) <= conn.length

WriteContent(content, then) ==
  IF \/ conn.state # "SendingContent"
     \/ ~ContentFits(content)
     \/ content = <<>>
     \/ Current.head
  THEN Ignored(then)
  ELSE
    /\ conn' = [conn EXCEPT !.sent = @ + Len(content),
                  !.buffered = @ + Len(content)]
    /\ answers' = [answers EXCEPT ![conn.now].content = @ \o content]
    /\ frames' = (IF conn.sent + Len(content) = conn.length
                  THEN <<Frame("completing", 0)>> ELSE <<>>) \o then

\* writeResponse()
WriteResponse(status, content, then) ==
  IF conn.state # "SendingHeaders" THEN Ignored(then)
  ELSE WriteHeaders(status, Len(content), FALSE,
                    (IF content # <<>> THEN <<ContentFrame(content)>>
                     ELSE <<>>) \o then)

\* The rest of writeResponse(): it looks at whatever request is current now.
WriteResponseTail ==
  /\ Top("content")
  /\ WriteContent(Head(frames).content, Below)
  /\ UNCHANGED <<pipeline, arrived>>

ConnNext ==
  \/ RequestArrives \/ Dispatch \/ CompleteResponse \/ NextRequest
  \/ FlushAndClose \/ SendingContentTail \/ WriteResponseTail
  \/ DeviceWrites \/ PeerCloses
================================================================================
