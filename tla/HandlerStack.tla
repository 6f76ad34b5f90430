------------------------------ MODULE HandlerStack ------------------------------
(***************************************************************************)
(* An application of Pillow's handlers, as the README and the examples     *)
(* build them: a stack of a log, a fixed response, a function, a directory *)
(* of files, a proxy and 404, serving one connection.                      *)
(*                                                                         *)
(* It composes HttpHandler and HttpHandlerProxy.  The slots that they      *)
(* connect to the connection's signals run within the step that emits      *)
(* them, the log's first: it was connected by the first request.           *)
(***************************************************************************)
EXTENDS HttpHandler, HttpHandlerProxy

vars == <<connVars, handlerVars, posted, proxyVars>>

Init == ConnInit /\ HandlerInit /\ ProxyInit /\ posted = <<>>

\* The slots of requestCompleted, closed and bytesWritten.
Slots ==
  /\ Log
  /\ PipeSlots
  /\ doomed' = doomed \cup Outlived
  /\ posted' = posted \o PayloadCalls
       \o SetToSeq({Event("delete transfer", t) : t \in Outlived})
       \o SetToSeq({Event("delete reply", r) : r \in TornDown})

ConnectionStep ==
  /\ ConnNext
  /\ UNCHANGED <<info, transfers, position, deleted, fileSize>>
  /\ UNCHANGED <<replies, sent, managers>>
  /\ Slots

HandlerStep ==
  /\ Handle
  /\ UNCHANGED <<replies, sent, managers>>
  /\ Slots

ProxyStep ==
  /\ ProxyNext
  /\ info' = IF Top("handle") THEN Remembered ELSE info
  /\ UNCHANGED <<transfers, position, deleted, fileSize>>
  /\ Slots

ReplyIsDeleted ==
  /\ EventLoop /\ posted # <<>> /\ Head(posted).kind = "delete reply"
  /\ posted' = Tail(posted)
  /\ DeleteReply(Head(posted).of)
  /\ UNCHANGED <<connVars, handlerVars, replies, sent, broken>>

Next ==
  \/ ConnectionStep
  \/ HandlerStep
  \/ HandlerTurn /\ UNCHANGED proxyVars
  \/ ProxyStep
  \/ ReplyIsDeleted

\* The event loop runs what is posted and due, the device writes, the function
\* answers and the other server does end its reply; nobody has to send requests.
Fairness ==
  /\ WF_vars(frames # <<>> /\ Next)
  /\ WF_vars(TransferEvent /\ UNCHANGED proxyVars)
  /\ WF_vars(ReplyIsDeleted)
  /\ WF_vars(ConnectionStep /\ DeviceWrites)
  /\ WF_vars(HandlerStep /\ FunctionAnswers)
  /\ WF_vars(ProxyStep /\ (UpstreamContent \/ UpstreamEnds))

Spec == Init /\ [][Next]_vars /\ Fairness

(***************************************************************************)
(* Properties.                                                             *)
(***************************************************************************)

Requests == 1 .. Len(pipeline)

Ended(how) == {r \in Requests : answers[r].end = how}

\* The log tells of each completed response once, in order, with the request it
\* answered and its own status and length (HttpHandlerLog::requestCompleted; the
\* connection's only entry is overwritten by the next pipelined request).
LoggedOnce ==
  LET told == {i \in DOMAIN lines : lines[i].kind = "completed"} IN
  /\ \A i \in told :
       /\ lines[i].of \in Ended("completed")
       /\ lines[i].status = answers[lines[i].of].status
       /\ lines[i].length = answers[lines[i].of].length
  /\ \A i, j \in told : i < j => lines[i].of < lines[j].of
  /\ \A r \in Ended("completed") : \E i \in told : lines[i].of = r

\* Is what was written for a request all that its target has?
Whole(r) == Len(answers[r].content) = pipeline[r].size

\* A response holds the content of its own request's target only, in order, and
\* one that is completed holds all of it (HttpHandlerFileTransfer and
\* HttpHandlerProxyPipe, which write to whatever response is being sent).
ServedIntact ==
  \A r \in Requests :
    /\ \A i \in DOMAIN answers[r].content :
         answers[r].content[i] = [of |-> r, at |-> i - 1]
    /\ answers[r].end = "completed" =>
         \/ pipeline[r].head
         \/ answers[r].status \in {304, 403, 503}
         \/ answers[r].status = 404 /\ pipeline[r].to = "file"
         \/ Whole(r)

\* A pipe that is not torn down serves the current request and, when no call is
\* pending, the headers it has sent are all that was written; and a proxied
\* request that awaits its answer has one (HttpHandlerProxyPipe::teardown).
PipeHasItsRequest ==
  /\ \A r \in LivePipes :
       /\ conn.now = r
       /\ EventLoop =>
            conn.state = IF r \in sent THEN "SendingContent" ELSE "SendingHeaders"
  /\ (EventLoop /\ conn.state \in {"SendingHeaders", "SendingContent"})
        => (Current.to = "proxy" <=> conn.now \in LivePipes)

\* When the event loop has nothing posted, only the response being sent has a
\* transfer, and only pipes in use have replies (deleteLater() of both).
NothingLeaks ==
  (EventLoop /\ posted = <<>>) =>
    /\ \A t \in LiveTransfers :
         transfers[t] = conn.now /\ conn.state = "SendingContent"
    /\ UNION {managers[i] : i \in DOMAIN managers} = LivePipes

\* What leaves a response without an end: a file that changed under its transfer,
\* and a reply that fails after its headers were passed on.
Abandoned(r) ==
  \/ fileSize[r] # pipeline[r].size
  \/ r \in sent /\ replies[r].end = "error"

\* Every request handed to the handlers gets its response completed or its
\* connection closed (the transfers' pacing by bytesWritten, the pipe's end).
EveryRequestIsAnswered ==
  \A r \in 1 .. 3 :
    (r <= Len(pipeline) /\ conn.now = r)
      ~> (r > Len(pipeline) \/ answers[r].end # "open" \/ Abandoned(r))
================================================================================
