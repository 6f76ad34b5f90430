---------------------------- MODULE HttpHandlerProxy ----------------------------
(***************************************************************************)
(* HttpHandlerProxy (pillowcore/HttpHandlerProxy.cpp): each request is sent *)
(* on to another server, and a pipe passes the reply to the connection     *)
(* until either side ends.  The pipe must have let go of the connection    *)
(* before the connection serves its next request: teardown() is a slot of  *)
(* everything that may end it, also of what the pipe itself causes.        *)
(*                                                                         *)
(* The reply is Qt's: it announces content with readyRead, ends with       *)
(* finished, and has an error if the network failed or the server's status *)
(* is one (404, 500, ...).  Requests are spread over network access        *)
(* managers with room for a few replies each.                              *)
(***************************************************************************)
EXTENDS HandledConnection

CONSTANT RepliesPerManager \* children an ElasticNetworkAccessManager's child has

ASSUME RepliesAssumption == RepliesPerManager \in Nat \ {0}

VARIABLES
  replies,  \* of each request: is there a reply, the content that it has given
            \* and that the pipe has read, how it ended
  sent,     \* pipes that have sent the headers, _headersSent
  broken,   \* pipes torn down, _broken
  managers  \* the replies of each child manager

proxyVars == <<replies, sent, broken, managers>>

NoReply == [made |-> FALSE, given |-> 0, read |-> 0, end |-> "no"]

Pipes == {r \in DOMAIN replies : replies[r].made}
LivePipes == Pipes \ broken

ProxyInit ==
  /\ replies = [r \in 1 .. Len(pipeline) |-> NoReply]
  /\ sent = {} /\ broken = {}
  /\ managers = <<>>

Upstream(r) == pipeline[r]
Failing(r) == Upstream(r).variant = "not found"

\* createRequest(): the first manager with room, or a new one.
Assigned(r) ==
  LET free == {i \in DOMAIN managers : Cardinality(managers[i]) < RepliesPerManager}
      i == CHOOSE j \in free : \A k \in free : j <= k
  IN IF free = {} THEN Append(managers, {r})
     ELSE [managers EXCEPT ![i] = @ \cup {r}]

\* handleRequest(): a reply, and a pipe from it to the request.
HandleProxied ==
  /\ Top("handle") /\ Current.to = "proxy"
  /\ replies' = [replies EXCEPT ![conn.now].made = TRUE]
  /\ managers' = Assigned(conn.now)
  /\ frames' = Below
  /\ UNCHANGED <<pipeline, arrived, conn, answers, sent>>

\* Mutant of TornDown: the end of a response is not noticed.
TornDownByClosed == IF Closes THEN LivePipes ELSE {}

\* teardown(), called by requestCompleted and closed of a pipe's connection.
TornDown == IF Completes \/ Closes THEN LivePipes ELSE {}

PipeSlots == broken' = broken \cup TornDown

\* The reply of a torn down pipe is deleted later.
DeleteReply(r) ==
  managers' = [i \in DOMAIN managers |-> managers[i] \ {r}]

(***************************************************************************)
(* The reply.                                                              *)
(***************************************************************************)

\* Content arrives: readyRead.
UpstreamContent ==
  /\ EventLoop
  /\ \E r \in LivePipes :
       /\ replies[r].end = "no"
       /\ \E n \in replies[r].given + 1 .. Upstream(r).size :
            replies' = [replies EXCEPT ![r].given = n]
       /\ frames' = <<Frame("readyRead", r)>>
  /\ UNCHANGED <<pipeline, arrived, conn, answers, sent, managers>>

\* The reply ends: when the server has sent all of it, or by an error.
UpstreamEnds ==
  /\ EventLoop
  /\ \E r \in LivePipes, end \in {"success", "error"} :
       /\ replies[r].end = "no"
       /\ end = "success" =>
            ~Failing(r) /\ replies[r].given = Upstream(r).size
       /\ replies' = [replies EXCEPT ![r].end = end]
       /\ frames' = <<Frame("finished", r)>>
  /\ UNCHANGED <<pipeline, arrived, conn, answers, sent, managers>>

(***************************************************************************)
(* The pipe.                                                               *)
(***************************************************************************)

\* The length a reply's headers announce, if any.
Announced(r) == IF Upstream(r).variant = "length" THEN Upstream(r).size ELSE -1

\* sendHeaders(), once.
SendHeaders(r, then) ==
  IF r \in sent \cup broken THEN Ignored(then) /\ UNCHANGED sent
  ELSE
    /\ sent' = sent \cup {r}
    /\ WriteHeaders(IF Failing(r) THEN 404 ELSE 200, Announced(r),
                    Upstream(r).variant = "chunked", then)

\* proxiedReply_readyRead()
ReadyRead ==
  /\ Top("readyRead")
  /\ SendHeaders(Who, <<Frame("pump", Who)>> \o Below)
  /\ UNCHANGED <<pipeline, arrived, replies, managers>>

\* Mutant of Pumps: pumps without looking at what sendHeaders() has caused.
AlwaysPumps(r) == TRUE

\* sendHeaders() may have ended the response and torn the pipe down.
Pumps(r) == r \notin broken

\* pump(readAll())
Pump ==
  /\ Top("pump")
  /\ IF Pumps(Who)
     THEN
       /\ replies' = [replies EXCEPT ![Who].read = replies[Who].given]
       /\ WriteContent(
            [i \in 1 .. replies[Who].given - replies[Who].read |->
              [of |-> Who, at |-> replies[Who].read + i - 1]], Below)
     ELSE Ignored(Below) /\ UNCHANGED replies
  /\ UNCHANGED <<pipeline, arrived, sent, managers>>

\* proxiedReply_finished() without an error sends the headers if nothing has.
FinishedWell ==
  /\ Top("finished") /\ replies[Who].end = "success"
  /\ SendHeaders(Who, <<Frame("ended", Who)>> \o Below)
  /\ UNCHANGED <<pipeline, arrived, replies, managers>>

\* Only the end of the connection tells the client that the content ends?
EndIsDue(r) == r \notin broken /\ conn.state = "SendingContent"

\* Then it is closed.
EndContent ==
  /\ Top("ended")
  /\ frames' = Below
  /\ IF EndIsDue(Who) THEN Shut ELSE UNCHANGED <<conn, answers>>
  /\ UNCHANGED <<pipeline, arrived, replies, sent, managers>>

\* And with an error: 503 if nothing was sent, and otherwise nothing.
FinishedBadly ==
  /\ Top("finished") /\ replies[Who].end = "error"
  /\ IF Who \notin broken THEN WriteResponse(503, <<>>, Below)
     ELSE Ignored(Below)
  /\ UNCHANGED <<pipeline, arrived, replies, sent, managers>>

ProxyNext ==
  \/ HandleProxied \/ UpstreamContent \/ UpstreamEnds
  \/ ReadyRead \/ Pump \/ FinishedWell \/ EndContent \/ FinishedBadly
================================================================================
