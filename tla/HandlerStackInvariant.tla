------------------------- MODULE HandlerStackInvariant -------------------------
(***************************************************************************)
(* Inductive invariants of HandlerStack, from which HandlerStackProofs      *)
(* shows that the log, the pipes and the transfers keep to their requests. *)
(***************************************************************************)
EXTENDS HandlerStack

Units == [of : Nat, at : Nat]

States == {"ReceivingHeaders", "SendingHeaders", "SendingContent", "Completed",
           "Flushing", "Closed"}

Connection ==
  [state : States, now : Nat, length : Int, sent : Nat, keep : BOOLEAN,
   chunked : BOOLEAN, buffered : Nat]

Answer ==
  [status : Nat, length : Int, content : Seq(Units),
   end : {"open", "closed", "completed"}]

\* The connection's frames, and those of calls about a request or a transfer.
ConnFrames ==
  [at : {"dispatch", "handle", "completing", "completed", "tail", "content"},
   of : {0}, content : Seq(Units)]
RequestFrames ==
  [at : {"transfer", "readyRead", "finished", "pump", "ended"},
   of : Requests, content : {<<>>}]
TransferFrames ==
  [at : {"payload", "written"}, of : Transfers, content : {<<>>}]
Frames == ConnFrames \cup RequestFrames \cup TransferFrames

Reply ==
  [made : BOOLEAN, given : Nat, read : Nat, end : {"no", "success", "error"}]

PostedEvents ==
  [kind : {"payload", "delete transfer"}, of : Transfers]
    \cup [kind : {"delete reply"}, of : Requests]

LogLines == [kind : {"completed", "closed"}, of : Nat, status : Nat, length : Int]

\* Every variable has its type.
TypeOK ==
  /\ pipeline \in Pipelines
  /\ arrived \in 0 .. Len(pipeline)
  /\ conn \in Connection
  /\ answers \in [Requests -> Answer]
  /\ frames \in Seq(Frames)
  /\ info \in Nat
  /\ lines \in Seq(LogLines)
  /\ transfers \in Seq(Requests)
  /\ position \in Seq(Nat) /\ Len(position) = Len(transfers)
  /\ doomed \subseteq Transfers /\ deleted \subseteq Transfers
  /\ fileSize \in [Requests -> Int]
  /\ posted \in Seq(PostedEvents)
  /\ replies \in [Requests -> Reply]
  /\ sent \subseteq Requests /\ broken \subseteq Requests
  /\ managers \in Seq(SUBSET Requests)

InService == conn.state \in {"SendingHeaders", "SendingContent"}

\* Calls that others may have to return to.
Waiting == {"tail", "content", "written", "transfer", "pump", "ended"}

\* What runs, runs in the state it was called for, and waits on no such call.
StackShape ==
  /\ \A i \in 2 .. Len(frames) : frames[i].at \in Waiting
  /\ Top("dispatch") => conn.state = "ReceivingHeaders" /\ conn.now < arrived
  /\ Top("handle") => conn.state = "SendingHeaders"
  /\ Top("completing") => conn.state = "SendingContent"
  /\ Top("completed") => conn.state = "Completed"

\* Requests are answered one after the other, and the log's entry follows.
InOrder ==
  /\ conn.now <= arrived
  /\ conn.state \notin {"ReceivingHeaders", "Closed"} => conn.now > 0
  /\ info <= conn.now
  /\ InService => answers[conn.now].end = "open"
  /\ (InService /\ ~Top("handle")) => info = conn.now
  /\ \A r \in Requests : r > conn.now => answers[r].end = "open"

\* A pipe in use is of the request in service, and a proxied one has a pipe.
PipesInOrder ==
  /\ sent \subseteq Pipes /\ broken \subseteq Pipes
  /\ \A r \in Pipes : r <= conn.now /\ (Top("handle") => r < conn.now)
  /\ Top("readyRead") \/ Top("finished") => Who \in Pipes
  /\ \A r \in LivePipes :
       /\ r = conn.now /\ Current.to = "proxy"
       /\ \/ conn.state = "SendingHeaders" /\ r \notin sent
          \/ conn.state = "SendingContent" /\ (r \in sent \/ Top("completing"))
  /\ (InService /\ ~Top("handle") /\ Current.to = "proxy") => conn.now \in LivePipes

Posted(e) == \E i \in DOMAIN posted : posted[i] = e

\* The call that makes a transfer follows the headers it is made for.
TransferCallInPlace ==
  \A i \in DOMAIN frames : frames[i].at = "transfer" =>
    /\ frames[i].of = conn.now /\ conn.state = "SendingContent"
    /\ i = 1 \/ (i = 2 /\ Top("tail"))

\* A transfer serves the response being sent, or is about to be deleted.
TransfersInUse ==
  /\ deleted \subseteq doomed
  /\ \A t \in Transfers \ doomed :
       transfers[t] = conn.now /\ conn.state = "SendingContent"
  /\ \A t \in doomed \ deleted : Posted(Event("delete transfer", t))
  /\ \A i \in DOMAIN posted :
       posted[i].kind = "delete transfer" => posted[i].of \in doomed

\* A reply has a pipe in use, or is about to be deleted.
RepliesInUse ==
  /\ \A r \in LivePipes : \E i \in DOMAIN managers : r \in managers[i]
  /\ \A i \in DOMAIN managers : managers[i] \subseteq Pipes
  /\ \A i \in DOMAIN managers : \A r \in managers[i] \cap broken :
       Posted(Event("delete reply", r))
  /\ \A i \in DOMAIN posted :
       posted[i].kind = "delete reply" => posted[i].of \in broken

\* What nobody uses any more is about to be deleted, and nothing else.
LeavesNothing == TransferCallInPlace /\ TransfersInUse /\ RepliesInUse

(***************************************************************************)
(* What was written.                                                       *)
(***************************************************************************)

\* Content as its target has it, from the first unit on.
Own(r, content) == \A i \in DOMAIN content : content[i] = [of |-> r, at |-> i - 1]

\* A file that is sent by a transfer.
IsLarge(r) ==
  /\ pipeline[r].to = "file" /\ pipeline[r].variant = "plain"
  /\ pipeline[r].size > BufferSize

\* A response that need not have all that its target has.
Exempt(r) ==
  \/ pipeline[r].head
  \/ answers[r].status \in {304, 403, 503}
  \/ answers[r].status = 404 /\ pipeline[r].to = "file"

\* Responses have their own content, as much as the connection has counted, and
\* end when they have all.
ContentInPlace ==
  /\ \A r \in Requests : Own(r, answers[r].content)
  /\ \A r \in Requests : r > conn.now => answers[r].content = <<>>
  /\ conn.state = "SendingHeaders" => answers[conn.now].content = <<>>
  /\ InService => conn.sent = Len(answers[conn.now].content)
  /\ (conn.state = "SendingContent" /\ conn.length >= 0)
       => conn.length = Current.size \/ Exempt(conn.now)
  /\ Top("completing") => Current.head \/ conn.sent = conn.length
  /\ \A r \in Ended("completed") : Exempt(r) \/ Whole(r)

\* The rest of writeResponse() has the content its headers announced, or it is
\* for a HEAD that nothing follows.
ContentCallInPlace ==
  \A i \in DOMAIN frames : frames[i].at = "content" =>
    \/ Current.head /\ conn.now = Len(pipeline)
    \/ /\ i = 1 \/ (i = 2 /\ Top("tail"))
       /\ conn.state = "SendingContent" /\ conn.sent = 0
       /\ ~Current.head /\ Current.to # "proxy" /\ ~IsLarge(conn.now)
       /\ Own(conn.now, frames[i].content)
       /\ Len(frames[i].content) = conn.length

\* A transfer stands where the content of its response ends.
TransfersInPlace ==
  /\ \A r \in Requests : fileSize[r] <= pipeline[r].size
  /\ \A t \in Transfers :
       /\ IsLarge(transfers[t]) /\ transfers[t] <= conn.now
       /\ conn.state = "SendingHeaders" => transfers[t] < conn.now
       /\ \A u \in Transfers : transfers[u] = transfers[t] => u = t
  /\ \A t \in Transfers \ doomed :
       position[t] = conn.sent /\ conn.length = Current.size
  /\ \A t \in doomed : Open => position[t] >= fileSize[transfers[t]]
  /\ \A i \in DOMAIN frames : frames[i].at = "transfer" =>
       /\ IsLarge(conn.now) /\ conn.sent = 0 /\ conn.length = Current.size
       /\ \A t \in Transfers : transfers[t] < conn.now

\* And so does what a pipe has read of its reply.
RepliesInPlace ==
  /\ \A r \in Requests :
       /\ replies[r].read <= replies[r].given
       /\ replies[r].given <= pipeline[r].size
       /\ r \notin Pipes => replies[r].read = 0
  /\ \A r \in LivePipes :
       /\ replies[r].read = Len(answers[r].content)
       /\ (conn.state = "SendingContent" /\ ~Top("completing"))
            => ~Current.head /\ conn.length \in {-1, Current.size}
  /\ \A i \in DOMAIN frames : frames[i].at = "pump" =>
       frames[i].of \in Pipes /\ frames[i].of \in sent \cup broken

Intact ==
  /\ ContentInPlace /\ ContentCallInPlace
  /\ TransfersInPlace /\ RepliesInPlace

\* The handlers' own responses and the log.
Bookkeeping == TypeOK /\ StackShape /\ InOrder

\* Nobody asks by HEAD for a file large enough for a transfer, which would be
\* made after the response's end (the configuration handlers_head).
NoHeadOfFiles ==
  \A p \in Pipelines : \A r \in DOMAIN p :
    (p[r].head /\ p[r].to = "file" /\ p[r].variant = "plain")
      => p[r].size <= BufferSize

\* Other requests by HEAD are for the proxy or come last: writeResponse() would
\* write their content into the next response (the configuration
\* conn_head_body).
NothingBehindHead ==
  \A p \in Pipelines : \A r \in DOMAIN p :
    p[r].head => p[r].to = "proxy" \/ r = Len(p)

\* Files do not grow while they are sent.
FilesOnlyShrink == \A by \in FileChanges : by <= 0
================================================================================
