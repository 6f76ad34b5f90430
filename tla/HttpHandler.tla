------------------------------- MODULE HttpHandler -------------------------------
(***************************************************************************)
(* The request handlers of pillowcore/HttpHandler.cpp on one connection: a *)
(* stack that asks a log handler, then the handler the request is for      *)
(* (fixed response, function, files), and 404 when that one declines.      *)
(*                                                                         *)
(* A file larger than the buffer is sent by a transfer object that writes  *)
(* as much as the output device's buffer has room for, once at the start   *)
(* and again after each bytesWritten, in a call queued to the event loop.  *)
(* Nothing ties a transfer to the request it serves: it writes to whatever *)
(* response the connection is sending when it is called, until it is       *)
(* deleted, which is posted to the event loop too.                         *)
(***************************************************************************)
EXTENDS HandledConnection, SequencesExt

CONSTANTS
  BufferSize,        \* HttpHandlerFile's buffer size, in units of content
  MinimumBufferSize, \* a transfer's buffer is not smaller than this
  TraceRequests,     \* does the log also tell of closed connections?
  FileChanges        \* by how much a file may change while it is sent

ASSUME BufferAssumption == BufferSize \in Nat /\ MinimumBufferSize \in Nat

ASSUME FileChangesAssumption == FileChanges \subseteq Int

VARIABLES
  info,      \* the log's entry for the connection: a request, 0 if none
  lines,     \* what was logged
  transfers, \* the request each transfer was made for
  position,  \* how much of its file each has read
  doomed,    \* transfers whose deleteLater() was called
  deleted,   \* those deleted
  fileSize,  \* the size of the file each request is for
  posted     \* events posted to the event loop, in order

handlerVars ==
  <<info, lines, transfers, position, doomed, deleted, fileSize>>

Event(kind, of) == [kind |-> kind, of |-> of]

Transfers == 1 .. Len(transfers)
LiveTransfers == Transfers \ deleted

HandlerInit ==
  /\ info = 0
  /\ lines = <<>>
  /\ transfers = <<>> /\ position = <<>>
  /\ doomed = {} /\ deleted = {}
  /\ fileSize = [r \in 1 .. Len(pipeline) |-> pipeline[r].size]

(***************************************************************************)
(* HttpHandlerLog.                                                         *)
(***************************************************************************)

\* Mutant of Remembered: the log's entry of a connection is made once.
FirstRemembered == IF info = 0 THEN conn.now ELSE info

\* handleRequest() of the log notes the request in the connection's only entry.
Remembered == conn.now

Line(kind) ==
  [kind |-> kind, of |-> info, status |-> answers[conn.now].status,
   length |-> answers[conn.now].length]

\* The log's slots for requestCompleted and closed.
Log ==
  lines' = lines
    \o (IF Completes /\ info # 0 THEN <<Line("completed")>> ELSE <<>>)
    \o (IF Closes /\ info # 0 /\ TraceRequests THEN <<Line("closed")>> ELSE <<>>)

(***************************************************************************)
(* HttpHandlerFileTransfer.                                                *)
(***************************************************************************)

\* The constructor corrects its buffer size, the file handler does not.
TransferBuffer ==
  IF BufferSize < MinimumBufferSize THEN MinimumBufferSize ELSE BufferSize

\* How much a transfer reads and writes when called.
Payload(t) ==
  LET room == TransferBuffer - conn.buffered
      rest == fileSize[transfers[t]] - position[t]
  IN IF room > rest THEN rest ELSE room

Content(r, from, to) == [i \in 1 .. to - from |-> [of |-> r, at |-> from + i - 1]]

\* writeNextPayload(), up to the return of writeContent().
WriteNextPayload ==
  /\ Top("payload")
  /\ IF Open /\ Payload(Who) > 0
     THEN
       /\ position' = [position EXCEPT ![Who] = @ + Payload(Who)]
       /\ WriteContent(
            Content(transfers[Who], position[Who], position[Who] + Payload(Who)),
            <<Frame("written", Who)>> \o Below)
     ELSE Ignored(Below) /\ UNCHANGED position
  /\ UNCHANGED <<pipeline, arrived>>
  /\ UNCHANGED <<info, transfers, deleted, fileSize>>

\* At the file's end, finished() has the transfer deleted later.
PayloadWritten ==
  /\ Top("written")
  /\ frames' = Below
  /\ IF position[Who] >= fileSize[transfers[Who]] /\ Who \notin doomed
     THEN /\ doomed' = doomed \cup {Who}
          /\ posted' = Append(posted, Event("delete transfer", Who))
     ELSE UNCHANGED <<doomed, posted>>
  /\ UNCHANGED <<pipeline, arrived, conn, answers>>
  /\ UNCHANGED <<info, lines, transfers, position, deleted, fileSize>>

\* Mutant of PayloadCalls: the last of what was buffered goes unnoticed.
PayloadCallsWhileBuffered ==
  IF Written /\ conn'.buffered > 0
  THEN SetToSeq({Event("payload", t) : t \in LiveTransfers})
  ELSE <<>>

\* The calls that a step's bytesWritten posts to the transfers.
PayloadCalls ==
  IF Written
  THEN SetToSeq({Event("payload", t) : t \in LiveTransfers})
  ELSE <<>>

\* Mutant of Outlived: a transfer does not mind the end of the connection.
OutlivedByCompleted == IF Completes THEN LiveTransfers \ doomed ELSE {}

\* Those whose deleteLater() is called by requestCompleted or closed.
Outlived == IF Completes \/ Closes THEN LiveTransfers \ doomed ELSE {}

\* The event loop delivers what was posted first.  Calls posted to an object go
\* with it; here they are dropped when it is their turn.
DeliverPayloadCall ==
  /\ EventLoop /\ posted # <<>> /\ Head(posted).kind = "payload"
  /\ posted' = Tail(posted)
  /\ frames' = IF Head(posted).of \in deleted THEN <<>>
               ELSE <<Frame("payload", Head(posted).of)>>
  /\ UNCHANGED <<pipeline, arrived, conn, answers>>
  /\ UNCHANGED handlerVars

DeleteTransfer ==
  /\ EventLoop /\ posted # <<>> /\ Head(posted).kind = "delete transfer"
  /\ deleted' = deleted \cup {Head(posted).of}
  /\ posted' = Tail(posted)
  /\ UNCHANGED connVars
  /\ UNCHANGED <<info, lines, transfers, position, doomed, fileSize>>

\* Somebody writes to a file that is being sent.
FileIsChanged ==
  /\ EventLoop
  /\ \E t \in LiveTransfers \ doomed, by \in FileChanges :
       /\ fileSize[transfers[t]] = pipeline[transfers[t]].size
       /\ fileSize' = [fileSize EXCEPT ![transfers[t]] = @ + by]
  /\ UNCHANGED connVars
  /\ UNCHANGED <<info, lines, transfers, position, doomed, deleted, posted>>

(***************************************************************************)
(* The handlers: each is asked in turn, and handles or declines.           *)
(***************************************************************************)

\* The log notes the request and declines, whoever handles it then.
Handling(target) ==
  /\ Top("handle")
  /\ Current.to = target
  /\ info' = Remembered
  /\ UNCHANGED <<pipeline, arrived>>
  /\ UNCHANGED <<deleted, fileSize>>

\* HttpHandlerFixed
HandleFixed ==
  /\ Handling("fixed")
  /\ WriteResponse(200, Content(conn.now, 0, Current.size), Below)
  /\ UNCHANGED <<transfers, position>>

\* HttpHandlerFunction, whose function keeps the connection to answer later.
HandleFunction ==
  /\ Handling("function")
  /\ frames' = Below
  /\ UNCHANGED <<conn, answers, transfers, position>>

\* HttpHandlerFile, for a file it answers for at once.
SmallFile == Current.variant = "plain" /\ Current.size <= BufferSize

HandleFile ==
  /\ Handling("file")
  /\ \/ SmallFile /\ WriteResponse(200, Content(conn.now, 0, Current.size), Below)
     \/ Current.variant = "unmodified" /\ WriteResponse(304, <<>>, Below)
     \/ /\ Current.variant = "unreadable"
        /\ WriteResponse(403, Content(conn.now, 0, 1), Below)
  /\ UNCHANGED <<transfers, position>>

\* It declines what is missing, outside its directory or not a file; the last
\* handler of the stack, HttpHandler404, does not.
HandleMissing ==
  /\ Handling("file") /\ Current.variant = "missing"
  /\ WriteResponse(404, Content(conn.now, 0, 1), Below)
  /\ UNCHANGED <<transfers, position>>

\* A larger file: the headers now, the content by a transfer.
HandleLargeFile ==
  /\ Handling("file") /\ Current.variant = "plain" /\ ~SmallFile
  /\ WriteHeaders(200, Current.size, FALSE,
                  <<Frame("transfer", conn.now)>> \o Below)
  /\ UNCHANGED <<transfers, position>>

\* The transfer is made when writeHeaders() has returned, whatever it did.
StartTransfer ==
  /\ Top("transfer")
  /\ transfers' = Append(transfers, Who)
  /\ position' = Append(position, 0)
  /\ frames' = <<Frame("payload", Len(transfers) + 1)>> \o Below
  /\ UNCHANGED <<pipeline, arrived, conn, answers, info, deleted, fileSize>>

\* The function's later answer.
FunctionAnswers ==
  /\ EventLoop
  /\ conn.state = "SendingHeaders" /\ Current.to = "function"
  /\ WriteResponse(200, Content(conn.now, 0, Current.size), <<>>)
  /\ UNCHANGED <<pipeline, arrived>>
  /\ UNCHANGED <<info, transfers, position, deleted, fileSize>>

\* The handlers' steps that may make the connection emit its signals.
Handle ==
  \/ HandleFixed \/ HandleFunction \/ HandleFile \/ HandleMissing
  \/ HandleLargeFile \/ StartTransfer \/ WriteNextPayload \/ FunctionAnswers

\* What was posted for a transfer.
TransferEvent == DeliverPayloadCall \/ DeleteTransfer

\* Those that do not.
HandlerTurn == PayloadWritten \/ TransferEvent \/ FileIsChanged
================================================================================
