-------------------------- MODULE HandlerStackProofs --------------------------
(***************************************************************************)
(* Proofs about HandlerStack, for any pipelines, buffers and upstreams.    *)
(***************************************************************************)
EXTENDS HandlerStackInvariant, FiniteSetTheorems, SequenceTheorems,
        WellFoundedInduction, TLAPS

(***************************************************************************)
(* Sequences.                                                              *)
(***************************************************************************)

\* One element in front of a sequence.
LEMMA Pushed ==
  ASSUME NEW S, NEW s \in Seq(S), NEW f \in S
  PROVE  /\ <<f>> \o s \in Seq(S) /\ <<f>> \o s # <<>>
         /\ Len(<<f>> \o s) = Len(s) + 1 /\ Len(s) \in Nat
         /\ Head(<<f>> \o s) = f
         /\ (<<f>> \o s)[1] = f
         /\ \A i \in 2 .. Len(s) + 1 : (<<f>> \o s)[i] = s[i - 1] /\ i - 1 \in 1 .. Len(s)
         /\ Tail(<<f>> \o s) = s
  OBVIOUS

\* A sequence but for its first element.
LEMMA Popped ==
  ASSUME NEW S, NEW s \in Seq(S), s # <<>>
  PROVE  /\ Tail(s) \in Seq(S) /\ Head(s) \in S /\ Head(s) = s[1]
         /\ Len(s) \in Nat \ {0} /\ Len(Tail(s)) = Len(s) - 1
         /\ \A i \in 1 .. Len(s) - 1 : Tail(s)[i] = s[i + 1]
  OBVIOUS

\* Nothing in front of a sequence.
LEMMA NothingPushed ==
  ASSUME NEW S, NEW s \in Seq(S)
  PROVE  <<>> \o s = s /\ s \o <<>> = s
  OBVIOUS

\* One element behind a sequence.
LEMMA Added ==
  ASSUME NEW S, NEW s \in Seq(S), NEW f \in S
  PROVE  /\ Append(s, f) \in Seq(S) /\ Len(Append(s, f)) = Len(s) + 1
         /\ Len(s) \in Nat
         /\ \A i \in 1 .. Len(s) : Append(s, f)[i] = s[i]
         /\ Append(s, f)[Len(s) + 1] = f
         /\ s \o <<f>> = Append(s, f)
  OBVIOUS

\* A sequence with one element changed.
LEMMA Changed ==
  ASSUME NEW S, NEW s \in Seq(S), NEW i \in 1 .. Len(s), NEW e \in S
  PROVE  /\ [s EXCEPT ![i] = e] \in Seq(S) /\ Len([s EXCEPT ![i] = e]) = Len(s)
         /\ \A j \in 1 .. Len(s) :
              [s EXCEPT ![i] = e][j] = IF j = i THEN e ELSE s[j]
  OBVIOUS

\* One sequence after another.
LEMMA Joined ==
  ASSUME NEW S, NEW s \in Seq(S), NEW t \in Seq(S)
  PROVE  /\ s \o t \in Seq(S) /\ Len(s \o t) = Len(s) + Len(t)
         /\ Len(s) \in Nat /\ Len(t) \in Nat
         /\ \A i \in 1 .. Len(s) : (s \o t)[i] = s[i]
         /\ \A i \in 1 .. Len(t) : (s \o t)[Len(s) + i] = t[i]
  OBVIOUS

\* The elements of a set, each once: SetToSeq chooses an injection, which takes
\* every element.
LEMMA AllInSequence ==
  ASSUME NEW S, IsFiniteSet(S)
  PROVE  /\ SetToSeq(S) \in Seq(S)
         /\ \A x \in S : \E i \in DOMAIN SetToSeq(S) : SetToSeq(S)[i] = x
<1> DEFINE n == Cardinality(S)
           f == SetToSeq(S)
<1>1. n \in Nat /\ ExistsBijection(1 .. n, S)
  BY FS_CardinalityType
<1>2. \E g \in [1 .. n -> S] : IsInjective(g)
  BY <1>1 DEF ExistsBijection, Bijection, Injection
<1>3. f \in [1 .. n -> S] /\ IsInjective(f)
  BY <1>2 DEF SetToSeq
<1>4. f \in Injection(1 .. n, S)
  BY <1>3 DEF Injection
<1>5. IsFiniteSet(1 .. n) /\ Cardinality(1 .. n) = n
  <2>1. 1 \in Int /\ n \in Int
    BY <1>1
  <2>2. QED
    BY <1>1, <2>1, FS_Interval
<1>6. f \in Surjection(1 .. n, S)
  BY <1>4, <1>5, FS_Injection
<1>7. \A x \in S : \E i \in 1 .. n : f[i] = x
  BY <1>6 DEF Surjection
<1>8. f \in Seq(S) /\ DOMAIN f = 1 .. n
  BY <1>1, <1>3
<1>9. QED
  BY <1>7, <1>8

(***************************************************************************)
(* Types.                                                                  *)
(***************************************************************************)

\* The calls that are made.
LEMMA Calls ==
  /\ Frame("dispatch", 0) \in Frames
  /\ Frame("handle", 0) \in Frames
  /\ Frame("completing", 0) \in Frames
  /\ Frame("completed", 0) \in Frames
  /\ Frame("tail", 0) \in Frames
  /\ \A content \in Seq(Units) : ContentFrame(content) \in Frames
  /\ \A r \in Requests :
       /\ Frame("transfer", r) \in Frames /\ Frame("readyRead", r) \in Frames
       /\ Frame("finished", r) \in Frames /\ Frame("pump", r) \in Frames
       /\ Frame("ended", r) \in Frames
  /\ \A t \in Transfers : Frame("payload", t) \in Frames /\ Frame("written", t) \in Frames
BY DEF Frame, ContentFrame, Frames, ConnFrames, RequestFrames, TransferFrames

\* What a call is about.
LEMMA CallTypes ==
  ASSUME NEW f \in Frames
  PROVE  /\ f.at \in {"transfer", "readyRead", "finished", "pump", "ended"} => f.of \in Requests
         /\ f.at \in {"payload", "written"} => f.of \in Transfers
         /\ f.content \in Seq(Units)
<1>1. <<>> \in Seq(Units)
  OBVIOUS
<1>2. QED
  BY <1>1 DEF Frames, ConnFrames, RequestFrames, TransferFrames

\* The pipeline and the request in service.
LEMMA Served ==
  ASSUME TypeOK
  PROVE  /\ pipeline \in Seq(Request) /\ Len(pipeline) \in Nat
         /\ \A r \in Requests : pipeline[r] \in Request
         /\ conn.now \in Nat /\ arrived \in Nat
         /\ InOrder /\ conn.now > 0 => conn.now \in Requests /\ Current \in Request
<1>1. pipeline \in Seq(Request)
  BY PipelinesAssumption DEF TypeOK
<1>2. /\ Len(pipeline) \in Nat /\ \A r \in Requests : pipeline[r] \in Request
  BY <1>1 DEF Requests
<1>3. conn.now \in Nat /\ arrived \in 0 .. Len(pipeline)
  BY DEF TypeOK, Connection
<1>4. InOrder /\ conn.now > 0 => conn.now \in Requests
  BY <1>2, <1>3 DEF InOrder, Requests
<1>5. QED
  BY <1>1, <1>2, <1>3, <1>4 DEF Current

ConnTyped ==
  conn \in Connection /\ answers \in [Requests -> Answer] /\ frames \in Seq(Frames)

\* A list of calls with one or two more in front.
LEMMA CallsTyped ==
  ASSUME NEW s \in Seq(Frames), NEW f \in Frames, NEW g \in Frames
  PROVE  /\ <<f>> \o s \in Seq(Frames) /\ <<>> \o s \in Seq(Frames)
         /\ (<<f>> \o <<g>>) \o s \in Seq(Frames)
         /\ (<<>> \o <<g>>) \o s \in Seq(Frames)
         /\ <<f>> \o (<<g>> \o s) \in Seq(Frames)
         /\ <<>> \o (<<g>> \o s) \in Seq(Frames)
  OBVIOUS

\* writeHeaders() keeps the types.
LEMMA WriteHeadersTyped ==
  ASSUME TypeOK, InOrder, NEW status \in Nat, NEW length \in Int,
         NEW chunkedHeader \in BOOLEAN, NEW then \in Seq(Frames),
         WriteHeaders(status, length, chunkedHeader, then), pipeline' = pipeline,
         transfers' = transfers
  PROVE  ConnTyped'
<1>1. Requests' = Requests /\ Transfers' = Transfers
  BY DEF Requests, Transfers
<1>2. Frames' = Frames
  BY <1>1 DEF Frames, ConnFrames, RequestFrames, TransferFrames
<1>3. CASE conn.state # "SendingHeaders"
  BY <1>1, <1>2, <1>3 DEF WriteHeaders, Ignored, ConnTyped, TypeOK
<1>4. CASE conn.state = "SendingHeaders"
  <2>1. conn.now \in Requests /\ Current \in Request
    BY <1>4, Served DEF InOrder
  <2> DEFINE chunked == chunkedHeader /\ Current.http11 /\ length = -1
  <2>2. chunked \in BOOLEAN /\ Current.keep \in BOOLEAN /\ Current.head \in BOOLEAN
    BY <2>1 DEF Request
  <2>3. conn' = [conn EXCEPT !.state = "SendingContent", !.length = length,
                  !.chunked = chunked, !.buffered = @ + 1,
                  !.keep = Current.keep /\ (length >= 0 \/ chunked)]
    BY <1>4 DEF WriteHeaders
  <2>4. conn' \in Connection
    <3>1. conn \in Connection
      BY DEF TypeOK
    <3> DEFINE keep == Current.keep /\ (length >= 0 \/ chunked)
               more == conn.buffered + 1
    <3>2. keep \in BOOLEAN /\ more \in Nat
      BY <3>1 DEF Connection
    <3>3. conn' = [conn EXCEPT !.state = "SendingContent", !.length = length,
                    !.chunked = chunked, !.buffered = more, !.keep = keep]
      BY <2>3
    <3> HIDE DEF chunked, keep, more
    <3>4. QED
      BY <2>2, <3>1, <3>2, <3>3 DEF Connection, States
  <2>5. answers' = [answers EXCEPT ![conn.now].status = status,
                                  ![conn.now].length = length]
    BY <1>4 DEF WriteHeaders
  <2>6. answers' \in [Requests -> Answer]
    <3> DEFINE a == [answers[conn.now] EXCEPT !.status = status, !.length = length]
    <3>1. answers \in [Requests -> Answer]
      BY DEF TypeOK
    <3>2. answers[conn.now] \in Answer
      BY <2>1, <3>1
    <3>3. a \in Answer
      BY <3>2 DEF Answer
    <3>4. answers' = [answers EXCEPT ![conn.now] = a]
      BY <2>1, <2>5, <3>1
    <3> HIDE DEF a
    <3>5. QED
      BY <2>1, <3>1, <3>3, <3>4
  <2>7. frames' = (IF length = 0 \/ Current.head
                  THEN <<Frame("completing", 0)>> ELSE <<>>)
                   \o <<Frame("tail", 0)>> \o then
    BY <1>4 DEF WriteHeaders
  <2>8. frames' \in Seq(Frames)
    BY <2>7, Calls, CallsTyped
  <2>9. QED
    BY <1>1, <1>2, <2>4, <2>6, <2>8 DEF ConnTyped
<1>5. QED
  BY <1>3, <1>4

\* writeContent() keeps the types.
LEMMA WriteContentTyped ==
  ASSUME TypeOK, InOrder, NEW content \in Seq(Units), NEW then \in Seq(Frames),
         WriteContent(content, then), pipeline' = pipeline, transfers' = transfers
  PROVE  ConnTyped'
<1>1. Requests' = Requests /\ Transfers' = Transfers
  BY DEF Requests, Transfers
<1>2. Frames' = Frames
  BY <1>1 DEF Frames, ConnFrames, RequestFrames, TransferFrames
<1> DEFINE refused == \/ conn.state # "SendingContent"
                      \/ ~ContentFits(content)
                      \/ content = <<>>
                      \/ Current.head
<1>3. CASE refused
  BY <1>1, <1>2, <1>3 DEF WriteContent, Ignored, ConnTyped, TypeOK
<1>4. CASE ~refused
  <2>1. conn.now \in Requests /\ Len(content) \in Nat
    BY <1>4, Served DEF InOrder
  <2>2. conn' = [conn EXCEPT !.sent = @ + Len(content),
                  !.buffered = @ + Len(content)]
    BY <1>4 DEF WriteContent
  <2>3. conn' \in Connection
    <3>1. conn \in Connection
      BY DEF TypeOK
    <3> DEFINE all == conn.sent + Len(content)
               more == conn.buffered + Len(content)
    <3>2. all \in Nat /\ more \in Nat
      <4>1. conn.sent \in Nat /\ conn.buffered \in Nat
        BY <3>1 DEF Connection
      <4>2. QED
        BY <2>1, <4>1
    <3>3. conn' = [conn EXCEPT !.sent = all, !.buffered = more]
      BY <2>2
    <3> HIDE DEF all, more
    <3>4. QED
      BY <3>1, <3>2, <3>3 DEF Connection
  <2>4. answers' = [answers EXCEPT ![conn.now].content = @ \o content]
    BY <1>4 DEF WriteContent
  <2>5. answers[conn.now] \in Answer
    BY <2>1 DEF TypeOK
  <2>6. answers[conn.now].content \o content \in Seq(Units)
    BY <2>5 DEF Answer
  <2>7. answers' \in [Requests -> Answer]
    BY <2>1, <2>4, <2>6 DEF TypeOK, Answer
  <2>8. frames' = (IF conn.sent + Len(content) = conn.length
                   THEN <<Frame("completing", 0)>> ELSE <<>>) \o then
    BY <1>4 DEF WriteContent
  <2>9. frames' \in Seq(Frames)
    BY <2>8, Calls, CallsTyped
  <2>10. QED
    BY <1>1, <1>2, <2>3, <2>7, <2>9 DEF ConnTyped
<1>5. QED
  BY <1>3, <1>4

\* writeResponse() keeps the types.
LEMMA WriteResponseTyped ==
  ASSUME TypeOK, InOrder, NEW status \in Nat, NEW content \in Seq(Units),
         NEW then \in Seq(Frames), WriteResponse(status, content, then),
         pipeline' = pipeline, transfers' = transfers
  PROVE  ConnTyped'
<1>1. CASE conn.state # "SendingHeaders"
  <2>1. WriteHeaders(status, 0, FALSE, then)
    BY <1>1 DEF WriteResponse, WriteHeaders
  <2>2. 0 \in Int /\ FALSE \in BOOLEAN
    OBVIOUS
  <2>3. QED
    BY <2>1, <2>2, WriteHeadersTyped
<1>2. CASE conn.state = "SendingHeaders"
  <2> DEFINE s == (IF content # <<>> THEN <<ContentFrame(content)>> ELSE <<>>) \o then
  <2>1. s \in Seq(Frames) /\ Len(content) \in Int /\ FALSE \in BOOLEAN
    BY Calls, CallsTyped
  <2>2. WriteHeaders(status, Len(content), FALSE, s)
    BY <1>2 DEF WriteResponse
  <2>3. QED
    BY <2>1, <2>2, WriteHeadersTyped
<1>3. QED
  BY <1>1, <1>2

\* Frames do not depend on anything else.
LEMMA SameFrames ==
  ASSUME pipeline' = pipeline, transfers' = transfers
  PROVE  /\ Requests' = Requests /\ Transfers' = Transfers /\ Frames' = Frames
<1>1. Requests' = Requests /\ Transfers' = Transfers
  BY DEF Requests, Transfers
<1>2. QED
  BY <1>1 DEF Frames, ConnFrames, RequestFrames, TransferFrames

\* The call that runs, and those below it.
LEMMA Running ==
  ASSUME TypeOK, frames # <<>>
  PROVE  /\ Head(frames) \in Frames /\ Below \in Seq(Frames)
         /\ Top("transfer") \/ Top("readyRead") \/ Top("finished") \/ Top("pump")
              \/ Top("ended") => Who \in Requests
         /\ Top("payload") \/ Top("written") => Who \in Transfers
         /\ Head(frames).content \in Seq(Units)
<1>1. frames \in Seq(Frames)
  BY DEF TypeOK
<1>2. Head(frames) \in Frames /\ Tail(frames) \in Seq(Frames)
  BY <1>1, Popped
<1>3. QED
  BY <1>2, CallTypes DEF Top, Who, Below

\* The end of a connection keeps the types.
LEMMA ShutTyped ==
  ASSUME TypeOK, Shut
  PROVE  conn' \in Connection /\ answers' \in [Requests -> Answer]
<1>1. conn \in Connection /\ answers \in [Requests -> Answer]
  BY DEF TypeOK
<1>2. conn' \in Connection
  BY <1>1 DEF Shut, Connection, States
<1>3. \A r \in Requests : [answers[r] EXCEPT !.end = "closed"] \in Answer
  BY <1>1 DEF Answer
<1>4. QED
  BY <1>1, <1>2, <1>3 DEF Shut

\* The connection's side keeps the types.
LEMMA ConnNextTyped ==
  ASSUME TypeOK, InOrder, ConnNext, transfers' = transfers
  PROVE  ConnTyped' /\ pipeline' = pipeline /\ arrived' \in 0 .. Len(pipeline)
<1>1. /\ conn \in Connection /\ answers \in [Requests -> Answer]
      /\ frames \in Seq(Frames) /\ arrived \in 0 .. Len(pipeline)
  BY DEF TypeOK
<1>2. conn.now \in Nat /\ Len(pipeline) \in Nat /\ conn.buffered \in Nat
  BY <1>1, Served DEF Connection
<1>3. <<>> \in Seq(Frames) /\ \A f \in Frames : <<f>> \in Seq(Frames)
  OBVIOUS
<1>4. pipeline' = pipeline
  BY DEF ConnNext, RequestArrives, Dispatch, CompleteResponse, NextRequest,
         FlushAndClose, SendingContentTail, WriteResponseTail, DeviceWrites, PeerCloses
<1>5. Requests' = Requests /\ Frames' = Frames
  BY <1>4, SameFrames
<1>6. ASSUME conn' \in Connection, answers' \in [Requests -> Answer],
             frames' \in Seq(Frames)
      PROVE  ConnTyped'
  BY <1>5, <1>6 DEF ConnTyped
<1>7. CASE RequestArrives
  <2>1. arrived' \in arrived + 1 .. Len(pipeline)
    BY <1>7 DEF RequestArrives
  <2>2. arrived' \in 0 .. Len(pipeline)
    BY <1>1, <1>2, <2>1
  <2>3. conn' = conn /\ answers' = answers /\ frames' \in {<<Frame("dispatch", 0)>>, <<>>}
    BY <1>7 DEF RequestArrives
  <2>4. QED
    BY <1>1, <1>3, <1>4, <1>6, <2>2, <2>3, Calls
<1>8. CASE ~RequestArrives
  <2>1. arrived' = arrived
    BY <1>8 DEF ConnNext, RequestArrives, Dispatch, CompleteResponse, NextRequest,
         FlushAndClose, SendingContentTail, WriteResponseTail, DeviceWrites, PeerCloses
  <2>2. frames # <<>> => Below \in Seq(Frames)
    BY Running
  <2>3. CASE Dispatch
    <3>1. conn.now + 1 \in Nat
      BY <1>2
    <3>2. conn' \in Connection
      <4> DEFINE next == conn.now + 1
      <4>1. conn' = [conn EXCEPT !.state = "SendingHeaders", !.now = next,
                      !.length = -1, !.sent = 0, !.keep = TRUE, !.chunked = FALSE]
        BY <2>3 DEF Dispatch
      <4>2. -1 \in Int /\ 0 \in Nat /\ next \in Nat
        BY <3>1
      <4> HIDE DEF next
      <4>3. QED
        BY <1>1, <4>1, <4>2 DEF Connection, States
    <3>3. frames' = <<Frame("handle", 0)>> \o Below /\ answers' = answers /\ frames # <<>>
      BY <2>3 DEF Dispatch, Top
    <3>4. frames' \in Seq(Frames)
      BY <2>2, <3>3, Calls, Pushed
    <3>5. QED
      BY <1>1, <1>4, <1>6, <2>1, <3>2, <3>3, <3>4
  <2>4. CASE CompleteResponse
    <3>1. frames # <<>>
      BY <2>4 DEF CompleteResponse, Top
    <3>2. frames' = <<Frame("completed", 0)>> \o Below \/ frames' = Below
      BY <2>4 DEF CompleteResponse
    <3>3. frames' \in Seq(Frames)
      <4>1. Below \in Seq(Frames) /\ Frame("completed", 0) \in Frames
        BY <2>2, <3>1, Calls
      <4>2. QED
        BY <3>2, <4>1, CallsTyped
    <3>4. conn' = conn \/ conn' = [conn EXCEPT !.state = "Completed"]
      BY <2>4 DEF CompleteResponse
    <3>5. conn' \in Connection
      BY <1>1, <3>4 DEF Connection, States
    <3>6. answers' = answers \/ answers' = [answers EXCEPT ![conn.now].end = "completed"]
      BY <2>4 DEF CompleteResponse
    <3>7. answers' \in [Requests -> Answer]
      <4> DEFINE a == [answers[conn.now] EXCEPT !.end = "completed"]
      <4>1. CASE conn.now \notin Requests
        BY <1>1, <3>6, <4>1
      <4>2. CASE conn.now \in Requests
        <5>1. a \in Answer
          BY <1>1, <4>2 DEF Answer
        <5>2. answers' = answers \/ answers' = [answers EXCEPT ![conn.now] = a]
          BY <3>6
        <5> HIDE DEF a
        <5>3. QED
          BY <1>1, <4>2, <5>1, <5>2
      <4>3. QED
        BY <4>1, <4>2
    <3>8. QED
      BY <1>1, <1>4, <1>6, <2>1, <3>3, <3>5, <3>7
  <2>5. CASE NextRequest
    <3>1. frames # <<>> /\ answers' = answers
      BY <2>5 DEF NextRequest, Top
    <3>2. PICK left \in 0 .. conn.buffered :
            conn' = [conn EXCEPT !.state = "ReceivingHeaders", !.buffered = left]
      BY <2>5 DEF NextRequest
    <3>3. left \in Nat
      BY <1>2
    <3>4. conn' \in Connection
      BY <1>1, <3>2, <3>3 DEF Connection, States
    <3>5. \/ frames' = <<Frame("dispatch", 0)>> \o Below
          \/ frames' = <<>> \o Below
      BY <2>5 DEF NextRequest
    <3>6. frames' \in Seq(Frames)
      <4>1. Below \in Seq(Frames) /\ Frame("dispatch", 0) \in Frames
        BY <2>2, <3>1, Calls
      <4>2. QED
        BY <3>5, <4>1, CallsTyped
    <3>7. QED
      BY <1>1, <1>4, <1>6, <2>1, <3>1, <3>4, <3>6
  <2>6. CASE FlushAndClose
    <3>1. frames # <<>> /\ answers' = answers /\ frames' = Below
      BY <2>6 DEF FlushAndClose, Top
    <3>2. PICK left \in 0 .. conn.buffered :
            conn' = [conn EXCEPT !.buffered = left,
                  !.state = IF left = 0 THEN "Closed" ELSE "Flushing"]
      BY <2>6 DEF FlushAndClose
    <3>3. left \in Nat
      BY <1>2
    <3>4. conn' \in Connection
      BY <1>1, <3>2, <3>3 DEF Connection, States
    <3>5. QED
      BY <1>1, <1>4, <1>6, <2>1, <2>2, <3>1, <3>4
  <2>7. CASE SendingContentTail
    <3>1. frames # <<>> /\ answers' = answers /\ frames' = Below
      BY <2>7 DEF SendingContentTail, Top
    <3> DEFINE keep == conn.keep /\ (conn.length >= 0 \/ conn.chunked)
    <3>2. conn' = [conn EXCEPT !.keep = keep] /\ keep \in BOOLEAN
      BY <2>7, <1>1 DEF SendingContentTail, Connection
    <3> HIDE DEF keep
    <3>3. conn' \in Connection
      BY <1>1, <3>2 DEF Connection, States
    <3>4. QED
      BY <1>1, <1>4, <1>6, <2>1, <2>2, <3>1, <3>3
  <2>8. CASE WriteResponseTail
    <3>1. frames # <<>> /\ WriteContent(Head(frames).content, Below)
      BY <2>8 DEF WriteResponseTail, Top
    <3>2. Head(frames).content \in Seq(Units)
      BY <3>1, Running
    <3>3. ConnTyped'
      BY <1>4, <2>2, <3>1, <3>2, WriteContentTyped
    <3>4. QED
      BY <1>1, <1>4, <2>1, <3>3
  <2>9. CASE DeviceWrites
    <3>1. answers' = answers /\ frames' = frames
      BY <2>9 DEF DeviceWrites
    <3>2. PICK left \in 0 .. conn.buffered - 1 :
            conn' = [conn EXCEPT !.buffered = left,
                  !.state = IF @ = "Flushing" /\ left = 0 THEN "Closed" ELSE @]
      BY <2>9 DEF DeviceWrites
    <3>3. left \in Nat
      BY <1>2
    <3>4. conn' \in Connection
      BY <1>1, <3>2, <3>3 DEF Connection, States
    <3>5. QED
      BY <1>1, <1>4, <1>6, <2>1, <3>1, <3>4
  <2>10. CASE PeerCloses
    <3>1. Shut /\ frames' = frames
      BY <2>10 DEF PeerCloses
    <3>2. QED
      BY <1>1, <1>4, <1>6, <2>1, <3>1, ShutTyped
  <2>11. QED
    BY <1>8, <2>3, <2>4, <2>5, <2>6, <2>7, <2>8, <2>9, <2>10 DEF ConnNext
<1>9. QED
  BY <1>7, <1>8

\* A piece of what a request is for.
LEMMA ContentTyped ==
  ASSUME NEW r \in Nat, NEW from \in Nat, NEW to \in Int
  PROVE  Content(r, from, to) \in Seq(Units)
<1>1. CASE to - from \in Nat
  <2>1. \A i \in 1 .. to - from : from + i - 1 \in Nat
    BY <1>1
  <2>2. \A i \in 1 .. to - from : [of |-> r, at |-> from + i - 1] \in Units
    BY <2>1 DEF Units
  <2>3. QED
    BY <1>1, <2>2 DEF Content
<1>2. CASE to - from \notin Nat
  <2>1. 1 .. to - from = {}
    BY <1>2
  <2>2. Content(r, from, to) = <<>>
    BY <2>1 DEF Content
  <2>3. QED
    BY <2>2
<1>3. QED
  BY <1>1, <1>2

\* What a transfer reads.
LEMMA PayloadTyped ==
  ASSUME TypeOK, Top("payload")
  PROVE  /\ Who \in Transfers /\ transfers[Who] \in Requests
         /\ position[Who] \in Nat /\ Payload(Who) \in Int
         /\ Payload(Who) > 0 =>
              /\ position[Who] + Payload(Who) \in Nat
              /\ Content(transfers[Who], position[Who], position[Who] + Payload(Who)) \in Seq(Units)
<1>1. Who \in Transfers
  BY Running DEF Top
<1>2. /\ transfers \in Seq(Requests) /\ position \in Seq(Nat)
      /\ Len(position) = Len(transfers) /\ conn \in Connection
      /\ fileSize \in [Requests -> Int]
  BY DEF TypeOK
<1>3. transfers[Who] \in Requests /\ position[Who] \in Nat
  BY <1>1, <1>2 DEF Transfers
<1>4. Payload(Who) \in Int
  <2>1. fileSize[transfers[Who]] \in Int /\ conn.buffered \in Nat
    BY <1>2, <1>3 DEF Connection
  <2>2. TransferBuffer \in Int
    BY BufferAssumption DEF TransferBuffer
  <2>3. QED
    BY <1>3, <2>1, <2>2 DEF Payload
<1>5. ASSUME Payload(Who) > 0
      PROVE  /\ position[Who] + Payload(Who) \in Nat
             /\ Content(transfers[Who], position[Who], position[Who] + Payload(Who)) \in Seq(Units)
  <2>1. position[Who] + Payload(Who) \in Nat
    BY <1>3, <1>4, <1>5
  <2>2. transfers[Who] \in Nat /\ position[Who] + Payload(Who) \in Int
    BY <1>3, <2>1 DEF Requests
  <2>3. QED
    BY <1>3, <2>1, <2>2, ContentTyped
<1>6. QED
  BY <1>1, <1>3, <1>4, <1>5

TransfersTyped ==
  /\ transfers \in Seq(Requests) /\ position \in Seq(Nat)
  /\ Len(position) = Len(transfers)

\* The handlers' steps keep the types.
LEMMA HandleTyped ==
  ASSUME TypeOK, InOrder, StackShape, Handle
  PROVE  /\ ConnTyped' /\ TransfersTyped' /\ Transfers \subseteq Transfers'
         /\ pipeline' = pipeline /\ arrived' = arrived
<1>1. /\ conn \in Connection /\ answers \in [Requests -> Answer]
      /\ frames \in Seq(Frames)
      /\ TransfersTyped
  BY DEF TypeOK, TransfersTyped
<1>2. pipeline' = pipeline /\ arrived' = arrived
  BY DEF Handle, HandleFixed, HandleFunction, HandleFile, HandleMissing,
         HandleLargeFile, StartTransfer, WriteNextPayload, FunctionAnswers, Handling
<1>3. conn.now \in Nat /\ Requests' = Requests
  BY <1>2, Served DEF Requests
<1>4. ASSUME InService
      PROVE  /\ Current.size \in Nat /\ conn.now \in Requests
             /\ Content(conn.now, 0, Current.size) \in Seq(Units)
             /\ Content(conn.now, 0, 1) \in Seq(Units)
  <2>1. Current \in Request /\ conn.now \in Requests
    BY <1>4, Served DEF InService, InOrder
  <2>2. Current.size \in Nat
    BY <2>1 DEF Request
  <2>3. 0 \in Nat /\ 1 \in Int /\ Current.size \in Int
    BY <2>2
  <2>4. /\ Content(conn.now, 0, Current.size) \in Seq(Units)
        /\ Content(conn.now, 0, 1) \in Seq(Units)
    BY <1>3, <2>3, ContentTyped
  <2>5. QED
    BY <2>1, <2>2, <2>4
<1>5. Top("handle") => InService /\ Below \in Seq(Frames)
  BY Running DEF StackShape, InService, Top
<1>6. <<>> \in Seq(Frames) /\ <<>> \in Seq(Units)
      /\ 200 \in Nat /\ 304 \in Nat /\ 403 \in Nat /\ 404 \in Nat /\ FALSE \in BOOLEAN
  OBVIOUS
<1>7. ASSUME transfers' = transfers, position' = position
      PROVE  TransfersTyped' /\ Transfers \subseteq Transfers'
  BY <1>1, <1>3, <1>7 DEF TransfersTyped, Transfers
<1>8. CASE HandleFixed
  <2>1. Top("handle") /\ transfers' = transfers /\ position' = position
    BY <1>8 DEF HandleFixed, Handling
  <2>2. WriteResponse(200, Content(conn.now, 0, Current.size), Below)
    BY <1>8 DEF HandleFixed
  <2>3. ConnTyped'
    BY <1>2, <1>4, <1>5, <1>6, <2>1, <2>2, WriteResponseTyped
  <2>4. QED
    BY <1>2, <1>7, <2>1, <2>3
<1>9. CASE HandleFunction
  <2>1. Top("handle") /\ transfers' = transfers /\ position' = position
    BY <1>9 DEF HandleFunction, Handling
  <2>2. conn' = conn /\ answers' = answers /\ frames' = Below
    BY <1>9 DEF HandleFunction
  <2>3. Frames' = Frames
    BY <1>2, <2>1, SameFrames
  <2>4. ConnTyped'
    BY <1>1, <1>3, <1>5, <2>1, <2>2, <2>3 DEF ConnTyped
  <2>5. QED
    BY <1>2, <1>7, <2>1, <2>4
<1>10. CASE HandleFile
  <2>1. Top("handle") /\ transfers' = transfers /\ position' = position
    BY <1>10 DEF HandleFile, Handling
  <2>2. \/ WriteResponse(200, Content(conn.now, 0, Current.size), Below)
        \/ WriteResponse(304, <<>>, Below)
        \/ WriteResponse(403, Content(conn.now, 0, 1), Below)
    BY <1>10 DEF HandleFile
  <2> DEFINE all == Content(conn.now, 0, Current.size)
             one == Content(conn.now, 0, 1)
             none == <<>>
  <2>3. ConnTyped'
    <3>1. /\ all \in Seq(Units) /\ one \in Seq(Units) /\ none \in Seq(Units)
          /\ Below \in Seq(Frames)
      BY <1>4, <1>5, <1>6, <2>1
    <3>2. WriteResponse(200, all, Below) \/ WriteResponse(304, none, Below)
          \/ WriteResponse(403, one, Below)
      BY <2>2
    <3> HIDE DEF all, one, none
    <3>3. ASSUME NEW status \in Nat, NEW content \in Seq(Units),
                 WriteResponse(status, content, Below)
          PROVE  ConnTyped'
      BY <1>2, <2>1, <3>1, <3>3, WriteResponseTyped
    <3>4. QED
      BY <1>6, <3>1, <3>2, <3>3
  <2>4. QED
    BY <1>2, <1>7, <2>1, <2>3
<1>11. CASE HandleMissing
  <2>1. Top("handle") /\ transfers' = transfers /\ position' = position
    BY <1>11 DEF HandleMissing, Handling
  <2>2. WriteResponse(404, Content(conn.now, 0, 1), Below)
    BY <1>11 DEF HandleMissing
  <2>3. ConnTyped'
    BY <1>2, <1>4, <1>5, <1>6, <2>1, <2>2, WriteResponseTyped
  <2>4. QED
    BY <1>2, <1>7, <2>1, <2>3
<1>12. CASE HandleLargeFile
  <2>1. Top("handle") /\ transfers' = transfers /\ position' = position
    BY <1>12 DEF HandleLargeFile, Handling
  <2> DEFINE s == <<Frame("transfer", conn.now)>> \o Below
  <2>2. WriteHeaders(200, Current.size, FALSE, s)
    BY <1>12 DEF HandleLargeFile
  <2>3. Frame("transfer", conn.now) \in Frames
    BY <1>4, <1>5, <2>1, Calls
  <2>4. s \in Seq(Frames) /\ Current.size \in Int
    BY <1>4, <1>5, <2>1, <2>3, CallsTyped
  <2>5. ConnTyped'
    BY <1>2, <1>6, <2>1, <2>2, <2>4, WriteHeadersTyped
  <2>6. QED
    BY <1>2, <1>7, <2>1, <2>5
<1>13. CASE StartTransfer
  <2>1. frames # <<>> /\ Top("transfer")
    BY <1>13 DEF StartTransfer, Top
  <2>2. Who \in Requests /\ Below \in Seq(Frames)
    BY <2>1, Running
  <2>3. /\ transfers' = Append(transfers, Who) /\ position' = Append(position, 0)
        /\ conn' = conn /\ answers' = answers
        /\ frames' = <<Frame("payload", Len(transfers) + 1)>> \o Below
    BY <1>13 DEF StartTransfer
  <2>4. /\ transfers' \in Seq(Requests) /\ Len(transfers') = Len(transfers) + 1
        /\ Len(transfers) \in Nat
    BY <1>1, <2>2, <2>3, Added DEF TransfersTyped
  <2>5. position' \in Seq(Nat) /\ Len(position') = Len(position) + 1
    <3>1. 0 \in Nat
      OBVIOUS
    <3>2. QED
      BY <1>1, <2>3, <3>1, Added DEF TransfersTyped
  <2>6. /\ TransfersTyped' /\ Transfers \subseteq Transfers'
        /\ Len(transfers) + 1 \in Transfers'
    BY <1>1, <1>3, <2>4, <2>5 DEF TransfersTyped, Transfers
  <2>7. Frames \subseteq Frames'
    BY <1>3, <2>6 DEF Frames, ConnFrames, RequestFrames, TransferFrames
  <2>8. Below \in Seq(Frames')
    BY <2>2, <2>7, SeqMonotonic
  <2>9. Frame("payload", Len(transfers) + 1) \in Frames'
    BY <2>6 DEF Frames, TransferFrames, Frame
  <2>10. frames' \in Seq(Frames')
    BY <2>3, <2>8, <2>9, Pushed
  <2>11. QED
    BY <1>1, <1>2, <1>3, <2>3, <2>6, <2>10 DEF ConnTyped
<1>14. CASE WriteNextPayload
  <2>1. frames # <<>> /\ Top("payload") /\ transfers' = transfers
    BY <1>14 DEF WriteNextPayload, Top
  <2>2. Who \in Transfers /\ Below \in Seq(Frames)
    BY <2>1, Running
  <2>3. CASE Open /\ Payload(Who) > 0
    <3>1. /\ position' = [position EXCEPT ![Who] = @ + Payload(Who)]
          /\ WriteContent(
               Content(transfers[Who], position[Who], position[Who] + Payload(Who)),
               <<Frame("written", Who)>> \o Below)
      BY <1>14, <2>3 DEF WriteNextPayload
    <3>4. position[Who] + Payload(Who) \in Nat
      BY <2>1, <2>3, PayloadTyped
    <3>5. Content(transfers[Who], position[Who], position[Who] + Payload(Who)) \in Seq(Units)
      BY <2>1, <2>3, PayloadTyped
    <3>6. <<Frame("written", Who)>> \o Below \in Seq(Frames)
      <4>1. Frame("written", Who) \in Frames
        BY <2>2, Calls
      <4>2. QED
        BY <2>2, <4>1, CallsTyped
    <3>7. ConnTyped'
      BY <1>2, <2>1, <3>1, <3>5, <3>6, WriteContentTyped
    <3>8. position' \in Seq(Nat) /\ Len(position') = Len(position)
      <4> DEFINE n == position[Who] + Payload(Who)
      <4>1. position' = [position EXCEPT ![Who] = n] /\ n \in Nat
        BY <3>1, <3>4
      <4> HIDE DEF n
      <4>2. position \in Seq(Nat) /\ Who \in 1 .. Len(position)
        BY <1>1, <2>2 DEF TransfersTyped, Transfers
      <4>3. QED
        BY <4>1, <4>2
    <3>9. QED
      BY <1>1, <1>2, <1>3, <2>1, <3>7, <3>8 DEF TransfersTyped, Transfers
  <2>4. CASE ~(Open /\ Payload(Who) > 0)
    <3>1. frames' = Below /\ conn' = conn /\ answers' = answers /\ position' = position
      BY <1>14, <2>4 DEF WriteNextPayload, Ignored
    <3>2. Frames' = Frames
      BY <1>2, <2>1, SameFrames
    <3>3. ConnTyped'
      BY <1>1, <1>3, <2>2, <3>1, <3>2 DEF ConnTyped
    <3>4. QED
      BY <1>2, <1>7, <2>1, <3>1, <3>3
  <2>5. QED
    BY <2>3, <2>4
<1>15. CASE FunctionAnswers
  <2>1. InService /\ transfers' = transfers /\ position' = position
    BY <1>15 DEF FunctionAnswers, InService
  <2>2. WriteResponse(200, Content(conn.now, 0, Current.size), <<>>)
    BY <1>15 DEF FunctionAnswers
  <2>3. ConnTyped'
    BY <1>2, <1>4, <1>6, <2>1, <2>2, WriteResponseTyped
  <2>4. QED
    BY <1>2, <1>7, <2>1, <2>3
<1>16. QED
  BY <1>8, <1>9, <1>10, <1>11, <1>12, <1>13, <1>14, <1>15 DEF Handle

ProxyTyped ==
  /\ replies \in [Requests -> Reply]
  /\ sent \subseteq Requests
  /\ managers \in Seq(SUBSET Requests)

\* Another manager, or another reply of one.
LEMMA AssignedTyped ==
  ASSUME managers \in Seq(SUBSET Requests), NEW r \in Requests
  PROVE  Assigned(r) \in Seq(SUBSET Requests)
<1> DEFINE free == {i \in DOMAIN managers : Cardinality(managers[i]) < RepliesPerManager}
           i == CHOOSE j \in free : \A k \in free : j <= k
<1>1. Append(managers, {r}) \in Seq(SUBSET Requests)
  OBVIOUS
<1>2. [managers EXCEPT ![i] = @ \cup {r}] \in Seq(SUBSET Requests)
  <2> HIDE DEF i
  <2> DEFINE n == Len(managers)
             one == managers[i] \cup {r}
  <2>1. n \in Nat /\ DOMAIN managers = 1 .. n /\ managers \in [1 .. n -> SUBSET Requests]
    OBVIOUS
  <2>2. CASE i \in DOMAIN managers
    <3>1. one \in SUBSET Requests
      BY <2>1, <2>2
    <3>2. [managers EXCEPT ![i] = one] \in Seq(SUBSET Requests)
      <4> HIDE DEF one
      <4>1. i \in 1 .. Len(managers)
        BY <2>1, <2>2
      <4>2. QED
        BY <3>1, <4>1, Changed
    <3>3. QED
      BY <3>2
  <2>3. CASE i \notin DOMAIN managers
    <3>1. [managers EXCEPT ![i] = one] = managers
      BY <2>1, <2>3
    <3>2. QED
      BY <3>1
  <2>4. QED
    BY <2>2, <2>3
<1>3. QED
  BY <1>1, <1>2 DEF Assigned

\* sendHeaders() keeps the types.
LEMMA SendHeadersTyped ==
  ASSUME TypeOK, InOrder, NEW r \in Requests, NEW then \in Seq(Frames),
         SendHeaders(r, then), pipeline' = pipeline, transfers' = transfers
  PROVE  ConnTyped' /\ sent' \subseteq Requests
<1>1. CASE r \in sent \cup broken
  <2>1. frames' = then /\ conn' = conn /\ answers' = answers /\ sent' = sent
    BY <1>1 DEF SendHeaders, Ignored
  <2>2. Requests' = Requests /\ Frames' = Frames
    BY SameFrames
  <2>3. /\ conn \in Connection /\ answers \in [Requests -> Answer] /\ sent \subseteq Requests
    BY DEF TypeOK
  <2>4. QED
    BY <2>1, <2>2, <2>3 DEF ConnTyped
<1>2. CASE r \notin sent \cup broken
  <2>1. sent' = sent \cup {r}
    BY <1>2 DEF SendHeaders
  <2>2. WriteHeaders(IF Failing(r) THEN 404 ELSE 200, Announced(r),
                    Upstream(r).variant = "chunked", then)
    BY <1>2 DEF SendHeaders
  <2>3. (IF Failing(r) THEN 404 ELSE 200) \in Nat
    OBVIOUS
  <2>4. Announced(r) \in Int
    <3>1. pipeline[r] \in Request
      BY Served
    <3>2. pipeline[r].size \in Int
      BY <3>1 DEF Request
    <3>3. QED
      BY <3>2 DEF Announced, Upstream
  <2>5. (Upstream(r).variant = "chunked") \in BOOLEAN
    OBVIOUS
  <2> DEFINE status == IF Failing(r) THEN 404 ELSE 200
             length == Announced(r)
             chunked == Upstream(r).variant = "chunked"
  <2> HIDE DEF status, length, chunked
  <2>6. ConnTyped'
    <3>1. status \in Nat /\ length \in Int /\ chunked \in BOOLEAN
      BY <2>3, <2>4, <2>5 DEF status, length, chunked
    <3>2. WriteHeaders(status, length, chunked, then)
      BY <2>2 DEF status, length, chunked
    <3>3. QED
      BY <3>1, <3>2, WriteHeadersTyped
  <2>7. QED
    BY <2>1, <2>6 DEF TypeOK
<1>3. QED
  BY <1>1, <1>2

\* The proxy's steps keep the types.
LEMMA ProxyTypedStep ==
  ASSUME TypeOK, InOrder, StackShape, ProxyNext, transfers' = transfers
  PROVE  /\ ConnTyped' /\ ProxyTyped'
         /\ pipeline' = pipeline /\ arrived' = arrived
<1>1. /\ conn \in Connection /\ answers \in [Requests -> Answer]
      /\ frames \in Seq(Frames) /\ ProxyTyped
  BY DEF TypeOK, ProxyTyped
<1>2. pipeline' = pipeline /\ arrived' = arrived
  BY DEF ProxyNext, HandleProxied, UpstreamContent, UpstreamEnds, ReadyRead, Pump,
         FinishedWell, EndContent, FinishedBadly
<1>3. Requests' = Requests /\ Frames' = Frames
  BY <1>2, SameFrames
<1>4. ASSUME conn' \in Connection, answers' \in [Requests -> Answer],
             frames' \in Seq(Frames)
      PROVE  ConnTyped'
  BY <1>3, <1>4 DEF ConnTyped
<1>5. ASSUME replies' \in [Requests -> Reply], sent' \subseteq Requests,
             managers' \in Seq(SUBSET Requests)
      PROVE  ProxyTyped'
  BY <1>3, <1>5 DEF ProxyTyped
<1>6. ASSUME frames # <<>>
      PROVE  Below \in Seq(Frames)
  BY <1>6, Running
<1>7. ASSUME NEW r \in Requests
      PROVE  /\ replies[r] \in Reply /\ replies[r].given \in Nat
             /\ replies[r].read \in Nat /\ pipeline[r].size \in Nat
  <2>1. pipeline[r] \in Request
    BY Served
  <2>2. QED
    BY <1>1, <2>1 DEF ProxyTyped, Reply, Request
<1>8. CASE HandleProxied
  <2>1. /\ Top("handle") /\ conn' = conn /\ answers' = answers /\ frames' = Below
        /\ replies' = [replies EXCEPT ![conn.now].made = TRUE]
        /\ managers' = Assigned(conn.now) /\ sent' = sent
    BY <1>8 DEF HandleProxied
  <2>2. conn.now \in Requests
    BY <2>1, Served DEF StackShape, InOrder
  <2>3. replies' \in [Requests -> Reply]
    BY <1>1, <2>1 DEF ProxyTyped, Reply
  <2>4. managers' \in Seq(SUBSET Requests)
    BY <1>1, <2>1, <2>2, AssignedTyped DEF ProxyTyped
  <2>5. frames' \in Seq(Frames)
    BY <1>6, <2>1 DEF Top
  <2>6. QED
    BY <1>1, <1>2, <1>4, <1>5, <2>1, <2>3, <2>4, <2>5 DEF ProxyTyped
<1>9. CASE UpstreamContent
  <2>1. PICK r \in LivePipes :
          /\ \E n \in replies[r].given + 1 .. Upstream(r).size :
               replies' = [replies EXCEPT ![r].given = n]
          /\ frames' = <<Frame("readyRead", r)>>
    BY <1>9 DEF UpstreamContent
  <2>2. r \in Requests
    BY <1>1 DEF LivePipes, Pipes, ProxyTyped
  <2>3. PICK n \in replies[r].given + 1 .. pipeline[r].size :
          replies' = [replies EXCEPT ![r].given = n]
    BY <2>1 DEF Upstream
  <2>4. n \in Nat
    BY <1>7, <2>2
  <2>5. replies' \in [Requests -> Reply]
    BY <1>1, <2>3, <2>4 DEF ProxyTyped, Reply
  <2>6. frames' \in Seq(Frames)
    <3>1. Frame("readyRead", r) \in Frames
      BY <2>2, Calls
    <3>2. QED
      BY <2>1, <3>1
  <2>7. conn' = conn /\ answers' = answers /\ sent' = sent /\ managers' = managers
    BY <1>9 DEF UpstreamContent
  <2>8. QED
    BY <1>1, <1>2, <1>4, <1>5, <2>5, <2>6, <2>7 DEF ProxyTyped
<1>10. CASE UpstreamEnds
  <2>1. PICK r \in LivePipes, end \in {"success", "error"} :
          /\ replies' = [replies EXCEPT ![r].end = end]
          /\ frames' = <<Frame("finished", r)>>
    BY <1>10 DEF UpstreamEnds
  <2>2. r \in Requests
    BY <1>1 DEF LivePipes, Pipes, ProxyTyped
  <2>3. replies' \in [Requests -> Reply]
    BY <1>1, <2>1 DEF ProxyTyped, Reply
  <2>4. frames' \in Seq(Frames)
    <3>1. Frame("finished", r) \in Frames
      BY <2>2, Calls
    <3>2. QED
      BY <2>1, <3>1
  <2>5. conn' = conn /\ answers' = answers /\ sent' = sent /\ managers' = managers
    BY <1>10 DEF UpstreamEnds
  <2>6. QED
    BY <1>1, <1>2, <1>4, <1>5, <2>3, <2>4, <2>5 DEF ProxyTyped
<1>11. ASSUME Top("readyRead") \/ Top("finished") \/ Top("pump") \/ Top("ended")
       PROVE  /\ Who \in Requests /\ Below \in Seq(Frames)
              /\ \A at \in {"pump", "ended"} : <<Frame(at, Who)>> \o Below \in Seq(Frames)
  <2>1. Who \in Requests /\ Below \in Seq(Frames)
    BY <1>11, Running DEF Top
  <2>2. Frame("pump", Who) \in Frames /\ Frame("ended", Who) \in Frames
    BY <2>1, Calls
  <2>3. \A at \in {"pump", "ended"} : <<Frame(at, Who)>> \o Below \in Seq(Frames)
    BY <2>1, <2>2, CallsTyped
  <2>4. QED
    BY <2>1, <2>3
<1>12. CASE ReadyRead \/ FinishedWell
  <2>1. /\ Top("readyRead") \/ Top("finished")
        /\ replies' = replies /\ managers' = managers
        /\ \E at \in {"pump", "ended"} : SendHeaders(Who, <<Frame(at, Who)>> \o Below)
    BY <1>12 DEF ReadyRead, FinishedWell
  <2>2. PICK at \in {"pump", "ended"} : SendHeaders(Who, <<Frame(at, Who)>> \o Below)
    BY <2>1
  <2>3. ConnTyped' /\ sent' \subseteq Requests
    <3> DEFINE s == <<Frame(at, Who)>> \o Below
    <3>1. s \in Seq(Frames) /\ Who \in Requests /\ SendHeaders(Who, s)
      BY <1>11, <2>1, <2>2
    <3> HIDE DEF s
    <3>2. QED
      BY <1>2, <3>1, SendHeadersTyped
  <2>4. QED
    BY <1>1, <1>2, <1>5, <2>1, <2>3 DEF ProxyTyped
<1>13. CASE Pump
  <2>1. /\ Top("pump") /\ sent' = sent /\ managers' = managers
    BY <1>13 DEF Pump
  <2>2. CASE Pumps(Who)
    <3> DEFINE given == replies[Who].given
               read == replies[Who].read
               content == [i \in 1 .. given - read |-> [of |-> Who, at |-> read + i - 1]]
    <3>1. replies' = [replies EXCEPT ![Who].read = given] /\ WriteContent(content, Below)
      BY <1>13, <2>2 DEF Pump
    <3>2. given \in Nat /\ read \in Nat /\ Who \in Nat
      BY <1>7, <1>11, <2>1 DEF Requests
    <3>3. content = Content(Who, read, given)
      BY DEF Content
    <3>4. given \in Int
      BY <3>2
    <3> HIDE DEF given, read, content
    <3>5. content \in Seq(Units)
      BY <3>2, <3>3, <3>4, ContentTyped
    <3>6. ConnTyped'
      BY <1>2, <1>11, <2>1, <3>1, <3>5, WriteContentTyped
    <3>7. replies' \in [Requests -> Reply]
      BY <1>1, <3>1, <3>2 DEF ProxyTyped, Reply
    <3>8. QED
      BY <1>1, <1>2, <1>5, <2>1, <3>6, <3>7 DEF ProxyTyped
  <2>3. CASE ~Pumps(Who)
    <3>1. frames' = Below /\ conn' = conn /\ answers' = answers /\ replies' = replies
      BY <1>13, <2>3 DEF Pump, Ignored
    <3>2. QED
      BY <1>1, <1>2, <1>4, <1>5, <1>11, <2>1, <3>1 DEF ProxyTyped
  <2>4. QED
    BY <2>2, <2>3
<1>14. CASE EndContent
  <2>1. /\ Top("ended") /\ frames' = Below
        /\ replies' = replies /\ sent' = sent /\ managers' = managers
        /\ Shut \/ (conn' = conn /\ answers' = answers)
    BY <1>14 DEF EndContent
  <2>2. conn' \in Connection /\ answers' \in [Requests -> Answer]
    BY <1>1, <2>1, ShutTyped
  <2>3. QED
    BY <1>1, <1>2, <1>4, <1>5, <1>11, <2>1, <2>2 DEF ProxyTyped
<1>15. CASE FinishedBadly
  <2>1. /\ Top("finished")
        /\ replies' = replies /\ sent' = sent /\ managers' = managers
        /\ \/ WriteResponse(503, <<>>, Below)
           \/ frames' = Below /\ conn' = conn /\ answers' = answers
    BY <1>15 DEF FinishedBadly, Ignored
  <2>2. 503 \in Nat /\ <<>> \in Seq(Units) /\ Below \in Seq(Frames)
    BY <1>11, <2>1
  <2>3. ConnTyped'
    <3>1. CASE WriteResponse(503, <<>>, Below)
      BY <1>2, <2>2, <3>1, WriteResponseTyped
    <3>2. CASE frames' = Below /\ conn' = conn /\ answers' = answers
      BY <1>1, <1>4, <2>2, <3>2
    <3>3. QED
      BY <2>1, <3>1, <3>2
  <2>4. QED
    BY <1>1, <1>2, <1>5, <2>1, <2>3 DEF ProxyTyped
<1>16. QED
  BY <1>8, <1>9, <1>10, <1>12, <1>13, <1>14, <1>15 DEF ProxyNext

(***************************************************************************)
(* The slots.                                                              *)
(***************************************************************************)

\* The events of finitely many objects, in a sequence.
LEMMA EventsInSequence ==
  ASSUME NEW kind, NEW S, IsFiniteSet(S)
  PROVE  LET E == {Event(kind, x) : x \in S} IN
         /\ SetToSeq(E) \in Seq(E)
         /\ \A x \in S : \E i \in DOMAIN SetToSeq(E) : SetToSeq(E)[i] = Event(kind, x)
<1> DEFINE E == {Event(kind, x) : x \in S}
           f == [x \in S |-> Event(kind, x)]
<1>1. f \in Surjection(S, E)
  BY DEF Surjection
<1>2. IsFiniteSet(E)
  BY <1>1, FS_Surjection
<1> HIDE DEF E
<1>3. /\ SetToSeq(E) \in Seq(E)
      /\ \A e \in E : \E i \in DOMAIN SetToSeq(E) : SetToSeq(E)[i] = e
  BY <1>2, AllInSequence
<1>4. \A x \in S : Event(kind, x) \in E
  BY DEF E
<1>5. QED
  BY <1>3, <1>4 DEF E

\* Three sequences behind another, as one that has their elements.
JoinedAs(p, a, b, c, more) ==
  /\ p \o a \o b \o c = p \o more
  /\ \A i \in DOMAIN a : \E j \in DOMAIN more : more[j] = a[i]
  /\ \A i \in DOMAIN b : \E j \in DOMAIN more : more[j] = b[i]
  /\ \A i \in DOMAIN c : \E j \in DOMAIN more : more[j] = c[i]
  /\ \A j \in DOMAIN more : \/ \E i \in DOMAIN a : more[j] = a[i]
                            \/ \E i \in DOMAIN b : more[j] = b[i]
                            \/ \E i \in DOMAIN c : more[j] = c[i]

\* Three sequences, one after the other.
LEMMA ThreeJoined ==
  ASSUME NEW S, NEW p \in Seq(S), NEW a \in Seq(S), NEW b \in Seq(S), NEW c \in Seq(S)
  PROVE  \E more \in Seq(S) : JoinedAs(p, a, b, c, more)
<1> DEFINE bc == b \o c
           more == a \o bc
<1>1. bc \in Seq(S) /\ more \in Seq(S)
  BY Joined
<1>2. p \o a \o b \o c = p \o more
  <2>1. (p \o a) \o b = p \o (a \o b)
    BY ConcatAssociative, SMTT(40)
  <2> DEFINE ab == a \o b
  <2>2. (p \o ab) \o c = p \o (ab \o c)
    <3>1. ab \in Seq(S)
      BY Joined
    <3> HIDE DEF ab
    <3>2. QED
      BY <3>1, ConcatAssociative, SMTT(40)
  <2>3. (a \o b) \o c = more
    BY ConcatAssociative, SMTT(40)
  <2>4. QED
    BY <2>1, <2>2, <2>3
<1>3. /\ Len(bc) = Len(b) + Len(c) /\ Len(b) \in Nat /\ Len(c) \in Nat /\ Len(a) \in Nat
      /\ \A i \in 1 .. Len(b) : bc[i] = b[i]
      /\ \A i \in 1 .. Len(c) : bc[Len(b) + i] = c[i]
  BY Joined
<1>4. /\ DOMAIN a = 1 .. Len(a) /\ DOMAIN b = 1 .. Len(b) /\ DOMAIN c = 1 .. Len(c)
      /\ DOMAIN bc = 1 .. Len(bc) /\ DOMAIN more = 1 .. Len(more)
  BY <1>1
<1> HIDE DEF bc
<1>5. /\ Len(more) = Len(a) + Len(bc)
      /\ \A i \in 1 .. Len(a) : more[i] = a[i]
      /\ \A i \in 1 .. Len(bc) : more[Len(a) + i] = bc[i]
  BY <1>1, Joined
<1> HIDE DEF more
<1>6. \A i \in DOMAIN a : i \in DOMAIN more /\ more[i] = a[i]
  BY <1>3, <1>4, <1>5
<1>7. ASSUME NEW i \in DOMAIN bc
      PROVE  Len(a) + i \in DOMAIN more /\ more[Len(a) + i] = bc[i]
  BY <1>3, <1>4, <1>5
<1>8. ASSUME NEW i \in DOMAIN b
      PROVE  \E j \in DOMAIN more : more[j] = b[i]
  <2>1. i \in DOMAIN bc /\ bc[i] = b[i]
    BY <1>3, <1>4
  <2>2. QED
    BY <1>7, <2>1
<1>9. ASSUME NEW i \in DOMAIN c
      PROVE  \E j \in DOMAIN more : more[j] = c[i]
  <2>1. Len(b) + i \in DOMAIN bc /\ bc[Len(b) + i] = c[i]
    BY <1>3, <1>4
  <2>2. QED
    BY <1>7, <2>1
<1>10. ASSUME NEW j \in DOMAIN more
       PROVE  \/ \E i \in DOMAIN a : more[j] = a[i]
              \/ \E i \in DOMAIN b : more[j] = b[i]
              \/ \E i \in DOMAIN c : more[j] = c[i]
  <2>1. CASE j <= Len(a)
    <3>1. j \in DOMAIN a
      BY <1>3, <1>4, <1>5, <2>1
    <3>2. QED
      BY <1>6, <3>1
  <2>2. CASE j > Len(a) /\ j - Len(a) <= Len(b)
    <3>1. /\ j - Len(a) \in DOMAIN b /\ j - Len(a) \in DOMAIN bc
          /\ Len(a) + (j - Len(a)) = j
      <4>1. /\ DOMAIN b = 1 .. Len(b) /\ DOMAIN bc = 1 .. Len(b) + Len(c)
            /\ j \in 1 .. Len(a) + Len(bc)
            /\ Len(a) \in Nat /\ Len(b) \in Nat /\ Len(c) \in Nat
        BY <1>3, <1>4, <1>5
      <4>2. QED
        BY <2>2, <4>1
    <3>2. more[j] = bc[j - Len(a)] /\ bc[j - Len(a)] = b[j - Len(a)]
      BY <1>3, <1>4, <1>7, <3>1
    <3>3. QED
      BY <3>1, <3>2
  <2>3. CASE j - Len(a) > Len(b)
    <3> DEFINE k == j - Len(a) - Len(b)
    <3>1. /\ k \in DOMAIN c /\ j - Len(a) \in DOMAIN bc
          /\ Len(a) + (j - Len(a)) = j /\ Len(b) + k = j - Len(a)
      <4>1. /\ DOMAIN c = 1 .. Len(c) /\ DOMAIN bc = 1 .. Len(b) + Len(c)
            /\ Len(bc) = Len(b) + Len(c) /\ j \in 1 .. Len(a) + Len(bc)
            /\ Len(a) \in Nat /\ Len(b) \in Nat /\ Len(c) \in Nat
        BY <1>3, <1>4, <1>5
      <4> HIDE DEF bc, more
      <4>2. QED
        BY <2>3, <4>1
    <3>2. more[j] = bc[j - Len(a)] /\ bc[j - Len(a)] = c[k]
      BY <1>3, <1>4, <1>7, <3>1
    <3>3. QED
      BY <3>1, <3>2
  <2>4. j \in Int /\ Len(a) \in Int /\ Len(b) \in Int
    BY <1>3, <1>4
  <2>5. QED
    BY <2>1, <2>2, <2>3, <2>4
<1>11. JoinedAs(p, a, b, c, more)
  BY <1>2, <1>6, <1>8, <1>9, <1>10 DEF JoinedAs
<1>12. QED
  BY <1>1, <1>11

\* The log's line has its type.
LEMMA LineTyped ==
  ASSUME TypeOK, InOrder, info # 0, NEW kind \in {"completed", "closed"}
  PROVE  Line(kind) \in LogLines
<1>1. info \in Nat /\ conn.now \in Nat /\ info <= conn.now
  BY Served DEF TypeOK, InOrder
<1>2. conn.now > 0
  BY <1>1
<1>3. answers[conn.now] \in Answer
  BY <1>2, Served DEF TypeOK
<1>4. QED
  BY <1>1, <1>3 DEF Line, LogLines, Answer

\* The log's slots add lines.
LEMMA LogTyped ==
  ASSUME TypeOK, InOrder, Log
  PROVE  lines' \in Seq(LogLines)
<1> DEFINE a == IF Completes /\ info # 0 THEN <<Line("completed")>> ELSE <<>>
           b == IF Closes /\ info # 0 /\ TraceRequests THEN <<Line("closed")>> ELSE <<>>
<1>1. a \in Seq(LogLines)
  <2>1. info # 0 => Line("completed") \in LogLines
    BY LineTyped
  <2>2. QED
    BY <2>1
<1>2. b \in Seq(LogLines)
  <2>1. info # 0 => Line("closed") \in LogLines
    BY LineTyped
  <2>2. QED
    BY <2>1
<1>3. lines' = lines \o a \o b /\ lines \in Seq(LogLines)
  BY DEF Log, TypeOK
<1> HIDE DEF a, b
<1>4. QED
  BY <1>1, <1>2, <1>3

\* What the slots post.
Posts(more) ==
  /\ more \in Seq(PostedEvents)
  /\ posted' = posted \o more
  /\ \A t \in Outlived : \E j \in DOMAIN more : more[j] = Event("delete transfer", t)
  /\ \A r \in TornDown : \E j \in DOMAIN more : more[j] = Event("delete reply", r)
  /\ \A j \in DOMAIN more :
       /\ more[j].kind = "delete transfer" => more[j].of \in Outlived
       /\ more[j].kind = "delete reply" => more[j].of \in TornDown

\* What the slots post is typed.
LEMMA SlotsPost ==
  ASSUME TypeOK, Slots
  PROVE  \E more : Posts(more)
<1> DEFINE A == {Event("payload", t) : t \in LiveTransfers}
           B == {Event("delete transfer", t) : t \in Outlived}
           C == {Event("delete reply", r) : r \in TornDown}
           a == PayloadCalls
           b == SetToSeq(B)
           c == SetToSeq(C)
<1>1. LiveTransfers \subseteq Transfers /\ Outlived \subseteq Transfers
  BY DEF LiveTransfers, Outlived
<1>2. TornDown \subseteq Requests
  BY DEF TornDown, LivePipes, Pipes, TypeOK
<1>3. IsFiniteSet(Transfers) /\ IsFiniteSet(Requests)
  <2>1. Len(transfers) \in Int /\ Len(pipeline) \in Int /\ 1 \in Int
    BY Served DEF TypeOK
  <2>2. QED
    BY <2>1, FS_Interval DEF Transfers, Requests
<1>4. IsFiniteSet(LiveTransfers) /\ IsFiniteSet(Outlived) /\ IsFiniteSet(TornDown)
  BY <1>1, <1>2, <1>3, FS_Subset
<1>5. ASSUME NEW e \in A
      PROVE  e \in PostedEvents /\ e.kind = "payload"
  <2>1. PICK t \in LiveTransfers : e = Event("payload", t)
    OBVIOUS
  <2>2. QED
    BY <1>1, <2>1 DEF Event, PostedEvents
<1>5a. ASSUME NEW e \in B
       PROVE  e \in PostedEvents /\ e.kind = "delete transfer" /\ e.of \in Outlived
  <2>1. PICK t \in Outlived : e = Event("delete transfer", t)
    OBVIOUS
  <2>2. QED
    BY <1>1, <2>1 DEF Event, PostedEvents
<1>5b. ASSUME NEW e \in C
       PROVE  e \in PostedEvents /\ e.kind = "delete reply" /\ e.of \in TornDown
  <2>1. PICK r \in TornDown : e = Event("delete reply", r)
    OBVIOUS
  <2>2. QED
    BY <1>2, <2>1 DEF Event, PostedEvents
<1>6. a \in Seq(A)
  <2>1. SetToSeq(A) \in Seq(A)
    BY <1>4, EventsInSequence
  <2>2. QED
    BY <2>1 DEF PayloadCalls
<1>7. b \in Seq(B) /\ \A t \in Outlived : \E i \in DOMAIN b : b[i] = Event("delete transfer", t)
  BY <1>4, EventsInSequence
<1>8. c \in Seq(C) /\ \A r \in TornDown : \E i \in DOMAIN c : c[i] = Event("delete reply", r)
  BY <1>4, EventsInSequence
<1>9. A \subseteq PostedEvents /\ B \subseteq PostedEvents /\ C \subseteq PostedEvents
  BY <1>5, <1>5a, <1>5b
<1>10. posted' = posted \o a \o b \o c
  BY DEF Slots
<1>11. posted \in Seq(PostedEvents)
  BY DEF TypeOK
<1> HIDE DEF A, B, C, a, b, c
<1>12. a \in Seq(PostedEvents) /\ b \in Seq(PostedEvents) /\ c \in Seq(PostedEvents)
  BY <1>6, <1>7, <1>8, <1>9, SeqMonotonic
<1>13. /\ \A i \in DOMAIN a : a[i] \in A
       /\ \A i \in DOMAIN b : b[i] \in B
       /\ \A i \in DOMAIN c : c[i] \in C
  <2>1. a \in Seq(A) /\ b \in Seq(B) /\ c \in Seq(C)
    BY <1>6, <1>7, <1>8
  <2>2. QED
    BY <2>1
<1>14. PICK more \in Seq(PostedEvents) : JoinedAs(posted, a, b, c, more)
  BY <1>11, <1>12, ThreeJoined
<1>15. ASSUME NEW t \in Outlived
       PROVE  \E j \in DOMAIN more : more[j] = Event("delete transfer", t)
  <2>1. PICK i \in DOMAIN b : b[i] = Event("delete transfer", t)
    BY <1>7
  <2>2. \A k \in DOMAIN b : \E j \in DOMAIN more : more[j] = b[k]
    BY <1>14, Zenon DEF JoinedAs
  <2>3. PICK j \in DOMAIN more : more[j] = b[i]
    BY <2>1, <2>2, Zenon
  <2>4. QED
    BY <2>1, <2>3, Zenon
<1>16. ASSUME NEW r \in TornDown
       PROVE  \E j \in DOMAIN more : more[j] = Event("delete reply", r)
  <2>1. PICK i \in DOMAIN c : c[i] = Event("delete reply", r)
    BY <1>8
  <2>2. \A k \in DOMAIN c : \E j \in DOMAIN more : more[j] = c[k]
    BY <1>14, Zenon DEF JoinedAs
  <2>3. PICK j \in DOMAIN more : more[j] = c[i]
    BY <2>1, <2>2, Zenon
  <2>4. QED
    BY <2>1, <2>3, Zenon
<1>17. ASSUME NEW j \in DOMAIN more
       PROVE  /\ more[j].kind = "delete transfer" => more[j].of \in Outlived
              /\ more[j].kind = "delete reply" => more[j].of \in TornDown
  <2>1. more[j] \in A \cup B \cup C
    BY <1>13, <1>14 DEF JoinedAs
  <2>2. QED
    BY <1>5, <1>5a, <1>5b, <2>1
<1>18. Posts(more)
  BY <1>10, <1>14, <1>15, <1>16, <1>17 DEF Posts, JoinedAs
<1>19. QED
  BY <1>18

\* The slots keep the types.
LEMMA SlotsTyped ==
  ASSUME TypeOK, InOrder, Slots
  PROVE  /\ lines' \in Seq(LogLines) /\ broken' \subseteq Requests
         /\ doomed' \subseteq Transfers /\ posted' \in Seq(PostedEvents)
<1>1. lines' \in Seq(LogLines)
  BY LogTyped DEF Slots
<1>2. broken' \subseteq Requests
  BY DEF Slots, PipeSlots, TornDown, LivePipes, Pipes, TypeOK
<1>3. doomed' \subseteq Transfers
  BY DEF Slots, Outlived, LiveTransfers, TypeOK
<1>4. PICK more : Posts(more)
  BY SlotsPost
<1>5. posted' \in Seq(PostedEvents)
  <2>1. more \in Seq(PostedEvents) /\ posted' = posted \o more
    BY <1>4 DEF Posts
  <2>2. posted \in Seq(PostedEvents)
    BY DEF TypeOK
  <2>3. QED
    BY <2>1, <2>2, Joined
<1>6. QED
  BY <1>1, <1>2, <1>3, <1>5

\* Events of more transfers are events still.
LEMMA EventsGrow ==
  ASSUME pipeline' = pipeline, Transfers \subseteq Transfers'
  PROVE  PostedEvents \subseteq PostedEvents' /\ Requests' = Requests
  BY DEF PostedEvents, Requests

\* A step with slots keeps the types of everything, if it keeps its own.
LEMMA StepTyped ==
  ASSUME TypeOK, InOrder, Slots, ConnTyped', TransfersTyped', ProxyTyped',
         pipeline' = pipeline, arrived' \in 0 .. Len(pipeline),
         Transfers \subseteq Transfers', info' \in {info, conn.now},
         deleted' = deleted, fileSize' = fileSize
  PROVE  TypeOK'
<1>1. /\ lines' \in Seq(LogLines) /\ broken' \subseteq Requests
      /\ doomed' \subseteq Transfers' /\ posted' \in Seq(PostedEvents)
  BY SlotsTyped
<1>2. PostedEvents \subseteq PostedEvents' /\ Requests' = Requests
  BY EventsGrow
<1>3. posted' \in Seq(PostedEvents')
  BY <1>1, <1>2, SeqMonotonic
<1>4. info' \in Nat
  BY Served DEF TypeOK
<1>5. deleted' \subseteq Transfers' /\ fileSize' \in [Requests -> Int]
  BY DEF TypeOK
<1>6. LogLines' = LogLines /\ pipeline' \in Pipelines /\ arrived' \in 0 .. Len(pipeline')
  BY DEF TypeOK, LogLines
<1>7. QED
  BY <1>1, <1>2, <1>3, <1>4, <1>5, <1>6
  DEF TypeOK, ConnTyped, TransfersTyped, ProxyTyped

\* The rest of a queue of events.
LEMMA FirstEvent ==
  ASSUME TypeOK, posted # <<>>
  PROVE  /\ Tail(posted) \in Seq(PostedEvents) /\ Head(posted) \in PostedEvents
         /\ Head(posted).kind \in {"payload", "delete transfer"} => Head(posted).of \in Transfers
         /\ Head(posted).kind = "delete reply" => Head(posted).of \in Requests
<1>1. posted \in Seq(PostedEvents)
  BY DEF TypeOK
<1>2. Tail(posted) \in Seq(PostedEvents) /\ Head(posted) \in PostedEvents
  BY <1>1, Popped
<1>3. QED
  BY <1>2 DEF PostedEvents

\* The turns of the event loop keep the types.
LEMMA TurnTyped ==
  ASSUME TypeOK, HandlerTurn, UNCHANGED proxyVars
  PROVE  TypeOK'
<1>1. /\ pipeline' = pipeline /\ transfers' = transfers /\ arrived' = arrived
      /\ conn' = conn /\ answers' = answers /\ position' = position
      /\ info' = info /\ lines' = lines
      /\ replies' = replies /\ sent' = sent /\ broken' = broken /\ managers' = managers
  BY DEF HandlerTurn, TransferEvent, PayloadWritten, DeliverPayloadCall, DeleteTransfer,
         FileIsChanged, connVars, handlerVars, proxyVars
<1>2. Requests' = Requests /\ Frames' = Frames /\ Transfers' = Transfers
  BY <1>1, SameFrames
<1>3. PostedEvents' = PostedEvents
  BY <1>2 DEF PostedEvents
<1>4. ASSUME frames' \in Seq(Frames), doomed' \subseteq Transfers, deleted' \subseteq Transfers,
             posted' \in Seq(PostedEvents), fileSize' \in [Requests -> Int]
      PROVE  TypeOK'
  BY <1>1, <1>2, <1>3, <1>4 DEF TypeOK
<1>5. /\ frames \in Seq(Frames) /\ doomed \subseteq Transfers /\ deleted \subseteq Transfers
      /\ posted \in Seq(PostedEvents) /\ fileSize \in [Requests -> Int]
      /\ transfers \in Seq(Requests)
  BY DEF TypeOK
<1>6. CASE PayloadWritten
  <2>1. /\ frames # <<>> /\ Top("written") /\ frames' = Below
        /\ deleted' = deleted /\ fileSize' = fileSize
        /\ \/ doomed' = doomed /\ posted' = posted
           \/ /\ doomed' = doomed \cup {Who}
              /\ posted' = Append(posted, Event("delete transfer", Who))
    BY <1>6 DEF PayloadWritten, Top
  <2>2. Who \in Transfers /\ frames' \in Seq(Frames)
    BY <2>1, Running
  <2>3. Event("delete transfer", Who) \in PostedEvents
    BY <2>2 DEF Event, PostedEvents
  <2>4. posted' \in Seq(PostedEvents)
    <3> DEFINE e == Event("delete transfer", Who)
    <3>1. posted' = posted \/ posted' = Append(posted, e)
      BY <2>1
    <3>2. e \in PostedEvents
      BY <2>3
    <3>3. \A x \in PostedEvents : Append(posted, x) \in Seq(PostedEvents)
      BY <1>5
    <3> HIDE DEF e
    <3>4. QED
      BY <1>5, <3>1, <3>2, <3>3, Zenon
  <2>5. QED
    BY <1>4, <1>5, <2>1, <2>2, <2>4
<1>7. CASE DeliverPayloadCall
  <2>1. /\ posted # <<>> /\ Head(posted).kind = "payload" /\ posted' = Tail(posted)
        /\ frames' \in {<<>>, <<Frame("payload", Head(posted).of)>>}
        /\ doomed' = doomed /\ deleted' = deleted /\ fileSize' = fileSize
    BY <1>7 DEF DeliverPayloadCall, handlerVars
  <2>2. Frame("payload", Head(posted).of) \in Frames
    BY <2>1, FirstEvent, Calls
  <2>3. frames' \in Seq(Frames)
    <3> DEFINE f == Frame("payload", Head(posted).of)
    <3>1. frames' \in {<<>>, <<f>>} /\ f \in Frames
      BY <2>1, <2>2
    <3>2. <<>> \in Seq(Frames) /\ \A g \in Frames : <<g>> \in Seq(Frames)
      OBVIOUS
    <3> HIDE DEF f
    <3>3. QED
      BY <3>1, <3>2, Zenon
  <2>4. QED
    BY <1>4, <1>5, <2>1, <2>3, FirstEvent
<1>8. CASE DeleteTransfer
  <2>1. /\ posted # <<>> /\ Head(posted).kind = "delete transfer" /\ posted' = Tail(posted)
        /\ deleted' = deleted \cup {Head(posted).of}
        /\ doomed' = doomed /\ frames' = frames /\ fileSize' = fileSize
    BY <1>8 DEF DeleteTransfer, connVars
  <2>2. deleted' \subseteq Transfers
    BY <1>5, <2>1, FirstEvent
  <2>3. QED
    BY <1>4, <1>5, <2>1, <2>2, FirstEvent
<1>9. CASE FileIsChanged
  <2>1. PICK t \in LiveTransfers \ doomed, by \in FileChanges :
          fileSize' = [fileSize EXCEPT ![transfers[t]] = @ + by]
    BY <1>9 DEF FileIsChanged
  <2>2. by \in Int
    BY FileChangesAssumption
  <2>3. fileSize' \in [Requests -> Int]
    <3> DEFINE x == transfers[t]
               n == fileSize[x] + by
    <3>1. x \in Requests
      BY <1>5 DEF LiveTransfers, Transfers
    <3>2. fileSize' = [fileSize EXCEPT ![x] = n] /\ n \in Int
      BY <1>5, <2>1, <2>2, <3>1
    <3> HIDE DEF x, n
    <3>3. QED
      BY <1>5, <3>1, <3>2
  <2>4. /\ doomed' = doomed /\ frames' = frames /\ deleted' = deleted /\ posted' = posted
    BY <1>9 DEF FileIsChanged, connVars
  <2>5. QED
    BY <1>4, <1>5, <2>3, <2>4
<1>10. QED
  BY <1>6, <1>7, <1>8, <1>9 DEF HandlerTurn, TransferEvent

\* Every step keeps the types.
LEMMA TypeStep ==
  ASSUME TypeOK, InOrder, StackShape, Next
  PROVE  TypeOK'
<1>1. ConnTyped /\ TransfersTyped /\ ProxyTyped
  BY DEF TypeOK, ConnTyped, TransfersTyped, ProxyTyped
<1>2. Len(pipeline) \in Nat /\ arrived \in 0 .. Len(pipeline)
  BY Served DEF TypeOK
<1>3. CASE ConnectionStep
  <2>1. /\ ConnNext /\ Slots /\ info' = info /\ transfers' = transfers /\ position' = position
        /\ deleted' = deleted /\ fileSize' = fileSize
        /\ replies' = replies /\ sent' = sent /\ managers' = managers
    BY <1>3 DEF ConnectionStep
  <2>2. ConnTyped' /\ pipeline' = pipeline /\ arrived' \in 0 .. Len(pipeline)
    BY <2>1, ConnNextTyped
  <2>3. /\ TransfersTyped' /\ ProxyTyped' /\ Transfers \subseteq Transfers'
    BY <1>1, <2>1, <2>2 DEF TransfersTyped, ProxyTyped, Transfers, Requests
  <2>4. QED
    BY <2>1, <2>2, <2>3, StepTyped
<1>4. CASE HandlerStep
  <2>1. /\ Handle /\ Slots
        /\ replies' = replies /\ sent' = sent /\ managers' = managers
    BY <1>4 DEF HandlerStep
  <2>2. info' \in {info, conn.now} /\ deleted' = deleted /\ fileSize' = fileSize
    BY <2>1 DEF Handle, HandleFixed, HandleFunction, HandleFile, HandleMissing,
         HandleLargeFile, StartTransfer, WriteNextPayload, FunctionAnswers, Handling,
         Remembered
  <2>3. /\ ConnTyped' /\ TransfersTyped' /\ Transfers \subseteq Transfers'
        /\ pipeline' = pipeline /\ arrived' = arrived
    BY <2>1, HandleTyped
  <2>4. ProxyTyped'
    BY <1>1, <2>1, <2>3 DEF ProxyTyped, Requests
  <2>5. QED
    BY <1>2, <2>1, <2>2, <2>3, <2>4, StepTyped
<1>5. CASE HandlerTurn /\ UNCHANGED proxyVars
  BY <1>5, TurnTyped
<1>6. CASE ProxyStep
  <2>1. /\ ProxyNext /\ Slots /\ info' \in {info, conn.now}
        /\ transfers' = transfers /\ position' = position
        /\ deleted' = deleted /\ fileSize' = fileSize
    BY <1>6 DEF ProxyStep, Remembered
  <2>2. /\ ConnTyped' /\ ProxyTyped' /\ pipeline' = pipeline /\ arrived' = arrived
    BY <2>1, ProxyTypedStep
  <2>3. /\ TransfersTyped' /\ Transfers \subseteq Transfers'
    BY <1>1, <2>1, <2>2 DEF TransfersTyped, Transfers, Requests
  <2>4. QED
    BY <1>2, <2>1, <2>2, <2>3, StepTyped
<1>7. CASE ReplyIsDeleted
  <2>1. /\ posted # <<>> /\ posted' = Tail(posted)
        /\ managers' = [i \in DOMAIN managers |-> managers[i] \ {Head(posted).of}]
        /\ UNCHANGED <<connVars, handlerVars, replies, sent, broken>>
    BY <1>7 DEF ReplyIsDeleted, DeleteReply
  <2>2. Requests' = Requests /\ Frames' = Frames /\ Transfers' = Transfers
    BY <2>1, SameFrames DEF connVars, handlerVars
  <2>3. PostedEvents' = PostedEvents
    BY <2>2 DEF PostedEvents
  <2>4. managers' \in Seq(SUBSET Requests)
    <3>1. managers \in Seq(SUBSET Requests)
      BY DEF TypeOK
    <3>2. QED
      BY <2>1, <3>1
  <2>5. posted' \in Seq(PostedEvents)
    BY <2>1, FirstEvent
  <2>6. QED
    BY <2>1, <2>2, <2>3, <2>4, <2>5 DEF TypeOK, connVars, handlerVars
<1>8. QED
  BY <1>3, <1>4, <1>5, <1>6, <1>7 DEF Next

(***************************************************************************)
(* Every step is one of a few kinds, for the order of the responses.       *)
(***************************************************************************)

Waits(s) == \A i \in DOMAIN s : s[i].at \in Waiting

\* Calls that wait, below one of them or one of these.
Stack(s, tops) ==
  /\ \A i \in 2 .. Len(s) : s[i].at \in Waiting
  /\ s # <<>> => Head(s).at \in Waiting \cup tops

\* What waits is a stack.
LEMMA WaitingStack ==
  ASSUME NEW s \in Seq(Frames), Waits(s), NEW tops
  PROVE  Stack(s, tops)
<1>1. \A i \in 1 .. Len(s) : s[i].at \in Waiting
  BY DEF Waits
<1>2. Len(s) \in Nat /\ (s # <<>> => Head(s) = s[1] /\ 1 \in 1 .. Len(s))
  OBVIOUS
<1>3. QED
  BY <1>1, <1>2 DEF Stack

\* A call on what waits is one, and waits itself if it is such a call.
LEMMA OnTop ==
  ASSUME NEW s \in Seq(Frames), Waits(s), NEW f \in Frames, NEW tops,
         f.at \in Waiting \cup tops
  PROVE  /\ Stack(<<f>> \o s, tops) /\ <<f>> \o s # <<>> /\ Head(<<f>> \o s) = f
         /\ f.at \in Waiting => Waits(<<f>> \o s)
<1> DEFINE u == <<f>> \o s
<1>1. /\ Len(u) = Len(s) + 1 /\ Len(s) \in Nat /\ u # <<>> /\ Head(u) = f /\ u[1] = f
      /\ \A i \in 2 .. Len(s) + 1 : u[i] = s[i - 1] /\ i - 1 \in 1 .. Len(s)
      /\ DOMAIN u = 1 .. Len(u)
  BY Pushed
<1>2. \A i \in 1 .. Len(s) : s[i].at \in Waiting
  BY DEF Waits
<1> HIDE DEF u
<1>3. \A i \in 2 .. Len(u) : u[i].at \in Waiting
  BY <1>1, <1>2
<1>4. Stack(u, tops)
  BY <1>1, <1>3 DEF Stack
<1>5. f.at \in Waiting => Waits(u)
  <2>1. \A i \in 1 .. Len(u) : i = 1 \/ i \in 2 .. Len(u)
    BY <1>1
  <2>2. QED
    BY <1>1, <1>3, <2>1 DEF Waits
<1>6. QED
  BY <1>1, <1>4, <1>5 DEF u

\* What is below the call that runs waits.
LEMMA BelowWaits ==
  ASSUME TypeOK, StackShape, frames # <<>>
  PROVE  Waits(Below) /\ Below \in Seq(Frames)
<1>1. /\ Below \in Seq(Frames) /\ Len(frames) \in Nat \ {0} /\ Len(Below) = Len(frames) - 1
      /\ \A i \in 1 .. Len(frames) - 1 : Below[i] = frames[i + 1]
  BY Popped DEF TypeOK, Below
<1>2. \A i \in 1 .. Len(Below) : i + 1 \in 2 .. Len(frames) /\ Below[i] = frames[i + 1]
  BY <1>1
<1>3. QED
  BY <1>1, <1>2 DEF Waits, StackShape

SamePlace == conn'.state = conn.state /\ conn'.now = conn.now

SameAnswer(r) ==
  /\ answers'[r].status = answers[r].status
  /\ answers'[r].length = answers[r].length
  /\ answers'[r].end = answers[r].end
SameAnswers == \A r \in Requests : SameAnswer(r)

\* The content of a response may complete it.
WritesContent ==
  /\ SamePlace /\ SameAnswers
  /\ Stack(frames', IF conn.state = "SendingContent" THEN {"completing"} ELSE {})

\* The headers of a response may, too.
WritesHeaders ==
  /\ conn.state = "SendingHeaders" /\ conn'.state = "SendingContent"
  /\ conn'.now = conn.now
  /\ \A r \in Requests : r # conn.now => SameAnswer(r)
  /\ answers'[conn.now].end = answers[conn.now].end
  /\ Stack(frames', {"completing"})

\* A call that is ignored.
LEMMA IgnoredKind ==
  ASSUME NEW then \in Seq(Frames), Waits(then), Ignored(then)
  PROVE  WritesContent
<1>1. SamePlace /\ SameAnswers
  BY DEF Ignored, SamePlace, SameAnswers, SameAnswer
<1>2. QED
  BY <1>1, WaitingStack DEF WritesContent, Ignored

\* writeContent(), as a kind of step.
LEMMA WriteContentKind ==
  ASSUME TypeOK, InOrder, NEW content \in Seq(Units), NEW then \in Seq(Frames),
         Waits(then), WriteContent(content, then)
  PROVE  WritesContent
<1> DEFINE refused == \/ conn.state # "SendingContent"
                      \/ ~ContentFits(content)
                      \/ content = <<>>
                      \/ Current.head
<1>1. CASE refused
  <2>1. Ignored(then)
    BY <1>1 DEF WriteContent
  <2>2. QED
    BY <2>1, IgnoredKind
<1>2. CASE ~refused
  <2>1. conn \in Connection /\ answers \in [Requests -> Answer]
    BY DEF TypeOK
  <2>2. /\ conn' = [conn EXCEPT !.sent = @ + Len(content), !.buffered = @ + Len(content)]
        /\ answers' = [answers EXCEPT ![conn.now].content = @ \o content]
        /\ \/ frames' = <<Frame("completing", 0)>> \o then
           \/ frames' = <<>> \o then
    BY <1>2 DEF WriteContent
  <2>3. SamePlace
    BY <2>1, <2>2 DEF SamePlace, Connection
  <2>4. SameAnswers
    BY <2>1, <2>2 DEF SameAnswers, SameAnswer, Answer
  <2>5. Stack(frames', {"completing"})
    <3>1. CASE frames' = <<Frame("completing", 0)>> \o then
      <4>1. Frame("completing", 0) \in Frames /\ Frame("completing", 0).at = "completing"
        BY Calls DEF Frame
      <4>2. Frame("completing", 0).at \in Waiting \cup {"completing"}
        BY <4>1
      <4>3. QED
        BY <3>1, <4>1, <4>2, OnTop
    <3>2. CASE frames' = <<>> \o then
      <4>1. frames' = then
        BY <3>2
      <4>2. QED
        BY <4>1, WaitingStack
    <3>3. QED
      BY <2>2, <3>1, <3>2
  <2>6. conn.state = "SendingContent"
    BY <1>2
  <2>7. QED
    BY <2>3, <2>4, <2>5, <2>6 DEF WritesContent
<1>3. QED
  BY <1>1, <1>2

\* writeHeaders(), as a kind of step.
LEMMA WriteHeadersKind ==
  ASSUME TypeOK, InOrder, NEW status \in Nat, NEW length \in Int,
         NEW chunkedHeader \in BOOLEAN, NEW then \in Seq(Frames), Waits(then),
         WriteHeaders(status, length, chunkedHeader, then)
  PROVE  /\ conn.state # "SendingHeaders" => WritesContent
         /\ conn.state = "SendingHeaders" =>
              WritesHeaders /\ (length = 0 => Top("completing")')
<1>1. CASE conn.state # "SendingHeaders"
  <2>1. Ignored(then)
    BY <1>1 DEF WriteHeaders
  <2>2. QED
    BY <1>1, <2>1, IgnoredKind
<1>2. CASE conn.state = "SendingHeaders"
  <2>1. conn \in Connection /\ answers \in [Requests -> Answer] /\ conn.now \in Requests
    BY <1>2, Served DEF TypeOK, InOrder
  <2>2. conn'.state = "SendingContent" /\ conn'.now = conn.now
    BY <1>2, <2>1 DEF WriteHeaders, Connection
  <2>3. answers' = [answers EXCEPT ![conn.now].status = status,
                                  ![conn.now].length = length]
    BY <1>2 DEF WriteHeaders
  <2>4. /\ \A r \in Requests : r # conn.now => SameAnswer(r)
        /\ answers'[conn.now].end = answers[conn.now].end
    BY <2>1, <2>3 DEF SameAnswer, Answer
  <2> DEFINE s == <<Frame("tail", 0)>> \o then
  <2>5. s \in Seq(Frames) /\ Waits(s)
    <3>1. Frame("tail", 0) \in Frames /\ Frame("tail", 0).at \in Waiting
      BY Calls DEF Frame, Waiting
    <3>2. QED
      BY <3>1, OnTop, Pushed
  <2>6. \/ frames' = <<Frame("completing", 0)>> \o s
        \/ length # 0 /\ frames' = <<>> \o s
    <3>1. \/ frames' = <<Frame("completing", 0)>> \o <<Frame("tail", 0)>> \o then
          \/ length # 0 /\ frames' = <<>> \o <<Frame("tail", 0)>> \o then
      BY <1>2 DEF WriteHeaders
    <3>2. \A x, y \in Seq(Frames) : (x \o y) \o then = x \o (y \o then)
      BY ConcatAssociative, SMTT(40)
    <3>3. /\ <<Frame("completing", 0)>> \in Seq(Frames) /\ <<>> \in Seq(Frames)
          /\ <<Frame("tail", 0)>> \in Seq(Frames)
      BY Calls
    <3>4. QED
      BY <3>1, <3>2, <3>3
  <2> HIDE DEF s
  <2>7. Stack(frames', {"completing"}) /\ (length = 0 => Top("completing")')
    <3>1. CASE frames' = <<Frame("completing", 0)>> \o s
      <4>1. Frame("completing", 0) \in Frames /\ Frame("completing", 0).at = "completing"
        BY Calls DEF Frame
      <4>2. Frame("completing", 0).at \in Waiting \cup {"completing"}
        BY <4>1
      <4>3. QED
        BY <2>5, <3>1, <4>1, <4>2, OnTop DEF Top
    <3>2. CASE length # 0 /\ frames' = <<>> \o s
      <4>1. frames' = s
        BY <2>5, <3>2
      <4>2. QED
        BY <2>5, <3>2, <4>1, WaitingStack
    <3>3. QED
      BY <2>6, <3>1, <3>2
  <2>8. QED
    BY <1>2, <2>2, <2>4, <2>7 DEF WritesHeaders
<1>3. QED
  BY <1>1, <1>2

\* writeResponse(), as a kind of step.
LEMMA WriteResponseKind ==
  ASSUME TypeOK, InOrder, NEW status \in Nat, NEW content \in Seq(Units),
         NEW then \in Seq(Frames), Waits(then), WriteResponse(status, content, then)
  PROVE  /\ conn.state # "SendingHeaders" => WritesContent
         /\ conn.state = "SendingHeaders" =>
              WritesHeaders /\ (content = <<>> => Top("completing")')
<1>1. CASE conn.state # "SendingHeaders"
  <2>1. Ignored(then)
    BY <1>1 DEF WriteResponse
  <2>2. QED
    BY <1>1, <2>1, IgnoredKind
<1>2. CASE conn.state = "SendingHeaders"
  <2> DEFINE s == (IF content # <<>> THEN <<ContentFrame(content)>> ELSE <<>>) \o then
  <2>1. s \in Seq(Frames) /\ Waits(s)
    <3>1. /\ ContentFrame(content) \in Frames
          /\ ContentFrame(content).at \in Waiting
      BY Calls DEF ContentFrame, Waiting
    <3>2. /\ <<ContentFrame(content)>> \o then \in Seq(Frames)
          /\ Waits(<<ContentFrame(content)>> \o then)
      BY <3>1, OnTop, Pushed
    <3>3. <<>> \o then = then
      BY NothingPushed
    <3>4. QED
      BY <3>2, <3>3
  <2>2. WriteHeaders(status, Len(content), FALSE, s)
    BY <1>2 DEF WriteResponse
  <2>3. Len(content) \in Int /\ FALSE \in BOOLEAN /\ (content = <<>> => Len(content) = 0)
    OBVIOUS
  <2> HIDE DEF s
  <2>4. QED
    BY <1>2, <2>1, <2>2, <2>3, WriteHeadersKind
<1>3. QED
  BY <1>1, <1>2

\* A call goes on, returns, or makes another that ends nothing.
Idles ==
  /\ SamePlace /\ SameAnswers /\ arrived' = arrived
  /\ ~Top("handle") /\ ~Top("completing")
  /\ Stack(frames', {"payload"} \cup
              (IF conn.state = "SendingContent" THEN {"completing"} ELSE {}))

\* A handler takes a request, to answer later.
Takes ==
  /\ Top("handle") /\ Current.to \in {"function", "proxy"}
  /\ SamePlace /\ SameAnswers /\ arrived' = arrived
  /\ Stack(frames', {})

\* Requests arrive.
Arrives ==
  /\ EventLoop
  /\ SamePlace /\ SameAnswers /\ conn.now < arrived'
  /\ Stack(frames', IF conn.state = "ReceivingHeaders" THEN {"dispatch"} ELSE {})

\* A request is dispatched.
Dispatches ==
  /\ Top("dispatch") /\ Top("handle")'
  /\ conn'.state = "SendingHeaders" /\ conn'.now = conn.now + 1
  /\ answers' = answers /\ arrived' = arrived
  /\ Stack(frames', {"handle"})

\* A response gets its headers.
Heads ==
  /\ WritesHeaders /\ arrived' = arrived /\ ~Top("completing")
  /\ \/ Top("handle") /\ Current.to # "proxy"
     \/ EventLoop /\ Current.to = "function"
     \/ /\ Top("readyRead") \/ Top("finished")
        /\ Who \notin broken /\ (Who \in sent' \/ Top("completing")')

\* A response is completed.
Ends ==
  /\ Top("completing")
  /\ conn.state = "SendingContent" /\ conn'.state = "Completed" /\ conn'.now = conn.now
  /\ answers' = [answers EXCEPT ![conn.now].end = "completed"]
  /\ arrived' = arrived
  /\ Stack(frames', {"completed"})

\* After it, the connection is there for the next request.
Resumes ==
  /\ Top("completed") /\ conn.state = "Completed" /\ conn'.state = "ReceivingHeaders"
  /\ conn'.now = conn.now /\ SameAnswers /\ arrived' = arrived
  /\ Stack(frames', IF arrived > conn.now THEN {"dispatch"} ELSE {})

\* Or it closes, at once or later.
Drains ==
  /\ conn.state \in {"Completed", "Flushing"} /\ conn'.state \in {"Closed", "Flushing"}
  /\ conn'.now = conn.now /\ SameAnswers /\ arrived' = arrived
  /\ ~Top("handle")
  /\ Stack(frames', {})

\* It is closed while in use.
CutShort(r) ==
  /\ r # conn.now => SameAnswer(r)
  /\ answers'[r].status = answers[r].status
  /\ answers'[r].length = answers[r].length
  /\ answers[r].end # "open" => answers'[r].end = answers[r].end
  /\ answers[r].end = "open" => answers'[r].end \in {"open", "closed"}
Cuts ==
  /\ Open /\ conn'.state = "Closed" /\ conn'.now = conn.now /\ arrived' = arrived
  /\ \A r \in Requests : CutShort(r)
  /\ ~Top("handle")
  /\ Stack(frames', {})

\* A pipe hears of its reply.
Tells ==
  /\ EventLoop
  /\ SamePlace /\ SameAnswers /\ arrived' = arrived
  /\ \E r \in LivePipes, at \in {"readyRead", "finished"} : frames' = <<Frame(at, r)>>

\* An empty stack is one.
LEMMA NoStack ==
  ASSUME NEW tops
  PROVE  Stack(<<>>, tops)
  BY DEF Stack

\* A stack of one call.
LEMMA OneCallStack ==
  ASSUME NEW f \in Frames, NEW tops, f.at \in Waiting \cup tops
  PROVE  Stack(<<f>>, tops)
<1>1. <<>> \in Seq(Frames) /\ Waits(<<>>) /\ <<f>> \o <<>> = <<f>>
  BY DEF Waits
<1>2. QED
  BY <1>1, OnTop

\* The end of a connection leaves every other response alone.
LEMMA ShutKind ==
  ASSUME TypeOK, Shut
  PROVE  /\ conn'.state = "Closed" /\ conn'.now = conn.now
         /\ \A r \in Requests : CutShort(r)
<1>1. conn \in Connection /\ answers \in [Requests -> Answer]
  BY DEF TypeOK
<1>2. conn'.state = "Closed" /\ conn'.now = conn.now
  BY <1>1 DEF Shut, Connection
<1>3. ASSUME NEW r \in Requests
      PROVE  CutShort(r)
  <2>1. answers[r] \in Answer
    BY <1>1
  <2>2. answers'[r] = IF r = conn.now /\ answers[r].end = "open"
                   THEN [answers[r] EXCEPT !.end = "closed"]
                   ELSE answers[r]
    BY <1>1 DEF Shut
  <2>3. QED
    BY <2>1, <2>2 DEF CutShort, SameAnswer, Answer
<1>4. QED
  BY <1>2, <1>3

\* The kinds of the connection's steps.
LEMMA ConnKinds ==
  ASSUME TypeOK, InOrder, StackShape, ConnNext
  PROVE  Arrives \/ Dispatches \/ Ends \/ Resumes \/ Drains \/ Idles \/ Cuts
<1>1. /\ conn \in Connection /\ answers \in [Requests -> Answer]
      /\ conn.now \in Nat /\ arrived \in Nat /\ Len(pipeline) \in Nat
      /\ frames \in Seq(Frames)
  BY Served DEF TypeOK
<1>2. frames # <<>> => Waits(Below) /\ Below \in Seq(Frames)
  BY BelowWaits
<1>3. /\ Frame("dispatch", 0) \in Frames /\ Frame("dispatch", 0).at = "dispatch"
      /\ Frame("handle", 0) \in Frames /\ Frame("handle", 0).at = "handle"
      /\ Frame("completed", 0) \in Frames /\ Frame("completed", 0).at = "completed"
  BY Calls DEF Frame
<1>4. conn' = conn /\ answers' = answers => SamePlace /\ SameAnswers
  BY DEF SamePlace, SameAnswers, SameAnswer
<1>5. CASE RequestArrives
  <2>1. /\ EventLoop /\ conn' = conn /\ answers' = answers
        /\ arrived' \in arrived + 1 .. Len(pipeline)
    BY <1>5 DEF RequestArrives
  <2>2. conn.now < arrived'
    <3>1. conn.now <= arrived
      BY DEF InOrder
    <3>2. QED
      BY <1>1, <2>1, <3>1
  <2>3. \/ frames' = <<Frame("dispatch", 0)>> /\ conn.state = "ReceivingHeaders"
        \/ frames' = <<>>
    BY <1>5 DEF RequestArrives
  <2>4. Stack(frames', IF conn.state = "ReceivingHeaders" THEN {"dispatch"} ELSE {})
    <3>1. Frame("dispatch", 0).at \in Waiting \cup {"dispatch"}
      BY <1>3
    <3>2. QED
      BY <1>3, <2>3, <3>1, OneCallStack, NoStack
  <2>5. QED
    BY <1>4, <2>1, <2>2, <2>4 DEF Arrives
<1>6. CASE Dispatch
  <2>1. Top("dispatch") /\ frames # <<>> /\ arrived' = arrived /\ answers' = answers
    BY <1>6 DEF Dispatch, Top
  <2>2. conn'.state = "SendingHeaders" /\ conn'.now = conn.now + 1
    BY <1>1, <1>6 DEF Dispatch, Connection
  <2>3. frames' = <<Frame("handle", 0)>> \o Below
    BY <1>6 DEF Dispatch
  <2>4. Frame("handle", 0).at \in Waiting \cup {"handle"}
    BY <1>3
  <2>5. Stack(frames', {"handle"}) /\ Top("handle")'
    BY <1>2, <1>3, <2>1, <2>3, <2>4, OnTop DEF Top
  <2>6. QED
    BY <2>1, <2>2, <2>5 DEF Dispatches
<1>7. CASE CompleteResponse
  <2>1. Top("completing") /\ frames # <<>> /\ conn.state = "SendingContent" /\ arrived' = arrived
    BY <1>7 DEF CompleteResponse, Top, StackShape
  <2>2. /\ conn' = [conn EXCEPT !.state = "Completed"]
        /\ answers' = [answers EXCEPT ![conn.now].end = "completed"]
        /\ frames' = <<Frame("completed", 0)>> \o Below
    BY <1>7, <2>1 DEF CompleteResponse
  <2>3. conn'.state = "Completed" /\ conn'.now = conn.now
    BY <1>1, <2>2 DEF Connection
  <2>4. Frame("completed", 0).at \in Waiting \cup {"completed"}
    BY <1>3
  <2>5. Stack(frames', {"completed"})
    BY <1>2, <1>3, <2>1, <2>2, <2>4, OnTop
  <2>6. QED
    BY <2>1, <2>2, <2>3, <2>5 DEF Ends
<1>8. CASE NextRequest
  <2>1. /\ Top("completed") /\ frames # <<>> /\ conn.state = "Completed"
        /\ arrived' = arrived /\ answers' = answers
    BY <1>8 DEF NextRequest, Top, StackShape
  <2>2. PICK left : conn' = [conn EXCEPT !.state = "ReceivingHeaders", !.buffered = left]
    BY <1>8 DEF NextRequest
  <2>3. conn'.state = "ReceivingHeaders" /\ conn'.now = conn.now
    BY <1>1, <2>2 DEF Connection
  <2>4. \/ arrived > conn.now /\ frames' = <<Frame("dispatch", 0)>> \o Below
        \/ frames' = <<>> \o Below
    BY <1>8 DEF NextRequest
  <2>5. <<>> \o Below = Below
    BY <1>2, <2>1
  <2>6. Frame("dispatch", 0).at \in Waiting \cup {"dispatch"}
    BY <1>3
  <2>7. Stack(frames', IF arrived > conn.now THEN {"dispatch"} ELSE {})
    <3>1. CASE arrived > conn.now /\ frames' = <<Frame("dispatch", 0)>> \o Below
      BY <1>2, <1>3, <2>1, <2>6, <3>1, OnTop
    <3>2. CASE frames' = <<>> \o Below
      BY <1>2, <2>1, <2>5, <3>2, WaitingStack
    <3>3. QED
      BY <2>4, <3>1, <3>2
  <2>8. SameAnswers
    BY <2>1 DEF SameAnswers, SameAnswer
  <2>9. QED
    BY <2>1, <2>3, <2>7, <2>8 DEF Resumes
<1>9. CASE FlushAndClose
  <2>1. /\ Top("completed") /\ ~Top("handle") /\ frames # <<>> /\ conn.state = "Completed"
        /\ arrived' = arrived /\ answers' = answers /\ frames' = Below
    BY <1>9 DEF FlushAndClose, Top, StackShape
  <2>2. PICK left : conn' = [conn EXCEPT !.buffered = left,
                  !.state = IF left = 0 THEN "Closed" ELSE "Flushing"]
    BY <1>9 DEF FlushAndClose
  <2>3. conn'.state \in {"Closed", "Flushing"} /\ conn'.now = conn.now
    BY <1>1, <2>2 DEF Connection
  <2>4. Stack(frames', {}) /\ SameAnswers
    BY <1>2, <2>1, WaitingStack DEF SameAnswers, SameAnswer
  <2>5. QED
    BY <2>1, <2>3, <2>4 DEF Drains
<1>10. CASE SendingContentTail
  <2>1. /\ Top("tail") /\ ~Top("handle") /\ ~Top("completing") /\ frames # <<>>
        /\ arrived' = arrived /\ answers' = answers /\ frames' = Below
    BY <1>10 DEF SendingContentTail, Top
  <2>2. SamePlace
    BY <1>1, <1>10 DEF SendingContentTail, SamePlace, Connection
  <2>3. SameAnswers
    BY <2>1 DEF SameAnswers, SameAnswer
  <2>4. QED
    BY <1>2, <2>1, <2>2, <2>3, WaitingStack DEF Idles
<1>11. CASE WriteResponseTail
  <2>1. /\ Top("content") /\ ~Top("handle") /\ ~Top("completing") /\ frames # <<>>
        /\ arrived' = arrived /\ WriteContent(Head(frames).content, Below)
    BY <1>11 DEF WriteResponseTail, Top
  <2>2. WritesContent
    BY <1>2, <2>1, Running, WriteContentKind
  <2>3. QED
    BY <2>1, <2>2 DEF Idles, WritesContent, Stack
<1>12. CASE DeviceWrites
  <2>1. /\ frames = <<>> /\ frames' = <<>> /\ arrived' = arrived /\ answers' = answers
        /\ ~Top("handle") /\ ~Top("completing")
    BY <1>12 DEF DeviceWrites, EventLoop, Top
  <2>2. PICK left : conn' = [conn EXCEPT !.buffered = left,
                  !.state = IF @ = "Flushing" /\ left = 0 THEN "Closed" ELSE @]
    BY <1>12 DEF DeviceWrites
  <2>3. /\ conn'.now = conn.now
        /\ \/ conn'.state = conn.state
           \/ conn.state = "Flushing" /\ conn'.state = "Closed"
    BY <1>1, <2>2 DEF Connection
  <2>4. SameAnswers
    BY <2>1 DEF SameAnswers, SameAnswer
  <2>5. QED
    BY <2>1, <2>3, <2>4, NoStack DEF Idles, Drains, SamePlace
<1>13. CASE PeerCloses
  <2>1. /\ frames = <<>> /\ frames' = <<>> /\ arrived' = arrived /\ Open /\ Shut
        /\ ~Top("handle")
    BY <1>13 DEF PeerCloses, EventLoop, Top
  <2>2. QED
    BY <2>1, ShutKind, NoStack DEF Cuts
<1>14. QED
  BY <1>5, <1>6, <1>7, <1>8, <1>9, <1>10, <1>11, <1>12, <1>13 DEF ConnNext

\* The call of a handler.
LEMMA Handled ==
  ASSUME TypeOK, InOrder, StackShape, Top("handle")
  PROVE  /\ conn.state = "SendingHeaders" /\ frames # <<>> /\ ~Top("completing")
         /\ Waits(Below) /\ Below \in Seq(Frames)
         /\ Current.size \in Nat /\ conn.now \in Requests
         /\ Content(conn.now, 0, Current.size) \in Seq(Units)
         /\ Content(conn.now, 0, 1) \in Seq(Units)
<1>1. conn.state = "SendingHeaders" /\ frames # <<>> /\ ~Top("completing")
  BY DEF StackShape, Top
<1>2. conn.now \in Requests /\ Current \in Request /\ conn.now \in Nat
  BY <1>1, Served DEF InOrder
<1>3. Current.size \in Nat /\ 0 \in Nat /\ 1 \in Int /\ Current.size \in Int
  BY <1>2 DEF Request
<1>4. /\ Content(conn.now, 0, Current.size) \in Seq(Units)
      /\ Content(conn.now, 0, 1) \in Seq(Units)
  BY <1>2, <1>3, ContentTyped
<1>5. QED
  BY <1>1, <1>2, <1>3, <1>4, BelowWaits

\* The kinds of the handlers' steps.
LEMMA HandleKinds ==
  ASSUME TypeOK, InOrder, StackShape, Handle
  PROVE  /\ Takes \/ Heads \/ Idles
         /\ info' = IF Top("handle") THEN conn.now ELSE info
<1>1. arrived' = arrived
  BY DEF Handle, HandleFixed, HandleFunction, HandleFile, HandleMissing,
         HandleLargeFile, StartTransfer, WriteNextPayload, FunctionAnswers, Handling
<1>2. conn' = conn /\ answers' = answers => SamePlace /\ SameAnswers
  BY DEF SamePlace, SameAnswers, SameAnswer
<1>3. <<>> \in Seq(Units) /\ <<>> \in Seq(Frames) /\ Waits(<<>>)
      /\ 200 \in Nat /\ 304 \in Nat /\ 403 \in Nat /\ 404 \in Nat /\ FALSE \in BOOLEAN
  BY DEF Waits
<1>4. ASSUME Top("handle"), Current.to # "proxy", WritesHeaders
      PROVE  Heads
  BY <1>1, <1>4, Handled DEF Heads
<1>5. CASE HandleFixed \/ HandleFile \/ HandleMissing
  <2>1. /\ Top("handle") /\ Current.to # "proxy" /\ info' = conn.now
    BY <1>5 DEF HandleFixed, HandleFile, HandleMissing, Handling, Remembered
  <2>2. \/ WriteResponse(200, Content(conn.now, 0, Current.size), Below)
        \/ WriteResponse(304, <<>>, Below)
        \/ WriteResponse(403, Content(conn.now, 0, 1), Below)
        \/ WriteResponse(404, Content(conn.now, 0, 1), Below)
    BY <1>5 DEF HandleFixed, HandleFile, HandleMissing
  <2>3. /\ conn.state = "SendingHeaders" /\ Waits(Below) /\ Below \in Seq(Frames)
        /\ Content(conn.now, 0, Current.size) \in Seq(Units)
        /\ Content(conn.now, 0, 1) \in Seq(Units)
    BY <2>1, Handled
  <2>5. ASSUME NEW status \in Nat, NEW content \in Seq(Units),
               WriteResponse(status, content, Below)
        PROVE  WritesHeaders
    BY <2>3, <2>5, WriteResponseKind, Zenon
  <2>6. WritesHeaders
    <3> DEFINE all == Content(conn.now, 0, Current.size)
               one == Content(conn.now, 0, 1)
               none == <<>>
    <3>1. all \in Seq(Units) /\ one \in Seq(Units) /\ none \in Seq(Units)
      BY <1>3, <2>3
    <3>2. \/ WriteResponse(200, all, Below) \/ WriteResponse(304, none, Below)
          \/ WriteResponse(403, one, Below) \/ WriteResponse(404, one, Below)
      BY <2>2
    <3> HIDE DEF all, one, none
    <3>3. 200 \in Nat /\ 304 \in Nat /\ 403 \in Nat /\ 404 \in Nat
      OBVIOUS
    <3>4. QED
      BY <2>5, <3>1, <3>2, <3>3
  <2>7. QED
    BY <1>4, <2>1, <2>6
<1>6. CASE HandleFunction
  <2>1. /\ Top("handle") /\ Current.to = "function" /\ info' = conn.now
        /\ frames' = Below /\ conn' = conn /\ answers' = answers
    BY <1>6 DEF HandleFunction, Handling, Remembered
  <2>2. Stack(frames', {})
    BY <2>1, Handled, WaitingStack
  <2>3. QED
    BY <1>1, <1>2, <2>1, <2>2 DEF Takes
<1>7. CASE HandleLargeFile
  <2>1. Top("handle") /\ Current.to # "proxy" /\ info' = conn.now
    BY <1>7 DEF HandleLargeFile, Handling, Remembered
  <2> DEFINE s == <<Frame("transfer", conn.now)>> \o Below
  <2>2. WriteHeaders(200, Current.size, FALSE, s)
    BY <1>7 DEF HandleLargeFile
  <2>3. s \in Seq(Frames) /\ Waits(s)
    <3>1. /\ Frame("transfer", conn.now) \in Frames
          /\ Frame("transfer", conn.now).at \in Waiting
      BY <2>1, Handled, Calls DEF Frame, Waiting
    <3>2. QED
      BY <2>1, <3>1, Handled, OnTop, Pushed
  <2> HIDE DEF s
  <2>4. conn.state = "SendingHeaders"
    BY <2>1, Handled
  <2>5. WritesHeaders
    <3> DEFINE n == Current.size
    <3>1. n \in Nat
      BY <2>1, Handled
    <3>1a. WriteHeaders(200, n, FALSE, s)
      BY <2>2
    <3>2. 200 \in Nat /\ FALSE \in BOOLEAN
      OBVIOUS
    <3> HIDE DEF n
    <3>3. n \in Int
      BY <3>1
    <3>4. QED
      BY <2>3, <2>4, <3>1a, <3>2, <3>3, WriteHeadersKind
  <2>6. QED
    BY <1>4, <2>1, <2>5
<1>8. CASE StartTransfer
  <2>1. /\ Top("transfer") /\ frames # <<>> /\ ~Top("handle") /\ ~Top("completing")
        /\ info' = info /\ conn' = conn /\ answers' = answers
        /\ frames' = <<Frame("payload", Len(transfers) + 1)>> \o Below
    BY <1>8 DEF StartTransfer, Top
  <2> DEFINE f == Frame("payload", Len(transfers) + 1)
  <2>2. Stack(frames', {"payload"})
    <3>1. Below \in Seq(Frames) /\ Waits(Below)
      BY <2>1, BelowWaits
    <3>2. f.at = "payload" /\ frames' = <<f>> \o Below
      BY <2>1 DEF Frame
    <3> HIDE DEF f
    <3>3. /\ Below \in Seq(Frames \cup {f}) /\ f \in Frames \cup {f}
      BY <3>1, SeqMonotonic
    <3>4. /\ Len(frames') = Len(Below) + 1 /\ Len(Below) \in Nat /\ Head(frames') = f
          /\ \A i \in 2 .. Len(Below) + 1 : frames'[i] = Below[i - 1] /\ i - 1 \in 1 .. Len(Below)
      BY <3>2, <3>3, Pushed
    <3>5. \A i \in 1 .. Len(Below) : Below[i].at \in Waiting
      BY <3>1 DEF Waits
    <3>6. QED
      BY <3>2, <3>4, <3>5 DEF Stack
  <2>3. QED
    BY <1>1, <1>2, <2>1, <2>2 DEF Idles, Stack
<1>9. CASE WriteNextPayload
  <2>1. /\ Top("payload") /\ frames # <<>> /\ ~Top("handle") /\ ~Top("completing")
        /\ info' = info
    BY <1>9 DEF WriteNextPayload, Top
  <2>2. Below \in Seq(Frames) /\ Waits(Below)
    BY <2>1, BelowWaits
  <2>3. WritesContent
    <3>1. CASE Open /\ Payload(Who) > 0
      <4> DEFINE s == <<Frame("written", Who)>> \o Below
                 content == Content(transfers[Who], position[Who], position[Who] + Payload(Who))
      <4>1. WriteContent(content, s)
        BY <1>9, <3>1 DEF WriteNextPayload
      <4>2. content \in Seq(Units) /\ Who \in Transfers
        BY <2>1, <3>1, PayloadTyped
      <4>3. Frame("written", Who) \in Frames /\ Frame("written", Who).at \in Waiting
        BY <4>2, Calls DEF Frame, Waiting
      <4>4. s \in Seq(Frames) /\ Waits(s)
        BY <2>2, <4>3, OnTop, Pushed
      <4> HIDE DEF s, content
      <4>5. QED
        BY <4>1, <4>2, <4>4, WriteContentKind
    <3>2. CASE ~(Open /\ Payload(Who) > 0)
      BY <1>9, <2>2, <3>2, IgnoredKind DEF WriteNextPayload
    <3>3. QED
      BY <3>1, <3>2
  <2>4. QED
    BY <1>1, <2>1, <2>3 DEF Idles, WritesContent, Stack
<1>10. CASE FunctionAnswers
  <2>1. /\ frames = <<>> /\ ~Top("handle") /\ ~Top("completing") /\ EventLoop
        /\ conn.state = "SendingHeaders" /\ Current.to = "function" /\ info' = info
    BY <1>10 DEF FunctionAnswers, EventLoop, Top
  <2>2. WriteResponse(200, Content(conn.now, 0, Current.size), <<>>)
    BY <1>10 DEF FunctionAnswers
  <2>3. Content(conn.now, 0, Current.size) \in Seq(Units)
    <3>1. Current \in Request /\ conn.now \in Nat
      BY <2>1, Served DEF InOrder
    <3>2. 0 \in Nat /\ Current.size \in Int
      BY <3>1 DEF Request
    <3>3. QED
      BY <3>1, <3>2, ContentTyped
  <2>4. WritesHeaders
    BY <1>3, <2>1, <2>2, <2>3, WriteResponseKind
  <2>5. QED
    BY <1>1, <2>1, <2>4 DEF Heads
<1>11. QED
  BY <1>5, <1>6, <1>7, <1>8, <1>9, <1>10 DEF Handle

\* The kinds of the event loop's turns.
LEMMA TurnKinds ==
  ASSUME TypeOK, StackShape, HandlerTurn \/ ReplyIsDeleted
  PROVE  Idles
<1>1. conn' = conn /\ answers' = answers /\ arrived' = arrived
  BY DEF HandlerTurn, TransferEvent, PayloadWritten, DeliverPayloadCall, DeleteTransfer,
         FileIsChanged, ReplyIsDeleted, connVars
<1>2. SamePlace /\ SameAnswers
  BY <1>1 DEF SamePlace, SameAnswers, SameAnswer
<1>3. ASSUME ~Top("handle"), ~Top("completing"), Stack(frames', {"payload"})
      PROVE  Idles
  BY <1>1, <1>2, <1>3 DEF Idles, Stack
<1>4. CASE PayloadWritten
  <2>1. Top("written") /\ frames # <<>> /\ frames' = Below
        /\ ~Top("handle") /\ ~Top("completing")
    BY <1>4 DEF PayloadWritten, Top
  <2>2. QED
    BY <1>3, <2>1, BelowWaits, WaitingStack
<1>5. CASE DeliverPayloadCall
  <2>1. /\ frames = <<>> /\ posted # <<>> /\ Head(posted).kind = "payload"
        /\ ~Top("handle") /\ ~Top("completing")
        /\ \/ frames' = <<>>
           \/ frames' = <<Frame("payload", Head(posted).of)>>
    BY <1>5 DEF DeliverPayloadCall, EventLoop, Top
  <2> DEFINE f == Frame("payload", Head(posted).of)
  <2>2. f \in Frames /\ f.at \in Waiting \cup {"payload"}
    BY <2>1, FirstEvent, Calls DEF Frame
  <2>3. frames' = <<>> \/ frames' = <<f>>
    BY <2>1
  <2> HIDE DEF f
  <2>4. Stack(frames', {"payload"})
    BY <2>2, <2>3, OneCallStack, NoStack
  <2>5. QED
    BY <1>3, <2>1, <2>4
<1>6. CASE DeleteTransfer \/ FileIsChanged \/ ReplyIsDeleted
  <2>1. frames = <<>> /\ frames' = <<>> /\ ~Top("handle") /\ ~Top("completing")
    BY <1>6 DEF DeleteTransfer, FileIsChanged, ReplyIsDeleted, EventLoop, Top, connVars
  <2>2. QED
    BY <1>3, <2>1, NoStack
<1>7. QED
  BY <1>4, <1>5, <1>6 DEF HandlerTurn, TransferEvent

\* Pipes are made by requests, and send their headers once.
PipesGo ==
  /\ Pipes' = Pipes \cup (IF Top("handle") /\ Current.to = "proxy" THEN {conn.now} ELSE {})
  /\ \/ sent' = sent
     \/ /\ Top("readyRead") \/ Top("finished")
        /\ Who \notin broken /\ sent' = sent \cup {Who}
        /\ conn.state = "SendingHeaders" => conn'.state = "SendingContent"

\* The kinds of the proxy's steps.
LEMMA ProxyKinds ==
  ASSUME TypeOK, InOrder, StackShape, ProxyNext
  PROVE  (Takes \/ Heads \/ Idles \/ Cuts \/ Tells) /\ PipesGo
<1>1. arrived' = arrived
  BY DEF ProxyNext, HandleProxied, UpstreamContent, UpstreamEnds, ReadyRead, Pump,
         FinishedWell, EndContent, FinishedBadly
<1>2. conn' = conn /\ answers' = answers => SamePlace /\ SameAnswers
  BY DEF SamePlace, SameAnswers, SameAnswer
<1>3. ASSUME ~Top("handle"), ~Top("completing"), WritesContent
      PROVE  Idles
  BY <1>1, <1>3 DEF Idles, WritesContent, Stack
<1>4. replies \in [Requests -> Reply]
  BY DEF TypeOK
<1>5. CASE HandleProxied
  <2>1. /\ Top("handle") /\ Current.to = "proxy" /\ frames' = Below
        /\ conn' = conn /\ answers' = answers /\ sent' = sent
        /\ replies' = [replies EXCEPT ![conn.now].made = TRUE]
    BY <1>5 DEF HandleProxied
  <2>2. Stack(frames', {}) /\ conn.now \in Requests
    BY <2>1, Handled, WaitingStack
  <2>3. Pipes' = Pipes \cup {conn.now}
    BY <1>4, <2>1, <2>2 DEF Pipes, Reply
  <2>4. QED
    BY <1>1, <1>2, <2>1, <2>2, <2>3 DEF Takes, PipesGo
<1>6. CASE UpstreamContent
  <2>1. PICK r \in LivePipes :
          /\ \E n \in replies[r].given + 1 .. Upstream(r).size :
               replies' = [replies EXCEPT ![r].given = n]
          /\ frames' = <<Frame("readyRead", r)>>
    BY <1>6 DEF UpstreamContent
  <2>2. PICK n : replies' = [replies EXCEPT ![r].given = n]
    BY <2>1
  <2>3. Pipes' = Pipes
    BY <1>4, <2>2 DEF Pipes, Reply
  <2>4. /\ EventLoop /\ ~Top("handle") /\ conn' = conn /\ answers' = answers /\ sent' = sent
    BY <1>6 DEF UpstreamContent, EventLoop, Top
  <2>5. QED
    BY <1>1, <1>2, <2>1, <2>3, <2>4 DEF Tells, PipesGo
<1>7. CASE UpstreamEnds
  <2>1. PICK r \in LivePipes, end \in {"success", "error"} :
          /\ replies' = [replies EXCEPT ![r].end = end]
          /\ frames' = <<Frame("finished", r)>>
    BY <1>7 DEF UpstreamEnds
  <2>2. Pipes' = Pipes
    BY <1>4, <2>1 DEF Pipes, Reply
  <2>3. /\ EventLoop /\ ~Top("handle") /\ conn' = conn /\ answers' = answers /\ sent' = sent
    BY <1>7 DEF UpstreamEnds, EventLoop, Top
  <2>4. QED
    BY <1>1, <1>2, <2>1, <2>2, <2>3 DEF Tells, PipesGo
<1>8. ASSUME replies' = replies, ~Top("handle"), sent' = sent
      PROVE  PipesGo
  BY <1>8 DEF PipesGo, Pipes
<1>9. CASE ReadyRead \/ FinishedWell
  <2>1. /\ Top("readyRead") \/ Top("finished")
        /\ frames # <<>> /\ ~Top("handle") /\ ~Top("completing")
        /\ replies' = replies
        /\ \E at \in {"pump", "ended"} : SendHeaders(Who, <<Frame(at, Who)>> \o Below)
    BY <1>9 DEF ReadyRead, FinishedWell, Top
  <2>2. PICK at \in {"pump", "ended"} : SendHeaders(Who, <<Frame(at, Who)>> \o Below)
    BY <2>1
  <2> DEFINE s == <<Frame(at, Who)>> \o Below
  <2>3. s \in Seq(Frames) /\ Waits(s) /\ Who \in Requests
    <3>1. Who \in Requests /\ Below \in Seq(Frames) /\ Waits(Below)
      BY <2>1, Running, BelowWaits
    <3>2. Frame(at, Who) \in Frames /\ Frame(at, Who).at \in Waiting
      BY <3>1, Calls DEF Frame, Waiting
    <3>3. QED
      BY <3>1, <3>2, OnTop, Pushed
  <2>4. SendHeaders(Who, s)
    BY <2>2
  <2> HIDE DEF s
  <2>5. CASE Who \in sent \cup broken
    <3>1. Ignored(s) /\ sent' = sent
      BY <2>4, <2>5 DEF SendHeaders
    <3>2. WritesContent
      BY <2>3, <3>1, IgnoredKind
    <3>3. QED
      BY <1>3, <1>8, <2>1, <3>1, <3>2
  <2>6. CASE Who \notin sent \cup broken
    <3> DEFINE status == IF Failing(Who) THEN 404 ELSE 200
               length == Announced(Who)
               chunkedHeader == Upstream(Who).variant = "chunked"
    <3>1. sent' = sent \cup {Who} /\ WriteHeaders(status, length, chunkedHeader, s)
      BY <2>4, <2>6 DEF SendHeaders
    <3>2. status \in Nat /\ chunkedHeader \in BOOLEAN
      OBVIOUS
    <3>3. length \in Int
      <4>1. pipeline[Who].size \in Int
        BY <2>3, Served DEF Request
      <4>2. QED
        BY <4>1 DEF Announced, Upstream
    <3> HIDE DEF status, length, chunkedHeader
    <3>4. CASE conn.state = "SendingHeaders"
      <4>1. WritesHeaders
        BY <2>3, <3>1, <3>2, <3>3, <3>4, WriteHeadersKind
      <4>2. Heads
        BY <1>1, <2>1, <2>6, <3>1, <4>1 DEF Heads
      <4>3. PipesGo
        BY <2>1, <2>6, <3>1, <4>1 DEF PipesGo, Pipes, WritesHeaders
      <4>4. QED
        BY <4>2, <4>3
    <3>5. CASE conn.state # "SendingHeaders"
      <4>1. WritesContent
        BY <2>3, <3>1, <3>2, <3>3, <3>5, WriteHeadersKind
      <4>2. PipesGo
        BY <2>1, <2>6, <3>1, <3>5 DEF PipesGo, Pipes
      <4>3. QED
        BY <1>3, <2>1, <4>1, <4>2
    <3>6. QED
      BY <3>4, <3>5
  <2>7. QED
    BY <2>5, <2>6
<1>10. CASE Pump
  <2>1. /\ Top("pump") /\ frames # <<>> /\ ~Top("handle") /\ ~Top("completing")
        /\ sent' = sent
    BY <1>10 DEF Pump, Top
  <2>2. Who \in Requests /\ Below \in Seq(Frames) /\ Waits(Below)
    BY <2>1, Running, BelowWaits
  <2>3. CASE Pumps(Who)
    <3> DEFINE given == replies[Who].given
               read == replies[Who].read
               content == [i \in 1 .. given - read |-> [of |-> Who, at |-> read + i - 1]]
    <3>1. replies' = [replies EXCEPT ![Who].read = given] /\ WriteContent(content, Below)
      BY <1>10, <2>3 DEF Pump
    <3>2. given \in Nat /\ read \in Nat /\ Who \in Nat
      BY <1>4, <2>2 DEF Requests, Reply
    <3>3. content = Content(Who, read, given)
      BY DEF Content
    <3>4. given \in Int
      BY <3>2
    <3> HIDE DEF given, read, content
    <3>5. content \in Seq(Units)
      BY <3>2, <3>3, <3>4, ContentTyped
    <3>6. WritesContent
      BY <2>2, <3>1, <3>5, WriteContentKind
    <3>7. Pipes' = Pipes
      BY <1>4, <3>1 DEF Pipes, Reply
    <3>8. QED
      BY <1>3, <2>1, <3>6, <3>7 DEF PipesGo
  <2>4. CASE ~Pumps(Who)
    <3>1. Ignored(Below) /\ replies' = replies
      BY <1>10, <2>4 DEF Pump
    <3>2. QED
      BY <1>3, <1>8, <2>1, <2>2, <3>1, IgnoredKind
  <2>5. QED
    BY <2>3, <2>4
<1>11. CASE EndContent
  <2>1. /\ Top("ended") /\ frames # <<>> /\ ~Top("handle") /\ ~Top("completing")
        /\ frames' = Below /\ replies' = replies /\ sent' = sent
        /\ \/ EndIsDue(Who) /\ Shut
           \/ conn' = conn /\ answers' = answers
    BY <1>11 DEF EndContent, Top
  <2>2. Below \in Seq(Frames) /\ Waits(Below)
    BY <2>1, BelowWaits
  <2>3. CASE EndIsDue(Who) /\ Shut
    <3>1. Open
      BY <2>3 DEF EndIsDue, Open
    <3>2. Cuts
      BY <1>1, <2>1, <2>2, <2>3, <3>1, ShutKind, WaitingStack DEF Cuts
    <3>3. QED
      BY <1>8, <2>1, <3>2
  <2>4. CASE conn' = conn /\ answers' = answers
    <3>1. Ignored(Below)
      BY <2>1, <2>4 DEF Ignored
    <3>2. QED
      BY <1>3, <1>8, <2>1, <2>2, <3>1, IgnoredKind
  <2>5. QED
    BY <2>1, <2>3, <2>4
<1>12. CASE FinishedBadly
  <2>1. /\ Top("finished") /\ frames # <<>> /\ ~Top("handle") /\ ~Top("completing")
        /\ replies' = replies /\ sent' = sent
        /\ \/ Who \notin broken /\ WriteResponse(503, <<>>, Below)
           \/ Ignored(Below)
    BY <1>12 DEF FinishedBadly, Top
  <2>2. Below \in Seq(Frames) /\ Waits(Below)
    BY <2>1, BelowWaits
  <2>3. CASE Who \notin broken /\ WriteResponse(503, <<>>, Below)
    <3>1. 503 \in Nat /\ <<>> \in Seq(Units)
      OBVIOUS
    <3>2. CASE conn.state = "SendingHeaders"
      <4> DEFINE none == <<>>
      <4>0. none \in Seq(Units) /\ none = <<>> /\ WriteResponse(503, none, Below)
        BY <2>3, <3>1
      <4> HIDE DEF none
      <4>1. WritesHeaders /\ Top("completing")'
        <5>1. ASSUME NEW status \in Nat, NEW content \in Seq(Units),
                     WriteResponse(status, content, Below)
              PROVE  WritesHeaders /\ (content = <<>> => Top("completing")')
          BY <2>2, <3>2, <5>1, WriteResponseKind
        <5>2. QED
          BY <3>1, <4>0, <5>1
      <4>2. Heads
        BY <1>1, <2>1, <2>3, <4>1 DEF Heads
      <4>3. QED
        BY <1>8, <2>1, <4>2
    <3>3. CASE conn.state # "SendingHeaders"
      <4>1. WritesContent
        BY <2>2, <2>3, <3>1, <3>3, WriteResponseKind
      <4>2. QED
        BY <1>3, <1>8, <2>1, <4>1
    <3>4. QED
      BY <3>2, <3>3
  <2>4. CASE Ignored(Below)
    BY <1>3, <1>8, <2>1, <2>2, <2>4, IgnoredKind
  <2>5. QED
    BY <2>1, <2>3, <2>4
<1>13. QED
  BY <1>5, <1>6, <1>7, <1>9, <1>10, <1>11, <1>12 DEF ProxyNext

\* What every step does of the log, the pipes and the pipeline.
Slotted ==
  /\ pipeline' = pipeline
  /\ info' = IF Top("handle") THEN conn.now ELSE info
  /\ Log /\ PipeSlots /\ PipesGo

Kinds ==
  \/ Arrives \/ Dispatches \/ Heads \/ Ends \/ Resumes \/ Drains \/ Cuts
  \/ Takes \/ Tells \/ Idles

\* Every step is of one of the kinds, and the slots run with it.
LEMMA StepKinds ==
  ASSUME TypeOK, InOrder, StackShape, Next
  PROVE  Kinds /\ Slotted
<1>1. CASE ConnectionStep
  <2>1. /\ ConnNext /\ Slots /\ info' = info /\ replies' = replies /\ sent' = sent
    BY <1>1 DEF ConnectionStep
  <2>2. Arrives \/ Dispatches \/ Ends \/ Resumes \/ Drains \/ Idles \/ Cuts
    BY <2>1, ConnKinds
  <2>3. ~Top("handle")
    BY <2>2 DEF Arrives, Dispatches, Ends, Resumes, Drains, Idles, Cuts, EventLoop, Top
  <2>4. pipeline' = pipeline
    BY <2>1 DEF ConnNext, RequestArrives, Dispatch, CompleteResponse, NextRequest,
         FlushAndClose, SendingContentTail, WriteResponseTail, DeviceWrites, PeerCloses
  <2>5. PipesGo
    BY <2>1, <2>3 DEF PipesGo, Pipes
  <2>6. QED
    BY <2>1, <2>2, <2>3, <2>4, <2>5 DEF Kinds, Slotted, Slots
<1>2. CASE HandlerStep
  <2>1. Handle /\ Slots /\ replies' = replies /\ sent' = sent
    BY <1>2 DEF HandlerStep
  <2>2. /\ Takes \/ Heads \/ Idles
        /\ info' = IF Top("handle") THEN conn.now ELSE info
    BY <2>1, HandleKinds
  <2>3. pipeline' = pipeline
    BY <2>1 DEF Handle, HandleFixed, HandleFunction, HandleFile, HandleMissing,
         HandleLargeFile, StartTransfer, WriteNextPayload, FunctionAnswers, Handling
  <2>4. ~(Top("handle") /\ Current.to = "proxy")
    BY <2>1 DEF Handle, HandleFixed, HandleFunction, HandleFile, HandleMissing,
         HandleLargeFile, StartTransfer, WriteNextPayload, FunctionAnswers, Handling,
         EventLoop, Top
  <2>5. PipesGo
    BY <2>1, <2>4 DEF PipesGo, Pipes
  <2>6. QED
    BY <2>1, <2>2, <2>3, <2>5 DEF Kinds, Slotted, Slots
<1>3. CASE (HandlerTurn /\ UNCHANGED proxyVars) \/ ReplyIsDeleted
  <2>1. Idles
    BY <1>3, TurnKinds
  <2>2. /\ pipeline' = pipeline /\ info' = info /\ lines' = lines /\ conn' = conn
        /\ replies' = replies /\ sent' = sent /\ broken' = broken
    BY <1>3 DEF HandlerTurn, TransferEvent, PayloadWritten, DeliverPayloadCall,
         DeleteTransfer, FileIsChanged, ReplyIsDeleted, connVars, handlerVars, proxyVars
  <2>3. ~Completes /\ ~Closes
    BY <2>2 DEF Completes, Closes, Open
  <2>4. Log
    <3>1. (lines \o <<>>) \o <<>> = lines
      BY NothingPushed DEF TypeOK
    <3>2. QED
      BY <2>2, <2>3, <3>1 DEF Log
  <2>5. PipeSlots /\ PipesGo
    BY <2>1, <2>2, <2>3 DEF PipeSlots, TornDown, PipesGo, Pipes, Idles
  <2>6. QED
    BY <2>1, <2>2, <2>4, <2>5 DEF Kinds, Slotted, Idles
<1>4. CASE ProxyStep
  <2>1. ProxyNext /\ Slots /\ info' = IF Top("handle") THEN conn.now ELSE info
    BY <1>4 DEF ProxyStep, Remembered
  <2>2. (Takes \/ Heads \/ Idles \/ Cuts \/ Tells) /\ PipesGo
    BY <2>1, ProxyKinds
  <2>3. pipeline' = pipeline
    BY <2>1 DEF ProxyNext, HandleProxied, UpstreamContent, UpstreamEnds, ReadyRead, Pump,
         FinishedWell, EndContent, FinishedBadly
  <2>4. QED
    BY <2>1, <2>2, <2>3 DEF Kinds, Slotted, Slots
<1>5. QED
  BY <1>1, <1>2, <1>3, <1>4 DEF Next

\* A stack, in its parts.
LEMMA StackParts ==
  ASSUME NEW tops, Stack(frames', tops)
  PROVE  /\ \A i \in 2 .. Len(frames') : frames'[i].at \in Waiting
         /\ \A at : Top(at)' => at \in Waiting \cup tops
  BY DEF Stack, Top

\* Whatever runs, runs in its state.
LEMMA StackStep ==
  ASSUME TypeOK, InOrder, StackShape, Next
  PROVE  StackShape'
<1>1. Kinds /\ Slotted
  BY StepKinds
<1>2. /\ conn.now \in Nat /\ arrived \in Nat
  BY Served
<1>3. ASSUME NEW tops, Stack(frames', tops),
             "dispatch" \in tops => conn'.state = "ReceivingHeaders" /\ conn'.now < arrived',
             "handle" \in tops => conn'.state = "SendingHeaders",
             "completing" \in tops => conn'.state = "SendingContent",
             "completed" \in tops => conn'.state = "Completed"
      PROVE  StackShape'
  <2>1. /\ \A i \in 2 .. Len(frames') : frames'[i].at \in Waiting
        /\ Top("dispatch")' => "dispatch" \in Waiting \cup tops
        /\ Top("handle")' => "handle" \in Waiting \cup tops
        /\ Top("completing")' => "completing" \in Waiting \cup tops
        /\ Top("completed")' => "completed" \in Waiting \cup tops
    BY <1>3, StackParts
  <2>2. QED
    BY <1>3, <2>1 DEF StackShape, Waiting
<1>4. CASE Arrives
  BY <1>3, <1>4 DEF Arrives, SamePlace
<1>5. CASE Dispatches
  BY <1>3, <1>5 DEF Dispatches
<1>6. CASE Heads
  BY <1>3, <1>6 DEF Heads, WritesHeaders
<1>7. CASE Ends
  BY <1>3, <1>7 DEF Ends
<1>8. CASE Resumes
  <2>1. arrived > conn.now => conn'.now < arrived'
    BY <1>2, <1>8 DEF Resumes
  <2>2. QED
    BY <1>3, <1>8, <2>1 DEF Resumes
<1>9. CASE Drains
  BY <1>3, <1>9 DEF Drains
<1>10. CASE Cuts
  BY <1>3, <1>10 DEF Cuts
<1>11. CASE Takes
  BY <1>3, <1>11 DEF Takes
<1>12. CASE Tells
  <2>1. PICK r \in LivePipes, at \in {"readyRead", "finished"} : frames' = <<Frame(at, r)>>
    BY <1>12 DEF Tells
  <2>2. r \in Requests
    BY DEF LivePipes, Pipes, TypeOK
  <2>3. Frame(at, r) \in Frames /\ Frame(at, r).at \in Waiting \cup {"readyRead", "finished"}
    BY <2>2, Calls DEF Frame
  <2>4. Stack(frames', {"readyRead", "finished"})
    BY <2>1, <2>3, OneCallStack
  <2>5. QED
    BY <1>3, <2>4
<1>13. CASE Idles
  BY <1>3, <1>13 DEF Idles, SamePlace
<1>14. QED
  BY <1>1, <1>4, <1>5, <1>6, <1>7, <1>8, <1>9, <1>10, <1>11, <1>12, <1>13 DEF Kinds

\* Responses go on in order.
LEMMA OrderStep ==
  ASSUME TypeOK, InOrder, StackShape, Next
  PROVE  InOrder'
<1>1. Kinds /\ Slotted
  BY StepKinds
<1>2. /\ conn.now \in Nat /\ arrived \in Nat /\ info \in Nat
      /\ answers \in [Requests -> Answer] /\ conn.state \in States
      /\ Len(pipeline) \in Nat /\ arrived \in 0 .. Len(pipeline)
      /\ conn.now <= arrived /\ info <= conn.now
  BY Served DEF TypeOK, Connection, InOrder
<1>3. Requests' = Requests
  BY <1>1 DEF Slotted, Requests
<1>4. /\ Top("handle") => info' = conn.now
      /\ ~Top("handle") => info' = info
  BY <1>1 DEF Slotted
<1>5. InService => conn.now \in Requests
  BY Served DEF InOrder, InService
<1>6. CASE Arrives \/ Idles \/ Tells
  <2>1. /\ SamePlace /\ SameAnswers /\ ~Top("handle") /\ info' = info
    BY <1>4, <1>6 DEF Arrives, Idles, Tells, EventLoop, Top
  <2>2. conn'.now <= arrived'
    <3>1. TypeOK'
      BY TypeStep
    <3>2. conn'.now \in Nat /\ arrived' \in Nat
      BY <3>1 DEF TypeOK, Connection
    <3>3. conn.now < arrived' \/ arrived' = arrived
      BY <1>6 DEF Arrives, Idles, Tells
    <3>4. QED
      BY <1>2, <2>1, <3>2, <3>3 DEF SamePlace
  <2>3. InService' => answers'[conn'.now].end = "open" /\ info' = conn'.now
    BY <1>5, <2>1 DEF InOrder, InService, SamePlace, SameAnswers, SameAnswer
  <2>4. \A r \in Requests : r > conn'.now => answers'[r].end = "open"
    BY <2>1 DEF InOrder, SamePlace, SameAnswers, SameAnswer
  <2>5. conn'.state \notin {"ReceivingHeaders", "Closed"} => conn'.now > 0
    BY <2>1 DEF InOrder, SamePlace
  <2>6. info' <= conn'.now
    BY <1>2, <2>1 DEF SamePlace
  <2>7. QED
    BY <1>3, <2>2, <2>3, <2>4, <2>5, <2>6 DEF InOrder
<1>7. CASE Takes
  <2>1. /\ SamePlace /\ SameAnswers /\ Top("handle") /\ info' = conn.now /\ arrived' = arrived
    BY <1>4, <1>7 DEF Takes
  <2>2. InService' => answers'[conn'.now].end = "open" /\ info' = conn'.now
    BY <1>5, <2>1 DEF InOrder, InService, SamePlace, SameAnswers, SameAnswer
  <2>3. \A r \in Requests : r > conn'.now => answers'[r].end = "open"
    BY <2>1 DEF InOrder, SamePlace, SameAnswers, SameAnswer
  <2>4. QED
    BY <1>2, <1>3, <2>1, <2>2, <2>3 DEF InOrder, SamePlace
<1>8. CASE Dispatches
  <2>1. /\ Top("dispatch") /\ Top("handle")' /\ ~Top("handle") /\ info' = info
        /\ conn'.state = "SendingHeaders" /\ conn'.now = conn.now + 1
        /\ answers' = answers /\ arrived' = arrived /\ conn.now < arrived
    BY <1>4, <1>8 DEF Dispatches, StackShape, Top
  <2>2. conn.now + 1 \in Requests
    BY <1>2, <2>1 DEF Requests
  <2>3. answers'[conn'.now].end = "open"
    BY <1>2, <2>1, <2>2 DEF InOrder
  <2>4. \A r \in Requests : r > conn'.now => answers'[r].end = "open"
    BY <1>2, <2>1 DEF InOrder, Requests
  <2>5. QED
    BY <1>2, <1>3, <2>1, <2>3, <2>4 DEF InOrder
<1>9. CASE Heads
  <2>1. /\ WritesHeaders /\ arrived' = arrived /\ InService
        /\ conn'.now = conn.now /\ conn'.state = "SendingContent"
    BY <1>9 DEF Heads, WritesHeaders, InService
  <2>2. answers'[conn'.now].end = "open"
    BY <2>1 DEF InOrder, WritesHeaders
  <2>3. info' = conn.now
    BY <1>4, <2>1 DEF InOrder
  <2>4. \A r \in Requests : r > conn'.now => answers'[r].end = "open"
    <3>1. \A r \in Requests : r > conn.now => r # conn.now
      BY <1>2 DEF Requests
    <3>2. QED
      BY <2>1, <3>1 DEF InOrder, WritesHeaders, SameAnswer
  <2>5. conn.now > 0
    BY <2>1 DEF InOrder, InService
  <2>6. QED
    BY <1>2, <1>3, <2>1, <2>2, <2>3, <2>4, <2>5 DEF InOrder
<1>10. CASE Ends
  <2>1. /\ ~Top("handle") /\ info' = info /\ arrived' = arrived
        /\ conn'.now = conn.now /\ conn'.state = "Completed" /\ conn.now > 0
        /\ answers' = [answers EXCEPT ![conn.now].end = "completed"]
    BY <1>4, <1>10 DEF Ends, InOrder, Top
  <2>2. \A r \in Requests : r > conn'.now => answers'[r].end = "open"
    BY <1>2, <2>1 DEF InOrder, Requests
  <2>3. QED
    BY <1>2, <1>3, <2>1, <2>2 DEF InOrder, InService
<1>11. CASE Resumes \/ Drains
  <2>1. /\ ~Top("handle") /\ info' = info /\ arrived' = arrived
        /\ conn'.now = conn.now /\ ~InService' /\ SameAnswers /\ conn.now > 0
    BY <1>4, <1>11 DEF Resumes, Drains, InOrder, Top, InService
  <2>2. \A r \in Requests : r > conn'.now => answers'[r].end = "open"
    BY <2>1 DEF InOrder, SameAnswers, SameAnswer
  <2>3. QED
    BY <1>2, <1>3, <2>1, <2>2 DEF InOrder
<1>12. CASE Cuts
  <2>1. /\ ~Top("handle") /\ info' = info /\ arrived' = arrived
        /\ conn'.now = conn.now /\ conn'.state = "Closed" /\ ~InService'
        /\ \A r \in Requests : CutShort(r)
    BY <1>4, <1>12 DEF Cuts, InService
  <2>2. \A r \in Requests : r > conn'.now => answers'[r].end = "open"
    <3>1. \A r \in Requests : r > conn.now => r # conn.now
      BY <1>2 DEF Requests
    <3>2. QED
      BY <2>1, <3>1 DEF InOrder, CutShort, SameAnswer
  <2>3. QED
    BY <1>2, <1>3, <2>1, <2>2 DEF InOrder
<1>13. QED
  BY <1>1, <1>6, <1>7, <1>8, <1>9, <1>10, <1>11, <1>12 DEF Kinds

(***************************************************************************)
(* The log.                                                                *)
(***************************************************************************)

\* A step adds one line to the log, or none.
LEMMA Logs ==
  ASSUME TypeOK, InOrder, Log
  PROVE  \/ ~(Completes /\ info # 0) /\ lines' = lines
         \/ Completes /\ info # 0 /\ lines' = Append(lines, Line("completed"))
         \/ ~Completes /\ lines' = Append(lines, Line("closed"))
<1> DEFINE a == Line("completed")
           b == Line("closed")
<1>1. lines \in Seq(LogLines)
  BY DEF TypeOK
<1>2. ~(Completes /\ Closes)
  BY DEF Completes, Closes
<1>3. CASE Completes /\ info # 0
  <2>1. lines' = lines \o <<a>> \o <<>>
    BY <1>2, <1>3 DEF Log
  <2>2. \A x : lines \o <<x>> \o <<>> = Append(lines, x)
    BY <1>1
  <2> HIDE DEF a
  <2>3. lines' = Append(lines, a)
    BY <2>1, <2>2
  <2>4. QED
    BY <1>3, <2>3 DEF a
<1>4. CASE ~(Completes /\ info # 0) /\ Closes /\ info # 0 /\ TraceRequests
  <2>1. lines' = lines \o <<>> \o <<b>>
    BY <1>4 DEF Log
  <2>2. \A x : lines \o <<>> \o <<x>> = Append(lines, x)
    BY <1>1
  <2>3. ~Completes
    BY <1>4
  <2> HIDE DEF b
  <2>4. lines' = Append(lines, b)
    BY <2>1, <2>2
  <2>5. QED
    BY <2>3, <2>4 DEF b
<1>5. CASE ~(Completes /\ info # 0) /\ ~(Closes /\ info # 0 /\ TraceRequests)
  <2>1. lines' = lines \o <<>> \o <<>>
    BY <1>5 DEF Log
  <2>2. lines \o <<>> \o <<>> = lines
    BY <1>1
  <2>3. QED
    BY <1>5, <2>1, <2>2
<1>6. QED
  BY <1>3, <1>4, <1>5

\* Only the end of a response completes it.
LEMMA OnlyEndsComplete ==
  ASSUME Kinds
  PROVE  Completes <=> Ends
  BY DEF Kinds, Completes, Arrives, Dispatches, Heads, WritesHeaders, Ends, Resumes,
         Drains, Cuts, Takes, Tells, Idles, SamePlace

\* And the other steps leave the completed ones as they are.
Kept(r) ==
  /\ answers'[r].end = "completed" <=> answers[r].end = "completed"
  /\ answers[r].end = "completed" => SameAnswer(r)

\* A response that is completed stays as it is.
LEMMA CompletedIsKept ==
  ASSUME TypeOK, InOrder, Kinds, ~Ends, NEW r \in Requests
  PROVE  Kept(r)
<1>1. CASE SameAnswers
  BY <1>1 DEF SameAnswers, SameAnswer, Kept
<1>2. CASE Dispatches
  BY <1>2 DEF Dispatches, SameAnswer, Kept
<1>3. CASE Heads
  <2>1. InService
    BY <1>3 DEF Heads, WritesHeaders, InService
  <2>2. answers[conn.now].end = "open" /\ answers'[conn.now].end = "open"
    BY <1>3, <2>1 DEF Heads, WritesHeaders, InOrder
  <2>3. r # conn.now => SameAnswer(r)
    BY <1>3 DEF Heads, WritesHeaders
  <2>4. QED
    BY <2>2, <2>3 DEF Kept, SameAnswer
<1>4. CASE Cuts
  <2>1. CutShort(r)
    BY <1>4 DEF Cuts
  <2>2. answers[r] \in Answer
    BY DEF TypeOK
  <2>3. QED
    BY <2>1, <2>2 DEF CutShort, SameAnswer, Kept, Answer
<1>5. QED
  BY <1>1, <1>2, <1>3, <1>4
  DEF Kinds, Arrives, Resumes, Drains, Takes, Tells, Idles

\* The completed responses have their lines, in order.
LEMMA LogStep ==
  ASSUME TypeOK, InOrder, StackShape, Next, LoggedOnce
  PROVE  LoggedOnce'
<1> DEFINE told == {i \in DOMAIN lines : lines[i].kind = "completed"}
<1>1. Kinds /\ Log /\ Requests' = Requests
  BY StepKinds DEF Slotted, Requests
<1>2. /\ lines \in Seq(LogLines) /\ Len(lines) \in Nat /\ DOMAIN lines = 1 .. Len(lines)
      /\ answers \in [Requests -> Answer] /\ conn.now \in Nat
  BY Served DEF TypeOK
<1>3. /\ \A i \in told :
           /\ lines[i].of \in Requests /\ answers[lines[i].of].end = "completed"
           /\ lines[i].status = answers[lines[i].of].status
           /\ lines[i].length = answers[lines[i].of].length
      /\ \A i, j \in told : i < j => lines[i].of < lines[j].of
      /\ \A r \in Requests : answers[r].end = "completed" =>
           \E i \in told : lines[i].of = r
  BY DEF LoggedOnce, Ended
<1>4. CASE ~Ends
  <2>1. \A r \in Requests : Kept(r)
    BY <1>1, <1>4, CompletedIsKept
  <2>2. /\ DOMAIN lines \subseteq DOMAIN lines' /\ \A i \in DOMAIN lines : lines'[i] = lines[i]
        /\ \A i \in DOMAIN lines' \ DOMAIN lines : lines'[i].kind = "closed"
    <3>1. \/ lines' = lines
          \/ \E x : x.kind = "closed" /\ lines' = Append(lines, x)
      BY <1>1, <1>4, Logs, OnlyEndsComplete DEF Line
    <3>2. CASE lines' = lines
      BY <3>2
    <3>3. CASE \E x : x.kind = "closed" /\ lines' = Append(lines, x)
      <4>1. PICK x : x.kind = "closed" /\ lines' = Append(lines, x)
        BY <3>3
      <4>2. /\ DOMAIN lines' = 1 .. Len(lines) + 1 /\ lines'[Len(lines) + 1] = x
            /\ \A i \in 1 .. Len(lines) : lines'[i] = lines[i]
        BY <1>2, <4>1
      <4>3. \A i \in DOMAIN lines' \ DOMAIN lines : i = Len(lines) + 1
        BY <1>2, <4>2
      <4>4. QED
        BY <1>2, <4>1, <4>2, <4>3
    <3>4. QED
      BY <3>1, <3>2, <3>3
  <2>3. {i \in DOMAIN lines' : lines'[i].kind = "completed"} = told
    BY <2>2
  <2> HIDE DEF told
  <2>4. \A i \in told : lines'[i] = lines[i]
    BY <2>2 DEF told
  <2>5. \A i \in told :
          /\ lines'[i].of \in Requests /\ answers'[lines'[i].of].end = "completed"
          /\ lines'[i].status = answers'[lines'[i].of].status
          /\ lines'[i].length = answers'[lines'[i].of].length
    BY <1>3, <2>1, <2>4 DEF Kept, SameAnswer
  <2>6. \A r \in Requests : answers'[r].end = "completed" =>
          \E i \in told : lines'[i].of = r
    BY <1>3, <2>1, <2>4 DEF Kept
  <2>7. QED
    BY <1>1, <1>3, <2>3, <2>4, <2>5, <2>6 DEF LoggedOnce, Ended
<1>5. CASE Ends
  <2> DEFINE line == Line("completed")
             last == Len(lines) + 1
  <2>1. /\ ~Top("handle") /\ InService /\ conn.now \in Requests /\ info = conn.now /\ info # 0
        /\ answers' = [answers EXCEPT ![conn.now].end = "completed"]
    BY <1>5, Served DEF Ends, Top, InService, InOrder
  <2>2. answers[conn.now].end = "open"
    BY <2>1 DEF InOrder
  <2>3. lines' = Append(lines, line)
    BY <1>1, <1>5, <2>1, Logs, OnlyEndsComplete
  <2>4. /\ line.kind = "completed" /\ line.of = conn.now
        /\ line.status = answers[conn.now].status
        /\ line.length = answers[conn.now].length
    BY <2>1 DEF Line
  <2> HIDE DEF line
  <2>5. /\ DOMAIN lines' = 1 .. last /\ lines'[last] = line
        /\ \A i \in 1 .. Len(lines) : lines'[i] = lines[i]
    BY <1>2, <2>3
  <2>6. {i \in DOMAIN lines' : lines'[i].kind = "completed"} = told \cup {last}
    BY <1>2, <2>4, <2>5
  <2>7. /\ \A i \in told : lines'[i] = lines[i] /\ i < last /\ i \in Nat
        /\ lines'[last] = line
    BY <1>2, <2>5
  <2> HIDE DEF told, last
  <2>8. /\ \A r \in Requests : r # conn.now => answers'[r] = answers[r]
        /\ answers'[conn.now].end = "completed"
        /\ answers'[conn.now].status = answers[conn.now].status
        /\ answers'[conn.now].length = answers[conn.now].length
    BY <1>2, <2>1 DEF Answer
  <2>9. \A i \in told : lines[i].of < conn.now
    <3>1. ASSUME NEW i \in told
          PROVE  lines[i].of < conn.now
      <4>1. lines[i].of \in Requests /\ answers[lines[i].of].end = "completed"
        BY <1>3
      <4>2. ~(lines[i].of > conn.now) /\ lines[i].of # conn.now
        BY <2>2, <4>1 DEF InOrder
      <4>3. lines[i].of \in Nat
        BY <4>1 DEF Requests
      <4>4. QED
        BY <1>2, <4>2, <4>3
    <3>2. QED
      BY <3>1
  <2>10. \A i \in told \cup {last} :
           /\ lines'[i].of \in Requests /\ answers'[lines'[i].of].end = "completed"
           /\ lines'[i].status = answers'[lines'[i].of].status
           /\ lines'[i].length = answers'[lines'[i].of].length
    <3>1. ASSUME NEW i \in told
          PROVE  /\ lines'[i].of \in Requests /\ answers'[lines'[i].of].end = "completed"
                 /\ lines'[i].status = answers'[lines'[i].of].status
                 /\ lines'[i].length = answers'[lines'[i].of].length
      <4>1. lines'[i] = lines[i] /\ lines[i].of \in Requests /\ lines[i].of # conn.now
        BY <1>3, <2>2, <2>7
      <4>2. answers'[lines[i].of] = answers[lines[i].of]
        BY <2>8, <4>1
      <4>3. QED
        BY <1>3, <4>1, <4>2
    <3>2. QED
      BY <2>1, <2>4, <2>7, <2>8, <3>1
  <2>11. \A i, j \in told \cup {last} : i < j => lines'[i].of < lines'[j].of
    <3>1. ASSUME NEW i \in told \cup {last}, NEW j \in told \cup {last}, i < j
          PROVE  lines'[i].of < lines'[j].of
      <4>1. last \in Nat
        BY <1>2 DEF last
      <4>2. i \in told
        BY <2>7, <3>1, <4>1
      <4>3. CASE j \in told
        BY <1>3, <2>7, <3>1, <4>2, <4>3
      <4>4. CASE j = last
        BY <2>4, <2>7, <2>9, <4>2, <4>4
      <4>5. QED
        BY <4>3, <4>4
    <3>2. QED
      BY <3>1
  <2>12. \A r \in Requests : answers'[r].end = "completed" =>
           \E i \in told \cup {last} : lines'[i].of = r
    <3>1. ASSUME NEW r \in Requests, answers'[r].end = "completed"
          PROVE  \E i \in told \cup {last} : lines'[i].of = r
      <4>1. CASE r = conn.now
        BY <2>4, <2>7, <4>1
      <4>2. CASE r # conn.now
        <5>1. PICK i \in told : lines[i].of = r
          BY <1>3, <2>8, <3>1, <4>2
        <5>2. QED
          BY <2>7, <5>1
      <4>3. QED
        BY <4>1, <4>2
    <3>2. QED
      BY <3>1
  <2>13. QED
    BY <1>1, <2>6, <2>10, <2>11, <2>12 DEF LoggedOnce, Ended
<1>6. QED
  BY <1>4, <1>5

(***************************************************************************)
(* The pipes.                                                              *)
(***************************************************************************)

\* The pipe made by a step, if any.
MadePipe == IF Top("handle") /\ Current.to = "proxy" THEN {conn.now} ELSE {}

\* Which pipes are in use after a step.
LEMMA LivePipesGo ==
  ASSUME TypeOK, StackShape, PipesInOrder, Kinds, Slotted
  PROVE  /\ Completes \/ Closes => LivePipes' = {}
         /\ ~(Completes \/ Closes) => LivePipes' = LivePipes \cup MadePipe
         /\ sent' \subseteq Pipes' /\ broken' \subseteq Pipes' /\ sent \subseteq sent'
         /\ MadePipe \cap (Pipes \cup sent \cup broken) = {}
<1>1. Pipes' = Pipes \cup MadePipe /\ broken' = broken \cup TornDown
  BY DEF Slotted, PipesGo, PipeSlots, MadePipe
<1>2. sent \subseteq Pipes /\ broken \subseteq Pipes
  BY DEF PipesInOrder
<1>3. MadePipe \cap Pipes = {}
  BY Served DEF PipesInOrder, MadePipe
<1>4. sent' \subseteq Pipes' /\ sent \subseteq sent'
  BY <1>1, <1>2 DEF Slotted, PipesGo, PipesInOrder
<1>5. TornDown \subseteq Pipes
  BY DEF TornDown, LivePipes
<1>6. CASE Completes \/ Closes
  <2>1. MadePipe = {}
    <3>1. ~Takes
      BY <1>6 DEF Takes, SamePlace, Completes, Closes, Open
    <3>2. ~Heads
      BY <1>6 DEF Heads, WritesHeaders, Completes, Closes, Open
    <3>3. Arrives \/ Dispatches \/ Ends \/ Resumes \/ Drains \/ Cuts \/ Tells \/ Idles
      BY <3>1, <3>2 DEF Kinds
    <3>4. ~Top("handle")
      BY <3>3 DEF Arrives, Dispatches, Ends, Resumes, Drains, Cuts, Tells, Idles,
                  EventLoop, Top
    <3>5. QED
      BY <3>4 DEF MadePipe
  <2>2. TornDown = LivePipes
    BY <1>6 DEF TornDown
  <2>3. QED
    BY <1>1, <1>2, <1>3, <1>4, <1>5, <1>6, <2>1, <2>2 DEF LivePipes
<1>7. CASE ~(Completes \/ Closes)
  <2>1. TornDown = {}
    BY <1>7 DEF TornDown
  <2>2. QED
    BY <1>1, <1>2, <1>3, <1>4, <1>5, <1>7, <2>1 DEF LivePipes
<1>8. QED
  BY <1>6, <1>7

\* The pipes in use are of the request in service, and it has its pipe.
LEMMA PipesStep ==
  ASSUME TypeOK, InOrder, StackShape, PipesInOrder, Next
  PROVE  PipesInOrder'
<1>1. Kinds /\ Slotted
  BY StepKinds
<1>2. /\ Completes \/ Closes => LivePipes' = {}
      /\ ~(Completes \/ Closes) => LivePipes' = LivePipes \cup MadePipe
      /\ sent' \subseteq Pipes' /\ broken' \subseteq Pipes' /\ sent \subseteq sent'
      /\ MadePipe \cap (Pipes \cup sent \cup broken) = {}
  BY <1>1, LivePipesGo
<1>3. /\ pipeline' = pipeline /\ Pipes' = Pipes \cup MadePipe
      /\ conn.now \in Nat /\ Pipes \subseteq Nat
  BY <1>1, Served DEF Slotted, PipesGo, MadePipe, TypeOK, Pipes, Requests
<1>4. SamePlace => Current' = Current /\ InService' = InService
  BY <1>3 DEF SamePlace, Current, InService
<1>5. \A r \in Pipes : r <= conn.now /\ (Top("handle") => r < conn.now)
  BY DEF PipesInOrder
<1>6. \A r \in LivePipes :
       /\ r = conn.now /\ Current.to = "proxy"
       /\ \/ conn.state = "SendingHeaders" /\ r \notin sent
          \/ conn.state = "SendingContent" /\ (r \in sent \/ Top("completing"))
  BY DEF PipesInOrder
<1>7. ASSUME Pipes' = Pipes, conn'.now = conn.now \/ conn'.now = conn.now + 1,
             Top("handle")' => conn'.now = conn.now + 1
      PROVE  \A r \in Pipes' : r <= conn'.now /\ (Top("handle")' => r < conn'.now)
  BY <1>3, <1>5, <1>7
<1>8. CASE Arrives \/ Idles \/ Tells
  <2>1. /\ SamePlace /\ ~Top("handle") /\ ~Top("completing") /\ MadePipe = {}
    BY <1>8 DEF Arrives, Idles, Tells, EventLoop, Top, MadePipe
  <2>2. ~Completes /\ ~Closes /\ LivePipes' = LivePipes
    BY <1>2, <2>1 DEF SamePlace, Completes, Closes, Open
  <2>3. /\ ~Top("handle")'
        /\ Top("readyRead")' \/ Top("finished")' => Who' \in Pipes'
    <3>1. CASE Arrives \/ Idles
      <4>1. PICK tops : Stack(frames', tops) /\ tops \subseteq {"payload", "completing", "dispatch"}
        BY <3>1 DEF Arrives, Idles
      <4>2. \A at : Top(at)' => at \in Waiting \cup {"payload", "completing", "dispatch"}
        BY <4>1, StackParts
      <4>3. QED
        BY <4>2 DEF Waiting
    <3>2. CASE Tells
      <4>1. PICK r \in LivePipes, at \in {"readyRead", "finished"} : frames' = <<Frame(at, r)>>
        BY <3>2 DEF Tells
      <4>2. Head(frames') = Frame(at, r)
        BY <4>1
      <4>3. QED
        BY <1>3, <4>1, <4>2 DEF Frame, Top, Who, LivePipes
    <3>3. QED
      BY <1>8, <3>1, <3>2
  <2>4. \A r \in Pipes' : r <= conn'.now /\ (Top("handle")' => r < conn'.now)
    BY <1>3, <1>7, <2>1, <2>3 DEF SamePlace
  <2>5. conn.state = "SendingHeaders" => sent' = sent
    BY <1>1, <2>1 DEF Slotted, PipesGo, SamePlace
  <2>6. \A r \in LivePipes' :
          /\ r = conn'.now /\ Current'.to = "proxy"
          /\ \/ conn'.state = "SendingHeaders" /\ r \notin sent'
             \/ conn'.state = "SendingContent" /\ (r \in sent' \/ Top("completing")')
    BY <1>2, <1>4, <1>6, <2>1, <2>2, <2>5 DEF SamePlace
  <2>7. (InService' /\ ~Top("handle")' /\ Current'.to = "proxy") => conn'.now \in LivePipes'
    BY <1>4, <2>1, <2>2 DEF PipesInOrder, SamePlace
  <2>8. QED
    BY <1>2, <2>3, <2>4, <2>6, <2>7 DEF PipesInOrder
<1>9. CASE Takes
  <2>1. /\ SamePlace /\ Top("handle") /\ conn.state = "SendingHeaders"
        /\ ~Top("readyRead") /\ ~Top("finished") /\ Stack(frames', {})
    BY <1>9 DEF Takes, StackShape, Top
  <2>2. /\ ~Top("handle")' /\ ~Top("readyRead")' /\ ~Top("finished")'
    BY <2>1, StackParts DEF Waiting
  <2>3. ~Completes /\ ~Closes /\ LivePipes' = LivePipes \cup MadePipe
    BY <1>2, <2>1 DEF SamePlace, Completes, Closes, Open
  <2>4. sent' = sent
    BY <1>1, <2>1 DEF Slotted, PipesGo
  <2>5. LivePipes = {}
    <3>1. LivePipes \subseteq Pipes
      BY DEF LivePipes
    <3>2. ASSUME NEW r \in LivePipes
          PROVE  FALSE
      <4>1. r = conn.now /\ r < conn.now
        BY <1>5, <1>6, <2>1, <3>1
      <4>2. QED
        BY <1>3, <4>1
    <3>3. QED
      BY <3>2
  <2>6. \A r \in Pipes' : r <= conn'.now
    BY <1>3, <1>5, <2>1 DEF MadePipe, SamePlace
  <2>7. \A r \in MadePipe : r = conn'.now /\ Current'.to = "proxy" /\ r \notin sent'
    BY <1>2, <1>4, <2>1, <2>4 DEF MadePipe, SamePlace
  <2>8. Current'.to = "proxy" => conn'.now \in MadePipe
    BY <1>4, <2>1 DEF MadePipe, SamePlace
  <2>9. QED
    BY <1>2, <2>1, <2>2, <2>3, <2>5, <2>6, <2>7, <2>8 DEF PipesInOrder, SamePlace
<1>10. CASE Heads
  <2>1. /\ WritesHeaders /\ conn.state = "SendingHeaders" /\ conn'.state = "SendingContent"
        /\ conn'.now = conn.now /\ Stack(frames', {"completing"})
    BY <1>10 DEF Heads, WritesHeaders
  <2>2. /\ ~Top("handle")' /\ ~Top("readyRead")' /\ ~Top("finished")'
    BY <2>1, StackParts DEF Waiting
  <2>3. /\ ~Completes /\ ~Closes /\ MadePipe = {}
        /\ Current.to = "proxy" =>
             /\ Top("readyRead") \/ Top("finished")
             /\ Who \notin broken /\ (Who \in sent' \/ Top("completing")')
    BY <1>10, <2>1 DEF Completes, Closes, Open, Heads, MadePipe, Top
  <2>4. LivePipes' = LivePipes /\ Current' = Current
    BY <1>2, <1>3, <2>1, <2>3 DEF Current
  <2>5. \A r \in Pipes' : r <= conn'.now
    BY <1>3, <1>5, <2>1, <2>3
  <2>6. Current.to = "proxy" => Who \in LivePipes
    BY <2>3 DEF PipesInOrder, LivePipes
  <2>7. \A r \in LivePipes' :
          /\ r = conn'.now /\ Current'.to = "proxy"
          /\ r \in sent' \/ Top("completing")'
    BY <1>6, <2>1, <2>3, <2>4, <2>6
  <2>8. Current'.to = "proxy" => conn'.now \in LivePipes'
    BY <1>6, <2>1, <2>4, <2>6
  <2>9. QED
    BY <1>2, <2>1, <2>2, <2>5, <2>7, <2>8 DEF PipesInOrder
<1>11. CASE Dispatches
  <2>1. /\ Top("dispatch") /\ Top("handle")' /\ ~Top("readyRead")' /\ ~Top("finished")'
        /\ ~Top("handle") /\ conn.state = "ReceivingHeaders"
        /\ conn'.state = "SendingHeaders" /\ conn'.now = conn.now + 1
    BY <1>11 DEF Dispatches, StackShape, Top
  <2>2. ~Completes /\ ~Closes /\ MadePipe = {}
    BY <2>1 DEF Completes, Closes, Open, MadePipe
  <2>3. LivePipes' = {} /\ Pipes' = Pipes
    BY <1>2, <1>3, <1>6, <2>1, <2>2
  <2>4. \A r \in Pipes' : r <= conn'.now /\ (Top("handle")' => r < conn'.now)
    BY <1>7, <2>1, <2>3
  <2>5. QED
    BY <1>2, <2>1, <2>3, <2>4 DEF PipesInOrder
<1>12. CASE Ends \/ Resumes \/ Drains \/ Cuts
  <2>1. /\ ~Top("handle") /\ conn'.now = conn.now
        /\ ~InService' /\ MadePipe = {}
    BY <1>12 DEF Ends, Resumes, Drains, Cuts, InService, MadePipe, Top
  <2>2. LivePipes' = {}
    <3>1. CASE Ends \/ Cuts
      BY <1>2, <3>1 DEF Ends, Cuts, Completes, Closes, Open
    <3>2. CASE Resumes \/ Drains
      BY <1>2, <1>6, <2>1, <3>2 DEF Resumes, Drains
    <3>3. QED
      BY <1>12, <3>1, <3>2
  <2>3. /\ ~Top("handle")' /\ ~Top("readyRead")' /\ ~Top("finished")'
    <3>1. PICK tops : Stack(frames', tops) /\ tops \subseteq {"completed", "dispatch"}
      BY <1>12 DEF Ends, Resumes, Drains, Cuts
    <3>2. \A at : Top(at)' => at \in Waiting \cup {"completed", "dispatch"}
      BY <3>1, StackParts
    <3>3. QED
      BY <3>2 DEF Waiting
  <2>4. \A r \in Pipes' : r <= conn'.now
    BY <1>3, <1>5, <2>1
  <2>5. QED
    BY <1>2, <2>1, <2>2, <2>3, <2>4 DEF PipesInOrder
<1>13. QED
  BY <1>1, <1>8, <1>9, <1>10, <1>11, <1>12 DEF Kinds

(***************************************************************************)
(* The calls that a step leaves.                                           *)
(***************************************************************************)

\* The calls that need not be looked at, as their places say nothing of what
\* they write.
Ordinary(S) ==
  \A at \in {"dispatch", "handle", "completing", "completed", "tail", "readyRead",
             "finished", "ended", "payload", "written"}, of \in Nat :
    Frame(at, of) \in S

\* What writeHeaders() has done when it returns.
LEMMA HeadersCalls ==
  ASSUME NEW status, NEW length, NEW chunkedHeader, NEW then \in Seq(Frames),
         conn.state = "SendingHeaders", WriteHeaders(status, length, chunkedHeader, then)
  PROVE  frames' = IF length = 0 \/ Current.head
                   THEN <<Frame("completing", 0)>> \o (<<Frame("tail", 0)>> \o then)
                   ELSE <<Frame("tail", 0)>> \o then
<1> DEFINE c == <<Frame("completing", 0)>>
           t == <<Frame("tail", 0)>>
<1>1. frames' = (IF length = 0 \/ Current.head THEN c ELSE <<>>) \o t \o then
  BY DEF WriteHeaders
<1>2. c \in Seq(Frames) /\ t \in Seq(Frames)
  BY Calls
<1> HIDE DEF c, t
<1>3. (c \o t) \o then = c \o (t \o then)
  BY <1>2, ConcatAssociative, SMTT(40)
<1>4. <<>> \o t = t
  BY <1>2, NothingPushed
<1>5. QED
  BY <1>1, <1>3, <1>4 DEF c, t

\* One call or two in front of others.
LEMMA PushedCalls ==
  ASSUME NEW S, NEW s \in Seq(S), NEW f \in S, NEW g \in S
  PROVE  /\ <<f>> \o s \in Seq(S) /\ <<>> \o s \in Seq(S)
         /\ (<<f>> \o <<g>>) \o s \in Seq(S)
         /\ (<<>> \o <<g>>) \o s \in Seq(S)
  OBVIOUS

\* The calls that writeHeaders() leaves.
LEMMA HeadersPush ==
  ASSUME NEW S, Ordinary(S), NEW then \in Seq(S),
         NEW status, NEW length, NEW chunkedHeader,
         WriteHeaders(status, length, chunkedHeader, then)
  PROVE  frames' \in Seq(S)
<1> DEFINE c == Frame("completing", 0)
           t == Frame("tail", 0)
<1>1. c \in S /\ t \in S
  BY DEF Ordinary
<1>2. \/ frames' = then
      \/ frames' = (<<c>> \o <<t>>) \o then
      \/ frames' = (<<>> \o <<t>>) \o then
  BY DEF WriteHeaders, Ignored
<1> HIDE DEF c, t
<1>3. QED
  BY <1>1, <1>2, PushedCalls

\* The calls that writeContent() leaves.
LEMMA ContentPush ==
  ASSUME NEW S, Ordinary(S), NEW then \in Seq(S), NEW content,
         WriteContent(content, then)
  PROVE  frames' \in Seq(S)
<1> DEFINE c == Frame("completing", 0)
<1>1. c \in S
  BY DEF Ordinary
<1>2. frames' = then \/ frames' = <<c>> \o then \/ frames' = <<>> \o then
  BY DEF WriteContent, Ignored
<1> HIDE DEF c
<1>3. QED
  BY <1>1, <1>2, PushedCalls

\* The calls that writeResponse() leaves.
LEMMA ResponsePush ==
  ASSUME NEW S, Ordinary(S), NEW then \in Seq(S), NEW status,
         NEW content, content # <<>> => ContentFrame(content) \in S,
         WriteResponse(status, content, then)
  PROVE  frames' \in Seq(S)
<1> DEFINE c == ContentFrame(content)
           s == (IF content # <<>> THEN <<c>> ELSE <<>>) \o then
<1>1. frames' = then \/ WriteHeaders(status, Len(content), FALSE, s)
  BY DEF WriteResponse, Ignored
<1>2. content # <<>> => c \in S
  OBVIOUS
<1>3. s \in Seq(S)
  <2> HIDE DEF c
  <2>1. QED
    BY <1>2
<1> DEFINE length == Len(content)
<1> HIDE DEF s, length
<1>4. frames' = then \/ WriteHeaders(status, length, FALSE, s)
  BY <1>1 DEF length
<1>5. QED
  BY <1>3, <1>4, HeadersPush

\* The handlers' own responses.
Answers == HandleFixed \/ HandleFile \/ HandleMissing \/ FunctionAnswers

\* What is below the call that runs goes on, and the new calls are ordinary, but
\* those that the handlers and the pipe make to go on themselves.
LEMMA CallsGo ==
  ASSUME TypeOK, InOrder, StackShape, Next, NEW S, Ordinary(S),
         frames # <<>> => Below \in Seq(S),
         HandleLargeFile => Frame("transfer", conn.now) \in S,
         ReadyRead => Frame("pump", Who) \in S,
         Answers => \A content \in Seq(Units) : ContentFrame(content) \in S
  PROVE  frames' \in Seq(S)
<1>1. <<>> \in Seq(S) /\ <<>> \in Seq(Units)
  OBVIOUS
<1>2. ASSUME NEW at \in {"dispatch", "handle", "completing", "completed", "tail",
                         "readyRead", "finished", "ended", "payload", "written"},
             NEW of \in Nat
      PROVE  Frame(at, of) \in S
  BY <1>2 DEF Ordinary
<1>3. ASSUME NEW f \in S PROVE <<f>> \in Seq(S)
  OBVIOUS
<1>4. ASSUME NEW f \in S, frames # <<>>
      PROVE  <<f>> \o Below \in Seq(S) /\ <<>> \o Below \in Seq(S)
  BY <1>4, PushedCalls
<1>5. 0 \in Nat
  OBVIOUS
<1>6. frames # <<>> => Head(frames).content \in Seq(Units)
  BY Running
<1>8. CASE ConnectionStep
  <2>1. ConnNext
    BY <1>8 DEF ConnectionStep
  <2>2. CASE RequestArrives \/ DeviceWrites \/ PeerCloses
    <3>1. frames' = <<>> \/ frames' = <<Frame("dispatch", 0)>>
      BY <2>2 DEF RequestArrives, DeviceWrites, PeerCloses, EventLoop
    <3>2. QED
      BY <1>1, <1>2, <1>3, <1>5, <3>1
  <2>3. CASE Dispatch
    <3>1. frames # <<>> /\ frames' = <<Frame("handle", 0)>> \o Below
      BY <2>3 DEF Dispatch, Top
    <3>2. Frame("handle", 0) \in S
      BY <1>2, <1>5
    <3>3. QED
      BY <1>4, <3>1, <3>2
  <2>4. CASE CompleteResponse
    <3>1. frames # <<>> /\ (frames' = <<Frame("completed", 0)>> \o Below \/ frames' = Below)
      BY <2>4 DEF CompleteResponse, Top
    <3>2. Frame("completed", 0) \in S
      BY <1>2, <1>5
    <3>3. QED
      BY <1>4, <3>1, <3>2
  <2>5. CASE NextRequest
    <3>1. frames # <<>> /\ (frames' = <<Frame("dispatch", 0)>> \o Below \/ frames' = <<>> \o Below)
      BY <2>5 DEF NextRequest, Top
    <3>2. Frame("dispatch", 0) \in S
      BY <1>2, <1>5
    <3>3. QED
      BY <1>4, <3>1, <3>2
  <2>6. CASE FlushAndClose \/ SendingContentTail
    BY <2>6 DEF FlushAndClose, SendingContentTail, Top
  <2>7. CASE WriteResponseTail
    BY <2>7, ContentPush DEF WriteResponseTail, Top
  <2>8. QED
    BY <2>1, <2>2, <2>3, <2>4, <2>5, <2>6, <2>7 DEF ConnNext
<1>9. CASE HandlerStep
  <2>1. Handle
    BY <1>9 DEF HandlerStep
  <2>2. CASE Answers
    <3>1. ASSUME NEW status, NEW content \in Seq(Units), NEW then \in Seq(S),
                 WriteResponse(status, content, then)
          PROVE  frames' \in Seq(S)
      BY <2>2, <3>1, ResponsePush
    <3> DEFINE all == Content(conn.now, 0, Current.size)
               one == Content(conn.now, 0, 1)
               none == <<>>
    <3>2. /\ none \in Seq(S) /\ none \in Seq(Units)
          /\ Top("handle") => Below \in Seq(S)
      BY DEF Top
    <3>3. \/ /\ Top("handle")
             /\ \/ WriteResponse(200, all, Below) \/ WriteResponse(304, none, Below)
                \/ WriteResponse(403, one, Below) \/ WriteResponse(404, one, Below)
          \/ conn.state = "SendingHeaders" /\ WriteResponse(200, all, none)
      BY <2>2 DEF Answers, HandleFixed, HandleFile, HandleMissing, FunctionAnswers, Handling
    <3>4. Top("handle") => all \in Seq(Units) /\ one \in Seq(Units)
      BY Handled
    <3>5. conn.state = "SendingHeaders" => all \in Seq(Units)
      <4>1. conn.state = "SendingHeaders" => Current \in Request /\ conn.now \in Nat
        BY Served DEF InOrder
      <4>2. conn.state = "SendingHeaders" => Current.size \in Int /\ 0 \in Nat
        BY <4>1 DEF Request
      <4>3. QED
        BY <4>1, <4>2, ContentTyped
    <3> HIDE DEF all, one, none
    <3>6. QED
      BY <3>1, <3>2, <3>3, <3>4, <3>5
  <2>3. CASE HandleFunction
    BY <2>3 DEF HandleFunction, Handling, Top
  <2>4. CASE HandleLargeFile
    <3> DEFINE f == Frame("transfer", conn.now)
               n == Current.size
    <3>1. f \in S /\ frames # <<>> /\ WriteHeaders(200, n, FALSE, <<f>> \o Below)
      BY <2>4 DEF HandleLargeFile, Handling, Top
    <3> HIDE DEF f, n
    <3>2. <<f>> \o Below \in Seq(S)
      BY <1>4, <3>1
    <3>3. QED
      BY <3>1, <3>2, HeadersPush
  <2>5. CASE StartTransfer
    <3>1. /\ frames # <<>> /\ frames' = <<Frame("payload", Len(transfers) + 1)>> \o Below
          /\ Len(transfers) + 1 \in Nat
      BY <2>5 DEF StartTransfer, Top, TypeOK
    <3>2. Frame("payload", Len(transfers) + 1) \in S
      BY <1>2, <3>1
    <3>3. QED
      BY <1>4, <3>1, <3>2
  <2>6. CASE WriteNextPayload
    <3>1. Top("payload") /\ frames # <<>>
      BY <2>6 DEF WriteNextPayload, Top
    <3>2. Who \in Nat
      BY <3>1, Running DEF Transfers
    <3> DEFINE f == Frame("written", Who)
               content == Content(transfers[Who], position[Who], position[Who] + Payload(Who))
    <3>3. f \in S
      BY <1>2, <3>2
    <3>4. WriteContent(content, <<f>> \o Below) \/ frames' = Below
      BY <2>6 DEF WriteNextPayload, Ignored
    <3> HIDE DEF f, content
    <3>5. <<f>> \o Below \in Seq(S)
      BY <1>4, <3>1, <3>3
    <3>6. QED
      BY <3>1, <3>4, <3>5, ContentPush
  <2>7. QED
    BY <2>1, <2>2, <2>3, <2>4, <2>5, <2>6 DEF Handle, Answers
<1>10. CASE HandlerTurn /\ UNCHANGED proxyVars
  <2>1. CASE PayloadWritten
    BY <2>1 DEF PayloadWritten, Top
  <2>2. CASE DeliverPayloadCall
    <3>1. frames' = <<>> \/ frames' = <<Frame("payload", Head(posted).of)>>
      BY <2>2 DEF DeliverPayloadCall
    <3>2. Head(posted).of \in Nat
      <4>1. posted # <<>> /\ Head(posted).kind = "payload"
        BY <2>2 DEF DeliverPayloadCall
      <4>2. Head(posted).of \in Transfers
        BY <4>1, FirstEvent
      <4>3. QED
        BY <4>2 DEF Transfers
    <3>3. Frame("payload", Head(posted).of) \in S
      BY <1>2, <3>2
    <3>4. QED
      BY <1>1, <1>3, <3>1, <3>3
  <2>3. CASE DeleteTransfer \/ FileIsChanged
    BY <1>1, <2>3 DEF DeleteTransfer, FileIsChanged, EventLoop, connVars
  <2>4. QED
    BY <1>10, <2>1, <2>2, <2>3 DEF HandlerTurn, TransferEvent
<1>11. CASE ReplyIsDeleted
  BY <1>1, <1>11 DEF ReplyIsDeleted, EventLoop, connVars
<1>12. CASE ProxyStep
  <2>1. ProxyNext
    BY <1>12 DEF ProxyStep
  <2>2. CASE HandleProxied
    BY <2>2 DEF HandleProxied, Top
  <2>3. CASE UpstreamContent \/ UpstreamEnds
    <3>1. PICK r \in LivePipes, at \in {"readyRead", "finished"} : frames' = <<Frame(at, r)>>
      BY <2>3 DEF UpstreamContent, UpstreamEnds
    <3>2. r \in Nat
      BY DEF LivePipes, Pipes, TypeOK, Requests
    <3>3. Frame(at, r) \in S
      BY <1>2, <3>2
    <3>4. QED
      BY <1>3, <3>1, <3>3
  <2>4. CASE ReadyRead \/ FinishedWell
    <3>1. frames # <<>> /\ (Top("readyRead") \/ Top("finished"))
      BY <2>4 DEF ReadyRead, FinishedWell, Top
    <3>2. Who \in Nat
      BY <3>1, Running DEF Requests
    <3>3. PICK f \in S : SendHeaders(Who, <<f>> \o Below)
      <4>1. CASE ReadyRead
        BY <4>1 DEF ReadyRead
      <4>2. CASE FinishedWell
        <5>1. Frame("ended", Who) \in S
          BY <1>2, <3>2
        <5>2. QED
          BY <4>2, <5>1 DEF FinishedWell
      <4>3. QED
        BY <2>4, <4>1, <4>2
    <3> DEFINE s == <<f>> \o Below
    <3>4. s \in Seq(S) /\ SendHeaders(Who, s)
      BY <1>4, <3>1, <3>3
    <3> HIDE DEF s
    <3>5. frames' = s \/ \E status, length, chunkedHeader :
                           WriteHeaders(status, length, chunkedHeader, s)
      BY <3>4 DEF SendHeaders, Ignored
    <3>6. QED
      BY <3>4, <3>5, HeadersPush
  <2>5. CASE Pump
    <3>1. frames # <<>>
      BY <2>5 DEF Pump, Top
    <3>2. frames' = Below \/ \E content : WriteContent(content, Below)
      BY <2>5 DEF Pump, Ignored
    <3>3. QED
      BY <3>1, <3>2, ContentPush
  <2>6. CASE EndContent
    BY <2>6 DEF EndContent, Top
  <2>7. CASE FinishedBadly
    <3> DEFINE none == <<>>
    <3>1. /\ frames # <<>> /\ none = <<>>
          /\ frames' = Below \/ WriteResponse(503, none, Below)
      BY <2>7 DEF FinishedBadly, Ignored, Top
    <3> HIDE DEF none
    <3>2. QED
      BY <3>1, ResponsePush
  <2>8. QED
    BY <2>1, <2>2, <2>3, <2>4, <2>5, <2>6, <2>7 DEF ProxyNext
<1>13. QED
  BY <1>8, <1>9, <1>10, <1>11, <1>12 DEF Next

\* Calls of any kind.
AnyCalls ==
  [at : {"dispatch", "handle", "completing", "completed", "tail", "content", "transfer",
         "readyRead", "finished", "pump", "ended", "payload", "written"},
   of : Nat, content : Seq(Units)]

\* Every call on the stack, and every call that a step makes, is one of them.
LEMMA CallsAreAny ==
  /\ Frames \subseteq AnyCalls
  /\ \A at \in {"dispatch", "handle", "completing", "completed", "tail", "transfer",
               "readyRead", "finished", "pump", "ended", "payload", "written"},
       of \in Nat : Frame(at, of) \in AnyCalls /\ Frame(at, of).at = at
  /\ \A content \in Seq(Units) :
       ContentFrame(content) \in AnyCalls /\ ContentFrame(content).at = "content"
<1>1. <<>> \in Seq(Units) /\ Requests \subseteq Nat /\ Transfers \subseteq Nat
  BY DEF Requests, Transfers
<1>2. Frames \subseteq AnyCalls
  <2>1. ConnFrames \subseteq AnyCalls
    BY DEF ConnFrames, AnyCalls
  <2>2. RequestFrames \subseteq AnyCalls
    BY <1>1 DEF RequestFrames, AnyCalls
  <2>3. TransferFrames \subseteq AnyCalls
    BY <1>1 DEF TransferFrames, AnyCalls
  <2>4. QED
    BY <2>1, <2>2, <2>3 DEF Frames
<1>3. QED
  BY <1>1, <1>2 DEF AnyCalls, Frame, ContentFrame

\* A step that makes no call of a kind leaves none, if none waits.
LEMMA NoneMade ==
  ASSUME TypeOK, InOrder, StackShape, Next, NEW at \in {"transfer", "pump", "content"},
         \A i \in DOMAIN frames : i = 1 \/ frames[i].at # at,
         at = "transfer" => ~HandleLargeFile, at = "pump" => ~ReadyRead,
         at = "content" => ~Answers
  PROVE  \A i \in DOMAIN frames' : frames'[i].at # at
<1> DEFINE S == {f \in AnyCalls : f.at # at}
<1>1. Ordinary(S)
  BY CallsAreAny DEF Ordinary
<1>2. frames # <<>> => Below \in Seq(S)
  <2>1. SUFFICES ASSUME frames # <<>> PROVE Below \in Seq(S)
    OBVIOUS
  <2>2. /\ Below \in Seq(Frames) /\ Len(frames) \in Nat \ {0} /\ Len(Below) = Len(frames) - 1
        /\ \A i \in 1 .. Len(frames) - 1 : Below[i] = frames[i + 1]
    BY <2>1, Popped DEF TypeOK, Below
  <2>3. DOMAIN frames = 1 .. Len(frames)
    BY DEF TypeOK
  <2>4. ASSUME NEW i \in 1 .. Len(Below) PROVE Below[i] \in S
    <3>1. i + 1 \in DOMAIN frames /\ i + 1 # 1 /\ Below[i] = frames[i + 1]
      BY <2>2, <2>3
    <3>2. Below[i] \in AnyCalls
      BY <2>2, CallsAreAny
    <3>3. QED
      BY <3>1, <3>2
  <2> HIDE DEF S
  <2>5. QED
    BY <2>2, <2>4
<1>3. HandleLargeFile => Frame("transfer", conn.now) \in S
  <2>1. conn.now \in Nat
    BY Served
  <2>2. QED
    BY <2>1, CallsAreAny
<1>4. ReadyRead => Frame("pump", Who) \in S
  <2>1. ReadyRead => Who \in Nat
    BY Running DEF ReadyRead, Top, Requests
  <2>2. QED
    BY <2>1, CallsAreAny
<1>5. Answers => \A content \in Seq(Units) : ContentFrame(content) \in S
  BY CallsAreAny
<1>6. frames' \in Seq(S)
  <2> HIDE DEF S
  <2>1. QED
    BY <1>1, <1>2, <1>3, <1>4, <1>5, CallsGo
<1>7. \A i \in DOMAIN frames' : frames'[i] \in S
  <2> HIDE DEF S
  <2>1. QED
    BY <1>6
<1>8. QED
  BY <1>7

\* What transitionToSendingContent() returns to has lost nothing.
LEMMA TailReturns ==
  ASSUME TypeOK, Next, Top("tail")
  PROVE  /\ frames # <<>> /\ frames' = Below /\ answers' = answers
         /\ conn'.now = conn.now /\ conn'.state = conn.state
         /\ conn'.sent = conn.sent /\ conn'.length = conn.length
         /\ pipeline' = pipeline /\ transfers' = transfers
<1>1. frames # <<>> /\ ~EventLoop
  BY DEF Top, EventLoop
<1>2. SendingContentTail /\ transfers' = transfers
  BY <1>1 DEF Next, ConnectionStep, ConnNext, RequestArrives, Dispatch,
     CompleteResponse, NextRequest, FlushAndClose, WriteResponseTail,
     DeviceWrites, PeerCloses, HandlerStep, Handle, HandleFixed, HandleFunction, HandleFile,
     HandleMissing, HandleLargeFile, Handling, StartTransfer, WriteNextPayload,
     FunctionAnswers,
     HandlerTurn, TransferEvent, PayloadWritten, DeliverPayloadCall, DeleteTransfer,
     FileIsChanged, ProxyStep, ProxyNext, HandleProxied, UpstreamContent, UpstreamEnds,
     ReadyRead, FinishedWell, Pump, EndContent, FinishedBadly, ReplyIsDeleted, Top
<1>3. conn \in Connection
  BY DEF TypeOK
<1>4. QED
  BY <1>1, <1>2, <1>3 DEF SendingContentTail, Connection

\* Two calls in front of others.
Follow(u, f, g, s) ==
  /\ u # <<>> /\ Head(u) = f
  /\ \A i \in DOMAIN u :
       \/ i = 1 /\ u[i] = f
       \/ i = 2 /\ u[i] = g
       \/ \E j \in DOMAIN s : i = j + 2 /\ u[i] = s[j]

\* Two calls are pushed one after the other.
LEMMA TwoPushed ==
  ASSUME NEW s \in Seq(Frames), NEW f \in Frames, NEW g \in Frames
  PROVE  Follow(<<f>> \o (<<g>> \o s), f, g, s)
<1> DEFINE t == <<g>> \o s
           u == <<f>> \o t
<1>1. /\ t \in Seq(Frames) /\ Len(t) = Len(s) + 1 /\ t[1] = g /\ Len(s) \in Nat
      /\ \A i \in 2 .. Len(s) + 1 : t[i] = s[i - 1] /\ i - 1 \in 1 .. Len(s)
  BY Pushed
<1> HIDE DEF t
<1>2. /\ u \in Seq(Frames) /\ u # <<>> /\ Head(u) = f /\ Len(u) = Len(t) + 1 /\ u[1] = f
      /\ \A i \in 2 .. Len(t) + 1 : u[i] = t[i - 1] /\ i - 1 \in 1 .. Len(t)
  BY <1>1, Pushed
<1> HIDE DEF u
<1>3. DOMAIN u = 1 .. Len(s) + 2 /\ DOMAIN s = 1 .. Len(s)
  BY <1>1, <1>2
<1>4. ASSUME NEW i \in DOMAIN u
      PROVE  \/ i = 1 /\ u[i] = f
             \/ i = 2 /\ u[i] = g
             \/ \E j \in DOMAIN s : i = j + 2 /\ u[i] = s[j]
  <2>1. CASE i = 1
    BY <1>2, <2>1
  <2>2. CASE i = 2
    BY <1>1, <1>2, <2>2
  <2>3. CASE i \in 3 .. Len(s) + 2
    <3> DEFINE j == i - 2
    <3>1. j \in DOMAIN s /\ i = j + 2 /\ i - 1 = j + 1 /\ j = (i - 1) - 1
      BY <1>1, <1>3, <2>3
    <3>2. i - 1 \in 2 .. Len(s) + 1 /\ i \in 2 .. Len(t) + 1
      BY <1>1, <2>3
    <3>3. u[i] = t[i - 1] /\ t[i - 1] = s[(i - 1) - 1]
      BY <1>1, <1>2, <3>2
    <3> HIDE DEF j
    <3>4. QED
      BY <3>1, <3>3
  <2>4. QED
    BY <1>1, <1>3, <2>1, <2>2, <2>3
<1>5. Follow(u, f, g, s)
  BY <1>2, <1>4 DEF Follow
<1>6. QED
  BY <1>5 DEF t, u

(***************************************************************************)
(* What is deleted: the calls that make transfers.                         *)
(***************************************************************************)

\* The call that makes a transfer is made after the headers of its response.
LEMMA TransferCallStep ==
  ASSUME TypeOK, InOrder, StackShape, NoHeadOfFiles, TransferCallInPlace, Next
  PROVE  TransferCallInPlace'
<1>1. frames # <<>> =>
        /\ Below \in Seq(Frames)
        /\ \A i \in DOMAIN Below : /\ i \in Nat \ {0} /\ i + 1 \in DOMAIN frames
                                   /\ Below[i] = frames[i + 1]
  <2>1. SUFFICES ASSUME frames # <<>>
                 PROVE  /\ Below \in Seq(Frames)
                        /\ \A i \in DOMAIN Below : /\ i \in Nat \ {0} /\ i + 1 \in DOMAIN frames
                                                   /\ Below[i] = frames[i + 1]
    OBVIOUS
  <2>2. /\ Below \in Seq(Frames) /\ Len(frames) \in Nat \ {0} /\ Len(Below) = Len(frames) - 1
        /\ \A i \in 1 .. Len(frames) - 1 : Below[i] = frames[i + 1]
    BY <2>1, Popped DEF TypeOK, Below
  <2>3. DOMAIN frames = 1 .. Len(frames) /\ DOMAIN Below = 1 .. Len(frames) - 1
    BY <2>2 DEF TypeOK
  <2>4. QED
    BY <2>2, <2>3
<1>2. CASE HandleLargeFile
  <2>1. /\ Top("handle") /\ frames # <<>>
        /\ Current.to = "file" /\ Current.variant = "plain" /\ ~SmallFile
    BY <1>2 DEF HandleLargeFile, Handling, Top
  <2> DEFINE f == Frame("transfer", conn.now)
             t == Frame("tail", 0)
             s == <<f>> \o Below
             n == Current.size
  <2>2. WriteHeaders(200, n, FALSE, s)
    BY <1>2 DEF HandleLargeFile
  <2>3. conn.state = "SendingHeaders" /\ conn.now \in Requests /\ n \in Nat
        /\ Waits(Below)
    BY <2>1, Handled
  <2>4. /\ f \in Frames /\ f.at = "transfer" /\ f.of = conn.now
        /\ t \in Frames /\ t.at = "tail"
    BY <2>3, Calls DEF Frame
  <2>5. s \in Seq(Frames) /\ Waits(s)
    <3>1. f.at \in Waiting
      BY <2>4 DEF Waiting
    <3>2. QED
      BY <1>1, <2>1, <2>3, <2>4, <3>1, OnTop, Pushed
  <2>6. n # 0
    BY <2>1, <2>3, BufferAssumption DEF SmallFile
  <2>7. ~Current.head
    <3>1. conn.now \in DOMAIN pipeline /\ pipeline \in Pipelines
      BY <2>3, Served DEF Requests, TypeOK
    <3>2. QED
      BY <2>1, <3>1 DEF NoHeadOfFiles, Current, SmallFile
  <2>8. \A i \in DOMAIN Below : Below[i].at # "transfer"
    BY <1>1, <2>1, <2>3 DEF TransferCallInPlace
  <2> HIDE DEF n
  <2>9. conn'.state = "SendingContent" /\ conn'.now = conn.now
    <3>1. 200 \in Nat /\ n \in Int /\ FALSE \in BOOLEAN
      BY <2>3
    <3> HIDE DEF s
    <3>2. WritesHeaders
      BY <2>2, <2>3, <2>5, <3>1, WriteHeadersKind
    <3>3. QED
      BY <3>2 DEF WritesHeaders
  <2>10. frames' = <<t>> \o s
    <3> HIDE DEF s
    <3>1. QED
      BY <2>2, <2>3, <2>5, <2>6, <2>7, HeadersCalls
  <2> HIDE DEF f, t
  <2>11. Follow(frames', t, f, Below)
    BY <1>1, <2>1, <2>4, <2>10, TwoPushed
  <2>12. Top("tail")'
    BY <2>4, <2>11 DEF Top, Follow
  <2>13. \A i \in DOMAIN frames' : frames'[i].at = "transfer" =>
           i = 2 /\ frames'[i].of = conn.now
    BY <2>4, <2>8, <2>11 DEF Follow
  <2>14. QED
    BY <2>9, <2>12, <2>13 DEF TransferCallInPlace
<1>3. CASE Top("tail")
  <2>1. /\ frames # <<>> /\ frames' = Below
        /\ conn'.state = conn.state /\ conn'.now = conn.now
    BY <1>3, TailReturns
  <2>2. ASSUME NEW i \in DOMAIN Below, Below[i].at = "transfer"
        PROVE  Below[i].of = conn.now /\ conn.state = "SendingContent" /\ i = 1
    <3>1. i \in Nat \ {0} /\ i + 1 \in DOMAIN frames /\ Below[i] = frames[i + 1]
      BY <1>1, <2>1
    <3>2. frames[i + 1].at = "transfer"
      BY <2>2, <3>1
    <3>3. /\ frames[i + 1].of = conn.now /\ conn.state = "SendingContent"
          /\ i + 1 = 1 \/ i + 1 = 2
      BY <3>1, <3>2 DEF TransferCallInPlace
    <3>4. QED
      BY <3>1, <3>3
  <2>3. QED
    BY <2>1, <2>2 DEF TransferCallInPlace
<1>4. CASE ~HandleLargeFile /\ ~Top("tail")
  <2>1. \A i \in DOMAIN frames : i = 1 \/ frames[i].at # "transfer"
    BY <1>4 DEF TransferCallInPlace
  <2>2. \A i \in DOMAIN frames' : frames'[i].at # "transfer"
    BY <1>4, <2>1, NoneMade
  <2>3. QED
    BY <2>2 DEF TransferCallInPlace
<1>5. QED
  BY <1>2, <1>3, <1>4

(***************************************************************************)
(* What is deleted: the events posted for it.                              *)
(***************************************************************************)

IsPosted(more) ==
  /\ \A e : Posted(e) => Posted(e)'
  /\ \A i \in DOMAIN more : Posted(more[i])'
  /\ \A i \in DOMAIN posted' :
       \/ \E j \in DOMAIN posted : posted'[i] = posted[j]
       \/ \E j \in DOMAIN more : posted'[i] = more[j]

\* What is posted stays posted when more is.
LEMMA PostedMore ==
  ASSUME NEW S, posted \in Seq(S), NEW more \in Seq(S), posted' = posted \o more
  PROVE  IsPosted(more)
<1>1. /\ Len(posted') = Len(posted) + Len(more) /\ posted' \in Seq(S)
      /\ Len(posted) \in Nat /\ Len(more) \in Nat
      /\ \A i \in 1 .. Len(posted) : posted'[i] = posted[i]
      /\ \A i \in 1 .. Len(more) : posted'[Len(posted) + i] = more[i]
  BY Joined
<1>2. /\ DOMAIN posted = 1 .. Len(posted) /\ DOMAIN more = 1 .. Len(more)
      /\ DOMAIN posted' = 1 .. Len(posted) + Len(more)
  BY <1>1
<1>3. ASSUME NEW e, Posted(e)
      PROVE  Posted(e)'
  <2>1. PICK i \in 1 .. Len(posted) : posted[i] = e
    BY <1>2, <1>3 DEF Posted
  <2>2. i \in DOMAIN posted' /\ posted'[i] = e
    BY <1>1, <1>2, <2>1
  <2>3. QED
    BY <2>2 DEF Posted
<1>4. ASSUME NEW i \in DOMAIN more
      PROVE  Posted(more[i])'
  <2>1. Len(posted) + i \in DOMAIN posted' /\ posted'[Len(posted) + i] = more[i]
    BY <1>1, <1>2
  <2>2. QED
    BY <2>1 DEF Posted
<1>5. ASSUME NEW i \in DOMAIN posted'
      PROVE  \/ \E j \in DOMAIN posted : posted'[i] = posted[j]
             \/ \E j \in DOMAIN more : posted'[i] = more[j]
  <2>1. CASE i \in 1 .. Len(posted)
    BY <1>1, <1>2, <2>1
  <2>2. CASE i \notin 1 .. Len(posted)
    <3>1. i - Len(posted) \in 1 .. Len(more) /\ i = Len(posted) + (i - Len(posted))
      BY <1>1, <1>2, <2>2
    <3>2. QED
      BY <1>1, <1>2, <3>1
  <2>3. QED
    BY <2>1, <2>2
<1>6. QED
  BY <1>3, <1>4, <1>5 DEF IsPosted

\* One event is posted.
LEMMA PostedOne ==
  ASSUME NEW S, posted \in Seq(S), NEW e \in S, posted' = Append(posted, e)
  PROVE  /\ \A x : Posted(x) => Posted(x)'
         /\ Posted(e)'
         /\ \A i \in DOMAIN posted' :
              posted'[i] = e \/ \E j \in DOMAIN posted : posted'[i] = posted[j]
<1> DEFINE more == <<e>>
<1>1. posted' = posted \o more
  BY Added
<1>2. DOMAIN more = {1} /\ more[1] = e /\ more \in Seq(S)
  OBVIOUS
<1> HIDE DEF more
<1>3. /\ \A x : Posted(x) => Posted(x)'
      /\ \A i \in DOMAIN more : Posted(more[i])'
      /\ \A i \in DOMAIN posted' :
            \/ \E j \in DOMAIN posted : posted'[i] = posted[j]
            \/ \E j \in DOMAIN more : posted'[i] = more[j]
  <2>1. IsPosted(more)
    BY <1>1, <1>2, PostedMore
  <2>2. QED
    BY <2>1 DEF IsPosted
<1>4. QED
  BY <1>2, <1>3

\* And when the first event is delivered, but for that one.
LEMMA PostedRest ==
  ASSUME NEW S, posted \in Seq(S), posted # <<>>, posted' = Tail(posted)
  PROVE  /\ \A e : Posted(e) /\ e # Head(posted) => Posted(e)'
         /\ \A i \in DOMAIN posted' : \E j \in DOMAIN posted : posted'[i] = posted[j]
         /\ \E j \in DOMAIN posted : Head(posted) = posted[j]
<1>1. /\ Len(posted) \in Nat \ {0} /\ Len(posted') = Len(posted) - 1
      /\ posted' \in Seq(S) /\ Head(posted) = posted[1]
      /\ \A i \in 1 .. Len(posted) - 1 : posted'[i] = posted[i + 1]
  BY Popped
<1>2. DOMAIN posted = 1 .. Len(posted) /\ DOMAIN posted' = 1 .. Len(posted) - 1
  BY <1>1
<1>3. ASSUME NEW e, Posted(e), e # Head(posted)
      PROVE  Posted(e)'
  <2>1. PICK i \in 1 .. Len(posted) : posted[i] = e
    BY <1>2, <1>3 DEF Posted
  <2>2. i - 1 \in 1 .. Len(posted) - 1 /\ i = (i - 1) + 1
    BY <1>1, <1>3, <2>1
  <2>3. posted'[i - 1] = e
    BY <1>1, <2>1, <2>2
  <2>4. QED
    BY <1>2, <2>2, <2>3 DEF Posted
<1>4. ASSUME NEW i \in DOMAIN posted'
      PROVE  \E j \in DOMAIN posted : posted'[i] = posted[j]
  <2>1. i + 1 \in DOMAIN posted
    BY <1>1, <1>2
  <2>2. QED
    BY <1>1, <1>2, <2>1
<1>5. QED
  BY <1>1, <1>2, <1>3, <1>4

\* The replies that the managers have, with one more.
LEMMA OneMoreReply ==
  ASSUME managers \in Seq(SUBSET Requests), NEW r \in Requests
  PROVE  /\ \E i \in DOMAIN Assigned(r) : r \in Assigned(r)[i]
         /\ \A i \in DOMAIN managers :
              i \in DOMAIN Assigned(r) /\ managers[i] \subseteq Assigned(r)[i]
         /\ \A i \in DOMAIN Assigned(r) : \A x \in Assigned(r)[i] :
              x = r \/ (i \in DOMAIN managers /\ x \in managers[i])
<1> DEFINE free == {i \in DOMAIN managers : Cardinality(managers[i]) < RepliesPerManager}
           first == CHOOSE j \in free : \A k \in free : j <= k
           n == Len(managers)
<1>1. n \in Nat /\ DOMAIN managers = 1 .. n
  OBVIOUS
<1>2. CASE free = {}
  <2>1. Assigned(r) = Append(managers, {r})
    BY <1>2 DEF Assigned
  <2>2. {r} \in SUBSET Requests
    OBVIOUS
  <2> DEFINE all == Append(managers, {r})
  <2>3. /\ DOMAIN all = 1 .. n + 1 /\ all[n + 1] = {r}
        /\ \A i \in 1 .. n : all[i] = managers[i]
    BY <2>2
  <2> HIDE DEF all, n
  <2>4. \A i \in 1 .. n + 1 : i \in 1 .. n \/ i = n + 1
    BY <1>1
  <2>5. n + 1 \in DOMAIN all /\ \A i \in 1 .. n : i \in 1 .. n + 1
    BY <1>1, <2>3
  <2>6. QED
    BY <1>1, <2>1, <2>3, <2>4, <2>5 DEF all
<1>3. CASE free # {}
  <2>1. \E j \in free : \A k \in free : j <= k
    <3>1. free \subseteq Nat
      BY <1>1
    <3> HIDE DEF free
    <3> DEFINE R == OpToRel(<, Nat)
    <3>2. IsWellFoundedOn(R, Nat)
      BY NatLessThanWellFounded
    <3>3. \A x, y \in Nat : x < y => <<x, y>> \in R
      BY DEF OpToRel
    <3> HIDE DEF R
    <3>4. PICK j \in free : \A k \in free : ~(<<k, j>> \in R)
      BY <1>3, <3>1, <3>2, WFMin
    <3>5. ASSUME NEW k \in free
          PROVE  j <= k
      <4>1. j \in Nat /\ k \in Nat
        BY <3>1
      <4>2. ~(k < j)
        BY <3>3, <3>4, <4>1
      <4>3. QED
        BY <4>1, <4>2
    <3>6. QED
      BY <3>5
  <2>2. first \in free
    <3> HIDE DEF free
    <3>1. QED
      BY <2>1
  <2>3. Assigned(r) = [managers EXCEPT ![first] = @ \cup {r}]
    BY <1>3 DEF Assigned
  <2>4. first \in DOMAIN managers
    BY <2>2
  <2> HIDE DEF first, free
  <2>5. /\ DOMAIN Assigned(r) = DOMAIN managers
        /\ \A i \in DOMAIN managers :
             Assigned(r)[i] = IF i = first THEN managers[i] \cup {r} ELSE managers[i]
    BY <2>3, <2>4
  <2> HIDE DEF n
  <2>6. QED
    BY <2>4, <2>5
<1>4. QED
  BY <1>2, <1>3

\* What a step with slots does of the transfers and the replies.
Grows ==
  /\ Slots /\ deleted' = deleted
  /\ \/ transfers' = transfers
     \/ /\ Top("transfer") /\ frames # <<>> /\ conn' = conn
        /\ transfers' = Append(transfers, Who)
  /\ \/ managers' = managers /\ MadePipe = {}
     \/ managers' = Assigned(conn.now) /\ MadePipe = {conn.now}

\* What a step does to the managers.
LEMMA StepGrows ==
  ASSUME Next
  PROVE  Grows \/ (HandlerTurn /\ UNCHANGED proxyVars) \/ ReplyIsDeleted
<1>1. CASE ConnectionStep
  <2>1. ~Top("handle")
    BY <1>1 DEF ConnectionStep, ConnNext, RequestArrives, Dispatch,
       CompleteResponse, NextRequest, FlushAndClose, SendingContentTail, WriteResponseTail,
       DeviceWrites, PeerCloses, EventLoop, Top
  <2>2. QED
    BY <1>1, <2>1 DEF ConnectionStep, Grows, MadePipe
<1>2. CASE HandlerStep
  <2>1. ~(Top("handle") /\ Current.to = "proxy") /\ deleted' = deleted
    BY <1>2 DEF HandlerStep, Handle, HandleFixed, HandleFunction, HandleFile, HandleMissing,
         HandleLargeFile, StartTransfer, WriteNextPayload, FunctionAnswers, Handling,
         EventLoop, Top
  <2>2. \/ transfers' = transfers
        \/ /\ Top("transfer") /\ frames # <<>> /\ conn' = conn
           /\ transfers' = Append(transfers, Who)
    BY <1>2 DEF HandlerStep, Handle, HandleFixed, HandleFunction, HandleFile, HandleMissing,
         HandleLargeFile, StartTransfer, WriteNextPayload, FunctionAnswers, Handling, Top
  <2>3. QED
    BY <1>2, <2>1, <2>2 DEF HandlerStep, Grows, MadePipe
<1>3. CASE ProxyStep
  <2>1. \/ managers' = managers /\ ~(Top("handle") /\ Current.to = "proxy")
        \/ managers' = Assigned(conn.now) /\ Top("handle") /\ Current.to = "proxy"
    BY <1>3 DEF ProxyStep, ProxyNext, HandleProxied, UpstreamContent, UpstreamEnds,
       ReadyRead, FinishedWell, Pump, EndContent, FinishedBadly, EventLoop, Top
  <2>2. QED
    BY <1>3, <2>1 DEF ProxyStep, Grows, MadePipe
<1>4. QED
  BY <1>1, <1>2, <1>3 DEF Next

\* A response being sent stays until it is completed or its connection closed.
LEMMA StillSent ==
  ASSUME StackShape, Kinds, conn.state = "SendingContent", ~Completes, ~Closes
  PROVE  SamePlace
  BY DEF Kinds, Arrives, Dispatches, Heads, WritesHeaders, Ends, Resumes, Drains, Cuts,
         Takes, Tells, Idles, SamePlace, StackShape, Completes, Closes, Open

\* What an event tells.
LEMMA Events ==
  \A kind, of : Event(kind, of).kind = kind /\ Event(kind, of).of = of
BY DEF Event

\* Transfers are deleted when they serve no response.
LEMMA TransfersStep ==
  ASSUME TypeOK, InOrder, StackShape, TransferCallInPlace, TransfersInUse, Next
  PROVE  TransfersInUse'
<1>1. /\ posted \in Seq(PostedEvents) /\ transfers \in Seq(Requests)
      /\ doomed \subseteq Transfers /\ deleted \subseteq doomed
      /\ Len(transfers) \in Nat /\ DOMAIN transfers = Transfers
  <2>1. /\ posted \in Seq(PostedEvents) /\ transfers \in Seq(Requests)
        /\ doomed \subseteq Transfers /\ deleted \subseteq doomed
    BY DEF TypeOK, TransfersInUse
  <2>2. Len(transfers) \in Nat /\ DOMAIN transfers = Transfers
    BY <2>1 DEF Transfers
  <2>3. QED
    BY <2>1, <2>2
<1>2. Kinds
  BY StepKinds
<1>3. CASE Grows
  <2>1. doomed' = doomed \cup Outlived /\ deleted' = deleted /\ Slots
    BY <1>3 DEF Grows, Slots
  <2>2. PICK more : Posts(more)
    BY <2>1, SlotsPost
  <2>3. /\ more \in Seq(PostedEvents) /\ posted' = posted \o more
        /\ \A t \in Outlived : \E j \in DOMAIN more : more[j] = Event("delete transfer", t)
        /\ \A j \in DOMAIN more : more[j].kind = "delete transfer" => more[j].of \in Outlived
    BY <2>2 DEF Posts
  <2>4. /\ \A e : Posted(e) => Posted(e)'
        /\ \A i \in DOMAIN more : Posted(more[i])'
        /\ \A i \in DOMAIN posted' :
              \/ \E j \in DOMAIN posted : posted'[i] = posted[j]
              \/ \E j \in DOMAIN more : posted'[i] = more[j]
    <3>1. IsPosted(more)
      BY <1>1, <2>3, PostedMore
    <3>2. QED
      BY <3>1 DEF IsPosted
  <2>5. ASSUME NEW t \in doomed' \ deleted'
        PROVE  Posted(Event("delete transfer", t))'
    <3>1. CASE t \in doomed
      <4>1. Posted(Event("delete transfer", t))
        BY <2>1, <2>5, <3>1 DEF TransfersInUse
      <4>2. QED
        BY <2>4, <4>1
    <3>2. CASE t \in Outlived
      BY <2>3, <2>4, <3>2
    <3>3. QED
      BY <2>1, <2>5, <3>1, <3>2
  <2>6. ASSUME NEW i \in DOMAIN posted', posted'[i].kind = "delete transfer"
        PROVE  posted'[i].of \in doomed'
    <3>1. \A j \in DOMAIN posted : posted[j].kind = "delete transfer" => posted[j].of \in doomed
      BY DEF TransfersInUse
    <3>2. CASE \E j \in DOMAIN posted : posted'[i] = posted[j]
      BY <2>1, <2>6, <3>1, <3>2
    <3>3. CASE \E j \in DOMAIN more : posted'[i] = more[j]
      BY <2>1, <2>3, <2>6, <3>3
    <3>4. QED
      BY <2>4, <3>2, <3>3
  <2>7. ASSUME NEW t \in Transfers' \ doomed'
        PROVE  transfers'[t] = conn'.now /\ conn'.state = "SendingContent"
    <3>1. CASE transfers' = transfers
      <4>1. t \in Transfers \ doomed /\ t \notin Outlived
        BY <2>1, <2>7, <3>1 DEF Transfers
      <4>2. transfers[t] = conn.now /\ conn.state = "SendingContent"
        BY <4>1 DEF TransfersInUse
      <4>3. ~Completes /\ ~Closes
        BY <1>1, <4>1 DEF Outlived, LiveTransfers
      <4>4. SamePlace
        BY <1>2, <4>2, <4>3, StillSent
      <4>5. QED
        BY <3>1, <4>2, <4>4 DEF SamePlace
    <3>2. CASE /\ Top("transfer") /\ frames # <<>> /\ conn' = conn
               /\ transfers' = Append(transfers, Who)
      <4>1. Who = conn.now /\ conn.state = "SendingContent"
        <5>1. Head(frames) = frames[1] /\ 1 \in DOMAIN frames
          BY <3>2 DEF TypeOK
        <5>2. QED
          BY <3>2, <5>1 DEF TransferCallInPlace, Top, Who
      <4>2. Who \in Requests
        BY <3>2, Running
      <4>3. /\ DOMAIN transfers' = 1 .. Len(transfers) + 1
            /\ \A i \in 1 .. Len(transfers) : transfers'[i] = transfers[i]
            /\ transfers'[Len(transfers) + 1] = Who
            /\ Len(transfers') = Len(transfers) + 1
        <5> DEFINE x == Who
        <5>1. transfers' = Append(transfers, x) /\ x \in Requests
          BY <3>2, <4>2
        <5> HIDE DEF x
        <5>2. /\ Append(transfers, x) \in Seq(Requests)
              /\ Len(Append(transfers, x)) = Len(transfers) + 1
              /\ \A i \in 1 .. Len(transfers) : Append(transfers, x)[i] = transfers[i]
              /\ Append(transfers, x)[Len(transfers) + 1] = x
          BY <1>1, <5>1, Added
        <5>3. DOMAIN transfers' = 1 .. Len(transfers) + 1
          BY <5>1, <5>2
        <5>4. QED
          BY <5>1, <5>2, <5>3 DEF x
      <4>4. CASE t \in Transfers
        <5>1. transfers[t] = conn.now
          BY <2>1, <2>7, <4>4 DEF TransfersInUse
        <5>2. QED
          BY <3>2, <4>1, <4>3, <4>4, <5>1 DEF Transfers
      <4>5. CASE t \notin Transfers
        <5>1. t = Len(transfers) + 1
          BY <1>1, <2>7, <4>3, <4>5 DEF Transfers
        <5>2. QED
          BY <3>2, <4>1, <4>3, <5>1
      <4>6. QED
        BY <4>4, <4>5
    <3>3. QED
      BY <1>3, <3>1, <3>2 DEF Grows
  <2>8. QED
    BY <1>1, <2>1, <2>5, <2>6, <2>7 DEF TransfersInUse
<1>4. ASSUME conn' = conn, transfers' = transfers, doomed \subseteq doomed'
      PROVE  \A t \in Transfers' \ doomed' :
               transfers'[t] = conn'.now /\ conn'.state = "SendingContent"
  BY <1>4 DEF TransfersInUse, Transfers
<1>5. CASE PayloadWritten
  <2>1. /\ conn' = conn /\ transfers' = transfers /\ deleted' = deleted
        /\ \/ doomed' = doomed /\ posted' = posted
           \/ /\ doomed' = doomed \cup {Who}
              /\ posted' = Append(posted, Event("delete transfer", Who))
    BY <1>5 DEF PayloadWritten
  <2>2. CASE doomed' = doomed /\ posted' = posted
    BY <1>4, <2>1, <2>2 DEF TransfersInUse, Posted
  <2>3. CASE /\ doomed' = doomed \cup {Who}
             /\ posted' = Append(posted, Event("delete transfer", Who))
    <3>1. Who \in Transfers
      BY <1>5, Running DEF PayloadWritten, Top
    <3>2. Event("delete transfer", Who) \in PostedEvents
      BY <3>1 DEF Event, PostedEvents
    <3>2a. PICK w \in Transfers : w = Who
      BY <3>1
    <3>2b. PICK e \in PostedEvents : e = Event("delete transfer", w)
      BY <3>2, <3>2a
    <3>3. posted' = Append(posted, e) /\ doomed' = doomed \cup {w}
      BY <2>3, <3>2a, <3>2b
    <3>3a. e.kind = "delete transfer" /\ e.of = w
      BY <3>2b, Events
    <3>4. /\ \A x : Posted(x) => Posted(x)'
          /\ Posted(e)'
          /\ \A i \in DOMAIN posted' :
               posted'[i] = e \/ \E j \in DOMAIN posted : posted'[i] = posted[j]
      BY <1>1, <3>3, PostedOne
    <3>6. ASSUME NEW t \in doomed' \ deleted'
          PROVE  Posted(Event("delete transfer", t))'
      BY <2>1, <3>2b, <3>3, <3>4, <3>6 DEF TransfersInUse
    <3>7. ASSUME NEW i \in DOMAIN posted', posted'[i].kind = "delete transfer"
          PROVE  posted'[i].of \in doomed'
      BY <3>3, <3>3a, <3>4, <3>7 DEF TransfersInUse
    <3>8. QED
      BY <1>1, <1>4, <2>1, <2>3, <3>6, <3>7 DEF TransfersInUse
  <2>4. QED
    BY <2>1, <2>2, <2>3
<1>6. ASSUME posted # <<>>, posted' = Tail(posted), doomed' = doomed,
             conn' = conn, transfers' = transfers, deleted \subseteq deleted',
             deleted' \subseteq doomed,
             \A t \in doomed \ deleted' : Event("delete transfer", t) # Head(posted)
      PROVE  TransfersInUse'
  <2>1. /\ \A e : Posted(e) /\ e # Head(posted) => Posted(e)'
        /\ \A i \in DOMAIN posted' : \E j \in DOMAIN posted : posted'[i] = posted[j]
    BY <1>1, <1>6, PostedRest
  <2>2. ASSUME NEW t \in doomed' \ deleted'
        PROVE  Posted(Event("delete transfer", t))'
    <3>1. Posted(Event("delete transfer", t)) /\ Event("delete transfer", t) # Head(posted)
      BY <1>6, <2>2 DEF TransfersInUse
    <3>2. QED
      BY <2>1, <3>1
  <2>3. ASSUME NEW i \in DOMAIN posted', posted'[i].kind = "delete transfer"
        PROVE  posted'[i].of \in doomed'
    <3>1. PICK j \in DOMAIN posted : posted'[i] = posted[j]
      BY <2>1
    <3>2. posted[j].kind = "delete transfer" => posted[j].of \in doomed
      BY DEF TransfersInUse
    <3>3. QED
      BY <1>6, <2>3, <3>1, <3>2
  <2>4. QED
    BY <1>4, <1>6, <2>2, <2>3 DEF TransfersInUse
<1>7. CASE DeliverPayloadCall \/ ReplyIsDeleted
  <2>1. /\ posted # <<>> /\ posted' = Tail(posted) /\ doomed' = doomed
        /\ conn' = conn /\ transfers' = transfers /\ deleted' = deleted
        /\ Head(posted).kind # "delete transfer"
    BY <1>7 DEF DeliverPayloadCall, ReplyIsDeleted, handlerVars, connVars
  <2>2. \A t : Event("delete transfer", t) # Head(posted)
    BY <2>1, Events
  <2>3. QED
    BY <1>1, <1>6, <2>1, <2>2
<1>8. CASE DeleteTransfer
  <2>1. /\ posted # <<>> /\ posted' = Tail(posted) /\ doomed' = doomed
        /\ conn' = conn /\ transfers' = transfers
        /\ deleted' = deleted \cup {Head(posted).of}
        /\ Head(posted).kind = "delete transfer"
    BY <1>8 DEF DeleteTransfer, connVars
  <2>2. Head(posted).of \in doomed
    <3>1. \E j \in DOMAIN posted : Head(posted) = posted[j]
      BY <1>1, <2>1, PostedRest
    <3>2. QED
      BY <2>1, <3>1 DEF TransfersInUse
  <2>3. ASSUME NEW t \in doomed \ deleted'
        PROVE  Event("delete transfer", t) # Head(posted)
    <3>1. t # Head(posted).of /\ Event("delete transfer", t).of = t
      BY <2>1, <2>3 DEF Event
    <3>2. QED
      BY <3>1
  <2>4. QED
    BY <1>1, <1>6, <2>1, <2>2, <2>3
<1>9. CASE FileIsChanged
  <2>1. /\ conn' = conn /\ transfers' = transfers /\ deleted' = deleted
        /\ doomed' = doomed /\ posted' = posted
    BY <1>9 DEF FileIsChanged, connVars
  <2>2. QED
    BY <1>4, <2>1 DEF TransfersInUse, Posted
<1>10. QED
  BY <1>3, <1>5, <1>7, <1>8, <1>9, StepGrows DEF HandlerTurn, TransferEvent

\* Replies are deleted when they have no pipe in use.
LEMMA RepliesStep ==
  ASSUME TypeOK, InOrder, StackShape, PipesInOrder, RepliesInUse, Next
  PROVE  RepliesInUse'
<1>1. posted \in Seq(PostedEvents) /\ managers \in Seq(SUBSET Requests)
  BY DEF TypeOK
<1>2. Kinds /\ Slotted
  BY StepKinds
<1>3. /\ Completes \/ Closes => LivePipes' = {}
      /\ ~(Completes \/ Closes) => LivePipes' = LivePipes \cup MadePipe
      /\ MadePipe \cap (Pipes \cup sent \cup broken) = {}
  BY <1>2, LivePipesGo
<1>4. Pipes' = Pipes \cup MadePipe /\ broken' = broken \cup TornDown /\ TornDown \subseteq Pipes
  BY <1>2 DEF Slotted, PipesGo, MadePipe, PipeSlots, TornDown, LivePipes
<1>5. CASE Grows
  <2>1. PICK more : Posts(more)
    BY <1>5, SlotsPost DEF Grows
  <2>2. /\ more \in Seq(PostedEvents) /\ posted' = posted \o more
        /\ \A r \in TornDown : \E j \in DOMAIN more : more[j] = Event("delete reply", r)
        /\ \A j \in DOMAIN more : more[j].kind = "delete reply" => more[j].of \in TornDown
    BY <2>1 DEF Posts
  <2>3. /\ \A e : Posted(e) => Posted(e)'
        /\ \A i \in DOMAIN more : Posted(more[i])'
        /\ \A i \in DOMAIN posted' :
              \/ \E j \in DOMAIN posted : posted'[i] = posted[j]
              \/ \E j \in DOMAIN more : posted'[i] = more[j]
    <3>1. IsPosted(more)
      BY <1>1, <2>2, PostedMore
    <3>2. QED
      BY <3>1 DEF IsPosted
  <2>4. ASSUME NEW i \in DOMAIN posted', posted'[i].kind = "delete reply"
        PROVE  posted'[i].of \in broken'
    <3>1. \A j \in DOMAIN posted : posted[j].kind = "delete reply" => posted[j].of \in broken
      BY DEF RepliesInUse
    <3>2. CASE \E j \in DOMAIN posted : posted'[i] = posted[j]
      BY <1>4, <2>4, <3>1, <3>2
    <3>3. CASE \E j \in DOMAIN more : posted'[i] = more[j]
      BY <1>4, <2>2, <2>4, <3>3
    <3>4. QED
      BY <2>3, <3>2, <3>3
  <2>5. /\ \A r \in LivePipes \cup MadePipe : \E i \in DOMAIN managers' : r \in managers'[i]
        /\ \A i \in DOMAIN managers' : \A x \in managers'[i] :
             x \in MadePipe \/ (i \in DOMAIN managers /\ x \in managers[i])
    <3>1. CASE managers' = managers /\ MadePipe = {}
      BY <3>1 DEF RepliesInUse
    <3>2. CASE managers' = Assigned(conn.now) /\ MadePipe = {conn.now}
      <4> DEFINE r == conn.now
      <4>1. r \in Requests
        <5>1. Top("handle")
          BY <3>2 DEF MadePipe
        <5>2. QED
          BY <5>1, Handled
      <4> HIDE DEF r
      <4>2. /\ \E i \in DOMAIN Assigned(r) : r \in Assigned(r)[i]
            /\ \A i \in DOMAIN managers :
                 i \in DOMAIN Assigned(r) /\ managers[i] \subseteq Assigned(r)[i]
            /\ \A i \in DOMAIN Assigned(r) : \A x \in Assigned(r)[i] :
                 x = r \/ (i \in DOMAIN managers /\ x \in managers[i])
        BY <1>1, <4>1, OneMoreReply
      <4>3. managers' = Assigned(r) /\ MadePipe = {r}
        BY <3>2 DEF r
      <4>4. QED
        BY <4>2, <4>3 DEF RepliesInUse
    <3>3. QED
      BY <1>5, <3>1, <3>2 DEF Grows
  <2>6. \A r \in LivePipes' : \E i \in DOMAIN managers' : r \in managers'[i]
    BY <1>3, <2>5
  <2>7. \A i \in DOMAIN managers' : managers'[i] \subseteq Pipes'
    BY <1>4, <2>5 DEF RepliesInUse
  <2>8. ASSUME NEW i \in DOMAIN managers', NEW r \in managers'[i] \cap broken'
        PROVE  Posted(Event("delete reply", r))'
    <3>1. CASE r \in TornDown
      BY <2>2, <2>3, <3>1
    <3>2. CASE r \notin TornDown
      <4>1. r \in broken /\ r \notin MadePipe
        BY <1>3, <1>4, <2>8, <3>2
      <4>2. i \in DOMAIN managers /\ r \in managers[i]
        BY <2>5, <2>8, <4>1
      <4>3. Posted(Event("delete reply", r))
        BY <4>1, <4>2 DEF RepliesInUse
      <4>4. QED
        BY <2>3, <4>3
    <3>3. QED
      BY <3>1, <3>2
  <2>9. QED
    BY <2>4, <2>6, <2>7, <2>8 DEF RepliesInUse
<1>6. CASE HandlerTurn /\ UNCHANGED proxyVars
  <2>1. /\ managers' = managers /\ broken' = broken /\ Pipes' = Pipes /\ LivePipes' = LivePipes
    BY <1>6 DEF proxyVars, Pipes, LivePipes
  <2>2. /\ \A r : Posted(Event("delete reply", r)) => Posted(Event("delete reply", r))'
        /\ \A i \in DOMAIN posted' : posted'[i].kind = "delete reply" =>
             \E j \in DOMAIN posted : posted'[i] = posted[j]
    <3>1. CASE posted' = posted
      BY <3>1 DEF Posted
    <3>2. CASE /\ posted # <<>> /\ posted' = Tail(posted)
               /\ Head(posted).kind \in {"payload", "delete transfer"}
      <4>1. /\ \A e : Posted(e) /\ e # Head(posted) => Posted(e)'
            /\ \A i \in DOMAIN posted' : \E j \in DOMAIN posted : posted'[i] = posted[j]
        BY <1>1, <3>2, PostedRest
      <4>2. \A r : Event("delete reply", r) # Head(posted)
        <5>1. Head(posted).kind # "delete reply"
          BY <3>2
        <5>2. QED
          BY <5>1, Events
      <4>3. QED
        BY <4>1, <4>2
    <3>3. CASE PayloadWritten /\ posted' = Append(posted, Event("delete transfer", Who))
      <4>1. Who \in Transfers
        BY <3>3, Running DEF PayloadWritten, Top
      <4>2. Event("delete transfer", Who) \in PostedEvents
        BY <4>1 DEF Event, PostedEvents
      <4>2a. PICK e \in PostedEvents : e = Event("delete transfer", Who)
        BY <4>2
      <4>3. posted' = Append(posted, e) /\ e.kind # "delete reply"
        <5>1. e.kind = "delete transfer"
          BY <4>2a, Events
        <5>2. posted' = Append(posted, e)
          BY <3>3, <4>2a
        <5>3. QED
          BY <5>1, <5>2
      <4>4. /\ \A x : Posted(x) => Posted(x)'
            /\ \A i \in DOMAIN posted' :
                 posted'[i] = e \/ \E j \in DOMAIN posted : posted'[i] = posted[j]
        BY <1>1, <4>3, PostedOne
      <4>5. QED
        BY <4>3, <4>4
    <3>4. QED
      BY <1>6, <3>1, <3>2, <3>3 DEF HandlerTurn, TransferEvent, PayloadWritten,
         DeliverPayloadCall, DeleteTransfer, FileIsChanged
  <2>3. QED
    BY <2>1, <2>2 DEF RepliesInUse
<1>7. CASE ReplyIsDeleted
  <2> DEFINE gone == Head(posted).of
  <2>1. /\ posted # <<>> /\ posted' = Tail(posted) /\ Head(posted).kind = "delete reply"
        /\ managers' = [i \in DOMAIN managers |-> managers[i] \ {gone}]
        /\ broken' = broken /\ replies' = replies
    BY <1>7 DEF ReplyIsDeleted, DeleteReply
  <2>2. Pipes' = Pipes /\ LivePipes' = LivePipes
    BY <2>1 DEF Pipes, LivePipes
  <2>3. /\ \A e : Posted(e) /\ e # Head(posted) => Posted(e)'
        /\ \A i \in DOMAIN posted' : \E j \in DOMAIN posted : posted'[i] = posted[j]
        /\ \E j \in DOMAIN posted : Head(posted) = posted[j]
    BY <1>1, <2>1, PostedRest
  <2>4. gone \in broken
    BY <2>1, <2>3 DEF RepliesInUse
  <2>5. \A r : r # gone => Event("delete reply", r) # Head(posted)
    BY Events
  <2> HIDE DEF gone
  <2>6. \A i \in DOMAIN posted' :
          posted'[i].kind = "delete reply" => posted'[i].of \in broken'
    BY <2>1, <2>3 DEF RepliesInUse
  <2>7. \A r \in LivePipes' : \E i \in DOMAIN managers' : r \in managers'[i]
    BY <2>1, <2>2, <2>4 DEF RepliesInUse, LivePipes
  <2>8. \A i \in DOMAIN managers' : managers'[i] \subseteq Pipes'
    BY <2>1, <2>2 DEF RepliesInUse
  <2>9. ASSUME NEW i \in DOMAIN managers', NEW r \in managers'[i] \cap broken'
        PROVE  Posted(Event("delete reply", r))'
    <3>1. i \in DOMAIN managers /\ r \in managers[i] \cap broken /\ r # gone
      BY <2>1, <2>9
    <3>2. Posted(Event("delete reply", r))
      BY <3>1 DEF RepliesInUse
    <3>3. QED
      BY <2>3, <2>5, <3>1, <3>2
  <2>10. QED
    BY <2>6, <2>7, <2>8, <2>9 DEF RepliesInUse
<1>8. QED
  BY <1>5, <1>6, <1>7, StepGrows

(***************************************************************************)
(* What a step writes.                                                     *)
(***************************************************************************)

\* Nothing, in a response that goes on or not.
Silent ==
  /\ \A r \in Requests :
       /\ answers'[r].content = answers[r].content
       /\ answers'[r].status = answers[r].status
       /\ answers'[r].end = "completed" => answers[r].end = "completed"
  /\ conn'.now = conn.now /\ conn'.sent = conn.sent /\ conn'.length = conn.length
  /\ conn'.state \in {"SendingHeaders", "SendingContent"} => conn'.state = conn.state
  /\ ~Top("completing")'

\* Units of content.
WritesUnits(content) ==
  /\ conn.state = "SendingContent" /\ SamePlace
  /\ ~Current.head /\ content # <<>>
  /\ answers' = [answers EXCEPT ![conn.now].content = @ \o content]
  /\ conn'.sent = conn.sent + Len(content) /\ conn'.length = conn.length
  /\ Top("completing")' => conn'.sent = conn.length

\* The headers of a response.
WritesHead(status, length) ==
  /\ conn.state = "SendingHeaders" /\ conn'.state = "SendingContent"
  /\ conn'.now = conn.now /\ conn'.sent = conn.sent /\ conn'.length = length
  /\ answers' = [answers EXCEPT ![conn.now].status = status,
                                ![conn.now].length = length]
  /\ Top("completing")' <=> length = 0 \/ Current.head

\* What waits does not complete a response.
LEMMA NoCompletion ==
  ASSUME NEW s \in Seq(Frames), Waits(s), frames' = s
  PROVE  ~Top("completing")'
<1>1. s # <<>> => Head(s).at \in Waiting
  <2>1. s # <<>> => Head(s) = s[1] /\ 1 \in DOMAIN s
    OBVIOUS
  <2>2. QED
    BY <2>1 DEF Waits
<1>2. QED
  BY <1>1 DEF Top, Waiting

\* A call that is ignored writes nothing.
LEMMA IgnoredSilently ==
  ASSUME NEW then \in Seq(Frames), Waits(then), Ignored(then)
  PROVE  Silent
<1>1. conn' = conn /\ answers' = answers /\ frames' = then
  BY DEF Ignored
<1>2. ~Top("completing")'
  BY <1>1, NoCompletion
<1>3. QED
  BY <1>1, <1>2 DEF Silent

\* writeContent() writes what it does not refuse.
LEMMA ContentWritten ==
  ASSUME TypeOK, InOrder, NEW content \in Seq(Units), NEW then \in Seq(Frames),
         Waits(then), WriteContent(content, then)
  PROVE  \/ /\ Silent
            /\ \/ conn.state # "SendingContent" \/ ~ContentFits(content)
               \/ content = <<>> \/ Current.head
         \/ WritesUnits(content)
<1> DEFINE refused == \/ conn.state # "SendingContent"
                      \/ ~ContentFits(content)
                      \/ content = <<>>
                      \/ Current.head
<1>1. CASE refused
  <2>1. Ignored(then)
    BY <1>1 DEF WriteContent
  <2>2. QED
    BY <1>1, <2>1, IgnoredSilently
<1>2. CASE ~refused
  <2>1. conn \in Connection
    BY DEF TypeOK
  <2>2. /\ conn' = [conn EXCEPT !.sent = @ + Len(content), !.buffered = @ + Len(content)]
        /\ answers' = [answers EXCEPT ![conn.now].content = @ \o content]
        /\ frames' = (IF conn.sent + Len(content) = conn.length
                      THEN <<Frame("completing", 0)>> ELSE <<>>) \o then
    BY <1>2 DEF WriteContent
  <2>3. /\ SamePlace /\ conn'.sent = conn.sent + Len(content)
        /\ conn'.length = conn.length
    BY <2>1, <2>2 DEF SamePlace, Connection
  <2>4. Top("completing")' => conn'.sent = conn.length
    <3>1. CASE conn.sent + Len(content) = conn.length
      BY <2>3, <3>1
    <3>2. CASE conn.sent + Len(content) # conn.length
      <4>1. frames' = <<>> \o then
        BY <2>2, <3>2
      <4>2. frames' = then
        BY <4>1, NothingPushed
      <4>3. QED
        BY <4>2, NoCompletion
    <3>3. QED
      BY <3>1, <3>2
  <2>5. QED
    BY <1>2, <2>2, <2>3, <2>4 DEF WritesUnits
<1>3. QED
  BY <1>1, <1>2

\* writeHeaders() sets what the connection counts from.
LEMMA HeadWritten ==
  ASSUME TypeOK, InOrder, NEW status \in Nat, NEW length \in Int,
         NEW chunkedHeader \in BOOLEAN, NEW then \in Seq(Frames), Waits(then),
         WriteHeaders(status, length, chunkedHeader, then)
  PROVE  (Silent /\ conn.state # "SendingHeaders") \/ WritesHead(status, length)
<1>1. CASE conn.state # "SendingHeaders"
  <2>1. Ignored(then)
    BY <1>1 DEF WriteHeaders
  <2>2. QED
    BY <1>1, <2>1, IgnoredSilently
<1>2. CASE conn.state = "SendingHeaders"
  <2>1. conn \in Connection
    BY DEF TypeOK
  <2>2. /\ conn'.state = "SendingContent" /\ conn'.now = conn.now
        /\ conn'.sent = conn.sent /\ conn'.length = length
    BY <1>2, <2>1 DEF WriteHeaders, Connection
  <2>3. answers' = [answers EXCEPT ![conn.now].status = status,
                                  ![conn.now].length = length]
    BY <1>2 DEF WriteHeaders
  <2> DEFINE s == <<Frame("tail", 0)>> \o then
  <2>4. s \in Seq(Frames) /\ Waits(s)
    <3>1. Frame("tail", 0) \in Frames /\ Frame("tail", 0).at \in Waiting
      BY Calls DEF Frame, Waiting
    <3>2. QED
      BY <3>1, OnTop, Pushed
  <2>5. frames' = IF length = 0 \/ Current.head
                  THEN <<Frame("completing", 0)>> \o s ELSE s
    BY <1>2, HeadersCalls
  <2> HIDE DEF s
  <2>6. CASE length = 0 \/ Current.head
    <3>1. frames' = <<Frame("completing", 0)>> \o s
      BY <2>5, <2>6
    <3>2. Frame("completing", 0) \in Frames /\ Frame("completing", 0).at = "completing"
      BY Calls DEF Frame
    <3>3. Top("completing")'
      BY <2>4, <3>1, <3>2, Pushed DEF Top
    <3>4. QED
      BY <1>2, <2>2, <2>3, <2>6, <3>3 DEF WritesHead
  <2>7. CASE ~(length = 0 \/ Current.head)
    <3>1. ~Top("completing")'
      BY <2>4, <2>5, <2>7, NoCompletion
    <3>2. QED
      BY <1>2, <2>2, <2>3, <2>7, <3>1 DEF WritesHead
  <2>8. QED
    BY <2>6, <2>7
<1>3. QED
  BY <1>1, <1>2

\* writeResponse() writes the headers, and its content when it returns to it.
LEMMA ResponseWritten ==
  ASSUME TypeOK, InOrder, NEW status \in Nat, NEW content \in Seq(Units),
         NEW then \in Seq(Frames), Waits(then), WriteResponse(status, content, then)
  PROVE  (Silent /\ conn.state # "SendingHeaders") \/ WritesHead(status, Len(content))
<1>1. CASE conn.state # "SendingHeaders"
  <2>1. Ignored(then)
    BY <1>1 DEF WriteResponse
  <2>2. QED
    BY <1>1, <2>1, IgnoredSilently
<1>2. CASE conn.state = "SendingHeaders"
  <2> DEFINE s == (IF content # <<>> THEN <<ContentFrame(content)>> ELSE <<>>) \o then
  <2>1. s \in Seq(Frames) /\ Waits(s)
    <3>1. /\ ContentFrame(content) \in Frames
          /\ ContentFrame(content).at \in Waiting
      BY Calls DEF ContentFrame, Waiting
    <3>2. /\ <<ContentFrame(content)>> \o then \in Seq(Frames)
          /\ Waits(<<ContentFrame(content)>> \o then)
      BY <3>1, OnTop, Pushed
    <3>3. <<>> \o then = then
      BY NothingPushed
    <3>4. QED
      BY <3>2, <3>3
  <2>2. WriteHeaders(status, Len(content), FALSE, s)
    BY <1>2 DEF WriteResponse
  <2>3. Len(content) \in Int /\ FALSE \in BOOLEAN
    OBVIOUS
  <2> HIDE DEF s
  <2>4. QED
    BY <2>1, <2>2, <2>3, HeadWritten
<1>3. QED
  BY <1>1, <1>2

\* A part of what a target has.
IsPart(content, r, from, to) ==
  /\ content \in Seq(Units) /\ Len(content) = to - from
  /\ \A i \in 1 .. to - from : content[i] = [of |-> r, at |-> from + i - 1]

\* That is what is taken of it.
LEMMA ContentOwn ==
  ASSUME NEW r \in Nat, NEW from \in Nat, NEW to \in Nat, from <= to
  PROVE  IsPart(Content(r, from, to), r, from, to)
<1>1. to - from \in Nat /\ to \in Int
  OBVIOUS
<1>2. QED
  BY <1>1, ContentTyped DEF Content, IsPart

\* The end of the connection writes nothing.
LEMMA ShutSilently ==
  ASSUME TypeOK, Shut, ~Top("completing")'
  PROVE  Silent
<1>1. conn \in Connection /\ answers \in [Requests -> Answer]
  BY DEF TypeOK
<1>2. /\ conn'.now = conn.now /\ conn'.sent = conn.sent /\ conn'.length = conn.length
      /\ conn'.state = "Closed"
  BY <1>1 DEF Shut, Connection
<1>3. ASSUME NEW r \in Requests
      PROVE  /\ answers'[r].content = answers[r].content
             /\ answers'[r].status = answers[r].status
             /\ answers'[r].end = "completed" => answers[r].end = "completed"
  <2>1. answers'[r] = answers[r] \/ answers'[r] = [answers[r] EXCEPT !.end = "closed"]
    BY <1>1 DEF Shut
  <2>2. answers[r] \in Answer
    BY <1>1
  <2>3. QED
    BY <2>1, <2>2 DEF Answer
<1>4. QED
  BY <1>2, <1>3 DEF Silent

\* A new response, of which nothing is written.
Begins ==
  /\ Top("dispatch") /\ conn'.state = "SendingHeaders" /\ conn'.now = conn.now + 1
  /\ conn'.sent = 0 /\ answers' = answers /\ ~Top("completing")'

\* The effects of the connection's own steps.
LEMMA ConnEffects ==
  ASSUME TypeOK, InOrder, StackShape, ConnNext
  PROVE  \/ Silent \/ Begins \/ Ends
         \/ WriteResponseTail /\ WritesUnits(Head(frames).content)
<1>1. conn \in Connection /\ answers \in [Requests -> Answer]
  BY DEF TypeOK
<1>2. frames # <<>> => Waits(Below) /\ Below \in Seq(Frames)
  BY BelowWaits
<1>3. ASSUME answers' = answers, conn'.now = conn.now, conn'.sent = conn.sent,
             conn'.length = conn.length, ~Top("completing")',
             conn'.state \in {"SendingHeaders", "SendingContent"}
               => conn'.state = conn.state
      PROVE  Silent
  BY <1>3 DEF Silent
<1>4. ASSUME NEW s \in Seq(Frames), NEW at \in {"dispatch", "handle"},
             frames' = <<Frame(at, 0)>> \o s
      PROVE  ~Top("completing")'
  <2>1. Frame(at, 0) \in Frames /\ Frame(at, 0).at = at
    BY Calls DEF Frame
  <2>2. Head(frames') = Frame(at, 0)
    BY <1>4, <2>1, Pushed
  <2>3. QED
    BY <2>1, <2>2 DEF Top
<1>5. <<>> \in Seq(Frames) /\ Waits(<<>>)
  BY DEF Waits
<1>6. CASE RequestArrives
  <2>1. /\ conn' = conn /\ answers' = answers
        /\ frames' = <<>> \/ frames' = <<Frame("dispatch", 0)>>
    BY <1>6 DEF RequestArrives
  <2>2. <<Frame("dispatch", 0)>> \o <<>> = <<Frame("dispatch", 0)>>
    <3>1. <<Frame("dispatch", 0)>> \in Seq(Frames)
      BY Calls
    <3>2. QED
      BY <3>1, NothingPushed
  <2>3. ~Top("completing")'
    BY <1>4, <1>5, <2>1, <2>2, NoCompletion
  <2>4. QED
    BY <1>3, <2>1, <2>3
<1>7. CASE Dispatch
  <2>1. /\ Top("dispatch") /\ frames # <<>> /\ answers' = answers
        /\ frames' = <<Frame("handle", 0)>> \o Below
    BY <1>7 DEF Dispatch, Top
  <2>2. conn'.state = "SendingHeaders" /\ conn'.now = conn.now + 1 /\ conn'.sent = 0
    BY <1>1, <1>7 DEF Dispatch, Connection
  <2>3. ~Top("completing")'
    BY <1>2, <1>4, <2>1
  <2>4. QED
    BY <2>1, <2>2, <2>3 DEF Begins
<1>8. CASE CompleteResponse
  <2>1. conn.state = "SendingContent" /\ conn' = [conn EXCEPT !.state = "Completed"]
    BY <1>8 DEF CompleteResponse, StackShape
  <2>2. Completes
    BY <1>1, <2>1 DEF Completes, Connection
  <2>3. Kinds
    BY ConnKinds DEF Kinds
  <2>4. QED
    BY <2>2, <2>3, OnlyEndsComplete
<1>9. CASE NextRequest
  <2>1. /\ frames # <<>> /\ answers' = answers
        /\ \/ frames' = <<Frame("dispatch", 0)>> \o Below
           \/ frames' = <<>> \o Below
    BY <1>9 DEF NextRequest, Top
  <2>2. PICK left : conn' = [conn EXCEPT !.state = "ReceivingHeaders", !.buffered = left]
    BY <1>9 DEF NextRequest
  <2>3. /\ conn'.now = conn.now /\ conn'.sent = conn.sent /\ conn'.length = conn.length
        /\ conn'.state = "ReceivingHeaders"
    BY <1>1, <2>2 DEF Connection
  <2>4. <<>> \o Below = Below
    BY <1>2, <2>1, NothingPushed
  <2>5. ~Top("completing")'
    BY <1>2, <1>4, <2>1, <2>4, NoCompletion
  <2>6. QED
    BY <1>3, <2>1, <2>3, <2>5
<1>10. CASE FlushAndClose
  <2>1. frames # <<>> /\ answers' = answers /\ frames' = Below
    BY <1>10 DEF FlushAndClose, Top
  <2>2. PICK left : conn' = [conn EXCEPT !.buffered = left,
                               !.state = IF left = 0 THEN "Closed" ELSE "Flushing"]
    BY <1>10 DEF FlushAndClose
  <2>3. /\ conn'.now = conn.now /\ conn'.sent = conn.sent /\ conn'.length = conn.length
        /\ conn'.state \in {"Closed", "Flushing"}
    BY <1>1, <2>2 DEF Connection
  <2>4. ~Top("completing")'
    BY <1>2, <2>1, NoCompletion
  <2>5. QED
    BY <1>3, <2>1, <2>3, <2>4
<1>11. CASE SendingContentTail
  <2>1. /\ frames # <<>> /\ answers' = answers /\ frames' = Below
        /\ conn' = [conn EXCEPT !.keep = @ /\ (conn.length >= 0 \/ conn.chunked)]
    BY <1>11 DEF SendingContentTail, Top
  <2>2. /\ conn'.now = conn.now /\ conn'.sent = conn.sent /\ conn'.length = conn.length
        /\ conn'.state = conn.state
    BY <1>1, <2>1 DEF Connection
  <2>3. ~Top("completing")'
    BY <1>2, <2>1, NoCompletion
  <2>4. QED
    BY <1>3, <2>1, <2>2, <2>3
<1>12. CASE WriteResponseTail
  <2>1. frames # <<>> /\ WriteContent(Head(frames).content, Below)
    BY <1>12 DEF WriteResponseTail, Top
  <2>2. Head(frames).content \in Seq(Units)
    BY <2>1, Running
  <2>3. QED
    BY <1>2, <1>12, <2>1, <2>2, ContentWritten
<1>13. CASE DeviceWrites
  <2>1. answers' = answers /\ frames' = <<>>
    BY <1>13 DEF DeviceWrites, EventLoop
  <2>2. PICK left : conn' = [conn EXCEPT !.buffered = left,
                  !.state = IF @ = "Flushing" /\ left = 0 THEN "Closed" ELSE @]
    BY <1>13 DEF DeviceWrites
  <2>3. /\ conn'.now = conn.now /\ conn'.sent = conn.sent /\ conn'.length = conn.length
        /\ conn'.state \in {"Closed", conn.state}
    BY <1>1, <2>2 DEF Connection
  <2>4. ~Top("completing")'
    BY <1>5, <2>1, NoCompletion
  <2>5. QED
    BY <1>3, <2>1, <2>3, <2>4
<1>14. CASE PeerCloses
  <2>1. Shut /\ frames' = <<>>
    BY <1>14 DEF PeerCloses, EventLoop
  <2>2. ~Top("completing")'
    BY <1>5, <2>1, NoCompletion
  <2>3. QED
    BY <2>1, <2>2, ShutSilently
<1>15. QED
  BY <1>6, <1>7, <1>8, <1>9, <1>10, <1>11, <1>12, <1>13, <1>14 DEF ConnNext

\* A length that headers announce is that of the target, or of an error's text.
Announces(status, length) ==
  \/ length \in {-1, Current.size}
  \/ status = 503 /\ length = 0
  \/ status \in {304, 403, 404} /\ Current.to = "file"

HeadsAsAnnounced == \E status \in Nat, length \in Int :
  WritesHead(status, length) /\ Announces(status, length)

Payloads == Content(transfers[Who], position[Who], position[Who] + Payload(Who))
Received == Content(Who, replies[Who].read, replies[Who].given)

\* What a step can write.
Effects ==
  \/ Silent \/ Begins \/ Ends \/ HeadsAsAnnounced
  \/ Top("content") /\ WritesUnits(Head(frames).content)
  \/ WriteNextPayload /\ Payload(Who) > 0 /\ WritesUnits(Payloads)
  \/ Top("pump") /\ Pumps(Who) /\ WritesUnits(Received)

\* The effects of the handlers' steps.
LEMMA HandleEffects ==
  ASSUME TypeOK, InOrder, StackShape, Handle
  PROVE  Effects
<1>1. <<>> \in Seq(Units) /\ <<>> \in Seq(Frames) /\ Waits(<<>>) /\ Len(<<>>) = 0
      /\ 200 \in Nat /\ 304 \in Nat /\ 403 \in Nat /\ 404 \in Nat /\ FALSE \in BOOLEAN
  BY DEF Waits
<1>2. ASSUME NEW status \in Nat, NEW content \in Seq(Units), NEW then \in Seq(Frames),
             Waits(then), WriteResponse(status, content, then),
             Announces(status, Len(content))
      PROVE  Effects
  <2> DEFINE length == Len(content)
  <2>1. Silent \/ WritesHead(status, length)
    BY <1>2, ResponseWritten
  <2>2. length \in Int /\ Announces(status, length)
    BY <1>2
  <2> HIDE DEF length
  <2>3. QED
    BY <2>1, <2>2 DEF Effects, HeadsAsAnnounced
<1>3. ASSUME NEW content, frames' = content, content \in Seq(Frames), Waits(content),
             conn' = conn, answers' = answers
      PROVE  Effects
  BY <1>3, IgnoredSilently DEF Ignored, Effects
<1>4. CASE HandleFixed \/ HandleFile \/ HandleMissing
  <2>1. /\ Top("handle")
        /\ \/ WriteResponse(200, Content(conn.now, 0, Current.size), Below)
           \/ /\ Current.to = "file"
              /\ \/ WriteResponse(304, <<>>, Below)
                 \/ WriteResponse(403, Content(conn.now, 0, 1), Below)
                 \/ WriteResponse(404, Content(conn.now, 0, 1), Below)
    BY <1>4 DEF HandleFixed, HandleFile, HandleMissing, Handling
  <2> DEFINE all == Content(conn.now, 0, Current.size)
             one == Content(conn.now, 0, 1)
             none == <<>>
  <2>2. /\ all \in Seq(Units) /\ one \in Seq(Units) /\ none \in Seq(Units)
        /\ Below \in Seq(Frames) /\ Waits(Below)
        /\ Current.size \in Nat /\ conn.now \in Nat
    BY <1>1, <2>1, Handled DEF Requests
  <2>3. Len(all) = Current.size
    <3>1. 0 \in Nat /\ 0 <= Current.size /\ Current.size - 0 = Current.size
      BY <2>2
    <3>2. IsPart(all, conn.now, 0, Current.size)
      BY <2>2, <3>1, ContentOwn
    <3>3. QED
      BY <3>1, <3>2 DEF IsPart
  <2>4. \/ WriteResponse(200, all, Below)
        \/ /\ Current.to = "file"
           /\ \/ WriteResponse(304, none, Below) \/ WriteResponse(403, one, Below)
              \/ WriteResponse(404, one, Below)
    BY <2>1
  <2> HIDE DEF all, one, none
  <2>5. /\ Announces(200, Len(all))
        /\ Current.to = "file" =>
             /\ Announces(304, Len(none)) /\ Announces(403, Len(one))
             /\ Announces(404, Len(one))
    BY <2>3 DEF Announces
  <2>6. CASE WriteResponse(200, all, Below)
    BY <1>1, <1>2, <2>2, <2>5, <2>6
  <2>7. CASE Current.to = "file" /\ WriteResponse(304, none, Below)
    BY <1>1, <1>2, <2>2, <2>5, <2>7
  <2>8. CASE Current.to = "file" /\ WriteResponse(403, one, Below)
    BY <1>1, <1>2, <2>2, <2>5, <2>8
  <2>9. CASE Current.to = "file" /\ WriteResponse(404, one, Below)
    BY <1>1, <1>2, <2>2, <2>5, <2>9
  <2>10. QED
    BY <2>4, <2>6, <2>7, <2>8, <2>9
<1>5. CASE HandleFunction
  <2>1. Top("handle") /\ frames' = Below /\ conn' = conn /\ answers' = answers
    BY <1>5 DEF HandleFunction, Handling
  <2>2. QED
    BY <1>3, <2>1, Handled
<1>6. CASE HandleLargeFile
  <2> DEFINE s == <<Frame("transfer", conn.now)>> \o Below
             n == Current.size
  <2>1. Top("handle") /\ WriteHeaders(200, n, FALSE, s)
    BY <1>6 DEF HandleLargeFile, Handling
  <2>2. s \in Seq(Frames) /\ Waits(s)
    <3>1. /\ Frame("transfer", conn.now) \in Frames
          /\ Frame("transfer", conn.now).at \in Waiting
      BY <2>1, Handled, Calls DEF Frame, Waiting
    <3>2. QED
      BY <2>1, <3>1, Handled, OnTop, Pushed
  <2>3. n \in Int /\ Announces(200, n)
    BY <2>1, Handled DEF Announces
  <2> HIDE DEF s, n
  <2>4. Silent \/ WritesHead(200, n)
    <3>1. 200 \in Nat /\ n \in Int /\ FALSE \in BOOLEAN
      BY <2>3
    <3>2. QED
      BY <2>1, <2>2, <3>1, HeadWritten
  <2>5. QED
    BY <1>1, <2>3, <2>4 DEF Effects, HeadsAsAnnounced
<1>7. CASE StartTransfer
  <2>1. /\ Top("transfer") /\ frames # <<>> /\ conn' = conn /\ answers' = answers
        /\ frames' = <<Frame("payload", Len(transfers) + 1)>> \o Below
    BY <1>7 DEF StartTransfer, Top
  <2> DEFINE f == Frame("payload", Len(transfers) + 1)
  <2>2. f.at = "payload" /\ frames' = <<f>> \o Below
    BY <2>1 DEF Frame
  <2> HIDE DEF f
  <2>3. Below \in Seq(Frames \cup {f}) /\ f \in Frames \cup {f}
    BY <2>1, BelowWaits, SeqMonotonic
  <2>4. Head(frames') = f
    BY <2>2, <2>3, Pushed
  <2>5. ~Top("completing")'
    BY <2>2, <2>4 DEF Top
  <2>6. Silent
    BY <2>1, <2>5 DEF Silent
  <2>7. QED
    BY <2>6 DEF Effects
<1>8. CASE WriteNextPayload
  <2>1. Top("payload") /\ frames # <<>>
    BY <1>8 DEF WriteNextPayload, Top
  <2>2. Below \in Seq(Frames) /\ Waits(Below)
    BY <2>1, BelowWaits
  <2>3. CASE Open /\ Payload(Who) > 0
    <3> DEFINE s == <<Frame("written", Who)>> \o Below
    <3>1. WriteContent(Payloads, s)
      BY <1>8, <2>3 DEF WriteNextPayload, Payloads
    <3>2. Payloads \in Seq(Units) /\ Who \in Transfers
      BY <2>1, <2>3, PayloadTyped DEF Payloads
    <3>3. Frame("written", Who) \in Frames /\ Frame("written", Who).at \in Waiting
      BY <3>2, Calls DEF Frame, Waiting
    <3>4. s \in Seq(Frames) /\ Waits(s)
      BY <2>2, <3>3, OnTop, Pushed
    <3> HIDE DEF s
    <3>5. Silent \/ WritesUnits(Payloads)
      BY <3>1, <3>2, <3>4, ContentWritten
    <3>6. QED
      BY <1>8, <2>3, <3>5 DEF Effects
  <2>4. CASE ~(Open /\ Payload(Who) > 0)
    <3>1. Ignored(Below)
      BY <1>8, <2>4 DEF WriteNextPayload
    <3>2. QED
      BY <2>2, <3>1, IgnoredSilently DEF Effects
  <2>5. QED
    BY <2>3, <2>4
<1>9. CASE FunctionAnswers
  <2> DEFINE all == Content(conn.now, 0, Current.size)
  <2>1. conn.state = "SendingHeaders" /\ WriteResponse(200, all, <<>>)
    BY <1>9 DEF FunctionAnswers
  <2>2. Current \in Request /\ conn.now \in Nat
    BY <2>1, Served DEF InOrder
  <2>3. 0 \in Nat /\ Current.size \in Nat /\ 0 <= Current.size /\ Current.size - 0 = Current.size
    BY <2>2 DEF Request
  <2>4. all \in Seq(Units) /\ Len(all) = Current.size
    <3>1. IsPart(all, conn.now, 0, Current.size)
      BY <2>2, <2>3, ContentOwn
    <3>2. QED
      BY <2>3, <3>1 DEF IsPart
  <2>5. Announces(200, Len(all))
    BY <2>4 DEF Announces
  <2> DEFINE none == <<>>
  <2>6. /\ none \in Seq(Frames) /\ Waits(none) /\ 200 \in Nat /\ all \in Seq(Units)
        /\ WriteResponse(200, all, none)
    BY <1>1, <2>1, <2>4
  <2> HIDE DEF all, none
  <2>7. QED
    BY <1>2, <2>5, <2>6
<1>10. QED
  BY <1>4, <1>5, <1>6, <1>7, <1>8, <1>9 DEF Handle

\* A pipe that hears of its reply serves the current request or is torn down.
LEMMA PipeInUse ==
  ASSUME PipesInOrder, Top("readyRead") \/ Top("finished"), Who \notin broken
  PROVE  Who = conn.now
  BY DEF PipesInOrder, LivePipes

\* The effects of the proxy's steps.
LEMMA ProxyEffects ==
  ASSUME TypeOK, InOrder, StackShape, PipesInOrder, ProxyNext
  PROVE  Effects
<1>1. ASSUME conn' = conn, answers' = answers, ~Top("completing")'
      PROVE  Effects
  BY <1>1 DEF Effects, Silent
<1>2. ASSUME frames # <<>>, conn' = conn, answers' = answers, frames' = Below
      PROVE  Effects
  BY <1>2, BelowWaits, IgnoredSilently DEF Ignored, Effects
<1>3. CASE HandleProxied
  BY <1>2, <1>3 DEF HandleProxied, Top
<1>4. CASE UpstreamContent \/ UpstreamEnds
  <2>1. PICK r \in LivePipes, at \in {"readyRead", "finished"} :
          frames' = <<Frame(at, r)>>
    BY <1>4 DEF UpstreamContent, UpstreamEnds
  <2>2. Head(frames') = Frame(at, r)
    BY <2>1
  <2>3. ~Top("completing")'
    BY <2>2 DEF Top, Frame
  <2>4. QED
    BY <1>1, <1>4, <2>3 DEF UpstreamContent, UpstreamEnds
<1>5. CASE ReadyRead \/ FinishedWell
  <2>1. /\ Top("readyRead") \/ Top("finished")
        /\ frames # <<>>
        /\ \E at \in {"pump", "ended"} : SendHeaders(Who, <<Frame(at, Who)>> \o Below)
    BY <1>5 DEF ReadyRead, FinishedWell, Top
  <2>2. PICK at \in {"pump", "ended"} : SendHeaders(Who, <<Frame(at, Who)>> \o Below)
    BY <2>1
  <2> DEFINE s == <<Frame(at, Who)>> \o Below
  <2>3. s \in Seq(Frames) /\ Waits(s) /\ Who \in Requests
    <3>1. Who \in Requests /\ Below \in Seq(Frames) /\ Waits(Below)
      BY <2>1, Running, BelowWaits
    <3>2. Frame(at, Who) \in Frames /\ Frame(at, Who).at \in Waiting
      BY <3>1, Calls DEF Frame, Waiting
    <3>3. QED
      BY <3>1, <3>2, OnTop, Pushed
  <2>4. SendHeaders(Who, s)
    BY <2>2
  <2> HIDE DEF s
  <2>5. CASE Who \in sent \cup broken
    <3>1. Ignored(s)
      BY <2>4, <2>5 DEF SendHeaders
    <3>2. QED
      BY <2>3, <3>1, IgnoredSilently DEF Effects
  <2>6. CASE Who \notin sent \cup broken
    <3> DEFINE status == IF Failing(Who) THEN 404 ELSE 200
               length == Announced(Who)
               chunkedHeader == Upstream(Who).variant = "chunked"
    <3>1. WriteHeaders(status, length, chunkedHeader, s)
      BY <2>4, <2>6 DEF SendHeaders
    <3>2. status \in Nat /\ chunkedHeader \in BOOLEAN
      OBVIOUS
    <3>3. length \in Int /\ Announces(status, length)
      <4>1. pipeline[Who].size \in Int /\ Who = conn.now
        BY <2>1, <2>3, <2>6, Served, PipeInUse DEF Request
      <4>2. QED
        BY <4>1 DEF Announced, Upstream, Announces, Current
    <3> HIDE DEF status, length, chunkedHeader
    <3>4. Silent \/ WritesHead(status, length)
      BY <2>3, <3>1, <3>2, <3>3, HeadWritten
    <3>5. QED
      BY <3>2, <3>3, <3>4 DEF Effects, HeadsAsAnnounced
  <2>7. QED
    BY <2>5, <2>6
<1>6. CASE Pump
  <2>1. Top("pump") /\ frames # <<>>
    BY <1>6 DEF Pump, Top
  <2>2. Who \in Requests /\ Below \in Seq(Frames) /\ Waits(Below)
    BY <2>1, Running, BelowWaits
  <2>3. CASE Pumps(Who)
    <3>1. WriteContent(Received, Below)
      BY <1>6, <2>3 DEF Pump, Received, Content
    <3>2. replies[Who].given \in Int /\ replies[Who].read \in Nat /\ Who \in Nat
      <4>1. replies \in [Requests -> Reply] /\ Who \in Nat
        BY <2>2 DEF TypeOK, Requests
      <4>2. replies[Who] \in Reply
        BY <2>2, <4>1
      <4>3. QED
        BY <4>1, <4>2 DEF Reply
    <3>3. Received \in Seq(Units)
      BY <3>2, ContentTyped DEF Received
    <3>4. Silent \/ WritesUnits(Received)
      BY <2>2, <3>1, <3>3, ContentWritten
    <3>5. QED
      BY <2>1, <2>3, <3>4 DEF Effects
  <2>4. CASE ~Pumps(Who)
    BY <1>6, <2>2, <2>4, IgnoredSilently DEF Pump, Effects
  <2>5. QED
    BY <2>3, <2>4
<1>7. CASE EndContent
  <2>1. frames # <<>> /\ frames' = Below /\ (Shut \/ (conn' = conn /\ answers' = answers))
    BY <1>7 DEF EndContent, Top
  <2>2. ~Top("completing")'
    BY <2>1, BelowWaits, NoCompletion
  <2>3. QED
    BY <1>1, <2>1, <2>2, ShutSilently DEF Effects
<1>8. CASE FinishedBadly
  <2>1. /\ frames # <<>>
        /\ WriteResponse(503, <<>>, Below) \/ Ignored(Below)
    BY <1>8 DEF FinishedBadly, Top
  <2>2. Below \in Seq(Frames) /\ Waits(Below)
    BY <2>1, BelowWaits
  <2>3. CASE WriteResponse(503, <<>>, Below)
    <3> DEFINE none == <<>>
    <3>1. /\ none \in Seq(Units) /\ Len(none) \in Int /\ Announces(503, Len(none))
          /\ 503 \in Nat /\ WriteResponse(503, none, Below)
      BY <2>3 DEF Announces
    <3> HIDE DEF none
    <3>2. Silent \/ WritesHead(503, Len(none))
      BY <2>2, <3>1, ResponseWritten
    <3>3. QED
      BY <3>1, <3>2 DEF Effects, HeadsAsAnnounced
  <2>4. CASE Ignored(Below)
    BY <2>2, <2>4, IgnoredSilently DEF Effects
  <2>5. QED
    BY <2>1, <2>3, <2>4
<1>9. QED
  BY <1>3, <1>4, <1>5, <1>6, <1>7, <1>8 DEF ProxyNext

\* The effects of a step.
LEMMA StepEffects ==
  ASSUME TypeOK, InOrder, StackShape, PipesInOrder, Next
  PROVE  Effects
<1>1. CASE ConnectionStep
  <2>1. \/ Silent \/ Begins \/ Ends
        \/ WriteResponseTail /\ WritesUnits(Head(frames).content)
    BY <1>1, ConnEffects DEF ConnectionStep
  <2>2. QED
    BY <2>1 DEF Effects, WriteResponseTail
<1>2. CASE HandlerStep
  BY <1>2, HandleEffects DEF HandlerStep
<1>3. CASE (HandlerTurn /\ UNCHANGED proxyVars) \/ ReplyIsDeleted
  <2>1. Idles /\ conn' = conn /\ answers' = answers
    BY <1>3, TurnKinds DEF HandlerTurn, TransferEvent, PayloadWritten, DeliverPayloadCall,
       DeleteTransfer, FileIsChanged, ReplyIsDeleted, connVars
  <2>2. ~Top("completing")'
    <3>1. CASE PayloadWritten
      BY <3>1, BelowWaits, NoCompletion DEF PayloadWritten, Top
    <3>2. CASE DeliverPayloadCall
      <4>1. frames' = <<>> \/ frames' = <<Frame("payload", Head(posted).of)>>
        BY <3>2 DEF DeliverPayloadCall
      <4>2. frames' = <<>> \/ Head(frames') = Frame("payload", Head(posted).of)
        BY <4>1
      <4>3. QED
        BY <4>2 DEF Top, Frame
    <3>3. CASE DeleteTransfer \/ FileIsChanged \/ ReplyIsDeleted
      BY <3>3 DEF DeleteTransfer, FileIsChanged, ReplyIsDeleted, EventLoop, Top, connVars
    <3>4. QED
      BY <1>3, <3>1, <3>2, <3>3 DEF HandlerTurn, TransferEvent
  <2>3. QED
    BY <2>1, <2>2 DEF Effects, Silent
<1>4. CASE ProxyStep
  BY <1>4, ProxyEffects DEF ProxyStep
<1>5. QED
  BY <1>1, <1>2, <1>3, <1>4 DEF Next

\* Content that goes on where a response ends.
Continues(content) ==
  \A i \in DOMAIN content : content[i] = [of |-> conn.now, at |-> conn.sent + i - 1]

\* The next part does.
LEMMA PartContinues ==
  ASSUME NEW content, NEW to \in Nat, IsPart(content, conn.now, conn.sent, to)
  PROVE  content \in Seq(Units) /\ Continues(content)
<1>1. content \in Seq(Units) /\ DOMAIN content = 1 .. to - conn.sent
  BY DEF IsPart
<1>2. QED
  BY <1>1 DEF IsPart, Continues

\* A transfer has something to write only if its file goes on.
LEMMA PayloadLeft ==
  ASSUME TypeOK, Top("payload"), Payload(Who) > 0
  PROVE  /\ Who \in Transfers /\ transfers[Who] \in Requests
         /\ position[Who] \in Nat /\ fileSize[transfers[Who]] \in Int
         /\ Payload(Who) \in Nat \ {0}
         /\ position[Who] + Payload(Who) <= fileSize[transfers[Who]]
<1>1. /\ Who \in Transfers /\ transfers[Who] \in Requests
      /\ position[Who] \in Nat /\ Payload(Who) \in Int
  BY PayloadTyped
<1>2. fileSize[transfers[Who]] \in Int /\ conn.buffered \in Nat
  BY <1>1 DEF TypeOK, Connection
<1>3. TransferBuffer \in Int
  BY BufferAssumption DEF TransferBuffer
<1>4. position[Who] + Payload(Who) <= fileSize[transfers[Who]]
  BY <1>1, <1>2, <1>3 DEF Payload
<1>5. QED
  BY <1>1, <1>2, <1>4

\* Whatever is written goes on with the content of the request in service.
LEMMA OnlyOwn ==
  ASSUME TypeOK, InOrder, StackShape, PipesInOrder, TransfersInUse, Intact, Effects
  PROVE  \/ Silent \/ Begins \/ Ends \/ HeadsAsAnnounced
         \/ \E content \in Seq(Units) : Continues(content) /\ WritesUnits(content)
<1>1. CASE Top("content") /\ WritesUnits(Head(frames).content)
  <2> DEFINE content == Head(frames).content
  <2>1. frames # <<>> /\ Head(frames) = frames[1] /\ 1 \in DOMAIN frames
    BY <1>1, Popped DEF Top, TypeOK
  <2>2. frames[1].at = "content" /\ ~Current.head
    BY <1>1, <2>1 DEF Top, WritesUnits
  <2>3. conn.sent = 0 /\ Own(conn.now, frames[1].content)
    BY <2>1, <2>2 DEF Intact, ContentCallInPlace
  <2>4. content \in Seq(Units)
    BY <2>1, Running
  <2>5. Continues(content)
    <3>1. Own(conn.now, content)
      BY <2>1, <2>3
    <3>2. DOMAIN content \subseteq Int
      BY <2>4
    <3> HIDE DEF content
    <3>3. \A i \in DOMAIN content : content[i] = [of |-> conn.now, at |-> i - 1]
      BY <3>1 DEF Own
    <3>4. QED
      BY <2>3, <3>2, <3>3 DEF Continues
  <2>6. QED
    BY <1>1, <2>4, <2>5
<1>2. CASE WriteNextPayload /\ Payload(Who) > 0 /\ WritesUnits(Payloads)
  <2>1. /\ Who \in Transfers /\ transfers[Who] \in Requests
        /\ position[Who] \in Nat /\ Payload(Who) \in Nat \ {0}
        /\ position[Who] + Payload(Who) <= fileSize[transfers[Who]]
        /\ fileSize[transfers[Who]] \in Int
    BY <1>2, PayloadLeft DEF WriteNextPayload
  <2>2. conn.state = "SendingContent" /\ Open
    BY <1>2 DEF WritesUnits, Open
  <2>3. Who \notin doomed
    <3>1. ~(position[Who] >= fileSize[transfers[Who]])
      BY <2>1
    <3>2. QED
      BY <2>2, <3>1 DEF Intact, TransfersInPlace
  <2>4. transfers[Who] = conn.now /\ position[Who] = conn.sent /\ conn.now \in Nat
    <3>1. Who \in Transfers \ doomed
      BY <2>1, <2>3
    <3>2. transfers[Who] = conn.now
      BY <3>1 DEF TransfersInUse
    <3>3. position[Who] = conn.sent
      BY <3>1 DEF Intact, TransfersInPlace
    <3>4. QED
      BY <2>1, <3>2, <3>3 DEF Requests
  <2> DEFINE from == position[Who]
             to == position[Who] + Payload(Who)
  <2>5. /\ from \in Nat /\ to \in Nat /\ from <= to
        /\ Payloads = Content(conn.now, from, to) /\ from = conn.sent
    BY <2>1, <2>4 DEF Payloads
  <2> HIDE DEF from, to
  <2>6. IsPart(Payloads, conn.now, conn.sent, to)
    <3>1. IsPart(Content(conn.now, from, to), conn.now, from, to)
      BY <2>4, <2>5, ContentOwn
    <3>2. QED
      BY <2>5, <3>1, Zenon
  <2>7. Payloads \in Seq(Units) /\ Continues(Payloads)
    BY <2>5, <2>6, PartContinues
  <2>8. QED
    BY <1>2, <2>7
<1>3. CASE Top("pump") /\ Pumps(Who) /\ WritesUnits(Received)
  <2>1. frames # <<>> /\ Head(frames) = frames[1] /\ 1 \in DOMAIN frames
    BY <1>3, Popped DEF Top, TypeOK
  <2>2. Who \in LivePipes
    <3>1. frames[1].at = "pump" /\ frames[1].of = Who
      BY <1>3, <2>1 DEF Top, Who
    <3>2. Who \in Pipes
      BY <2>1, <3>1 DEF Intact, RepliesInPlace
    <3>3. QED
      BY <1>3, <3>2 DEF Pumps, LivePipes
  <2>3. Who = conn.now /\ Who \in Requests /\ replies[Who] \in Reply
    BY <2>2 DEF PipesInOrder, LivePipes, Pipes, TypeOK
  <2>4. /\ replies[Who].read = Len(answers[Who].content)
        /\ replies[Who].read <= replies[Who].given
    BY <2>2, <2>3 DEF Intact, RepliesInPlace
  <2>5. conn.sent = Len(answers[conn.now].content)
    BY <1>3 DEF Intact, ContentInPlace, WritesUnits, InService
  <2> DEFINE from == replies[Who].read
             to == replies[Who].given
  <2>6. /\ from \in Nat /\ to \in Nat /\ from <= to /\ conn.now \in Nat
        /\ Received = Content(conn.now, from, to) /\ from = conn.sent
    BY <2>3, <2>4, <2>5 DEF Received, Reply, Requests
  <2> HIDE DEF from, to
  <2>7. IsPart(Received, conn.now, conn.sent, to)
    <3>1. IsPart(Content(conn.now, from, to), conn.now, from, to)
      BY <2>6, ContentOwn
    <3>2. QED
      BY <2>6, <3>1, Zenon
  <2>8. Received \in Seq(Units) /\ Continues(Received)
    BY <2>6, <2>7, PartContinues
  <2>9. QED
    BY <1>3, <2>8
<1>4. QED
  BY <1>1, <1>2, <1>3 DEF Effects

\* Responses stay the responses to their own requests.
LEMMA ContentStep ==
  ASSUME TypeOK, InOrder, StackShape, PipesInOrder, TransfersInUse, Intact, Next
  PROVE  ContentInPlace'
<1>1. pipeline' = pipeline /\ Requests' = Requests
  BY StepKinds DEF Slotted, Requests
<1>2. /\ conn \in Connection /\ answers \in [Requests -> Answer]
      /\ conn.now \in Nat /\ conn.sent \in Nat /\ conn.length \in Int
      /\ \A r \in Requests : answers[r].content \in Seq(Units) /\ pipeline[r].size \in Nat
  BY Served DEF TypeOK, Connection, Answer, Request
<1>3. ContentInPlace
  BY DEF Intact
<1>4. InService => conn.now \in Requests /\ Current \in Request /\ answers[conn.now].end = "open"
  BY Served DEF InService, InOrder
<1>5. CASE Silent
  <2>1. \A r \in Requests : Own(r, answers'[r].content)
    BY <1>3, <1>5 DEF ContentInPlace, Silent, Own
  <2>2. InService' => conn'.state = conn.state /\ InService
    BY <1>5 DEF Silent, InService
  <2>3. \A r \in Requests : Exempt(r)' = Exempt(r) /\ Whole(r)' = Whole(r)
    BY <1>1, <1>5 DEF Silent, Exempt, Whole
  <2>4. \A r \in Requests : r > conn'.now => answers'[r].content = <<>>
    BY <1>3, <1>5 DEF ContentInPlace, Silent
  <2>5. conn'.state = "SendingHeaders" => answers'[conn'.now].content = <<>>
    BY <1>3, <1>4, <1>5, <2>2 DEF ContentInPlace, Silent, InService
  <2>6. InService' => conn'.sent = Len(answers'[conn'.now].content)
    BY <1>3, <1>4, <1>5, <2>2 DEF ContentInPlace, Silent
  <2>7. (conn'.state = "SendingContent" /\ conn'.length >= 0)
           => conn'.length = Current'.size \/ Exempt(conn.now)'
    <3>1. ASSUME conn'.state = "SendingContent", conn'.length >= 0
          PROVE  conn'.length = Current.size \/ Exempt(conn.now)
      BY <1>3, <1>5, <3>1 DEF ContentInPlace, Silent
    <3>2. conn'.state = "SendingContent" => conn.now \in Requests
      BY <1>4, <2>2 DEF InService
    <3>3. Current' = Current
      BY <1>1, <1>5 DEF Current, Silent
    <3>4. conn.now \in Requests => Exempt(conn.now)' = Exempt(conn.now)
      BY <1>1, <1>5 DEF Silent, Exempt
    <3>5. QED
      BY <3>1, <3>2, <3>3, <3>4
  <2>8. conn'.now = conn.now /\ ~Top("completing")'
    BY <1>5 DEF Silent
  <2>9. \A r \in Ended("completed")' : Exempt(r)' \/ Whole(r)'
    BY <1>1, <1>3, <1>5, <2>3 DEF ContentInPlace, Silent, Ended
  <2>10. QED
    BY <1>1, <2>1, <2>4, <2>5, <2>6, <2>7, <2>8, <2>9 DEF ContentInPlace, Exempt
<1>6. CASE Begins
  <2>1. conn.now + 1 \in Requests
    BY <1>2, <1>6 DEF Begins, StackShape, TypeOK, Requests
  <2>2. answers[conn.now + 1].content = <<>>
    BY <1>2, <1>3, <2>1 DEF ContentInPlace
  <2>3. \A r \in Requests : r > conn.now + 1 => answers[r].content = <<>>
    BY <1>2, <1>3 DEF ContentInPlace, Requests
  <2>4. \A r \in Requests : Exempt(r)' = Exempt(r) /\ Whole(r)' = Whole(r)
    BY <1>1, <1>6 DEF Begins, Exempt, Whole
  <2>5. \A r \in Ended("completed")' : Exempt(r)' \/ Whole(r)'
    BY <1>1, <1>3, <1>6, <2>4 DEF ContentInPlace, Begins, Ended
  <2>6. \A r \in Requests : Own(r, answers'[r].content)
    BY <1>3, <1>6 DEF ContentInPlace, Begins
  <2>7. Len(answers[conn.now + 1].content) = 0
    BY <2>2
  <2>8. QED
    BY <1>1, <1>6, <2>2, <2>3, <2>5, <2>6, <2>7 DEF ContentInPlace, Begins, InService
<1>7. CASE Ends
  <2>1. /\ Top("completing") /\ conn.state = "SendingContent" /\ conn'.now = conn.now
        /\ conn'.state = "Completed" /\ conn.now \in Requests
        /\ answers' = [answers EXCEPT ![conn.now].end = "completed"]
    BY <1>4, <1>7 DEF Ends, InService
  <2>2. ~Top("completing")'
    BY <1>7, StackParts DEF Ends, Waiting
  <2>3. \A r \in Requests : /\ answers'[r].content = answers[r].content
                            /\ answers'[r].status = answers[r].status
                            /\ r # conn.now => answers'[r].end = answers[r].end
    BY <1>2, <2>1 DEF Answer
  <2>4. \A r \in Requests : Exempt(r)' = Exempt(r) /\ Whole(r)' = Whole(r)
    BY <1>1, <2>3 DEF Exempt, Whole
  <2>5. Exempt(conn.now) \/ Whole(conn.now)
    <3>1. CASE Current.head
      BY <3>1 DEF Exempt, Current
    <3>2. CASE ~Current.head
      <4>1. conn.sent = conn.length /\ conn.sent = Len(answers[conn.now].content)
        BY <1>3, <2>1, <3>2 DEF ContentInPlace, InService
      <4>2. conn.length = Current.size \/ Exempt(conn.now)
        BY <1>2, <1>3, <2>1, <4>1 DEF ContentInPlace
      <4>3. QED
        BY <4>1, <4>2 DEF Whole, Current
    <3>3. QED
      BY <3>1, <3>2
  <2>6. \A r \in Ended("completed")' : Exempt(r)' \/ Whole(r)'
    BY <1>1, <1>3, <2>3, <2>4, <2>5 DEF ContentInPlace, Ended
  <2>7. \A r \in Requests : Own(r, answers'[r].content)
    BY <1>3, <2>3 DEF ContentInPlace
  <2>8. \A r \in Requests : r > conn'.now => answers'[r].content = <<>>
    BY <1>3, <2>1, <2>3 DEF ContentInPlace
  <2>9. QED
    BY <1>1, <2>1, <2>2, <2>6, <2>7, <2>8 DEF ContentInPlace, InService
<1>8. CASE HeadsAsAnnounced
  <2>1. PICK status \in Nat, length \in Int :
          WritesHead(status, length) /\ Announces(status, length)
    BY <1>8 DEF HeadsAsAnnounced
  <2>2. /\ conn.state = "SendingHeaders" /\ conn'.state = "SendingContent"
        /\ conn'.now = conn.now /\ conn'.sent = conn.sent /\ conn'.length = length
        /\ answers' = [answers EXCEPT ![conn.now].status = status,
                                      ![conn.now].length = length]
        /\ Top("completing")' => length = 0 \/ Current.head
        /\ conn.now \in Requests /\ answers[conn.now].end = "open"
    BY <1>4, <2>1 DEF WritesHead, InService
  <2>3. \A r \in Requests : /\ answers'[r].content = answers[r].content
                            /\ answers'[r].end = answers[r].end
                            /\ r # conn.now => answers'[r].status = answers[r].status
    BY <1>2, <2>2 DEF Answer
  <2>4. answers'[conn.now].status = status
    BY <1>2, <2>2 DEF Answer
  <2>5. \A r \in Requests \ {conn.now} : Exempt(r)' = Exempt(r) /\ Whole(r)' = Whole(r)
    BY <1>1, <2>3 DEF Exempt, Whole
  <2>6. \A r \in Ended("completed")' : Exempt(r)' \/ Whole(r)'
    BY <1>1, <1>3, <2>2, <2>3, <2>5 DEF ContentInPlace, Ended
  <2>7. length >= 0 => length = Current.size \/ Exempt(conn.now)'
    BY <1>1, <2>1, <2>2, <2>4 DEF Announces, Exempt, Current
  <2>8. answers[conn.now].content = <<>> /\ conn.sent = Len(answers[conn.now].content)
    BY <1>3, <2>2 DEF ContentInPlace, InService
  <2>9. conn.sent = 0
    BY <2>8
  <2>10. Current' = Current
    BY <1>1, <2>2 DEF Current
  <2>11. \A r \in Requests : Own(r, answers'[r].content)
    BY <1>3, <2>3 DEF ContentInPlace
  <2>12. \A r \in Requests : r > conn'.now => answers'[r].content = <<>>
    BY <1>3, <2>2, <2>3 DEF ContentInPlace
  <2>13. (conn'.length >= 0) => conn'.length = Current'.size \/ Exempt(conn.now)'
    BY <2>2, <2>7, <2>10
  <2>14. Top("completing")' => Current'.head \/ conn'.sent = conn'.length
    BY <2>2, <2>9, <2>10
  <2>15. conn'.sent = Len(answers'[conn'.now].content)
    BY <2>2, <2>3, <2>8
  <2>16. QED
    BY <1>1, <2>2, <2>6, <2>11, <2>12, <2>13, <2>14, <2>15 DEF ContentInPlace, Exempt
<1>9. CASE \E content \in Seq(Units) : Continues(content) /\ WritesUnits(content)
  <2>1. PICK content \in Seq(Units) : Continues(content) /\ WritesUnits(content)
    BY <1>9
  <2>2. /\ conn.state = "SendingContent" /\ conn'.state = conn.state /\ conn'.now = conn.now
        /\ answers' = [answers EXCEPT ![conn.now].content = @ \o content]
        /\ conn'.sent = conn.sent + Len(content) /\ conn'.length = conn.length
        /\ Top("completing")' => conn'.sent = conn.length
        /\ conn.now \in Requests /\ answers[conn.now].end = "open"
    BY <1>4, <2>1 DEF WritesUnits, SamePlace, InService
  <2> DEFINE before == answers[conn.now].content
  <2>3. \A r \in Requests : /\ r # conn.now => answers'[r].content = answers[r].content
                            /\ answers'[r].status = answers[r].status
                            /\ answers'[r].end = answers[r].end
    BY <1>2, <2>2 DEF Answer
  <2>4. answers'[conn.now].content = before \o content
    BY <1>2, <2>2 DEF Answer
  <2>5. before \in Seq(Units) /\ Own(conn.now, before) /\ conn.sent = Len(before)
    BY <1>2, <1>3, <2>2 DEF ContentInPlace, InService
  <2> HIDE DEF before
  <2>6. /\ Len(before \o content) = Len(before) + Len(content)
        /\ Own(conn.now, before \o content)
    <3>1. /\ before \o content \in Seq(Units)
          /\ Len(before \o content) = Len(before) + Len(content)
          /\ Len(before) \in Nat /\ Len(content) \in Nat
          /\ \A i \in 1 .. Len(before) : (before \o content)[i] = before[i]
          /\ \A i \in 1 .. Len(content) : (before \o content)[Len(before) + i] = content[i]
      BY <2>5, Joined
    <3>2. DOMAIN (before \o content) = 1 .. Len(before) + Len(content)
      BY <3>1
    <3>3. ASSUME NEW i \in 1 .. Len(before) + Len(content)
          PROVE  (before \o content)[i] = [of |-> conn.now, at |-> i - 1]
      <4>1. CASE i <= Len(before)
        <5>1. i \in 1 .. Len(before) /\ i \in DOMAIN before
          BY <2>5, <3>1, <4>1
        <5>2. QED
          BY <2>5, <3>1, <5>1 DEF Own
      <4>2. CASE i > Len(before)
        <5> DEFINE j == i - Len(before)
        <5>1. j \in 1 .. Len(content) /\ i = Len(before) + j
          BY <3>1, <4>2
        <5> HIDE DEF j
        <5>2. j \in DOMAIN content
          BY <2>1, <5>1
        <5>3. content[j] = [of |-> conn.now, at |-> conn.sent + j - 1]
          BY <2>1, <5>2 DEF Continues
        <5>4. (before \o content)[i] = content[j] /\ conn.sent + j - 1 = i - 1
          BY <2>5, <3>1, <5>1
        <5>5. QED
          BY <5>3, <5>4
      <4>3. QED
        BY <3>1, <4>1, <4>2
    <3>4. QED
      BY <3>1, <3>2, <3>3 DEF Own
  <2>7. \A r \in Requests : Own(r, answers'[r].content)
    BY <1>3, <2>3, <2>4, <2>6 DEF ContentInPlace
  <2>8. \A r \in Requests : r > conn'.now => answers'[r].content = <<>>
    BY <1>2, <1>3, <2>2, <2>3 DEF ContentInPlace, Requests
  <2>9. conn'.sent = Len(answers'[conn'.now].content)
    BY <2>2, <2>4, <2>5, <2>6
  <2>10. Exempt(conn.now)' = Exempt(conn.now) /\ Current' = Current
    BY <1>1, <2>2, <2>3 DEF Exempt, Current
  <2>11. (conn'.length >= 0) => conn'.length = Current'.size \/ Exempt(conn.now)'
    BY <1>3, <2>2, <2>10 DEF ContentInPlace
  <2>12. \A r \in Requests \ {conn.now} : Exempt(r)' = Exempt(r) /\ Whole(r)' = Whole(r)
    BY <1>1, <2>3 DEF Exempt, Whole
  <2>13. \A r \in Ended("completed")' : Exempt(r)' \/ Whole(r)'
    BY <1>1, <1>3, <2>2, <2>3, <2>12 DEF ContentInPlace, Ended
  <2>14. QED
    BY <1>1, <2>2, <2>7, <2>8, <2>9, <2>11, <2>13 DEF ContentInPlace, Exempt
<1>10. Effects
  BY StepEffects
<1>11. QED
  BY <1>5, <1>6, <1>7, <1>8, <1>9, <1>10, OnlyOwn

(***************************************************************************)
(* The calls that write: what they have to write.                          *)
(***************************************************************************)

\* The rest of writeResponse() is called below the tail of the headers'.
LEMMA ResponseRest ==
  ASSUME NEW status, NEW content \in Seq(Units), NEW then \in Seq(Frames),
         \A i \in DOMAIN then : then[i].at # "content",
         ~Current.head, conn.state = "SendingHeaders", WriteResponse(status, content, then)
  PROVE  \A i \in DOMAIN frames' : frames'[i].at = "content" =>
           i = 2 /\ Top("tail")' /\ frames'[i].content = content
<1> DEFINE c == ContentFrame(content)
           t == Frame("tail", 0)
           d == Frame("completing", 0)
           s == (IF content # <<>> THEN <<c>> ELSE <<>>) \o then
           length == Len(content)
<1>1. /\ c \in Frames /\ t \in Frames /\ d \in Frames
      /\ c.at = "content" /\ c.content = content /\ t.at = "tail" /\ d.at = "completing"
  BY Calls DEF Frame, ContentFrame
<1>2. length \in Nat /\ (length = 0 <=> content = <<>>)
  OBVIOUS
<1>3. WriteHeaders(status, length, FALSE, s)
  BY DEF WriteResponse
<1>4. content = <<>> => s = then
  BY NothingPushed
<1>5. content # <<>> => s = <<c>> \o then
  OBVIOUS
<1> HIDE DEF c, length
<1>6. s \in Seq(Frames)
  BY <1>1, <1>4, <1>5, Pushed
<1> HIDE DEF s
<1>7. frames' = IF length = 0 THEN <<d>> \o (<<t>> \o s) ELSE <<t>> \o s
  BY <1>3, <1>6, HeadersCalls
<1> HIDE DEF t, d
<1>8. CASE content = <<>>
  <2>1. frames' = <<d>> \o (<<t>> \o then)
    BY <1>2, <1>4, <1>7, <1>8
  <2>2. Follow(frames', d, t, then)
    BY <1>1, <2>1, TwoPushed
  <2>3. QED
    BY <1>1, <2>2 DEF Follow
<1>9. CASE content # <<>>
  <2>1. frames' = <<t>> \o (<<c>> \o then)
    BY <1>2, <1>5, <1>7, <1>9
  <2>2. Follow(frames', t, c, then)
    BY <1>1, <2>1, TwoPushed
  <2>3. Top("tail")'
    BY <1>1, <2>2 DEF Top, Follow
  <2>4. QED
    BY <1>1, <2>2, <2>3 DEF Follow
<1>10. QED
  BY <1>8, <1>9

\* What the handlers answer with is their target's, or the text of an error.
LEMMA AnswersOwn ==
  ASSUME TypeOK, InOrder, StackShape, Answers
  PROVE  /\ conn.state = "SendingHeaders" /\ conn.now \in Requests
         /\ Current.to # "proxy" /\ ~IsLarge(conn.now)
         /\ Top("handle") \/ frames = <<>>
         /\ \E status \in Nat, content \in Seq(Units) :
              /\ Own(conn.now, content)
              /\ WriteResponse(status, content, IF Top("handle") THEN Below ELSE <<>>)
<1>1. /\ Top("handle") \/ (frames = <<>> /\ conn.state = "SendingHeaders")
      /\ Current.to # "proxy"
  BY DEF Answers, HandleFixed, HandleFile, HandleMissing, FunctionAnswers, Handling, EventLoop
<1>2. conn.state = "SendingHeaders"
  BY <1>1 DEF StackShape
<1>3. conn.now \in Requests /\ Current \in Request /\ conn.now \in Nat
  BY <1>2, Served DEF InOrder
<1>4. Current.size \in Nat /\ BufferSize \in Nat
  BY <1>3, BufferAssumption DEF Request
<1>5. ~IsLarge(conn.now)
  <2>1. \/ Current.to # "file" \/ SmallFile \/ Current.variant # "plain"
    BY DEF Answers, HandleFixed, HandleFile, HandleMissing, FunctionAnswers, Handling
  <2>2. QED
    BY <1>4, <2>1 DEF IsLarge, SmallFile, Current
<1> DEFINE all == Content(conn.now, 0, Current.size)
           one == Content(conn.now, 0, 1)
           none == <<>>
           then == IF Top("handle") THEN Below ELSE <<>>
<1>6. \/ WriteResponse(200, all, then) \/ WriteResponse(304, none, then)
      \/ WriteResponse(403, one, then) \/ WriteResponse(404, one, then)
  BY <1>1 DEF Answers, HandleFixed, HandleFile, HandleMissing, FunctionAnswers, Handling,
     EventLoop, Top
<1>7. none \in Seq(Units) /\ Own(conn.now, none)
  BY DEF Own
<1>8. ASSUME NEW n \in Nat
      PROVE  /\ Content(conn.now, 0, n) \in Seq(Units)
             /\ Own(conn.now, Content(conn.now, 0, n))
  <2> DEFINE content == Content(conn.now, 0, n)
  <2>1. 0 \in Nat /\ 0 <= n /\ n - 0 = n
    OBVIOUS
  <2>2. /\ content \in Seq(Units) /\ Len(content) = n - 0
        /\ \A i \in 1 .. n - 0 : content[i] = [of |-> conn.now, at |-> 0 + i - 1]
    <3>1. IsPart(content, conn.now, 0, n)
      BY <1>3, <2>1, ContentOwn
    <3>2. QED
      BY <3>1 DEF IsPart
  <2> HIDE DEF content
  <2>3. DOMAIN content = 1 .. n
    BY <2>1, <2>2
  <2>4. \A i \in 1 .. n : content[i] = [of |-> conn.now, at |-> i - 1]
    <3>1. ASSUME NEW i \in 1 .. n
          PROVE  content[i] = [of |-> conn.now, at |-> i - 1]
      <4>1. 0 + i - 1 = i - 1 /\ i \in 1 .. n - 0
        BY <2>1
      <4>2. QED
        BY <2>2, <4>1
    <3>2. QED
      BY <3>1
  <2>5. Own(conn.now, content)
    BY <2>3, <2>4 DEF Own
  <2>6. QED
    BY <2>2, <2>5 DEF content
<1>9. /\ all \in Seq(Units) /\ Own(conn.now, all)
      /\ one \in Seq(Units) /\ Own(conn.now, one)
  <2>1. 1 \in Nat
    OBVIOUS
  <2>2. QED
    BY <1>4, <1>8, <2>1
<1> HIDE DEF all, one, none
<1>10. 200 \in Nat /\ 304 \in Nat /\ 403 \in Nat /\ 404 \in Nat
  OBVIOUS
<1>11. \E status \in Nat, content \in Seq(Units) :
         Own(conn.now, content) /\ WriteResponse(status, content, then)
  <2> HIDE DEF then
  <2>1. QED
    BY <1>6, <1>7, <1>9, <1>10
<1>12. QED
  BY <1>1, <1>2, <1>3, <1>5, <1>11

\* The rest of writeResponse() has the content of its response.
LEMMA ContentCallStep ==
  ASSUME TypeOK, InOrder, StackShape, Intact, NothingBehindHead, Next
  PROVE  ContentCallInPlace'
<1>1. Kinds /\ pipeline' = pipeline
  BY StepKinds DEF Slotted
<1>2. /\ frames \in Seq(Frames) /\ DOMAIN frames = 1 .. Len(frames) /\ Len(frames) \in Nat
      /\ conn.now \in Nat /\ arrived \in Nat /\ Len(pipeline) \in Nat
  BY Served DEF TypeOK
<1>3. frames # <<>> =>
        /\ Below \in Seq(Frames) /\ Len(frames) \in Nat \ {0}
        /\ DOMAIN Below = 1 .. Len(frames) - 1
        /\ \A i \in 1 .. Len(frames) - 1 : Below[i] = frames[i + 1]
        /\ Head(frames) = frames[1]
  <2>1. ASSUME frames # <<>>
        PROVE  /\ Below \in Seq(Frames) /\ Len(frames) \in Nat \ {0}
               /\ Len(Below) = Len(frames) - 1
               /\ \A i \in 1 .. Len(frames) - 1 : Below[i] = frames[i + 1]
               /\ Head(frames) = frames[1]
    BY <1>2, <2>1, Popped DEF Below
  <2>2. QED
    BY <2>1
<1>4. CASE Current.head /\ conn.now = Len(pipeline)
  <2>1. ~Dispatches
    BY <1>2, <1>4 DEF Dispatches, StackShape, TypeOK
  <2>2. conn'.now = conn.now
    BY <1>1, <2>1 DEF Kinds, Arrives, Heads, WritesHeaders, Ends, Resumes, Drains, Cuts,
       Takes, Tells, Idles, SamePlace
  <2>3. QED
    BY <1>1, <1>4, <2>2 DEF ContentCallInPlace, Current
<1>5. CASE ~(Current.head /\ conn.now = Len(pipeline))
  <2>1. \A i \in DOMAIN frames : frames[i].at = "content" =>
          /\ i = 1 \/ (i = 2 /\ Top("tail"))
          /\ conn.state = "SendingContent" /\ conn.sent = 0
          /\ ~Current.head /\ Current.to # "proxy" /\ ~IsLarge(conn.now)
          /\ Own(conn.now, frames[i].content)
          /\ Len(frames[i].content) = conn.length
    BY <1>5 DEF Intact, ContentCallInPlace
  <2>2. CASE Answers
    <3>1. /\ conn.state = "SendingHeaders" /\ conn.now \in Requests
          /\ Current.to # "proxy" /\ ~IsLarge(conn.now)
          /\ Top("handle") \/ frames = <<>>
      BY <2>2, AnswersOwn
    <3> DEFINE then == IF Top("handle") THEN Below ELSE <<>>
    <3>2. PICK status \in Nat, content \in Seq(Units) :
            Own(conn.now, content) /\ WriteResponse(status, content, then)
      BY <2>2, AnswersOwn
    <3>3. then \in Seq(Frames) /\ Waits(then)
      <4>1. CASE Top("handle")
        BY <4>1, Handled
      <4>2. CASE ~Top("handle")
        BY <4>2 DEF Waits
      <4>3. QED
        BY <4>1, <4>2
    <3>4. \A i \in DOMAIN then : then[i].at # "content"
      <4>1. \A i \in DOMAIN frames : frames[i].at # "content"
        BY <2>1, <3>1
      <4>2. frames # <<>> => \A i \in DOMAIN Below : i + 1 \in DOMAIN frames /\ Below[i] = frames[i + 1]
        BY <1>2, <1>3
      <4>3. QED
        BY <4>1, <4>2 DEF Top
    <3> HIDE DEF then
    <3>5. ~Current.head
      <4>1. conn.now \in DOMAIN pipeline /\ pipeline \in Pipelines
        BY <3>1, Served DEF Requests, TypeOK
      <4>2. Current.head => Current.to = "proxy" \/ conn.now = Len(pipeline)
        BY <4>1 DEF NothingBehindHead, Current
      <4>3. QED
        BY <1>5, <3>1, <4>2
    <3>6. WritesHead(status, Len(content))
      BY <3>1, <3>2, <3>3, ResponseWritten
    <3>7. /\ conn'.state = "SendingContent" /\ conn'.now = conn.now
          /\ conn'.sent = conn.sent /\ conn'.length = Len(content)
      BY <3>6 DEF WritesHead
    <3>8. conn.sent = 0
      <4>1. answers[conn.now].content = <<>> /\ conn.sent = Len(answers[conn.now].content)
        BY <3>1 DEF Intact, ContentInPlace, InService
      <4>2. QED
        BY <4>1
    <3>9. \A i \in DOMAIN frames' : frames'[i].at = "content" =>
            i = 2 /\ Top("tail")' /\ frames'[i].content = content
      BY <3>1, <3>2, <3>3, <3>4, <3>5, ResponseRest
    <3>10. Current' = Current /\ (IsLarge(conn.now)' <=> IsLarge(conn.now))
      BY <1>1, <3>7 DEF Current, IsLarge
    <3>11. QED
      BY <3>1, <3>2, <3>5, <3>7, <3>8, <3>9, <3>10 DEF ContentCallInPlace
  <2>3. CASE Top("tail")
    <3>1. /\ frames # <<>> /\ frames' = Below
          /\ conn'.now = conn.now /\ conn'.state = conn.state
          /\ conn'.sent = conn.sent /\ conn'.length = conn.length
      BY <2>3, TailReturns
    <3>2. Current' = Current /\ (IsLarge(conn.now)' <=> IsLarge(conn.now))
      BY <1>1, <3>1 DEF Current, IsLarge
    <3>3. ASSUME NEW i \in DOMAIN Below, Below[i].at = "content"
          PROVE  /\ i = 1
                 /\ conn.state = "SendingContent" /\ conn.sent = 0
                 /\ ~Current.head /\ Current.to # "proxy" /\ ~IsLarge(conn.now)
                 /\ Own(conn.now, Below[i].content)
                 /\ Len(Below[i].content) = conn.length
      <4>1. i \in Nat /\ i > 0 /\ i + 1 \in DOMAIN frames /\ Below[i] = frames[i + 1]
        BY <1>2, <1>3, <3>1
      <4>2. i = 1
        BY <2>1, <3>3, <4>1
      <4>3. QED
        BY <2>1, <3>3, <4>1, <4>2
    <3>4. QED
      BY <3>1, <3>2, <3>3 DEF ContentCallInPlace
  <2>4. CASE ~Answers /\ ~Top("tail")
    <3>1. \A i \in DOMAIN frames : i = 1 \/ frames[i].at # "content"
      BY <2>1, <2>4
    <3>2. \A i \in DOMAIN frames' : frames'[i].at # "content"
      BY <2>4, <3>1, NoneMade
    <3>3. QED
      BY <3>2 DEF ContentCallInPlace
  <2>5. QED
    BY <2>2, <2>3, <2>4
<1>6. QED
  BY <1>4, <1>5

(***************************************************************************)
(* Where the transfers stand.                                              *)
(***************************************************************************)

\* A response that is sent from a large file is no answer to a HEAD.
LEMMA LargeIsAnswered ==
  ASSUME TypeOK, NoHeadOfFiles, NEW r \in Requests, IsLarge(r)
  PROVE  ~pipeline[r].head
<1>1. pipeline[r] \in Request /\ pipeline \in Seq(Request)
  BY Served
<1>2. r \in DOMAIN pipeline /\ pipeline \in Pipelines
  BY <1>1 DEF Requests, TypeOK
<1>3. pipeline[r].size \in Nat
  BY <1>1 DEF Request
<1>4. QED
  BY <1>2, <1>3, BufferAssumption DEF NoHeadOfFiles, IsLarge

\* A transfer in use is the one of the response being sent.
LEMMA TransferInUse ==
  ASSUME TypeOK, InOrder, TransfersInUse, TransfersInPlace, NEW t \in Transfers \ doomed
  PROVE  /\ transfers[t] = conn.now /\ conn.now \in Requests
         /\ conn.state = "SendingContent" /\ IsLarge(conn.now)
         /\ position[t] = conn.sent /\ conn.length = Current.size
         /\ position[t] \in Nat /\ fileSize[conn.now] \in Int
         /\ fileSize[conn.now] <= Current.size
         /\ \A u \in Transfers \ doomed : u = t
<1>1. t \in Transfers /\ Transfers = 1 .. Len(transfers) /\ transfers[t] \in Requests
  BY DEF TypeOK, Transfers
<1>2. transfers[t] = conn.now /\ conn.state = "SendingContent"
  BY DEF TransfersInUse
<1>3. conn.now \in Requests
  BY <1>1, <1>2
<1>4. /\ IsLarge(transfers[t]) /\ position[t] = conn.sent /\ conn.length = Current.size
      /\ \A u \in Transfers : transfers[u] = transfers[t] => u = t
  BY <1>1 DEF TransfersInPlace
<1>5. \A u \in Transfers \ doomed : transfers[u] = conn.now
  BY DEF TransfersInUse
<1>6. position[t] \in Nat /\ fileSize[conn.now] \in Int
  <2>1. /\ position \in Seq(Nat) /\ Len(position) = Len(transfers)
        /\ fileSize \in [Requests -> Int]
    BY DEF TypeOK
  <2>2. t \in DOMAIN position
    BY <1>1, <2>1
  <2>3. QED
    BY <1>3, <2>1, <2>2
<1>7. fileSize[conn.now] <= Current.size
  BY <1>3 DEF TransfersInPlace, Current
<1>8. QED
  BY <1>1, <1>2, <1>3, <1>4, <1>5, <1>6, <1>7

\* What a transfer has read is written, and nothing else is counted.
LEMMA PayloadMoves ==
  ASSUME TypeOK, InOrder, StackShape, NoHeadOfFiles, TransfersInUse, Intact,
         WriteNextPayload
  PROVE  \/ position' = position /\ conn' = conn
         \/ /\ Who \in Transfers \ doomed /\ Payload(Who) \in Nat \ {0}
            /\ position' = [position EXCEPT ![Who] = @ + Payload(Who)]
            /\ conn'.sent = conn.sent + Payload(Who) /\ conn'.length = conn.length
            /\ conn'.now = conn.now /\ conn'.state = conn.state
<1>1. CASE ~(Open /\ Payload(Who) > 0)
  BY <1>1 DEF WriteNextPayload, Ignored
<1>2. CASE Open /\ Payload(Who) > 0
  <2>1. Top("payload") /\ frames # <<>>
    BY DEF WriteNextPayload, Top
  <2>2. /\ Who \in Transfers /\ transfers[Who] \in Requests
        /\ position[Who] \in Nat /\ Payload(Who) \in Nat \ {0}
        /\ position[Who] + Payload(Who) <= fileSize[transfers[Who]]
        /\ fileSize[transfers[Who]] \in Int
    BY <1>2, <2>1, PayloadLeft
  <2>3. Who \notin doomed
    <3>1. ~(position[Who] >= fileSize[transfers[Who]])
      BY <2>2
    <3>2. QED
      BY <1>2, <3>1 DEF Intact, TransfersInPlace
  <2>4. /\ transfers[Who] = conn.now /\ conn.now \in Requests
        /\ conn.state = "SendingContent" /\ IsLarge(conn.now)
        /\ position[Who] = conn.sent /\ conn.length = Current.size
        /\ fileSize[conn.now] <= Current.size
    BY <2>2, <2>3, TransferInUse DEF Intact
  <2>5. ~Current.head
    BY <2>4, LargeIsAnswered DEF Current
  <2>6. Payloads \in Seq(Units) /\ Len(Payloads) = Payload(Who)
    <3> DEFINE from == position[Who]
               to == position[Who] + Payload(Who)
    <3>1. from \in Nat /\ to \in Nat /\ from <= to /\ to - from = Payload(Who)
      BY <2>2
    <3>2. conn.now \in Nat /\ Payloads = Content(conn.now, from, to)
      BY <2>4 DEF Payloads, Requests
    <3> HIDE DEF from, to
    <3>3. IsPart(Content(conn.now, from, to), conn.now, from, to)
      BY <3>1, <3>2, ContentOwn
    <3>4. Payloads \in Seq(Units) /\ Len(Payloads) = to - from
      BY <3>2, <3>3, Zenon DEF IsPart
    <3>5. QED
      BY <3>1, <3>4
  <2>7. Payloads # <<>>
    BY <2>2, <2>6
  <2>8. ContentFits(Payloads)
    <3>1. conn.sent + Len(Payloads) <= conn.length
      <4>1. Current.size \in Nat
        BY <2>4, Served DEF Request, Current
      <4>2. QED
        BY <2>2, <2>4, <2>6, <4>1
    <3>2. QED
      BY <3>1 DEF ContentFits
  <2> DEFINE s == <<Frame("written", Who)>> \o Below
  <2>9. WriteContent(Payloads, s) /\ position' = [position EXCEPT ![Who] = @ + Payload(Who)]
    BY <1>2 DEF WriteNextPayload, Payloads
  <2>10. s \in Seq(Frames) /\ Waits(s)
    <3>1. Frame("written", Who) \in Frames /\ Frame("written", Who).at \in Waiting
      BY <2>2, Calls DEF Frame, Waiting
    <3>2. QED
      BY <2>1, <3>1, BelowWaits, OnTop, Pushed
  <2> HIDE DEF s
  <2>11. WritesUnits(Payloads)
    BY <2>4, <2>5, <2>6, <2>7, <2>8, <2>9, <2>10, ContentWritten
  <2>12. QED
    BY <2>2, <2>3, <2>6, <2>9, <2>11 DEF WritesUnits, SamePlace
<1>3. QED
  BY <1>1, <1>2

\* What changes of the transfers.
LEMMA TransferSteps ==
  ASSUME Next
  PROVE  /\ transfers' = transfers \/ StartTransfer
         /\ position' = position \/ StartTransfer \/ WriteNextPayload
         /\ fileSize' = fileSize \/ FileIsChanged
         /\ \/ doomed' = doomed \/ doomed' = doomed \cup Outlived
            \/ PayloadWritten /\ conn' = conn
         /\ FileIsChanged => conn' = conn /\ doomed' = doomed
         /\ StartTransfer => conn' = conn
<1>1. FileIsChanged => conn' = conn /\ doomed' = doomed
  BY DEF FileIsChanged, connVars
<1>2. StartTransfer => conn' = conn
  BY DEF StartTransfer
<1>3. CASE ConnectionStep
  BY <1>1, <1>2, <1>3 DEF ConnectionStep, Slots
<1>4. CASE HandlerStep
  <2>1. Handle /\ doomed' = doomed \cup Outlived
    BY <1>4 DEF HandlerStep, Slots
  <2>2. /\ transfers' = transfers \/ StartTransfer
        /\ position' = position \/ StartTransfer \/ WriteNextPayload
    <3>1. WriteNextPayload => transfers' = transfers
      BY DEF WriteNextPayload
    <3>2. Handle /\ ~StartTransfer /\ ~WriteNextPayload
            => transfers' = transfers /\ position' = position
      BY DEF Handle, HandleFixed, HandleFunction, HandleFile, HandleMissing,
         HandleLargeFile, FunctionAnswers
    <3>3. QED
      BY <2>1, <3>1, <3>2
  <2>3. fileSize' = fileSize
    BY <2>1 DEF Handle, HandleFixed, HandleFunction, HandleFile, HandleMissing,
       HandleLargeFile, Handling, StartTransfer, WriteNextPayload, FunctionAnswers
  <2>4. QED
    BY <1>1, <1>2, <2>1, <2>2, <2>3
<1>5. CASE HandlerTurn /\ UNCHANGED proxyVars
  <2>1. transfers' = transfers /\ position' = position
    BY <1>5 DEF HandlerTurn, TransferEvent, PayloadWritten, DeliverPayloadCall,
       DeleteTransfer, FileIsChanged, handlerVars
  <2>2. fileSize' = fileSize \/ FileIsChanged
    BY <1>5 DEF HandlerTurn, TransferEvent, PayloadWritten, DeliverPayloadCall,
       DeleteTransfer, handlerVars
  <2>3. doomed' = doomed \/ PayloadWritten
    BY <1>1, <1>5 DEF HandlerTurn, TransferEvent, DeliverPayloadCall, DeleteTransfer, handlerVars
  <2>4. PayloadWritten => conn' = conn
    BY DEF PayloadWritten
  <2>5. QED
    BY <1>1, <1>2, <2>1, <2>2, <2>3, <2>4
<1>6. CASE ProxyStep
  BY <1>1, <1>2, <1>6 DEF ProxyStep, Slots
<1>7. CASE ReplyIsDeleted
  BY <1>1, <1>2, <1>7 DEF ReplyIsDeleted, handlerVars
<1>8. QED
  BY <1>3, <1>4, <1>5, <1>6, <1>7 DEF Next

\* Files only shrink.
LEMMA FilesStep ==
  ASSUME TypeOK, FilesOnlyShrink, Next
  PROVE  \A r \in Requests :
           fileSize'[r] <= fileSize[r] /\ fileSize[r] \in Int /\ fileSize'[r] \in Int
<1>1. fileSize \in [Requests -> Int]
  BY DEF TypeOK
<1>2. CASE fileSize' = fileSize
  BY <1>1, <1>2
<1>3. CASE FileIsChanged
  <2>1. PICK t \in LiveTransfers \ doomed, by \in FileChanges :
          fileSize' = [fileSize EXCEPT ![transfers[t]] = @ + by]
    BY <1>3 DEF FileIsChanged
  <2>2. by \in Int /\ by <= 0
    BY <2>1, FileChangesAssumption DEF FilesOnlyShrink
  <2> DEFINE c == transfers[t]
  <2>3. fileSize' = [fileSize EXCEPT ![c] = @ + by]
    BY <2>1
  <2> HIDE DEF c
  <2>4. QED
    BY <1>1, <2>2, <2>3
<1>4. QED
  BY <1>2, <1>3, TransferSteps

\* The response in service goes on, or it is the next.
LEMMA NowGoes ==
  ASSUME TypeOK, InOrder, StackShape, Next
  PROVE  /\ conn.now \in Nat /\ conn'.now \in {conn.now, conn.now + 1}
         /\ conn'.state = "SendingHeaders" =>
              \/ conn'.now = conn.now + 1
              \/ conn'.now = conn.now /\ conn.state = "SendingHeaders"
         /\ conn.state = "SendingContent" => conn'.now = conn.now
         /\ conn'.state # "Closed" => conn.state # "Closed"
<1>1. Kinds
  BY StepKinds
<1>2. conn.now \in Nat
  BY Served
<1>3. QED
  BY <1>1, <1>2 DEF Kinds, Arrives, Dispatches, Heads, WritesHeaders, Ends, Resumes, Drains,
     Cuts, Takes, Tells, Idles, SamePlace, StackShape, Open

\* A transfer is made when nothing of its response is written.
LEMMA TransferStarts ==
  ASSUME TypeOK, InOrder, TransferCallInPlace, TransfersInPlace, StartTransfer
  PROVE  /\ conn' = conn /\ conn.state = "SendingContent" /\ IsLarge(conn.now)
         /\ conn.sent = 0 /\ conn.length = Current.size
         /\ \A t \in Transfers :
              /\ transfers[t] < conn.now
              /\ transfers'[t] = transfers[t] /\ position'[t] = position[t]
         /\ transfers'[Len(transfers) + 1] = conn.now /\ position'[Len(transfers) + 1] = 0
         /\ Transfers' = Transfers \cup {Len(transfers) + 1}
<1>1. /\ frames # <<>> /\ Head(frames).at = "transfer" /\ conn' = conn
      /\ transfers' = Append(transfers, Who) /\ position' = Append(position, 0)
  BY DEF StartTransfer, Top
<1>2. 1 \in DOMAIN frames /\ Head(frames) = frames[1]
  BY <1>1, Popped DEF TypeOK
<1>3. frames[1].at = "transfer" /\ Who = frames[1].of
  BY <1>1, <1>2 DEF Who
<1>4. Who = conn.now /\ conn.state = "SendingContent"
  BY <1>2, <1>3 DEF TransferCallInPlace
<1>5. /\ IsLarge(conn.now) /\ conn.sent = 0 /\ conn.length = Current.size
      /\ \A t \in Transfers : transfers[t] < conn.now
  BY <1>2, <1>3 DEF TransfersInPlace
<1>6. conn.now \in Requests
  BY <1>4, Served DEF InOrder
<1>7. /\ transfers \in Seq(Requests) /\ position \in Seq(Nat)
      /\ Len(position) = Len(transfers) /\ Len(transfers) \in Nat
  BY DEF TypeOK
<1>8. /\ Len(transfers') = Len(transfers) + 1
      /\ \A t \in 1 .. Len(transfers) : transfers'[t] = transfers[t]
      /\ transfers'[Len(transfers) + 1] = conn.now
  BY <1>1, <1>4, <1>6, <1>7, Added
<1>9. /\ \A t \in 1 .. Len(transfers) : position'[t] = position[t]
      /\ position'[Len(transfers) + 1] = 0
  BY <1>1, <1>7, Added
<1>10. Transfers' = Transfers \cup {Len(transfers) + 1}
  BY <1>7, <1>8 DEF Transfers
<1>11. QED
  BY <1>1, <1>4, <1>5, <1>8, <1>9, <1>10 DEF Transfers

\* Transfers are for large files, each for another one.
LEMMA TransfersLarge ==
  ASSUME TypeOK, InOrder, StackShape, TransferCallInPlace, TransfersInPlace, Next
  PROVE  \A t \in Transfers' :
           /\ IsLarge(transfers'[t]) /\ transfers'[t] <= conn'.now
           /\ conn'.state = "SendingHeaders" => transfers'[t] < conn'.now
           /\ \A u \in Transfers' : transfers'[u] = transfers'[t] => u = t
<1>1. /\ conn.now \in Nat /\ conn'.now \in {conn.now, conn.now + 1}
      /\ conn'.state = "SendingHeaders" =>
           \/ conn'.now = conn.now + 1
           \/ conn'.now = conn.now /\ conn.state = "SendingHeaders"
  BY NowGoes
<1>2. \A t \in Transfers :
        /\ transfers[t] \in Nat /\ IsLarge(transfers[t]) /\ transfers[t] <= conn.now
        /\ conn.state = "SendingHeaders" => transfers[t] < conn.now
        /\ \A u \in Transfers : transfers[u] = transfers[t] => u = t
  <2>1. \A t \in Transfers : transfers[t] \in Nat
    BY DEF TypeOK, Transfers, Requests
  <2>2. QED
    BY <2>1 DEF TransfersInPlace
<1>3. CASE transfers' = transfers
  <2>1. Transfers' = Transfers
    BY <1>3 DEF Transfers
  <2>2. QED
    BY <1>1, <1>2, <1>3, <2>1
<1>4. CASE StartTransfer
  <2>1. /\ conn' = conn /\ conn.state = "SendingContent" /\ IsLarge(conn.now)
        /\ \A t \in Transfers : transfers[t] < conn.now /\ transfers'[t] = transfers[t]
        /\ transfers'[Len(transfers) + 1] = conn.now
        /\ Transfers' = Transfers \cup {Len(transfers) + 1}
    BY <1>4, TransferStarts
  <2>2. QED
    BY <1>1, <1>2, <2>1
<1>5. QED
  BY <1>3, <1>4, TransferSteps

\* A transfer in use stands where its response ends.
LEMMA TransfersKeepUp ==
  ASSUME TypeOK, InOrder, StackShape, PipesInOrder, NoHeadOfFiles, TransferCallInPlace,
         TransfersInUse, Intact, Next
  PROVE  \A t \in Transfers' \ doomed' :
           position'[t] = conn'.sent /\ conn'.length = Current'.size
<1>1. pipeline' = pipeline
  BY StepKinds DEF Slotted
<1>2. TransfersInUse' /\ TypeOK'
  BY TransfersStep, TypeStep
<1>3. doomed \subseteq doomed'
  BY TransferSteps DEF PayloadWritten, Outlived
<1>4. TransfersInPlace
  BY DEF Intact
<1>5. SUFFICES ASSUME NEW t \in Transfers' \ doomed'
               PROVE  position'[t] = conn'.sent /\ conn'.length = Current'.size
  OBVIOUS
<1>6. conn'.state = "SendingContent"
  BY <1>2 DEF TransfersInUse
<1>7. CASE StartTransfer
  <2>1. t \in Transfers => t \in Transfers \ doomed
    BY <1>3
  <2>2. t \notin Transfers
    <3>1. SUFFICES ASSUME t \in Transfers PROVE FALSE
      OBVIOUS
    <3>2. transfers[t] = conn.now /\ conn.now \in Nat
      BY <2>1, <3>1, Served DEF TransfersInUse
    <3>3. transfers[t] < conn.now
      BY <1>4, <1>7, <3>1, TransferStarts
    <3>4. QED
      BY <3>2, <3>3
  <2>3. t = Len(transfers) + 1 /\ position'[t] = 0 /\ conn' = conn
        /\ conn.sent = 0 /\ conn.length = Current.size
    BY <1>4, <1>7, <2>2, TransferStarts
  <2>4. QED
    BY <1>1, <2>3 DEF Current
<1>8. CASE transfers' = transfers
  <2>1. t \in Transfers \ doomed
    BY <1>3, <1>8 DEF Transfers
  <2>2. /\ transfers[t] = conn.now /\ conn.now \in Requests
        /\ conn.state = "SendingContent" /\ IsLarge(conn.now)
        /\ position[t] = conn.sent /\ conn.length = Current.size
        /\ \A u \in Transfers \ doomed : u = t
    BY <1>4, <2>1, TransferInUse
  <2>3. conn'.now = conn.now /\ Current' = Current
    BY <1>1, <2>2, NowGoes DEF Current
  <2>4. CASE WriteNextPayload
    <3>1. CASE position' = position /\ conn' = conn
      BY <2>2, <2>3, <3>1
    <3>2. CASE /\ Who \in Transfers \ doomed /\ Payload(Who) \in Nat \ {0}
               /\ position' = [position EXCEPT ![Who] = @ + Payload(Who)]
               /\ conn'.sent = conn.sent + Payload(Who) /\ conn'.length = conn.length
      <4>1. Who = t /\ t \in DOMAIN position
        BY <2>1, <2>2, <3>2 DEF TypeOK, Transfers
      <4>2. position'[t] = position[t] + Payload(Who)
        BY <3>2, <4>1
      <4>3. QED
        BY <2>2, <2>3, <3>2, <4>2
    <3>3. QED
      BY <2>4, <3>1, <3>2, PayloadMoves
  <2>5. CASE position' = position /\ ~WriteNextPayload
    <3>1. conn'.sent = conn.sent /\ conn'.length = conn.length
      <4>1. CASE Silent
        BY <4>1 DEF Silent
      <4>2. ~Begins /\ ~Ends /\ ~HeadsAsAnnounced
        BY <1>6, <2>2 DEF Begins, Ends, HeadsAsAnnounced, WritesHead
      <4>3. ~(Top("content") /\ WritesUnits(Head(frames).content))
        <5>1. SUFFICES ASSUME Top("content"), WritesUnits(Head(frames).content) PROVE FALSE
          OBVIOUS
        <5>2. 1 \in DOMAIN frames /\ frames[1].at = "content"
          BY <5>1, Popped DEF Top, TypeOK
        <5>3. QED
          BY <2>2, <5>1, <5>2 DEF Intact, ContentCallInPlace, WritesUnits
      <4>4. ~(Top("pump") /\ Pumps(Who) /\ WritesUnits(Received))
        <5>1. SUFFICES ASSUME Top("pump"), Pumps(Who) PROVE FALSE
          OBVIOUS
        <5>2. 1 \in DOMAIN frames /\ frames[1].at = "pump" /\ frames[1].of = Who
          BY <5>1, Popped DEF Top, TypeOK, Who
        <5>3. Who \in LivePipes
          BY <5>1, <5>2 DEF Intact, RepliesInPlace, LivePipes, Pumps
        <5>4. Current.to = "proxy"
          BY <5>3 DEF PipesInOrder
        <5>5. QED
          BY <2>2, <5>4 DEF IsLarge, Current
      <4>5. QED
        BY <2>5, <4>1, <4>2, <4>3, <4>4, StepEffects DEF Effects
    <3>2. QED
      BY <2>2, <2>3, <2>5, <3>1
  <2>6. CASE StartTransfer
    BY <1>7, <2>6
  <2>7. QED
    BY <2>4, <2>5, <2>6, TransferSteps
<1>9. QED
  BY <1>7, <1>8, TransferSteps

\* A transfer is done for when its file is read, or its connection is closed.
LEMMA TransfersDone ==
  ASSUME TypeOK, InOrder, StackShape, PipesInOrder, NoHeadOfFiles, FilesOnlyShrink,
         TransferCallInPlace, TransfersInUse, Intact, Next
  PROVE  \A t \in doomed' : Open' => position'[t] >= fileSize'[transfers'[t]]
<1>1. /\ doomed \subseteq Transfers /\ transfers \in Seq(Requests) /\ position \in Seq(Nat)
      /\ Len(position) = Len(transfers) /\ Transfers = 1 .. Len(transfers)
  BY DEF TypeOK, Transfers
<1>2. \A t \in Transfers : transfers[t] \in Requests /\ position[t] \in Nat
  BY <1>1
<1>3. \A r \in Requests : /\ fileSize'[r] <= fileSize[r]
                          /\ fileSize[r] \in Int /\ fileSize'[r] \in Int
  BY FilesStep
<1>4. TransfersInPlace
  BY DEF Intact
<1>5. ASSUME NEW t \in Transfers
      PROVE  /\ transfers'[t] = transfers[t] /\ transfers[t] \in Requests
             /\ position'[t] \in Nat /\ position'[t] >= position[t]
             /\ ~WriteNextPayload => position'[t] = position[t]
  <2>1. transfers'[t] = transfers[t]
    BY <1>4, <1>5, TransferStarts, TransferSteps
  <2>2. CASE StartTransfer
    BY <1>2, <1>4, <1>5, <2>1, <2>2, TransferStarts
  <2>3. CASE position' = position
    BY <1>2, <1>5, <2>1, <2>3
  <2>4. CASE WriteNextPayload
    <3>1. CASE position' = position
      BY <2>3, <3>1
    <3>2. CASE /\ Who \in Transfers /\ Payload(Who) \in Nat
               /\ position' = [position EXCEPT ![Who] = @ + Payload(Who)]
      <4>1. t \in DOMAIN position /\ Who \in DOMAIN position
        BY <1>1, <1>5, <3>2
      <4> DEFINE n == Payload(Who)
      <4>2. n \in Nat /\ position' = [position EXCEPT ![Who] = @ + n]
        BY <3>2
      <4> HIDE DEF n
      <4>3. position'[t] = IF t = Who THEN position[t] + n ELSE position[t]
        BY <4>1, <4>2
      <4>4. QED
        BY <1>2, <2>1, <2>4, <4>2, <4>3
    <3>3. QED
      BY <2>4, <3>1, <3>2, PayloadMoves
  <2>5. QED
    BY <2>2, <2>3, <2>4, TransferSteps
<1>6. SUFFICES ASSUME NEW t \in doomed', Open'
               PROVE  position'[t] >= fileSize'[transfers'[t]]
  OBVIOUS
<1>7. Open
  BY <1>6, NowGoes DEF Open
<1>8. CASE t \in doomed
  <2>1. t \in Transfers /\ position[t] >= fileSize[transfers[t]]
    BY <1>1, <1>4, <1>7, <1>8 DEF TransfersInPlace
  <2>2. QED
    BY <1>2, <1>3, <1>5, <2>1
<1>9. CASE t \notin doomed /\ doomed' = doomed \cup Outlived
  <2>1. t \in Outlived
    BY <1>6, <1>9
  <2>2. t \in Transfers \ doomed /\ (Completes \/ Closes)
    BY <1>9, <2>1 DEF Outlived, LiveTransfers
  <2>3. ~Closes
    BY <1>6 DEF Closes, Open
  <2>4. Ends
    BY <2>2, <2>3, StepKinds, OnlyEndsComplete
  <2>5. /\ transfers[t] = conn.now /\ conn.now \in Requests /\ IsLarge(conn.now)
        /\ position[t] = conn.sent /\ conn.length = Current.size
        /\ fileSize[conn.now] <= Current.size /\ fileSize[conn.now] \in Int
    BY <1>4, <2>2, TransferInUse
  <2>6. ~Current.head
    BY <2>5, LargeIsAnswered DEF Current
  <2>7. conn.sent = conn.length
    BY <2>4, <2>6 DEF Ends, Intact, ContentInPlace
  <2>8. Current.size \in Nat
    BY <2>5, Served DEF Request, Current
  <2>9. position[t] >= fileSize[transfers[t]]
    BY <2>5, <2>7, <2>8
  <2>10. QED
    BY <1>2, <1>3, <1>5, <2>2, <2>9
<1>10. CASE t \notin doomed /\ PayloadWritten
  <2>1. /\ t = Who /\ position[Who] >= fileSize[transfers[Who]]
        /\ Top("written") /\ frames # <<>>
    BY <1>6, <1>10 DEF PayloadWritten, Top
  <2>2. t \in Transfers
    BY <2>1, Running
  <2>3. QED
    BY <1>2, <1>3, <1>5, <2>1, <2>2
<1>11. QED
  BY <1>6, <1>8, <1>9, <1>10, TransferSteps

\* The call that makes a transfer has what its headers have announced before it.
LEMMA TransferCallLarge ==
  ASSUME TypeOK, InOrder, StackShape, NoHeadOfFiles, TransferCallInPlace, Intact, Next
  PROVE  \A i \in DOMAIN frames' : frames'[i].at = "transfer" =>
           /\ IsLarge(conn'.now) /\ conn'.sent = 0 /\ conn'.length = Current'.size
           /\ \A t \in Transfers' : transfers'[t] < conn'.now
<1>1. pipeline' = pipeline
  BY StepKinds DEF Slotted
<1>2. ContentInPlace /\ TransfersInPlace
  BY DEF Intact
<1>3. CASE HandleLargeFile
  <2>1. /\ Top("handle") /\ frames # <<>> /\ transfers' = transfers
        /\ Current.to = "file" /\ Current.variant = "plain" /\ ~SmallFile
    BY <1>3 DEF HandleLargeFile, Handling, Top
  <2> DEFINE s == <<Frame("transfer", conn.now)>> \o Below
             n == Current.size
  <2>2. WriteHeaders(200, n, FALSE, s)
    BY <1>3 DEF HandleLargeFile
  <2>3. /\ conn.state = "SendingHeaders" /\ conn.now \in Requests /\ n \in Nat
        /\ Waits(Below) /\ Below \in Seq(Frames)
    BY <2>1, Handled
  <2>4. s \in Seq(Frames) /\ Waits(s)
    <3>1. /\ Frame("transfer", conn.now) \in Frames
          /\ Frame("transfer", conn.now).at \in Waiting
      BY <2>3, Calls DEF Frame, Waiting
    <3>2. QED
      BY <2>3, <3>1, OnTop, Pushed
  <2>5. IsLarge(conn.now)
    <3>1. pipeline[conn.now].size > BufferSize
      BY <2>1, <2>3, BufferAssumption DEF SmallFile, Current
    <3>2. QED
      BY <2>1, <3>1 DEF IsLarge, Current
  <2> HIDE DEF s, n
  <2>6. WritesHead(200, n)
    <3>1. 200 \in Nat /\ n \in Int /\ FALSE \in BOOLEAN
      BY <2>3
    <3>2. QED
      BY <2>2, <2>3, <2>4, <3>1, HeadWritten
  <2>7. conn'.now = conn.now /\ conn'.sent = conn.sent /\ conn'.length = n
    BY <2>6 DEF WritesHead
  <2>8. conn.sent = 0
    <3>1. answers[conn.now].content = <<>> /\ conn.sent = Len(answers[conn.now].content)
      BY <1>2, <2>3 DEF ContentInPlace, InService
    <3>2. QED
      BY <3>1
  <2>9. \A t \in Transfers' : transfers'[t] < conn'.now
    BY <1>2, <2>1, <2>3, <2>7 DEF TransfersInPlace, Transfers
  <2>10. Current'.size = n
    BY <1>1, <2>7 DEF Current, n
  <2>11. QED
    BY <2>5, <2>7, <2>8, <2>9, <2>10
<1>4. CASE Top("tail")
  <2>1. /\ frames # <<>> /\ frames' = Below /\ conn'.now = conn.now
        /\ conn'.sent = conn.sent /\ conn'.length = conn.length /\ transfers' = transfers
    BY <1>4, TailReturns
  <2>2. ASSUME NEW i \in DOMAIN Below, Below[i].at = "transfer"
        PROVE  \E j \in DOMAIN frames : frames[j].at = "transfer"
    <3>1. /\ Len(frames) \in Nat \ {0} /\ Len(Below) = Len(frames) - 1 /\ Below \in Seq(Frames)
          /\ \A k \in 1 .. Len(frames) - 1 : Below[k] = frames[k + 1]
      BY <2>1, Popped DEF TypeOK, Below
    <3>2. DOMAIN frames = 1 .. Len(frames)
      BY DEF TypeOK
    <3>3. i \in 1 .. Len(frames) - 1 /\ i + 1 \in 1 .. Len(frames)
      BY <3>1
    <3>4. i + 1 \in DOMAIN frames /\ Below[i] = frames[i + 1]
      BY <3>1, <3>2, <3>3
    <3>5. QED
      BY <2>2, <3>4
  <2>3. (\E j \in DOMAIN frames : frames[j].at = "transfer") =>
          /\ IsLarge(conn.now) /\ conn.sent = 0 /\ conn.length = Current.size
          /\ \A t \in Transfers : transfers[t] < conn.now
    BY <1>2 DEF TransfersInPlace
  <2>4. Current' = Current /\ Transfers' = Transfers
    BY <1>1, <2>1 DEF Current, Transfers
  <2>5. QED
    BY <2>1, <2>2, <2>3, <2>4
<1>5. CASE ~HandleLargeFile /\ ~Top("tail")
  <2>1. \A i \in DOMAIN frames : i = 1 \/ frames[i].at # "transfer"
    BY <1>5 DEF TransferCallInPlace
  <2>2. QED
    BY <1>5, <2>1, NoneMade
<1>6. QED
  BY <1>3, <1>4, <1>5

\* The transfers stay where they should be.
LEMMA TransfersPlaceStep ==
  ASSUME TypeOK, InOrder, StackShape, PipesInOrder, NoHeadOfFiles, FilesOnlyShrink,
         TransferCallInPlace, TransfersInUse, Intact, Next
  PROVE  TransfersInPlace'
<1>1. pipeline' = pipeline /\ Requests' = Requests
  BY StepKinds DEF Slotted, Requests
<1>2. TransfersInPlace
  BY DEF Intact
<1>3. \A r \in Requests : fileSize'[r] <= pipeline[r].size
  <2>1. \A r \in Requests : /\ fileSize'[r] <= fileSize[r] /\ fileSize[r] <= pipeline[r].size
                            /\ fileSize[r] \in Int /\ fileSize'[r] \in Int
                            /\ pipeline[r].size \in Int
    BY <1>2, FilesStep, Served DEF TransfersInPlace, Request
  <2>2. QED
    BY <2>1
<1>4. \A t \in Transfers' :
           /\ IsLarge(transfers'[t]) /\ transfers'[t] <= conn'.now
           /\ conn'.state = "SendingHeaders" => transfers'[t] < conn'.now
           /\ \A u \in Transfers' : transfers'[u] = transfers'[t] => u = t
  BY <1>2, TransfersLarge
<1>5. \A t \in Transfers' \ doomed' :
           position'[t] = conn'.sent /\ conn'.length = Current'.size
  BY TransfersKeepUp
<1>6. \A t \in doomed' : Open' => position'[t] >= fileSize'[transfers'[t]]
  BY TransfersDone
<1>7. \A i \in DOMAIN frames' : frames'[i].at = "transfer" =>
           /\ IsLarge(conn'.now) /\ conn'.sent = 0 /\ conn'.length = Current'.size
           /\ \A t \in Transfers' : transfers'[t] < conn'.now
  BY TransferCallLarge
<1>8. QED
  BY <1>1, <1>3, <1>4, <1>5, <1>6, <1>7 DEF TransfersInPlace, IsLarge

(***************************************************************************)
(* Where the pipes stand.                                                  *)
(***************************************************************************)

\* A call to pump() is of a pipe that has sent its headers or is torn down.
LEMMA PumpCalls ==
  ASSUME TypeOK, InOrder, StackShape, PipesInOrder, RepliesInPlace, Next
  PROVE  \A i \in DOMAIN frames' : frames'[i].at = "pump" =>
           frames'[i].of \in Pipes' /\ frames'[i].of \in sent' \cup broken'
<1>1. /\ Pipes \subseteq Pipes' /\ sent \subseteq sent' /\ broken \subseteq broken'
  BY StepKinds DEF Slotted, PipesGo, PipeSlots
<1>2. ASSUME ReadyRead
      PROVE  Who \in Pipes' /\ Who \in sent' \cup broken' /\ Who \in Nat
  <2>1. Top("readyRead") /\ frames # <<>> /\ SendHeaders(Who, <<Frame("pump", Who)>> \o Below)
    BY <1>2 DEF ReadyRead, Top
  <2>2. Who \in Pipes /\ Who \in Nat
    BY <2>1, Running DEF PipesInOrder, Requests
  <2>3. Who \in sent' \/ Who \in broken
    BY <2>1 DEF SendHeaders
  <2>4. QED
    BY <1>1, <2>2, <2>3
<1> DEFINE T == Pipes' \cap (sent' \cup broken')
           S == {f \in AnyCalls : f.at = "pump" => f.of \in T}
<1>3. Ordinary(S)
  BY CallsAreAny DEF Ordinary
<1>4. ASSUME frames # <<>> PROVE Below \in Seq(S)
  <2>1. /\ Below \in Seq(Frames) /\ Len(frames) \in Nat \ {0} /\ Len(Below) = Len(frames) - 1
        /\ \A i \in 1 .. Len(frames) - 1 : Below[i] = frames[i + 1]
    BY <1>4, Popped DEF TypeOK, Below
  <2>2. DOMAIN frames = 1 .. Len(frames)
    BY DEF TypeOK
  <2>3. \A i \in DOMAIN frames : frames[i].at = "pump" => frames[i].of \in T
    BY <1>1 DEF RepliesInPlace
  <2>4. ASSUME NEW i \in 1 .. Len(Below) PROVE Below[i] \in S
    <3>1. i + 1 \in DOMAIN frames /\ Below[i] = frames[i + 1]
      BY <2>1, <2>2
    <3>2. Below[i] \in AnyCalls
      BY <2>1, CallsAreAny
    <3> HIDE DEF T
    <3>3. QED
      BY <2>3, <3>1, <3>2
  <2> HIDE DEF S
  <2>5. QED
    BY <2>1, <2>4
<1>5. HandleLargeFile => Frame("transfer", conn.now) \in S
  <2>1. conn.now \in Nat
    BY Served
  <2>2. QED
    BY <2>1, CallsAreAny
<1>6. ReadyRead => Frame("pump", Who) \in S
  <2>1. ReadyRead => Frame("pump", Who) \in AnyCalls /\ Frame("pump", Who).of = Who
    BY <1>2, CallsAreAny DEF Frame
  <2>2. QED
    BY <1>2, <2>1
<1>7. Answers => \A content \in Seq(Units) : ContentFrame(content) \in S
  BY CallsAreAny
<1>8. frames' \in Seq(S)
  <2> HIDE DEF S
  <2>1. QED
    BY <1>3, <1>4, <1>5, <1>6, <1>7, CallsGo
<1>9. \A i \in DOMAIN frames' : frames'[i] \in S
  <2> HIDE DEF S
  <2>1. QED
    BY <1>8
<1>10. QED
  BY <1>9

\* What changes of the replies.
LEMMA ReplySteps ==
  ASSUME TypeOK, InOrder, StackShape, Next
  PROVE  \/ replies' = replies /\ ~Pump
         \/ /\ Top("handle") /\ conn.now \in Requests /\ conn' = conn /\ answers' = answers
            /\ replies' = [replies EXCEPT ![conn.now].made = TRUE]
         \/ \E r \in LivePipes, n \in Nat :
              /\ replies[r].given <= n /\ n <= pipeline[r].size
              /\ replies' = [replies EXCEPT ![r].given = n]
              /\ conn' = conn /\ answers' = answers /\ ~Pump
         \/ \E r \in LivePipes, end \in {"success", "error"} :
              /\ replies' = [replies EXCEPT ![r].end = end]
              /\ conn' = conn /\ answers' = answers /\ ~Pump
         \/ Pump /\ Pumps(Who) /\ replies' = [replies EXCEPT ![Who].read = replies[Who].given]
         \/ Pump /\ ~Pumps(Who) /\ replies' = replies /\ conn' = conn /\ answers' = answers
<1>1. CASE ConnectionStep
  <2>1. replies' = replies
    BY <1>1 DEF ConnectionStep
  <2>2. ~Pump
    BY <1>1 DEF ConnectionStep, ConnNext, RequestArrives, Dispatch, CompleteResponse,
       NextRequest, FlushAndClose, SendingContentTail, WriteResponseTail, DeviceWrites,
       PeerCloses, EventLoop, Pump, Top
  <2>3. QED
    BY <2>1, <2>2
<1>2. CASE HandlerStep
  <2>1. replies' = replies /\ Handle
    BY <1>2 DEF HandlerStep
  <2>2. ~Pump
    BY <2>1 DEF Handle, HandleFixed, HandleFunction, HandleFile, HandleMissing,
       HandleLargeFile, StartTransfer, WriteNextPayload, FunctionAnswers, Handling,
       EventLoop, Pump, Top
  <2>3. QED
    BY <2>1, <2>2
<1>3. CASE (HandlerTurn /\ UNCHANGED proxyVars) \/ ReplyIsDeleted
  <2>1. replies' = replies
    BY <1>3 DEF proxyVars, ReplyIsDeleted
  <2>2. ~Pump
    BY <1>3 DEF HandlerTurn, TransferEvent, PayloadWritten, DeliverPayloadCall,
       DeleteTransfer, FileIsChanged, ReplyIsDeleted, EventLoop, Pump, Top
  <2>3. QED
    BY <2>1, <2>2
<1>4. CASE ProxyStep
  <2>1. ProxyNext
    BY <1>4 DEF ProxyStep
  <2>2. replies \in [Requests -> Reply] /\ LivePipes \subseteq Requests
    BY DEF TypeOK, LivePipes, Pipes
  <2>3. CASE HandleProxied
    <3>1. Top("handle") /\ conn' = conn /\ answers' = answers
          /\ replies' = [replies EXCEPT ![conn.now].made = TRUE]
      BY <2>3 DEF HandleProxied
    <3>2. conn.now \in Requests
      BY <3>1, Handled
    <3>3. QED
      BY <3>1, <3>2
  <2>4. CASE UpstreamContent
    <3>1. PICK r \in LivePipes : \E n \in replies[r].given + 1 .. Upstream(r).size :
            replies' = [replies EXCEPT ![r].given = n]
      BY <2>4 DEF UpstreamContent
    <3>2. PICK n \in replies[r].given + 1 .. pipeline[r].size :
            replies' = [replies EXCEPT ![r].given = n]
      BY <3>1 DEF Upstream
    <3>3. replies[r].given \in Nat /\ pipeline[r].size \in Nat
      BY <2>2, Served DEF Reply, Request
    <3>4. n \in Nat /\ replies[r].given <= n /\ n <= pipeline[r].size
      BY <3>3
    <3>5. conn' = conn /\ answers' = answers /\ ~Pump
      BY <2>4 DEF UpstreamContent, EventLoop, Pump, Top
    <3>6. QED
      BY <3>2, <3>4, <3>5
  <2>5. CASE UpstreamEnds
    <3>1. \E r \in LivePipes, end \in {"success", "error"} :
            replies' = [replies EXCEPT ![r].end = end]
      BY <2>5 DEF UpstreamEnds
    <3>2. conn' = conn /\ answers' = answers /\ ~Pump
      BY <2>5 DEF UpstreamEnds, EventLoop, Pump, Top
    <3>3. QED
      BY <3>1, <3>2
  <2>6. CASE ReadyRead \/ FinishedWell \/ EndContent \/ FinishedBadly
    BY <2>6 DEF ReadyRead, FinishedWell, EndContent, FinishedBadly, Pump, Top
  <2>7. CASE Pump
    BY <2>7 DEF Pump, Ignored
  <2>8. QED
    BY <2>1, <2>3, <2>4, <2>5, <2>6, <2>7 DEF ProxyNext
<1>5. QED
  BY <1>1, <1>2, <1>3, <1>4 DEF Next

\* No pipe reads more than its reply has given, nor is given more than there is.
LEMMA RepliesRead ==
  ASSUME TypeOK, InOrder, StackShape, RepliesInPlace, Next
  PROVE  \A r \in Requests :
           /\ replies'[r].read <= replies'[r].given
           /\ replies'[r].given <= pipeline[r].size
           /\ r \notin Pipes' => replies'[r].read = 0
<1>1. /\ replies \in [Requests -> Reply] /\ LivePipes \subseteq Requests
  BY DEF TypeOK, LivePipes, Pipes
<1>2. \A r \in Requests :
        /\ replies[r].read \in Nat /\ replies[r].given \in Nat
        /\ replies[r].made \in BOOLEAN /\ r \in DOMAIN replies
        /\ replies[r].read <= replies[r].given
        /\ replies[r].given <= pipeline[r].size
        /\ ~replies[r].made => replies[r].read = 0
  BY <1>1 DEF RepliesInPlace, Reply, Pipes
<1>3. ASSUME NEW r \in Requests, replies'[r].read \in {replies[r].read, replies[r].given},
             replies'[r].given >= replies[r].given, replies'[r].given <= pipeline[r].size,
             replies'[r].given \in Nat,
             replies[r].made => replies'[r].made,
             ~replies[r].made => replies'[r].read = replies[r].read
      PROVE  /\ replies'[r].read <= replies'[r].given
             /\ replies'[r].given <= pipeline[r].size
             /\ ~replies'[r].made => replies'[r].read = 0
  BY <1>2, <1>3
<1>4. CASE replies' = replies
  BY <1>2, <1>4 DEF Pipes
<1>5. CASE conn.now \in Requests /\ replies' = [replies EXCEPT ![conn.now].made = TRUE]
  <2>1. \A r \in Requests : /\ replies'[r].read = replies[r].read
                            /\ replies'[r].given = replies[r].given
                            /\ replies[r].made => replies'[r].made
    BY <1>1, <1>5 DEF Reply
  <2>2. DOMAIN replies' = Requests
    BY <1>1, <1>5
  <2>3. QED
    BY <1>2, <2>1, <2>2 DEF Pipes
<1>6. ASSUME NEW q \in LivePipes, NEW n \in Nat, replies[q].given <= n, n <= pipeline[q].size,
             replies' = [replies EXCEPT ![q].given = n]
      PROVE  \A r \in Requests :
           /\ replies'[r].read <= replies'[r].given
           /\ replies'[r].given <= pipeline[r].size
           /\ r \notin Pipes' => replies'[r].read = 0
  <2>1. \A r \in Requests : /\ replies'[r].read = replies[r].read
                            /\ replies'[r].given = IF r = q THEN n ELSE replies[r].given
                            /\ replies'[r].made = replies[r].made
    BY <1>1, <1>6 DEF Reply
  <2>2. DOMAIN replies' = Requests
    BY <1>1, <1>6
  <2>3. QED
    BY <1>2, <1>6, <2>1, <2>2 DEF Pipes
<1>7. ASSUME NEW q \in LivePipes, NEW end \in {"success", "error"},
             replies' = [replies EXCEPT ![q].end = end]
      PROVE  \A r \in Requests :
           /\ replies'[r].read <= replies'[r].given
           /\ replies'[r].given <= pipeline[r].size
           /\ r \notin Pipes' => replies'[r].read = 0
  <2>1. \A r \in Requests : /\ replies'[r].read = replies[r].read
                            /\ replies'[r].given = replies[r].given
                            /\ replies'[r].made = replies[r].made
    BY <1>1, <1>7 DEF Reply
  <2>2. DOMAIN replies' = Requests
    BY <1>1, <1>7
  <2>3. QED
    BY <1>2, <2>1, <2>2 DEF Pipes
<1>8. CASE Pump /\ replies' = [replies EXCEPT ![Who].read = replies[Who].given]
  <2>1. frames # <<>> /\ Head(frames) = frames[1] /\ 1 \in DOMAIN frames
        /\ Head(frames).at = "pump"
    BY <1>8, Popped DEF Pump, Top, TypeOK
  <2>2. Who \in Pipes
    BY <2>1 DEF RepliesInPlace, Who
  <2>3. Who \in Requests /\ replies[Who].made
    BY <1>1, <2>2 DEF Pipes
  <2> DEFINE n == replies[Who].given
  <2>4. n \in Nat /\ n = replies[Who].given /\ replies' = [replies EXCEPT ![Who].read = n]
    BY <1>2, <1>8, <2>3
  <2> HIDE DEF n
  <2>5. \A r \in Requests : /\ replies'[r].read = IF r = Who THEN n ELSE replies[r].read
                            /\ replies'[r].given = replies[r].given
                            /\ replies'[r].made = replies[r].made
    BY <1>1, <2>3, <2>4 DEF Reply
  <2>6. DOMAIN replies' = Requests
    BY <1>1, <2>4
  <2>7. QED
    BY <1>2, <2>3, <2>4, <2>5, <2>6 DEF Pipes
<1>9. QED
  BY <1>4, <1>5, <1>6, <1>7, <1>8, ReplySteps

\* A call that completes a response does, or the connection is closed.
LEMMA CompletingEnds ==
  ASSUME StackShape, Kinds, Top("completing")
  PROVE  conn'.state \notin {"SendingHeaders", "SendingContent"}
BY DEF Kinds, Arrives, Dispatches, Heads, Ends, Resumes, Drains, Cuts, Takes, Tells, Idles,
   StackShape, EventLoop, Top

\* Nobody but its pipe writes to a proxied request's response.
LEMMA OnlyThePipe ==
  ASSUME TypeOK, InOrder, StackShape, PipesInOrder, TransfersInUse, Intact, Next,
         conn.now \in LivePipes, conn'.now = conn.now,
         conn'.state \in {"SendingHeaders", "SendingContent"}
  PROVE  \/ Silent \/ HeadsAsAnnounced
         \/ Pump /\ Pumps(Who) /\ WritesUnits(Received)
<1>1. conn.now \in Requests /\ Current.to = "proxy" /\ conn.now \in Nat
  BY DEF PipesInOrder, LivePipes, Pipes, TypeOK, Requests
<1>2. ~Begins /\ ~Ends
  BY <1>1 DEF Begins, Ends
<1>3. ~(Top("content") /\ WritesUnits(Head(frames).content))
  <2>1. SUFFICES ASSUME Top("content"), WritesUnits(Head(frames).content) PROVE FALSE
    OBVIOUS
  <2>2. 1 \in DOMAIN frames /\ frames[1].at = "content"
    BY <2>1, Popped DEF Top, TypeOK
  <2>3. QED
    BY <1>1, <2>1, <2>2 DEF Intact, ContentCallInPlace, WritesUnits
<1>4. ~(WriteNextPayload /\ Payload(Who) > 0 /\ WritesUnits(Payloads))
  <2>1. SUFFICES ASSUME WriteNextPayload, Payload(Who) > 0, WritesUnits(Payloads) PROVE FALSE
    OBVIOUS
  <2>2. /\ Who \in Transfers /\ transfers[Who] \in Requests
        /\ position[Who] \in Nat /\ Payload(Who) \in Nat \ {0}
        /\ position[Who] + Payload(Who) <= fileSize[transfers[Who]]
        /\ fileSize[transfers[Who]] \in Int
    BY <2>1, PayloadLeft DEF WriteNextPayload
  <2>3. Who \notin doomed
    <3>1. ~(position[Who] >= fileSize[transfers[Who]])
      BY <2>2
    <3>2. QED
      BY <2>1, <3>1 DEF Intact, TransfersInPlace, WritesUnits, Open
  <2>4. IsLarge(conn.now)
    BY <2>2, <2>3, TransferInUse DEF Intact
  <2>5. QED
    BY <1>1, <2>4 DEF IsLarge, Current
<1>5. Top("pump") /\ Pumps(Who) /\ WritesUnits(Received) => Pump
  <2>1. Top("pump") => Pump
    BY DEF Next, ConnectionStep, ConnNext, RequestArrives, Dispatch,
     CompleteResponse, NextRequest, FlushAndClose, SendingContentTail, WriteResponseTail,
     DeviceWrites, PeerCloses, HandlerStep, Handle, HandleFixed, HandleFunction, HandleFile,
     HandleMissing, HandleLargeFile, Handling, StartTransfer, WriteNextPayload,
     FunctionAnswers,
     HandlerTurn, TransferEvent, PayloadWritten, DeliverPayloadCall, DeleteTransfer,
     FileIsChanged, ProxyStep, ProxyNext, HandleProxied, UpstreamContent, UpstreamEnds,
     ReadyRead, FinishedWell, EndContent, FinishedBadly, ReplyIsDeleted, Top, EventLoop
  <2>2. QED
    BY <2>1
<1>6. QED
  BY <1>2, <1>3, <1>4, <1>5, StepEffects DEF Effects

\* A pipe that pumps is the one in use, past its headers.
LEMMA PumpInUse ==
  ASSUME TypeOK, PipesInOrder, Intact, Pump, Pumps(Who), ~Top("completing")
  PROVE  /\ Who = conn.now /\ Who \in LivePipes /\ conn.now \in Requests
         /\ conn.state = "SendingContent" /\ ~Current.head
         /\ conn.length \in {-1, Current.size}
         /\ replies[conn.now].read = conn.sent
         /\ conn.sent = Len(answers[conn.now].content)
<1>1. frames # <<>> /\ Head(frames) = frames[1] /\ 1 \in DOMAIN frames
      /\ Head(frames).at = "pump"
  BY Popped DEF Pump, Top, TypeOK
<1>2. RepliesInPlace /\ ContentInPlace
  BY DEF Intact
<1>3. Who \in Pipes /\ Who \in sent \cup broken
  BY <1>1, <1>2 DEF RepliesInPlace, Who
<1>4. Who \in LivePipes /\ Who \in sent
  BY <1>3 DEF Pumps, LivePipes
<1>5. Who = conn.now /\ conn.state = "SendingContent" /\ conn.now \in Requests
  BY <1>4 DEF PipesInOrder, LivePipes, Pipes, TypeOK
<1>6. conn.sent = Len(answers[conn.now].content)
  BY <1>2, <1>5 DEF ContentInPlace, InService
<1>7. /\ replies[Who].read = Len(answers[Who].content)
      /\ ~Current.head /\ conn.length \in {-1, Current.size}
  BY <1>2, <1>4, <1>5 DEF RepliesInPlace
<1>8. QED
  BY <1>4, <1>5, <1>6, <1>7

\* What pump() has read.
LEMMA PumpReads ==
  ASSUME TypeOK, PipesInOrder, Intact, Pump, Pumps(Who), ~Top("completing")
  PROVE  /\ Received \in Seq(Units)
         /\ Len(Received) = replies[Who].given - replies[Who].read
         /\ replies[Who].given \in Nat /\ replies[Who].read \in Nat
         /\ ContentFits(Received)
<1>1. /\ Who = conn.now /\ Who \in LivePipes /\ conn.now \in Requests
      /\ conn.state = "SendingContent" /\ ~Current.head
      /\ conn.length \in {-1, Current.size}
      /\ replies[conn.now].read = conn.sent
  BY PumpInUse
<1>2. /\ replies[Who] \in Reply /\ conn.now \in Nat /\ pipeline[conn.now].size \in Nat
      /\ conn.sent \in Nat
  BY <1>1, Served DEF TypeOK, Request, Connection
<1>3. /\ replies[Who].read <= replies[Who].given
      /\ replies[Who].given <= pipeline[Who].size
  BY <1>1 DEF Intact, RepliesInPlace
<1> DEFINE from == replies[Who].read
           to == replies[Who].given
<1>4. /\ from \in Nat /\ to \in Nat /\ from <= to /\ from = conn.sent
      /\ to <= pipeline[conn.now].size
      /\ Received = Content(conn.now, from, to)
  BY <1>1, <1>2, <1>3 DEF Received, Reply
<1> HIDE DEF from, to
<1>5. Received \in Seq(Units) /\ Len(Received) = to - from
  <2>1. conn.now \in Nat /\ from \in Nat /\ to \in Nat /\ from <= to
    BY <1>2, <1>4
  <2>2. IsPart(Content(conn.now, from, to), conn.now, from, to)
    BY <2>1, ContentOwn
  <2>3. QED
    BY <1>4, <2>2, Zenon DEF IsPart
<1>6. ContentFits(Received)
  <2>1. conn.length = -1 \/ conn.length = pipeline[conn.now].size
    BY <1>1 DEF Current
  <2> DEFINE len == Len(Received)
             size == pipeline[conn.now].size
  <2>2. /\ len = to - from /\ to \in Nat /\ from \in Nat /\ from = conn.sent
        /\ to <= size /\ size \in Nat
    BY <1>2, <1>4, <1>5
  <2>3. conn.length = -1 \/ conn.length = size
    BY <2>1
  <2> HIDE DEF len, size
  <2>4. conn.length >= 0 => conn.sent + len <= conn.length
    BY <2>2, <2>3
  <2>5. QED
    BY <2>4 DEF ContentFits, len
<1>7. QED
  BY <1>4, <1>5, <1>6 DEF from, to

\* What the pipe reads, it writes: nothing of it is refused.
LEMMA PumpWrites ==
  ASSUME TypeOK, InOrder, StackShape, PipesInOrder, Intact, Pump, Pumps(Who),
         ~Top("completing")
  PROVE  Silent => replies[Who].given = replies[Who].read
<1>1. /\ conn.now \in Requests /\ conn.state = "SendingContent" /\ ~Current.head
  BY PumpInUse
<1>2. /\ Received \in Seq(Units) /\ ContentFits(Received)
      /\ Len(Received) = replies[Who].given - replies[Who].read
      /\ replies[Who].given \in Nat /\ replies[Who].read \in Nat
  BY PumpReads
<1>3. WriteContent(Received, Below)
  BY DEF Pump, Received, Content
<1>4. Below \in Seq(Frames) /\ Waits(Below)
  BY BelowWaits DEF Pump, Top
<1>5. Received = <<>> \/ WritesUnits(Received)
  BY <1>1, <1>2, <1>3, <1>4, ContentWritten
<1>6. Received = <<>> => replies[Who].given = replies[Who].read
  BY <1>2
<1>7. ASSUME Silent, WritesUnits(Received)
      PROVE  Received = <<>>
  <2>1. conn'.sent = conn.sent /\ conn'.sent = conn.sent + Len(Received)
    BY <1>7 DEF Silent, WritesUnits
  <2>2. conn.sent \in Nat /\ Len(Received) \in Nat
    BY <1>2 DEF TypeOK, Connection
  <2>3. QED
    BY <1>2, <2>1, <2>2
<1>8. QED
  BY <1>5, <1>6, <1>7

\* What a step other than pump() leaves of what has been read.
LEMMA NothingRead ==
  ASSUME TypeOK, InOrder, StackShape, Next, ~(Pump /\ Pumps(Who)), NEW r \in Requests
  PROVE  replies'[r].read = replies[r].read
<1>1. replies \in [Requests -> Reply] /\ LivePipes \subseteq Requests
  BY DEF TypeOK, LivePipes, Pipes
<1>2. CASE replies' = replies
  BY <1>2
<1>3. CASE conn.now \in Requests /\ replies' = [replies EXCEPT ![conn.now].made = TRUE]
  BY <1>1, <1>3 DEF Reply
<1>4. ASSUME NEW q \in LivePipes, NEW n \in Nat,
             replies' = [replies EXCEPT ![q].given = n]
      PROVE  replies'[r].read = replies[r].read
  BY <1>1, <1>4 DEF Reply
<1>5. ASSUME NEW q \in LivePipes, NEW end \in {"success", "error"},
             replies' = [replies EXCEPT ![q].end = end]
      PROVE  replies'[r].read = replies[r].read
  BY <1>1, <1>5 DEF Reply
<1>6. QED
  BY <1>2, <1>3, <1>4, <1>5, ReplySteps

\* A pipe starts with nothing read, before its response's headers.
LEMMA NewPipe ==
  ASSUME TypeOK, InOrder, StackShape, PipesInOrder, Intact, Next,
         NEW r \in LivePipes', r \notin LivePipes, r \in MadePipe
  PROVE  /\ replies'[r].read = Len(answers'[r].content)
         /\ conn'.state = "SendingHeaders"
<1>1. Top("handle") /\ r = conn.now /\ conn.state = "SendingHeaders"
  BY DEF MadePipe, StackShape
<1>2. r \notin Pipes /\ r \in Pipes' /\ r \in Requests
  <2>1. \A q \in Pipes : q < conn.now
    BY <1>1 DEF PipesInOrder
  <2>2. conn.now \in Nat /\ conn.now \in Requests
    BY <1>1, Served, Handled
  <2>3. QED
    BY <1>1, <2>1, <2>2 DEF LivePipes
<1>3. ~Pump
  BY <1>1 DEF Pump, Top
<1>4. replies'[r].read = replies[r].read
  BY <1>2, <1>3, NothingRead
<1>5. replies[r].read = 0
  BY <1>2 DEF Intact, RepliesInPlace
<1>6. answers[r].content = <<>>
  BY <1>1 DEF Intact, ContentInPlace
<1>7. replies' # replies
  BY <1>2 DEF Pipes
<1>8. conn' = conn /\ answers' = answers
  BY <1>3, <1>7, ReplySteps
<1>9. QED
  BY <1>1, <1>4, <1>5, <1>6, <1>8

\* A pipe in use has read what its response has.
LEMMA PipesKeepUp ==
  ASSUME TypeOK, InOrder, StackShape, PipesInOrder, TransfersInUse, Intact, Next,
         NEW r \in LivePipes'
  PROVE  /\ replies'[r].read = Len(answers'[r].content)
         /\ (conn'.state = "SendingContent" /\ ~Top("completing")')
              => ~Current'.head /\ conn'.length \in {-1, Current'.size}
<1>1. /\ r = conn'.now /\ conn'.state \in {"SendingHeaders", "SendingContent"}
      /\ pipeline' = pipeline
  BY PipesStep, StepKinds DEF PipesInOrder, Slotted
<1>2. r \in LivePipes \/ r \in MadePipe
  <2>1. /\ Completes \/ Closes => LivePipes' = {}
        /\ ~(Completes \/ Closes) => LivePipes' = LivePipes \cup MadePipe
    BY StepKinds, LivePipesGo
  <2>2. QED
    BY <2>1
<1>3. CASE r \notin LivePipes
  BY <1>2, <1>3, NewPipe
<1>4. CASE r \in LivePipes
  <2>1. /\ conn.now = r /\ conn'.now = r /\ conn.now \in Requests /\ Current.to = "proxy"
        /\ conn.state \in {"SendingHeaders", "SendingContent"}
    BY <1>1, <1>4 DEF PipesInOrder, LivePipes, Pipes, TypeOK
  <2>2. ~Top("completing") /\ Current' = Current
    BY <1>1, <2>1, CompletingEnds, StepKinds DEF Current
  <2>3. /\ replies[r].read = Len(answers[r].content)
        /\ conn.state = "SendingContent" => ~Current.head /\ conn.length \in {-1, Current.size}
    BY <1>4, <2>2 DEF Intact, RepliesInPlace
  <2>4. CASE Silent
    <3>1. replies'[r].read = replies[r].read
      <4>1. CASE Pump /\ Pumps(Who)
        <5>1. Who = r /\ r \in Requests
          BY <2>1, <2>2, <4>1, PumpInUse
        <5>2. replies' = [replies EXCEPT ![Who].read = replies[Who].given]
          BY <4>1 DEF Pump
        <5>3. replies[r].given = replies[r].read
          BY <2>2, <2>4, <4>1, <5>1, PumpWrites
        <5>4. QED
          BY <5>1, <5>2, <5>3 DEF TypeOK, Reply
      <4>2. CASE ~(Pump /\ Pumps(Who))
        BY <2>1, <4>2, NothingRead
      <4>3. QED
        BY <4>1, <4>2
    <3>2. answers'[r].content = answers[r].content
      BY <2>1, <2>4 DEF Silent
    <3>3. conn'.state = conn.state /\ conn'.length = conn.length
      BY <1>1, <2>4 DEF Silent
    <3>4. QED
      BY <2>2, <2>3, <3>1, <3>2, <3>3
  <2>5. CASE HeadsAsAnnounced
    <3>1. PICK status \in Nat, length \in Int :
            WritesHead(status, length) /\ Announces(status, length)
      BY <2>5 DEF HeadsAsAnnounced
    <3>2. /\ conn.state = "SendingHeaders" /\ conn'.length = length
          /\ answers' = [answers EXCEPT ![conn.now].status = status,
                                        ![conn.now].length = length]
          /\ ~Top("completing")' => length # 0 /\ ~Current.head
      BY <3>1 DEF WritesHead
    <3>3. length \in {-1, Current.size} \/ length = 0
      BY <2>1, <3>1 DEF Announces
    <3>4. answers'[r].content = answers[r].content
      BY <2>1, <3>2 DEF TypeOK, Answer
    <3>5. ~(Pump /\ Pumps(Who))
      BY <2>2, <3>2, PumpInUse
    <3>6. replies'[r].read = replies[r].read
      BY <2>1, <3>5, NothingRead
    <3>7. QED
      BY <2>2, <2>3, <3>2, <3>3, <3>4, <3>6
  <2>6. CASE Pump /\ Pumps(Who) /\ WritesUnits(Received)
    <3>1. Who = r /\ r \in Requests /\ conn.state = "SendingContent"
      BY <2>1, <2>2, <2>6, PumpInUse
    <3>2. replies' = [replies EXCEPT ![Who].read = replies[Who].given]
      BY <2>6 DEF Pump
    <3>3. /\ answers' = [answers EXCEPT ![conn.now].content = @ \o Received]
          /\ conn'.length = conn.length /\ Received # <<>>
      BY <2>6 DEF WritesUnits
    <3>4. replies'[r].read = replies[r].given
      BY <3>1, <3>2 DEF TypeOK, Reply
    <3>5. /\ answers'[r].content = answers[r].content \o Received
          /\ answers[r].content \in Seq(Units)
      BY <2>1, <3>3 DEF TypeOK, Answer
    <3>6. /\ Received \in Seq(Units)
          /\ Len(Received) = replies[r].given - replies[r].read
      BY <2>2, <2>6, <3>1, PumpReads
    <3>7. replies[r].given \in Nat /\ replies[r].read \in Nat
      BY <3>1 DEF TypeOK, Reply
    <3> DEFINE before == answers[r].content
               more == Received
    <3>8. before \in Seq(Units) /\ more \in Seq(Units)
      BY <3>5, <3>6
    <3>9. Len(before \o more) = Len(before) + Len(more)
      <4> HIDE DEF before, more
      <4>1. QED
        BY <3>8, Joined
    <3>10. Len(answers'[r].content) = replies[r].given
      <4>1. Len(answers'[r].content) = Len(before) + Len(more)
        BY <3>5, <3>9
      <4>2. Len(before) = replies[r].read /\ Len(more) = replies[r].given - replies[r].read
        BY <2>3, <3>6
      <4> HIDE DEF before, more
      <4>3. QED
        BY <3>7, <4>1, <4>2
    <3>11. QED
      BY <2>2, <2>3, <3>1, <3>3, <3>4, <3>10
  <2>7. QED
    BY <1>1, <1>4, <2>1, <2>4, <2>5, <2>6, OnlyThePipe
<1>5. QED
  BY <1>3, <1>4

\* The pipes stay where they should be.
LEMMA RepliesPlaceStep ==
  ASSUME TypeOK, InOrder, StackShape, PipesInOrder, TransfersInUse, Intact, Next
  PROVE  RepliesInPlace'
<1>1. pipeline' = pipeline /\ Requests' = Requests
  BY StepKinds DEF Slotted, Requests
<1>2. RepliesInPlace
  BY DEF Intact
<1>3. \A r \in Requests :
        /\ replies'[r].read <= replies'[r].given
        /\ replies'[r].given <= pipeline[r].size
        /\ r \notin Pipes' => replies'[r].read = 0
  BY <1>2, RepliesRead
<1>4. \A r \in LivePipes' :
        /\ replies'[r].read = Len(answers'[r].content)
        /\ (conn'.state = "SendingContent" /\ ~Top("completing")')
             => ~Current'.head /\ conn'.length \in {-1, Current'.size}
  BY PipesKeepUp
<1>5. \A i \in DOMAIN frames' : frames'[i].at = "pump" =>
        frames'[i].of \in Pipes' /\ frames'[i].of \in sent' \cup broken'
  BY <1>2, PumpCalls
<1>6. QED
  BY <1>1, <1>3, <1>4, <1>5 DEF RepliesInPlace

(***************************************************************************)
(* What was written, at the start and when nothing happens.                *)
(***************************************************************************)

\* Nothing has been written.
LEMMA NothingWritten ==
  ASSUME Init
  PROVE  Intact
<1>1. /\ frames = <<>> /\ conn.now = 0 /\ conn.state = "ReceivingHeaders"
      /\ answers = [r \in Requests |-> Unanswered]
      /\ transfers = <<>> /\ doomed = {}
      /\ fileSize = [r \in Requests |-> pipeline[r].size]
      /\ replies = [r \in Requests |-> NoReply]
  BY DEF Init, ConnInit, HandlerInit, ProxyInit, Requests
<1>2. \A r \in Requests : pipeline[r].size \in Nat
  <2>1. pipeline \in Seq(Request)
    BY PipelinesAssumption DEF Init, ConnInit
  <2>2. \A r \in Requests : pipeline[r] \in Request
    BY <2>1 DEF Requests
  <2>3. QED
    BY <2>2 DEF Request
<1>3. DOMAIN frames = {} /\ Transfers = {} /\ LivePipes = {} /\ ~Top("completing")
  BY <1>1 DEF Transfers, LivePipes, Pipes, NoReply, Top
<1>4. /\ \A r \in Requests : answers[r].content = <<>> /\ answers[r].end = "open"
      /\ \A r \in Requests : replies[r].read = 0 /\ replies[r].given = 0
  BY <1>1 DEF Unanswered, NoReply
<1>5. ContentInPlace
  BY <1>1, <1>3, <1>4 DEF ContentInPlace, Own, InService, Ended
<1>6. ContentCallInPlace /\ TransfersInPlace
  BY <1>1, <1>2, <1>3 DEF ContentCallInPlace, TransfersInPlace
<1>7. RepliesInPlace
  BY <1>2, <1>3, <1>4 DEF RepliesInPlace
<1>8. QED
  BY <1>5, <1>6, <1>7 DEF Intact

\* A step that changes nothing.
LEMMA NothingMore ==
  ASSUME UNCHANGED vars, Intact
  PROVE  Intact'
<1>1. /\ pipeline' = pipeline /\ conn' = conn /\ answers' = answers
      /\ frames' = frames /\ transfers' = transfers /\ position' = position
      /\ doomed' = doomed /\ fileSize' = fileSize /\ replies' = replies
      /\ sent' = sent /\ broken' = broken
  BY DEF vars, connVars, handlerVars, proxyVars
<1>2. Requests' = Requests /\ Transfers' = Transfers /\ Pipes' = Pipes
      /\ LivePipes' = LivePipes /\ Current' = Current /\ InService' = InService
      /\ Open' = Open /\ \A at : Top(at)' = Top(at)
  BY <1>1 DEF Requests, Transfers, Pipes, LivePipes, Current, InService, Open, Top
<1>3. ContentInPlace'
  <2>1. /\ \A r : Exempt(r)' = Exempt(r) /\ Whole(r)' = Whole(r)
        /\ Ended("completed")' = Ended("completed")
    BY <1>1, <1>2 DEF Exempt, Whole, Ended
  <2>2. ContentInPlace
    BY DEF Intact
  <2>3. QED
    BY <1>1, <1>2, <2>1, <2>2 DEF ContentInPlace, Own, Exempt
<1>4. \A r : IsLarge(r)' = IsLarge(r)
  BY <1>1 DEF IsLarge
<1>5. ContentCallInPlace'
  BY <1>1, <1>2, <1>4 DEF Intact, ContentCallInPlace, Own, IsLarge
<1>6. TransfersInPlace'
  BY <1>1, <1>2, <1>4 DEF Intact, TransfersInPlace, IsLarge
<1>7. RepliesInPlace'
  BY <1>1, <1>2 DEF Intact, RepliesInPlace
<1>8. QED
  BY <1>3, <1>5, <1>6, <1>7 DEF Intact

(***************************************************************************)
(* The theorems.                                                           *)
(***************************************************************************)

\* All of it holds at the start.
LEMMA Initially ==
  ASSUME Init
  PROVE  Bookkeeping /\ PipesInOrder /\ LoggedOnce /\ LeavesNothing
<1>1. /\ pipeline \in Pipelines /\ arrived = 0 /\ frames = <<>> /\ posted = <<>>
      /\ conn = [state |-> "ReceivingHeaders", now |-> 0, length |-> -1, sent |-> 0,
                 keep |-> TRUE, chunked |-> FALSE, buffered |-> 0]
      /\ answers = [r \in Requests |-> Unanswered]
      /\ info = 0 /\ lines = <<>> /\ transfers = <<>> /\ position = <<>>
      /\ doomed = {} /\ deleted = {}
      /\ fileSize = [r \in Requests |-> pipeline[r].size]
      /\ replies = [r \in Requests |-> NoReply]
      /\ sent = {} /\ broken = {} /\ managers = <<>>
  BY DEF Init, ConnInit, HandlerInit, ProxyInit, Requests
<1>2. pipeline \in Seq(Request)
  BY <1>1, PipelinesAssumption
<1>3. /\ Len(pipeline) \in Nat /\ \A r \in Requests : pipeline[r].size \in Int
  <2>1. Len(pipeline) \in Nat /\ \A r \in Requests : pipeline[r] \in Request
    BY <1>2 DEF Requests
  <2>2. \A q \in Request : q.size \in Int
    BY DEF Request
  <2>3. QED
    BY <2>1, <2>2
<1>4. conn \in Connection
  <2>1. 0 \in Nat /\ -1 \in Int
    OBVIOUS
  <2>2. QED
    BY <1>1, <2>1 DEF Connection, States
<1>5. answers \in [Requests -> Answer]
  <2>1. 0 \in Nat /\ -1 \in Int /\ <<>> \in Seq(Units)
    OBVIOUS
  <2>2. Unanswered \in Answer
    BY <2>1 DEF Unanswered, Answer
  <2>3. QED
    BY <1>1, <2>2
<1>6. replies \in [Requests -> Reply]
  BY <1>1 DEF NoReply, Reply
<1>7. \A S : <<>> \in Seq(S)
  OBVIOUS
<1>8. Len(position) = Len(transfers)
  BY <1>1
<1>9. TypeOK
  BY <1>1, <1>3, <1>4, <1>5, <1>6, <1>7, <1>8 DEF TypeOK
<1>10. ~Top("dispatch") /\ ~Top("handle") /\ ~Top("completing") /\ ~Top("completed")
       /\ ~Top("readyRead") /\ ~Top("finished")
  BY <1>1 DEF Top
<1>11. Len(frames) = 0 /\ Len(lines) = 0 /\ Len(managers) = 0 /\ Transfers = {}
       /\ DOMAIN frames = {} /\ DOMAIN lines = {} /\ DOMAIN managers = {} /\ DOMAIN posted = {}
  BY <1>1 DEF Transfers
<1>12. StackShape
  BY <1>10, <1>11 DEF StackShape
<1>13. InOrder
  BY <1>1 DEF InOrder, InService, Unanswered
<1>14. Pipes = {} /\ LivePipes = {}
  BY <1>1 DEF Pipes, LivePipes, NoReply
<1>15. PipesInOrder
  BY <1>1, <1>10, <1>14 DEF PipesInOrder, InService
<1>16. LoggedOnce
  BY <1>1, <1>11 DEF LoggedOnce, Ended, Unanswered
<1>17. LeavesNothing
  BY <1>1, <1>11, <1>14 DEF LeavesNothing, TransferCallInPlace, TransfersInUse, RepliesInUse
<1>18. QED
  BY <1>9, <1>12, <1>13, <1>15, <1>16, <1>17 DEF Bookkeeping

\* A step that changes nothing.
LEMMA Stuttering ==
  ASSUME UNCHANGED vars
  PROVE  /\ Bookkeeping => Bookkeeping'
         /\ PipesInOrder => PipesInOrder'
         /\ LoggedOnce => LoggedOnce'
         /\ LeavesNothing => LeavesNothing'
<1>1. /\ pipeline' = pipeline /\ arrived' = arrived /\ conn' = conn /\ answers' = answers
      /\ frames' = frames /\ info' = info /\ lines' = lines /\ transfers' = transfers
      /\ position' = position /\ doomed' = doomed /\ deleted' = deleted
      /\ fileSize' = fileSize /\ posted' = posted /\ replies' = replies /\ sent' = sent
      /\ broken' = broken /\ managers' = managers
  BY DEF vars, connVars, handlerVars, proxyVars
<1>2. Requests' = Requests /\ Transfers' = Transfers /\ Frames' = Frames
      /\ Pipes' = Pipes /\ LivePipes' = LivePipes /\ Current' = Current
      /\ InService' = InService /\ Who' = Who /\ \A at : Top(at)' = Top(at)
      /\ LogLines' = LogLines
  BY <1>1, SameFrames DEF Pipes, LivePipes, Current, InService, Who, Top, LogLines
<1>3. PostedEvents' = PostedEvents /\ \A e : Posted(e)' = Posted(e)
  BY <1>1, <1>2 DEF PostedEvents, Posted
<1>4. TypeOK' = TypeOK
  BY <1>1, <1>2, <1>3 DEF TypeOK
<1>5. StackShape' = StackShape /\ InOrder' = InOrder
  BY <1>1, <1>2 DEF StackShape, InOrder
<1>6. PipesInOrder' = PipesInOrder
  BY <1>1, <1>2 DEF PipesInOrder
<1>7. LoggedOnce' = LoggedOnce
  BY <1>1, <1>2 DEF LoggedOnce, Ended
<1>8. LeavesNothing' = LeavesNothing
  BY <1>1, <1>2, <1>3 DEF LeavesNothing, TransferCallInPlace, TransfersInUse, RepliesInUse
<1>9. QED
  BY <1>4, <1>5, <1>6, <1>7, <1>8 DEF Bookkeeping

\* The requests of a connection are taken, answered and completed one after the
\* other, whatever calls are under way (HttpConnection::transitionToCompleted
\* dispatches the next one before the handler's call has returned).
THEOREM BookkeepingInvariant == Spec => []Bookkeeping
<1>1. Init => Bookkeeping
  BY Initially
<1>2. ASSUME Bookkeeping, [Next]_vars
      PROVE  Bookkeeping'
  <2>1. CASE Next
    BY <1>2, <2>1, TypeStep, StackStep, OrderStep DEF Bookkeeping
  <2>2. CASE UNCHANGED vars
    BY <1>2, <2>2, Stuttering
  <2>3. QED
    BY <1>2, <2>1, <2>2
<1>3. QED
  BY <1>1, <1>2, PTL DEF Spec

\* The log tells of every completed response once, in order, with the request it
\* answered and its own status and length, however responses are pipelined
\* (HttpHandlerLog keeps one entry for each connection).
THEOREM LogIsSound == Spec => []LoggedOnce
<1>1. Init => LoggedOnce
  BY Initially
<1>2. ASSUME Bookkeeping, LoggedOnce, [Next]_vars
      PROVE  LoggedOnce'
  <2>1. CASE Next
    BY <1>2, <2>1, LogStep DEF Bookkeeping
  <2>2. CASE UNCHANGED vars
    BY <1>2, <2>2, Stuttering
  <2>3. QED
    BY <1>2, <2>1, <2>2
<1>3. QED
  BY <1>1, <1>2, BookkeepingInvariant, PTL DEF Spec

\* No pipe outlives its request, whichever side ends first, and no proxied
\* request is without its pipe.
LEMMA PipesInvariant == Spec => []PipesInOrder
<1>1. Init => PipesInOrder
  BY Initially
<1>2. ASSUME Bookkeeping, PipesInOrder, [Next]_vars
      PROVE  PipesInOrder'
  <2>1. CASE Next
    BY <1>2, <2>1, PipesStep DEF Bookkeeping
  <2>2. CASE UNCHANGED vars
    BY <1>2, <2>2, Stuttering
  <2>3. QED
    BY <1>2, <2>1, <2>2
<1>3. QED
  BY <1>1, <1>2, BookkeepingInvariant, PTL DEF Spec

\* A pipe that is not torn down serves the current request, has sent its headers
\* exactly if they were written, and a proxied request that awaits its answer has
\* one (HttpHandlerProxyPipe::teardown, a slot of whatever may end the response).
THEOREM PipesHaveTheirRequests == Spec => []PipeHasItsRequest
<1>1. PipesInOrder => PipeHasItsRequest
  BY DEF PipesInOrder, PipeHasItsRequest, InService, EventLoop, Top
<1>2. QED
  BY <1>1, PipesInvariant, PTL

\* Where nobody asks for a large file by HEAD, a transfer is deleted when its
\* response ends and a reply when its pipe is torn down: when nothing is posted
\* none is left but those of the response in service (deleteLater() in
\* HttpHandlerFileTransfer and HttpHandlerProxyPipe).
THEOREM NothingIsLeft ==
  ASSUME NoHeadOfFiles
  PROVE  Spec => []NothingLeaks
<1>1. Init => LeavesNothing
  BY Initially
<1>2. ASSUME Bookkeeping, PipesInOrder, LeavesNothing, [Next]_vars
      PROVE  LeavesNothing'
  <2>1. CASE Next
    BY <1>2, <2>1, NoHeadOfFiles, TransferCallStep, TransfersStep, RepliesStep
    DEF Bookkeeping, LeavesNothing
  <2>2. CASE UNCHANGED vars
    BY <1>2, <2>2, Stuttering
  <2>3. QED
    BY <1>2, <2>1, <2>2
<1>3. LeavesNothing => NothingLeaks
  <2>1. ASSUME LeavesNothing, EventLoop, posted = <<>>
        PROVE  /\ \A t \in LiveTransfers :
                    transfers[t] = conn.now /\ conn.state = "SendingContent"
               /\ UNION {managers[i] : i \in DOMAIN managers} = LivePipes
    <3>1. \A e : ~Posted(e)
      BY <2>1 DEF Posted
    <3>2. ASSUME NEW t \in LiveTransfers
          PROVE  transfers[t] = conn.now /\ conn.state = "SendingContent"
      BY <2>1, <3>1 DEF LeavesNothing, TransfersInUse, LiveTransfers
    <3>3. LivePipes \subseteq UNION {managers[i] : i \in DOMAIN managers}
      BY <2>1 DEF LeavesNothing, RepliesInUse
    <3>4. ASSUME NEW i \in DOMAIN managers, NEW r \in managers[i]
          PROVE  r \in LivePipes
      BY <2>1, <3>1 DEF LeavesNothing, RepliesInUse, LivePipes
    <3>5. QED
      BY <3>2, <3>3, <3>4
  <2>2. QED
    BY <2>1 DEF NothingLeaks
<1>4. QED
  BY <1>1, <1>2, <1>3, BookkeepingInvariant, PipesInvariant, PTL DEF Spec

\* Where nobody asks by HEAD for what the handlers would write all the same, and
\* files do not grow while they are sent, whatever is written for a request is
\* its own target's content, in order, and all of it when the response is
\* completed, whoever writes it and whatever calls, events and pipelined
\* requests are under way (HttpHandlerFileTransfer::writeNextPayload() and
\* HttpHandlerProxyPipe::pump() write to whatever response is being sent).
THEOREM ResponsesAreWhole ==
  ASSUME NoHeadOfFiles, NothingBehindHead, FilesOnlyShrink
  PROVE  Spec => []ServedIntact
<1>1. Init => LeavesNothing /\ Intact
  BY Initially, NothingWritten
<1>2. ASSUME Bookkeeping, PipesInOrder, LeavesNothing, Intact, [Next]_vars
      PROVE  LeavesNothing' /\ Intact'
  <2>1. CASE Next
    <3>1. TypeOK /\ InOrder /\ StackShape /\ TransfersInUse /\ TransferCallInPlace
      BY <1>2 DEF Bookkeeping, LeavesNothing
    <3>2. LeavesNothing'
      BY <1>2, <2>1, <3>1, NoHeadOfFiles, TransferCallStep, TransfersStep, RepliesStep
      DEF LeavesNothing
    <3>3. ContentInPlace'
      BY <1>2, <2>1, <3>1, ContentStep
    <3>4. ContentCallInPlace'
      BY <1>2, <2>1, <3>1, NothingBehindHead, ContentCallStep
    <3>5. TransfersInPlace'
      BY <1>2, <2>1, <3>1, NoHeadOfFiles, FilesOnlyShrink, TransfersPlaceStep
    <3>6. RepliesInPlace'
      BY <1>2, <2>1, <3>1, RepliesPlaceStep
    <3>7. QED
      BY <3>2, <3>3, <3>4, <3>5, <3>6 DEF Intact
  <2>2. CASE UNCHANGED vars
    BY <1>2, <2>2, Stuttering, NothingMore
  <2>3. QED
    BY <1>2, <2>1, <2>2
<1>3. Intact => ServedIntact
  BY DEF Intact, ContentInPlace, ServedIntact, Own, Exempt, Ended
<1>4. QED
  BY <1>1, <1>2, <1>3, BookkeepingInvariant, PipesInvariant, PTL DEF Spec
=============================================================================
