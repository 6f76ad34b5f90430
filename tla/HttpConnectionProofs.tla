------------------------ MODULE HttpConnectionProofs ------------------------
(***************************************************************************)
(* Proofs about HttpConnection, for every value of its constants.           *)
(***************************************************************************)
EXTENDS HttpConnectionInvariant, SequenceTheorems, TLAPS

(***************************************************************************)
(* How the call stack moves.                                               *)
(***************************************************************************)

\* Prepending a frame to a sequence of frames, element by element.
LEMMA Prepend ==
  ASSUME NEW s \in Seq(Frame), NEW f \in Frame
  PROVE  /\ <<f>> \o s \in Seq(Frame)
         /\ Len(<<f>> \o s) = Len(s) + 1
         /\ (<<f>> \o s)[1] = f
         /\ \A i \in 2 .. Len(s) + 1 : (<<f>> \o s)[i] = s[i - 1]
         /\ <<f>> \o s # <<>>
         /\ Head(<<f>> \o s) = f
  OBVIOUS

\* Prepending two.
LEMMA PrependTwo ==
  ASSUME NEW s \in Seq(Frame), NEW f \in Frame, NEW g \in Frame
  PROVE  /\ <<f, g>> \o s \in Seq(Frame)
         /\ Len(<<f, g>> \o s) = Len(s) + 2
         /\ (<<f, g>> \o s)[1] = f
         /\ (<<f, g>> \o s)[2] = g
         /\ \A i \in 3 .. Len(s) + 2 : (<<f, g>> \o s)[i] = s[i - 2]
         /\ <<f, g>> \o s # <<>>
         /\ Head(<<f, g>> \o s) = f
  OBVIOUS

\* Dropping the head.
LEMMA DropHead ==
  ASSUME NEW s \in Seq(Frame), s # <<>>
  PROVE  /\ Tail(s) \in Seq(Frame)
         /\ Len(Tail(s)) = Len(s) - 1
         /\ \A i \in 1 .. Len(s) - 1 : Tail(s)[i] = s[i + 1]
         /\ Head(s) = s[1]
         /\ Head(s) \in Frame
         /\ Len(s) \in Nat \ {0}
  OBVIOUS

\* A frame without arguments is a frame.
LEMMA CallIsFrame ==
  ASSUME NEW at \in Frames
  PROVE  Call(at) \in Frame /\ Call(at).at = at
  BY DEF Call, Frame

\* A call returns: below it is the event loop or a suspended call, or, below the
\* emission of requestCompleted, the tail of transitionToCompleted().
LEMMA Returned ==
  ASSUME stack \in Seq(Frame), StackShape, stack # <<>>, Return
  PROVE  /\ stack' \in Seq(Frame)
         /\ StackShape'
         /\ \/ Top' \in Suspended \cup {"idle"}
            \/ Top = "requestCompleted" /\ Top' = "completedTail"
<1>1. /\ stack' \in Seq(Frame)
      /\ Len(stack') = Len(stack) - 1
      /\ \A i \in 1 .. Len(stack) - 1 : stack'[i] = stack[i + 1]
      /\ Len(stack) \in Nat \ {0}
  BY DropHead DEF Return
<1>2. StackShape'
  <2>1. ASSUME NEW i \in 2 .. Len(stack')
        PROVE  stack'[i].at \in Suspended
    <3>1. i + 1 \in 3 .. Len(stack) /\ stack'[i] = stack[i + 1]
      BY <1>1
    <3>2. stack[i + 1].at \in Suspended
      BY <1>1, <3>1 DEF StackShape
    <3>3. QED
      BY <3>1, <3>2
  <2>2. QED
    BY <2>1 DEF StackShape
<1>3. CASE stack' = <<>>
  BY <1>1, <1>2, <1>3 DEF Top
<1>4. CASE stack' # <<>>
  <2>1. Top' = stack[2].at /\ 2 \in 2 .. Len(stack)
    BY <1>1, <1>4, DropHead DEF Top
  <2>2. QED
    BY <1>1, <1>2, <2>1 DEF StackShape
<1>5. QED
  BY <1>3, <1>4

\* A call other than the emission of requestCompleted ends in calling f.
LEMMA Became ==
  ASSUME stack \in Seq(Frame), StackShape, stack # <<>>,
         Top # "requestCompleted", NEW f \in Frame, Become(f)
  PROVE  /\ stack' \in Seq(Frame)
         /\ StackShape'
         /\ stack' # <<>>
         /\ Top' = f.at
<1> DEFINE t == Tail(stack)
<1>1. /\ t \in Seq(Frame)
      /\ Len(t) = Len(stack) - 1
      /\ Len(stack) \in Nat \ {0}
      /\ \A i \in 1 .. Len(stack) - 1 : t[i] = stack[i + 1]
  BY DropHead
<1>2. stack' = <<f>> \o t
  BY DEF Become
<1> HIDE DEF t
<1>3. /\ stack' \in Seq(Frame)
      /\ Len(stack') = Len(stack)
      /\ stack' # <<>>
      /\ Head(stack') = f
      /\ \A i \in 2 .. Len(stack) : stack'[i] = stack[i]
  BY <1>1, <1>2, Prepend
<1>4. QED
  BY <1>3 DEF StackShape, Top

\* The application, or the event loop, calls f.
LEMMA Entered ==
  ASSUME stack \in Seq(Frame), StackShape, Top \in Suspended \cup {"idle"},
         NEW f \in Frame, Enter(f)
  PROVE  /\ stack' \in Seq(Frame)
         /\ StackShape'
         /\ stack' # <<>>
         /\ Top' = f.at
<1>1. /\ stack' \in Seq(Frame)
      /\ Len(stack') = Len(stack) + 1
      /\ stack' # <<>>
      /\ Head(stack') = f
      /\ \A i \in 2 .. Len(stack) + 1 : stack'[i] = stack[i - 1]
  BY Prepend DEF Enter
<1>2. Len(stack) \in Nat /\ (Len(stack) > 0 => stack[1].at \in Suspended)
  <2>1. CASE stack = <<>>
    BY <2>1
  <2>2. CASE stack # <<>>
    BY <2>2, DropHead DEF Top, Suspended, Frame, Frames, AppFrames
  <2>3. QED
    BY <2>1, <2>2
<1>3. StackShape'
  <2>1. SUFFICES ASSUME NEW i \in 2 .. Len(stack')
                 PROVE  stack'[i].at \in Suspended
    BY DEF StackShape
  <2>2. CASE i = 2
    BY <1>1, <1>2, <2>2
  <2>3. CASE i > 2
    BY <1>1, <2>3 DEF StackShape, Suspended
  <2>4. QED
    BY <2>2, <2>3
<1>4. QED
  BY <1>1, <1>3 DEF Top

\* The application calls f, which leaves g pending.
LEMMA EnteredTwo ==
  ASSUME stack \in Seq(Frame), StackShape, Top \in Suspended \cup {"idle"},
         NEW f \in Frame, NEW g \in Frame, g.at \in Suspended,
         stack' = <<f, g>> \o stack
  PROVE  /\ stack' \in Seq(Frame)
         /\ StackShape'
         /\ stack' # <<>>
         /\ Top' = f.at
<1>1. /\ stack' \in Seq(Frame)
      /\ Len(stack') = Len(stack) + 2
      /\ stack' # <<>>
      /\ Head(stack') = f
      /\ stack'[2] = g
      /\ \A i \in 3 .. Len(stack) + 2 : stack'[i] = stack[i - 2]
  BY PrependTwo
<1>2. Len(stack) \in Nat /\ (Len(stack) > 0 => stack[1].at \in Suspended)
  <2>1. CASE stack = <<>>
    BY <2>1
  <2>2. CASE stack # <<>>
    BY <2>2, DropHead DEF Top, Suspended, Frame, Frames, AppFrames
  <2>3. QED
    BY <2>1, <2>2
<1>3. StackShape'
  <2>1. SUFFICES ASSUME NEW i \in 2 .. Len(stack')
                 PROVE  stack'[i].at \in Suspended
    BY DEF StackShape
  <2>2. CASE i \in {2, 3}
    BY <1>1, <1>2, <2>2
  <2>3. CASE i > 3
    BY <1>1, <2>3 DEF StackShape, Suspended
  <2>4. QED
    BY <2>2, <2>3
<1>4. QED
  BY <1>1, <1>3 DEF Top

\* A call ends in calling f, and leaves g pending.
LEMMA BecameTwo ==
  ASSUME stack \in Seq(Frame), StackShape, stack # <<>>,
         Top # "requestCompleted", NEW f \in Frame, NEW g \in Frame,
         \/ g.at \in Suspended
         \/ g.at = "completedTail" /\ f.at = "requestCompleted",
         stack' = <<f, g>> \o Tail(stack)
  PROVE  /\ stack' \in Seq(Frame)
         /\ StackShape'
         /\ stack' # <<>>
         /\ Top' = f.at
<1> DEFINE t == Tail(stack)
<1>1. /\ t \in Seq(Frame)
      /\ Len(t) = Len(stack) - 1
      /\ Len(stack) \in Nat \ {0}
      /\ \A i \in 1 .. Len(stack) - 1 : t[i] = stack[i + 1]
  BY DropHead
<1>2. stack' = <<f, g>> \o t
  OBVIOUS
<1> HIDE DEF t
<1>3. /\ stack' \in Seq(Frame)
      /\ Len(stack') = Len(stack) + 1
      /\ stack' # <<>>
      /\ Head(stack') = f
      /\ stack'[2] = g
      /\ \A i \in 3 .. Len(stack) + 1 : stack'[i] = stack[i - 1]
  BY <1>1, <1>2, PrependTwo
<1>4. Top' = f.at
  BY <1>3 DEF Top
<1>5. StackShape'
  <2>1. SUFFICES ASSUME NEW i \in 2 .. Len(stack')
                 PROVE  \/ stack'[i].at \in Suspended
                        \/ /\ stack'[i].at = "completedTail"
                           /\ i = 2 /\ Top' = "requestCompleted"
    BY DEF StackShape
  <2>2. CASE i = 2
    BY <1>3, <1>4, <2>2
  <2>3. CASE i > 2
    BY <1>3, <2>3 DEF StackShape
  <2>4. QED
    BY <2>2, <2>3
<1>6. QED
  BY <1>3, <1>4, <1>5

(***************************************************************************)
(* Positions in the peer's stream.                                         *)
(***************************************************************************)

\* What the positions of the invariant are about.
Where == <<script, bufLo, bufHi, nread, reqLen, headersShort, headersFresh,
           fieldsOf, delivered>>

\* They mean the same after a step that leaves those variables alone.
LEMMA SameWhere ==
  ASSUME UNCHANGED Where
  PROVE  /\ Current' = Current
         /\ HeadParsed' = HeadParsed
         /\ NextStart' = NextStart
         /\ CurrentDelivered' = CurrentDelivered
  BY DEF Where, Current, HeadParsed, NextStart, StartOf, ContentLength,
         RequestAt, CurrentDelivered

\* The content length of a request is a number.
LEMMA ContentLengthTyped ==
  ASSUME TypeOK, NEW id \in 1 .. Len(script)
  PROVE  ContentLength(id) \in Int
<1>1. script[id] \in Unit
  BY DEF TypeOK
<1>2. QED
  BY <1>1 DEF ContentLength, RequestAt, Unit, Request

\* The requests delivered stay framed as sent when more arrives.
LEMMA StillFramed ==
  ASSUME TypeOK, FramedAsSent, UNCHANGED Where, arrived' \in Nat,
         arrived' >= arrived
  PROVE  FramedAsSent'
<1>1. SUFFICES ASSUME NEW i \in 1 .. Len(delivered)
               PROVE  /\ script[delivered[i]].kind = "end"
                      /\ StartOf(i) < delivered[i]
                      /\ \A p \in (StartOf(i) + 1) .. (delivered[i] - 1) :
                           script[p].kind = "part"
                      /\ delivered[i] + ContentLength(delivered[i]) <= arrived'
  BY DEF FramedAsSent, StartOf, ContentLength, RequestAt, Where
<1>2. delivered[i] \in 1 .. Len(script)
  BY DEF TypeOK
<1>3. ContentLength(delivered[i]) \in Int
  BY <1>2, ContentLengthTyped
<1>4. /\ script[delivered[i]].kind = "end"
      /\ StartOf(i) < delivered[i]
      /\ \A p \in (StartOf(i) + 1) .. (delivered[i] - 1) :
           script[p].kind = "part"
      /\ delivered[i] + ContentLength(delivered[i]) <= arrived
  BY DEF FramedAsSent
<1>5. delivered[i] + ContentLength(delivered[i]) <= arrived'
  <2>1. delivered[i] \in Int /\ arrived \in Int /\ arrived' \in Int
    BY <1>2 DEF TypeOK
  <2>2. QED
    BY <1>3, <1>4, <2>1
<1>6. QED
  BY <1>4, <1>5
\* A step after which the positions matter in no case in which they did not
\* matter before.
NoNewClaim ==
  /\ Receiving' \/ Top' = "receivingHeaders" =>
       Receiving \/ Top = "receivingHeaders"
  /\ (state' = "ReceivingHeaders" /\ Top' # "receivingContent" /\ ~GivingUp') =>
       (state = "ReceivingHeaders" /\ Top # "receivingContent" /\ ~GivingUp)
  /\ Top' = "receivingContent" => Top = "receivingContent"
  /\ state' = "ReceivingContent" /\ ~GivingUp' =>
       /\ state = "ReceivingContent" /\ ~GivingUp
       /\ Top = "sendingHeaders" => Top' = "sendingHeaders"
  /\ Top' = "sendingHeaders" => Top = "sendingHeaders"
  /\ AppHolds' \/ Completing' => AppHolds \/ Completing
  /\ AppHolds' => AppHolds

\* Such a step keeps what the invariant says about positions, if it keeps the
\* positions.
LEMMA Elsewhere ==
  ASSUME Inductive, UNCHANGED Where, NoNewClaim,
         TypeOK', StackShape', CalledIn', arrived' >= arrived,
         pump' <= pump, sessions' = sessions
  PROVE  Inductive'
<1>1. Positions'
  BY SameWhere DEF Inductive, Positions, NoNewClaim, Where, ContentLength,
                   RequestAt
<1>2. Headers'
  BY DEF Inductive, Headers, NoNewClaim, Where
<1>3. RequestViewIntact'
  BY SameWhere DEF Inductive, RequestViewIntact, NoNewClaim, Where
<1>4. TimersStarted'
  BY DEF Inductive, TimersStarted, TypeOK
<1>5. FramedAsSent'
  BY StillFramed DEF Inductive, TypeOK
<1>6. QED
  BY <1>1, <1>2, <1>3, <1>4, <1>5 DEF Inductive

\* So does one that leaves what has arrived and the timers alone, too.
LEMMA ElsewhereStill ==
  ASSUME Inductive, NoNewClaim, TypeOK', StackShape', CalledIn',
         UNCHANGED <<Where, arrived, pump, sessions>>
  PROVE  Inductive'
<1>1. arrived \in Nat /\ pump \in Nat
  BY DEF Inductive, TypeOK
<1>2. arrived' >= arrived /\ pump' <= pump
  BY <1>1
<1>3. QED
  BY <1>2, Elsewhere

(***************************************************************************)
(* Who runs.                                                               *)
(***************************************************************************)

LEMMA LoopRuns ==
  ASSUME EventLoop
  PROVE  Top = "idle" /\ stack = <<>>
  BY DEF EventLoop, Top

LEMMA ApplicationRuns ==
  ASSUME AppRuns
  PROVE  Top \in {"idle", "requestReady", "requestCompleted"}
  BY DEF AppRuns, AppFrames, Top

LEMMA FunctionRuns ==
  ASSUME NEW at, Running(at)
  PROVE  Top = at /\ stack # <<>>
  BY DEF Running, Top

\* Nothing is called, nothing returns.
LEMMA SameStack ==
  ASSUME Inductive, UNCHANGED stack
  PROVE  stack' \in Seq(Frame) /\ StackShape' /\ Top' = Top
  BY DEF Inductive, TypeOK, StackShape, Top

(***************************************************************************)
(* Steps that leave the buffer alone.                                      *)
(***************************************************************************)

\* The invariant survives a stuttering step.
LEMMA Stuttering ==
  ASSUME Inductive, UNCHANGED vars
  PROVE  Inductive'
<1> USE DEF vars, inputVars, requestVars, outputVars, worldVars, historyVars
<1>1. TypeOK'
  BY DEF Inductive, TypeOK
<1>2. StackShape' /\ Top' = Top
  BY SameStack
<1>3. CalledIn'
  BY <1>2 DEF Inductive, CalledIn, Completing, Receiving, AppHolds
<1>4. NoNewClaim
  BY <1>2 DEF NoNewClaim, Receiving, GivingUp, AppHolds, Completing
<1>5. QED
  BY <1>1, <1>2, <1>3, <1>4, ElsewhereStill DEF Where

\* The invariant survives the closing of the connection under the event loop or
\* the application.
LEMMA ClosingStep ==
  ASSUME Inductive, Top \in {"idle", "requestReady", "requestCompleted"},
         TransitionToClosed,
         UNCHANGED <<inputVars, requestVars, resp, worldVars, historyVars,
                     stack, crashed>>
  PROVE  Inductive'
<1> USE DEF inputVars, requestVars, worldVars, historyVars
<1>1. TypeOK'
  BY DEF Inductive, TypeOK, TransitionToClosed, State
<1>2. StackShape' /\ Top' = Top
  BY SameStack
<1>3. CalledIn'
  BY <1>2 DEF CalledIn, TransitionToClosed, Completing
<1>4. NoNewClaim
  BY <1>2 DEF NoNewClaim, Receiving, GivingUp, AppHolds, Completing,
              TransitionToClosed
<1>5. QED
  BY <1>1, <1>2, <1>3, <1>4, ElsewhereStill DEF Where

LEMMA PeerClosesStep ==
  ASSUME Inductive, PeerCloses
  PROVE  Inductive'
  BY LoopRuns, ClosingStep DEF PeerCloses

LEMMA CloseStep ==
  ASSUME Inductive, Close
  PROVE  Inductive'
  BY ApplicationRuns, ClosingStep DEF Close

\* The device writes what it holds.
LEMMA BytesWrittenStep ==
  ASSUME Inductive, Top \in {"idle", "requestReady", "requestCompleted"},
         BytesWritten
  PROVE  Inductive'
<1>1. CASE drainOn /\ state = "Flushing"
  BY <1>1, ClosingStep DEF BytesWritten
<1>2. CASE ~(drainOn /\ state = "Flushing")
  <2> USE DEF BytesWritten, inputVars, requestVars, worldVars, historyVars
  <2>1. TypeOK'
    BY <1>2 DEF Inductive, TypeOK
  <2>2. StackShape' /\ Top' = Top
    BY SameStack
  <2>3. CalledIn'
    BY <1>2, <2>2 DEF Inductive, CalledIn, Completing, Receiving, AppHolds
  <2>4. NoNewClaim
    BY <1>2, <2>2 DEF NoNewClaim, Receiving, GivingUp, AppHolds, Completing
  <2>5. QED
    BY <1>2, <2>1, <2>2, <2>3, <2>4, ElsewhereStill DEF Where
<1>3. QED
  BY <1>1, <1>2

LEMMA DeviceWritesStep ==
  ASSUME Inductive, DeviceWrites
  PROVE  Inductive'
  BY LoopRuns, BytesWrittenStep DEF DeviceWrites

LEMMA FlushStep ==
  ASSUME Inductive, Flush
  PROVE  Inductive'
  BY ApplicationRuns, BytesWrittenStep, ClosingStep DEF Flush

LEMMA StopListeningStep ==
  ASSUME Inductive, StopListening
  PROVE  Inductive'
<1> USE DEF StopListening, inputVars, requestVars, outputVars, historyVars
<1>1. TypeOK'
  BY DEF Inductive, TypeOK
<1>2. StackShape' /\ Top' = Top
  BY SameStack
<1>3. CalledIn'
  BY <1>2 DEF Inductive, CalledIn, Completing, Receiving, AppHolds
<1>4. NoNewClaim
  BY <1>2 DEF NoNewClaim, Receiving, GivingUp, AppHolds, Completing
<1>5. QED
  BY <1>1, <1>2, <1>3, <1>4, ElsewhereStill DEF Where
LEMMA RequestParamsStep ==
  ASSUME Inductive, RequestParams
  PROVE  Inductive'
<1> USE DEF RequestParams, inputVars, outputVars, worldVars, historyVars
<1>1. TypeOK'
  <2>1. delivered # <<>> => delivered[Len(delivered)] \in 1 .. Len(script)
    BY DEF Inductive, TypeOK
  <2>2. paramsOf' \in 0 .. Len(script)
    BY <2>1 DEF Inductive, TypeOK
  <2>3. QED
    BY <2>2 DEF Inductive, TypeOK
<1>2. StackShape' /\ Top' = Top
  BY SameStack
<1>3. CalledIn'
  BY <1>2 DEF Inductive, CalledIn, Completing, Receiving, AppHolds
<1>4. NoNewClaim
  BY <1>2 DEF NoNewClaim, Receiving, GivingUp, AppHolds, Completing
<1>5. QED
  BY <1>1, <1>2, <1>3, <1>4, ElsewhereStill DEF Where

LEMMA ProcessInputCrashStep ==
  ASSUME Inductive, ProcessInputCrash
  PROVE  Inductive'
<1> USE DEF ProcessInputCrash, inputVars, requestVars, outputVars, worldVars,
            historyVars
<1>1. TypeOK'
  BY DEF Inductive, TypeOK
<1>2. StackShape' /\ Top' = Top
  BY SameStack
<1>3. CalledIn'
  BY <1>2 DEF Inductive, CalledIn, Completing, Receiving, AppHolds
<1>4. NoNewClaim
  BY <1>2 DEF NoNewClaim, Receiving, GivingUp, AppHolds, Completing
<1>5. QED
  BY <1>1, <1>2, <1>3, <1>4, ElsewhereStill DEF Where

LEMMA PumpTimerStep ==
  ASSUME Inductive, PumpTimer
  PROVE  Inductive'
<1> USE DEF PumpTimer, inputVars, requestVars, outputVars, historyVars
<1>1. stack' \in Seq(Frame) /\ StackShape' /\ Top' = "processInput"
  BY LoopRuns, Entered, CallIsFrame DEF Inductive, TypeOK, Frames
<1>2. TypeOK'
  BY <1>1, BoundsAssumption DEF Inductive, TypeOK
<1>3. CalledIn'
  BY <1>1 DEF CalledIn, Completing
<1>4. NoNewClaim
  BY <1>1, LoopRuns DEF NoNewClaim, Receiving, GivingUp, AppHolds, Completing
<1>5. pump' <= pump /\ arrived' >= arrived
  BY BoundsAssumption DEF Inductive, TypeOK
<1>6. UNCHANGED Where /\ sessions' = sessions
  BY DEF Where
<1>7. QED
  BY <1>1, <1>2, <1>3, <1>4, <1>5, <1>6, Elsewhere

LEMMA HandlerReturnsStep ==
  ASSUME Inductive, HandlerReturns
  PROVE  Inductive'
<1> USE DEF HandlerReturns, inputVars, requestVars, outputVars, worldVars,
            historyVars
<1>1. /\ stack' \in Seq(Frame)
      /\ StackShape'
      /\ \/ Top' \in Suspended \cup {"idle"}
         \/ Top = "requestCompleted" /\ Top' = "completedTail"
  BY Returned DEF Inductive, TypeOK
<1>2. TypeOK'
  BY <1>1 DEF Inductive, TypeOK
<1>3. CalledIn'
  BY <1>1 DEF Inductive, CalledIn, Completing, Suspended
<1>4. NoNewClaim
  BY <1>1, ApplicationRuns
     DEF NoNewClaim, Receiving, GivingUp, AppHolds, Completing, Suspended
<1>5. QED
  BY <1>1, <1>2, <1>3, <1>4, ElsewhereStill DEF Where

LEMMA ProcessInputIdleStep ==
  ASSUME Inductive, ProcessInputIdle
  PROVE  Inductive'
<1> USE DEF ProcessInputIdle, inputVars, requestVars, outputVars, worldVars,
            historyVars
<1>1. /\ stack' \in Seq(Frame)
      /\ StackShape'
      /\ Top = "processInput"
      /\ Top' \in Suspended \cup {"idle"}
  BY FunctionRuns, Returned DEF Inductive, TypeOK
<1>2. TypeOK'
  BY <1>1 DEF Inductive, TypeOK
<1>3. CalledIn'
  BY <1>1 DEF CalledIn, Completing, Suspended
<1>4. NoNewClaim
  BY <1>1
     DEF NoNewClaim, Receiving, GivingUp, AppHolds, Completing, Suspended
<1>5. QED
  BY <1>1, <1>2, <1>3, <1>4, ElsewhereStill DEF Where

LEMMA TransitionToFlushingStep ==
  ASSUME Inductive, TransitionToFlushing
  PROVE  Inductive'
<1> USE DEF TransitionToFlushing, TransitionToClosed, inputVars, requestVars,
            worldVars, historyVars
<1>1. /\ stack' \in Seq(Frame)
      /\ StackShape'
      /\ Top = "flushing"
      /\ Top' \in Suspended \cup {"idle"}
  BY FunctionRuns, Returned DEF Inductive, TypeOK
<1>2. TypeOK'
  BY <1>1 DEF Inductive, TypeOK, State
<1>3. CalledIn'
  BY <1>1 DEF CalledIn, Completing, Suspended
<1>4. NoNewClaim
  BY <1>1
     DEF NoNewClaim, Receiving, GivingUp, AppHolds, Completing, Suspended
<1>5. QED
  BY <1>1, <1>2, <1>3, <1>4, ElsewhereStill DEF Where

LEMMA SendingContentTailStep ==
  ASSUME Inductive, SendingContentTail
  PROVE  Inductive'
<1> USE DEF SendingContentTail, inputVars, requestVars, worldVars, historyVars
<1>1. /\ stack' \in Seq(Frame)
      /\ StackShape'
      /\ Top = "sendingContentTail"
      /\ Top' \in Suspended \cup {"idle"}
  BY FunctionRuns, Returned DEF Inductive, TypeOK
<1>2. TypeOK'
  BY <1>1 DEF Inductive, TypeOK, Response
<1>3. CalledIn'
  BY <1>1 DEF CalledIn, Completing, Suspended
<1>4. NoNewClaim
  BY <1>1
     DEF NoNewClaim, Receiving, GivingUp, AppHolds, Completing, Suspended
<1>5. QED
  BY <1>1, <1>2, <1>3, <1>4, ElsewhereStill DEF Where

LEMMA TransitionToSendingContentStep ==
  ASSUME Inductive, TransitionToSendingContent
  PROVE  Inductive'
<1> USE DEF TransitionToSendingContent, inputVars, requestVars, outputVars,
            worldVars, historyVars
<1>1. Top = "sendingContent" /\ stack # <<>> /\ state = "SendingHeaders"
  BY FunctionRuns DEF Inductive, CalledIn
<1>2. /\ stack' \in Seq(Frame)
      /\ StackShape'
      /\ Top' \in {"completed", "sendingContentTail"}
  <2>1. /\ Call("completed") \in Frame
        /\ Call("completed").at = "completed"
        /\ Call("sendingContentTail") \in Frame
        /\ Call("sendingContentTail").at = "sendingContentTail"
        /\ "sendingContentTail" \in Suspended
    BY CallIsFrame DEF Frames, Suspended
  <2>2. CASE NoContentDue
    BY <1>1, <2>1, <2>2, BecameTwo DEF Inductive, TypeOK
  <2>3. CASE ~NoContentDue
    BY <1>1, <2>1, <2>3, Became DEF Inductive, TypeOK
  <2>4. QED
    BY <2>2, <2>3
<1>3. TypeOK'
  BY <1>2 DEF Inductive, TypeOK, State
<1>4. CalledIn'
  BY <1>2 DEF CalledIn, Completing
<1>5. NoNewClaim
  BY <1>1, <1>2 DEF NoNewClaim, Receiving, GivingUp, AppHolds, Completing
<1>6. QED
  BY <1>2, <1>3, <1>4, <1>5, ElsewhereStill DEF Where
(***************************************************************************)
(* Messages are messages.                                                  *)
(***************************************************************************)

LEMMA PlainIsMessage ==
  ASSUME NEW kind \in {"continue", "error"}, NEW id \in Nat
  PROVE  Plain(kind, id) \in Message
  BY DEF Plain, Message

LEMMA HeadIsMessage ==
  ASSUME NEW id \in Nat, NEW length \in Int, NEW chunked \in BOOLEAN,
         NEW keep \in BOOLEAN
  PROVE  ResponseHead(id, length, chunked, keep) \in Message
  BY DEF ResponseHead, Message

\* Writing beyond the end of the wire has no effect.
LEMMA EditedOutside ==
  ASSUME NEW w \in Seq(Message), NEW i, i \notin 1 .. Len(w), NEW m
  PROVE  [w EXCEPT ![i] = m] = w
  OBVIOUS

\* Writing to a message.
LEMMA EditedMessage ==
  ASSUME NEW m \in Message, NEW n \in Nat
  PROVE  /\ [m EXCEPT !.body = @ + n] \in Message
         /\ [m EXCEPT !.foreign = @ + n] \in Message
         /\ [m EXCEPT !.ended = TRUE] \in Message
<1>1. [m EXCEPT !.body = @ + n] \in Message
  BY DEF Message
<1>2. [m EXCEPT !.foreign = @ + n] \in Message
  BY DEF Message
<1>3. [m EXCEPT !.ended = TRUE] \in Message
  BY DEF Message
<1>4. QED
  BY <1>1, <1>2, <1>3

\* Writing to the last message of the wire.
LEMMA EditedLast ==
  ASSUME NEW w \in Seq(Message), NEW n \in Nat
  PROVE  /\ [w EXCEPT ![Len(w)].body = @ + n] \in Seq(Message)
         /\ [w EXCEPT ![Len(w)].foreign = @ + n] \in Seq(Message)
         /\ [w EXCEPT ![Len(w)].ended = TRUE] \in Seq(Message)
<1> DEFINE more  == [w[Len(w)] EXCEPT !.body = @ + n]
           other == [w[Len(w)] EXCEPT !.foreign = @ + n]
           over  == [w[Len(w)] EXCEPT !.ended = TRUE]
<1>1. CASE w = <<>>
  <2>1. Len(w) \notin 1 .. Len(w)
    BY <1>1
  <2>2. /\ [w EXCEPT ![Len(w)] = more] = w
        /\ [w EXCEPT ![Len(w)] = other] = w
        /\ [w EXCEPT ![Len(w)] = over] = w
    <3> HIDE DEF more, other, over
    <3>1. QED
      BY <2>1, EditedOutside
  <2>3. QED
    BY <2>2
<1>2. CASE w # <<>>
  <2>1. Len(w) \in 1 .. Len(w) /\ w[Len(w)] \in Message
    BY <1>2
  <2>2. more \in Message /\ other \in Message /\ over \in Message
    BY <2>1, EditedMessage
  <2>3. /\ [w EXCEPT ![Len(w)] = more] \in Seq(Message)
        /\ [w EXCEPT ![Len(w)] = other] \in Seq(Message)
        /\ [w EXCEPT ![Len(w)] = over] \in Seq(Message)
    <3> HIDE DEF more, other, over
    <3>1. QED
      BY <2>1, <2>2, ExceptSeq
  <2>4. QED
    BY <2>3
<1>3. QED
  BY <1>1, <1>2

(***************************************************************************)
(* Steps that write to the device.                                         *)
(***************************************************************************)

LEMMA WriteRequestErrorResponseStep ==
  ASSUME Inductive, WriteRequestErrorResponse
  PROVE  Inductive'
<1> USE DEF WriteRequestErrorResponse, inputVars, requestVars, worldVars
<1>1. /\ stack # <<>>
      /\ Top \in {"badRequest", "tooLarge"}
      /\ Receiving
  BY FunctionRuns DEF Inductive, CalledIn
<1>2. stack' \in Seq(Frame) /\ StackShape' /\ Top' = "flushing"
  BY <1>1, Became, CallIsFrame DEF Inductive, TypeOK, Frames
<1>3. TypeOK'
  <2>1. Plain("error", Current) \in Message
    BY PlainIsMessage DEF Inductive, TypeOK, Current
  <2>2. wire' \in Seq(Message)
    BY <2>1 DEF Inductive, TypeOK
  <2>3. QED
    BY <1>2, <2>2 DEF Inductive, TypeOK
<1>4. CalledIn'
  BY <1>1, <1>2 DEF CalledIn, Completing, Receiving, AppHolds
<1>5. NoNewClaim
  BY <1>1, <1>2 DEF NoNewClaim, Receiving, GivingUp, AppHolds, Completing
<1>6. QED
  BY <1>2, <1>3, <1>4, <1>5, ElsewhereStill DEF Where

LEMMA TransitionToCompletedStep ==
  ASSUME Inductive, TransitionToCompleted
  PROVE  Inductive'
<1> USE DEF TransitionToCompleted, inputVars, requestVars, outputVars,
            worldVars
<1>1. stack # <<>> /\ Top = "completed" /\ state = "SendingContent"
  BY FunctionRuns DEF Inductive, CalledIn
<1>2. stack' \in Seq(Frame) /\ StackShape' /\ Top' = "requestCompleted"
  <2>1. /\ [at |-> "requestCompleted", req |-> fieldsOf, size |-> 0] \in Frame
        /\ Call("completedTail") \in Frame
        /\ Call("completedTail").at = "completedTail"
    BY CallIsFrame DEF Inductive, TypeOK, Frame, Frames, AppFrames
  <2>2. QED
    BY <1>1, <2>1, BecameTwo DEF Inductive, TypeOK
<1>3. TypeOK'
  <2>1. wire' \in Seq(Message)
    BY EditedLast DEF Inductive, TypeOK
  <2>2. state' \in State
    BY DEF State
  <2>3. answered' \in Nat
    <3>1. answered \in Nat /\ answered' = answered + 1
      BY DEF Inductive, TypeOK
    <3>2. QED
      BY <3>1
  <2>4. QED
    BY <1>2, <2>1, <2>2, <2>3 DEF Inductive, TypeOK
<1>4. CalledIn'
  BY <1>2 DEF CalledIn, Completing
<1>5. NoNewClaim
  BY <1>1, <1>2 DEF NoNewClaim, Receiving, GivingUp, AppHolds, Completing
<1>6. QED
  BY <1>2, <1>3, <1>4, <1>5, ElsewhereStill DEF Where

LEMMA EndContentStep ==
  ASSUME Inductive, EndContent
  PROVE  Inductive'
<1> USE DEF EndContent, AppAnswers, inputVars, requestVars, worldVars,
            historyVars
<1>1. Top \in {"idle", "requestReady"}
  BY ApplicationRuns DEF Inductive, CalledIn, Completing
<1>2. stack' \in Seq(Frame) /\ StackShape' /\ Top' = "completed"
  BY <1>1, Entered, CallIsFrame DEF Inductive, TypeOK, Frames, Suspended
<1>3. TypeOK'
  BY <1>2 DEF Inductive, TypeOK, Response
<1>4. CalledIn'
  BY <1>2 DEF CalledIn, Completing
<1>5. NoNewClaim
  BY <1>1, <1>2 DEF NoNewClaim, Receiving, GivingUp, AppHolds, Completing
<1>6. QED
  BY <1>2, <1>3, <1>4, <1>5, ElsewhereStill DEF Where

\* A response head is written with a length the code can compute.
LEMMA WriteHeadTyped ==
  ASSUME Inductive, NEW h \in HeaderSets, NEW known \in Int,
         WriteHead(h, known)
  PROVE  resp' \in Response /\ wire' \in Seq(Message)
<1> DEFINE length  == LengthOf(h, known)
           chunked == ChunkedOf(h, fieldsOf, length)
           keep    == /\ ClientWantsKeepAlive(fieldsOf)
                      /\ ServerWantsKeepAlive(h, length, chunked)
                      /\ listening
<1>1. h \in HeaderSet
  BY HeaderSetsAssumption
<1>2. length \in Int
  BY <1>1 DEF LengthOf, HeaderSet
<1>3. chunked \in BOOLEAN
  BY DEF ChunkedOf
<1>4. keep \in BOOLEAN
  OBVIOUS
<1>5. /\ resp' = [resp EXCEPT !.length = length, !.chunked = chunked,
                              !.keepAlive = keep]
      /\ wire' = Append(wire, ResponseHead(fieldsOf, length, chunked, keep))
  BY DEF WriteHead
<1> HIDE DEF length, chunked, keep
<1>6. ResponseHead(fieldsOf, length, chunked, keep) \in Message
  BY <1>2, <1>3, <1>4, HeadIsMessage DEF Inductive, TypeOK
<1>7. resp' \in Response
  BY <1>2, <1>3, <1>4, <1>5 DEF Inductive, TypeOK, Response
<1>8. QED
  BY <1>5, <1>6, <1>7 DEF Inductive, TypeOK

\* Once the stack is known, writing a head keeps the invariant.
LEMMA WriteHeadStep ==
  ASSUME Inductive, NEW h \in HeaderSets, NEW known \in Int,
         WriteHead(h, known), Top \in {"idle", "requestReady"},
         stack' \in Seq(Frame), StackShape', Top' = "sendingContent"
  PROVE  Inductive'
<1> USE DEF inputVars, requestVars, worldVars
<1>1. /\ state = "SendingHeaders"
      /\ UNCHANGED <<state, attached, inputVars, requestVars, drainOn,
                     worldVars, delivered, answered, crashed>>
      /\ unsent' = TRUE
  BY DEF WriteHead, HeadIsDue
<1>2. TypeOK'
  BY <1>1, WriteHeadTyped DEF Inductive, TypeOK
<1>3. CalledIn'
  BY <1>1 DEF CalledIn, Completing
<1>4. NoNewClaim
  BY <1>1 DEF NoNewClaim, Receiving, GivingUp, AppHolds, Completing
<1>5. QED
  BY <1>1, <1>2, <1>3, <1>4, ElsewhereStill DEF Where

\* The application may answer only outside requestCompleted.
LEMMA AnswersFrom ==
  ASSUME Inductive, AppAnswers, AppHolds
  PROVE  Top \in {"idle", "requestReady"}
  BY ApplicationRuns
     DEF Inductive, CalledIn, Completing, AppAnswers, AppHolds

LEMMA WriteHeadersStep ==
  ASSUME Inductive, NEW h \in HeaderSets, WriteHeaders(h)
  PROVE  Inductive'
<1>1. WriteHead(h, resp.length) /\ resp.length \in Int
  BY DEF WriteHeaders, Inductive, TypeOK, Response
<1>2. Top \in {"idle", "requestReady"}
  BY <1>1, AnswersFrom DEF WriteHeaders, WriteHead, HeadIsDue, AppHolds
<1>3. stack' \in Seq(Frame) /\ StackShape' /\ Top' = "sendingContent"
  BY <1>2, Entered, CallIsFrame
     DEF WriteHeaders, Inductive, TypeOK, Frames, Suspended
<1>4. QED
  BY <1>1, <1>2, <1>3, WriteHeadStep

\* What the running application means to answer is a position, or 0.
LEMMA IntendedTyped ==
  ASSUME Inductive
  PROVE  Intended \in Nat
<1>1. CASE stack = <<>>
  BY <1>1 DEF Intended, Inductive, TypeOK
<1>2. CASE stack # <<>>
  BY <1>2, DropHead DEF Intended, Inductive, TypeOK, Frame
<1>3. QED
  BY <1>1, <1>2

LEMMA WriteResponseStep ==
  ASSUME Inductive, NEW h \in HeaderSets, NEW n \in Sizes,
         WriteResponse(h, n)
  PROVE  Inductive'
<1> DEFINE tail == [at |-> "writeResponseTail", req |-> Intended, size |-> n]
<1>1. WriteHead(h, n) /\ n \in Int /\ n \in Nat
  BY SizesAssumption DEF WriteResponse
<1>2. Top \in {"idle", "requestReady"}
  BY <1>1, AnswersFrom DEF WriteResponse, WriteHead, HeadIsDue, AppHolds
<1>3. tail \in Frame /\ tail.at = "writeResponseTail"
  BY <1>1, IntendedTyped DEF Frame, Frames
<1>4. stack' = <<Call("sendingContent"), tail>> \o stack
  BY DEF WriteResponse
<1> HIDE DEF tail
<1>5. stack' \in Seq(Frame) /\ StackShape' /\ Top' = "sendingContent"
  BY <1>2, <1>3, <1>4, EnteredTwo, CallIsFrame
     DEF Inductive, TypeOK, Frames, Suspended
<1>6. QED
  BY <1>1, <1>2, <1>5, WriteHeadStep
\* Once the stack is known, writing content keeps the invariant.
LEMMA PutContentStep ==
  ASSUME Inductive, NEW n \in Nat, NEW owner, NEW rest,
         PutContent(n, owner, rest),
         Top \in {"idle", "requestReady", "writeResponseTail"},
         stack' \in Seq(Frame), StackShape',
         Top' \in Suspended \cup {"idle", "completed"}
  PROVE  Inductive'
<1> USE DEF inputVars, requestVars, worldVars
<1>1. /\ state = "SendingContent"
      /\ UNCHANGED <<state, attached, inputVars, requestVars, drainOn,
                     worldVars, delivered, answered, crashed>>
      /\ unsent' = TRUE
  BY DEF PutContent
<1>2. resp' \in Response
  <2>1. resp' = [resp EXCEPT !.sent = resp.sent + n] /\ resp \in Response
    BY DEF PutContent, Inductive, TypeOK
  <2>2. QED
    BY <2>1 DEF Response
<1>3. wire' \in Seq(Message)
  <2>1. /\ [wire EXCEPT ![Len(wire)].body = @ + n] \in Seq(Message)
        /\ [wire EXCEPT ![Len(wire)].foreign = @ + n] \in Seq(Message)
    BY EditedLast DEF Inductive, TypeOK
  <2>2. QED
    BY <2>1 DEF PutContent
<1>4. TypeOK'
  BY <1>1, <1>2, <1>3 DEF Inductive, TypeOK
<1>5. CalledIn'
  BY <1>1 DEF CalledIn, Completing, Suspended
<1>6. NoNewClaim
  BY <1>1
     DEF NoNewClaim, Receiving, GivingUp, AppHolds, Completing, Suspended
<1>7. QED
  BY <1>1, <1>4, <1>5, <1>6, ElsewhereStill DEF Where

LEMMA WriteContentStep ==
  ASSUME Inductive, NEW n \in Sizes, WriteContent(n)
  PROVE  Inductive'
<1>1. PutContent(n, Intended, stack) /\ n \in Nat
  BY SizesAssumption DEF WriteContent
<1>2. Top \in {"idle", "requestReady"}
  BY <1>1, AnswersFrom DEF WriteContent, PutContent, AppHolds
<1>3. stack' = <<Call("completed")>> \o stack \/ stack' = stack
  BY <1>1 DEF PutContent
<1>4. /\ stack' \in Seq(Frame) /\ StackShape'
      /\ Top' \in Suspended \cup {"idle", "completed"}
  <2>1. CASE stack' = stack
    BY <1>2, <2>1, SameStack DEF Suspended
  <2>2. CASE stack' = <<Call("completed")>> \o stack
    BY <1>2, <2>2, Entered, CallIsFrame
       DEF Enter, Inductive, TypeOK, Frames, Suspended
  <2>3. QED
    BY <1>3, <2>1, <2>2
<1>5. QED
  BY <1>1, <1>2, <1>4, PutContentStep

LEMMA WriteResponseTailStep ==
  ASSUME Inductive, WriteResponseTail
  PROVE  Inductive'
<1>1. Top = "writeResponseTail" /\ stack # <<>>
  BY FunctionRuns DEF WriteResponseTail
<1>2. Head(stack).size \in Nat
  BY <1>1, DropHead DEF Inductive, TypeOK, Frame
<1>3. CASE PutContent(Head(stack).size, Head(stack).req, Tail(stack))
  <2>1. Become(Call("completed")) \/ Return
    BY <1>3 DEF PutContent, Become, Return
  <2>2. /\ stack' \in Seq(Frame) /\ StackShape'
        /\ Top' \in Suspended \cup {"idle", "completed"}
    <3>1. CASE Return
      BY <1>1, <3>1, Returned DEF Inductive, TypeOK
    <3>2. CASE Become(Call("completed"))
      BY <1>1, <3>2, Became, CallIsFrame DEF Inductive, TypeOK, Frames
    <3>3. QED
      BY <2>1, <3>1, <3>2
  <2>3. QED
    BY <1>1, <1>2, <1>3, <2>2, PutContentStep
<1>4. CASE Return /\ UNCHANGED <<state, attached, inputVars, requestVars,
                                 outputVars, worldVars, historyVars, crashed>>
  <2> USE <1>4 DEF inputVars, requestVars, outputVars, worldVars, historyVars
  <2>1. /\ stack' \in Seq(Frame)
        /\ StackShape'
        /\ Top' \in Suspended \cup {"idle"}
    BY <1>1, Returned DEF Inductive, TypeOK
  <2>2. TypeOK'
    BY <2>1 DEF Inductive, TypeOK
  <2>3. CalledIn'
    BY <2>1 DEF CalledIn, Completing, Suspended
  <2>4. NoNewClaim
    BY <1>1, <2>1
       DEF NoNewClaim, Receiving, GivingUp, AppHolds, Completing, Suspended
  <2>5. QED
    BY <2>1, <2>2, <2>3, <2>4, ElsewhereStill DEF Where
<1>5. QED
  BY <1>3, <1>4 DEF WriteResponseTail

(***************************************************************************)
(* Steps that move the buffer.                                             *)
(***************************************************************************)

LEMMA ReadyReadStep ==
  ASSUME Inductive, NEW k \in 1 .. Len(script), ReadyRead(k)
  PROVE  Inductive'
<1> USE DEF ReadyRead, requestVars, outputVars, worldVars, historyVars
<1>1. stack' \in Seq(Frame) /\ StackShape' /\ Top' = "processInput"
  BY LoopRuns, Entered, CallIsFrame DEF Inductive, TypeOK, Frames
<1>2. TypeOK'
  BY <1>1 DEF Inductive, TypeOK
<1>3. CalledIn'
  BY <1>1 DEF CalledIn, Completing
<1>4. NoNewClaim
  BY <1>1, LoopRuns DEF NoNewClaim, Receiving, GivingUp, AppHolds, Completing
<1>5. arrived' >= arrived /\ pump' <= pump
  BY BoundsAssumption DEF Inductive, TypeOK
<1>6. UNCHANGED Where /\ sessions' = sessions
  BY DEF Where
<1>7. QED
  BY <1>1, <1>2, <1>3, <1>4, <1>5, <1>6, Elsewhere

LEMMA InitializeStep ==
  ASSUME Inductive, NEW s \in Scripts, NEW k \in 0 .. Len(s),
         Initialize(s, k)
  PROVE  Inductive'
<1> USE DEF Initialize, DropLeftovers, SchedulePump
<1>1. Top = "idle" /\ StackShape' /\ Top' = "idle"
  BY LoopRuns, SameStack
<1>2. pump' \in 0 .. MaxSessions /\ pump' <= sessions'
  BY BoundsAssumption DEF Inductive, TypeOK, TimersStarted
<1>3. TypeOK'
  <2>1. script' \in Seq(Unit) /\ arrived' \in 0 .. Len(script')
    BY ScriptsAssumption
  <2>2. sessions' \in 0 .. MaxSessions
    BY BoundsAssumption DEF Inductive, TypeOK
  <2>3. delivered' \in Seq(1 .. Len(script')) /\ wire' \in Seq(Message)
    OBVIOUS
  <2>4. /\ bufHi' \in 0 .. arrived' /\ bufLo' \in 0 .. bufHi'
        /\ fieldsOf' \in 0 .. Len(script') /\ paramsOf' \in 0 .. Len(script')
    BY <2>1
  <2>5. /\ resp' \in Response /\ listening' \in BOOLEAN
        /\ stack' \in Seq(Frame) /\ crashed' \in BOOLEAN
    BY DEF Inductive, TypeOK
  <2>6. /\ attached' \in BOOLEAN /\ unsent' \in BOOLEAN
        /\ drainOn' \in BOOLEAN
        /\ headersShort' \in BOOLEAN /\ headersFresh' \in BOOLEAN
    OBVIOUS
  <2>7. nread' \in Nat /\ reqLen' \in Int /\ answered' \in Nat
    OBVIOUS
  <2>8. state' \in State
    BY DEF State
  <2>9. QED
    BY <1>2, <2>1, <2>2, <2>3, <2>4, <2>5, <2>6, <2>7, <2>8 DEF TypeOK
<1>4. CalledIn'
  BY <1>1 DEF CalledIn, Completing
<1>5. Positions'
  BY <1>1, <1>3 DEF Positions, NextStart, StartOf, Current, GivingUp, AppHolds,
                    Completing, Receiving, TypeOK
<1>6. Headers' /\ TimersStarted' /\ RequestViewIntact' /\ FramedAsSent'
  BY <1>2 DEF Headers, TimersStarted, RequestViewIntact, FramedAsSent, AppHolds
<1>7. QED
  BY <1>1, <1>3, <1>4, <1>5, <1>6 DEF Inductive

LEMMA ParseHeadersStep ==
  ASSUME Inductive, ParseHeaders
  PROVE  Inductive'
<1> DEFINE Unfinished == ParserStops = {} /\ nread' = arrived - bufLo /\ Return
           Refused == Become(Call("badRequest"))
           Parsed(p) == /\ \A q \in ParserStops : p <= q
                        /\ nread' = p - bufLo
                        /\ script[p].kind = "end"
                        /\ Become(Call("receivingContent"))
<1>1. /\ Top = "processInput" /\ stack # <<>> /\ state = "ReceivingHeaders"
      /\ bufHi' = arrived
      /\ UNCHANGED <<state, attached, inputVars, bufLo, reqLen, headersShort,
                     fieldsOf, paramsOf, outputVars, worldVars, historyVars>>
      /\ headersFresh' \in BOOLEAN
      /\ crashed' = crashed
  BY FunctionRuns DEF ParseHeaders, ReadAvailable
<1>2. /\ Current <= bufHi
      /\ \A p \in (bufLo + 1) .. Current : script[p].kind = "part"
      /\ bufLo = NextStart
  BY <1>1 DEF Inductive, Positions, GivingUp, Receiving
<1>3. Unfinished \/ Refused \/ \E p \in ParserStops : Parsed(p)
  BY DEF ParseHeaders
<1>4. nread' \in Nat
  BY DEF ParseHeaders, ParserStops, Inductive, TypeOK
<1>5. {bufLo, nread, bufHi, arrived} \subseteq Nat /\ arrived >= bufHi
  BY DEF Inductive, TypeOK
<1>6. \A p \in (bufLo + nread + 1) .. arrived :
        p \in ParserStops \/ script[p].kind = "part"
  BY DEF ParserStops
<1> USE DEF inputVars, outputVars, worldVars, historyVars
\* What holds of the step whatever the parser found.
<1>7. ASSUME stack' \in Seq(Frame), StackShape',
             Top' \in Suspended \cup {"idle", "badRequest", "receivingContent"},
             Top' \in Suspended \cup {"idle"} =>
               /\ Current' <= bufHi'
               /\ \A p \in (bufLo' + 1) .. Current' : script'[p].kind = "part",
             Top' = "receivingContent" => HeadParsed'
      PROVE  Inductive'
  <2>1. TypeOK'
    BY <1>1, <1>4, <1>7 DEF Inductive, TypeOK
  <2>2. CalledIn'
    BY <1>1, <1>7 DEF CalledIn, Completing, Receiving, Suspended
  <2>3. bufLo' = NextStart'
    BY <1>1, <1>2 DEF NextStart, StartOf, ContentLength, RequestAt
  <2>4. Positions'
    BY <1>1, <1>7, <2>3
       DEF Positions, GivingUp, AppHolds, Completing, Receiving, Suspended
  <2>5. Headers' /\ TimersStarted' /\ RequestViewIntact'
    BY <1>1 DEF Inductive, Headers, TimersStarted, RequestViewIntact, AppHolds
  <2>6. FramedAsSent'
    BY <1>1 DEF Inductive, FramedAsSent, StartOf, ContentLength, RequestAt
  <2>7. QED
    BY <1>7, <2>1, <2>2, <2>4, <2>5, <2>6 DEF Inductive
<1>8. CASE Unfinished
  <2>1. /\ stack' \in Seq(Frame) /\ StackShape'
        /\ Top' \in Suspended \cup {"idle"}
    BY <1>1, <1>8, Returned DEF Inductive, TypeOK
  <2>2. Current' = arrived
    BY <1>1, <1>5, <1>8 DEF Current
  <2>3. ASSUME NEW p \in (bufLo + 1) .. arrived
        PROVE  script[p].kind = "part"
    <3>1. CASE p \in (bufLo + 1) .. Current
      BY <1>2, <3>1
    <3>2. CASE p \in (bufLo + nread + 1) .. arrived
      BY <1>6, <1>8, <3>2
    <3>3. QED
      BY <1>5, <3>1, <3>2 DEF Current
  <2>4. QED
    BY <1>1, <1>5, <1>7, <2>1, <2>2, <2>3 DEF Suspended
<1>9. CASE Refused
  <2>1. stack' \in Seq(Frame) /\ StackShape' /\ Top' = "badRequest"
    BY <1>1, <1>9, Became, CallIsFrame DEF Inductive, TypeOK, Frames
  <2>2. QED
    BY <1>7, <2>1 DEF Suspended
<1>10. ASSUME NEW p \in ParserStops, Parsed(p)
       PROVE  Inductive'
  <2>1. stack' \in Seq(Frame) /\ StackShape' /\ Top' = "receivingContent"
    BY <1>1, <1>10, Became, CallIsFrame DEF Inductive, TypeOK, Frames
  <2>2. p \in (bufLo + nread + 1) .. arrived
    BY DEF ParserStops
  <2>3. Current' = p /\ bufLo < p /\ p <= arrived
    BY <1>1, <1>5, <1>10, <2>2 DEF Current
  <2>4. ASSUME NEW q \in (bufLo + 1) .. (p - 1)
        PROVE  script[q].kind = "part"
    <3>1. CASE q \in (bufLo + 1) .. Current
      BY <1>2, <3>1
    <3>2. CASE q \in (bufLo + nread + 1) .. arrived
      <4>1. q \notin ParserStops
        BY <1>10, <2>2, <3>2
      <4>2. QED
        BY <1>6, <3>2, <4>1
    <3>3. QED
      BY <1>5, <2>2, <3>1, <3>2 DEF Current
  <2>5. HeadParsed'
    BY <1>1, <1>10, <2>3, <2>4 DEF HeadParsed
  <2>6. QED
    BY <1>7, <2>1, <2>5 DEF Suspended
<1>11. QED
  BY <1>3, <1>8, <1>9, <1>10
LEMMA TransitionToReceivingContentStep ==
  ASSUME Inductive, TransitionToReceivingContent
  PROVE  Inductive'
<1> USE DEF inputVars, worldVars
<1>1. /\ Top = "receivingContent" /\ stack # <<>> /\ state = "ReceivingHeaders"
      /\ state' = "ReceivingContent"
      /\ reqLen' = ContentLength(Current)
      /\ headersShort' = (reqLen' \in 1 .. MaxContent)
      /\ headersFresh' = ~(reqLen' \in 1 .. MaxContent)
      /\ UNCHANGED <<attached, inputVars, bufLo, bufHi, nread, fieldsOf,
                     paramsOf, resp, drainOn, worldVars, delivered, answered,
                     crashed>>
  BY FunctionRuns
     DEF TransitionToReceivingContent, MakeRoom, Inductive, CalledIn
<1>2. HeadParsed /\ bufLo = NextStart
  BY <1>1 DEF Inductive, Positions, Receiving
<1>3. Current \in 1 .. Len(script) /\ reqLen' \in Int
  <2>1. Current \in 1 .. Len(script)
    BY <1>2 DEF HeadParsed, Current, Inductive, TypeOK
  <2>2. QED
    BY <1>1, <2>1, ContentLengthTyped DEF Inductive
<1>4. /\ stack' \in Seq(Frame) /\ StackShape'
      /\ \/ Top' \in {"badRequest", "tooLarge"}
         \/ Top' = "processInput" /\ reqLen' \in 1 .. MaxContent
         \/ Top' = "sendingHeaders" /\ reqLen' = 0
  <2>1. PICK at \in Frames :
          /\ Become(Call(at))
          /\ \/ at \in {"badRequest", "tooLarge"}
             \/ at = "processInput" /\ reqLen' \in 1 .. MaxContent
             \/ at = "sendingHeaders" /\ reqLen' = 0
    BY <1>3, LimitsAssumption DEF TransitionToReceivingContent, Frames
  <2>2. QED
    BY <1>1, <2>1, Became, CallIsFrame DEF Inductive, TypeOK
<1>5. wire' \in Seq(Message) /\ unsent' \in BOOLEAN
  <2>1. Plain("continue", Current) \in Message
    BY <1>3, PlainIsMessage
  <2>2. \/ wire' = Append(wire, Plain("continue", Current)) /\ unsent' = TRUE
        \/ wire' = wire /\ unsent' = unsent
    BY DEF TransitionToReceivingContent
  <2>3. wire' \in Seq(Message)
    <3>1. wire \in Seq(Message)
      BY DEF Inductive, TypeOK
    <3>2. Append(wire, Plain("continue", Current)) \in Seq(Message)
      BY <2>1, <3>1
    <3>3. QED
      BY <2>2, <3>1, <3>2
  <2>4. unsent' \in BOOLEAN
    BY <2>2 DEF Inductive, TypeOK
  <2>5. QED
    BY <2>3, <2>4
<1>6. TypeOK'
  BY <1>1, <1>3, <1>4, <1>5 DEF Inductive, TypeOK, State
<1>7. CalledIn'
  BY <1>1, <1>4 DEF CalledIn, Completing, Receiving
<1>8. Positions'
  <2>1. HeadParsed' /\ NextStart' = NextStart /\ Current' = Current
    BY <1>1, <1>2
       DEF HeadParsed, NextStart, StartOf, ContentLength, RequestAt, Current
  <2>2. ContentLength(Current)' = ContentLength(Current)
    BY <1>1, <2>1 DEF ContentLength, RequestAt
  <2>3. Top' = "sendingHeaders" => Current' + reqLen' <= bufHi'
    BY <1>1, <1>2, <1>4, <2>1 DEF HeadParsed, Current, Inductive, TypeOK
  <2>4. ~GivingUp' => reqLen' >= 0
    BY <1>3, <1>4, LimitsAssumption DEF GivingUp
  <2>5. QED
    BY <1>1, <1>2, <1>4, <2>1, <2>2, <2>3, <2>4
       DEF Positions, AppHolds, Completing
<1>9. Headers'
  BY <1>1, <1>4 DEF Headers, GivingUp
<1>10. TimersStarted' /\ RequestViewIntact' /\ FramedAsSent'
  BY <1>1 DEF Inductive, TimersStarted, RequestViewIntact, AppHolds,
              FramedAsSent, StartOf, ContentLength, RequestAt
<1>11. QED
  BY <1>4, <1>6, <1>7, <1>8, <1>9, <1>10 DEF Inductive

LEMMA PumpContentStep ==
  ASSUME Inductive, PumpContent
  PROVE  Inductive'
<1> USE DEF inputVars, outputVars, worldVars, historyVars
<1>1. /\ Top = "processInput" /\ stack # <<>> /\ state = "ReceivingContent"
      /\ bufHi' = arrived
      /\ headersFresh' \in BOOLEAN
      /\ UNCHANGED <<state, attached, inputVars, bufLo, nread, reqLen,
                     headersShort, fieldsOf, paramsOf, outputVars, worldVars,
                     historyVars, crashed>>
  BY FunctionRuns DEF PumpContent, ReadAvailable
<1>2. /\ HeadParsed
      /\ reqLen = ContentLength(Current)
      /\ reqLen >= 0
      /\ bufLo = NextStart
      /\ headersShort
  BY <1>1 DEF Inductive, Positions, Headers, GivingUp, Receiving
<1>3. /\ stack' \in Seq(Frame) /\ StackShape'
      /\ \/ Top' \in Suspended \cup {"idle"}
         \/ Top' = "sendingHeaders" /\ ContentArrived
  <2>1. Return \/ (Become(Call("sendingHeaders")) /\ ContentArrived)
    BY DEF PumpContent
  <2>2. CASE Return
    BY <1>1, <2>2, Returned DEF Inductive, TypeOK
  <2>3. CASE Become(Call("sendingHeaders")) /\ ContentArrived
    BY <1>1, <2>3, Became, CallIsFrame DEF Inductive, TypeOK, Frames
  <2>4. QED
    BY <2>1, <2>2, <2>3
<1>4. TypeOK'
  BY <1>1, <1>3 DEF Inductive, TypeOK
<1>5. CalledIn'
  BY <1>1, <1>3 DEF CalledIn, Completing, Suspended
<1>6. Positions'
  <2>1. HeadParsed' /\ NextStart' = NextStart /\ Current' = Current
    <3>1. {bufLo, nread, bufHi, arrived} \subseteq Nat /\ bufHi <= arrived
      BY DEF Inductive, TypeOK
    <3>2. Current' = Current
      BY <1>1 DEF Current
    <3>3. NextStart' = NextStart
      BY <1>1 DEF NextStart, StartOf, ContentLength, RequestAt
    <3>4. HeadParsed'
      BY <1>1, <1>2, <3>1 DEF HeadParsed, Current
    <3>5. QED
      BY <3>2, <3>3, <3>4
  <2>2. ContentLength(Current)' = ContentLength(Current)
    BY <1>1, <2>1 DEF ContentLength, RequestAt
  <2>3. Top' = "sendingHeaders" => Current' + reqLen' <= bufHi'
    BY <1>1, <1>3, <2>1
       DEF ContentArrived, Current, Inductive, TypeOK, Suspended
  <2>4. QED
    BY <1>1, <1>2, <1>3, <2>1, <2>2, <2>3
       DEF Positions, AppHolds, Completing, Suspended
<1>7. Headers' /\ TimersStarted' /\ RequestViewIntact'
  BY <1>1, <1>2 DEF Inductive, Headers, TimersStarted, RequestViewIntact,
                    AppHolds
<1>8. FramedAsSent'
  BY <1>1 DEF Inductive, FramedAsSent, StartOf, ContentLength, RequestAt
<1>9. QED
  BY <1>3, <1>4, <1>5, <1>6, <1>7, <1>8 DEF Inductive
\* Appending to a sequence, element by element.
LEMMA Appended ==
  ASSUME NEW S, NEW s \in Seq(S), NEW e \in S
  PROVE  /\ Append(s, e) \in Seq(S)
         /\ Len(Append(s, e)) = Len(s) + 1
         /\ Len(s) \in Nat
         /\ Append(s, e)[Len(s) + 1] = e
         /\ \A i \in 1 .. Len(s) : Append(s, e)[i] = s[i]
         /\ Append(s, e) # <<>>
  OBVIOUS

LEMMA TransitionToSendingHeadersStep ==
  ASSUME Inductive, TransitionToSendingHeaders
  PROVE  Inductive'
<1> USE DEF inputVars, worldVars
<1>1. /\ Top = "sendingHeaders" /\ stack # <<>> /\ state = "ReceivingContent"
      /\ state' = "SendingHeaders"
      /\ headersFresh' = (headersFresh \/ headersShort)
      /\ headersShort' = FALSE
      /\ fieldsOf' = Current
      /\ resp' = UnknownResponse
      /\ delivered' = Append(delivered, Current)
      /\ UNCHANGED <<attached, inputVars, bufLo, bufHi, nread, reqLen,
                     paramsOf, unsent, drainOn, worldVars, answered, wire,
                     crashed>>
  BY FunctionRuns DEF TransitionToSendingHeaders, SetupRequestHeaders,
                      Inductive, CalledIn
<1>2. /\ HeadParsed
      /\ reqLen = ContentLength(Current)
      /\ reqLen >= 0
      /\ bufLo = NextStart
      /\ Current + reqLen <= bufHi
      /\ headersShort \/ headersFresh
  BY <1>1 DEF Inductive, Positions, Headers, GivingUp, Receiving
<1>3. Current \in 1 .. Len(script) /\ Current' = Current /\ bufHi <= arrived
  BY <1>1, <1>2 DEF HeadParsed, Current, Inductive, TypeOK
<1>4. stack' \in Seq(Frame) /\ StackShape' /\ Top' = "requestReady"
  <2>1. [at |-> "requestReady", req |-> Current, size |-> 0] \in Frame
    BY <1>3 DEF Frame, Frames, AppFrames, Inductive, TypeOK
  <2>2. QED
    BY <1>1, <2>1, Became DEF TransitionToSendingHeaders, Inductive, TypeOK
<1>5. /\ delivered' \in Seq(1 .. Len(script))
      /\ Len(delivered') = Len(delivered) + 1
      /\ Len(delivered) \in Nat
      /\ delivered'[Len(delivered) + 1] = Current
      /\ \A i \in 1 .. Len(delivered) : delivered'[i] = delivered[i]
      /\ delivered' # <<>>
  <2>1. delivered \in Seq(1 .. Len(script))
    BY DEF Inductive, TypeOK
  <2>2. QED
    BY <1>1, <1>3, <2>1, Appended
<1>6. TypeOK'
  <2>1. resp' \in Response
    BY <1>1 DEF UnknownResponse, Response
  <2>2. headersFresh' \in BOOLEAN
    BY <1>1 DEF Inductive, TypeOK
  <2>3. delivered' \in Seq(1 .. Len(script')) /\ fieldsOf' \in 0 .. Len(script')
    BY <1>1, <1>3, <1>5 DEF Inductive, TypeOK
  <2>4. QED
    BY <1>1, <1>4, <2>1, <2>2, <2>3 DEF Inductive, TypeOK, State
<1>7. CalledIn'
  BY <1>4 DEF CalledIn, Completing
<1>8. CurrentDelivered'
  <2>1. ContentLength(Current)' = ContentLength(Current)
    BY <1>1, <1>3 DEF ContentLength, RequestAt
  <2>2. QED
    BY <1>1, <1>2, <1>3, <1>5, <2>1 DEF CurrentDelivered
<1>9. Positions'
  BY <1>1, <1>4, <1>8 DEF Positions, Receiving
<1>10. Headers' /\ TimersStarted'
  BY <1>1 DEF Inductive, Headers, TimersStarted
<1>11. RequestViewIntact'
  BY <1>1, <1>2, <1>3 DEF RequestViewIntact
<1>12. FramedAsSent'
  <2>1. \A i \in 1 .. Len(delivered) + 1 : StartOf(i)' = StartOf(i)
    BY <1>1, <1>5 DEF StartOf, ContentLength, RequestAt
  <2>2. StartOf(Len(delivered) + 1) = bufLo
    BY <1>2 DEF NextStart
  <2>3. SUFFICES
          ASSUME NEW i \in 1 .. Len(delivered) + 1
          PROVE  /\ script[delivered'[i]].kind = "end"
                 /\ StartOf(i) < delivered'[i]
                 /\ \A p \in (StartOf(i) + 1) .. (delivered'[i] - 1) :
                      script[p].kind = "part"
                 /\ delivered'[i] + ContentLength(delivered'[i]) <= arrived
    BY <1>1, <1>5, <2>1 DEF FramedAsSent, ContentLength, RequestAt
  <2>4. CASE i \in 1 .. Len(delivered)
    BY <1>5, <2>4 DEF Inductive, FramedAsSent
  <2>5. CASE i = Len(delivered) + 1
    <3>1. /\ delivered'[i] = Current
          /\ StartOf(i) = bufLo
          /\ {bufLo, bufHi, arrived, Current} \subseteq Nat
          /\ reqLen \in Int
      BY <1>3, <1>5, <2>2, <2>5 DEF Inductive, TypeOK
    <3>2. QED
      BY <1>2, <1>3, <3>1 DEF HeadParsed
  <2>6. QED
    BY <1>5, <2>4, <2>5
<1>13. QED
  BY <1>4, <1>6, <1>7, <1>9, <1>10, <1>11, <1>12 DEF Inductive

LEMMA CompletedTailStep ==
  ASSUME Inductive, CompletedTail
  PROVE  Inductive'
<1> USE DEF inputVars, worldVars, historyVars
<1>1. /\ Top = "completedTail" /\ stack # <<>>
      /\ state \in {"Completed", "Closed"}
      /\ state' \in {state, "Closed"}
      /\ bufLo' = NextInBuffer
      /\ fieldsOf' = 0 /\ paramsOf' = 0 /\ headersFresh' = FALSE
      /\ unsent' \in {unsent, FALSE}
      /\ attached' \in {attached, FALSE}
      /\ drainOn' \in {drainOn, FALSE}
      /\ UNCHANGED <<inputVars, bufHi, nread, reqLen, headersShort, resp,
                     worldVars, historyVars, crashed>>
  BY FunctionRuns DEF CompletedTail, ForgetRequest, TransitionToClosed,
                      Inductive, CalledIn, Completing
<1>2. CurrentDelivered
  BY <1>1 DEF Inductive, Positions, Completing
<1>3. /\ delivered[Len(delivered)] = Current
      /\ ContentLength(Current) = reqLen
      /\ Len(delivered) \in Nat \ {0}
  BY <1>2 DEF CurrentDelivered, Inductive, TypeOK
<1>4. NextInBuffer = Current + reqLen /\ NextInBuffer \in 0 .. bufHi
  <2>1. {bufHi, Current} \subseteq Nat /\ reqLen \in Int
    BY DEF Current, Inductive, TypeOK
  <2>2. QED
    BY <1>2, <2>1 DEF NextInBuffer, CurrentDelivered
<1>5. bufLo' = NextStart'
  <2>1. bufLo' = NextStart
    BY <1>1, <1>3, <1>4 DEF NextStart, StartOf
  <2>2. QED
    BY <1>1, <2>1 DEF NextStart, StartOf, ContentLength, RequestAt
<1>6. /\ stack' \in Seq(Frame) /\ StackShape'
      /\ Top' \in {"receivingHeaders", "flushing"}
  <2>1. Become(Call("receivingHeaders")) \/ Become(Call("flushing"))
    BY DEF CompletedTail
  <2>2. CASE Become(Call("receivingHeaders"))
    BY <1>1, <2>2, Became, CallIsFrame DEF Inductive, TypeOK, Frames
  <2>3. CASE Become(Call("flushing"))
    BY <1>1, <2>3, Became, CallIsFrame DEF Inductive, TypeOK, Frames
  <2>4. QED
    BY <2>1, <2>2, <2>3
<1>7. TypeOK'
  <2>1. bufLo' \in 0 .. bufHi' /\ state' \in State
    BY <1>1, <1>4 DEF State
  <2>2. unsent' \in BOOLEAN /\ attached' \in BOOLEAN /\ drainOn' \in BOOLEAN
    BY <1>1 DEF Inductive, TypeOK
  <2>3. fieldsOf' \in 0 .. Len(script') /\ paramsOf' \in 0 .. Len(script')
    BY <1>1 DEF Inductive, TypeOK
  <2>4. QED
    BY <1>1, <1>6, <2>1, <2>2, <2>3 DEF Inductive, TypeOK
<1>8. CalledIn'
  BY <1>1, <1>6 DEF CalledIn, Completing, AppHolds
<1>9. Positions'
  BY <1>1, <1>5, <1>6 DEF Positions, AppHolds, Completing
<1>10. Headers' /\ TimersStarted' /\ RequestViewIntact'
  BY <1>1 DEF Inductive, Headers, TimersStarted, RequestViewIntact, AppHolds
<1>11. FramedAsSent'
  BY <1>1 DEF Inductive, FramedAsSent, StartOf, ContentLength, RequestAt
<1>12. QED
  BY <1>6, <1>7, <1>8, <1>9, <1>10, <1>11 DEF Inductive

LEMMA TransitionToReceivingHeadersStep ==
  ASSUME Inductive, TransitionToReceivingHeaders
  PROVE  Inductive'
<1> USE DEF inputVars, outputVars, worldVars, historyVars
<1>1. /\ Top = "receivingHeaders" /\ stack # <<>>
      /\ Become(Call("processInput"))
      /\ state' = "ReceivingHeaders" /\ nread' = 0 /\ reqLen' = 0
      /\ UNCHANGED <<attached, inputVars, bufLo, bufHi, headersShort,
                     headersFresh, fieldsOf, paramsOf, outputVars, worldVars,
                     historyVars, crashed>>
  BY FunctionRuns DEF TransitionToReceivingHeaders
<1>2. stack' \in Seq(Frame) /\ StackShape' /\ Top' = "processInput"
  BY <1>1, Became, CallIsFrame DEF Inductive, TypeOK, Frames
<1>3. TypeOK'
  BY <1>1, <1>2 DEF Inductive, TypeOK, State
<1>4. CalledIn'
  BY <1>2 DEF CalledIn, Completing
<1>5. bufLo' = NextStart'
  BY <1>1
     DEF Inductive, Positions, NextStart, StartOf, ContentLength, RequestAt
<1>6. Positions'
  <2>1. /\ Current' <= bufHi'
        /\ \A p \in (bufLo' + 1) .. Current' : script'[p].kind = "part"
    BY <1>1, <1>3 DEF Current, TypeOK
  <2>2. QED
    BY <1>1, <1>2, <1>5, <2>1 DEF Positions, AppHolds, Completing
<1>7. Headers' /\ TimersStarted' /\ RequestViewIntact'
  BY <1>1 DEF Inductive, Headers, TimersStarted, RequestViewIntact, AppHolds
<1>8. FramedAsSent'
  BY <1>1 DEF Inductive, FramedAsSent, StartOf, ContentLength, RequestAt
<1>9. QED
  BY <1>2, <1>3, <1>4, <1>6, <1>7, <1>8 DEF Inductive
(***************************************************************************)
(* The theorems.                                                           *)
(***************************************************************************)

LEMMA InitInductive ==
  ASSUME Init
  PROVE  Inductive
<1> USE DEF Init
<1>1. TypeOK
  <2>1. /\ script \in Seq(Unit) /\ stack \in Seq(Frame)
        /\ delivered \in Seq(1 .. Len(script)) /\ wire \in Seq(Message)
    OBVIOUS
  <2>2. resp \in Response /\ state \in State
    BY DEF UnknownResponse, Response, State
  <2>3. /\ arrived \in 0 .. Len(script) /\ bufHi \in 0 .. arrived
        /\ bufLo \in 0 .. bufHi /\ fieldsOf \in 0 .. Len(script)
        /\ paramsOf \in 0 .. Len(script)
        /\ pump \in 0 .. MaxSessions /\ sessions \in 0 .. MaxSessions
    BY BoundsAssumption
  <2>4. /\ attached \in BOOLEAN /\ headersShort \in BOOLEAN
        /\ headersFresh \in BOOLEAN /\ unsent \in BOOLEAN
        /\ drainOn \in BOOLEAN /\ listening \in BOOLEAN /\ crashed \in BOOLEAN
    OBVIOUS
  <2>5. nread \in Nat /\ reqLen \in Int /\ answered \in Nat
    OBVIOUS
  <2>6. QED
    BY <2>1, <2>2, <2>3, <2>4, <2>5 DEF TypeOK
<1>2. StackShape /\ Top = "idle"
  BY DEF StackShape, Top
<1>3. CalledIn /\ Positions /\ Headers
  BY <1>2 DEF CalledIn, Positions, Headers, Receiving, AppHolds, Completing
<1>4. TimersStarted /\ RequestViewIntact /\ FramedAsSent
  BY DEF TimersStarted, RequestViewIntact, FramedAsSent, AppHolds
<1>5. QED
  BY <1>1, <1>2, <1>3, <1>4 DEF Inductive

LEMMA ApplicationStep ==
  ASSUME Inductive, Application
  PROVE  Inductive'
  BY WriteHeadersStep, WriteResponseStep, WriteContentStep, EndContentStep,
     CloseStep, FlushStep, RequestParamsStep, StopListeningStep
     DEF Application

LEMMA DeviceStep ==
  ASSUME Inductive, Device
  PROVE  Inductive'
  BY InitializeStep, ReadyReadStep, PeerClosesStep DEF Device

LEMMA InternalStep ==
  ASSUME Inductive, Internal
  PROVE  Inductive'
  BY ProcessInputIdleStep, ProcessInputCrashStep, ParseHeadersStep,
     TransitionToReceivingContentStep, PumpContentStep,
     TransitionToSendingHeadersStep, WriteRequestErrorResponseStep,
     TransitionToSendingContentStep, SendingContentTailStep,
     WriteResponseTailStep, TransitionToCompletedStep, CompletedTailStep,
     TransitionToReceivingHeadersStep, TransitionToFlushingStep
     DEF Internal

\* Every step of the connection, its peer, its devices and its application
\* preserves the inductive invariant.
THEOREM InductiveStep ==
  ASSUME Inductive, [Next]_vars
  PROVE  Inductive'
<1>1. CASE UNCHANGED vars
  BY <1>1, Stuttering
<1>2. CASE Next
  BY <1>2, ApplicationStep, DeviceStep, PumpTimerStep, DeviceWritesStep,
     HandlerReturnsStep, InternalStep DEF Next
<1>3. QED
  BY <1>1, <1>2

\* The inductive invariant holds throughout: however the application nests its
\* calls, every pending function finds the connection in a state it was written
\* for, and the buffer stands where the requests delivered so far end.
THEOREM InductiveInvariant == Spec => []Inductive
<1>1. Init => Inductive
  BY InitInductive
<1>2. Inductive /\ [Next]_vars => Inductive'
  BY InductiveStep
<1>3. QED
  BY <1>1, <1>2, PTL DEF Spec

\* Types and the order of the buffer's positions, for every peer and application.
THEOREM TypeCorrect == Spec => []TypeOK
<1>1. Inductive => TypeOK
  BY DEF Inductive
<1>2. QED
  BY <1>1, InductiveInvariant, PTL

\* While the application answers a request, what it sees of it is intact: the
\* buffer is neither read into nor cut, and its headers point into it.
THEOREM RequestViewStaysIntact == Spec => []RequestViewIntact
<1>1. Inductive => RequestViewIntact
  BY DEF Inductive
<1>2. QED
  BY <1>1, InductiveInvariant, PTL

\* The requests delivered are the ones the peer framed, in order and without
\* gap, whatever the fragmentation, the pipelining and the application's calls.
THEOREM DeliveredAsFramed == Spec => []FramedAsSent
<1>1. Inductive => FramedAsSent
  BY DEF Inductive
<1>2. QED
  BY <1>1, InductiveInvariant, PTL
=============================================================================
