------------------------ MODULE HttpClientResponseProofs ------------------------
(***************************************************************************)
(* Proofs that HttpClient takes each response as it was sent: nothing of   *)
(* it is lost or left, nothing of another is taken for it, and what is     *)
(* reported is the whole of it.                                            *)
(***************************************************************************)
EXTENDS HttpClientProofs

(***************************************************************************)
(* The answer to the request.                                              *)
(***************************************************************************)

\* No server sends more than one 100 Continue before a response.
OneInterim == \A a \in Answers : a.interim <= 1

\* The kinds of units sought.
LEMMA SoughtNow ==
  ASSUME OneInterim, ClientInductive, request # 0
  PROVE  /\ Sought \in Seq(Unit) /\ Len(Sought) \in Nat \ {0}
         /\ request \in Requests /\ asked[request] \in Request
         /\ \A i \in 1 .. Len(Sought) :
              /\ Sought[i] \in Unit /\ Sought[i].kind \in UnitKinds
              /\ Sought[i].of = request
              /\ Sought[i].kind \in Completing => i = Len(Sought)
              /\ Sought[i].kind = "end" /\ asked[request].head => i = Len(Sought)
              /\ Sought[i].kind = "continue" => i = 2
         /\ answer.framing # "eof" =>
              Sought[Len(Sought)].kind \in Ends(answer, asked[request].head)
<1>1. TypeOK
  BY DEF ClientInductive
<1>2. request \in Requests /\ asked[request] \in Request
  <2>1. /\ request \in 1 .. Len(asked) /\ asked \in Seq(Request)
        /\ Len(asked) \in Nat /\ Len(asked) <= MaxRequests
    BY <1>1 DEF TypeOK
  <2>2. QED
    BY <2>1, BoundsAssumption DEF Requests
<1> DEFINE head == asked[request].head
           k == Kinds(answer, head)
<1>3. answer \in Answer /\ answer.interim <= 1 /\ head \in BOOLEAN
  BY <1>1, <1>2, AnswersAssumption DEF TypeOK, OneInterim, Request
<1>4. Sought = Units(request, answer, head)
  BY DEF Sought
<1> HIDE DEF head
<1>5. /\ Len(k) \in Nat \ {0}
      /\ \A i \in 1 .. Len(k) :
           /\ k[i] \in Completing => i = Len(k)
           /\ k[i] = "end" /\ head => i = Len(k)
           /\ k[i] = "continue" => i = 2
      /\ answer.framing # "eof" => k[Len(k)] \in Ends(answer, head)
  BY <1>3, Grammar
<1>6. /\ Sought \in Seq(Unit) /\ Len(Sought) = Len(k)
      /\ \A i \in 1 .. Len(k) : Sought[i].of = request /\ Sought[i].kind = k[i]
  BY <1>2, <1>3, <1>4, UnitsOf
<1> HIDE DEF k
<1>7. \A i \in 1 .. Len(Sought) : Sought[i] \in Unit
  BY <1>6
<1>8. \A i \in 1 .. Len(Sought) : Sought[i].kind \in UnitKinds
  BY <1>7 DEF Unit
<1>9. Len(Sought) \in 1 .. Len(Sought) /\ Len(Sought) \in Nat \ {0}
  BY <1>5, <1>6
<1>10. answer.framing # "eof" => Sought[Len(Sought)].kind \in Ends(answer, head)
  BY <1>5, <1>6, <1>9
<1>11. \A i \in 1 .. Len(Sought) :
              /\ Sought[i].kind \in Completing => i = Len(Sought)
              /\ Sought[i].kind = "end" /\ head => i = Len(Sought)
              /\ Sought[i].kind = "continue" => i = 2
  BY <1>5, <1>6
<1>12. QED
  BY <1>2, <1>6, <1>7, <1>8, <1>9, <1>10, <1>11 DEF head

\* v is w without its first n elements.
Shifted(v, w, n) == \A i \in 1 .. Len(w) - n : v[i] = w[n + i]

\* The rest of a sequence in front of another.
LEMMA RestJoined ==
  ASSUME NEW S, NEW s \in Seq(S), NEW t \in Seq(S), NEW n \in 0 .. Len(s)
  PROVE  /\ s \o t \in Seq(S) /\ Len(s \o t) = Len(s) + Len(t)
         /\ Len(s) \in Nat /\ Len(t) \in Nat
         /\ SubSeq(s, n + 1, Len(s)) \o t \in Seq(S)
         /\ Len(SubSeq(s, n + 1, Len(s)) \o t) = Len(s \o t) - n
         /\ \A i \in 1 .. Len(s) : i \in 1 .. Len(s \o t) /\ (s \o t)[i] = s[i]
         /\ Shifted(SubSeq(s, n + 1, Len(s)) \o t, s \o t, n)
<1> DEFINE a == SubSeq(s, n + 1, Len(s))
           v == a \o t
           w == s \o t
<1>1. /\ a \in Seq(S) /\ Len(a) = Len(s) - n /\ Len(s) \in Nat
      /\ \A i \in 1 .. Len(s) - n : a[i] = s[n + i]
  BY Split
<1> HIDE DEF a
<1>2. /\ w \in Seq(S) /\ Len(w) = Len(s) + Len(t) /\ Len(t) \in Nat
      /\ \A i \in 1 .. Len(s) : w[i] = s[i]
      /\ \A i \in 1 .. Len(t) : w[Len(s) + i] = t[i]
  BY Joined
<1>3. /\ v \in Seq(S) /\ Len(v) = Len(a) + Len(t)
      /\ \A i \in 1 .. Len(v) :
           \/ i \in 1 .. Len(a) /\ v[i] = a[i]
           \/ i - Len(a) \in 1 .. Len(t) /\ v[i] = t[i - Len(a)]
  <2>1. v = a \o t /\ a \in Seq(S)
    BY <1>1
  <2> HIDE DEF v, w
  <2>2. QED
    BY <2>1, Joined
<1> HIDE DEF v, w
<1>4. Len(v) = Len(w) - n /\ Len(w) \in Nat
  BY <1>1, <1>2, <1>3
<1>5. ASSUME NEW i \in 1 .. Len(v)
      PROVE  v[i] = w[n + i]
  <2>1. CASE i \in 1 .. Len(a) /\ v[i] = a[i]
    <3>1. i \in 1 .. Len(s) - n /\ n + i \in 1 .. Len(s)
      BY <1>1, <2>1
    <3>2. QED
      BY <1>1, <1>2, <2>1, <3>1
  <2>2. CASE i - Len(a) \in 1 .. Len(t) /\ v[i] = t[i - Len(a)]
    <3>1. w[Len(s) + (i - Len(a))] = t[i - Len(a)]
      BY <1>2, <2>2
    <3>2. Len(s) + (i - Len(a)) = n + i
      BY <1>1
    <3>3. QED
      BY <2>2, <3>1, <3>2
  <2>3. QED
    BY <1>3, <2>1, <2>2
<1>6. \A i \in 1 .. Len(s) : i \in 1 .. Len(w) /\ w[i] = s[i]
  BY <1>1, <1>2
<1>7. QED
  BY <1>1, <1>2, <1>3, <1>4, <1>5, <1>6 DEF v, w, a, Shifted

\* The parts of a sequence, where they were.
LEMMA Parted ==
  ASSUME NEW S, NEW s \in Seq(S), NEW t \in Seq(S), NEW n \in 0 .. Len(s)
  PROVE  SubSeq(s, 1, n) \o (SubSeq(s, n + 1, Len(s)) \o t) = s \o t
<1>1. SubSeq(s, 1, n) \o SubSeq(s, n + 1, Len(s)) = s
  <2> DEFINE a == SubSeq(s, 1, n)
             b == SubSeq(s, n + 1, Len(s))
             ab == a \o b
  <2>1. /\ Len(s) \in Nat
        /\ a \in Seq(S) /\ Len(a) = n
        /\ \A i \in 1 .. n : a[i] = s[i]
        /\ b \in Seq(S) /\ Len(b) = Len(s) - n
        /\ \A i \in 1 .. Len(s) - n : b[i] = s[n + i]
    BY Split
  <2> HIDE DEF a, b
  <2>2. /\ ab \in Seq(S) /\ Len(ab) = Len(a) + Len(b)
        /\ \A i \in 1 .. Len(ab) :
             \/ i \in 1 .. Len(a) /\ ab[i] = a[i]
             \/ i - Len(a) \in 1 .. Len(b) /\ ab[i] = b[i - Len(a)]
    BY <2>1, Joined
  <2> HIDE DEF ab
  <2>3. Len(ab) = Len(s)
    BY <2>1, <2>2
  <2>4. ASSUME NEW i \in 1 .. Len(ab)
        PROVE  ab[i] = s[i]
    <3>1. CASE i \in 1 .. Len(a) /\ ab[i] = a[i]
      BY <2>1, <3>1
    <3>2. CASE i - Len(a) \in 1 .. Len(b) /\ ab[i] = b[i - Len(a)]
      <4>1. b[i - n] = s[n + (i - n)] /\ n + (i - n) = i
        BY <2>1, <3>2
      <4>2. QED
        BY <2>1, <3>2, <4>1
    <3>3. QED
      BY <2>2, <3>1, <3>2
  <2>5. ab = s
    BY <2>2, <2>3, <2>4, SeqEqual
  <2>6. QED
    BY <2>5 DEF ab, a, b
<1> DEFINE a == SubSeq(s, 1, n)
           b == SubSeq(s, n + 1, Len(s))
<1>2. a \in Seq(S) /\ b \in Seq(S)
  BY Split
<1>3. a \o b = s
  BY <1>1
<1> HIDE DEF a, b
<1>4. (a \o b) \o t = a \o (b \o t)
  BY <1>2, ConcatAssociative
<1>5. a \o (b \o t) = s \o t
  BY <1>3, <1>4
<1>6. QED
  BY <1>5 DEF a, b

(***************************************************************************)
(* The parts of the invariant.                                             *)
(***************************************************************************)

\* The units that remain are those of the answer that were not parsed.
Remains ==
  /\ parsed.units + Len(Remaining) = Len(Sought)
  /\ \A i \in 1 .. Len(Remaining) : Remaining[i] = Sought[parsed.units + i]

\* The parser and what runs are where the units parsed left them.
InPlace ==
  /\ IF parsed.units = 0 THEN parser.at = "start"
     ELSE parser.at \in After(LastParsed)
  /\ Top = "headersCompleted" =>
       parsed.units > 0 /\ LastParsed \in {"end", "endEmpty"}
  /\ parsed.units > 0 /\ LastParsed = "end" /\ asked[request].head =>
       Top = "headersCompleted"
  /\ parser.errno = "paused" => Top = "reading" /\ parsed.units > 1
  /\ (\E i \in 1 .. Len(stack) : stack[i] = "rereading") =>
       parsed.units > 1 /\ parser.at # "continued"

NotRejecting == \A i \in 1 .. Len(stack) : stack[i] # "rejecting"

Empty ==
  stream = <<>> /\ inbox = <<>> /\ buffer = <<>> /\ error = "NoError"

LEMMA PartsNow ==
  ASSUME ConservedInductive
  PROVE  /\ ClientInductive
         /\ pending /\ device = "connected" => Remains /\ InPlace
         /\ ~pending /\ device = "connected" => Empty
         /\ device = "connected" => NotRejecting
  BY DEF ConservedInductive, Conserved, Kept, Remains, InPlace, Empty,
         NotRejecting

LEMMA PartsThen ==
  ASSUME ClientInductive',
         pending' /\ device' = "connected" => Remains' /\ InPlace',
         ~pending' /\ device' = "connected" => Empty',
         device' = "connected" => NotRejecting'
  PROVE  ConservedInductive'
  BY DEF ConservedInductive, Conserved, Kept, Remains, InPlace, Empty,
         NotRejecting

\* Where the parser runs.
LEMMA WorkParts ==
  ASSUME ConservedInductive, ParserRuns
  PROVE  /\ ClientInductive /\ pending /\ device = "connected" /\ request # 0
         /\ Remains /\ InPlace /\ NotRejecting /\ Top \in Parsing
         /\ Len(stack) = 1 /\ stack[1] = Top /\ stack # <<>>
         /\ stack \in Seq(Frames)
         /\ parser.errno = "ok" /\ parsed.units \in Nat
         /\ parsed.units > 0 =>
              ~(LastParsed = "end" /\ asked[request].head)
         /\ Top # "headersCompleted"
<1>1. ClientInductive /\ pending /\ device = "connected" /\ Top \in Parsing
      /\ request # 0
  BY PartsNow, RunsNow
<1>2. Remains /\ InPlace /\ NotRejecting
  BY <1>1, PartsNow
<1>3. /\ Len(stack) = 1 /\ stack[1] = Top /\ stack # <<>> /\ stack \in Seq(Frames)
  BY <1>1, WorkNow
<1>4. Top # "headersCompleted"
  BY <1>1 DEF Parsing
<1>5. parser.errno = "ok"
  BY DEF ParserRuns
<1>6. parsed.units \in Nat
  BY <1>1 DEF ClientInductive, TypeOK
<1>7. QED
  BY <1>1, <1>2, <1>3, <1>4, <1>5, <1>6 DEF InPlace

\* Taking n units of the buffer.
LEMMA TakeRemains ==
  ASSUME OneInterim, ClientInductive, Remains, request # 0,
         NEW n \in 1 .. Len(buffer),
         buffer' = SubSeq(buffer, n + 1, Len(buffer)),
         parsed'.units = parsed.units + n,
         UNCHANGED <<asked, request, answer, inbox, stream>>
  PROVE  /\ Remains'
         /\ Sought' = Sought
         /\ parsed.units + n \in 1 .. Len(Sought)
         /\ LastParsed' = buffer[n].kind
         /\ Sought[parsed.units + n] = buffer[n]
<1>1. buffer \in Seq(Unit) /\ inbox \in Seq(Unit) /\ stream \in Seq(Unit)
      /\ parsed.units \in Nat
  BY DEF ClientInductive, TypeOK
<1> DEFINE t == inbox \o stream
           w == buffer \o t
           v == SubSeq(buffer, n + 1, Len(buffer)) \o t
<1>2. t \in Seq(Unit) /\ n \in 0 .. Len(buffer)
  BY <1>1
<1>3. Remaining = w /\ Remaining' = v
  BY DEF Remaining
<1>4. Sought' = Sought
  BY DEF Sought
<1> HIDE DEF t
<1>5. /\ w \in Seq(Unit) /\ Len(w) = Len(buffer) + Len(t)
      /\ Len(buffer) \in Nat /\ Len(t) \in Nat
      /\ v \in Seq(Unit) /\ Len(v) = Len(w) - n
      /\ \A i \in 1 .. Len(buffer) : i \in 1 .. Len(w) /\ w[i] = buffer[i]
      /\ \A i \in 1 .. Len(w) - n : v[i] = w[n + i]
  <2>1. buffer \in Seq(Unit) /\ t \in Seq(Unit) /\ n \in 0 .. Len(buffer)
    BY <1>1, <1>2
  <2>2. w \in Seq(Unit) /\ v \in Seq(Unit)
    BY <2>1, RestJoined
  <2>3. Len(w) = Len(buffer) + Len(t) /\ Len(buffer) \in Nat /\ Len(t) \in Nat
    BY <2>1, RestJoined
  <2>4. Len(v) = Len(w) - n
    <3> DEFINE b == SubSeq(buffer, n + 1, Len(buffer))
    <3>1. b \in Seq(Unit) /\ Len(b) = Len(buffer) - n
      BY <2>1, Split
    <3>2. v = b \o t
      OBVIOUS
    <3> HIDE DEF b, v, w
    <3>3. Len(v) = Len(b) + Len(t)
      <4>1. b \in Seq(Unit) /\ t \in Seq(Unit)
        BY <2>1, <3>1
      <4>2. QED
        BY <3>2, <4>1, Joined
    <3>4. QED
      BY <2>1, <2>3, <3>1, <3>3
  <2>5. \A i \in 1 .. Len(buffer) : i \in 1 .. Len(w) /\ w[i] = buffer[i]
    BY <2>1, RestJoined
  <2>6. \A i \in 1 .. Len(w) - n : v[i] = w[n + i]
    <3>1. Shifted(v, w, n)
      BY <2>1, RestJoined
    <3>2. QED
      BY <3>1 DEF Shifted
  <2>7. QED
    BY <2>2, <2>3, <2>4, <2>5, <2>6
<1> HIDE DEF v, w
<1>6. Len(Sought) \in Nat /\ Sought \in Seq(Unit)
  BY SoughtNow
<1>7. /\ parsed.units + Len(w) = Len(Sought)
      /\ \A i \in 1 .. Len(w) : w[i] = Sought[parsed.units + i]
  BY <1>3 DEF Remains
<1>8. parsed.units + n + Len(v) = Len(Sought)
  <2>1. /\ Len(v) = Len(w) - n /\ parsed.units + Len(w) = Len(Sought)
        /\ Len(w) = Len(buffer) + Len(t)
    BY <1>5, <1>7
  <2>2. parsed.units \in Nat /\ n \in Nat /\ Len(buffer) \in Nat /\ Len(t) \in Nat
    BY <1>1, <1>5
  <2>3. QED
    BY <2>1, <2>2
<1>9. ASSUME NEW i \in 1 .. Len(v)
      PROVE  v[i] = Sought[parsed.units + n + i]
  <2>1. n + i \in 1 .. Len(w) /\ i \in 1 .. Len(w) - n
    BY <1>5
  <2>2. v[i] = w[n + i] /\ w[n + i] = Sought[parsed.units + (n + i)]
    BY <1>5, <1>7, <2>1
  <2>3. parsed.units + (n + i) = parsed.units + n + i
    BY <1>1, <1>5
  <2>4. QED
    BY <2>2, <2>3
<1>10. Remains'
  BY <1>3, <1>4, <1>8, <1>9 DEF Remains
<1>11. Sought[parsed.units + n] = buffer[n] /\ parsed.units + n \in 1 .. Len(Sought)
  <2>1. n \in 1 .. Len(w) /\ w[n] = buffer[n]
    BY <1>5
  <2>2. w[n] = Sought[parsed.units + n]
    BY <1>7, <2>1
  <2>3. /\ parsed.units \in Nat /\ Len(w) \in Nat
        /\ parsed.units + Len(w) = Len(Sought)
    BY <1>1, <1>5, <1>7
  <2>4. parsed.units + n \in 1 .. Len(Sought)
    BY <2>1, <2>3
  <2>5. QED
    BY <2>1, <2>2, <2>4
<1>12. LastParsed' = buffer[n].kind
  BY <1>4, <1>11 DEF LastParsed
<1>13. QED
  BY <1>4, <1>10, <1>11, <1>12

\* Nothing is taken, and nothing comes.
LEMMA SameRemains ==
  ASSUME Remains, UNCHANGED <<asked, request, answer, buffer, inbox, stream>>,
         parsed'.units = parsed.units
  PROVE  Remains' /\ Sought' = Sought /\ LastParsed' = LastParsed
  BY DEF Remains, Sought, Remaining, LastParsed

\* Where the last unit is parsed, nothing remains.
LEMMA NothingRemains ==
  ASSUME ClientInductive, Remains, parsed.units = Len(Sought)
  PROVE  buffer = <<>> /\ inbox = <<>> /\ stream = <<>>
<1>1. buffer \in Seq(Unit) /\ inbox \in Seq(Unit) /\ stream \in Seq(Unit)
      /\ parsed.units \in Nat
  BY DEF ClientInductive, TypeOK
<1> DEFINE t == inbox \o stream
<1>2. /\ t \in Seq(Unit) /\ Len(t) = Len(inbox) + Len(stream)
      /\ Len(inbox) \in Nat /\ Len(stream) \in Nat
  BY <1>1, Joined
<1>3. Remaining = buffer \o t
  BY DEF Remaining
<1> HIDE DEF t
<1>4. Len(Remaining) = Len(buffer) + Len(t) /\ Len(buffer) \in Nat
  BY <1>1, <1>2, <1>3, Joined
<1>5. parsed.units + Len(Remaining) = parsed.units
  BY DEF Remains
<1>6. Len(buffer) = 0 /\ Len(inbox) = 0 /\ Len(stream) = 0
  BY <1>1, <1>2, <1>4, <1>5
<1>7. QED
  BY <1>1, <1>6, NoElements

(***************************************************************************)
(* The parser at work.                                                     *)
(***************************************************************************)

\* What runs after a signal was emitted.
LEMMA SignalThen ==
  ASSUME ConservedInductive, ParserRuns,
         NEW x \in {"headersCompleted", "contentReadyRead"},
         stack' = <<x>> \o stack
  PROVE  /\ Top' = x
         /\ (\E i \in 1 .. Len(stack') : stack'[i] = "rereading") =>
              (\E i \in 1 .. Len(stack) : stack[i] = "rereading")
         /\ NotRejecting'
<1>1. /\ Len(stack) = 1 /\ stack[1] \in Parsing /\ stack \in Seq(Frames)
      /\ stack # <<>> /\ Shape(stack, pending) /\ Head(stack) \in Parsing
  BY WorkParts, WorkNow, InductiveNow
<1>2. /\ stack' \in Seq(Frames) /\ Len(stack') = 2 /\ stack'[1] = x
      /\ stack'[2] = stack[1] /\ stack' # <<>>
  BY <1>1, SignalAbove
<1>3. Head(stack') = stack'[1]
  BY <1>2, NoElements
<1>4. Top' = x
  BY <1>2, <1>3 DEF Top
<1>5. \A i \in 1 .. Len(stack') : i = 1 \/ i = 2
  BY <1>2
<1>6. x # "rereading" /\ x # "rejecting" /\ "rejecting" \notin Parsing
  BY DEF Parsing
<1>7. 1 \in 1 .. Len(stack)
  BY <1>1
<1>8. NotRejecting'
  BY <1>1, <1>2, <1>5, <1>6 DEF NotRejecting
<1>9. QED
  BY <1>2, <1>4, <1>5, <1>6, <1>7, <1>8

LEMMA SameStack ==
  ASSUME ConservedInductive, ParserRuns, stack' = stack
  PROVE  /\ Top' = Top /\ Top' # "headersCompleted"
         /\ (\E i \in 1 .. Len(stack') : stack'[i] = "rereading") =>
              (\E i \in 1 .. Len(stack) : stack[i] = "rereading")
         /\ NotRejecting'
  BY WorkParts DEF Top, NotRejecting

\* The parser takes n units, which leave it where such units do.
LEMMA Taking ==
  ASSUME OneInterim, ConservedInductive, ParserRuns, ClientInductive',
         NEW n \in 1 .. Len(buffer),
         buffer' = SubSeq(buffer, n + 1, Len(buffer)),
         parsed'.units = parsed.units + n,
         UNCHANGED <<requestVars, deviceVars, answer>>,
         parser'.at \in After(buffer[n].kind), parser'.errno = "ok",
         Top' = "headersCompleted" => buffer[n].kind \in {"end", "endEmpty"},
         buffer[n].kind = "end" => Top' = "headersCompleted",
         (\E i \in 1 .. Len(stack') : stack'[i] = "rereading") =>
           (\E i \in 1 .. Len(stack) : stack[i] = "rereading"),
         NotRejecting'
  PROVE  ConservedInductive'
<1>1. /\ ClientInductive /\ pending /\ device = "connected" /\ request # 0
      /\ Remains /\ InPlace /\ parsed.units \in Nat
  BY WorkParts
<1>2. UNCHANGED <<asked, request, answer, inbox, stream, pending, device>>
  BY DEF requestVars, deviceVars
<1>3. /\ Remains' /\ Sought' = Sought /\ parsed.units + n \in 1 .. Len(Sought)
      /\ LastParsed' = buffer[n].kind
      /\ Sought[parsed.units + n] = buffer[n]
  BY <1>1, <1>2, TakeRemains
<1>4. n \in Nat \ {0}
  OBVIOUS
<1>5. parsed'.units > 0 /\ (parsed.units > 1 => parsed.units + n > 2)
  BY <1>1, <1>4
<1>6. parser'.at = "continued" => parsed.units + n = 2
  <2>1. parser'.at = "continued" => buffer[n].kind = "continue"
    BY DEF After
  <2>2. Sought[parsed.units + n].kind = "continue" => parsed.units + n = 2
    BY <1>1, <1>3, SoughtNow
  <2>3. QED
    BY <1>3, <2>1, <2>2
<1>7. InPlace'
  <2>1. parsed'.units # 0 /\ parser'.at \in After(LastParsed')
    BY <1>3, <1>5
  <2>2. (\E i \in 1 .. Len(stack') : stack'[i] = "rereading") =>
          parsed'.units > 1 /\ parser'.at # "continued"
    <3>1. (\E i \in 1 .. Len(stack) : stack[i] = "rereading") => parsed.units > 1
      BY <1>1 DEF InPlace
    <3>2. parsed.units > 1 => parsed'.units > 1
      BY <1>1, <1>4
    <3>3. parsed.units > 1 => parsed.units + n # 2
      BY <1>1, <1>4
    <3>4. QED
      BY <1>6, <3>1, <3>2, <3>3
  <2>3. Top' = "headersCompleted" => LastParsed' \in {"end", "endEmpty"}
    BY <1>3
  <2>4. LastParsed' = "end" => Top' = "headersCompleted"
    BY <1>3
  <2>5. QED
    BY <1>5, <2>1, <2>2, <2>3, <2>4 DEF InPlace
<1>8. QED
  BY <1>1, <1>2, <1>3, <1>7, PartsThen

\* Take(1) of a unit of one of these kinds.
LEMMA TakenOne ==
  ASSUME ConservedInductive, NEW kinds, ParserMeets(kinds), Take(1)
  PROVE  /\ ParserRuns /\ ClientInductive
         /\ 1 \in 1 .. Len(buffer)
         /\ buffer' = SubSeq(buffer, 1 + 1, Len(buffer))
         /\ parsed'.units = parsed.units + 1
         /\ Head(buffer) = buffer[1] /\ buffer[1] \in Unit
         /\ buffer[1].kind \in kinds /\ buffer[1].kind \in Expected
         /\ parser.errno = "ok"
<1>1. ClientInductive
  BY PartsNow
<1>2. /\ ParserRuns /\ parser.errno = "ok"
      /\ Len(buffer) \in Nat \ {0} /\ Head(buffer) = buffer[1]
      /\ buffer[1] \in Unit
      /\ buffer[1].kind \in kinds /\ buffer[1].kind \in Expected
  BY <1>1, Meets
<1>3. buffer' = SubSeq(buffer, 1 + 1, Len(buffer))
  BY DEF Take
<1>4. parsed'.units = parsed.units + 1
  BY <1>1, Taken
<1>5. QED
  BY <1>1, <1>2, <1>3, <1>4

LEMMA MessageBeginConserves ==
  ASSUME OneInterim, ConservedInductive, MessageBegin
  PROVE  ConservedInductive'
<1>1. /\ ParserMeets({"begin"}) /\ Take(1) /\ ParserAt("head")
      /\ UNCHANGED <<requestVars, deviceVars, answer>> /\ stack' = stack
  BY DEF MessageBegin
<1>2. ClientInductive'
  BY PartsNow, MessageBeginKeeps
<1>3. /\ ParserRuns /\ 1 \in 1 .. Len(buffer)
      /\ buffer' = SubSeq(buffer, 1 + 1, Len(buffer))
      /\ parsed'.units = parsed.units + 1
      /\ buffer[1].kind = "begin" /\ parser.errno = "ok"
  BY <1>1, TakenOne
<1>4. parser'.at = "head" /\ parser'.errno = "ok"
  BY <1>1, <1>3, Moved, PartsNow
<1>5. parser'.at \in After(buffer[1].kind)
  BY <1>3, <1>4 DEF After
<1>6. /\ Top' # "headersCompleted" /\ NotRejecting'
      /\ (\E i \in 1 .. Len(stack') : stack'[i] = "rereading") =>
           (\E i \in 1 .. Len(stack) : stack[i] = "rereading")
  BY <1>1, <1>3, SameStack
<1>7. QED
  BY <1>1, <1>2, <1>3, <1>4, <1>5, <1>6, Taking

LEMMA OnHeaderConserves ==
  ASSUME OneInterim, ConservedInductive, OnHeader
  PROVE  ConservedInductive'
<1>1. /\ ParserMeets({"header"}) /\ Take(1) /\ parser' = parser
      /\ UNCHANGED <<requestVars, deviceVars, answer>> /\ stack' = stack
  BY DEF OnHeader
<1>2. ClientInductive'
  BY PartsNow, OnHeaderKeeps
<1>3. /\ ParserRuns /\ 1 \in 1 .. Len(buffer)
      /\ buffer' = SubSeq(buffer, 1 + 1, Len(buffer))
      /\ parsed'.units = parsed.units + 1
      /\ buffer[1].kind = "header" /\ buffer[1].kind \in Expected
      /\ parser.errno = "ok"
  BY <1>1, TakenOne
<1>4. parser'.at = "head" /\ parser'.errno = "ok"
  BY <1>1, <1>3 DEF Expected
<1>5. parser'.at \in After(buffer[1].kind)
  BY <1>3, <1>4 DEF After
<1>6. /\ Top' # "headersCompleted" /\ NotRejecting'
      /\ (\E i \in 1 .. Len(stack') : stack'[i] = "rereading") =>
           (\E i \in 1 .. Len(stack) : stack[i] = "rereading")
  BY <1>1, <1>3, SameStack
<1>7. QED
  BY <1>1, <1>2, <1>3, <1>4, <1>5, <1>6, Taking

LEMMA OnContinueConserves ==
  ASSUME OneInterim, ConservedInductive, OnContinue
  PROVE  ConservedInductive'
<1>1. /\ ParserMeets({"continue"}) /\ Take(1) /\ ParserAt("continued")
      /\ UNCHANGED <<requestVars, deviceVars, answer>> /\ stack' = stack
  BY DEF OnContinue
<1>2. ClientInductive'
  BY PartsNow, OnContinueKeeps
<1>3. /\ ParserRuns /\ 1 \in 1 .. Len(buffer)
      /\ buffer' = SubSeq(buffer, 1 + 1, Len(buffer))
      /\ parsed'.units = parsed.units + 1
      /\ buffer[1].kind = "continue" /\ parser.errno = "ok"
  BY <1>1, TakenOne
<1>4. parser'.at = "continued" /\ parser'.errno = "ok"
  BY <1>1, <1>3, Moved, PartsNow
<1>5. parser'.at \in After(buffer[1].kind)
  BY <1>3, <1>4 DEF After
<1>6. /\ Top' # "headersCompleted" /\ NotRejecting'
      /\ (\E i \in 1 .. Len(stack') : stack'[i] = "rereading") =>
           (\E i \in 1 .. Len(stack) : stack[i] = "rereading")
  BY <1>1, <1>3, SameStack
<1>7. QED
  BY <1>1, <1>2, <1>3, <1>4, <1>5, <1>6, Taking

LEMMA OnFramingConserves ==
  ASSUME OneInterim, ConservedInductive, OnFraming
  PROVE  ConservedInductive'
<1> DEFINE at == IF Head(buffer).kind = "last" THEN "complete" ELSE "content"
<1>1. /\ ParserMeets({"frame", "last"}) /\ Take(1) /\ ParserAt(at)
      /\ UNCHANGED <<requestVars, deviceVars, answer>> /\ stack' = stack
  BY DEF OnFraming
<1>2. ClientInductive'
  BY PartsNow, OnFramingKeeps
<1>3. /\ ParserRuns /\ 1 \in 1 .. Len(buffer)
      /\ buffer' = SubSeq(buffer, 1 + 1, Len(buffer))
      /\ parsed'.units = parsed.units + 1
      /\ buffer[1].kind \in {"frame", "last"} /\ Head(buffer) = buffer[1]
      /\ parser.errno = "ok"
  BY <1>1, TakenOne
<1>4. parser'.at = at /\ parser'.errno = "ok"
  <2>1. at \in {"start", "head", "content", "complete", "continued"}
    OBVIOUS
  <2> HIDE DEF at
  <2>2. QED
    BY <1>1, <1>3, <2>1, Moved, PartsNow
<1>5. parser'.at \in After(buffer[1].kind) /\ buffer[1].kind # "end"
  BY <1>3, <1>4 DEF After
<1>6. /\ Top' # "headersCompleted" /\ NotRejecting'
      /\ (\E i \in 1 .. Len(stack') : stack'[i] = "rereading") =>
           (\E i \in 1 .. Len(stack) : stack[i] = "rereading")
  BY <1>1, <1>3, SameStack
<1>7. QED
  BY <1>1, <1>2, <1>3, <1>4, <1>5, <1>6, Taking

LEMMA HeadersCompleteConserves ==
  ASSUME OneInterim, ConservedInductive, HeadersComplete
  PROVE  ConservedInductive'
<1> DEFINE at == IF Head(buffer).kind = "end" THEN "content" ELSE "complete"
<1>1. /\ ParserMeets({"end", "endEmpty"}) /\ Take(1) /\ ParserAt(at)
      /\ UNCHANGED <<requestVars, deviceVars, answer>>
      /\ stack' = <<"headersCompleted">> \o stack
  BY DEF HeadersComplete
<1>2. ClientInductive'
  BY PartsNow, HeadersCompleteKeeps
<1>3. /\ ParserRuns /\ 1 \in 1 .. Len(buffer)
      /\ buffer' = SubSeq(buffer, 1 + 1, Len(buffer))
      /\ parsed'.units = parsed.units + 1
      /\ buffer[1].kind \in {"end", "endEmpty"} /\ Head(buffer) = buffer[1]
      /\ parser.errno = "ok"
  BY <1>1, TakenOne
<1>4. parser'.at = at /\ parser'.errno = "ok"
  <2>1. at \in {"start", "head", "content", "complete", "continued"}
    OBVIOUS
  <2> HIDE DEF at
  <2>2. QED
    BY <1>1, <1>3, <2>1, Moved, PartsNow
<1>5. parser'.at \in After(buffer[1].kind)
  BY <1>3, <1>4 DEF After
<1>6. /\ Top' = "headersCompleted" /\ NotRejecting'
      /\ (\E i \in 1 .. Len(stack') : stack'[i] = "rereading") =>
           (\E i \in 1 .. Len(stack) : stack[i] = "rereading")
  <2>1. "headersCompleted" \in {"headersCompleted", "contentReadyRead"}
    OBVIOUS
  <2>2. QED
    BY <1>1, <1>3, <2>1, SignalThen
<1>7. QED
  BY <1>1, <1>2, <1>3, <1>4, <1>5, <1>6, Taking

LEMMA MessageContentConserves ==
  ASSUME OneInterim, ConservedInductive, MessageContent
  PROVE  ConservedInductive'
<1>1. /\ ParserMeets({"body", "bodyLast"})
      /\ UNCHANGED <<requestVars, deviceVars, answer>>
      /\ stack' = <<"contentReadyRead">> \o stack
  BY DEF MessageContent
<1>2. PICK n \in 1 .. Len(buffer) :
         /\ Octets(n)
         /\ buffer' = SubSeq(buffer, n + 1, Len(buffer))
         /\ \E garbled \in Garbles :
              parsed' = [units |-> parsed.units + n,
                         octets |-> parsed.octets + n,
                         decoded |-> parsed.decoded \/ decoder.of # 0,
                         garbled |-> parsed.garbled \/ garbled]
         /\ ParserAt(IF buffer[n].kind = "bodyLast" THEN "complete"
                     ELSE "content")
  BY DEF MessageContent, ContentRun
<1> DEFINE at == IF buffer[n].kind = "bodyLast" THEN "complete" ELSE "content"
<1>3. ClientInductive'
  BY PartsNow, MessageContentKeeps
<1>4. ParserRuns /\ parser.errno = "ok" /\ ClientInductive
  BY <1>1, Meets, PartsNow
<1>5. parsed'.units = parsed.units + n
  BY <1>2
<1>6. buffer[n].kind \in {"body", "bodyLast"}
  <2>1. n \in 1 .. n
    OBVIOUS
  <2>2. QED
    BY <1>2, <2>1 DEF Octets
<1>7. parser'.at = at /\ parser'.errno = "ok"
  <2>1. at \in {"start", "head", "content", "complete", "continued"}
        /\ ParserAt(at)
    BY <1>2
  <2> HIDE DEF at
  <2>2. QED
    BY <1>4, <2>1, Moved
<1>8. parser'.at \in After(buffer[n].kind) /\ buffer[n].kind # "end"
  BY <1>6, <1>7 DEF After
<1>9. /\ Top' # "headersCompleted" /\ NotRejecting'
      /\ (\E i \in 1 .. Len(stack') : stack'[i] = "rereading") =>
           (\E i \in 1 .. Len(stack) : stack[i] = "rereading")
  <2>1. "contentReadyRead" \in {"headersCompleted", "contentReadyRead"}
    OBVIOUS
  <2>2. QED
    BY <1>1, <1>4, <2>1, SignalThen
<1>10. QED
  BY <1>1, <1>2, <1>3, <1>4, <1>5, <1>7, <1>8, <1>9, Taking

LEMMA ContinueCompleteConserves ==
  ASSUME OneInterim, ConservedInductive, ContinueComplete
  PROVE  ConservedInductive'
<1>1. /\ ParserRuns /\ parser.at = "continued"
      /\ parser' = [NewParser EXCEPT !.errno = "paused"]
      /\ UNCHANGED <<asked, request, answer, buffer, inbox, stream, pending,
                     device, stack, parsed>>
  BY DEF ContinueComplete, requestVars, deviceVars, historyVars
<1>2. ClientInductive'
  BY PartsNow, ContinueCompleteKeeps
<1>3. /\ ClientInductive /\ pending /\ device = "connected" /\ request # 0
      /\ Remains /\ InPlace /\ parsed.units \in Nat /\ Top \in Parsing
      /\ Len(stack) = 1 /\ stack[1] = Top
  BY <1>1, WorkParts
<1>4. Remains' /\ Sought' = Sought /\ LastParsed' = LastParsed
  BY <1>1, <1>3, SameRemains
<1>5. parser' = [at |-> "start", errno |-> "paused"]
  BY <1>1 DEF NewParser
<1>6. parsed.units # 0 /\ LastParsed = "continue"
  <2>1. parsed.units # 0 /\ "continued" \in After(LastParsed)
    BY <1>1, <1>3 DEF InPlace
  <2>2. QED
    BY <2>1 DEF After
<1>7. parsed.units = 2
  <2>1. /\ Len(Sought) \in Nat
        /\ \A i \in 1 .. Len(Sought) : Sought[i].kind = "continue" => i = 2
    BY <1>3, SoughtNow
  <2>2. Len(Remaining) \in Nat
    <3>1. buffer \in Seq(Unit) /\ inbox \in Seq(Unit) /\ stream \in Seq(Unit)
      BY <1>3 DEF ClientInductive, TypeOK
    <3>2. inbox \o stream \in Seq(Unit)
      BY <3>1
    <3>3. Remaining \in Seq(Unit)
      BY <3>1, <3>2 DEF Remaining
    <3>4. QED
      BY <3>3
  <2>3. parsed.units + Len(Remaining) = Len(Sought)
    BY <1>3 DEF Remains
  <2>4. parsed.units \in 1 .. Len(Sought)
    BY <1>3, <1>6, <2>1, <2>2, <2>3
  <2>5. QED
    BY <1>6, <2>1, <2>4 DEF LastParsed
<1>8. Top = "reading" /\ ~(\E i \in 1 .. Len(stack) : stack[i] = "rereading")
  <2>1. ~(\E i \in 1 .. Len(stack) : stack[i] = "rereading")
    BY <1>1, <1>3 DEF InPlace
  <2>2. 1 \in 1 .. Len(stack)
    BY <1>3
  <2>3. Top # "rereading"
    BY <1>3, <2>1, <2>2
  <2>4. QED
    BY <1>3, <2>1, <2>3 DEF Parsing
<1>9. Top' = Top
  BY <1>1 DEF Top
<1>10. InPlace'
  <2>1. "start" \in After("continue")
    BY DEF After
  <2>2. QED
    BY <1>1, <1>4, <1>5, <1>6, <1>7, <1>8, <1>9, <2>1 DEF InPlace
<1>11. NotRejecting'
  BY <1>1, <1>3, PartsNow DEF NotRejecting
<1>12. QED
  BY <1>1, <1>2, <1>3, <1>4, <1>10, <1>11, PartsThen

LEMMA ParserFailsConserves ==
  ASSUME OneInterim, ConservedInductive, ParserFails
  PROVE  ConservedInductive'
<1>1. /\ ParserRuns
      /\ parser' = [parser EXCEPT !.errno = "failed"]
      /\ UNCHANGED <<asked, request, answer, buffer, inbox, stream, pending,
                     device, stack, parsed>>
  BY DEF ParserFails, requestVars, deviceVars, historyVars
<1>2. ClientInductive'
  BY PartsNow, ParserFailsKeeps
<1>3. /\ ClientInductive /\ pending /\ device = "connected" /\ Remains /\ InPlace
  BY <1>1, WorkParts
<1>4. Remains' /\ Sought' = Sought /\ LastParsed' = LastParsed
  BY <1>1, <1>3, SameRemains
<1>5. parser'.at = parser.at /\ parser'.errno = "failed"
  BY <1>1, <1>3 DEF ClientInductive, TypeOK, Parser
<1>6. Top' = Top
  BY <1>1 DEF Top
<1>7. InPlace'
  BY <1>1, <1>3, <1>4, <1>5, <1>6 DEF InPlace
<1>8. NotRejecting'
  BY <1>1, <1>3, PartsNow DEF NotRejecting
<1>9. QED
  BY <1>1, <1>2, <1>3, <1>4, <1>7, <1>8, PartsThen

(***************************************************************************)
(* Signals that were handled, and the ends of responses.                   *)
(***************************************************************************)

\* What is below a signal.
LEMMA SignalBelow ==
  ASSUME ClientInductive, stack # <<>>,
         Head(stack) \notin Parsing \cup {"rejecting"}, stack' = Tail(stack)
  PROVE  /\ (\E i \in 1 .. Len(stack') : stack'[i] = "rereading") =>
              (\E i \in 1 .. Len(stack) : stack[i] = "rereading")
         /\ NotRejecting => NotRejecting'
         /\ pending => Top' # "headersCompleted"
<1>1. /\ stack \in Seq(Frames) /\ Shape(stack, pending)
  BY InductiveNow DEF TypeOK
<1>2. /\ stack' \in Seq(Frames) /\ Shape(stack', pending)
      /\ \A j \in 1 .. Len(stack') : j + 1 \in 1 .. Len(stack)
                                     /\ stack'[j] = stack[j + 1]
  <2> DEFINE g == Tail(stack)
  <2>1. /\ g \in Seq(Frames) /\ Shape(g, pending)
        /\ \A j \in 1 .. Len(g) : j + 1 \in 1 .. Len(stack) /\ g[j] = stack[j + 1]
    BY <1>1, SignalGone
  <2>2. stack' = g
    OBVIOUS
  <2> HIDE DEF g
  <2>3. QED
    BY <2>1, <2>2, Zenon
<1>3. pending => Top' # "headersCompleted"
  <2> SUFFICES ASSUME pending, Top' = "headersCompleted"
               PROVE  FALSE
    OBVIOUS
  <2>1. stack' # <<>> /\ Head(stack') = "headersCompleted"
    BY DEF Top
  <2>2. Head(stack') = stack'[1] /\ 1 \in 1 .. Len(stack')
    BY <1>2, <2>1, NoElements
  <2>3. 1 + 1 \in 1 .. Len(stack) /\ stack[1 + 1] = "headersCompleted"
    BY <1>2, <2>1, <2>2
  <2>4. 1 + 1 = 1
    BY <2>3, SignalOnTop
  <2>5. QED
    BY <2>4
<1>4. NotRejecting => NotRejecting'
  BY <1>2 DEF NotRejecting
<1>5. QED
  BY <1>2, <1>3, <1>4

\* The handlers of a signal return, and nothing else happens.
LEMMA ReturnedConserves ==
  ASSUME ConservedInductive, ClientInductive', stack # <<>>,
         Head(stack) \notin Parsing \cup {"rejecting"}, stack' = Tail(stack),
         UNCHANGED <<requestVars, deviceVars, buffer, parser, historyVars>>,
         Top # "headersCompleted" \/ ~asked[request].head
  PROVE  ConservedInductive'
<1>1. /\ UNCHANGED <<asked, request, answer, buffer, inbox, stream, pending,
                     device, parser, parsed, error>>
  BY DEF requestVars, deviceVars, historyVars
<1>2. ClientInductive
  BY PartsNow
<1>3. /\ (\E i \in 1 .. Len(stack') : stack'[i] = "rereading") =>
           (\E i \in 1 .. Len(stack) : stack[i] = "rereading")
      /\ NotRejecting => NotRejecting'
      /\ pending => Top' # "headersCompleted"
  BY <1>2, SignalBelow
<1>4. Top # "reading"
  BY <1>2, TopNow DEF ClientInductive, TypeOK, Parsing
<1>5. ASSUME pending, device = "connected"
      PROVE  Remains' /\ InPlace'
  <2>1. Remains /\ InPlace
    BY <1>5, PartsNow
  <2>2. Remains' /\ LastParsed' = LastParsed
    BY <1>1, <2>1, SameRemains
  <2>3. parser.errno # "paused"
    BY <1>4, <2>1 DEF InPlace
  <2>4. parsed.units > 0 /\ LastParsed = "end" => ~asked[request].head
    BY <2>1 DEF InPlace
  <2>5. InPlace'
    BY <1>1, <1>3, <1>5, <2>1, <2>2, <2>3, <2>4 DEF InPlace
  <2>6. QED
    BY <2>2, <2>5
<1>6. ASSUME ~pending, device = "connected"
      PROVE  Empty'
  BY <1>1, <1>6, PartsNow DEF Empty
<1>7. QED
  BY <1>1, <1>3, <1>5, <1>6, PartsNow, PartsThen

\* Where a response has ended, the connection is gone or there is nothing on it.
LEMMA EndedConserves ==
  ASSUME ConservedInductive, ClientInductive', pending' = FALSE,
         \/ CloseDevice
         \/ /\ UNCHANGED <<deviceVars, buffer, error>>
            /\ device = "connected" => Empty /\ NotRejecting'
  PROVE  ConservedInductive'
<1>1. CASE CloseDevice
  <2>1. device' # "connected"
    BY <1>1 DEF CloseDevice
  <2>2. QED
    BY <2>1, PartsThen
<1>2. CASE /\ UNCHANGED <<deviceVars, buffer, error>>
           /\ device = "connected" => Empty /\ NotRejecting'
  <2>1. device' = device
    BY <1>2 DEF deviceVars
  <2>2. device = "connected" => Empty'
    BY <1>2 DEF deviceVars, Empty
  <2>3. QED
    BY <1>2, <2>1, <2>2, PartsThen
<1>3. QED
  BY <1>1, <1>2

LEMMA ContentHandledConserves ==
  ASSUME ConservedInductive, ContentHandled
  PROVE  ConservedInductive'
<1>1. /\ Top = "contentReadyRead" /\ stack' = Tail(stack)
      /\ UNCHANGED <<requestVars, deviceVars, buffer, parser, historyVars>>
  BY DEF ContentHandled, parserVars
<1>2. ClientInductive /\ ClientInductive'
  BY PartsNow, ContentHandledKeeps
<1>3. stack # <<>> /\ Head(stack) \notin Parsing \cup {"rejecting"}
  BY <1>1, <1>2, TopNow DEF ClientInductive, TypeOK, Parsing
<1>4. QED
  BY <1>1, <1>2, <1>3, ReturnedConserves

LEMMA FinishedHandledConserves ==
  ASSUME ConservedInductive, FinishedHandled
  PROVE  ConservedInductive'
<1>1. /\ Top = "finished" /\ stack' = Tail(stack)
      /\ UNCHANGED <<requestVars, deviceVars, buffer, parser, historyVars>>
  BY DEF FinishedHandled, parserVars
<1>2. ClientInductive /\ ClientInductive'
  BY PartsNow, FinishedHandledKeeps
<1>3. stack # <<>> /\ Head(stack) \notin Parsing \cup {"rejecting"}
  BY <1>1, <1>2, TopNow DEF ClientInductive, TypeOK, Parsing
<1>4. QED
  BY <1>1, <1>2, <1>3, ReturnedConserves

\* No stack gets "rejecting" from a signal emitted above one without it.
LEMMA FinishedOver ==
  ASSUME NEW f \in Seq(Frames), \A i \in 1 .. Len(f) : f[i] # "rejecting",
         EmitFinished(f)
  PROVE  NotRejecting'
<1> DEFINE g == <<"finished">> \o f
<1>1. "finished" \in Frames
  BY DEF Frames, Signals
<1>2. /\ Len(g) = Len(f) + 1 /\ Len(f) \in Nat /\ g[1] = "finished"
      /\ \A j \in 1 .. Len(f) + 1 :
           j # 1 => j - 1 \in 1 .. Len(f) /\ g[j] = f[j - 1]
  BY <1>1, AddedFirst
<1>3. stack' = g
  BY DEF EmitFinished
<1> HIDE DEF g
<1>4. ASSUME NEW j \in 1 .. Len(g)
      PROVE  g[j] # "rejecting"
  <2>1. CASE j = 1
    BY <1>2, <2>1
  <2>2. CASE j # 1
    BY <1>2, <2>2
  <2>3. QED
    BY <2>1, <2>2
<1>5. QED
  BY <1>3, <1>4 DEF NotRejecting

\* A response of which nothing remains leaves nothing.
LEMMA NothingLeft ==
  ASSUME OneInterim, ConservedInductive, pending, device = "connected",
         parsed.units > 0,
         \/ LastParsed \in Completing
         \/ LastParsed = "end" /\ asked[request].head
  PROVE  Empty
<1>1. ClientInductive /\ Remains
  BY PartsNow
<1>2. request # 0 /\ error = "NoError" /\ parsed.units \in Nat
  BY <1>1 DEF ClientInductive, ParserInStep, TypeOK
<1>3. /\ Len(Sought) \in Nat
      /\ \A i \in 1 .. Len(Sought) :
           /\ Sought[i].kind \in Completing => i = Len(Sought)
           /\ Sought[i].kind = "end" /\ asked[request].head => i = Len(Sought)
  BY <1>1, <1>2, SoughtNow
<1>4. Len(Remaining) \in Nat
  <2>1. buffer \in Seq(Unit) /\ inbox \in Seq(Unit) /\ stream \in Seq(Unit)
    BY <1>1 DEF ClientInductive, TypeOK
  <2>2. inbox \o stream \in Seq(Unit)
    BY <2>1
  <2>3. Remaining \in Seq(Unit)
    BY <2>1, <2>2 DEF Remaining
  <2>4. QED
    BY <2>3
<1>5. parsed.units \in 1 .. Len(Sought)
  <2>1. parsed.units + Len(Remaining) = Len(Sought)
    BY <1>1 DEF Remains
  <2>2. QED
    BY <1>2, <1>3, <1>4, <2>1
<1>6. parsed.units = Len(Sought)
  BY <1>3, <1>5 DEF LastParsed
<1>7. QED
  BY <1>1, <1>2, <1>6, NothingRemains DEF Empty

LEMMA HeadersHandledConserves ==
  ASSUME OneInterim, ConservedInductive, HeadersHandled
  PROVE  ConservedInductive'
<1>1. /\ Top = "headersCompleted"
      /\ UNCHANGED <<asked, request, deferred, error, buffer, historyVars>>
      /\ IF asked[request].head THEN MessageComplete(Tail(stack))
         ELSE stack' = Tail(stack) /\ UNCHANGED <<pending, deviceVars, parser>>
  BY DEF HeadersHandled
<1>2. ClientInductive /\ ClientInductive'
  BY PartsNow, HeadersHandledKeeps
<1>3. /\ stack # <<>> /\ Head(stack) \notin Parsing \cup {"rejecting"}
      /\ Head(stack) = "headersCompleted" /\ stack \in Seq(Frames)
      /\ Shape(stack, pending)
  BY <1>1, <1>2, TopNow, InductiveNow DEF ClientInductive, TypeOK, Parsing
<1>4. CASE ~asked[request].head
  <2>1. /\ stack' = Tail(stack)
        /\ UNCHANGED <<requestVars, deviceVars, buffer, parser, historyVars>>
    BY <1>1, <1>4 DEF requestVars
  <2>2. QED
    BY <1>2, <1>3, <1>4, <2>1, ReturnedConserves
<1>5. CASE asked[request].head
  <2>1. pending' = FALSE /\ CloseUnlessKept /\ EmitFinished(Tail(stack))
    BY <1>1, <1>5 DEF MessageComplete
  <2>2. ASSUME device = "connected"
        PROVE  Empty
    <3>1. CASE ~pending
      BY <2>2, <3>1, PartsNow
    <3>2. CASE pending
      <4>1. InPlace
        BY <2>2, <3>2, PartsNow
      <4>2. parsed.units > 0 /\ LastParsed \in {"end", "endEmpty"}
        BY <1>1, <4>1 DEF InPlace
      <4>3. LastParsed \in Completing \/ LastParsed = "end"
        BY <4>2 DEF Completing
      <4>4. QED
        BY <1>5, <2>2, <3>2, <4>2, <4>3, NothingLeft
    <3>3. QED
      BY <3>1, <3>2
  <2>3. ASSUME device = "connected"
        PROVE  NotRejecting'
    <3> DEFINE f == Tail(stack)
    <3>1. /\ f \in Seq(Frames)
          /\ \A j \in 1 .. Len(f) : j + 1 \in 1 .. Len(stack) /\ f[j] = stack[j + 1]
      BY <1>3, SignalGone
    <3>2. EmitFinished(f)
      BY <2>1
    <3> HIDE DEF f
    <3>3. \A i \in 1 .. Len(stack) : stack[i] # "rejecting"
      BY <2>3, PartsNow DEF NotRejecting
    <3>4. \A j \in 1 .. Len(f) : f[j] # "rejecting"
      BY <3>1, <3>3
    <3>5. QED
      BY <3>1, <3>2, <3>4, FinishedOver
  <2>4. CloseDevice \/ UNCHANGED deviceVars
    BY <2>1 DEF CloseUnlessKept
  <2>5. QED
    BY <1>1, <1>2, <2>1, <2>2, <2>3, <2>4, EndedConserves
<1>6. QED
  BY <1>4, <1>5

LEMMA ResponseCompleteConserves ==
  ASSUME OneInterim, ConservedInductive, ResponseComplete
  PROVE  ConservedInductive'
<1>1. /\ ParserRuns /\ parser.at = "complete" /\ MessageComplete(stack)
      /\ UNCHANGED <<error, buffer>>
  BY DEF ResponseComplete
<1>2. ClientInductive /\ ClientInductive'
  BY PartsNow, ResponseCompleteKeeps
<1>3. /\ pending /\ device = "connected" /\ InPlace /\ NotRejecting
      /\ request # 0 /\ Remains /\ stack \in Seq(Frames) /\ parsed.units \in Nat
  BY <1>1, WorkParts
<1>4. parsed.units > 0 /\ "complete" \in After(LastParsed)
  BY <1>1, <1>3 DEF InPlace
<1>5. LastParsed \in Completing
  <2>1. /\ Len(Sought) \in Nat
        /\ \A i \in 1 .. Len(Sought) : Sought[i].kind \in UnitKinds
    BY <1>2, <1>3, SoughtNow
  <2>2. Len(Remaining) \in Nat
    <3>1. buffer \in Seq(Unit) /\ inbox \in Seq(Unit) /\ stream \in Seq(Unit)
      BY <1>2 DEF ClientInductive, TypeOK
    <3>2. inbox \o stream \in Seq(Unit)
      BY <3>1
    <3>3. Remaining \in Seq(Unit)
      BY <3>1, <3>2 DEF Remaining
    <3>4. QED
      BY <3>3
  <2>3. parsed.units + Len(Remaining) = Len(Sought)
    BY <1>3 DEF Remains
  <2>4. parsed.units \in 1 .. Len(Sought)
    BY <1>3, <1>4, <2>1, <2>2, <2>3
  <2>5. LastParsed \in UnitKinds
    BY <2>1, <2>4 DEF LastParsed
  <2>6. QED
    BY <1>4, <2>5 DEF After, UnitKinds, Completing
<1>6. Empty
  BY <1>3, <1>4, <1>5, NothingLeft
<1>7. pending' = FALSE /\ CloseUnlessKept /\ EmitFinished(stack)
  BY <1>1 DEF MessageComplete
<1>8. NotRejecting'
  BY <1>3, <1>7, FinishedOver DEF NotRejecting
<1>9. CloseDevice \/ UNCHANGED deviceVars
  BY <1>7 DEF CloseUnlessKept
<1>10. QED
  BY <1>1, <1>2, <1>6, <1>7, <1>8, <1>9, EndedConserves

LEMMA AbortResponseConserves ==
  ASSUME ConservedInductive, AbortResponse
  PROVE  ConservedInductive'
<1>1. CloseDevice /\ pending' = FALSE
  BY DEF AbortResponse
<1>2. ClientInductive'
  BY PartsNow, AbortResponseKeeps
<1>3. QED
  BY <1>1, <1>2, EndedConserves

LEMMA RejectResponseConserves ==
  ASSUME ConservedInductive, RejectResponse
  PROVE  ConservedInductive'
<1>1. CloseDevice /\ pending' = FALSE
  BY DEF RejectResponse
<1>2. ClientInductive'
  BY PartsNow, RejectResponseKeeps
<1>3. QED
  BY <1>1, <1>2, EndedConserves

LEMMA AbortConnectionConserves ==
  ASSUME ConservedInductive, AbortConnection
  PROVE  ConservedInductive'
<1>1. CloseDevice
  BY DEF AbortConnection
<1>2. ClientInductive'
  BY PartsNow, AbortConnectionKeeps
<1>3. device' # "connected"
  BY <1>1 DEF CloseDevice
<1>4. QED
  BY <1>2, <1>3, PartsThen

LEMMA DeviceErrorConserves ==
  ASSUME ConservedInductive, NEW e \in Errors, DeviceError(e)
  PROVE  ConservedInductive'
<1>1. CloseDevice
  BY DEF DeviceError
<1>2. ClientInductive'
  BY PartsNow, DeviceErrorKeeps
<1>3. device' # "connected"
  BY <1>1 DEF CloseDevice
<1>4. QED
  BY <1>2, <1>3, PartsThen

(***************************************************************************)
(* Requests.                                                               *)
(***************************************************************************)

\* Nothing that the invariant speaks of changes, but requests put off.
LEMMA Undisturbed ==
  ASSUME ConservedInductive, ClientInductive',
         request \in Nat, request # 0 => asked'[request] = asked[request],
         UNCHANGED <<request, pending, error, deviceVars, buffer, parser, stack,
                     answer, parsed>>
  PROVE  ConservedInductive'
<1>1. UNCHANGED <<device, stream, inbox>> /\ Top' = Top
  BY DEF deviceVars, Top
<1>2. ASSUME pending, device = "connected"
      PROVE  Remains' /\ InPlace'
  <2>1. Remains /\ InPlace /\ request # 0
    BY <1>2, PartsNow DEF ClientInductive, ParserInStep
  <2>2. Sought' = Sought /\ asked'[request] = asked[request]
    BY <2>1 DEF Sought
  <2>3. Remaining' = Remaining /\ LastParsed' = LastParsed
    BY <1>1, <2>2 DEF Remaining, LastParsed
  <2>4. Remains'
    BY <2>1, <2>2, <2>3 DEF Remains
  <2>5. InPlace'
    BY <1>1, <2>1, <2>2, <2>3 DEF InPlace
  <2>6. QED
    BY <2>4, <2>5
<1>3. ASSUME ~pending, device = "connected"
      PROVE  Empty'
  BY <1>1, <1>3, PartsNow DEF Empty
<1>4. device = "connected" => NotRejecting'
  BY PartsNow DEF NotRejecting
<1>5. QED
  BY <1>1, <1>2, <1>3, <1>4, PartsThen

LEMMA RequestLaterConserves ==
  ASSUME ConservedInductive, NEW what \in Request, RequestLater(what)
  PROVE  ConservedInductive'
<1>1. /\ asked' = Append(asked, what)
      /\ UNCHANGED <<request, pending, error, deviceVars, buffer, parser, stack,
                     answer, parsed>>
  BY DEF RequestLater, parserVars, historyVars
<1>2. ClientInductive /\ ClientInductive'
  BY PartsNow, RequestLaterKeeps
<1>3. request \in Nat /\ (request # 0 => asked'[request] = asked[request])
  <2>1. asked \in Seq(Request) /\ request \in 0 .. Len(asked)
    BY <1>2 DEF ClientInductive, TypeOK
  <2>2. QED
    BY <1>1, <2>1
<1>4. QED
  BY <1>1, <1>2, <1>3, Undisturbed

LEMMA ConsumeContentConserves ==
  ASSUME ConservedInductive, ConsumeContent
  PROVE  ConservedInductive'
<1>1. /\ asked' = asked
      /\ UNCHANGED <<request, pending, error, deviceVars, buffer, parser, stack,
                     answer, parsed>>
  BY DEF ConsumeContent, requestVars, historyVars
<1>2. ClientInductive /\ ClientInductive'
  BY PartsNow, ConsumeContentKeeps
<1>3. request \in Nat
  BY <1>2 DEF ClientInductive, TypeOK
<1>4. QED
  BY <1>1, <1>2, <1>3, Undisturbed

\* A request was sent where there was nothing: all of its answer remains.
LEMMA AllRemains ==
  ASSUME TypeOK, NEW r \in Requests, NEW head \in BOOLEAN,
         SendRequest(r, head), stream = <<>>,
         request' = r, asked'[r].head = head,
         inbox' = <<>>, buffer' = <<>>, parser' = NewParser,
         Top' # "headersCompleted",
         \A i \in 1 .. Len(stack') : stack'[i] # "rereading"
  PROVE  Remains' /\ InPlace'
<1>1. PICK a \in Answers : answer' = a /\ stream' = stream \o Units(r, a, head)
  BY DEF SendRequest
<1>2. a \in Answer
  BY AnswersAssumption
<1> DEFINE u == Units(r, a, head)
<1>3. u \in Seq(Unit) /\ Len(u) \in Nat
  BY <1>2, UnitsOf
<1>4. Sought' = u
  BY <1>1 DEF Sought
<1>5. stream' = <<>> \o u
  BY <1>1
<1> HIDE DEF u
<1>6. <<>> \o u = u
  BY <1>3
<1>7. Remaining' = u
  BY <1>5, <1>6 DEF Remaining
<1>8. parsed'.units = 0
  BY DEF SendRequest, NothingParsed
<1>9. Remains'
  <2>1. 0 + Len(u) = Len(u) /\ \A i \in 1 .. Len(u) : u[i] = u[0 + i]
    BY <1>3
  <2>2. QED
    BY <1>4, <1>7, <1>8, <2>1 DEF Remains
<1>10. parser'.at = "start" /\ parser'.errno = "ok"
  BY DEF NewParser
<1>11. InPlace'
  BY <1>8, <1>10 DEF InPlace
<1>12. QED
  BY <1>9, <1>11

\* A request begins, on a connection that holds nothing or on a new one.
LEMMA StartingConserves ==
  ASSUME ConservedInductive, ClientInductive', NEW r \in Requests,
         NEW what \in Request, StartRequest(r, what), ~pending,
         asked'[r] = what, buffer' = <<>>, Top' # "headersCompleted",
         \A i \in 1 .. Len(stack') : stack'[i] # "rereading",
         device = "connected" => NotRejecting'
  PROVE  ConservedInductive'
<1>1. request' = r /\ pending' = TRUE /\ parser' = NewParser
  BY DEF StartRequest, Clear
<1>2. TypeOK /\ what.head \in BOOLEAN
  BY PartsNow DEF ClientInductive, Request
<1>3. CASE CanReuse(what) /\ SendRequest(r, what.head)
           /\ UNCHANGED <<device, inbox, cut>>
  <2>1. device = "connected" /\ device' = device
    BY <1>3 DEF CanReuse
  <2>2. stream = <<>> /\ inbox' = <<>>
    BY <1>3, <2>1, PartsNow DEF Empty
  <2>3. asked'[r].head = what.head
    OBVIOUS
  <2>4. SendRequest(r, what.head)
    BY <1>3
  <2>5. Remains' /\ InPlace'
    BY <1>1, <1>2, <2>2, <2>3, <2>4, AllRemains
  <2>6. QED
    BY <1>1, <2>1, <2>5, PartsThen
<1>4. CASE device' = "connecting"
  BY <1>4, PartsThen
<1>5. QED
  BY <1>3, <1>4 DEF StartRequest

LEMMA RequestNowConserves ==
  ASSUME ConservedInductive, NEW what \in Request, RequestNow(what)
  PROVE  ConservedInductive'
<1>1. /\ AppRuns /\ Len(asked) < MaxRequests /\ ~pending /\ ~IsParsing
      /\ asked' = Append(asked, what) /\ StartRequest(Len(asked) + 1, what)
      /\ buffer' = buffer /\ stack' = stack
  BY DEF RequestNow
<1>2. ClientInductive /\ ClientInductive'
  BY PartsNow, RequestNowKeeps
<1>3. asked \in Seq(Request) /\ stack \in Seq(Frames)
  BY <1>2 DEF ClientInductive, TypeOK
<1> DEFINE r == Len(asked) + 1
<1>4. r \in Requests /\ asked'[r] = what
  BY <1>1, <1>3, BoundsAssumption DEF Requests
<1> HIDE DEF r
<1>5. StartRequest(r, what)
  BY <1>1 DEF r
<1>6. \A i \in 1 .. Len(stack') : stack'[i] # "rereading"
  BY <1>1 DEF IsParsing, Parsing
<1>7. Top' # "headersCompleted"
  <2> SUFFICES ASSUME Top' = "headersCompleted"
               PROVE  FALSE
    OBVIOUS
  <2>1. Top = "headersCompleted"
    BY <1>1 DEF Top
  <2>2. stack # <<>> /\ Head(stack) = "headersCompleted"
    BY <1>3, <2>1, TopNow
  <2>3. Shape(stack, pending)
    BY <1>2, InductiveNow
  <2>4. Len(stack) \in Nat \ {0} /\ stack[1] = "headersCompleted"
    BY <1>3, <2>2, NoElements
  <2>5. 1 \in 1 .. Len(stack)
    BY <2>4
  <2>6. 1 + 1 = Len(stack) /\ stack[1 + 1] \in Parsing
    BY <2>3, <2>4, <2>5 DEF Shape
  <2>7. 1 + 1 \in 1 .. Len(stack)
    BY <2>6
  <2>8. QED
    BY <1>1, <2>6, <2>7 DEF IsParsing
<1>8. CASE device = "connected"
  <2>1. buffer = <<>> /\ NotRejecting
    BY <1>1, <1>8, PartsNow DEF Empty
  <2>2. buffer' = <<>> /\ NotRejecting'
    BY <1>1, <2>1 DEF NotRejecting
  <2>3. QED
    BY <1>1, <1>2, <1>4, <1>5, <1>6, <1>7, <2>2, StartingConserves
<1>9. CASE device # "connected"
  <2>1. device' # "connected"
    BY <1>5, <1>9 DEF StartRequest, CanReuse
  <2>2. QED
    BY <1>2, <2>1, PartsThen
<1>10. QED
  BY <1>8, <1>9

LEMMA DeviceConnectedConserves ==
  ASSUME ConservedInductive, DeviceConnected
  PROVE  ConservedInductive'
<1>1. /\ EventLoop /\ device = "connecting"
      /\ IF pending THEN SendRequest(request, asked[request].head)
         ELSE UNCHANGED <<stream, answer, parsed>>
      /\ UNCHANGED <<asked, request, pending, inbox, buffer, parser, stack>>
  BY DEF DeviceConnected, requestVars, parserVars
<1>2. ClientInductive /\ ClientInductive'
  BY PartsNow, DeviceConnectedKeeps
<1>3. /\ pending /\ parser = NewParser /\ stream = <<>> /\ inbox = <<>>
      /\ request # 0
  BY <1>1, <1>2 DEF ClientInductive, DeviceInStep, ParserInStep
<1>4. stack = <<>> /\ buffer = <<>>
  BY <1>1, <1>2, IdleNow
<1>5. SendRequest(request, asked[request].head)
  BY <1>1, <1>3
<1>6. TypeOK
  BY <1>2 DEF ClientInductive
<1>7. request \in Requests /\ asked[request].head \in BOOLEAN
  <2>1. request \in 1 .. Len(asked) /\ Len(asked) <= MaxRequests
        /\ asked \in Seq(Request) /\ Len(asked) \in Nat
    BY <1>3, <1>6 DEF TypeOK
  <2>2. asked[request] \in Request
    BY <2>1
  <2>3. QED
    BY <2>1, <2>2, BoundsAssumption DEF Requests, Request
<1>8. stack' = <<>> /\ inbox' = <<>> /\ buffer' = <<>> /\ parser' = NewParser
      /\ request' = request /\ asked'[request].head = asked[request].head
  BY <1>1, <1>3, <1>4
<1>9. /\ Top' # "headersCompleted" /\ NotRejecting'
      /\ \A i \in 1 .. Len(stack') : stack'[i] # "rereading"
  <2>1. Len(<<>>) = 0
    OBVIOUS
  <2>2. QED
    BY <1>8, <2>1 DEF Top, NotRejecting
<1>10. Remains' /\ InPlace'
  BY <1>3, <1>5, <1>6, <1>7, <1>8, <1>9, AllRemains
<1>11. pending'
  BY <1>1, <1>3
<1>12. QED
  BY <1>2, <1>9, <1>10, <1>11, PartsThen

(***************************************************************************)
(* device_readyRead() begins and returns.                                  *)
(***************************************************************************)

LEMMA InjectAgainConserves ==
  ASSUME OneInterim, ConservedInductive, InjectAgain
  PROVE  ConservedInductive'
<1>1. /\ ParserReturns /\ pending /\ buffer # <<>> /\ Top = "reading"
      /\ parser.errno # "failed"
      /\ Top \in Parsing
      /\ parser' = Unpaused /\ stack' = <<"rereading">>
      /\ UNCHANGED <<asked, request, answer, buffer, inbox, stream, pending,
                     device, parsed>>
  BY DEF InjectAgain, AgainDue, requestVars, deviceVars, historyVars, Parsing
<1>2. ClientInductive /\ ClientInductive'
  BY PartsNow, InjectAgainKeeps
<1>3. IsParsing /\ device = "connected"
  <2>1. IsParsing
    BY <1>1, <1>2, WorkNow
  <2>2. QED
    BY <1>1, <1>2, <2>1 DEF ClientInductive, ParserInStep
<1>4. Remains /\ InPlace
  BY <1>1, <1>3, PartsNow
<1>5. parser.errno = "paused"
  <2>1. parser.errno # "ok"
    BY <1>1 DEF ParserReturns
  <2>2. QED
    BY <1>1, <1>2, <2>1 DEF ClientInductive, TypeOK, Parser
<1>6. parsed.units > 1 /\ parser.at = "start"
  BY <1>1, <1>2, <1>4, <1>5 DEF InPlace, ClientInductive, ParserInStep
<1>7. parser'.at = "start" /\ parser'.errno = "ok"
  BY <1>1, <1>2, <1>5, <1>6, UnpausedKept
<1>8. Remains' /\ LastParsed' = LastParsed
  BY <1>1, <1>4, SameRemains
<1>9. parsed.units \in Nat
  BY <1>2 DEF ClientInductive, TypeOK
<1>10. /\ Top' = "rereading" /\ NotRejecting'
  BY <1>1 DEF Top, NotRejecting
<1>11. LastParsed # "end" \/ ~asked[request].head
  BY <1>1, <1>4, <1>6, <1>9 DEF InPlace
<1>12. InPlace'
  BY <1>1, <1>4, <1>6, <1>7, <1>8, <1>9, <1>10, <1>11 DEF InPlace
<1>13. QED
  BY <1>1, <1>2, <1>8, <1>10, <1>12, PartsThen

LEMMA ReadyReadReturnsConserves ==
  ASSUME OneInterim, ConservedInductive, ReadyReadReturns
  PROVE  ConservedInductive'
<1>1. /\ \/ ParserReturns /\ ~AgainDue /\ ~(pending /\ parser.errno = "failed")
         \/ Top = "rejecting"
      /\ buffer' = <<>> /\ stack' = <<>> /\ Release
  BY DEF ReadyReadReturns
<1>2. ClientInductive /\ ClientInductive'
  BY PartsNow, ReadyReadReturnsKeeps
<1>3. TypeOK
  BY <1>2 DEF ClientInductive
<1>4. /\ Top' = "eventLoop" /\ NotRejecting'
      /\ \A i \in 1 .. Len(stack') : stack'[i] # "rereading"
  <2>1. Len(<<>>) = 0
    OBVIOUS
  <2>2. QED
    BY <1>1, <2>1 DEF Top, NotRejecting
<1>5. CASE /\ ~pending /\ deferred # 0 /\ UNCHANGED asked
           /\ StartRequest(deferred, asked[deferred])
  <2>1. /\ deferred \in 1 .. Len(asked) /\ asked \in Seq(Request)
        /\ Len(asked) \in Nat /\ Len(asked) <= MaxRequests
    BY <1>3, <1>5 DEF TypeOK
  <2>2. deferred \in Requests /\ asked[deferred] \in Request
        /\ asked'[deferred] = asked[deferred]
    BY <1>5, <2>1, BoundsAssumption DEF Requests
  <2>3. QED
    BY <1>1, <1>2, <1>4, <1>5, <2>2, StartingConserves
<1>6. CASE /\ parser' = Unpaused
           /\ UNCHANGED <<requestVars, deviceVars, headers, content, historyVars>>
  <2>1. UNCHANGED <<asked, request, pending, error, device, stream, inbox,
                    answer, parsed>>
    BY <1>6 DEF requestVars, deviceVars, historyVars
  <2>2. ASSUME pending, device = "connected"
        PROVE  Remains' /\ InPlace'
    <3>1. Remains /\ InPlace /\ NotRejecting
      BY <2>2, PartsNow
    <3>2. Top # "rejecting"
      <4> SUFFICES ASSUME Top = "rejecting"
                   PROVE  FALSE
        OBVIOUS
      <4>1. Len(stack) = 1 /\ stack[1] = "rejecting"
        BY <1>2, WorkNow
      <4>2. 1 \in 1 .. Len(stack)
        BY <4>1
      <4>3. QED
        BY <3>1, <4>1, <4>2 DEF NotRejecting
    <3>3. /\ ParserReturns /\ ~AgainDue /\ parser.errno # "failed"
          /\ Top \in Parsing
      BY <1>1, <2>2, <3>2 DEF ParserReturns
    <3>4. parser.errno \in {"ok", "paused"}
      BY <1>3, <3>3 DEF TypeOK, Parser
    <3>5. buffer = <<>>
      <4>1. CASE parser.errno = "ok"
        BY <3>3, <4>1 DEF ParserReturns
      <4>2. CASE parser.errno = "paused"
        <5>1. Top = "reading"
          BY <3>1, <4>2 DEF InPlace
        <5>2. QED
          BY <2>2, <3>3, <5>1 DEF AgainDue
      <4>3. QED
        BY <3>4, <4>1, <4>2
    <3>6. UNCHANGED <<asked, request, answer, buffer, inbox, stream>>
      BY <1>1, <2>1, <3>5
    <3>7. parsed'.units = parsed.units
      BY <2>1
    <3>8. Remains' /\ LastParsed' = LastParsed
      BY <3>1, <3>6, <3>7, SameRemains
    <3>9. parser'.at = parser.at /\ parser'.errno = "ok"
      BY <1>2, <1>6, <3>3, <3>4, UnpausedKept
    <3>10. parsed.units > 0 /\ LastParsed = "end" => ~asked[request].head
      <4>1. Top # "headersCompleted"
        BY <3>3 DEF Parsing
      <4>2. QED
        BY <3>1, <4>1 DEF InPlace
    <3>11. InPlace'
      BY <1>4, <2>1, <3>1, <3>8, <3>9, <3>10 DEF InPlace
    <3>12. QED
      BY <3>8, <3>11
  <2>3. ASSUME ~pending, device = "connected"
        PROVE  Empty'
    BY <1>1, <2>1, <2>3, PartsNow DEF Empty
  <2>4. QED
    BY <1>2, <1>4, <2>1, <2>2, <2>3, PartsThen
<1>7. QED
  BY <1>1, <1>5, <1>6 DEF Release

\* What the device received goes to the buffer, in order.
LEMMA ReadConserves ==
  ASSUME ConservedInductive, ClientInductive', EventLoop,
         NEW units \in Seq(Unit), NEW rest \in Seq(Unit),
         units \o rest = inbox \o stream,
         DeviceReadyRead(units, rest),
         UNCHANGED <<asked, request, pending, error, parser, answer, parsed>>
  PROVE  ConservedInductive'
<1>1. /\ ClientInductive /\ stack = <<>> /\ buffer = <<>>
      /\ pending => parser.errno = "ok"
  BY PartsNow, IdleNow
<1> DEFINE room == Room(Len(units))
           n == IF room < Len(units) THEN room ELSE Len(units)
<1>2. \/ ~pending /\ CloseDevice
      \/ /\ pending /\ n <= 0 /\ inbox' = units /\ stream' = rest
         /\ UNCHANGED <<device, buffer, stack>>
      \/ /\ pending /\ n > 0 /\ buffer' = SubSeq(units, 1, n)
         /\ inbox' = SubSeq(units, n + 1, Len(units)) /\ stream' = rest
         /\ stack' = <<"reading">> /\ UNCHANGED device
  BY DEF DeviceReadyRead
<1>3. n \in Int /\ n <= Len(units) /\ Len(units) \in Nat
  <2>1. Len(units) \in Nat /\ content \in Nat
    BY <1>1 DEF ClientInductive, TypeOK
  <2>2. QED
    BY <2>1, LimitsAssumption DEF Room
<1> HIDE DEF n, room
<1> DEFINE t == inbox \o stream
<1>4. t \in Seq(Unit) /\ Remaining = <<>> \o t /\ <<>> \o t = t
  <2>1. inbox \in Seq(Unit) /\ stream \in Seq(Unit)
    BY <1>1 DEF ClientInductive, TypeOK
  <2>2. t \in Seq(Unit)
    BY <2>1
  <2>3. Remaining = <<>> \o t
    BY <1>1 DEF Remaining
  <2> HIDE DEF t
  <2>4. QED
    BY <2>2, <2>3
<1>5. ASSUME Remaining' = t, pending, device = "connected",
             Top' # "headersCompleted",
             \A i \in 1 .. Len(stack') : stack'[i] # "rereading"
      PROVE  Remains' /\ InPlace'
  <2>1. Remains /\ InPlace
    BY <1>5, PartsNow
  <2>2. Sought' = Sought /\ Remaining' = Remaining /\ LastParsed' = LastParsed
    BY <1>4, <1>5 DEF Sought, LastParsed
  <2>3. Remains'
    BY <2>1, <2>2 DEF Remains
  <2>4. Top # "headersCompleted"
    BY DEF EventLoop
  <2>5. InPlace'
    BY <1>1, <1>5, <2>1, <2>2, <2>4 DEF InPlace
  <2>6. QED
    BY <2>3, <2>5
<1>6. CASE ~pending /\ CloseDevice
  <2>1. device' # "connected"
    BY <1>6 DEF CloseDevice
  <2>2. QED
    BY <2>1, PartsThen
<1>7. CASE /\ pending /\ n <= 0 /\ inbox' = units /\ stream' = rest
           /\ UNCHANGED <<device, buffer, stack>>
  <2>1. Remaining' = t
    <3>1. inbox' \o stream' = t
      BY <1>7
    <3>2. Remaining' = <<>> \o t
      BY <1>1, <1>7, <3>1 DEF Remaining
    <3>3. QED
      BY <1>4, <3>2
  <2>2. stack' = <<>>
    BY <1>1, <1>7
  <2>3. /\ Top' = "eventLoop" /\ NotRejecting'
        /\ \A i \in 1 .. Len(stack') : stack'[i] # "rereading"
    <3>1. Len(<<>>) = 0
      OBVIOUS
    <3>2. QED
      BY <2>2, <3>1 DEF Top, NotRejecting
  <2>4. QED
    BY <1>5, <1>7, <2>1, <2>3, PartsThen
<1>8. CASE /\ pending /\ n > 0 /\ buffer' = SubSeq(units, 1, n)
           /\ inbox' = SubSeq(units, n + 1, Len(units)) /\ stream' = rest
           /\ stack' = <<"reading">> /\ UNCHANGED device
  <2>1. n \in 0 .. Len(units)
    BY <1>3, <1>8
  <2>2. SubSeq(units, 1, n) \o (SubSeq(units, n + 1, Len(units)) \o rest)
          = units \o rest
    BY <2>1, Parted
  <2>3. Remaining' = t
    BY <1>8, <2>2, Zenon DEF Remaining
  <2>4. /\ Top' = "reading" /\ NotRejecting'
        /\ \A i \in 1 .. Len(stack') : stack'[i] # "rereading"
    BY <1>8 DEF Top, NotRejecting
  <2>5. QED
    BY <1>5, <1>8, <2>3, <2>4, PartsThen
<1>9. QED
  BY <1>2, <1>6, <1>7, <1>8

LEMMA ReadyReadConserves ==
  ASSUME ConservedInductive, NEW n \in Int, ReadyRead(n)
  PROVE  ConservedInductive'
<1> DEFINE head == SubSeq(stream, 1, n)
           units == inbox \o head
           rest == SubSeq(stream, n + 1, Len(stream))
<1>1. /\ EventLoop /\ n \in 1 .. Len(stream)
      /\ DeviceReadyRead(units, rest)
      /\ UNCHANGED <<asked, request, pending, error, parser, answer, parsed>>
  BY DEF ReadyRead, requestVars, parserVars, historyVars
<1>2. ClientInductive /\ ClientInductive'
  BY PartsNow, ReadyReadKeeps
<1>3. stream \in Seq(Unit) /\ inbox \in Seq(Unit)
  BY <1>2 DEF ClientInductive, TypeOK
<1>4. n \in 0 .. Len(stream)
  BY <1>1, <1>3
<1>5. head \in Seq(Unit) /\ rest \in Seq(Unit)
  BY <1>3, <1>4, Split
<1>6. head \o rest = stream
  <2>1. <<>> \in Seq(Unit)
    OBVIOUS
  <2>2. SubSeq(stream, 1, n) \o (SubSeq(stream, n + 1, Len(stream)) \o <<>>)
          = stream \o <<>>
    BY <1>3, <1>4, <2>1, Parted
  <2>3. stream \o <<>> = stream
    BY <1>3
  <2> HIDE DEF head
  <2>4. rest \o <<>> = rest
    <3> HIDE DEF rest
    <3>1. QED
      BY <1>5
  <2>5. QED
    BY <2>2, <2>3, <2>4, Zenon DEF head
<1> HIDE DEF head, rest
<1>7. units \in Seq(Unit)
  BY <1>3, <1>5
<1>8. units \o rest = inbox \o stream
  <2>1. (inbox \o head) \o rest = inbox \o (head \o rest)
    <3>1. inbox \in Seq(Unit) /\ head \in Seq(Unit) /\ rest \in Seq(Unit)
      BY <1>3, <1>5
    <3>2. \A s \in Seq(Unit) : \A t \in Seq(Unit) : \A u \in Seq(Unit) :
            (s \o t) \o u = s \o (t \o u)
      BY ConcatAssociative
    <3>3. QED
      BY <3>1, <3>2, Zenon
  <2>2. QED
    BY <1>6, <2>1, Zenon
<1>9. DeviceReadyRead(units, rest)
  BY <1>1 DEF rest
<1> HIDE DEF units
<1>10. QED
  BY <1>1, <1>2, <1>5, <1>7, <1>8, <1>9, ReadConserves

LEMMA UnaskedInputConserves ==
  ASSUME ConservedInductive, UnaskedInput
  PROVE  ConservedInductive'
<1>1. /\ EventLoop /\ DeviceReadyRead(inbox, stream)
      /\ UNCHANGED <<asked, request, pending, error, parser, answer, parsed>>
  BY DEF UnaskedInput, requestVars, parserVars, historyVars
<1>2. ClientInductive /\ ClientInductive'
  BY PartsNow, UnaskedInputKeeps
<1>3. stream \in Seq(Unit) /\ inbox \in Seq(Unit)
  BY <1>2 DEF ClientInductive, TypeOK
<1>4. QED
  BY <1>1, <1>2, <1>3, ReadConserves

LEMMA TimerFiresConserves ==
  ASSUME ConservedInductive, TimerFires
  PROVE  ConservedInductive'
<1>1. /\ EventLoop /\ DeviceReadyRead(inbox, stream)
      /\ UNCHANGED <<asked, request, pending, error, parser, answer, parsed>>
  BY DEF TimerFires, requestVars, parserVars, historyVars
<1>2. ClientInductive /\ ClientInductive'
  BY PartsNow, TimerFiresKeeps
<1>3. stream \in Seq(Unit) /\ inbox \in Seq(Unit)
  BY <1>2 DEF ClientInductive, TypeOK
<1>4. QED
  BY <1>1, <1>2, <1>3, ReadConserves

(***************************************************************************)
(* The theorems.                                                           *)
(***************************************************************************)

\* Every step keeps the inductive invariant.
LEMMA ConservedStep ==
  ASSUME OneInterim, ConservedInductive, [Next]_vars
  PROVE  ConservedInductive'
<1>1. CASE UNCHANGED vars
  <2>1. /\ UNCHANGED <<asked, request, pending, error, deviceVars, buffer,
                       parser, stack, answer, parsed>>
    BY <1>1 DEF vars, requestVars, parserVars, historyVars
  <2>2. ClientInductive /\ ClientInductive'
    BY <1>1, PartsNow, ClientStep
  <2>3. request \in Nat
    BY <2>2 DEF ClientInductive, TypeOK
  <2>4. QED
    BY <2>1, <2>2, <2>3, Undisturbed
<1>2. CASE Steps
  <2>1. CASE MessageBegin
    BY <2>1, MessageBeginConserves
  <2>2. CASE OnHeader
    BY <2>2, OnHeaderConserves
  <2>3. CASE OnContinue
    BY <2>3, OnContinueConserves
  <2>4. CASE ContinueComplete
    BY <2>4, ContinueCompleteConserves
  <2>5. CASE HeadersComplete
    BY <2>5, HeadersCompleteConserves
  <2>6. CASE HeadersHandled
    BY <2>6, HeadersHandledConserves
  <2>7. CASE OnFraming
    BY <2>7, OnFramingConserves
  <2>8. CASE MessageContent
    BY <2>8, MessageContentConserves
  <2>9. CASE ContentHandled
    BY <2>9, ContentHandledConserves
  <2>10. CASE ResponseComplete
    BY <2>10, ResponseCompleteConserves
  <2>11. CASE ParserFails
    BY <2>11, ParserFailsConserves
  <2>12. CASE InjectAgain
    BY <2>12, InjectAgainConserves
  <2>13. CASE RejectResponse
    BY <2>13, RejectResponseConserves
  <2>14. CASE ReadyReadReturns
    BY <2>14, ReadyReadReturnsConserves
  <2>15. CASE FinishedHandled
    BY <2>15, FinishedHandledConserves
  <2>16. QED
    BY <1>2, <2>1, <2>2, <2>3, <2>4, <2>5, <2>6, <2>7, <2>8, <2>9, <2>10, <2>11,
       <2>12, <2>13, <2>14, <2>15 DEF Steps
<1>3. CASE Application
  <2>1. ASSUME NEW what \in Request, RequestNow(what)
        PROVE  ConservedInductive'
    BY <2>1, RequestNowConserves
  <2>2. ASSUME NEW what \in Request, RequestLater(what)
        PROVE  ConservedInductive'
    BY <2>2, RequestLaterConserves
  <2>3. CASE AbortResponse
    BY <2>3, AbortResponseConserves
  <2>4. CASE AbortConnection
    BY <2>4, AbortConnectionConserves
  <2>5. CASE ConsumeContent
    BY <2>5, ConsumeContentConserves
  <2>6. QED
    BY <1>3, <2>1, <2>2, <2>3, <2>4, <2>5 DEF Application
<1>4. CASE Receive
  <2>1. PICK n \in 1 .. Len(stream) : ReadyRead(n)
    BY <1>4 DEF Receive
  <2>2. n \in Int
    OBVIOUS
  <2>3. QED
    BY <2>1, <2>2, ReadyReadConserves
<1>5. CASE TimerFires
  BY <1>5, TimerFiresConserves
<1>6. CASE Network
  <2>1. {"NetworkError", "RemoteHostClosedError"} \subseteq Errors
    BY DEF Errors
  <2>2. CASE DeviceConnected
    BY <2>2, DeviceConnectedConserves
  <2>3. CASE ConnectFails
    BY <2>1, <2>3, DeviceErrorConserves DEF ConnectFails
  <2>4. CASE ConnectionFails
    BY <2>1, <2>4, DeviceErrorConserves DEF ConnectionFails
  <2>5. CASE RemoteHostCloses
    BY <2>1, <2>5, DeviceErrorConserves DEF RemoteHostCloses
  <2>6. CASE UnaskedInput
    BY <2>6, UnaskedInputConserves
  <2>7. QED
    BY <1>6, <2>2, <2>3, <2>4, <2>5, <2>6 DEF Network
<1>7. QED
  BY <1>1, <1>2, <1>3, <1>4, <1>5, <1>6 DEF Next

\* What was parsed and what remains always make the pending response, and the
\* parser is where it was left by what was parsed, if no server sends a second
\* 100 Continue (HttpClient::device_readyRead injects twice at most).
THEOREM ConservedInductiveInvariant ==
  ASSUME OneInterim
  PROVE  Spec => []ConservedInductive
<1>1. Init => ConservedInductive
  <2> SUFFICES ASSUME Init
               PROVE  ConservedInductive
    OBVIOUS
  <2>1. ClientInductive
    BY InitInductive
  <2>2. device # "connected"
    BY DEF Init
  <2>3. QED
    BY <2>1, <2>2 DEF ConservedInductive, Conserved, Kept
<1>2. ConservedInductive /\ [Next]_vars => ConservedInductive'
  BY ConservedStep
<1>3. QED
  BY <1>1, <1>2, PTL DEF Spec

\* All of the buffer belongs to the pending response, and none of it is lost, in
\* whatever pieces it comes (HttpClient::device_readyRead).
THEOREM ResponseIsConserved ==
  ASSUME OneInterim
  PROVE  Spec => []ResponseConserved
<1>1. ConservedInductive => ResponseConserved
  <2> SUFFICES ASSUME ConservedInductive, pending, device = "connected"
               PROVE  /\ \A i \in 1 .. Len(buffer) : buffer[i].of = request
                      /\ parsed.units + Len(buffer) + Len(inbox) + Len(stream) =
                           Len(Sought)
    BY DEF ResponseConserved, Sought
  <2>1. ClientInductive /\ Remains
    BY PartsNow
  <2>2. /\ buffer \in Seq(Unit) /\ inbox \in Seq(Unit) /\ stream \in Seq(Unit)
        /\ parsed.units \in Nat /\ request # 0
    BY <2>1 DEF ClientInductive, TypeOK, ParserInStep
  <2> DEFINE t == inbox \o stream
             w == buffer \o t
  <2>3. t \in Seq(Unit) /\ Len(t) = Len(inbox) + Len(stream)
        /\ Len(inbox) \in Nat /\ Len(stream) \in Nat
    BY <2>2, Joined
  <2>4. Remaining = w
    BY DEF Remaining
  <2> HIDE DEF t
  <2>5. Len(w) = Len(buffer) + Len(t) /\ Len(buffer) \in Nat
        /\ \A i \in 1 .. Len(buffer) : w[i] = buffer[i]
    BY <2>2, <2>3, Joined
  <2> HIDE DEF w
  <2>6. /\ parsed.units + Len(w) = Len(Sought)
        /\ \A i \in 1 .. Len(w) : w[i] = Sought[parsed.units + i]
    BY <2>1, <2>4 DEF Remains
  <2>7. /\ Len(Sought) \in Nat
        /\ \A i \in 1 .. Len(Sought) : Sought[i].of = request
    BY <2>1, <2>2, SoughtNow
  <2>8. ASSUME NEW i \in 1 .. Len(buffer)
        PROVE  buffer[i].of = request
    <3>1. i \in 1 .. Len(w) /\ parsed.units + i \in 1 .. Len(Sought)
      <4>1. /\ i \in Nat /\ parsed.units \in Nat /\ Len(t) \in Nat
            /\ i >= 1 /\ i <= Len(buffer)
        BY <2>2, <2>3, <2>5
      <4>2. /\ Len(w) = Len(buffer) + Len(t)
            /\ parsed.units + Len(w) = Len(Sought)
        BY <2>5, <2>6
      <4>3. Len(buffer) \in Nat /\ Len(Sought) \in Nat
        BY <2>5, <2>7
      <4>4. QED
        BY <4>1, <4>2, <4>3
    <3>2. buffer[i] = Sought[parsed.units + i]
      BY <2>5, <2>6, <3>1
    <3>3. QED
      BY <2>7, <3>1, <3>2
  <2>9. parsed.units + Len(buffer) + Len(inbox) + Len(stream) = Len(Sought)
    BY <2>2, <2>3, <2>5, <2>6
  <2>10. QED
    BY <2>8, <2>9
<1>2. QED
  BY <1>1, ConservedInductiveInvariant, PTL

\* What a response leaves on a connection that is kept is nothing: the next
\* request meets no leftovers (HttpClient::messageComplete, CanReuse).
THEOREM KeptConnectionStaysClean ==
  ASSUME OneInterim
  PROVE  Spec => []KeptConnectionIsClean
<1>1. ConservedInductive => KeptConnectionIsClean
  BY DEF ConservedInductive, Kept, KeptConnectionIsClean
<1>2. QED
  BY <1>1, ConservedInductiveInvariant, PTL

\* A server closes in the middle of a response whose length is known.
LEMMA ClosedInside ==
  ASSUME OneInterim, \A a \in Answers : a.framing # "eof", ReadBufferSize = 0,
         ConservedInductive, EventLoop, pending, device = "connected"
  PROVE  stream # <<>>
<1> SUFFICES ASSUME stream = <<>>
             PROVE  FALSE
  OBVIOUS
<1>1. ClientInductive /\ Remains /\ InPlace
  BY PartsNow
<1>2. buffer = <<>> /\ inbox = <<>> /\ request # 0 /\ ~IsParsing
  BY <1>1, IdleNow DEF ClientInductive, DeviceInStep
<1>3. Len(Remaining) = 0
  <2>1. Remaining = <<>> \o (<<>> \o <<>>)
    BY <1>2 DEF Remaining
  <2>2. QED
    BY <2>1
<1>4. /\ Len(Sought) \in Nat \ {0} /\ parsed.units \in Nat
      /\ parsed.units + Len(Remaining) = Len(Sought)
  BY <1>1, <1>2, SoughtNow DEF Remains, ClientInductive, TypeOK
<1>5. parsed.units = Len(Sought) /\ parsed.units > 0
  BY <1>3, <1>4
<1>6. answer.framing # "eof"
  BY <1>1 DEF ClientInductive, TypeOK
<1>7. Sought[Len(Sought)].kind \in Ends(answer, asked[request].head)
  BY <1>1, <1>2, <1>6, SoughtNow
<1>8. \/ LastParsed \in Completing \/ LastParsed = "bad"
      \/ LastParsed = "end" /\ asked[request].head
  BY <1>5, <1>7 DEF LastParsed, Ends
<1>9. parser.at \in After(LastParsed)
  BY <1>1, <1>5 DEF InPlace
<1>10. parser.at # "complete"
  BY <1>1, <1>2 DEF ClientInductive, ParserInStep
<1>11. LastParsed = "end" /\ asked[request].head
  BY <1>8, <1>9, <1>10 DEF After, Completing
<1>12. Top = "headersCompleted"
  BY <1>1, <1>5, <1>11 DEF InPlace
<1>13. QED
  BY <1>12 DEF EventLoop

\* A lost connection.
LEMMA ErrorIsEarly ==
  ASSUME OneInterim, \A a \in Answers : a.framing # "eof", ReadBufferSize = 0,
         ConservedInductive, NEW e \in Errors, DeviceError(e),
         e = "RemoteHostClosedError" => device = "connected",
         device # "unconnected"
  PROVE  ClosedEarly'
<1>1. /\ EventLoop /\ cut' = (stream # <<>>)
      /\ IF pending THEN error' = e ELSE error' = error
  BY DEF DeviceError
<1>2. ClientInductive
  BY PartsNow
<1>3. CASE pending
  <2>1. e = "RemoteHostClosedError" => stream # <<>>
    BY <1>1, <1>3, ClosedInside
  <2>2. QED
    BY <1>1, <1>3, <2>1 DEF ClosedEarly
<1>4. CASE ~pending
  <2>1. device = "connected"
    BY <1>2, <1>4 DEF ClientInductive, DeviceInStep, TypeOK
  <2>2. error' = "NoError"
    BY <1>1, <1>4, <2>1, PartsNow DEF Empty
  <2>3. QED
    BY <2>2 DEF ClosedEarly
<1>5. QED
  BY <1>3, <1>4

\* When every response tells its length and the whole of what comes is read,
\* RemoteHostClosedError says that the server closed before it had sent its reply
\* (HttpClient.h, RemoteHostClosedError; HttpClient::device_error).
THEOREM ClosedIsEarly ==
  ASSUME OneInterim, \A a \in Answers : a.framing # "eof", ReadBufferSize = 0
  PROVE  Spec => []ClosedEarly
<1>1. Init => ClosedEarly
  BY DEF Init, ClosedEarly
<1>2. ASSUME ConservedInductive, ClosedEarly, [Next]_vars
      PROVE  ClosedEarly'
  <2> DEFINE Same == error' = error /\ cut' = cut
             Other == error' \in Errors \ {"RemoteHostClosedError"}
  <2>1. Same => ClosedEarly'
    BY <1>2 DEF ClosedEarly
  <2>2. Other => ClosedEarly'
    BY DEF ClosedEarly
  <2>3. \A r, what : StartRequest(r, what) => Other
    BY DEF StartRequest, Errors
  <2>4. CASE UNCHANGED vars
    BY <2>1, <2>4 DEF vars, requestVars, historyVars
  <2>5. CASE Steps
    <3>1. CASE MessageBegin \/ OnHeader \/ OnContinue
      BY <2>1, <3>1 DEF MessageBegin, OnHeader, OnContinue, requestVars
    <3>2. CASE HeadersComplete \/ OnFraming \/ MessageContent
      BY <2>1, <3>2 DEF HeadersComplete, OnFraming, MessageContent, requestVars
    <3>3. CASE ContinueComplete \/ ContentHandled \/ ParserFails
      BY <2>1, <3>3 DEF ContinueComplete, ContentHandled, ParserFails,
         requestVars, historyVars
    <3>4. CASE FinishedHandled \/ InjectAgain
      BY <2>1, <3>4 DEF FinishedHandled, InjectAgain, requestVars, historyVars
    <3>5. CASE HeadersHandled \/ ResponseComplete
      BY <2>1, <3>5 DEF HeadersHandled, ResponseComplete, historyVars
    <3>6. CASE RejectResponse
      BY <2>2, <3>6 DEF RejectResponse, Errors
    <3>7. CASE ReadyReadReturns
      <4>1. \/ StartRequest(deferred, asked[deferred])
            \/ UNCHANGED <<requestVars, historyVars>>
        BY <3>7 DEF ReadyReadReturns, Release
      <4>2. QED
        BY <2>1, <2>2, <2>3, <4>1 DEF requestVars, historyVars
    <3>8. QED
      BY <2>5, <3>1, <3>2, <3>3, <3>4, <3>5, <3>6, <3>7 DEF Steps
  <2>6. CASE Application
    <3>1. ASSUME NEW what \in Request, RequestNow(what)
          PROVE  ClosedEarly'
      BY <2>2, <2>3, <3>1 DEF RequestNow
    <3>2. ASSUME NEW what \in Request, RequestLater(what)
          PROVE  ClosedEarly'
      BY <2>1, <3>2 DEF RequestLater, historyVars
    <3>3. CASE AbortResponse
      BY <2>2, <3>3 DEF AbortResponse, Errors
    <3>4. CASE AbortConnection \/ ConsumeContent
      BY <2>1, <3>4 DEF AbortConnection, ConsumeContent, requestVars, historyVars
    <3>5. QED
      BY <2>6, <3>1, <3>2, <3>3, <3>4 DEF Application
  <2>7. CASE Receive \/ TimerFires \/ UnaskedInput
    BY <2>1, <2>7 DEF Receive, ReadyRead, TimerFires, UnaskedInput, requestVars,
       historyVars
  <2>8. {"NetworkError", "RemoteHostClosedError"} \subseteq Errors
    BY DEF Errors
  <2>9. CASE Network
    <3>1. CASE DeviceConnected
      <4>1. pending /\ error' = error
        BY <1>2, <3>1, PartsNow DEF DeviceConnected, ClientInductive, DeviceInStep,
           requestVars
      <4>2. error = "NoError"
        BY <1>2, <4>1, PartsNow DEF ClientInductive, ParserInStep
      <4>3. QED
        BY <4>1, <4>2 DEF ClosedEarly
    <3>2. CASE ConnectFails
      BY <1>2, <2>8, <3>2, ErrorIsEarly DEF ConnectFails
    <3>3. CASE ConnectionFails
      BY <1>2, <2>8, <3>3, ErrorIsEarly DEF ConnectionFails
    <3>4. CASE RemoteHostCloses
      BY <1>2, <2>8, <3>4, ErrorIsEarly DEF RemoteHostCloses
    <3>5. QED
      BY <2>7, <2>9, <3>1, <3>2, <3>3, <3>4 DEF Network
  <2>10. QED
    BY <1>2, <2>4, <2>5, <2>6, <2>7, <2>9 DEF Next
<1>3. QED
  BY <1>1, <1>2, ConservedInductiveInvariant, PTL DEF Spec

(***************************************************************************)
(* What is where in an answer, and how many octets of content there are    *)
(* among its first units.                                                  *)
(***************************************************************************)

\* The first 2 * n elements of f: k at the odd positions and l at the others.
Alternates(f, n, k, l) ==
  \A i \in 1 .. 2 * n : f[i] = IF i % 2 = 1 THEN k ELSE l

\* Two units, n times: the first at the odd positions.
LEMMA TimesTwoAt ==
  ASSUME NEW S, NEW k \in S, NEW l \in S, NEW n \in Nat,
         NEW f, f = Times(n, <<k, l>>)
  PROVE  f \in Seq(S) /\ Len(f) = 2 * n /\ Alternates(f, n, k, l)
<1> DEFINE e(i) == <<k, l>>[((i - 1) % 2) + 1]
<1>1. Len(<<k, l>>) = 2 /\ n * 2 = 2 * n
  OBVIOUS
<1>2. f = [i \in 1 .. 2 * n |-> e(i)]
  BY <1>1 DEF Times
<1>3. \A i \in 1 .. 2 * n : e(i) = IF i % 2 = 1 THEN k ELSE l
  <2>1. ASSUME NEW i \in 1 .. 2 * n
        PROVE  IF i % 2 = 1 THEN ((i - 1) % 2) + 1 = 1 ELSE ((i - 1) % 2) + 1 = 2
    OBVIOUS
  <2>2. QED
    BY <2>1
<1>4. \A i \in 1 .. 2 * n : e(i) \in S
  BY <1>3
<1> HIDE DEF e
<1>5. f \in [1 .. 2 * n -> S] /\ \A i \in 1 .. 2 * n : f[i] = e(i)
  BY <1>2, <1>4
<1>6. 2 * n \in Nat
  OBVIOUS
<1> DEFINE m == 2 * n
<1>7. f \in Seq(S) /\ Len(f) = m
  <2>1. m \in Nat /\ f \in [1 .. m -> S]
    BY <1>5, <1>6
  <2> HIDE DEF m
  <2>2. QED
    BY <2>1, FunctionSeq
<1>8. QED
  BY <1>3, <1>5, <1>7 DEF Alternates

\* The content of a response: a frame before each octet of it and the last
\* chunk, or the octets, the last of which completes it.
LEMMA ContentLayout ==
  ASSUME NEW a \in Answer, a.framing # "eof",
         ~(a.framing = "length" /\ a.body = 0),
         NEW c, c = ContentKinds(a)
  PROVE  /\ c \in Seq(UnitKinds)
         /\ Len(c) = IF a.framing = "chunked" THEN 2 * a.body + 1 ELSE a.body
         /\ \A i \in 1 .. Len(c) :
              c[i] = IF a.framing = "chunked"
                     THEN IF i = Len(c) THEN "last"
                          ELSE IF i % 2 = 1 THEN "frame" ELSE "body"
                     ELSE IF i = Len(c) THEN "bodyLast" ELSE "body"
<1>1. a.body \in Nat /\ a.framing \in {"length", "chunked", "eof"}
  BY AnswerFields
<1>2. {"frame", "body", "last", "bodyLast"} \subseteq UnitKinds
  BY DEF UnitKinds
<1>3. ASSUME NEW t \in Seq(UnitKinds), NEW k \in {"last", "bodyLast"}, c = t \o <<k>>
      PROVE  /\ c \in Seq(UnitKinds) /\ Len(c) = Len(t) + 1
             /\ Len(t) \in Nat
             /\ c[Len(t) + 1] = k
             /\ \A i \in 1 .. Len(t) : c[i] = t[i]
  <2>1. <<k>> \in Seq(UnitKinds) /\ Len(<<k>>) = 1 /\ <<k>>[1] = k
    BY <1>2
  <2> DEFINE o == <<k>>
  <2>2. o \in Seq(UnitKinds) /\ Len(o) = 1 /\ o[1] = k /\ c = t \o o
    BY <1>3, <2>1
  <2> HIDE DEF o
  <2>3. /\ c \in Seq(UnitKinds) /\ Len(c) = Len(t) + Len(o)
        /\ Len(t) \in Nat
        /\ \A i \in 1 .. Len(t) : c[i] = t[i]
        /\ \A i \in 1 .. Len(o) : c[Len(t) + i] = o[i]
    <3>1. t \in Seq(UnitKinds) /\ o \in Seq(UnitKinds) /\ c = t \o o
      BY <2>2
    <3>2. QED
      BY <3>1, Joined
  <2>4. QED
    BY <2>2, <2>3
<1>4. CASE a.framing = "chunked"
  <2> DEFINE t == Times(a.body, <<"frame", "body">>)
  <2>1. c = t \o <<"last">>
    BY <1>4 DEF ContentKinds
  <2>2. /\ t \in Seq(UnitKinds) /\ Len(t) = 2 * a.body
        /\ \A i \in 1 .. 2 * a.body : t[i] = IF i % 2 = 1 THEN "frame" ELSE "body"
    <3> DEFINE n == a.body
               f == "frame"
               b == "body"
    <3>1. f \in UnitKinds /\ b \in UnitKinds
      BY DEF UnitKinds
    <3>2. n \in Nat /\ t = Times(n, <<f, b>>)
      BY <1>1
    <3> HIDE DEF n, t, f, b
    <3>3. t \in Seq(UnitKinds) /\ Len(t) = 2 * n /\ Alternates(t, n, f, b)
      BY <3>1, <3>2, TimesTwoAt
    <3>4. QED
      BY <3>3 DEF n, f, b, Alternates
  <2> HIDE DEF t
  <2>3. /\ c \in Seq(UnitKinds) /\ Len(c) = Len(t) + 1
        /\ c[Len(t) + 1] = "last"
        /\ \A i \in 1 .. Len(t) : c[i] = t[i]
    BY <1>3, <2>1, <2>2
  <2>4. Len(c) = 2 * a.body + 1
    BY <2>2, <2>3
  <2>5. ASSUME NEW i \in 1 .. Len(c), i # Len(c)
        PROVE  c[i] = IF i % 2 = 1 THEN "frame" ELSE "body"
    <3>1. i \in 1 .. Len(t) /\ i \in 1 .. 2 * a.body
      BY <1>1, <2>2, <2>4, <2>5
    <3>2. QED
      BY <2>2, <2>3, <3>1
  <2>6. c[Len(c)] = "last"
    BY <2>3
  <2>7. QED
    BY <1>4, <2>3, <2>4, <2>5, <2>6
<1>5. CASE a.framing = "length" /\ a.body > 0
  <2> DEFINE n == a.body - 1
             t == Times(n, <<"body">>)
  <2>1. c = t \o <<"bodyLast">>
    BY <1>5 DEF ContentKinds
  <2>2. n \in Nat /\ "body" \in UnitKinds /\ a.body = n + 1
    BY <1>1, <1>2, <1>5
  <2> HIDE DEF n
  <2>3. /\ t \in Seq(UnitKinds) /\ Len(t) = n
        /\ \A i \in 1 .. n : t[i] = "body"
    BY <2>2, TimesOne
  <2> HIDE DEF t
  <2>4. /\ c \in Seq(UnitKinds) /\ Len(c) = Len(t) + 1
        /\ c[Len(t) + 1] = "bodyLast"
        /\ \A i \in 1 .. Len(t) : c[i] = t[i]
    BY <1>3, <2>1, <2>3
  <2>5. ASSUME NEW i \in 1 .. Len(c), i # Len(c)
        PROVE  c[i] = "body"
    <3>1. i \in 1 .. n
      BY <2>2, <2>3, <2>4, <2>5
    <3>2. QED
      BY <2>3, <2>4, <3>1
  <2>6. c[Len(c)] = "bodyLast" /\ Len(c) = a.body
    BY <2>2, <2>3, <2>4
  <2>7. QED
    BY <1>5, <2>4, <2>5, <2>6
<1>6. QED
  BY <1>1, <1>4, <1>5

\* Whether content follows the head of the answer, and how much.
Follows(a, head) == ~head /\ ~(a.framing = "length" /\ a.body = 0)

ContentUnits(a, head) ==
  IF ~Follows(a, head) THEN 0
  ELSE IF a.framing = "chunked" THEN 2 * a.body + 1 ELSE a.body

\* Element i of the content.
ContentUnit(a, i) ==
  IF a.framing = "chunked"
  THEN IF i = 2 * a.body + 1 THEN "last" ELSE IF i % 2 = 1 THEN "frame" ELSE "body"
  ELSE IF i = a.body THEN "bodyLast" ELSE "body"

\* What follows the header fields: the end of the head, then the content.
LEMMA RestLayout ==
  ASSUME NEW a \in Answer, NEW head \in BOOLEAN, ~a.bad, a.framing # "eof",
         NEW t, t = Rest(a, head)
  PROVE  /\ t \in Seq(UnitKinds)
         /\ Len(t) = ContentUnits(a, head) + 1 /\ ContentUnits(a, head) \in Nat
         /\ t[1] = IF a.framing = "length" /\ a.body = 0 THEN "endEmpty" ELSE "end"
         /\ \A i \in 1 .. ContentUnits(a, head) : t[i + 1] = ContentUnit(a, i)
<1>1. a.body \in Nat /\ a.framing \in {"length", "chunked"}
  BY AnswerFields
<1>2. \A k \in {"endEmpty", "end"} :
        /\ <<k>> \in Seq(UnitKinds) /\ Len(<<k>>) = 1 /\ <<k>>[1] = k
  BY DEF UnitKinds
<1>3. CASE a.framing = "length" /\ a.body = 0
  <2>1. t = <<"endEmpty">> /\ ContentUnits(a, head) = 0
    BY <1>3 DEF Rest, ContentUnits, Follows
  <2>2. t \in Seq(UnitKinds) /\ Len(t) = 1 /\ t[1] = "endEmpty"
    BY <1>2, <2>1
  <2>3. \A i \in 1 .. 0 : FALSE
    OBVIOUS
  <2>4. QED
    BY <1>3, <2>1, <2>2, <2>3
<1>4. CASE ~(a.framing = "length" /\ a.body = 0) /\ head
  <2>1. t = <<"end">> /\ ContentUnits(a, head) = 0
    BY <1>4 DEF Rest, ContentUnits, Follows
  <2>2. t \in Seq(UnitKinds) /\ Len(t) = 1 /\ t[1] = "end"
    BY <1>2, <2>1
  <2>3. \A i \in 1 .. 0 : FALSE
    OBVIOUS
  <2>4. t[1] = IF a.framing = "length" /\ a.body = 0 THEN "endEmpty" ELSE "end"
    BY <1>4, <2>2
  <2>5. QED
    BY <2>1, <2>2, <2>3, <2>4
<1>5. CASE ~(a.framing = "length" /\ a.body = 0) /\ ~head
  <2> DEFINE e == <<"end">>
             c == ContentKinds(a)
             n == ContentUnits(a, head)
  <2>1. t = e \o c
    BY <1>5 DEF Rest
  <2>2. e \in Seq(UnitKinds) /\ Len(e) = 1 /\ e[1] = "end"
    BY <1>2
  <2>3. n = IF a.framing = "chunked" THEN 2 * a.body + 1 ELSE a.body
    BY <1>5 DEF ContentUnits, Follows
  <2>4. /\ c \in Seq(UnitKinds)
        /\ Len(c) = IF a.framing = "chunked" THEN 2 * a.body + 1 ELSE a.body
        /\ \A i \in 1 .. Len(c) :
             c[i] = IF a.framing = "chunked"
                    THEN IF i = Len(c) THEN "last"
                         ELSE IF i % 2 = 1 THEN "frame" ELSE "body"
                    ELSE IF i = Len(c) THEN "bodyLast" ELSE "body"
    BY <1>5, ContentLayout
  <2> HIDE DEF e, c, n
  <2>5. Len(c) = n /\ n \in Nat
    BY <1>1, <2>3, <2>4
  <2>6. \A i \in 1 .. n : c[i] = ContentUnit(a, i)
    BY <1>1, <2>3, <2>4, <2>5 DEF ContentUnit
  <2>7. /\ t \in Seq(UnitKinds) /\ Len(t) = Len(e) + Len(c)
        /\ \A i \in 1 .. Len(e) : t[i] = e[i]
        /\ \A i \in 1 .. Len(c) : t[Len(e) + i] = c[i]
    <3>1. e \in Seq(UnitKinds) /\ c \in Seq(UnitKinds)
      BY <2>2, <2>4
    <3>2. QED
      BY <2>1, <3>1, Joined
  <2>8. t[1] = "end"
    BY <2>2, <2>7
  <2>9. \A i \in 1 .. n : t[i + 1] = c[i] /\ i + 1 = 1 + i
    BY <2>2, <2>5, <2>7
  <2>10. Len(t) = n + 1
    BY <2>2, <2>5, <2>7
  <2>11. t[1] = IF a.framing = "length" /\ a.body = 0 THEN "endEmpty" ELSE "end"
    BY <1>5, <2>8
  <2>12. \A i \in 1 .. n : t[i + 1] = ContentUnit(a, i)
    BY <2>6, <2>9
  <2>13. QED
    BY <2>5, <2>7, <2>10, <2>11, <2>12 DEF n
<1>6. QED
  BY <1>3, <1>4, <1>5

\* The position of the end of the head.
HeadEnd(a) == 2 * a.interim + a.headers + 2

\* Element i of the head before its end.
HeadUnit(a, i) ==
  IF i = 2 * a.interim + 1 \/ i = 1 THEN "begin"
  ELSE IF i < 2 * a.interim + 1 THEN "continue" ELSE "header"

\* What is where in an answer.
LEMMA Layout ==
  ASSUME NEW a \in Answer, NEW head \in BOOLEAN, ~a.bad, a.framing # "eof",
         a.interim <= 1, NEW k, k = Kinds(a, head)
  PROVE  /\ HeadEnd(a) \in Nat \ {0, 1} /\ ContentUnits(a, head) \in Nat
         /\ Len(k) = HeadEnd(a) + ContentUnits(a, head)
         /\ \A i \in 1 .. HeadEnd(a) - 1 : k[i] = HeadUnit(a, i)
         /\ k[HeadEnd(a)] =
              IF a.framing = "length" /\ a.body = 0 THEN "endEmpty" ELSE "end"
         /\ \A i \in 1 .. ContentUnits(a, head) :
              k[HeadEnd(a) + i] = ContentUnit(a, i)
<1> DEFINE f == Times(a.interim, <<"begin", "continue">>)
           g == <<"begin">>
           h == Times(a.headers, <<"header">>)
           t == Rest(a, head)
           n == ContentUnits(a, head)
<1>1. k = ((f \o g) \o h) \o t
  BY DEF Kinds, Rest
<1>2. a.interim \in Nat /\ a.headers \in Nat /\ a.interim \in {0, 1}
  BY AnswerFields
<1>3. /\ f \in Seq(UnitKinds) /\ Len(f) = 2 * a.interim
      /\ a.interim = 1 => f[1] = "begin" /\ f[2] = "continue"
  <2> DEFINE b == "begin"
             c == "continue"
             m == a.interim
  <2>1. b \in UnitKinds /\ c \in UnitKinds
    BY DEF UnitKinds
  <2>2. m \in Nat /\ f = Times(m, <<b, c>>)
    BY <1>2
  <2> HIDE DEF f, b, c, m
  <2>3. f \in Seq(UnitKinds) /\ Len(f) = 2 * m /\ Alternates(f, m, b, c)
    BY <2>1, <2>2, TimesTwoAt
  <2>4. m = 1 => f[1] = b /\ f[2] = c
    <3>1. 1 % 2 = 1 /\ 2 % 2 = 0
      OBVIOUS
    <3>2. m = 1 => 1 \in 1 .. 2 * m /\ 2 \in 1 .. 2 * m
      OBVIOUS
    <3>3. QED
      BY <2>3, <3>1, <3>2 DEF Alternates
  <2>5. QED
    BY <2>3, <2>4 DEF b, c, m
<1>4. g \in Seq(UnitKinds) /\ Len(g) = 1 /\ g[1] = "begin"
  BY DEF UnitKinds
<1>5. /\ h \in Seq(UnitKinds) /\ Len(h) = a.headers
      /\ \A i \in 1 .. a.headers : h[i] = "header"
  <2> DEFINE m == a.headers
             e == "header"
  <2>1. m \in Nat /\ e \in UnitKinds /\ h = Times(m, <<e>>)
    BY <1>2 DEF UnitKinds
  <2> HIDE DEF h, m, e
  <2>2. h \in Seq(UnitKinds) /\ Len(h) = m /\ \A i \in 1 .. m : h[i] = e
    BY <2>1, TimesOne
  <2>3. QED
    BY <2>2 DEF m, e
<1>6. /\ t \in Seq(UnitKinds) /\ Len(t) = n + 1 /\ n \in Nat
      /\ t[1] = IF a.framing = "length" /\ a.body = 0 THEN "endEmpty" ELSE "end"
      /\ \A i \in 1 .. n : t[i + 1] = ContentUnit(a, i)
  BY RestLayout
<1> HIDE DEF f, g, h, t, n
<1> DEFINE fg == f \o g
           u == fg \o h
           p == HeadEnd(a)
<1>7. /\ fg \in Seq(UnitKinds) /\ Len(fg) = 2 * a.interim + 1
      /\ \A i \in 1 .. Len(f) : fg[i] = f[i]
      /\ fg[2 * a.interim + 1] = "begin"
  <2>1. f \in Seq(UnitKinds) /\ g \in Seq(UnitKinds)
    BY <1>3, <1>4
  <2> HIDE DEF fg
  <2>2. /\ fg \in Seq(UnitKinds) /\ Len(fg) = Len(f) + Len(g)
        /\ \A i \in 1 .. Len(f) : fg[i] = f[i]
        /\ \A i \in 1 .. Len(g) : fg[Len(f) + i] = g[i]
    BY <2>1, Joined DEF fg
  <2>3. QED
    BY <1>3, <1>4, <2>2
<1> HIDE DEF fg
<1>8. /\ u \in Seq(UnitKinds) /\ Len(u) = p - 1 /\ p \in Nat \ {0, 1}
      /\ \A i \in 1 .. Len(fg) : u[i] = fg[i]
      /\ \A i \in 1 .. a.headers : u[Len(fg) + i] = "header"
  <2>1. fg \in Seq(UnitKinds) /\ h \in Seq(UnitKinds)
    BY <1>5, <1>7
  <2>2. /\ u \in Seq(UnitKinds) /\ Len(u) = Len(fg) + Len(h)
        /\ \A i \in 1 .. Len(fg) : u[i] = fg[i]
        /\ \A i \in 1 .. Len(h) : u[Len(fg) + i] = h[i]
    BY <2>1, Joined
  <2>3. p = 2 * a.interim + a.headers + 2
    BY DEF HeadEnd
  <2> HIDE DEF u, p
  <2>4. Len(u) = p - 1 /\ p \in Nat \ {0, 1}
    <3>1. a.interim \in Nat /\ a.headers \in Nat
      BY <1>2
    <3>2. Len(u) = (2 * a.interim + 1) + a.headers
      BY <1>5, <1>7, <2>2
    <3>3. QED
      BY <2>3, <3>1, <3>2
  <2>5. \A i \in 1 .. a.headers : u[Len(fg) + i] = "header"
    BY <1>5, <2>2
  <2>6. QED
    BY <2>2, <2>4, <2>5
<1>9. /\ k \in Seq(UnitKinds) /\ Len(k) = Len(u) + Len(t)
      /\ \A i \in 1 .. Len(u) : k[i] = u[i]
      /\ \A i \in 1 .. Len(t) : k[Len(u) + i] = t[i]
  <2>1. k = u \o t
    BY <1>1 DEF fg
  <2> HIDE DEF u
  <2>2. u \in Seq(UnitKinds) /\ t \in Seq(UnitKinds)
    BY <1>6, <1>8
  <2>3. QED
    BY <2>1, <2>2, Joined
<1> HIDE DEF u, p
<1>10. Len(k) = p + n
  BY <1>6, <1>8, <1>9
<1>11. ASSUME NEW i \in 1 .. p - 1
       PROVE  k[i] = HeadUnit(a, i)
  <2>1. k[i] = u[i] /\ i \in 1 .. Len(u)
    BY <1>8, <1>9
  <2>2. p = 2 * a.interim + a.headers + 2
    BY DEF p, HeadEnd
  <2>3. CASE i > 2 * a.interim + 1
    <3>1. i - Len(fg) \in 1 .. a.headers /\ Len(fg) + (i - Len(fg)) = i
      <4>1. a.interim \in Nat /\ a.headers \in Nat /\ i \in Nat /\ i <= p - 1
        BY <1>2, <1>8
      <4> DEFINE m == 2 * a.interim + 1
                 l == Len(fg)
      <4>2. l = m /\ m \in Nat /\ p = m + a.headers + 1 /\ i > m
        <5>1. l = m
          BY <1>7
        <5>2. m \in Nat /\ p = m + a.headers + 1
          BY <2>2, <4>1
        <5>3. QED
          BY <2>3, <5>1, <5>2
      <4> HIDE DEF m, l
      <4>3. i - l \in 1 .. a.headers /\ l + (i - l) = i
        BY <4>1, <4>2
      <4>4. QED
        BY <4>3 DEF l
    <3>2. u[i] = "header"
      BY <1>8, <3>1
    <3>3. HeadUnit(a, i) = "header"
      BY <1>2, <2>3 DEF HeadUnit
    <3>4. QED
      BY <2>1, <3>2, <3>3
  <2>4. CASE i = 2 * a.interim + 1
    BY <1>7, <1>8, <2>1, <2>4 DEF HeadUnit
  <2>5. CASE i < 2 * a.interim + 1
    <3>1. a.interim = 1 /\ i \in {1, 2} /\ i \in 1 .. Len(f) /\ i \in 1 .. Len(fg)
      BY <1>2, <1>3, <1>7, <2>5
    <3>2. u[i] = f[i] /\ f[1] = "begin" /\ f[2] = "continue"
      BY <1>3, <1>7, <1>8, <3>1
    <3>3. QED
      BY <2>1, <3>1, <3>2 DEF HeadUnit
  <2>6. QED
    BY <1>2, <2>3, <2>4, <2>5
<1>12. k[p] = t[1]
  <2>1. 1 \in 1 .. Len(t) /\ Len(u) + 1 = p
    BY <1>6, <1>8
  <2>2. QED
    BY <1>9, <2>1
<1>13. ASSUME NEW i \in 1 .. n
       PROVE  k[p + i] = ContentUnit(a, i)
  <2>1. i + 1 \in 1 .. Len(t) /\ Len(u) + (i + 1) = p + i
    BY <1>6, <1>8
  <2>2. QED
    BY <1>6, <1>9, <2>1
<1>14. QED
  BY <1>6, <1>8, <1>10, <1>11, <1>12, <1>13 DEF p, n

\* The octets among the first n units of an answer.
Amount(a, n) ==
  IF n <= HeadEnd(a) THEN 0
  ELSE IF a.framing = "chunked" THEN (n - HeadEnd(a)) \div 2
  ELSE n - HeadEnd(a)

OctetKinds == {"body", "bodyLast"}
HeadKinds == {"header", "continue", "end", "endEmpty"}
ContentUnitKinds == {"frame", "last", "body", "bodyLast"}

\* Of the units of an answer to a, k, those that are no octets do not count, and
\* a run of octets counts as many as it has.
OthersUncounted(a, k) ==
  \A i \in 1 .. Len(k) :
    k[i] \notin OctetKinds => Amount(a, i) = Amount(a, i - 1)

RunsCounted(a, k) ==
  \A u \in 0 .. Len(k), n \in 1 .. Len(k) :
    u + n <= Len(k) /\ (\A i \in 1 .. n : k[u + i] \in OctetKinds) =>
      Amount(a, u + n) = Amount(a, u) + n

\* Counting the octets of an answer.
LEMMA Counting ==
  ASSUME NEW a \in Answer, NEW head \in BOOLEAN, ~a.bad, a.framing # "eof",
         a.interim <= 1, NEW k, k = Kinds(a, head)
  PROVE  /\ Amount(a, 0) = 0
         /\ OthersUncounted(a, k) /\ RunsCounted(a, k)
         /\ Amount(a, Len(k)) = IF head THEN 0 ELSE a.body
<1> DEFINE h == HeadEnd(a)
           c == ContentUnits(a, head)
<1>1. a.body \in Nat /\ a.framing \in {"length", "chunked"} /\ a.interim \in {0, 1}
  BY AnswerFields
<1>2. /\ h \in Nat \ {0, 1} /\ c \in Nat
      /\ Len(k) = h + c
      /\ \A i \in 1 .. h - 1 : k[i] = HeadUnit(a, i)
      /\ k[h] \in {"endEmpty", "end"}
      /\ \A i \in 1 .. c : k[h + i] = ContentUnit(a, i)
  BY Layout
<1>3. \A n : Amount(a, n) =
               IF n <= h THEN 0
               ELSE IF a.framing = "chunked" THEN (n - h) \div 2
               ELSE n - h
  BY DEF Amount
<1>4. /\ c > 0 => c = IF a.framing = "chunked" THEN 2 * a.body + 1 ELSE a.body
      /\ c > 0 => ~head
      /\ c = 0 /\ ~head => a.body = 0
  BY <1>1 DEF ContentUnits, Follows
<1> HIDE DEF h, c
<1>5. ASSUME NEW i \in 1 .. Len(k), k[i] \in OctetKinds
      PROVE  i > h /\ i - h \in 1 .. c /\ ContentUnit(a, i - h) \in OctetKinds
  <2>1. k[h] \notin OctetKinds
    BY <1>2 DEF OctetKinds
  <2>2. \A j \in 1 .. h - 1 : k[j] \notin OctetKinds
    BY <1>2 DEF HeadUnit, OctetKinds
  <2>3. i > h
    BY <1>2, <1>5, <2>1, <2>2
  <2>4. i - h \in 1 .. c /\ h + (i - h) = i
    BY <1>2, <2>3
  <2>5. QED
    BY <1>2, <1>5, <2>3, <2>4
<1>6. ASSUME NEW i \in 1 .. Len(k), k[i] \notin OctetKinds
      PROVE  Amount(a, i) = Amount(a, i - 1)
  <2>1. CASE i <= h
    BY <1>2, <1>3, <2>1
  <2>2. CASE i > h
    <3> DEFINE j == i - h
    <3>1. j \in 1 .. c /\ h + j = i /\ c > 0
      BY <1>2, <2>2
    <3>2. ContentUnit(a, j) \notin OctetKinds
      BY <1>2, <1>6, <3>1
    <3> HIDE DEF j
    <3>3. a.framing = "chunked" /\ j % 2 = 1
      <4>1. a.framing = "chunked"
        BY <1>1, <3>2 DEF ContentUnit, OctetKinds
      <4>2. j = 2 * a.body + 1 \/ j % 2 = 1
        BY <3>2, <4>1 DEF ContentUnit, OctetKinds
      <4>3. (2 * a.body + 1) % 2 = 1
        BY <1>1
      <4>4. QED
        BY <4>1, <4>2, <4>3
    <3>4. j \div 2 = (j - 1) \div 2
      BY <3>1, <3>3
    <3>5. i - h = j /\ (i - 1) - h = j - 1 /\ h \in Nat /\ j \in Nat /\ j >= 1
      BY <1>2, <3>1
    <3>6. Amount(a, i) = j \div 2
      BY <1>3, <2>2, <3>3, <3>5
    <3>7. Amount(a, i - 1) = (j - 1) \div 2
      <4>1. CASE j = 1
        <5>1. i - 1 <= h
          BY <1>2, <3>1, <4>1
        <5>2. Amount(a, i - 1) = 0
          BY <1>3, <5>1
        <5>3. QED
          BY <4>1, <5>2
      <4>2. CASE j # 1
        <5>1. ~(i - 1 <= h)
          BY <1>2, <3>1, <4>2
        <5>2. QED
          BY <1>3, <3>3, <3>5, <5>1
      <4>3. QED
        BY <4>1, <4>2
    <3>8. QED
      BY <3>4, <3>6, <3>7
  <2>3. QED
    BY <1>2, <2>1, <2>2
<1>7. ASSUME NEW u \in 0 .. Len(k), NEW n \in 1 .. Len(k), u + n <= Len(k),
             \A i \in 1 .. n : k[u + i] \in OctetKinds
      PROVE  Amount(a, u + n) = Amount(a, u) + n
  <2>1. u + 1 \in 1 .. Len(k) /\ k[u + 1] \in OctetKinds
    BY <1>2, <1>7
  <2> DEFINE j == u + 1 - h
  <2>2. j \in 1 .. c /\ ContentUnit(a, j) \in OctetKinds /\ u >= h
    BY <1>2, <1>5, <2>1
  <2>3. u = h + (j - 1) /\ u + n = h + (j - 1 + n)
    BY <1>2
  <2> HIDE DEF j
  <2>4. CASE a.framing = "length"
    <3>1. Amount(a, u + n) = (u + n) - h
      <4>1. ~(u + n <= h)
        BY <1>2, <2>2
      <4>2. QED
        BY <1>3, <2>4, <4>1
    <3>2. Amount(a, u) = u - h
      <4>1. CASE u = h
        BY <1>2, <1>3, <4>1
      <4>2. CASE u # h
        <5>1. ~(u <= h)
          BY <1>2, <2>2, <4>2
        <5>2. QED
          BY <1>3, <2>4, <5>1
      <4>3. QED
        BY <4>1, <4>2
    <3>3. QED
      BY <1>2, <3>1, <3>2
  <2>5. CASE a.framing = "chunked"
    <3>1. j % 2 = 0
      BY <2>2, <2>5 DEF ContentUnit, OctetKinds
    <3>2. n = 1
      <4>1. SUFFICES ASSUME n # 1
                     PROVE  FALSE
        OBVIOUS
      <4>2. u + 2 \in 1 .. Len(k) /\ k[u + 2] \in OctetKinds
        BY <1>2, <1>7, <4>1
      <4>3. ContentUnit(a, (u + 2) - h) \in OctetKinds
        BY <1>5, <4>2
      <4>4. (u + 2) - h = j + 1
        BY <1>2, <2>2, <2>3
      <4>5. ContentUnit(a, j + 1) \in OctetKinds
        BY <4>3, <4>4
      <4>6. (j + 1) % 2 # 1
        BY <2>5, <4>5 DEF ContentUnit, OctetKinds
      <4>7. QED
        BY <2>2, <3>1, <4>6
    <3>3. j >= 2 /\ j \in Nat
      BY <2>2, <3>1
    <3>4. j \div 2 = ((j - 1) \div 2) + 1
      BY <3>1, <3>3
    <3>5. Amount(a, u + 1) = j \div 2
      <4>1. ~(u + 1 <= h) /\ (u + 1) - h = j
        BY <1>2, <2>2, <2>3
      <4>2. QED
        BY <1>3, <2>5, <4>1
    <3>6. Amount(a, u) = (j - 1) \div 2
      <4>1. ~(u <= h) /\ u - h = j - 1
        BY <1>2, <2>2, <2>3, <3>3
      <4>2. QED
        BY <1>3, <2>5, <4>1
    <3>7. QED
      BY <3>2, <3>4, <3>5, <3>6
  <2>6. QED
    BY <1>1, <2>4, <2>5
<1>8. Amount(a, Len(k)) = IF head THEN 0 ELSE a.body
  <2>1. CASE c = 0
    <3>1. Len(k) <= h
      BY <1>2, <2>1
    <3>2. Amount(a, Len(k)) = 0
      BY <1>3, <3>1
    <3>3. QED
      BY <1>4, <2>1, <3>2
  <2>2. CASE c > 0
    <3>1. ~(Len(k) <= h) /\ Len(k) - h = c
      BY <1>2, <2>2
    <3>2. CASE a.framing = "chunked"
      <4>1. Amount(a, Len(k)) = c \div 2 /\ c = 2 * a.body + 1
        BY <1>3, <1>4, <2>2, <3>1, <3>2
      <4>2. (2 * a.body + 1) \div 2 = a.body
        BY <1>1
      <4>3. QED
        BY <1>4, <2>2, <4>1, <4>2
    <3>3. CASE a.framing = "length"
      BY <1>3, <1>4, <2>2, <3>1, <3>3
    <3>4. QED
      BY <1>1, <3>2, <3>3
  <2>3. QED
    BY <1>2, <2>1, <2>2
<1>9. Amount(a, 0) = 0
  BY <1>2, <1>3
<1>10. QED
  BY <1>6, <1>7, <1>8, <1>9 DEF OthersUncounted, RunsCounted

\* What may follow a unit.
Successors(kind) ==
  CASE kind \in {"begin", "header"} -> HeadKinds
    [] kind = "continue" -> {"begin"}
    [] kind \in {"end", "frame", "body"} -> ContentUnitKinds
    [] OTHER -> {}

\* In an answer, each unit may follow the one before.
LEMMA Succession ==
  ASSUME NEW a \in Answer, NEW head \in BOOLEAN, ~a.bad, a.framing # "eof",
         a.interim <= 1, NEW k, k = Kinds(a, head)
  PROVE  /\ k[1] = "begin"
         /\ \A i \in 2 .. Len(k) : k[i] \in Successors(k[i - 1])
<1> DEFINE h == HeadEnd(a)
           c == ContentUnits(a, head)
           m == 2 * a.interim + 1
<1>1. a.body \in Nat /\ a.framing \in {"length", "chunked"} /\ a.interim \in {0, 1}
      /\ a.headers \in Nat
  BY AnswerFields
<1>2. /\ h \in Nat \ {0, 1} /\ c \in Nat
      /\ Len(k) = h + c
      /\ \A i \in 1 .. h - 1 : k[i] = HeadUnit(a, i)
      /\ k[h] = IF a.framing = "length" /\ a.body = 0 THEN "endEmpty" ELSE "end"
      /\ \A i \in 1 .. c : k[h + i] = ContentUnit(a, i)
  BY Layout
<1>3. m \in {1, 3} /\ m < h
  BY <1>1 DEF HeadEnd
<1>4. \A i \in 1 .. h - 1 :
        /\ i = m => k[i] = "begin"
        /\ i > m => k[i] = "header"
        /\ i < m => m = 3 /\ (i = 1 => k[i] = "begin") /\ (i = 2 => k[i] = "continue")
  <2> TAKE i \in 1 .. h - 1
  <2>1. k[i] = HeadUnit(a, i) /\ i \in Nat /\ i >= 1
    BY <1>2
  <2>2. HeadUnit(a, i) = IF i = m \/ i = 1 THEN "begin"
                         ELSE IF i < m THEN "continue" ELSE "header"
    BY DEF HeadUnit
  <2> HIDE DEF m
  <2>3. QED
    BY <1>3, <2>1, <2>2
<1>5. c > 0 => /\ k[h] = "end"
               /\ c = IF a.framing = "chunked" THEN 2 * a.body + 1 ELSE a.body
  BY <1>1, <1>2 DEF ContentUnits, Follows
<1>6. \A i \in 1 .. c : ContentUnit(a, i) \in ContentUnitKinds
  BY DEF ContentUnit, ContentUnitKinds
<1>7. \A i \in 1 .. c : i # c => ContentUnit(a, i) \in {"frame", "body"}
  BY <1>2, <1>5 DEF ContentUnit
<1> HIDE DEF h, c, m
<1>8. k[1] = "begin"
  BY <1>2, <1>3, <1>4
<1>9. ASSUME NEW i \in 2 .. Len(k)
      PROVE  k[i] \in Successors(k[i - 1])
  <2>1. i \in Nat /\ i >= 2
    BY <1>2
  <2>2. CASE i <= m
    <3>1. m = 3 /\ (i = 2 \/ i = 3) /\ i \in 1 .. h - 1 /\ i - 1 \in 1 .. h - 1
      BY <1>2, <1>3, <2>1, <2>2
    <3>2. CASE i = 2
      <4>1. k[2] = "continue" /\ k[1] = "begin" /\ i - 1 = 1
        BY <1>4, <1>8, <3>1, <3>2
      <4>2. QED
        BY <3>2, <4>1 DEF Successors, HeadKinds
    <3>3. CASE i = 3
      <4>1. k[3] = "begin" /\ k[2] = "continue" /\ i - 1 = 2
        BY <1>4, <3>1, <3>3
      <4>2. QED
        BY <3>3, <4>1 DEF Successors
    <3>4. QED
      BY <3>1, <3>2, <3>3
  <2>3. CASE i > m /\ i <= h
    <3>1. i - 1 \in 1 .. h - 1 /\ i - 1 >= m
      BY <1>2, <1>3, <2>1, <2>3
    <3>2. k[i - 1] \in {"begin", "header"}
      BY <1>3, <1>4, <3>1
    <3>3. k[i] \in {"header", "end", "endEmpty"}
      <4>1. CASE i = h
        BY <1>2, <4>1
      <4>2. CASE i # h
        <5>1. i \in 1 .. h - 1
          BY <1>2, <2>1, <2>3, <4>2
        <5>2. QED
          BY <1>4, <2>3, <5>1
      <4>3. QED
        BY <4>1, <4>2
    <3>4. QED
      BY <3>2, <3>3 DEF Successors, HeadKinds
  <2>4. CASE i > h
    <3>1. i - h \in 1 .. c /\ h + (i - h) = i /\ c > 0
      BY <1>2, <2>1, <2>4
    <3>2. k[i] \in ContentUnitKinds
      BY <1>2, <1>6, <3>1
    <3>3. k[i - 1] \in {"end", "frame", "body"}
      <4>1. CASE i - 1 = h
        BY <1>5, <3>1, <4>1
      <4>2. CASE i - 1 # h
        <5>1. (i - 1) - h \in 1 .. c /\ (i - 1) - h # c /\ h + ((i - 1) - h) = i - 1
          BY <1>2, <2>1, <2>4, <4>2
        <5>2. k[i - 1] = ContentUnit(a, (i - 1) - h)
          BY <1>2, <5>1
        <5>3. QED
          BY <1>7, <5>1, <5>2
      <4>3. QED
        BY <4>1, <4>2
    <3>4. QED
      BY <3>2, <3>3 DEF Successors
  <2>5. QED
    BY <1>2, <1>3, <2>1, <2>2, <2>3, <2>4
<1>10. QED
  BY <1>8, <1>9

(***************************************************************************)
(* What is reported.                                                       *)
(***************************************************************************)

\* Every answer can be parsed, and tells where it ends.
AnswersTellTheirEnd == \A a \in Answers : ~a.bad /\ a.framing # "eof"

\* Counting the octets of the answer to the request, and what follows what in it.
LEMMA SoughtCounted ==
  ASSUME OneInterim, AnswersTellTheirEnd, ClientInductive, request # 0
  PROVE  /\ \A i \in 1 .. Len(Sought) :
              Sought[i].kind \notin OctetKinds =>
                Amount(answer, i) = Amount(answer, i - 1)
         /\ \A u \in 0 .. Len(Sought), n \in 1 .. Len(Sought) :
              /\ u + n <= Len(Sought)
              /\ \A i \in 1 .. n : Sought[u + i].kind \in OctetKinds
              => Amount(answer, u + n) = Amount(answer, u) + n
         /\ Amount(answer, Len(Sought)) =
              IF asked[request].head THEN 0 ELSE answer.body
         /\ Sought[1].kind = "begin"
         /\ \A i \in 2 .. Len(Sought) :
              Sought[i].kind \in Successors(Sought[i - 1].kind)
<1> DEFINE head == asked[request].head
           k == Kinds(answer, head)
<1>1. request \in Requests /\ asked[request] \in Request
  BY SoughtNow
<1>2. answer \in Answers
  BY DEF ClientInductive, TypeOK
<1>3. /\ answer \in Answer /\ head \in BOOLEAN /\ ~answer.bad
      /\ answer.framing # "eof" /\ answer.interim <= 1
  BY <1>1, <1>2, AnswersAssumption DEF OneInterim, AnswersTellTheirEnd, Request
<1>4. Sought = Units(request, answer, head)
  BY DEF Sought
<1>14. k = Kinds(answer, head)
  OBVIOUS
<1> HIDE DEF head, k
<1>5. /\ OthersUncounted(answer, k) /\ RunsCounted(answer, k)
      /\ Amount(answer, Len(k)) = IF head THEN 0 ELSE answer.body
  BY <1>3, <1>14, Counting
<1>6. k[1] = "begin" /\ \A i \in 2 .. Len(k) : k[i] \in Successors(k[i - 1])
  BY <1>3, <1>14, Succession
<1>7. /\ Len(Sought) = Len(k) /\ Len(k) \in Nat \ {0}
      /\ \A i \in 1 .. Len(k) : Sought[i].kind = k[i]
  BY <1>1, <1>3, <1>4, <1>14, UnitsOf
<1>8. ASSUME NEW i \in 1 .. Len(Sought), Sought[i].kind \notin OctetKinds
      PROVE  Amount(answer, i) = Amount(answer, i - 1)
  BY <1>5, <1>7, <1>8 DEF OthersUncounted
<1>9. ASSUME NEW u \in 0 .. Len(Sought), NEW n \in 1 .. Len(Sought),
             u + n <= Len(Sought),
             \A i \in 1 .. n : Sought[u + i].kind \in OctetKinds
      PROVE  Amount(answer, u + n) = Amount(answer, u) + n
  <2>1. \A i \in 1 .. n : u + i \in 1 .. Len(k)
    BY <1>7, <1>9
  <2>2. \A i \in 1 .. n : k[u + i] \in OctetKinds
    BY <1>7, <1>9, <2>1
  <2>3. QED
    BY <1>5, <1>7, <1>9, <2>2 DEF RunsCounted
<1>10. ASSUME NEW i \in 2 .. Len(Sought)
       PROVE  Sought[i].kind \in Successors(Sought[i - 1].kind)
  <2>1. i \in 1 .. Len(k) /\ i - 1 \in 1 .. Len(k) /\ i \in 2 .. Len(k)
    BY <1>7
  <2>2. QED
    BY <1>6, <1>7, <2>1
<1>11. Sought[1].kind = "begin"
  <2>1. 1 \in 1 .. Len(k)
    BY <1>7
  <2>2. QED
    BY <1>6, <1>7, <2>1
<1>12. Amount(answer, Len(Sought)) =
         IF asked[request].head THEN 0 ELSE answer.body
  BY <1>5, <1>7 DEF head
<1>13. QED
  BY <1>8, <1>9, <1>10, <1>11, <1>12

\* The buffer holds what comes next in the answer.
LEMMA Ahead ==
  ASSUME OneInterim, ClientInductive, Remains, request # 0
  PROVE  /\ Len(Sought) \in Nat /\ Len(buffer) \in Nat /\ parsed.units \in Nat
         /\ parsed.units + Len(buffer) <= Len(Sought)
         /\ \A i \in 1 .. Len(buffer) :
              /\ parsed.units + i \in 1 .. Len(Sought)
              /\ buffer[i] = Sought[parsed.units + i]
<1>1. /\ buffer \in Seq(Unit) /\ inbox \in Seq(Unit) /\ stream \in Seq(Unit)
      /\ parsed.units \in Nat
  BY DEF ClientInductive, TypeOK
<1> DEFINE t == inbox \o stream
           w == buffer \o t
<1>2. t \in Seq(Unit) /\ Len(t) \in Nat
  <2>1. t \in Seq(Unit)
    BY <1>1
  <2>2. QED
    BY <2>1, NoElements
<1>3. Remaining = w
  BY DEF Remaining
<1> HIDE DEF t
<1>4. Len(w) = Len(buffer) + Len(t) /\ Len(buffer) \in Nat
      /\ \A i \in 1 .. Len(buffer) : w[i] = buffer[i]
  BY <1>1, <1>2, Joined
<1> HIDE DEF w
<1>5. /\ parsed.units + Len(w) = Len(Sought)
      /\ \A i \in 1 .. Len(w) : w[i] = Sought[parsed.units + i]
  BY <1>3 DEF Remains
<1>6. Len(Sought) \in Nat
  BY SoughtNow
<1> DEFINE u == parsed.units
           m == Len(buffer)
           n == Len(t)
           l == Len(Sought)
<1>7. u \in Nat /\ m \in Nat /\ n \in Nat /\ l \in Nat /\ u + (m + n) = l
      /\ Len(w) = m + n
  BY <1>1, <1>2, <1>4, <1>5, <1>6
<1> HIDE DEF u, m, n, l
<1>8. /\ u + m <= l
      /\ \A i \in 1 .. m : i \in 1 .. m + n /\ u + i \in 1 .. l
  BY <1>7
<1>9. ASSUME NEW i \in 1 .. m
      PROVE  u + i \in 1 .. l /\ buffer[i] = Sought[u + i]
  BY <1>4, <1>5, <1>7, <1>8 DEF u, m
<1>10. QED
  BY <1>7, <1>8, <1>9 DEF u, m, l

\* Nothing in an answer is other than what the parser expects there.
LEMMA AsExpected ==
  ASSUME OneInterim, AnswersTellTheirEnd, ConservedInductive, ParserRuns,
         buffer # <<>>, parser.at \notin {"complete", "continued"}
  PROVE  Head(buffer).kind \in Expected
<1>1. /\ ClientInductive /\ request # 0 /\ Remains /\ InPlace
      /\ parsed.units \in Nat
  BY WorkParts
<1>2. Len(buffer) \in Nat \ {0} /\ Head(buffer) = buffer[1]
  <2>1. buffer \in Seq(Unit)
    BY <1>1 DEF ClientInductive, TypeOK
  <2>2. QED
    BY <2>1, NoElements
<1> DEFINE u == parsed.units
<1>3. u + 1 \in 1 .. Len(Sought) /\ Head(buffer) = Sought[u + 1]
      /\ Len(Sought) \in Nat
  <2>1. 1 \in 1 .. Len(buffer)
    BY <1>2
  <2>2. QED
    BY <1>1, <1>2, <2>1, Ahead
<1>4. CASE u = 0
  <2>1. parser.at = "start" /\ u + 1 = 1
    BY <1>1, <1>4 DEF InPlace
  <2>2. Head(buffer).kind = "begin"
    BY <1>1, <1>3, <2>1, SoughtCounted
  <2>3. QED
    BY <2>1, <2>2 DEF Expected
<1>5. CASE u # 0
  <2>1. parser.at \in After(LastParsed)
    BY <1>1, <1>5 DEF InPlace
  <2>2. u + 1 \in 2 .. Len(Sought) /\ (u + 1) - 1 = u
    BY <1>1, <1>3, <1>5
  <2>3. Sought[u + 1].kind \in Successors(Sought[(u + 1) - 1].kind)
    BY <1>1, <2>2, SoughtCounted
  <2>4. Head(buffer).kind \in Successors(LastParsed)
    BY <1>3, <2>2, <2>3 DEF LastParsed
  <2>5. CASE LastParsed \in {"begin", "header"}
    BY <2>1, <2>4, <2>5 DEF After, Successors, HeadKinds, Expected
  <2>6. CASE LastParsed = "continue"
    BY <2>1, <2>4, <2>6 DEF After, Successors, Expected
  <2>7. CASE LastParsed \in {"end", "frame", "body"}
    BY <2>1, <2>4, <2>7 DEF After, Successors, ContentUnitKinds, Expected
  <2>8. QED
    BY <2>4, <2>5, <2>6, <2>7 DEF Successors
<1>6. QED
  BY <1>4, <1>5

\* Where what completes a response was parsed, all of it was.
LEMMA AllParsed ==
  ASSUME OneInterim, ConservedInductive, pending, device = "connected",
         parsed.units > 0,
         \/ LastParsed \in Completing
         \/ LastParsed = "end" /\ asked[request].head
  PROVE  parsed.units = Len(Sought)
<1>1. ClientInductive /\ Remains
  BY PartsNow
<1>2. request # 0
  BY <1>1 DEF ClientInductive, ParserInStep
<1>3. \A i \in 1 .. Len(Sought) :
        /\ Sought[i].kind \in Completing => i = Len(Sought)
        /\ Sought[i].kind = "end" /\ asked[request].head => i = Len(Sought)
  BY <1>1, <1>2, SoughtNow
<1>4. parsed.units \in 1 .. Len(Sought)
  BY <1>1, <1>2, Ahead
<1>5. QED
  BY <1>3, <1>4 DEF LastParsed

(***************************************************************************)
(* Nothing of another response is reported: the inductive invariant.       *)
(***************************************************************************)

\* No signal is in progress whose handlers leave a response pending.
NoSignalOf(f) ==
  \A i \in 1 .. Len(f) : f[i] \notin {"headersCompleted", "contentReadyRead"}

\* The parts of the invariant.
LEMMA FaithfulNow ==
  ASSUME FaithfulInductive
  PROVE  /\ ConservedInductive /\ ClientInductive
         /\ parser.errno # "failed" /\ HandlersLeavePending /\ FieldInHead
         /\ DecoderOwn /\ Reported
         /\ pending => headers \subseteq {request}
         /\ pending /\ device = "connected" =>
              /\ ~parsed.garbled
              /\ parsed.octets = Amount(answer, parsed.units)
<1>1. OctetsAmong(parsed.units) = Amount(answer, parsed.units)
  BY DEF OctetsAmong, Amount, HeadEnd
<1>2. ConservedInductive /\ Faithful
  BY DEF FaithfulInductive
<1>3. QED
  BY <1>1, <1>2, PartsNow DEF Faithful, OctetsCounted

\* The same after a step.
LEMMA FaithfulThen ==
  ASSUME parser'.errno # "failed", HandlersLeavePending', FieldInHead',
         DecoderOwn', Reported', pending' => headers' \subseteq {request'},
         pending' /\ device' = "connected" =>
           /\ ~parsed'.garbled
           /\ parsed'.octets = Amount(answer', parsed'.units)
  PROVE  Faithful'
<1>1. OctetsAmong(parsed.units)' = Amount(answer', parsed'.units)
  BY DEF OctetsAmong, Amount, HeadEnd
<1>2. OctetsCounted'
  BY <1>1 DEF OctetsCounted
<1>3. QED
  BY <1>2 DEF Faithful

\* A stack without signals of a response.
LEMMA QuietThen ==
  ASSUME NoSignalOf(stack')
  PROVE  HandlersLeavePending'
  BY DEF NoSignalOf, HandlersLeavePending

LEMMA QuietNow ==
  ASSUME HandlersLeavePending,
         ~pending \/ parser.at \notin {"content", "complete"}
  PROVE  NoSignalOf(stack)
  BY DEF NoSignalOf, HandlersLeavePending

LEMMA QuietAtWork ==
  ASSUME ClientInductive, Top \in Parsing \cup {"rejecting"}
  PROVE  NoSignalOf(stack)
<1>1. Len(stack) = 1 /\ stack[1] = Top
  BY WorkNow
<1>2. Top \notin {"headersCompleted", "contentReadyRead"}
  BY DEF Parsing
<1>3. \A i \in 1 .. Len(stack) : i = 1
  BY <1>1
<1>4. QED
  BY <1>1, <1>2, <1>3 DEF NoSignalOf

LEMMA QuietAlone ==
  /\ NoSignalOf(<<>>) /\ NoSignalOf(<<"finished">> \o <<>>)
  /\ \A x \in Parsing \cup {"rejecting"} : NoSignalOf(<<x>>)
<1>1. ASSUME NEW x, x \notin {"headersCompleted", "contentReadyRead"},
             NEW f, f = <<x>>
      PROVE  NoSignalOf(f)
  <2>1. Len(f) = 1 /\ f[1] = x
    BY <1>1
  <2>2. \A i \in 1 .. Len(f) : i = 1
    BY <2>1
  <2>3. QED
    BY <1>1, <2>1, <2>2 DEF NoSignalOf
<1>2. <<"finished">> \o <<>> = <<"finished">>
  OBVIOUS
<1>3. NoSignalOf(<<>>)
  BY DEF NoSignalOf
<1>4. \A x \in Parsing \cup {"rejecting"} : NoSignalOf(<<x>>)
  BY <1>1 DEF Parsing
<1>5. NoSignalOf(<<"finished">>)
  BY <1>1
<1>6. QED
  BY <1>2, <1>3, <1>4, <1>5

LEMMA QuietAbove ==
  ASSUME NEW f \in Seq(Frames), NoSignalOf(f), NEW g, g = <<"finished">> \o f
  PROVE  NoSignalOf(g)
<1>1. "finished" \in Frames
  BY DEF Frames, Signals
<1>2. /\ Len(g) = Len(f) + 1 /\ Len(f) \in Nat /\ g[1] = "finished"
      /\ \A j \in 1 .. Len(f) + 1 :
           j # 1 => j - 1 \in 1 .. Len(f) /\ g[j] = f[j - 1]
  BY <1>1, AddedFirst
<1>3. ASSUME NEW j \in 1 .. Len(g)
      PROVE  g[j] \notin {"headersCompleted", "contentReadyRead"}
  <2>1. CASE j = 1
    BY <1>2, <2>1
  <2>2. CASE j # 1
    BY <1>2, <2>2 DEF NoSignalOf
  <2>3. QED
    BY <2>1, <2>2
<1>4. QED
  BY <1>3 DEF NoSignalOf

\* What is below the innermost frame.
LEMMA QuietBelow ==
  ASSUME ClientInductive, HandlersLeavePending, stack # <<>>,
         NEW f, f = Tail(stack)
  PROVE  f \in Seq(Frames) /\ NoSignalOf(f)
<1>1. stack \in Seq(Frames)
  BY DEF ClientInductive, TypeOK
<1>2. /\ f \in Seq(Frames) /\ Len(f) = Len(stack) - 1 /\ Len(stack) \in Nat \ {0}
      /\ \A j \in 1 .. Len(stack) - 1 : f[j] = stack[j + 1]
  BY <1>1, FirstGone
<1>3. ASSUME NEW j \in 1 .. Len(f)
      PROVE  f[j] \notin {"headersCompleted", "contentReadyRead"}
  <2>1. j + 1 \in 1 .. Len(stack) /\ j + 1 # 1 /\ f[j] = stack[j + 1]
    BY <1>2
  <2>2. stack[j + 1] \in {"headersCompleted", "contentReadyRead"} => j + 1 = 1
    BY <2>1 DEF HandlersLeavePending
  <2>3. QED
    BY <2>1, <2>2
<1>4. QED
  BY <1>2, <1>3 DEF NoSignalOf

\* A signal that the parser emits in the content of the pending response.
LEMMA SignalKept ==
  ASSUME ClientInductive, ParserRuns, pending' = TRUE,
         NEW x \in {"headersCompleted", "contentReadyRead"},
         stack' = <<x>> \o stack, parser'.at \in {"content", "complete"}
  PROVE  HandlersLeavePending'
<1>1. /\ stack # <<>> /\ Shape(stack, pending) /\ Head(stack) \in Parsing
      /\ stack \in Seq(Frames) /\ stack[1] \in Parsing
  BY RunsNow, WorkNow, InductiveNow
<1> DEFINE g == <<x>> \o stack
<1>6. Len(g) = 2 /\ g[1] = x /\ g[2] = stack[1]
  <2>1. Len(stack) = 1
    BY <1>1, ParserOnly
  <2>2. x \in Frames
    BY DEF Frames, Signals
  <2>3. QED
    BY <1>1, <2>1, <2>2, AddedFirst
<1>2. Len(stack') = 2 /\ stack'[1] = x /\ stack'[2] = stack[1]
  BY <1>6
<1>3. stack'[2] \notin {"headersCompleted", "contentReadyRead"}
  BY <1>1, <1>2 DEF Parsing
<1>4. \A i \in 1 .. Len(stack') : i = 1 \/ i = 2
  BY <1>2
<1>5. QED
  BY <1>2, <1>3, <1>4 DEF HandlersLeavePending

\* Nothing that is reported changes.
LEMMA NothingReported ==
  ASSUME FaithfulInductive, NoSignalOf(stack') \/ stack' = stack,
         UNCHANGED <<request, pending, error, headers, field, wasValue, decoder,
                     answer, parsed>>,
         device' = device \/ device' # "connected",
         parser'.at = parser.at, parser'.errno # "failed",
         request # 0 => asked'[request] = asked[request]
  PROVE  Faithful'
<1>1. HandlersLeavePending'
  <2>1. CASE NoSignalOf(stack')
    BY <2>1, QuietThen
  <2>2. CASE stack' = stack
    BY <2>2, FaithfulNow DEF HandlersLeavePending
  <2>3. QED
    BY <2>1, <2>2
<1>2. FieldInHead'
  BY FaithfulNow DEF FieldInHead
<1>3. DecoderOwn'
  BY FaithfulNow DEF DecoderOwn
<1>4. Reported'
  BY FaithfulNow DEF Reported
<1>5. QED
  BY <1>1, <1>2, <1>3, <1>4, FaithfulNow, FaithfulThen

(***************************************************************************)
(* The parser at work counts and keeps what is of the response.            *)
(***************************************************************************)

\* The parser at work leaves the response pending.
LEMMA FaithfulAtWork ==
  ASSUME FaithfulInductive, ParserRuns,
         UNCHANGED <<requestVars, deviceVars, answer>>,
         parser'.errno # "failed", HandlersLeavePending', FieldInHead',
         DecoderOwn', headers' \subseteq {request}, ~parsed'.garbled,
         parsed'.octets = Amount(answer, parsed'.units)
  PROVE  Faithful'
<1>1. pending' = TRUE /\ request' = request
  BY FaithfulNow, RunsNow DEF requestVars
<1>2. Reported'
  BY <1>1 DEF Reported
<1>3. QED
  BY <1>1, <1>2, FaithfulThen

\* The parser takes a unit that is no octet.
LEMMA TakenUncounted ==
  ASSUME OneInterim, AnswersTellTheirEnd, FaithfulInductive, NEW kinds,
         kinds \cap OctetKinds = {}, ParserMeets(kinds), Take(1)
  PROVE  /\ ParserRuns /\ parser.errno = "ok" /\ pending /\ request # 0
         /\ ClientInductive /\ ConservedInductive
         /\ Head(buffer).of = request /\ Head(buffer).kind \in kinds
         /\ Head(buffer).kind \in Expected
         /\ ~parsed'.garbled
         /\ parsed'.octets = Amount(answer, parsed'.units)
<1>1. ConservedInductive
  BY FaithfulNow
<1>2. /\ ParserRuns /\ ClientInductive /\ 1 \in 1 .. Len(buffer)
      /\ parsed'.units = parsed.units + 1 /\ Head(buffer) = buffer[1]
      /\ buffer[1].kind \in kinds /\ buffer[1].kind \in Expected
      /\ parser.errno = "ok"
  BY <1>1, TakenOne
<1>3. /\ pending /\ device = "connected" /\ request # 0 /\ Remains
      /\ parsed.units \in Nat
  BY <1>1, <1>2, WorkParts
<1>4. /\ Len(Sought) \in Nat /\ parsed.units + 1 \in 1 .. Len(Sought)
      /\ buffer[1] = Sought[parsed.units + 1]
  BY <1>2, <1>3, Ahead
<1>5. Head(buffer).of = request
  BY <1>2, <1>3, <1>4, SoughtNow
<1>6. parsed'.octets = parsed.octets /\ parsed'.garbled = parsed.garbled
  BY <1>2 DEF Take, ClientInductive, TypeOK
<1>7. Amount(answer, parsed.units + 1) = Amount(answer, (parsed.units + 1) - 1)
  <2>1. Sought[parsed.units + 1].kind \notin OctetKinds
    BY <1>2, <1>4
  <2>2. QED
    BY <1>2, <1>3, <1>4, <2>1, SoughtCounted
<1>8. (parsed.units + 1) - 1 = parsed.units
  BY <1>3
<1>9. ~parsed.garbled /\ parsed.octets = Amount(answer, parsed.units)
  BY <1>3, FaithfulNow
<1>10. QED
  BY <1>1, <1>2, <1>3, <1>5, <1>6, <1>7, <1>8, <1>9

LEMMA MessageBeginFaithful ==
  ASSUME OneInterim, AnswersTellTheirEnd, FaithfulInductive, MessageBegin
  PROVE  Faithful'
<1>1. /\ ParserMeets({"begin"}) /\ Take(1) /\ ParserAt("head")
      /\ headers' = {} /\ wasValue' = FALSE /\ field' = field
      /\ decoder' = decoder /\ stack' = stack
      /\ UNCHANGED <<requestVars, deviceVars, answer>>
  BY DEF MessageBegin
<1>2. /\ ParserRuns /\ parser.errno = "ok" /\ ClientInductive
      /\ Head(buffer).kind \in {"begin"} /\ Head(buffer).kind \in Expected
      /\ ~parsed'.garbled /\ parsed'.octets = Amount(answer, parsed'.units)
  BY <1>1, TakenUncounted DEF OctetKinds
<1>3. parser.at = "start"
  BY <1>2 DEF Expected
<1>4. parser'.at = "head" /\ parser'.errno = "ok"
  BY <1>1, <1>2, Moved
<1>5. HandlersLeavePending'
  BY <1>1, <1>2, QuietAtWork, QuietThen, RunsNow
<1>6. FieldInHead'
  BY <1>1, <1>3, FaithfulNow DEF FieldInHead
<1>7. DecoderOwn'
  BY <1>1, <1>3, FaithfulNow DEF DecoderOwn
<1>8. QED
  BY <1>1, <1>2, <1>4, <1>5, <1>6, <1>7, FaithfulAtWork

LEMMA OnHeaderFaithful ==
  ASSUME OneInterim, AnswersTellTheirEnd, FaithfulInductive, OnHeader
  PROVE  Faithful'
<1>1. /\ ParserMeets({"header"}) /\ Take(1) /\ PushHeader
      /\ field' = {Head(buffer).of} \cup IF wasValue THEN {} ELSE field
      /\ wasValue' = TRUE /\ parser' = parser
      /\ decoder' = decoder /\ stack' = stack
      /\ UNCHANGED <<requestVars, deviceVars, answer>>
  BY DEF OnHeader
<1>2. /\ ParserRuns /\ parser.errno = "ok" /\ ClientInductive /\ pending
      /\ Head(buffer).kind \in {"header"} /\ Head(buffer).kind \in Expected
      /\ Head(buffer).of = request
      /\ ~parsed'.garbled /\ parsed'.octets = Amount(answer, parsed'.units)
  BY <1>1, TakenUncounted DEF OctetKinds
<1>3. parser.at = "head"
  BY <1>2 DEF Expected
<1>4. HandlersLeavePending'
  BY <1>1, <1>2, QuietAtWork, QuietThen, RunsNow
<1>5. headers' \subseteq {request}
  BY <1>1, <1>2, FaithfulNow DEF PushHeader, FieldInHead
<1>6. FieldInHead'
  <2>1. field' = {request}
    BY <1>1, <1>2, FaithfulNow DEF FieldInHead
  <2>2. QED
    BY <1>1, <1>2, <1>3, <2>1 DEF FieldInHead, requestVars
<1>7. DecoderOwn'
  BY <1>1, <1>3, FaithfulNow DEF DecoderOwn
<1>8. QED
  BY <1>1, <1>2, <1>4, <1>5, <1>6, <1>7, FaithfulAtWork

\* The end of a head leaves no field of it.
LEMMA HeadEnded ==
  ASSUME FaithfulInductive, pending, LastHeader, request' = request
  PROVE  FieldInHead' /\ headers' \subseteq {request}
<1>1. field' = {} /\ wasValue' = FALSE
  BY FaithfulNow DEF LastHeader, FieldInHead
<1>2. headers' \subseteq {request}
  BY FaithfulNow DEF LastHeader, PushHeader, FieldInHead
<1>3. QED
  BY <1>1, <1>2 DEF FieldInHead

LEMMA OnContinueFaithful ==
  ASSUME OneInterim, AnswersTellTheirEnd, FaithfulInductive, OnContinue
  PROVE  Faithful'
<1>1. /\ ParserMeets({"continue"}) /\ Take(1) /\ LastHeader
      /\ ParserAt("continued") /\ decoder' = decoder /\ stack' = stack
      /\ UNCHANGED <<requestVars, deviceVars, answer>>
  BY DEF OnContinue
<1>2. /\ ParserRuns /\ parser.errno = "ok" /\ ClientInductive /\ pending
      /\ Head(buffer).kind \in {"continue"} /\ Head(buffer).kind \in Expected
      /\ ~parsed'.garbled /\ parsed'.octets = Amount(answer, parsed'.units)
  BY <1>1, TakenUncounted DEF OctetKinds
<1>3. parser.at = "head"
  BY <1>2 DEF Expected
<1>4. parser'.at = "continued" /\ parser'.errno = "ok"
  BY <1>1, <1>2, Moved
<1>5. HandlersLeavePending'
  BY <1>1, <1>2, QuietAtWork, QuietThen, RunsNow
<1>6. FieldInHead' /\ headers' \subseteq {request}
  BY <1>1, <1>2, HeadEnded DEF requestVars
<1>7. DecoderOwn'
  BY <1>1, <1>3, FaithfulNow DEF DecoderOwn
<1>8. QED
  BY <1>1, <1>2, <1>4, <1>5, <1>6, <1>7, FaithfulAtWork

LEMMA HeadersCompleteFaithful ==
  ASSUME OneInterim, AnswersTellTheirEnd, FaithfulInductive, HeadersComplete
  PROVE  Faithful'
<1> DEFINE at == IF Head(buffer).kind = "end" THEN "content" ELSE "complete"
<1>1. /\ ParserMeets({"end", "endEmpty"}) /\ Take(1) /\ LastHeader
      /\ ParserAt(at) /\ decoder' = decoder
      /\ stack' = <<"headersCompleted">> \o stack
      /\ UNCHANGED <<requestVars, deviceVars, answer>>
  BY DEF HeadersComplete
<1>2. /\ ParserRuns /\ parser.errno = "ok" /\ ClientInductive /\ pending
      /\ Head(buffer).kind \in {"end", "endEmpty"}
      /\ Head(buffer).kind \in Expected
      /\ ~parsed'.garbled /\ parsed'.octets = Amount(answer, parsed'.units)
  BY <1>1, TakenUncounted DEF OctetKinds
<1>3. parser.at = "head"
  BY <1>2 DEF Expected
<1>4. parser'.at \in {"content", "complete"} /\ parser'.errno = "ok"
  <2>1. at \in {"content", "complete"}
    OBVIOUS
  <2>2. ParserAt(at)
    BY <1>1
  <2> HIDE DEF at
  <2>3. QED
    BY <1>2, <2>1, <2>2, Moved
<1>5. HandlersLeavePending'
  <2>1. pending' = TRUE
    BY <1>1, <1>2 DEF requestVars
  <2>2. "headersCompleted" \in {"headersCompleted", "contentReadyRead"}
    OBVIOUS
  <2>3. QED
    BY <1>1, <1>2, <1>4, <2>1, <2>2, SignalKept
<1>6. FieldInHead' /\ headers' \subseteq {request}
  BY <1>1, <1>2, HeadEnded DEF requestVars
<1>7. DecoderOwn'
  BY <1>1, <1>3, FaithfulNow DEF DecoderOwn
<1>8. QED
  BY <1>1, <1>2, <1>4, <1>5, <1>6, <1>7, FaithfulAtWork

LEMMA OnFramingFaithful ==
  ASSUME OneInterim, AnswersTellTheirEnd, FaithfulInductive, OnFraming
  PROVE  Faithful'
<1> DEFINE at == IF Head(buffer).kind = "last" THEN "complete" ELSE "content"
<1>1. /\ ParserMeets({"frame", "last"}) /\ Take(1) /\ ParserAt(at)
      /\ UNCHANGED <<requestVars, deviceVars, answer, headers, field, wasValue,
                     decoder, stack>>
  BY DEF OnFraming
<1>2. /\ ParserRuns /\ parser.errno = "ok" /\ ClientInductive /\ pending
      /\ Head(buffer).kind \in {"frame", "last"}
      /\ Head(buffer).kind \in Expected
      /\ ~parsed'.garbled /\ parsed'.octets = Amount(answer, parsed'.units)
  BY <1>1, TakenUncounted DEF OctetKinds
<1>3. parser.at = "content"
  BY <1>2 DEF Expected
<1>4. parser'.at \in {"content", "complete"} /\ parser'.errno = "ok"
  <2>1. at \in {"content", "complete"}
    OBVIOUS
  <2>2. ParserAt(at)
    BY <1>1
  <2> HIDE DEF at
  <2>3. QED
    BY <1>2, <2>1, <2>2, Moved
<1>5. HandlersLeavePending'
  BY <1>1, <1>2, QuietAtWork, QuietThen, RunsNow
<1>6. FieldInHead'
  BY <1>1, <1>3, FaithfulNow DEF FieldInHead
<1>7. DecoderOwn'
  BY <1>1, <1>2, <1>4, FaithfulNow DEF DecoderOwn, requestVars
<1>8. headers' \subseteq {request}
  BY <1>1, <1>2, FaithfulNow
<1>9. QED
  BY <1>1, <1>2, <1>4, <1>5, <1>6, <1>7, <1>8, FaithfulAtWork

LEMMA ContinueCompleteFaithful ==
  ASSUME FaithfulInductive, ContinueComplete
  PROVE  Faithful'
<1>1. /\ ParserRuns /\ parser.at = "continued"
      /\ parser' = [NewParser EXCEPT !.errno = "paused"]
      /\ headers' = {} /\ decoder' = NoDecoder
      /\ UNCHANGED <<requestVars, deviceVars, field, wasValue, stack, answer,
                     parsed>>
  BY DEF ContinueComplete, historyVars
<1>2. ClientInductive /\ pending /\ device = "connected"
  BY <1>1, FaithfulNow, RunsNow
<1>3. parser'.errno = "paused"
  BY <1>1 DEF NewParser
<1>4. HandlersLeavePending'
  BY <1>1, <1>2, QuietAtWork, QuietThen, RunsNow
<1>5. FieldInHead'
  BY <1>1, FaithfulNow DEF FieldInHead
<1>6. DecoderOwn'
  BY <1>1 DEF DecoderOwn, NoDecoder
<1>7. ~parsed.garbled /\ parsed.octets = Amount(answer, parsed.units)
  BY <1>2, FaithfulNow
<1>8. QED
  BY <1>1, <1>3, <1>4, <1>5, <1>6, <1>7, FaithfulAtWork

LEMMA MessageContentFaithful ==
  ASSUME OneInterim, AnswersTellTheirEnd, FaithfulInductive, MessageContent
  PROVE  Faithful'
<1>1. /\ ParserMeets({"body", "bodyLast"})
      /\ UNCHANGED <<requestVars, deviceVars, answer, headers, field, wasValue>>
      /\ decoder' = [decoder EXCEPT !.begun = @ \/ decoder.of = request]
      /\ stack' = <<"contentReadyRead">> \o stack
  BY DEF MessageContent
<1>2. PICK n \in 1 .. Len(buffer) :
         /\ Octets(n)
         /\ \E garbled \in Garbles :
              parsed' = [units |-> parsed.units + n,
                         octets |-> parsed.octets + n,
                         decoded |-> parsed.decoded \/ decoder.of # 0,
                         garbled |-> parsed.garbled \/ garbled]
         /\ ParserAt(IF buffer[n].kind = "bodyLast" THEN "complete"
                     ELSE "content")
  BY DEF MessageContent, ContentRun
<1> DEFINE at == IF buffer[n].kind = "bodyLast" THEN "complete" ELSE "content"
<1>3. /\ ConservedInductive /\ ClientInductive /\ ParserRuns
      /\ parser.errno = "ok" /\ buffer[1].kind \in {"body", "bodyLast"}
      /\ buffer[1].kind \in Expected
  BY <1>1, FaithfulNow, Meets
<1>4. /\ pending /\ device = "connected" /\ request # 0 /\ Remains
      /\ parsed.units \in Nat
  BY <1>3, WorkParts
<1>5. parser.at = "content"
  BY <1>3 DEF Expected
<1>6. parser'.at \in {"content", "complete"} /\ parser'.errno = "ok"
  <2>1. at \in {"content", "complete"}
    OBVIOUS
  <2>2. ParserAt(at)
    BY <1>2
  <2> HIDE DEF at
  <2>3. QED
    BY <1>3, <2>1, <2>2, Moved
<1>7. HandlersLeavePending'
  <2>1. pending' = TRUE
    BY <1>1, <1>4 DEF requestVars
  <2>2. "contentReadyRead" \in {"headersCompleted", "contentReadyRead"}
    OBVIOUS
  <2>3. QED
    BY <1>1, <1>3, <1>6, <2>1, <2>2, SignalKept
<1>8. FieldInHead'
  BY <1>1, <1>5, FaithfulNow DEF FieldInHead
<1>9. DecoderOwn'
  <2>1. decoder \in DecoderType
    BY <1>3 DEF ClientInductive, TypeOK, DecoderType
  <2>2. decoder'.of = decoder.of
    BY <1>1, <2>1 DEF DecoderType
  <2>3. decoder'.begun => decoder.begun \/ decoder.of = request
    BY <1>1, <2>1 DEF DecoderType
  <2>4. decoder'.begun => decoder'.of = request
    BY <2>2, <2>3, FaithfulNow DEF DecoderOwn
  <2>5. pending' /\ request' = request
    BY <1>1, <1>4 DEF requestVars
  <2>6. QED
    BY <1>6, <2>4, <2>5 DEF DecoderOwn
<1>10. Garbles = {FALSE}
  BY FaithfulNow DEF Garbles, DecoderOwn
<1>11. ~parsed.garbled /\ parsed.octets = Amount(answer, parsed.units)
  BY <1>4, FaithfulNow
<1>12. /\ parsed'.units = parsed.units + n /\ parsed'.octets = parsed.octets + n
       /\ ~parsed'.garbled
  <2>1. PICK garbled \in Garbles :
          parsed' = [units |-> parsed.units + n,
                     octets |-> parsed.octets + n,
                     decoded |-> parsed.decoded \/ decoder.of # 0,
                     garbled |-> parsed.garbled \/ garbled]
    BY <1>2
  <2>2. ~garbled
    BY <1>10
  <2>3. ~(parsed.garbled \/ garbled)
    BY <1>11, <2>2
  <2>4. QED
    BY <2>1, <2>3
<1>13. Amount(answer, parsed.units + n) = Amount(answer, parsed.units) + n
  <2> DEFINE u == parsed.units
  <2>1. /\ Len(Sought) \in Nat /\ Len(buffer) \in Nat /\ u \in Nat
        /\ u + Len(buffer) <= Len(Sought)
        /\ \A i \in 1 .. Len(buffer) :
             u + i \in 1 .. Len(Sought) /\ buffer[i] = Sought[u + i]
    BY <1>3, <1>4, Ahead
  <2>2. /\ u \in 0 .. Len(Sought) /\ n \in 1 .. Len(Sought)
        /\ u + n <= Len(Sought)
        /\ \A i \in 1 .. n : i \in 1 .. Len(buffer)
    BY <2>1
  <2>3. \A i \in 1 .. n : Sought[u + i].kind \in OctetKinds
    BY <1>2, <2>1, <2>2 DEF Octets, OctetKinds
  <2>4. \A v \in 0 .. Len(Sought), m \in 1 .. Len(Sought) :
          /\ v + m <= Len(Sought)
          /\ \A i \in 1 .. m : Sought[v + i].kind \in OctetKinds
          => Amount(answer, v + m) = Amount(answer, v) + m
    BY <1>3, <1>4, SoughtCounted
  <2> HIDE DEF u
  <2>5. Amount(answer, u + n) = Amount(answer, u) + n
    BY <2>2, <2>3, <2>4
  <2>6. QED
    BY <2>5 DEF u
<1>14. headers' \subseteq {request}
  BY <1>1, <1>4, FaithfulNow
<1>15. QED
  BY <1>1, <1>3, <1>6, <1>7, <1>8, <1>9, <1>11, <1>12, <1>13, <1>14,
     FaithfulAtWork

\* The whole of a response is parsed, and what is reported is that.
LEMMA WholeReported ==
  ASSUME OneInterim, AnswersTellTheirEnd, FaithfulInductive, pending,
         device = "connected", parsed.units = Len(Sought),
         parser.at \in {"content", "complete"},
         NEW f \in Seq(Frames), NoSignalOf(f), MessageComplete(f),
         UNCHANGED <<asked, request, error, headers, field, wasValue, answer,
                     parsed>>
  PROVE  Faithful'
<1>1. /\ parser' = [parser EXCEPT !.errno = "paused"] /\ decoder' = NoDecoder
      /\ pending' = FALSE /\ stack' = <<"finished">> \o f
  BY DEF MessageComplete, EmitFinished
<1>2. /\ ClientInductive /\ request # 0
  BY FaithfulNow DEF ClientInductive, ParserInStep
<1>3. parser'.errno = "paused" /\ parser'.at = parser.at
  BY <1>1, <1>2 DEF ClientInductive, TypeOK, Parser
<1>4. HandlersLeavePending'
  BY <1>1, QuietAbove, QuietThen
<1>5. FieldInHead'
  BY FaithfulNow DEF FieldInHead
<1>6. DecoderOwn'
  BY <1>1 DEF DecoderOwn, NoDecoder
<1>7. Reported'
  <2>1. /\ headers \subseteq {request} /\ ~parsed.garbled
        /\ parsed.octets = Amount(answer, Len(Sought))
    BY FaithfulNow
  <2>2. Amount(answer, Len(Sought)) =
          IF asked[request].head THEN 0 ELSE answer.body
    BY <1>2, SoughtCounted
  <2>3. QED
    BY <2>1, <2>2 DEF Reported
<1>8. QED
  BY <1>1, <1>3, <1>4, <1>5, <1>6, <1>7, FaithfulThen

LEMMA ResponseCompleteFaithful ==
  ASSUME OneInterim, AnswersTellTheirEnd, FaithfulInductive, ResponseComplete
  PROVE  Faithful'
<1>1. /\ ParserRuns /\ parser.at = "complete" /\ MessageComplete(stack)
      /\ UNCHANGED <<asked, request, error, headers, field, wasValue, answer,
                     parsed>>
  BY DEF ResponseComplete, historyVars
<1>2. ConservedInductive
  BY FaithfulNow
<1>3. /\ ClientInductive /\ pending /\ device = "connected" /\ InPlace
      /\ request # 0 /\ Remains /\ stack \in Seq(Frames) /\ Top \in Parsing
      /\ parsed.units \in Nat
  BY <1>1, <1>2, WorkParts
<1>4. parsed.units > 0 /\ "complete" \in After(LastParsed)
  BY <1>1, <1>3 DEF InPlace
<1>5. LastParsed \in Completing
  <2>1. /\ Len(Sought) \in Nat
        /\ \A i \in 1 .. Len(Sought) : Sought[i].kind \in UnitKinds
    BY <1>3, SoughtNow
  <2>2. Len(buffer) \in Nat /\ parsed.units + Len(buffer) <= Len(Sought)
    BY <1>3, Ahead
  <2>3. parsed.units \in 1 .. Len(Sought)
    BY <1>3, <1>4, <2>1, <2>2
  <2>4. LastParsed \in UnitKinds
    BY <2>1, <2>3 DEF LastParsed
  <2>5. QED
    BY <1>4, <2>4 DEF After, UnitKinds, Completing
<1>6. parsed.units = Len(Sought)
  BY <1>2, <1>3, <1>4, <1>5, AllParsed
<1>7. NoSignalOf(stack)
  BY <1>3, QuietAtWork
<1>8. QED
  BY <1>1, <1>3, <1>6, <1>7, WholeReported

LEMMA HeadersHandledFaithful ==
  ASSUME OneInterim, AnswersTellTheirEnd, FaithfulInductive, HeadersHandled
  PROVE  Faithful'
<1> DEFINE f == Tail(stack)
<1>1. /\ Top = "headersCompleted"
      /\ UNCHANGED <<asked, request, error, headers, field, wasValue, answer,
                     parsed>>
      /\ IF asked[request].head THEN MessageComplete(f)
         ELSE /\ decoder' = IF answer.gzip THEN [of |-> request, begun |-> FALSE]
                            ELSE decoder
              /\ stack' = f /\ UNCHANGED <<pending, deviceVars, parser>>
  BY DEF HeadersHandled, historyVars
<1>2. /\ ConservedInductive /\ ClientInductive /\ HandlersLeavePending
      /\ FieldInHead /\ parser.errno # "failed"
  BY FaithfulNow
<1>3. stack # <<>> /\ stack \in Seq(Frames) /\ stack[1] = "headersCompleted"
      /\ 1 \in 1 .. Len(stack)
  <2>1. stack \in Seq(Frames)
    BY <1>2 DEF ClientInductive, TypeOK
  <2>2. stack # <<>> /\ stack[1] = "headersCompleted"
    BY <1>1, <2>1, TopNow
  <2>3. QED
    BY <2>1, <2>2, NoElements
<1>4. pending /\ parser.at \in {"content", "complete"}
  BY <1>2, <1>3 DEF HandlersLeavePending
<1>5. f \in Seq(Frames) /\ NoSignalOf(f)
  BY <1>2, <1>3, QuietBelow
<1> HIDE DEF f
<1>6. CASE asked[request].head
  <2>1. device = "connected"
    <3>1. Shape(stack, pending) /\ (IsParsing <=> Parses(stack))
      BY <1>2, InductiveNow
    <3>2. 1 + 1 = Len(stack) /\ stack[1 + 1] \in Parsing
      BY <1>3, <3>1 DEF Shape
    <3>3. 1 + 1 \in 1 .. Len(stack)
      BY <3>2
    <3>4. IsParsing
      BY <3>2, <3>3 DEF IsParsing
    <3>5. QED
      BY <1>2, <1>4, <3>4 DEF ClientInductive, ParserInStep
  <2>2. parsed.units > 0 /\ LastParsed \in {"end", "endEmpty"}
    BY <1>1, <1>2, <1>4, <2>1, PartsNow DEF InPlace
  <2>3. parsed.units = Len(Sought)
    <3>1. LastParsed \in Completing \/ (LastParsed = "end" /\ asked[request].head)
      BY <1>6, <2>2 DEF Completing
    <3>2. QED
      BY <1>2, <1>4, <2>1, <2>2, <3>1, AllParsed
  <2>4. QED
    BY <1>1, <1>4, <1>5, <1>6, <2>1, <2>3, WholeReported
<1>7. CASE ~asked[request].head
  <2>1. /\ decoder' = IF answer.gzip THEN [of |-> request, begun |-> FALSE]
                      ELSE decoder
        /\ stack' = f /\ pending' = pending /\ parser' = parser
        /\ device' = device
    BY <1>1, <1>7 DEF deviceVars
  <2>2. HandlersLeavePending'
    BY <1>5, <2>1, QuietThen
  <2>3. FieldInHead'
    BY <1>1, <1>2, <2>1 DEF FieldInHead
  <2>4. DecoderOwn'
    BY <1>1, <2>1, FaithfulNow DEF DecoderOwn
  <2>5. Reported'
    BY <1>4, <2>1 DEF Reported
  <2>6. QED
    BY <1>1, <1>2, <2>1, <2>2, <2>3, <2>4, <2>5, FaithfulNow, FaithfulThen
<1>8. QED
  BY <1>6, <1>7

(***************************************************************************)
(* Requests, the device, and the end of a response that was given up.      *)
(***************************************************************************)

\* While no response is pending, no header is half parsed and no decoder at work.
LEMMA NothingPending ==
  ASSUME FaithfulInductive, ~pending
  PROVE  wasValue = FALSE /\ field = {} /\ ~decoder.begun /\ NoSignalOf(stack)
<1>1. HandlersLeavePending /\ FieldInHead /\ DecoderOwn /\ wasValue \in BOOLEAN
  BY FaithfulNow DEF ClientInductive, TypeOK
<1>2. QED
  BY <1>1, QuietNow DEF FieldInHead, DecoderOwn

\* A request is sent.
LEMMA SentFaithful ==
  ASSUME NEW r, NEW head, SendRequest(r, head)
  PROVE  ~parsed'.garbled /\ parsed'.octets = Amount(answer', parsed'.units)
<1>1. parsed'.units = 0 /\ parsed'.octets = 0 /\ ~parsed'.garbled
      /\ answer' \in Answer
  BY AnswersAssumption DEF SendRequest, NothingParsed
<1>2. HeadEnd(answer') \in Nat
  BY <1>1, AnswerFields DEF HeadEnd
<1>3. 0 <= HeadEnd(answer')
  BY <1>2
<1>4. QED
  BY <1>1, <1>3 DEF Amount

\* A request begins.
LEMMA StartingFaithful ==
  ASSUME FaithfulInductive, ~pending, NEW r, NEW what, StartRequest(r, what),
         NoSignalOf(stack'), UNCHANGED <<field, wasValue, decoder>>
  PROVE  Faithful'
<1>1. /\ wasValue' = FALSE /\ field' = {} /\ ~decoder'.begun
  BY NothingPending
<1>2. pending' = TRUE /\ parser' = NewParser /\ headers' = {}
  BY DEF StartRequest, Clear
<1>3. parser'.errno = "ok"
  BY <1>2 DEF NewParser
<1>4. HandlersLeavePending'
  BY QuietThen
<1>5. FieldInHead' /\ DecoderOwn' /\ Reported'
  BY <1>1, <1>2 DEF FieldInHead, DecoderOwn, Reported
<1>6. device' = "connected" =>
        ~parsed'.garbled /\ parsed'.octets = Amount(answer', parsed'.units)
  <2>1. SendRequest(r, what.head) \/ device' = "connecting"
    BY DEF StartRequest
  <2>2. QED
    BY <2>1, SentFaithful
<1>7. QED
  BY <1>2, <1>3, <1>4, <1>5, <1>6, FaithfulThen

LEMMA RequestNowFaithful ==
  ASSUME FaithfulInductive, NEW what \in Request, RequestNow(what)
  PROVE  Faithful'
<1>1. /\ ~pending /\ StartRequest(Len(asked) + 1, what) /\ stack' = stack
      /\ UNCHANGED <<field, wasValue, decoder>>
  BY DEF RequestNow
<1>2. NoSignalOf(stack')
  BY <1>1, NothingPending
<1>3. QED
  BY <1>1, <1>2, StartingFaithful

LEMMA RequestLaterFaithful ==
  ASSUME FaithfulInductive, NEW what \in Request, RequestLater(what)
  PROVE  Faithful'
<1>1. /\ asked' = Append(asked, what)
      /\ UNCHANGED <<request, pending, error, device, parser, headers, field,
                     wasValue, decoder, stack, answer, parsed>>
  BY DEF RequestLater, deviceVars, parserVars, historyVars
<1>2. /\ parser.errno # "failed" /\ asked \in Seq(Request)
      /\ request \in 0 .. Len(asked)
  BY FaithfulNow DEF ClientInductive, TypeOK
<1>3. request # 0 => asked'[request] = asked[request]
  BY <1>1, <1>2
<1>4. QED
  BY <1>1, <1>2, <1>3, NothingReported

LEMMA ReadyReadReturnsFaithful ==
  ASSUME FaithfulInductive, ReadyReadReturns
  PROVE  Faithful'
<1>1. /\ stack' = <<>> /\ Release /\ UNCHANGED <<field, wasValue, decoder>>
  BY DEF ReadyReadReturns
<1>2. NoSignalOf(stack')
  BY <1>1, QuietAlone
<1>3. CASE ~pending /\ StartRequest(deferred, asked[deferred])
  BY <1>1, <1>2, <1>3, StartingFaithful
<1>4. CASE /\ parser' = Unpaused
           /\ UNCHANGED <<requestVars, deviceVars, headers, historyVars>>
  <2>1. parser \in Parser /\ parser.errno # "failed"
    BY FaithfulNow DEF ClientInductive, TypeOK
  <2>2. parser'.at = parser.at /\ parser'.errno # "failed"
    BY <1>4, <2>1 DEF Unpaused, Parser
  <2>3. QED
    BY <1>1, <1>2, <1>4, <2>2, NothingReported
       DEF requestVars, deviceVars, historyVars
<1>5. QED
  BY <1>1, <1>3, <1>4 DEF Release

LEMMA InjectAgainFaithful ==
  ASSUME FaithfulInductive, InjectAgain
  PROVE  Faithful'
<1>1. /\ parser' = Unpaused /\ stack' = <<"rereading">>
      /\ UNCHANGED <<requestVars, deviceVars, headers, field, wasValue, decoder,
                     historyVars>>
  BY DEF InjectAgain
<1>2. parser \in Parser /\ parser.errno # "failed"
  BY FaithfulNow DEF ClientInductive, TypeOK
<1>3. parser'.at = parser.at /\ parser'.errno # "failed"
  BY <1>1, <1>2 DEF Unpaused, Parser
<1>4. NoSignalOf(stack')
  BY <1>1, QuietAlone DEF Parsing
<1>5. QED
  BY <1>1, <1>3, <1>4, NothingReported DEF requestVars, deviceVars, historyVars

\* The handlers of contentReadyRead or of finished return.
LEMMA ReturnedFaithful ==
  ASSUME FaithfulInductive, ContentHandled \/ FinishedHandled
  PROVE  Faithful'
<1>1. /\ Top \in {"contentReadyRead", "finished"} /\ stack' = Tail(stack)
      /\ UNCHANGED <<requestVars, deviceVars, parserVars, historyVars>>
  BY DEF ContentHandled, FinishedHandled
<1>2. /\ ClientInductive /\ HandlersLeavePending /\ parser.errno # "failed"
      /\ stack \in Seq(Frames)
  BY FaithfulNow DEF ClientInductive, TypeOK
<1>3. stack # <<>>
  BY <1>1, <1>2, TopNow
<1>4. NoSignalOf(stack')
  BY <1>1, <1>2, <1>3, QuietBelow
<1>5. QED
  BY <1>1, <1>2, <1>4, NothingReported
     DEF requestVars, deviceVars, parserVars, historyVars

\* A response that is given up before anything of it is parsed.
LEMMA GivenUp ==
  ASSUME FaithfulInductive, parser.at = "start", pending' = FALSE,
         error' # "NoError", NEW f \in Seq(Frames), f = stack \/ f = <<>>,
         EmitFinished(f), parser'.errno # "failed",
         UNCHANGED <<field, wasValue, decoder>>
  PROVE  Faithful'
<1>1. HandlersLeavePending /\ FieldInHead /\ DecoderOwn
  BY FaithfulNow
<1>2. NoSignalOf(f)
  BY <1>1, QuietNow, QuietAlone
<1>3. HandlersLeavePending'
  BY <1>2, QuietAbove, QuietThen DEF EmitFinished
<1>4. FieldInHead' /\ DecoderOwn'
  BY <1>1 DEF FieldInHead, DecoderOwn
<1>5. Reported'
  BY DEF Reported
<1>6. QED
  BY <1>3, <1>4, <1>5, FaithfulThen

LEMMA AbortResponseFaithful ==
  ASSUME ~Interrupts, FaithfulInductive, AbortResponse
  PROVE  Faithful'
<1>1. /\ parser.at = "start" /\ pending' = FALSE /\ error' = "AbortedError"
      /\ parser' = [parser EXCEPT !.errno = "paused"] /\ EmitFinished(stack)
      /\ UNCHANGED <<field, wasValue, decoder>>
  BY DEF AbortResponse
<1>2. stack \in Seq(Frames) /\ parser \in Parser
  BY FaithfulNow DEF ClientInductive, TypeOK
<1>3. parser'.errno = "paused"
  BY <1>1, <1>2 DEF Parser
<1>4. QED
  BY <1>1, <1>2, <1>3, GivenUp

LEMMA AbortConnectionFaithful ==
  ASSUME FaithfulInductive, AbortConnection
  PROVE  Faithful'
<1>1. /\ device' = "unconnected"
      /\ UNCHANGED <<requestVars, parserVars, stack, historyVars>>
  BY DEF AbortConnection, CloseDevice
<1>2. QED
  BY <1>1, FaithfulNow, NothingReported DEF requestVars, parserVars, historyVars

LEMMA ConsumeContentFaithful ==
  ASSUME FaithfulInductive, ConsumeContent
  PROVE  Faithful'
<1>1. UNCHANGED <<requestVars, deviceVars, parser, headers, field, wasValue,
                  decoder, stack, historyVars>>
  BY DEF ConsumeContent
<1>2. QED
  BY <1>1, FaithfulNow, NothingReported DEF requestVars, deviceVars, historyVars

\* device_readyRead() up to the parser.
LEMMA ReadFaithful ==
  ASSUME FaithfulInductive, EventLoop, NEW units, NEW rest,
         DeviceReadyRead(units, rest),
         UNCHANGED <<requestVars, parserVars, historyVars>>
  PROVE  Faithful'
<1>1. stack' = stack \/ stack' = <<"reading">>
  BY DEF DeviceReadyRead
<1>2. device' = device \/ device' = "unconnected"
  BY DEF DeviceReadyRead, CloseDevice
<1>3. NoSignalOf(stack') \/ stack' = stack
  BY <1>1, QuietAlone DEF Parsing
<1>4. QED
  BY <1>2, <1>3, FaithfulNow, NothingReported
     DEF requestVars, parserVars, historyVars

LEMMA DeviceConnectedFaithful ==
  ASSUME FaithfulInductive, DeviceConnected
  PROVE  Faithful'
<1>1. /\ device = "connecting"
      /\ UNCHANGED <<requestVars, parserVars, stack>>
      /\ pending => SendRequest(request, asked[request].head)
  BY DEF DeviceConnected
<1>2. pending /\ parser.errno # "failed"
  BY <1>1, FaithfulNow DEF ClientInductive, DeviceInStep
<1>3. ~parsed'.garbled /\ parsed'.octets = Amount(answer', parsed'.units)
  BY <1>1, <1>2, SentFaithful
<1>4. UNCHANGED <<request, pending, parser, headers, field, wasValue, decoder>>
  BY <1>1 DEF requestVars, parserVars
<1>5. HandlersLeavePending' /\ FieldInHead' /\ DecoderOwn'
  BY <1>1, <1>4, FaithfulNow DEF HandlersLeavePending, FieldInHead, DecoderOwn
<1>6. Reported'
  BY <1>2, <1>4 DEF Reported
<1>7. QED
  BY <1>2, <1>3, <1>4, <1>5, <1>6, FaithfulNow, FaithfulThen

LEMMA DeviceErrorFaithful ==
  ASSUME FaithfulInductive, NEW e, e # "NoError", DeviceError(e),
         pending => parser.at = "start"
  PROVE  Faithful'
<1>1. /\ device' = "unconnected"
      /\ UNCHANGED <<asked, request, parserVars, answer, parsed>>
      /\ IF pending THEN error' = e /\ pending' = FALSE /\ EmitFinished(<<>>)
         ELSE UNCHANGED <<error, pending, stack>>
  BY DEF DeviceError, CloseDevice
<1>2. UNCHANGED <<parser, headers, field, wasValue, decoder>>
  BY <1>1 DEF parserVars
<1>3. parser.errno # "failed" /\ <<>> \in Seq(Frames)
  BY FaithfulNow
<1>4. CASE pending
  <2> DEFINE f == <<>>
  <2>1. f \in Seq(Frames) /\ EmitFinished(f) /\ f = <<>>
    BY <1>1, <1>3, <1>4
  <2> HIDE DEF f
  <2>2. QED
    BY <1>1, <1>2, <1>3, <1>4, <2>1, GivenUp
<1>5. CASE ~pending
  BY <1>1, <1>2, <1>3, <1>5, NothingReported
<1>6. QED
  BY <1>4, <1>5

\* Every step keeps it.
LEMMA FaithfulStep ==
  ASSUME OneInterim, AnswersTellTheirEnd, ~Interrupts, FaithfulInductive,
         [Next]_vars
  PROVE  FaithfulInductive'
<1>1. ConservedInductive'
  BY FaithfulNow, ConservedStep
<1> SUFFICES Faithful'
  BY <1>1 DEF FaithfulInductive
<1>2. CASE UNCHANGED vars
  <2>1. UNCHANGED <<requestVars, deviceVars, parserVars, stack, historyVars>>
    BY <1>2 DEF vars
  <2>2. QED
    BY <2>1, FaithfulNow, NothingReported
       DEF requestVars, deviceVars, parserVars, historyVars
<1>3. CASE Steps
  <2>1. CASE MessageBegin
    BY <2>1, MessageBeginFaithful
  <2>2. CASE OnHeader
    BY <2>2, OnHeaderFaithful
  <2>3. CASE OnContinue
    BY <2>3, OnContinueFaithful
  <2>4. CASE ContinueComplete
    BY <2>4, ContinueCompleteFaithful
  <2>5. CASE HeadersComplete
    BY <2>5, HeadersCompleteFaithful
  <2>6. CASE HeadersHandled
    BY <2>6, HeadersHandledFaithful
  <2>7. CASE OnFraming
    BY <2>7, OnFramingFaithful
  <2>8. CASE MessageContent
    BY <2>8, MessageContentFaithful
  <2>9. CASE ContentHandled \/ FinishedHandled
    BY <2>9, ReturnedFaithful
  <2>10. CASE ResponseComplete
    BY <2>10, ResponseCompleteFaithful
  <2>11. CASE ParserFails
    BY <2>11, FaithfulNow, AsExpected DEF ParserFails
  <2>12. CASE InjectAgain
    BY <2>12, InjectAgainFaithful
  <2>13. CASE RejectResponse
    BY <2>13, FaithfulNow DEF RejectResponse
  <2>14. CASE ReadyReadReturns
    BY <2>14, ReadyReadReturnsFaithful
  <2>15. QED
    BY <1>3, <2>1, <2>2, <2>3, <2>4, <2>5, <2>6, <2>7, <2>8, <2>9, <2>10, <2>11,
       <2>12, <2>13, <2>14 DEF Steps
<1>4. CASE Application
  <2>1. ASSUME NEW what \in Request, RequestNow(what)
        PROVE  Faithful'
    BY <2>1, RequestNowFaithful
  <2>2. ASSUME NEW what \in Request, RequestLater(what)
        PROVE  Faithful'
    BY <2>2, RequestLaterFaithful
  <2>3. CASE AbortResponse
    BY <2>3, AbortResponseFaithful
  <2>4. CASE AbortConnection
    BY <2>4, AbortConnectionFaithful
  <2>5. CASE ConsumeContent
    BY <2>5, ConsumeContentFaithful
  <2>6. QED
    BY <1>4, <2>1, <2>2, <2>3, <2>4, <2>5 DEF Application
<1>5. CASE Receive
  <2>1. PICK n \in 1 .. Len(stream) : ReadyRead(n)
    BY <1>5 DEF Receive
  <2>2. QED
    BY <2>1, ReadFaithful DEF ReadyRead
<1>6. CASE TimerFires
  BY <1>6, ReadFaithful DEF TimerFires
<1>7. CASE Network
  <2>1. CASE DeviceConnected
    BY <2>1, DeviceConnectedFaithful
  <2>2. CASE ConnectFails
    <3>1. DeviceError("NetworkError") /\ device = "connecting"
      BY <2>2 DEF ConnectFails
    <3>2. parser.at = "start"
      BY <3>1, FaithfulNow DEF ClientInductive, DeviceInStep, NewParser
    <3>3. QED
      BY <3>1, <3>2, DeviceErrorFaithful
  <2>3. CASE ConnectionFails
    <3>1. DeviceError("NetworkError") /\ parser.at = "start"
      BY <2>3 DEF ConnectionFails
    <3>2. QED
      BY <3>1, DeviceErrorFaithful
  <2>4. CASE RemoteHostCloses
    <3>1. answer.framing # "eof"
      BY FaithfulNow DEF ClientInductive, TypeOK, AnswersTellTheirEnd
    <3>2. DeviceError("RemoteHostClosedError") /\ parser.at = "start"
      BY <2>4, <3>1 DEF RemoteHostCloses
    <3>3. QED
      BY <3>2, DeviceErrorFaithful
  <2>5. CASE UnaskedInput
    BY <2>5, ReadFaithful DEF UnaskedInput
  <2>6. QED
    BY <1>7, <2>1, <2>2, <2>3, <2>4, <2>5 DEF Network
<1>8. QED
  BY <1>2, <1>3, <1>4, <1>5, <1>6, <1>7 DEF Next

\* If every answer can be parsed and tells its end, and nothing interrupts a
\* response once begun, then a request that is finished without an error got the
\* header fields and the content of its own response, all of the content and
\* nothing else, however it comes in pieces, from a connection kept or new
\* (HttpResponseParser::messageBegin, pushHeader, messageContent and
\* messageComplete, HttpClient::headersComplete).
THEOREM ResponsesAreReported ==
  ASSUME OneInterim, AnswersTellTheirEnd, ~Interrupts
  PROVE  Spec => []Reported
<1>1. Init => FaithfulInductive
  <2> SUFFICES ASSUME Init
               PROVE  FaithfulInductive
    OBVIOUS
  <2>1. ClientInductive
    BY InitInductive
  <2>2. ConservedInductive
    BY <2>1 DEF Init, ConservedInductive, Conserved, Kept
  <2>3. parser.errno # "failed"
    BY DEF Init, NewParser
  <2>4. HandlersLeavePending
    <3>1. Len(<<>>) = 0
      OBVIOUS
    <3>2. QED
      BY <3>1 DEF Init, HandlersLeavePending
  <2>5. FieldInHead /\ DecoderOwn /\ OctetsCounted /\ Reported /\ ~pending
    BY DEF Init, FieldInHead, DecoderOwn, NoDecoder, OctetsCounted, Reported
  <2>6. QED
    BY <2>2, <2>3, <2>4, <2>5 DEF Faithful, FaithfulInductive
<1>2. FaithfulInductive /\ [Next]_vars => FaithfulInductive'
  BY FaithfulStep
<1>3. FaithfulInductive => Reported
  BY FaithfulNow
<1>4. QED
  BY <1>1, <1>2, <1>3, PTL DEF Spec
=============================================================================
