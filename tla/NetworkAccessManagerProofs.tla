---------------------- MODULE NetworkAccessManagerProofs ----------------------
(***************************************************************************)
(* Proofs about NetworkAccessManager, for any number of requests to any     *)
(* authorities, of an application that does not abort a HEAD request in a   *)
(* slot of metaDataChanged.                                                 *)
(***************************************************************************)
EXTENDS NetworkAccessManager, FiniteSetTheorems, TLAPS

(***************************************************************************)
(* Sequences.                                                              *)
(***************************************************************************)

\* Replacing an element.
LEMMA Replaced ==
  ASSUME NEW S, NEW s \in Seq(S), NEW i \in 1 .. Len(s), NEW x \in S
  PROVE  /\ [s EXCEPT ![i] = x] \in Seq(S)
         /\ Len([s EXCEPT ![i] = x]) = Len(s)
         /\ [s EXCEPT ![i] = x][i] = x
         /\ \A j \in 1 .. Len(s) : j # i => [s EXCEPT ![i] = x][j] = s[j]
  OBVIOUS

\* Appending an element.
LEMMA AddedLast ==
  ASSUME NEW S, NEW s \in Seq(S), NEW x \in S
  PROVE  /\ Append(s, x) \in Seq(S)
         /\ Len(Append(s, x)) = Len(s) + 1
         /\ Len(s) \in Nat
         /\ Append(s, x)[Len(s) + 1] = x
         /\ \A j \in 1 .. Len(s) : Append(s, x)[j] = s[j]
  OBVIOUS

\* Putting an element in front.
LEMMA AddedFirst ==
  ASSUME NEW S, NEW s \in Seq(S), NEW x \in S
  PROVE  /\ <<x>> \o s \in Seq(S)
         /\ Len(<<x>> \o s) = Len(s) + 1
         /\ Len(s) \in Nat
         /\ (<<x>> \o s)[1] = x
         /\ \A j \in 1 .. Len(s) : (<<x>> \o s)[j + 1] = s[j]
         /\ \A j \in 1 .. Len(s) + 1 :
              j # 1 => j - 1 \in 1 .. Len(s) /\ (<<x>> \o s)[j] = s[j - 1]
  OBVIOUS

\* Dropping the first element.
LEMMA FirstGone ==
  ASSUME NEW S, NEW s \in Seq(S), s # <<>>
  PROVE  /\ Tail(s) \in Seq(S)
         /\ Len(Tail(s)) = Len(s) - 1
         /\ Len(s) \in Nat \ {0}
         /\ Head(s) = s[1] /\ s[1] \in S
         /\ \A j \in 1 .. Len(s) - 1 : Tail(s)[j] = s[j + 1]
  OBVIOUS

\* A single element.
LEMMA OneElement ==
  ASSUME NEW S, NEW s \in Seq(S), Len(s) = 1
  PROVE  s # <<>> /\ Head(s) = s[1]
  OBVIOUS

\* One sequence after another.
LEMMA Joined ==
  ASSUME NEW S, NEW s \in Seq(S), NEW t \in Seq(S)
  PROVE  /\ s \o t \in Seq(S)
         /\ Len(s \o t) = Len(s) + Len(t)
         /\ \A j \in 1 .. Len(s) + Len(t) :
              (s \o t)[j] = IF j <= Len(s) THEN s[j] ELSE t[j - Len(s)]
  OBVIOUS

\* Taking an element out.
LEMMA TakenOut ==
  ASSUME NEW S, NEW s \in Seq(S), NEW i \in 1 .. Len(s)
  PROVE  /\ Without(s, i) \in Seq(S)
         /\ Len(Without(s, i)) = Len(s) - 1
         /\ Len(s) \in Nat \ {0}
         /\ \A j \in 1 .. Len(s) - 1 :
              Without(s, i)[j] = IF j < i THEN s[j] ELSE s[j + 1]
<1>1. /\ SubSeq(s, 1, i - 1) \in Seq(S) /\ Len(SubSeq(s, 1, i - 1)) = i - 1
      /\ \A j \in 1 .. i - 1 : SubSeq(s, 1, i - 1)[j] = s[j]
  OBVIOUS
<1>2. /\ SubSeq(s, i + 1, Len(s)) \in Seq(S)
      /\ Len(SubSeq(s, i + 1, Len(s))) = Len(s) - i
      /\ \A j \in 1 .. Len(s) - i : SubSeq(s, i + 1, Len(s))[j] = s[i + j]
  OBVIOUS
<1> DEFINE a == SubSeq(s, 1, i - 1)
           b == SubSeq(s, i + 1, Len(s))
<1>3. Len(s) \in Nat \ {0} /\ i \in Nat
  OBVIOUS
<1> HIDE DEF a, b
<1>4. /\ a \in Seq(S) /\ b \in Seq(S)
      /\ Len(a) = i - 1 /\ Len(b) = Len(s) - i
  BY <1>1, <1>2 DEF a, b
<1>5. /\ a \o b \in Seq(S) /\ Len(a \o b) = Len(s) - 1
      /\ \A j \in 1 .. Len(s) - 1 :
           (a \o b)[j] = IF j <= i - 1 THEN a[j] ELSE b[j - (i - 1)]
  <2>1. Len(a) + Len(b) = Len(s) - 1
    BY <1>3, <1>4
  <2>2. /\ a \o b \in Seq(S) /\ Len(a \o b) = Len(a) + Len(b)
        /\ \A j \in 1 .. Len(a) + Len(b) :
             (a \o b)[j] = IF j <= Len(a) THEN a[j] ELSE b[j - Len(a)]
    BY <1>4, Joined
  <2>3. QED
    BY <1>4, <2>1, <2>2
<1>6. ASSUME NEW j \in 1 .. Len(s) - 1
      PROVE  (a \o b)[j] = IF j < i THEN s[j] ELSE s[j + 1]
  <2>1. CASE j < i
    <3>1. j \in 1 .. i - 1 /\ a[j] = s[j]
      BY <1>1, <1>3, <2>1 DEF a
    <3>2. QED
      BY <1>3, <1>5, <2>1, <3>1
  <2>2. CASE ~(j < i)
    <3>1. j - (i - 1) \in 1 .. Len(s) - i /\ i + (j - (i - 1)) = j + 1
      BY <1>3, <2>2
    <3>2. b[j - (i - 1)] = s[j + 1]
      BY <1>2, <3>1 DEF b
    <3>3. QED
      BY <1>3, <1>5, <2>2, <3>2
  <2>3. QED
    BY <2>1, <2>2
<1>7. QED
  BY <1>3, <1>5, <1>6 DEF Without, a, b

\* A sequence over a set is one over a larger set.
LEMMA AlsoOver ==
  ASSUME NEW S, NEW T, S \subseteq T, NEW s \in Seq(S)
  PROVE  s \in Seq(T)
  OBVIOUS

(***************************************************************************)
(* Pending calls.                                                          *)
(***************************************************************************)

FrameType == [at : Signals \cup {"parser"}, of : Clients]

\* What Parsing says of the calls alone.
Shape(f) ==
  \A i \in 1 .. Len(f) :
    /\ f[i].at = "parser" => i = Len(f)
    /\ f[i].at \in {"headersCompleted", "contentReadyRead"} =>
         i + 1 = Len(f) /\ f[i + 1] = Frame("parser", f[i].of)

\* The parser of client c runs.
Runs(f, c) == f # <<>> /\ f[Len(f)] = Frame("parser", c)

\* No slot of headersCompleted runs for a HEAD's response on client c.
NoHead(f, c) ==
  \A i \in 1 .. Len(f) :
    f[i].at = "headersCompleted" /\ f[i].of = c =>
      OperationOf[client[c].serves] # "head"

\* The slots of finished may run above anything.
LEMMA FinishedAbove ==
  ASSUME NEW f \in Seq(FrameType), NEW c \in Clients, Shape(f)
  PROVE  /\ <<Frame("finished", c)>> \o f \in Seq(FrameType)
         /\ Shape(<<Frame("finished", c)>> \o f)
         /\ \A d : Runs(<<Frame("finished", c)>> \o f, d) <=> Runs(f, d)
<1> DEFINE x == Frame("finished", c)
           g == <<x>> \o f
<1>1. x \in FrameType /\ x.at = "finished"
  BY DEF FrameType, Frame, Signals
<1> HIDE DEF x
<1>2. /\ g \in Seq(FrameType) /\ Len(g) = Len(f) + 1 /\ Len(f) \in Nat
      /\ g[1] = x
      /\ \A j \in 1 .. Len(f) : g[j + 1] = f[j]
      /\ \A j \in 1 .. Len(f) + 1 :
           j # 1 => j - 1 \in 1 .. Len(f) /\ g[j] = f[j - 1]
  BY <1>1, AddedFirst
<1> HIDE DEF g
<1>3. Shape(g)
  <2> SUFFICES ASSUME NEW i \in 1 .. Len(g)
               PROVE  /\ g[i].at = "parser" => i = Len(g)
                      /\ g[i].at \in {"headersCompleted", "contentReadyRead"} =>
                           /\ i + 1 = Len(g)
                           /\ g[i + 1] = Frame("parser", g[i].of)
    BY DEF Shape
  <2>1. CASE i = 1
    BY <1>1, <1>2, <2>1
  <2>2. CASE i # 1
    <3>1. i - 1 \in 1 .. Len(f) /\ g[i] = f[i - 1] /\ i \in Nat
      BY <1>2, <2>2
    <3>2. f[i - 1].at = "parser" => i - 1 = Len(f)
      BY <3>1 DEF Shape
    <3>3. f[i - 1].at \in {"headersCompleted", "contentReadyRead"} =>
            i - 1 + 1 = Len(f) /\ f[i - 1 + 1] = Frame("parser", f[i - 1].of)
      BY <3>1 DEF Shape
    <3>4. i \in 1 .. Len(f) => g[i + 1] = f[i]
      BY <1>2
    <3>5. i - 1 + 1 = i
      BY <3>1
    <3>6. QED
      BY <1>2, <3>1, <3>2, <3>3, <3>4, <3>5
  <2>3. QED
    BY <2>1, <2>2
<1>4. ASSUME NEW d
      PROVE  Runs(g, d) <=> Runs(f, d)
  <2>1. CASE f = <<>>
    <3>1. Len(f) = 0 /\ Len(g) = 1 /\ g[Len(g)] = x
      BY <1>2, <2>1
    <3>2. Frame("parser", d).at = "parser"
      BY DEF Frame
    <3>3. QED
      BY <1>1, <2>1, <3>1, <3>2 DEF Runs
  <2>2. CASE f # <<>>
    <3>1. Len(f) \in 1 .. Len(f) /\ g # <<>>
      BY <1>2, <2>2
    <3>2. g[Len(g)] = f[Len(f)]
      BY <1>2, <3>1
    <3>3. QED
      BY <2>2, <3>1, <3>2 DEF Runs
  <2>3. QED
    BY <2>1, <2>2
<1>5. QED
  BY <1>2, <1>3, <1>4 DEF g, x

\* A parser calls back from where nothing else is pending.
LEMMA ParserAlone ==
  ASSUME NEW f \in Seq(FrameType), Shape(f), f # <<>>, Head(f).at = "parser"
  PROVE  /\ Len(f) = 1 /\ Tail(f) = <<>> /\ f[1] = Frame("parser", Head(f).of)
         /\ Head(f).of \in Clients
         /\ \A d : Runs(f, d) <=> d = Head(f).of
<1>1. Head(f) = f[1] /\ Len(f) \in Nat \ {0} /\ f[1] \in FrameType
  BY FirstGone
<1>2. Len(f) = 1
  <2>1. f[1].at = "parser" /\ 1 \in 1 .. Len(f)
    BY <1>1
  <2>2. QED
    BY <2>1 DEF Shape
<1>3. Tail(f) = <<>>
  <2>1. Tail(f) \in Seq(FrameType) /\ Len(Tail(f)) = 0
    BY <1>2, FirstGone
  <2>2. \A s \in Seq(FrameType) : Len(s) = 0 => s = <<>>
    OBVIOUS
  <2>3. QED
    BY <2>1, <2>2
<1>4. f[1] = Frame("parser", f[1].of) /\ f[1].of \in Clients
  BY <1>1 DEF FrameType, Frame
<1>5. \A d : Frame("parser", d).of = d
  BY DEF Frame
<1>6. QED
  BY <1>1, <1>2, <1>3, <1>4, <1>5 DEF Runs

\* The signals that a parser emits.
OfParser == {"headersCompleted", "contentReadyRead"}

\* g is f with a signal of client c's parser above it.
Emits(g, f, at, c) ==
  /\ g \in Seq(FrameType)
  /\ Shape(g)
  /\ \A d : Runs(g, d) <=> Runs(f, d)
  /\ \A i \in 1 .. Len(g) : g[i].at = "headersCompleted" =>
       g[i].of = c /\ at = "headersCompleted"

\* The parser emits a signal.
LEMMA SignalAbove ==
  ASSUME NEW f \in Seq(FrameType), Shape(f), f # <<>>, Head(f).at = "parser",
         NEW at \in OfParser,
         NEW c, c = Head(f).of, NEW g, g = <<Frame(at, c)>> \o f
  PROVE  Emits(g, f, at, c)
<1>1. Len(f) = 1 /\ f[1] = Frame("parser", c) /\ c \in Clients
  BY ParserAlone
<1>2. /\ Frame(at, c) \in FrameType /\ Frame(at, c).at = at
      /\ Frame(at, c).of = c
      /\ Frame("parser", c).at = "parser" /\ Frame("parser", c).of = c
  BY <1>1 DEF FrameType, Frame, Signals, OfParser
<1>3. /\ g \in Seq(FrameType) /\ Len(g) = 2
      /\ g[1] = Frame(at, c) /\ g[2] = Frame("parser", c) /\ g # <<>>
  BY <1>1, <1>2, AddedFirst
<1>4. \A i \in 1 .. Len(g) : i = 1 \/ i = 2
  BY <1>3
<1>5. Shape(g)
  BY <1>2, <1>3, <1>4 DEF Shape, OfParser
<1>6. \A d : Runs(g, d) <=> Runs(f, d)
  BY <1>1, <1>3 DEF Runs
<1>7. QED
  BY <1>2, <1>3, <1>4, <1>5, <1>6 DEF Emits

\* Slots return.
LEMMA SignalGone ==
  ASSUME NEW f \in Seq(FrameType), Shape(f), f # <<>>, Head(f).at # "parser"
  PROVE  /\ Tail(f) \in Seq(FrameType)
         /\ Shape(Tail(f))
         /\ \A d : Runs(Tail(f), d) <=> Runs(f, d)
         /\ \A i \in 1 .. Len(Tail(f)) : i + 1 \in 1 .. Len(f) /\ Tail(f)[i] = f[i + 1]
<1> DEFINE t == Tail(f)
<1>1. /\ t \in Seq(FrameType) /\ Len(t) = Len(f) - 1 /\ Len(f) \in Nat \ {0}
      /\ Head(f) = f[1]
      /\ \A i \in 1 .. Len(f) - 1 : t[i] = f[i + 1]
  BY FirstGone
<1> HIDE DEF t
<1>2. \A i \in 1 .. Len(t) : i + 1 \in 1 .. Len(f) /\ t[i] = f[i + 1]
  BY <1>1
<1>3. Shape(t)
  <2> SUFFICES ASSUME NEW i \in 1 .. Len(t)
               PROVE  /\ t[i].at = "parser" => i = Len(t)
                      /\ t[i].at \in {"headersCompleted", "contentReadyRead"} =>
                           /\ i + 1 = Len(t)
                           /\ t[i + 1] = Frame("parser", t[i].of)
    BY DEF Shape
  <2>1. i + 1 \in 1 .. Len(f) /\ t[i] = f[i + 1] /\ i \in Nat
    BY <1>1, <1>2
  <2>2. f[i + 1].at = "parser" => i + 1 = Len(f)
    BY <2>1 DEF Shape
  <2>3. f[i + 1].at \in {"headersCompleted", "contentReadyRead"} =>
          i + 1 + 1 = Len(f) /\ f[i + 1 + 1] = Frame("parser", f[i + 1].of)
    BY <2>1 DEF Shape
  <2>4. i + 1 \in 1 .. Len(t) => t[i + 1] = f[i + 1 + 1]
    BY <1>2
  <2>5. QED
    BY <1>1, <2>1, <2>2, <2>3, <2>4
<1>4. ASSUME NEW d
      PROVE  Runs(t, d) <=> Runs(f, d)
  <2>1. Frame("parser", d).at = "parser"
    BY DEF Frame
  <2>2. CASE Len(f) = 1
    BY <1>1, <2>1, <2>2 DEF Runs
  <2>3. CASE Len(f) # 1
    <3>1. Len(t) \in 1 .. Len(t) /\ Len(t) + 1 = Len(f) /\ t # <<>>
      BY <1>1, <2>3
    <3>2. QED
      BY <1>2, <3>1 DEF Runs
  <2>4. QED
    BY <2>2, <2>3
<1>5. QED
  BY <1>1, <1>2, <1>3, <1>4 DEF t

(***************************************************************************)
(* What the invariant says.                                                *)
(***************************************************************************)

Report == [what : Signals, of : Requests \cup {0}, error : Errors]

LEMMA Basics ==
  ASSUME TypeOK
  PROVE  /\ Len(client) \in Nat /\ Clients = 1 .. Len(client)
         /\ client \in Seq(ClientState)
         /\ \A c \in Clients : client[c] \in ClientState
         /\ pool \in Seq(Clients) /\ Len(pool) \in Nat
         /\ DOMAIN pool = 1 .. Len(pool)
         /\ \A i \in 1 .. Len(pool) : pool[i] \in Clients
         /\ 0 \notin Clients /\ 0 \notin Requests
         /\ listening \in [Requests -> Clients \cup {0}]
         /\ heard \in [Requests -> Seq(Report)]
         /\ \A r \in Requests :
              /\ heard[r] \in Seq(Report) /\ Len(heard[r]) \in Nat
              /\ DOMAIN heard[r] = 1 .. Len(heard[r])
         /\ frames \in Seq(FrameType)
<1>1. /\ Len(client) \in Nat /\ Clients = 1 .. Len(client)
      /\ client \in Seq(ClientState)
  BY DEF TypeOK, Clients
<1>2. \A c \in Clients : client[c] \in ClientState
  BY <1>1
<1>3. /\ pool \in Seq(Clients) /\ Len(pool) \in Nat
      /\ DOMAIN pool = 1 .. Len(pool)
      /\ \A i \in 1 .. Len(pool) : pool[i] \in Clients
  BY DEF TypeOK
<1>4. 0 \notin Clients /\ 0 \notin Requests
  BY <1>1, RequestsAssumption, FS_CardinalityType
<1>5. heard \in [Requests -> Seq(Report)]
  BY DEF TypeOK, Report
<1>6. \A r \in Requests :
        /\ heard[r] \in Seq(Report) /\ Len(heard[r]) \in Nat
        /\ DOMAIN heard[r] = 1 .. Len(heard[r])
  BY <1>5
<1>7. QED
  BY <1>1, <1>2, <1>3, <1>4, <1>5, <1>6 DEF TypeOK, FrameType

\* Parsing, in terms of the calls and of each client.
LEMMA ParsingNow ==
  ASSUME Parsing
  PROVE  /\ Shape(frames)
         /\ \A i \in 1 .. Len(frames) :
              frames[i].at = "headersCompleted"
              /\ OperationOf[client[frames[i].of].serves] = "head" =>
                   client[frames[i].of].pending
         /\ \A c \in Clients :
              /\ client[c].parsing <=> Runs(frames, c)
              /\ client[c].parsing /\ ~client[c].paused =>
                   client[c].pending \/ client[c].progress = "done"
  BY DEF Parsing, Shape, Runs

LEMMA ParsingThen ==
  ASSUME Shape(frames'),
         \A i \in 1 .. Len(frames') :
           frames'[i].at = "headersCompleted"
           /\ OperationOf[client'[frames'[i].of].serves] = "head" =>
                client'[frames'[i].of].pending,
         \A c \in Clients' :
           /\ client'[c].parsing <=> Runs(frames', c)
           /\ client'[c].parsing /\ ~client'[c].paused =>
                client'[c].pending \/ client'[c].progress = "done"
  PROVE  Parsing'
  BY DEF Parsing, Shape, Runs

\* The reply that listens to a client with something to do.
Uses(r, c) ==
  /\ r \in Requests /\ listening[r] = c
  /\ \A q \in Requests : listening[q] = c => q = r
  /\ \A i \in 1 .. Len(pool) : pool[i] # c
  /\ client[c].pending => client[c].serves = r /\ client[c].putOff = 0
  /\ ~client[c].pending => client[c].putOff = r

LEMMA Busy ==
  ASSUME PoolInductive, NEW c \in Clients,
         client[c].pending \/ client[c].putOff # 0
  PROVE  \E r : Uses(r, c)
<1>1. TypeOK /\ SharedOut /\ Serving
  BY DEF PoolInductive
<1>2. \A i \in 1 .. Len(pool) : pool[i] # c
  BY <1>1 DEF Serving
<1>3. c # 0
  BY <1>1, Basics
<1>4. PICK r \in Requests : listening[r] = c
  BY <1>1, <1>2 DEF SharedOut
<1>5. \A q \in Requests : listening[q] = c => q = r
  BY <1>1, <1>3, <1>4 DEF SharedOut
<1>6. \/ ~client[c].pending /\ client[c].putOff = 0
      \/ client[c].pending /\ client[c].serves = r /\ client[c].putOff = 0
      \/ ~client[c].pending /\ client[c].putOff = r
  BY <1>1, <1>3, <1>4 DEF Serving
<1>7. QED
  BY <1>2, <1>4, <1>5, <1>6 DEF Uses

\* A client changes; those in the pool and those that have users do not trade
\* places.
LEMMA SameShares ==
  ASSUME SharedOut, UNCHANGED <<authority, pool, listening>>
  PROVE  SharedOut'
  BY DEF SharedOut, Clients

\* What is said of the clients when one of them changes to x.
LEMMA ClientChanged ==
  ASSUME TypeOK, NEW c \in Clients, NEW x \in ClientState,
         client' = [client EXCEPT ![c] = x], UNCHANGED authority
  PROVE  /\ client' \in Seq(ClientState) /\ Len(client') = Len(authority')
         /\ Clients' = Clients /\ Len(authority') \in Nat
         /\ client'[c] = x
         /\ \A d \in Clients : d # c => client'[d] = client[d]
<1>1. client \in Seq(ClientState) /\ c \in 1 .. Len(client)
  BY Basics
<1>2. /\ client' \in Seq(ClientState) /\ Len(client') = Len(client)
      /\ client'[c] = x
      /\ \A d \in 1 .. Len(client) : d # c => client'[d] = client[d]
  BY <1>1, Replaced
<1>3. QED
  BY <1>2, Basics DEF TypeOK, Clients

\* A reply is told something about its request, which its client serves.
LEMMA Telling ==
  ASSUME PoolInductive, NEW c \in Clients, client[c].pending,
         NEW what \in Signals, Tell(c, what), client'[c].error \in Errors
  PROVE  \E r :
           /\ Uses(r, c)
           /\ heard' \in [Requests -> Seq(Report)]
           /\ \A q \in Requests : q # r => heard'[q] = heard[q]
           /\ Len(heard[r]) \in Nat
           /\ Len(heard'[r]) = Len(heard[r]) + 1
           /\ heard'[r][Len(heard[r]) + 1].of = r
           /\ heard'[r][Len(heard[r]) + 1].what = what
           /\ \A i \in 1 .. Len(heard[r]) : heard'[r][i] = heard[r][i]
<1>1. TypeOK
  BY DEF PoolInductive
<1>2. PICK r : Uses(r, c)
  BY Busy
<1>3. r \in Requests /\ listening[r] = c /\ client[c].serves = r
  BY <1>2 DEF Uses
<1> DEFINE x == Told(what, r, client'[c].error)
<1>4. x \in Report /\ x.of = r /\ x.what = what
  BY <1>3 DEF Told, Report
<1> HIDE DEF x
<1>5. heard' = [q \in Requests |-> IF listening[q] = c THEN Append(heard[q], x)
                                   ELSE heard[q]]
  BY <1>3 DEF Tell, x
<1>6. \A q \in Requests : listening[q] = c => q = r
  BY <1>2 DEF Uses
<1>7. heard'[r] = Append(heard[r], x)
  BY <1>3, <1>5
<1>8. \A q \in Requests : q # r => heard'[q] = heard[q]
  BY <1>5, <1>6
<1>9. heard[r] \in Seq(Report)
  BY <1>1, <1>3, Basics
<1>10. /\ Append(heard[r], x) \in Seq(Report)
       /\ Len(heard[r]) \in Nat
       /\ Len(heard'[r]) = Len(heard[r]) + 1
       /\ heard'[r][Len(heard[r]) + 1] = x
       /\ \A i \in 1 .. Len(heard[r]) : heard'[r][i] = heard[r][i]
  BY <1>4, <1>7, <1>9, AddedLast
<1>11. heard' \in [Requests -> Seq(Report)]
  <2>1. \A q \in Requests : heard'[q] \in Seq(Report)
    BY <1>1, <1>7, <1>8, <1>10, Basics
  <2>2. QED
    BY <1>5, <2>1
<1>12. QED
  BY <1>2, <1>4, <1>8, <1>10, <1>11

\* So it hears of its own request, the signals in their order.
LEMMA ToldInOrder ==
  ASSUME PoolInductive, NEW c \in Clients, client[c].pending,
         NEW what \in Signals, Tell(c, what), client'[c].error \in Errors,
         what = "headersCompleted" => client[c].progress = "none",
         what = "contentReadyRead" => client[c].progress # "none",
         \A q \in Requests : listening[q] = 0 => listening'[q] = 0,
         what = "finished" =>
           \A q \in Requests : listening[q] = c => listening'[q] = 0
  PROVE  OwnResponse'
<1>1. PICK r :
        /\ Uses(r, c)
        /\ heard' \in [Requests -> Seq(Report)]
        /\ \A q \in Requests : q # r => heard'[q] = heard[q]
        /\ Len(heard[r]) \in Nat
        /\ Len(heard'[r]) = Len(heard[r]) + 1
        /\ heard'[r][Len(heard[r]) + 1].of = r
        /\ heard'[r][Len(heard[r]) + 1].what = what
        /\ \A i \in 1 .. Len(heard[r]) : heard'[r][i] = heard[r][i]
  BY Telling
<1>2. TypeOK /\ OwnResponse /\ Hearing
  BY DEF PoolInductive
<1>3. r \in Requests /\ listening[r] = c /\ c # 0
  BY <1>1, <1>2, Basics DEF Uses
<1>4. /\ \A i \in 1 .. Len(heard[r]) : heard[r][i].what # "finished"
      /\ heard[r] = <<>> <=> client[c].progress = "none"
  BY <1>2, <1>3 DEF Hearing
<1>5. ASSUME NEW q \in Requests, NEW i \in DOMAIN heard'[q]
      PROVE  /\ heard'[q][i].of = q
             /\ heard'[q][i].what = "headersCompleted" => i = 1
             /\ heard'[q][i].what = "contentReadyRead" => i > 1
             /\ heard'[q][i].what = "finished" =>
                  i = Len(heard'[q]) /\ listening'[q] = 0
  <2>1. CASE q # r
    <3>1. heard'[q] = heard[q] /\ i \in DOMAIN heard[q]
      BY <1>1, <2>1
    <3>2. /\ heard[q][i].of = q
          /\ heard[q][i].what = "headersCompleted" => i = 1
          /\ heard[q][i].what = "contentReadyRead" => i > 1
          /\ heard[q][i].what = "finished" =>
               i = Len(heard[q]) /\ listening[q] = 0
      BY <1>2, <3>1 DEF OwnResponse
    <3>3. QED
      BY <3>1, <3>2
  <2>2. CASE q = r
    <3>1. i \in 1 .. Len(heard[r]) + 1
      <4>1. heard'[r] \in Seq(Report)
        BY <1>1, <1>3
      <4>2. QED
        BY <1>1, <2>2, <4>1
    <3>2. CASE i \in 1 .. Len(heard[r])
      <4>1. heard'[r][i] = heard[r][i] /\ i \in DOMAIN heard[r]
        BY <1>1, <1>2, <1>3, <3>2, Basics
      <4>2. /\ heard[r][i].of = r
            /\ heard[r][i].what = "headersCompleted" => i = 1
            /\ heard[r][i].what = "contentReadyRead" => i > 1
        BY <1>2, <1>3, <4>1 DEF OwnResponse
      <4>3. heard[r][i].what # "finished"
        BY <1>4, <3>2
      <4>4. QED
        BY <2>2, <4>1, <4>2, <4>3
    <3>3. CASE i = Len(heard[r]) + 1
      <4>1. heard'[r][i].of = r /\ heard'[r][i].what = what
        BY <1>1, <3>3
      <4>2. what = "headersCompleted" => i = 1
        <5>1. what = "headersCompleted" => heard[r] = <<>>
          BY <1>4
        <5>2. heard[r] = <<>> => Len(heard[r]) = 0
          OBVIOUS
        <5>3. QED
          BY <3>3, <5>1, <5>2
      <4>3. what = "contentReadyRead" => i > 1
        <5>1. what = "contentReadyRead" => heard[r] # <<>>
          BY <1>4
        <5>2. heard[r] # <<>> => Len(heard[r]) # 0
          <6>1. heard[r] \in Seq(Report)
            BY <1>2, <1>3, Basics
          <6>2. \A s \in Seq(Report) : s # <<>> => Len(s) # 0
            OBVIOUS
          <6>3. QED
            BY <6>1, <6>2
        <5>3. QED
          BY <1>1, <3>3, <5>1, <5>2
      <4>4. what = "finished" => i = Len(heard'[r]) /\ listening'[r] = 0
        BY <1>1, <1>3, <3>3
      <4>5. QED
        BY <2>2, <4>1, <4>2, <4>3, <4>4
    <3>4. QED
      BY <1>1, <3>1, <3>2, <3>3
  <2>3. QED
    BY <2>1, <2>2
<1>6. QED
  BY <1>5 DEF OwnResponse

(***************************************************************************)
(* The end of a response.                                                  *)
(***************************************************************************)

\* The client goes to the front of the pool, its reply lets go of it.
LEMMA FinishStep ==
  ASSUME PoolInductive, NEW c \in Clients, client[c].pending,
         NEW ended \in ClientState, ~ended.pending,
         ended.putOff = client[c].putOff, ended.serves = client[c].serves,
         ended.parsing <=> client[c].parsing,
         ended.parsing /\ ~ended.paused => ended.progress = "done",
         NEW then \in Seq(FrameType), Shape(then), NoHead(then, c),
         \A d : Runs(then, d) <=> Runs(frames, d),
         \A i \in 1 .. Len(then) : \E j \in 1 .. Len(frames) :
           then[i] = frames[j],
         Finish(c, ended, then)
  PROVE  PoolInductive'
<1>1. TypeOK /\ SharedOut /\ Serving /\ Parsing /\ Hearing
  BY DEF PoolInductive
<1>2. PICK r : Uses(r, c)
  BY Busy
<1>3. /\ r \in Requests /\ listening[r] = c /\ c # 0
      /\ \A q \in Requests : listening[q] = c => q = r
      /\ \A i \in 1 .. Len(pool) : pool[i] # c
      /\ ended.putOff = 0
  BY <1>1, <1>2, Basics DEF Uses
<1>4. /\ client' \in Seq(ClientState) /\ Len(client') = Len(authority')
      /\ Clients' = Clients /\ Len(authority') \in Nat
      /\ client'[c] = ended
      /\ \A d \in Clients : d # c => client'[d] = client[d]
  BY <1>1, ClientChanged DEF Finish
<1>5. /\ pool' \in Seq(Clients) /\ Len(pool') = Len(pool) + 1
      /\ Len(pool) \in Nat
      /\ pool'[1] = c
      /\ \A i \in 1 .. Len(pool) : pool'[i + 1] = pool[i]
      /\ \A i \in 1 .. Len(pool) + 1 :
           i # 1 => i - 1 \in 1 .. Len(pool) /\ pool'[i] = pool[i - 1]
  BY <1>1, Basics, AddedFirst DEF Finish
<1>6. /\ listening' = [q \in Requests |->
                         IF listening[q] = c THEN 0 ELSE listening[q]]
      /\ UNCHANGED <<made, authority>>
  BY DEF Finish, LetGo
<1>7. /\ listening'[r] = 0
      /\ \A q \in Requests : q # r => listening'[q] = listening[q]
      /\ listening' \in [Requests -> Clients \cup {0}]
  BY <1>1, <1>3, <1>6, Basics
<1>8. ended.error \in Errors
  BY DEF ClientState
<1>9. "finished" \in Signals /\ Tell(c, "finished") /\ client'[c].error \in Errors
  BY <1>4, <1>8 DEF Signals, Finish
<1>10. OwnResponse'
  BY <1>6, <1>9, ToldInOrder
<1>11. /\ heard' \in [Requests -> Seq(Report)]
       /\ \A q \in Requests : q # r => heard'[q] = heard[q]
  <2>1. PICK q : /\ Uses(q, c)
                 /\ heard' \in [Requests -> Seq(Report)]
                 /\ \A p \in Requests : p # q => heard'[p] = heard[p]
    BY <1>9, Telling
  <2>2. q = r
    BY <1>3, <2>1 DEF Uses
  <2>3. QED
    BY <2>1, <2>2
<1>12. /\ frames' \in Seq(FrameType) /\ Shape(frames')
       /\ \A d : Runs(frames', d) <=> Runs(frames, d)
  BY FinishedAbove DEF Finish
<1>13. TypeOK'
  BY <1>1, <1>4, <1>5, <1>6, <1>7, <1>11, <1>12
     DEF TypeOK, Report, FrameType
<1>14. SharedOut'
  <2>1. \A i, j \in 1 .. Len(pool') : pool'[i] = pool'[j] => i = j
    <3>1. SUFFICES ASSUME NEW i \in 1 .. Len(pool'), NEW j \in 1 .. Len(pool'),
                          pool'[i] = pool'[j]
                   PROVE  i = j
      OBVIOUS
    <3>2. (i = 1 /\ j = 1) \/ (i # 1 /\ j # 1)
      <4>1. ASSUME NEW k \in 1 .. Len(pool'), k # 1
            PROVE  pool'[k] # c
        <5>1. k \in 1 .. Len(pool) + 1
          BY <1>5
        <5>2. k - 1 \in 1 .. Len(pool) /\ pool'[k] = pool[k - 1]
          BY <1>5, <4>1, <5>1
        <5>3. QED
          BY <1>3, <5>2
      <4>2. QED
        BY <1>5, <3>1, <4>1
    <3>3. CASE i # 1 /\ j # 1
      <4>1. /\ i - 1 \in 1 .. Len(pool) /\ j - 1 \in 1 .. Len(pool)
            /\ pool[i - 1] = pool[j - 1]
        BY <1>5, <3>1, <3>3
      <4>2. i - 1 = j - 1
        BY <1>1, <4>1 DEF SharedOut
      <4>3. QED
        BY <1>5, <4>2
    <3>4. QED
      BY <3>2, <3>3
  <2>2. \A p, q \in Requests :
          listening'[p] = listening'[q] => listening'[p] = 0 \/ p = q
    BY <1>1, <1>7 DEF SharedOut
  <2>3. ASSUME NEW d \in Clients'
        PROVE  (\E i \in 1 .. Len(pool') : pool'[i] = d)
                 <=> \A q \in Requests : listening'[q] # d
    <3>1. CASE d = c
      <4>1. 1 \in 1 .. Len(pool')
        BY <1>5
      <4>2. \A q \in Requests : listening'[q] # c
        BY <1>3, <1>7
      <4>3. QED
        BY <1>5, <3>1, <4>1, <4>2
    <3>2. CASE d # c
      <4>1. (\E i \in 1 .. Len(pool') : pool'[i] = d)
              <=> \E i \in 1 .. Len(pool) : pool[i] = d
        <5>1. ASSUME NEW i \in 1 .. Len(pool'), pool'[i] = d
              PROVE  \E j \in 1 .. Len(pool) : pool[j] = d
          BY <1>5, <3>2, <5>1
        <5>2. ASSUME NEW j \in 1 .. Len(pool), pool[j] = d
              PROVE  \E i \in 1 .. Len(pool') : pool'[i] = d
          <6>1. j + 1 \in 1 .. Len(pool')
            BY <1>5
          <6>2. QED
            BY <1>5, <5>2, <6>1
        <5>3. QED
          BY <5>1, <5>2
      <4>2. (\A q \in Requests : listening'[q] # d)
              <=> \A q \in Requests : listening[q] # d
        <5>1. d # 0
          BY <1>1, <1>4, Basics
        <5>2. QED
          BY <1>3, <1>7, <3>2, <5>1
      <4>3. QED
        BY <1>1, <1>4, <4>1, <4>2 DEF SharedOut
    <3>3. QED
      BY <3>1, <3>2
  <2>4. QED
    BY <2>1, <2>2, <2>3 DEF SharedOut
<1>15. Serving'
  <2>1. ASSUME NEW i \in 1 .. Len(pool')
        PROVE  ~client'[pool'[i]].pending /\ client'[pool'[i]].putOff = 0
    <3>1. CASE i = 1
      BY <1>3, <1>4, <1>5, <3>1
    <3>2. CASE i # 1
      <4>1. i - 1 \in 1 .. Len(pool) /\ pool'[i] = pool[i - 1]
        BY <1>5, <3>2
      <4>2. /\ pool[i - 1] \in Clients /\ pool[i - 1] # c
            /\ ~client[pool[i - 1]].pending /\ client[pool[i - 1]].putOff = 0
        BY <1>1, <1>3, <4>1, Basics DEF Serving
      <4>3. QED
        BY <1>4, <4>1, <4>2
    <3>3. QED
      BY <3>1, <3>2
  <2>2. ASSUME NEW q \in Requests, listening'[q] # 0
        PROVE  /\ q # r /\ listening'[q] = listening[q]
               /\ client'[listening'[q]] = client[listening[q]]
    BY <1>1, <1>3, <1>4, <1>7, <2>2, Basics
  <2>3. QED
    BY <1>1, <2>1, <2>2 DEF Serving
<1>16. Parsing'
  <2>1. \A d \in Clients :
          /\ client'[d].parsing <=> Runs(frames', d)
          /\ client'[d].parsing /\ ~client'[d].paused =>
               client'[d].pending \/ client'[d].progress = "done"
    BY <1>1, <1>4, <1>12, ParsingNow
  <2>2. ASSUME NEW i \in 1 .. Len(frames'),
               frames'[i].at = "headersCompleted",
               OperationOf[client'[frames'[i].of].serves] = "head"
        PROVE  client'[frames'[i].of].pending
    <3>1. i # 1 /\ i - 1 \in 1 .. Len(then) /\ frames'[i] = then[i - 1]
      <4>1. Frame("finished", c) \in FrameType
            /\ Frame("finished", c).at = "finished"
        BY DEF Frame, FrameType, Signals
      <4>2. /\ frames'[1] = Frame("finished", c)
            /\ Len(frames') = Len(then) + 1
            /\ \A j \in 1 .. Len(then) + 1 :
                 j # 1 => j - 1 \in 1 .. Len(then) /\ frames'[j] = then[j - 1]
        BY <4>1, AddedFirst DEF Finish
      <4>3. QED
        BY <2>2, <4>1, <4>2
    <3>2. PICK j \in 1 .. Len(frames) : frames'[i] = frames[j]
      BY <3>1
    <3>3. frames[j].of \in Clients
      <4>1. frames \in Seq(FrameType)
        BY <1>1, Basics
      <4>2. frames[j] \in FrameType
        BY <4>1
      <4>3. QED
        BY <4>2 DEF FrameType
    <3>4. frames[j].of # c
      <4>1. SUFFICES ASSUME frames[j].of = c
                     PROVE  FALSE
        OBVIOUS
      <4>2. then[i - 1].at = "headersCompleted" /\ then[i - 1].of = c
        BY <2>2, <3>1, <3>2, <4>1
      <4>3. OperationOf[client[c].serves] # "head"
        BY <3>1, <4>2 DEF NoHead
      <4>4. OperationOf[client[c].serves] = "head"
        BY <1>4, <2>2, <3>2, <4>1
      <4>5. QED
        BY <4>3, <4>4
    <3>5. QED
      BY <1>1, <1>4, <2>2, <3>2, <3>3, <3>4, ParsingNow
  <2>3. QED
    BY <1>4, <1>12, <2>1, <2>2, ParsingThen
<1>17. Hearing'
  <2>1. ASSUME NEW q \in Requests, q # r
        PROVE  /\ heard'[q] = heard[q] /\ listening'[q] = listening[q]
               /\ listening[q] # 0 =>
                    client'[listening'[q]] = client[listening[q]]
    BY <1>1, <1>3, <1>4, <1>7, <1>11, <2>1, Basics
  <2>2. ~(r > made')
    BY <1>1, <1>3, <1>6 DEF Hearing
  <2>3. QED
    BY <1>1, <1>6, <1>7, <2>1, <2>2 DEF Hearing
<1>18. QED
  BY <1>10, <1>13, <1>14, <1>15, <1>16, <1>17 DEF PoolInductive

\* A record of a client with other values for what the steps assign.
LEMMA ClientFields ==
  ASSUME NEW c \in ClientState
  PROVE  /\ c.pending \in BOOLEAN /\ c.parsing \in BOOLEAN
         /\ c.paused \in BOOLEAN /\ c.serves \in Requests \cup {0}
         /\ c.putOff \in Requests \cup {0} /\ c.error \in Errors
         /\ c.progress \in {"none", "headers", "done"} /\ c.content \in Nat
  BY DEF ClientState

\* An application that aborts no HEAD in metaDataChanged.
LEMMA AbortStep ==
  ASSUME PoolInductive, ~AbortsInHead, Abort
  PROVE  PoolInductive'
<1>1. TypeOK /\ Parsing
  BY DEF PoolInductive
<1>2. PICK r \in Requests :
        /\ listening[r] # 0
        /\ client[listening[r]].pending
        /\ ~(OperationOf[client[listening[r]].serves] = "head"
             /\ client[listening[r]].parsing)
        /\ Finish(listening[r],
                  [client[listening[r]] EXCEPT !.pending = FALSE,
                     !.error = "aborted",
                     !.paused = client[listening[r]].parsing], frames)
  BY DEF Abort
<1> DEFINE c == listening[r]
           ended == [client[c] EXCEPT !.pending = FALSE, !.error = "aborted",
                       !.paused = client[c].parsing]
<1>3. c \in Clients /\ client[c] \in ClientState
  BY <1>1, <1>2, Basics
<1> HIDE DEF c
<1>4. /\ ended \in ClientState /\ ~ended.pending
      /\ ended.putOff = client[c].putOff /\ ended.serves = client[c].serves
      /\ ended.parsing = client[c].parsing
      /\ ended.paused = client[c].parsing
  BY <1>3 DEF ClientState, Errors
<1>5. frames \in Seq(FrameType) /\ Shape(frames)
  BY <1>1, Basics, ParsingNow
<1>6. NoHead(frames, c)
  <2>1. SUFFICES ASSUME NEW i \in 1 .. Len(frames),
                        frames[i].at = "headersCompleted", frames[i].of = c
                 PROVE  client[c].parsing
    BY <1>2 DEF NoHead, c
  <2>2. i + 1 = Len(frames) /\ frames[i + 1] = Frame("parser", c)
    BY <1>5, <2>1 DEF Shape
  <2>3. Runs(frames, c)
    BY <2>1, <2>2 DEF Runs
  <2>4. QED
    BY <1>1, <1>3, <2>3, ParsingNow
<1>7. Finish(c, ended, frames) /\ client[c].pending
  BY <1>2 DEF c
<1> HIDE DEF ended
<1>8. /\ \A d : Runs(frames, d) <=> Runs(frames, d)
      /\ \A i \in 1 .. Len(frames) : \E j \in 1 .. Len(frames) :
           frames[i] = frames[j]
  OBVIOUS
<1>9. QED
  BY <1>3, <1>4, <1>5, <1>6, <1>7, <1>8, FinishStep

LEMMA ConnectionFailsStep ==
  ASSUME PoolInductive, ConnectionFails
  PROVE  PoolInductive'
<1>1. TypeOK /\ Parsing /\ frames = <<>>
  BY DEF PoolInductive, ConnectionFails, EventLoop
<1>2. PICK c \in Clients :
        /\ client[c].pending
        /\ Finish(c, [client[c] EXCEPT !.pending = FALSE, !.error = "network"],
                  <<>>)
  BY DEF ConnectionFails
<1> DEFINE ended == [client[c] EXCEPT !.pending = FALSE, !.error = "network"]
<1>3. client[c] \in ClientState
  BY <1>1, Basics
<1>4. /\ ended \in ClientState /\ ~ended.pending
      /\ ended.putOff = client[c].putOff /\ ended.serves = client[c].serves
      /\ ended.parsing = client[c].parsing
  BY <1>3 DEF ClientState, Errors
<1>5. ~client[c].parsing
  BY <1>1, ParsingNow DEF Runs
<1>6. /\ frames \in Seq(FrameType) /\ Shape(frames) /\ NoHead(frames, c)
      /\ Len(frames) = 0
  BY <1>1, Basics, ParsingNow DEF NoHead
<1>7. Finish(c, ended, frames)
  BY <1>1, <1>2
<1> HIDE DEF ended
<1>8. \A d : Runs(frames, d) <=> Runs(frames, d)
  OBVIOUS
<1>9. \A i \in 1 .. Len(frames) : \E j \in 1 .. Len(frames) :
        frames[i] = frames[j]
  OBVIOUS
<1>10. QED
  BY <1>2, <1>4, <1>5, <1>6, <1>7, <1>8, <1>9, FinishStep

\* Where only the parser of a client is pending.
LEMMA UnderParser ==
  ASSUME PoolInductive, NEW f \in Seq(FrameType), Shape(f), f # <<>>,
         Head(f).at = "parser", Runs(frames, Head(f).of)
  PROVE  /\ Head(f).of \in Clients
         /\ client[Head(f).of] \in ClientState
         /\ client[Head(f).of].parsing
         /\ NoHead(f, Head(f).of)
         /\ ~client[Head(f).of].paused
            /\ client[Head(f).of].progress # "done" =>
              client[Head(f).of].pending
         /\ \A d : Runs(f, d) <=> Runs(frames, d)
<1> DEFINE c == Head(f).of
<1>1. TypeOK /\ Parsing
  BY DEF PoolInductive
<1>2. /\ Len(f) = 1 /\ f[1] = Frame("parser", c) /\ c \in Clients
      /\ \A d : Runs(f, d) <=> d = c
  BY ParserAlone
<1>3. \A d : Frame("parser", d).of = d /\ Frame("parser", d).at = "parser"
  BY DEF Frame
<1>4. \A d : Runs(frames, d) <=> d = c
  BY <1>3 DEF Runs
<1>5. NoHead(f, c)
  BY <1>2, <1>3 DEF NoHead
<1>6. QED
  BY <1>1, <1>2, <1>4, <1>5, Basics, ParsingNow

LEMMA ResponseEndsStep ==
  ASSUME PoolInductive, ResponseEnds
  PROVE  PoolInductive'
<1> DEFINE c == Head(frames).of
           ended == [client[c] EXCEPT !.pending = FALSE, !.progress = "done"]
<1>1. TypeOK /\ Parsing
  BY DEF PoolInductive
<1>2. /\ frames \in Seq(FrameType) /\ Shape(frames) /\ frames # <<>>
      /\ Head(frames).at = "parser"
      /\ ~client[c].paused /\ client[c].progress = "headers"
      /\ Finish(c, ended, frames)
  BY <1>1, Basics, ParsingNow
     DEF ResponseEnds, ParserRuns, Top, Who, MessageComplete
<1>3. Runs(frames, c)
  BY <1>2, ParserAlone
<1>4. /\ c \in Clients /\ client[c] \in ClientState /\ client[c].pending
      /\ NoHead(frames, c)
  BY <1>2, <1>3, UnderParser
<1>5. /\ ended \in ClientState /\ ~ended.pending
      /\ ended.putOff = client[c].putOff /\ ended.serves = client[c].serves
      /\ ended.parsing = client[c].parsing /\ ended.progress = "done"
  BY <1>4 DEF ClientState
<1> HIDE DEF ended, c
<1>6. /\ \A d : Runs(frames, d) <=> Runs(frames, d)
      /\ \A i \in 1 .. Len(frames) : \E j \in 1 .. Len(frames) :
           frames[i] = frames[j]
  OBVIOUS
<1>7. QED
  BY <1>2, <1>4, <1>5, <1>6, FinishStep

\* The calls below the slots of a signal that a parser emitted.
LEMMA BelowSignal ==
  ASSUME PoolInductive, frames # <<>>,
         Head(frames).at \in {"headersCompleted", "contentReadyRead"}
  PROVE  /\ Tail(frames) \in Seq(FrameType) /\ Shape(Tail(frames))
         /\ Tail(frames) # <<>> /\ Head(Tail(frames)).at = "parser"
         /\ Head(Tail(frames)).of = Head(frames).of
         /\ Runs(frames, Head(frames).of)
<1> DEFINE t == Tail(frames)
           c == Head(frames).of
<1>1. TypeOK /\ Parsing
  BY DEF PoolInductive
<1>2. frames \in Seq(FrameType) /\ Shape(frames)
  BY <1>1, Basics, ParsingNow
<1>3. /\ t \in Seq(FrameType) /\ Shape(t)
      /\ Len(t) = Len(frames) - 1 /\ Len(frames) \in Nat \ {0}
      /\ Head(frames) = frames[1]
      /\ \A i \in 1 .. Len(frames) - 1 : t[i] = frames[i + 1]
  BY <1>2, SignalGone, FirstGone
<1>4. Len(frames) = 2 /\ frames[2] = Frame("parser", c)
  <2>1. 1 \in 1 .. Len(frames)
    BY <1>3
  <2>2. frames[1].at \in {"headersCompleted", "contentReadyRead"}
    BY <1>3
  <2>3. 1 + 1 = Len(frames) /\ frames[1 + 1] = Frame("parser", frames[1].of)
    BY <1>2, <2>1, <2>2 DEF Shape
  <2>4. 1 + 1 = 2 /\ frames[1].of = c
    BY <1>3
  <2> HIDE DEF c
  <2>5. QED
    BY <2>3, <2>4
<1> HIDE DEF t, c
<1>5. Len(t) = 1 /\ t[1] = Frame("parser", c)
  BY <1>3, <1>4
<1>6. t # <<>> /\ Head(t) = Frame("parser", c)
  BY <1>3, <1>5, OneElement
<1>7. Frame("parser", c).at = "parser" /\ Frame("parser", c).of = c
  BY DEF Frame
<1>8. Runs(frames, c)
  BY <1>4 DEF Runs
<1>9. QED
  BY <1>3, <1>6, <1>7, <1>8 DEF t, c

\* Calls return, and nothing else changes.
LEMMA CallsReturn ==
  ASSUME PoolInductive, frames # <<>>, Head(frames).at # "parser",
         frames' = Below,
         UNCHANGED <<made, authority, pool, client, listening, heard>>
  PROVE  PoolInductive'
<1>1. /\ TypeOK /\ SharedOut /\ Serving /\ Parsing /\ Hearing /\ OwnResponse
      /\ UNCHANGED <<authority, pool, client, listening>>
  BY DEF PoolInductive
<1>2. frames \in Seq(FrameType) /\ Shape(frames)
  BY <1>1, Basics, ParsingNow
<1>3. /\ frames' \in Seq(FrameType) /\ Shape(frames')
      /\ \A d : Runs(frames', d) <=> Runs(frames, d)
      /\ \A i \in 1 .. Len(frames') :
           i + 1 \in 1 .. Len(frames) /\ frames'[i] = frames[i + 1]
  BY <1>2, SignalGone DEF Below
<1>4. TypeOK'
  BY <1>1, <1>3 DEF TypeOK, FrameType, Clients
<1>5. SharedOut'
  BY <1>1, SameShares
<1>6. Serving'
  BY <1>1 DEF Serving
<1>7. Parsing'
  <2>1. \A i \in 1 .. Len(frames') :
          frames'[i].at = "headersCompleted"
          /\ OperationOf[client'[frames'[i].of].serves] = "head" =>
               client'[frames'[i].of].pending
    BY <1>1, <1>3, ParsingNow
  <2>2. \A d \in Clients' :
          /\ client'[d].parsing <=> Runs(frames', d)
          /\ client'[d].parsing /\ ~client'[d].paused =>
               client'[d].pending \/ client'[d].progress = "done"
    BY <1>1, <1>3, ParsingNow DEF Clients
  <2>3. QED
    BY <1>3, <2>1, <2>2, ParsingThen
<1>8. Hearing' /\ OwnResponse'
  BY <1>1 DEF Hearing, OwnResponse
<1>9. QED
  BY <1>4, <1>5, <1>6, <1>7, <1>8 DEF PoolInductive

LEMMA SlotsReturnStep ==
  ASSUME PoolInductive, SlotsReturn
  PROVE  PoolInductive'
<1>1. /\ frames # <<>> /\ Head(frames).at # "parser" /\ frames' = Below
      /\ UNCHANGED <<made, authority, pool, client, listening, heard>>
  BY DEF SlotsReturn, Top
<1>2. QED
  BY <1>1, CallsReturn

\* The slots of metaDataChanged have returned: a HEAD is finished.
LEMMA HeadersHandledStep ==
  ASSUME PoolInductive, HeadersHandled
  PROVE  PoolInductive'
<1> DEFINE c == Head(frames).of
           then == Tail(frames)
           ended == [client[c] EXCEPT !.pending = FALSE, !.progress = "done",
                       !.paused = TRUE]
<1>1. TypeOK /\ Parsing
  BY DEF PoolInductive
<1>2. frames # <<>> /\ Head(frames).at = "headersCompleted"
  BY DEF HeadersHandled, Top
<1>3. CASE OperationOf[client[c].serves] = "head"
  <2>1. Finish(c, ended, then)
    BY <1>3 DEF HeadersHandled, Below, Who
  <2>2. /\ then \in Seq(FrameType) /\ Shape(then)
        /\ then # <<>> /\ Head(then).at = "parser" /\ Head(then).of = c
        /\ Runs(frames, c)
    BY <1>2, BelowSignal
  <2>3. /\ c \in Clients /\ client[c] \in ClientState /\ NoHead(then, c)
        /\ \A d : Runs(then, d) <=> Runs(frames, d)
    <3> HIDE DEF c, then
    <3>1. /\ Head(then).of \in Clients /\ client[Head(then).of] \in ClientState
          /\ NoHead(then, Head(then).of)
          /\ \A d : Runs(then, d) <=> Runs(frames, d)
      BY <2>2, UnderParser
    <3>2. QED
      BY <2>2, <3>1
  <2>4. frames \in Seq(FrameType) /\ Shape(frames)
    BY <1>1, Basics, ParsingNow
  <2>5. /\ Head(frames) = frames[1] /\ 1 \in 1 .. Len(frames)
        /\ \A i \in 1 .. Len(then) : \E j \in 1 .. Len(frames) :
             then[i] = frames[j]
    <3>1. \A i \in 1 .. Len(then) :
            i + 1 \in 1 .. Len(frames) /\ then[i] = frames[i + 1]
      BY <1>2, <2>4, SignalGone
    <3>2. Head(frames) = frames[1] /\ Len(frames) \in Nat \ {0}
      BY <1>2, <2>4, FirstGone
    <3>3. QED
      BY <3>1, <3>2
  <2>6. client[c].pending
    BY <1>1, <1>2, <1>3, <2>5, ParsingNow
  <2>7. /\ ended \in ClientState /\ ~ended.pending
        /\ ended.putOff = client[c].putOff /\ ended.serves = client[c].serves
        /\ ended.parsing = client[c].parsing /\ ended.progress = "done"
    BY <2>3 DEF ClientState
  <2> HIDE DEF ended, c, then
  <2>8. QED
    BY <2>1, <2>2, <2>3, <2>5, <2>6, <2>7, FinishStep
<1>4. CASE OperationOf[client[c].serves] # "head"
  <2>1. /\ frames' = Below
        /\ UNCHANGED <<made, authority, pool, client, listening, heard>>
    BY <1>4 DEF HeadersHandled, Who
  <2>2. QED
    BY <1>2, <2>1, CallsReturn
<1>5. QED
  BY <1>3, <1>4

(***************************************************************************)
(* The responses.                                                          *)
(***************************************************************************)

\* A parser's client gets further with its response and says so.
LEMMA ProgressStep ==
  ASSUME PoolInductive, ParserRuns, client[Who].progress # "done",
         NEW next \in ClientState, next.pending = client[Who].pending,
         next.putOff = client[Who].putOff, next.serves = client[Who].serves,
         next.parsing = client[Who].parsing, next.paused = client[Who].paused,
         next.progress # "none",
         NEW signal \in {"headersCompleted", "contentReadyRead"},
         signal = "headersCompleted" => client[Who].progress = "none",
         signal = "contentReadyRead" => client[Who].progress # "none",
         Progresses(Who, next, signal, frames)
  PROVE  PoolInductive'
<1> DEFINE c == Head(frames).of
<1>1. TypeOK /\ SharedOut /\ Serving /\ Parsing /\ Hearing
  BY DEF PoolInductive
<1>2. /\ frames \in Seq(FrameType) /\ Shape(frames) /\ frames # <<>>
      /\ Head(frames).at = "parser" /\ ~client[c].paused
  BY <1>1, Basics, ParsingNow DEF ParserRuns, Top, Who
<1>3. Runs(frames, c)
  BY <1>2, ParserAlone
<1>4. /\ c \in Clients /\ client[c] \in ClientState /\ client[c].pending
  BY <1>2, <1>3, UnderParser DEF Who
<1>5. /\ next.pending = client[c].pending /\ next.putOff = client[c].putOff
      /\ next.serves = client[c].serves /\ next.parsing = client[c].parsing
      /\ next.paused = client[c].paused /\ next.progress # "none"
      /\ signal = "headersCompleted" => client[c].progress = "none"
      /\ signal = "contentReadyRead" => client[c].progress # "none"
  BY DEF Who
<1>6. /\ client' = [client EXCEPT ![c] = next]
      /\ Tell(c, signal)
      /\ frames' = <<Frame(signal, c)>> \o frames
      /\ UNCHANGED <<made, authority, pool, listening>>
  BY DEF Progresses, Who
<1>7. /\ frames' \in Seq(FrameType) /\ Shape(frames')
      /\ \A d : Runs(frames', d) <=> Runs(frames, d)
      /\ \A i \in 1 .. Len(frames') : frames'[i].at = "headersCompleted" =>
           frames'[i].of = c
  <2>1. c = Head(frames).of
    OBVIOUS
  <2>2. /\ frames \in Seq(FrameType) /\ Shape(frames) /\ frames # <<>>
        /\ Head(frames).at = "parser"
    BY <1>2
  <2>3. frames' = <<Frame(signal, c)>> \o frames
    BY <1>6
  <2>4. signal \in OfParser
    BY DEF OfParser
  <2> DEFINE g == <<Frame(signal, c)>> \o frames
  <2> HIDE DEF c
  <2>5. g = <<Frame(signal, c)>> \o frames
    OBVIOUS
  <2> HIDE DEF g
  <2>6. Emits(g, frames, signal, c)
    BY <2>1, <2>2, <2>4, <2>5, SignalAbove, Zenon
  <2>7. frames' = g
    BY <2>3, <2>5
  <2>8. QED
    BY <2>6, <2>7 DEF Emits
<1> HIDE DEF c
<1>8. /\ client' \in Seq(ClientState) /\ Len(client') = Len(authority')
      /\ Clients' = Clients /\ Len(authority') \in Nat
      /\ client'[c] = next
      /\ \A d \in Clients : d # c => client'[d] = client[d]
  BY <1>1, <1>4, <1>6, ClientChanged
<1>9. signal \in Signals /\ client'[c].error \in Errors
  BY <1>8, ClientFields DEF Signals
<1>10. PICK r :
         /\ Uses(r, c)
         /\ heard' \in [Requests -> Seq(Report)]
         /\ \A q \in Requests : q # r => heard'[q] = heard[q]
         /\ Len(heard[r]) \in Nat
         /\ Len(heard'[r]) = Len(heard[r]) + 1
         /\ heard'[r][Len(heard[r]) + 1].of = r
         /\ heard'[r][Len(heard[r]) + 1].what = signal
         /\ \A i \in 1 .. Len(heard[r]) : heard'[r][i] = heard[r][i]
  BY <1>4, <1>6, <1>9, Telling
<1>11. /\ r \in Requests /\ listening[r] = c /\ c # 0
       /\ \A q \in Requests : listening[q] = c => q = r
  BY <1>1, <1>4, <1>10, Basics DEF Uses
<1>12. OwnResponse'
  BY <1>4, <1>5, <1>6, <1>9, ToldInOrder
<1>13. TypeOK'
  BY <1>1, <1>6, <1>7, <1>8, <1>10 DEF TypeOK, Report, FrameType
<1>14. SharedOut'
  BY <1>1, <1>6, SameShares
<1>15. ASSUME NEW d \in Clients
       PROVE  /\ client'[d].pending = client[d].pending
              /\ client'[d].putOff = client[d].putOff
              /\ client'[d].serves = client[d].serves
              /\ client'[d].parsing = client[d].parsing
              /\ client'[d].paused = client[d].paused
  BY <1>5, <1>8
<1>16. Serving'
  <2>1. \A i \in 1 .. Len(pool) :
          ~client'[pool[i]].pending /\ client'[pool[i]].putOff = 0
    BY <1>1, <1>15, Basics DEF Serving
  <2>2. ASSUME NEW q \in Requests, listening[q] # 0
        PROVE  \/ /\ OperationOf[q] = "unknown"
                  /\ ~client'[listening[q]].pending
                  /\ client'[listening[q]].putOff = 0
               \/ /\ client'[listening[q]].pending
                  /\ client'[listening[q]].serves = q
                  /\ client'[listening[q]].putOff = 0
               \/ ~client'[listening[q]].pending
                  /\ client'[listening[q]].putOff = q
    <3>1. listening[q] \in Clients
      BY <1>1, <2>2, Basics
    <3>2. QED
      BY <1>1, <1>15, <2>2, <3>1 DEF Serving
  <2>3. QED
    BY <1>6, <2>1, <2>2 DEF Serving
<1>17. Parsing'
  <2>1. \A d \in Clients :
          /\ client'[d].parsing <=> Runs(frames', d)
          /\ client'[d].parsing /\ ~client'[d].paused =>
               client'[d].pending \/ client'[d].progress = "done"
    <3>1. ASSUME NEW d \in Clients
          PROVE  client'[d].parsing <=> Runs(frames', d)
      BY <1>1, <1>7, <1>15, ParsingNow
    <3>2. client'[c].pending
      BY <1>4, <1>15
    <3>3. \A d \in Clients :
            client[d].parsing /\ ~client[d].paused =>
              client[d].pending \/ client[d].progress = "done"
      BY <1>1, ParsingNow
    <3>4. QED
      BY <1>8, <3>1, <3>2, <3>3
  <2>2. \A i \in 1 .. Len(frames') :
          frames'[i].at = "headersCompleted"
          /\ OperationOf[client'[frames'[i].of].serves] = "head" =>
               client'[frames'[i].of].pending
    BY <1>4, <1>7, <1>15
  <2>3. QED
    BY <1>7, <1>8, <2>1, <2>2, ParsingThen
<1>18. Hearing'
  <2>1. ASSUME NEW q \in Requests, q # r
        PROVE  /\ heard'[q] = heard[q]
               /\ listening[q] # 0 =>
                    client'[listening[q]] = client[listening[q]]
    BY <1>1, <1>8, <1>10, <1>11, <2>1, Basics
  <2>2. ~(r > made')
    BY <1>1, <1>6, <1>11 DEF Hearing
  <2>3. /\ \A i \in 1 .. Len(heard'[r]) : heard'[r][i].what # "finished"
        /\ heard'[r] # <<>>
    <3>1. \A i \in 1 .. Len(heard[r]) : heard[r][i].what # "finished"
      BY <1>1, <1>11 DEF Hearing
    <3>2. ASSUME NEW i \in 1 .. Len(heard'[r])
          PROVE  i \in 1 .. Len(heard[r]) \/ i = Len(heard[r]) + 1
      BY <1>10
    <3>3. signal # "finished"
      OBVIOUS
    <3>4. \A i \in 1 .. Len(heard'[r]) : heard'[r][i].what # "finished"
      BY <1>10, <3>1, <3>2, <3>3
    <3>5. heard'[r] # <<>>
      BY <1>10
    <3>6. QED
      BY <3>4, <3>5
  <2>4. client'[c].pending /\ client'[c].progress # "none"
    BY <1>4, <1>5, <1>8
  <2>5. UNCHANGED <<made, listening>>
    BY <1>6
  <2>6. QED
    BY <1>1, <1>11, <2>1, <2>2, <2>3, <2>4, <2>5 DEF Hearing
<1>19. QED
  BY <1>12, <1>13, <1>14, <1>16, <1>17, <1>18 DEF PoolInductive

LEMMA ResponseHeadersStep ==
  ASSUME PoolInductive, ResponseHeaders
  PROVE  PoolInductive'
<1> DEFINE next == [client[Who] EXCEPT !.progress = "headers"]
<1>1. /\ ParserRuns /\ client[Who].progress = "none"
      /\ Progresses(Who, next, "headersCompleted", frames)
  BY DEF ResponseHeaders
<1>2. Who \in Clients
  BY <1>1, Basics, ParsingNow, ParserAlone
     DEF ParserRuns, Top, Who, PoolInductive
<1>3. client[Who] \in ClientState
  BY <1>2, Basics DEF PoolInductive
<1>4. /\ next \in ClientState
      /\ next.pending = client[Who].pending /\ next.putOff = client[Who].putOff
      /\ next.serves = client[Who].serves
      /\ next.parsing = client[Who].parsing
      /\ next.paused = client[Who].paused /\ next.progress = "headers"
  BY <1>3 DEF ClientState
<1> HIDE DEF next
<1>5. QED
  BY <1>1, <1>4, ProgressStep

LEMMA ResponseContentStep ==
  ASSUME PoolInductive, ResponseContent
  PROVE  PoolInductive'
<1> DEFINE next == [client[Who] EXCEPT !.content = @ + 1]
<1>1. /\ ParserRuns /\ client[Who].progress = "headers"
      /\ Progresses(Who, next, "contentReadyRead", frames)
  BY DEF ResponseContent
<1>2. Who \in Clients
  BY <1>1, Basics, ParsingNow, ParserAlone
     DEF ParserRuns, Top, Who, PoolInductive
<1>3. client[Who] \in ClientState
  BY <1>2, Basics DEF PoolInductive
<1>4. /\ next \in ClientState
      /\ next.pending = client[Who].pending /\ next.putOff = client[Who].putOff
      /\ next.serves = client[Who].serves
      /\ next.parsing = client[Who].parsing
      /\ next.paused = client[Who].paused
      /\ next.progress = client[Who].progress
  BY <1>3 DEF ClientState
<1> HIDE DEF next
<1>5. QED
  BY <1>1, <1>4, ProgressStep

\* A client's parser is entered or left, which its users do not notice.
LEMMA Unnoticed ==
  ASSUME PoolInductive, NEW c \in Clients, NEW x \in ClientState,
         x.pending = client[c].pending, x.putOff = client[c].putOff,
         x.serves = client[c].serves, x.progress = client[c].progress,
         client' = [client EXCEPT ![c] = x],
         UNCHANGED <<made, authority, pool, listening, heard>>
  PROVE  SharedOut' /\ Serving' /\ Hearing' /\ OwnResponse'
<1>1. /\ TypeOK /\ SharedOut /\ Serving /\ Hearing /\ OwnResponse
      /\ UNCHANGED <<authority, pool, listening>>
  BY DEF PoolInductive
<1>2. ASSUME NEW d \in Clients
      PROVE  /\ client'[d].pending = client[d].pending
             /\ client'[d].putOff = client[d].putOff
             /\ client'[d].serves = client[d].serves
             /\ client'[d].progress = client[d].progress
  BY <1>1, ClientChanged
<1>3. \A r \in Requests : listening[r] # 0 => listening[r] \in Clients
  BY <1>1, Basics
<1>4. \A i \in 1 .. Len(pool) : pool[i] \in Clients
  BY <1>1, Basics
<1>5. Serving'
  <2>1. \A i \in 1 .. Len(pool) :
          ~client'[pool[i]].pending /\ client'[pool[i]].putOff = 0
    BY <1>1, <1>2, <1>4 DEF Serving
  <2>2. ASSUME NEW q \in Requests, listening[q] # 0
        PROVE  \/ /\ OperationOf[q] = "unknown"
                  /\ ~client'[listening[q]].pending
                  /\ client'[listening[q]].putOff = 0
               \/ /\ client'[listening[q]].pending
                  /\ client'[listening[q]].serves = q
                  /\ client'[listening[q]].putOff = 0
               \/ ~client'[listening[q]].pending
                  /\ client'[listening[q]].putOff = q
    BY <1>1, <1>2, <1>3, <2>2 DEF Serving
  <2>3. QED
    BY <1>1, <2>1, <2>2 DEF Serving
<1>6. Hearing'
  BY <1>1, <1>2, <1>3 DEF Hearing
<1>7. SharedOut' /\ OwnResponse'
  BY <1>1, SameShares DEF OwnResponse
<1>8. QED
  BY <1>5, <1>6, <1>7

LEMMA ResponseArrivesStep ==
  ASSUME PoolInductive, ResponseArrives
  PROVE  PoolInductive'
<1>1. TypeOK /\ Parsing /\ frames = <<>>
  BY DEF PoolInductive, ResponseArrives, EventLoop
<1>2. PICK c \in Clients :
        /\ client[c].pending
        /\ client' = [client EXCEPT ![c].parsing = TRUE, ![c].paused = FALSE]
        /\ frames' = <<Frame("parser", c)>>
        /\ UNCHANGED <<made, authority, pool, listening, heard>>
  BY DEF ResponseArrives
<1> DEFINE x == [client[c] EXCEPT !.parsing = TRUE, !.paused = FALSE]
<1>3. client[c] \in ClientState /\ c \in 1 .. Len(client)
      /\ client \in Seq(ClientState)
  BY <1>1, Basics
<1>4. /\ x \in ClientState /\ x.pending /\ x.putOff = client[c].putOff
      /\ x.serves = client[c].serves /\ x.progress = client[c].progress
      /\ x.parsing /\ x.pending = client[c].pending
  BY <1>2, <1>3 DEF ClientState
<1>5. client' = [client EXCEPT ![c] = x]
  BY <1>2, <1>3
<1> HIDE DEF x
<1>6. SharedOut' /\ Serving' /\ Hearing' /\ OwnResponse'
  BY <1>2, <1>4, <1>5, Unnoticed
<1>7. /\ client' \in Seq(ClientState) /\ Len(client') = Len(authority')
      /\ Clients' = Clients /\ Len(authority') \in Nat
      /\ client'[c] = x
      /\ \A d \in Clients : d # c => client'[d] = client[d]
  BY <1>1, <1>2, <1>4, <1>5, ClientChanged
<1>8. /\ Frame("parser", c) \in FrameType /\ Frame("parser", c).at = "parser"
      /\ \A d : Frame("parser", d) = Frame("parser", c) <=> d = c
  BY DEF FrameType, Frame
<1>9. /\ frames' \in Seq(FrameType) /\ Len(frames') = 1 /\ frames' # <<>>
      /\ frames'[1] = Frame("parser", c)
  BY <1>2, <1>8
<1>10. Shape(frames') /\ \A d : Runs(frames', d) <=> d = c
  BY <1>8, <1>9 DEF Shape, Runs
<1>11. Parsing'
  <2>1. \A d \in Clients : ~client[d].parsing
    BY <1>1, ParsingNow DEF Runs
  <2>2. \A d \in Clients :
          /\ client'[d].parsing <=> Runs(frames', d)
          /\ client'[d].parsing /\ ~client'[d].paused =>
               client'[d].pending \/ client'[d].progress = "done"
    BY <1>4, <1>7, <1>10, <2>1
  <2>3. \A i \in 1 .. Len(frames') : frames'[i].at # "headersCompleted"
    BY <1>8, <1>9
  <2>4. QED
    BY <1>7, <1>10, <2>2, <2>3, ParsingThen
<1>12. TypeOK'
  BY <1>1, <1>2, <1>7, <1>9 DEF TypeOK, FrameType
<1>13. QED
  BY <1>6, <1>11, <1>12 DEF PoolInductive

\* The client makes the request that was put off, if there is one.
LEMMA ParserReturnsStep ==
  ASSUME PoolInductive, ParserReturns
  PROVE  PoolInductive'
<1> DEFINE c == Head(frames).of
           left == [client[c] EXCEPT !.parsing = FALSE]
           x == Released(left)
<1>1. TypeOK /\ SharedOut /\ Serving /\ Parsing /\ Hearing /\ OwnResponse
  BY DEF PoolInductive
<1>2. /\ frames \in Seq(FrameType) /\ Shape(frames) /\ frames # <<>>
      /\ Head(frames).at = "parser"
  BY <1>1, Basics, ParsingNow DEF ParserReturns, Top
<1>3. /\ Tail(frames) = <<>> /\ c \in Clients
      /\ \A d : Runs(frames, d) <=> d = c
  BY <1>2, ParserAlone
<1>4. /\ client[c] \in ClientState /\ c \in 1 .. Len(client)
      /\ client \in Seq(ClientState)
  BY <1>1, <1>3, Basics
<1>5. /\ left \in ClientState /\ left.pending = client[c].pending
      /\ left.putOff = client[c].putOff /\ left.serves = client[c].serves
      /\ left.progress = client[c].progress /\ ~left.parsing
  BY <1>4 DEF ClientState
<1>6. /\ client' = [client EXCEPT ![c] = x] /\ frames' = <<>>
      /\ UNCHANGED <<made, authority, pool, listening, heard>>
  BY <1>3, <1>4 DEF ParserReturns, Who, Below
<1> HIDE DEF left, c
<1>7. x \in ClientState /\ ~x.parsing
  <2>1. CASE left.putOff = 0
    BY <1>5, <2>1 DEF Released
  <2>2. CASE left.putOff # 0
    BY <1>5, <2>2 DEF Released, Requested, ClientState, Errors
  <2>3. QED
    BY <2>1, <2>2
<1>8. ASSUME client[c].putOff = 0
      PROVE  SharedOut' /\ Serving' /\ Hearing' /\ OwnResponse'
  <2>1. x = left
    BY <1>5, <1>8 DEF Released
  <2> HIDE DEF x
  <2>2. QED
    BY <1>3, <1>5, <1>6, <1>7, <2>1, Unnoticed
<1>9. ASSUME client[c].putOff # 0
      PROVE  SharedOut' /\ Serving' /\ Hearing' /\ OwnResponse'
  <2>1. PICK r : Uses(r, c)
    BY <1>3, <1>9, Busy
  <2>2. /\ r \in Requests /\ listening[r] = c /\ c # 0
        /\ \A q \in Requests : listening[q] = c => q = r
        /\ \A i \in 1 .. Len(pool) : pool[i] # c
        /\ ~client[c].pending /\ client[c].putOff = r
    BY <1>1, <1>3, <1>9, <2>1, Basics DEF Uses
  <2>3. x.pending /\ x.serves = r /\ x.putOff = 0 /\ x.progress = "none"
    BY <1>5, <1>9, <2>2 DEF Released, Requested, ClientState
  <2> HIDE DEF x
  <2>4. /\ client'[c] = x
        /\ \A d \in Clients : d # c => client'[d] = client[d]
    BY <1>1, <1>3, <1>6, <1>7, ClientChanged
  <2>5. UNCHANGED <<made, authority, pool, listening>>
        /\ UNCHANGED heard
    BY <1>6
  <2>6. \A q \in Requests : q # r /\ listening[q] # 0 =>
          client'[listening[q]] = client[listening[q]]
    BY <1>1, <2>2, <2>4, Basics
  <2>7. \A i \in 1 .. Len(pool) : client'[pool[i]] = client[pool[i]]
    BY <1>1, <2>2, <2>4, Basics
  <2>8. Serving'
    BY <1>1, <2>2, <2>3, <2>4, <2>5, <2>6, <2>7 DEF Serving
  <2>9. heard[r] = <<>>
    BY <1>1, <2>2 DEF Hearing
  <2>10. Hearing'
    <3>1. ~(r > made)
      BY <1>1, <2>2 DEF Hearing
    <3>2. \A i \in 1 .. Len(heard[r]) : heard[r][i].what # "finished"
      BY <1>1, <2>2 DEF Hearing
    <3>3. QED
      BY <1>1, <2>2, <2>3, <2>4, <2>5, <2>6, <2>9, <3>1, <3>2 DEF Hearing
  <2>11. SharedOut' /\ OwnResponse'
    BY <1>1, <2>5, SameShares DEF OwnResponse
  <2>12. QED
    BY <2>8, <2>10, <2>11
<1> HIDE DEF x
<1>10. /\ client' \in Seq(ClientState) /\ Len(client') = Len(authority')
       /\ Clients' = Clients /\ Len(authority') \in Nat
       /\ client'[c] = x
       /\ \A d \in Clients : d # c => client'[d] = client[d]
  BY <1>1, <1>3, <1>6, <1>7, ClientChanged
<1>11. /\ frames' \in Seq(FrameType) /\ Shape(frames') /\ Len(frames') = 0
       /\ \A d : ~Runs(frames', d)
  BY <1>6 DEF Shape, Runs
<1>12. Parsing'
  <2>1. \A d \in Clients : ~client'[d].parsing
    BY <1>1, <1>3, <1>7, <1>10, ParsingNow
  <2>2. \A i \in 1 .. Len(frames') : frames'[i].at # "headersCompleted"
    BY <1>11
  <2>3. QED
    BY <1>10, <1>11, <2>1, <2>2, ParsingThen
<1>13. TypeOK'
  BY <1>1, <1>6, <1>10, <1>11 DEF TypeOK, FrameType
<1>14. QED
  BY <1>8, <1>9, <1>12, <1>13 DEF PoolInductive

(***************************************************************************)
(* Requests.                                                               *)
(***************************************************************************)

\* A client with nothing to do is given a request.
Assigned(x, r) ==
  \/ OperationOf[r] = "unknown" /\ ~x.pending /\ x.putOff = 0
  \/ x.pending /\ x.serves = r /\ x.putOff = 0 /\ x.progress = "none"
  \/ ~x.pending /\ x.putOff = r

LEMMA IsSent ==
  ASSUME NEW c \in ClientState, ~c.pending, c.putOff = 0, NEW r \in Requests
  PROVE  /\ Sent(c, r) \in ClientState
         /\ Assigned(Sent(c, r), r)
         /\ Sent(c, r).parsing = c.parsing
         /\ Sent(c, r).paused = c.paused
         /\ c.parsing => /\ Sent(c, r).pending = c.pending
                         /\ Sent(c, r).serves = c.serves
                         /\ Sent(c, r).progress = c.progress
<1>1. CASE OperationOf[r] = "unknown"
  BY <1>1 DEF Sent, Assigned
<1>2. CASE OperationOf[r] # "unknown" /\ c.parsing
  <2>1. Sent(c, r) = [c EXCEPT !.putOff = r]
    BY <1>2 DEF Sent, Requested
  <2>2. [c EXCEPT !.putOff = r] \in ClientState
    BY DEF ClientState
  <2>3. QED
    BY <1>2, <2>1, <2>2 DEF Assigned, ClientState
<1>3. CASE OperationOf[r] # "unknown" /\ ~c.parsing
  <2>1. Sent(c, r) = [c EXCEPT !.serves = r, !.pending = TRUE, !.error = "none",
                               !.progress = "none", !.content = 0]
    BY <1>3 DEF Sent, Requested
  <2> DEFINE y == [c EXCEPT !.serves = r, !.pending = TRUE, !.error = "none",
                          !.progress = "none", !.content = 0]
  <2>2. Sent(c, r) \in ClientState
    <3>1. y \in ClientState
      BY DEF ClientState, Errors
    <3>2. QED
      BY <2>1, <3>1
  <2>3. /\ Sent(c, r).pending /\ Sent(c, r).serves = r
        /\ Sent(c, r).putOff = c.putOff /\ Sent(c, r).progress = "none"
        /\ Sent(c, r).parsing = c.parsing /\ Sent(c, r).paused = c.paused
    BY <2>1 DEF ClientState
  <2>4. QED
    BY <1>3, <2>2, <2>3 DEF Assigned
<1>4. QED
  BY <1>1, <1>2, <1>3

\* The next request.
LEMMA NextRequest ==
  ASSUME TypeOK, made + 1 \in Requests
  PROVE  /\ made \in Nat
         /\ \A q \in Requests : q \in Nat
<1>1. \A q \in Requests : q \in Nat
  BY RequestsAssumption, FS_CardinalityType
<1>2. QED
  BY <1>1 DEF TypeOK

\* Its reply listens to a client that has no other user, and is in the pool no
\* more.
LEMMA UserTaken ==
  ASSUME PoolInductive, NEW r, r = made + 1, r \in Requests,
         NEW k, k # 0,
         made' = r, listening' = [listening EXCEPT ![r] = k], heard' = heard,
         Assigned(client'[k], r),
         \A q \in Requests : listening[q] # k,
         Clients' = Clients \cup {k},
         \A d \in Clients : d # k => client'[d] = client[d],
         \A i, j \in 1 .. Len(pool') : pool'[i] = pool'[j] => i = j,
         \A i \in 1 .. Len(pool') : pool'[i] # k,
         \A d \in Clients : d # k =>
           ((\E i \in 1 .. Len(pool') : pool'[i] = d)
              <=> \E i \in 1 .. Len(pool) : pool[i] = d),
         \A i \in 1 .. Len(pool') : pool'[i] \in Clients
  PROVE  /\ listening' \in [Requests -> Clients' \cup {0}]
         /\ SharedOut' /\ Serving' /\ Hearing' /\ OwnResponse'
<1>1. /\ TypeOK /\ SharedOut /\ Serving /\ Hearing /\ OwnResponse
  BY DEF PoolInductive
<1>2. /\ made \in Nat /\ r > made
      /\ \A q \in Requests : q \in Nat
  BY <1>1, NextRequest
<1>3. listening[r] = 0 /\ heard[r] = <<>>
  BY <1>1, <1>2 DEF Hearing
<1>4. /\ listening \in [Requests -> Clients \cup {0}]
      /\ 0 \notin Clients
  BY <1>1, Basics
<1>5. /\ listening' \in [Requests -> Clients' \cup {0}]
      /\ listening'[r] = k
      /\ \A q \in Requests : q # r => listening'[q] = listening[q]
  BY <1>4
<1>6. ASSUME NEW q \in Requests, q # r, listening[q] # 0
      PROVE  client'[listening'[q]] = client[listening[q]]
  BY <1>4, <1>5, <1>6
<1>7. SharedOut'
  <2>1. \A p, q \in Requests :
          listening'[p] = listening'[q] => listening'[p] = 0 \/ p = q
    <3>1. \A p, q \in Requests : p # r /\ q # r =>
            (listening'[p] = listening'[q] => listening'[p] = 0 \/ p = q)
      BY <1>1, <1>5 DEF SharedOut
    <3>2. QED
      BY <1>5, <3>1
  <2>2. ASSUME NEW d \in Clients'
        PROVE  (\E i \in 1 .. Len(pool') : pool'[i] = d)
                 <=> \A q \in Requests : listening'[q] # d
    <3>1. CASE d = k
      BY <1>5, <3>1
    <3>2. CASE d # k
      <4>1. d \in Clients /\ d # 0
        BY <1>4, <3>2
      <4>2. (\A q \in Requests : listening'[q] # d)
              <=> \A q \in Requests : listening[q] # d
        BY <1>3, <1>5, <3>2, <4>1
      <4>3. (\E i \in 1 .. Len(pool) : pool[i] = d)
              <=> \A q \in Requests : listening[q] # d
        BY <1>1, <4>1 DEF SharedOut
      <4>4. (\E i \in 1 .. Len(pool') : pool'[i] = d)
              <=> \E i \in 1 .. Len(pool) : pool[i] = d
        BY <3>2, <4>1
      <4>5. QED
        BY <4>2, <4>3, <4>4
    <3>3. QED
      BY <3>1, <3>2
  <2>3. QED
    BY <2>1, <2>2 DEF SharedOut
<1>8. Serving'
  <2>1. ASSUME NEW i \in 1 .. Len(pool')
        PROVE  ~client'[pool'[i]].pending /\ client'[pool'[i]].putOff = 0
    <3>1. pool'[i] \in Clients /\ pool'[i] # k
      OBVIOUS
    <3>2. PICK j \in 1 .. Len(pool) : pool[j] = pool'[i]
      BY <3>1
    <3>3. ~client[pool[j]].pending /\ client[pool[j]].putOff = 0
      BY <1>1 DEF Serving
    <3>4. QED
      BY <3>1, <3>2, <3>3
  <2>2. \/ /\ OperationOf[r] = "unknown"
           /\ ~client'[listening'[r]].pending
           /\ client'[listening'[r]].putOff = 0
        \/ /\ client'[listening'[r]].pending
           /\ client'[listening'[r]].serves = r
           /\ client'[listening'[r]].putOff = 0
        \/ /\ ~client'[listening'[r]].pending
           /\ client'[listening'[r]].putOff = r
    BY <1>5 DEF Assigned
  <2>3. ASSUME NEW q \in Requests, q # r, listening'[q] # 0
        PROVE  \/ /\ OperationOf[q] = "unknown"
                  /\ ~client'[listening'[q]].pending
                  /\ client'[listening'[q]].putOff = 0
               \/ /\ client'[listening'[q]].pending
                  /\ client'[listening'[q]].serves = q
                  /\ client'[listening'[q]].putOff = 0
               \/ /\ ~client'[listening'[q]].pending
                  /\ client'[listening'[q]].putOff = q
    BY <1>1, <1>5, <1>6, <2>3 DEF Serving
  <2>4. QED
    BY <2>1, <2>2, <2>3 DEF Serving
<1>9. Hearing'
  <2>1. ASSUME NEW q \in Requests, q > made'
        PROVE  listening'[q] = 0 /\ heard'[q] = <<>>
    <3>1. q # r /\ q > made
      BY <1>2, <2>1
    <3>2. QED
      BY <1>1, <1>5, <3>1 DEF Hearing
  <2>2. ASSUME NEW q \in Requests, listening'[q] # 0
        PROVE  /\ \A i \in 1 .. Len(heard'[q]) : heard'[q][i].what # "finished"
               /\ IF client'[listening'[q]].pending
                  THEN heard'[q] = <<>>
                         <=> client'[listening'[q]].progress = "none"
                  ELSE heard'[q] = <<>>
    <3>1. CASE q = r
      <4>1. client'[listening'[q]].pending =>
              client'[listening'[q]].progress = "none"
        <5>1. OperationOf[r] \in {"get", "head", "unknown"}
          BY OperationsAssumption
        <5>2. client'[k].pending => client'[k].progress = "none"
          BY DEF Assigned
        <5>3. QED
          BY <1>5, <3>1, <5>2
      <4>2. heard'[q] = <<>> /\ Len(heard'[q]) = 0
        BY <1>3, <3>1
      <4>3. \A i \in 1 .. Len(heard'[q]) : heard'[q][i].what # "finished"
        BY <4>2
      <4>4. QED
        BY <4>1, <4>2, <4>3
    <3>2. CASE q # r
      <4>1. /\ \A i \in 1 .. Len(heard[q]) : heard[q][i].what # "finished"
            /\ IF client[listening[q]].pending
               THEN heard[q] = <<>> <=> client[listening[q]].progress = "none"
               ELSE heard[q] = <<>>
        BY <1>1, <1>5, <2>2, <3>2 DEF Hearing
      <4>2. client'[listening'[q]] = client[listening[q]]
        BY <1>5, <1>6, <2>2, <3>2
      <4>3. QED
        BY <4>1, <4>2
    <3>3. QED
      BY <3>1, <3>2
  <2>3. QED
    BY <2>1, <2>2 DEF Hearing
<1>10. OwnResponse'
  <2>1. ASSUME NEW q \in Requests, NEW i \in DOMAIN heard[q]
        PROVE  q # r
    BY <1>3
  <2>2. QED
    BY <1>1, <1>5, <2>1 DEF OwnResponse
<1>11. QED
  BY <1>5, <1>7, <1>8, <1>9, <1>10

\* The calls pending do not notice either.
LEMMA CallsGoOn ==
  ASSUME PoolInductive, NEW k, frames' = frames, Clients' = Clients \cup {k},
         \A d \in Clients : d # k => client'[d] = client[d],
         IF k \in Clients
         THEN /\ client'[k].parsing = client[k].parsing
              /\ client'[k].paused = client[k].paused
              /\ client[k].parsing =>
                   /\ client'[k].pending = client[k].pending
                   /\ client'[k].serves = client[k].serves
                   /\ client'[k].progress = client[k].progress
         ELSE client'[k].parsing = FALSE
  PROVE  Parsing'
<1>1. TypeOK /\ Parsing
  BY DEF PoolInductive
<1>2. frames \in Seq(FrameType) /\ Shape(frames)
  BY <1>1, Basics, ParsingNow
<1>3. \A i \in 1 .. Len(frames) : frames[i].of \in Clients
  <2>1. \A i \in 1 .. Len(frames) : frames[i] \in FrameType
    BY <1>2
  <2>2. QED
    BY <2>1 DEF FrameType
<1>4. ASSUME NEW i \in 1 .. Len(frames), frames[i].at = "headersCompleted",
             OperationOf[client'[frames[i].of].serves] = "head"
      PROVE  client'[frames[i].of].pending
  <2>1. CASE frames[i].of # k
    BY <1>1, <1>3, <1>4, <2>1, ParsingNow
  <2>2. CASE frames[i].of = k
    <3>1. k \in Clients
      BY <1>3, <2>2
    <3>2. i + 1 = Len(frames) /\ frames[i + 1] = Frame("parser", k)
      BY <1>2, <1>4, <2>2 DEF Shape
    <3>3. Runs(frames, k)
      BY <3>2 DEF Runs
    <3>4. client[k].parsing
      BY <1>1, <3>1, <3>3, ParsingNow
    <3>5. /\ client'[k].pending = client[k].pending
          /\ client'[k].serves = client[k].serves
      BY <3>1, <3>4
    <3>6. QED
      BY <1>1, <1>4, <2>2, <3>5, ParsingNow
  <2>3. QED
    BY <2>1, <2>2
<1>5. ASSUME NEW d \in Clients'
      PROVE  /\ client'[d].parsing <=> Runs(frames, d)
             /\ client'[d].parsing /\ ~client'[d].paused =>
                  client'[d].pending \/ client'[d].progress = "done"
  <2>1. CASE d \in Clients /\ d # k
    BY <1>1, <2>1, ParsingNow
  <2>2. CASE d \in Clients /\ d = k
    BY <1>1, <2>2, ParsingNow
  <2>3. CASE d \notin Clients
    <3>1. d = k /\ ~client'[d].parsing
      BY <2>3
    <3>2. ~Runs(frames, d)
      <4>1. frames # <<>> => Len(frames) \in 1 .. Len(frames)
        BY <1>2
      <4>2. Frame("parser", d).of = d
        BY DEF Frame
      <4>3. QED
        BY <1>3, <2>3, <4>1, <4>2 DEF Runs
    <3>3. QED
      BY <3>1, <3>2
  <2>4. QED
    BY <2>1, <2>2, <2>3
<1>6. QED
  BY <1>2, <1>4, <1>5, ParsingThen

LEMMA CreateRequestStep ==
  ASSUME PoolInductive, CreateRequest
  PROVE  PoolInductive'
<1> DEFINE r == made + 1
           a == AuthorityOf[r]
<1>1. TypeOK /\ SharedOut /\ Serving /\ Parsing /\ Hearing
  BY DEF PoolInductive
<1>2. /\ r \in Requests /\ made' = r /\ heard' = heard /\ frames' = frames
  BY DEF CreateRequest
<1>3. ASSUME NEW i \in Available(a),
             pool' = Taken(i),
             client' = [client EXCEPT ![pool[i]] = Sent(@, r)],
             listening' = [listening EXCEPT ![r] = pool[i]],
             UNCHANGED authority
      PROVE  PoolInductive'
  <2> DEFINE k == pool[i]
  <2>1. /\ i \in 1 .. Len(pool) /\ k \in Clients /\ k # 0
        /\ client[k] \in ClientState
    BY <1>1, Basics DEF Available
  <2>2. ~client[k].pending /\ client[k].putOff = 0
    BY <1>1, <2>1 DEF Serving
  <2> DEFINE x == Sent(client[k], r)
  <2>3. client' = [client EXCEPT ![k] = x]
    BY <1>1, <1>3, <2>1, Basics
  <2> HIDE DEF r
  <2>4. /\ x \in ClientState /\ Assigned(x, r)
        /\ x.parsing = client[k].parsing /\ x.paused = client[k].paused
        /\ client[k].parsing => /\ x.pending = client[k].pending
                                /\ x.serves = client[k].serves
                                /\ x.progress = client[k].progress
    BY <1>2, <2>1, <2>2, IsSent
  <2> HIDE DEF x
  <2>5. /\ client' \in Seq(ClientState) /\ Len(client') = Len(authority')
        /\ Clients' = Clients /\ Len(authority') \in Nat
        /\ client'[k] = x
        /\ \A d \in Clients : d # k => client'[d] = client[d]
    BY <1>1, <1>3, <2>1, <2>3, <2>4, ClientChanged
  <2>6. /\ pool \in Seq(Clients)
        /\ pool' \in Seq(Clients) /\ Len(pool') = Len(pool) - 1
        /\ Len(pool) \in Nat \ {0}
        /\ \A j \in 1 .. Len(pool) - 1 :
             pool'[j] = IF j < i THEN pool[j] ELSE pool[j + 1]
    <3>1. pool \in Seq(Clients) /\ pool' = Without(pool, i) /\ i \in 1 .. Len(pool)
      BY <1>1, <1>3, <2>1, Basics DEF Taken
    <3>2. QED
      BY <3>1, TakenOut
  <2>7. \A j \in 1 .. Len(pool) : pool[j] = k => j = i
    BY <1>1, <2>1 DEF SharedOut
  <2>8. \A j \in 1 .. Len(pool') :
          \E l \in 1 .. Len(pool) : /\ pool'[j] = pool[l] /\ l # i
                                    /\ (j < i /\ l = j) \/ (~(j < i) /\ l = j + 1)
    BY <2>1, <2>6
  <2>9. \A j \in 1 .. Len(pool') : pool'[j] # k /\ pool'[j] \in Clients
    BY <2>6, <2>7, <2>8
  <2>10. ASSUME NEW j \in 1 .. Len(pool'), NEW l \in 1 .. Len(pool'),
                pool'[j] = pool'[l]
         PROVE  j = l
    <3>1. PICK m \in 1 .. Len(pool) :
            /\ pool'[j] = pool[m]
            /\ (j < i /\ m = j) \/ (~(j < i) /\ m = j + 1)
      BY <2>8
    <3>2. PICK n \in 1 .. Len(pool) :
            /\ pool'[l] = pool[n]
            /\ (l < i /\ n = l) \/ (~(l < i) /\ n = l + 1)
      BY <2>8
    <3>3. m = n
      <4>1. pool[m] = pool[n]
        BY <2>10, <3>1, <3>2
      <4>2. \A u, v \in 1 .. Len(pool) : pool[u] = pool[v] => u = v
        BY <1>1 DEF SharedOut
      <4>3. QED
        BY <4>1, <4>2
    <3>4. j \in Nat /\ l \in Nat /\ i \in Nat
      BY <2>1, <2>6
    <3>5. QED
      BY <3>1, <3>2, <3>3, <3>4
  <2>11. ASSUME NEW d \in Clients, d # k
         PROVE  (\E j \in 1 .. Len(pool') : pool'[j] = d)
                  <=> \E j \in 1 .. Len(pool) : pool[j] = d
    <3>1. ASSUME NEW j \in 1 .. Len(pool), pool[j] = d
          PROVE  \E l \in 1 .. Len(pool') : pool'[l] = d
      <4>1. j # i /\ j \in Nat /\ i \in Nat
        BY <2>1, <2>6, <2>11, <3>1
      <4>2. CASE j < i
        <5>1. j \in 1 .. Len(pool) - 1 /\ pool'[j] = pool[j]
          BY <2>1, <2>6, <4>1, <4>2
        <5>2. QED
          BY <2>6, <3>1, <5>1
      <4>3. CASE ~(j < i)
        <5>1. /\ j - 1 \in 1 .. Len(pool) - 1 /\ ~(j - 1 < i)
              /\ j - 1 + 1 = j
          BY <2>1, <2>6, <4>1, <4>3
        <5>2. pool'[j - 1] = pool[j]
          BY <2>6, <5>1
        <5>3. QED
          BY <2>6, <3>1, <5>1, <5>2
      <4>4. QED
        BY <4>2, <4>3
    <3>2. QED
      BY <2>8, <3>1
  <2>12. \A q \in Requests : listening[q] # k
    BY <1>1, <2>1 DEF SharedOut
  <2>13. Clients' = Clients \cup {k}
    BY <2>1, <2>5
  <2>14. listening' = [listening EXCEPT ![r] = k] /\ Assigned(client'[k], r)
    BY <1>3, <2>4, <2>5
  <2> HIDE DEF k
  <2>15. /\ listening' \in [Requests -> Clients' \cup {0}]
         /\ SharedOut' /\ Serving' /\ Hearing' /\ OwnResponse'
    BY <1>2, <2>1, <2>5, <2>9, <2>10, <2>11, <2>12, <2>13, <2>14, UserTaken
       DEF r
  <2>16. Parsing'
    BY <1>2, <2>1, <2>4, <2>5, <2>13, CallsGoOn
  <2>17. TypeOK'
    <3>1. made' \in Requests \cup {0}
      BY <1>2
    <3>2. QED
      BY <1>1, <1>2, <2>5, <2>6, <2>15, <3>1 DEF TypeOK
  <2>18. QED
    BY <2>15, <2>16, <2>17 DEF PoolInductive
<1>4. ASSUME authority' = Append(authority, a),
             client' = Append(client, Sent(NewClient, r)),
             listening' = [listening EXCEPT ![r] = Len(authority) + 1],
             UNCHANGED pool
      PROVE  PoolInductive'
  <2> DEFINE k == Len(authority) + 1
             x == Sent(NewClient, r)
  <2>1. /\ NewClient \in ClientState /\ ~NewClient.pending
        /\ NewClient.putOff = 0 /\ ~NewClient.parsing
    BY DEF NewClient, ClientState, Errors
  <2> HIDE DEF r
  <2>2. x \in ClientState /\ Assigned(x, r) /\ x.parsing = FALSE
    BY <1>2, <2>1, IsSent
  <2> HIDE DEF x
  <2>3. /\ Len(authority) \in Nat /\ Len(client) = Len(authority)
        /\ client \in Seq(ClientState)
        /\ Clients = 1 .. Len(authority)
    BY <1>1 DEF TypeOK, Clients
  <2>4. /\ client' \in Seq(ClientState) /\ Len(client') = k
        /\ client'[k] = x
        /\ \A d \in 1 .. Len(client) : client'[d] = client[d]
    BY <1>4, <2>2, <2>3, AddedLast DEF x
  <2>5. Len(authority') = k /\ Len(authority') \in Nat
    BY <1>4, <2>3
  <2>6. Clients' = Clients \cup {k} /\ k # 0 /\ k \notin Clients
    BY <2>3, <2>5 DEF Clients
  <2>7. listening' = [listening EXCEPT ![r] = k]
    BY <1>4
  <2> HIDE DEF k
  <2>8. \A d \in Clients : d # k => client'[d] = client[d]
    BY <2>3, <2>4
  <2>9. /\ \A i \in 1 .. Len(pool') : pool'[i] \in Clients
        /\ \A i \in 1 .. Len(pool') : pool'[i] # k
        /\ \A i, j \in 1 .. Len(pool') : pool'[i] = pool'[j] => i = j
    BY <1>1, <1>4, <2>6, Basics DEF SharedOut
  <2>10. \A d \in Clients : d # k =>
           ((\E i \in 1 .. Len(pool') : pool'[i] = d)
              <=> \E i \in 1 .. Len(pool) : pool[i] = d)
    BY <1>4
  <2>11. \A q \in Requests : listening[q] # k
    BY <1>1, <2>6, Basics
  <2>12. /\ listening' \in [Requests -> Clients' \cup {0}]
         /\ SharedOut' /\ Serving' /\ Hearing' /\ OwnResponse'
    <3>1. made' = r /\ r = made + 1 /\ r \in Requests /\ heard' = heard
      BY <1>2 DEF r
    <3>2. Assigned(client'[k], r)
      BY <2>2, <2>4
    <3>3. k # 0 /\ Clients' = Clients \cup {k}
      BY <2>6
    <3>4. QED
      BY <2>7, <2>8, <2>9, <2>10, <2>11, <3>1, <3>2, <3>3, UserTaken
  <2>13. Parsing'
    BY <1>2, <2>2, <2>4, <2>6, <2>8, CallsGoOn
  <2>14. frames' \in Seq([at : Signals \cup {"parser"}, of : Clients'])
    <3>1. frames \in Seq([at : Signals \cup {"parser"}, of : Clients])
      BY <1>1 DEF TypeOK
    <3>2. [at : Signals \cup {"parser"}, of : Clients]
            \subseteq [at : Signals \cup {"parser"}, of : Clients']
      BY <2>6
    <3>3. QED
      BY <1>2, <3>1, <3>2, AlsoOver
  <2>15. pool' \in Seq(Clients')
    <3>1. pool \in Seq(Clients) /\ Clients \subseteq Clients'
      BY <1>1, <2>6, Basics
    <3>2. QED
      BY <1>4, <3>1
  <2>16. TypeOK'
    BY <1>1, <1>2, <2>4, <2>5, <2>12, <2>14, <2>15 DEF TypeOK
  <2>17. QED
    BY <2>12, <2>13, <2>16 DEF PoolInductive
<1>5. \/ \E i \in Available(a) :
           /\ pool' = Taken(i)
           /\ client' = [client EXCEPT ![pool[i]] = Sent(@, r)]
           /\ listening' = [listening EXCEPT ![r] = pool[i]]
           /\ UNCHANGED authority
      \/ /\ authority' = Append(authority, a)
         /\ client' = Append(client, Sent(NewClient, r))
         /\ listening' = [listening EXCEPT ![r] = Len(authority) + 1]
         /\ UNCHANGED pool
  BY DEF CreateRequest
<1>6. QED
  BY <1>3, <1>4, <1>5

(***************************************************************************)
(* The theorems.                                                           *)
(***************************************************************************)

LEMMA PoolInductiveInit ==
  ASSUME Init
  PROVE  PoolInductive
<1>1. /\ made = 0 /\ authority = <<>> /\ pool = <<>> /\ client = <<>>
      /\ frames = <<>>
      /\ \A r \in Requests : listening[r] = 0 /\ heard[r] = <<>>
      /\ listening = [r \in Requests |-> 0]
      /\ heard = [r \in Requests |-> <<>>]
  BY DEF Init
<1>2. Clients = {} /\ Len(authority) = 0 /\ Len(pool) = 0 /\ Len(frames) = 0
  BY <1>1 DEF Clients
<1>3. TypeOK
  BY <1>1, <1>2 DEF TypeOK
<1>4. SharedOut /\ Serving /\ Parsing
  BY <1>1, <1>2 DEF SharedOut, Serving, Parsing
<1>5. Hearing /\ OwnResponse
  BY <1>1 DEF Hearing, OwnResponse
<1>6. QED
  BY <1>3, <1>4, <1>5 DEF PoolInductive

LEMMA PoolInductiveStep ==
  ASSUME PoolInductive, ~AbortsInHead, [Next]_vars
  PROVE  PoolInductive'
<1>1. CASE CreateRequest
  BY <1>1, CreateRequestStep
<1>2. CASE Abort
  BY <1>2, AbortStep
<1>3. CASE ConnectionFails
  BY <1>3, ConnectionFailsStep
<1>4. CASE ResponseArrives
  BY <1>4, ResponseArrivesStep
<1>5. CASE ResponseHeaders
  BY <1>5, ResponseHeadersStep
<1>6. CASE ResponseContent
  BY <1>6, ResponseContentStep
<1>7. CASE ResponseEnds
  BY <1>7, ResponseEndsStep
<1>8. CASE HeadersHandled
  BY <1>8, HeadersHandledStep
<1>9. CASE SlotsReturn
  BY <1>9, SlotsReturnStep
<1>10. CASE ParserReturns
  BY <1>10, ParserReturnsStep
<1>11. CASE UNCHANGED vars
  <2>1. UNCHANGED <<made, authority, pool, client, listening, heard, frames>>
        /\ Clients' = Clients
    BY <1>11 DEF vars, Clients
  <2>2. TypeOK' /\ SharedOut'
    BY <2>1, SameShares DEF PoolInductive, TypeOK
  <2>3. Serving' /\ Hearing'
    BY <2>1 DEF PoolInductive, Serving, Hearing
  <2>4. Parsing' /\ OwnResponse'
    BY <2>1 DEF PoolInductive, Parsing, OwnResponse
  <2>5. QED
    BY <2>2, <2>3, <2>4 DEF PoolInductive
<1>12. QED
  BY <1>1, <1>2, <1>3, <1>4, <1>5, <1>6, <1>7, <1>8, <1>9, <1>10, <1>11
     DEF Next, Parse

\* Whatever requests an application makes, from the event loop or in the slots of
\* its replies, aborts and failed connections included, the pool of clients, what
\* each client does and what each reply has heard agree (NetworkAccessManager's
\* _urlToClientsMap, NetworkReply's _client), provided that the application does
\* not abort a HEAD in a slot of metaDataChanged.
THEOREM PoolInductiveInvariant ==
  ASSUME AbortsInHead = FALSE
  PROVE  Spec => []PoolInductive
<1>1. Init => PoolInductive
  BY PoolInductiveInit
<1>2. PoolInductive /\ [Next]_vars => PoolInductive'
  BY PoolInductiveStep
<1>3. QED
  BY <1>1, <1>2, PTL DEF Spec

\* No reply ever hears of another's request: not of the one its client served
\* before, nor of the one it serves next; and after finished it hears nothing.
THEOREM RepliesHearTheirOwn ==
  ASSUME AbortsInHead = FALSE
  PROVE  Spec => []OwnResponse
<1>1. PoolInductive => OwnResponse
  BY DEF PoolInductive
<1>2. QED
  BY <1>1, PoolInductiveInvariant, PTL

\* No client is in the pool and in use, or in use by two replies, or lost; one in
\* the pool is idle (NetworkAccessManager::createRequest, client_finished).
THEOREM ClientsAreShared ==
  ASSUME AbortsInHead = FALSE
  PROVE  Spec => []PoolSound
<1>1. PoolInductive => PoolSound
  <2> SUFFICES ASSUME PoolInductive, NEW c \in Clients
               PROVE  LET places == {i \in DOMAIN pool : pool[i] = c}
                          users == {r \in Requests : listening[r] = c}
                      IN /\ Cardinality(places) + Cardinality(users) = 1
                         /\ places # {} =>
                              ~client[c].pending /\ client[c].putOff = 0
                         /\ \A r \in users :
                              \/ OperationOf[r] = "unknown"
                              \/ client[c].pending /\ client[c].serves = r
                              \/ client[c].putOff = r
    BY DEF PoolSound
  <2> DEFINE places == {i \in DOMAIN pool : pool[i] = c}
             users == {r \in Requests : listening[r] = c}
  <2>1. TypeOK /\ SharedOut /\ Serving
    BY DEF PoolInductive
  <2>2. c # 0 /\ DOMAIN pool = 1 .. Len(pool)
    BY <2>1, Basics
  <2>3. \A r \in users :
          \/ OperationOf[r] = "unknown"
          \/ client[c].pending /\ client[c].serves = r
          \/ client[c].putOff = r
    BY <2>1, <2>2 DEF Serving
  <2>4. places # {} => ~client[c].pending /\ client[c].putOff = 0
    BY <2>1, <2>2 DEF Serving
  <2>5. places # {} <=> users = {}
    BY <2>1, <2>2 DEF SharedOut
  <2>6. \A i, j \in places : i = j
    BY <2>1, <2>2 DEF SharedOut
  <2>7. \A r, q \in users : r = q
    BY <2>1, <2>2 DEF SharedOut
  <2> HIDE DEF places, users
  <2>8. Cardinality(places) + Cardinality(users) = 1
    <3>1. ASSUME NEW S, S # {}, \A u, v \in S : u = v
          PROVE  Cardinality(S) = 1
      <4>1. PICK x : S = {x}
        BY <3>1
      <4>2. QED
        BY <4>1, FS_Singleton
    <3>2. Cardinality({}) = 0
      BY FS_EmptySet
    <3>3. CASE places # {}
      <4>1. users = {} /\ Cardinality(places) = 1
        BY <2>5, <2>6, <3>1, <3>3
      <4>2. QED
        BY <3>2, <4>1
    <3>4. CASE places = {}
      <4>1. Cardinality(users) = 1
        BY <2>5, <2>7, <3>1, <3>4
      <4>2. QED
        BY <3>2, <3>4, <4>1
    <3>5. QED
      BY <3>3, <3>4
  <2>9. QED
    BY <2>3, <2>4, <2>8 DEF places, users
<1>2. QED
  BY <1>1, PoolInductiveInvariant, PTL
=============================================================================
