--------------------------- MODULE HttpServerProofs ---------------------------
(***************************************************************************)
(* Proofs about HttpServer, for reserves of every size, any number of      *)
(* connections and sockets, plain and encrypted.                           *)
(***************************************************************************)
EXTENDS HttpServer, FiniteSetTheorems, SequenceTheorems, TLAPS

(***************************************************************************)
(* Pending calls.                                                          *)
(***************************************************************************)

\* Prepending a call, element by element.
LEMMA CallAdded ==
  ASSUME NEW rest \in Seq(Call), NEW f \in Call
  PROVE  /\ <<f>> \o rest \in Seq(Call)
         /\ Len(<<f>> \o rest) = Len(rest) + 1
         /\ (<<f>> \o rest)[1] = f
         /\ Head(<<f>> \o rest) = f
         /\ \A i \in 2 .. Len(rest) + 1 : (<<f>> \o rest)[i] = rest[i - 1]
  OBVIOUS

\* Dropping the innermost call.
LEMMA CallGone ==
  ASSUME NEW s \in Seq(Call), s # <<>>
  PROVE  /\ Tail(s) \in Seq(Call)
         /\ Len(Tail(s)) = Len(s) - 1
         /\ Len(s) \in Nat \ {0}
         /\ Head(s) = s[1]
         /\ Head(s) \in Call
         /\ \A i \in 1 .. Len(s) - 1 : Tail(s)[i] = s[i + 1]
  OBVIOUS

\* All pending calls are of one living connection.
OnlyRuns(s, dead) ==
  \A i \in 1 .. Len(s) : s[i].of = Head(s).of /\ s[i].of \notin dead

\* So they stay when one returns.
LEMMA OnlyRunsTail ==
  ASSUME NEW s \in Seq(Call), s # <<>>, NEW dead, OnlyRuns(s, dead)
  PROVE  OnlyRuns(Tail(s), dead)
<1>1. CASE Tail(s) = <<>>
  BY <1>1 DEF OnlyRuns
<1>2. CASE Tail(s) # <<>>
  <2>1. Tail(s) \in Seq(Call) /\ Head(Tail(s)) = s[2] /\ 2 \in 1 .. Len(s)
    BY <1>2, CallGone
  <2>2. QED
    BY <2>1, CallGone DEF OnlyRuns
<1>3. QED
  BY <1>1, <1>2

\* So they stay when the same connection, or nothing before, makes a call.
LEMMA OnlyRunsMore ==
  ASSUME NEW s \in Seq(Call), NEW f \in Call, NEW dead, OnlyRuns(s, dead),
         s # <<>> => f.of = Head(s).of, f.of \notin dead
  PROVE  OnlyRuns(<<f>> \o s, dead)
<1> DEFINE t == <<f>> \o s
<1>1. /\ Len(t) = Len(s) + 1 /\ t[1] = f /\ Head(t) = f
      /\ \A i \in 2 .. Len(s) + 1 : t[i] = s[i - 1]
  BY CallAdded
<1>2. ASSUME NEW i \in 1 .. Len(t)
      PROVE  t[i].of = f.of /\ t[i].of \notin dead
  <2>1. CASE i = 1
    BY <1>1, <2>1
  <2>2. CASE i # 1
    <3>1. Len(s) \in Nat
      OBVIOUS
    <3>2. i - 1 \in 1 .. Len(s) /\ t[i] = s[i - 1] /\ s # <<>>
      BY <1>1, <2>2, <3>1
    <3>3. QED
      BY <3>2 DEF OnlyRuns
  <2>3. QED
    BY <2>1, <2>2
<1>3. QED
  BY <1>1, <1>2 DEF OnlyRuns

\* The beginning of a sequence.
LEMMA Cut ==
  ASSUME NEW S, NEW s \in Seq(S), NEW m \in 0 .. Len(s)
  PROVE  /\ SubSeq(s, 1, m) \in Seq(S)
         /\ Len(SubSeq(s, 1, m)) = m
         /\ \A i \in 1 .. m : SubSeq(s, 1, m)[i] = s[i]
  OBVIOUS

(***************************************************************************)
(* The reserve.                                                            *)
(***************************************************************************)

\* Connections in use are finitely many.
LEMMA OpenIsFinite ==
  ASSUME TypeOK
  PROVE  /\ IsFiniteSet(open)
         /\ Cardinality(open) \in Nat
         /\ created \in Nat
<1>1. created \in Nat
  BY ReserveAssumption, BoundsAssumption DEF TypeOK
<1>2. IsFiniteSet(1 .. created)
  BY <1>1, FS_Interval
<1>3. QED
  BY <1>1, <1>2, FS_Subset, FS_CardinalityType DEF TypeOK

\* A connection that closes moves from the connections in use to the reserve; the
\* reserve deletes none but those it held.
LEMMA Put ==
  ASSUME TypeOK, EachInOnePlace, EnoughConnections, NEW c \in open,
         PutConnection(c), open' = open \ {c}, created' = created
  PROVE  /\ reserved' \in Seq(1 .. created')
         /\ Len(reserved') <= MaximumReserveCount
         /\ deleted' \subseteq 1 .. created'
         /\ deleted' \subseteq deleted \cup InReserve
         /\ EachInOnePlace'
         /\ EnoughConnections'
<1> DEFINE n == Len(reserved)
<1>1. /\ reserved \in Seq(1 .. created) /\ n \in Nat /\ n <= MaximumReserveCount
      /\ c \in 1 .. created /\ c \notin InReserve /\ c \notin deleted
      /\ open \subseteq 1 .. created /\ deleted \subseteq 1 .. created
  BY DEF TypeOK, EachInOnePlace, Alive
<1>2. Kept \in Nat /\ Kept + 1 = MaximumReserveCount
  BY ReserveAssumption DEF Kept
<1>3. /\ Cardinality(open') = Cardinality(open) - 1
      /\ Cardinality(open) \in Nat /\ Cardinality(open') \in Nat
  BY OpenIsFinite, FS_RemoveElement, FS_CardinalityType
<1>4. CASE n <= Kept
  <2>1. reserved' = Append(reserved, c) /\ deleted' = deleted
    BY <1>4 DEF PutConnection
  <2>2. /\ reserved' \in Seq(1 .. created)
        /\ Len(reserved') = n + 1
        /\ \A i \in 1 .. n : reserved'[i] = reserved[i]
        /\ reserved'[n + 1] = c
    BY <1>1, <2>1
  <2>3. InReserve' = InReserve \cup {c}
    <3>1. ASSUME NEW x \in InReserve' PROVE x \in InReserve \cup {c}
      BY <1>1, <2>2, <3>1 DEF InReserve
    <3>2. ASSUME NEW x \in InReserve PROVE x \in InReserve'
      <4>1. PICK i \in 1 .. n : x = reserved[i]
        BY <3>2 DEF InReserve
      <4>2. i \in 1 .. Len(reserved') /\ reserved'[i] = x
        BY <1>1, <2>2, <4>1
      <4>3. QED
        BY <4>2 DEF InReserve
    <3>3. c \in InReserve'
      <4>1. n + 1 \in 1 .. Len(reserved')
        BY <1>1, <2>2
      <4>2. QED
        BY <2>2, <4>1 DEF InReserve
    <3>4. QED
      BY <3>1, <3>2, <3>3
  <2>4. \A i, j \in 1 .. Len(reserved') : reserved'[i] = reserved'[j] => i = j
    <3>1. \A i \in 1 .. n : reserved[i] # c
      BY <1>1 DEF InReserve
    <3>2. \A i \in 1 .. Len(reserved') : i \in 1 .. n \/ i = n + 1
      BY <1>1, <2>2
    <3>3. QED
      BY <1>1, <2>2, <3>1, <3>2 DEF EachInOnePlace
  <2>5. EachInOnePlace'
    BY <1>1, <2>1, <2>3, <2>4 DEF EachInOnePlace, Alive
  <2>6. EnoughConnections'
    BY <1>1, <1>3, <2>2, ReserveAssumption DEF EnoughConnections
  <2>7. QED
    BY <1>1, <1>2, <1>4, <2>1, <2>2, <2>5, <2>6
<1>5. CASE ~(n <= Kept)
  <2>1. n = Kept + 1
    BY <1>1, <1>2, <1>5
  <2>2. /\ reserved' = Append(SubSeq(reserved, 1, Kept), c)
        /\ deleted' = deleted \cup {reserved[i] : i \in (Kept + 1) .. n}
    BY <1>5 DEF PutConnection
  <2>3. deleted' = deleted \cup {reserved[n]}
    BY <1>1, <2>1, <2>2
  <2>4. /\ SubSeq(reserved, 1, Kept) \in Seq(1 .. created)
        /\ Len(SubSeq(reserved, 1, Kept)) = Kept
        /\ \A i \in 1 .. Kept : SubSeq(reserved, 1, Kept)[i] = reserved[i]
    <3>1. Kept \in 0 .. n
      BY <1>1, <1>2, <2>1
    <3>2. QED
      BY <1>1, <3>1, Cut
  <2>5. /\ reserved' \in Seq(1 .. created)
        /\ Len(reserved') = n
        /\ \A i \in 1 .. Kept : reserved'[i] = reserved[i]
        /\ reserved'[n] = c
    BY <1>1, <1>2, <2>1, <2>2, <2>4
  <2>6. \A i \in 1 .. n : i \in 1 .. Kept \/ i = n
    BY <1>1, <1>2, <2>1
  <2>7. n \in 1 .. n /\ 1 .. Kept \subseteq 1 .. n /\ n \notin 1 .. Kept
    BY <1>1, <1>2, <2>1
  <2>8. InReserve' = (InReserve \ {reserved[n]}) \cup {c}
    <3>1. InReserve' = {reserved[i] : i \in 1 .. Kept} \cup {c}
      BY <2>5, <2>6, <2>7 DEF InReserve
    <3>2. {reserved[i] : i \in 1 .. Kept} = InReserve \ {reserved[n]}
      BY <2>6, <2>7 DEF InReserve, EachInOnePlace
    <3>3. QED
      BY <3>1, <3>2
  <2>9. \A i, j \in 1 .. Len(reserved') : reserved'[i] = reserved'[j] => i = j
    <3>1. \A i \in 1 .. n : reserved[i] # c
      BY <1>1 DEF InReserve
    <3>2. QED
      BY <2>5, <2>6, <2>7, <3>1 DEF EachInOnePlace
  <2>10. reserved[n] \in InReserve /\ reserved[n] \in 1 .. created
    <3>1. reserved[n] \in InReserve
      BY <2>7 DEF InReserve
    <3>2. QED
      BY <1>1, <2>7, <3>1, ElementOfSeq
  <2>11. EachInOnePlace'
    BY <1>1, <2>3, <2>8, <2>9, <2>10 DEF EachInOnePlace, Alive
  <2>12. EnoughConnections'
    BY <1>1, <1>2, <1>3, <2>1, <2>5, ReserveAssumption
       DEF EnoughConnections
  <2>13. QED
    BY <1>1, <1>2, <2>1, <2>3, <2>5, <2>10, <2>11, <2>12
<1>6. QED
  BY <1>4, <1>5

\* A connection that is taken moves from the reserve, or from nowhere, to the
\* connections in use.
LEMMA Take ==
  ASSUME TypeOK, EachInOnePlace, EnoughConnections, NEW c \in Connections,
         TakeConnection(c), open' = open \cup {c}, deleted' = deleted
  PROVE  /\ created' \in MaximumReserveCount .. MaxConnections
         /\ deleted' \subseteq 1 .. created'
         /\ reserved' \in Seq(1 .. created')
         /\ Len(reserved') <= MaximumReserveCount
         /\ open' \subseteq 1 .. created'
         /\ EachInOnePlace'
         /\ EnoughConnections'
<1>1. /\ reserved \in Seq(1 .. created) /\ Len(reserved) \in Nat
      /\ Len(reserved) <= MaximumReserveCount
      /\ open \subseteq 1 .. created /\ deleted \subseteq 1 .. created
      /\ created \in MaximumReserveCount .. MaxConnections
      /\ created \in Nat /\ MaxConnections \in Nat /\ MaximumReserveCount \in Nat
  BY OpenIsFinite, ReserveAssumption, BoundsAssumption DEF TypeOK
<1>2. /\ IsFiniteSet(open) /\ Cardinality(open) \in Nat
      /\ c \notin open => Cardinality(open') = Cardinality(open) + 1
  BY OpenIsFinite, FS_AddElement
<1>3. CASE reserved = <<>>
  <2>1. c = created + 1 /\ created' = c /\ reserved' = <<>> /\ c \in 1 .. MaxConnections
    BY <1>3 DEF TakeConnection, Connections
  <2>2. 1 .. created' = (1 .. created) \cup {c} /\ c \notin 1 .. created
    BY <1>1, <2>1
  <2>3. InReserve = {} /\ InReserve' = {} /\ Len(reserved') = 0 /\ Len(reserved) = 0
    BY <1>3, <2>1 DEF InReserve
  <2>4. EachInOnePlace'
    BY <1>1, <2>2, <2>3 DEF EachInOnePlace, Alive
  <2>5. EnoughConnections'
    BY <1>1, <1>2, <2>2, <2>3 DEF EnoughConnections
  <2>6. created' \in MaximumReserveCount .. MaxConnections
    BY <1>1, <2>1
  <2>7. reserved' \in Seq(1 .. created') /\ Len(reserved') <= MaximumReserveCount
    BY <1>1, <2>1, <2>3
  <2>8. QED
    BY <1>1, <2>2, <2>4, <2>5, <2>6, <2>7
<1>4. CASE reserved # <<>>
  <2> DEFINE n == Len(reserved)
  <2>1. /\ c = reserved[n] /\ created' = created
        /\ reserved' = SubSeq(reserved, 1, n - 1)
    BY <1>4 DEF TakeConnection
  <2>2. n \in Nat \ {0} /\ n \in 1 .. n /\ c \in 1 .. created
    BY <1>1, <1>4, <2>1
  <2>3. /\ reserved' \in Seq(1 .. created)
        /\ Len(reserved') = n - 1
        /\ \A i \in 1 .. n - 1 : reserved'[i] = reserved[i]
    <3>1. n - 1 \in 0 .. n
      BY <2>2
    <3>2. QED
      BY <1>1, <2>1, <3>1, Cut
  <2>4. \A i \in 1 .. n : i \in 1 .. n - 1 \/ i = n
    BY <2>2
  <2>5. 1 .. n - 1 \subseteq 1 .. n /\ n \notin 1 .. n - 1
    BY <2>2
  <2>6. InReserve' = InReserve \ {c} /\ c \in InReserve
    <3>1. InReserve' = {reserved[i] : i \in 1 .. n - 1}
      BY <2>3 DEF InReserve
    <3>2. QED
      BY <2>1, <2>2, <2>4, <2>5, <3>1 DEF InReserve, EachInOnePlace
  <2>7. \A i, j \in 1 .. Len(reserved') : reserved'[i] = reserved'[j] => i = j
    BY <2>3, <2>5 DEF EachInOnePlace
  <2>8. EachInOnePlace'
    BY <2>1, <2>6, <2>7 DEF EachInOnePlace, Alive
  <2>9. c \notin open
    BY <2>6 DEF EachInOnePlace
  <2>10. EnoughConnections'
    BY <1>1, <1>2, <2>2, <2>3, <2>9 DEF EnoughConnections
  <2>11. Len(reserved') <= MaximumReserveCount
    BY <1>1, <2>2, <2>3
  <2>12. QED
    BY <1>1, <2>1, <2>2, <2>3, <2>8, <2>10, <2>11
<1>5. QED
  BY <1>3, <1>4

(***************************************************************************)
(* The steps.                                                              *)
(***************************************************************************)

\* Every state holds what follows from its types.
LEMMA Basics ==
  ASSUME ReserveInductive
  PROVE  /\ calls \in Seq(Call)
         /\ open \subseteq Connections /\ open \cap deleted = {}
         /\ open \cap InReserve = {}
         /\ device \in [Connections -> Sockets \cup {0}]
         /\ socket \in [Sockets -> SocketState]
         /\ ~CrossUse => OnlyRuns(calls, deleted)
         /\ \A c \in open : device[c] \in Sockets \cup {0}
<1>1. created <= MaxConnections /\ created \in Nat /\ MaxConnections \in Nat
  BY OpenIsFinite, ReserveAssumption, BoundsAssumption DEF ReserveInductive, TypeOK
<1>2. open \subseteq Connections
  BY <1>1 DEF ReserveInductive, TypeOK, Connections
<1>3. QED
  BY <1>2 DEF ReserveInductive, TypeOK, EachInOnePlace, Alive, OneConnectionRuns,
              OnlyRuns

\* What only changes sockets or pending calls leaves the reserve alone.
LEMMA ReserveUntouched ==
  ASSUME ReserveInductive, UNCHANGED <<created, deleted, reserved, open>>
  PROVE  EachInOnePlace' /\ EnoughConnections'
  BY DEF ReserveInductive, EachInOnePlace, EnoughConnections, Alive, InReserve

\* The reserve at the start.
LEMMA InitReserveInductive == Init => ReserveInductive
<1> SUFFICES ASSUME Init PROVE ReserveInductive
  OBVIOUS
<1>1. /\ MaximumReserveCount \in Nat \ {0} /\ MaxConnections \in Nat
      /\ MaximumReserveCount <= MaxConnections
  BY ReserveAssumption, BoundsAssumption
<1>2. /\ reserved \in Seq(1 .. created) /\ Len(reserved) = MaximumReserveCount
      /\ \A i \in 1 .. Len(reserved) : reserved[i] = i
      /\ created = MaximumReserveCount
  BY <1>1 DEF Init
<1>3. TypeOK
  BY <1>1, <1>2 DEF Init, TypeOK, SocketState
<1>4. EachInOnePlace
  <2>1. InReserve = 1 .. created
    BY <1>2 DEF InReserve
  <2>2. QED
    BY <1>2, <2>1 DEF Init, EachInOnePlace, Alive
<1>5. EnoughConnections
  BY <1>1, <1>2, FS_EmptySet DEF Init, EnoughConnections
<1>6. OneConnectionRuns
  BY DEF Init, OneConnectionRuns
<1>7. QED
  BY <1>3, <1>4, <1>5, <1>6 DEF ReserveInductive

\* A socket is served.
LEMMA ServeStep ==
  ASSUME ReserveInductive, NEW s \in Sockets, NEW c \in Connections,
         Serve(c, s), UNCHANGED <<deleted, calls>>
  PROVE  ReserveInductive'
<1>1. /\ created' \in MaximumReserveCount .. MaxConnections
      /\ deleted' \subseteq 1 .. created'
      /\ reserved' \in Seq(1 .. created')
      /\ Len(reserved') <= MaximumReserveCount
      /\ open' \subseteq 1 .. created'
      /\ EachInOnePlace'
      /\ EnoughConnections'
  BY Take DEF Serve, ReserveInductive
<1>2. /\ device' \in [Connections -> Sockets \cup {0}]
      /\ socket' \in [Sockets -> SocketState]
      /\ calls' \in Seq(Call)
  BY Basics DEF Serve, SocketState
<1>3. OneConnectionRuns'
  BY DEF ReserveInductive, OneConnectionRuns
<1>4. QED
  BY <1>1, <1>2, <1>3 DEF ReserveInductive, TypeOK

\* Only the state of a socket changes.
LEMMA SocketStep ==
  ASSUME ReserveInductive, NEW s \in Sockets, NEW to \in SocketState,
         socket' = [socket EXCEPT ![s] = to],
         UNCHANGED <<created, deleted, reserved, open, device, calls>>
  PROVE  ReserveInductive'
<1>1. socket' \in [Sockets -> SocketState]
  BY Basics
<1>2. TypeOK' /\ OneConnectionRuns'
  BY <1>1 DEF ReserveInductive, TypeOK, OneConnectionRuns
<1>3. QED
  BY <1>2, ReserveUntouched DEF ReserveInductive

\* A connection closes.  If handlers keep to their own connection, the calls
\* pending are those of the connection that closes, which the reserve, not
\* holding it, does not delete.
LEMMA ClosingStep ==
  ASSUME ReserveInductive, NEW c \in open, NEW rest \in Seq(Call),
         ~CrossUse => OnlyRuns(rest, deleted),
         ~CrossUse /\ rest # <<>> => Head(rest).of = c,
         TransitionToClosed(c, rest)
  PROVE  ReserveInductive'
<1> DEFINE f == Signal(c, "closed", TRUE)
<1>1. /\ open' = open \ {c} /\ created' = created /\ device' = device
      /\ calls' = <<f>> \o rest
      /\ socket' = [socket EXCEPT ![device[c]] = "doomed"]
  BY DEF TransitionToClosed, DropSocket
<1>2. /\ reserved' \in Seq(1 .. created')
      /\ Len(reserved') <= MaximumReserveCount
      /\ deleted' \subseteq 1 .. created'
      /\ deleted' \subseteq deleted \cup InReserve
      /\ EachInOnePlace'
      /\ EnoughConnections'
  BY <1>1, Put DEF TransitionToClosed, ReserveInductive
<1>3. f \in Call /\ f.of = c /\ c \notin deleted'
  BY <1>2, Basics DEF Call, Signal
<1>4. calls' \in Seq(Call)
  BY <1>1, <1>3, CallAdded
<1>5. socket' \in [Sockets -> SocketState]
  BY <1>1, Basics DEF SocketState
<1>6. TypeOK'
  BY <1>1, <1>2, <1>4, <1>5 DEF ReserveInductive, TypeOK
<1>7. OneConnectionRuns'
  <2> SUFFICES ASSUME ~CrossUse PROVE OnlyRuns(calls', deleted')
    BY DEF OneConnectionRuns, OnlyRuns
  <2>1. OnlyRuns(rest, deleted')
    <3>1. ASSUME NEW i \in 1 .. Len(rest) PROVE rest[i].of \notin deleted'
      <4>1. rest # <<>> /\ rest[i].of = Head(rest).of
        BY DEF OnlyRuns
      <4>2. QED
        BY <1>3, <4>1
    <3>2. QED
      BY <3>1 DEF OnlyRuns
  <2>2. OnlyRuns(<<f>> \o rest, deleted')
    BY <1>3, <2>1, OnlyRunsMore
  <2>3. QED
    BY <1>1, <2>2
<1>8. QED
  BY <1>2, <1>6, <1>7 DEF ReserveInductive

\* Only the pending calls, and perhaps a device, change.
LEMMA CallStep ==
  ASSUME ReserveInductive, UNCHANGED <<created, deleted, reserved, open, socket>>,
         device' \in [Connections -> Sockets \cup {0}],
         calls' \in Seq(Call), ~CrossUse => OnlyRuns(calls', deleted)
  PROVE  ReserveInductive'
<1>1. TypeOK' /\ OneConnectionRuns'
  BY DEF ReserveInductive, TypeOK, OneConnectionRuns, OnlyRuns
<1>2. QED
  BY <1>1, ReserveUntouched DEF ReserveInductive

\* A signal of a connection the application may use is emitted.
LEMMA EmitStep ==
  ASSUME ReserveInductive, NEW c \in open, NEW rest \in Seq(Call),
         ~CrossUse => OnlyRuns(rest, deleted),
         ~CrossUse /\ rest # <<>> => Head(rest).of = c,
         NEW at \in {"requestReady", "requestCompleted"}, NEW resumes \in BOOLEAN,
         calls' = <<Signal(c, at, resumes)>> \o rest,
         UNCHANGED <<created, deleted, reserved, open, device, socket>>
  PROVE  ReserveInductive'
<1> DEFINE f == Signal(c, at, resumes)
<1>1. f \in Call /\ f.of = c /\ c \notin deleted
  BY Basics DEF Call, Signal
<1>2. calls' \in Seq(Call)
  BY <1>1, CallAdded
<1>3. ~CrossUse => OnlyRuns(calls', deleted)
  BY <1>1, OnlyRunsMore
<1>4. device' \in [Connections -> Sockets \cup {0}]
  BY Basics
<1>5. QED
  BY <1>2, <1>3, <1>4, CallStep

\* The handlers of a signal have run.
LEMMA ReturnsStep ==
  ASSUME ReserveInductive, Returns
  PROVE  ReserveInductive'
<1>1. /\ calls # <<>> /\ Tail(calls) \in Seq(Call) /\ Head(calls) \in Call
      /\ ~CrossUse => OnlyRuns(Tail(calls), deleted)
  BY Basics, CallGone, OnlyRunsTail
     DEF Returns, ClosedReturns, CompletedReturns, ReadyReturns, Running
<1>2. ~CrossUse /\ Tail(calls) # <<>> => Head(Tail(calls)).of = Head(calls).of
  <2>1. ASSUME Tail(calls) # <<>>
        PROVE  Head(Tail(calls)) = calls[2] /\ 2 \in 1 .. Len(calls)
    BY <1>1, <2>1, Basics, CallGone
  <2>2. QED
    BY <2>1, Basics DEF OnlyRuns
<1>3. CASE ClosedReturns
  <2>1. device' \in [Connections -> Sockets \cup {0}]
    BY <1>1, <1>3, Basics DEF ClosedReturns, Call
  <2>2. QED
    BY <1>1, <1>3, <2>1, CallStep DEF ClosedReturns
<1>4. CASE ReadyReturns
  BY <1>1, <1>4, Basics, CallStep DEF ReadyReturns
<1>5. CASE CompletedReturns
  <2> DEFINE c == Head(calls).of
  <2>1. CASE calls' = Tail(calls)
             /\ UNCHANGED <<created, deleted, reserved, open, device, socket>>
    BY <1>1, <2>1, Basics, CallStep
  <2>2. ASSUME c \in open, NEW resumes \in BOOLEAN,
               calls' = <<Signal(c, "requestReady", resumes)>> \o Tail(calls),
               UNCHANGED <<created, deleted, reserved, open, device, socket>>
        PROVE  ReserveInductive'
    BY <1>1, <1>2, <2>2, EmitStep
  <2>3. CASE c \in open /\ TransitionToClosed(c, Tail(calls))
    BY <1>1, <1>2, <2>3, ClosingStep
  <2>4. QED
    BY <1>5, <2>1, <2>2, <2>3 DEF CompletedReturns
<1>6. QED
  BY <1>3, <1>4, <1>5 DEF Returns

\* Every step of the server, its sockets, its connections and the application
\* preserves the reserve's part of the inductive invariant.
LEMMA ReserveInductiveStep ==
  ASSUME ReserveInductive, [Next]_vars
  PROVE  ReserveInductive'
<1>1. CASE UNCHANGED vars
  <2>1. TypeOK' /\ OneConnectionRuns'
    BY <1>1 DEF vars, ReserveInductive, TypeOK, OneConnectionRuns
  <2>2. QED
    BY <1>1, <2>1, ReserveUntouched DEF vars, ReserveInductive
<1>2. ASSUME NEW s \in Sockets,
             \/ IncomingConnection(s)
             \/ Encrypted(s)
      PROVE  ReserveInductive'
  BY <1>2, ServeStep DEF IncomingConnection, Encrypted
<1>3. ASSUME NEW s \in Sockets,
             \/ StartServerEncryption(s)
             \/ SetSocketDescriptorFails(s)
             \/ HandshakeFails(s)
             \/ DeferredDelete(s)
      PROVE  ReserveInductive'
  <2>1. {"handshaking", "deleted", "closed"} \subseteq SocketState
    BY DEF SocketState
  <2>2. QED
    BY <1>3, <2>1, SocketStep
       DEF StartServerEncryption, SetSocketDescriptorFails, HandshakeFails,
           DeferredDelete
<1>4. ASSUME NEW c \in Connections, PeerCloses(c) \/ Close(c)
      PROVE  ReserveInductive'
  <2>1. /\ c \in open /\ TransitionToClosed(c, calls)
        /\ ~CrossUse /\ calls # <<>> => Head(calls).of = c
    BY <1>4 DEF PeerCloses, Close, AppUses, EventLoop
  <2>2. QED
    BY <2>1, Basics, ClosingStep
<1>5. ASSUME NEW c \in Connections, RequestArrives(c)
      PROVE  ReserveInductive'
  <2>1. /\ c \in open /\ calls = <<>>
        /\ calls' = <<Signal(c, "requestReady", FALSE)>> \o calls
        /\ UNCHANGED <<created, deleted, reserved, open, device, socket>>
    BY <1>5 DEF RequestArrives, EventLoop
  <2>2. QED
    BY <2>1, Basics, EmitStep
<1>6. ASSUME NEW c \in Connections, CompleteResponse(c)
      PROVE  ReserveInductive'
  <2>1. /\ c \in open
        /\ ~CrossUse /\ calls # <<>> => Head(calls).of = c
        /\ calls' = <<Signal(c, "requestCompleted", TRUE)>> \o calls
        /\ UNCHANGED <<created, deleted, reserved, open, device, socket>>
    BY <1>6 DEF CompleteResponse, AppUses
  <2>2. QED
    BY <2>1, Basics, EmitStep
<1>7. QED
  BY <1>1, <1>2, <1>3, <1>4, <1>5, <1>6, ReturnsStep DEF Next

LEMMA ReserveInductiveInvariant == Spec => []ReserveInductive
<1>1. Init => ReserveInductive
  BY InitReserveInductive
<1>2. ReserveInductive /\ [Next]_vars => ReserveInductive'
  BY ReserveInductiveStep
<1>3. QED
  BY <1>1, <1>2, PTL DEF Spec

(***************************************************************************)
(* The sockets.                                                            *)
(***************************************************************************)

\* Connection c waits, below the pending calls s, to let go of its device.
Closing(s, c) ==
  \E i \in 1 .. Len(s) : s[i] = Signal(c, "closed", TRUE)

\* Its handlers of closed run.
Closed(s, c) == \E i \in 1 .. Len(s) : s[i].at = "closed" /\ s[i].of = c

LEMMA CloserAdded ==
  ASSUME NEW s \in Seq(Call), NEW f \in Call, NEW c
  PROVE  /\ Closing(s, c) => Closing(<<f>> \o s, c)
         /\ f = Signal(c, "closed", TRUE) => Closing(<<f>> \o s, c)
         /\ Closed(<<f>> \o s, c) =>
              Closed(s, c) \/ (f.at = "closed" /\ f.of = c)
<1> DEFINE t == <<f>> \o s
<1>1. /\ t[1] = f /\ Len(t) = Len(s) + 1 /\ Len(s) \in Nat
      /\ \A i \in 1 .. Len(s) : t[i + 1] = s[i] /\ i + 1 \in 1 .. Len(t)
      /\ 1 \in 1 .. Len(t)
      /\ \A i \in 1 .. Len(t) :
           i # 1 => i - 1 \in 1 .. Len(s) /\ t[i] = s[i - 1]
  BY CallAdded
<1> HIDE DEF t
<1>2. Closing(s, c) => Closing(t, c)
  BY <1>1 DEF Closing
<1>3. f = Signal(c, "closed", TRUE) => Closing(t, c)
  BY <1>1 DEF Closing
<1>4. Closed(t, c) => Closed(s, c) \/ (f.at = "closed" /\ f.of = c)
  BY <1>1 DEF Closed
<1>5. QED
  BY <1>2, <1>3, <1>4 DEF t

LEMMA CloserGone ==
  ASSUME NEW s \in Seq(Call), s # <<>>, NEW c
  PROVE  /\ Closing(s, c) =>
              Closing(Tail(s), c) \/ Head(s) = Signal(c, "closed", TRUE)
         /\ Closed(Tail(s), c) => Closed(s, c)
         /\ Head(s).at = "closed" /\ Head(s).of = c => Closed(s, c)
<1> DEFINE t == Tail(s)
<1>1. /\ Head(s) = s[1] /\ Len(t) = Len(s) - 1 /\ Len(s) \in Nat \ {0}
      /\ \A i \in 1 .. Len(s) :
           i # 1 => i - 1 \in 1 .. Len(t) /\ t[i - 1] = s[i]
      /\ \A i \in 1 .. Len(t) : i + 1 \in 1 .. Len(s) /\ t[i] = s[i + 1]
      /\ 1 \in 1 .. Len(s)
  BY CallGone
<1> HIDE DEF t
<1>2. Closing(s, c) => Closing(t, c) \/ Head(s) = Signal(c, "closed", TRUE)
  BY <1>1 DEF Closing
<1>3. Closed(t, c) => Closed(s, c)
  BY <1>1 DEF Closed
<1>4. Head(s).at = "closed" /\ Head(s).of = c => Closed(s, c)
  BY <1>1 DEF Closed
<1>5. QED
  BY <1>2, <1>3, <1>4 DEF t

\* The sockets' part of the inductive invariant.
SocketsSound ==
  /\ \A c \in open : device[c] # 0 /\ socket[device[c]] = "connected"
  /\ \A c, d \in open : device[c] = device[d] => c = d
  /\ \A c \in Alive \ open : device[c] = 0 \/ Closing(calls, c)
  /\ \A c \in open : ~Closed(calls, c)
  /\ \A s \in Sockets : socket[s] = "connected" => \E c \in open : device[c] = s

LEMMA SoundSockets == ServerInductive <=> ReserveInductive /\ SocketsSound
  BY DEF ServerInductive, OwnSocket, ClosedStaysClosed, ConnectedIsServed,
         SocketsSound, Closing, Closed

\* What was said of the sockets remains true when only calls come and go, and
\* none that lets go of a device.
LEMMA CallsAlone ==
  ASSUME SocketsSound, UNCHANGED <<created, deleted, open, device, socket>>,
         \A c \in Connections : Closing(calls, c) => Closing(calls', c),
         \A c \in Connections : Closed(calls', c) => Closed(calls, c),
         Alive \subseteq Connections, open \subseteq Connections
  PROVE  SocketsSound'
  BY DEF SocketsSound, Alive

\* The living connections.
LEMMA AliveConnections ==
  ASSUME ReserveInductive
  PROVE  Alive \subseteq Connections /\ open \subseteq Alive
<1>1. created <= MaxConnections /\ created \in Nat /\ MaxConnections \in Nat
  BY OpenIsFinite, ReserveAssumption, BoundsAssumption DEF ReserveInductive, TypeOK
<1>2. QED
  BY <1>1 DEF ReserveInductive, EachInOnePlace, Alive, Connections

\* A connection that is taken was not in use; only it leaves the others.
LEMMA Taken ==
  ASSUME ReserveInductive, NEW c \in Connections, TakeConnection(c),
         deleted' = deleted
  PROVE  c \notin open /\ Alive' \subseteq Alive \cup {c}
<1>1. created \in Nat /\ open \subseteq 1 .. created
  BY OpenIsFinite DEF ReserveInductive, TypeOK
<1>2. CASE reserved = <<>>
  <2>1. c = created + 1 /\ created' = c
    BY <1>2 DEF TakeConnection
  <2>2. QED
    BY <1>1, <2>1 DEF Alive
<1>3. CASE reserved # <<>>
  <2>1. c = reserved[Len(reserved)] /\ created' = created
    BY <1>3 DEF TakeConnection
  <2>2. reserved \in Seq(1 .. created)
    BY DEF ReserveInductive, TypeOK
  <2>3. Len(reserved) \in 1 .. Len(reserved)
    BY <1>3, <2>2
  <2>4. c \in InReserve
    BY <2>1, <2>3 DEF InReserve
  <2>5. QED
    BY <2>1, <2>4 DEF ReserveInductive, EachInOnePlace, Alive
<1>4. QED
  BY <1>2, <1>3

\* A connection is opened from the event loop: nothing of its last use is pending.
LEMMA ServeSockets ==
  ASSUME ServerInductive, NEW s \in Sockets, NEW c \in Connections,
         socket[s] # "connected", Serve(c, s), EventLoop,
         UNCHANGED <<deleted, calls>>
  PROVE  SocketsSound'
<1>1. ReserveInductive /\ SocketsSound
  BY SoundSockets
<1>2. c \notin open /\ Alive' \subseteq Alive \cup {c}
  BY <1>1, Taken DEF Serve
<1>3. /\ open' = open \cup {c}
      /\ device'[c] = s
      /\ \A d \in Connections : d # c => device'[d] = device[d]
      /\ socket'[s] = "connected"
      /\ \A r \in Sockets : r # s => socket'[r] = socket[r]
  BY <1>1, Basics DEF Serve
<1>4. \A d : ~Closed(calls', d) /\ ~Closing(calls, d)
  <2>1. calls' = <<>> /\ calls = <<>> /\ Len(<<>>) = 0
    BY DEF EventLoop
  <2>2. QED
    BY <2>1 DEF Closed, Closing
<1>5. \A d \in open : d \in Connections /\ device[d] \in Sockets
                       /\ device[d] # s /\ socket[device[d]] = "connected"
  BY <1>1, Basics DEF SocketsSound
<1>6. \A d \in open' : device'[d] # 0 /\ socket'[device'[d]] = "connected"
  BY <1>2, <1>3, <1>5, SocketsAssumption
<1>7. \A d, e \in open' : device'[d] = device'[e] => d = e
  BY <1>1, <1>2, <1>3, <1>5 DEF SocketsSound
<1>8. \A d \in Alive' \ open' : device'[d] = 0
  <2>1. TAKE d \in Alive' \ open'
  <2>2. d \in Alive \ open /\ d # c /\ d \in Connections
    BY <1>1, <1>2, <1>3, AliveConnections
  <2>3. QED
    BY <1>1, <1>3, <1>4, <2>2 DEF SocketsSound
<1>9. \A r \in Sockets : socket'[r] = "connected" =>
        \E d \in open' : device'[d] = r
  BY <1>1, <1>2, <1>3, <1>5 DEF SocketsSound
<1>10. QED
  BY <1>4, <1>6, <1>7, <1>8, <1>9 DEF SocketsSound

\* A socket that serves nobody changes.
LEMMA FreeSocketStep ==
  ASSUME ServerInductive, NEW s \in Sockets, socket[s] # "connected",
         NEW to, to # "connected", socket' = [socket EXCEPT ![s] = to],
         UNCHANGED <<created, deleted, reserved, open, device, calls>>
  PROVE  SocketsSound'
<1>1. ReserveInductive /\ SocketsSound
  BY SoundSockets
<1>2. /\ socket'[s] = to
      /\ \A r \in Sockets : r # s => socket'[r] = socket[r]
  BY <1>1, Basics
<1>3. \A d \in open : device[d] \in Sockets /\ device[d] # s
  BY <1>1, Basics DEF SocketsSound
<1>4. Alive' = Alive
  BY DEF Alive
<1>5. QED
  BY <1>1, <1>2, <1>3, <1>4 DEF SocketsSound

\* A connection closes: its socket serves nobody any more, and what is left for
\* the connection to do is pending.
LEMMA ClosingSockets ==
  ASSUME ServerInductive, NEW c \in open, NEW rest \in Seq(Call),
         \A d \in Connections : Closing(calls, d) => Closing(rest, d),
         \A d \in Connections : Closed(rest, d) => Closed(calls, d),
         TransitionToClosed(c, rest)
  PROVE  SocketsSound'
<1> DEFINE f == Signal(c, "closed", TRUE)
<1>1. ReserveInductive /\ SocketsSound
  BY SoundSockets
<1>2. /\ open' = open \ {c} /\ created' = created /\ device' = device
      /\ calls' = <<f>> \o rest
      /\ socket' = [socket EXCEPT ![device[c]] = "doomed"]
      /\ deleted \subseteq deleted'
  BY DEF TransitionToClosed, DropSocket, PutConnection
<1>3. /\ \A d \in open : d \in Connections /\ device[d] \in Sockets
      /\ c \in Connections
  BY <1>1, Basics DEF SocketsSound
<1>4. /\ socket'[device[c]] = "doomed"
      /\ \A r \in Sockets : r # device[c] => socket'[r] = socket[r]
  BY <1>1, <1>2, <1>3, Basics
<1>5. f \in Call /\ f.of = c
  BY <1>3 DEF Call, Signal
<1>6. \A d \in open' : device[d] \in Sockets /\ device[d] # device[c]
  BY <1>1, <1>2, <1>3 DEF SocketsSound
<1>7. \A d \in open' : device'[d] # 0 /\ socket'[device'[d]] = "connected"
  BY <1>1, <1>2, <1>4, <1>6 DEF SocketsSound
<1>8. \A d, e \in open' : device'[d] = device'[e] => d = e
  BY <1>1, <1>2 DEF SocketsSound
<1>9. \A d \in Alive' \ open' : device'[d] = 0 \/ Closing(calls', d)
  <2>1. TAKE d \in Alive' \ open'
  <2>2. d \in Alive /\ d \in Connections /\ (d \notin open \/ d = c)
    BY <1>1, <1>2, AliveConnections DEF Alive
  <2>3. CASE d = c
    BY <1>2, <1>5, <2>3, CloserAdded
  <2>4. CASE d \notin open
    <3>1. device[d] = 0 \/ Closing(rest, d)
      BY <1>1, <2>2, <2>4 DEF SocketsSound
    <3>2. QED
      BY <1>2, <1>5, <3>1, CloserAdded
  <2>5. QED
    BY <2>2, <2>3, <2>4
<1>10. \A d \in open' : ~Closed(calls', d)
  <2>1. TAKE d \in open'
  <2>2. d \in open /\ d # c /\ d \in Connections
    BY <1>2, <1>3
  <2>3. ~Closed(rest, d)
    BY <1>1, <2>2 DEF SocketsSound
  <2>4. QED
    BY <1>2, <1>5, <2>2, <2>3, CloserAdded
<1>11. \A r \in Sockets : socket'[r] = "connected" =>
         \E d \in open' : device'[d] = r
  BY <1>1, <1>2, <1>4 DEF SocketsSound
<1>12. QED
  BY <1>7, <1>8, <1>9, <1>10, <1>11 DEF SocketsSound

\* A signal is emitted, above all that was pending.
LEMMA EmitSockets ==
  ASSUME ServerInductive, NEW c \in Connections, NEW rest \in Seq(Call),
         \A d \in Connections : Closing(calls, d) => Closing(rest, d),
         \A d \in Connections : Closed(rest, d) => Closed(calls, d),
         NEW at \in {"requestReady", "requestCompleted"}, NEW resumes \in BOOLEAN,
         calls' = <<Signal(c, at, resumes)>> \o rest,
         UNCHANGED <<created, deleted, reserved, open, device, socket>>
  PROVE  SocketsSound'
<1> DEFINE f == Signal(c, at, resumes)
<1>1. f \in Call /\ f.at # "closed"
  BY DEF Call, Signal
<1>2. /\ \A d \in Connections : Closing(calls, d) => Closing(calls', d)
      /\ \A d \in Connections : Closed(calls', d) => Closed(calls, d)
  BY <1>1, CloserAdded
<1>3. QED
  BY <1>2, SoundSockets, CallsAlone, AliveConnections, Basics

\* The handlers of a signal have run; after those of closed, the connection lets
\* go of its device, which is not open: nothing opens while calls are pending.
LEMMA ReturnsSockets ==
  ASSUME ServerInductive, Returns
  PROVE  SocketsSound'
<1>1. ReserveInductive /\ SocketsSound
  BY SoundSockets
<1>2. /\ calls # <<>> /\ Tail(calls) \in Seq(Call) /\ Head(calls) \in Call
      /\ calls \in Seq(Call)
  BY <1>1, Basics, CallGone
     DEF Returns, ClosedReturns, CompletedReturns, ReadyReturns, Running
<1>3. /\ Alive \subseteq Connections /\ open \subseteq Connections
      /\ Head(calls).of \in Connections
  BY <1>1, <1>2, AliveConnections, Basics DEF Call
<1>4. CASE ClosedReturns
  <2> DEFINE c == Head(calls).of
  <2>1. /\ device' = [device EXCEPT ![c] = 0]
        /\ calls' = Tail(calls) /\ Head(calls).at = "closed"
        /\ UNCHANGED <<created, deleted, reserved, open, socket>>
    BY <1>4 DEF ClosedReturns, Running
  <2>2. c \notin open
    BY <1>1, <1>2, <2>1, CloserGone DEF SocketsSound
  <2>3. /\ device'[c] = 0
        /\ \A d \in Connections : d # c => device'[d] = device[d]
    BY <1>1, <1>3, <2>1, Basics
  <2>4. \A d \in Connections : d # c =>
          (Closing(calls, d) => Closing(calls', d))
    <3>1. \A d : Signal(d, "closed", TRUE).of = d
      BY DEF Signal
    <3>2. QED
      BY <1>2, <2>1, <3>1, CloserGone
  <2>5. \A d \in Connections : Closed(calls', d) => Closed(calls, d)
    BY <1>2, <2>1, CloserGone
  <2>6. Alive' = Alive
    BY <2>1 DEF Alive
  <2>7. \A d \in Alive \ open : device'[d] = 0 \/ Closing(calls', d)
    BY <1>1, <1>3, <2>3, <2>4 DEF SocketsSound
  <2>8. \A d \in open : device'[d] = device[d]
    BY <1>3, <2>2, <2>3
  <2>9. QED
    BY <1>1, <1>3, <2>1, <2>5, <2>6, <2>7, <2>8 DEF SocketsSound
<1>5. ASSUME Head(calls).at # "closed"
      PROVE  /\ \A d \in Connections :
                  Closing(calls, d) => Closing(Tail(calls), d)
             /\ \A d \in Connections : Closed(Tail(calls), d) => Closed(calls, d)
  <2>1. \A d : Signal(d, "closed", TRUE).at = "closed"
    BY DEF Signal
  <2>2. QED
    BY <1>2, <1>5, <2>1, CloserGone
<1>6. CASE ReadyReturns
  <2>1. /\ Head(calls).at # "closed" /\ calls' = Tail(calls)
        /\ UNCHANGED <<created, deleted, open, device, socket>>
    BY <1>6 DEF ReadyReturns, Running
  <2>2. QED
    BY <1>1, <1>3, <1>5, <2>1, CallsAlone
<1>7. CASE CompletedReturns
  <2> DEFINE c == Head(calls).of
  <2>1. Head(calls).at # "closed"
    BY <1>7 DEF CompletedReturns, Running
  <2>2. CASE calls' = Tail(calls)
             /\ UNCHANGED <<created, deleted, reserved, open, device, socket>>
    BY <1>1, <1>3, <1>5, <2>1, <2>2, CallsAlone
  <2>3. ASSUME NEW resumes \in BOOLEAN,
               calls' = <<Signal(c, "requestReady", resumes)>> \o Tail(calls),
               UNCHANGED <<created, deleted, reserved, open, device, socket>>
        PROVE  SocketsSound'
    BY <1>2, <1>3, <1>5, <2>1, <2>3, EmitSockets
  <2>4. CASE c \in open /\ TransitionToClosed(c, Tail(calls))
    BY <1>2, <1>5, <2>1, <2>4, ClosingSockets
  <2>5. QED
    BY <1>7, <2>2, <2>3, <2>4 DEF CompletedReturns
<1>8. QED
  BY <1>4, <1>6, <1>7 DEF Returns

(***************************************************************************)
(* The inductive invariant.                                                *)
(***************************************************************************)

LEMMA InitServerInductive == Init => ServerInductive
<1> SUFFICES ASSUME Init PROVE ServerInductive
  OBVIOUS
<1>1. ReserveInductive
  BY InitReserveInductive
<1>2. \A c : c \in Connections => device[c] = 0
  BY DEF Init
<1>3. Alive \subseteq Connections
  BY <1>1, AliveConnections
<1>4. SocketsSound
  BY <1>2, <1>3 DEF Init, SocketsSound, Closed
<1>5. QED
  BY <1>1, <1>4, SoundSockets

\* Every step of the server, its sockets, its connections and the application
\* preserves the inductive invariant.
THEOREM ServerInductiveStep ==
  ASSUME ServerInductive, [Next]_vars
  PROVE  ServerInductive'
<1>1. ReserveInductive /\ SocketsSound
  BY SoundSockets
<1>2. ReserveInductive'
  BY <1>1, ReserveInductiveStep
<1>3. ASSUME UNCHANGED vars
      PROVE  SocketsSound'
  BY <1>1, <1>3, CallsAlone, AliveConnections, Basics DEF vars
<1>4. ASSUME NEW s \in Sockets,
             \/ IncomingConnection(s)
             \/ Encrypted(s)
      PROVE  SocketsSound'
  BY <1>4, ServeSockets DEF IncomingConnection, Encrypted
<1>5. ASSUME NEW s \in Sockets,
             \/ StartServerEncryption(s)
             \/ SetSocketDescriptorFails(s)
             \/ HandshakeFails(s)
             \/ DeferredDelete(s)
      PROVE  SocketsSound'
  BY <1>5, FreeSocketStep
     DEF StartServerEncryption, SetSocketDescriptorFails, HandshakeFails,
         DeferredDelete
<1>6. calls \in Seq(Call) /\ open \subseteq Connections
  BY <1>1, Basics
<1>7. ASSUME NEW c \in Connections, PeerCloses(c) \/ Close(c)
      PROVE  SocketsSound'
  BY <1>6, <1>7, ClosingSockets DEF PeerCloses, Close, AppUses
<1>8. ASSUME NEW c \in Connections, RequestArrives(c)
      PROVE  SocketsSound'
  <2>1. calls' = <<Signal(c, "requestReady", FALSE)>> \o calls
    BY <1>8 DEF RequestArrives, EventLoop
  <2>2. QED
    BY <1>6, <1>8, <2>1, EmitSockets DEF RequestArrives
<1>9. ASSUME NEW c \in Connections, CompleteResponse(c)
      PROVE  SocketsSound'
  BY <1>6, <1>9, EmitSockets DEF CompleteResponse
<1>10. SocketsSound'
  BY <1>3, <1>4, <1>5, <1>7, <1>8, <1>9, ReturnsSockets DEF Next
<1>11. QED
  BY <1>2, <1>10
     DEF ServerInductive, OwnSocket, ClosedStaysClosed, ConnectedIsServed,
         SocketsSound, Closing, Closed

\* It holds throughout, also for handlers that close other connections.
THEOREM ServerInductiveInvariant == Spec => []ServerInductive
<1>1. Init => ServerInductive
  BY InitServerInductive
<1>2. ServerInductive /\ [Next]_vars => ServerInductive'
  BY ServerInductiveStep
<1>3. QED
  BY <1>1, <1>2, PTL DEF Spec

\* An open connection has a connected socket that is no other's, however handlers
\* close connections under one another; a closed one keeps its socket only while
\* its handlers of closed run.
THEOREM SocketsAreOwned == Spec => []OwnSocket
<1>1. ServerInductive => OwnSocket
  BY DEF ServerInductive
<1>2. QED
  BY <1>1, ServerInductiveInvariant, PTL

\* A connection is in use, in reserve or deleted, and only one of these, in every
\* state of every server.
THEOREM ConnectionsInOnePlace == Spec => []EachInOnePlace
<1>1. ReserveInductive => EachInOnePlace
  BY DEF ReserveInductive
<1>2. QED
  BY <1>1, ReserveInductiveInvariant, PTL

\* With no connection in use, those alive are exactly as many as the reserve is
\* meant to hold.
THEOREM ReserveIsRefilled == Spec => []ReserveRefilled
<1>1. ASSUME ReserveInductive, open = {}
      PROVE  Cardinality(Alive) = MaximumReserveCount
  <2>1. /\ Len(reserved) \in Nat /\ Len(reserved) <= MaximumReserveCount
        /\ reserved \in [1 .. Len(reserved) -> InReserve]
    BY <1>1 DEF ReserveInductive, TypeOK, InReserve
  <2>2. Len(reserved) = MaximumReserveCount
    <3>1. Cardinality(open) = 0
      BY <1>1, FS_EmptySet
    <3>2. Len(reserved) + Cardinality(open) >= MaximumReserveCount
      BY <1>1 DEF ReserveInductive, EnoughConnections
    <3>3. MaximumReserveCount \in Nat
      BY ReserveAssumption
    <3>4. Len(reserved) \in Nat /\ Len(reserved) <= MaximumReserveCount
      BY <2>1
    <3>5. Len(reserved) >= MaximumReserveCount
      BY <3>1, <3>2, <3>4
    <3>6. QED
      BY <3>3, <3>4, <3>5
  <2>3. /\ reserved \in Surjection(1 .. Len(reserved), InReserve)
        /\ reserved \in Injection(1 .. Len(reserved), InReserve)
    <3>1. \A c \in InReserve : \E i \in 1 .. Len(reserved) : reserved[i] = c
      BY DEF InReserve
    <3>2. \A i, j \in 1 .. Len(reserved) : reserved[i] = reserved[j] => i = j
      BY <1>1 DEF ReserveInductive, EachInOnePlace
    <3>3. reserved \in Surjection(1 .. Len(reserved), InReserve)
      BY <2>1, <3>1 DEF Surjection
    <3>4. reserved \in Injection(1 .. Len(reserved), InReserve)
      BY <2>1, <3>2 DEF Injection, IsInjective
    <3>5. QED
      BY <3>3, <3>4
  <2>4. IsFiniteSet(1 .. Len(reserved)) /\ Cardinality(1 .. Len(reserved)) = Len(reserved)
    BY <2>1, FS_Interval
  <2>5. Cardinality(InReserve) = Len(reserved)
    BY <2>3, <2>4, FS_Surjection
  <2>6. Alive = InReserve
    BY <1>1 DEF ReserveInductive, EachInOnePlace
  <2>7. QED
    BY <2>2, <2>5, <2>6
<1>2. ReserveInductive => ReserveRefilled
  BY <1>1 DEF ReserveRefilled
<1>3. QED
  BY <1>2, ReserveInductiveInvariant, PTL

\* If handlers keep to the connection they were called for, no connection is
\* deleted under a function that has yet to go on, however full the reserve is.
THEOREM OwnConnectionIsSafe ==
  ASSUME CrossUse = FALSE
  PROVE  Spec => []NoReturnIntoDeleted
<1>1. ReserveInductive => NoReturnIntoDeleted
  BY DEF ReserveInductive, OneConnectionRuns, NoReturnIntoDeleted
<1>2. QED
  BY <1>1, ReserveInductiveInvariant, PTL
=============================================================================
