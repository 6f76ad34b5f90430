------------------------------ MODULE HttpServer ------------------------------
(***************************************************************************)
(* The servers: Pillow::HttpServer, HttpLocalServer and HttpsServer, which *)
(* give each accepted socket an HttpConnection from a reserve and take it  *)
(* back when it closes (pillowcore/HttpServer.cpp, HttpsServer.cpp).        *)
(*                                                                         *)
(* An HttpConnection appears here as the server sees it: it is open from   *)
(* initialize() until transitionToClosed(), runs its handlers in between   *)
(* and emits closed once.  The closed signal is emitted from within        *)
(* transitionToClosed(), which may itself be called by a handler, so what  *)
(* matters is which connections have a call pending on the C++ stack while *)
(* the reserve takes, creates and deletes connections.                     *)
(***************************************************************************)
EXTENDS Integers, Sequences, FiniteSets

CONSTANTS
  MaximumReserveCount, \* size of the reserve
  Sockets,             \* the sockets the operating system hands over
  Secure,              \* is it an HttpsServer?
  CrossUse,            \* do handlers answer or close connections other than
                       \* the one they were called for?
  MaxConnections,      \* bound: HttpConnection objects ever created
  MaxDepth             \* bound: pending calls

ASSUME ReserveAssumption == MaximumReserveCount \in Nat \ {0}
ASSUME BoundsAssumption ==
  MaxConnections \in Nat /\ MaximumReserveCount <= MaxConnections
  /\ MaxDepth \in Nat
ASSUME FlagsAssumption == Secure \in BOOLEAN /\ CrossUse \in BOOLEAN
ASSUME SocketsAssumption == 0 \notin Sockets

VARIABLES
  created,  \* HttpConnection objects created so far; object c is the c-th one
  deleted,  \* those deleted again
  reserved, \* reservedConnections, the one put last at the end
  open,     \* connections between initialize() and transitionToClosed()
  device,   \* _inputDevice of each connection, 0 if null
  socket,   \* what has become of each socket
  calls     \* pending calls of connections, innermost first

vars == <<created, deleted, reserved, open, device, socket, calls>>

Connections == 1 .. MaxConnections

SocketState ==
  {"unborn", "handshaking", "connected", "closed", "doomed", "deleted"}

\* A connection runs the handlers of one of its signals.  Does the function that
\* emitted it, or one below it, go on with the connection when they return?
Call ==
  [of : Connections, at : {"requestReady", "requestCompleted", "closed"},
   resumes : BOOLEAN]

Alive == (1 .. created) \ deleted

InReserve == {reserved[i] : i \in 1 .. Len(reserved)}

EventLoop == calls = <<>>

\* The application runs: from the event loop, or in a handler.  Does it use
\* connection c?
AppUses(c) ==
  /\ c \in open
  /\ calls # <<>> => CrossUse \/ c = Head(calls).of

Signal(c, at, resumes) == [of |-> c, at |-> at, resumes |-> resumes]

Running(at) == calls # <<>> /\ Head(calls).at = at

Init ==
  /\ created = MaximumReserveCount
  /\ deleted = {}
  /\ reserved = [i \in 1 .. MaximumReserveCount |-> i]
  /\ open = {}
  /\ device = [c \in Connections |-> 0]
  /\ socket = [s \in Sockets |-> "unborn"]
  /\ calls = <<>>

(***************************************************************************)
(* The reserve.                                                            *)
(***************************************************************************)

\* Mutant of TakeConnection: leaves the connection it takes in the reserve.
LookAtConnection(c) ==
  \/ /\ reserved = <<>>
     /\ c = created + 1
     /\ c \in Connections
     /\ created' = c
     /\ UNCHANGED reserved
  \/ /\ reserved # <<>>
     /\ c = reserved[Len(reserved)]
     /\ UNCHANGED <<created, reserved>>

\* takeConnection(): a reserved connection if there is one, else a new one.
TakeConnection(c) ==
  \/ /\ reserved = <<>>
     /\ c = created + 1
     /\ c \in Connections
     /\ created' = c
     /\ UNCHANGED reserved
  \/ /\ reserved # <<>>
     /\ c = reserved[Len(reserved)]
     /\ reserved' = SubSeq(reserved, 1, Len(reserved) - 1)
     /\ UNCHANGED created

\* Mutant of Kept: one connection too many makes room.
KeptOneLess == MaximumReserveCount - 2

\* How many connections stay in the reserve when one is put into it.
Kept == MaximumReserveCount - 1

\* Mutant of PutConnection: a full reserve takes no more.
PutOrDelete(c) ==
  IF Len(reserved) <= Kept
  THEN /\ reserved' = Append(reserved, c)
       /\ UNCHANGED deleted
  ELSE /\ deleted' = deleted \cup {c}
       /\ UNCHANGED reserved

\* putConnection(): the connections put last make room for this one.
PutConnection(c) ==
  IF Len(reserved) <= Kept
  THEN /\ reserved' = Append(reserved, c)
       /\ UNCHANGED deleted
  ELSE /\ reserved' = Append(SubSeq(reserved, 1, Kept), c)
       /\ deleted' = deleted \cup
                       {reserved[i] : i \in (Kept + 1) .. Len(reserved)}

(***************************************************************************)
(* Sockets and connections.                                                *)
(***************************************************************************)

\* createHttpConnection()->initialize(socket, socket).
Serve(c, s) ==
  /\ TakeConnection(c)
  /\ open' = open \cup {c}
  /\ device' = [device EXCEPT ![c] = s]
  /\ socket' = [socket EXCEPT ![s] = "connected"]

\* incomingConnection(), this_newConnection(): a socket is accepted and served.
IncomingConnection(s) ==
  /\ EventLoop
  /\ ~Secure
  /\ socket[s] = "unborn"
  /\ \E c \in Connections : Serve(c, s)
  /\ UNCHANGED <<deleted, calls>>

\* HttpsServer::incomingConnection(): first there is a handshake to make.
StartServerEncryption(s) ==
  /\ EventLoop
  /\ Secure
  /\ socket[s] = "unborn"
  /\ socket' = [socket EXCEPT ![s] = "handshaking"]
  /\ UNCHANGED <<created, deleted, reserved, open, device, calls>>

\* The descriptor cannot be used: the socket is deleted right away.
SetSocketDescriptorFails(s) ==
  /\ EventLoop
  /\ socket[s] = "unborn"
  /\ socket' = [socket EXCEPT ![s] = "deleted"]
  /\ UNCHANGED <<created, deleted, reserved, open, device, calls>>

\* sslSocket_encrypted(): the handshake is over, the socket is served.
Encrypted(s) ==
  /\ EventLoop
  /\ socket[s] = "handshaking"
  /\ \E c \in Connections : Serve(c, s)
  /\ UNCHANGED <<deleted, calls>>

\* The handshake fails, or the peer goes away before it is over.  The socket is
\* connected to nothing that would delete it.
HandshakeFails(s) ==
  /\ EventLoop
  /\ socket[s] = "handshaking"
  /\ socket' = [socket EXCEPT ![s] = "closed"]
  /\ UNCHANGED <<created, deleted, reserved, open, device, calls>>

\* Mutant of DropSocket: nobody deletes the socket.
CloseSocket(s) == socket' = [socket EXCEPT ![s] = "closed"]

\* The socket is closed, and deleted as soon as the event loop runs again.
DropSocket(s) == socket' = [socket EXCEPT ![s] = "doomed"]

\* transitionToClosed() up to and including connection_closed(), the first slot
\* connected to closed; "rest" is what is pending below it.
TransitionToClosed(c, rest) ==
  /\ open' = open \ {c}
  /\ DropSocket(device[c])
  /\ PutConnection(c)
  /\ calls' = <<Signal(c, "closed", TRUE)>> \o rest
  /\ UNCHANGED <<created, device>>

\* The peer of connection c goes away.
PeerCloses(c) ==
  /\ EventLoop
  /\ c \in open
  /\ TransitionToClosed(c, calls)

\* The application calls close().
Close(c) ==
  /\ AppUses(c)
  /\ Len(calls) < MaxDepth
  /\ TransitionToClosed(c, calls)

\* Mutant of ClosedReturns: the connection holds on to its device.
ClosedReturnsEarly ==
  /\ Running("closed")
  /\ calls' = Tail(calls)
  /\ UNCHANGED <<created, deleted, reserved, open, device, socket>>

\* The handlers of closed have run; transitionToClosed() lets go of the device.
ClosedReturns ==
  /\ Running("closed")
  /\ device' = [device EXCEPT ![Head(calls).of] = 0]
  /\ calls' = Tail(calls)
  /\ UNCHANGED <<created, deleted, reserved, open, socket>>

\* Input arrives that makes up a request.  Nothing follows requestReady in the
\* functions that lead to it from there.
RequestArrives(c) ==
  /\ EventLoop
  /\ c \in open
  /\ MaxDepth > 0
  /\ calls' = <<Signal(c, "requestReady", FALSE)>>
  /\ UNCHANGED <<created, deleted, reserved, open, device, socket>>

\* The application completes a response.
CompleteResponse(c) ==
  /\ AppUses(c)
  /\ Len(calls) < MaxDepth
  /\ calls' = <<Signal(c, "requestCompleted", TRUE)>> \o calls
  /\ UNCHANGED <<created, deleted, reserved, open, device, socket>>

\* The handlers of requestCompleted have run.  transitionToCompleted() then waits
\* for input, goes on to a pipelined request (which leaves a function to resume
\* if the response had no body), or closes the connection.  If the handlers have
\* closed it, nothing follows that concerns the server: HttpConnection has what
\* becomes of the connection.
CompletedReturns ==
  LET c == Head(calls).of
  IN  /\ Running("requestCompleted")
      /\ \/ /\ calls' = Tail(calls)
            /\ UNCHANGED <<created, deleted, reserved, open, device, socket>>
         \/ /\ c \in open
            /\ \E resumes \in BOOLEAN :
                 calls' = <<Signal(c, "requestReady", resumes)>> \o Tail(calls)
            /\ UNCHANGED <<created, deleted, reserved, open, device, socket>>
         \/ /\ c \in open
            /\ TransitionToClosed(c, Tail(calls))

\* The handlers of requestReady have run.
ReadyReturns ==
  /\ Running("requestReady")
  /\ calls' = Tail(calls)
  /\ UNCHANGED <<created, deleted, reserved, open, device, socket>>

\* The event loop carries out deleteLater().
DeferredDelete(s) ==
  /\ EventLoop
  /\ socket[s] = "doomed"
  /\ socket' = [socket EXCEPT ![s] = "deleted"]
  /\ UNCHANGED <<created, deleted, reserved, open, device, calls>>

Returns == ClosedReturns \/ CompletedReturns \/ ReadyReturns

Next ==
  \/ \E s \in Sockets :
       \/ IncomingConnection(s)
       \/ StartServerEncryption(s)
       \/ SetSocketDescriptorFails(s)
       \/ Encrypted(s)
       \/ HandshakeFails(s)
       \/ DeferredDelete(s)
  \/ \E c \in Connections :
       \/ PeerCloses(c)
       \/ Close(c)
       \/ RequestArrives(c)
       \/ CompleteResponse(c)
  \/ Returns

\* Every call returns, whatever other calls it makes, and the event loop gets to
\* the deletions asked for although new events keep coming.
Fairness ==
  /\ \A n \in 1 .. MaxDepth : SF_vars(Len(calls) = n /\ Returns)
  /\ \A s \in Sockets : SF_vars(DeferredDelete(s))

Spec == Init /\ [][Next]_vars /\ Fairness

-----------------------------------------------------------------------------

(***************************************************************************)
(* Properties.                                                             *)
(***************************************************************************)

TypeOK ==
  /\ created \in MaximumReserveCount .. MaxConnections
  /\ deleted \subseteq 1 .. created
  /\ reserved \in Seq(1 .. created)
  /\ Len(reserved) <= MaximumReserveCount
  /\ open \subseteq 1 .. created
  /\ device \in [Connections -> Sockets \cup {0}]
  /\ socket \in [Sockets -> SocketState]
  /\ calls \in Seq(Call)

\* The reserve and the connections in use share out the living connections: a
\* connection is never served to two sockets, never reserved twice, never lost
\* and never used after its deletion by the server.
EachInOnePlace ==
  /\ open \cap InReserve = {}
  /\ open \cup InReserve = Alive
  /\ \A i, j \in 1 .. Len(reserved) : reserved[i] = reserved[j] => i = j

\* However many connections a burst of peers made the server create, as many as
\* the reserve holds are left when all of them are closed
\* (tests/httpserverbase.cpp, testReusesRequests and testDestroysRequests).
ReserveRefilled == open = {} => Cardinality(Alive) = MaximumReserveCount

\* What keeps the reserve from running dry.
EnoughConnections == Len(reserved) + Cardinality(open) >= MaximumReserveCount

\* A connection has a socket of its own as long as it is open; a socket that was
\* deleted is nobody's device.
OwnSocket ==
  /\ \A c \in open : device[c] # 0 /\ socket[device[c]] = "connected"
  /\ \A c, d \in open : device[c] = device[d] => c = d
  /\ \A c \in Alive \ open :
       device[c] = 0
       \/ \E i \in 1 .. Len(calls) : calls[i] = Signal(c, "closed", TRUE)
  /\ EventLoop => \A s \in Sockets : socket[s] = "connected" =>
                    \E c \in open : device[c] = s

\* No connection is deleted while one of its functions has yet to go on.
NoReturnIntoDeleted ==
  \A i \in 1 .. Len(calls) : calls[i].resumes => calls[i].of \notin deleted

\* As long as handlers keep to their own connection, only that one has calls
\* pending, and it is alive.
OneConnectionRuns ==
  ~CrossUse => \A i \in 1 .. Len(calls) :
                 calls[i].of = Head(calls).of /\ calls[i].of \notin deleted

\* The inductive invariant of the reserve.
ReserveInductive ==
  /\ TypeOK
  /\ EachInOnePlace
  /\ EnoughConnections
  /\ OneConnectionRuns

\* A connection is not opened again before its handlers of closed have run.
ClosedStaysClosed ==
  \A i \in 1 .. Len(calls) : calls[i].at = "closed" => calls[i].of \notin open

\* Every connected socket is served, also while calls are pending.
ConnectedIsServed ==
  \A s \in Sockets : socket[s] = "connected" => \E c \in open : device[c] = s

\* The inductive invariant: the reserve and the sockets.
ServerInductive ==
  /\ ReserveInductive
  /\ OwnSocket
  /\ ClosedStaysClosed
  /\ ConnectedIsServed

\* The socket of a connection that closed gets deleted.
SocketsFreed ==
  \A s \in Sockets : socket[s] \in {"closed", "doomed"} ~> socket[s] = "deleted"
=============================================================================
