-------------------------- MODULE NetworkAccessManager --------------------------
(***************************************************************************)
(* Pillow::NetworkAccessManager and its replies (the end of                *)
(* pillowcore/HttpClient.cpp): Qt's interface on a pool of HttpClients.    *)
(*                                                                         *)
(* A client serves one authority for ever.  It is taken from the pool for  *)
(* a request and put back by its finished signal, before the reply and the *)
(* application learn of it: an application that makes its next request in  *)
(* a slot of finished gets the same client, whose parser is still on the   *)
(* stack, and which therefore keeps the request for later.  The signals    *)
(* pending on the stack are frames; HttpClient.tla models the client in    *)
(* full, here it is what its signals and its answers to request() show.    *)
(***************************************************************************)
EXTENDS Integers, Sequences, FiniteSets

CONSTANTS
  Requests,       \* the requests of the application, numbered from 1
  AuthorityOf,    \* the authority of each request's URL
  OperationOf,    \* its operation: "get", "head" or "unknown"
  AbortsInHead,   \* does the application abort() HEADs in metaDataChanged?
  MaxContent      \* bound: pieces of content per response

ASSUME RequestsAssumption ==
  IsFiniteSet(Requests) /\ Requests = 1 .. Cardinality(Requests)
ASSUME OperationsAssumption ==
  OperationOf \in [Requests -> {"get", "head", "unknown"}]
ASSUME BoundsAssumption == AbortsInHead \in BOOLEAN /\ MaxContent \in Nat

VARIABLES
  made,      \* how many requests were made
  authority, \* _clientToUrlMap: the authority of each client, in order of creation
  pool,      \* _urlToClientsMap: clients not taken, the one put last first
  client,    \* of each client: is a response pending, is its parser on the stack,
             \* stopped by pause(), the request it serves, the one it keeps for
             \* later, its error and the progress of the response
  listening, \* _client of each reply: the client whose signals it listens to, or 0
  heard,     \* what each reply was told, and about which request
  frames     \* signals whose slots run, and parsers; innermost first

vars == <<made, authority, pool, client, listening, heard, frames>>

Clients == 1 .. Len(authority)

NewClient ==
  [pending |-> FALSE, parsing |-> FALSE, paused |-> FALSE, serves |-> 0,
   putOff |-> 0, error |-> "none", progress |-> "none", content |-> 0]

Signals == {"headersCompleted", "contentReadyRead", "finished"}
Frame(at, c) == [at |-> at, of |-> c]
EventLoop == frames = <<>>
Top(at) == frames # <<>> /\ Head(frames).at = at
Who == Head(frames).of
Below == Tail(frames)

\* The application runs: from the event loop, or in a slot of a reply's signal.
AppRuns == frames # <<>> => Head(frames).at \in Signals

Told(what, r, error) == [what |-> what, of |-> r, error |-> error]

\* The replies that listen to client c hear of the request it serves.
Tell(c, what) ==
  heard' = [r \in Requests |->
              IF listening[r] = c
              THEN Append(heard[r], Told(what, client[c].serves, client'[c].error))
              ELSE heard[r]]

Init ==
  /\ made = 0
  /\ authority = <<>> /\ pool = <<>> /\ client = <<>> /\ frames = <<>>
  /\ listening = [r \in Requests |-> 0]
  /\ heard = [r \in Requests |-> <<>>]

(***************************************************************************)
(* Requests.                                                               *)
(***************************************************************************)

\* The pooled clients that createRequest() may take.
Available(a) ==
  {i \in DOMAIN pool : authority[pool[i]] = a /\ ~client[pool[i]].pending}

Without(s, i) == SubSeq(s, 1, i - 1) \o SubSeq(s, i + 1, Len(s))

\* Mutant of Taken: the client found stays in the pool.
FoundOnly(i) == pool

\* It is erased from the map.
Taken(i) == Without(pool, i)

\* HttpClient::request(): later, if the client's parser is on the stack.
Requested(c, r) ==
  IF c.parsing THEN [c EXCEPT !.putOff = r]
  ELSE [c EXCEPT !.serves = r, !.pending = TRUE, !.error = "none",
                 !.progress = "none", !.content = 0]

\* What the operation makes of the client: an unknown one is never sent.
Sent(c, r) == IF OperationOf[r] = "unknown" THEN c ELSE Requested(c, r)

\* createRequest()
CreateRequest ==
  LET r == made + 1
      a == AuthorityOf[r]
  IN
  /\ AppRuns
  /\ r \in Requests
  /\ made' = r
  /\ \/ \E i \in Available(a) :
          /\ \A j \in Available(a) : i <= j
          /\ pool' = Taken(i)
          /\ client' = [client EXCEPT ![pool[i]] = Sent(@, r)]
          /\ listening' = [listening EXCEPT ![r] = pool[i]]
          /\ UNCHANGED authority
     \/ /\ Available(a) = {}
        /\ authority' = Append(authority, a)
        /\ client' = Append(client, Sent(NewClient, r))
        /\ listening' = [listening EXCEPT ![r] = Len(authority) + 1]
        /\ UNCHANGED pool
  /\ UNCHANGED <<heard, frames>>

(***************************************************************************)
(* The end of a response.                                                  *)
(***************************************************************************)

\* Mutant of LetGo: the reply stays connected to the client.
StaysConnected(c) == listening

\* finished() disconnects the client from the reply that used it.
LetGo(c) == [r \in Requests |-> IF listening[r] = c THEN 0 ELSE listening[r]]

\* finished(): first the manager's slot puts the client back, then the reply's
\* lets go of the client and tells the application.
Finish(c, ended, then) ==
  /\ client' = [client EXCEPT ![c] = ended]
  /\ pool' = <<c>> \o pool
  /\ Tell(c, "finished")
  /\ listening' = LetGo(c)
  /\ frames' = <<Frame("finished", c)>> \o then
  /\ UNCHANGED <<made, authority>>

\* NetworkReply::abort(): the client's parser, if it runs, goes no further.
Abort ==
  /\ AppRuns
  /\ \E r \in Requests :
       /\ listening[r] # 0
       /\ LET c == listening[r] IN
          /\ client[c].pending
          /\ (OperationOf[client[c].serves] = "head" /\ client[c].parsing)
               => AbortsInHead
          /\ Finish(c, [client[c] EXCEPT !.pending = FALSE, !.error = "aborted",
                          !.paused = client[c].parsing], frames)

\* device_error()
ConnectionFails ==
  /\ EventLoop
  /\ \E c \in Clients :
       /\ client[c].pending
       /\ Finish(c, [client[c] EXCEPT !.pending = FALSE, !.error = "network"], <<>>)

\* The response is complete, as far as the client knows.
MessageComplete(c, then) ==
  Finish(c, [client[c] EXCEPT !.pending = FALSE, !.progress = "done"], then)

(***************************************************************************)
(* The responses.                                                          *)
(***************************************************************************)

Progresses(c, next, signal, then) ==
  /\ client' = [client EXCEPT ![c] = next]
  /\ Tell(c, signal)
  /\ frames' = <<Frame(signal, c)>> \o then
  /\ UNCHANGED <<made, authority, pool, listening>>

\* device_readyRead(): the parser runs on what has arrived.
ResponseArrives ==
  /\ EventLoop
  /\ \E c \in Clients :
       /\ client[c].pending
       /\ client' = [client EXCEPT ![c].parsing = TRUE, ![c].paused = FALSE]
       /\ frames' = <<Frame("parser", c)>>
  /\ UNCHANGED <<made, authority, pool, listening, heard>>

ParserRuns == Top("parser") /\ ~client[Who].paused

ResponseHeaders ==
  /\ ParserRuns /\ client[Who].progress = "none"
  /\ Progresses(Who, [client[Who] EXCEPT !.progress = "headers"],
                "headersCompleted", frames)

ResponseContent ==
  /\ ParserRuns /\ client[Who].progress = "headers"
  /\ client[Who].content < MaxContent
  /\ Progresses(Who, [client[Who] EXCEPT !.content = @ + 1],
                "contentReadyRead", frames)

ResponseEnds ==
  /\ ParserRuns /\ client[Who].progress = "headers"
  /\ MessageComplete(Who, frames)

\* The rest of headersComplete(): a HEAD's response has no content.
HeadersHandled ==
  /\ Top("headersCompleted")
  /\ IF OperationOf[client[Who].serves] = "head"
     THEN Finish(Who, [client[Who] EXCEPT !.pending = FALSE, !.progress = "done",
                         !.paused = TRUE], Below)
     ELSE /\ frames' = Below
          /\ UNCHANGED <<made, authority, pool, client, listening, heard>>

SlotsReturn ==
  /\ Top("contentReadyRead") \/ Top("finished")
  /\ frames' = Below
  /\ UNCHANGED <<made, authority, pool, client, listening, heard>>

\* Mutant of Released: what was put off is forgotten.
NothingReleased(c) == [c EXCEPT !.putOff = 0]

\* The request put off meanwhile is made now.
Released(c) ==
  IF c.putOff = 0 THEN c ELSE Requested([c EXCEPT !.putOff = 0], c.putOff)

\* The parser has no more input, or was stopped.
ParserReturns ==
  /\ Top("parser")
  /\ client' = [client EXCEPT ![Who] = Released([@ EXCEPT !.parsing = FALSE])]
  /\ frames' = Below
  /\ UNCHANGED <<made, authority, pool, listening, heard>>

Parse ==
  \/ ResponseHeaders \/ ResponseContent \/ ResponseEnds \/ HeadersHandled
  \/ SlotsReturn \/ ParserReturns

Next ==
  \/ CreateRequest \/ Abort
  \/ ConnectionFails \/ ResponseArrives \/ Parse

\* The servers answer, and the stack unwinds.  The last fairness is the network's:
\* it delivers a response's end to a client that gets input again and again.
Fairness ==
  /\ WF_vars(Parse)
  /\ \A c \in Requests :
       /\ WF_vars(ResponseArrives /\ frames' = <<Frame("parser", c)>>)
       /\ SF_vars((ResponseHeaders \/ ResponseEnds) /\ Who = c)

Spec == Init /\ [][Next]_vars /\ Fairness

(***************************************************************************)
(* Properties.                                                             *)
(***************************************************************************)

Errors == {"none", "network", "aborted"}

ClientState ==
  [pending : BOOLEAN, parsing : BOOLEAN, paused : BOOLEAN,
   serves : Requests \cup {0}, putOff : Requests \cup {0}, error : Errors,
   progress : {"none", "headers", "done"}, content : Nat]

TypeOK ==
  /\ made \in Requests \cup {0}
  /\ client \in Seq(ClientState)
  /\ Len(client) = Len(authority) /\ Len(authority) \in Nat
  /\ pool \in Seq(Clients)
  /\ listening \in [Requests -> Clients \cup {0}]
  /\ heard \in [Requests ->
                 Seq([what : Signals, of : Requests \cup {0}, error : Errors])]
  /\ frames \in Seq([at : Signals \cup {"parser"}, of : Clients])

\* A reply hears of its own request only: its headers, then its content, then
\* once that it is finished, and nothing more (NetworkReply's slots are connected
\* to a client that others used before and will use after it).
OwnResponse ==
  \A r \in Requests : \A i \in DOMAIN heard[r] :
    /\ heard[r][i].of = r
    /\ heard[r][i].what = "headersCompleted" => i = 1
    /\ heard[r][i].what = "contentReadyRead" => i > 1
    /\ heard[r][i].what = "finished" => i = Len(heard[r]) /\ listening[r] = 0

\* Each client is in the pool once and idle, or taken by one reply, never both;
\* one whose request has an unknown operation stays taken
\* (NetworkAccessManager::client_finished).
PoolSound ==
  \A c \in Clients :
    LET places == {i \in DOMAIN pool : pool[i] = c}
        users == {r \in Requests : listening[r] = c}
    IN /\ Cardinality(places) + Cardinality(users) = 1
       /\ places # {} => ~client[c].pending /\ client[c].putOff = 0
       /\ \A r \in users :
            \/ OperationOf[r] = "unknown"
            \/ client[c].pending /\ client[c].serves = r
            \/ client[c].putOff = r

\* The clients in the pool, and those that replies listen to, are all of them.
SharedOut ==
  /\ \A i, j \in 1 .. Len(pool) : pool[i] = pool[j] => i = j
  /\ \A r, q \in Requests :
       listening[r] = listening[q] => listening[r] = 0 \/ r = q
  /\ \A c \in Clients :
       (\E i \in 1 .. Len(pool) : pool[i] = c)
         <=> \A r \in Requests : listening[r] # c

\* A client in the pool has nothing to do; one that was taken serves the request
\* it was taken for, or will once its parser has returned.
Serving ==
  /\ \A i \in 1 .. Len(pool) :
       ~client[pool[i]].pending /\ client[pool[i]].putOff = 0
  /\ \A r \in Requests : listening[r] # 0 =>
       LET c == client[listening[r]] IN
       \/ OperationOf[r] = "unknown" /\ ~c.pending /\ c.putOff = 0
       \/ c.pending /\ c.serves = r /\ c.putOff = 0
       \/ ~c.pending /\ c.putOff = r

\* A parser that runs is the outermost call, the signals of a response are
\* emitted right above it, and it goes on only with the response it began.
Parsing ==
  /\ \A i \in 1 .. Len(frames) :
       /\ frames[i].at = "parser" => i = Len(frames)
       /\ frames[i].at \in {"headersCompleted", "contentReadyRead"} =>
            /\ i + 1 = Len(frames)
            /\ frames[i + 1] = Frame("parser", frames[i].of)
       /\ frames[i].at = "headersCompleted"
          /\ OperationOf[client[frames[i].of].serves] = "head" =>
            client[frames[i].of].pending
  /\ \A c \in Clients :
       /\ client[c].parsing
            <=> frames # <<>> /\ frames[Len(frames)] = Frame("parser", c)
       /\ client[c].parsing /\ ~client[c].paused =>
            client[c].pending \/ client[c].progress = "done"

\* How far a reply has heard of its response is how far the client is with it.
Hearing ==
  \A r \in Requests :
    /\ r > made => listening[r] = 0 /\ heard[r] = <<>>
    /\ listening[r] # 0 =>
         /\ \A i \in 1 .. Len(heard[r]) : heard[r][i].what # "finished"
         /\ IF client[listening[r]].pending
            THEN heard[r] = <<>> <=> client[listening[r]].progress = "none"
            ELSE heard[r] = <<>>

\* The inductive invariant, for applications that do not abort a HEAD request in
\* metaDataChanged.
PoolInductive ==
  /\ TypeOK
  /\ SharedOut
  /\ Serving
  /\ Parsing
  /\ Hearing
  /\ OwnResponse

\* Every request made is finished, also one kept for later by its client, provided
\* servers end their responses (HttpClient::device_readyRead's last lines).
EveryReplyFinishes ==
  \A r \in Requests :
    (made >= r /\ OperationOf[r] # "unknown")
      ~> (heard[r] # <<>> /\ heard[r][Len(heard[r])].what = "finished")
================================================================================
