---------------------------- MODULE HttpExchange ----------------------------
(***************************************************************************)
(* What a Pillow::HttpConnection promises to the application and to the    *)
(* peer (the comments on its signals and slots, HttpConnection.h), with no  *)
(* buffer, parser, call stack or device: requests are served one at a time; *)
(* a response ends exactly when the content its head announced is written; *)
(* the connection outlives a response if and only if the head said so.     *)
(***************************************************************************)
EXTENDS Integers

VARIABLES
  phase,       \* what the exchange is waiting for
  served,      \* number of requests handed to the application
  answered,    \* number of responses completed
  owed,        \* content still to be written, -1 if the head did not say
  persistent   \* what the head said about the connection

vars == <<phase, served, answered, owed, persistent>>

Init ==
  /\ phase = "closed"
  /\ served = 0
  /\ answered = 0
  /\ owed = 0
  /\ persistent = FALSE

\* A connection is opened, or opened again.
Open ==
  /\ phase = "closed"
  /\ phase' = "receiving"
  /\ served' = 0
  /\ answered' = 0
  /\ owed' = 0
  /\ persistent' = FALSE

\* requestReady.
Ready ==
  /\ phase = "receiving"
  /\ phase' = "answering"
  /\ served' = served + 1
  /\ UNCHANGED <<answered, owed, persistent>>

\* The head of the response announces its length and the connection's fate.
Head ==
  /\ phase = "answering"
  /\ phase' = "sending"
  /\ owed' \in Nat \cup {-1}
  /\ persistent' \in BOOLEAN
  /\ UNCHANGED <<served, answered>>

\* Content of the response, never more than announced.
Body ==
  /\ phase = "sending"
  /\ owed' \in 0 .. owed
  /\ UNCHANGED <<phase, served, answered, persistent>>

\* requestCompleted: nothing announced is missing.
Complete ==
  /\ phase = "sending"
  /\ owed \in {-1, 0}
  /\ phase' = "completed"
  /\ owed' = 0
  /\ answered' = answered + 1
  /\ UNCHANGED <<served, persistent>>

\* After a response the connection goes on to the next request, or drains.
Continue ==
  /\ phase = "completed"
  /\ phase' = IF persistent THEN "receiving" ELSE "draining"
  /\ persistent' = FALSE
  /\ UNCHANGED <<served, answered, owed>>

\* A request that cannot be served is answered by the connection itself, which
\* closes after that.
Refuse ==
  /\ phase = "receiving"
  /\ phase' = "draining"
  /\ UNCHANGED <<served, answered, owed, persistent>>

\* Closed: by the application or the peer at any time, or after draining.
Close ==
  /\ phase # "closed"
  /\ phase' = "closed"
  /\ owed' = 0
  /\ persistent' = FALSE
  /\ UNCHANGED <<served, answered>>

Next ==
  \/ Open
  \/ Ready
  \/ Head
  \/ Body
  \/ Complete
  \/ Continue
  \/ Refuse
  \/ Close

Spec == Init /\ [][Next]_vars
=============================================================================
