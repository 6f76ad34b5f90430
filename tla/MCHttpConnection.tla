-------------------------- MODULE MCHttpConnection --------------------------
(***************************************************************************)
(* Instances of HttpConnection for TLC: peers' streams, response headers    *)
(* and content sizes.                                                       *)
(***************************************************************************)
EXTENDS HttpConnectionInvariant

Get == [head |-> FALSE, http11 |-> TRUE, connection |-> "none",
        length |-> 0, lengthOk |-> TRUE, expect |-> FALSE]

End(r) == [kind |-> "end", request |-> r]
Part   == [kind |-> "part", request |-> Get]
Octet  == [kind |-> "body", request |-> Get]
Bad    == [kind |-> "bad", request |-> Get]

GET       == <<Part, End(Get)>>
HEAD      == <<End([Get EXCEPT !.head = TRUE])>>
GET10     == <<End([Get EXCEPT !.http11 = FALSE])>>
GET10Keep == <<End([Get EXCEPT !.http11 = FALSE, !.connection = "keep-alive"])>>
GETClose  == <<End([Get EXCEPT !.connection = "close"])>>
POST      == <<End([Get EXCEPT !.length = 2]), Octet, Octet>>
POSTWait  == <<End([Get EXCEPT !.length = 1, !.expect = TRUE]), Octet>>
TooLarge  == <<End([Get EXCEPT !.length = 3])>>
Negative  == <<End([Get EXCEPT !.length = -1])>>
NotANumber == <<End([Get EXCEPT !.length = 1, !.lengthOk = FALSE])>>
LongHead  == <<Part, Part, Part, End(Get)>>

\* One request of every kind, alone or followed by another one.
Pipelines ==
  {HEAD \o GET, POST \o GET10, POSTWait \o HEAD \o POST, GET10Keep \o <<Octet>>,
   GET \o TooLarge, Negative, NotANumber, LongHead, GETClose \o GET,
   <<Part, Bad>>}

\* What a connection sees when it is used for one peer after another.
ShortPipelines == {POST, HEAD \o GET10Keep, <<Part>>, <<Part, Bad>>}

\* For the runs about overlapping answers.
HeadThenGet == {HEAD \o GET, GET \o GET}

\* For a careless application: bodies, and three requests in a row.
RoughPipelines == {HEAD \o POST \o GET10, GET10Keep \o HEAD \o POST}

NoHeaders == [hasLength |-> FALSE, length |-> 0, close |-> FALSE,
              chunked |-> FALSE]

PlainHeaders == {NoHeaders, [NoHeaders EXCEPT !.hasLength = TRUE, !.length = 2]}

AllHeaders ==
  PlainHeaders \cup
  {[NoHeaders EXCEPT !.close = TRUE],
   [NoHeaders EXCEPT !.chunked = TRUE],
   [NoHeaders EXCEPT !.hasLength = TRUE, !.length = -1],
   [NoHeaders EXCEPT !.hasLength = TRUE, !.length = 0, !.chunked = TRUE]}
=============================================================================
