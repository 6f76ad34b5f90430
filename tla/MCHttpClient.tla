---------------------------- MODULE MCHttpClient ----------------------------
(***************************************************************************)
(* Instances of HttpClient for TLC.                                        *)
(***************************************************************************)
EXTENDS HttpClient, TLC

Plain(body) ==
  [interim |-> 0, headers |-> 1, gzip |-> FALSE, keepAlive |-> TRUE,
   framing |-> "length", body |-> body, bad |-> FALSE]

Chunked(body) == [Plain(body) EXCEPT !.framing = "chunked"]
Closing(body) == [Plain(body) EXCEPT !.keepAlive = FALSE]
Continued(body) == [Plain(body) EXCEPT !.interim = 1]
Gzipped(body) == [Plain(body) EXCEPT !.gzip = TRUE]
ToTheEnd(body) == [Plain(body) EXCEPT !.framing = "eof"]
Bad == [Plain(0) EXCEPT !.bad = TRUE]

\* Every kind of answer the client can tell the end of.
Delimited == {Plain(0), Closing(2), Chunked(1), Continued(1), Bad}

NoTimeout == -1

\* Content beyond the read buffer, some of it compressed.
Long == {Plain(3), [Gzipped(1) EXCEPT !.interim = 1], Gzipped(2), Plain(0)}

\* Content that ends with the connection.
Undelimited == {Plain(1), ToTheEnd(1)}

\* Content whose framing takes room, too.
ChunkedOnly == {Chunked(2)}

\* More than one 100 Continue before the response.
ContinuedTwice == {[Plain(1) EXCEPT !.interim = 2]}

\* Answers with compressed content.
Compressed == {Plain(1), Gzipped(2), [Gzipped(1) EXCEPT !.interim = 1]}
=============================================================================
