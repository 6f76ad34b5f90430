------------------------------- MODULE MCHttpWire -------------------------------
(***************************************************************************)
(* HttpWire with requests, answers and other servers' responses for TLC.   *)
(***************************************************************************)
EXTENDS HttpWire
LOCAL INSTANCE SequencesExt

(***************************************************************************)
(* Requests.                                                               *)
(***************************************************************************)

None == <<>>
Http10 == <<"HTTP/", "1", ".", "0">>
Field(name, value) == <<name, value>>
KeepAlive == Field(ConnectionName, <<"keep-alive">>)
XH == <<"x-h">>

OwnRequest(method, path, query, headers, content) ==
  [by |-> "HttpClient", good |-> TRUE, method |-> method, target |-> None, uri |-> None,
   path |-> path, query |-> query, fragment |-> None, version |-> None,
   headers |-> headers, content |-> content]

OtherRequest(target, uri, path, query, fragment, version, headers, content) ==
  [by |-> "other", good |-> TRUE, method |-> <<"M", "M">>, target |-> target, uri |-> uri,
   path |-> path, query |-> query, fragment |-> fragment, version |-> version,
   headers |-> headers, content |-> content]

BadRequestWith(method, target, version, headers) ==
  [by |-> "other", good |-> FALSE, method |-> method, target |-> target, uri |-> None,
   path |-> None, query |-> None, fragment |-> None, version |-> version,
   headers |-> headers, content |-> None]

WireRequests ==
  {OwnRequest(<<"M">>, <<>>, <<>>, <<>>, <<>>),
   OwnRequest(<<"M", "M", "M">>, <<"/", "a">>, <<"a", "=", "%", "2", "f">>,
              <<Field(XH, <<"v", "SP", "v">>)>>, <<"o", "o">>),
   OtherRequest(<<"/", "a", "?">>, <<"/", "a", "?">>, <<"/", "a">>, <<>>, <<>>,
                Http10, <<KeepAlive>>, <<>>),
   OtherRequest(<<"/", "?", "%", "u", "2", "f", "#", "%", "2", "f", "a">>,
                <<"/", "?", "%", "u", "2", "f">>, <<"/">>, <<"%", "u", "2", "f">>,
                <<"%", "2", "f", "a">>, HTTP11, <<Field(<<"CON", "NECTION">>, <<"CLOSE">>)>>, <<>>),
   OtherRequest(<<"*", "#">>, <<"*">>, <<>>, <<>>, <<>>, HTTP11, <<Field(XH, <<>>)>>, <<>>),
   OtherRequest(<<"x", "+", ":", "x", "#", "b">>, <<"x", "+", ":", "x">>, <<>>, <<>>, <<"b">>,
                <<"HTTP/", "1", "0", ".", "1", "0">>, <<LengthHeader(2)>>, <<"o", "o">>),
   OtherRequest(<<":", "x">>, <<":", "x">>, <<>>, <<>>, <<>>, Http10, <<>>, <<>>)}
  \cup
  {BadRequestWith(<<"M", "M", "M", "M">>, <<"/">>, HTTP11, <<>>),
   BadRequestWith(<<"M">>, <<"/", "%", "x">>, HTTP11, <<>>),
   BadRequestWith(<<"M">>, <<"/", "CR">>, HTTP11, <<>>),
   BadRequestWith(<<"M">>, <<"/">>, <<"HTTP/", "1", "x">>, <<>>),
   BadRequestWith(<<"M">>, <<"/">>, HTTP11, <<Field(<<>>, <<"v">>)>>),
   BadRequestWith(<<"M">>, <<"/">>, HTTP11, <<Field(XH, <<"CR", "v">>)>>)}

(***************************************************************************)
(* Answers.                                                                *)
(***************************************************************************)

Octets(n) == [i \in 1 .. n |-> "o"]

AnswerOf(status, headers, content, atOnce) ==
  [status |-> status, headers |-> headers, content |-> content, atOnce |-> atOnce]

ChunkedField == Field(TransferEncodingName, <<"chunked">>)

WireAnswers ==
  {AnswerOf(200, <<>>, <<Octets(2)>>, TRUE),
   AnswerOf(404, <<Field(XH, <<"v">>), LengthHeader(3), Field(ContentTypeName, <<"v">>)>>,
            <<Octets(1), Octets(2)>>, FALSE),
   AnswerOf(200, <<ChunkedField>>, <<Octets(1), Octets(17)>>, FALSE),
   AnswerOf(500, <<>>, <<Octets(1), Octets(1)>>, FALSE),
   AnswerOf(200, <<Field(ConnectionName, <<"close">>)>>, <<Octets(10)>>, TRUE),
   AnswerOf(204, <<>>, <<>>, TRUE),
   AnswerOf(200, <<Field(TransferEncodingName, <<"gzip">>)>>, <<Octets(1)>>, TRUE)}

\* A status the table does not have.
UnlistedStatus == {AnswerOf(429, <<>>, <<Octets(1)>>, TRUE)}

(***************************************************************************)
(* Responses of other servers.                                             *)
(***************************************************************************)

LF == <<"LF">>
StatusLine(digits) == HTTP11 \o <<"SP">> \o digits \o <<"SP", "x">>
OK == StatusLine(<<"2", "0", "0">>)

Good(text, status, headers, content) ==
  [text |-> text, refused |-> 0,
   messages |-> <<[says |-> Says(status, headers, content), end |-> Len(text)]>>]

\* Refused at the last symbol.
Bad(text) == [text |-> text, refused |-> Len(text), messages |-> <<>>]

ToTheEnd(text, headers, content) ==
  [text |-> text, refused |-> 0,
   messages |-> <<[says |-> Says(200, headers, content), end |-> Len(text) + 1]>>]

TwoLengthField == LengthHeader(2)
GoodResponses ==
  {\* line feeds alone
   Good(OK \o LF \o ContentLengthName \o <<":", "2">> \o LF \o XH \o <<":">> \o LF \o LF
          \o Octets(2),
        200, <<TwoLengthField, Field(XH, <<>>)>>, Octets(2)),
   \* folded, empty and upper-case headers
   Good(OK \o CRLF \o XH \o <<":", "v">> \o CRLF \o <<"SP", "w">> \o CRLF
          \o XH \o <<":">> \o CRLF \o <<"CON", "TENT-LENGTH", ":", "1", "SP">> \o CRLF
          \o CRLF \o Octets(1),
        200, <<Field(XH, <<"v", "w">>), Field(XH, <<>>),
               Field(<<"CON", "TENT-LENGTH">>, <<"1", "SP">>)>>, Octets(1)),
   \* a last line without a colon
   Good(<<"CR", "LF">> \o StatusLine(<<"SP", "3", "0", "4">>) \o CRLF \o <<"x", "n">> \o CRLF
          \o CRLF,
        304, <<>>, <<>>),
   Good(HTTP11 \o <<"SP", "2", "0", "4">> \o CRLF \o <<"x">> \o LF \o CRLF, 204, <<>>, <<>>),
   \* another protocol
   Good(StatusLine(<<"1", "0", "1">>) \o CRLF \o HeaderLine(Field(<<"up", "grade">>, <<"v">>))
          \o CRLF,
        101, <<Field(<<"up", "grade">>, <<"v">>)>>, <<>>),
   \* chunks with parameters, and a length that does not count
   Good(OK \o CRLF \o HeaderLine(ChunkedField) \o HeaderLine(TwoLengthField) \o CRLF
          \o <<"1", ";", "v">> \o CRLF \o Octets(1) \o CRLF
          \o <<"0", "2", "SP">> \o CRLF \o Octets(2) \o CRLF \o LastChunk,
        200, <<ChunkedField, TwoLengthField>>, Octets(3)),
   \* a version of many digits, and a header that says close and something else
   ToTheEnd(<<"HTTP/", "0", "1", ".", "0", "1", "SP", "2", "0", "0">> \o LF
              \o HeaderLine(Field(<<"proxy-", "con", "nection">>, <<"close", "v">>)) \o CRLF
              \o Octets(2),
            <<Field(<<"proxy-", "con", "nection">>, <<"close", "v">>)>>, Octets(2))}

ContinueText == StatusLine(<<"1", "0", "0">>) \o CRLF \o CRLF
ContinuedText == ContinueText \o OK \o CRLF \o HeaderLine(TwoLengthField) \o CRLF \o Octets(2)
ClosedText ==
  OK \o CRLF \o HeaderLine(Field(ConnectionName, <<"close">>)) \o HeaderLine(LengthHeader(1))
    \o CRLF \o Octets(1)

SeveralResponses ==
  {[text |-> ContinuedText, refused |-> 0,
    messages |-> <<[says |-> Says(100, <<>>, <<>>), end |-> Len(ContinueText)],
                   [says |-> Says(200, <<TwoLengthField>>, Octets(2)),
                    end  |-> Len(ContinuedText)]>>],
   \* more than was announced, after a response that closes
   [text |-> ClosedText \o CRLF \o Octets(1), refused |-> Len(ClosedText) + 3,
    messages |-> <<[says |-> Says(200, <<Field(ConnectionName, <<"close">>), LengthHeader(1)>>,
                                  Octets(1)),
                    end  |-> Len(ClosedText)]>>]}

WithHeader(line) == OK \o CRLF \o line
InChunks(text) == WithHeader(HeaderLine(ChunkedField) \o CRLF \o text)
WithLength(digits) == WithHeader(ContentLengthName \o <<":">> \o digits)

BadResponses ==
  {Bad(t) : t \in
     {<<"x">>, <<"HTTP/", "x">>, <<"HTTP/", "1", "x">>, <<"HTTP/", "1", ".", "x">>,
      HTTP11 \o <<"x">>, HTTP11 \o <<"SP", "x">>, HTTP11 \o <<"SP", "2", "x">>,
      HTTP11 \o <<"SP", "9", "9", "9", "9">>, OK \o <<"CR", "x">>,
      WithHeader(<<":">>), WithHeader(XH \o <<"SP">>), WithHeader(XH \o <<":", "v", "CR", "x">>),
      WithHeader(<<"CR", "x">>),
      WithLength(<<"x">>), WithLength(<<"2", "x">>), WithLength(<<"2", "5", "5">>),
      WithLength(<<"2", "5", "6">>),
      InChunks(<<"x">>), InChunks(<<"1", "x">>), InChunks(<<"1", "0", "0">>),
      InChunks(<<"1", "CR", "x">>), InChunks(<<"1", "CR", "LF", "o", "x">>),
      InChunks(<<"1", "CR", "LF", "o", "CR", "x">>),
      [i \in 1 .. MaxHeaderSize + 1 |-> IF i <= Len(OK) THEN OK[i] ELSE "x"]}}
  \cup
  {[text |-> WithLength(<<"2">> \o CRLF \o CRLF \o Octets(1)), messages |-> <<>>,
    refused |-> Len(WithLength(<<"2">>)) + 6]}

ForeignResponses == GoodResponses \cup SeveralResponses \cup BadResponses
================================================================================
