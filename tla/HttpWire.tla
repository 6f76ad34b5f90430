-------------------------------- MODULE HttpWire --------------------------------
(***************************************************************************)
(* What one end writes the other end reads.  A request is written by       *)
(* HttpClient (HttpRequestWriter) or another client and read by            *)
(* HttpConnection's parser; the response is written by HttpConnection or   *)
(* another server and read by HttpClient's.  Both texts arrive in pieces   *)
(* cut at any place.  Who may call what and when is the business of        *)
(* HttpConnection.tla and HttpClient.tla; here a request is answered once. *)
(***************************************************************************)
EXTENDS ThinHttpParser, HttpResponseParser
LOCAL INSTANCE SequencesExt

CONSTANTS
  Requests,   \* what clients send
  Answers,    \* what handlers answer
  Foreign,    \* what other servers send: texts, and the messages they are made of
  PieceSizes  \* how many symbols arrive at once, unless all the others do

VARIABLES
  request,    \* the request
  sent,       \* how many of its symbols were given to the server
  response,   \* the text of the response, or none
  given,      \* how many of its symbols were given to the client
  messages,   \* what the response says: messages, and where in the text each ends
  refused,    \* the symbol at which it is against the grammar, or 0
  persists,   \* _responseConnectionKeepAlive, if it was decided
  closed      \* has the client seen the end of the connection?

wireVars == <<request, sent, response, given, messages, refused, persists, closed>>
vars == <<thinVars, responseVars, wireVars>>

\* How much of what is left may arrive next.
Pieces(left) == {n \in PieceSizes \cup {left} : 0 < n /\ n <= left}

(***************************************************************************)
(* Requests as text.                                                       *)
(***************************************************************************)

CRLF == <<"CR", "LF">>
HTTP11 == <<"HTTP/", "1", ".", "1">>
ContentLengthName == <<"con", "tent-length">>
ConnectionName == <<"con", "nection">>
TransferEncodingName == <<"transfer-", "encoding">>
ContentTypeName == <<"con", "tent-type">>

HeaderLine(h) == h[1] \o <<":", "SP">> \o h[2] \o CRLF
HeaderLines(headers) == FlattenSeq([i \in DOMAIN headers |-> HeaderLine(headers[i])])

LengthHeader(n) == <<ContentLengthName, Number(n, 10)>>

\* HttpRequestWriter::write() announces no content if there is none.
LengthOfData(data_) == Len(data_)

WrittenHeaders(headers, data_) ==
  IF data_ = <<>> THEN headers ELSE Append(headers, LengthHeader(LengthOfData(data_)))

\* HttpClient::sendRequest()
SentHeaders(r) == <<<<<<"host">>, <<"x">>>>>> \o r.headers
SentPath(r) == IF r.path = <<>> THEN <<"/">> ELSE r.path
SentUri(r) ==
  IF r.query = <<>> THEN SentPath(r) ELSE SentPath(r) \o <<"?">> \o r.query

\* Other clients write the target and the version they like.
RequestText(r) ==
  IF r.by = "HttpClient"
  THEN r.method \o <<"SP">> \o SentUri(r) \o <<"SP">> \o HTTP11 \o CRLF
         \o HeaderLines(WrittenHeaders(SentHeaders(r), r.content)) \o CRLF \o r.content
  ELSE r.method \o <<"SP">> \o r.target \o <<"SP">> \o r.version \o CRLF
         \o HeaderLines(r.headers) \o CRLF \o r.content

\* What the server's application should be told.
RequestMeans(r) ==
  [method |-> r.method, query |-> r.query, fragment |-> r.fragment,
   uri     |-> IF r.by = "HttpClient" THEN SentUri(r) ELSE r.uri,
   path    |-> IF r.by = "HttpClient" THEN SentPath(r) ELSE r.path,
   version |-> IF r.by = "HttpClient" THEN HTTP11 ELSE r.version,
   headers |-> IF r.by = "HttpClient"
               THEN SentHeaders(r)
                      \o (IF r.content = <<>> THEN <<>> ELSE <<LengthHeader(Len(r.content))>>)
               ELSE r.headers]

(***************************************************************************)
(* The server reads a request.                                             *)
(***************************************************************************)

Value(digits) ==
  LET upto[i \in 0 .. Len(digits)] ==
        IF i = 0 THEN 0 ELSE upto[i - 1] * 10 + Unhex(digits[i])
  IN upto[Len(digits)]

\* The length the last such field gives (_requestContentLengthHeaderIndex).
LastValue(headers, name) ==
  LET places == {i \in DOMAIN headers : SameWord(headers[i][1], name)}
  IN IF places = {} THEN <<>>
     ELSE headers[CHOOSE i \in places : \A j \in places : j <= i][2]

RequestLength == Value(LastValue(RequestHead.headers, ContentLengthName))
RequestContent == SubSeq(buffer, thin.bodyStart + 1, thin.bodyStart + RequestLength)
RequestIsRead == HeadIsRead /\ Len(buffer) - thin.bodyStart >= RequestLength

SendMore ==
  /\ ~Running /\ ~RequestIsBad /\ response = <<>>
  /\ \E n \in Pieces(Len(RequestText(request)) - sent) :
       LET more == SubSeq(RequestText(request), sent + 1, sent + n) IN
       /\ \/ ~HeadIsRead /\ ThinExecute(more)
          \/ HeadIsRead /\ buffer' = buffer \o more /\ UNCHANGED <<p, thin, fields>>
       /\ sent' = sent + n
  /\ UNCHANGED <<responseVars, request, response, given, messages, refused, persists, closed>>

ServerParses == ParseRequest /\ UNCHANGED <<responseVars, wireVars>>

(***************************************************************************)
(* Responses as text.                                                      *)
(***************************************************************************)

Statuses == {100, 200, 204, 304, 400, 404, 500}

\* getStatusCodeAndMessage(), of a status that has one
StatusCodeAndMessage(status) == DigitsOf(status, 10) \o <<"SP", "x">>

\* getStatusMessage(): what follows the code
StatusMessage(status) == SubSeq(StatusCodeAndMessage(status), 5, 5)

StatusText(status) ==
  IF status \in Statuses THEN StatusCodeAndMessage(status) ELSE StatusMessage(500)

StatusMeant(status) == IF status \in Statuses THEN status ELSE 500

Special == {ContentLengthName, ContentTypeName, ConnectionName, TransferEncodingName}
IsSpecial(h) == \E name \in Special : SameWord(h[1], name)
HasField(headers, name) == \E i \in DOMAIN headers : SameWord(headers[i][1], name)

\* The head that writeHeaders() writes for an answer: the length it announces, or -1.
AnnouncedLength(a) ==
  IF HasField(a.headers, ContentLengthName)
  THEN Value(LastValue(a.headers, ContentLengthName))
  ELSE IF a.atOnce THEN Len(FlattenSeq(a.content)) ELSE -1

Http11 == RequestHead.version = HTTP11

EncodingIsChunked(a) ==
  SameWord(LastValue(a.headers, TransferEncodingName), <<"chunked">>)

IsChunked(a) == EncodingIsChunked(a) /\ Http11 /\ AnnouncedLength(a) = -1

ClientWantsKeepAlive ==
  LET said == FieldValue(RequestHead.headers, ConnectionName)
  IN IF Http11 THEN ~SameWord(said, <<"close">>) ELSE SameWord(said, <<"keep-alive">>)

Persists(a) ==
  /\ ClientWantsKeepAlive
  /\ AnnouncedLength(a) >= 0 \/ IsChunked(a)
  /\ ~SameWord(LastValue(a.headers, ConnectionName), <<"close">>)

\* Mutant of ConnectionIsSaid: HTTP/1.0 clients are not told that it persists.
ConnectionIsSaidToNewer(a) == ~Persists(a)

ConnectionIsSaid(a) == ~Http11 \/ ~Persists(a)

ConnectionHeader(a) ==
  <<ConnectionName, IF Persists(a) THEN <<"keep-alive">> ELSE <<"close">>>>

WhenTrue(condition, header) == IF condition THEN <<header>> ELSE <<>>

ContentTypeHeader(a) ==
  IF HasField(a.headers, ContentTypeName)
  THEN <<<<ContentTypeName, LastValue(a.headers, ContentTypeName)>>>>
  ELSE WhenTrue(AnnouncedLength(a) > 0, <<ContentTypeName, <<"text">>>>)

TransferEncodingHeader(a) ==
  WhenTrue(HasField(a.headers, TransferEncodingName) /\ (EncodingIsChunked(a) => IsChunked(a)),
           <<TransferEncodingName, LastValue(a.headers, TransferEncodingName)>>)

ResponseHeaders(a) ==
  SelectSeq(a.headers, LAMBDA h : ~IsSpecial(h))
    \o WhenTrue(AnnouncedLength(a) # -1, LengthHeader(AnnouncedLength(a)))
    \o ContentTypeHeader(a)
    \o WhenTrue(ConnectionIsSaid(a), ConnectionHeader(a))
    \o TransferEncodingHeader(a)

\* writeContent() of one piece, and endContent()
Chunk(piece) == Number(Len(piece), 16) \o CRLF \o piece \o CRLF
LastChunk == <<"0">> \o CRLF \o CRLF

Content(a) ==
  IF IsChunked(a)
  THEN FlattenSeq([i \in DOMAIN a.content |-> Chunk(a.content[i])]) \o LastChunk
  ELSE FlattenSeq(a.content)

ResponseText(a) ==
  RequestHead.version \o <<"SP">> \o StatusText(a.status) \o CRLF
    \o HeaderLines(ResponseHeaders(a)) \o CRLF \o Content(a)

\* writeRequestErrorResponse(400)
ErrorText ==
  <<"HTTP/", "1", ".", "0", "SP">> \o StatusCodeAndMessage(400) \o CRLF
    \o HeaderLine(<<ConnectionName, <<"close">>>>) \o CRLF

Says(status, headers, content) == [status |-> status, headers |-> headers, content |-> content]

Responds(text, says, refusedAt, keep) ==
  /\ response = <<>>
  /\ response' = text /\ messages' = says /\ refused' = refusedAt /\ persists' = keep
  /\ UNCHANGED <<thinVars, responseVars, request, sent, given, closed>>

\* The handler answers.  Without a length the end of the connection ends the response.
Respond ==
  /\ RequestIsRead
  /\ \E a \in Answers :
       LET text == ResponseText(a)
           delimited == AnnouncedLength(a) # -1 \/ IsChunked(a)
       IN Responds(text,
            <<[says |-> Says(StatusMeant(a.status), ResponseHeaders(a), FlattenSeq(a.content)),
               end  |-> IF delimited THEN Len(text) ELSE Len(text) + 1]>>,
            0, {Persists(a)})

RespondError ==
  /\ RequestIsBad
  /\ Responds(ErrorText,
       <<[says |-> Says(400, <<<<ConnectionName, <<"close">>>>>>, <<>>),
          end  |-> Len(ErrorText) + 1]>>, 0, {FALSE})

\* HttpClient's request went to another server, and that one answers.
ForeignResponse ==
  /\ sent = 0 /\ request.by = "HttpClient"
  /\ \E f \in Foreign : Responds(f.text, f.messages, f.refused, {})

(***************************************************************************)
(* The client reads the response.                                          *)
(***************************************************************************)

DeliverMore ==
  /\ rest = <<>> /\ ~closed
  /\ \E n \in Pieces(Len(response) - given) :
       /\ Inject(SubSeq(response, given + 1, given + n))
       /\ given' = given + n
  /\ UNCHANGED <<thinVars, request, sent, response, messages, refused, persists, closed>>

\* What was left is injected again; HttpClient does so after a 100 Continue.
InjectRest ==
  /\ Inject(rest)
  /\ UNCHANGED <<thinVars, wireVars>>

ServerCloses ==
  /\ response # <<>> /\ given = Len(response) /\ rest = <<>> /\ ~closed
  /\ InjectEof
  /\ closed' = TRUE
  /\ UNCHANGED <<thinVars, request, sent, response, given, messages, refused, persists>>

ClientParses == ParseResponse /\ UNCHANGED <<thinVars, wireVars>>

Init ==
  /\ ThinInit /\ ResponseInit
  /\ request \in Requests
  /\ sent = 0 /\ response = <<>> /\ given = 0 /\ messages = <<>> /\ refused = 0
  /\ persists = {} /\ closed = FALSE

Next ==
  \/ SendMore \/ ServerParses
  \/ Respond \/ RespondError \/ ForeignResponse
  \/ DeliverMore \/ InjectRest \/ ServerCloses \/ ClientParses

Spec == Init /\ [][Next]_vars

(***************************************************************************)
(* Properties.                                                             *)
(***************************************************************************)

\* However its text is cut, a request is read exactly when the last symbol of it has
\* arrived, with every part, header and octet the client meant; one against the
\* grammar never is (processInput(), resuming the parser in a growing buffer).
RequestAsWritten ==
  ~Running =>
    /\ RequestIsRead <=> request.good /\ sent = Len(RequestText(request))
    /\ RequestIsRead => RequestHead = RequestMeans(request)
                        /\ RequestContent = request.content
    /\ ~request.good /\ sent = Len(RequestText(request)) => RequestIsBad

\* However its text is cut, each message of a response is completed exactly when its
\* last symbol has arrived, or the connection ended if nothing else tells its end,
\* with the status, headers and content the server meant; nothing of the next message
\* is used up for it, and a text against the grammar is refused as soon as it shows
\* (HttpResponseParser).
ResponseAsWritten ==
  ~Executing =>
    LET seen == given - Len(rest) + (IF closed THEN 1 ELSE 0) IN
    /\ Len(read) <= Len(messages)
    /\ \A i \in DOMAIN messages : i <= Len(read) <=> messages[i].end <= seen
    /\ \A i \in DOMAIN read :
         Says(read[i].status, read[i].headers, read[i].content) = messages[i].says
    /\ rp.errno # "OK" <=> refused # 0 /\ refused <= seen

\* Both ends draw the same conclusion about the connection from what was written:
\* the client keeps it exactly when the server does (shouldKeepAlive() and writeHeaders()).
PersistenceUnderstood ==
  \A i \in DOMAIN read : persists \subseteq {read[i].keepAlive}
================================================================================
