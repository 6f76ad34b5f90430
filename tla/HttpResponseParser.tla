--------------------------- MODULE HttpResponseParser ---------------------------
(***************************************************************************)
(* Pillow::HttpResponseParser (pillowcore/HttpClient.cpp) over the         *)
(* response half of http_parser_execute() (pillowcore/parser/              *)
(* http_parser.c), one step per symbol or run of content.  A call gets     *)
(* what has just arrived: names, values and content that are cut by its    *)
(* end are passed on in pieces, from marks that are local to the call.     *)
(***************************************************************************)
EXTENDS ByteArrayHelpers

CONSTANT MaxHeaderSize   \* HTTP_MAX_HEADER_SIZE

VARIABLES
  rp,    \* the http_parser
  self,  \* the HttpResponseParser: the header under way, headers and content
  data,  \* what the call under way was given
  q,     \* the next symbol of it, or 0
  again, \* is that symbol executed again, in another state?
  mark,  \* where the field, value or content passed on next begins, or 0
  rest,  \* what the last call left when it stopped at the end of a message
  read   \* the messages completed so far

responseVars == <<rp, self, data, q, again, mark, rest, read>>

ULLONG_MAX == 2 ^ LengthWidth - 1
NoMarks == [field |-> 0, value |-> 0, body |-> 0]

\* http_parser_init(), HTTP_RESPONSE
NewResponseParser ==
  [state |-> "start_res", flags |-> {}, length |-> 0, status |-> 0, major |-> 0,
   minor |-> 0, name |-> <<>>, header |-> "general", nread |-> 0, upgrade |-> FALSE,
   errno |-> "OK"]

ResponseInit ==
  /\ rp = NewResponseParser
  /\ self = [field |-> <<>>, value |-> <<>>, lastWasValue |-> FALSE,
             headers |-> <<>>, content |-> <<>>]
  /\ data = <<>> /\ q = 0 /\ again = FALSE /\ mark = NoMarks
  /\ rest = <<>> /\ read = <<>>

(***************************************************************************)
(* HttpResponseParser's callbacks.                                         *)
(***************************************************************************)

MessageBegin ==
  [self EXCEPT !.headers = <<>>, !.content = <<>>, !.lastWasValue = FALSE]

PushHeader ==
  IF self.lastWasValue
  THEN [self EXCEPT !.headers = Append(@, <<self.field, self.value>>),
                    !.field = <<>>, !.value = <<>>, !.lastWasValue = FALSE]
  ELSE self

OnHeaderField(at) == [PushHeader EXCEPT !.field = @ \o at]
OnHeaderValue(at) == [self EXCEPT !.value = @ \o at, !.lastWasValue = TRUE]
OnBody(at) == [self EXCEPT !.content = @ \o at]

(***************************************************************************)
(* Steps of a call.                                                        *)
(***************************************************************************)

Executing == q # 0
MoreData == Executing /\ q <= Len(data)
Ch == data[q]

\* The marks a call begins with.
MarksOfCall(state) ==
  [NoMarks EXCEPT !.field = IF state = "header_field" THEN 1 ELSE 0,
                  !.value = IF state = "header_value" THEN 1 ELSE 0]

ReadyForMore == ~Executing /\ rp.errno = "OK"

\* inject()
Inject(input) ==
  /\ ReadyForMore /\ input # <<>>
  /\ data' = input
  /\ q' = 1
  /\ mark' = MarksOfCall(rp.state)
  /\ rest' = <<>>
  /\ UNCHANGED <<rp, self, again, read>>

\* Symbols of a head are counted.
BodyStates == {"chunk_data", "chunk_data_almost_done", "chunk_data_done",
               "body_identity", "body_identity_eof", "message_done"}
Counts == ~again /\ rp.state \notin BodyStates
Counted == IF Counts THEN [rp EXCEPT !.nread = @ + 1] ELSE rp
HeaderOverflows == Counts /\ rp.nread + 1 > MaxHeaderSize

At(state) == MoreData /\ rp.state = state /\ ~HeaderOverflows
In(state) == [Counted EXCEPT !.state = state]

Advance(r, s, m) ==
  /\ rp' = r /\ self' = s /\ mark' = m
  /\ q' = q + 1 /\ again' = FALSE
  /\ UNCHANGED <<data, rest, read>>

Step(r) == Advance(r, self, mark)

Reexecute(r, s, m) ==
  /\ rp' = r /\ self' = s /\ mark' = m
  /\ again' = TRUE
  /\ UNCHANGED <<data, q, rest, read>>

CallEnds == data' = <<>> /\ q' = 0 /\ again' = FALSE /\ mark' = NoMarks

Fail(errno) ==
  /\ rp' = [Counted EXCEPT !.errno = errno]
  /\ CallEnds
  /\ UNCHANGED <<self, rest, read>>

HeaderOverflow == MoreData /\ HeaderOverflows /\ Fail("HEADER_OVERFLOW")

\* CALLBACK_DATA
FieldPassed ==
  IF mark.field = 0 THEN self ELSE OnHeaderField(SubSeq(data, mark.field, q - 1))
ValuePassed(from) == IF from = 0 THEN self ELSE OnHeaderValue(SubSeq(data, from, q - 1))
BodyPassed(from, to) == IF from = 0 THEN self ELSE OnBody(SubSeq(data, from, to))

\* The data is used up: what the marks hold so far is passed on.
CallReturns ==
  /\ Executing /\ q > Len(data)
  /\ self' = IF mark.field # 0 THEN FieldPassed
             ELSE IF mark.value # 0 THEN ValuePassed(mark.value)
             ELSE BodyPassed(mark.body, q - 1)
  /\ CallEnds
  /\ UNCHANGED <<rp, rest, read>>

(***************************************************************************)
(* The end of a message.                                                   *)
(***************************************************************************)

\* http_message_needs_eof()
NeedsEof(r) ==
  /\ r.status \notin 100 .. 199 \cup {204, 304}
  /\ "chunked" \notin r.flags
  /\ r.length = ULLONG_MAX

\* http_should_keep_alive()
ShouldKeepAlive(r) ==
  /\ IF r.major > 0 /\ r.minor > 0
     THEN "close" \notin r.flags
     ELSE "keep-alive" \in r.flags
  /\ ~NeedsEof(r)

Message ==
  [status |-> rp.status, headers |-> self.headers, content |-> self.content,
   keepAlive |-> ShouldKeepAlive(rp)]

\* message_complete: the parser is paused, and the call returns after this symbol.
\* Paused is no error any more once inject() returns.
Complete(r) ==
  /\ rp' = [r EXCEPT !.state = IF ShouldKeepAlive(r) THEN "start_res" ELSE "dead"]
  /\ read' = Append(read, Message)
  /\ rest' = SubSeq(data, q + 1, Len(data))
  /\ CallEnds
  /\ UNCHANGED self

\* injectEof()
InjectEof ==
  /\ ReadyForMore
  /\ \/ /\ rp.state = "body_identity_eof"
        /\ read' = Append(read, Message)
        /\ UNCHANGED rp
     \/ /\ rp.state \in {"dead", "start_res"}
        /\ UNCHANGED <<rp, read>>
     \/ /\ rp.state \notin {"body_identity_eof", "dead", "start_res"}
        /\ rp' = [rp EXCEPT !.errno = "INVALID_EOF_STATE"]
        /\ UNCHANGED read
  /\ UNCHANGED <<self, data, q, again, mark, rest>>

Dead ==
  /\ At("dead")
  /\ IF Ch \in {"CR", "LF"} THEN Step(Counted) ELSE Fail("CLOSED_CONNECTION")

(***************************************************************************)
(* The status line.                                                        *)
(***************************************************************************)

\* Every line end in front of a response begins the message, too.
StartRes ==
  /\ At("start_res")
  /\ IF Ch \notin {"HTTP/", "CR", "LF"} THEN Fail("INVALID_CONSTANT")
     ELSE Advance([In(IF Ch = "HTTP/" THEN "first_http_major" ELSE "start_res")
                     EXCEPT !.flags = {}, !.length = ULLONG_MAX],
                  MessageBegin, mark)

HttpVersion ==
  \/ /\ At("first_http_major")
     /\ IF Ch \in Decimals THEN Step([In("http_major") EXCEPT !.major = Unhex(Ch)])
        ELSE Fail("INVALID_VERSION")
  \/ /\ At("http_major")
     /\ IF Ch = "." THEN Step(In("first_http_minor"))
        ELSE IF Ch \in Decimals /\ rp.major * 10 + Unhex(Ch) <= 999
             THEN Step([Counted EXCEPT !.major = @ * 10 + Unhex(Ch)])
             ELSE Fail("INVALID_VERSION")
  \/ /\ At("first_http_minor")
     /\ IF Ch \in Decimals THEN Step([In("http_minor") EXCEPT !.minor = Unhex(Ch)])
        ELSE Fail("INVALID_VERSION")
  \/ /\ At("http_minor")
     /\ IF Ch = "SP" THEN Step(In("first_status_code"))
        ELSE IF Ch \in Decimals /\ rp.minor * 10 + Unhex(Ch) <= 999
             THEN Step([Counted EXCEPT !.minor = @ * 10 + Unhex(Ch)])
             ELSE Fail("INVALID_VERSION")

\* Where the line goes on after a line end or what comes before it.
AfterLine(ch) == IF ch = "CR" THEN "line_almost_done" ELSE "header_field_start"

StatusCode ==
  \/ /\ At("first_status_code")
     /\ IF Ch \in Decimals THEN Step([In("status_code") EXCEPT !.status = Unhex(Ch)])
        ELSE IF Ch = "SP" THEN Step(Counted) ELSE Fail("INVALID_STATUS")
  \/ /\ At("status_code")
     /\ IF Ch = "SP" THEN Step(In("status"))
        ELSE IF Ch \in {"CR", "LF"} THEN Step(In(AfterLine(Ch)))
        ELSE IF Ch \in Decimals /\ rp.status * 10 + Unhex(Ch) <= 999
             THEN Step([Counted EXCEPT !.status = @ * 10 + Unhex(Ch)])
             ELSE Fail("INVALID_STATUS")

Reason ==
  /\ At("status")
  /\ Step(IF Ch \in {"CR", "LF"} THEN In(AfterLine(Ch)) ELSE Counted)

LineAlmostDone ==
  /\ At("line_almost_done")
  /\ IF Ch = "LF" THEN Step(In("header_field_start")) ELSE Fail("STRICT")

(***************************************************************************)
(* Header fields.                                                          *)
(***************************************************************************)

Token(ch) == ch \notin {"SP", "CR", "LF", ":", "/", "?", "=", ";", "HTTP/"}

\* A line feed alone also ends the head, or a header.
HeaderFieldStart ==
  /\ At("header_field_start")
  /\ \/ Ch = "CR" /\ Step(In("headers_almost_done"))
     \/ Ch = "LF" /\ Reexecute(In("headers_almost_done"), self, mark)
     \/ /\ Token(Ch)
        /\ Advance([In("header_field") EXCEPT !.name = <<Ch>>], self,
                   [mark EXCEPT !.field = q])
     \/ ~Token(Ch) /\ Ch \notin {"CR", "LF"} /\ Fail("INVALID_HEADER_TOKEN")

HeaderField ==
  /\ At("header_field")
  /\ LET ended(state) == [In(state) EXCEPT !.header = Known(rp.name)]
         unmarked == [mark EXCEPT !.field = 0]
     IN \/ Token(Ch) /\ Step([Counted EXCEPT !.name = Append(@, Ch)])
        \/ Ch = ":" /\ Advance(ended("header_value_start"), FieldPassed, unmarked)
        \/ Ch = "CR" /\ Advance(ended("header_almost_done"), FieldPassed, unmarked)
        \/ Ch = "LF" /\ Advance(ended("header_field_start"), FieldPassed, unmarked)
        \/ /\ ~Token(Ch) /\ Ch \notin {":", "CR", "LF"}
           /\ Fail("INVALID_HEADER_TOKEN")

\* The length with one more digit, in its width, and what is taken for an overflow.
Accumulate(base) ==
  LET t == (rp.length * base + Unhex(Ch)) % 2 ^ LengthWidth
  IN [number |-> t, overflow |-> t < rp.length \/ t = ULLONG_MAX]

\* What the first symbol of a value says under a header.
ValueMeans(header, ch) ==
  CASE header = "transfer-encoding" /\ ch = "chunked" -> "chunked"
    [] header \in {"connection", "proxy-connection"} /\ ch \in {"keep-alive", "close"} -> ch
    [] header = "content-length" -> header
    [] OTHER -> "general"

HeaderValueStart ==
  /\ At("header_value_start")
  /\ \/ Ch = "SP" /\ Step(Counted)
     \/ /\ Ch \in {"CR", "LF"}
        /\ Advance(IF Ch = "CR"
                   THEN [In("header_almost_done") EXCEPT !.header = "general"]
                   ELSE In("header_field_start"),
                   ValuePassed(q), mark)
     \/ /\ Ch \notin {"SP", "CR", "LF"}
        /\ IF rp.header = "content-length" /\ Ch \notin Decimals
           THEN Fail("INVALID_CONTENT_LENGTH")
           ELSE Advance([In("header_value") EXCEPT
                           !.header = ValueMeans(@, Lower(Ch)),
                           !.length = IF rp.header = "content-length" THEN Unhex(Ch) ELSE @,
                           !.flags = IF rp.header = "upgrade" THEN @ \cup {"upgrade"} ELSE @],
                        self, [mark EXCEPT !.value = q])

HeaderValue ==
  /\ At("header_value")
  /\ LET unmarked == [mark EXCEPT !.value = 0] IN
     \/ Ch = "CR" /\ Advance(In("header_almost_done"), ValuePassed(mark.value), unmarked)
     \/ Ch = "LF" /\ Reexecute(In("header_almost_done"), ValuePassed(mark.value), unmarked)
     \/ Ch = "SP" /\ Step(Counted)
     \/ /\ Ch \notin {"CR", "LF", "SP"} /\ rp.header = "content-length"
        /\ IF Ch \notin Decimals \/ Accumulate(10).overflow
           THEN Fail("INVALID_CONTENT_LENGTH")
           ELSE Step([Counted EXCEPT !.length = Accumulate(10).number])
     \/ /\ Ch \notin {"CR", "LF", "SP"} /\ rp.header # "content-length"
        /\ Step([Counted EXCEPT !.header = "general"])

HeaderAlmostDone ==
  /\ At("header_almost_done")
  /\ IF Ch # "LF" THEN Fail("STRICT")
     ELSE Step([In("header_value_lws") EXCEPT
                  !.flags = @ \cup ({rp.header} \cap {"keep-alive", "close", "chunked"})])

\* A line that begins with a space goes on with the value.
HeaderValueLws ==
  /\ At("header_value_lws")
  /\ IF Ch = "SP" THEN Step(In("header_value_start"))
     ELSE Reexecute(In("header_field_start"), self, mark)

(***************************************************************************)
(* The end of the head, and the body.                                      *)
(***************************************************************************)

HeadersAlmostDone ==
  /\ At("headers_almost_done")
  /\ \/ Ch # "LF" /\ Fail("STRICT")
     \/ Ch = "LF" /\ "trailing" \in rp.flags /\ Complete(Counted)
     \/ /\ Ch = "LF" /\ "trailing" \notin rp.flags
        /\ Reexecute([In("headers_done") EXCEPT !.upgrade = "upgrade" \in rp.flags],
                     PushHeader, mark)

HeadersDone ==
  /\ At("headers_done")
  /\ LET r == [Counted EXCEPT !.nread = 0] IN
     \/ rp.upgrade /\ Complete(r)
     \/ /\ ~rp.upgrade
        /\ IF "chunked" \in rp.flags THEN Step([r EXCEPT !.state = "chunk_size_start"])
           ELSE IF rp.length \notin {0, ULLONG_MAX}
                THEN Step([r EXCEPT !.state = "body_identity"])
           ELSE IF NeedsEof(rp) THEN Step([r EXCEPT !.state = "body_identity_eof"])
           ELSE Complete(r)

Smaller(a, b) == IF a < b THEN a ELSE b
ToRead == Smaller(rp.length, Len(data) - q + 1)
BodyMark == IF mark.body = 0 THEN q ELSE mark.body

\* Mutant of LastOfBody: the end waits for the next symbol.
NextAfterBody(last) == last + 1

\* The last symbol of the body is executed again.
LastOfBody(last) == last

BodyIdentity ==
  /\ At("body_identity")
  /\ LET left == rp.length - ToRead
         last == q + ToRead - 1
     IN IF left = 0
        THEN /\ rp' = [In("message_done") EXCEPT !.length = 0]
             /\ self' = BodyPassed(BodyMark, last)
             /\ q' = LastOfBody(last) /\ again' = TRUE
             /\ mark' = NoMarks
             /\ UNCHANGED <<data, rest, read>>
        ELSE /\ rp' = [rp EXCEPT !.length = left]
             /\ mark' = [mark EXCEPT !.body = BodyMark]
             /\ q' = last + 1 /\ again' = FALSE
             /\ UNCHANGED <<self, data, rest, read>>

BodyIdentityEof ==
  /\ At("body_identity_eof")
  /\ mark' = [mark EXCEPT !.body = BodyMark]
  /\ q' = Len(data) + 1 /\ again' = FALSE
  /\ UNCHANGED <<rp, self, data, rest, read>>

MessageDone == At("message_done") /\ Complete(rp)

ChunkSizeStart ==
  /\ At("chunk_size_start")
  /\ IF Ch \in Hexadecimals
     THEN Step([In("chunk_size") EXCEPT !.length = Unhex(Ch)])
     ELSE Fail("INVALID_CHUNK_SIZE")

ChunkSize ==
  /\ At("chunk_size")
  /\ \/ Ch = "CR" /\ Step(In("chunk_size_almost_done"))
     \/ Ch \in {";", "SP"} /\ Step(In("chunk_parameters"))
     \/ /\ Ch \in Hexadecimals
        /\ IF Accumulate(16).overflow THEN Fail("INVALID_CONTENT_LENGTH")
           ELSE Step([Counted EXCEPT !.length = Accumulate(16).number])
     \/ /\ Ch \notin {"CR", ";", "SP"} \cup Hexadecimals
        /\ Fail("INVALID_CHUNK_SIZE")

ChunkParameters ==
  /\ At("chunk_parameters")
  /\ Step(IF Ch = "CR" THEN In("chunk_size_almost_done") ELSE Counted)

ChunkSizeAlmostDone ==
  /\ At("chunk_size_almost_done")
  /\ IF Ch # "LF" THEN Fail("STRICT")
     ELSE IF rp.length = 0
          THEN Step([In("header_field_start") EXCEPT !.nread = 0,
                                                     !.flags = @ \cup {"trailing"}])
          ELSE Step([In("chunk_data") EXCEPT !.nread = 0])

ChunkData ==
  /\ At("chunk_data")
  /\ LET left == rp.length - ToRead IN
     rp' = [rp EXCEPT !.length = left,
                      !.state = IF left = 0 THEN "chunk_data_almost_done" ELSE @]
  /\ mark' = [mark EXCEPT !.body = BodyMark]
  /\ q' = q + ToRead /\ again' = FALSE
  /\ UNCHANGED <<self, data, rest, read>>

ChunkDataAlmostDone ==
  /\ At("chunk_data_almost_done")
  /\ IF Ch # "CR" THEN Fail("STRICT")
     ELSE Advance(In("chunk_data_done"), BodyPassed(mark.body, q - 1), NoMarks)

ChunkDataDone ==
  /\ At("chunk_data_done")
  /\ IF Ch # "LF" THEN Fail("STRICT")
     ELSE Step([In("chunk_size_start") EXCEPT !.nread = 0])

ParseHead ==
  \/ StartRes \/ HttpVersion \/ StatusCode \/ Reason \/ LineAlmostDone
  \/ HeaderFieldStart \/ HeaderField \/ HeaderValueStart \/ HeaderValue
  \/ HeaderAlmostDone \/ HeaderValueLws \/ HeadersAlmostDone \/ HeadersDone
  \/ HeaderOverflow

ParseBody ==
  \/ BodyIdentity \/ BodyIdentityEof \/ MessageDone
  \/ ChunkSizeStart \/ ChunkSize \/ ChunkParameters \/ ChunkSizeAlmostDone
  \/ ChunkData \/ ChunkDataAlmostDone \/ ChunkDataDone \/ Dead

ParseResponse == ParseHead \/ ParseBody \/ CallReturns
================================================================================
