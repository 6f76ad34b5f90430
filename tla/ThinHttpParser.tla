----------------------------- MODULE ThinHttpParser -----------------------------
(***************************************************************************)
(* The parser of request heads (pillowcore/parser/parser.rl and parser.c,  *)
(* the machine generated from it).  It is resumed at nread each time more  *)
(* of the head has arrived in the buffer, and what it finds it notes as    *)
(* positions in that buffer, which may have moved in memory meanwhile.     *)
(* One step is one symbol; states that a constant text goes through are    *)
(* one.                                                                    *)
(***************************************************************************)
EXTENDS ByteArrayHelpers

CONSTANT MethodLimit   \* the longest method: 20 characters

VARIABLES
  buffer,  \* _requestBuffer: the head so far
  p,       \* the next symbol of the call under way, or 0
  thin,    \* the http_parser: its state, mark and nread, positions of the parts
  fields   \* _requestHeadersRef: the positions of names and values

thinVars == <<buffer, p, thin, fields>>

Here == [start |-> 0, len |-> 0]   \* a part not met

\* thin_http_parser_init()
NewThinParser ==
  [cs |-> "start", escape |-> "", mark |-> 0, nread |-> 0, bodyStart |-> 0,
   fieldStart |-> 0, fieldLen |-> 0, queryStart |-> 0,
   method |-> Here, uri |-> Here, path |-> Here, query |-> Here,
   fragment |-> Here, version |-> Here]

ThinInit == buffer = <<>> /\ p = 0 /\ thin = NewThinParser /\ fields = <<>>

(***************************************************************************)
(* Characters.                                                             *)
(***************************************************************************)

Separators == {"SP", "CR", "LF", ":", "/", "?", ";", "=", "HTTP/"}
LowerCase == {"a", "b", "c", "d", "e", "f", "u", "x"}

MethodChars == {"M", ".", "-"} \cup Decimals
SchemeChars == {"M", ".", "+", "-"} \cup Decimals \cup LowerCase
NoUriChars == {"SP", "CR", "LF", "#"}
FieldChars(ch) == ch \notin Separators

(***************************************************************************)
(* A call of thin_http_parser_execute().                                   *)
(***************************************************************************)

Running == p # 0
ThinMore == Running /\ p <= Len(buffer)
Sym == buffer[p]
Expects(cs) == ThinMore /\ thin.cs = cs

\* More of the request has arrived: processInput() resumes the parser.
ThinExecute(more) ==
  /\ ~Running
  /\ buffer' = buffer \o more
  /\ p' = thin.nread + 1
  /\ UNCHANGED <<thin, fields>>

\* The call ends before symbol q.
ReturnBefore(q, t) ==
  /\ thin' = [t EXCEPT !.nread = q - 1]
  /\ p' = 0

ThinReturns ==
  /\ Running /\ p > Len(buffer)
  /\ ReturnBefore(p, thin)
  /\ UNCHANGED <<buffer, fields>>

Takes(next) == thin' = next /\ p' = p + 1 /\ UNCHANGED <<buffer, fields>>

Goes(cs) == [thin EXCEPT !.cs = cs]
Marked(t) == [t EXCEPT !.mark = p]
FromMark == [start |-> thin.mark, len |-> p - thin.mark]

(***************************************************************************)
(* Request_Line                                                            *)
(***************************************************************************)

MethodStart ==
  Expects("start") /\ Sym \in MethodChars /\ Takes(Marked(Goes("method")))

\* The machine has a state for each length.
MethodChar ==
  /\ Expects("method") /\ Sym \in MethodChars
  /\ p - thin.mark < MethodLimit
  /\ Takes(thin)

MethodEnd ==
  /\ Expects("method") /\ Sym = "SP"
  /\ Takes([Goes("uri") EXCEPT !.method = FromMark])

\* The kinds of Request_URI are told by their first characters.
UriStart ==
  /\ Expects("uri")
  /\ \/ Sym = "*" /\ Takes(Marked(Goes("star")))
     \/ Sym \in SchemeChars /\ Takes(Marked(Goes("scheme")))
     \/ Sym = ":" /\ Takes(Marked(Goes("absolute")))
     \/ Sym = "/" /\ Takes(Marked(Goes("path")))

Scheme ==
  /\ Expects("scheme")
  /\ \/ Sym \in SchemeChars /\ Takes(thin)
     \/ Sym = ":" /\ Takes(Goes("absolute"))

\* Where an escape may stand: in a query or fragment it may also be the first thing.
Escapable == {"absolute", "path", "query", "fragment"}

UriChar ==
  /\ ThinMore /\ thin.escape = "" /\ Sym \notin NoUriChars
  /\ LET inside == [thin EXCEPT !.escape = IF Sym = "%" THEN "%" ELSE ""] IN
     \/ /\ thin.cs \in Escapable
        /\ ~(thin.cs = "path" /\ Sym = "?")
        /\ Takes(inside)
     \/ thin.cs = "query_start" /\ Takes([inside EXCEPT !.cs = "query", !.queryStart = p])
     \/ thin.cs = "fragment_start" /\ Takes(Marked([inside EXCEPT !.cs = "fragment"]))

\* %xx or %uxx
Escape ==
  /\ ThinMore
  /\ \/ /\ thin.escape = "%" /\ Sym = "u"
        /\ Takes([thin EXCEPT !.escape = "%u"])
     \/ /\ thin.escape \in {"%", "%u"} /\ Sym \in Hexadecimals
        /\ Takes([thin EXCEPT !.escape = "%x"])
     \/ /\ thin.escape = "%x" /\ Sym \in Hexadecimals
        /\ Takes([thin EXCEPT !.escape = ""])

QueryStart ==
  /\ Expects("path") /\ thin.escape = "" /\ Sym = "?"
  /\ Takes([Goes("query_start") EXCEPT !.path = FromMark])

\* The parts that end with the URI, in the order of the actions.
UriParts(t) ==
  LET t1 == IF t.cs = "path" THEN [t EXCEPT !.path = FromMark] ELSE t
      t2 == IF t.cs = "query_start" THEN [t1 EXCEPT !.queryStart = p] ELSE t1
      t3 == IF t.cs \in {"query_start", "query"}
            THEN [t2 EXCEPT !.query = [start |-> t2.queryStart,
                                        len |-> p - t2.queryStart]]
            ELSE t2
  IN [t3 EXCEPT !.uri = FromMark]

UriEnd ==
  /\ ThinMore /\ thin.escape = ""
  /\ thin.cs \in {"star", "absolute", "path", "query_start", "query"}
  /\ Sym \in {"SP", "#"}
  /\ Takes([UriParts(thin) EXCEPT
             !.cs = IF Sym = "SP" THEN "http" ELSE "fragment_start"])

FragmentEnd ==
  /\ ThinMore /\ thin.escape = "" /\ Sym = "SP"
  /\ \/ /\ thin.cs = "fragment_start"
        /\ Takes([Marked(Goes("http")) EXCEPT !.fragment = [start |-> p, len |-> 0]])
     \/ /\ thin.cs = "fragment"
        /\ Takes([Goes("http") EXCEPT !.fragment = FromMark])

Version ==
  \/ Expects("http") /\ Sym = "HTTP/" /\ Takes(Marked(Goes("first_major")))
  \/ Expects("first_major") /\ Sym \in Decimals /\ Takes(Goes("major"))
  \/ Expects("major") /\ Sym \in Decimals /\ Takes(thin)
  \/ Expects("major") /\ Sym = "." /\ Takes(Goes("first_minor"))
  \/ Expects("first_minor") /\ Sym \in Decimals /\ Takes(Goes("minor"))
  \/ Expects("minor") /\ Sym \in Decimals /\ Takes(thin)
  \/ /\ Expects("minor") /\ Sym = "CR"
     /\ Takes([Goes("line_end") EXCEPT !.version = FromMark])

LineEnd == Expects("line_end") /\ Sym = "LF" /\ Takes(Goes("field_start"))

(***************************************************************************)
(* message_header                                                          *)
(***************************************************************************)

FieldName ==
  \/ /\ Expects("field_start") /\ FieldChars(Sym)
     /\ Takes([Goes("field") EXCEPT !.fieldStart = p])
  \/ Expects("field") /\ FieldChars(Sym) /\ Takes(thin)
  \/ /\ Expects("field") /\ Sym = ":"
     /\ Takes([Goes("value_start") EXCEPT !.fieldLen = p - thin.fieldStart])

FieldValueStarts ==
  /\ Expects("value_start") /\ Sym # "CR"
  /\ Takes(Marked(IF Sym = "SP" THEN thin ELSE Goes("value")))

FieldValueChar == Expects("value") /\ Sym # "CR" /\ Takes(thin)

\* HttpConnectionPrivate::parser_http_field(), called at the end of a value
FieldValueEnds ==
  /\ Expects("value_start") \/ Expects("value")
  /\ Sym = "CR"
  /\ LET mark == IF thin.cs = "value_start" THEN p ELSE thin.mark IN
     /\ thin' = [Goes("line_end") EXCEPT !.mark = mark]
     /\ fields' = Append(fields,
                    [name  |-> [start |-> thin.fieldStart, len |-> thin.fieldLen],
                     value |-> [start |-> mark, len |-> p - mark]])
  /\ p' = p + 1
  /\ UNCHANGED buffer

HeadEnds == Expects("field_start") /\ Sym = "CR" /\ Takes(Goes("end"))

\* Mutant of BodyStart: the body starts at the end of the buffer.
BodyStartAtEnd == Len(buffer)

BodyStart == p

\* The last LF: the symbols before bodyStart are the head.  nread is counted once
\* more, and the parser is not resumed.
Done ==
  /\ Expects("end") /\ Sym = "LF"
  /\ thin' = [Goes("done") EXCEPT !.bodyStart = BodyStart, !.nread = p + 1]
  /\ p' = 0
  /\ UNCHANGED <<buffer, fields>>

Grammar ==
  \/ MethodStart \/ MethodChar \/ MethodEnd
  \/ UriStart \/ Scheme \/ UriChar \/ Escape \/ QueryStart \/ UriEnd
  \/ FragmentEnd \/ Version \/ LineEnd
  \/ FieldName \/ FieldValueStarts \/ FieldValueChar \/ FieldValueEnds
  \/ HeadEnds \/ Done

\* Anything else is an error.
BadRequest ==
  /\ ThinMore /\ ~ENABLED Grammar
  /\ ReturnBefore(p, Goes("error"))
  /\ UNCHANGED <<buffer, fields>>

ParseRequest == Grammar \/ BadRequest \/ ThinReturns

(***************************************************************************)
(* What HttpConnection makes of it.                                        *)
(***************************************************************************)

RequestIsBad == ~Running /\ thin.cs = "error"
HeadIsRead == ~Running /\ thin.cs = "done"

Text(part) == SubSeq(buffer, part.start, part.start + part.len - 1)

\* setupRequestHeaders(), with the part of transitionToSendingHeaders() for the line
RequestHead ==
  [method   |-> Text(thin.method),
   uri      |-> Text(thin.uri),
   path     |-> Text(thin.path),
   query    |-> Text(thin.query),
   fragment |-> Text(thin.fragment),
   version  |-> Text(thin.version),
   headers  |-> [i \in DOMAIN fields |-> <<Text(fields[i].name), Text(fields[i].value)>>]]
================================================================================
