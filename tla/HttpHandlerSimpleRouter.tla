------------------------- MODULE HttpHandlerSimpleRouter -------------------------
(***************************************************************************)
(* HttpHandlerSimpleRouter (pillowcore/HttpHandlerSimpleRouter.cpp): a     *)
(* request goes to the first route whose path and method fit, with the     *)
(* parts of the path the pattern names as parameters of the request, next  *)
(* to those of its query (HttpConnection::requestParams()).                *)
(* A pattern is a sequence of elements: a literal, :name or *name.  The    *)
(* code compiles it as it is, so what is special in an expression stays    *)
(* special.  Of that the model has the dot, and no pattern with any other  *)
(* metacharacter.                                                          *)
(***************************************************************************)
EXTENDS ByteArrayHelpers, SequencesExt

CONSTANTS
  Additions,  \* the routes applications may add: method, pattern and target
  Incoming,   \* the requests: method, path and query
  MaxRoutes,  \* how many routes are added
  WordSymbols \* the symbols that stand for word characters, or for whole words

Text == Seq(STRING)
Elements == [kind : {"literal", "param", "splat"}, is : Text]

\* What is no literal: the metacharacters but the dot, and what a name begins with.
Special == {"\\", "^", "$", "[", "|", "(", ")", "?", "*", "+", "{", ":"}

\* Literals are single symbols, names are words; a word character behind a name would
\* be part of it.
IsPattern(pattern) == \A i \in DOMAIN pattern :
  IF pattern[i].kind = "literal"
  THEN /\ Len(pattern[i].is) = 1
       /\ pattern[i].is[1] \notin Special
       /\ i > 1 /\ pattern[i].is[1] \in WordSymbols => pattern[i - 1].kind = "literal"
  ELSE /\ pattern[i].is # <<>>
       /\ \A k \in DOMAIN pattern[i].is : pattern[i].is[k] \in WordSymbols

\* A percent sign is followed by the code of a character that the models write.
Encoded(text) == \A i \in DOMAIN text :
  text[i] = "%" /\ i + 2 <= Len(text) =>
    /\ text[i + 1] \in Hexadecimals /\ text[i + 2] \in Hexadecimals
    /\ Decoded(text[i + 1], text[i + 2]) # "other"

ASSUME RouterAssumption ==
  /\ Incoming \subseteq [method : Text, path : Text, query : Text]
  /\ \A r \in Incoming : Encoded(r.path) /\ Encoded(r.query)
  /\ \A a \in Additions :
       /\ a.method \in Text
       /\ a.pattern \in Seq(Elements)
       /\ IsPattern(a.pattern)

ASSUME WordAssumption ==
  /\ Hexadecimals \cup {"g"} \subseteq WordSymbols
  /\ {"LF", "%", "/", "-", "."} \cap WordSymbols = {}

VARIABLES
  routes,        \* d_ptr->routes
  actions,       \* d_ptr: methodMismatchAction and unmatchedRequestAction
  acceptMethodParam,
  dead,          \* handlers and objects that were deleted
  request,       \* the request last handled, or none
  params,        \* its _requestParams
  outcome        \* what handleRequest() did with it

vars == <<routes, actions, acceptMethodParam, dead, request, params, outcome>>
router == <<routes, actions, acceptMethodParam, dead>>

NoRequest == <<>>
NotHandled == [returned |-> FALSE, route |-> 0, called |-> FALSE, status |-> 0, allow |-> <<>>]

(***************************************************************************)
(* Patterns: pathToRegExp() and what its expression matches.               *)
(***************************************************************************)

Lit(ch) == [kind |-> "literal", is |-> <<ch>>]
Param(name) == [kind |-> "param", is |-> name]
Splat(name) == [kind |-> "splat", is |-> name]

\* Those of 1 .. n that are in S, one after the other
InOrder(S, n) ==
  LET upto[i \in 0 .. n] ==
        IF i = 0 THEN <<>>
        ELSE IF i \in S THEN Append(upto[i - 1], i) ELSE upto[i - 1]
  IN upto[n]

Names(pattern, kind) ==
  LET elements == InOrder({i \in DOMAIN pattern : pattern[i].kind = kind}, Len(pattern))
  IN [i \in DOMAIN elements |-> pattern[elements[i]].is]

\* All :names are collected before the *names.
ParamNames(pattern) == Names(pattern, "param") \o Names(pattern, "splat")

\* Is the symbol what a literal says?  Literals are not escaped, so a dot is any symbol
\* but a line feed.
Agrees(e, ch) == e.is = <<ch>> \/ (e.is = <<".">> /\ ch # "LF")

\* Where element e can end if it begins at symbol j of the path.
Ends(e, path, j) ==
  CASE e.kind = "literal" -> {k \in {j + 1} : j <= Len(path) /\ Agrees(e, path[j])}
    [] e.kind = "param" ->
         {k \in j + 1 .. Len(path) + 1 : \A i \in j .. k - 1 : path[i] \in WordSymbols \cup {"-"}}
    [] e.kind = "splat" ->
         {k \in j .. Len(path) + 1 : \A i \in j .. k - 1 : path[i] # "LF"}

\* What may follow what matched: $ also matches before a line feed at the end.
Trailing == {<<>>, <<"LF">>}

MatchEnds(path) == {k \in 1 .. Len(path) + 1 : SubSeq(path, k, Len(path)) \in Trailing}

\* From which symbols of the path on can the last i elements match it?
Fits(pattern, path) ==
  LET n == Len(pattern)
      fits[i \in 0 .. n] ==
        IF i = 0 THEN MatchEnds(path)
        ELSE LET rest == fits[i - 1]
             IN {j \in 1 .. Len(path) + 1 : Ends(pattern[n - i + 1], path, j) \cap rest # {}}
  IN fits

HasMatch(pattern, path) == 1 \in Fits(pattern, path)[Len(pattern)]

\* Where the elements begin: each takes as much as the others leave it.
Begins(pattern, path) ==
  LET fits == Fits(pattern, path)
      n == Len(pattern)
      ends[i \in 0 .. n] ==
        IF i = 0 THEN 1 ELSE Max(Ends(pattern[i], path, ends[i - 1]) \cap fits[n - i])
  IN [i \in 1 .. n + 1 |-> ends[i - 1]]

\* match.captured(): what the elements with a name took, in their order
Captures(pattern, path) ==
  LET begins == Begins(pattern, path)
      named == InOrder({i \in DOMAIN pattern : pattern[i].kind # "literal"}, Len(pattern))
  IN [c \in DOMAIN named |-> SubSeq(path, begins[named[c]], begins[named[c] + 1] - 1)]

(***************************************************************************)
(* Parameters: HttpConnection::requestParams() and its kin.                *)
(***************************************************************************)

\* One name=value, or a name alone
ParamOf(text) ==
  LET equals == {i \in DOMAIN text : text[i] = "="}
      keyEnd == IF equals = {} THEN Len(text) + 1 ELSE Min(equals)
  IN <<PercentDecode(SubSeq(text, 1, keyEnd - 1)),
       PercentDecode(SubSeq(text, keyEnd + 1, Len(text)))>>

QueryParams(query) ==
  LET starts == InOrder({s \in DOMAIN query : s = 1 \/ query[s - 1] = "&"}, Len(query))
      paramEnd(s) == Min({k \in s .. Len(query) : query[k] = "&"} \cup {Len(query) + 1})
  IN [i \in DOMAIN starts |-> ParamOf(SubSeq(query, starts[i], paramEnd(starts[i]) - 1))]

\* requestParamValue()
ParamValue(ps, name) == FieldValue(ps, name)

\* Mutant of SetParam: a parameter of the query is not replaced.
SetParamAppended(ps, name, value) == Append(ps, <<name, value>>)

\* setRequestParam()
SetParam(ps, name, value) ==
  LET places == {i \in DOMAIN ps : SameWord(ps[i][1], name)}
  IN IF places = {} THEN Append(ps, <<name, value>>)
     ELSE [ps EXCEPT ![Min(places)] = <<name, value>>]

WithCaptures(ps, pattern, path) ==
  LET names == ParamNames(pattern)
      captures == Captures(pattern, path)
      upto[i \in 0 .. Len(names)] ==
        IF i = 0 THEN ps ELSE SetParam(upto[i - 1], names[i], captures[i])
  IN upto[Len(names)]

(***************************************************************************)
(* Between requests the application changes the router.                    *)
(***************************************************************************)

Init ==
  /\ routes = <<>>
  /\ actions = [mismatch |-> "Passthrough", unmatched |-> "Passthrough"]
  /\ acceptMethodParam = FALSE
  /\ dead = {} /\ request = NoRequest /\ params = <<>> /\ outcome = NotHandled

\* How the member of an object is called: found as a slot, or by its name.  What
\* indexOfMethod() finds is not used.
CallOf(target) ==
  CASE target.kind = "object" /\ target.member = "slot" -> "methodCall"
    [] target.kind = "object" /\ target.member # "slot" -> "metaCall"
    [] OTHER -> target.kind

\* addRoute(): not for an object or member that is null.
AddRoute ==
  /\ request = NoRequest /\ Len(routes) < MaxRoutes
  /\ \E a \in Additions :
       /\ ~(a.target.kind = "object" /\ a.target.member = "none")
       /\ routes' = Append(routes, [method |-> a.method, pattern |-> a.pattern,
                                    target |-> a.target, call |-> CallOf(a.target)])
  /\ UNCHANGED <<actions, acceptMethodParam, dead, request, params, outcome>>

SetActions ==
  /\ request = NoRequest
  /\ \E which \in {"mismatch", "unmatched"}, what \in {"Return4xxResponse", "Passthrough"} :
       actions' = [actions EXCEPT ![which] = what]
  /\ UNCHANGED <<routes, acceptMethodParam, dead, request, params, outcome>>

SetAcceptsMethodParam ==
  /\ request = NoRequest
  /\ acceptMethodParam' \in BOOLEAN
  /\ UNCHANGED <<routes, actions, dead, request, params, outcome>>

\* QPointers to it become null.
TargetIsDeleted ==
  /\ request = NoRequest
  /\ \E i \in DOMAIN routes :
       /\ routes[i].target.kind \in {"handler", "object"}
       /\ dead' = dead \cup {routes[i].target}
  /\ UNCHANGED <<routes, actions, acceptMethodParam, request, params, outcome>>

(***************************************************************************)
(* handleRequest()                                                         *)
(***************************************************************************)

MethodToken == <<"_method">>

RequestMethod(r) ==
  LET param == ParamValue(QueryParams(r.query), MethodToken)
  IN IF acceptMethodParam /\ param # <<>> THEN param ELSE r.method

\* QUrl::fromPercentEncoding()
RequestPath(r) == PercentDecode(r.path)

MatchedRoutes(r) ==
  InOrder({i \in DOMAIN routes : HasMatch(routes[i].pattern, RequestPath(r))}, Len(routes))

Accepts(route, method) == route.method = <<>> \/ SameWord(route.method, method)

Accepting(r) ==
  InOrder({i \in DOMAIN routes : /\ HasMatch(routes[i].pattern, RequestPath(r))
                                 /\ Accepts(routes[i], RequestMethod(r))}, Len(routes))

\* Is the target of a route reached?  A name looked up at the call must have no signature.
Reached(route) ==
  /\ route.target \notin dead
  /\ route.call = "metaCall" => route.target.member = "name"

\* invoke(), whose result does not matter
Routed(r) ==
  /\ Accepting(r) # <<>>
  /\ LET first == Accepting(r)[1]
         route == routes[first]
         written == IF acceptMethodParam THEN QueryParams(r.query) ELSE <<>>
     IN /\ params' = IF ParamNames(route.pattern) = <<>> THEN written
                     ELSE WithCaptures(QueryParams(r.query), route.pattern, RequestPath(r))
        /\ outcome' = [NotHandled EXCEPT
                         !.returned = TRUE, !.route = first, !.called = Reached(route),
                         !.status = IF route.call = "static" THEN route.target.status ELSE 0]

NotRouted(r, answer) ==
  /\ Accepting(r) = <<>>
  /\ params' = IF acceptMethodParam THEN QueryParams(r.query) ELSE <<>>
  /\ outcome' = answer

Answer(status, allow) ==
  [NotHandled EXCEPT !.returned = TRUE, !.status = status, !.allow = allow]

\* 404
Unmatched(r) ==
  /\ MatchedRoutes(r) = <<>> /\ actions.unmatched = "Return4xxResponse"
  /\ NotRouted(r, Answer(404, <<>>))

\* Mutant of AllowedMethods: only of the first route.
FirstAllowed(matched) == <<routes[matched[1]].method>>

AllowedMethods(matched) == [i \in DOMAIN matched |-> routes[matched[i]].method]

\* 405
MethodMismatch(r) ==
  /\ MatchedRoutes(r) # <<>> /\ actions.mismatch = "Return4xxResponse"
  /\ NotRouted(r, Answer(405, AllowedMethods(MatchedRoutes(r))))

\* The request is left to another handler.
Passes(r) ==
  /\ IF MatchedRoutes(r) = <<>> THEN actions.unmatched = "Passthrough"
     ELSE actions.mismatch = "Passthrough"
  /\ NotRouted(r, NotHandled)

HandleRequest ==
  /\ request = NoRequest
  /\ \E r \in Incoming :
       /\ request' = r
       /\ Routed(r) \/ Unmatched(r) \/ MethodMismatch(r) \/ Passes(r)
  /\ UNCHANGED router

\* The next request finds no parameters.
RequestIsOver ==
  /\ request # NoRequest
  /\ request' = NoRequest /\ params' = <<>> /\ outcome' = NotHandled
  /\ UNCHANGED router

Next ==
  \/ AddRoute \/ SetActions \/ SetAcceptsMethodParam \/ TargetIsDeleted
  \/ HandleRequest \/ RequestIsOver

Spec == Init /\ [][Next]_vars

(***************************************************************************)
(* Properties.                                                             *)
(***************************************************************************)

Routes ==
  {[method |-> a.method, pattern |-> a.pattern, target |-> a.target, call |-> CallOf(a.target)] :
     a \in Additions}

TypeOK ==
  /\ routes \in Seq(Routes)
  /\ actions \in [{"mismatch", "unmatched"} -> {"Return4xxResponse", "Passthrough"}]
  /\ acceptMethodParam \in BOOLEAN
  /\ dead \subseteq {a.target : a \in Additions}
  /\ request \in Incoming \cup {NoRequest}
  /\ outcome.route \in 0 .. Len(routes)
  /\ request = NoRequest => outcome = NotHandled

\* No literal is a dot, which matches everything, no name is used twice, and all :names
\* come before all *names, whose captures would be taken for each other's otherwise.
Readable(pattern) ==
  /\ \A i \in DOMAIN pattern : pattern[i].kind = "literal" => pattern[i].is # <<".">>
  /\ \A i, j \in DOMAIN pattern :
       pattern[i].kind # "literal" /\ pattern[j].kind # "literal" /\ i # j =>
         /\ ~SameWord(pattern[i].is, pattern[j].is)
         /\ i < j => ~(pattern[i].kind = "splat" /\ pattern[j].kind = "param")

AllReadable == \A a \in Additions : Readable(a.pattern)

\* Whoever gets a request by a pattern finds under the pattern's names what makes the
\* path out of the pattern again, but for a line feed at its end, whatever parameters of
\* these names the query has (pathToRegExp() numbers the names, setRequestParam() sets
\* them one by one).
NamedPartsMakeThePath ==
  outcome.route # 0 =>
    LET pattern == routes[outcome.route].pattern
        made == FlattenSeq([i \in DOMAIN pattern |->
                   IF pattern[i].kind = "literal" THEN pattern[i].is
                   ELSE ParamValue(params, pattern[i].is)])
    IN \E rest \in Trailing : RequestPath(request) = made \o rest

\* A request that is refused, or left to others, has no route; the methods a refusal
\* names are those with which its path would have one, in the order of the routes, and
\* 404 says there are none (the loop and the two error actions of handleRequest()).
RefusedForTheReasonGiven ==
  request # NoRequest /\ outcome.route = 0 =>
    LET methods == {i.method : i \in Incoming} \cup {a.method : a \in Additions}
        wouldDo(m) == \E i \in DOMAIN routes :
                        /\ HasMatch(routes[i].pattern, RequestPath(request))
                        /\ Accepts(routes[i], m)
        named(m) == \E i \in DOMAIN outcome.allow : SameWord(outcome.allow[i], m)
    IN /\ ~wouldDo(RequestMethod(request))
       /\ outcome.status = 405 => \A m \in methods : named(m) <=> wouldDo(m)
       /\ outcome.status = 404 => \A m \in methods : ~wouldDo(m)
       /\ outcome.status # 0 <=> outcome.returned
================================================================================
