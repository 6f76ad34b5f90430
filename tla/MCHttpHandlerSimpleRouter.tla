------------------------ MODULE MCHttpHandlerSimpleRouter ------------------------
(***************************************************************************)
(* HttpHandlerSimpleRouter with some routes and requests for TLC.          *)
(***************************************************************************)
EXTENDS HttpHandlerSimpleRouter

\* Letters, digits and one word
Words == Hexadecimals \cup {"g", "id"}

Id == <<"id">>
Slash == Lit("/")

Target(name, kind, member, status) ==
  [name |-> name, kind |-> kind, member |-> member, status |-> status]

Addition(method, pattern, target) == [method |-> method, pattern |-> pattern, target |-> target]

SomeRoutes ==
  {Addition(<<"GET">>, <<Slash, Param(Id)>>, Target("h", "handler", "none", 0)),
   Addition(<<"put">>, <<Slash, Param(Id), Slash, Splat(<<"b">>)>>, Target("o", "object", "slot", 0)),
   Addition(<<"put">>, <<Slash, Param(<<"b">>), Lit("-"), Param(Id)>>, Target("p", "object", "name", 0)),
   Addition(<<"GET">>, <<Slash, Lit("a"), Slash, Splat(Id)>>, Target("q", "object", "signature", 0)),
   Addition(<<>>, <<Slash, Lit("a"), Lit("a"), Lit("b")>>, Target("s", "static", "none", 200)),
   Addition(<<"GET">>, <<Splat(<<"b">>), Slash>>, Target("f", "function", "none", 0)),
   Addition(<<>>, <<Slash>>, Target("n", "object", "none", 0))}

Get(path, query) == [method |-> <<"get">>, path |-> path, query |-> query]
Put(path, query) == [method |-> <<"put">>, path |-> path, query |-> query]

SomeRequests ==
  {Get(<<"/", "a">>, <<"ID", "=", "1">>),
   Get(<<"/", "a", "a", "b">>, <<"_method", "=", "put", "&", "id">>),
   Get(<<"/", "a", "%", "2", "f", "b">>, <<"&", "id", "=", "%", "2", "f", "&", "_method", "=", "del">>),
   Get(<<"/", "a", "/", "b", "/">>, <<>>),
   Put(<<"/", "a", "-", "b", "-", "a">>, <<"b", "=", "a", "=", "b", "&", "_method", "=">>),
   Get(<<"/", "a", "%", "0", "a">>, <<>>),
   Get(<<"/", "%", "0", "a", "/">>, <<"id", "=", "1">>),
   Put(<<"/", "a", "/", "b">>, <<>>),
   Put(<<"/", "-", "/">>, <<"_method", "=", "GET">>)}
================================================================================
