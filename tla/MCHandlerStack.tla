----------------------------- MODULE MCHandlerStack -----------------------------
(***************************************************************************)
(* HandlerStack on small pipelines for TLC.                                *)
(***************************************************************************)
EXTENDS HandlerStackInvariant

To(to, size, variant) ==
  [to |-> to, head |-> FALSE, keep |-> TRUE, http11 |-> TRUE,
   size |-> size, variant |-> variant]
HeadOf(r) == [r EXCEPT !.head = TRUE]
Final(r) == [r EXCEPT !.keep = FALSE]
Http10(r) == [r EXCEPT !.keep = FALSE, !.http11 = FALSE]

Large == To("file", 5, "plain")
Small == To("file", 2, "plain")

MCPipelines == {
  <<Large, To("fixed", 1, ""), Large>>,
  <<To("function", 2, ""), Large, Final(Small)>>,
  <<To("file", 0, "missing"), To("file", 0, "unmodified"), To("file", 0, "unreadable")>>,
  <<To("proxy", 3, "length"), To("proxy", 0, "length"), Final(Large)>>,
  <<To("proxy", 2, "chunked"), Large>>,
  <<To("proxy", 2, "not found"), To("function", 1, "")>>,
  <<Large, Http10(To("proxy", 2, "chunked"))>>,
  <<To("proxy", 0, "not found"), HeadOf(To("proxy", 2, "length"))>>,
  <<HeadOf(To("proxy", 2, "length")), Large>>,
  <<Large, HeadOf(To("proxy", 2, "chunked")), To("function", 1, "")>>,
  <<To("function", 0, ""), HeadOf(To("fixed", 1, ""))>> }

\* A large file is asked for by HEAD, and then by GET.
HeadPipelines == {<<HeadOf(Large), Large>>}

Shrinks == {-1}
================================================================================
