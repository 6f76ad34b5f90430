---------------------------- MODULE HttpClientProofs ----------------------------
(***************************************************************************)
(* Proofs about HttpClient, for any servers, any number of requests and any *)
(* sizes of buffers.                                                        *)
(***************************************************************************)
EXTENDS HttpClient, SequenceTheorems, TLAPS

(***************************************************************************)
(* Sequences.                                                              *)
(***************************************************************************)

\* One sequence after another.
LEMMA Joined ==
  ASSUME NEW S, NEW s \in Seq(S), NEW t \in Seq(S), NEW u, u = s \o t
  PROVE  /\ u \in Seq(S) /\ Len(u) = Len(s) + Len(t)
         /\ Len(s) \in Nat /\ Len(t) \in Nat
         /\ \A i \in 1 .. Len(s) : u[i] = s[i]
         /\ \A i \in 1 .. Len(t) : u[Len(s) + i] = t[i]
         /\ \A i \in 1 .. Len(u) :
              \/ i \in 1 .. Len(s) /\ u[i] = s[i]
              \/ i - Len(s) \in 1 .. Len(t) /\ u[i] = t[i - Len(s)]
  OBVIOUS

(***************************************************************************)
(* What servers send.                                                      *)
(***************************************************************************)

\* A unit, n times.
LEMMA TimesOne ==
  ASSUME NEW S, NEW k \in S, NEW n \in Nat
  PROVE  /\ Times(n, <<k>>) \in Seq(S)
         /\ Len(Times(n, <<k>>)) = n
         /\ \A i \in 1 .. n : Times(n, <<k>>)[i] = k
<1>1. Len(<<k>>) = 1 /\ n * 1 = n
  OBVIOUS
<1>2. \A i \in 1 .. n : ((i - 1) % 1) + 1 = 1
  OBVIOUS
<1>3. Times(n, <<k>>) = [i \in 1 .. n |-> k]
  BY <1>1, <1>2 DEF Times
<1>4. QED
  BY <1>3

\* A sequence is a function on the numbers up to its length.
LEMMA FunctionSeq ==
  ASSUME NEW S, NEW n \in Nat, NEW f \in [1 .. n -> S]
  PROVE  f \in Seq(S) /\ Len(f) = n
  OBVIOUS

\* Two units, n times.
LEMMA TimesTwo ==
  ASSUME NEW S, NEW k \in S, NEW l \in S, NEW n \in Nat
  PROVE  /\ Times(n, <<k, l>>) \in Seq(S)
         /\ Len(Times(n, <<k, l>>)) \in Nat
         /\ n = 0 => Len(Times(n, <<k, l>>)) = 0
         /\ n = 1 => Len(Times(n, <<k, l>>)) = 2
         /\ \A i \in 1 .. Len(Times(n, <<k, l>>)) : Times(n, <<k, l>>)[i] \in {k, l}
         /\ n > 0 => Times(n, <<k, l>>)[1] = k /\ Times(n, <<k, l>>)[2] = l
<1>1. Len(<<k, l>>) = 2 /\ n * 2 \in Nat
  OBVIOUS
<1>2. \A i \in 1 .. n * 2 : ((i - 1) % 2) + 1 \in {1, 2}
  OBVIOUS
<1>3. Times(n, <<k, l>>) = [i \in 1 .. n * 2 |-> <<k, l>>[((i - 1) % 2) + 1]]
  BY <1>1 DEF Times
<1>4. \A i \in 1 .. n * 2 : <<k, l>>[((i - 1) % 2) + 1] \in {k, l}
  BY <1>2
<1>5. /\ Times(n, <<k, l>>) \in Seq(S)
      /\ Len(Times(n, <<k, l>>)) = n * 2
      /\ \A i \in 1 .. n * 2 : Times(n, <<k, l>>)[i] \in {k, l}
  <2> DEFINE m == n * 2
             e(i) == <<k, l>>[((i - 1) % 2) + 1]
             f == Times(n, <<k, l>>)
  <2>1. m \in Nat /\ f = [i \in 1 .. m |-> e(i)]
    BY <1>1, <1>3
  <2>2. \A i \in 1 .. m : e(i) \in {k, l}
    BY <1>4
  <2> HIDE DEF m, e, f
  <2>3. f \in [1 .. m -> S] /\ \A i \in 1 .. m : f[i] \in {k, l}
    BY <2>1, <2>2
  <2>4. f \in Seq(S) /\ Len(f) = m
    BY <2>1, <2>3, FunctionSeq
  <2>5. QED
    BY <2>3, <2>4 DEF m, f
<1>6. n > 0 => Times(n, <<k, l>>)[1] = k /\ Times(n, <<k, l>>)[2] = l
  <2>1. (1 - 1) % 2 = 0 /\ (2 - 1) % 2 = 1
    OBVIOUS
  <2>2. n > 0 => 1 \in 1 .. n * 2 /\ 2 \in 1 .. n * 2
    OBVIOUS
  <2>3. QED
    BY <1>3, <2>1, <2>2
<1>7. (n = 0 => n * 2 = 0) /\ (n = 1 => n * 2 = 2)
  OBVIOUS
<1>8. QED
  BY <1>1, <1>5, <1>6, <1>7

LEMMA AnswerFields ==
  ASSUME NEW a \in Answer
  PROVE  /\ a.interim \in Nat /\ a.headers \in Nat /\ a.gzip \in BOOLEAN
         /\ a.keepAlive \in BOOLEAN /\ a.framing \in {"length", "chunked", "eof"}
         /\ a.body \in Nat /\ a.bad \in BOOLEAN
  BY DEF Answer

Completing == {"endEmpty", "last", "bodyLast"}

\* Content ends with what completes it, unless the connection does.
LEMMA ContentGrammar ==
  ASSUME NEW a \in Answer, ~(a.framing = "length" /\ a.body = 0),
         NEW c, c = ContentKinds(a)
  PROVE  /\ c \in Seq(UnitKinds)
         /\ \A i \in 1 .. Len(c) :
              /\ c[i] \in {"frame", "body", "last", "bodyLast"}
              /\ c[i] \in Completing => i = Len(c)
         /\ a.framing # "eof" => Len(c) >= 1 /\ c[Len(c)] \in Completing
<1>1. a.body \in Nat /\ a.framing \in {"length", "chunked", "eof"}
  BY AnswerFields
<1>2. {"frame", "body", "last", "bodyLast"} \subseteq UnitKinds
  BY DEF UnitKinds
<1>3. CASE a.framing = "eof"
  <2> DEFINE t == Times(a.body, <<"body">>)
  <2>1. c = t
    BY <1>3 DEF ContentKinds
  <2>2. /\ t \in Seq(UnitKinds) /\ Len(t) = a.body
        /\ \A i \in 1 .. a.body : t[i] = "body"
    BY <1>1, <1>2, TimesOne
  <2> HIDE DEF t
  <2>3. QED
    BY <1>3, <2>1, <2>2 DEF Completing
<1>4. ASSUME NEW t \in Seq(UnitKinds), NEW k \in {"last", "bodyLast"},
             \A i \in 1 .. Len(t) : t[i] \in {"frame", "body"},
             c = t \o <<k>>
      PROVE  /\ c \in Seq(UnitKinds)
             /\ \A i \in 1 .. Len(c) :
                  /\ c[i] \in {"frame", "body", "last", "bodyLast"}
                  /\ c[i] \in Completing => i = Len(c)
             /\ Len(c) >= 1 /\ c[Len(c)] \in Completing
  <2>1. <<k>> \in Seq(UnitKinds) /\ Len(<<k>>) = 1 /\ <<k>>[1] = k
    BY <1>2
  <2>2. /\ c \in Seq(UnitKinds) /\ Len(c) = Len(t) + 1
        /\ Len(t) \in Nat
        /\ \A i \in 1 .. Len(t) + 1 :
             c[i] = IF i <= Len(t) THEN t[i] ELSE <<k>>[i - Len(t)]
    BY <1>4, <2>1, ConcatProperties
  <2>3. c[Len(t) + 1] = k
    BY <2>1, <2>2
  <2>4. \A i \in 1 .. Len(t) : c[i] \in {"frame", "body"}
    BY <1>4, <2>2
  <2>5. \A i \in 1 .. Len(c) : i \in 1 .. Len(t) \/ i = Len(t) + 1
    BY <2>2
  <2>6. QED
    BY <2>2, <2>3, <2>4, <2>5 DEF Completing
<1>5. CASE a.framing = "chunked"
  <2> DEFINE t == Times(a.body, <<"frame", "body">>)
  <2>1. c = t \o <<"last">>
    BY <1>5 DEF ContentKinds
  <2>2. /\ t \in Seq(UnitKinds)
        /\ \A i \in 1 .. Len(t) : t[i] \in {"frame", "body"}
    <3>1. "frame" \in UnitKinds /\ "body" \in UnitKinds
      BY DEF UnitKinds
    <3>2. QED
      BY <1>1, <3>1, TimesTwo
  <2> HIDE DEF t
  <2>3. QED
    BY <1>4, <2>1, <2>2
<1>6. CASE a.framing = "length" /\ a.body > 0
  <2> DEFINE t == Times(a.body - 1, <<"body">>)
  <2>1. c = t \o <<"bodyLast">>
    BY <1>6 DEF ContentKinds
  <2>2. a.body - 1 \in Nat
    BY <1>1, <1>6
  <2>3. /\ t \in Seq(UnitKinds) /\ Len(t) = a.body - 1
        /\ \A i \in 1 .. a.body - 1 : t[i] = "body"
    <3> DEFINE n == a.body - 1
    <3>1. n \in Nat /\ "body" \in UnitKinds /\ t = Times(n, <<"body">>)
      BY <1>2, <2>2
    <3> HIDE DEF n, t
    <3>2. /\ t \in Seq(UnitKinds) /\ Len(t) = n
          /\ \A i \in 1 .. n : t[i] = "body"
      BY <3>1, TimesOne
    <3>3. QED
      BY <3>2 DEF n
  <2> HIDE DEF t
  <2>4. QED
    BY <1>4, <2>1, <2>3
<1>7. QED
  BY <1>1, <1>3, <1>5, <1>6

\* What follows the header fields.
Rest(a, head) ==
  IF a.bad THEN <<"bad">>
  ELSE IF a.framing = "length" /\ a.body = 0 THEN <<"endEmpty">>
  ELSE IF head THEN <<"end">>
  ELSE <<"end">> \o ContentKinds(a)

Ends(a, head) ==
  Completing \cup {"bad"} \cup IF head THEN {"end"} ELSE {}

LEMMA RestGrammar ==
  ASSUME NEW a \in Answer, NEW head \in BOOLEAN, NEW t, t = Rest(a, head)
  PROVE  /\ t \in Seq(UnitKinds) /\ Len(t) \in Nat \ {0}
         /\ \A i \in 1 .. Len(t) :
              /\ t[i] # "continue"
              /\ t[i] \in Completing => i = Len(t)
              /\ t[i] = "end" /\ head => i = Len(t)
         /\ a.framing # "eof" => t[Len(t)] \in Ends(a, head)
<1>1. \A k \in {"bad", "endEmpty", "end"} :
        /\ <<k>> \in Seq(UnitKinds) /\ Len(<<k>>) = 1 /\ <<k>>[1] = k
  BY DEF UnitKinds
<1>2. CASE a.bad
  <2>1. t = <<"bad">>
    BY <1>2 DEF Rest
  <2>2. QED
    BY <1>1, <2>1 DEF Completing, Ends
<1>3. CASE ~a.bad /\ a.framing = "length" /\ a.body = 0
  <2>1. t = <<"endEmpty">>
    BY <1>3 DEF Rest
  <2>2. QED
    BY <1>1, <2>1 DEF Completing, Ends
<1>4. CASE ~a.bad /\ ~(a.framing = "length" /\ a.body = 0) /\ head
  <2>1. t = <<"end">>
    BY <1>4 DEF Rest
  <2>2. t \in Seq(UnitKinds) /\ Len(t) = 1 /\ t[1] = "end"
    BY <1>1, <2>1
  <2>3. "end" \notin Completing /\ "end" \in Ends(a, head)
    BY <1>4 DEF Completing, Ends
  <2>4. QED
    BY <2>2, <2>3
<1>5. CASE ~a.bad /\ ~(a.framing = "length" /\ a.body = 0) /\ ~head
  <2> DEFINE e == <<"end">>
             c == ContentKinds(a)
  <2>1. t = e \o c
    BY <1>5 DEF Rest
  <2>2. e \in Seq(UnitKinds) /\ Len(e) = 1 /\ e[1] = "end"
    BY <1>1
  <2>3. /\ c \in Seq(UnitKinds)
        /\ \A i \in 1 .. Len(c) :
             /\ c[i] \in {"frame", "body", "last", "bodyLast"}
             /\ c[i] \in Completing => i = Len(c)
        /\ a.framing # "eof" => Len(c) >= 1 /\ c[Len(c)] \in Completing
    BY <1>5, ContentGrammar
  <2> HIDE DEF e, c
  <2>4. /\ t \in Seq(UnitKinds) /\ Len(t) = Len(e) + Len(c) /\ Len(c) \in Nat
        /\ \A i \in 1 .. Len(e) : t[i] = e[i]
        /\ \A i \in 1 .. Len(t) :
             \/ i \in 1 .. Len(e) /\ t[i] = e[i]
             \/ i - Len(e) \in 1 .. Len(c) /\ t[i] = c[i - Len(e)]
    <3>1. e \in Seq(UnitKinds) /\ c \in Seq(UnitKinds)
      BY <2>2, <2>3
    <3>2. QED
      BY <2>1, <3>1, Joined
  <2>5. t[1] = "end"
    BY <2>2, <2>4
  <2>6. \A i \in 1 .. Len(t) : i # 1 => i - 1 \in 1 .. Len(c) /\ t[i] = c[i - 1]
    BY <2>2, <2>4
  <2>7. "end" \notin Completing
    BY DEF Completing
  <2>8. ASSUME NEW i \in 1 .. Len(t)
        PROVE  /\ t[i] # "continue"
               /\ t[i] \in Completing => i = Len(t)
    <3>1. CASE i = 1
      BY <2>5, <2>7, <3>1
    <3>2. CASE i # 1
      <4>1. i - 1 \in 1 .. Len(c) /\ t[i] = c[i - 1]
        BY <2>6, <3>2
      <4>2. /\ c[i - 1] \in {"frame", "body", "last", "bodyLast"}
            /\ c[i - 1] \in Completing => i - 1 = Len(c)
        BY <2>3, <4>1
      <4>3. i - 1 = Len(c) => i = Len(t)
        BY <2>2, <2>4
      <4>4. QED
        BY <4>1, <4>2, <4>3
    <3>3. QED
      BY <3>1, <3>2
  <2>9. a.framing # "eof" => t[Len(t)] \in Ends(a, head)
    <3>1. a.framing # "eof" => Len(t) \in 1 .. Len(t) /\ Len(t) # 1
      BY <2>2, <2>3, <2>4
    <3>2. a.framing # "eof" => t[Len(t)] = c[Len(c)]
      BY <2>2, <2>4, <2>6, <3>1
    <3>3. QED
      BY <2>3, <3>2 DEF Ends
  <2>10. Len(t) \in Nat \ {0}
    BY <2>2, <2>4
  <2>11. QED
    BY <1>5, <2>4, <2>8, <2>9, <2>10
<1>6. QED
  BY <1>2, <1>3, <1>4, <1>5

\* Nothing follows what completes an answer; it ends so, in an error or, to HEAD,
\* with its head, unless the connection ends it.
LEMMA Grammar ==
  ASSUME NEW a \in Answer, NEW head \in BOOLEAN, NEW k, k = Kinds(a, head)
  PROVE  /\ k \in Seq(UnitKinds) /\ Len(k) \in Nat \ {0}
         /\ \A i \in 1 .. Len(k) :
              /\ k[i] \in Completing => i = Len(k)
              /\ k[i] = "end" /\ head => i = Len(k)
              /\ k[i] = "continue" /\ a.interim <= 1 => i = 2
         /\ a.framing # "eof" => k[Len(k)] \in Ends(a, head)
<1> DEFINE f == Times(a.interim, <<"begin", "continue">>)
           g == <<"begin">>
           h == Times(a.headers, <<"header">>)
           t == Rest(a, head)
<1>1. k = ((f \o g) \o h) \o t
  BY DEF Kinds, Rest
<1>2. a.interim \in Nat /\ a.headers \in Nat
  BY AnswerFields
<1>3. /\ f \in Seq(UnitKinds)
      /\ a.interim = 0 => Len(f) = 0
      /\ a.interim = 1 => Len(f) = 2
      /\ \A i \in 1 .. Len(f) : f[i] \in {"begin", "continue"}
      /\ a.interim > 0 => f[1] = "begin" /\ f[2] = "continue"
  <2>1. "begin" \in UnitKinds /\ "continue" \in UnitKinds
    BY DEF UnitKinds
  <2>2. QED
    BY <1>2, <2>1, TimesTwo
<1>4. /\ g \in Seq(UnitKinds) /\ Len(g) = 1 /\ g[1] = "begin"
  BY DEF UnitKinds
<1>5. /\ h \in Seq(UnitKinds) /\ Len(h) = a.headers
      /\ \A i \in 1 .. a.headers : h[i] = "header"
  BY <1>2, TimesOne DEF UnitKinds
<1>6. /\ t \in Seq(UnitKinds) /\ Len(t) \in Nat \ {0}
      /\ \A i \in 1 .. Len(t) :
           /\ t[i] # "continue"
           /\ t[i] \in Completing => i = Len(t)
           /\ t[i] = "end" /\ head => i = Len(t)
      /\ a.framing # "eof" => t[Len(t)] \in Ends(a, head)
  BY RestGrammar
<1> HIDE DEF f, g, h, t
<1> DEFINE fg == f \o g
           u == fg \o h
<1>7. /\ fg \in Seq(UnitKinds) /\ Len(fg) = Len(f) + Len(g) /\ Len(f) \in Nat
      /\ \A i \in 1 .. Len(fg) :
           \/ i \in 1 .. Len(f) /\ fg[i] = f[i]
           \/ i - Len(f) \in 1 .. Len(g) /\ fg[i] = g[i - Len(f)]
  <2>1. f \in Seq(UnitKinds) /\ g \in Seq(UnitKinds)
    BY <1>3, <1>4
  <2>2. QED
    BY <2>1, Joined
<1>8. ASSUME NEW i \in 1 .. Len(fg)
      PROVE  /\ fg[i] \in {"begin", "continue", "header"}
             /\ fg[i] = "continue" /\ a.interim <= 1 => i = 2
  <2>1. CASE i - Len(f) \in 1 .. Len(g) /\ fg[i] = g[i - Len(f)]
    BY <1>4, <1>7, <2>1
  <2>2. CASE i \in 1 .. Len(f) /\ fg[i] = f[i]
    <3>1. f[i] \in {"begin", "continue"}
      BY <1>3, <2>2
    <3>2. ASSUME f[i] = "continue", a.interim <= 1
          PROVE  i = 2
      <4>1. a.interim # 0
        BY <1>3, <2>2
      <4>2. a.interim = 1 /\ Len(f) = 2 /\ i \in {1, 2}
        BY <1>2, <1>3, <2>2, <3>2, <4>1
      <4>3. f[1] # f[i]
        BY <1>3, <3>2, <4>2
      <4>4. QED
        BY <4>2, <4>3
    <3>3. QED
      BY <2>2, <3>1, <3>2
  <2>3. QED
    BY <1>7, <2>1, <2>2
<1> HIDE DEF fg
<1>9. /\ u \in Seq(UnitKinds) /\ Len(u) \in Nat
      /\ \A i \in 1 .. Len(u) :
           \/ i \in 1 .. Len(fg) /\ u[i] = fg[i]
           \/ i - Len(fg) \in 1 .. Len(h) /\ u[i] = h[i - Len(fg)]
  <2>1. fg \in Seq(UnitKinds) /\ h \in Seq(UnitKinds)
    BY <1>5, <1>7
  <2>2. QED
    BY <2>1, Joined
<1>10. ASSUME NEW i \in 1 .. Len(u)
       PROVE  /\ u[i] \in {"begin", "continue", "header"}
              /\ u[i] = "continue" /\ a.interim <= 1 => i = 2
  <2>1. CASE i \in 1 .. Len(fg) /\ u[i] = fg[i]
    BY <1>8, <2>1
  <2>2. CASE i - Len(fg) \in 1 .. Len(h) /\ u[i] = h[i - Len(fg)]
    BY <1>5, <2>2
  <2>3. QED
    BY <1>9, <2>1, <2>2
<1>11. /\ k \in Seq(UnitKinds) /\ Len(k) = Len(u) + Len(t)
       /\ Len(u) \in Nat
       /\ \A i \in 1 .. Len(t) : k[Len(u) + i] = t[i]
       /\ \A i \in 1 .. Len(k) :
            \/ i \in 1 .. Len(u) /\ k[i] = u[i]
            \/ i - Len(u) \in 1 .. Len(t) /\ k[i] = t[i - Len(u)]
  <2>1. k = u \o t
    BY <1>1 DEF fg
  <2> HIDE DEF u
  <2>2. u \in Seq(UnitKinds) /\ t \in Seq(UnitKinds)
    BY <1>6, <1>9
  <2>3. QED
    BY <2>1, <2>2, Joined
<1> HIDE DEF u
<1>12. ASSUME NEW i \in 1 .. Len(k)
       PROVE  /\ k[i] \in Completing => i = Len(k)
              /\ k[i] = "end" /\ head => i = Len(k)
              /\ k[i] = "continue" /\ a.interim <= 1 => i = 2
  <2>1. CASE i \in 1 .. Len(u) /\ k[i] = u[i]
    BY <1>10, <2>1 DEF Completing
  <2>2. CASE i - Len(u) \in 1 .. Len(t) /\ k[i] = t[i - Len(u)]
    <3>1. i - Len(u) = Len(t) => i = Len(k)
      BY <1>6, <1>11
    <3>2. QED
      BY <1>6, <2>2, <3>1
  <2>3. QED
    BY <1>11, <2>1, <2>2
<1>13. k[Len(k)] = t[Len(t)] /\ Len(k) \in Nat \ {0}
  <2>1. Len(t) \in 1 .. Len(t)
    BY <1>6
  <2>2. QED
    BY <1>6, <1>11, <2>1
<1>14. QED
  BY <1>6, <1>11, <1>12, <1>13

LEMMA UnitsOf ==
  ASSUME NEW r \in Requests, NEW a \in Answer, NEW head \in BOOLEAN
  PROVE  /\ Units(r, a, head) \in Seq(Unit)
         /\ Len(Units(r, a, head)) \in Nat \ {0}
         /\ Len(Units(r, a, head)) = Len(Kinds(a, head))
         /\ \A i \in 1 .. Len(Kinds(a, head)) :
              /\ Units(r, a, head)[i].of = r
              /\ Units(r, a, head)[i].kind = Kinds(a, head)[i]
<1> DEFINE k == Kinds(a, head)
           u == Units(r, a, head)
<1>1. k \in Seq(UnitKinds) /\ Len(k) \in Nat \ {0}
  BY Grammar
<1>2. u = [i \in 1 .. Len(k) |-> [of |-> r, kind |-> k[i]]]
  BY DEF Units
<1> HIDE DEF k, u
<1>3. \A i \in 1 .. Len(k) : k[i] \in UnitKinds
  BY <1>1
<1>4. u \in [1 .. Len(k) -> Unit]
  BY <1>2, <1>3 DEF Unit
<1>5. u \in Seq(Unit) /\ Len(u) = Len(k)
  BY <1>1, <1>4, FunctionSeq
<1>6. \A i \in 1 .. Len(k) : u[i].of = r /\ u[i].kind = k[i]
  BY <1>2
<1>7. QED
  BY <1>1, <1>5, <1>6 DEF k, u

(***************************************************************************)
(* More about sequences.                                                   *)
(***************************************************************************)

\* The first n elements, and the others.
LEMMA Split ==
  ASSUME NEW S, NEW s \in Seq(S), NEW n \in 0 .. Len(s)
  PROVE  /\ Len(s) \in Nat
         /\ SubSeq(s, 1, n) \in Seq(S) /\ Len(SubSeq(s, 1, n)) = n
         /\ \A i \in 1 .. n : SubSeq(s, 1, n)[i] = s[i]
         /\ SubSeq(s, n + 1, Len(s)) \in Seq(S)
         /\ Len(SubSeq(s, n + 1, Len(s))) = Len(s) - n
         /\ \A i \in 1 .. Len(s) - n : SubSeq(s, n + 1, Len(s))[i] = s[n + i]
  OBVIOUS

\* A sequence without elements.
LEMMA NoElements ==
  ASSUME NEW S, NEW s \in Seq(S)
  PROVE  /\ Len(s) \in Nat
         /\ s = <<>> <=> Len(s) = 0
         /\ s # <<>> => Len(s) \in Nat \ {0} /\ Head(s) = s[1] /\ s[1] \in S
  OBVIOUS

\* Putting an element in front.
LEMMA AddedFirst ==
  ASSUME NEW S, NEW s \in Seq(S), NEW x \in S
  PROVE  /\ <<x>> \o s \in Seq(S)
         /\ Len(<<x>> \o s) = Len(s) + 1
         /\ Len(s) \in Nat
         /\ (<<x>> \o s)[1] = x
         /\ \A j \in 1 .. Len(s) : (<<x>> \o s)[j + 1] = s[j]
         /\ \A j \in 1 .. Len(s) + 1 :
              j # 1 => j - 1 \in 1 .. Len(s) /\ (<<x>> \o s)[j] = s[j - 1]
  OBVIOUS

\* Dropping the first element.
LEMMA FirstGone ==
  ASSUME NEW S, NEW s \in Seq(S), s # <<>>
  PROVE  /\ Tail(s) \in Seq(S)
         /\ Len(Tail(s)) = Len(s) - 1
         /\ Len(s) \in Nat \ {0}
         /\ Head(s) = s[1] /\ s[1] \in S
         /\ \A j \in 1 .. Len(s) - 1 : Tail(s)[j] = s[j + 1]
  OBVIOUS

(***************************************************************************)
(* What runs.                                                              *)
(***************************************************************************)

\* IsParsing, StackShape and what keeps the buffer, of a stack f.
Parses(f) == \E i \in 1 .. Len(f) : f[i] \in Parsing

Shape(f, waiting) ==
  \A i \in 1 .. Len(f) :
    /\ f[i] \in Parsing \cup {"rejecting"} => i = Len(f)
    /\ f[i] \in {"headersCompleted", "contentReadyRead"} =>
         i + 1 = Len(f) /\ f[i + 1] \in Parsing
    /\ f[i] = "finished" /\ Parses(f) => ~waiting

InReadyRead(f) == \E i \in 1 .. Len(f) : f[i] # "finished"

LEMMA StackNow ==
  /\ IsParsing <=> Parses(stack)
  /\ StackShape <=> Shape(stack, pending)
  BY DEF IsParsing, StackShape, Parses, Shape

LEMMA StackThen ==
  /\ IsParsing' <=> Parses(stack')
  /\ StackShape' <=> Shape(stack', pending')
  BY DEF IsParsing, StackShape, Parses, Shape

LEMMA TopNow ==
  ASSUME stack \in Seq(Frames)
  PROVE  /\ EventLoop <=> stack = <<>>
         /\ stack # <<>> => Top = Head(stack) /\ Top = stack[1]
         /\ Top # "eventLoop" => stack # <<>>
<1>1. "eventLoop" \notin Frames
  BY DEF Frames, Signals, Parsing
<1>2. stack # <<>> => Head(stack) = stack[1] /\ stack[1] \in Frames
  BY NoElements
<1>3. QED
  BY <1>1, <1>2 DEF EventLoop, Top

\* Nothing runs.
LEMMA Idle ==
  ASSUME NEW waiting
  PROVE  Shape(<<>>, waiting) /\ ~Parses(<<>>) /\ ~InReadyRead(<<>>)
  BY DEF Shape, Parses, InReadyRead

\* The parser runs, above nothing.
LEMMA ParserOnly ==
  ASSUME NEW f \in Seq(Frames), NEW waiting, Shape(f, waiting), f # <<>>,
         Head(f) \in Parsing \cup {"rejecting"}
  PROVE  /\ Len(f) = 1 /\ f[1] = Head(f) /\ Tail(f) = <<>>
         /\ Parses(f) <=> Head(f) \in Parsing
         /\ InReadyRead(f)
<1>1. Head(f) = f[1] /\ Len(f) \in Nat \ {0} /\ 1 \in 1 .. Len(f)
  BY NoElements
<1>2. Len(f) = 1
  <2>1. f[1] \in Parsing \cup {"rejecting"} => 1 = Len(f)
    BY <1>1 DEF Shape
  <2>2. QED
    BY <1>1, <2>1
<1>3. Tail(f) = <<>>
  <2>1. Tail(f) \in Seq(Frames) /\ Len(Tail(f)) = 0
    BY <1>2, FirstGone
  <2>2. QED
    BY <2>1, NoElements
<1>4. "finished" \notin Parsing \cup {"rejecting"}
  BY DEF Parsing
<1>5. QED
  BY <1>1, <1>2, <1>3, <1>4 DEF Parses, InReadyRead

LEMMA One ==
  ASSUME NEW x \in Parsing \cup {"rejecting"}, NEW waiting
  PROVE  /\ <<x>> \in Seq(Frames) /\ Shape(<<x>>, waiting)
         /\ Parses(<<x>>) <=> x \in Parsing
         /\ InReadyRead(<<x>>)
<1>1. /\ <<x>> \in Seq(Frames) /\ Len(<<x>>) = 1 /\ <<x>>[1] = x
      /\ x # "finished" /\ x # "headersCompleted" /\ x # "contentReadyRead"
  BY DEF Frames, Parsing
<1>2. QED
  BY <1>1 DEF Shape, Parses, InReadyRead

\* A response has ended.
LEMMA FinishedAbove ==
  ASSUME NEW f \in Seq(Frames), NEW waiting, Shape(f, waiting),
         NEW g, g = <<"finished">> \o f
  PROVE  /\ g \in Seq(Frames) /\ Shape(g, FALSE)
         /\ Parses(g) <=> Parses(f)
         /\ InReadyRead(g) <=> InReadyRead(f)
         /\ g # <<>> /\ g[1] = "finished"
<1>1. /\ g \in Seq(Frames) /\ Len(g) = Len(f) + 1 /\ Len(f) \in Nat
      /\ g[1] = "finished"
      /\ \A j \in 1 .. Len(f) : g[j + 1] = f[j]
      /\ \A j \in 1 .. Len(f) + 1 :
           j # 1 => j - 1 \in 1 .. Len(f) /\ g[j] = f[j - 1]
  BY AddedFirst DEF Frames, Signals
<1>2. \A j \in 1 .. Len(f) : j + 1 \in 1 .. Len(g)
  BY <1>1
<1>3. "finished" \notin Parsing \cup {"rejecting"}
  BY DEF Parsing
<1>4. Parses(g) <=> Parses(f)
  BY <1>1, <1>2, <1>3 DEF Parses
<1>5. InReadyRead(g) <=> InReadyRead(f)
  BY <1>1, <1>2 DEF InReadyRead
<1>6. ASSUME NEW i \in 1 .. Len(g)
      PROVE  /\ g[i] \in Parsing \cup {"rejecting"} => i = Len(g)
             /\ g[i] \in {"headersCompleted", "contentReadyRead"} =>
                  i + 1 = Len(g) /\ g[i + 1] \in Parsing
  <2>1. CASE i = 1
    BY <1>1, <1>3, <2>1
  <2>2. CASE i # 1
    <3>1. i - 1 \in 1 .. Len(f) /\ g[i] = f[i - 1] /\ i \in Nat
      BY <1>1, <2>2
    <3>2. /\ f[i - 1] \in Parsing \cup {"rejecting"} => i - 1 = Len(f)
          /\ f[i - 1] \in {"headersCompleted", "contentReadyRead"} =>
               i - 1 + 1 = Len(f) /\ f[i - 1 + 1] \in Parsing
      BY <3>1 DEF Shape
    <3>3. i \in 1 .. Len(f) => g[i + 1] = f[i]
      BY <1>1
    <3>4. i - 1 + 1 = i
      BY <3>1
    <3>5. QED
      BY <1>1, <3>1, <3>2, <3>3, <3>4
  <2>3. QED
    BY <2>1, <2>2
<1>7. Shape(g, FALSE)
  BY <1>6 DEF Shape
<1>8. g # <<>>
  BY <1>1
<1>9. QED
  BY <1>1, <1>4, <1>5, <1>7, <1>8

\* The parser emits a signal.
LEMMA SignalAbove ==
  ASSUME NEW f \in Seq(Frames), NEW waiting, Shape(f, waiting), f # <<>>,
         Head(f) \in Parsing,
         NEW x \in {"headersCompleted", "contentReadyRead"},
         NEW g, g = <<x>> \o f
  PROVE  /\ g \in Seq(Frames) /\ Shape(g, waiting) /\ Parses(g)
         /\ InReadyRead(g)
         /\ Len(g) = 2 /\ g[1] = x /\ g[2] = f[1] /\ g # <<>>
<1>1. Len(f) = 1 /\ f[1] \in Parsing
  BY ParserOnly
<1>2. x \in Frames /\ x \notin Parsing \cup {"rejecting"} /\ x # "finished"
  BY DEF Frames, Signals, Parsing
<1>3. /\ g \in Seq(Frames) /\ Len(g) = 2 /\ g[1] = x /\ g[2] = f[1] /\ g # <<>>
  BY <1>1, <1>2, AddedFirst
<1>4. \A p \in Parsing : p # "finished" /\ p # "headersCompleted"
                         /\ p # "contentReadyRead"
  BY DEF Parsing
<1>5. \A i \in 1 .. Len(g) : i = 1 \/ i = 2
  BY <1>3
<1>6. Parses(g) /\ InReadyRead(g)
  BY <1>1, <1>2, <1>3 DEF Parses, InReadyRead
<1>7. Shape(g, waiting)
  BY <1>1, <1>2, <1>3, <1>4, <1>5 DEF Shape
<1>8. QED
  BY <1>3, <1>6, <1>7

\* The handlers of a signal have returned.
LEMMA SignalGone ==
  ASSUME NEW f \in Seq(Frames), NEW waiting, Shape(f, waiting), f # <<>>,
         Head(f) \notin Parsing \cup {"rejecting"},
         NEW g, g = Tail(f)
  PROVE  /\ g \in Seq(Frames) /\ Shape(g, waiting)
         /\ Parses(g) <=> Parses(f)
         /\ InReadyRead(f) <=> InReadyRead(g)
         /\ \A j \in 1 .. Len(g) : j + 1 \in 1 .. Len(f) /\ g[j] = f[j + 1]
         /\ Head(f) \in {"headersCompleted", "contentReadyRead"} =>
              Len(g) = 1 /\ g[1] \in Parsing /\ g # <<>> /\ Len(f) = 2
<1>1. /\ g \in Seq(Frames) /\ Len(g) = Len(f) - 1 /\ Len(f) \in Nat \ {0}
      /\ Head(f) = f[1]
      /\ \A j \in 1 .. Len(f) - 1 : g[j] = f[j + 1]
  BY FirstGone
<1>2. \A j \in 1 .. Len(g) : j + 1 \in 1 .. Len(f) /\ g[j] = f[j + 1]
  BY <1>1
<1>3. \A j \in 1 .. Len(f) : j # 1 => j - 1 \in 1 .. Len(g) /\ f[j] = g[j - 1]
  BY <1>1
<1>4. Parses(g) <=> Parses(f)
  BY <1>1, <1>2, <1>3 DEF Parses
<1>5. ASSUME Head(f) \in {"headersCompleted", "contentReadyRead"}
      PROVE  Len(g) = 1 /\ g[1] \in Parsing /\ g # <<>> /\ Len(f) = 2
  <2>1. 1 \in 1 .. Len(f) /\ f[1] \in {"headersCompleted", "contentReadyRead"}
    BY <1>1, <1>5
  <2>2. 1 + 1 = Len(f) /\ f[1 + 1] \in Parsing
    BY <2>1 DEF Shape
  <2>3. Len(f) = 2 /\ 1 + 1 = 2
    BY <2>2
  <2>4. Len(g) = 1 /\ g[1] = f[1 + 1]
    BY <1>1, <2>3
  <2>5. g # <<>>
    <3>1. Len(<<>>) # 1
      OBVIOUS
    <3>2. QED
      BY <2>4, <3>1, Zenon
  <2>6. QED
    BY <2>2, <2>3, <2>4, <2>5
<1>6. InReadyRead(f) <=> InReadyRead(g)
  <2>1. CASE Head(f) \in {"headersCompleted", "contentReadyRead"}
    <3>1. g[1] # "finished" /\ 1 \in 1 .. Len(g)
      BY <1>5, <2>1 DEF Parsing
    <3>2. QED
      BY <1>2, <3>1 DEF InReadyRead
  <2>2. CASE Head(f) \notin {"headersCompleted", "contentReadyRead"}
    <3>1. f[1] \in Frames
      BY <1>1
    <3>2. f[1] = "finished"
      BY <1>1, <2>2, <3>1 DEF Frames, Signals
    <3>3. QED
      BY <1>2, <1>3, <3>2 DEF InReadyRead
  <2>3. QED
    BY <2>1, <2>2
<1>7. ASSUME NEW i \in 1 .. Len(g)
      PROVE  /\ g[i] \in Parsing \cup {"rejecting"} => i = Len(g)
             /\ g[i] \in {"headersCompleted", "contentReadyRead"} =>
                  i + 1 = Len(g) /\ g[i + 1] \in Parsing
             /\ g[i] = "finished" /\ Parses(g) => ~waiting
  <2>1. i + 1 \in 1 .. Len(f) /\ g[i] = f[i + 1] /\ i \in Nat
    BY <1>1, <1>2
  <2>2. /\ f[i + 1] \in Parsing \cup {"rejecting"} => i + 1 = Len(f)
        /\ f[i + 1] \in {"headersCompleted", "contentReadyRead"} =>
             i + 1 + 1 = Len(f) /\ f[i + 1 + 1] \in Parsing
        /\ f[i + 1] = "finished" /\ Parses(f) => ~waiting
    BY <2>1 DEF Shape
  <2>3. i + 1 \in 1 .. Len(g) => g[i + 1] = f[i + 1 + 1]
    BY <1>2
  <2> DEFINE m == Len(f)
             n == Len(g)
  <2>10. m \in Nat /\ n = m - 1 /\ i \in Nat
    BY <1>1, <2>1
  <2> HIDE DEF m, n
  <2>4. i + 1 = Len(f) => i = Len(g)
    <3>1. i + 1 = m => i = n
      BY <2>10
    <3>2. QED
      BY <3>1 DEF m, n
  <2>5. i + 1 + 1 = Len(f) => i + 1 = Len(g) /\ i + 1 \in 1 .. Len(g)
    <3>1. i + 1 + 1 = m => i + 1 = n /\ i + 1 \in 1 .. n
      BY <2>10
    <3>2. QED
      BY <3>1 DEF m, n
  <2>6. f[i + 1] \in {"headersCompleted", "contentReadyRead"} =>
          i + 1 = Len(g) /\ g[i + 1] \in Parsing
    BY <2>2, <2>3, <2>5
  <2>7. f[i + 1] \in Parsing \cup {"rejecting"} => i = Len(g)
    BY <2>2, <2>4
  <2>8. f[i + 1] = "finished" /\ Parses(g) => ~waiting
    BY <1>4, <2>2
  <2>9. QED
    BY <2>1, <2>6, <2>7, <2>8
<1>8. Shape(g, waiting)
  BY <1>7 DEF Shape
<1>9. QED
  BY <1>1, <1>2, <1>4, <1>5, <1>6, <1>8

(***************************************************************************)
(* The room in the buffers.                                                *)
(***************************************************************************)

\* Arithmetic of products, which the solver does not find by itself.
LEMMA ProductIsNat ==
  ASSUME NEW w \in Nat, NEW a \in Nat
  PROVE  w * a \in Nat
OBVIOUS

LEMMA Distributes ==
  ASSUME NEW w \in Int, NEW a \in Int, NEW b \in Int
  PROVE  w * (a + b) = w * a + w * b
OBVIOUS

LEMMA Monotone ==
  ASSUME NEW w \in Nat, NEW a \in Nat, NEW b \in Nat, a <= b
  PROVE  w * a <= w * b
<1>1. w * b = w * a + w * (b - a) /\ b - a \in Nat
  OBVIOUS
<1>2. QED
  BY <1>1, ProductIsNat

LEMMA AtLeast ==
  ASSUME NEW w \in Nat \ {0}, NEW a \in Nat
  PROVE  a <= w * a
<1>1. (w - 1) * a \in Nat
  BY ProductIsNat
<1>2. w * a = (w - 1) * a + a
  OBVIOUS
<1>3. w * a \in Nat
  OBVIOUS
<1>4. QED
  BY <1>1, <1>2, <1>3

\* Whether c and what b becomes are within what r becomes, at a weight of w.
Within(c, w, b, r) == c + w * b <= w * r

\* What is within the room as it is stays so when the rest weighs more.
LEMMA Scaled ==
  ASSUME NEW w \in Nat \ {0}, NEW c \in Nat, NEW b \in Nat, NEW r \in Nat,
         c + b <= r
  PROVE  Within(c, w, b, r)
<1> DEFINE d == r - b
<1>1. d \in Nat /\ c <= d /\ r = b + d
  OBVIOUS
<1> HIDE DEF d
<1>2. w * r = w * b + w * d
  BY <1>1, Distributes
<1>3. d <= w * d
  BY <1>1, AtLeast
<1>4. QED
  BY <1>1, <1>2, <1>3, ProductIsNat DEF Within

\* Less content and less to parse need no more room.
LEMMA WithinLess ==
  ASSUME NEW w \in Nat, NEW c \in Nat, NEW b \in Nat, NEW r \in Nat,
         NEW c2 \in Nat, NEW b2 \in Nat, c2 <= c, b2 <= b, Within(c, w, b, r)
  PROVE  Within(c2, w, b2, r)
<1>1. /\ w * b2 <= w * b
      /\ w * b \in Nat /\ w * b2 \in Nat /\ w * r \in Nat
  BY Monotone, ProductIsNat
<1>2. QED
  BY <1>1 DEF Within

\* n octets of the rest become content, k of them.
LEMMA WithinMoved ==
  ASSUME NEW w \in Nat, NEW c \in Nat, NEW b \in Nat, NEW r \in Nat,
         NEW n \in 0 .. b, NEW k \in Nat, k <= w * n, Within(c, w, b, r)
  PROVE  Within(c + k, w, b - n, r)
<1>1. w * b = w * n + w * (b - n) /\ b - n \in Nat /\ n \in Nat
  OBVIOUS
<1>2. /\ w * b \in Nat /\ w * n \in Nat /\ w * (b - n) \in Nat
      /\ w * r \in Nat
  BY <1>1, ProductIsNat
<1>3. QED
  BY <1>1, <1>2 DEF Within

\* The content alone is within the room.
LEMMA WithinAlone ==
  ASSUME NEW w \in Nat, NEW c \in Nat, NEW b \in Nat, NEW r \in Nat,
         Within(c, w, b, r)
  PROVE  c <= w * r
<1>1. w * b \in Nat /\ w * r \in Nat
  BY ProductIsNat
<1>2. QED
  BY <1>1 DEF Within

\* What is known of the octets parsed, and what one of them may weigh.
ParsedType ==
  [units : Nat, octets : Nat, decoded : BOOLEAN, garbled : BOOLEAN]

WeightOf(p) == IF p.decoded THEN Expansion ELSE 1

LEMMA WeightIsNat ==
  ASSUME NEW p \in ParsedType
  PROVE  /\ WeightOf(p) \in Nat \ {0}
         /\ WeightOf(p) * ReadBufferSize \in Nat
<1>1. WeightOf(p) \in Nat \ {0}
  BY ExpansionAssumption DEF WeightOf
<1>2. QED
  BY <1>1, LimitsAssumption, ProductIsNat

LEMMA Weights ==
  /\ Weight = WeightOf(parsed) /\ Weight' = WeightOf(parsed')
  /\ parsed' = parsed => Weight' = Weight
  /\ parsed'.decoded = parsed.decoded => Weight' = Weight
  BY DEF Weight, WeightOf

\* There is room for what is left to parse.
HasRoom == ReadBufferSize > 0 => Within(content, Weight, Len(buffer), ReadBufferSize)

(***************************************************************************)
(* The inductive invariant: the parser at work.                            *)
(***************************************************************************)

\* The parts of the invariant, in the terms of the lemmas above.
LEMMA InductiveNow ==
  ASSUME ClientInductive
  PROVE  /\ TypeOK /\ Shape(stack, pending)
         /\ IsParsing <=> Parses(stack)
         /\ buffer # <<>> => InReadyRead(stack)
         /\ ParserInStep /\ DeviceInStep /\ RoomLeft
  BY StackNow DEF ClientInductive, DeviceInStep, InReadyRead

\* device_readyRead() has its parser at work, and nothing runs above.
LEMMA WorkNow ==
  ASSUME ClientInductive, Top \in Parsing \cup {"rejecting"}
  PROVE  /\ stack \in Seq(Frames) /\ stack # <<>> /\ Head(stack) = Top
         /\ stack[1] = Top /\ Len(stack) = 1 /\ Tail(stack) = <<>>
         /\ Parses(stack) <=> Top \in Parsing
         /\ IsParsing <=> Top \in Parsing
         /\ InReadyRead(stack)
<1>1. stack \in Seq(Frames) /\ Shape(stack, pending)
  BY InductiveNow DEF TypeOK
<1>2. "eventLoop" \notin Parsing \cup {"rejecting"}
  BY DEF Parsing
<1>3. stack # <<>> /\ Top = Head(stack)
  BY <1>1, <1>2, TopNow
<1>4. QED
  BY <1>1, <1>3, ParserOnly, StackNow

\* The parser runs: a response is pending, on a connection.
LEMMA RunsNow ==
  ASSUME ClientInductive, ParserRuns
  PROVE  /\ Top \in Parsing /\ IsParsing /\ Parses(stack)
         /\ pending /\ device = "connected" /\ request # 0 /\ deferred = 0
         /\ HasRoom
<1>1. Top \in Parsing /\ IsParsing /\ Parses(stack)
  BY WorkNow DEF ParserRuns
<1>2. pending /\ device = "connected" /\ request # 0 /\ deferred = 0
  BY <1>1 DEF ParserRuns, ClientInductive, ParserInStep
<1>3. HasRoom
  BY <1>1, <1>2 DEF ClientInductive, RoomLeft, HasRoom, Within
<1>4. QED
  BY <1>1, <1>2, <1>3

DecoderType == [of : 0 .. MaxRequests, begun : BOOLEAN]

\* Whatever the parser does with the buffer keeps the invariant.
LEMMA AtWork ==
  ASSUME ClientInductive, ParserRuns,
         UNCHANGED <<requestVars, deviceVars, timers, answer, cut, ended>>,
         buffer' \in Seq(Unit), parser' \in Parser,
         parser'.errno = "paused" => parser'.at = "start",
         headers' \subseteq Requests, field' \subseteq Requests,
         wasValue' \in BOOLEAN, content' \in Nat,
         decoder' \in DecoderType, parsed' \in ParsedType,
         stack' \in Seq(Frames), Shape(stack', pending), Parses(stack'),
         InReadyRead(stack'), HasRoom'
  PROVE  ClientInductive'
<1>1. /\ pending /\ device = "connected" /\ request # 0 /\ deferred = 0
  BY RunsNow
<1>2. /\ pending' /\ device' = "connected" /\ request' # 0 /\ deferred' = 0
      /\ pending' = pending /\ inbox' = inbox /\ error' = error
  BY <1>1 DEF requestVars, deviceVars
<1>3. TypeOK'
  BY DEF ClientInductive, TypeOK, requestVars, deviceVars, DecoderType,
         ParsedType
<1>4. IsParsing' /\ StackShape'
  BY <1>2, StackThen
<1>5. ParserInStep'
  BY <1>2, <1>4 DEF ClientInductive, ParserInStep
<1>6. \E i \in 1 .. Len(stack') : stack'[i] # "finished"
  BY DEF InReadyRead
<1>7. DeviceInStep'
  BY <1>2, <1>6 DEF ClientInductive, DeviceInStep
<1>8. RoomLeft'
  <2>1. ReadBufferSize > 0 => Len(inbox') <= ReadBufferSize
    BY <1>2 DEF ClientInductive, RoomLeft
  <2>2. ReadBufferSize > 0 => Within(content', Weight', Len(buffer'), ReadBufferSize)
    BY DEF HasRoom
  <2>3. ReadBufferSize > 0 => content' <= Weight' * ReadBufferSize
    <3>1. Len(buffer') \in Nat
      OBVIOUS
    <3>2. Weight' \in Nat
      BY Weights, WeightIsNat
    <3>3. QED
      BY <2>2, <3>1, <3>2, WithinAlone, LimitsAssumption
  <2>4. QED
    BY <2>1, <2>2, <2>3 DEF RoomLeft, Within
<1>9. QED
  BY <1>3, <1>4, <1>5, <1>7, <1>8 DEF ClientInductive

\* Parsing something else than content needs no more room.
LEMMA RoomKept ==
  ASSUME ClientInductive, ParserRuns, content' \in {0, content},
         buffer' \in Seq(Unit), Len(buffer') <= Len(buffer),
         parsed'.decoded = parsed.decoded
  PROVE  content' \in Nat /\ HasRoom'
<1>1. /\ content \in Nat /\ buffer \in Seq(Unit) /\ parsed \in ParsedType
  BY DEF ClientInductive, TypeOK, ParsedType
<1>2. /\ content' \in Nat /\ content' <= content
      /\ Len(buffer) \in Nat /\ Len(buffer') \in Nat
  BY <1>1
<1>3. Weight' = Weight /\ Weight \in Nat
  BY <1>1, Weights, WeightIsNat
<1>4. ReadBufferSize > 0 => Within(content, Weight, Len(buffer), ReadBufferSize)
  BY RunsNow DEF HasRoom
<1>5. ReadBufferSize > 0 => Within(content', Weight, Len(buffer'), ReadBufferSize)
  BY <1>1, <1>2, <1>3, <1>4, WithinLess, LimitsAssumption
<1>6. HasRoom'
  BY <1>3, <1>5 DEF HasRoom
<1>7. QED
  BY <1>2, <1>6

\* The parser has a unit to take, and taking it leaves the rest.
LEMMA Meets ==
  ASSUME ClientInductive, NEW kinds, ParserMeets(kinds)
  PROVE  /\ ParserRuns /\ parser.errno = "ok"
         /\ Len(buffer) \in Nat \ {0} /\ Head(buffer) = buffer[1]
         /\ buffer[1] \in Unit
         /\ buffer[1].kind \in kinds /\ buffer[1].kind \in Expected
         /\ SubSeq(buffer, 2, Len(buffer)) \in Seq(Unit)
         /\ Len(SubSeq(buffer, 2, Len(buffer))) = Len(buffer) - 1
         /\ \A i \in 1 .. Len(buffer) - 1 :
              SubSeq(buffer, 2, Len(buffer))[i] = buffer[i + 1]
<1>1. ParserRuns /\ buffer # <<>> /\ Head(buffer).kind \in kinds \cap Expected
  BY DEF ParserMeets
<1>2. buffer \in Seq(Unit)
  BY DEF ClientInductive, TypeOK
<1>3. Len(buffer) \in Nat \ {0} /\ Head(buffer) = buffer[1] /\ buffer[1] \in Unit
  BY <1>1, <1>2, NoElements
<1>4. parser.errno = "ok"
  BY <1>1 DEF ParserRuns
<1>5. 1 \in 0 .. Len(buffer) /\ 1 + 1 = 2
  BY <1>3
<1>6. /\ SubSeq(buffer, 1 + 1, Len(buffer)) \in Seq(Unit)
      /\ Len(SubSeq(buffer, 1 + 1, Len(buffer))) = Len(buffer) - 1
      /\ \A i \in 1 .. Len(buffer) - 1 :
           SubSeq(buffer, 1 + 1, Len(buffer))[i] = buffer[1 + i]
  BY <1>2, <1>5, Split
<1>7. \A i \in 1 .. Len(buffer) - 1 :
        SubSeq(buffer, 2, Len(buffer))[i] = buffer[i + 1]
  <2>1. \A i \in Int : i + 1 = 1 + i
    OBVIOUS
  <2>2. QED
    BY <1>5, <1>6, <2>1
<1>8. QED
  BY <1>1, <1>3, <1>4, <1>5, <1>6, <1>7

\* Take(1), for the types and for the room.
LEMMA Taken ==
  ASSUME ClientInductive, NEW kinds, ParserMeets(kinds), Take(1)
  PROVE  /\ buffer' = SubSeq(buffer, 2, Len(buffer))
         /\ buffer' \in Seq(Unit) /\ Len(buffer') = Len(buffer) - 1
         /\ parsed' \in ParsedType
         /\ parsed'.units = parsed.units + 1
         /\ parsed'.decoded = parsed.decoded
         /\ Len(buffer') <= Len(buffer)
<1>1. buffer' = SubSeq(buffer, 2, Len(buffer))
  BY DEF Take
<1>2. parsed' = [parsed EXCEPT !.units = @ + 1] /\ parsed \in ParsedType
  BY DEF Take, ClientInductive, TypeOK, ParsedType
<1>3. parsed.units \in Nat
  BY <1>2 DEF ParsedType
<1>4. /\ parsed' \in ParsedType /\ parsed'.units = parsed.units + 1
      /\ parsed'.decoded = parsed.decoded
  BY <1>2, <1>3 DEF ParsedType
<1>5. QED
  BY <1>1, <1>3, <1>4, Meets

\* ParserAt(at), for the types.
LEMMA Moved ==
  ASSUME ClientInductive,
         NEW at \in {"start", "head", "content", "complete", "continued"},
         ParserAt(at)
  PROVE  parser' \in Parser /\ parser'.at = at /\ parser'.errno = parser.errno
<1>1. parser \in Parser /\ parser' = [parser EXCEPT !.at = at]
  BY DEF ClientInductive, TypeOK, ParserAt
<1>2. QED
  BY <1>1 DEF Parser

\* PushHeader and LastHeader, for the types.
LEMMA Pushed ==
  ASSUME ClientInductive
  PROVE  /\ PushHeader => headers' \subseteq Requests
         /\ LastHeader => /\ headers' \subseteq Requests
                          /\ field' \subseteq Requests
                          /\ wasValue' \in BOOLEAN
  BY DEF ClientInductive, TypeOK, PushHeader, LastHeader

\* Steps that leave the stack alone.
LEMMA MessageBeginKeeps ==
  ASSUME ClientInductive, MessageBegin
  PROVE  ClientInductive'
<1>1. ParserMeets({"begin"}) /\ Take(1) /\ ParserAt("head")
  BY DEF MessageBegin
<1>2. /\ UNCHANGED <<requestVars, deviceVars, timers, answer, cut, ended>>
      /\ headers' = {} /\ content' = 0 /\ wasValue' = FALSE
      /\ field' = field /\ decoder' = decoder /\ stack' = stack
  BY DEF MessageBegin
<1>3. ParserRuns /\ buffer' \in Seq(Unit) /\ parsed' \in ParsedType
      /\ Len(buffer') <= Len(buffer) /\ parsed'.decoded = parsed.decoded
      /\ parser' \in Parser
      /\ parser'.errno # "paused"
  BY <1>1, Meets, Taken, Moved
<1>4. /\ Shape(stack, pending) /\ Parses(stack) /\ InReadyRead(stack)
      /\ stack \in Seq(Frames)
  BY <1>3, InductiveNow, RunsNow, WorkNow
<1>5. /\ field' \subseteq Requests /\ decoder' \in DecoderType
      /\ headers' \subseteq Requests /\ wasValue' \in BOOLEAN
  BY <1>2 DEF ClientInductive, TypeOK, DecoderType
<1>6. content' \in Nat /\ HasRoom'
  BY <1>2, <1>3, RoomKept
<1>7. QED
  BY <1>2, <1>3, <1>4, <1>5, <1>6, AtWork

LEMMA OnHeaderKeeps ==
  ASSUME ClientInductive, OnHeader
  PROVE  ClientInductive'
<1>1. ParserMeets({"header"}) /\ Take(1) /\ PushHeader
  BY DEF OnHeader
<1>2. /\ UNCHANGED <<requestVars, deviceVars, timers, answer, cut, ended>>
      /\ parser' = parser /\ content' = content
      /\ field' = {Head(buffer).of} \cup IF wasValue THEN {} ELSE field
      /\ wasValue' = TRUE /\ decoder' = decoder /\ stack' = stack
  BY DEF OnHeader
<1>3. ParserRuns /\ buffer' \in Seq(Unit) /\ parsed' \in ParsedType
      /\ Len(buffer') <= Len(buffer) /\ parsed'.decoded = parsed.decoded
      /\ parser.errno # "paused"
  BY <1>1, Meets, Taken
<1>4. /\ Shape(stack, pending) /\ Parses(stack) /\ InReadyRead(stack)
      /\ stack \in Seq(Frames)
  BY <1>3, InductiveNow, RunsNow, WorkNow
<1>5. Head(buffer).of \in Requests
  BY <1>1, Meets DEF Unit
<1>6. field' \subseteq Requests
  BY <1>2, <1>5 DEF ClientInductive, TypeOK
<1>7. /\ decoder' \in DecoderType /\ headers' \subseteq Requests
      /\ wasValue' \in BOOLEAN /\ parser' \in Parser
  BY <1>1, <1>2, <1>3, Pushed DEF ClientInductive, TypeOK, DecoderType
<1>8. content' \in Nat /\ HasRoom'
  BY <1>2, <1>3, RoomKept
<1>9. QED
  BY <1>2, <1>3, <1>4, <1>6, <1>7, <1>8, AtWork

LEMMA OnContinueKeeps ==
  ASSUME ClientInductive, OnContinue
  PROVE  ClientInductive'
<1>1. ParserMeets({"continue"}) /\ Take(1) /\ LastHeader /\ ParserAt("continued")
  BY DEF OnContinue
<1>2. /\ UNCHANGED <<requestVars, deviceVars, timers, answer, cut, ended>>
      /\ content' = content /\ decoder' = decoder /\ stack' = stack
  BY DEF OnContinue
<1>3. ParserRuns /\ buffer' \in Seq(Unit) /\ parsed' \in ParsedType
      /\ Len(buffer') <= Len(buffer) /\ parsed'.decoded = parsed.decoded
      /\ parser' \in Parser
      /\ parser'.errno # "paused"
  BY <1>1, Meets, Taken, Moved
<1>4. /\ Shape(stack, pending) /\ Parses(stack) /\ InReadyRead(stack)
      /\ stack \in Seq(Frames)
  BY <1>3, InductiveNow, RunsNow, WorkNow
<1>5. /\ decoder' \in DecoderType /\ headers' \subseteq Requests
      /\ field' \subseteq Requests
      /\ wasValue' \in BOOLEAN
  BY <1>1, <1>2, <1>3, Pushed DEF ClientInductive, TypeOK, DecoderType
<1>6. content' \in Nat /\ HasRoom'
  BY <1>2, <1>3, RoomKept
<1>7. QED
  BY <1>2, <1>3, <1>4, <1>5, <1>6, AtWork

LEMMA ContinueCompleteKeeps ==
  ASSUME ClientInductive, ContinueComplete
  PROVE  ClientInductive'
<1>1. /\ ParserRuns
      /\ UNCHANGED <<requestVars, deviceVars, timers, answer, cut, ended>>
      /\ parser' = [NewParser EXCEPT !.errno = "paused"]
      /\ headers' = {} /\ content' = 0 /\ decoder' = NoDecoder
      /\ buffer' = buffer /\ field' = field /\ wasValue' = wasValue
      /\ stack' = stack /\ parsed' = parsed
  BY DEF ContinueComplete, historyVars
<1>2. /\ Shape(stack, pending) /\ Parses(stack) /\ InReadyRead(stack)
      /\ stack \in Seq(Frames)
  BY <1>1, InductiveNow, RunsNow, WorkNow
<1>3. parser' \in Parser /\ parser'.at = "start"
  BY <1>1 DEF Parser, NewParser
<1>4. decoder' \in DecoderType
  BY <1>1, BoundsAssumption DEF DecoderType, NoDecoder
<1>5. /\ headers' \subseteq Requests /\ field' \subseteq Requests
      /\ wasValue' \in BOOLEAN /\ buffer' \in Seq(Unit) /\ parsed' \in ParsedType
      /\ Len(buffer') <= Len(buffer)
  BY <1>1 DEF ClientInductive, TypeOK, ParsedType
<1>6. content' \in Nat /\ HasRoom'
  BY <1>1, <1>5, RoomKept
<1>7. QED
  BY <1>1, <1>2, <1>3, <1>4, <1>5, <1>6, AtWork

LEMMA OnFramingKeeps ==
  ASSUME ClientInductive, OnFraming
  PROVE  ClientInductive'
<1> DEFINE at == IF Head(buffer).kind = "last" THEN "complete" ELSE "content"
<1>1. ParserMeets({"frame", "last"}) /\ Take(1) /\ ParserAt(at)
  BY DEF OnFraming
<1>2. /\ UNCHANGED <<requestVars, deviceVars, timers, answer, cut, ended>>
      /\ headers' = headers /\ field' = field /\ wasValue' = wasValue
      /\ content' = content /\ decoder' = decoder /\ stack' = stack
  BY DEF OnFraming
<1>3. at \in {"start", "head", "content", "complete", "continued"}
  OBVIOUS
<1> HIDE DEF at
<1>4. ParserRuns /\ buffer' \in Seq(Unit) /\ parsed' \in ParsedType
      /\ Len(buffer') <= Len(buffer) /\ parsed'.decoded = parsed.decoded
      /\ parser' \in Parser
      /\ parser'.errno # "paused"
  BY <1>1, <1>3, Meets, Taken, Moved
<1>5. /\ Shape(stack, pending) /\ Parses(stack) /\ InReadyRead(stack)
      /\ stack \in Seq(Frames)
  BY <1>4, InductiveNow, RunsNow, WorkNow
<1>6. /\ decoder' \in DecoderType /\ headers' \subseteq Requests
      /\ field' \subseteq Requests
      /\ wasValue' \in BOOLEAN
  BY <1>2 DEF ClientInductive, TypeOK, DecoderType
<1>7. content' \in Nat /\ HasRoom'
  BY <1>2, <1>4, RoomKept
<1>8. QED
  BY <1>2, <1>4, <1>5, <1>6, <1>7, AtWork

LEMMA ParserFailsKeeps ==
  ASSUME ClientInductive, ParserFails
  PROVE  ClientInductive'
<1>1. /\ ParserRuns
      /\ UNCHANGED <<requestVars, deviceVars, timers, answer, cut, ended>>
      /\ parser' = [parser EXCEPT !.errno = "failed"]
      /\ headers' = headers /\ content' = content /\ decoder' = decoder
      /\ buffer' = buffer /\ field' = field /\ wasValue' = wasValue
      /\ stack' = stack /\ parsed' = parsed
  BY DEF ParserFails, historyVars
<1>2. /\ Shape(stack, pending) /\ Parses(stack) /\ InReadyRead(stack)
      /\ stack \in Seq(Frames)
  BY <1>1, InductiveNow, RunsNow, WorkNow
<1>3. parser' \in Parser /\ parser'.errno # "paused"
  BY <1>1 DEF ClientInductive, TypeOK, Parser
<1>4. /\ headers' \subseteq Requests /\ field' \subseteq Requests
      /\ wasValue' \in BOOLEAN /\ buffer' \in Seq(Unit) /\ parsed' \in ParsedType
      /\ Len(buffer') <= Len(buffer) /\ decoder' \in DecoderType
  BY <1>1 DEF ClientInductive, TypeOK, ParsedType, DecoderType
<1>5. content' \in Nat /\ HasRoom'
  BY <1>1, <1>4, RoomKept
<1>6. QED
  BY <1>1, <1>2, <1>3, <1>4, <1>5, AtWork

\* Steps that emit a signal.
LEMMA HeadersCompleteKeeps ==
  ASSUME ClientInductive, HeadersComplete
  PROVE  ClientInductive'
<1> DEFINE at == IF Head(buffer).kind = "end" THEN "content" ELSE "complete"
<1>1. /\ ParserMeets({"end", "endEmpty"}) /\ Take(1) /\ LastHeader
      /\ ParserAt(at)
  BY DEF HeadersComplete
<1>2. /\ UNCHANGED <<requestVars, deviceVars, timers, answer, cut, ended>>
      /\ content' = content /\ decoder' = decoder
      /\ stack' = <<"headersCompleted">> \o stack
  BY DEF HeadersComplete
<1>3. at \in {"start", "head", "content", "complete", "continued"}
  OBVIOUS
<1> HIDE DEF at
<1>4. ParserRuns /\ buffer' \in Seq(Unit) /\ parsed' \in ParsedType
      /\ Len(buffer') <= Len(buffer) /\ parsed'.decoded = parsed.decoded
      /\ parser' \in Parser
      /\ parser'.errno # "paused"
  BY <1>1, <1>3, Meets, Taken, Moved
<1>5. /\ Shape(stack', pending) /\ Parses(stack') /\ InReadyRead(stack')
      /\ stack' \in Seq(Frames)
  <2>1. /\ Shape(stack, pending) /\ stack # <<>> /\ Head(stack) \in Parsing
        /\ stack \in Seq(Frames)
    BY <1>4, InductiveNow, RunsNow, WorkNow
  <2>2. "headersCompleted" \in {"headersCompleted", "contentReadyRead"}
    OBVIOUS
  <2>3. QED
    BY <1>2, <2>1, <2>2, SignalAbove
<1>6. /\ decoder' \in DecoderType /\ headers' \subseteq Requests
      /\ field' \subseteq Requests
      /\ wasValue' \in BOOLEAN
  BY <1>1, <1>2, <1>4, Pushed DEF ClientInductive, TypeOK, DecoderType
<1>7. content' \in Nat /\ HasRoom'
  BY <1>2, <1>4, RoomKept
<1>8. QED
  BY <1>2, <1>4, <1>5, <1>6, <1>7, AtWork

\* Content weighs what it was decoded to at most.
LEMMA DecodedWeighs ==
  ASSUME parsed' \in ParsedType,
         parsed'.decoded = (parsed.decoded \/ decoder.of # 0),
         NEW n \in Nat, NEW k \in Decoded(n)
  PROVE  k \in Nat /\ k <= Weight' * n
<1>1. CASE decoder.of = 0
  <2>1. k = n
    BY <1>1 DEF Decoded
  <2> DEFINE w == Weight'
  <2>2. w \in Nat \ {0}
    BY Weights, WeightIsNat
  <2> HIDE DEF w
  <2>3. n <= w * n
    BY <2>2, AtLeast
  <2>4. k \in Nat /\ k <= w * n
    BY <2>1, <2>3
  <2>5. QED
    BY <2>4 DEF w
<1>2. CASE decoder.of # 0
  <2>1. Weight' = Expansion
    BY <1>2, Weights DEF WeightOf
  <2>2. k \in 0 .. Expansion * n /\ Expansion * n \in Nat
    BY <1>2, ExpansionAssumption, ProductIsNat DEF Decoded
  <2>3. QED
    BY <2>1, <2>2
<1>3. QED
  BY <1>1, <1>2

\* Octets that weigh more because they are decoded are within the room, too.
LEMMA HeavierRoom ==
  ASSUME ClientInductive, ParserRuns, parsed' \in ParsedType,
         parsed'.decoded = (parsed.decoded \/ decoder.of # 0),
         ReadBufferSize > 0
  PROVE  Within(content, Weight', Len(buffer), ReadBufferSize)
<1>1. /\ content \in Nat /\ buffer \in Seq(Unit) /\ parsed \in ParsedType
  BY DEF ClientInductive, TypeOK, ParsedType
<1>2. Within(content, Weight, Len(buffer), ReadBufferSize)
  BY RunsNow DEF HasRoom
<1>3. CASE parsed'.decoded = parsed.decoded
  BY <1>2, <1>3, Weights
<1>4. CASE parsed'.decoded # parsed.decoded
  <2>1. Weight = 1
    BY <1>1, <1>4, Weights DEF WeightOf, ParsedType
  <2>2. Len(buffer) \in Nat /\ ReadBufferSize \in Nat
    BY <1>1, LimitsAssumption
  <2>3. content + Len(buffer) <= ReadBufferSize
    BY <1>1, <1>2, <2>1, <2>2 DEF Within
  <2>4. Weight' \in Nat \ {0}
    BY Weights, WeightIsNat
  <2>5. QED
    BY <1>1, <2>2, <2>3, <2>4, Scaled
<1>5. QED
  BY <1>3, <1>4

LEMMA MessageContentKeeps ==
  ASSUME ClientInductive, MessageContent
  PROVE  ClientInductive'
<1>1. /\ ParserMeets({"body", "bodyLast"})
      /\ UNCHANGED <<requestVars, deviceVars, timers, answer, cut, ended>>
      /\ headers' = headers /\ field' = field /\ wasValue' = wasValue
      /\ decoder' = [decoder EXCEPT !.begun = @ \/ decoder.of = request]
      /\ stack' = <<"contentReadyRead">> \o stack
  BY DEF MessageContent
<1>2. PICK n \in 1 .. Len(buffer) :
         /\ buffer' = SubSeq(buffer, n + 1, Len(buffer))
         /\ \E garbled \in Garbles :
              parsed' = [units |-> parsed.units + n,
                         octets |-> parsed.octets + n,
                         decoded |-> parsed.decoded \/ decoder.of # 0,
                         garbled |-> parsed.garbled \/ garbled]
         /\ \E k \in Decoded(n) : content' = content + k
         /\ ParserAt(IF buffer[n].kind = "bodyLast" THEN "complete"
                     ELSE "content")
  BY DEF MessageContent
<1> DEFINE at == IF buffer[n].kind = "bodyLast" THEN "complete" ELSE "content"
<1>3. at \in {"start", "head", "content", "complete", "continued"}
  OBVIOUS
<1>4. ParserAt(at)
  BY <1>2
<1> HIDE DEF at
<1>5. parser' \in Parser /\ ParserRuns /\ parser'.errno # "paused"
  BY <1>1, <1>3, <1>4, Moved, Meets
<1>6. /\ buffer \in Seq(Unit) /\ content \in Nat /\ parsed \in ParsedType
      /\ decoder \in DecoderType
  BY DEF ClientInductive, TypeOK, ParsedType, DecoderType
<1>7. buffer' \in Seq(Unit) /\ Len(buffer') = Len(buffer) - n
      /\ Len(buffer) \in Nat
  <2>1. n \in 0 .. Len(buffer)
    BY <1>6
  <2>2. QED
    BY <1>2, <1>6, <2>1, Split
<1>8. /\ parsed' \in ParsedType
      /\ parsed'.decoded = (parsed.decoded \/ decoder.of # 0)
  <2>1. PICK garbled \in Garbles :
          parsed' = [units |-> parsed.units + n,
                     octets |-> parsed.octets + n,
                     decoded |-> parsed.decoded \/ decoder.of # 0,
                     garbled |-> parsed.garbled \/ garbled]
    BY <1>2
  <2>2. parsed.units + n \in Nat /\ parsed.octets + n \in Nat
    BY <1>6, <1>7 DEF ParsedType
  <2>3. /\ (parsed.garbled \/ garbled) \in BOOLEAN
        /\ (parsed.decoded \/ decoder.of # 0) \in BOOLEAN
    OBVIOUS
  <2>4. QED
    BY <2>1, <2>2, <2>3 DEF ParsedType
<1>9. content' \in Nat /\ HasRoom'
  <2>1. PICK k \in Decoded(n) : content' = content + k
    BY <1>2
  <2>2. n \in Nat /\ n \in 0 .. Len(buffer) /\ n <= Len(buffer)
    BY <1>7
  <2>3. k \in Nat /\ k <= Weight' * n
    BY <1>8, <2>1, <2>2, DecodedWeighs
  <2>4. ReadBufferSize > 0 => Within(content, Weight', Len(buffer), ReadBufferSize)
    BY <1>5, <1>6, <1>8, HeavierRoom
  <2>5. Weight' \in Nat
    BY <1>8, Weights, WeightIsNat
  <2>6. ReadBufferSize > 0 =>
          Within(content + k, Weight', Len(buffer) - n, ReadBufferSize)
    BY <1>6, <1>7, <2>2, <2>3, <2>4, <2>5, WithinMoved, LimitsAssumption
  <2>7. HasRoom'
    BY <1>7, <2>1, <2>6 DEF HasRoom
  <2>8. content' \in Nat
    BY <1>6, <2>1, <2>3
  <2>9. QED
    BY <2>7, <2>8
<1>10. /\ Shape(stack', pending) /\ Parses(stack') /\ InReadyRead(stack')
       /\ stack' \in Seq(Frames)
  <2>1. /\ Shape(stack, pending) /\ stack # <<>> /\ Head(stack) \in Parsing
        /\ stack \in Seq(Frames)
    BY <1>5, InductiveNow, RunsNow, WorkNow
  <2>2. "contentReadyRead" \in {"headersCompleted", "contentReadyRead"}
    OBVIOUS
  <2>3. QED
    BY <1>1, <2>1, <2>2, SignalAbove
<1>11. /\ decoder' \in DecoderType /\ headers' \subseteq Requests
       /\ field' \subseteq Requests /\ wasValue' \in BOOLEAN
  BY <1>1, <1>6 DEF ClientInductive, TypeOK, DecoderType
<1>12. QED
  BY <1>1, <1>5, <1>7, <1>8, <1>9, <1>10, <1>11, AtWork

(***************************************************************************)
(* The inductive invariant: signals that were handled, and the ends of     *)
(* responses.                                                              *)
(***************************************************************************)

\* The handlers of a signal return, and nothing else happens.
LEMMA Returned ==
  ASSUME ClientInductive, stack # <<>>, Head(stack) \notin Parsing \cup {"rejecting"},
         stack' = Tail(stack),
         UNCHANGED <<requestVars, deviceVars, buffer, parser, headers, field,
                     wasValue, content, timers, historyVars, ended>>,
         decoder' \in DecoderType
  PROVE  ClientInductive'
<1>1. /\ stack \in Seq(Frames) /\ Shape(stack, pending)
      /\ IsParsing <=> Parses(stack)
      /\ buffer # <<>> => InReadyRead(stack)
  BY InductiveNow DEF TypeOK
<1>2. /\ stack' \in Seq(Frames) /\ Shape(stack', pending)
      /\ Parses(stack') <=> Parses(stack)
      /\ InReadyRead(stack) <=> InReadyRead(stack')
  BY <1>1, SignalGone
<1>3. /\ pending' = pending /\ device' = device /\ request' = request
      /\ deferred' = deferred /\ inbox' = inbox /\ stream' = stream
      /\ error' = error
  BY DEF requestVars, deviceVars
<1>4. (IsParsing' <=> IsParsing) /\ StackShape'
  BY <1>1, <1>2, <1>3, StackThen
<1>5. TypeOK'
  BY <1>2 DEF ClientInductive, TypeOK, requestVars, deviceVars, historyVars,
              DecoderType
<1>6. ParserInStep'
  BY <1>3, <1>4 DEF ClientInductive, ParserInStep
<1>7. buffer' # <<>> => \E i \in 1 .. Len(stack') : stack'[i] # "finished"
  BY <1>1, <1>2 DEF InReadyRead
<1>8. DeviceInStep'
  BY <1>3, <1>7 DEF ClientInductive, DeviceInStep
<1>9. RoomLeft'
  <2>1. Weight' = Weight
    BY Weights DEF historyVars
  <2>2. QED
    BY <1>3, <1>4, <2>1 DEF ClientInductive, RoomLeft
<1>10. QED
  BY <1>4, <1>5, <1>6, <1>8, <1>9 DEF ClientInductive

\* A response ends, in whatever way: finished is emitted in a place of the same
\* kind as what runs, or the device is back in the event loop.
LEMMA Finishing ==
  ASSUME ClientInductive, pending' = FALSE, request # 0,
         UNCHANGED <<asked, request, deferred, buffer, headers, field, wasValue,
                     content, timers, answer>>,
         parser' \in Parser, decoder' \in DecoderType,
         parsed' = parsed, cut' \in BOOLEAN, error' \in Errors,
         IsParsing => parser'.errno # "ok",
         \/ CloseDevice
         \/ device # "connecting" /\ UNCHANGED deviceVars,
         NEW f \in Seq(Frames), NEW waiting, Shape(f, waiting),
         Parses(f) => IsParsing, pending \/ Parses(f),
         buffer # <<>> => InReadyRead(f),
         EmitFinished(f)
  PROVE  ClientInductive'
<1>0. TypeOK
  BY DEF ClientInductive
<1>1. /\ TypeOK /\ request \in Requests /\ pending' \in BOOLEAN
      /\ deferred # 0 => ~pending
  <2>1. request \in 1 .. Len(asked) /\ Len(asked) <= MaxRequests
        /\ Len(asked) \in Nat
    BY <1>0 DEF TypeOK
  <2>2. request \in 1 .. MaxRequests
    BY <2>1, BoundsAssumption
  <2>3. QED
    BY <1>0, <2>2 DEF ClientInductive, ParserInStep, Requests
<1>2. stack' = <<"finished">> \o f /\ ended' = [ended EXCEPT ![request] = @ + 1]
  BY DEF EmitFinished
<1>3. /\ stack' \in Seq(Frames) /\ Shape(stack', FALSE)
      /\ Parses(stack') <=> Parses(f)
      /\ InReadyRead(stack') <=> InReadyRead(f)
  BY <1>2, FinishedAbove
<1>4. IsParsing' => IsParsing
  BY <1>3, StackThen
<1>5. StackShape'
  BY <1>1, <1>3, StackThen
<1>6. /\ device' \in {"unconnected", "connected"}
      /\ device' # "connected" => stream' = <<>> /\ inbox' = <<>>
      /\ inbox' = inbox \/ inbox' = <<>>
      /\ stream' \in Seq(Unit) /\ inbox' \in Seq(Unit)
  <2>1. CASE CloseDevice
    BY <2>1 DEF CloseDevice
  <2>2. CASE device # "connecting" /\ UNCHANGED deviceVars
    BY <1>0, <2>2 DEF ClientInductive, DeviceInStep, TypeOK, deviceVars
  <2>3. QED
    BY <2>1, <2>2
<1>7. ended' \in [Requests -> Nat]
  <2>1. ended \in [Requests -> Nat]
    BY <1>1 DEF TypeOK
  <2>2. ended[request] + 1 \in Nat
    BY <1>1, <2>1
  <2>3. QED
    BY <1>1, <1>2, <2>1, <2>2
<1>8. TypeOK'
  BY <1>0, <1>1, <1>3, <1>6, <1>7 DEF TypeOK, DecoderType
<1>9. ParserInStep'
  <2>1. IsParsing' <=> Parses(f)
    BY <1>3, StackThen
  <2>2. deferred # 0 => Parses(f)
    BY <1>1
  <2>3. QED
    BY <1>4, <2>1, <2>2 DEF ParserInStep
<1>10. buffer' # <<>> => \E i \in 1 .. Len(stack') : stack'[i] # "finished"
  BY <1>3 DEF InReadyRead
<1>11. DeviceInStep'
  BY <1>6, <1>10 DEF ClientInductive, DeviceInStep
<1>12. RoomLeft'
  <2>1. ReadBufferSize > 0 => content' <= Weight' * ReadBufferSize
    BY Weights DEF ClientInductive, RoomLeft
  <2>2. ReadBufferSize > 0 => Len(inbox') <= ReadBufferSize
    <3>1. Len(<<>>) = 0
      OBVIOUS
    <3>2. ReadBufferSize > 0 => Len(inbox) <= ReadBufferSize
      BY DEF ClientInductive, RoomLeft
    <3>3. QED
      BY <1>6, <3>1, <3>2, LimitsAssumption
  <2>3. QED
    BY <1>1, <2>1, <2>2 DEF RoomLeft
<1>13. QED
  BY <1>5, <1>8, <1>9, <1>11, <1>12 DEF ClientInductive

LEMMA ContentHandledKeeps ==
  ASSUME ClientInductive, ContentHandled
  PROVE  ClientInductive'
<1>1. /\ Top = "contentReadyRead" /\ stack' = Tail(stack)
      /\ UNCHANGED <<requestVars, deviceVars, buffer, parser, headers, field,
                     wasValue, content, timers, historyVars, ended>>
      /\ decoder' = decoder
  BY DEF ContentHandled, parserVars
<1>2. stack # <<>> /\ Head(stack) \notin Parsing \cup {"rejecting"}
  BY <1>1, TopNow DEF ClientInductive, TypeOK, Parsing
<1>3. decoder' \in DecoderType
  BY <1>1 DEF ClientInductive, TypeOK, DecoderType
<1>4. QED
  BY <1>1, <1>2, <1>3, Returned

LEMMA FinishedHandledKeeps ==
  ASSUME ClientInductive, FinishedHandled
  PROVE  ClientInductive'
<1>1. /\ Top = "finished" /\ stack' = Tail(stack)
      /\ UNCHANGED <<requestVars, deviceVars, buffer, parser, headers, field,
                     wasValue, content, timers, historyVars, ended>>
      /\ decoder' = decoder
  BY DEF FinishedHandled, parserVars
<1>2. stack # <<>> /\ Head(stack) \notin Parsing \cup {"rejecting"}
  BY <1>1, TopNow DEF ClientInductive, TypeOK, Parsing
<1>3. decoder' \in DecoderType
  BY <1>1 DEF ClientInductive, TypeOK, DecoderType
<1>4. QED
  BY <1>1, <1>2, <1>3, Returned

\* CloseUnlessKept closes the device or leaves it.
LEMMA Closing ==
  ASSUME ClientInductive, CloseUnlessKept, IsParsing
  PROVE  \/ CloseDevice
         \/ device # "connecting" /\ UNCHANGED deviceVars
<1>1. device # "connecting"
  BY DEF ClientInductive, ParserInStep, DeviceInStep
<1>2. QED
  BY <1>1 DEF CloseUnlessKept

LEMMA NothingDecoded == NoDecoder \in DecoderType
  BY BoundsAssumption DEF NoDecoder, DecoderType

LEMMA ResponseCompleteKeeps ==
  ASSUME ClientInductive, ResponseComplete
  PROVE  ClientInductive'
<1>1. /\ ParserRuns /\ MessageComplete(stack)
      /\ UNCHANGED <<asked, request, deferred, buffer, headers, field, wasValue,
                     content, timers, answer>>
      /\ parsed' = parsed /\ cut' = cut /\ error' = error
  BY DEF ResponseComplete, historyVars
<1>2. /\ parser' = [parser EXCEPT !.errno = "paused"] /\ decoder' = NoDecoder
      /\ pending' = FALSE /\ CloseUnlessKept /\ EmitFinished(stack)
  BY <1>1 DEF MessageComplete
<1>3. /\ pending /\ Parses(stack) /\ Top \in Parsing /\ IsParsing
      /\ request # 0
  BY <1>1, RunsNow
<1>4. parser' \in Parser /\ parser'.errno # "ok"
  BY <1>2 DEF ClientInductive, TypeOK, Parser
<1>5. cut' \in BOOLEAN /\ error' \in Errors
  BY <1>1 DEF ClientInductive, TypeOK
<1>6. CloseDevice \/ (device # "connecting" /\ UNCHANGED deviceVars)
  BY <1>2, <1>3, Closing
<1>7. /\ stack \in Seq(Frames) /\ Shape(stack, pending) /\ IsParsing
      /\ InReadyRead(stack)
  BY <1>3, InductiveNow, WorkNow
<1>8. QED
  BY <1>1, <1>2, <1>3, <1>4, <1>5, <1>6, <1>7, NothingDecoded, Finishing

LEMMA HeadersHandledKeeps ==
  ASSUME ClientInductive, HeadersHandled
  PROVE  ClientInductive'
<1>1. /\ Top = "headersCompleted"
      /\ UNCHANGED <<asked, request, deferred, error, buffer, headers, field,
                     wasValue, content, timers, historyVars>>
      /\ IF asked[request].head THEN MessageComplete(Tail(stack))
         ELSE /\ decoder' = IF answer.gzip
                            THEN [of |-> request, begun |-> FALSE]
                            ELSE decoder
              /\ stack' = Tail(stack)
              /\ UNCHANGED <<pending, deviceVars, parser, ended>>
  BY DEF HeadersHandled
<1>2. /\ stack # <<>> /\ Head(stack) \notin Parsing \cup {"rejecting"}
      /\ Head(stack) = "headersCompleted" /\ stack \in Seq(Frames)
      /\ Shape(stack, pending)
  BY <1>1, TopNow, InductiveNow DEF ClientInductive, TypeOK, Parsing
<1>3. /\ Tail(stack) \in Seq(Frames) /\ Shape(Tail(stack), pending)
      /\ Parses(Tail(stack)) <=> Parses(stack)
      /\ InReadyRead(stack) <=> InReadyRead(Tail(stack))
      /\ Len(Tail(stack)) = 1 /\ Tail(stack)[1] \in Parsing
  BY <1>2, SignalGone
<1>4. IsParsing
  BY <1>3, StackNow DEF Parses
<1>5. CASE ~asked[request].head
  <2>1. /\ decoder' = IF answer.gzip THEN [of |-> request, begun |-> FALSE]
                      ELSE decoder
        /\ stack' = Tail(stack)
        /\ UNCHANGED <<requestVars, deviceVars, buffer, parser, headers, field,
                       wasValue, content, timers, historyVars, ended>>
    BY <1>1, <1>5 DEF requestVars
  <2>2. request \in 0 .. MaxRequests
    BY BoundsAssumption DEF ClientInductive, TypeOK
  <2>3. decoder' \in DecoderType
    BY <2>1, <2>2 DEF ClientInductive, TypeOK, DecoderType
  <2>4. QED
    BY <1>2, <2>1, <2>3, Returned
<1>6. CASE asked[request].head
  <2>1. /\ parser' = [parser EXCEPT !.errno = "paused"] /\ decoder' = NoDecoder
        /\ pending' = FALSE /\ CloseUnlessKept /\ EmitFinished(Tail(stack))
    BY <1>1, <1>6 DEF MessageComplete
  <2>2. request # 0
    BY <1>4 DEF ClientInductive, ParserInStep
  <2>3. parser' \in Parser /\ parser'.errno # "ok"
    BY <2>1 DEF ClientInductive, TypeOK, Parser
  <2>4. parsed' = parsed /\ cut' \in BOOLEAN /\ error' \in Errors
        /\ answer' = answer
    BY <1>1 DEF ClientInductive, TypeOK, historyVars
  <2>5. CloseDevice \/ (device # "connecting" /\ UNCHANGED deviceVars)
    BY <1>4, <2>1, Closing
  <2>6. /\ UNCHANGED <<asked, request, deferred, buffer, headers, field,
                       wasValue, content, timers, answer>>
        /\ Parses(Tail(stack)) /\ IsParsing
        /\ buffer # <<>> => InReadyRead(Tail(stack))
    BY <1>1, <1>3, <1>4, <2>4, InductiveNow DEF Parses
  <2>7. QED
    BY <1>3, <2>1, <2>2, <2>3, <2>4, <2>5, <2>6, NothingDecoded, Finishing
<1>7. QED
  BY <1>5, <1>6

LEMMA AbortResponseKeeps ==
  ASSUME ClientInductive, AbortResponse
  PROVE  ClientInductive'
<1>1. /\ pending /\ CloseDevice
      /\ parser' = [parser EXCEPT !.errno = "paused"]
      /\ error' = "AbortedError" /\ pending' = FALSE /\ EmitFinished(stack)
      /\ UNCHANGED <<asked, request, deferred, buffer, headers, field, wasValue,
                     content, timers, answer>>
      /\ parsed' = parsed /\ cut' = cut /\ decoder' = decoder
  BY DEF AbortResponse, historyVars
<1>2. request # 0
  BY <1>1 DEF ClientInductive, ParserInStep
<1>3. parser' \in Parser /\ parser'.errno # "ok"
  BY <1>1 DEF ClientInductive, TypeOK, Parser
<1>4. /\ cut' \in BOOLEAN /\ error' \in Errors
      /\ decoder' \in DecoderType
  BY <1>1 DEF ClientInductive, TypeOK, DecoderType, Errors
<1>5. /\ stack \in Seq(Frames) /\ Shape(stack, pending)
      /\ Parses(stack) => IsParsing
      /\ buffer # <<>> => InReadyRead(stack)
  BY InductiveNow DEF TypeOK
<1>6. QED
  BY <1>1, <1>2, <1>3, <1>4, <1>5, Finishing

LEMMA RejectResponseKeeps ==
  ASSUME ClientInductive, RejectResponse
  PROVE  ClientInductive'
<1>1. /\ Top \in Parsing /\ pending /\ parser.errno = "failed" /\ CloseDevice
      /\ error' = "ResponseInvalidError" /\ pending' = FALSE
      /\ EmitFinished(<<"rejecting">>)
      /\ UNCHANGED <<asked, request, deferred, buffer, headers, field, wasValue,
                     content, timers, answer>>
      /\ parsed' = parsed /\ cut' = cut /\ decoder' = decoder
      /\ parser' = parser
  BY DEF RejectResponse, historyVars, parserVars, ParserReturns
<1>2. request # 0
  BY <1>1 DEF ClientInductive, ParserInStep
<1>3. parser' \in Parser /\ parser'.errno # "ok"
  BY <1>1 DEF ClientInductive, TypeOK, Parser
<1>4. /\ cut' \in BOOLEAN /\ error' \in Errors
      /\ decoder' \in DecoderType
  BY <1>1 DEF ClientInductive, TypeOK, DecoderType, Errors
<1>5. /\ <<"rejecting">> \in Seq(Frames) /\ Shape(<<"rejecting">>, TRUE)
      /\ ~Parses(<<"rejecting">>)
      /\ InReadyRead(<<"rejecting">>)
  <2>1. "rejecting" \notin Parsing /\ "rejecting" \in Parsing \cup {"rejecting"}
    BY DEF Parsing
  <2>2. QED
    BY <2>1, One
<1>6. QED
  BY <1>1, <1>2, <1>3, <1>4, <1>5, Finishing

\* Steps from the event loop.
LEMMA IdleNow ==
  ASSUME ClientInductive, EventLoop
  PROVE  /\ stack = <<>> /\ ~IsParsing /\ buffer = <<>> /\ deferred = 0
         /\ ~Parses(stack) /\ Shape(<<>>, pending) /\ <<>> \in Seq(Frames)
         /\ pending => parser.errno = "ok" /\ request # 0
<1>1. stack = <<>>
  BY TopNow DEF ClientInductive, TypeOK
<1>2. ~IsParsing /\ buffer = <<>>
  BY <1>1, Idle, InductiveNow
<1>3. QED
  BY <1>1, <1>2, Idle DEF ClientInductive, ParserInStep

LEMMA DeviceErrorKeeps ==
  ASSUME ClientInductive, NEW e \in Errors, DeviceError(e)
  PROVE  ClientInductive'
<1>1. /\ EventLoop /\ CloseDevice /\ cut' = (stream # <<>>)
      /\ UNCHANGED <<asked, request, deferred, buffer, headers, field, wasValue,
                     content, timers, answer>>
      /\ parsed' = parsed /\ decoder' = decoder /\ parser' = parser
      /\ IF pending
         THEN error' = e /\ pending' = FALSE /\ EmitFinished(<<>>)
         ELSE UNCHANGED <<error, pending, stack, ended>>
  BY DEF DeviceError, parserVars
<1>2. /\ stack = <<>> /\ ~IsParsing /\ buffer = <<>> /\ deferred = 0
      /\ ~Parses(<<>>) /\ Shape(<<>>, pending) /\ <<>> \in Seq(Frames)
  BY <1>1, IdleNow
<1>3. /\ parser' \in Parser /\ parsed' \in ParsedType /\ cut' \in BOOLEAN
      /\ decoder' \in DecoderType
  BY <1>1 DEF ClientInductive, TypeOK, ParsedType, DecoderType
<1>4. CASE pending
  <2>1. request # 0
    BY <1>4 DEF ClientInductive, ParserInStep
  <2>2. error' = e /\ pending' = FALSE /\ EmitFinished(<<>>)
    BY <1>1, <1>4
  <2>3. error' \in Errors
    BY <2>2
  <2>4. QED
    BY <1>1, <1>2, <1>3, <1>4, <2>1, <2>2, <2>3, Finishing
<1>5. CASE ~pending
  <2>1. UNCHANGED <<error, pending, stack, ended>>
    BY <1>1, <1>5
  <2>2. /\ device' = "unconnected" /\ stream' = <<>> /\ inbox' = <<>>
        /\ stream' \in Seq(Unit) /\ inbox' \in Seq(Unit) /\ Len(inbox') = 0
    BY <1>1 DEF CloseDevice
  <2>3. TypeOK'
    BY <1>1, <1>3, <2>1, <2>2 DEF ClientInductive, TypeOK, DecoderType, ParsedType
  <2>4. ~IsParsing' /\ StackShape'
    BY <1>2, <2>1, StackThen
  <2>5. ParserInStep'
    BY <1>1, <1>2, <1>5, <2>1, <2>4 DEF ParserInStep
  <2>6. DeviceInStep'
    BY <1>1, <1>2, <2>2 DEF DeviceInStep
  <2>7. RoomLeft'
    BY <1>1, <2>2, <2>4, Weights, LimitsAssumption DEF ClientInductive, RoomLeft
  <2>8. QED
    BY <2>3, <2>4, <2>5, <2>6, <2>7 DEF ClientInductive
<1>6. QED
  BY <1>4, <1>5

(***************************************************************************)
(* The inductive invariant: requests.                                      *)
(***************************************************************************)

\* Sending a request keeps what the device and the server may hold in type.
LEMMA Sent ==
  ASSUME TypeOK, NEW r \in Requests, NEW head \in BOOLEAN, SendRequest(r, head)
  PROVE  stream' \in Seq(Unit) /\ answer' \in Answers /\ parsed' \in ParsedType
<1>1. PICK a \in Answers : answer' = a /\ stream' = stream \o Units(r, a, head)
  BY DEF SendRequest
<1>2. a \in Answer
  BY AnswersAssumption
<1>3. Units(r, a, head) \in Seq(Unit)
  BY <1>2, UnitsOf
<1>4. stream' \in Seq(Unit)
  <2> DEFINE u == Units(r, a, head)
  <2>1. u \in Seq(Unit) /\ stream \in Seq(Unit)
    BY <1>3 DEF TypeOK
  <2> HIDE DEF u
  <2>2. stream \o u \in Seq(Unit)
    BY <2>1
  <2>3. QED
    BY <1>1, <2>2 DEF u
<1>5. parsed' \in ParsedType
  BY DEF SendRequest, NothingParsed, ParsedType
<1>6. QED
  BY <1>1, <1>4, <1>5

\* A request begins while nothing is being parsed any more.
LEMMA Starting ==
  ASSUME ClientInductive, NEW r \in Requests, NEW what \in Request,
         StartRequest(r, what),
         asked' \in Seq(Request), Len(asked') <= MaxRequests, r <= Len(asked'),
         deferred' = 0,
         UNCHANGED <<field, wasValue, decoder, timers, ended>>,
         buffer' \in Seq(Unit), buffer' # <<>> => InReadyRead(stack'),
         stack' \in Seq(Frames), Shape(stack', TRUE), ~Parses(stack')
  PROVE  ClientInductive'
<1>1. /\ request' = r /\ pending' = TRUE /\ error' = "NoError"
      /\ parser' = NewParser /\ headers' = {} /\ content' = 0
  BY DEF StartRequest, Clear
<1>2. TypeOK /\ r # 0 /\ r \in Nat
  BY BoundsAssumption DEF ClientInductive, Requests
<1>3. what.head \in BOOLEAN
  BY DEF Request
<1>4. \/ /\ CanReuse(what) /\ SendRequest(r, what.head)
         /\ UNCHANGED <<device, inbox, cut>>
      \/ /\ device' = "connecting" /\ stream' = <<>> /\ inbox' = <<>>
         /\ UNCHANGED historyVars
  BY DEF StartRequest
<1>5. /\ device' \in {"connecting", "connected"}
      /\ device' # "connected" => stream' = <<>> /\ inbox' = <<>>
      /\ inbox' = inbox \/ inbox' = <<>>
      /\ stream' \in Seq(Unit) /\ inbox' \in Seq(Unit)
      /\ answer' \in Answers /\ parsed' \in ParsedType /\ cut' \in BOOLEAN
  <2>1. CASE /\ CanReuse(what) /\ SendRequest(r, what.head)
             /\ UNCHANGED <<device, inbox, cut>>
    <3>1. device = "connected" /\ inbox \in Seq(Unit) /\ cut \in BOOLEAN
      BY <1>2, <2>1 DEF CanReuse, TypeOK
    <3>2. QED
      BY <1>2, <1>3, <2>1, <3>1, Sent
  <2>2. CASE /\ device' = "connecting" /\ stream' = <<>> /\ inbox' = <<>>
             /\ UNCHANGED historyVars
    BY <1>2, <2>2 DEF TypeOK, historyVars, ParsedType
  <2>3. QED
    BY <1>4, <2>1, <2>2
<1>6. request' \in 0 .. Len(asked') /\ error' \in Errors /\ parser' \in Parser
  BY <1>1, <1>2 DEF Errors, Parser, NewParser
<1>7. TypeOK'
  BY <1>1, <1>2, <1>5, <1>6 DEF TypeOK, ParsedType
<1>8. ~IsParsing' /\ StackShape'
  BY <1>1, StackThen
<1>9. ParserInStep'
  <2>1. parser'.errno = "ok" /\ parser'.at = "start"
    BY <1>1 DEF NewParser
  <2>2. QED
    BY <1>1, <1>2, <1>8, <2>1 DEF ParserInStep
<1>10. DeviceInStep'
  <2>1. ReadBufferSize = 0 => inbox' = <<>>
    BY <1>5 DEF ClientInductive, DeviceInStep
  <2>2. buffer' # <<>> => \E i \in 1 .. Len(stack') : stack'[i] # "finished"
    BY DEF InReadyRead
  <2>3. QED
    BY <1>1, <1>5, <2>1, <2>2 DEF DeviceInStep
<1>11. RoomLeft'
  <2>1. ReadBufferSize > 0 => Len(inbox) <= ReadBufferSize
    BY DEF ClientInductive, RoomLeft
  <2>2. Len(<<>>) = 0
    OBVIOUS
  <2>3. ReadBufferSize > 0 => Len(inbox') <= ReadBufferSize
    BY <1>5, <2>1, <2>2, LimitsAssumption
  <2>4. 0 <= Weight' * ReadBufferSize
    BY <1>5, Weights, WeightIsNat
  <2>5. QED
    BY <1>1, <1>8, <2>3, <2>4 DEF RoomLeft
<1>12. QED
  BY <1>7, <1>8, <1>9, <1>10, <1>11 DEF ClientInductive

\* Without the parser at work, a stack is as good for a pending response.
LEMMA Quiet ==
  ASSUME NEW f, NEW waiting, Shape(f, waiting), ~Parses(f), NEW other
  PROVE  Shape(f, other)
  BY DEF Shape

LEMMA RequestNowKeeps ==
  ASSUME ClientInductive, NEW what \in Request, RequestNow(what)
  PROVE  ClientInductive'
<1>1. /\ Len(asked) < MaxRequests /\ ~pending /\ ~IsParsing
      /\ asked' = Append(asked, what) /\ StartRequest(Len(asked) + 1, what)
      /\ UNCHANGED <<field, wasValue, decoder, timers, ended>>
      /\ deferred' = deferred /\ buffer' = buffer /\ stack' = stack
  BY DEF RequestNow
<1>2. /\ asked \in Seq(Request) /\ buffer \in Seq(Unit) /\ stack \in Seq(Frames)
      /\ Len(asked) \in Nat
  BY DEF ClientInductive, TypeOK
<1>3. /\ asked' \in Seq(Request) /\ Len(asked') = Len(asked) + 1
  BY <1>1, <1>2
<1>4. Len(asked) + 1 \in Requests /\ Len(asked') <= MaxRequests
      /\ Len(asked) + 1 <= Len(asked')
  BY <1>1, <1>2, <1>3, BoundsAssumption DEF Requests
<1>5. deferred' = 0
  BY <1>1 DEF ClientInductive, ParserInStep
<1>6. /\ Shape(stack', TRUE) /\ ~Parses(stack')
      /\ buffer' # <<>> => InReadyRead(stack')
  BY <1>1, InductiveNow, Quiet
<1>7. QED
  BY <1>1, <1>2, <1>3, <1>4, <1>5, <1>6, Starting

LEMMA RequestLaterKeeps ==
  ASSUME ClientInductive, NEW what \in Request, RequestLater(what)
  PROVE  ClientInductive'
<1>1. /\ Len(asked) < MaxRequests /\ ~pending /\ IsParsing
      /\ asked' = Append(asked, what) /\ deferred' = Len(asked) + 1
      /\ UNCHANGED <<request, pending, error, device, stream, inbox, buffer,
                     parserVars, timers, stack, answer, parsed, cut, ended>>
  BY DEF RequestLater, deviceVars, historyVars
<1>2. TypeOK
  BY DEF ClientInductive
<1>3. /\ asked \in Seq(Request) /\ Len(asked) \in Nat
      /\ request \in 0 .. Len(asked)
  BY <1>2 DEF TypeOK
<1>4. asked' \in Seq(Request) /\ Len(asked') = Len(asked) + 1
  BY <1>1, <1>3
<1>5. /\ Len(asked') <= MaxRequests /\ request' \in 0 .. Len(asked')
      /\ deferred' \in request' + 1 .. Len(asked')
  BY <1>1, <1>3, <1>4, BoundsAssumption
<1>6. TypeOK'
  BY <1>1, <1>2, <1>4, <1>5 DEF TypeOK, parserVars
<1>7. (IsParsing' <=> IsParsing) /\ StackShape'
  BY <1>1, InductiveNow, StackThen
<1>8. parser' = parser /\ content' = content
  BY <1>1 DEF parserVars
<1>9. ParserInStep'
  BY <1>1, <1>7, <1>8 DEF ClientInductive, ParserInStep
<1>10. DeviceInStep'
  BY <1>1, <1>8 DEF ClientInductive, DeviceInStep
<1>11. RoomLeft'
  BY <1>1, <1>7, <1>8, Weights DEF ClientInductive, RoomLeft
<1>12. QED
  BY <1>6, <1>7, <1>9, <1>10, <1>11 DEF ClientInductive

LEMMA AbortConnectionKeeps ==
  ASSUME ClientInductive, AbortConnection
  PROVE  ClientInductive'
<1>1. /\ ~pending /\ device' = "unconnected" /\ stream' = <<>> /\ inbox' = <<>>
      /\ UNCHANGED <<asked, request, deferred, pending, error, buffer, parser,
                     headers, field, wasValue, content, decoder, timers, stack,
                     answer, parsed, cut, ended>>
  BY DEF AbortConnection, CloseDevice, requestVars, parserVars, historyVars
<1>2. stream' \in Seq(Unit) /\ inbox' \in Seq(Unit) /\ Len(inbox') = 0
  BY <1>1
<1>3. TypeOK'
  BY <1>1, <1>2 DEF ClientInductive, TypeOK
<1>4. (IsParsing' <=> IsParsing) /\ StackShape'
  BY <1>1, InductiveNow, StackThen
<1>5. ParserInStep'
  BY <1>1, <1>4 DEF ClientInductive, ParserInStep
<1>6. DeviceInStep'
  BY <1>1 DEF ClientInductive, DeviceInStep
<1>7. RoomLeft'
  BY <1>1, <1>2, <1>4, Weights, LimitsAssumption DEF ClientInductive, RoomLeft
<1>8. QED
  BY <1>3, <1>4, <1>5, <1>6, <1>7 DEF ClientInductive

LEMMA ConsumeContentKeeps ==
  ASSUME ClientInductive, ConsumeContent
  PROVE  ClientInductive'
<1>1. /\ content' = 0
      /\ IF pending /\ inbox # <<>>
         THEN timers < MaxTimers /\ timers' = timers + 1
         ELSE UNCHANGED timers
      /\ UNCHANGED <<asked, request, deferred, pending, error, device, stream,
                     inbox, buffer, parser, headers, field, wasValue, decoder,
                     stack, answer, parsed, cut, ended>>
  BY DEF ConsumeContent, requestVars, deviceVars, historyVars
<1>2. timers \in 0 .. MaxTimers
  BY DEF ClientInductive, TypeOK
<1>3. timers' \in 0 .. MaxTimers
  BY <1>1, <1>2, BoundsAssumption
<1>4. TypeOK'
  BY <1>1, <1>3 DEF ClientInductive, TypeOK
<1>5. (IsParsing' <=> IsParsing) /\ StackShape'
  BY <1>1, InductiveNow, StackThen
<1>6. ParserInStep'
  BY <1>1, <1>5 DEF ClientInductive, ParserInStep
<1>7. DeviceInStep'
  BY <1>1 DEF ClientInductive, DeviceInStep
<1>8. RoomLeft'
  <2>1. content \in Nat /\ Len(buffer) \in Nat /\ parsed \in ParsedType
    BY DEF ClientInductive, TypeOK, ParsedType
  <2>2. Weight' = Weight /\ Weight \in Nat /\ Weight * ReadBufferSize \in Nat
    BY <1>1, <2>1, Weights, WeightIsNat
  <2>3. ReadBufferSize > 0 /\ IsParsing /\ pending =>
          Within(0, Weight, Len(buffer), ReadBufferSize)
    <3>1. ReadBufferSize > 0 /\ IsParsing /\ pending =>
            Within(content, Weight, Len(buffer), ReadBufferSize)
      BY DEF ClientInductive, RoomLeft, Within
    <3>2. 0 <= content
      BY <2>1
    <3>3. QED
      BY <2>1, <2>2, <3>1, <3>2, WithinLess, LimitsAssumption
  <2>4. ReadBufferSize > 0 =>
          content' <= Weight * ReadBufferSize /\ Len(inbox') <= ReadBufferSize
    BY <1>1, <2>2 DEF ClientInductive, RoomLeft
  <2>5. QED
    BY <1>1, <1>5, <2>2, <2>3, <2>4 DEF RoomLeft, Within
<1>9. QED
  BY <1>4, <1>5, <1>6, <1>7, <1>8 DEF ClientInductive

LEMMA DeviceConnectedKeeps ==
  ASSUME ClientInductive, DeviceConnected
  PROVE  ClientInductive'
<1>1. /\ EventLoop /\ device = "connecting" /\ device' = "connected"
      /\ IF pending THEN SendRequest(request, asked[request].head)
         ELSE UNCHANGED <<stream, answer, parsed>>
      /\ cut' = FALSE
      /\ UNCHANGED <<asked, request, deferred, pending, error, inbox, buffer,
                     parser, headers, field, wasValue, content, decoder, timers,
                     stack, ended>>
  BY DEF DeviceConnected, requestVars, parserVars
<1>2. pending /\ request # 0
  BY <1>1 DEF ClientInductive, DeviceInStep, ParserInStep
<1>3. SendRequest(request, asked[request].head)
  BY <1>1, <1>2
<1>4. TypeOK
  BY DEF ClientInductive
<1>5. request \in Requests /\ asked[request].head \in BOOLEAN
  <2>1. request \in 1 .. Len(asked) /\ Len(asked) <= MaxRequests
        /\ asked \in Seq(Request) /\ Len(asked) \in Nat
    BY <1>2, <1>4 DEF TypeOK
  <2>2. asked[request] \in Request
    BY <2>1
  <2>3. QED
    BY <2>1, <2>2, BoundsAssumption DEF Requests, Request
<1>6. stream' \in Seq(Unit) /\ answer' \in Answers /\ parsed' \in ParsedType
  BY <1>3, <1>4, <1>5, Sent
<1>7. TypeOK'
  BY <1>1, <1>4, <1>6 DEF TypeOK, ParsedType
<1>8. (IsParsing' <=> IsParsing) /\ StackShape'
  BY <1>1, InductiveNow, StackThen
<1>9. ParserInStep'
  BY <1>1, <1>8 DEF ClientInductive, ParserInStep
<1>10. DeviceInStep'
  BY <1>1 DEF ClientInductive, DeviceInStep
<1>11. RoomLeft'
  <2>1. content' = 0
    BY <1>1 DEF ClientInductive, DeviceInStep
  <2>2. 0 <= Weight' * ReadBufferSize
    BY <1>6, Weights, WeightIsNat
  <2>3. ~IsParsing'
    BY <1>1, <1>8, IdleNow
  <2>4. QED
    BY <1>1, <2>1, <2>2, <2>3 DEF ClientInductive, RoomLeft
<1>12. QED
  BY <1>7, <1>8, <1>9, <1>10, <1>11 DEF ClientInductive

(***************************************************************************)
(* The inductive invariant: device_readyRead() begins and returns.         *)
(***************************************************************************)

LEMMA UnpausedKept ==
  ASSUME ClientInductive
  PROVE  /\ Unpaused \in Parser /\ Unpaused.at = parser.at
         /\ Unpaused.errno = IF Top \in Parsing /\ parser.errno = "paused"
                             THEN "ok" ELSE parser.errno
<1>1. parser \in Parser
  BY DEF ClientInductive, TypeOK
<1>2. QED
  BY <1>1 DEF Parser, Unpaused

LEMMA InjectAgainKeeps ==
  ASSUME ClientInductive, InjectAgain
  PROVE  ClientInductive'
<1>1. /\ pending /\ buffer # <<>> /\ Top = "reading" /\ Top \in Parsing
      /\ parser' = Unpaused /\ stack' = <<"rereading">>
      /\ UNCHANGED <<asked, request, deferred, pending, error, device, stream,
                     inbox, buffer, headers, field, wasValue, content, decoder,
                     timers, answer, parsed, cut, ended>>
  BY DEF InjectAgain, AgainDue, requestVars, deviceVars, historyVars, Parsing
<1>2. IsParsing
  BY <1>1, WorkNow
<1>3. /\ stack' \in Seq(Frames) /\ Shape(stack', pending) /\ Parses(stack')
      /\ InReadyRead(stack')
  <2>1. "rereading" \in Parsing /\ "rereading" \in Parsing \cup {"rejecting"}
    BY DEF Parsing
  <2>2. QED
    BY <1>1, <2>1, One
<1>4. /\ parser' \in Parser /\ parser'.at = parser.at
      /\ parser'.errno = "paused" => FALSE
  BY <1>1, UnpausedKept
<1>5. TypeOK'
  BY <1>1, <1>3, <1>4 DEF ClientInductive, TypeOK
<1>6. IsParsing' /\ StackShape'
  BY <1>1, <1>3, StackThen
<1>7. ParserInStep'
  BY <1>1, <1>2, <1>4, <1>6 DEF ClientInductive, ParserInStep
<1>8. DeviceInStep'
  <2>1. device = "connected"
    BY <1>1, <1>2 DEF ClientInductive, ParserInStep
  <2>2. \E i \in 1 .. Len(stack') : stack'[i] # "finished"
    BY <1>3 DEF InReadyRead
  <2>3. QED
    BY <1>1, <2>1, <2>2 DEF ClientInductive, DeviceInStep
<1>9. RoomLeft'
  BY <1>1, <1>2, Weights DEF ClientInductive, RoomLeft
<1>10. QED
  BY <1>5, <1>6, <1>7, <1>8, <1>9 DEF ClientInductive

LEMMA ReadyReadReturnsKeeps ==
  ASSUME ClientInductive, ReadyReadReturns
  PROVE  ClientInductive'
<1>1. /\ \/ ParserReturns /\ ~AgainDue /\ ~(pending /\ parser.errno = "failed")
         \/ Top = "rejecting"
      /\ buffer' = <<>> /\ stack' = <<>> /\ Release
      /\ UNCHANGED <<field, wasValue, decoder, timers, ended>>
  BY DEF ReadyReadReturns
<1>2. TypeOK
  BY DEF ClientInductive
<1>3. /\ buffer' \in Seq(Unit) /\ stack' \in Seq(Frames) /\ Len(buffer') = 0
      /\ Shape(stack', TRUE) /\ Shape(stack', pending) /\ ~Parses(stack')
  <2>1. <<>> \in Seq(Unit) /\ <<>> \in Seq(Frames) /\ Len(<<>>) = 0
    OBVIOUS
  <2>2. Shape(<<>>, TRUE) /\ Shape(<<>>, pending) /\ ~Parses(<<>>)
    BY Idle
  <2>3. QED
    BY <1>1, <2>1, <2>2
<1>4. CASE /\ ~pending /\ deferred # 0 /\ deferred' = 0 /\ UNCHANGED asked
           /\ StartRequest(deferred, asked[deferred])
  <2>1. /\ deferred \in 1 .. Len(asked) /\ asked \in Seq(Request)
        /\ Len(asked) \in Nat /\ Len(asked) <= MaxRequests
    BY <1>2, <1>4 DEF TypeOK
  <2>2. deferred \in Requests /\ asked[deferred] \in Request
        /\ deferred <= Len(asked)
    BY <2>1, BoundsAssumption DEF Requests
  <2>3. QED
    BY <1>1, <1>3, <1>4, <2>1, <2>2, Starting
<1>5. CASE /\ pending \/ deferred = 0
           /\ parser' = Unpaused
           /\ UNCHANGED <<requestVars, deviceVars, headers, content, historyVars>>
  <2>1. UNCHANGED <<asked, request, deferred, pending, error, device, stream,
                    inbox, headers, content, answer, parsed, cut>>
    BY <1>5 DEF requestVars, deviceVars, historyVars
  <2>2. parser' \in Parser /\ parser'.at = parser.at
        /\ parser'.errno = IF Top \in Parsing /\ parser.errno = "paused"
                           THEN "ok" ELSE parser.errno
    BY <1>5, UnpausedKept
  <2>3. TypeOK'
    BY <1>1, <1>2, <1>3, <2>1, <2>2 DEF TypeOK
  <2>4. ~IsParsing' /\ StackShape'
    BY <1>3, <2>1, StackThen
  <2>5. deferred = 0
    BY <1>5 DEF ClientInductive, ParserInStep
  <2>6. ASSUME pending
        PROVE  parser'.errno = "ok" /\ parser'.at \notin {"complete", "continued"}
    <3>1. CASE ~IsParsing
      BY <2>2, <2>6, <3>1 DEF ClientInductive, ParserInStep
    <3>2. CASE IsParsing
      <4>1. Top # "rejecting"
        <5>1. "rejecting" \notin Parsing
          BY DEF Parsing
        <5>2. QED
          BY <3>2, <5>1, WorkNow
      <4>2. /\ ParserReturns /\ parser.errno # "failed" /\ Top \in Parsing
            /\ \/ parser.errno # "ok"
               \/ buffer = <<>> /\ parser.at \notin {"complete", "continued"}
        BY <1>1, <2>6, <4>1 DEF ParserReturns
      <4>3. parser.errno = "ok" \/ parser.errno = "paused"
        BY <1>2, <4>2 DEF TypeOK, Parser
      <4>4. parser.errno = "paused" => parser.at = "start"
        BY <2>6 DEF ClientInductive, ParserInStep
      <4>5. QED
        BY <2>2, <4>2, <4>3, <4>4
    <3>3. QED
      BY <3>1, <3>2
  <2>7. ParserInStep'
    BY <2>1, <2>4, <2>5, <2>6 DEF ClientInductive, ParserInStep
  <2>8. DeviceInStep'
    <3>1. ASSUME device = "connecting"
          PROVE  pending /\ parser' = NewParser /\ content = 0
      <4>1. pending /\ parser = NewParser /\ content = 0
        BY <3>1 DEF ClientInductive, DeviceInStep
      <4>2. parser' = parser
        BY <1>5, <4>1 DEF Unpaused, NewParser
      <4>3. QED
        BY <4>1, <4>2
    <3>2. QED
      BY <1>1, <2>1, <3>1 DEF ClientInductive, DeviceInStep
  <2>9. RoomLeft'
    BY <1>3, <2>1, <2>4, Weights DEF ClientInductive, RoomLeft
  <2>10. QED
    BY <2>3, <2>4, <2>7, <2>8, <2>9 DEF ClientInductive
<1>6. QED
  BY <1>1, <1>4, <1>5 DEF Release

\* device_readyRead() reads what there is room for.
LEMMA ReadIn ==
  ASSUME ClientInductive, EventLoop,
         NEW units \in Seq(Unit), NEW rest \in Seq(Unit),
         device = "connected" \/ (units = <<>> /\ rest = <<>>),
         ReadBufferSize > 0 => Len(units) <= ReadBufferSize,
         DeviceReadyRead(units, rest),
         UNCHANGED <<requestVars, parserVars, historyVars, ended>>,
         timers' \in 0 .. MaxTimers
  PROVE  ClientInductive'
<1>1. UNCHANGED <<asked, request, deferred, pending, error, parser, headers,
                  field, wasValue, content, decoder, answer, parsed, cut, ended>>
  BY DEF requestVars, parserVars, historyVars
<1>2. /\ stack = <<>> /\ ~IsParsing /\ buffer = <<>> /\ deferred = 0
      /\ ~Parses(stack) /\ Shape(stack, pending)
      /\ pending => parser.errno = "ok" /\ request # 0
  BY IdleNow
<1>3. TypeOK /\ Len(units) \in Nat /\ content \in Nat
  BY DEF ClientInductive, TypeOK
<1> DEFINE room == Room(Len(units))
           n == IF room < Len(units) THEN room ELSE Len(units)
<1>4. \/ ~pending /\ CloseDevice /\ UNCHANGED <<buffer, stack>>
      \/ /\ pending /\ n <= 0 /\ inbox' = units /\ stream' = rest
         /\ UNCHANGED <<device, buffer, stack>>
      \/ /\ pending /\ n > 0 /\ buffer' = SubSeq(units, 1, n)
         /\ inbox' = SubSeq(units, n + 1, Len(units)) /\ stream' = rest
         /\ stack' = <<"reading">> /\ UNCHANGED device
  BY DEF DeviceReadyRead
<1>5. /\ n \in Int /\ n <= Len(units)
      /\ ReadBufferSize = 0 => n = Len(units)
      /\ ReadBufferSize > 0 => n <= ReadBufferSize - content
  BY <1>3, LimitsAssumption DEF Room
<1> HIDE DEF n, room
<1>6. CASE ~pending /\ CloseDevice /\ UNCHANGED <<buffer, stack>>
  <2>1. /\ device' = "unconnected" /\ stream' = <<>> /\ inbox' = <<>>
        /\ stream' \in Seq(Unit) /\ inbox' \in Seq(Unit) /\ Len(inbox') = 0
    BY <1>6 DEF CloseDevice
  <2>2. TypeOK'
    BY <1>1, <1>3, <1>6, <2>1 DEF TypeOK
  <2>3. ~IsParsing' /\ StackShape'
    BY <1>1, <1>2, <1>6, StackThen
  <2>4. ParserInStep'
    BY <1>1, <1>2, <1>6, <2>3 DEF ParserInStep
  <2>5. DeviceInStep'
    BY <1>2, <1>6, <2>1 DEF DeviceInStep
  <2>6. RoomLeft'
    BY <1>1, <2>1, <2>3, Weights, LimitsAssumption DEF ClientInductive, RoomLeft
  <2>7. QED
    BY <2>2, <2>3, <2>4, <2>5, <2>6 DEF ClientInductive
<1>7. CASE /\ pending /\ n <= 0 /\ inbox' = units /\ stream' = rest
           /\ UNCHANGED <<device, buffer, stack>>
  <2>1. TypeOK'
    BY <1>1, <1>3, <1>7 DEF TypeOK
  <2>2. ~IsParsing' /\ StackShape'
    BY <1>1, <1>2, <1>7, StackThen
  <2>3. ParserInStep'
    BY <1>1, <1>2, <1>7, <2>2 DEF ClientInductive, ParserInStep
  <2>4. ReadBufferSize = 0 => inbox' = <<>>
    <3>1. ReadBufferSize = 0 => Len(units) = 0
      BY <1>3, <1>5, <1>7
    <3>2. QED
      BY <1>7, <3>1, NoElements
  <2>5. DeviceInStep'
    <3>1. device' = device /\ buffer' = <<>> /\ parser' = parser
          /\ pending' = pending /\ content' = content
      BY <1>1, <1>2, <1>7
    <3>2. device' # "connected" => stream' = <<>> /\ inbox' = <<>>
      BY <1>7
    <3>3. device = "connecting" => pending /\ parser = NewParser /\ content = 0
      BY DEF ClientInductive, DeviceInStep
    <3>4. QED
      BY <2>4, <3>1, <3>2, <3>3 DEF DeviceInStep
  <2>6. RoomLeft'
    BY <1>1, <1>7, <2>2, Weights DEF ClientInductive, RoomLeft
  <2>7. QED
    BY <2>1, <2>2, <2>3, <2>5, <2>6 DEF ClientInductive
<1>8. CASE /\ pending /\ n > 0 /\ buffer' = SubSeq(units, 1, n)
           /\ inbox' = SubSeq(units, n + 1, Len(units)) /\ stream' = rest
           /\ stack' = <<"reading">> /\ UNCHANGED device
  <2>1. n \in 0 .. Len(units)
    BY <1>3, <1>5, <1>8
  <2>2. /\ buffer' \in Seq(Unit) /\ Len(buffer') = n
        /\ inbox' \in Seq(Unit) /\ Len(inbox') = Len(units) - n
    BY <1>8, <2>1, Split
  <2>3. /\ stack' \in Seq(Frames) /\ Shape(stack', pending) /\ Parses(stack')
        /\ InReadyRead(stack')
    <3>1. "reading" \in Parsing /\ "reading" \in Parsing \cup {"rejecting"}
      BY DEF Parsing
    <3>2. QED
      BY <1>8, <3>1, One
  <2>4. device = "connected"
    <3>1. units # <<>>
      <4>1. Len(units) # 0
        BY <1>3, <1>5, <1>8
      <4>2. QED
        BY <4>1, NoElements
    <3>2. QED
      BY <3>1
  <2>5. TypeOK'
    BY <1>1, <1>3, <1>8, <2>2, <2>3 DEF TypeOK
  <2>6. IsParsing' /\ StackShape'
    BY <1>1, <2>3, StackThen
  <2>7. ParserInStep'
    BY <1>1, <1>2, <1>8, <2>4, <2>6 DEF ClientInductive, ParserInStep
  <2>8. DeviceInStep'
    <3>1. \E i \in 1 .. Len(stack') : stack'[i] # "finished"
      BY <2>3 DEF InReadyRead
    <3>2. ReadBufferSize = 0 => inbox' = <<>>
      <4>1. ReadBufferSize = 0 => Len(inbox') = 0
        BY <1>3, <1>5, <2>2
      <4>2. QED
        BY <2>2, <4>1, NoElements
    <3>3. QED
      BY <1>8, <2>4, <3>1, <3>2 DEF DeviceInStep
  <2>9. RoomLeft'
    <3>1. ReadBufferSize > 0 => Len(inbox') <= ReadBufferSize
      BY <1>3, <2>1, <2>2, LimitsAssumption
    <3>2. Weight' = Weight /\ Weight \in Nat \ {0}
      BY <1>1, <1>3, Weights, WeightIsNat DEF TypeOK, ParsedType
    <3>3. ReadBufferSize > 0 => Within(content, Weight, Len(buffer'), ReadBufferSize)
      <4>1. Len(buffer') \in Nat
        BY <2>2
      <4>2. ReadBufferSize > 0 => content + Len(buffer') <= ReadBufferSize
        BY <1>3, <1>5, <2>2, <4>1, LimitsAssumption
      <4>3. QED
        BY <1>3, <3>2, <4>1, <4>2, Scaled, LimitsAssumption
    <3>4. ReadBufferSize > 0 => content' <= Weight * ReadBufferSize
      BY <1>1 DEF ClientInductive, RoomLeft
    <3>5. QED
      BY <1>1, <3>1, <3>2, <3>3, <3>4 DEF RoomLeft, Within
  <2>10. QED
    BY <2>5, <2>6, <2>7, <2>8, <2>9 DEF ClientInductive
<1>9. QED
  BY <1>4, <1>6, <1>7, <1>8

LEMMA ReadyReadKeeps ==
  ASSUME ClientInductive, NEW n \in Int, ReadyRead(n)
  PROVE  ClientInductive'
<1> DEFINE head == SubSeq(stream, 1, n)
           units == inbox \o head
           rest == SubSeq(stream, n + 1, Len(stream))
<1>1. /\ EventLoop /\ n \in 1 .. Len(stream)
      /\ ReadBufferSize > 0 => Len(inbox) + n <= ReadBufferSize
      /\ DeviceReadyRead(units, rest)
      /\ UNCHANGED <<requestVars, parserVars, timers, historyVars, ended>>
  BY DEF ReadyRead
<1>2. stream \in Seq(Unit) /\ inbox \in Seq(Unit) /\ timers \in 0 .. MaxTimers
  BY DEF ClientInductive, TypeOK
<1>3. n \in 0 .. Len(stream) /\ Len(stream) # 0
  BY <1>1, <1>2
<1>4. /\ head \in Seq(Unit) /\ Len(head) = n /\ rest \in Seq(Unit)
  BY <1>2, <1>3, Split
<1> HIDE DEF head
<1>5. units \in Seq(Unit) /\ Len(units) = Len(inbox) + n
  <2>1. units \in Seq(Unit) /\ Len(units) = Len(inbox) + Len(head)
    <3>1. inbox \in Seq(Unit) /\ head \in Seq(Unit) /\ units = inbox \o head
      BY <1>2, <1>4
    <3> HIDE DEF units
    <3>2. QED
      BY <3>1, Joined
  <2>2. QED
    BY <1>4, <2>1
<1>6. device = "connected"
  <2>1. stream # <<>>
    BY <1>2, <1>3, NoElements
  <2>2. QED
    BY <2>1 DEF ClientInductive, DeviceInStep
<1>7. ReadBufferSize > 0 => Len(units) <= ReadBufferSize
  BY <1>1, <1>5
<1> HIDE DEF units, rest
<1>8. timers' \in 0 .. MaxTimers
  BY <1>1, <1>2
<1>9. QED
  BY <1>1, <1>4, <1>5, <1>6, <1>7, <1>8, ReadIn DEF rest

LEMMA UnaskedInputKeeps ==
  ASSUME ClientInductive, UnaskedInput
  PROVE  ClientInductive'
<1>1. /\ EventLoop /\ device = "connected" /\ DeviceReadyRead(inbox, stream)
      /\ UNCHANGED <<requestVars, parserVars, historyVars, ended>>
      /\ timers' = timers
  BY DEF UnaskedInput
<1>2. /\ stream \in Seq(Unit) /\ inbox \in Seq(Unit) /\ timers' \in 0 .. MaxTimers
      /\ ReadBufferSize > 0 => Len(inbox) <= ReadBufferSize
  BY <1>1 DEF ClientInductive, TypeOK, RoomLeft
<1>3. QED
  BY <1>1, <1>2, ReadIn

LEMMA TimerFiresKeeps ==
  ASSUME ClientInductive, TimerFires
  PROVE  ClientInductive'
<1>1. /\ EventLoop /\ timers > 0 /\ timers' = timers - 1
      /\ DeviceReadyRead(inbox, stream)
      /\ UNCHANGED <<requestVars, parserVars, historyVars, ended>>
  BY DEF TimerFires
<1>2. /\ stream \in Seq(Unit) /\ inbox \in Seq(Unit) /\ timers \in 0 .. MaxTimers
      /\ ReadBufferSize > 0 => Len(inbox) <= ReadBufferSize
  BY DEF ClientInductive, TypeOK, RoomLeft
<1>3. timers' \in 0 .. MaxTimers
  BY <1>1, <1>2, BoundsAssumption
<1>4. device = "connected" \/ (inbox = <<>> /\ stream = <<>>)
  BY DEF ClientInductive, DeviceInStep
<1>5. QED
  BY <1>1, <1>2, <1>3, <1>4, ReadIn

(***************************************************************************)
(* The inductive invariant: theorems.                                      *)
(***************************************************************************)

LEMMA InitInductive ==
  ASSUME Init
  PROVE  ClientInductive
<1>1. /\ asked = <<>> /\ request = 0 /\ deferred = 0 /\ pending = FALSE
      /\ error = "NoError" /\ device = "unconnected" /\ stream = <<>>
      /\ inbox = <<>> /\ buffer = <<>> /\ parser = NewParser /\ headers = {}
      /\ field = {} /\ wasValue = FALSE /\ content = 0 /\ decoder = NoDecoder
      /\ timers = 0 /\ stack = <<>> /\ answer = CHOOSE a \in Answers : TRUE
      /\ parsed = NothingParsed /\ cut = FALSE
      /\ ended = [r \in Requests |-> 0]
  BY DEF Init
<1>2. /\ asked \in Seq(Request) /\ stream \in Seq(Unit) /\ inbox \in Seq(Unit)
      /\ buffer \in Seq(Unit) /\ stack \in Seq(Frames)
      /\ Len(asked) = 0 /\ Len(inbox) = 0
  BY <1>1
<1>3. answer \in Answers
  BY <1>1, AnswersAssumption
<1>4. parser \in Parser /\ parsed \in ParsedType /\ error \in Errors
      /\ decoder \in DecoderType /\ ended \in [Requests -> Nat]
  BY <1>1, NothingDecoded DEF NewParser, Parser, NothingParsed, ParsedType, Errors
<1>5. TypeOK
  <2>1. /\ request \in 0 .. Len(asked) /\ deferred \in {0}
        /\ Len(asked) <= MaxRequests /\ timers \in 0 .. MaxTimers
    BY <1>1, <1>2, BoundsAssumption
  <2>2. /\ pending \in BOOLEAN /\ wasValue \in BOOLEAN /\ cut \in BOOLEAN
        /\ device \in {"unconnected", "connecting", "connected"}
        /\ headers \subseteq Requests /\ field \subseteq Requests
        /\ content \in Nat
    BY <1>1
  <2>3. QED
    BY <1>2, <1>3, <1>4, <2>1, <2>2 DEF TypeOK, ParsedType, DecoderType
<1>6. ~IsParsing /\ StackShape
  BY <1>1, Idle, StackNow
<1>7. ParserInStep /\ DeviceInStep /\ RoomLeft
  <2>1. 0 <= Weight * ReadBufferSize
    BY <1>4, Weights, WeightIsNat
  <2>2. QED
    BY <1>1, <1>2, <1>6, <2>1, LimitsAssumption DEF ParserInStep, DeviceInStep, RoomLeft
<1>8. QED
  BY <1>5, <1>6, <1>7 DEF ClientInductive

LEMMA StandingStill ==
  ASSUME ClientInductive, UNCHANGED vars
  PROVE  ClientInductive'
<1>1. UNCHANGED <<asked, request, deferred, pending, error, device, stream, inbox,
                  buffer, parser, headers, field, wasValue, content, decoder,
                  timers, stack, answer, parsed, cut, ended>>
  BY DEF vars, requestVars, deviceVars, parserVars, historyVars
<1>2. TypeOK'
  BY <1>1 DEF ClientInductive, TypeOK
<1>3. (IsParsing' <=> IsParsing) /\ StackShape'
  BY <1>1, InductiveNow, StackThen
<1>4. ParserInStep'
  BY <1>1, <1>3 DEF ClientInductive, ParserInStep
<1>5. DeviceInStep'
  BY <1>1 DEF ClientInductive, DeviceInStep
<1>6. RoomLeft'
  BY <1>1, <1>3, Weights DEF ClientInductive, RoomLeft
<1>7. QED
  BY <1>2, <1>3, <1>4, <1>5, <1>6 DEF ClientInductive

\* Every step keeps the inductive invariant.
THEOREM ClientStep == ClientInductive /\ [Next]_vars => ClientInductive'
<1> SUFFICES ASSUME ClientInductive, [Next]_vars
             PROVE  ClientInductive'
  OBVIOUS
<1>1. CASE UNCHANGED vars
  BY <1>1, StandingStill
<1>2. CASE Steps
  <2>1. CASE MessageBegin
    BY <2>1, MessageBeginKeeps
  <2>2. CASE OnHeader
    BY <2>2, OnHeaderKeeps
  <2>3. CASE OnContinue
    BY <2>3, OnContinueKeeps
  <2>4. CASE ContinueComplete
    BY <2>4, ContinueCompleteKeeps
  <2>5. CASE HeadersComplete
    BY <2>5, HeadersCompleteKeeps
  <2>6. CASE HeadersHandled
    BY <2>6, HeadersHandledKeeps
  <2>7. CASE OnFraming
    BY <2>7, OnFramingKeeps
  <2>8. CASE MessageContent
    BY <2>8, MessageContentKeeps
  <2>9. CASE ContentHandled
    BY <2>9, ContentHandledKeeps
  <2>10. CASE ResponseComplete
    BY <2>10, ResponseCompleteKeeps
  <2>11. CASE ParserFails
    BY <2>11, ParserFailsKeeps
  <2>12. CASE InjectAgain
    BY <2>12, InjectAgainKeeps
  <2>13. CASE RejectResponse
    BY <2>13, RejectResponseKeeps
  <2>14. CASE ReadyReadReturns
    BY <2>14, ReadyReadReturnsKeeps
  <2>15. CASE FinishedHandled
    BY <2>15, FinishedHandledKeeps
  <2>16. QED
    BY <1>2, <2>1, <2>2, <2>3, <2>4, <2>5, <2>6, <2>7, <2>8, <2>9, <2>10, <2>11,
       <2>12, <2>13, <2>14, <2>15 DEF Steps
<1>3. CASE Application
  <2>1. ASSUME NEW what \in Request, RequestNow(what)
        PROVE  ClientInductive'
    BY <2>1, RequestNowKeeps
  <2>2. ASSUME NEW what \in Request, RequestLater(what)
        PROVE  ClientInductive'
    BY <2>2, RequestLaterKeeps
  <2>3. CASE AbortResponse
    BY <2>3, AbortResponseKeeps
  <2>4. CASE AbortConnection
    BY <2>4, AbortConnectionKeeps
  <2>5. CASE ConsumeContent
    BY <2>5, ConsumeContentKeeps
  <2>6. QED
    BY <1>3, <2>1, <2>2, <2>3, <2>4, <2>5 DEF Application
<1>4. CASE Receive
  <2>1. PICK n \in 1 .. Len(stream) : ReadyRead(n)
    BY <1>4 DEF Receive
  <2>2. n \in Int
    OBVIOUS
  <2>3. QED
    BY <2>1, <2>2, ReadyReadKeeps
<1>5. CASE TimerFires
  BY <1>5, TimerFiresKeeps
<1>6. CASE Network
  <2>1. {"NetworkError", "RemoteHostClosedError"} \subseteq Errors
    BY DEF Errors
  <2>2. CASE DeviceConnected
    BY <2>2, DeviceConnectedKeeps
  <2>3. CASE ConnectFails
    BY <2>1, <2>3, DeviceErrorKeeps DEF ConnectFails
  <2>4. CASE ConnectionFails
    BY <2>1, <2>4, DeviceErrorKeeps DEF ConnectionFails
  <2>5. CASE RemoteHostCloses
    BY <2>1, <2>5, DeviceErrorKeeps DEF RemoteHostCloses
  <2>6. CASE UnaskedInput
    BY <2>6, UnaskedInputKeeps
  <2>7. QED
    BY <1>6, <2>2, <2>3, <2>4, <2>5, <2>6 DEF Network
<1>7. QED
  BY <1>1, <1>2, <1>3, <1>4, <1>5, <1>6 DEF Next

\* What runs, the parser, the device and the room in the buffers are always in
\* step, whatever the application and the servers do: what is read is within the
\* room that is left, what becomes of it within that times Expansion.
THEOREM ClientInductiveInvariant == Spec => []ClientInductive
<1>1. Init => ClientInductive
  BY InitInductive
<1>2. QED
  BY <1>1, ClientStep, PTL DEF Spec

\* However the application consumes, no more plain content is held than
\* readBufferSize, and no more decoded content than Expansion times that
\* (HttpClient::device_readyRead, messageContent).
THEOREM BuffersStayBounded == Spec => []BuffersBounded
<1>1. ClientInductive => BuffersBounded
  BY DEF ClientInductive, RoomLeft, BuffersBounded
<1>2. QED
  BY <1>1, ClientInductiveInvariant, PTL

(***************************************************************************)
(* finished is emitted once.                                               *)
(***************************************************************************)

\* Whose head is being reported in a stack f is pending.
HeadWaits(f, waiting) ==
  \A i \in 1 .. Len(f) : f[i] = "headersCompleted" => waiting

LEMMA EndedParts ==
  ASSUME EndedOnce
  PROVE  /\ FinishedOnce
         /\ \A r \in Requests : r > Len(asked) => ended[r] = 0
         /\ deferred # 0 => deferred = Len(asked)
         /\ asked[request].head => HeadWaits(stack, pending)
  BY DEF EndedOnce, HeadWaits

LEMMA EndedThen ==
  ASSUME FinishedOnce',
         \A r \in Requests : r > Len(asked') => ended'[r] = 0,
         deferred' # 0 => deferred' = Len(asked'),
         asked'[request'].head => HeadWaits(stack', pending')
  PROVE  EndedOnce'
  BY DEF EndedOnce, HeadWaits

\* No request is made, put off or answered.
LEMMA NoneEnds ==
  ASSUME EndedOnce, UNCHANGED <<asked, request, deferred, pending, ended>>,
         asked[request].head => HeadWaits(stack', pending)
  PROVE  EndedOnce'
<1>1. FinishedOnce'
  BY EndedParts DEF FinishedOnce
<1>2. QED
  BY <1>1, EndedParts, EndedThen

\* The response that is pending ends.
LEMMA OneEnds ==
  ASSUME ClientInductive, EndedOnce, pending, pending' = FALSE,
         UNCHANGED <<asked, request, deferred>>,
         ended' = [ended EXCEPT ![request] = @ + 1],
         asked[request].head => HeadWaits(stack', FALSE)
  PROVE  EndedOnce'
<1>1. request # 0 /\ deferred = 0 /\ TypeOK
  BY DEF ClientInductive, ParserInStep
<1>2. /\ request \in 1 .. Len(asked) /\ Len(asked) \in Nat
      /\ Len(asked) <= MaxRequests
  BY <1>1 DEF TypeOK
<1>3. request \in Requests /\ \A r \in 1 .. Len(asked) : r \in Requests
  BY <1>2, BoundsAssumption DEF Requests
<1>4. ended \in [Requests -> Nat]
  BY <1>1 DEF TypeOK
<1>5. \A r \in Requests : ended'[r] = IF r = request THEN ended[r] + 1 ELSE ended[r]
  BY <1>3, <1>4
<1>6. FinishedOnce'
  <2> SUFFICES ASSUME NEW r \in 1 .. Len(asked)
               PROVE  ended'[r] = 1
    BY <1>1, <1>2 DEF FinishedOnce
  <2>1. CASE r = request
    <3>1. ended[r] = 0
      BY <1>1, <1>2, <2>1, EndedParts DEF FinishedOnce
    <3>2. QED
      BY <1>3, <1>5, <2>1, <3>1
  <2>2. CASE r # request
    <3>1. r # deferred
      BY <1>1, <1>2
    <3>2. ended[r] = 1
      BY <2>2, <3>1, EndedParts DEF FinishedOnce
    <3>3. QED
      BY <1>3, <1>5, <2>2, <3>2
  <2>3. QED
    BY <2>1, <2>2
<1>7. ASSUME NEW r \in Requests, r > Len(asked')
      PROVE  ended'[r] = 0
  <2>1. ended[r] = 0 /\ r # request
    BY <1>2, <1>7, EndedParts
  <2>2. QED
    BY <1>5, <2>1
<1>8. QED
  BY <1>1, <1>6, <1>7, EndedThen

\* A request is made, or put off.
LEMMA OneAsked ==
  ASSUME ClientInductive, EndedOnce, NEW what \in Request, ~pending,
         Len(asked) < MaxRequests, asked' = Append(asked, what), ended' = ended,
         deferred = 0,
         \/ request' = Len(asked) + 1 /\ pending' = TRUE /\ deferred' = 0
         \/ UNCHANGED <<request, pending>> /\ deferred' = Len(asked) + 1,
         asked'[request'].head => HeadWaits(stack', pending')
  PROVE  EndedOnce'
<1>1. /\ asked \in Seq(Request) /\ Len(asked) \in Nat
      /\ request \in 0 .. Len(asked)
  BY DEF ClientInductive, TypeOK
<1>2. Len(asked') = Len(asked) + 1
  BY <1>1
<1>3. Len(asked) + 1 \in Requests
  BY <1>1, BoundsAssumption DEF Requests
<1>4. ended[Len(asked) + 1] = 0
  BY <1>1, <1>3, EndedParts
<1>5. \A r \in 1 .. Len(asked) : ended[r] = 1
  BY <1>1, EndedParts DEF FinishedOnce
<1>6. \A r \in 1 .. Len(asked') : r \in 1 .. Len(asked) \/ r = Len(asked) + 1
  BY <1>1, <1>2
<1>7. FinishedOnce'
  <2> SUFFICES ASSUME NEW r \in 1 .. Len(asked')
               PROVE  \/ r = request' /\ pending' /\ ended[r] = 0
                      \/ r = deferred' /\ r # request' /\ ended[r] = 0
                      \/ /\ ~(r = request' /\ pending') /\ r # deferred'
                         /\ ended[r] = 1
    BY DEF FinishedOnce
  <2>1. CASE r = Len(asked) + 1
    <3>1. r # request
      BY <1>1, <2>1
    <3>2. QED
      BY <1>4, <2>1, <3>1
  <2>2. CASE r \in 1 .. Len(asked)
    <3>1. r # Len(asked) + 1 /\ r # 0 /\ ended[r] = 1
      BY <1>1, <1>5, <2>2
    <3>2. QED
      BY <3>1
  <2>3. QED
    BY <1>6, <2>1, <2>2
<1>8. \A r \in Requests : r > Len(asked') => ended'[r] = 0
  <2>1. \A r \in Requests : r > Len(asked') => r > Len(asked)
    BY <1>1, <1>2, BoundsAssumption DEF Requests
  <2>2. QED
    BY <2>1, EndedParts
<1>9. deferred' # 0 => deferred' = Len(asked')
  BY <1>2
<1>10. QED
  BY <1>7, <1>8, <1>9, EndedThen

\* The request that was put off is made.
LEMMA OneReleased ==
  ASSUME ClientInductive, EndedOnce, ~pending, deferred # 0, request' = deferred,
         pending' = TRUE, deferred' = 0, UNCHANGED <<asked, ended>>, stack' = <<>>
  PROVE  EndedOnce'
<1>1. Len(asked) \in Nat /\ request \in 0 .. Len(asked)
      /\ deferred \in {0} \cup (request + 1 .. Len(asked))
  BY DEF ClientInductive, TypeOK
<1>2. deferred # request /\ deferred \in Nat
  BY <1>1
<1>3. FinishedOnce'
  <2> SUFFICES ASSUME NEW r \in 1 .. Len(asked)
               PROVE  \/ r = deferred /\ ended[r] = 0
                      \/ ~(r = deferred) /\ r # 0 /\ ended[r] = 1
    BY DEF FinishedOnce
  <2>1. QED
    BY <1>1, EndedParts DEF FinishedOnce
<1>4. asked'[request'].head => HeadWaits(stack', pending')
  BY DEF HeadWaits
<1>5. QED
  BY <1>3, <1>4, EndedParts, EndedThen

\* Only parsing and the signals at a response's end can run below a signal while a
\* response is pending.
LEMMA SignalOnTop ==
  ASSUME ClientInductive, pending, NEW i \in 1 .. Len(stack),
         stack[i] = "headersCompleted"
  PROVE  i = 1 /\ Top = "headersCompleted"
<1>1. stack \in Seq(Frames) /\ Shape(stack, pending) /\ Len(stack) \in Nat
  <2>1. stack \in Seq(Frames) /\ Shape(stack, pending)
    BY InductiveNow DEF TypeOK
  <2>2. QED
    BY <2>1, NoElements
<1>2. i + 1 = Len(stack) /\ stack[i + 1] \in Parsing
  BY <1>1 DEF Shape
<1>3. Parses(stack)
  <2>1. i + 1 \in 1 .. Len(stack)
    BY <1>1, <1>2
  <2>2. QED
    BY <1>2, <2>1 DEF Parses
<1>4. 1 \in 1 .. Len(stack) /\ stack[1] \in Frames /\ stack # <<>>
  BY <1>1
<1>5. stack[1] # "finished"
  BY <1>1, <1>3, <1>4 DEF Shape
<1>6. CASE stack[1] \in Parsing \cup {"rejecting"}
  <2>1. 1 = Len(stack)
    BY <1>1, <1>4, <1>6 DEF Shape
  <2>2. i \in 1 .. 1 /\ i + 1 = 1
    BY <1>2, <2>1
  <2>3. QED
    BY <2>2
<1>7. CASE stack[1] \in {"headersCompleted", "contentReadyRead"}
  <2>1. 1 + 1 = Len(stack)
    BY <1>1, <1>4, <1>7 DEF Shape
  <2>2. i + 1 = 1 + 1
    BY <1>2, <2>1, Zenon
  <2>3. i = 1
    <3>1. i \in Int
      OBVIOUS
    <3>2. QED
      BY <2>2, <3>1
  <2>4. QED
    BY <1>1, <1>4, <2>3, TopNow
<1>8. QED
  BY <1>4, <1>5, <1>6, <1>7 DEF Frames, Signals

\* The application aborts no response to HEAD in its headersCompleted, and asks for
\* one request at most while the parser runs.  A step of such an application ends
\* each request at most once.
LEMMA EndedStep ==
  ASSUME AbortsHead = FALSE, AsksTwice = FALSE, ClientInductive, EndedOnce, Next
  PROVE  EndedOnce'
<1>1. stack \in Seq(Frames) /\ Shape(stack, pending) /\ Len(stack) \in Nat
  <2>1. stack \in Seq(Frames) /\ Shape(stack, pending)
    BY InductiveNow DEF TypeOK
  <2>2. QED
    BY <2>1, NoElements
\* What the parser does.
<1>2. ASSUME ParserRuns, UNCHANGED <<requestVars, ended>>
      PROVE  EndedOnce'
  <2>1. pending
    BY <1>2, RunsNow
  <2>2. HeadWaits(stack', pending)
    BY <2>1 DEF HeadWaits
  <2>3. QED
    BY <1>2, <2>2, NoneEnds DEF requestVars
\* What leaves the signals in progress.
<1>3. ASSUME UNCHANGED <<asked, request, deferred, pending, ended, stack>>
      PROVE  EndedOnce'
  <2>1. asked[request].head => HeadWaits(stack', pending)
    BY <1>3, EndedParts
  <2>2. QED
    BY <1>3, <2>1, NoneEnds
\* What returns from a signal.
<1>4. ASSUME UNCHANGED <<asked, request, deferred, pending, ended>>,
             stack # <<>>, Head(stack) \notin Parsing \cup {"rejecting"},
             stack' = Tail(stack)
      PROVE  EndedOnce'
  <2>1. \A j \in 1 .. Len(stack') : j + 1 \in 1 .. Len(stack)
                                    /\ stack'[j] = stack[j + 1]
    BY <1>1, <1>4, SignalGone
  <2>2. asked[request].head => HeadWaits(stack', pending)
    BY <2>1, EndedParts DEF HeadWaits
  <2>3. QED
    BY <1>4, <2>2, NoneEnds
\* finished above one frame that is no signal, or above nothing.
<1>5. ASSUME NEW f \in Seq(Frames), EmitFinished(f), pending, pending' = FALSE,
             UNCHANGED <<asked, request, deferred>>,
             asked[request].head => HeadWaits(f, FALSE)
      PROVE  EndedOnce'
  <2>1. stack' = <<"finished">> \o f /\ ended' = [ended EXCEPT ![request] = @ + 1]
    BY <1>5 DEF EmitFinished
  <2>2. /\ stack'[1] = "finished"
        /\ \A j \in 1 .. Len(stack') :
             j # 1 => j - 1 \in 1 .. Len(f) /\ stack'[j] = f[j - 1]
    <3>1. "finished" \in Frames
      BY DEF Frames, Signals
    <3>2. Len(stack') = Len(f) + 1
      BY <2>1, <3>1, AddedFirst
    <3>3. QED
      BY <2>1, <3>1, <3>2, AddedFirst
  <2>3. asked[request].head => HeadWaits(stack', FALSE)
    BY <1>5, <2>2 DEF HeadWaits
  <2>4. QED
    BY <1>5, <2>1, <2>3, OneEnds
\* A frame that is no signal.
<1>6. ASSUME NEW x \in Parsing \cup {"rejecting"}, NEW f \in Seq(Frames),
             Len(f) = 1, f[1] = x, NEW waiting
      PROVE  HeadWaits(f, waiting)
  <2>1. x # "headersCompleted"
    BY DEF Parsing
  <2>2. QED
    BY <1>6, <2>1 DEF HeadWaits
<1>7. HeadWaits(<<>>, FALSE) /\ <<>> \in Seq(Frames)
  BY DEF HeadWaits
<1>8. CASE Steps
  <2>1. CASE \/ MessageBegin \/ OnHeader \/ OnContinue \/ ContinueComplete
             \/ HeadersComplete \/ OnFraming \/ MessageContent \/ ParserFails
    <3>1. ParserRuns /\ UNCHANGED <<requestVars, ended>>
      BY <2>1 DEF MessageBegin, OnHeader, OnContinue, ContinueComplete,
                  HeadersComplete, OnFraming, MessageContent, ParserFails,
                  ParserMeets
    <3>2. QED
      BY <1>2, <3>1
  <2>2. CASE HeadersHandled
    <3>1. /\ stack # <<>> /\ Head(stack) = "headersCompleted"
          /\ Head(stack) \notin Parsing \cup {"rejecting"}
      BY <1>1, <2>2, TopNow DEF HeadersHandled, Parsing
    <3>2. /\ Tail(stack) \in Seq(Frames) /\ Len(Tail(stack)) = 1
          /\ Tail(stack)[1] \in Parsing
      BY <1>1, <3>1, SignalGone
    <3>3. CASE asked[request].head
      <4>1. /\ UNCHANGED <<asked, request, deferred>> /\ pending' = FALSE
            /\ EmitFinished(Tail(stack))
        BY <2>2, <3>3 DEF HeadersHandled, MessageComplete
      <4>2. pending
        <5>1. 1 \in 1 .. Len(stack) /\ stack[1] = "headersCompleted"
          BY <1>1, <3>1, NoElements
        <5>2. QED
          BY <3>3, <5>1, EndedParts DEF HeadWaits
      <4>3. HeadWaits(Tail(stack), FALSE)
        BY <1>6, <3>2
      <4>4. QED
        BY <1>5, <3>2, <4>1, <4>2, <4>3
    <3>4. CASE ~asked[request].head
      <4>1. UNCHANGED <<asked, request, deferred, pending, ended>>
            /\ stack' = Tail(stack)
        BY <2>2, <3>4 DEF HeadersHandled
      <4>2. QED
        BY <1>4, <3>1, <4>1
    <3>5. QED
      BY <3>3, <3>4
  <2>3. CASE ContentHandled \/ FinishedHandled
    <3>1. /\ Top \in {"contentReadyRead", "finished"}
          /\ UNCHANGED <<asked, request, deferred, pending, ended>>
          /\ stack' = Tail(stack)
      BY <2>3 DEF ContentHandled, FinishedHandled, requestVars
    <3>2. stack # <<>> /\ Head(stack) \notin Parsing \cup {"rejecting"}
      BY <1>1, <3>1, TopNow DEF Parsing
    <3>3. QED
      BY <1>4, <3>1, <3>2
  <2>4. CASE ResponseComplete
    <3>1. /\ ParserRuns /\ UNCHANGED <<asked, request, deferred>>
          /\ pending' = FALSE /\ EmitFinished(stack)
      BY <2>4 DEF ResponseComplete, MessageComplete
    <3>2. pending /\ Top \in Parsing
      BY <3>1, RunsNow
    <3>3. HeadWaits(stack, FALSE)
      BY <1>1, <1>6, <3>2, WorkNow
    <3>4. QED
      BY <1>1, <1>5, <3>1, <3>2, <3>3
  <2>5. CASE InjectAgain
    <3>1. /\ pending /\ stack' = <<"rereading">>
          /\ UNCHANGED <<asked, request, deferred, pending, ended>>
      BY <2>5 DEF InjectAgain, AgainDue, requestVars
    <3>2. HeadWaits(stack', pending)
      BY <3>1 DEF HeadWaits
    <3>3. QED
      BY <3>1, <3>2, NoneEnds
  <2>6. CASE RejectResponse
    <3>1. /\ pending /\ pending' = FALSE /\ UNCHANGED <<asked, request, deferred>>
          /\ EmitFinished(<<"rejecting">>)
      BY <2>6 DEF RejectResponse
    <3>2. /\ <<"rejecting">> \in Seq(Frames) /\ Len(<<"rejecting">>) = 1
          /\ <<"rejecting">>[1] = "rejecting"
      BY DEF Frames
    <3>3. HeadWaits(<<"rejecting">>, FALSE)
      BY <3>2 DEF HeadWaits
    <3>4. QED
      BY <1>5, <3>1, <3>2, <3>3
  <2>7. CASE ReadyReadReturns
    <3>1. stack' = <<>> /\ ended' = ended /\ Release
      BY <2>7 DEF ReadyReadReturns
    <3>2. CASE /\ ~pending /\ deferred # 0 /\ deferred' = 0 /\ UNCHANGED asked
               /\ StartRequest(deferred, asked[deferred])
      <4>1. request' = deferred /\ pending' = TRUE
        BY <3>2 DEF StartRequest
      <4>2. QED
        BY <3>1, <3>2, <4>1, OneReleased
    <3>3. CASE UNCHANGED requestVars
      <4>1. HeadWaits(stack', pending)
        BY <3>1 DEF HeadWaits
      <4>2. QED
        BY <3>1, <3>3, <4>1, NoneEnds DEF requestVars
    <3>4. QED
      BY <3>1, <3>2, <3>3 DEF Release
  <2>8. QED
    BY <1>8, <2>1, <2>2, <2>3, <2>4, <2>5, <2>6, <2>7 DEF Steps
<1>9. CASE Application
  <2>1. ASSUME NEW what \in Request, RequestNow(what)
        PROVE  EndedOnce'
    <3>1. /\ Len(asked) < MaxRequests /\ ~pending /\ ~IsParsing
          /\ asked' = Append(asked, what) /\ ended' = ended
          /\ request' = Len(asked) + 1 /\ pending' = TRUE /\ deferred' = deferred
      BY <2>1 DEF RequestNow, StartRequest
    <3>2. deferred = 0
      BY <3>1 DEF ClientInductive, ParserInStep
    <3>3. asked'[request'].head => HeadWaits(stack', pending')
      BY <3>1 DEF HeadWaits
    <3>4. QED
      BY <3>1, <3>2, <3>3, OneAsked
  <2>2. ASSUME NEW what \in Request, RequestLater(what)
        PROVE  EndedOnce'
    <3>1. /\ Len(asked) < MaxRequests /\ ~pending /\ IsParsing
          /\ asked' = Append(asked, what) /\ ended' = ended
          /\ UNCHANGED <<request, pending, stack>> /\ deferred' = Len(asked) + 1
          /\ deferred = 0
      BY <2>2 DEF RequestLater
    <3>2. asked'[request'].head => HeadWaits(stack', pending')
      <4>1. request \in 1 .. Len(asked) /\ asked \in Seq(Request)
        <5>1. request # 0 /\ asked \in Seq(Request) /\ Len(asked) \in Nat
              /\ request \in 0 .. Len(asked)
          BY <3>1 DEF ClientInductive, ParserInStep, TypeOK
        <5>2. QED
          BY <5>1
      <4>2. asked'[request'] = asked[request]
        BY <3>1, <4>1
      <4>3. QED
        BY <3>1, <4>2, EndedParts
    <3>3. QED
      BY <3>1, <3>2, OneAsked
  <2>3. CASE AbortResponse
    <3>1. /\ pending /\ pending' = FALSE /\ UNCHANGED <<asked, request, deferred>>
          /\ EmitFinished(stack)
          /\ ~(Top = "headersCompleted" /\ asked[request].head)
      BY <2>3 DEF AbortResponse
    <3>2. asked[request].head => HeadWaits(stack, FALSE)
      BY <3>1, SignalOnTop DEF HeadWaits
    <3>3. QED
      BY <1>1, <1>5, <3>1, <3>2
  <2>4. CASE AbortConnection \/ ConsumeContent
    BY <1>3, <2>4 DEF AbortConnection, ConsumeContent, requestVars
  <2>5. QED
    BY <1>9, <2>1, <2>2, <2>3, <2>4 DEF Application
\* device_readyRead() begins.
<1>10. ASSUME NEW units, NEW rest, DeviceReadyRead(units, rest), EventLoop,
              UNCHANGED <<requestVars, ended>>
       PROVE  EndedOnce'
  <2>1. stack = <<>>
    BY <1>10, IdleNow
  <2>2. stack' = <<>> \/ stack' = <<"reading">>
    BY <1>10, <2>1 DEF DeviceReadyRead
  <2>3. asked[request].head => HeadWaits(stack', pending)
    BY <2>2 DEF HeadWaits
  <2>4. QED
    BY <1>10, <2>3, NoneEnds DEF requestVars
<1>11. CASE Receive \/ TimerFires \/ UnaskedInput
  BY <1>10, <1>11 DEF Receive, ReadyRead, TimerFires, UnaskedInput
<1>12. ASSUME NEW e, DeviceError(e)
       PROVE  EndedOnce'
  <2>1. CASE pending
    <3>1. /\ pending' = FALSE /\ UNCHANGED <<asked, request, deferred>>
          /\ EmitFinished(<<>>)
      BY <1>12, <2>1 DEF DeviceError
    <3>2. QED
      BY <1>5, <1>7, <2>1, <3>1
  <2>2. CASE ~pending
    <3>1. UNCHANGED <<asked, request, deferred, pending, ended, stack>>
      BY <1>12, <2>2 DEF DeviceError
    <3>2. QED
      BY <1>3, <3>1
  <2>3. QED
    BY <2>1, <2>2
<1>13. CASE Network
  <2>1. CASE DeviceConnected
    BY <1>3, <2>1 DEF DeviceConnected, requestVars
  <2>2. CASE ConnectFails \/ ConnectionFails \/ RemoteHostCloses
    BY <1>12, <2>2 DEF ConnectFails, ConnectionFails, RemoteHostCloses
  <2>3. QED
    BY <1>11, <1>13, <2>1, <2>2 DEF Network
<1>14. QED
  BY <1>8, <1>9, <1>11, <1>13 DEF Next

\* Each request is reported as finished once, when its response ended, if the
\* application aborts no HEAD in headersCompleted and puts off one request at most
\* (HttpClient::messageComplete, abort, device_error; without the hypotheses it is
\* not so, see client_abort_head.cfg).
THEOREM RequestsFinishOnce ==
  ASSUME AbortsHead = FALSE, AsksTwice = FALSE
  PROVE  Spec => []FinishedOnce
<1>1. Init => EndedOnce
  <2> SUFFICES ASSUME Init
               PROVE  EndedOnce
    OBVIOUS
  <2>1. asked = <<>> /\ deferred = 0 /\ stack = <<>>
        /\ ended = [r \in Requests |-> 0]
    BY DEF Init
  <2>2. Len(asked) = 0 /\ Len(stack) = 0
    BY <2>1
  <2>3. FinishedOnce
    BY <2>2 DEF FinishedOnce
  <2>4. QED
    BY <2>1, <2>2, <2>3 DEF EndedOnce
<1>2. ClientInductive /\ EndedOnce /\ [Next]_vars => EndedOnce'
  <2> SUFFICES ASSUME ClientInductive, EndedOnce, [Next]_vars
               PROVE  EndedOnce'
    OBVIOUS
  <2>1. CASE Next
    BY <2>1, EndedStep
  <2>2. CASE UNCHANGED vars
    <3>1. UNCHANGED <<asked, request, deferred, pending, ended, stack>>
      BY <2>2 DEF vars, requestVars
    <3>2. asked[request].head => HeadWaits(stack', pending)
      BY <3>1, EndedParts
    <3>3. QED
      BY <3>1, <3>2, NoneEnds
  <2>3. QED
    BY <2>1, <2>2
<1>3. EndedOnce => FinishedOnce
  BY EndedParts
<1>4. QED
  BY <1>1, <1>2, <1>3, ClientInductiveInvariant, PTL DEF Spec
=============================================================================
