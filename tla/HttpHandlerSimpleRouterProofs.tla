---------------------- MODULE HttpHandlerSimpleRouterProofs ----------------------
(***************************************************************************)
(* Proofs about HttpHandlerSimpleRouter.                                   *)
(***************************************************************************)
EXTENDS HttpHandlerSimpleRouter, WellFoundedInduction, SequenceTheorems, TLAPS

(***************************************************************************)
(* Functions that are defined by recursion over 0 .. n                     *)
(***************************************************************************)

\* A set of naturals with 0 that is closed under successor has them all.
LEMMA Inductive ==
  ASSUME NEW S, 0 \in S, \A n \in Nat : n \in S => n + 1 \in S
  PROVE  \A n \in Nat : n \in S
<1> DEFINE T == Nat \ S
<1> SUFFICES ASSUME T # {} PROVE FALSE
  OBVIOUS
<1>1. T \subseteq Nat
  OBVIOUS
<1> HIDE DEF T
<1>2. PICK m \in T : \A k \in T : <<k, m>> \notin OpToRel(<, Nat)
  BY <1>1, WFMin, NatLessThanWellFounded, Zenon
<1>3. \A k \in T : ~ (k < m)
  <2> TAKE k \in T
  <2>1. <<k, m>> \in Nat \X Nat
    BY <1>1
  <2>2. <<k, m>>[1] = k /\ <<k, m>>[2] = m
    OBVIOUS
  <2> QED BY <1>2, <2>1, <2>2, Zenon DEF OpToRel
<1>4. m \in Nat /\ m \notin S
  BY DEF T
<1>5. m # 0
  BY <1>4
<1>6. m - 1 \in Nat /\ m - 1 < m /\ (m - 1) + 1 = m
  BY <1>4, <1>5
<1>7. m - 1 \in S
  BY <1>3, <1>6 DEF T
<1>8. QED
  BY <1>4, <1>6, <1>7

\* The same, up to a bound
LEMMA InductiveUpTo ==
  ASSUME NEW n \in Nat, NEW S, 0 \in S, \A m \in 1 .. n : m - 1 \in S => m \in S
  PROVE  \A m \in 0 .. n : m \in S
<1> DEFINE T == {m \in Nat : m <= n => m \in S}
<1>1. 0 \in T
  OBVIOUS
<1>2. \A m \in Nat : m \in T => m + 1 \in T
  <2> TAKE m \in Nat
  <2>1. CASE m + 1 <= n
    <3>1. m + 1 \in 1 .. n /\ (m + 1) - 1 = m /\ m <= n
      BY <2>1
    <3>2. QED BY <3>1
  <2>2. QED BY <2>1
<1> HIDE DEF T
<1>3. \A m \in Nat : m \in T
  BY <1>1, <1>2, Inductive
<1>4. QED
  BY <1>3 DEF T

\* f is what the recursion makes of a and step.
Recursive(f, n, a, step) ==
  f = [i \in 0 .. n |-> IF i = 0 THEN a ELSE step[i][f[i - 1]]]

\* There is such a function.
LEMMA RecursionDefines ==
  ASSUME NEW n \in Nat, NEW D, NEW a \in D, NEW step \in [1 .. n -> [D -> D]]
  PROVE  \E f \in [0 .. n -> D] : Recursive(f, n, a, step)
<1> DEFINE S == {m \in 0 .. n : \E f \in [0 .. m -> D] : Recursive(f, m, a, step)}
<1>1. 0 \in S
  <2> DEFINE f == [i \in 0 .. 0 |-> a]
  <2>1. f \in [0 .. 0 -> D]
    OBVIOUS
  <2>2. Recursive(f, 0, a, step)
    BY DEF Recursive
  <2> HIDE DEF f
  <2>3. QED
    BY <2>1, <2>2
<1>2. ASSUME NEW m \in 1 .. n, m - 1 \in S PROVE m \in S
  <2>1. PICK f \in [0 .. m - 1 -> D] : Recursive(f, m - 1, a, step)
    BY <1>2
  <2> DEFINE g == [i \in 0 .. m |-> IF i = m THEN step[m][f[m - 1]] ELSE f[i]]
  <2>2. m - 1 \in 0 .. m - 1 /\ m \in 0 .. n /\ m # 0
    OBVIOUS
  <2>3. f[m - 1] \in D
    BY <2>2
  <2>4. step[m][f[m - 1]] \in D
    BY <2>3
  <2>5. ASSUME NEW i \in 0 .. m, i # m
        PROVE i \in 0 .. m - 1 /\ f[i] \in D /\ g[i] = f[i]
    <3>1. i \in 0 .. m - 1
      BY <2>5
    <3>2. QED BY <2>5, <3>1
  <2>6. g \in [0 .. m -> D]
    BY <2>4, <2>5
  <2>7. ASSUME NEW i \in 0 .. m
        PROVE g[i] = IF i = 0 THEN a ELSE step[i][g[i - 1]]
    <3>1. CASE i = m
      <4>1. m - 1 \in 0 .. m /\ m - 1 # m
        OBVIOUS
      <4>2. g[m - 1] = f[m - 1]
        BY <2>5, <4>1
      <4>3. QED
        BY <2>2, <3>1, <4>2
    <3>2. CASE i # m /\ i = 0
      <4>1. f[0] = a
        BY <2>1, <2>2 DEF Recursive
      <4>2. QED
        BY <2>5, <3>2, <4>1
    <3>3. CASE i # m /\ i # 0
      <4>1. i \in 0 .. m - 1 /\ g[i] = f[i]
        BY <2>5, <3>3
      <4>2. i - 1 \in 0 .. m /\ i - 1 # m
        BY <3>3
      <4>3. g[i - 1] = f[i - 1]
        BY <2>5, <4>2
      <4>4. f[i] = step[i][f[i - 1]]
        BY <2>1, <4>1, <3>3 DEF Recursive
      <4>5. QED
        BY <3>3, <4>1, <4>3, <4>4
    <3>4. QED
      BY <3>1, <3>2, <3>3
  <2> HIDE DEF g
  <2>8. Recursive(g, m, a, step)
    <3>1. g = [i \in 0 .. m |-> g[i]]
      BY <2>6
    <3>2. QED
      BY <2>7, <3>1 DEF Recursive
  <2>9. QED
    BY <2>2, <2>6, <2>8
<1> HIDE DEF S
<1>3. \A m \in 0 .. n : m \in S
  BY <1>1, <1>2, InductiveUpTo
<1>4. n \in 0 .. n
  OBVIOUS
<1>5. n \in S
  BY <1>3, <1>4
<1>6. QED
  BY <1>5 DEF S

\* What holds of the first value, and of each if it holds of the one before, holds of all.
LEMMA RecursionKeeps ==
  ASSUME NEW n \in Nat, NEW D, NEW f, f[0] \in D,
         \A i \in 1 .. n : f[i - 1] \in D => f[i] \in D
  PROVE  \A i \in 0 .. n : f[i] \in D
<1> DEFINE S == {m \in 0 .. n : f[m] \in D}
<1>1. 0 \in S
  OBVIOUS
<1>2. ASSUME NEW m \in 1 .. n, m - 1 \in S PROVE m \in S
  BY <1>2
<1> HIDE DEF S
<1>3. \A m \in 0 .. n : m \in S
  BY <1>1, <1>2, InductiveUpTo
<1>4. QED
  BY <1>3 DEF S

\* The values of such a function, one by one
LEMMA RecursionSteps ==
  ASSUME NEW n \in Nat, NEW D, NEW a, NEW step,
         NEW f \in [0 .. n -> D], Recursive(f, n, a, step)
  PROVE  /\ f = [i \in 0 .. n |-> f[i]]
         /\ f[0] = a
         /\ \A i \in 1 .. n : f[i - 1] \in D /\ f[i] = step[i][f[i - 1]]
<1>1. f[0] = a
  BY DEF Recursive
<1>2. ASSUME NEW i \in 1 .. n PROVE f[i - 1] \in D /\ f[i] = step[i][f[i - 1]]
  <2>1. i \in 0 .. n /\ i - 1 \in 0 .. n /\ i # 0
    OBVIOUS
  <2>2. QED
    BY <2>1 DEF Recursive
<1>3. QED
  BY <1>1, <1>2

\* f begins with a and goes on by step.
Runs(f, n, D, a, step) ==
  /\ f \in [0 .. n -> D] /\ f = [i \in 0 .. n |-> f[i]]
  /\ f[0] = a
  /\ \A i \in 1 .. n : f[i - 1] \in D /\ f[i] = step[i][f[i - 1]]

LEMMA RecursionRuns ==
  ASSUME NEW n \in Nat, NEW D, NEW a \in D, NEW step \in [1 .. n -> [D -> D]]
  PROVE  \E f : Runs(f, n, D, a, step)
<1>1. PICK f \in [0 .. n -> D] : Recursive(f, n, a, step)
  BY RecursionDefines
<1>2. /\ f = [i \in 0 .. n |-> f[i]]
      /\ f[0] = a
      /\ \A i \in 1 .. n : f[i - 1] \in D /\ f[i] = step[i][f[i - 1]]
  BY <1>1, RecursionSteps
<1>3. QED
  BY <1>2 DEF Runs

(***************************************************************************)
(* InOrder                                                                 *)
(***************************************************************************)

InOrderRow(S, n) ==
  CHOOSE f : f = [i \in 0 .. n |-> IF i = 0 THEN <<>>
                                   ELSE IF i \in S THEN Append(f[i - 1], i) ELSE f[i - 1]]

LEMMA InOrderByRecursion ==
  ASSUME NEW S, NEW n \in Nat
  PROVE  /\ InOrderRow(S, n) \in [0 .. n -> Seq(1 .. n)]
         /\ InOrderRow(S, n)[0] = <<>>
         /\ \A i \in 1 .. n : InOrderRow(S, n)[i] =
              IF i \in S THEN Append(InOrderRow(S, n)[i - 1], i) ELSE InOrderRow(S, n)[i - 1]
         /\ InOrder(S, n) = InOrderRow(S, n)[n]
<1> DEFINE D == Seq(1 .. n)
           Step(i, before) == IF i \in S THEN Append(before, i) ELSE before
           step == [i \in 1 .. n |-> [d \in D |-> Step(i, d)]]
           Def(f) == f = [i \in 0 .. n |-> IF i = 0 THEN <<>> ELSE Step(i, f[i - 1])]
           f0 == InOrderRow(S, n)
<1>1. <<>> \in D
  OBVIOUS
<1>2. ASSUME NEW i \in 1 .. n, NEW d \in D PROVE Step(i, d) \in D
  BY AppendProperties
<1>3. \E f : Def(f)
  <2> HIDE DEF D, Step
  <2>1. step \in [1 .. n -> [D -> D]] /\ \A i \in 1 .. n, d \in D : step[i][d] = Step(i, d)
    BY <1>2
  <2> HIDE DEF step
  <2>2. PICK f : Runs(f, n, D, <<>>, step)
    BY <1>1, <2>1, RecursionRuns
  <2>3. /\ f = [i \in 0 .. n |-> f[i]]
        /\ f[0] = <<>>
        /\ \A i \in 1 .. n : f[i - 1] \in D /\ f[i] = step[i][f[i - 1]]
    BY <2>2 DEF Runs
  <2>4. ASSUME NEW i \in 0 .. n PROVE f[i] = IF i = 0 THEN <<>> ELSE Step(i, f[i - 1])
    <3>1. CASE i = 0
      BY <2>3, <3>1
    <3>2. CASE i # 0
      <4>1. i \in 1 .. n
        BY <3>2
      <4>2. QED
        BY <2>1, <2>3, <3>2, <4>1
    <3>3. QED
      BY <3>1, <3>2
  <2>5. QED
    BY <2>3, <2>4
<1>4. Def(f0)
  BY <1>3, Zenon DEF InOrderRow
<1>5. InOrder(S, n) = f0[n]
  BY Zenon DEF InOrder, InOrderRow
<1> HIDE DEF f0, D, Step
<1>6. f0[0] = <<>> /\ \A i \in 1 .. n : f0[i] = Step(i, f0[i - 1])
  BY <1>4
<1>7. \A i \in 0 .. n : f0[i] \in D
  BY <1>1, <1>2, <1>6, RecursionKeeps
<1>8. f0 \in [0 .. n -> D]
  BY <1>4, <1>7
<1>9. QED
  BY <1>5, <1>6, <1>8 DEF D, f0, Step

\* s lists those of 1 .. n that are in S in their order.
Lists(s, S, n) ==
  /\ s \in Seq(1 .. n)
  /\ \A k \in 1 .. Len(s) : s[k] \in S
  /\ \A i \in 1 .. n : i \in S => \E k \in 1 .. Len(s) : s[k] = i
  /\ \A j, k \in 1 .. Len(s) : j < k => s[j] < s[k]

LEMMA AppendLists ==
  ASSUME NEW S, NEW n \in Nat, NEW m \in 1 .. n, NEW s \in Seq(1 .. n), Lists(s, S, m - 1),
         NEW t \in Seq(1 .. n), t = IF m \in S THEN Append(s, m) ELSE s
  PROVE  Lists(t, S, m)
<1>1. /\ s \in Seq(1 .. m - 1) /\ Len(s) \in Nat
      /\ \A k \in 1 .. Len(s) : s[k] \in 1 .. m - 1 /\ s[k] \in S
  <2> DEFINE M == 1 .. m - 1
  <2>1. s \in Seq(M) /\ \A k \in 1 .. Len(s) : s[k] \in S
    BY Zenon DEF Lists
  <2> HIDE DEF M
  <2>2. Len(s) \in Nat /\ \A k \in 1 .. Len(s) : s[k] \in M
    BY <2>1
  <2>3. QED
    BY <2>1, <2>2 DEF M
<1>2. CASE m \notin S
  <2>1. t = s /\ s \in Seq(1 .. m)
    BY <1>1, <1>2
  <2>2. \A i \in 1 .. m : i \in S => i \in 1 .. m - 1
    BY <1>2
  <2>3. QED
    BY <2>1, <2>2 DEF Lists
<1>3. CASE m \in S
  <2>1. t = Append(s, m)
    BY <1>3
  <2>2. s \in Seq(1 .. m) /\ m \in 1 .. m
    BY <1>1
  <2>3. /\ t \in Seq(1 .. m) /\ Len(t) = Len(s) + 1
        /\ \A k \in 1 .. Len(s) : t[k] = s[k]
        /\ t[Len(s) + 1] = m
    <3> DEFINE M == 1 .. m
    <3>1. s \in Seq(M) /\ m \in M
      BY <2>2
    <3> HIDE DEF M
    <3>2. /\ Append(s, m) \in Seq(M) /\ Len(Append(s, m)) = Len(s) + 1
          /\ \A k \in 1 .. Len(s) : Append(s, m)[k] = s[k]
          /\ Append(s, m)[Len(s) + 1] = m
      BY <3>1, AppendProperties
    <3>3. QED
      BY <2>1, <3>2 DEF M
  <2>4. \A k \in 1 .. Len(t) : t[k] \in S
    <3> TAKE k \in 1 .. Len(t)
    <3>1. CASE k = Len(s) + 1
      BY <1>3, <2>3, <3>1
    <3>2. CASE k # Len(s) + 1
      <4>1. k \in 1 .. Len(s)
        BY <1>1, <2>3, <3>2
      <4>2. QED
        BY <1>1, <2>3, <4>1
    <3>3. QED
      BY <3>1, <3>2
  <2>5. ASSUME NEW i \in 1 .. m, i \in S PROVE \E k \in 1 .. Len(t) : t[k] = i
    <3>1. CASE i = m
      <4>1. Len(s) + 1 \in 1 .. Len(t)
        BY <1>1, <2>3
      <4>2. QED
        BY <2>3, <3>1, <4>1
    <3>2. CASE i # m
      <4>1. i \in 1 .. m - 1
        BY <3>2
      <4>2. PICK k \in 1 .. Len(s) : s[k] = i
        BY <2>5, <4>1 DEF Lists
      <4>3. k \in 1 .. Len(t) /\ t[k] = i
        BY <1>1, <2>3, <4>2
      <4>4. QED
        BY <4>3
    <3>3. QED
      BY <3>1, <3>2
  <2>6. ASSUME NEW j \in 1 .. Len(t), NEW k \in 1 .. Len(t), j < k PROVE t[j] < t[k]
    <3>1. j \in 1 .. Len(s) /\ t[j] = s[j] /\ s[j] < m
      BY <1>1, <2>3, <2>6
    <3>2. CASE k = Len(s) + 1
      BY <2>3, <3>1, <3>2
    <3>3. CASE k # Len(s) + 1
      <4>1. k \in 1 .. Len(s) /\ t[k] = s[k]
        BY <1>1, <2>3, <3>3
      <4>2. QED
        BY <2>6, <3>1, <4>1 DEF Lists
    <3>4. QED
      BY <3>2, <3>3
  <2>7. QED
    BY <2>3, <2>4, <2>5, <2>6 DEF Lists
<1>4. QED
  BY <1>2, <1>3

\* Every row lists what is in S so far.
LEMMA RowsList ==
  ASSUME NEW S, NEW n \in Nat
  PROVE  \A m \in 0 .. n : Lists(InOrderRow(S, n)[m], S, m)
<1> DEFINE row == InOrderRow(S, n)
           D == {m \in 0 .. n : Lists(row[m], S, m)}
<1>1. /\ row \in [0 .. n -> Seq(1 .. n)]
      /\ row[0] = <<>>
      /\ \A i \in 1 .. n : row[i] = IF i \in S THEN Append(row[i - 1], i) ELSE row[i - 1]
  BY InOrderByRecursion
<1> HIDE DEF row
<1>2. Lists(row[0], S, 0)
  <2>1. <<>> \in Seq(1 .. 0) /\ Len(<<>>) = 0
    OBVIOUS
  <2>2. QED
    BY <1>1, <2>1 DEF Lists
<1>3. 0 \in D
  BY <1>2
<1>4. ASSUME NEW m \in 1 .. n, m - 1 \in D PROVE m \in D
  <2>1. m - 1 \in 0 .. n /\ m \in 0 .. n
    OBVIOUS
  <2>2. row[m - 1] \in Seq(1 .. n) /\ row[m] \in Seq(1 .. n)
    BY <1>1, <2>1
  <2>3. Lists(row[m - 1], S, m - 1)
    BY <1>4
  <2>4. row[m] = IF m \in S THEN Append(row[m - 1], m) ELSE row[m - 1]
    BY <1>1
  <2>5. Lists(row[m], S, m)
    BY <2>2, <2>3, <2>4, AppendLists
  <2>6. QED
    BY <2>1, <2>5
<1> HIDE DEF D
<1>5. \A m \in 0 .. n : m \in D
  BY <1>3, <1>4, InductiveUpTo
<1>6. QED
  BY <1>5 DEF D, row

LEMMA InOrderLists ==
  ASSUME NEW S, NEW n \in Nat
  PROVE  Lists(InOrder(S, n), S, n)
<1>1. n \in 0 .. n
  OBVIOUS
<1>2. InOrder(S, n) = InOrderRow(S, n)[n]
  BY InOrderByRecursion
<1>3. Lists(InOrderRow(S, n)[n], S, n)
  BY <1>1, RowsList
<1>4. QED
  BY <1>2, <1>3

LEMMA EmptyList ==
  ASSUME NEW S, NEW n \in Nat, NEW s, Lists(s, S, n)
  PROVE  s = <<>> <=> \A i \in 1 .. n : i \notin S
<1>1. CASE s = <<>>
  BY <1>1 DEF Lists
<1>2. CASE s # <<>>
  <2>1. s \in Seq(1 .. n)
    BY DEF Lists
  <2>2. 1 \in 1 .. Len(s)
    BY <1>2, <2>1, EmptySeq
  <2>3. s[1] \in S /\ s[1] \in 1 .. n
    BY <2>1, <2>2 DEF Lists
  <2>4. QED
    BY <1>2, <2>3
<1>3. QED
  BY <1>1, <1>2

(***************************************************************************)
(* What a refusal says                                                     *)
(***************************************************************************)

\* Initially nothing was handled.
LEMMA InitTyped == Init => TypeOK
<1> SUFFICES ASSUME Init PROVE TypeOK
  OBVIOUS
<1>1. routes \in Seq(Routes) /\ Len(routes) = 0
  BY DEF Init
<1>2. outcome.route \in 0 .. Len(routes)
  BY <1>1 DEF Init, NotHandled
<1>3. actions \in [{"mismatch", "unmatched"} -> {"Return4xxResponse", "Passthrough"}]
  BY DEF Init
<1>4. QED
  BY <1>1, <1>2, <1>3 DEF Init, TypeOK

\* The routes a request matches, and those that take its method too
Matching(r) == {i \in DOMAIN routes : HasMatch(routes[i].pattern, RequestPath(r))}
Taking(r) == {i \in DOMAIN routes : /\ HasMatch(routes[i].pattern, RequestPath(r))
                                    /\ Accepts(routes[i], RequestMethod(r))}

LEMMA ListsOfRoutes ==
  ASSUME TypeOK, NEW r
  PROVE  /\ Lists(MatchedRoutes(r), Matching(r), Len(routes))
         /\ Lists(Accepting(r), Taking(r), Len(routes))
         /\ Len(routes) \in Nat /\ DOMAIN routes = 1 .. Len(routes)
<1>1. Len(routes) \in Nat /\ DOMAIN routes = 1 .. Len(routes)
  BY DEF TypeOK
<1>2. MatchedRoutes(r) = InOrder(Matching(r), Len(routes))
  BY DEF MatchedRoutes, Matching
<1>3. Accepting(r) = InOrder(Taking(r), Len(routes))
  BY DEF Accepting, Taking
<1>4. /\ Lists(InOrder(Matching(r), Len(routes)), Matching(r), Len(routes))
      /\ Lists(InOrder(Taking(r), Len(routes)), Taking(r), Len(routes))
  BY <1>1, InOrderLists
<1>5. QED
  BY <1>1, <1>2, <1>3, <1>4

\* The index of a list of routes is one of a route.
LEMMA FirstAccepting ==
  ASSUME TypeOK, NEW r, Accepting(r) # <<>>
  PROVE  Accepting(r)[1] \in 1 .. Len(routes)
<1>1. Accepting(r) \in Seq(1 .. Len(routes))
  BY ListsOfRoutes DEF Lists
<1>2. 1 \in 1 .. Len(Accepting(r))
  BY <1>1, EmptySeq
<1>3. QED
  BY <1>1, <1>2

LEMMA NextTyped == TypeOK /\ [Next]_vars => TypeOK'
<1> SUFFICES ASSUME TypeOK, [Next]_vars PROVE TypeOK'
  OBVIOUS
<1>1. CASE UNCHANGED vars
  BY <1>1 DEF vars, TypeOK
<1>2. CASE AddRoute
  <2>1. PICK a \in Additions :
          routes' = Append(routes, [method |-> a.method, pattern |-> a.pattern,
                                    target |-> a.target, call |-> CallOf(a.target)])
    BY <1>2 DEF AddRoute
  <2>2. /\ routes \in Seq(Routes)
        /\ [method |-> a.method, pattern |-> a.pattern,
            target |-> a.target, call |-> CallOf(a.target)] \in Routes
    BY DEF TypeOK, Routes
  <2>3. routes' \in Seq(Routes) /\ Len(routes') = Len(routes) + 1 /\ Len(routes) \in Nat
    BY <2>1, <2>2, AppendProperties
  <2>4. outcome'.route \in 0 .. Len(routes')
    BY <1>2, <2>3 DEF AddRoute, TypeOK
  <2>5. QED
    BY <1>2, <2>3, <2>4 DEF AddRoute, TypeOK
<1>3. CASE SetActions
  BY <1>3 DEF SetActions, TypeOK
<1>4. CASE SetAcceptsMethodParam
  BY <1>4 DEF SetAcceptsMethodParam, TypeOK
<1>5. CASE TargetIsDeleted
  <2>1. PICK i \in DOMAIN routes : dead' = dead \cup {routes[i].target}
    BY <1>5 DEF TargetIsDeleted
  <2>2. routes[i] \in Routes
    BY DEF TypeOK
  <2>3. routes[i].target \in {a.target : a \in Additions}
    BY <2>2 DEF Routes
  <2>4. QED
    BY <1>5, <2>1, <2>3 DEF TargetIsDeleted, TypeOK
<1>6. CASE HandleRequest
  <2>1. PICK r \in Incoming :
          /\ request' = r
          /\ Routed(r) \/ Unmatched(r) \/ MethodMismatch(r) \/ Passes(r)
    BY <1>6 DEF HandleRequest
  <2>2. r # NoRequest
    <3>1. r \in [method : Text, path : Text, query : Text]
      BY RouterAssumption
    <3>2. QED
      BY <3>1 DEF NoRequest
  <2>3. Len(routes) \in Nat
    BY DEF TypeOK
  <2>4. outcome'.route \in 0 .. Len(routes)
    <3>1. CASE Routed(r)
      <4>1. outcome'.route = Accepting(r)[1] /\ Accepting(r) # <<>>
        BY <3>1 DEF Routed, NotHandled
      <4>2. QED
        BY <2>3, <4>1, FirstAccepting
    <3>2. CASE Unmatched(r)
      BY <2>3, <3>2 DEF Unmatched, NotRouted, Answer, NotHandled
    <3>3. CASE MethodMismatch(r)
      BY <2>3, <3>3 DEF MethodMismatch, NotRouted, Answer, NotHandled
    <3>4. CASE Passes(r)
      BY <2>3, <3>4 DEF Passes, NotRouted, NotHandled
    <3>5. QED
      BY <2>1, <3>1, <3>2, <3>3, <3>4
  <2>5. QED
    BY <1>6, <2>1, <2>2, <2>4 DEF HandleRequest, router, TypeOK
<1>7. CASE RequestIsOver
  <2>1. Len(routes) \in Nat
    BY DEF TypeOK
  <2>2. outcome'.route \in 0 .. Len(routes)
    BY <1>7, <2>1 DEF RequestIsOver, NotHandled
  <2>3. QED
    BY <1>7, <2>2 DEF RequestIsOver, router, TypeOK
<1>8. QED
  BY <1>1, <1>2, <1>3, <1>4, <1>5, <1>6, <1>7 DEF Next

\* No route accepts: none that matches is there for any method.
LEMMA NoneAccepts ==
  ASSUME TypeOK, NEW r, Accepting(r) = <<>>,
         NEW i \in DOMAIN routes, HasMatch(routes[i].pattern, RequestPath(r))
  PROVE  ~Accepts(routes[i], RequestMethod(r)) /\ routes[i].method # <<>>
<1>1. i \in 1 .. Len(routes) /\ Len(routes) \in Nat
  BY ListsOfRoutes
<1>2. i \notin Taking(r)
  BY <1>1, ListsOfRoutes, EmptyList
<1>3. QED
  BY <1>2 DEF Taking, Accepts

LEMMA NoneMatches ==
  ASSUME TypeOK, NEW r, MatchedRoutes(r) = <<>>, NEW i \in DOMAIN routes
  PROVE  ~HasMatch(routes[i].pattern, RequestPath(r))
<1>1. i \in 1 .. Len(routes) /\ Len(routes) \in Nat
  BY ListsOfRoutes
<1>2. i \notin Matching(r)
  BY <1>1, ListsOfRoutes, EmptyList
<1>3. QED
  BY <1>2 DEF Matching

\* The methods of a 405 are those that would have a route.
LEMMA AllowedWouldDo ==
  ASSUME TypeOK, NEW r, Accepting(r) = <<>>, NEW m, NEW allow,
         allow = AllowedMethods(MatchedRoutes(r))
  PROVE  (\E i \in DOMAIN allow : SameWord(allow[i], m))
           <=> \E i \in DOMAIN routes : /\ HasMatch(routes[i].pattern, RequestPath(r))
                                        /\ Accepts(routes[i], m)
<1> DEFINE matched == MatchedRoutes(r)
<1>1. Lists(matched, Matching(r), Len(routes)) /\ Len(routes) \in Nat /\ DOMAIN routes = 1 .. Len(routes)
  BY ListsOfRoutes
<1> HIDE DEF matched
<1>2. DOMAIN matched = 1 .. Len(matched)
  BY <1>1 DEF Lists
<1>3. DOMAIN allow = 1 .. Len(matched)
      /\ \A k \in 1 .. Len(matched) : allow[k] = routes[matched[k]].method
  BY <1>2 DEF AllowedMethods, matched
<1>4. ASSUME NEW k \in DOMAIN allow, SameWord(allow[k], m)
      PROVE  \E i \in DOMAIN routes : /\ HasMatch(routes[i].pattern, RequestPath(r))
                                      /\ Accepts(routes[i], m)
  <2>1. matched[k] \in Matching(r)
    BY <1>1, <1>3 DEF Lists
  <2>2. matched[k] \in DOMAIN routes /\ HasMatch(routes[matched[k]].pattern, RequestPath(r))
    BY <2>1 DEF Matching
  <2>3. Accepts(routes[matched[k]], m)
    BY <1>3, <1>4 DEF Accepts
  <2>4. QED
    BY <2>2, <2>3
<1>5. ASSUME NEW i \in DOMAIN routes, HasMatch(routes[i].pattern, RequestPath(r)),
             Accepts(routes[i], m)
      PROVE  \E k \in DOMAIN allow : SameWord(allow[k], m)
  <2>1. SameWord(routes[i].method, m)
    BY <1>5, NoneAccepts DEF Accepts
  <2>2. i \in Matching(r)
    BY <1>5 DEF Matching
  <2>3. PICK k \in 1 .. Len(matched) : matched[k] = i
    BY <1>1, <2>2 DEF Lists
  <2>4. QED
    BY <1>3, <2>1, <2>3
<1>6. QED
  BY <1>4, <1>5

LEMMA NextRefuses == TypeOK /\ RefusedForTheReasonGiven /\ [Next]_vars => RefusedForTheReasonGiven'
<1> SUFFICES ASSUME TypeOK, RefusedForTheReasonGiven, [Next]_vars
             PROVE  RefusedForTheReasonGiven'
  OBVIOUS
<1>1. CASE UNCHANGED vars
  BY <1>1 DEF vars, RefusedForTheReasonGiven, RequestMethod, RequestPath
<1>2. CASE HandleRequest
  <2>1. PICK r \in Incoming :
          /\ request' = r
          /\ Routed(r) \/ Unmatched(r) \/ MethodMismatch(r) \/ Passes(r)
    BY <1>2 DEF HandleRequest
  <2>2. routes' = routes /\ acceptMethodParam' = acceptMethodParam
    BY <1>2 DEF HandleRequest, router
  <2> DEFINE path == RequestPath(r)
             method == RequestMethod(r)
             methods == {i.method : i \in Incoming} \cup {a.method : a \in Additions}
             WouldDo(m) == \E i \in DOMAIN routes : /\ HasMatch(routes[i].pattern, path)
                                                    /\ Accepts(routes[i], m)
             Named(allow, m) == \E i \in DOMAIN allow : SameWord(allow[i], m)
             Says(out) == /\ ~WouldDo(method)
                          /\ out.status = 405 => \A m \in methods : Named(out.allow, m) <=> WouldDo(m)
                          /\ out.status = 404 => \A m \in methods : ~WouldDo(m)
                          /\ out.status # 0 <=> out.returned
  <2>3. RequestPath(request)' = path /\ RequestMethod(request)' = method
    BY <2>1, <2>2 DEF RequestPath, RequestMethod
  <2>4. SUFFICES ASSUME outcome'.route = 0 PROVE Says(outcome')
    BY <2>2, <2>3 DEF RefusedForTheReasonGiven
  <2>5. Accepting(r) = <<>>
    <3>1. CASE Routed(r)
      <4>1. outcome'.route = Accepting(r)[1] /\ Accepting(r) # <<>>
        BY <3>1 DEF Routed, NotHandled
      <4>2. Accepting(r)[1] \in 1 .. Len(routes) /\ Len(routes) \in Nat
        BY <4>1, FirstAccepting DEF TypeOK
      <4>3. QED
        BY <2>4, <4>1, <4>2
    <3>2. QED
      BY <2>1, <3>1 DEF Unmatched, MethodMismatch, Passes, NotRouted
  <2>6. ~WouldDo(method)
    BY <2>5, NoneAccepts
  <2>7. CASE Unmatched(r)
    <3>1. outcome'.status = 404 /\ outcome'.returned
      BY <2>7 DEF Unmatched, NotRouted, Answer, NotHandled
    <3>2. \A m : ~WouldDo(m)
      BY <2>7, NoneMatches DEF Unmatched
    <3>3. QED
      BY <2>6, <3>1, <3>2
  <2>8. CASE MethodMismatch(r)
    <3>1. outcome'.status = 405 /\ outcome'.returned
          /\ outcome'.allow = AllowedMethods(MatchedRoutes(r))
      BY <2>8 DEF MethodMismatch, NotRouted, Answer, NotHandled
    <3>2. \A m : Named(outcome'.allow, m) <=> WouldDo(m)
      BY <2>5, <3>1, AllowedWouldDo
    <3>3. QED
      BY <2>6, <3>1, <3>2
  <2>9. CASE Passes(r)
    <3>1. outcome'.status = 0 /\ outcome'.returned = FALSE
      BY <2>9 DEF Passes, NotRouted, NotHandled
    <3>2. QED
      BY <2>6, <3>1
  <2>10. CASE Routed(r)
    BY <2>5, <2>10 DEF Routed
  <2>11. QED
    BY <2>1, <2>7, <2>8, <2>9, <2>10
<1>3. CASE RequestIsOver
  BY <1>3 DEF RequestIsOver, RefusedForTheReasonGiven
<1>4. CASE AddRoute \/ SetActions \/ SetAcceptsMethodParam \/ TargetIsDeleted
  <2>1. request' = NoRequest
    BY <1>4 DEF AddRoute, SetActions, SetAcceptsMethodParam, TargetIsDeleted
  <2>2. QED
    BY <2>1 DEF RefusedForTheReasonGiven
<1>5. QED
  BY <1>1, <1>2, <1>3, <1>4 DEF Next

\* The router's variables keep their kinds.
THEOREM RouterIsTyped == Spec => []TypeOK
<1>1. Init => TypeOK
  BY InitTyped
<1>2. TypeOK /\ [Next]_vars => TypeOK'
  BY NextTyped
<1>3. QED
  BY <1>1, <1>2, PTL DEF Spec

\* A request without a route is one no route matches and accepts; a 405 names the
\* methods the path has routes for, and no others; a 404 says there are none (the loop
\* and the two error actions of handleRequest(), with any routes and requests).
THEOREM RefusalsGiveTheirReason == Spec => []RefusedForTheReasonGiven
<1>1. Init => RefusedForTheReasonGiven
  BY DEF Init, RefusedForTheReasonGiven
<1>2. TypeOK /\ RefusedForTheReasonGiven /\ [Next]_vars => RefusedForTheReasonGiven'
  BY NextRefuses
<1>3. QED
  BY <1>1, <1>2, RouterIsTyped, PTL DEF Spec

(***************************************************************************)
(* Texts                                                                   *)
(***************************************************************************)

\* That the symbols decoding makes are strings is nothing the provers know.
Symbols == STRING \cup {"LF", "%", "/", "g", "other"}
Texts == Seq(Symbols)

LEMMA TextsAreTexts ==
  ASSUME NEW s \in Text
  PROVE  s \in Texts
  BY DEF Text, Texts, Symbols

(***************************************************************************)
(* The least and the greatest of some numbers                              *)
(***************************************************************************)

LEMMA MaxIsGreatest ==
  ASSUME NEW m \in Nat, NEW S \in SUBSET (1 .. m), S # {}
  PROVE  Max(S) \in S
<1> DEFINE Greatest(x, k) == x <= k /\ \A y \in S : y <= k => x >= y
           D == {k \in 0 .. m : (\A y \in S : y > k) \/ \E x \in S : Greatest(x, k)}
<1>1. 0 \in D
  OBVIOUS
<1>2. ASSUME NEW k \in 1 .. m, k - 1 \in D PROVE k \in D
  <2>1. CASE k \in S
    <3>1. k \in S /\ Greatest(k, k)
      BY <2>1
    <3> HIDE DEF Greatest
    <3>2. QED
      BY <3>1
  <2>2. CASE k \notin S
    <3>1. \A y \in S : y <= k => y <= k - 1
      BY <2>2
    <3>2. CASE \A y \in S : y > k - 1
      BY <3>1, <3>2
    <3>3. CASE \E x \in S : Greatest(x, k - 1)
      <4>1. PICK x \in S : Greatest(x, k - 1)
        BY <3>3
      <4>2. Greatest(x, k)
        BY <3>1, <4>1
      <4>3. QED
        BY <4>2
    <3>4. QED
      BY <1>2, <3>2, <3>3
  <2>3. QED
    BY <2>1, <2>2
<1> HIDE DEF D
<1>3. \A k \in 0 .. m : k \in D
  BY <1>1, <1>2, InductiveUpTo
<1>4. m \in D
  <2>1. m \in 0 .. m
    OBVIOUS
  <2>2. QED
    BY <1>3, <2>1
<1>5. PICK x \in S : Greatest(x, m)
  <2>1. PICK y \in S : y \in 1 .. m
    OBVIOUS
  <2>2. ~(y > m)
    BY <2>1
  <2> HIDE DEF Greatest
  <2>3. QED
    BY <1>4, <2>2 DEF D
<1>6. \A y \in S : x >= y
  BY <1>5
<1>7. QED
  BY <1>6 DEF Max

LEMMA MinIsLeast ==
  ASSUME NEW m \in Nat, NEW S \in SUBSET (1 .. m), S # {}
  PROVE  Min(S) \in S /\ \A y \in S : Min(S) <= y
<1> DEFINE D == {k \in 0 .. m : (\A y \in S : y > k) \/ \E x \in S : \A y \in S : x =< y}
<1>1. 0 \in D
  OBVIOUS
<1>2. ASSUME NEW k \in 1 .. m, k - 1 \in D PROVE k \in D
  <2>1. CASE \E x \in S : \A y \in S : x =< y
    BY <2>1
  <2>2. CASE \A y \in S : y > k - 1
    <3>1. CASE k \in S
      <4>1. \A y \in S : k =< y
        BY <2>2
      <4>2. QED
        BY <3>1, <4>1
    <3>2. CASE k \notin S
      <4>1. \A y \in S : y > k
        BY <2>2, <3>2
      <4>2. QED
        BY <4>1
    <3>3. QED
      BY <3>1, <3>2
  <2>3. QED
    BY <1>2, <2>1, <2>2
<1> HIDE DEF D
<1>3. \A k \in 0 .. m : k \in D
  BY <1>1, <1>2, InductiveUpTo
<1>4. m \in D
  <2>1. m \in 0 .. m
    OBVIOUS
  <2>2. QED
    BY <1>3, <2>1
<1>5. \E x \in S : \A y \in S : x =< y
  <2>1. PICK y \in S : y \in 1 .. m
    OBVIOUS
  <2>2. ~(y > m)
    BY <2>1
  <2>3. (\A z \in S : z > m) \/ \E x \in S : \A z \in S : x =< z
    BY <1>4, Zenon DEF D
  <2>4. QED
    BY <2>2, <2>3
<1>6. QED
  BY <1>5 DEF Min

(***************************************************************************)
(* How a pattern divides a path                                            *)
(***************************************************************************)

LEMMA EndsInPath ==
  ASSUME NEW path \in Texts, NEW e, NEW j \in 1 .. Len(path) + 1,
         e.kind \in {"literal", "param", "splat"}
  PROVE  Ends(e, path, j) \subseteq j .. Len(path) + 1
<1>1. Len(path) \in Nat
  BY DEF Texts
<1>2. CASE e.kind = "literal"
  BY <1>1, <1>2 DEF Ends
<1>3. CASE e.kind = "param"
  BY <1>1, <1>3 DEF Ends
<1>4. CASE e.kind = "splat"
  BY <1>1, <1>4 DEF Ends
<1>5. QED
  BY <1>2, <1>3, <1>4

\* The recursion of Fits
LEMMA FitsByRecursion ==
  ASSUME NEW pattern \in Seq(Elements), NEW path \in Texts
  PROVE  /\ Fits(pattern, path) \in [0 .. Len(pattern) -> SUBSET (1 .. Len(path) + 1)]
         /\ Fits(pattern, path)[0] = MatchEnds(path)
         /\ \A i \in 1 .. Len(pattern) :
              Fits(pattern, path)[i] =
                {j \in 1 .. Len(path) + 1 :
                   Ends(pattern[Len(pattern) - i + 1], path, j) \cap Fits(pattern, path)[i - 1] # {}}
<1> DEFINE n == Len(pattern)
           J == 1 .. Len(path) + 1
           Step(i, rest) == {j \in J : Ends(pattern[n - i + 1], path, j) \cap rest # {}}
           R == SUBSET J
           last == MatchEnds(path)
           step == [i \in 1 .. n |-> [d \in R |-> Step(i, d)]]
           Def(f) == f = [i \in 0 .. n |-> IF i = 0 THEN last ELSE Step(i, f[i - 1])]
           f0 == Fits(pattern, path)
<1>1. n \in Nat /\ last \in R
  BY DEF Texts, MatchEnds
<1>2. ASSUME NEW i \in 1 .. n, NEW d \in R PROVE Step(i, d) \in R
  OBVIOUS
<1>3. \E f : Def(f)
  <2> HIDE DEF n, R, last, Step
  <2>1. step \in [1 .. n -> [R -> R]] /\ \A i \in 1 .. n, d \in R : step[i][d] = Step(i, d)
    BY <1>2
  <2> HIDE DEF step
  <2>2. PICK f : Runs(f, n, R, last, step)
    BY <1>1, <2>1, RecursionRuns
  <2>3. /\ f = [i \in 0 .. n |-> f[i]]
        /\ f[0] = last
        /\ \A i \in 1 .. n : f[i - 1] \in R /\ f[i] = step[i][f[i - 1]]
    BY <2>2 DEF Runs
  <2>4. ASSUME NEW i \in 0 .. n
        PROVE  f[i] = IF i = 0 THEN last ELSE Step(i, f[i - 1])
    <3>1. CASE i = 0
      BY <2>3, <3>1
    <3>2. CASE i # 0
      <4>1. i \in 1 .. n
        BY <1>1, <3>2
      <4>2. QED
        BY <2>1, <2>3, <3>2, <4>1
    <3>3. QED
      BY <3>1, <3>2
  <2>5. QED
    BY <2>3, <2>4
<1>4. Def(f0)
  BY <1>3, Zenon DEF Fits
<1> HIDE DEF n, f0, R, last, Step
<1>5. f0[0] = last /\ \A i \in 1 .. n : f0[i] = Step(i, f0[i - 1])
  BY <1>1, <1>4
<1>6. \A i \in 0 .. n : f0[i] \in R
  BY <1>1, <1>2, <1>5, RecursionKeeps
<1>7. f0 \in [0 .. n -> R]
  BY <1>4, <1>6
<1>8. QED
  BY <1>5, <1>7 DEF f0, R, n, last, Step

\* b says where the elements of the pattern begin, one after the other.
Divides(b, pattern, path) ==
  /\ b \in [1 .. Len(pattern) + 1 -> 1 .. Len(path) + 1]
  /\ b[1] = 1
  /\ b[Len(pattern) + 1] \in MatchEnds(path)
  /\ \A i \in 1 .. Len(pattern) : b[i + 1] \in Ends(pattern[i], path, b[i])

EndsRow(pattern, path) ==
  CHOOSE f : f = [i \in 0 .. Len(pattern) |->
                    IF i = 0 THEN 1
                    ELSE Max(Ends(pattern[i], path, f[i - 1]) \cap Fits(pattern, path)[Len(pattern) - i])]

\* The recursion of Begins; the greatest of no number is some value too.
LEMMA EndsByRecursion ==
  ASSUME NEW pattern \in Seq(Elements), NEW path \in Texts
  PROVE  /\ EndsRow(pattern, path) = [i \in 0 .. Len(pattern) |-> EndsRow(pattern, path)[i]]
         /\ EndsRow(pattern, path)[0] = 1
         /\ \A i \in 1 .. Len(pattern) :
              EndsRow(pattern, path)[i] =
                Max(Ends(pattern[i], path, EndsRow(pattern, path)[i - 1])
                      \cap Fits(pattern, path)[Len(pattern) - i])
         /\ Begins(pattern, path) = [i \in 1 .. Len(pattern) + 1 |-> EndsRow(pattern, path)[i - 1]]
<1> DEFINE n == Len(pattern)
           J == 1 .. Len(path) + 1
           R == J \cup {Max({})}
           first == 1
           Step(i, d) == Max(Ends(pattern[i], path, d) \cap Fits(pattern, path)[n - i])
           step == [i \in 1 .. n |-> [d \in R |-> Step(i, d)]]
           Def(f) == f = [i \in 0 .. n |-> IF i = 0 THEN first ELSE Step(i, f[i - 1])]
           f0 == EndsRow(pattern, path)
<1>1. n \in Nat /\ first \in R
  BY DEF Texts
<1>2. ASSUME NEW i \in 1 .. n, NEW d \in R PROVE Step(i, d) \in R
  <2> DEFINE S == Ends(pattern[i], path, d) \cap Fits(pattern, path)[n - i]
  <2>1. n - i \in 0 .. n
    BY <1>1
  <2>2. S \subseteq J
    BY <2>1, FitsByRecursion
  <2> HIDE DEF S
  <2>3. Len(path) + 1 \in Nat
    BY DEF Texts
  <2>4. CASE S = {}
    BY <2>4 DEF S
  <2>5. CASE S # {}
    <3>1. Max(S) \in S
      BY <2>2, <2>3, <2>5, MaxIsGreatest
    <3>2. QED
      BY <2>2, <3>1 DEF S
  <2>6. QED
    BY <2>4, <2>5
<1>3. \E f : Def(f)
  <2> HIDE DEF n, R, first, Step
  <2>1. step \in [1 .. n -> [R -> R]] /\ \A i \in 1 .. n, d \in R : step[i][d] = Step(i, d)
    BY <1>2
  <2> HIDE DEF step
  <2>2. PICK f : Runs(f, n, R, first, step)
    BY <1>1, <2>1, RecursionRuns
  <2>3. /\ f = [i \in 0 .. n |-> f[i]]
        /\ f[0] = first
        /\ \A i \in 1 .. n : f[i - 1] \in R /\ f[i] = step[i][f[i - 1]]
    BY <2>2 DEF Runs
  <2>4. ASSUME NEW i \in 0 .. n
        PROVE  f[i] = IF i = 0 THEN first ELSE Step(i, f[i - 1])
    <3>1. CASE i = 0
      BY <2>3, <3>1
    <3>2. CASE i # 0
      <4>1. i \in 1 .. n
        BY <1>1, <3>2
      <4>2. QED
        BY <2>1, <2>3, <3>2, <4>1
    <3>3. QED
      BY <3>1, <3>2
  <2>5. QED
    BY <2>3, <2>4
<1>4. Def(f0)
  BY <1>3, Zenon DEF EndsRow
<1>5. Begins(pattern, path) = [i \in 1 .. n + 1 |-> f0[i - 1]]
  BY Zenon DEF Begins, EndsRow
<1> HIDE DEF n, f0, R, Step
<1>6. f0[0] = 1 /\ \A i \in 1 .. n : f0[i] = Step(i, f0[i - 1])
  BY <1>1, <1>4
<1>7. f0 = [i \in 0 .. n |-> f0[i]]
  BY <1>4
<1>8. QED
  BY <1>5, <1>6, <1>7 DEF f0, n, Step

\* The last elements fit from where the ones before end.
LEMMA EndsFit ==
  ASSUME NEW pattern \in Seq(Elements), NEW path \in Texts, HasMatch(pattern, path)
  PROVE  /\ \A i \in 0 .. Len(pattern) :
              EndsRow(pattern, path)[i] \in Fits(pattern, path)[Len(pattern) - i]
         /\ \A i \in 1 .. Len(pattern) :
              EndsRow(pattern, path)[i] \in Ends(pattern[i], path, EndsRow(pattern, path)[i - 1])
<1> DEFINE n == Len(pattern)
           J == 1 .. Len(path) + 1
           ends == EndsRow(pattern, path)
           fits == Fits(pattern, path)
           D == {i \in 0 .. n : ends[i] \in fits[n - i]}
<1>1. n \in Nat /\ Len(path) + 1 \in Nat
  BY DEF Texts
<1>2. /\ fits \in [0 .. n -> SUBSET J]
      /\ \A i \in 1 .. n :
           fits[i] = {j \in J : Ends(pattern[n - i + 1], path, j) \cap fits[i - 1] # {}}
  BY FitsByRecursion
<1>3. /\ ends[0] = 1
      /\ \A i \in 1 .. n : ends[i] = Max(Ends(pattern[i], path, ends[i - 1]) \cap fits[n - i])
  BY EndsByRecursion
<1>4. 1 \in fits[n]
  BY DEF HasMatch
<1> HIDE DEF n, ends, fits
<1>5. 0 \in D
  BY <1>1, <1>3, <1>4
<1>6. ASSUME NEW i \in 1 .. n, i - 1 \in D
      PROVE  ends[i] \in Ends(pattern[i], path, ends[i - 1]) \cap fits[n - i]
  <2> DEFINE S == Ends(pattern[i], path, ends[i - 1]) \cap fits[n - i]
  <2>1. /\ n - i + 1 \in 1 .. n /\ n - i \in 0 .. n /\ (n - i + 1) - 1 = n - i
        /\ n - (n - i + 1) + 1 = i /\ n - (i - 1) = n - i + 1
    BY <1>1
  <2>2. ends[i - 1] \in fits[n - i + 1]
    BY <1>6, <2>1
  <2>3. S # {}
    <3>1. fits[n - i + 1] =
            {j \in J : Ends(pattern[n - (n - i + 1) + 1], path, j) \cap fits[(n - i + 1) - 1] # {}}
      BY <1>2, <2>1
    <3>2. fits[n - i + 1] = {j \in J : Ends(pattern[i], path, j) \cap fits[n - i] # {}}
      BY <2>1, <3>1
    <3>3. QED
      BY <2>2, <3>2
  <2>4. S \subseteq J
    BY <1>2, <2>1
  <2>5. ends[i] = Max(S)
    BY <1>3
  <2> HIDE DEF S
  <2>6. Max(S) \in S
    BY <1>1, <2>3, <2>4, MaxIsGreatest
  <2>7. QED
    BY <2>5, <2>6 DEF S
<1>7. ASSUME NEW i \in 1 .. n, i - 1 \in D PROVE i \in D
  BY <1>1, <1>6, <1>7
<1>8. \A i \in 0 .. n : i \in D
  <2> HIDE DEF D
  <2>1. QED
    BY <1>1, <1>5, <1>7, InductiveUpTo
<1>9. ASSUME NEW i \in 1 .. n PROVE ends[i] \in Ends(pattern[i], path, ends[i - 1])
  <2>1. i - 1 \in D
    BY <1>1, <1>8
  <2>2. QED
    BY <1>6, <2>1
<1>10. \A i \in 0 .. n : ends[i] \in fits[n - i]
  BY <1>8
<1>11. QED
  BY <1>9, <1>10 DEF n, ends, fits

\* What matches is divided among the elements.
LEMMA MatchDivides ==
  ASSUME NEW pattern \in Seq(Elements), NEW path \in Texts, HasMatch(pattern, path)
  PROVE  Divides(Begins(pattern, path), pattern, path)
<1> DEFINE n == Len(pattern)
           J == 1 .. Len(path) + 1
           ends == EndsRow(pattern, path)
           fits == Fits(pattern, path)
           b == Begins(pattern, path)
<1>1. n \in Nat
  OBVIOUS
<1>2. fits \in [0 .. n -> SUBSET J] /\ fits[0] = MatchEnds(path)
  BY FitsByRecursion
<1>3. ends[0] = 1 /\ b = [i \in 1 .. n + 1 |-> ends[i - 1]]
  BY EndsByRecursion
<1>4. /\ \A i \in 0 .. n : ends[i] \in fits[n - i]
      /\ \A i \in 1 .. n : ends[i] \in Ends(pattern[i], path, ends[i - 1])
  BY EndsFit
<1> HIDE DEF n, J, ends, fits, b
<1>5. ASSUME NEW i \in 1 .. n + 1 PROVE b[i] = ends[i - 1] /\ b[i] \in J
  <2>1. i - 1 \in 0 .. n /\ n - (i - 1) \in 0 .. n
    BY <1>1
  <2>2. ends[i - 1] \in fits[n - (i - 1)]
    BY <1>4, <2>1
  <2>3. QED
    BY <1>2, <1>3, <2>1, <2>2
<1>6. b \in [1 .. n + 1 -> J]
  BY <1>3, <1>5
<1>7. b[1] = 1
  BY <1>1, <1>3
<1>8. b[n + 1] \in MatchEnds(path)
  <2>1. n + 1 \in 1 .. n + 1 /\ n \in 0 .. n /\ (n + 1) - 1 = n /\ n - n = 0
    BY <1>1
  <2>2. b[n + 1] = ends[n] /\ ends[n] \in fits[0]
    BY <1>4, <1>5, <2>1
  <2>3. QED
    BY <1>2, <2>2
<1>9. ASSUME NEW i \in 1 .. n PROVE b[i + 1] \in Ends(pattern[i], path, b[i])
  <2>1. i + 1 \in 1 .. n + 1 /\ i \in 1 .. n + 1 /\ (i + 1) - 1 = i
    BY <1>1
  <2>2. b[i + 1] = ends[i] /\ b[i] = ends[i - 1]
    BY <1>5, <2>1
  <2>3. QED
    BY <1>4, <2>2
<1>10. QED
  BY <1>6, <1>7, <1>8, <1>9 DEF Divides, n, J, b

(***************************************************************************)
(* Decoded texts and the parameters of a query                             *)
(***************************************************************************)

LEMMA DecodedIsSymbol ==
  ASSUME NEW high, NEW low
  PROVE  Decoded(high, low) \in Symbols
<1> DEFINE code == Unhex(high) * 16 + Unhex(low)
<1>1. \A c \in Characters : c[1] \in {"LF", "%", "/", "g"}
  BY DEF Characters
<1> HIDE DEF code
<1>2. CASE \E c \in Characters : c[2] = code
  <2>1. (CHOOSE c \in Characters : c[2] = code) \in Characters
    BY <1>2
  <2>2. Decoded(high, low) = (CHOOSE c \in Characters : c[2] = code)[1]
    BY <1>2, Zenon DEF Decoded, code
  <2>3. QED
    BY <1>1, <2>1, <2>2 DEF Symbols
<1>3. CASE ~ \E c \in Characters : c[2] = code
  <2>1. Decoded(high, low) = "other"
    BY <1>3, Zenon DEF Decoded, code
  <2>2. QED
    BY <2>1 DEF Symbols
<1>4. QED
  BY <1>2, <1>3

\* The text from symbol i on, if that of the symbols behind it is rest
DecodedAt(s, i, rest) ==
  IF i > Len(s) THEN <<>>
  ELSE IF s[i] = "%" /\ i + 2 <= Len(s)
       THEN <<Decoded(s[i + 1], s[i + 2])>> \o rest[i + 3]
       ELSE <<s[i]>> \o rest[i + 1]

LEMMA DecodedAtIsText ==
  ASSUME NEW s \in Texts, NEW i \in 1 .. Len(s) + 1, NEW rest,
         \A j \in i + 1 .. Len(s) + 1 : rest[j] \in Texts
  PROVE  DecodedAt(s, i, rest) \in Texts
<1>1. Len(s) \in Nat
  BY DEF Texts
<1>2. CASE i > Len(s)
  BY <1>2 DEF DecodedAt, Texts
<1>3. CASE i <= Len(s) /\ s[i] = "%" /\ i + 2 <= Len(s)
  <2>1. rest[i + 3] \in Texts
    BY <1>1, <1>3
  <2>2. Decoded(s[i + 1], s[i + 2]) \in Symbols
    BY DecodedIsSymbol
  <2>3. <<Decoded(s[i + 1], s[i + 2])>> \in Texts
    BY <2>2 DEF Texts
  <2>4. DecodedAt(s, i, rest) = <<Decoded(s[i + 1], s[i + 2])>> \o rest[i + 3]
    BY <1>1, <1>3 DEF DecodedAt
  <2> DEFINE head == <<Decoded(s[i + 1], s[i + 2])>>
             tail == rest[i + 3]
  <2> HIDE DEF head, tail
  <2>5. head \o tail \in Texts
    BY <2>1, <2>3, ConcatProperties DEF Texts, head, tail
  <2>6. QED
    BY <2>4, <2>5 DEF head, tail
<1>4. CASE i <= Len(s) /\ ~(s[i] = "%" /\ i + 2 <= Len(s))
  <2> DEFINE head == <<s[i]>>
             tail == rest[i + 1]
  <2>1. tail \in Texts
    BY <1>1, <1>4
  <2>2. s[i] \in Symbols
    BY <1>1, <1>4 DEF Texts
  <2>3. head \in Texts
    BY <2>2 DEF Texts
  <2>4. DecodedAt(s, i, rest) = head \o tail
    BY <1>1, <1>4 DEF DecodedAt
  <2> HIDE DEF head, tail
  <2>5. QED
    BY <2>1, <2>3, <2>4, ConcatProperties DEF Texts
<1>5. QED
  BY <1>1, <1>2, <1>3, <1>4

\* Only what is behind it matters.
LEMMA DecodedAtLooksAhead ==
  ASSUME NEW s \in Texts, NEW i \in 1 .. Len(s) + 1, NEW d, NEW e,
         \A j \in i + 1 .. Len(s) + 1 : d[j] = e[j]
  PROVE  DecodedAt(s, i, d) = DecodedAt(s, i, e)
<1>1. Len(s) \in Nat
  BY DEF Texts
<1>2. CASE i > Len(s)
  BY <1>2 DEF DecodedAt
<1>3. CASE i <= Len(s)
  <2>1. i + 1 \in i + 1 .. Len(s) + 1 /\ (i + 2 <= Len(s) => i + 3 \in i + 1 .. Len(s) + 1)
    BY <1>1, <1>3
  <2>2. d[i + 1] = e[i + 1] /\ (i + 2 <= Len(s) => d[i + 3] = e[i + 3])
    BY <2>1
  <2>3. QED
    BY <2>2, Zenon DEF DecodedAt
<1>4. QED
  BY <1>1, <1>2, <1>3

DecodedFrom(s) ==
  CHOOSE f : f = [i \in 1 .. Len(s) + 1 |->
                    IF i > Len(s) THEN <<>>
                    ELSE IF s[i] = "%" /\ i + 2 <= Len(s)
                         THEN <<Decoded(s[i + 1], s[i + 2])>> \o f[i + 3]
                         ELSE <<s[i]>> \o f[i + 1]]

\* There are such texts: the last symbols are decoded first.
LEMMA DecodingDefined ==
  ASSUME NEW s \in Texts
  PROVE  \E f : f = [i \in 1 .. Len(s) + 1 |-> DecodedAt(s, i, f)]
<1> DEFINE n == Len(s)
           I == 1 .. n + 1
           D == [I -> Texts]
           none == [i \in I |-> <<>>]
           Step(k, d) == [d EXCEPT ![n + 1 - k] = DecodedAt(s, n + 1 - k, d)]
           step == [k \in 1 .. n |-> [d \in D |-> Step(k, d)]]
<1>1. n \in Nat
  BY DEF Texts
<1>2. none \in D
  BY DEF Texts
<1>3. ASSUME NEW k \in 1 .. n, NEW d \in D
      PROVE  /\ Step(k, d) \in D
             /\ Step(k, d)[n + 1 - k] = DecodedAt(s, n + 1 - k, d)
             /\ \A j \in I : j # n + 1 - k => Step(k, d)[j] = d[j]
  <2>1. n + 1 - k \in I
    BY <1>1
  <2>2. \A j \in (n + 1 - k) + 1 .. Len(s) + 1 : d[j] \in Texts
    BY <1>1, <2>1
  <2>3. DecodedAt(s, n + 1 - k, d) \in Texts
    BY <2>1, <2>2, DecodedAtIsText
  <2> HIDE DEF n
  <2>4. QED
    BY <2>1, <2>3
<1> HIDE DEF D, none, Step
<1>4. step \in [1 .. n -> [D -> D]] /\ \A k \in 1 .. n, d \in D : step[k][d] = Step(k, d)
  BY <1>3
<1> HIDE DEF n, step
<1>5. PICK f : Runs(f, n, D, none, step)
  BY <1>1, <1>2, <1>4, RecursionRuns
<1>6. f \in [0 .. n -> D] /\ f[0] = none /\ \A k \in 1 .. n : f[k - 1] \in D /\ f[k] = step[k][f[k - 1]]
  BY <1>5 DEF Runs
<1> DEFINE S == {k \in 0 .. n : \A i \in n + 1 - k .. n + 1 : f[k][i] = DecodedAt(s, i, f[k])}
<1>7. 0 \in S
  <2>1. ASSUME NEW i \in n + 1 - 0 .. n + 1 PROVE f[0][i] = DecodedAt(s, i, f[0])
    <3>1. i = n + 1 /\ i \in I /\ i > n
      BY <1>1
    <3>2. f[0][i] = <<>>
      BY <1>6, <3>1 DEF none
    <3>3. QED
      BY <3>1, <3>2 DEF DecodedAt, n
  <2>2. QED
    BY <1>1, <2>1
<1>8. ASSUME NEW k \in 1 .. n, k - 1 \in S PROVE k \in S
  <2> DEFINE m == n + 1 - k
             d == f[k - 1]
             e == f[k]
  <2>1. m \in I /\ k \in 0 .. n /\ n + 1 - (k - 1) = m + 1 /\ m <= n
    BY <1>1
  <2>2. d \in D /\ e = Step(k, d)
    BY <1>4, <1>6
  <2>3. e[m] = DecodedAt(s, m, d) /\ \A j \in I : j # m => e[j] = d[j]
    BY <1>3, <2>2
  <2>4. \A i \in m + 1 .. n + 1 : d[i] = DecodedAt(s, i, d)
    BY <1>8, <2>1
  <2> HIDE DEF m, d, e
  <2>5. ASSUME NEW i \in m .. n + 1 PROVE e[i] = DecodedAt(s, i, e)
    <3>1. i \in I /\ \A j \in i + 1 .. n + 1 : j \in I /\ j # m
      BY <1>1, <2>1
    <3>2. \A j \in i + 1 .. n + 1 : d[j] = e[j]
      BY <2>3, <3>1
    <3>3. DecodedAt(s, i, d) = DecodedAt(s, i, e)
      BY <3>1, <3>2, DecodedAtLooksAhead DEF n
    <3>4. CASE i = m
      BY <2>3, <3>3, <3>4
    <3>5. CASE i # m
      <4>1. i \in m + 1 .. n + 1
        BY <1>1, <2>1, <3>5
      <4>2. QED
        BY <2>3, <2>4, <3>1, <3>3, <3>5, <4>1
    <3>6. QED
      BY <3>4, <3>5
  <2>6. QED
    BY <2>1, <2>5 DEF m, e
<1>9. \A i \in I : f[n][i] = DecodedAt(s, i, f[n])
  <2>1. n \in S
    <3> HIDE DEF S
    <3>1. \A k \in 0 .. n : k \in S
      BY <1>1, <1>7, <1>8, InductiveUpTo
    <3>2. n \in 0 .. n
      BY <1>1
    <3>3. QED
      BY <3>1, <3>2
  <2>2. n + 1 - n = 1
    BY <1>1
  <2>3. QED
    BY <2>1, <2>2
<1>10. f[n] = [i \in I |-> f[n][i]]
  <2>1. f[n] \in D
    BY <1>1, <1>6
  <2>2. QED
    BY <2>1 DEF D
<1> DEFINE g == f[n]
<1>11. (\A i \in I : g[i] = DecodedAt(s, i, g)) /\ g = [i \in I |-> g[i]]
  BY <1>9, <1>10
<1> HIDE DEF g
<1>12. g = [i \in I |-> DecodedAt(s, i, g)]
  BY <1>11
<1>13. QED
  BY <1>12 DEF n

\* What was decoded is a text.
LEMMA DecodedIsText ==
  ASSUME NEW s \in Texts
  PROVE  PercentDecode(s) \in Texts
<1> DEFINE n == Len(s)
           f == DecodedFrom(s)
           S == {k \in 0 .. n : \A i \in n + 1 - k .. n + 1 : f[i] \in Texts}
<1>1. n \in Nat
  BY DEF Texts
<1>2. f = [i \in 1 .. n + 1 |-> DecodedAt(s, i, f)]
  BY DecodingDefined, Zenon DEF DecodedFrom, DecodedAt
<1>3. PercentDecode(s) = f[1]
  BY Zenon DEF PercentDecode, DecodedFrom
<1> HIDE DEF f
<1>4. \A i \in 1 .. n + 1 : f[i] = DecodedAt(s, i, f)
  BY <1>2
<1>5. 0 \in S
  <2>1. ASSUME NEW i \in n + 1 - 0 .. n + 1 PROVE f[i] \in Texts
    <3>1. i = n + 1 /\ i \in 1 .. n + 1 /\ i > n
      BY <1>1
    <3>2. DecodedAt(s, i, f) \in Texts
      BY <3>1 DEF DecodedAt, Texts
    <3>3. QED
      BY <1>4, <3>1, <3>2
  <2>2. QED
    BY <1>1, <2>1
<1>6. ASSUME NEW k \in 1 .. n, k - 1 \in S PROVE k \in S
  <2> DEFINE m == n + 1 - k
  <2>1. m \in 1 .. n + 1 /\ k \in 0 .. n /\ n + 1 - (k - 1) = m + 1
    BY <1>1
  <2>2. \A i \in m + 1 .. n + 1 : f[i] \in Texts
    BY <1>6, <2>1
  <2> HIDE DEF m
  <2>3. f[m] \in Texts
    <3>1. DecodedAt(s, m, f) \in Texts
      BY <2>1, <2>2, DecodedAtIsText
    <3>2. QED
      BY <1>4, <2>1, <3>1
  <2>4. ASSUME NEW i \in m .. n + 1 PROVE f[i] \in Texts
    <3>1. CASE i = m
      BY <2>3, <3>1
    <3>2. CASE i # m
      <4>1. i \in m + 1 .. n + 1
        BY <1>1, <2>1, <3>2
      <4>2. QED
        BY <2>2, <4>1
    <3>3. QED
      BY <3>1, <3>2
  <2>5. QED
    BY <2>1, <2>4 DEF m
<1> HIDE DEF S
<1>7. \A k \in 0 .. n : k \in S
  BY <1>1, <1>5, <1>6, InductiveUpTo
<1>8. n \in S /\ n + 1 - n = 1 /\ 1 \in 1 .. n + 1
  BY <1>1, <1>7
<1>9. f[1] \in Texts
  BY <1>8 DEF S
<1>10. QED
  BY <1>3, <1>9

LEMMA PartIsText ==
  ASSUME NEW s \in Texts, NEW i \in Nat \ {0}, NEW j \in 0 .. Len(s)
  PROVE  SubSeq(s, i, j) \in Texts
<1>1. Len(s) \in Nat /\ \A k \in i .. j : s[k] \in Symbols
  BY DEF Texts
<1>2. QED
  BY <1>1, SubSeqProperties DEF Texts

Pairs == Texts \X Texts

LEMMA ParamIsPair ==
  ASSUME NEW text \in Texts
  PROVE  ParamOf(text) \in Pairs
<1> DEFINE equals == {i \in DOMAIN text : text[i] = "="}
           keyEnd == IF equals = {} THEN Len(text) + 1 ELSE Min(equals)
           key == SubSeq(text, 1, keyEnd - 1)
           value == SubSeq(text, keyEnd + 1, Len(text))
<1>1. Len(text) \in Nat /\ DOMAIN text = 1 .. Len(text)
  BY DEF Texts
<1>2. equals \in SUBSET (1 .. Len(text))
  BY <1>1
<1> HIDE DEF equals
<1>3. keyEnd \in 1 .. Len(text) + 1
  <2>1. CASE equals = {}
    BY <1>1, <2>1
  <2>2. CASE equals # {}
    <3>1. Min(equals) \in equals
      BY <1>1, <1>2, <2>2, MinIsLeast
    <3>2. Min(equals) \in 1 .. Len(text)
      BY <1>2, <3>1
    <3>3. keyEnd = Min(equals)
      BY <2>2
    <3> HIDE DEF keyEnd
    <3>4. QED
      BY <1>1, <3>2, <3>3
  <2>3. QED
    BY <2>1, <2>2
<1>4. ParamOf(text) = <<PercentDecode(key), PercentDecode(value)>>
  BY Zenon DEF ParamOf, equals
<1> HIDE DEF keyEnd
<1>5. /\ 1 \in Nat \ {0} /\ keyEnd - 1 \in 0 .. Len(text)
      /\ keyEnd + 1 \in Nat \ {0} /\ Len(text) \in 0 .. Len(text)
  BY <1>1, <1>3
<1>6. key \in Texts /\ value \in Texts
  BY <1>5, PartIsText
<1> HIDE DEF key, value
<1>7. PercentDecode(key) \in Texts /\ PercentDecode(value) \in Texts
  BY <1>6, DecodedIsText
<1>8. QED
  BY <1>4, <1>7 DEF Pairs

LEMMA QueryIsPairs ==
  ASSUME NEW query \in Texts
  PROVE  QueryParams(query) \in Seq(Pairs)
<1> DEFINE n == Len(query)
           S == {s \in DOMAIN query : s = 1 \/ query[s - 1] = "&"}
           starts == InOrder(S, n)
           Stops(s) == {k \in s .. n : query[k] = "&"} \cup {n + 1}
           Part(i) == ParamOf(SubSeq(query, starts[i], Min(Stops(starts[i])) - 1))
<1>1. n \in Nat
  BY DEF Texts
<1>2. starts \in Seq(1 .. n)
  <2> HIDE DEF S, n
  <2>1. QED
    BY <1>1, InOrderLists DEF Lists
<1>3. QueryParams(query) = [i \in DOMAIN starts |-> Part(i)]
  BY Zenon DEF QueryParams
<1> HIDE DEF starts
<1>4. ASSUME NEW i \in 1 .. Len(starts) PROVE Part(i) \in Pairs
  <2> DEFINE s == starts[i]
             stops == Stops(s)
  <2>1. s \in 1 .. n
    BY <1>2
  <2>2. stops \in SUBSET (s .. n + 1) /\ stops # {}
    BY <1>1, <2>1
  <2> HIDE DEF stops, s, n
  <2>3. stops \in SUBSET (1 .. n + 1) /\ n + 1 \in Nat
    BY <1>1, <2>1, <2>2
  <2>4. Min(stops) \in s .. n + 1
    BY <2>2, <2>3, MinIsLeast
  <2>5. s \in Nat \ {0} /\ Min(stops) - 1 \in 0 .. n
    BY <1>1, <2>1, <2>4
  <2>6. SubSeq(query, s, Min(stops) - 1) \in Texts
    BY <2>5, PartIsText DEF n
  <2>7. QED
    BY <2>6, ParamIsPair DEF s, stops
<1> HIDE DEF Part
<1>5. DOMAIN starts = 1 .. Len(starts) /\ Len(starts) \in Nat
  BY <1>2
<1>6. [i \in 1 .. Len(starts) |-> Part(i)] \in Seq(Pairs)
  BY <1>4, <1>5
<1>7. QED
  BY <1>3, <1>5, <1>6

(***************************************************************************)
(* Parameters that are set one after the other                             *)
(***************************************************************************)

\* The first parameter of that name has that value.
Held(ps, name, value) ==
  \E p \in 1 .. Len(ps) : ps[p] = <<name, value>> /\ \A q \in 1 .. p - 1 : ~SameWord(ps[q][1], name)

LEMMA SameAsItself == ASSUME NEW s PROVE SameWord(s, s)
  BY DEF SameWord

LEMMA HeldIsFound ==
  ASSUME NEW ps \in Seq(Pairs), NEW name, NEW value, Held(ps, name, value)
  PROVE  ParamValue(ps, name) = value
<1>1. PICK p \in 1 .. Len(ps) : ps[p] = <<name, value>> /\ \A q \in 1 .. p - 1 : ~SameWord(ps[q][1], name)
  BY DEF Held
<1>2. DOMAIN ps = 1 .. Len(ps) /\ Len(ps) \in Nat
  OBVIOUS
<1> DEFINE First(i) == SameWord(ps[i][1], name) /\ \A j \in 1 .. i - 1 : ~SameWord(ps[j][1], name)
           c == CHOOSE i \in DOMAIN ps : First(i)
<1>3. ps[p][1] = name /\ ps[p][2] = value
  BY <1>1
<1>4. First(p)
  BY <1>1, <1>3, SameAsItself
<1>5. c \in DOMAIN ps /\ First(c)
  BY <1>2, <1>4
<1>6. ParamValue(ps, name) = ps[c][2]
  <2>1. \E i \in DOMAIN ps : SameWord(ps[i][1], name)
    BY <1>2, <1>4
  <2>2. QED
    BY <2>1, Zenon DEF ParamValue, FieldValue
<1> HIDE DEF c
<1>7. c = p
  <2>1. ~(c < p)
    <3>1. c < p => c \in 1 .. p - 1
      BY <1>2, <1>5
    <3>2. QED
      BY <1>4, <1>5, <3>1
  <2>2. ~(p < c)
    <3>1. p < c => p \in 1 .. c - 1
      BY <1>2, <1>5
    <3>2. QED
      BY <1>4, <1>5, <3>1
  <2>3. QED
    BY <1>2, <1>5, <2>1, <2>2
<1>8. QED
  BY <1>3, <1>6, <1>7

\* Where setRequestParam() puts a parameter
IsSetAt(p, ps, set, name, value) ==
  /\ Len(set) \in {Len(ps), Len(ps) + 1} /\ p \in 1 .. Len(set)
  /\ set[p] = <<name, value>>
  /\ \A q \in 1 .. Len(ps) : q # p => set[q] = ps[q]
  /\ \A q \in 1 .. p - 1 : q \in 1 .. Len(ps) /\ ~SameWord(ps[q][1], name)
  /\ p \in 1 .. Len(ps) => SameWord(ps[p][1], name)

LEMMA SetAt ==
  ASSUME NEW ps \in Seq(Pairs), NEW name \in Texts, NEW value \in Texts
  PROVE  /\ SetParam(ps, name, value) \in Seq(Pairs)
         /\ \E p \in 1 .. Len(ps) + 1 : IsSetAt(p, ps, SetParam(ps, name, value), name, value)
<1> DEFINE places == {i \in DOMAIN ps : SameWord(ps[i][1], name)}
           pair == <<name, value>>
           set == SetParam(ps, name, value)
<1>1. pair \in Pairs
  BY DEF Pairs
<1>2. DOMAIN ps = 1 .. Len(ps) /\ Len(ps) \in Nat /\ places \in SUBSET (1 .. Len(ps))
  OBVIOUS
<1>3. CASE places = {}
  <2>1. set = Append(ps, pair)
    BY <1>3, Zenon DEF SetParam
  <2> HIDE DEF pair, set
  <2>2. /\ set \in Seq(Pairs) /\ Len(set) = Len(ps) + 1
        /\ \A q \in 1 .. Len(ps) : set[q] = ps[q]
        /\ set[Len(ps) + 1] = pair
    BY <1>1, <2>1, AppendProperties
  <2>3. \A q \in 1 .. Len(ps) : ~SameWord(ps[q][1], name)
    BY <1>2, <1>3
  <2> DEFINE p == Len(ps) + 1
  <2>4. p \in 1 .. Len(ps) + 1 /\ p \in 1 .. Len(set) /\ p \notin 1 .. Len(ps)
        /\ \A q \in 1 .. p - 1 : q \in 1 .. Len(ps)
    BY <1>2, <2>2
  <2>5. IsSetAt(p, ps, set, name, value)
    BY <2>2, <2>3, <2>4 DEF IsSetAt, pair
  <2>6. QED
    BY <2>2, <2>4, <2>5 DEF set
<1>4. CASE places # {}
  <2> DEFINE p == Min(places)
  <2>1. set = [ps EXCEPT ![p] = pair]
    BY <1>4, Zenon DEF SetParam
  <2>2. p \in places /\ \A y \in places : p <= y
    <3> HIDE DEF places
    <3>1. QED
      BY <1>2, <1>4, MinIsLeast
  <2> HIDE DEF pair, set, p
  <2>3. p \in 1 .. Len(ps) /\ SameWord(ps[p][1], name)
    BY <1>2, <2>2
  <2>4. /\ set \in Seq(Pairs) /\ Len(set) = Len(ps)
        /\ set[p] = pair
        /\ \A q \in 1 .. Len(ps) : q # p => set[q] = ps[q]
    BY <1>1, <2>1, <2>3, ExceptSeq
  <2>5. ASSUME NEW q \in 1 .. p - 1 PROVE q \in 1 .. Len(ps) /\ ~SameWord(ps[q][1], name)
    <3>1. q \in 1 .. Len(ps) /\ ~(p <= q)
      BY <1>2, <2>3
    <3>2. q \notin places
      BY <2>2, <3>1
    <3>3. QED
      BY <1>2, <3>1, <3>2
  <2>6. p \in 1 .. Len(ps) + 1 /\ p \in 1 .. Len(set)
    BY <1>2, <2>3, <2>4
  <2>7. IsSetAt(p, ps, set, name, value)
    BY <2>3, <2>4, <2>5, <2>6 DEF IsSetAt, pair
  <2>8. QED
    BY <2>4, <2>6, <2>7 DEF set
<1>5. QED
  BY <1>3, <1>4

LEMMA SetHolds ==
  ASSUME NEW ps \in Seq(Pairs), NEW name \in Texts, NEW value \in Texts
  PROVE  Held(SetParam(ps, name, value), name, value)
<1> DEFINE set == SetParam(ps, name, value)
<1>1. PICK p \in 1 .. Len(ps) + 1 : IsSetAt(p, ps, set, name, value)
  BY SetAt
<1> HIDE DEF set
<1>2. /\ p \in 1 .. Len(set)
      /\ set[p] = <<name, value>>
      /\ \A q \in 1 .. Len(ps) : q # p => set[q] = ps[q]
      /\ \A q \in 1 .. p - 1 : q \in 1 .. Len(ps) /\ ~SameWord(ps[q][1], name)
  BY <1>1 DEF IsSetAt
<1>3. ASSUME NEW q \in 1 .. p - 1 PROVE ~SameWord(set[q][1], name)
  <2>1. q # p
    OBVIOUS
  <2>2. set[q] = ps[q]
    BY <1>2, <2>1
  <2>3. QED
    BY <1>2, <2>2
<1>4. Held(set, name, value)
  BY <1>2, <1>3 DEF Held
<1>5. QED
  BY <1>4 DEF set

\* A parameter of another name is not touched.
LEMMA SetKeeps ==
  ASSUME NEW ps \in Seq(Pairs), NEW name \in Texts, NEW value \in Texts,
         NEW other, NEW its, Held(ps, other, its),
         ~SameWord(name, other), ~SameWord(other, name)
  PROVE  Held(SetParam(ps, name, value), other, its)
<1> DEFINE set == SetParam(ps, name, value)
<1>1. PICK p \in 1 .. Len(ps) + 1 : IsSetAt(p, ps, set, name, value)
  BY SetAt
<1>2. /\ Len(set) \in {Len(ps), Len(ps) + 1}
      /\ set[p] = <<name, value>>
      /\ \A q \in 1 .. Len(ps) : q # p => set[q] = ps[q]
      /\ p \in 1 .. Len(ps) => SameWord(ps[p][1], name)
  BY <1>1 DEF IsSetAt
<1>3. PICK o \in 1 .. Len(ps) :
        ps[o] = <<other, its>> /\ \A q \in 1 .. o - 1 : ~SameWord(ps[q][1], other)
  BY DEF Held
<1> HIDE DEF set
<1>4. Len(ps) \in Nat /\ ps[o][1] = other /\ set[p][1] = name
  BY <1>2, <1>3
<1>5. o # p
  BY <1>2, <1>3, <1>4
<1>6. set[o] = <<other, its>> /\ o \in 1 .. Len(set)
  BY <1>2, <1>3, <1>4, <1>5
<1>7. ASSUME NEW q \in 1 .. o - 1 PROVE ~SameWord(set[q][1], other)
  <2>1. q \in 1 .. Len(ps)
    BY <1>4
  <2>2. CASE q = p
    BY <1>4, <2>2
  <2>3. CASE q # p
    <3>1. set[q] = ps[q]
      BY <1>2, <2>1, <2>3
    <3>2. QED
      BY <1>3, <3>1
  <2>4. QED
    BY <2>2, <2>3
<1>8. Held(set, other, its)
  BY <1>6, <1>7 DEF Held
<1>9. QED
  BY <1>8 DEF set

SetRow(ps, names, values) ==
  CHOOSE f : f = [i \in 0 .. Len(names) |->
                    IF i = 0 THEN ps ELSE SetParam(f[i - 1], names[i], values[i])]

\* The loop that sets the parameters
LEMMA SettingByRecursion ==
  ASSUME NEW ps \in Seq(Pairs), NEW names \in Seq(Texts), NEW values,
         \A i \in 1 .. Len(names) : values[i] \in Texts
  PROVE  /\ SetRow(ps, names, values)[0] = ps
         /\ \A i \in 0 .. Len(names) : SetRow(ps, names, values)[i] \in Seq(Pairs)
         /\ \A i \in 1 .. Len(names) :
              SetRow(ps, names, values)[i] =
                SetParam(SetRow(ps, names, values)[i - 1], names[i], values[i])
<1> DEFINE n == Len(names)
           R == Seq(Pairs)
           Step(i, d) == SetParam(d, names[i], values[i])
           step == [i \in 1 .. n |-> [d \in R |-> Step(i, d)]]
           Def(f) == f = [i \in 0 .. n |-> IF i = 0 THEN ps ELSE Step(i, f[i - 1])]
           f0 == SetRow(ps, names, values)
<1>1. n \in Nat /\ ps \in R
  OBVIOUS
<1>2. ASSUME NEW i \in 1 .. n, NEW d \in R PROVE Step(i, d) \in R
  <2>1. names[i] \in Texts /\ values[i] \in Texts
    OBVIOUS
  <2>2. QED
    BY <2>1, SetAt
<1>3. \E f : Def(f)
  <2> HIDE DEF n, R, Step
  <2>1. step \in [1 .. n -> [R -> R]] /\ \A i \in 1 .. n, d \in R : step[i][d] = Step(i, d)
    BY <1>2
  <2> HIDE DEF step
  <2>2. PICK f : Runs(f, n, R, ps, step)
    BY <1>1, <2>1, RecursionRuns
  <2>3. /\ f = [i \in 0 .. n |-> f[i]]
        /\ f[0] = ps
        /\ \A i \in 1 .. n : f[i - 1] \in R /\ f[i] = step[i][f[i - 1]]
    BY <2>2 DEF Runs
  <2>4. ASSUME NEW i \in 0 .. n
        PROVE  f[i] = IF i = 0 THEN ps ELSE Step(i, f[i - 1])
    <3>1. CASE i = 0
      BY <2>3, <3>1
    <3>2. CASE i # 0
      <4>1. i \in 1 .. n
        BY <1>1, <3>2
      <4>2. QED
        BY <2>1, <2>3, <3>2, <4>1
    <3>3. QED
      BY <3>1, <3>2
  <2>5. QED
    BY <2>3, <2>4
<1>4. Def(f0)
  BY <1>3, Zenon DEF SetRow
<1> HIDE DEF n, f0, R, Step
<1>5. f0[0] = ps /\ \A i \in 1 .. n : f0[i] = Step(i, f0[i - 1])
  BY <1>1, <1>4
<1>6. \A i \in 0 .. n : f0[i] \in R
  BY <1>1, <1>2, <1>5, RecursionKeeps
<1>7. QED
  BY <1>5, <1>6 DEF f0, R, n, Step

Distinct(names) ==
  \A i, j \in 1 .. Len(names) : i # j => ~SameWord(names[i], names[j])

\* After the loop every name has its value, if no two are the same.
LEMMA EveryNameHolds ==
  ASSUME NEW ps \in Seq(Pairs), NEW names \in Seq(Texts), NEW values,
         \A i \in 1 .. Len(names) : values[i] \in Texts,
         Distinct(names), NEW c \in 1 .. Len(names)
  PROVE  ParamValue(SetRow(ps, names, values)[Len(names)], names[c]) = values[c]
<1> DEFINE n == Len(names)
           row == SetRow(ps, names, values)
           S == {m \in 0 .. n : \A i \in 1 .. m : Held(row[m], names[i], values[i])}
<1>1. n \in Nat
  OBVIOUS
<1>2. /\ \A i \in 0 .. n : row[i] \in Seq(Pairs)
      /\ \A i \in 1 .. n : row[i] = SetParam(row[i - 1], names[i], values[i])
  BY SettingByRecursion
<1> HIDE DEF row, n
<1>3. 0 \in S
  BY <1>1
<1>4. ASSUME NEW m \in 1 .. n, m - 1 \in S PROVE m \in S
  <2>1. m - 1 \in 0 .. n /\ m \in 0 .. n
    BY <1>1
  <2>2. row[m - 1] \in Seq(Pairs) /\ names[m] \in Texts /\ values[m] \in Texts
    BY <1>2, <2>1 DEF n
  <2>3. row[m] = SetParam(row[m - 1], names[m], values[m])
    BY <1>2
  <2>4. Held(row[m], names[m], values[m])
    BY <2>2, <2>3, SetHolds
  <2>5. ASSUME NEW i \in 1 .. m - 1 PROVE Held(row[m], names[i], values[i])
    <3>1. i \in 1 .. n /\ i # m
      BY <1>1
    <3>2. ~SameWord(names[i], names[m]) /\ ~SameWord(names[m], names[i])
      BY <3>1 DEF Distinct, n
    <3>3. Held(row[m - 1], names[i], values[i])
      BY <1>4
    <3>4. QED
      BY <2>2, <2>3, <3>2, <3>3, SetKeeps
  <2>6. ASSUME NEW i \in 1 .. m PROVE Held(row[m], names[i], values[i])
    <3>1. CASE i = m
      BY <2>4, <3>1
    <3>2. CASE i # m
      <4>1. i \in 1 .. m - 1
        BY <3>2
      <4>2. QED
        BY <2>5, <4>1
    <3>3. QED
      BY <3>1, <3>2
  <2>7. QED
    BY <2>1, <2>6
<1>5. n \in S
  <2> HIDE DEF S
  <2>1. \A m \in 0 .. n : m \in S
    BY <1>1, <1>3, <1>4, InductiveUpTo
  <2>2. n \in 0 .. n
    BY <1>1
  <2>3. QED
    BY <2>1, <2>2
<1>6. Held(row[n], names[c], values[c])
  BY <1>5 DEF n
<1>7. row[n] \in Seq(Pairs)
  BY <1>1, <1>2
<1>8. QED
  BY <1>6, <1>7, HeldIsFound DEF row, n

(***************************************************************************)
(* The names of a pattern                                                  *)
(***************************************************************************)

LEMMA RowsAreLists ==
  ASSUME NEW S, NEW n \in Nat, NEW m \in 0 .. n
  PROVE  InOrderRow(S, n)[m] \in Seq(1 .. n)
BY InOrderByRecursion

\* What comes before can be listed before.
LEMMA ListsJoin ==
  ASSUME NEW n \in Nat, NEW S, NEW T,
         \A i, j \in 1 .. n : i \in S /\ j \in T => i < j
  PROVE  InOrder(S \cup T, n) = InOrder(S, n) \o InOrder(T, n)
<1> DEFINE U == S \cup T
           s == InOrderRow(S, n)
           t == InOrderRow(T, n)
           u == InOrderRow(U, n)
           I == 1 .. n
           Joined(m) == u[m] = s[m] \o t[m]
           D == {m \in 0 .. n : Joined(m)}
<1>1. /\ s[0] = <<>> /\ t[0] = <<>> /\ u[0] = <<>>
      /\ \A i \in 1 .. n :
           /\ s[i] = IF i \in S THEN Append(s[i - 1], i) ELSE s[i - 1]
           /\ t[i] = IF i \in T THEN Append(t[i - 1], i) ELSE t[i - 1]
           /\ u[i] = IF i \in U THEN Append(u[i - 1], i) ELSE u[i - 1]
      /\ InOrder(S, n) = s[n] /\ InOrder(T, n) = t[n] /\ InOrder(U, n) = u[n]
  BY InOrderByRecursion
<1>2. \A m \in 0 .. n : s[m] \in Seq(I) /\ t[m] \in Seq(I) /\ u[m] \in Seq(I)
  BY RowsAreLists
<1>3. \A m \in 0 .. n : Lists(t[m], T, m)
  BY RowsList
<1> HIDE DEF s, t, u
<1>4. 0 \in D
  <2>1. <<>> \o <<>> = <<>>
    OBVIOUS
  <2>2. Joined(0)
    BY <1>1, <2>1, Zenon
  <2> HIDE DEF Joined
  <2>3. QED
    BY <2>2
<1>5. ASSUME NEW m \in 1 .. n, m - 1 \in D PROVE m \in D
  <2> DEFINE a == s[m - 1]
             b == t[m - 1]
  <2>1. m - 1 \in 0 .. n /\ m \in 0 .. n /\ m \in I
    OBVIOUS
  <2>2. a \in Seq(I) /\ b \in Seq(I) /\ u[m - 1] = a \o b
    BY <1>2, <1>5, <2>1
  <2>3. Lists(b, T, m - 1)
    BY <1>3, <2>1
  <2>4. /\ s[m] = IF m \in S THEN Append(a, m) ELSE a
        /\ t[m] = IF m \in T THEN Append(b, m) ELSE b
        /\ u[m] = IF m \in U THEN Append(a \o b, m) ELSE a \o b
    BY <1>1, <2>2
  <2> HIDE DEF a, b, I
  <2>5. Append(a, m) = a \o <<m>> /\ Append(b, m) = b \o <<m>> /\ Append(a \o b, m) = (a \o b) \o <<m>>
    <3>1. a \o b \in Seq(I)
      BY <2>2, ConcatProperties
    <3>2. QED
      BY <2>1, <2>2, <3>1, AppendIsConcat
  <2>6. <<m>> \in Seq(I)
    BY <2>1
  <2>7. CASE m \in S
    <3>1. m \notin T /\ \A i \in 1 .. m - 1 : i \notin T
      BY <2>7 DEF I
    <3>2. b = <<>>
      <4>1. m - 1 \in Nat
        OBVIOUS
      <4>2. QED
        BY <2>3, <3>1, <4>1, EmptyList
    <3>3. s[m] = Append(a, m) /\ t[m] = <<>>
      BY <2>4, <2>7, <3>1, <3>2
    <3>4. u[m] = Append(a \o <<>>, m)
      BY <2>4, <2>7, <3>2
    <3>5. a \o <<>> = a /\ Append(a, m) \o <<>> = Append(a, m)
      <4>1. Append(a, m) \in Seq(I)
        BY <2>1, <2>2, AppendProperties
      <4>2. QED
        BY <2>2, <4>1, ConcatEmptySeq
    <3>6. QED
      BY <2>1, <3>3, <3>4, <3>5
  <2>8. CASE m \notin S /\ m \in T
    <3>1. s[m] = a /\ t[m] = b \o <<m>> /\ u[m] = (a \o b) \o <<m>>
      BY <2>4, <2>5, <2>8
    <3>2. (a \o b) \o <<m>> = a \o (b \o <<m>>)
      BY <2>2, <2>6, ConcatAssociative
    <3>3. QED
      BY <2>1, <3>1, <3>2
  <2>9. CASE m \notin U
    <3>1. s[m] = a /\ t[m] = b /\ u[m] = a \o b
      BY <2>4, <2>9
    <3>2. QED
      BY <2>1, <3>1
  <2>10. QED
    BY <2>7, <2>8, <2>9
<1>6. n \in D
  <2> HIDE DEF D
  <2>1. \A m \in 0 .. n : m \in D
    BY <1>4, <1>5, InductiveUpTo
  <2>2. n \in 0 .. n
    OBVIOUS
  <2>3. QED
    BY <2>1, <2>2
<1>7. QED
  BY <1>1, <1>6

NamedElements(pattern) == {i \in DOMAIN pattern : pattern[i].kind # "literal"}
ElementsOf(pattern, kind) == {i \in DOMAIN pattern : pattern[i].kind = kind}

LEMMA NamesOfKind ==
  ASSUME NEW pattern \in Seq(Elements), NEW kind
  PROVE  LET list == InOrder(ElementsOf(pattern, kind), Len(pattern))
         IN /\ list \in Seq(1 .. Len(pattern))
            /\ Names(pattern, kind) \in Seq(Texts)
            /\ Len(Names(pattern, kind)) = Len(list)
            /\ \A c \in 1 .. Len(list) : Names(pattern, kind)[c] = pattern[list[c]].is
<1> DEFINE n == Len(pattern)
           list == InOrder(ElementsOf(pattern, kind), n)
           name == [c \in 1 .. Len(list) |-> pattern[list[c]].is]
<1>1. n \in Nat
  OBVIOUS
<1>2. list \in Seq(1 .. n)
  <2> HIDE DEF n
  <2>1. QED
    BY <1>1, InOrderLists DEF Lists
<1>3. Names(pattern, kind) = [c \in DOMAIN list |-> pattern[list[c]].is]
  BY Zenon DEF Names, ElementsOf
<1> HIDE DEF list
<1>4. DOMAIN list = 1 .. Len(list) /\ Len(list) \in Nat
  BY <1>2
<1>5. ASSUME NEW c \in 1 .. Len(list) PROVE name[c] = pattern[list[c]].is /\ name[c] \in Texts
  <2>1. list[c] \in 1 .. n
    BY <1>2
  <2>2. pattern[list[c]] \in Elements
    BY <2>1
  <2>3. pattern[list[c]].is \in Text
    BY <2>2 DEF Elements
  <2>4. QED
    BY <2>3, TextsAreTexts
<1>6. name \in Seq(Texts) /\ Len(name) = Len(list)
  BY <1>4, <1>5
<1>7. Names(pattern, kind) = name
  BY <1>3, <1>4
<1>8. QED
  BY <1>2, <1>5, <1>6, <1>7 DEF list

\* The names are those of the elements, in the order of the captures.
LEMMA NamesAsCaptured ==
  ASSUME NEW pattern \in Seq(Elements), Readable(pattern)
  PROVE  LET list == InOrder(NamedElements(pattern), Len(pattern))
         IN /\ ParamNames(pattern) \in Seq(Texts)
            /\ Len(ParamNames(pattern)) = Len(list)
            /\ \A c \in 1 .. Len(list) : ParamNames(pattern)[c] = pattern[list[c]].is
<1> DEFINE n == Len(pattern)
           I == 1 .. n
           P == ElementsOf(pattern, "param")
           S == ElementsOf(pattern, "splat")
           p == InOrder(P, n)
           s == InOrder(S, n)
           list == InOrder(NamedElements(pattern), n)
           np == Names(pattern, "param")
           ns == Names(pattern, "splat")
<1>1. n \in Nat /\ DOMAIN pattern = I
  OBVIOUS
<1>2. NamedElements(pattern) = P \cup S
  <2>1. ASSUME NEW i \in I PROVE pattern[i].kind \in {"literal", "param", "splat"}
    <3>1. pattern[i] \in Elements
      BY <1>1
    <3>2. QED
      BY <3>1 DEF Elements
  <2>2. \A i \in I : pattern[i].kind # "literal" <=> pattern[i].kind = "param" \/ pattern[i].kind = "splat"
    BY <2>1
  <2>3. QED
    BY <1>1, <2>2 DEF NamedElements, ElementsOf
<1>3. ASSUME NEW i \in I, NEW j \in I, i \in P, j \in S PROVE i < j
  <2>1. pattern[i].kind = "param" /\ pattern[j].kind = "splat"
    BY <1>3 DEF ElementsOf
  <2>2. i # j /\ ~(j < i)
    BY <1>1, <2>1 DEF Readable
  <2>3. QED
    BY <2>2
<1>4. list = p \o s
  <2> HIDE DEF n, P, S
  <2>1. QED
    BY <1>1, <1>2, <1>3, ListsJoin
<1>5. /\ p \in Seq(I) /\ np \in Seq(Texts) /\ Len(np) = Len(p)
      /\ \A c \in 1 .. Len(p) : np[c] = pattern[p[c]].is
  BY NamesOfKind
<1>6. /\ s \in Seq(I) /\ ns \in Seq(Texts) /\ Len(ns) = Len(s)
      /\ \A c \in 1 .. Len(s) : ns[c] = pattern[s[c]].is
  BY NamesOfKind
<1>7. ParamNames(pattern) = np \o ns
  BY DEF ParamNames
<1> HIDE DEF I, p, s, list, np, ns
<1>8. /\ np \o ns \in Seq(Texts)
      /\ Len(np \o ns) = Len(np) + Len(ns)
      /\ \A c \in 1 .. Len(np) + Len(ns) :
           (np \o ns)[c] = IF c <= Len(np) THEN np[c] ELSE ns[c - Len(np)]
  <2>1. np \in Seq(Texts) /\ ns \in Seq(Texts)
    BY <1>5, <1>6
  <2>2. QED
    BY <2>1, ConcatProperties
<1>9. /\ Len(p \o s) = Len(p) + Len(s)
      /\ \A c \in 1 .. Len(p) + Len(s) :
           (p \o s)[c] = IF c <= Len(p) THEN p[c] ELSE s[c - Len(p)]
  <2>1. p \in Seq(I) /\ s \in Seq(I)
    BY <1>5, <1>6
  <2>2. QED
    BY <2>1, ConcatProperties
<1>10. Len(p) \in Nat /\ Len(s) \in Nat
  BY <1>5, <1>6
<1>11. ASSUME NEW c \in 1 .. Len(list) PROVE (np \o ns)[c] = pattern[list[c]].is
  <2>1. c \in 1 .. Len(p) + Len(s)
    BY <1>4, <1>9
  <2>2. CASE c <= Len(p)
    <3>1. c \in 1 .. Len(p)
      BY <1>10, <2>1, <2>2
    <3>2. (np \o ns)[c] = np[c] /\ list[c] = p[c]
      BY <1>4, <1>5, <1>6, <1>8, <1>9, <2>1, <2>2
    <3>3. QED
      BY <1>5, <3>1, <3>2
  <2>3. CASE ~(c <= Len(p))
    <3>1. c - Len(p) \in 1 .. Len(s)
      BY <1>10, <2>1, <2>3
    <3>2. (np \o ns)[c] = ns[c - Len(p)] /\ list[c] = s[c - Len(p)]
      BY <1>4, <1>5, <1>6, <1>8, <1>9, <2>1, <2>3
    <3>3. QED
      BY <1>6, <3>1, <3>2
  <2>4. QED
    BY <2>2, <2>3
<1>12. Len(np \o ns) = Len(list)
  BY <1>4, <1>5, <1>6, <1>8, <1>9
<1>13. QED
  BY <1>7, <1>8, <1>11, <1>12 DEF list

(***************************************************************************)
(* The path is made of the parts again                                     *)
(***************************************************************************)

FlatRow(seqs) ==
  CHOOSE f : f = [i \in 1 .. Len(seqs) |-> IF i = 1 THEN seqs[i] ELSE f[i - 1] \o seqs[i]]

LEMMA FlatteningByRecursion ==
  ASSUME NEW seqs \in Seq(Texts), Len(seqs) # 0
  PROVE  /\ FlatRow(seqs)[1] = seqs[1]
         /\ \A i \in 2 .. Len(seqs) : FlatRow(seqs)[i] = FlatRow(seqs)[i - 1] \o seqs[i]
         /\ FlattenSeq(seqs) = FlatRow(seqs)[Len(seqs)]
<1> DEFINE n == Len(seqs)
           m == n - 1
           first == seqs[1]
           Step(i, d) == d \o seqs[i + 1]
           step == [i \in 1 .. m |-> [d \in Texts |-> Step(i, d)]]
           At(i, f) == IF i = 1 THEN seqs[i] ELSE f[i - 1] \o seqs[i]
           Def(f) == f = [i \in 1 .. n |-> At(i, f)]
           f0 == FlatRow(seqs)
<1>1. n \in Nat \ {0} /\ m \in Nat /\ first \in Texts
  OBVIOUS
<1>2. ASSUME NEW i \in 1 .. m, NEW d \in Texts PROVE Step(i, d) \in Texts
  <2>1. seqs[i + 1] \in Texts
    OBVIOUS
  <2>2. QED
    BY <2>1, ConcatProperties DEF Texts
<1>3. \E f : Def(f)
  <2> HIDE DEF m, first, Step
  <2>1. step \in [1 .. m -> [Texts -> Texts]] /\ \A i \in 1 .. m, d \in Texts : step[i][d] = Step(i, d)
    BY <1>2
  <2> HIDE DEF step
  <2>2. PICK f : Runs(f, m, Texts, first, step)
    BY <1>1, <2>1, RecursionRuns
  <2>3. /\ f \in [0 .. m -> Texts] /\ f[0] = first
        /\ \A i \in 1 .. m : f[i - 1] \in Texts /\ f[i] = step[i][f[i - 1]]
    BY <2>2 DEF Runs
  <2> DEFINE g == [i \in 1 .. n |-> f[i - 1]]
  <2>4. ASSUME NEW i \in 1 .. n PROVE g[i] = At(i, g)
    <3>1. g[i] = f[i - 1]
      OBVIOUS
    <3>2. CASE i = 1
      BY <2>3, <3>1, <3>2 DEF first
    <3>3. CASE i # 1
      <4>1. i - 1 \in 1 .. m /\ i - 1 \in 1 .. n /\ (i - 1) + 1 = i
        BY <1>1, <3>3 DEF m
      <4>2. f[i - 1] = step[i - 1][f[(i - 1) - 1]] /\ f[(i - 1) - 1] \in Texts
        BY <2>3, <4>1
      <4>3. f[i - 1] = Step(i - 1, f[(i - 1) - 1])
        BY <2>1, <4>1, <4>2
      <4>4. g[i - 1] = f[(i - 1) - 1]
        BY <4>1
      <4>5. f[i - 1] = g[i - 1] \o seqs[(i - 1) + 1]
        BY <4>3, <4>4 DEF Step
      <4> HIDE DEF g
      <4>6. g[i] = g[i - 1] \o seqs[i]
        BY <3>1, <4>1, <4>5
      <4>7. QED
        BY <3>3, <4>6
    <3>4. QED
      BY <3>2, <3>3
  <2>5. g = [i \in 1 .. n |-> g[i]]
    OBVIOUS
  <2> HIDE DEF g, At
  <2>6. Def(g)
    BY <2>4, <2>5
  <2>7. QED
    BY <2>6
<1>4. Def(f0)
  BY <1>3, Zenon DEF FlatRow
<1>5. FlattenSeq(seqs) = f0[n]
  BY Zenon DEF FlattenSeq, FlatRow
<1> HIDE DEF f0, At
<1>6. \A i \in 1 .. n : f0[i] = At(i, f0)
  BY <1>4
<1>7. f0[1] = seqs[1]
  <2>1. 1 \in 1 .. n
    BY <1>1
  <2>2. QED
    BY <1>6, <2>1 DEF At
<1>8. ASSUME NEW i \in 2 .. n PROVE f0[i] = f0[i - 1] \o seqs[i]
  <2>1. i \in 1 .. n /\ i # 1
    BY <1>1
  <2>2. QED
    BY <1>6, <2>1 DEF At
<1>9. QED
  BY <1>5, <1>7, <1>8 DEF f0

LEMMA OneBefore ==
  ASSUME NEW L \in Nat, NEW x \in 1 .. L + 1, NEW y \in x .. L + 1
  PROVE  /\ 1 \in 1 .. L + 1 /\ x - 1 \in 1 - 1 .. L /\ y - 1 \in x - 1 .. L
         /\ (x - 1) + 1 = x
OBVIOUS

LEMMA OneSymbol ==
  ASSUME NEW path \in Texts, NEW k \in 1 .. Len(path)
  PROVE  SubSeq(path, k, k) = <<path[k]>> /\ <<path[k]>> \in Texts
<1> DEFINE part == SubSeq(path, k, k)
<1>1. path \in Seq(Symbols) /\ Len(path) \in Nat
  BY DEF Texts
<1>2. path[k] \in Symbols
  BY <1>1
<1>3. <<path[k]>> \in Texts
  BY <1>2 DEF Texts
<1>4. k \in Nat \ {0} /\ k \in 0 .. Len(path) /\ k <= k
  BY <1>1
<1>5. /\ part \in Seq(Symbols)
      /\ Len(part) = k - k + 1
      /\ \A i \in 1 .. k - k + 1 : part[i] = path[k + i - 1]
  BY <1>1, <1>4, SubSeqProperties
<1> HIDE DEF part
<1>6. Len(part) = 1 /\ part[1] = path[k]
  BY <1>4, <1>5
<1>7. part = <<path[k]>>
  BY <1>5, <1>6
<1>8. QED
  BY <1>3, <1>7 DEF part

MakeUp(parts, path) == \E rest \in Trailing : path = FlattenSeq(parts) \o rest

\* The parts of a divided path are the path, up to what may follow.
LEMMA PartsJoin ==
  ASSUME NEW pattern \in Seq(Elements), NEW path \in Texts, NEW b, Divides(b, pattern, path),
         NEW parts \in Seq(Texts), Len(parts) = Len(pattern),
         \A i \in 1 .. Len(parts) : parts[i] = SubSeq(path, b[i], b[i + 1] - 1)
  PROVE  MakeUp(parts, path)
<1> DEFINE n == Len(parts)
           L == Len(path)
<1>1. n \in Nat /\ L \in Nat
  BY DEF Texts
<1>2. /\ b \in [1 .. n + 1 -> 1 .. L + 1] /\ b[1] = 1 /\ b[n + 1] \in MatchEnds(path)
      /\ \A i \in 1 .. n : b[i + 1] \in Ends(pattern[i], path, b[i])
  BY DEF Divides
<1>3. ASSUME NEW i \in 1 .. n PROVE b[i] \in 1 .. L + 1 /\ b[i + 1] \in b[i] .. L + 1
  <2>1. pattern[i] \in Elements
    OBVIOUS
  <2>2. pattern[i].kind \in {"literal", "param", "splat"}
    BY <2>1 DEF Elements
  <2>3. b[i] \in 1 .. L + 1
    <3> HIDE DEF n, L
    <3>1. i \in 1 .. n + 1
      BY <1>1
    <3>2. QED
      BY <1>2, <3>1
  <2>4. Ends(pattern[i], path, b[i]) \subseteq b[i] .. L + 1
    BY <2>2, <2>3, EndsInPath
  <2>5. QED
    BY <1>2, <2>3, <2>4
<1> DEFINE last == b[n + 1]
           rest == SubSeq(path, last, L)
<1>4. last \in 1 .. L + 1 /\ rest \in Trailing
  <2>1. last \in MatchEnds(path)
    BY <1>2
  <2> HIDE DEF last
  <2>2. QED
    BY <2>1 DEF MatchEnds
<1>5. SubSeq(path, 1, last - 1) \o rest = path
  <2> DEFINE k == last - 1
  <2> HIDE DEF last
  <2>1. 1 \in 1 .. L + 1 /\ k \in 1 - 1 .. L /\ L \in k .. L /\ k + 1 = last
    BY <1>1, <1>4
  <2> HIDE DEF k
  <2>2. SubSeq(path, 1, k) \o SubSeq(path, k + 1, L) = SubSeq(path, 1, L)
    BY <2>1, ConcatAdjacentSubSeq DEF Texts
  <2>3. SubSeq(path, 1, L) = path
    BY SubSeqFull DEF Texts
  <2>4. QED
    BY <2>1, <2>2, <2>3 DEF k
<1>6. CASE n = 0
  <2>1. last = 1
    BY <1>2, <1>6
  <2>2. rest = path
    BY <2>1, SubSeqFull DEF Texts
  <2>3. FlattenSeq(parts) = <<>>
    <3>1. parts = <<>>
      BY <1>6, EmptySeq
    <3>2. QED
      BY <3>1 DEF FlattenSeq
  <2>4. path = <<>> \o path
    BY ConcatEmptySeq DEF Texts
  <2>5. QED
    BY <1>4, <2>2, <2>3, <2>4 DEF MakeUp
<1>7. CASE n # 0
  <2> DEFINE flat == FlatRow(parts)
             S == {m \in 0 .. n : m # 0 => flat[m] = SubSeq(path, 1, b[m + 1] - 1)}
  <2>1. /\ flat[1] = parts[1]
        /\ \A i \in 2 .. n : flat[i] = flat[i - 1] \o parts[i]
        /\ FlattenSeq(parts) = flat[n]
    BY <1>7, FlatteningByRecursion
  <2> HIDE DEF flat
  <2>2. 0 \in S
    BY <1>1
  <2>3. ASSUME NEW m \in 1 .. n, m - 1 \in S PROVE m \in S
    <3>1. m \in 0 .. n /\ m # 0
      BY <1>1
    <3>2. CASE m = 1
      <4>1. flat[1] = SubSeq(path, b[1], b[1 + 1] - 1)
        BY <1>7, <2>1, <3>2
      <4>2. QED
        BY <1>2, <3>1, <3>2, <4>1
    <3>3. CASE m # 1
      <4> DEFINE k == b[m] - 1
                 z == b[m + 1] - 1
      <4>1. m \in 2 .. n /\ m - 1 # 0 /\ (m - 1) + 1 = m
        BY <1>1, <3>3
      <4>2. flat[m - 1] = SubSeq(path, 1, k)
        BY <2>3, <4>1
      <4>3. parts[m] = SubSeq(path, b[m], z)
        OBVIOUS
      <4>4. b[m] \in 1 .. L + 1 /\ b[m + 1] \in b[m] .. L + 1
        BY <1>3
      <4>5. 1 \in 1 .. L + 1 /\ k \in 1 - 1 .. L /\ z \in k .. L /\ k + 1 = b[m]
        BY <1>1, <4>4, OneBefore
      <4> HIDE DEF k, z
      <4>6. SubSeq(path, 1, k) \o SubSeq(path, k + 1, z) = SubSeq(path, 1, z)
        BY <4>5, ConcatAdjacentSubSeq DEF Texts
      <4>7. flat[m] = flat[m - 1] \o parts[m]
        BY <2>1, <4>1
      <4>8. flat[m] = SubSeq(path, 1, z)
        BY <4>2, <4>3, <4>5, <4>6, <4>7
      <4>9. QED
        BY <3>1, <4>8 DEF z
    <3>4. QED
      BY <3>2, <3>3
  <2>4. n \in S
    <3> HIDE DEF S
    <3>1. \A m \in 0 .. n : m \in S
      BY <1>1, <2>2, <2>3, InductiveUpTo
    <3>2. n \in 0 .. n
      BY <1>1
    <3>3. QED
      BY <3>1, <3>2
  <2>5. flat[n] = SubSeq(path, 1, b[n + 1] - 1)
    BY <1>7, <2>4
  <2>6. FlattenSeq(parts) \o rest = path
    BY <1>5, <2>1, <2>5
  <2> HIDE DEF rest
  <2>7. QED
    BY <1>4, <2>6 DEF MakeUp
<1>8. QED
  BY <1>6, <1>7

\* What the elements with a name took, as far as it can be named
LEMMA CapturesAreParts ==
  ASSUME NEW pattern \in Seq(Elements), NEW path \in Texts, NEW b, b = Begins(pattern, path),
         Divides(b, pattern, path),
         NEW list, list = InOrder(NamedElements(pattern), Len(pattern))
  PROVE  /\ Lists(list, NamedElements(pattern), Len(pattern))
         /\ \A c \in 1 .. Len(list) :
              /\ Captures(pattern, path)[c] = SubSeq(path, b[list[c]], b[list[c] + 1] - 1)
              /\ Captures(pattern, path)[c] \in Texts
<1> DEFINE n == Len(pattern)
           captures == Captures(pattern, path)
<1>1. n \in Nat /\ Len(path) \in Nat
  BY DEF Texts
<1>2. Lists(list, NamedElements(pattern), n)
  BY <1>1, InOrderLists
<1>3. list \in Seq(1 .. n)
  BY <1>2 DEF Lists
<1>4. captures = [c \in DOMAIN list |-> SubSeq(path, b[list[c]], b[list[c] + 1] - 1)]
  BY Zenon DEF Captures, NamedElements
<1>5. ASSUME NEW c \in 1 .. Len(list)
      PROVE  /\ captures[c] = SubSeq(path, b[list[c]], b[list[c] + 1] - 1)
             /\ captures[c] \in Texts
  <2>1. c \in DOMAIN list /\ list[c] \in 1 .. n /\ list[c] + 1 \in 1 .. n + 1 /\ list[c] \in 1 .. n + 1
    BY <1>1, <1>3
  <2>2. b[list[c]] \in 1 .. Len(path) + 1 /\ b[list[c] + 1] \in 1 .. Len(path) + 1
    BY <2>1 DEF Divides
  <2>3. b[list[c]] \in Nat \ {0} /\ b[list[c] + 1] - 1 \in 0 .. Len(path)
    BY <1>1, <2>2
  <2>4. captures[c] = SubSeq(path, b[list[c]], b[list[c] + 1] - 1)
    BY <1>4, <2>1
  <2> HIDE DEF captures
  <2>5. QED
    BY <2>3, <2>4, PartIsText
<1>6. QED
  BY <1>2, <1>5

\* Two elements with a name have different names.
LEMMA NamesAreDistinct ==
  ASSUME NEW pattern \in Seq(Elements), Readable(pattern)
  PROVE  Distinct(ParamNames(pattern))
<1> DEFINE n == Len(pattern)
           list == InOrder(NamedElements(pattern), n)
           names == ParamNames(pattern)
<1>1. n \in Nat
  OBVIOUS
<1>2. Lists(list, NamedElements(pattern), n)
  BY <1>1, InOrderLists
<1>3. names \in Seq(Texts) /\ Len(names) = Len(list) /\ \A c \in 1 .. Len(list) : names[c] = pattern[list[c]].is
  BY NamesAsCaptured
<1> HIDE DEF list, names
<1>4. ASSUME NEW i \in 1 .. Len(names), NEW j \in 1 .. Len(names), i # j
      PROVE  ~SameWord(names[i], names[j])
  <2>1. list[i] \in NamedElements(pattern) /\ list[j] \in NamedElements(pattern)
    BY <1>2, <1>3 DEF Lists
  <2>2. Len(list) \in Nat /\ list[i] \in 1 .. n /\ list[j] \in 1 .. n
    BY <1>2, <1>3 DEF Lists
  <2>3. list[i] # list[j]
    <3>1. CASE i < j
      <4>1. list[i] < list[j]
        BY <1>2, <1>3, <3>1 DEF Lists
      <4>2. QED
        BY <2>2, <4>1
    <3>2. CASE j < i
      <4>1. list[j] < list[i]
        BY <1>2, <1>3, <3>2 DEF Lists
      <4>2. QED
        BY <2>2, <4>1
    <3>3. QED
      BY <1>4, <2>2, <3>1, <3>2
  <2>4. ~SameWord(pattern[list[i]].is, pattern[list[j]].is)
    BY <2>1, <2>3 DEF Readable, NamedElements
  <2>5. QED
    BY <1>3, <2>4
<1>5. QED
  BY <1>4 DEF Distinct, names

ReadsBack(pattern, ps, path) ==
  LET made == FlattenSeq([i \in DOMAIN pattern |->
                 IF pattern[i].kind = "literal" THEN pattern[i].is
                 ELSE ParamValue(ps, pattern[i].is)])
  IN \E rest \in Trailing : path = made \o rest

\* A path that matched is what the pattern makes of the parameters, but for a line feed
\* at its end.
LEMMA MatchIsReadBack ==
  ASSUME NEW pattern \in Seq(Elements), Readable(pattern),
         NEW path \in Texts, HasMatch(pattern, path),
         NEW query \in Seq(Pairs), NEW ps,
         ParamNames(pattern) # <<>> => ps = WithCaptures(query, pattern, path)
  PROVE  ReadsBack(pattern, ps, path)
<1> DEFINE n == Len(pattern)
           b == Begins(pattern, path)
           list == InOrder(NamedElements(pattern), n)
           names == ParamNames(pattern)
           captures == Captures(pattern, path)
           Part(i) == IF pattern[i].kind = "literal" THEN pattern[i].is
                      ELSE ParamValue(ps, pattern[i].is)
           parts == [i \in 1 .. n |-> Part(i)]
<1>1. n \in Nat /\ Len(path) \in Nat /\ DOMAIN pattern = 1 .. n
  BY DEF Texts
<1>2. Divides(b, pattern, path)
  BY MatchDivides
<1>3. /\ Lists(list, NamedElements(pattern), n)
      /\ \A c \in 1 .. Len(list) :
           /\ captures[c] = SubSeq(path, b[list[c]], b[list[c] + 1] - 1)
           /\ captures[c] \in Texts
  <2> HIDE DEF b, list
  <2>1. b = Begins(pattern, path) /\ list = InOrder(NamedElements(pattern), Len(pattern))
    BY DEF b, list
  <2>2. QED
    BY <1>2, <2>1, CapturesAreParts
<1>4. /\ names \in Seq(Texts) /\ Len(names) = Len(list)
      /\ \A c \in 1 .. Len(list) : names[c] = pattern[list[c]].is
  BY NamesAsCaptured
<1>5. Distinct(names)
  BY NamesAreDistinct
<1>6. WithCaptures(query, pattern, path) = SetRow(query, names, captures)[Len(names)]
  BY Zenon DEF WithCaptures, SetRow
<1> HIDE DEF b, list, names, captures
<1>7. ASSUME NEW i \in 1 .. n
      PROVE  Part(i) = SubSeq(path, b[i], b[i + 1] - 1) /\ Part(i) \in Texts
  <2>1. /\ b[i] \in 1 .. Len(path) + 1 /\ b[i + 1] \in 1 .. Len(path) + 1
        /\ b[i + 1] \in Ends(pattern[i], path, b[i])
    <3>1. i \in 1 .. n + 1 /\ i + 1 \in 1 .. n + 1
      BY <1>1
    <3>2. QED
      BY <1>2, <3>1 DEF Divides
  <2>2. b[i] \in Nat \ {0} /\ b[i + 1] - 1 \in 0 .. Len(path)
    BY <1>1, <2>1
  <2>3. CASE pattern[i].kind = "literal"
    <3>1. /\ b[i + 1] = b[i] + 1 /\ b[i] <= Len(path)
          /\ pattern[i].is = <<path[b[i]]>> \/ pattern[i].is = <<".">>
      BY <2>1, <2>3 DEF Ends, Agrees
    <3>2. pattern[i].is # <<".">>
      BY <1>1, <2>3 DEF Readable
    <3>3. b[i + 1] - 1 = b[i] /\ b[i] \in 1 .. Len(path)
      BY <1>1, <2>1, <3>1
    <3>4. SubSeq(path, b[i], b[i]) = <<path[b[i]]>> /\ <<path[b[i]]>> \in Texts
      BY <3>3, OneSymbol
    <3>5. QED
      BY <2>3, <3>1, <3>2, <3>3, <3>4
  <2>4. CASE pattern[i].kind # "literal"
    <3>1. i \in NamedElements(pattern)
      BY <1>1, <2>4 DEF NamedElements
    <3>2. PICK c \in 1 .. Len(list) : list[c] = i
      BY <1>3, <3>1 DEF Lists
    <3>3. names[c] = pattern[i].is /\ captures[c] = SubSeq(path, b[i], b[i + 1] - 1)
      BY <1>3, <1>4, <3>2
    <3>4. names # <<>>
      BY <1>4, <3>2
    <3>5. ps = SetRow(query, names, captures)[Len(names)]
      BY <1>6, <3>4 DEF names
    <3>6. ParamValue(ps, names[c]) = captures[c]
      <4>1. c \in 1 .. Len(names) /\ \A k \in 1 .. Len(names) : captures[k] \in Texts
        BY <1>3, <1>4, <3>2
      <4>2. names \in Seq(Texts)
        BY <1>4
      <4>3. ParamValue(SetRow(query, names, captures)[Len(names)], names[c]) = captures[c]
        BY <1>5, <4>1, <4>2, EveryNameHolds
      <4>4. QED
        BY <3>5, <4>3
    <3>7. Part(i) = captures[c]
      BY <2>4, <3>3, <3>6
    <3>8. captures[c] \in Texts
      BY <1>3, <3>2
    <3>9. QED
      BY <3>3, <3>7, <3>8
  <2>5. QED
    BY <2>3, <2>4
<1> HIDE DEF Part
<1>8. parts \in Seq(Texts) /\ Len(parts) = n /\ \A i \in 1 .. n : parts[i] = SubSeq(path, b[i], b[i + 1] - 1)
  BY <1>1, <1>7
<1>9. MakeUp(parts, path)
  <2> HIDE DEF parts
  <2>1. QED
    BY <1>2, <1>8, PartsJoin
<1>10. QED
  BY <1>1, <1>9, Zenon DEF Part, ReadsBack, MakeUp

LEMMA NextReadsBack ==
  ASSUME AllReadable
  PROVE  TypeOK /\ NamedPartsMakeThePath /\ [Next]_vars => NamedPartsMakeThePath'
<1> SUFFICES ASSUME TypeOK, NamedPartsMakeThePath, [Next]_vars
             PROVE  NamedPartsMakeThePath'
  OBVIOUS
<1>1. CASE UNCHANGED vars
  BY <1>1 DEF vars, NamedPartsMakeThePath, RequestPath
<1>2. CASE HandleRequest
  <2>1. PICK r \in Incoming :
          /\ request' = r
          /\ Routed(r) \/ Unmatched(r) \/ MethodMismatch(r) \/ Passes(r)
    BY <1>2 DEF HandleRequest
  <2>2. routes' = routes
    BY <1>2 DEF HandleRequest, router
  <2>3. CASE Routed(r)
    <3> DEFINE first == Accepting(r)[1]
               pattern == routes[first].pattern
               path == RequestPath(r)
               query == QueryParams(r.query)
               now == params'
    <3>1. Accepting(r) # <<>> /\ outcome'.route = first
      BY <2>3 DEF Routed, NotHandled
    <3>2. ParamNames(pattern) # <<>> => now = WithCaptures(query, pattern, path)
      BY <2>3 DEF Routed
    <3>3. first \in 1 .. Len(routes) /\ first \in Taking(r)
      <4>1. first \in 1 .. Len(routes)
        BY <3>1, FirstAccepting
      <4>2. 1 \in 1 .. Len(Accepting(r))
        BY <3>1, ListsOfRoutes, EmptySeq DEF Lists
      <4>3. QED
        BY <4>1, <4>2, ListsOfRoutes DEF Lists
    <3>4. HasMatch(pattern, path)
      BY <3>3 DEF Taking
    <3>5. PICK a \in Additions : pattern = a.pattern
      <4>1. routes[first] \in Routes
        BY <3>3 DEF TypeOK
      <4>2. PICK a \in Additions :
              routes[first] = [method |-> a.method, pattern |-> a.pattern,
                               target |-> a.target, call |-> CallOf(a.target)]
        BY <4>1, Zenon DEF Routes
      <4> HIDE DEF first
      <4>3. routes[first].pattern = a.pattern
        BY <4>2
      <4>4. QED
        BY <4>3
    <3>6. pattern \in Seq(Elements) /\ Readable(pattern)
      BY <3>5, RouterAssumption DEF AllReadable
    <3>7. path \in Texts /\ query \in Seq(Pairs)
      <4>1. r.path \in Texts /\ r.query \in Texts
        <5>1. r \in [method : Text, path : Text, query : Text]
          BY RouterAssumption
        <5>2. r.path \in Text /\ r.query \in Text
          BY <5>1
        <5>3. QED
          BY <5>2, TextsAreTexts
      <4>2. QED
        BY <4>1, DecodedIsText, QueryIsPairs DEF RequestPath
    <3> HIDE DEF first, pattern, path, query, now
    <3>8. ReadsBack(pattern, now, path)
      BY <3>2, <3>4, <3>6, <3>7, MatchIsReadBack
    <3>9. RequestPath(request)' = path
      BY <2>1 DEF RequestPath, path
    <3>10. routes[outcome.route]'.pattern = pattern
      BY <2>2, <3>1 DEF pattern
    <3>11. QED
      BY <3>8, <3>9, <3>10, Zenon DEF NamedPartsMakeThePath, ReadsBack, now
  <2>4. CASE Unmatched(r) \/ MethodMismatch(r) \/ Passes(r)
    <3>1. outcome'.route = 0
      <4>1. CASE Unmatched(r)
        BY <4>1 DEF Unmatched, NotRouted, Answer, NotHandled
      <4>2. CASE MethodMismatch(r)
        BY <4>2 DEF MethodMismatch, NotRouted, Answer, NotHandled
      <4>3. CASE Passes(r)
        BY <4>3 DEF Passes, NotRouted, NotHandled
      <4>4. QED
        BY <2>4, <4>1, <4>2, <4>3
    <3>2. QED
      BY <3>1 DEF NamedPartsMakeThePath
  <2>5. QED
    BY <2>1, <2>3, <2>4
<1>3. CASE RequestIsOver
  BY <1>3 DEF RequestIsOver, NamedPartsMakeThePath, NotHandled
<1>4. CASE AddRoute \/ SetActions \/ SetAcceptsMethodParam \/ TargetIsDeleted
  <2>1. request = NoRequest /\ outcome' = outcome
    BY <1>4 DEF AddRoute, SetActions, SetAcceptsMethodParam, TargetIsDeleted
  <2>2. outcome'.route = 0
    BY <2>1 DEF TypeOK, NotHandled
  <2>3. QED
    BY <2>2 DEF NamedPartsMakeThePath
<1>5. QED
  BY <1>1, <1>2, <1>3, <1>4 DEF Next

\* Who gets a request by a pattern can make its path of the pattern and the parameters
\* of the pattern's names, but for a line feed at the path's end, whatever the query
\* says.  This is about patterns without metacharacters (RouterAssumption) that can be
\* read back: no dot, no name twice, all :names before all *names (pathToRegExp() numbers
\* the names in that order, match.captured() in the order of the pattern).
THEOREM PathsAreReadBack ==
  ASSUME AllReadable
  PROVE  Spec => []NamedPartsMakeThePath
<1>1. Init => NamedPartsMakeThePath
  BY DEF Init, NamedPartsMakeThePath, NotHandled
<1>2. TypeOK /\ NamedPartsMakeThePath /\ [Next]_vars => NamedPartsMakeThePath'
  BY NextReadsBack
<1>3. QED
  BY <1>1, <1>2, RouterIsTyped, PTL DEF Spec
====
