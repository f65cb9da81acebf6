-------------------------- MODULE LineProtocolProofs --------------------------
(***************************************************************************)
(* Proofs about LineProtocol: what escapeTag writes is read back, whatever *)
(* the name is made of.  The first lemmas are about numbers and functions  *)
(* in general.                                                             *)
(***************************************************************************)
EXTENDS LineProtocol, SequenceTheorems, WellFoundedInduction, TLAPS

-----------------------------------------------------------------------------
(***************************************************************************)
(* Induction and iteration                                                 *)
(***************************************************************************)
\* A nonempty set of numbers has a least one.
LEMMA Least ==
  ASSUME NEW T, T \subseteq Nat, T # {}
  PROVE  \E m \in T : \A n \in T : m <= n
<1> DEFINE R == {p \in Nat \X Nat : p[1] < p[2]}
<1>1. IsWellFoundedOn(R, Nat)
  BY NatLessThanWellFounded DEF OpToRel
<1>2. \A m, n \in Nat : <<n, m>> \in R <=> n < m
  OBVIOUS
<1> HIDE DEF R
<1>3. PICK m \in T : \A n \in T : ~ (<<n, m>> \in R)
  BY <1>1, WFMin
<1>4. ASSUME NEW n \in T
      PROVE  m <= n
  <2>1. m \in Nat /\ n \in Nat /\ ~ (<<n, m>> \in R)
    BY <1>3
  <2>2. ~ (n < m)
    BY <1>2, <2>1, Zenon
  <2> QED
    BY <2>1, <2>2
<1> QED
  BY <1>4

\* A set that has 0, and with a number the next one, has them all.
LEMMA Induction ==
  ASSUME NEW S, 0 \in S, \A n \in Nat : n \in S => n + 1 \in S
  PROVE  Nat \subseteq S
<1> DEFINE T == Nat \ S
<1> SUFFICES ASSUME T # {} PROVE FALSE
  OBVIOUS
<1>1. PICK m \in T : \A n \in T : m <= n
  BY Least
<1>2. m \in Nat \ {0}
  BY <1>1
<1>3. m - 1 \in Nat /\ m - 1 \notin T
  BY <1>1, <1>2
<1>4. m - 1 \in S
  BY <1>3
<1> QED
  BY <1>1, <1>3, <1>4

\* A step iterated from an initial value is a function.
Iterable(V, v0, N, step) ==
  \E f \in [0 .. N -> V] : f[0] = v0 /\ \A n \in 1 .. N : f[n] = step[<<f[n - 1], n>>]

LEMMA IterationExists ==
  ASSUME NEW V, NEW v0, NEW N, NEW step,
         v0 \in V, N \in Nat, step \in [V \X (1 .. N) -> V]
  PROVE  Iterable(V, v0, N, step)
<1> DEFINE Upto(n) == \E f \in [0 .. n -> V] :
                        f[0] = v0 /\ \A k \in 1 .. n : f[k] = step[<<f[k - 1], k>>]
           S == {n \in Nat : n <= N => Upto(n)}
<1>1. 0 \in S
  <2> DEFINE f == [k \in 0 .. 0 |-> v0]
  <2>1. f \in [0 .. 0 -> V] /\ f[0] = v0
    OBVIOUS
  <2>2. 1 .. 0 = {}
    OBVIOUS
  <2> HIDE DEF f
  <2>3. Upto(0)
    BY <2>1, <2>2
  <2> QED
    BY <2>3
<1>2. ASSUME NEW n \in Nat, n \in S
      PROVE  n + 1 \in S
  <2> SUFFICES ASSUME n + 1 <= N PROVE Upto(n + 1)
    OBVIOUS
  <2>1. PICK f \in [0 .. n -> V] :
          f[0] = v0 /\ \A k \in 1 .. n : f[k] = step[<<f[k - 1], k>>]
    BY <1>2
  <2> DEFINE last == step[<<f[n], n + 1>>]
             g == [k \in 0 .. n + 1 |-> IF k <= n THEN f[k] ELSE last]
  <2>2. last \in V
    <3>1. <<f[n], n + 1>> \in V \X (1 .. N)
      OBVIOUS
    <3> QED
      BY <3>1
  <2> HIDE DEF last
  <2>3. g \in [0 .. n + 1 -> V] /\ g[0] = v0
    BY <2>1, <2>2
  <2>4. ASSUME NEW k \in 1 .. n + 1
        PROVE  g[k] = step[<<g[k - 1], k>>]
    <3>1. CASE k <= n
      BY <2>1, <3>1
    <3>2. CASE k = n + 1
      <4>1. g[k] = last /\ g[k - 1] = f[n]
        BY <3>2
      <4> QED
        BY <3>2, <4>1 DEF last
    <3> QED
      BY <3>1, <3>2
  <2> QED
    BY <2>3, <2>4
<1>3. Nat \subseteq S
  <2> HIDE DEF S
  <2> QED
    BY <1>1, <1>2, Induction
<1>4. N \in S
  BY <1>3
<1>5. Upto(N)
  BY <1>4
<1> QED
  BY <1>5 DEF Iterable

\* The same up to a number.
LEMMA InductionUpTo ==
  ASSUME NEW N \in Nat, NEW S, 0 \in S, \A n \in 1 .. N : n - 1 \in S => n \in S
  PROVE  \A n \in 0 .. N : n \in S
<1> DEFINE T == {n \in Nat : n <= N => n \in S}
<1>1. 0 \in T
  OBVIOUS
<1>2. ASSUME NEW n \in Nat, n \in T
      PROVE  n + 1 \in T
  <2> SUFFICES ASSUME n + 1 <= N PROVE n + 1 \in S
    OBVIOUS
  <2>1. n + 1 \in 1 .. N /\ (n + 1) - 1 = n /\ n \in S
    BY <1>2
  <2> QED
    BY <2>1
<1>3. Nat \subseteq T
  <2> HIDE DEF T
  <2> QED
    BY <1>1, <1>2, Induction
<1> QED
  BY <1>3

-----------------------------------------------------------------------------
(***************************************************************************)
(* Escaping                                                                *)
(***************************************************************************)
\* What strings.ReplaceAll makes of one symbol.
Piece(x, c) == IF x = c THEN <<Backslash, c>> ELSE <<x>>

\* The symbols a name is made of are of a set that has the four special ones.
Special == {Backslash, Space, ",", "="}

\* What Escaped has written after each symbol.
IsWriting(f, v, c) ==
  f = [n \in 0 .. Len(v) |-> IF n = 0 THEN <<>> ELSE f[n - 1] \o Piece(v[n], c)]

LEMMA PieceType ==
  ASSUME NEW A, Special \subseteq A, NEW x \in A, NEW c \in A
  PROVE  Piece(x, c) \in Seq(A)
<1>1. Backslash \in A
  BY DEF Special
<1> QED
  BY <1>1 DEF Piece

LEMMA WritingExists ==
  ASSUME NEW A, Special \subseteq A, NEW v \in Seq(A), NEW c \in A
  PROVE  \E f : IsWriting(f, v, c)
<1> DEFINE N == Len(v)
           V == Seq(A)
           e == <<>>
           step == [p \in V \X (1 .. N) |-> p[1] \o Piece(v[p[2]], c)]
<1>1. N \in Nat /\ e \in V /\ \A n \in 1 .. N : v[n] \in A
  OBVIOUS
<1>2. ASSUME NEW t \in V, NEW n \in 1 .. N
      PROVE  t \o Piece(v[n], c) \in V
  BY <1>1, PieceType, ConcatProperties
<1>3. step \in [V \X (1 .. N) -> V]
  BY <1>2
<1>4. \A t \in V, n \in 1 .. N : step[<<t, n>>] = t \o Piece(v[n], c)
  OBVIOUS
<1> HIDE DEF step, V, N, e
<1>5. PICK f \in [0 .. N -> V] : f[0] = e /\ \A n \in 1 .. N : f[n] = step[<<f[n - 1], n>>]
  <2>1. Iterable(V, e, N, step)
    BY <1>1, <1>3, IterationExists
  <2> QED
    BY <2>1 DEF Iterable
<1>6. ASSUME NEW n \in 0 .. N
      PROVE  f[n] = IF n = 0 THEN e ELSE f[n - 1] \o Piece(v[n], c)
  <2>1. CASE n = 0
    BY <1>5, <2>1
  <2>2. CASE n # 0
    <3>1. n \in 1 .. N /\ n - 1 \in 0 .. N
      BY <1>1, <2>2
    <3> QED
      BY <1>4, <1>5, <2>2, <3>1
  <2> QED
    BY <2>1, <2>2
<1>7. f = [n \in 0 .. N |-> IF n = 0 THEN e ELSE f[n - 1] \o Piece(v[n], c)]
  BY <1>6
<1> QED
  BY <1>7 DEF IsWriting, N, e

\* Escaped is the last of them.
LEMMA EscapedRecursion ==
  ASSUME NEW A, Special \subseteq A, NEW v \in Seq(A), NEW c \in A
  PROVE  \E f \in [0 .. Len(v) -> Seq(A)] :
           /\ f[0] = <<>>
           /\ \A n \in 1 .. Len(v) : f[n] = f[n - 1] \o Piece(v[n], c)
           /\ Escaped(v, c) = f[Len(v)]
<1> DEFINE f == CHOOSE f : IsWriting(f, v, c)
<1>1. Escaped(v, c) = f[Len(v)]
  BY DEF Escaped, Piece, IsWriting
<1>2. IsWriting(f, v, c)
  BY WritingExists
<1> HIDE DEF f
<1> DEFINE N == Len(v)
<1>3. N \in Nat /\ \A n \in 1 .. N : v[n] \in A
  OBVIOUS
<1> HIDE DEF N
<1>4. f = [n \in 0 .. N |-> IF n = 0 THEN <<>> ELSE f[n - 1] \o Piece(v[n], c)]
  BY <1>2 DEF IsWriting, N
<1>5. f[0] = <<>>
  BY <1>3, <1>4
<1>6. ASSUME NEW n \in 1 .. N
      PROVE  f[n] = f[n - 1] \o Piece(v[n], c)
  <2>1. n \in 0 .. N /\ n # 0
    BY <1>3
  <2> QED
    BY <1>4, <2>1
<1>7. \A n \in 0 .. N : f[n] \in Seq(A)
  <2> DEFINE S == {n \in 0 .. N : f[n] \in Seq(A)}
  <2>1. 0 \in S
    <3>1. f[0] \in Seq(A)
      BY <1>5
    <3> QED
      BY <1>3, <3>1
  <2>2. ASSUME NEW n \in 1 .. N, n - 1 \in S
        PROVE  n \in S
    <3>1. v[n] \in A
      BY <1>3
    <3>2. Piece(v[n], c) \in Seq(A)
      BY <3>1, PieceType, Zenon
    <3>3. f[n] = f[n - 1] \o Piece(v[n], c)
      BY <1>6
    <3>4. f[n] \in Seq(A)
      BY <2>2, <3>2, <3>3, ConcatProperties
    <3> QED
      BY <1>3, <3>4
  <2>3. \A n \in 0 .. N : n \in S
    <3> HIDE DEF S
    <3> QED
      BY <1>3, <2>1, <2>2, InductionUpTo
  <2> QED
    BY <2>3
<1>8. f \in [0 .. N -> Seq(A)]
  BY <1>4, <1>7
<1> QED
  BY <1>1, <1>5, <1>6, <1>8 DEF N

LEMMA EscapedType ==
  ASSUME NEW A, Special \subseteq A, NEW v \in Seq(A), NEW c \in A
  PROVE  Escaped(v, c) \in Seq(A)
<1>1. PICK f \in [0 .. Len(v) -> Seq(A)] :
        /\ f[0] = <<>>
        /\ \A n \in 1 .. Len(v) : f[n] = f[n - 1] \o Piece(v[n], c)
        /\ Escaped(v, c) = f[Len(v)]
  BY EscapedRecursion
<1> QED
  BY <1>1

LEMMA EscapedEmpty ==
  ASSUME NEW A, Special \subseteq A, NEW c \in A
  PROVE  Escaped(<<>>, c) = <<>>
<1> DEFINE v == <<>>
<1>1. v \in Seq(A)
  OBVIOUS
<1>2. Len(v) = 0
  OBVIOUS
<1> HIDE DEF v
<1>3. PICK f \in [0 .. Len(v) -> Seq(A)] :
        /\ f[0] = <<>>
        /\ \A n \in 1 .. Len(v) : f[n] = f[n - 1] \o Piece(v[n], c)
        /\ Escaped(v, c) = f[Len(v)]
  BY <1>1, EscapedRecursion
<1>4. Escaped(v, c) = <<>>
  BY <1>2, <1>3
<1> QED
  BY <1>4 DEF v

\* One more symbol adds what is made of it.
LEMMA EscapedAppend ==
  ASSUME NEW A, Special \subseteq A, NEW v \in Seq(A), NEW x \in A, NEW c \in A
  PROVE  Escaped(Append(v, x), c) = Escaped(v, c) \o Piece(x, c)
<1> DEFINE w == Append(v, x)
           N == Len(v)
<1>1. /\ w \in Seq(A) /\ N \in Nat /\ Len(w) = N + 1 /\ w[N + 1] = x
      /\ \A n \in 1 .. N : w[n] = v[n]
  OBVIOUS
<1>2. PICK f \in [0 .. N -> Seq(A)] :
        /\ f[0] = <<>>
        /\ \A n \in 1 .. N : f[n] = f[n - 1] \o Piece(v[n], c)
        /\ Escaped(v, c) = f[N]
  BY EscapedRecursion
<1> HIDE DEF w, N
<1>3. PICK g \in [0 .. Len(w) -> Seq(A)] :
        /\ g[0] = <<>>
        /\ \A n \in 1 .. Len(w) : g[n] = g[n - 1] \o Piece(w[n], c)
        /\ Escaped(w, c) = g[Len(w)]
  BY <1>1, EscapedRecursion
<1>4. \A n \in 1 .. N + 1 : g[n] = g[n - 1] \o Piece(w[n], c)
  BY <1>1, <1>3
<1>5. g[N] = f[N]
  <2> DEFINE S == {n \in 0 .. N : g[n] = f[n]}
  <2>1. 0 \in S
    BY <1>1, <1>2, <1>3
  <2>2. ASSUME NEW n \in 1 .. N, n - 1 \in S
        PROVE  n \in S
    <3>1. g[n - 1] = f[n - 1]
      BY <2>2
    <3>2. n \in 1 .. N + 1 /\ n \in 0 .. N /\ w[n] = v[n]
      BY <1>1
    <3>3. g[n] = g[n - 1] \o Piece(v[n], c)
      BY <1>4, <3>2
    <3>4. f[n] = f[n - 1] \o Piece(v[n], c)
      BY <1>2
    <3>5. g[n] = f[n]
      BY <3>1, <3>3, <3>4
    <3> QED
      BY <3>2, <3>5
  <2>3. \A n \in 0 .. N : n \in S
    <3> HIDE DEF S
    <3> QED
      BY <1>1, <2>1, <2>2, InductionUpTo
  <2> QED
    BY <1>1, <2>3
<1>6. g[N + 1] = g[N] \o Piece(x, c)
  <2>1. N + 1 \in 1 .. N + 1 /\ (N + 1) - 1 = N
    BY <1>1
  <2>2. g[N + 1] = g[(N + 1) - 1] \o Piece(w[N + 1], c)
    BY <1>4, <2>1
  <2> QED
    BY <1>1, <2>1, <2>2
<1>7. Escaped(w, c) = Escaped(v, c) \o Piece(x, c)
  BY <1>1, <1>2, <1>3, <1>5, <1>6
<1> QED
  BY <1>7 DEF w

LEMMA JoinOne ==
  ASSUME NEW A, NEW s \in Seq(A), NEW a \in A, NEW b \in A
  PROVE  /\ s \o <<a>> = Append(s, a)
         /\ s \o <<a, b>> = Append(Append(s, a), b)
<1>1. s \o <<a>> = Append(s, a)
  OBVIOUS
<1>2. s \o <<a, b>> = Append(Append(s, a), b)
  OBVIOUS
<1> QED
  BY <1>1, <1>2

Associates(s, t, u) == (s \o t) \o u = s \o (t \o u)

LEMMA JoinAssociates ==
  ASSUME NEW A, NEW s, NEW t, NEW u, s \in Seq(A), t \in Seq(A), u \in Seq(A)
  PROVE  Associates(s, t, u)
BY ConcatAssociative DEF Associates

JoinsLast(s, t, x) == (s \o t) \o <<x>> = s \o Append(t, x)

LEMMA JoinLast ==
  ASSUME NEW A, NEW s, NEW t, NEW x, s \in Seq(A), t \in Seq(A), x \in A
  PROVE  JoinsLast(s, t, x)
<1> DEFINE q == <<x>>
<1>1. q \in Seq(A) /\ Append(t, x) = t \o q
  BY AppendIsConcat
<1> HIDE DEF q
<1>2. Associates(s, t, q)
  BY <1>1, JoinAssociates
<1>3. (s \o t) \o q = s \o Append(t, x)
  BY <1>1, <1>2 DEF Associates
<1> QED
  BY <1>3 DEF JoinsLast, q

JoinsThree(s, a, b, c) == s \o <<a, b, c>> = ((s \o <<a>>) \o <<b>>) \o <<c>>
JoinsFour(s, a, b, c, d) == s \o <<a, b, c, d>> = (s \o <<a, b, c>>) \o <<d>>

LEMMA JoinTuple ==
  ASSUME NEW A, NEW s, NEW a, NEW b, NEW c, NEW d,
         s \in Seq(A), a \in A, b \in A, c \in A, d \in A
  PROVE  JoinsThree(s, a, b, c) /\ JoinsFour(s, a, b, c, d)
<1> DEFINE t1 == <<a>>
           t2 == <<a, b>>
           t3 == <<a, b, c>>
           t4 == <<a, b, c, d>>
<1>1. t1 \in Seq(A)
  OBVIOUS
<1>2. t2 \in Seq(A)
  OBVIOUS
<1>3. t3 \in Seq(A)
  OBVIOUS
<1>4. t2 = Append(t1, b)
  OBVIOUS
<1>5. t3 = Append(t2, c)
  OBVIOUS
<1>6. t4 = Append(t3, d)
  OBVIOUS
<1> HIDE DEF t1, t2, t3, t4
<1>7. JoinsLast(s, t1, b) /\ JoinsLast(s, t2, c) /\ JoinsLast(s, t3, d)
  BY <1>1, <1>2, <1>3, JoinLast
<1>8. (s \o t1) \o <<b>> = s \o t2
  BY <1>4, <1>7 DEF JoinsLast
<1>9. (s \o t2) \o <<c>> = s \o t3
  BY <1>5, <1>7 DEF JoinsLast
<1>10. (s \o t3) \o <<d>> = s \o t4
  BY <1>6, <1>7 DEF JoinsLast
<1>11. s \o t3 = ((s \o t1) \o <<b>>) \o <<c>>
  BY <1>8, <1>9
<1> QED
  BY <1>10, <1>11 DEF JoinsThree, JoinsFour, t1, t3, t4

\* A symbol with a backslash before it if it is one of D.
Marked(x, D) == IF x \in D THEN <<Backslash, x>> ELSE <<x>>

\* One ReplaceAll marks one more symbol; the backslash is the first.
NextMark(c, D, E) == E = D \cup {c} /\ c \notin D /\ (D = {} \/ c # Backslash)

Marks(s, x, c, D, E) == Escaped(s \o Marked(x, D), c) = Escaped(s, c) \o Marked(x, E)

LEMMA EscapedMarked ==
  ASSUME NEW A, NEW s, NEW x, NEW c, NEW D, NEW E,
         Special \subseteq A, s \in Seq(A), x \in A, c \in A, NextMark(c, D, E)
  PROVE  Marks(s, x, c, D, E)
<1> DEFINE e == Escaped(s, c)
<1>0. Backslash \in A
  BY DEF Special
<1>1. e \in Seq(A)
  BY EscapedType
<1> HIDE DEF e
<1>2. \A t \in Seq(A), y \in A : Escaped(Append(t, y), c) = Escaped(t, c) \o Piece(y, c)
  BY EscapedAppend
<1>3. CASE x \in D
  <2>1. x # c /\ Backslash # c
    BY <1>3 DEF NextMark
  <2>2. Append(s, Backslash) \in Seq(A)
    BY <1>0
  <2>3. Escaped(Append(s, Backslash), c) = e \o Piece(Backslash, c)
    BY <1>0, <1>2 DEF e
  <2>4. Piece(Backslash, c) = <<Backslash>> /\ Piece(x, c) = <<x>>
    BY <2>1 DEF Piece
  <2>5. Escaped(Append(s, Backslash), c) = Append(e, Backslash)
    BY <1>0, <1>1, <2>3, <2>4, JoinOne
  <2>6. Escaped(Append(Append(s, Backslash), x), c) = Append(e, Backslash) \o <<x>>
    BY <1>2, <2>2, <2>4, <2>5
  <2>7. Append(e, Backslash) \o <<x>> = e \o <<Backslash, x>>
    <3>1. Append(e, Backslash) \in Seq(A)
      BY <1>0, <1>1
    <3>2. Append(e, Backslash) \o <<x>> = Append(Append(e, Backslash), x)
      BY <3>1, JoinOne
    <3>3. e \o <<Backslash, x>> = Append(Append(e, Backslash), x)
      BY <1>0, <1>1, JoinOne
    <3> QED
      BY <3>2, <3>3
  <2>8. s \o Marked(x, D) = Append(Append(s, Backslash), x)
    <3>1. Marked(x, D) = <<Backslash, x>>
      BY <1>3 DEF Marked
    <3> QED
      BY <1>0, <3>1, JoinOne
  <2>9. Marked(x, E) = <<Backslash, x>>
    BY <1>3 DEF Marked, NextMark
  <2> QED
    BY <2>6, <2>7, <2>8, <2>9 DEF e, Marks
<1>4. CASE x \notin D
  <2>1. Marked(x, D) = <<x>> /\ Marked(x, E) = Piece(x, c)
    BY <1>4 DEF Marked, Piece, NextMark
  <2>2. s \o <<x>> = Append(s, x)
    BY JoinOne
  <2>3. Escaped(Append(s, x), c) = Escaped(s, c) \o Piece(x, c)
    BY <1>2
  <2> QED
    BY <2>1, <2>2, <2>3 DEF Marks
<1> QED
  BY <1>3, <1>4

\* escapeTag marks the four, each symbol on its own.
LEMMA EscapeTagAppend ==
  ASSUME NEW A, Special \subseteq A, NEW v \in Seq(A), NEW x \in A
  PROVE  escapeTag(Append(v, x)) = escapeTag(v) \o Marked(x, Special)
<1> DEFINE e1 == Escaped(v, Backslash)
           e2 == Escaped(e1, Space)
           e3 == Escaped(e2, ",")
           e4 == Escaped(e3, "=")
           D0 == {}
           D1 == {Backslash}
           D2 == {Backslash, Space}
           D3 == {Backslash, Space, ","}
<1>1. Backslash \in A /\ Space \in A /\ "," \in A /\ "=" \in A
  BY DEF Special
<1>2. e1 \in Seq(A)
  BY <1>1, EscapedType
<1> HIDE DEF e1
<1>3. e2 \in Seq(A)
  BY <1>1, <1>2, EscapedType
<1> HIDE DEF e2
<1>4. e3 \in Seq(A)
  BY <1>1, <1>3, EscapedType
<1> HIDE DEF e3
<1>5. NextMark(Backslash, D0, D1)
  BY DEF NextMark
<1>6. NextMark(Space, D1, D2)
  BY DEF NextMark, Backslash, Space
<1>7. NextMark(",", D2, D3)
  BY DEF NextMark, Backslash, Space
<1>8. NextMark("=", D3, Special)
  BY DEF NextMark, Backslash, Space, Special
<1>9. v \o Marked(x, D0) = Append(v, x)
  <2>1. Marked(x, D0) = <<x>>
    BY DEF Marked
  <2> QED
    BY <2>1, JoinOne
<1> HIDE DEF D0, D1, D2, D3
<1>10. Marks(v, x, Backslash, D0, D1)
  BY <1>1, <1>5, EscapedMarked
<1>11. Marks(e1, x, Space, D1, D2)
  BY <1>1, <1>2, <1>6, EscapedMarked
<1>12. Marks(e2, x, ",", D2, D3)
  BY <1>1, <1>3, <1>7, EscapedMarked
<1>13. Marks(e3, x, "=", D3, Special)
  BY <1>1, <1>4, <1>8, EscapedMarked
<1>14. escapeTag(v) = e4
  BY DEF escapeTag, e1, e2, e3
<1>15. escapeTag(Append(v, x)) = e4 \o Marked(x, Special)
  <2>1. Escaped(Append(v, x), Backslash) = e1 \o Marked(x, D1)
    BY <1>9, <1>10 DEF e1, Marks
  <2>2. Escaped(e1 \o Marked(x, D1), Space) = e2 \o Marked(x, D2)
    BY <1>11 DEF e2, Marks
  <2>3. Escaped(e2 \o Marked(x, D2), ",") = e3 \o Marked(x, D3)
    BY <1>12 DEF e3, Marks
  <2> QED
    BY <1>13, <2>1, <2>2, <2>3 DEF escapeTag, Marks
<1> QED
  BY <1>14, <1>15

LEMMA EscapeTagEmpty == escapeTag(<<>>) = <<>>
<1>1. Special \subseteq Special /\ \A c \in {Backslash, Space, ",", "="} : c \in Special
  BY DEF Special
<1>2. \A c \in Special : Escaped(<<>>, c) = <<>>
  BY EscapedEmpty
<1> QED
  BY <1>1, <1>2 DEF escapeTag

-----------------------------------------------------------------------------
(***************************************************************************)
(* Reading                                                                 *)
(***************************************************************************)
Cuts(A) == [literal : BOOLEAN, fields : Seq(Seq(A)) \ {<<>>}]

\* A reader in the middle of a field: the fields before it, and what it has.
Within(F, w) == [literal |-> FALSE, fields |-> Append(F, w)]
Literally(F, w) == [literal |-> TRUE, fields |-> Append(F, w)]

Delimiter == {Space, ",", "="}

Replaced(F, w, z) == [Append(F, w) EXCEPT ![Len(F) + 1] = z] = Append(F, z)

LEMMA LastReplaced ==
  ASSUME NEW S, NEW F, NEW w, NEW z, F \in Seq(S), w \in S, z \in S
  PROVE  Replaced(F, w, z)
<1> DEFINE N == Len(F)
           q == Append(F, w)
           l == [q EXCEPT ![N + 1] = z]
           r == Append(F, z)
<1>1. /\ N \in Nat /\ q \in Seq(S) /\ Len(q) = N + 1
      /\ \A i \in 1 .. N : q[i] = F[i]
  BY AppendProperties
<1>2. /\ r \in Seq(S) /\ Len(r) = N + 1 /\ r[N + 1] = z
      /\ \A i \in 1 .. N : r[i] = F[i]
  BY AppendProperties
<1> HIDE DEF q, r
<1>3. /\ l \in Seq(S) /\ Len(l) = N + 1
      /\ \A j \in 1 .. N + 1 : l[j] = IF j = N + 1 THEN z ELSE q[j]
  <2>1. N + 1 \in 1 .. Len(q)
    BY <1>1
  <2> QED
    BY <1>1, <2>1, ExceptSeq
<1>4. ASSUME NEW i \in 1 .. N + 1
      PROVE  l[i] = r[i]
  <2>1. CASE i = N + 1
    BY <1>2, <1>3, <2>1
  <2>2. CASE i # N + 1
    <3>1. i \in 1 .. N
      BY <1>1, <2>2
    <3> QED
      BY <1>1, <1>2, <1>3, <2>2, <3>1
  <2> QED
    BY <2>1, <2>2
<1> HIDE DEF l
<1>5. l = r
  BY <1>1, <1>2, <1>3, <1>4, SeqEqual
<1> QED
  BY <1>5 DEF l, r, q, Replaced

LEMMA ReadPlain ==
  ASSUME NEW A, NEW F \in Seq(Seq(A)), NEW w \in Seq(A), NEW x \in A, x \notin Special
  PROVE  ReadSymbol(Within(F, w), x) = Within(F, Append(w, x))
<1>1. x # Backslash /\ x \notin {Space, ",", "="}
  BY DEF Special
<1>2. /\ Append(F, w) \in Seq(Seq(A)) /\ Len(Append(F, w)) = Len(F) + 1
      /\ Append(F, w)[Len(F) + 1] = w
  OBVIOUS
<1>3. [Append(F, w) EXCEPT ![Len(F) + 1] = Append(w, x)] = Append(F, Append(w, x))
  <2>1. Append(w, x) \in Seq(A)
    OBVIOUS
  <2>2. Replaced(F, w, Append(w, x))
    BY <2>1, LastReplaced
  <2> QED
    BY <2>2 DEF Replaced
<1>4. Within(F, w).literal = FALSE /\ Within(F, w).fields = Append(F, w)
  BY DEF Within
<1>5. ReadSymbol(Within(F, w), x)
        = [literal |-> FALSE,
           fields |-> [Append(F, w) EXCEPT ![Len(F) + 1] = Append(w, x)]]
  BY <1>1, <1>2, <1>4 DEF ReadSymbol
<1> QED
  BY <1>3, <1>5 DEF Within

LEMMA ReadLiteral ==
  ASSUME NEW A, NEW F \in Seq(Seq(A)), NEW w \in Seq(A), NEW x \in A
  PROVE  ReadSymbol(Literally(F, w), x) = Within(F, Append(w, x))
<1>1. /\ Append(F, w) \in Seq(Seq(A)) /\ Len(Append(F, w)) = Len(F) + 1
      /\ Append(F, w)[Len(F) + 1] = w
  OBVIOUS
<1>2. [Append(F, w) EXCEPT ![Len(F) + 1] = Append(w, x)] = Append(F, Append(w, x))
  <2>1. Append(w, x) \in Seq(A)
    OBVIOUS
  <2>2. Replaced(F, w, Append(w, x))
    BY <2>1, LastReplaced
  <2> QED
    BY <2>2 DEF Replaced
<1>3. Literally(F, w).literal = TRUE /\ Literally(F, w).fields = Append(F, w)
  BY DEF Literally
<1>4. ReadSymbol(Literally(F, w), x)
        = [literal |-> FALSE,
           fields |-> [Append(F, w) EXCEPT ![Len(F) + 1] = Append(w, x)]]
  BY <1>1, <1>3 DEF ReadSymbol
<1> QED
  BY <1>2, <1>4 DEF Within

LEMMA ReadBackslash ==
  ASSUME NEW F, NEW w
  PROVE  ReadSymbol(Within(F, w), Backslash) = Literally(F, w)
BY DEF ReadSymbol, Within, Literally

LEMMA ReadDelimiter ==
  ASSUME NEW F, NEW w, NEW x \in Delimiter
  PROVE  ReadSymbol(Within(F, w), x) = Within(Append(F, w), <<>>)
<1>1. x # Backslash /\ x \in {Space, ",", "="}
  BY DEF Delimiter, Backslash, Space
<1> QED
  BY <1>1 DEF ReadSymbol, Within

LEMMA ReadType ==
  ASSUME NEW A, NEW cut \in Cuts(A), NEW x \in A
  PROVE  ReadSymbol(cut, x) \in Cuts(A)
<1> DEFINE G == cut.fields
           last == Len(G)
<1>1. cut = [literal |-> cut.literal, fields |-> G] /\ cut.literal \in BOOLEAN
  BY DEF Cuts
<1>2. G \in Seq(Seq(A)) /\ G # <<>>
  BY DEF Cuts
<1>3. last \in 1 .. Len(G)
  BY <1>2, EmptySeq
<1>4. Append(G, <<>>) \in Seq(Seq(A)) /\ Append(G, <<>>) # <<>>
  <2>1. <<>> \in Seq(A)
    OBVIOUS
  <2> HIDE DEF G
  <2> QED
    BY <1>2, <2>1, AppendProperties
<1>5. Append(G[last], x) \in Seq(A)
  BY <1>2, <1>3
<1> DEFINE H == [G EXCEPT ![last] = Append(@, x)]
<1>6. H \in Seq(Seq(A)) /\ H # <<>>
  <2> DEFINE z == Append(G[last], x)
             K == [G EXCEPT ![last] = z]
  <2> HIDE DEF z
  <2>1. K \in Seq(Seq(A)) /\ Len(K) = Len(G)
    <3> HIDE DEF G
    <3> QED
      BY <1>2, <1>3, <1>5, ExceptSeq DEF z
  <2>2. H = K
    BY DEF z
  <2>3. Len(G) # 0
    BY <1>2, <1>3
  <2> QED
    BY <2>1, <2>2, <2>3
<1> HIDE DEF G, H
<1>7. ReadSymbol(cut, x) \in {[cut EXCEPT !.literal = TRUE],
                              [cut EXCEPT !.fields = Append(@, <<>>)],
                              [literal |-> FALSE, fields |-> H]}
  BY DEF ReadSymbol, H, G
<1>8. [cut EXCEPT !.literal = TRUE] \in Cuts(A)
  BY DEF Cuts
<1>9. [cut EXCEPT !.fields = Append(@, <<>>)] \in Cuts(A)
  <2>1. [cut EXCEPT !.fields = Append(@, <<>>)]
          = [literal |-> cut.literal, fields |-> Append(G, <<>>)]
    BY <1>1 DEF G
  <2> QED
    BY <1>1, <1>4, <2>1 DEF Cuts
<1>10. [literal |-> FALSE, fields |-> H] \in Cuts(A)
  BY <1>6 DEF Cuts
<1> QED
  BY <1>7, <1>8, <1>9, <1>10

\* What Cut has after each symbol.
IsCutting(f, start, line) ==
  f = [n \in 0 .. Len(line) |-> IF n = 0 THEN start ELSE ReadSymbol(f[n - 1], line[n])]

LEMMA CuttingExists ==
  ASSUME NEW A, NEW start \in Cuts(A), NEW line \in Seq(A)
  PROVE  \E f : IsCutting(f, start, line)
<1> DEFINE N == Len(line)
           V == Cuts(A)
           step == [p \in V \X (1 .. N) |-> ReadSymbol(p[1], line[p[2]])]
<1>1. N \in Nat /\ start \in V /\ \A n \in 1 .. N : line[n] \in A
  OBVIOUS
<1>2. ASSUME NEW t \in V, NEW n \in 1 .. N
      PROVE  ReadSymbol(t, line[n]) \in V
  BY <1>1, ReadType
<1>3. step \in [V \X (1 .. N) -> V]
  BY <1>2
<1>4. \A t \in V, n \in 1 .. N : step[<<t, n>>] = ReadSymbol(t, line[n])
  OBVIOUS
<1> HIDE DEF step, V, N
<1>5. PICK f \in [0 .. N -> V] : f[0] = start /\ \A n \in 1 .. N : f[n] = step[<<f[n - 1], n>>]
  <2>1. Iterable(V, start, N, step)
    BY <1>1, <1>3, IterationExists
  <2> QED
    BY <2>1 DEF Iterable
<1>6. ASSUME NEW n \in 0 .. N
      PROVE  f[n] = IF n = 0 THEN start ELSE ReadSymbol(f[n - 1], line[n])
  <2>1. CASE n = 0
    BY <1>5, <2>1
  <2>2. CASE n # 0
    <3>1. n \in 1 .. N /\ n - 1 \in 0 .. N
      BY <1>1, <2>2
    <3> QED
      BY <1>4, <1>5, <2>2, <3>1
  <2> QED
    BY <2>1, <2>2
<1>7. f = [n \in 0 .. N |-> IF n = 0 THEN start ELSE ReadSymbol(f[n - 1], line[n])]
  BY <1>6
<1> QED
  BY <1>7 DEF IsCutting, N

LEMMA CutRecursion ==
  ASSUME NEW A, NEW start \in Cuts(A), NEW line \in Seq(A)
  PROVE  \E f :
           /\ f[0] = start
           /\ \A n \in 1 .. Len(line) : f[n] = ReadSymbol(f[n - 1], line[n])
           /\ Cut(start, line) = f[Len(line)]
<1> DEFINE f == CHOOSE f : IsCutting(f, start, line)
           N == Len(line)
<1>1. Cut(start, line) = f[N]
  BY DEF Cut, IsCutting
<1>2. IsCutting(f, start, line)
  BY CuttingExists
<1> HIDE DEF f
<1>3. N \in Nat
  OBVIOUS
<1> HIDE DEF N
<1>4. f = [n \in 0 .. N |-> IF n = 0 THEN start ELSE ReadSymbol(f[n - 1], line[n])]
  BY <1>2 DEF IsCutting, N
<1>5. f[0] = start
  BY <1>3, <1>4
<1>6. ASSUME NEW n \in 1 .. N
      PROVE  f[n] = ReadSymbol(f[n - 1], line[n])
  <2>1. n \in 0 .. N /\ n # 0
    BY <1>3
  <2> QED
    BY <1>4, <2>1
<1> QED
  BY <1>1, <1>5, <1>6 DEF N

LEMMA CutEmpty ==
  ASSUME NEW A, NEW start \in Cuts(A)
  PROVE  Cut(start, <<>>) = start
<1> DEFINE line == <<>>
<1>1. line \in Seq(A)
  OBVIOUS
<1>2. Len(line) = 0
  OBVIOUS
<1> HIDE DEF line
<1>3. PICK f :
        /\ f[0] = start
        /\ \A n \in 1 .. Len(line) : f[n] = ReadSymbol(f[n - 1], line[n])
        /\ Cut(start, line) = f[Len(line)]
  BY <1>1, CutRecursion
<1>4. Cut(start, line) = start
  BY <1>2, <1>3
<1> QED
  BY <1>4 DEF line

\* The reader goes on from where it was.
LEMMA CutAppend ==
  ASSUME NEW A, NEW start \in Cuts(A), NEW s \in Seq(A), NEW x \in A
  PROVE  Cut(start, Append(s, x)) = ReadSymbol(Cut(start, s), x)
<1> DEFINE w == Append(s, x)
           N == Len(s)
<1>1. /\ w \in Seq(A) /\ N \in Nat /\ Len(w) = N + 1 /\ w[N + 1] = x
      /\ \A n \in 1 .. N : w[n] = s[n]
  OBVIOUS
<1>2. PICK f :
        /\ f[0] = start
        /\ \A n \in 1 .. N : f[n] = ReadSymbol(f[n - 1], s[n])
        /\ Cut(start, s) = f[N]
  BY CutRecursion
<1> HIDE DEF w, N
<1>3. PICK g :
        /\ g[0] = start
        /\ \A n \in 1 .. Len(w) : g[n] = ReadSymbol(g[n - 1], w[n])
        /\ Cut(start, w) = g[Len(w)]
  BY <1>1, CutRecursion
<1>4. \A n \in 1 .. N + 1 : g[n] = ReadSymbol(g[n - 1], w[n])
  BY <1>1, <1>3
<1>5. g[N] = f[N]
  <2> DEFINE S == {n \in 0 .. N : g[n] = f[n]}
  <2>1. 0 \in S
    BY <1>1, <1>2, <1>3
  <2>2. ASSUME NEW n \in 1 .. N, n - 1 \in S
        PROVE  n \in S
    <3>1. g[n - 1] = f[n - 1]
      BY <2>2
    <3>2. n \in 1 .. N + 1 /\ n \in 0 .. N /\ w[n] = s[n]
      BY <1>1
    <3>3. g[n] = ReadSymbol(g[n - 1], s[n])
      BY <1>4, <3>2
    <3>4. f[n] = ReadSymbol(f[n - 1], s[n])
      BY <1>2
    <3>5. g[n] = f[n]
      BY <3>1, <3>3, <3>4
    <3> QED
      BY <3>2, <3>5
  <2>3. \A n \in 0 .. N : n \in S
    <3> HIDE DEF S
    <3> QED
      BY <1>1, <2>1, <2>2, InductionUpTo
  <2> QED
    BY <1>1, <2>3
<1>6. g[N + 1] = ReadSymbol(g[N], x)
  <2>1. N + 1 \in 1 .. N + 1 /\ (N + 1) - 1 = N
    BY <1>1
  <2>2. g[N + 1] = ReadSymbol(g[(N + 1) - 1], w[N + 1])
    BY <1>4, <2>1
  <2> QED
    BY <1>1, <2>1, <2>2
<1>7. Cut(start, w) = ReadSymbol(Cut(start, s), x)
  BY <1>1, <1>2, <1>3, <1>5, <1>6
<1> QED
  BY <1>7 DEF w

\* A text is read as the fields F and the beginning w of the next one.
Start == Within(<<>>, <<>>)

Reads(A, s, F, w) ==
  /\ s \in Seq(A) /\ F \in Seq(Seq(A)) /\ w \in Seq(A)
  /\ Cut(Start, s) = Within(F, w)

LEMMA StartType ==
  ASSUME NEW A
  PROVE  Start \in Cuts(A) /\ Start = [literal |-> FALSE, fields |-> << <<>> >>]
<1> DEFINE G == << <<>> >>
<1>1. <<>> \in Seq(A) /\ <<>> \in Seq(Seq(A))
  OBVIOUS
<1>2. Append(<<>>, <<>>) = G
  OBVIOUS
<1>3. G \in Seq(Seq(A)) /\ G # <<>>
  BY <1>1
<1>4. Start = [literal |-> FALSE, fields |-> G]
  BY <1>2 DEF Start, Within
<1> HIDE DEF G
<1>5. [literal |-> FALSE, fields |-> G] \in Cuts(A)
  BY <1>3 DEF Cuts
<1> QED
  BY <1>4, <1>5 DEF G

LEMMA ReadsNothing ==
  ASSUME NEW A
  PROVE  Reads(A, <<>>, <<>>, <<>>)
<1>1. <<>> \in Seq(A) /\ <<>> \in Seq(Seq(A))
  OBVIOUS
<1>2. Cut(Start, <<>>) = Start
  BY StartType, CutEmpty
<1> QED
  BY <1>1, <1>2 DEF Reads, Start

LEMMA StartAppend ==
  ASSUME NEW A, NEW s, NEW x, s \in Seq(A), x \in A
  PROVE  Cut(Start, Append(s, x)) = ReadSymbol(Cut(Start, s), x)
<1>1. Start \in Cuts(A)
  BY StartType
<1> QED
  BY <1>1, CutAppend

LEMMA ReadsPlain ==
  ASSUME NEW A, NEW s, NEW F, NEW w, NEW x, Reads(A, s, F, w), x \in A, x \notin Special
  PROVE  Reads(A, Append(s, x), F, Append(w, x))
<1>1. /\ s \in Seq(A) /\ F \in Seq(Seq(A)) /\ w \in Seq(A)
      /\ Cut(Start, s) = Within(F, w)
  BY DEF Reads
<1>2. Append(s, x) \in Seq(A) /\ Append(w, x) \in Seq(A)
  BY <1>1
<1>3. Cut(Start, Append(s, x)) = ReadSymbol(Within(F, w), x)
  BY <1>1, StartAppend
<1>4. ReadSymbol(Within(F, w), x) = Within(F, Append(w, x))
  BY <1>1, ReadPlain
<1> QED
  BY <1>1, <1>2, <1>3, <1>4 DEF Reads

LEMMA ReadsDelimiter ==
  ASSUME NEW A, NEW s, NEW F, NEW w, NEW x,
         Reads(A, s, F, w), Special \subseteq A, x \in Delimiter
  PROVE  Reads(A, Append(s, x), Append(F, w), <<>>)
<1>1. /\ s \in Seq(A) /\ F \in Seq(Seq(A)) /\ w \in Seq(A)
      /\ Cut(Start, s) = Within(F, w)
  BY DEF Reads
<1>2. x \in A
  BY DEF Delimiter, Special
<1>3. Append(s, x) \in Seq(A) /\ <<>> \in Seq(A)
  BY <1>1, <1>2
<1>4. Append(F, w) \in Seq(Seq(A))
  BY <1>1, AppendProperties
<1>5. Cut(Start, Append(s, x)) = ReadSymbol(Within(F, w), x)
  BY <1>1, <1>2, StartAppend
<1>6. ReadSymbol(Within(F, w), x) = Within(Append(F, w), <<>>)
  BY ReadDelimiter
<1> QED
  BY <1>3, <1>4, <1>5, <1>6 DEF Reads

\* A marked symbol is read as the symbol.
LEMMA ReadsMarked ==
  ASSUME NEW A, NEW s, NEW F, NEW w, NEW x, Reads(A, s, F, w), Special \subseteq A, x \in A
  PROVE  Reads(A, s \o Marked(x, Special), F, Append(w, x))
<1>1. /\ s \in Seq(A) /\ F \in Seq(Seq(A)) /\ w \in Seq(A)
      /\ Cut(Start, s) = Within(F, w)
  BY DEF Reads
<1>2. Backslash \in A
  BY DEF Special
<1>3. CASE x \notin Special
  <2>1. Reads(A, Append(s, x), F, Append(w, x))
    BY <1>3, ReadsPlain
  <2>2. s \o Marked(x, Special) = Append(s, x)
    <3>1. Marked(x, Special) = <<x>>
      BY <1>3 DEF Marked
    <3> QED
      BY <1>1, <3>1, JoinOne
  <2> QED
    BY <2>1, <2>2
<1>4. CASE x \in Special
  <2> DEFINE t == Append(s, Backslash)
  <2>1. t \in Seq(A) /\ Append(w, x) \in Seq(A)
    BY <1>1, <1>2
  <2>2. Cut(Start, t) = Literally(F, w)
    <3>1. Cut(Start, t) = ReadSymbol(Within(F, w), Backslash)
      BY <1>1, <1>2, StartAppend
    <3> QED
      BY <3>1, ReadBackslash
  <2>3. s \o Marked(x, Special) = Append(t, x)
    <3>1. Marked(x, Special) = <<Backslash, x>>
      BY <1>4 DEF Marked
    <3> QED
      BY <1>1, <1>2, <3>1, JoinOne
  <2> HIDE DEF t
  <2>4. Cut(Start, Append(t, x)) = ReadSymbol(Literally(F, w), x)
    BY <2>1, <2>2, StartAppend
  <2>5. ReadSymbol(Literally(F, w), x) = Within(F, Append(w, x))
    BY <1>1, ReadLiteral
  <2>6. Append(t, x) \in Seq(A)
    BY <2>1
  <2> QED
    BY <1>1, <2>1, <2>3, <2>4, <2>5, <2>6 DEF Reads
<1> QED
  BY <1>3, <1>4

LEMMA EscapeTagType ==
  ASSUME NEW A, Special \subseteq A, NEW v \in Seq(A)
  PROVE  escapeTag(v) \in Seq(A)
<1> DEFINE e1 == Escaped(v, Backslash)
           e2 == Escaped(e1, Space)
           e3 == Escaped(e2, ",")
<1>1. Backslash \in A /\ Space \in A /\ "," \in A /\ "=" \in A
  BY DEF Special
<1>2. e1 \in Seq(A)
  BY <1>1, EscapedType
<1> HIDE DEF e1
<1>3. e2 \in Seq(A)
  BY <1>1, <1>2, EscapedType
<1> HIDE DEF e2
<1>4. e3 \in Seq(A)
  BY <1>1, <1>3, EscapedType
<1> HIDE DEF e3
<1>5. Escaped(e3, "=") \in Seq(A)
  BY <1>1, <1>4, EscapedType
<1> QED
  BY <1>5 DEF escapeTag, e1, e2, e3

\* What escapeTag writes (storage.go:172-178) is read back as the name it was
\* given, whatever symbols the name is made of.
THEOREM EscapedNameIsReadBack ==
  ASSUME NEW A, NEW s, NEW F, NEW w, NEW v,
         Reads(A, s, F, w), Special \subseteq A, v \in Seq(A)
  PROVE  Reads(A, s \o escapeTag(v), F, w \o v)
<1> DEFINE N == Len(v)
           P(n) == SubSeq(v, 1, n)
           S == {n \in 0 .. N : Reads(A, s \o escapeTag(P(n)), F, w \o P(n))}
<1>1. N \in Nat /\ \A n \in 1 .. N : v[n] \in A
  OBVIOUS
<1>2. s \in Seq(A) /\ w \in Seq(A)
  BY DEF Reads
<1>3. 0 \in S
  <2>1. P(0) = <<>>
    OBVIOUS
  <2>2. s \o <<>> = s /\ w \o <<>> = w
    BY <1>2, ConcatEmptySeq
  <2>3. Reads(A, s \o escapeTag(P(0)), F, w \o P(0))
    BY <2>1, <2>2, EscapeTagEmpty
  <2> QED
    BY <1>1, <2>3
<1>4. ASSUME NEW n \in 1 .. N, n - 1 \in S
      PROVE  n \in S
  <2> DEFINE p == P(n - 1)
             e == escapeTag(p)
             y == v[n]
             m == Marked(y, Special)
  <2>1. Reads(A, s \o e, F, w \o p)
    BY <1>4
  <2>2. p \in Seq(A)
    OBVIOUS
  <2>3. P(n) = Append(p, y)
    OBVIOUS
  <2>4. y \in A
    BY <1>1
  <2> HIDE DEF p, P, y
  <2>5. e \in Seq(A)
    BY <2>2, EscapeTagType
  <2>6. m \in Seq(A)
    <3>1. Backslash \in A
      BY DEF Special
    <3> QED
      BY <2>4, <3>1 DEF Marked
  <2>7. escapeTag(P(n)) = e \o m
    BY <2>2, <2>3, <2>4, EscapeTagAppend
  <2> HIDE DEF e
  <2>8. Reads(A, (s \o e) \o m, F, Append(w \o p, y))
    BY <2>1, <2>4, ReadsMarked
  <2>9. (s \o e) \o m = s \o (e \o m)
    <3> HIDE DEF m
    <3>1. Associates(s, e, m)
      BY <1>2, <2>5, <2>6, JoinAssociates
    <3> QED
      BY <3>1 DEF Associates
  <2>10. Append(w \o p, y) = w \o Append(p, y)
    <3> DEFINE q == <<y>>
    <3>1. q \in Seq(A)
      BY <2>4
    <3>2. Append(p, y) = p \o q
      BY <2>2, <2>4, AppendIsConcat
    <3>3. Append(w \o p, y) = (w \o p) \o q
      BY <1>2, <2>2, <2>4, ConcatProperties, AppendIsConcat
    <3> HIDE DEF q
    <3>4. Associates(w, p, q)
      BY <1>2, <2>2, <3>1, JoinAssociates
    <3> QED
      BY <3>2, <3>3, <3>4 DEF Associates
  <2>11. Reads(A, s \o escapeTag(P(n)), F, w \o P(n))
    BY <2>3, <2>7, <2>8, <2>9, <2>10
  <2> QED
    BY <1>1, <2>11
<1>5. \A n \in 0 .. N : n \in S
  <2> HIDE DEF S
  <2> QED
    BY <1>1, <1>3, <1>4, InductionUpTo
<1>6. Reads(A, s \o escapeTag(P(N)), F, w \o P(N))
  BY <1>1, <1>5
<1>7. P(N) = v
  OBVIOUS
<1> QED
  BY <1>6, <1>7

-----------------------------------------------------------------------------
(***************************************************************************)
(* Lines                                                                   *)
(***************************************************************************)
\* The words of a line; like the numbers, they have no special symbol in them.
Words == {"port", "slave", "slave_name", "register", "register_name", "register_",
          "i", "timestamp", "a"}

Symbols(A) ==
  /\ Special \subseteq A /\ Words \subseteq A
  /\ \A n \in Int : ToString(n) \in A

NumbersArePlain == \A n \in Int : ToString(n) \notin Special

Plain(A) == A \ Special

LEMMA PlainWords ==
  ASSUME NEW A, Symbols(A)
  PROVE  /\ "port" \in Plain(A) /\ "slave" \in Plain(A) /\ "slave_name" \in Plain(A)
         /\ "register" \in Plain(A) /\ "register_name" \in Plain(A)
         /\ "i" \in Plain(A) /\ "timestamp" \in Plain(A)
<1>1. Words \cap Special = {}
  BY DEF Words, Special, Backslash, Space
<1>2. \A x \in Words : x \in Plain(A)
  BY <1>1 DEF Symbols, Plain
<1> QED
  BY <1>2 DEF Words

LEMMA ReadsWord ==
  ASSUME NEW A, NEW s, NEW F, NEW w, NEW x, Reads(A, s, F, w), x \in Plain(A)
  PROVE  Reads(A, s \o <<x>>, F, Append(w, x))
<1>1. s \in Seq(A) /\ x \in A /\ x \notin Special
  BY DEF Reads, Plain
<1>2. s \o <<x>> = Append(s, x)
  BY <1>1, JoinOne
<1> QED
  BY <1>1, <1>2, ReadsPlain

LEMMA ReadsBreak ==
  ASSUME NEW A, NEW s, NEW F, NEW w, NEW x, Reads(A, s, F, w), Symbols(A), x \in Delimiter
  PROVE  Reads(A, s \o <<x>>, Append(F, w), <<>>)
<1>1. s \in Seq(A) /\ x \in A /\ Special \subseteq A
  BY DEF Reads, Symbols, Delimiter, Special
<1>2. s \o <<x>> = Append(s, x)
  BY <1>1, JoinOne
<1> QED
  BY <1>1, <1>2, ReadsDelimiter

\* The key of a tag, and the key of a tag with its number.
LEMMA ReadsKey ==
  ASSUME NEW A, NEW s, NEW F, NEW w, NEW k, Reads(A, s, F, w), Symbols(A), k \in Plain(A)
  PROVE  Reads(A, s \o <<",", k, "=">>, Append(Append(F, w), <<k>>), <<>>)
<1>1. "," \in Delimiter /\ "=" \in Delimiter
  BY DEF Delimiter
<1>2. s \in Seq(A) /\ "," \in A /\ "=" \in A /\ k \in A
  BY DEF Reads, Symbols, Special, Plain
<1> DEFINE s1 == s \o <<",">>
           s2 == s1 \o <<k>>
           s3 == s2 \o <<"=">>
<1>3. Reads(A, s1, Append(F, w), <<>>)
  BY <1>1, ReadsBreak
<1> HIDE DEF s1
<1>4. Append(<<>>, k) = <<k>>
  OBVIOUS
<1>5. Reads(A, s2, Append(F, w), <<k>>)
  <2>1. Reads(A, s2, Append(F, w), Append(<<>>, k))
    BY <1>3, ReadsWord
  <2> QED
    BY <1>4, <2>1
<1> HIDE DEF s2
<1>6. Reads(A, s3, Append(Append(F, w), <<k>>), <<>>)
  BY <1>1, <1>5, ReadsBreak
<1> HIDE DEF s3
<1>7. JoinsThree(s, ",", k, "=")
  BY <1>2, JoinTuple
<1>8. s \o <<",", k, "=">> = s3
  BY <1>7 DEF JoinsThree, s3, s2, s1
<1> QED
  BY <1>6, <1>8

LEMMA ReadsKeyWord ==
  ASSUME NEW A, NEW s, NEW F, NEW w, NEW k, NEW x,
         Reads(A, s, F, w), Symbols(A), k \in Plain(A), x \in Plain(A)
  PROVE  Reads(A, s \o <<",", k, "=", x>>, Append(Append(F, w), <<k>>), <<x>>)
<1> DEFINE t == s \o <<",", k, "=">>
           G == Append(Append(F, w), <<k>>)
<1>1. Reads(A, t, G, <<>>)
  BY ReadsKey
<1>2. s \in Seq(A) /\ "," \in A /\ "=" \in A /\ k \in A /\ x \in A
  BY DEF Reads, Symbols, Special, Plain
<1>3. JoinsFour(s, ",", k, "=", x)
  BY <1>2, JoinTuple
<1>4. s \o <<",", k, "=", x>> = t \o <<x>>
  BY <1>3 DEF JoinsFour
<1> HIDE DEF t, G
<1>5. Reads(A, t \o <<x>>, G, Append(<<>>, x))
  BY <1>1, ReadsWord
<1>6. Append(<<>>, x) = <<x>>
  OBVIOUS
<1>7. Reads(A, t \o <<x>>, G, <<x>>)
  BY <1>5, <1>6
<1> QED
  BY <1>4, <1>7 DEF G

\* The first and the last symbol that is kept are found.
LEMMA Greatest ==
  ASSUME NEW N \in Nat, NEW T, T \subseteq 1 .. N, T # {}
  PROVE  \E m \in T : \A n \in T : m >= n
<1> DEFINE U == {N - n : n \in T}
<1>1. U \subseteq Nat /\ U # {}
  <2>1. \A n \in T : N - n \in Nat
    OBVIOUS
  <2> QED
    BY <2>1
<1>2. PICK u \in U : \A x \in U : u <= x
  <2> HIDE DEF U
  <2> QED
    BY <1>1, Least
<1>3. PICK m \in T : u = N - m
  BY <1>2
<1>4. ASSUME NEW n \in T
      PROVE  m >= n
  <2>1. N - m <= N - n
    BY <1>2, <1>3
  <2> QED
    BY <2>1
<1> QED
  BY <1>4

LEMMA TrimmedType ==
  ASSUME NEW A, NEW v \in Seq(A)
  PROVE  Trimmed(v) \in Seq(A)
<1> DEFINE kept == {i \in DOMAIN v : v[i] # Space}
           first == CHOOSE i \in kept : \A j \in kept : i <= j
           last == CHOOSE i \in kept : \A j \in kept : i >= j
<1>1. CASE kept = {}
  <2>1. Trimmed(v) = <<>>
    BY <1>1 DEF Trimmed
  <2> QED
    BY <2>1
<1>2. CASE kept # {}
  <2>1. kept \subseteq 1 .. Len(v) /\ kept \subseteq Nat /\ Len(v) \in Nat
    OBVIOUS
  <2>2. Trimmed(v) = SubSeq(v, first, last)
    BY <1>2 DEF Trimmed
  <2> HIDE DEF kept
  <2>3. \E m \in kept : \A n \in kept : m <= n
    BY <1>2, <2>1, Least
  <2>4. \E m \in kept : \A n \in kept : m >= n
    BY <1>2, <2>1, Greatest
  <2>5. first \in kept /\ last \in kept
    BY <2>3, <2>4
  <2> HIDE DEF first, last
  <2>6. first \in 1 .. Len(v) /\ last \in 1 .. Len(v)
    BY <2>1, <2>5
  <2>7. SubSeq(v, first, last) \in Seq(A)
    BY <2>6
  <2> QED
    BY <2>2, <2>7
<1> QED
  BY <1>1, <1>2

LEMMA FieldNameType ==
  ASSUME NEW A, Symbols(A), NEW v, v.name \in Seq(A), v.register \in Int
  PROVE  FieldName(v) \in Seq(A)
<1> DEFINE name == Trimmed(v.name)
           number == ToString(v.register)
           word == "register_"
<1>1. name \in Seq(A)
  BY TrimmedType
<1>2. word \in A /\ number \in A /\ "a" \in A
  BY DEF Symbols, Words
<1>3. FieldName(v) = IF name = <<>> THEN <<word, number>> ELSE ToLower(name)
  BY DEF FieldName
<1> HIDE DEF name, number, word
<1>4. <<word, number>> \in Seq(A)
  BY <1>2
<1>5. ToLower(name) \in Seq(A)
  <2>1. \A i \in 1 .. Len(name) : (IF name[i] = "A" THEN "a" ELSE name[i]) \in A
    BY <1>1, <1>2
  <2>2. DOMAIN name = 1 .. Len(name) /\ Len(name) \in Nat
    BY <1>1
  <2>3. [i \in 1 .. Len(name) |-> IF name[i] = "A" THEN "a" ELSE name[i]] \in Seq(A)
    BY <2>1, <2>2
  <2> QED
    BY <2>2, <2>3 DEF ToLower
<1> QED
  BY <1>3, <1>4, <1>5

LEMMA AppendPair ==
  ASSUME NEW A, NEW a \in A, NEW b \in A
  PROVE  <<a, b>> = Append(<<a>>, b)
OBVIOUS

JoinsSeven(s, a, b, c, d, e, f, g) ==
  s \o <<a, b, c, d, e, f, g>>
    = Append(Append(Append(Append(Append(Append(Append(s, a), b), c), d), e), f), g)

LEMMA JoinSeven ==
  ASSUME NEW A, NEW s, NEW a, NEW b, NEW c, NEW d, NEW e, NEW f, NEW g,
         s \in Seq(A), a \in A, b \in A, c \in A, d \in A, e \in A, f \in A, g \in A
  PROVE  JoinsSeven(s, a, b, c, d, e, f, g)
<1> DEFINE t4 == <<a, b, c, d>>
           t5 == <<a, b, c, d, e>>
           t6 == <<a, b, c, d, e, f>>
           t7 == <<a, b, c, d, e, f, g>>
           s1 == s \o <<a>>
           s2 == s1 \o <<b>>
           s3 == s2 \o <<c>>
           s4 == s3 \o <<d>>
           s5 == s4 \o <<e>>
           s6 == s5 \o <<f>>
<1>1. t4 \in Seq(A)
  OBVIOUS
<1>2. t5 \in Seq(A)
  OBVIOUS
<1>3. t6 \in Seq(A)
  OBVIOUS
<1>4. t5 = Append(t4, e)
  OBVIOUS
<1>5. t6 = Append(t5, f)
  OBVIOUS
<1>6. t7 = Append(t6, g)
  OBVIOUS
<1>7. JoinsThree(s, a, b, c) /\ JoinsFour(s, a, b, c, d)
  BY JoinTuple
<1>8. s \o t4 = s4
  BY <1>7 DEF JoinsThree, JoinsFour
<1> HIDE DEF t4, t5, t6, t7
<1>9. JoinsLast(s, t4, e) /\ JoinsLast(s, t5, f) /\ JoinsLast(s, t6, g)
  BY <1>1, <1>2, <1>3, JoinLast
<1>10. s \o t5 = s5
  BY <1>4, <1>8, <1>9 DEF JoinsLast
<1>11. s \o t6 = s6
  BY <1>5, <1>9, <1>10 DEF JoinsLast
<1>12. s \o t7 = s6 \o <<g>>
  BY <1>6, <1>9, <1>11 DEF JoinsLast
<1>13. s1 = Append(s, a) /\ s1 \in Seq(A)
  BY JoinOne
<1> HIDE DEF s1
<1>14. s2 = Append(s1, b) /\ s2 \in Seq(A)
  BY <1>13, JoinOne
<1> HIDE DEF s2
<1>15. s3 = Append(s2, c) /\ s3 \in Seq(A)
  BY <1>14, JoinOne
<1> HIDE DEF s3
<1>16. s4 = Append(s3, d) /\ s4 \in Seq(A)
  BY <1>15, JoinOne
<1> HIDE DEF s4
<1>17. s5 = Append(s4, e) /\ s5 \in Seq(A)
  BY <1>16, JoinOne
<1> HIDE DEF s5
<1>18. s6 = Append(s5, f) /\ s6 \in Seq(A)
  BY <1>17, JoinOne
<1> HIDE DEF s6
<1>19. s6 \o <<g>> = Append(s6, g)
  BY <1>18, JoinOne
<1> QED
  BY <1>12, <1>13, <1>14, <1>15, <1>16, <1>17, <1>18, <1>19 DEF JoinsSeven, t7

\* The database reads of the line what was to be written.
LineReadBack(measurement, port, slaveID, slaveName, v) ==
  Fields(Line(measurement, port, slaveID, slaveName, v))
    = Meant(measurement, port, slaveID, slaveName, v)

\* Every line buildLineProtocol writes (storage.go:131-151) is read back as what
\* is meant: the name of the measurement, every tag and field with its name, and
\* the number, whatever symbols the names of the configuration are made of.
THEOREM LineIsReadBack ==
  ASSUME NEW A, Symbols(A), NumbersArePlain,
         NEW measurement, measurement \in Seq(A), NEW port, port \in Seq(A),
         NEW slaveID, slaveID \in Int, NEW slaveName, slaveName \in Seq(A),
         NEW v, v.name \in Seq(A), v.register \in Int, v.value \in Int
  PROVE  LineReadBack(measurement, port, slaveID, slaveName, v)
<1> DEFINE s1 == escapeTag(measurement)
           s2 == s1 \o <<",", "port", "=">>
           s3 == s2 \o escapeTag(port)
           id == ToString(slaveID)
           s4 == s3 \o <<",", "slave", "=", id>>
           s5 == s4 \o (IF slaveName = <<>> THEN <<>>
                        ELSE <<",", "slave_name", "=">> \o escapeTag(slaveName))
           number == ToString(v.register)
           s6 == s5 \o <<",", "register", "=", number>>
           s7 == s6 \o <<",", "register_name", "=">>
           s8 == s7 \o escapeTag(v.name)
           s9 == s8 \o <<Space>>
           field == FieldName(v)
           s10 == s9 \o escapeTag(field)
           value == ToString(v.value)
           s11 == s10 \o <<"=", value, "i">>
           s12 == s11 \o <<Space, "timestamp">>
           F1 == Append(Append(<<>>, measurement), <<"port">>)
           F2 == Append(Append(F1, port), <<"slave">>)
           F3 == Append(Append(F2, <<id>>), <<"slave_name">>)
<1>1. Line(measurement, port, slaveID, slaveName, v) = s12
  BY DEF Line, fieldKey
<1>2. id \in Plain(A) /\ number \in Plain(A) /\ value \in Plain(A)
  BY DEF Symbols, NumbersArePlain, Plain
<1>3. field \in Seq(A)
  BY FieldNameType
<1>4. Special \subseteq A
  BY DEF Symbols
<1>5. Space \in Delimiter /\ "=" \in Delimiter /\ "," \in Delimiter
  BY DEF Delimiter
<1>6. Reads(A, s1, <<>>, measurement)
  <2>1. Reads(A, <<>> \o escapeTag(measurement), <<>>, <<>> \o measurement)
    BY <1>4, ReadsNothing, EscapedNameIsReadBack
  <2>2. <<>> \o escapeTag(measurement) = s1
    BY <1>4, EscapeTagType, ConcatEmptySeq
  <2>3. <<>> \o measurement = measurement
    BY ConcatEmptySeq
  <2> QED
    BY <2>1, <2>2, <2>3
<1> HIDE DEF s1
<1>7. Reads(A, s2, F1, <<>>)
  BY <1>6, PlainWords, ReadsKey
<1> HIDE DEF s2, F1
<1>8. Reads(A, s3, F1, port)
  <2>1. Reads(A, s3, F1, <<>> \o port)
    BY <1>4, <1>7, EscapedNameIsReadBack
  <2>2. <<>> \o port = port
    BY ConcatEmptySeq
  <2> QED
    BY <2>1, <2>2
<1> HIDE DEF s3
<1>9. Reads(A, s4, F2, <<id>>)
  <2> HIDE DEF id
  <2> QED
    BY <1>2, <1>8, PlainWords, ReadsKeyWord
<1> HIDE DEF s4, F2
<1> DEFINE F5 == IF slaveName = <<>> THEN F2 ELSE F3
           w5 == IF slaveName = <<>> THEN <<id>> ELSE slaveName
           F6 == Append(Append(F5, w5), <<"register">>)
           F7 == Append(Append(F6, <<number>>), <<"register_name">>)
           F9 == Append(F7, v.name)
           F11 == Append(F9, field)
           F12 == Append(F11, <<value, "i">>)
<1>10. Reads(A, s5, F5, w5)
  <2>1. CASE slaveName = <<>>
    <3>1. s4 \in Seq(A)
      BY <1>9 DEF Reads
    <3>2. s5 = s4
      BY <2>1, <3>1, ConcatEmptySeq
    <3> QED
      BY <1>9, <2>1, <3>2
  <2>2. CASE slaveName # <<>>
    <3> DEFINE t == <<",", "slave_name", "=">>
               e == escapeTag(slaveName)
    <3>1. Reads(A, s4 \o t, F3, <<>>)
      <4> HIDE DEF id
      <4> QED
        BY <1>9, PlainWords, ReadsKey
    <3>2. Reads(A, (s4 \o t) \o e, F3, <<>> \o slaveName)
      <4> HIDE DEF F3, t
      <4> QED
        BY <1>4, <3>1, EscapedNameIsReadBack
    <3>3. <<>> \o slaveName = slaveName
      BY ConcatEmptySeq
    <3>4. s4 \in Seq(A) /\ e \in Seq(A)
      BY <1>4, <1>9, EscapeTagType DEF Reads
    <3>5. t \in Seq(A)
      <4> DEFINE comma == ","
                 key == "slave_name"
                 equals == "="
      <4>1. comma \in A /\ key \in A /\ equals \in A
        BY DEF Symbols, Special, Words
      <4> HIDE DEF comma, key, equals
      <4>2. <<comma, key, equals>> \in Seq(A)
        BY <4>1
      <4> QED
        BY <4>2 DEF comma, key, equals
    <3> HIDE DEF t, e
    <3>6. Associates(s4, t, e)
      BY <3>4, <3>5, JoinAssociates
    <3>7. s5 = (s4 \o t) \o e
      BY <2>2, <3>6 DEF Associates, t, e
    <3>8. F5 = F3 /\ w5 = slaveName
      BY <2>2
    <3> HIDE DEF F3, F5, w5, s5
    <3> QED
      BY <3>2, <3>3, <3>7, <3>8
  <2> QED
    BY <2>1, <2>2
<1> HIDE DEF s5, F5, w5, id
<1>11. Reads(A, s6, F6, <<number>>)
  <2> HIDE DEF number
  <2> QED
    BY <1>2, <1>10, PlainWords, ReadsKeyWord
<1> HIDE DEF s6, F6
<1>12. Reads(A, s7, F7, <<>>)
  <2> HIDE DEF number
  <2> QED
    BY <1>11, PlainWords, ReadsKey
<1> HIDE DEF s7, F7, number
<1>13. Reads(A, s8, F7, v.name)
  <2>1. Reads(A, s8, F7, <<>> \o v.name)
    BY <1>4, <1>12, EscapedNameIsReadBack
  <2>2. <<>> \o v.name = v.name
    BY ConcatEmptySeq
  <2> QED
    BY <2>1, <2>2
<1> HIDE DEF s8
<1>14. Reads(A, s9, F9, <<>>)
  BY <1>5, <1>13, ReadsBreak
<1> HIDE DEF s9, F9, field
<1>15. Reads(A, s10, F9, field)
  <2>1. Reads(A, s10, F9, <<>> \o field)
    BY <1>3, <1>4, <1>14, EscapedNameIsReadBack
  <2>2. <<>> \o field = field
    BY <1>3, ConcatEmptySeq
  <2> QED
    BY <2>1, <2>2
<1> HIDE DEF s10, value
<1>16. Reads(A, s11, F11, <<value, "i">>)
  <2> DEFINE letter == "i"
             a1 == s10 \o <<"=">>
             a2 == a1 \o <<value>>
             a3 == a2 \o <<letter>>
  <2>1. letter \in Plain(A) /\ letter \in A /\ value \in A /\ "=" \in A
    BY <1>2, PlainWords DEF Plain, Symbols, Special
  <2>2. s10 \in Seq(A)
    BY <1>15 DEF Reads
  <2> HIDE DEF letter
  <2>3. Reads(A, a1, F11, <<>>)
    BY <1>5, <1>15, ReadsBreak
  <2> HIDE DEF a1, F11
  <2>4. Reads(A, a2, F11, <<value>>)
    <3>1. Reads(A, a2, F11, Append(<<>>, value))
      BY <1>2, <2>3, ReadsWord
    <3>2. Append(<<>>, value) = <<value>>
      OBVIOUS
    <3> QED
      BY <3>1, <3>2
  <2> HIDE DEF a2
  <2>5. Reads(A, a3, F11, <<value, letter>>)
    <3>1. Reads(A, a3, F11, Append(<<value>>, letter))
      BY <2>1, <2>4, ReadsWord
    <3>2. Append(<<value>>, letter) = <<value, letter>>
      BY <2>1, AppendPair
    <3> QED
      BY <3>1, <3>2
  <2> HIDE DEF a3
  <2>6. JoinsThree(s10, "=", value, letter)
    BY <2>1, <2>2, JoinTuple
  <2>7. s11 = a3
    BY <2>6 DEF JoinsThree, a1, a2, a3, letter
  <2>8. Reads(A, s11, F11, <<value, letter>>)
    BY <2>5, <2>7
  <2> QED
    BY <2>8 DEF letter
<1> HIDE DEF s11, F11
<1>17. Reads(A, s12, F12, <<"timestamp">>)
  <2> DEFINE word == "timestamp"
             a1 == s11 \o <<Space>>
  <2>1. word \in Plain(A) /\ word \in A /\ Space \in A
    BY PlainWords DEF Plain, Symbols, Special
  <2>2. s11 \in Seq(A)
    BY <1>16 DEF Reads
  <2>3. Reads(A, a1, F12, <<>>)
    BY <1>5, <1>16, ReadsBreak
  <2> HIDE DEF word, F12
  <2>4. Reads(A, a1 \o <<word>>, F12, <<word>>)
    <3>1. Reads(A, a1 \o <<word>>, F12, Append(<<>>, word))
      BY <2>1, <2>3, ReadsWord
    <3>2. Append(<<>>, word) = <<word>>
      OBVIOUS
    <3> QED
      BY <3>1, <3>2
  <2>5. a1 \o <<word>> = s11 \o <<Space, word>>
    <3> DEFINE q == <<Space>>
    <3>0. Append(q, word) = <<Space, word>>
      BY <2>1, AppendPair
    <3>1. q \in Seq(A)
      BY <2>1
    <3>2. JoinsLast(s11, q, word)
      <4> HIDE DEF q
      <4> QED
        BY <2>1, <2>2, <3>1, JoinLast
    <3> QED
      BY <3>0, <3>2 DEF JoinsLast
  <2>6. s12 = a1 \o <<word>>
    BY <2>5 DEF word
  <2> HIDE DEF s12
  <2>7. Reads(A, s12, F12, <<word>>)
    BY <2>4, <2>6
  <2> QED
    BY <2>7 DEF word
<1> HIDE DEF s12, F12
<1>18. Fields(s12) = Append(F12, <<"timestamp">>)
  <2>1. Cut(Start, s12) = Within(F12, <<"timestamp">>)
    BY <1>17 DEF Reads
  <2>2. Fields(s12) = Cut(Start, s12).fields
    BY StartType DEF Fields
  <2> QED
    BY <2>1, <2>2 DEF Within
<1> DEFINE T == Seq(A)
           port1 == <<"port">>
           slave1 == <<"slave">>
           id1 == <<id>>
           H == <<measurement, port1, port, slave1, id1>>
           named1 == <<"slave_name">>
           register1 == <<"register">>
           number1 == <<number>>
           registerName1 == <<"register_name">>
           value1 == <<value, "i">>
           timestamp1 == <<"timestamp">>
           J == H \o (IF slaveName = <<>> THEN <<>> ELSE <<named1, slaveName>>)
<1>19. Meant(measurement, port, slaveID, slaveName, v)
         = J \o <<register1, number1, registerName1, v.name, field, value1, timestamp1>>
  BY DEF Meant, field, value, number, id
<1>20. Append(F12, timestamp1)
         = Append(Append(Append(Append(Append(Append(Append(Append(F5, w5), register1), number1),
             registerName1), v.name), field), value1), timestamp1)
  BY DEF F12, F11, F9, F7, F6
<1>21. /\ F2 = Append(Append(Append(Append(<<>>, measurement), port1), port), slave1)
       /\ F3 = Append(Append(F2, id1), named1)
  BY DEF F2, F1
<1>22. /\ port1 \in T /\ slave1 \in T /\ id1 \in T /\ named1 \in T /\ register1 \in T
       /\ number1 \in T /\ registerName1 \in T /\ value1 \in T /\ timestamp1 \in T
  <2>1. \A x \in Plain(A) : <<x>> \in T
    BY DEF Plain
  <2>2. \A x \in A, y \in A : <<x, y>> \in T
    OBVIOUS
  <2> DEFINE letter == "i"
  <2>3. letter \in A /\ value \in A
    BY <1>2, PlainWords DEF Plain
  <2> HIDE DEF T, letter
  <2>4. <<value, letter>> \in T
    BY <2>2, <2>3
  <2>5. value1 \in T
    BY <2>4 DEF letter
  <2> QED
    BY <1>2, <2>1, <2>5, PlainWords
<1>23. /\ measurement \in T /\ port \in T /\ slaveName \in T /\ v.name \in T
       /\ field \in T
  BY <1>3
<1> HIDE DEF port1, slave1, id1, named1, register1, number1, registerName1, value1, timestamp1, T
<1>24. H = Append(F2, id1) /\ H \in Seq(T)
  <2>1. H \in Seq(T)
    BY <1>22, <1>23
  <2>2. H = Append(Append(Append(Append(Append(<<>>, measurement), port1), port), slave1), id1)
    BY <1>22, <1>23
  <2> QED
    BY <1>21, <2>1, <2>2
<1> HIDE DEF H
<1>25. J = Append(F5, w5) /\ J \in Seq(T)
  <2>1. CASE slaveName = <<>>
    <3>1. J = H
      BY <1>24, <2>1, ConcatEmptySeq
    <3> QED
      BY <1>24, <2>1, <3>1 DEF F5, w5, id1
  <2>2. CASE slaveName # <<>>
    <3>1. J = H \o <<named1, slaveName>>
      BY <2>2
    <3>2. J = Append(Append(H, named1), slaveName)
      BY <1>22, <1>23, <1>24, <3>1, JoinOne
    <3>3. Append(F5, w5) = Append(Append(Append(F2, id1), named1), slaveName)
      BY <1>21, <2>2 DEF F5, w5
    <3>4. Append(H, named1) \in Seq(T)
      BY <1>22, <1>24, AppendProperties
    <3>5. J \in Seq(T)
      BY <1>23, <3>2, <3>4, AppendProperties
    <3> QED
      BY <1>24, <3>2, <3>3, <3>5
  <2> QED
    BY <2>1, <2>2
<1> HIDE DEF J
<1>26. JoinsSeven(J, register1, number1, registerName1, v.name, field, value1, timestamp1)
  BY <1>22, <1>23, <1>25, JoinSeven
<1>27. Append(F12, timestamp1) = Meant(measurement, port, slaveID, slaveName, v)
  BY <1>19, <1>20, <1>25, <1>26 DEF JoinsSeven
<1> QED
  BY <1>1, <1>18, <1>27 DEF timestamp1, LineReadBack
===============================================================================
