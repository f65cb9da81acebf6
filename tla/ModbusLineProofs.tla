--------------------------- MODULE ModbusLineProofs ---------------------------
(***************************************************************************)
(* Proofs about ModbusLine, for bytes of any width of three bits or more,  *)
(* any polynomial that has the highest place of the CRC, and any polls,    *)
(* instruments and configuration the hypotheses of a theorem allow.        *)
(***************************************************************************)
EXTENDS ModbusLine, LineProtocolProofs, FiniteSetTheorems

-----------------------------------------------------------------------------
(***************************************************************************)
(* Sets of places                                                          *)
(***************************************************************************)
LEMMA Widths ==
  /\ ByteBits \in Nat /\ ByteBits >= 3
  /\ Width \in Nat /\ Width = ByteBits + ByteBits /\ Width - 1 \in Places
  /\ Polynomial \subseteq Places /\ Width - 1 \in Polynomial
BY ByteBitsAssumption, PolynomialAssumption DEF Width, Places

\* A place is in one of the two.
LEMMA XorMember ==
  ASSUME NEW s, NEW t
  PROVE  \A i : i \in Xor(s, t) <=> ~ (i \in s <=> i \in t)
BY DEF Xor

LEMMA XorType ==
  ASSUME NEW s, NEW t, s \subseteq Places, t \subseteq Places
  PROVE  Xor(s, t) \subseteq Places
BY DEF Xor

LEMMA XorEmpty ==
  ASSUME NEW s, NEW t
  PROVE  Xor(s, t) = {} <=> s = t
BY DEF Xor

LEMMA ShiftedMember ==
  ASSUME NEW x, x \subseteq Places, NEW i \in Places
  PROVE  i \in Shifted(x) <=> ~ (i + 1 \in x <=> (0 \in x /\ i \in Polynomial))
<1> DEFINE right == {j - 1 : j \in x \ {0}}
<1>1. i \in right <=> i + 1 \in x
  <2>1. \A j \in x : j \in Int
    BY Widths DEF Places
  <2>2. i \in Nat
    BY Widths DEF Places
  <2>3. CASE i \in right
    <3>1. PICK j \in x \ {0} : i = j - 1
      BY <2>3
    <3>2. j = i + 1
      BY <2>1, <2>2, <3>1
    <3> QED
      BY <2>3, <3>1, <3>2
  <2>4. CASE i + 1 \in x
    <3>1. i + 1 \in x \ {0} /\ i = (i + 1) - 1
      BY <2>2, <2>4
    <3> QED
      BY <2>4, <3>1
  <2> QED
    BY <2>3, <2>4
<1> HIDE DEF right
<1>2. Shifted(x) = IF 0 \in x THEN Xor(right, Polynomial) ELSE right
  BY DEF Shifted, right
<1>3. i \in Xor(right, Polynomial) <=> ~ (i \in right <=> i \in Polynomial)
  BY XorMember
<1> QED
  BY <1>1, <1>2, <1>3

LEMMA ShiftedType ==
  ASSUME NEW x, x \subseteq Places
  PROVE  Shifted(x) \subseteq Places
<1> DEFINE right == {j - 1 : j \in x \ {0}}
<1>1. right \subseteq Places
  <2>1. ASSUME NEW j \in x \ {0}
        PROVE  j - 1 \in Places
    BY Widths DEF Places
  <2> QED
    BY <2>1
<1>2. Shifted(x) = IF 0 \in x THEN Xor(right, Polynomial) ELSE right
  BY DEF Shifted
<1> HIDE DEF right
<1> QED
  BY <1>1, <1>2, XorType, Widths

\* A step can be taken back: what is not empty stays so.
LEMMA ShiftedEmpty ==
  ASSUME NEW x, x \subseteq Places
  PROVE  Shifted(x) = {} <=> x = {}
<1>1. CASE x = {}
  <2>1. Shifted({}) = {}
    BY DEF Shifted
  <2> QED
    BY <1>1, <2>1
<1>2. CASE 0 \in x
  <2>1. Width - 1 \in Places /\ Width - 1 \in Polynomial /\ (Width - 1) + 1 \notin x
    BY Widths DEF Places
  <2>2. Width - 1 \in Shifted(x)
    BY <1>2, <2>1, ShiftedMember
  <2> QED
    BY <1>2, <2>2
<1>3. CASE x # {} /\ 0 \notin x
  <2>1. PICK j \in x : TRUE
    BY <1>3
  <2>2. j - 1 \in Places /\ (j - 1) + 1 = j
    BY <1>3, Widths DEF Places
  <2>3. j - 1 \in Shifted(x)
    BY <1>3, <2>2, ShiftedMember
  <2> QED
    BY <1>3, <2>3
<1> QED
  BY <1>1, <1>2, <1>3

\* The step is linear.
LEMMA ShiftedXor ==
  ASSUME NEW x, NEW y, x \subseteq Places, y \subseteq Places
  PROVE  Shifted(Xor(x, y)) = Xor(Shifted(x), Shifted(y))
<1>1. Xor(x, y) \subseteq Places
  BY XorType
<1>2. /\ Shifted(Xor(x, y)) \subseteq Places
      /\ Xor(Shifted(x), Shifted(y)) \subseteq Places
  BY <1>1, ShiftedType, XorType
<1>3. ASSUME NEW i \in Places
      PROVE  i \in Shifted(Xor(x, y)) <=> i \in Xor(Shifted(x), Shifted(y))
  <2>1. /\ i \in Shifted(Xor(x, y))
             <=> ~ (i + 1 \in Xor(x, y) <=> (0 \in Xor(x, y) /\ i \in Polynomial))
        /\ i \in Shifted(x) <=> ~ (i + 1 \in x <=> (0 \in x /\ i \in Polynomial))
        /\ i \in Shifted(y) <=> ~ (i + 1 \in y <=> (0 \in y /\ i \in Polynomial))
    BY <1>1, ShiftedMember
  <2>2. /\ i + 1 \in Xor(x, y) <=> ~ (i + 1 \in x <=> i + 1 \in y)
        /\ 0 \in Xor(x, y) <=> ~ (0 \in x <=> 0 \in y)
        /\ i \in Xor(Shifted(x), Shifted(y)) <=> ~ (i \in Shifted(x) <=> i \in Shifted(y))
    BY XorMember
  <2> QED
    BY <2>1, <2>2
<1> QED
  BY <1>2, <1>3

-----------------------------------------------------------------------------
(***************************************************************************)
(* A register that takes in one bit per step, at its highest place, and    *)
(* feeds back the one that falls out: what a division leaves, mirrored.    *)
(***************************************************************************)
Pushed(x, ones, k) == Xor(Shifted(x), {i \in {Width - 1} : k \in ones})

\* Register f has taken in the first N bits; ones are the places of the bits set.
Pushes(f, ones, N) ==
  /\ \A n \in 0 .. N : f[n] \subseteq Places
  /\ \A n \in 1 .. N : f[n] = Pushed(f[n - 1], ones, n - 1)

LEMMA PushedMember ==
  ASSUME NEW x, x \subseteq Places, NEW ones, NEW k, NEW i \in Places
  PROVE  i \in Pushed(x, ones, k)
           <=> ~ (~ (i + 1 \in x <=> (0 \in x /\ i \in Polynomial)) <=> (i = Width - 1 /\ k \in ones))
<1>1. i \in Shifted(x) <=> ~ (i + 1 \in x <=> (0 \in x /\ i \in Polynomial))
  BY ShiftedMember
<1> DEFINE top == {j \in {Width - 1} : k \in ones}
<1>2. i \in top <=> (i = Width - 1 /\ k \in ones)
  OBVIOUS
<1> HIDE DEF top
<1>3. i \in Xor(Shifted(x), top) <=> ~ (i \in Shifted(x) <=> i \in top)
  BY XorMember
<1> QED
  BY <1>1, <1>2, <1>3 DEF Pushed, top

LEMMA PushedType ==
  ASSUME NEW x, x \subseteq Places, NEW ones, NEW k
  PROVE  Pushed(x, ones, k) \subseteq Places
<1> DEFINE top == {j \in {Width - 1} : k \in ones}
<1>1. top \subseteq Places
  BY Widths
<1> HIDE DEF top
<1> QED
  BY <1>1, ShiftedType, XorType DEF Pushed, top

\* A register of the same bits as another from the same content on is the same.
LEMMA SamePushed ==
  ASSUME NEW f, NEW g, NEW u, NEW v, NEW N, N \in Nat,
         Pushes(f, u, N), Pushes(g, v, N), f[0] = g[0],
         \A k \in 0 .. N - 1 : k \in u <=> k \in v
  PROVE  \A n \in 0 .. N : f[n] = g[n]
<1> DEFINE S == {n \in 0 .. N : f[n] = g[n]}
<1>1. 0 \in S
  OBVIOUS
<1>2. ASSUME NEW n \in 1 .. N, n - 1 \in S
      PROVE  n \in S
  <2>1. n - 1 \in u <=> n - 1 \in v
    OBVIOUS
  <2>2. f[n] = Pushed(f[n - 1], u, n - 1) /\ g[n] = Pushed(g[n - 1], v, n - 1)
    BY DEF Pushes
  <2>3. f[n - 1] = g[n - 1]
    BY <1>2
  <2>4. Pushed(f[n - 1], u, n - 1) = Pushed(f[n - 1], v, n - 1)
    BY <2>1 DEF Pushed
  <2> QED
    BY <2>2, <2>3, <2>4
<1> HIDE DEF S
<1>3. \A n \in 0 .. N : n \in S
  BY <1>1, <1>2, InductionUpTo
<1> QED
  BY <1>3 DEF S

\* The difference of two registers is a register of the difference of the bits.
LEMMA DifferencePushed ==
  ASSUME NEW x, NEW y, x \subseteq Places, y \subseteq Places, NEW u, NEW v, NEW k
  PROVE  Xor(Pushed(x, u, k), Pushed(y, v, k)) = Pushed(Xor(x, y), Xor(u, v), k)
<1> DEFINE a == {j \in {Width - 1} : k \in u}
           b == {j \in {Width - 1} : k \in v}
           c == {j \in {Width - 1} : k \in Xor(u, v)}
           s == Shifted(x)
           t == Shifted(y)
<1>1. Xor(a, b) = c
  BY DEF Xor
<1>2. Shifted(Xor(x, y)) = Xor(s, t)
  BY ShiftedXor
<1> HIDE DEF a, b, c, s, t
<1>3. Xor(Xor(s, a), Xor(t, b)) = Xor(Xor(s, t), Xor(a, b))
  BY DEF Xor
<1> QED
  BY <1>1, <1>2, <1>3 DEF Pushed, a, b, c, s, t

\* Two streams of bits that begin to differ at a, and agree again as far from
\* there as the register is wide, never leave the same behind.
LEMMA BurstSeen ==
  ASSUME NEW f, NEW g, NEW u, NEW v, NEW N, NEW a, N \in Nat, a \in 0 .. N - 1,
         Pushes(f, u, N), Pushes(g, v, N), f[0] = g[0],
         \A k \in 0 .. a - 1 : k \in u <=> k \in v,
         ~ (a \in u <=> a \in v),
         \A k \in 0 .. N - 1 : k >= a + Width => (k \in u <=> k \in v)
  PROVE  f[N] # g[N]
<1> DEFINE d == Xor(u, v)
           e(n) == Xor(f[n], g[n])
           Lead(n) == /\ n <= a + Width => /\ a + Width - n \in e(n)
                                           /\ \A i \in e(n) : i >= a + Width - n
                      /\ e(n) # {}
           S == {n \in 0 .. N : n > a => Lead(n)}
<1>1. /\ a \in d
      /\ \A k \in 0 .. N - 1 : k >= a + Width => k \notin d
  BY XorMember
<1>2. \A n \in 0 .. N : e(n) \subseteq Places
  <2> TAKE n \in 0 .. N
  <2>1. f[n] \subseteq Places /\ g[n] \subseteq Places
    BY DEF Pushes
  <2> QED
    BY <2>1, XorType
<1>3. \A n \in 1 .. N : e(n) = Pushed(e(n - 1), d, n - 1)
  <2> TAKE n \in 1 .. N
  <2>1. f[n] = Pushed(f[n - 1], u, n - 1) /\ g[n] = Pushed(g[n - 1], v, n - 1)
    BY DEF Pushes
  <2>2. n - 1 \in 0 .. N
    OBVIOUS
  <2>3. f[n - 1] \subseteq Places /\ g[n - 1] \subseteq Places
    BY <2>2 DEF Pushes
  <2> QED
    BY <2>1, <2>3, DifferencePushed
<1>4. e(a) = {}
  <2>1. Pushes(f, u, a) /\ Pushes(g, v, a)
    BY DEF Pushes
  <2>2. a \in Nat /\ a \in 0 .. a
    OBVIOUS
  <2>3. \A n \in 0 .. a : f[n] = g[n]
    BY <2>1, <2>2, SamePushed
  <2> QED
    BY <2>2, <2>3, XorEmpty
<1> HIDE DEF d, e
<1>5. 0 \in S
  OBVIOUS
<1>6. ASSUME NEW n \in 1 .. N, n - 1 \in S
      PROVE  n \in S
  <2> SUFFICES ASSUME n > a PROVE Lead(n)
    OBVIOUS
  <2> DEFINE x == e(n - 1)
             y == e(n)
  <2>1. n - 1 \in 0 .. N - 1 /\ n - 1 \in Nat
    OBVIOUS
  <2>2. x \subseteq Places /\ y \subseteq Places /\ y = Pushed(x, d, n - 1)
    BY <1>2, <1>3
  <2>3. n - 1 > a => Lead(n - 1)
    BY <1>6
  <2>4. n = a + 1 => x = {}
    BY <1>4
  <2>5. \A i \in Places :
          i \in y <=> ~ (~ (i + 1 \in x <=> (0 \in x /\ i \in Polynomial))
                           <=> (i = Width - 1 /\ n - 1 \in d))
    <3> HIDE DEF x, y
    <3> QED
      BY <2>2, PushedMember
  <2>6. CASE n = a + 1
    <3>1. \A i \in Places : i \in y <=> i = Width - 1
      BY <1>1, <2>4, <2>5, <2>6
    <3> HIDE DEF x, y
    <3>2. Width - 1 \in y /\ \A i \in y : i = Width - 1
      BY <2>2, <3>1, Widths
    <3>3. a + Width - n = Width - 1
      BY <2>6, Widths
    <3> QED
      BY <3>2, <3>3, Widths DEF y
  <2>7. CASE n > a + 1 /\ n <= a + Width
    <3> DEFINE m == a + Width - n
    <3>1. m \in Places /\ m + 1 \in Places /\ m # Width - 1 /\ m \in Nat
      BY <2>7, Widths DEF Places
    <3>2. m + 1 \in x /\ \A i \in x : i >= m + 1
      BY <2>3, <2>7, Widths
    <3> HIDE DEF x, y, m
    <3>3. 0 \notin x
      BY <3>1, <3>2
    <3>4. m \in y
      BY <2>5, <3>1, <3>2, <3>3
    <3>5. ASSUME NEW i \in y
          PROVE  i >= m
      <4>1. i \in Places /\ i \in Nat
        BY <2>2, Widths DEF Places
      <4>2. i + 1 \in x \/ i = Width - 1
        BY <2>5, <3>3, <4>1
      <4>3. m <= Width - 1
        BY <3>1, Widths DEF Places
      <4> QED
        BY <3>1, <3>2, <4>1, <4>2, <4>3, Widths
    <3> QED
      BY <3>4, <3>5 DEF m, y
  <2>8. CASE n > a + Width
    <3>1. n - 1 \notin d
      BY <1>1, <2>1, <2>8, Widths
    <3>2. x # {}
      BY <2>3, <2>8, Widths
    <3> HIDE DEF x, y
    <3>3. y = Shifted(x)
      <4> DEFINE top == {i \in {Width - 1} : n - 1 \in d}
      <4>1. top = {}
        BY <3>1
      <4>2. y = Xor(Shifted(x), top)
        BY <2>2 DEF Pushed
      <4> HIDE DEF top
      <4> QED
        BY <4>1, <4>2 DEF Xor
    <3>4. y # {}
      BY <2>2, <3>2, <3>3, ShiftedEmpty
    <3> QED
      BY <2>8, <3>4, Widths DEF y
  <2> QED
    BY <2>6, <2>7, <2>8, Widths
<1> HIDE DEF S
<1>7. \A n \in 0 .. N : n \in S
  BY <1>5, <1>6, InductionUpTo
<1>8. N \in 0 .. N /\ N > a
  OBVIOUS
<1>9. e(N) # {}
  BY <1>7, <1>8 DEF S
<1> QED
  BY <1>9, XorEmpty DEF e

-----------------------------------------------------------------------------
(***************************************************************************)
(* The division of ModbusLine is such a register, mirrored.                *)
(***************************************************************************)
Ones(b) == {k \in Nat : Dividend(b, k)}

Total(b) == ByteBits * Len(b) + Width

\* What is left after each bit, in the order of the register.
Rest(b) == [n \in 0 .. Total(b) |-> Mirrored(Division(b)[n])]

LEMMA MirroredMember ==
  ASSUME NEW x, x \subseteq Places
  PROVE  /\ Mirrored(x) \subseteq Places
         /\ \A i \in Places : Width - 1 - i \in Places /\ (i \in Mirrored(x) <=> Width - 1 - i \in x)
<1>1. \A i \in Places : i \in Nat /\ Width - 1 - i \in Places
  BY Widths DEF Places
<1>2. \A j \in x : j \in Nat /\ Width - 1 - j \in Places /\ Width - 1 - (Width - 1 - j) = j
  BY <1>1, Widths
<1>3. Mirrored(x) \subseteq Places
  BY <1>2 DEF Mirrored
<1>4. ASSUME NEW i \in Places
      PROVE  i \in Mirrored(x) <=> Width - 1 - i \in x
  <2>1. Width - 1 - (Width - 1 - i) = i
    BY <1>1, Widths
  <2>2. CASE i \in Mirrored(x)
    <3>1. PICK j \in x : i = Width - 1 - j
      BY <2>2 DEF Mirrored
    <3> QED
      BY <1>2, <2>2, <3>1
  <2>3. CASE Width - 1 - i \in x
    BY <2>1, <2>3 DEF Mirrored
  <2> QED
    BY <2>2, <2>3
<1> QED
  BY <1>1, <1>3, <1>4

\* The terms of the generator, but the first, are the polynomial of the CRC, mirrored.
LEMMA GeneratorMember ==
  /\ Generator \subseteq 0 .. Width
  /\ Width \in Generator
  /\ \A i \in Places : Width - 1 - i \in Generator <=> i \in Polynomial
<1>1. /\ Mirrored(Polynomial) \subseteq Places
      /\ \A i \in Places : Width - 1 - i \in Places
                             /\ (i \in Mirrored(Polynomial) <=> Width - 1 - i \in Polynomial)
  BY MirroredMember, Widths
<1>2. Places \subseteq 0 .. Width /\ Width \notin Places /\ Width \in 0 .. Width
  BY Widths DEF Places
<1>3. ASSUME NEW i \in Places
      PROVE  Width - 1 - i \in Generator <=> i \in Polynomial
  <2>1. Width - 1 - i \in Places /\ Width - 1 - (Width - 1 - i) = i
    BY Widths DEF Places
  <2>2. Width - 1 - i \in Mirrored(Polynomial) <=> i \in Polynomial
    BY <1>1, <2>1
  <2>3. Width - 1 - i # Width
    BY <1>2, <2>1
  <2> QED
    BY <2>2, <2>3 DEF Generator
<1> QED
  BY <1>1, <1>2, <1>3 DEF Generator

\* Bringing down a bit pushes it into the register.
LEMMA BroughtDown ==
  ASSUME NEW rest, rest \subseteq Places, NEW b, NEW k, k \in Nat
  PROVE  /\ BringDown(rest, Dividend(b, k)) \subseteq Places
         /\ Mirrored(BringDown(rest, Dividend(b, k))) = Pushed(Mirrored(rest), Ones(b), k)
<1> DEFINE next == {e + 1 : e \in rest} \cup (IF Dividend(b, k) THEN {0} ELSE {})
           after == BringDown(rest, Dividend(b, k))
           x == Mirrored(rest)
           y == Pushed(x, Ones(b), k)
<1>1. \A e \in 0 .. Width : e \in next <=> e - 1 \in rest \/ (e = 0 /\ k \in Ones(b))
  <2> TAKE e \in 0 .. Width
  <2>1. \A j \in rest : j \in Int
    BY Widths DEF Places
  <2>2. e \in Int
    BY Widths
  <2>3. e \in {j + 1 : j \in rest} <=> e - 1 \in rest
    <3>1. CASE e \in {j + 1 : j \in rest}
      <4>1. PICK j \in rest : e = j + 1
        BY <3>1
      <4>2. e - 1 = j
        BY <2>1, <4>1
      <4> QED
        BY <3>1, <4>1, <4>2
    <3>2. CASE e - 1 \in rest
      <4>1. e = (e - 1) + 1
        BY <2>2
      <4> QED
        BY <3>2, <4>1
    <3> QED
      BY <3>1, <3>2
  <2> QED
    BY <2>3 DEF Ones
<1>2. next \subseteq 0 .. Width
  <2>1. \A j \in rest : j + 1 \in 0 .. Width
    BY Widths DEF Places
  <2>2. 0 \in 0 .. Width
    BY Widths
  <2> QED
    BY <2>1, <2>2
<1>3. after = IF Width \in next THEN Xor(next, Generator) ELSE next
  BY DEF BringDown
<1> HIDE DEF next, after
<1>4. \A e : e \in after <=> ~ (e \in next <=> (Width \in next /\ e \in Generator))
  <2>1. \A e : e \in Xor(next, Generator) <=> ~ (e \in next <=> e \in Generator)
    BY XorMember
  <2> QED
    BY <1>3, <2>1
<1>5. after \subseteq Places
  <2>1. \A e \in 0 .. Width : e # Width => e \in Places
    BY Widths DEF Places
  <2>2. \A e \in after : e \in 0 .. Width /\ e # Width
    BY <1>2, <1>4, GeneratorMember
  <2> QED
    BY <2>1, <2>2
<1>6. x \subseteq Places /\ Mirrored(after) \subseteq Places /\ y \subseteq Places
  BY <1>5, MirroredMember, PushedType
<1>7. ASSUME NEW i \in Places
      PROVE  i \in Mirrored(after) <=> i \in y
  <2> DEFINE e == Width - 1 - i
  <2>1. /\ e \in Places /\ e \in 0 .. Width /\ i \in Nat
        /\ Width \in 0 .. Width /\ Width # 0 /\ 0 \in Places
        /\ i # Width - 1 => i + 1 \in Places
        /\ i = Width - 1 <=> e = 0
        /\ Width - 1 - (i + 1) = e - 1 /\ Width - 1 - 0 = Width - 1
    BY Widths DEF Places
  <2>2. i \in Mirrored(after) <=> e \in after
    BY <1>5, MirroredMember
  <2>3. e \in after <=> ~ (e \in next <=> (Width \in next /\ i \in Polynomial))
    BY <1>4, GeneratorMember
  <2> HIDE DEF e
  <2>4. Width \in next <=> 0 \in x
    <3>1. Width \in next <=> Width - 1 \in rest
      BY <1>1, <2>1
    <3>2. 0 \in x <=> Width - 1 - 0 \in rest
      BY <2>1, MirroredMember
    <3> QED
      BY <2>1, <3>1, <3>2
  <2>5. e - 1 \in rest <=> i + 1 \in x
    <3>1. CASE i = Width - 1
      <4>1. e - 1 \notin rest
        BY <2>1, <3>1, Widths DEF Places
      <4>2. i + 1 \notin Places
        BY <3>1, Widths DEF Places
      <4> QED
        BY <1>6, <4>1, <4>2
    <3>2. CASE i # Width - 1
      <4>1. i + 1 \in x <=> Width - 1 - (i + 1) \in rest
        BY <2>1, <3>2, MirroredMember
      <4> QED
        BY <2>1, <4>1
    <3> QED
      BY <3>1, <3>2
  <2>6. e \in next <=> e - 1 \in rest \/ (e = 0 /\ k \in Ones(b))
    BY <1>1, <2>1
  <2>7. i \in y <=> ~ (~ (i + 1 \in x <=> (0 \in x /\ i \in Polynomial))
                         <=> (i = Width - 1 /\ k \in Ones(b)))
    <3> HIDE DEF x
    <3> QED
      BY <1>6, PushedMember DEF y
  <2>8. e = 0 => e - 1 \notin rest
    BY Widths DEF Places
  <2> HIDE DEF x, y
  <2> QED
    BY <2>1, <2>2, <2>3, <2>4, <2>5, <2>6, <2>7, <2>8
<1> HIDE DEF x, y
<1>8. Mirrored(after) = y
  BY <1>6, <1>7
<1> QED
  BY <1>5, <1>8 DEF after, x, y

LEMMA TotalType ==
  ASSUME NEW b, b \in Seq(Byte)
  PROVE  /\ Len(b) \in Nat /\ ByteBits * Len(b) \in Nat /\ Total(b) \in Nat
         /\ Total(b) = ByteBits * Len(b) + Width
BY Widths DEF Total

IsDivision(f, b) ==
  f = [k \in 0 .. Total(b) |-> IF k = 0 THEN {} ELSE BringDown(f[k - 1], Dividend(b, k - 1))]

LEMMA DivisionExists ==
  ASSUME NEW b, b \in Seq(Byte)
  PROVE  \E f : IsDivision(f, b)
<1> DEFINE N == Total(b)
           V == SUBSET Places
           step == [p \in V \X (1 .. N) |-> BringDown(p[1], Dividend(b, p[2] - 1))]
<1>1. N \in Nat /\ {} \in V
  BY TotalType
<1>2. ASSUME NEW t \in V, NEW n \in 1 .. N
      PROVE  BringDown(t, Dividend(b, n - 1)) \in V
  <2>1. n - 1 \in Nat
    BY <1>1
  <2> QED
    BY <2>1, BroughtDown
<1>3. step \in [V \X (1 .. N) -> V]
  BY <1>2
<1>4. \A t \in V, n \in 1 .. N : step[<<t, n>>] = BringDown(t, Dividend(b, n - 1))
  OBVIOUS
<1> HIDE DEF step, V, N
<1>5. PICK f \in [0 .. N -> V] : f[0] = {} /\ \A n \in 1 .. N : f[n] = step[<<f[n - 1], n>>]
  <2>1. Iterable(V, {}, N, step)
    BY <1>1, <1>3, IterationExists
  <2> QED
    BY <2>1 DEF Iterable
<1>6. ASSUME NEW n \in 0 .. N
      PROVE  f[n] = IF n = 0 THEN {} ELSE BringDown(f[n - 1], Dividend(b, n - 1))
  <2>1. CASE n = 0
    BY <1>5, <2>1
  <2>2. CASE n # 0
    <3>1. n \in 1 .. N /\ n - 1 \in 0 .. N
      BY <1>1, <2>2
    <3> QED
      BY <1>4, <1>5, <2>2, <3>1
  <2> QED
    BY <2>1, <2>2
<1>7. f = [n \in 0 .. N |-> IF n = 0 THEN {} ELSE BringDown(f[n - 1], Dividend(b, n - 1))]
  BY <1>6
<1> QED
  BY <1>7 DEF IsDivision, N

LEMMA RestPushes ==
  ASSUME NEW b, b \in Seq(Byte)
  PROVE  /\ Pushes(Rest(b), Ones(b), Total(b))
         /\ Rest(b)[0] = {}
         /\ Rest(b)[Total(b)] = Mirrored(Remainder(b))
<1> DEFINE f == Division(b)
           N == Total(b)
<1>1. f = CHOOSE g : IsDivision(g, b)
  BY DEF Division, IsDivision, Total
<1>2. IsDivision(f, b)
  BY <1>1, DivisionExists
<1>3. N \in Nat
  BY TotalType
<1>4. Remainder(b) = f[N]
  BY DEF Remainder, Total
<1>5. Rest(b) = [n \in 0 .. N |-> Mirrored(f[n])]
  BY DEF Rest
<1> HIDE DEF f, N
<1>6. f = [k \in 0 .. N |-> IF k = 0 THEN {} ELSE BringDown(f[k - 1], Dividend(b, k - 1))]
  BY <1>2 DEF IsDivision, N
<1>7. f[0] = {}
  BY <1>3, <1>6
<1>8. ASSUME NEW n \in 1 .. N
      PROVE  f[n] = BringDown(f[n - 1], Dividend(b, n - 1))
  <2>1. n \in 0 .. N /\ n # 0
    BY <1>3
  <2> QED
    BY <1>6, <2>1
<1> DEFINE S == {n \in 0 .. N : f[n] \subseteq Places}
<1>9. \A n \in 0 .. N : n \in S
  <2>1. 0 \in S
    BY <1>3, <1>7
  <2>2. ASSUME NEW n \in 1 .. N, n - 1 \in S
        PROVE  n \in S
    <3>1. n - 1 \in Nat /\ f[n - 1] \subseteq Places
      BY <1>3, <2>2
    <3>2. BringDown(f[n - 1], Dividend(b, n - 1)) \subseteq Places
      BY <3>1, BroughtDown
    <3> QED
      BY <1>3, <1>8, <3>2
  <2> HIDE DEF S
  <2> QED
    BY <1>3, <2>1, <2>2, InductionUpTo
<1>10. \A n \in 0 .. N : Rest(b)[n] \subseteq Places
  BY <1>5, <1>9, MirroredMember
<1>11. ASSUME NEW n \in 1 .. N
       PROVE  Rest(b)[n] = Pushed(Rest(b)[n - 1], Ones(b), n - 1)
  <2>1. n - 1 \in Nat /\ n - 1 \in 0 .. N /\ n \in 0 .. N
    BY <1>3
  <2>2. f[n - 1] \subseteq Places
    BY <1>9, <2>1
  <2>3. Mirrored(BringDown(f[n - 1], Dividend(b, n - 1))) = Pushed(Mirrored(f[n - 1]), Ones(b), n - 1)
    BY <2>1, <2>2, BroughtDown
  <2> QED
    BY <1>5, <1>8, <2>1, <2>3
<1>12. Rest(b)[0] = {} /\ Rest(b)[N] = Mirrored(f[N])
  <2>1. Mirrored({}) = {}
    BY DEF Mirrored
  <2> QED
    BY <1>3, <1>5, <1>7, <2>1
<1>13. Pushes(Rest(b), Ones(b), N)
  BY <1>10, <1>11 DEF Pushes
<1> QED
  BY <1>4, <1>12, <1>13 DEF N

-----------------------------------------------------------------------------
(***************************************************************************)
(* Bits and bytes                                                          *)
(***************************************************************************)
LEMMA UniqueRemainder ==
  ASSUME NEW d \in Nat \ {0}, NEW q \in Int, NEW p \in Int,
         NEW r \in 0 .. d - 1, NEW s \in 0 .. d - 1, q * d + r = p * d + s
  PROVE  q = p /\ r = s
<1>1. (q - p) * d = s - r
  OBVIOUS
<1>2. ASSUME NEW k \in Int, k >= 1
      PROVE  k * d >= d
  BY <1>2
<1>3. CASE q - p >= 1
  <2>1. (q - p) * d >= d
    BY <1>2, <1>3
  <2> QED
    BY <1>1, <2>1
<1>4. CASE p - q >= 1
  <2>1. (p - q) * d >= d
    BY <1>2, <1>4
  <2>2. (p - q) * d = r - s
    BY <1>1
  <2> QED
    BY <2>1, <2>2
<1>5. CASE q = p
  BY <1>1, <1>5
<1> QED
  BY <1>3, <1>4, <1>5

LEMMA DivMod ==
  ASSUME NEW d \in Nat \ {0}, NEW q \in Int, NEW r \in 0 .. d - 1
  PROVE  (q * d + r) \div d = q /\ (q * d + r) % d = r
<1> DEFINE v == q * d + r
<1>1. v \in Int
  OBVIOUS
<1>2. /\ v \div d \in Int /\ v % d \in 0 .. d - 1
      /\ v = (v \div d) * d + (v % d)
  BY <1>1
<1> QED
  BY <1>2, UniqueRemainder

LEMMA Multiples ==
  ASSUME NEW m, NEW n, m \in Nat, n \in Nat
  PROVE  /\ ByteBits * n \in Nat
         /\ ByteBits * (n + 1) = ByteBits * n + ByteBits
         /\ ByteBits * (m + n) = ByteBits * m + ByteBits * n
         /\ m <= n => ByteBits * m <= ByteBits * n
         /\ ByteBits * 0 = 0
<1>1. ByteBits * n \in Nat /\ ByteBits * 0 = 0
  BY Widths
<1>2. ByteBits * (n + 1) = ByteBits * n + ByteBits
  BY Widths
<1>3. ByteBits * (m + n) = ByteBits * m + ByteBits * n
  BY Widths
<1>4. ASSUME m <= n
      PROVE  ByteBits * m <= ByteBits * n
  <2>1. n - m \in Nat /\ n = m + (n - m)
    BY <1>4
  <2>2. ByteBits * n = ByteBits * m + ByteBits * (n - m) /\ ByteBits * (n - m) \in Nat
    BY <2>1, Widths
  <2>3. ByteBits * m \in Nat
    BY Widths
  <2> QED
    BY <1>1, <2>2, <2>3
<1> QED
  BY <1>1, <1>2, <1>3, <1>4

LEMMA BitsType ==
  ASSUME NEW v
  PROVE  Bits(v) \subseteq BytePlaces /\ Bits(v) \subseteq Places /\ BytePlaces \subseteq Places
BY Widths DEF Bits, BytePlaces, Places

LEMMA BitOfByte ==
  ASSUME NEW b, b \in Seq(Byte), NEW n, n \in Nat, n < Len(b), NEW i, i \in BytePlaces
  PROVE  Bit(b, ByteBits * n + i) <=> i \in Bits(b[n + 1])
<1> DEFINE k == ByteBits * n + i
<1>1. ByteBits \in Nat \ {0} /\ i \in 0 .. ByteBits - 1 /\ n \in Int
  BY Widths DEF BytePlaces
<1>2. k = n * ByteBits + i
  BY <1>1
<1>3. k \div ByteBits = n /\ k % ByteBits = i
  BY <1>1, <1>2, DivMod
<1>4. k < ByteBits * Len(b)
  <2>1. n + 1 \in Nat /\ Len(b) \in Nat /\ n + 1 <= Len(b)
    OBVIOUS
  <2>2. ByteBits * (n + 1) <= ByteBits * Len(b) /\ ByteBits * Len(b) \in Nat /\ ByteBits * n \in Nat
    BY <2>1, Multiples
  <2>3. ByteBits * (n + 1) = ByteBits * n + ByteBits
    BY Multiples
  <2> QED
    BY <1>1, <2>2, <2>3
<1> HIDE DEF k
<1>5. Bit(b, k) <=> i \in Bits(b[n + 1])
  BY <1>3, <1>4 DEF Bit
<1> QED
  BY <1>5 DEF k

-----------------------------------------------------------------------------
(***************************************************************************)
(* The shift register of the code                                          *)
(***************************************************************************)
\* s holds the register after each step of one byte.
IsShifts(s, x) ==
  /\ s[0] = x
  /\ \A j \in 0 .. ByteBits : s[j] \subseteq Places
  /\ \A j \in 1 .. ByteBits : s[j] = Shifted(s[j - 1])

IsShifting(f, x) ==
  f = [i \in 0 .. ByteBits |-> IF i = 0 THEN x ELSE Shifted(f[i - 1])]

LEMMA ShiftingExists ==
  ASSUME NEW x, x \subseteq Places
  PROVE  \E f \in [0 .. ByteBits -> SUBSET Places] : IsShifting(f, x)
<1> DEFINE N == ByteBits
           V == SUBSET Places
           step == [p \in V \X (1 .. N) |-> Shifted(p[1])]
<1>1. N \in Nat /\ x \in V
  BY Widths
<1>2. \A t \in V : Shifted(t) \in V
  BY ShiftedType
<1>3. step \in [V \X (1 .. N) -> V]
  BY <1>2
<1>4. \A t \in V, n \in 1 .. N : step[<<t, n>>] = Shifted(t)
  OBVIOUS
<1> HIDE DEF step, V, N
<1>5. PICK f \in [0 .. N -> V] : f[0] = x /\ \A n \in 1 .. N : f[n] = step[<<f[n - 1], n>>]
  <2>1. Iterable(V, x, N, step)
    BY <1>1, <1>3, IterationExists
  <2> QED
    BY <2>1 DEF Iterable
<1>6. ASSUME NEW n \in 0 .. N
      PROVE  f[n] = IF n = 0 THEN x ELSE Shifted(f[n - 1])
  <2>1. CASE n = 0
    BY <1>5, <2>1
  <2>2. CASE n # 0
    <3>1. n \in 1 .. N /\ n - 1 \in 0 .. N
      BY <1>1, <2>2
    <3> QED
      BY <1>4, <1>5, <2>2, <3>1
  <2> QED
    BY <2>1, <2>2
<1>7. f = [n \in 0 .. N |-> IF n = 0 THEN x ELSE Shifted(f[n - 1])]
  BY <1>6
<1> QED
  BY <1>5, <1>7 DEF IsShifting, N, V

LEMMA ShiftsSteps ==
  ASSUME NEW x, x \subseteq Places
  PROVE  IsShifts(Shifts(x), x)
<1> DEFINE N == ByteBits
           f == Shifts(x)
<1>1. f = CHOOSE g : IsShifting(g, x)
  BY DEF Shifts, IsShifting
<1>2. IsShifting(f, x)
  BY <1>1, ShiftingExists
<1>3. N \in Nat
  BY Widths
<1> HIDE DEF f, N
<1>4. f = [n \in 0 .. N |-> IF n = 0 THEN x ELSE Shifted(f[n - 1])]
  BY <1>2 DEF IsShifting, N
<1>5. f[0] = x
  BY <1>3, <1>4
<1>6. ASSUME NEW n \in 1 .. N
      PROVE  f[n] = Shifted(f[n - 1])
  <2>1. n \in 0 .. N /\ n # 0
    BY <1>3
  <2> QED
    BY <1>4, <2>1
<1> DEFINE S == {n \in 0 .. N : f[n] \subseteq Places}
<1>7. 0 \in S
  BY <1>3, <1>5
<1>8. ASSUME NEW n \in 1 .. N, n - 1 \in S
      PROVE  n \in S
  BY <1>3, <1>6, <1>8, ShiftedType
<1> HIDE DEF S
<1>9. \A n \in 0 .. N : n \in S
  BY <1>3, <1>7, <1>8, InductionUpTo
<1>10. \A n \in 0 .. N : f[n] \subseteq Places
  BY <1>9 DEF S
<1> QED
  BY <1>5, <1>6, <1>10 DEF IsShifts, N, f

LEMMA AfterByteType ==
  ASSUME NEW c, c \subseteq Places, NEW v
  PROVE  AfterByte(c, v) \subseteq Places
<1>1. Xor(c, Bits(v)) \subseteq Places
  BY BitsType, XorType
<1>2. IsShifts(Shifts(Xor(c, Bits(v))), Xor(c, Bits(v)))
  BY <1>1, ShiftsSteps
<1> QED
  BY <1>2, Widths DEF IsShifts, AfterByte

\* c holds the CRC after each byte.
IsRegisters(c, b) ==
  /\ c[0] = Places
  /\ \A n \in 0 .. Len(b) : c[n] \subseteq Places
  /\ \A n \in 1 .. Len(b) : c[n] = AfterByte(c[n - 1], b[n])

IsRunning(f, b) ==
  f = [n \in 0 .. Len(b) |-> IF n = 0 THEN Places ELSE AfterByte(f[n - 1], b[n])]

LEMMA RunningExists ==
  ASSUME NEW b, b \in Seq(Byte)
  PROVE  \E f : IsRunning(f, b)
<1> DEFINE N == Len(b)
           V == SUBSET Places
           step == [p \in V \X (1 .. N) |-> AfterByte(p[1], b[p[2]])]
<1>1. N \in Nat /\ Places \in V
  OBVIOUS
<1>2. \A t \in V, n \in 1 .. N : AfterByte(t, b[n]) \in V
  BY AfterByteType
<1>3. step \in [V \X (1 .. N) -> V]
  BY <1>2
<1>4. \A t \in V, n \in 1 .. N : step[<<t, n>>] = AfterByte(t, b[n])
  OBVIOUS
<1> HIDE DEF step, V, N
<1>5. PICK f \in [0 .. N -> V] : f[0] = Places /\ \A n \in 1 .. N : f[n] = step[<<f[n - 1], n>>]
  <2>1. Iterable(V, Places, N, step)
    BY <1>1, <1>3, IterationExists
  <2> QED
    BY <2>1 DEF Iterable
<1>6. ASSUME NEW n \in 0 .. N
      PROVE  f[n] = IF n = 0 THEN Places ELSE AfterByte(f[n - 1], b[n])
  <2>1. CASE n = 0
    BY <1>5, <2>1
  <2>2. CASE n # 0
    <3>1. n \in 1 .. N /\ n - 1 \in 0 .. N
      BY <1>1, <2>2
    <3> QED
      BY <1>4, <1>5, <2>2, <3>1
  <2> QED
    BY <2>1, <2>2
<1>7. f = [n \in 0 .. N |-> IF n = 0 THEN Places ELSE AfterByte(f[n - 1], b[n])]
  BY <1>6
<1> QED
  BY <1>7 DEF IsRunning, N

LEMMA RegistersSteps ==
  ASSUME NEW b, b \in Seq(Byte)
  PROVE  IsRegisters(Registers(b), b)
<1> DEFINE N == Len(b)
           f == Registers(b)
<1>1. f = CHOOSE g : IsRunning(g, b)
  BY DEF Registers, IsRunning
<1>2. IsRunning(f, b)
  BY <1>1, RunningExists
<1>3. N \in Nat
  OBVIOUS
<1> HIDE DEF f, N
<1>4. f = [n \in 0 .. N |-> IF n = 0 THEN Places ELSE AfterByte(f[n - 1], b[n])]
  BY <1>2 DEF IsRunning, N
<1>5. f[0] = Places
  BY <1>3, <1>4
<1>6. ASSUME NEW n \in 1 .. N
      PROVE  f[n] = AfterByte(f[n - 1], b[n])
  <2>1. n \in 0 .. N /\ n # 0
    BY <1>3
  <2> QED
    BY <1>4, <2>1
<1> DEFINE S == {n \in 0 .. N : f[n] \subseteq Places}
<1>7. 0 \in S
  BY <1>3, <1>5
<1>8. ASSUME NEW n \in 1 .. N, n - 1 \in S
      PROVE  n \in S
  BY <1>3, <1>6, <1>8, AfterByteType
<1> HIDE DEF S
<1>9. \A n \in 0 .. N : n \in S
  BY <1>3, <1>7, <1>8, InductionUpTo
<1>10. \A n \in 0 .. N : f[n] \subseteq Places
  BY <1>9 DEF S
<1> QED
  BY <1>5, <1>6, <1>10 DEF IsRegisters, N, f

-----------------------------------------------------------------------------
(***************************************************************************)
(* After each byte the division differs from the CRC of the code by the    *)
(* bits it is ahead of it, and after the zeros at the end by none.         *)
(***************************************************************************)
\* As many bits as the register holds, from bit k on.
Window(b, k) == {i \in Places : Bit(b, k + i)}

\* The first bits come inverted, the later ones as they are.
LEMMA OnesMember ==
  ASSUME NEW b, NEW k, k \in Nat
  PROVE  /\ k < Width => (k \in Ones(b) <=> ~ Bit(b, k))
         /\ k >= Width => (k \in Ones(b) <=> Bit(b, k))
BY Widths DEF Ones, Dividend

LEMMA FirstWindow ==
  ASSUME NEW b, b \in Seq(Byte)
  PROVE  Rest(b)[Width] = Xor(Places, Window(b, 0))
<1> DEFINE R == Rest(b)
           Entered(k) == {i \in Places : i >= Width - k /\ ~ Bit(b, k - Width + i)}
           S == {k \in 0 .. Width : R[k] = Entered(k)}
<1>1. Width \in Nat /\ \A k \in 0 .. Width : k \in 0 .. Total(b)
  BY TotalType, Widths
<1>2. /\ R[0] = {} /\ \A k \in 0 .. Width : R[k] \subseteq Places
      /\ \A k \in 1 .. Width : R[k] = Pushed(R[k - 1], Ones(b), k - 1)
  <2>1. Pushes(R, Ones(b), Total(b)) /\ R[0] = {}
    BY RestPushes
  <2>2. \A k \in 1 .. Width : k \in 1 .. Total(b)
    BY <1>1, TotalType
  <2> HIDE DEF R
  <2> QED
    BY <1>1, <2>1, <2>2 DEF Pushes
<1>3. 0 \in S
  <2>1. Entered(0) = {}
    BY Widths DEF Places
  <2> QED
    BY <1>1, <1>2, <2>1
<1> HIDE DEF R
<1>4. ASSUME NEW k \in 1 .. Width, k - 1 \in S
      PROVE  k \in S
  <2> DEFINE x == R[k - 1]
             y == R[k]
  <2>1. x \subseteq Places /\ y = Pushed(x, Ones(b), k - 1) /\ y \subseteq Places
    <3>1. k - 1 \in 0 .. Width /\ k \in 0 .. Width
      BY <1>1
    <3> QED
      BY <1>2, <3>1
  <2>2. x = Entered(k - 1)
    BY <1>4
  <2>3. k - 1 \in Nat /\ k - 1 < Width
    BY <1>1
  <2> HIDE DEF x, y
  <2>4. 0 \notin x
    BY <1>1, <2>2, <2>3
  <2>5. ASSUME NEW i \in Places
        PROVE  i \in y <=> i \in Entered(k)
    <3>1. i \in Nat
      BY Widths DEF Places
    <3>2. i \in y <=> ~ (i + 1 \in x <=> (i = Width - 1 /\ k - 1 \in Ones(b)))
      <4>1. i \in y <=> ~ (~ (i + 1 \in x <=> (0 \in x /\ i \in Polynomial))
                             <=> (i = Width - 1 /\ k - 1 \in Ones(b)))
        BY <2>1, PushedMember
      <4> QED
        BY <2>4, <4>1
    <3>3. CASE i = Width - 1
      <4>1. i + 1 \notin x
        BY <2>1, <3>3, Widths DEF Places
      <4>2. k - 1 \in Ones(b) <=> ~ Bit(b, k - 1)
        BY <2>3, OnesMember
      <4>3. k - Width + i = k - 1 /\ i >= Width - k
        BY <1>1, <2>3, <3>1, <3>3
      <4> QED
        BY <3>2, <3>3, <4>1, <4>2, <4>3
    <3>4. CASE i # Width - 1
      <4>1. i + 1 \in Places
        BY <3>4, Widths DEF Places
      <4>2. k - 1 - Width + (i + 1) = k - Width + i
        BY <1>1, <2>3, <3>1
      <4>3. i + 1 >= Width - (k - 1) <=> i >= Width - k
        BY <1>1, <2>3, <3>1
      <4>4. i + 1 \in x <=> i >= Width - k /\ ~ Bit(b, k - Width + i)
        BY <2>2, <4>1, <4>2, <4>3
      <4> QED
        BY <3>2, <3>4, <4>4
    <3> QED
      BY <3>3, <3>4
  <2>6. Entered(k) \subseteq Places
    OBVIOUS
  <2> HIDE DEF Entered
  <2>7. y = Entered(k)
    BY <2>1, <2>5, <2>6
  <2>8. k \in 0 .. Width
    BY <1>1
  <2> QED
    BY <2>7, <2>8 DEF y
<1> HIDE DEF S
<1>5. \A k \in 0 .. Width : k \in S
  BY <1>1, <1>3, <1>4, InductionUpTo
<1>6. R[Width] = Entered(Width)
  <2>1. Width \in S
    BY <1>1, <1>5
  <2> QED
    BY <2>1 DEF S
<1>7. Entered(Width) = Xor(Places, Window(b, 0))
  <2>1. \A i \in Places : i >= Width - Width /\ Width - Width + i = 0 + i
    BY Widths DEF Places
  <2>2. \A i \in Places : i \in Entered(Width) <=> ~ Bit(b, 0 + i)
    BY <2>1
  <2>3. \A i : i \in Xor(Places, Window(b, 0)) <=> ~ (i \in Places <=> i \in Window(b, 0))
    BY XorMember
  <2> QED
    BY <2>2, <2>3 DEF Window
<1> QED
  BY <1>6, <1>7 DEF R

\* One byte: c is the CRC before it, p its first bit.
LEMMA ByteStep ==
  ASSUME NEW b, b \in Seq(Byte), NEW n, n \in Nat, n < Len(b),
         NEW c, c \subseteq Places,
         Rest(b)[ByteBits * n + Width] = Xor(c, Window(b, ByteBits * n))
  PROVE  Rest(b)[ByteBits * (n + 1) + Width]
           = Xor(AfterByte(c, b[n + 1]), Window(b, ByteBits * (n + 1)))
<1> DEFINE R == Rest(b)
           p == ByteBits * n
           v == b[n + 1]
           s == Shifts(Xor(c, Bits(v)))
           Ahead(j) == {i \in Places : i + j >= ByteBits /\ Bit(b, p + j + i)}
           S == {j \in 0 .. ByteBits : R[p + Width + j] = Xor(s[j], Ahead(j))}
<1>1. /\ p \in Nat /\ ByteBits * (n + 1) = p + ByteBits
      /\ p + ByteBits + Width <= Total(b)
      /\ Total(b) \in Nat
  <2>1. n + 1 \in Nat /\ n + 1 <= Len(b) /\ Len(b) \in Nat
    OBVIOUS
  <2>2. ByteBits * (n + 1) = ByteBits * n + ByteBits /\ ByteBits * n \in Nat
    BY Multiples
  <2>3. ByteBits * (n + 1) <= ByteBits * Len(b)
    BY <2>1, Multiples
  <2>4. /\ ByteBits * Len(b) \in Nat /\ Total(b) \in Nat
        /\ Total(b) = ByteBits * Len(b) + Width
    BY TotalType
  <2> QED
    BY <2>2, <2>3, <2>4, Widths
<1>2. \A i \in BytePlaces : Bit(b, p + i) <=> i \in Bits(v)
  BY BitOfByte
<1>3. /\ s[0] = Xor(c, Bits(v))
      /\ \A j \in 0 .. ByteBits : s[j] \subseteq Places
      /\ \A j \in 1 .. ByteBits : s[j] = Shifted(s[j - 1])
      /\ s[ByteBits] = AfterByte(c, v)
  <2>1. Xor(c, Bits(v)) \subseteq Places
    BY BitsType, XorType
  <2>2. IsShifts(s, Xor(c, Bits(v)))
    BY <2>1, ShiftsSteps
  <2> QED
    BY <2>2 DEF IsShifts, AfterByte
<1>4. /\ \A k \in 0 .. Total(b) : R[k] \subseteq Places
      /\ \A k \in 1 .. Total(b) : R[k] = Pushed(R[k - 1], Ones(b), k - 1)
  BY RestPushes DEF Pushes
<1>5. R[p + Width] = Xor(c, Window(b, p))
  OBVIOUS
<1> HIDE DEF R, p, v, s
<1>6. 0 \in S
  <2>1. \A i : i \in Xor(c, Window(b, p)) <=> ~ (i \in c <=> i \in Window(b, p))
    BY XorMember
  <2>2. \A i : i \in Xor(s[0], Ahead(0)) <=> ~ (i \in s[0] <=> i \in Ahead(0))
    BY XorMember
  <2>3. \A i : i \in Xor(c, Bits(v)) <=> ~ (i \in c <=> i \in Bits(v))
    BY XorMember
  <2>4. ASSUME NEW i \in Places
        PROVE  i \in Window(b, p) <=> ~ (i \in Bits(v) <=> i \in Ahead(0))
    <3>1. i \in Nat /\ p + 0 + i = p + i /\ i + 0 = i
      BY <1>1, Widths DEF Places
    <3>2. CASE i \in BytePlaces
      <4>1. ~ (i >= ByteBits)
        BY <3>2, Widths DEF BytePlaces
      <4> QED
        BY <1>2, <3>1, <3>2, <4>1 DEF Window
    <3>3. CASE i \notin BytePlaces
      <4>1. i >= ByteBits
        BY <3>1, <3>3, Widths DEF BytePlaces
      <4>2. i \notin Bits(v)
        BY <3>3, BitsType
      <4> QED
        BY <3>1, <4>1, <4>2 DEF Window
    <3> QED
      BY <3>2, <3>3
  <2>5. Window(b, p) \subseteq Places /\ Ahead(0) \subseteq Places /\ Bits(v) \subseteq Places
    BY BitsType DEF Window
  <2> HIDE DEF Ahead
  <2>6. Xor(c, Window(b, p)) = Xor(s[0], Ahead(0))
    BY <1>3, <2>1, <2>2, <2>3, <2>4, <2>5
  <2>7. p + Width + 0 = p + Width /\ 0 \in 0 .. ByteBits
    BY <1>1, Widths
  <2> QED
    BY <1>5, <2>6, <2>7
<1>7. ASSUME NEW j \in 1 .. ByteBits, j - 1 \in S
      PROVE  j \in S
  <2> DEFINE k == p + Width + j
             x == R[k - 1]
             y == R[k]
             t == s[j - 1]
             a == Ahead(j - 1)
  <2>1. /\ j \in Nat /\ j - 1 \in 0 .. ByteBits /\ j <= ByteBits
        /\ k \in 1 .. Total(b) /\ k - 1 \in 0 .. Total(b) /\ k - 1 \in Nat
        /\ k - 1 >= Width
        /\ k - 1 = p + Width + (j - 1)
    BY <1>1, Widths
  <2>2. x \subseteq Places /\ y \subseteq Places /\ y = Pushed(x, Ones(b), k - 1)
    <3> HIDE DEF k
    <3> QED
      BY <1>4, <2>1
  <2>3. x = Xor(t, a)
    <3>1. R[p + Width + (j - 1)] = Xor(s[j - 1], Ahead(j - 1))
      BY <1>7
    <3> HIDE DEF k, Ahead
    <3> QED
      BY <2>1, <3>1
  <2>4. t \subseteq Places /\ s[j] = Shifted(t) /\ s[j] \subseteq Places
    BY <1>3, <2>1, Widths
  <2>5. k - 1 \in Ones(b) <=> Bit(b, k - 1)
    BY <2>1, OnesMember
  <2>6. 0 \notin a
    BY <2>1, Widths
  <2>7. a \subseteq Places /\ Ahead(j) \subseteq Places
    OBVIOUS
  <2>8. ASSUME NEW i \in Places
        PROVE  i \in Ahead(j) <=> ~ (i + 1 \in a <=> (i = Width - 1 /\ k - 1 \in Ones(b)))
    <3>1. i \in Nat
      BY Widths DEF Places
    <3>2. CASE i = Width - 1
      <4>1. i + 1 \notin Places
        BY <3>2, Widths DEF Places
      <4>2. i + 1 \notin a
        BY <2>7, <4>1
      <4>3. i + j >= ByteBits /\ p + j + i = k - 1
        BY <1>1, <2>1, <3>2, Widths
      <4> QED
        BY <2>5, <3>2, <4>2, <4>3
    <3>3. CASE i # Width - 1
      <4>1. i + 1 \in Places
        BY <3>3, Widths DEF Places
      <4>2. i + 1 + (j - 1) = i + j /\ p + (j - 1) + (i + 1) = p + j + i
        BY <1>1, <2>1, <3>1
      <4> QED
        BY <3>3, <4>1, <4>2
    <3> QED
      BY <3>2, <3>3
  <2> HIDE DEF k, x, y, t, a, Ahead
  <2>9. ASSUME NEW i \in Places
        PROVE  i \in y <=> ~ (i \in Shifted(t) <=> i \in Ahead(j))
    <3>1. i \in y <=> ~ (~ (i + 1 \in x <=> (0 \in x /\ i \in Polynomial))
                           <=> (i = Width - 1 /\ k - 1 \in Ones(b)))
      BY <2>2, PushedMember
    <3>2. /\ i + 1 \in x <=> ~ (i + 1 \in t <=> i + 1 \in a)
          /\ 0 \in x <=> ~ (0 \in t <=> 0 \in a)
      BY <2>3, XorMember
    <3>3. i \in Shifted(t) <=> ~ (i + 1 \in t <=> (0 \in t /\ i \in Polynomial))
      BY <2>4, ShiftedMember
    <3>4. i \in Ahead(j) <=> ~ (i + 1 \in a <=> (i = Width - 1 /\ k - 1 \in Ones(b)))
      BY <2>8
    <3> QED
      BY <2>6, <3>1, <3>2, <3>3, <3>4
  <2>10. y = Xor(s[j], Ahead(j))
    <3>1. \A i : i \in Xor(s[j], Ahead(j)) <=> ~ (i \in s[j] <=> i \in Ahead(j))
      BY XorMember
    <3> QED
      BY <2>2, <2>4, <2>7, <2>9, <3>1
  <2>11. j \in 0 .. ByteBits
    BY <2>1
  <2> QED
    BY <2>10, <2>11 DEF y, k
<1> HIDE DEF S
<1>8. \A j \in 0 .. ByteBits : j \in S
  BY <1>6, <1>7, Widths, InductionUpTo
<1>9. R[p + Width + ByteBits] = Xor(s[ByteBits], Ahead(ByteBits))
  <2>1. ByteBits \in S
    BY <1>8, Widths
  <2> QED
    BY <2>1 DEF S
<1>10. Ahead(ByteBits) = Window(b, p + ByteBits)
  <2>1. \A i \in Places : i + ByteBits >= ByteBits
    BY Widths DEF Places
  <2> QED
    BY <2>1 DEF Window
<1>11. p + Width + ByteBits = p + ByteBits + Width
  BY <1>1, Widths
<1> HIDE DEF Ahead
<1>12. R[p + ByteBits + Width] = Xor(AfterByte(c, v), Window(b, p + ByteBits))
  BY <1>3, <1>9, <1>10, <1>11
<1> QED
  BY <1>1, <1>12 DEF R, v

\* The CRC of the code after each byte, and what the division has by then.
LEMMA RegistersOfRest ==
  ASSUME NEW b, b \in Seq(Byte)
  PROVE  \A n \in 0 .. Len(b) :
           Rest(b)[ByteBits * n + Width] = Xor(Registers(b)[n], Window(b, ByteBits * n))
<1> DEFINE C == Registers(b)
           S == {n \in 0 .. Len(b) : Rest(b)[ByteBits * n + Width] = Xor(C[n], Window(b, ByteBits * n))}
<1>1. /\ C[0] = Places
      /\ \A n \in 0 .. Len(b) : C[n] \subseteq Places
      /\ \A n \in 1 .. Len(b) : C[n] = AfterByte(C[n - 1], b[n])
  BY RegistersSteps DEF IsRegisters
<1>2. Len(b) \in Nat
  OBVIOUS
<1> HIDE DEF C
<1>3. 0 \in S
  <2>1. ByteBits * 0 = 0 /\ 0 + Width = Width
    BY Widths
  <2>2. Rest(b)[Width] = Xor(Places, Window(b, 0))
    BY FirstWindow
  <2> QED
    BY <1>1, <1>2, <2>1, <2>2
<1>4. ASSUME NEW n \in 1 .. Len(b), n - 1 \in S
      PROVE  n \in S
  <2> DEFINE m == n - 1
  <2>1. m \in Nat /\ m < Len(b) /\ m + 1 = n /\ m \in 0 .. Len(b) /\ n \in 0 .. Len(b)
    BY <1>2
  <2>2. Rest(b)[ByteBits * m + Width] = Xor(C[m], Window(b, ByteBits * m))
    BY <1>4
  <2>3. C[m] \subseteq Places /\ C[n] = AfterByte(C[m], b[n])
    BY <1>1, <2>1
  <2> HIDE DEF m
  <2>4. Rest(b)[ByteBits * (m + 1) + Width]
          = Xor(AfterByte(C[m], b[m + 1]), Window(b, ByteBits * (m + 1)))
    BY <2>1, <2>2, <2>3, ByteStep
  <2> QED
    BY <2>1, <2>3, <2>4
<1> HIDE DEF S
<1>5. \A n \in 0 .. Len(b) : n \in S
  BY <1>2, <1>3, <1>4, InductionUpTo
<1> QED
  BY <1>5 DEF S, C

\* modbusCRC16 (frame.go:71-85) computes the CRC that Modbus defines: for every
\* sequence of bytes its shift register holds, in the end, the remainder of the
\* division of polynomials by which the instruments compute theirs.
THEOREM CRCIsRemainder ==
  ASSUME NEW b, b \in Seq(Byte)
  PROVE  modbusCRC16(b) = Mirrored(Remainder(b))
<1> DEFINE L == Len(b)
<1>1. L \in 0 .. L /\ L \in Nat
  OBVIOUS
<1>2. Rest(b)[ByteBits * L + Width] = Xor(Registers(b)[L], Window(b, ByteBits * L))
  BY <1>1, RegistersOfRest
<1>3. Window(b, ByteBits * L) = {}
  <2>1. \A i \in Places : ~ (ByteBits * L + i < ByteBits * L)
    BY TotalType, Widths DEF Places
  <2> QED
    BY <2>1 DEF Window, Bit
<1>4. Rest(b)[ByteBits * L + Width] = Mirrored(Remainder(b))
  BY RestPushes DEF Total
<1> HIDE DEF L
<1>5. Xor(Registers(b)[L], {}) = Registers(b)[L]
  BY DEF Xor
<1> QED
  BY <1>2, <1>3, <1>4, <1>5 DEF modbusCRC16, L

-----------------------------------------------------------------------------
(***************************************************************************)
(* Any set of places is the bits of a byte                                 *)
(***************************************************************************)
LEMMA PowerSteps ==
  /\ Power[0] = 1
  /\ \A n \in 1 .. ByteBits : Power[n] = 2 * Power[n - 1]
  /\ \A n \in 0 .. ByteBits : Power[n] \in Nat \ {0}
<1> DEFINE N == ByteBits
           V == Nat \ {0}
           step == [p \in V \X (1 .. N) |-> 2 * p[1]]
           IsPower(f) == f = [n \in 0 .. N |-> IF n = 0 THEN 1 ELSE 2 * f[n - 1]]
<1>1. N \in Nat /\ 1 \in V
  BY Widths
<1>2. step \in [V \X (1 .. N) -> V]
  OBVIOUS
<1>3. \A t \in V, n \in 1 .. N : step[<<t, n>>] = 2 * t
  OBVIOUS
<1>4. Power = CHOOSE f : IsPower(f)
  BY DEF Power
<1> HIDE DEF step, V, N
<1>5. PICK f \in [0 .. N -> V] : f[0] = 1 /\ \A n \in 1 .. N : f[n] = step[<<f[n - 1], n>>]
  <2>1. Iterable(V, 1, N, step)
    BY <1>1, <1>2, IterationExists
  <2> QED
    BY <2>1 DEF Iterable
<1>6. ASSUME NEW n \in 0 .. N
      PROVE  f[n] = IF n = 0 THEN 1 ELSE 2 * f[n - 1]
  <2>1. CASE n = 0
    BY <1>5, <2>1
  <2>2. CASE n # 0
    <3>1. n \in 1 .. N /\ n - 1 \in 0 .. N
      BY <1>1, <2>2
    <3> QED
      BY <1>3, <1>5, <2>2, <3>1
  <2> QED
    BY <2>1, <2>2
<1>7. IsPower(f)
  BY <1>6
<1> HIDE DEF IsPower
<1>8. IsPower(Power)
  BY <1>4, <1>7
<1> DEFINE g == Power
<1> HIDE DEF g
<1>9. g = [n \in 0 .. N |-> IF n = 0 THEN 1 ELSE 2 * g[n - 1]]
  BY <1>8 DEF IsPower, g
<1>10. g[0] = 1
  BY <1>1, <1>9
<1>11. ASSUME NEW n \in 1 .. N
       PROVE  g[n] = 2 * g[n - 1]
  <2>1. n \in 0 .. N /\ n # 0
    BY <1>1
  <2> QED
    BY <1>9, <2>1
<1> DEFINE S == {n \in 0 .. N : g[n] \in Nat \ {0}}
<1>12. 0 \in S
  BY <1>1, <1>10
<1>13. ASSUME NEW n \in 1 .. N, n - 1 \in S
       PROVE  n \in S
  BY <1>1, <1>11, <1>13
<1> HIDE DEF S
<1>14. \A n \in 0 .. N : n \in S
  BY <1>1, <1>12, <1>13, InductionUpTo
<1>15. \A n \in 0 .. N : g[n] \in Nat \ {0}
  BY <1>14 DEF S
<1> QED
  BY <1>10, <1>11, <1>15 DEF g, N

LEMMA DivTwice ==
  ASSUME NEW v \in Nat, NEW d \in Nat \ {0}, NEW r \in 0 .. 1
  PROVE  (2 * v + r) \div (2 * d) = v \div d
<1> DEFINE q == v \div d
           s == v % d
<1>1. q \in Int /\ s \in 0 .. d - 1 /\ v = q * d + s
  OBVIOUS
<1> HIDE DEF q, s
<1>2. 2 * d \in Nat \ {0} /\ 2 * s + r \in 0 .. 2 * d - 1
  BY <1>1
<1>3. 2 * v + r = q * (2 * d) + (2 * s + r)
  BY <1>1
<1>4. (q * (2 * d) + (2 * s + r)) \div (2 * d) = q
  BY <1>1, <1>2, DivMod
<1> QED
  BY <1>3, <1>4 DEF q

\* The places below n that are set in v.
Written(v, n) == {i \in 0 .. n - 1 : (v \div Power[i]) % 2 = 1}

LEMMA WrittenExists ==
  \A n \in 0 .. ByteBits :
    \A s \in SUBSET (0 .. n - 1) : \E v \in 0 .. Power[n] - 1 : Written(v, n) = s
<1> DEFINE P(n) == \A s \in SUBSET (0 .. n - 1) : \E v \in 0 .. Power[n] - 1 : Written(v, n) = s
           S == {n \in 0 .. ByteBits : P(n)}
<1>1. ByteBits \in Nat
  BY Widths
<1>2. 0 \in S
  <2>1. 0 .. 0 - 1 = {} /\ 0 \in 0 .. Power[0] - 1
    BY PowerSteps
  <2>2. Written(0, 0) = {}
    BY <2>1 DEF Written
  <2>3. P(0)
    BY <2>1, <2>2
  <2> HIDE DEF P
  <2> QED
    BY <1>1, <2>3
<1>3. ASSUME NEW n \in 1 .. ByteBits, n - 1 \in S
      PROVE  n \in S
  <2> DEFINE m == n - 1
  <2>1. m \in Nat /\ m \in 0 .. ByteBits /\ n = m + 1 /\ n \in 0 .. ByteBits
    BY <1>1
  <2>2. P(m)
    BY <1>3
  <2>3. Power[n] = 2 * Power[m] /\ Power[m] \in Nat \ {0} /\ Power[n] \in Nat \ {0}
    BY <2>1, PowerSteps
  <2> HIDE DEF m
  <2>4. ASSUME NEW s \in SUBSET (0 .. n - 1)
        PROVE  \E v \in 0 .. Power[n] - 1 : Written(v, n) = s
    <3> DEFINE half == {i \in 0 .. m - 1 : i + 1 \in s}
               r == IF 0 \in s THEN 1 ELSE 0
    <3>1. PICK w \in 0 .. Power[m] - 1 : Written(w, m) = half
      BY <2>2
    <3> DEFINE v == 2 * w + r
    <3>2. r \in 0 .. 1 /\ w \in Nat
      BY <2>3, <3>1
    <3>3. v \in 0 .. Power[n] - 1
      BY <2>3, <3>2
    <3>4. ASSUME NEW i \in 0 .. n - 1
          PROVE  (v \div Power[i]) % 2 = 1 <=> i \in s
      <4>1. CASE i = 0
        <5>1. Power[0] = 1 /\ v \in Nat
          BY <3>2, PowerSteps
        <5>2. v \div 1 = v /\ v % 2 = r
          BY <3>2, <5>1
        <5> QED
          BY <4>1, <5>1, <5>2
      <4>2. CASE i # 0
        <5>1. i \in 1 .. ByteBits /\ i - 1 \in 0 .. m - 1 /\ i - 1 \in 0 .. ByteBits
          BY <2>1, <4>2, <1>1
        <5>2. Power[i] = 2 * Power[i - 1] /\ Power[i - 1] \in Nat \ {0}
          BY <5>1, PowerSteps
        <5> DEFINE d == Power[i - 1]
        <5> HIDE DEF d, r
        <5>3. (2 * w + r) \div (2 * d) = w \div d
          BY <3>2, <5>2, DivTwice DEF d
        <5>4. i - 1 \in half <=> (w \div d) % 2 = 1
          BY <3>1, <5>1 DEF Written, d
        <5>5. i - 1 \in half <=> i \in s
          BY <5>1
        <5> QED
          BY <5>2, <5>3, <5>4, <5>5 DEF d
      <4> QED
        BY <4>1, <4>2
    <3>5. Written(v, n) = s
      <4> HIDE DEF v
      <4> QED
        BY <3>4 DEF Written
    <3> HIDE DEF v
    <3> QED
      BY <3>3, <3>5
  <2> QED
    BY <2>1, <2>4
<1> HIDE DEF S
<1>4. \A n \in 0 .. ByteBits : n \in S
  BY <1>1, <1>2, <1>3, InductionUpTo
<1> QED
  BY <1>4 DEF S

LEMMA Bases ==
  /\ Base \in Nat \ {0} /\ Base = Power[ByteBits] /\ Power[ByteBits - 1] \in Nat \ {0}
  /\ Base = 2 * Power[ByteBits - 1]
  /\ Power[ByteBits - 1] >= 4
  /\ Byte = 0 .. Base - 1
<1>1. 0 \in 0 .. ByteBits /\ 1 \in 1 .. ByteBits /\ 2 \in 1 .. ByteBits /\ ByteBits \in 1 .. ByteBits
      /\ ByteBits - 1 \in 0 .. ByteBits /\ ByteBits \in 0 .. ByteBits
  BY Widths
<1>2. Power[1] = 2 /\ Power[2] = 4
  <2>1. Power[1] = 2 * Power[1 - 1] /\ Power[2] = 2 * Power[2 - 1]
    BY <1>1, PowerSteps
  <2> QED
    BY <2>1, PowerSteps
<1>3. Power[ByteBits] = 2 * Power[ByteBits - 1]
  BY <1>1, PowerSteps
<1>4. Power[ByteBits] \in Nat \ {0} /\ Power[ByteBits - 1] \in Nat \ {0}
  BY <1>1, PowerSteps
<1>5. Power[ByteBits - 1] >= 4
  <2> DEFINE S == {n \in 0 .. ByteBits : n >= 2 => Power[n] >= 4}
  <2>1. 0 \in S
    BY <1>1
  <2>2. ASSUME NEW n \in 1 .. ByteBits, n - 1 \in S
        PROVE  n \in S
    <3>1. n - 1 \in 0 .. ByteBits /\ n \in 0 .. ByteBits
      BY Widths
    <3>2. Power[n] = 2 * Power[n - 1] /\ Power[n - 1] \in Nat \ {0}
      BY <3>1, PowerSteps
    <3>3. CASE n <= 2
      <4>1. n >= 2 => n = 2
        BY <3>3, Widths
      <4> QED
        BY <1>2, <3>1, <4>1
    <3>4. CASE n > 2
      <4>1. Power[n - 1] >= 4
        BY <2>2, <3>4, Widths
      <4> QED
        BY <3>1, <3>2, <4>1
    <3> QED
      BY <3>3, <3>4, Widths
  <2> HIDE DEF S
  <2>3. \A n \in 0 .. ByteBits : n \in S
    BY <2>1, <2>2, Widths, InductionUpTo
  <2>4. ByteBits - 1 \in S
    BY <1>1, <2>3
  <2> QED
    BY <2>4, Widths DEF S
<1> QED
  BY <1>3, <1>4, <1>5 DEF Base, Byte

LEMMA ByteOfBits ==
  ASSUME NEW s, s \subseteq BytePlaces
  PROVE  ByteOf(s) \in Byte /\ Bits(ByteOf(s)) = s
<1>1. ByteBits \in 0 .. ByteBits /\ BytePlaces = 0 .. ByteBits - 1
  BY Widths DEF BytePlaces
<1>2. PICK v \in 0 .. Power[ByteBits] - 1 : Written(v, ByteBits) = s
  BY <1>1, WrittenExists
<1>3. v \in Byte
  BY <1>2, Bases
<1>4. Bits(v) = s
  BY <1>1, <1>2 DEF Bits, Written
<1> QED
  BY <1>3, <1>4 DEF ByteOf

-----------------------------------------------------------------------------
(***************************************************************************)
(* Frames that are intact                                                  *)
(***************************************************************************)
Intact(f) == modbusCRC16(SubSeq(f, 1, Len(f) - 2)) = CRCSeen(f)

\* s and the last two bytes that go with it.
Completed(s, f) ==
  /\ f \in Seq(Byte) /\ Len(f) = Len(s) + 2
  /\ \A i \in 1 .. Len(s) : f[i] = s[i]
  /\ SubSeq(f, 1, Len(f) - 2) = s

LEMMA TwoBytes ==
  ASSUME NEW s, s \in Seq(Byte), NEW x, x \in Byte, NEW y, y \in Byte
  PROVE  /\ Completed(s, s \o <<x, y>>)
         /\ (s \o <<x, y>>)[Len(s) + 1] = x /\ (s \o <<x, y>>)[Len(s) + 2] = y
<1> DEFINE e == <<x, y>>
           f == s \o e
<1>1. e \in Seq(Byte) /\ Len(e) = 2 /\ e[1] = x /\ e[2] = y
  OBVIOUS
<1> HIDE DEF e
<1>2. /\ f \in Seq(Byte) /\ Len(f) = Len(s) + Len(e)
      /\ \A i \in 1 .. Len(s) + Len(e) : f[i] = IF i <= Len(s) THEN s[i] ELSE e[i - Len(s)]
  BY <1>1, ConcatProperties
<1>3. Len(s) \in Nat /\ Len(f) = Len(s) + 2 /\ Len(f) - 2 = Len(s)
  BY <1>1, <1>2
<1> HIDE DEF f
<1>4. \A i \in 1 .. Len(s) : f[i] = s[i]
  BY <1>1, <1>2, <1>3
<1>5. f[Len(s) + 1] = x /\ f[Len(s) + 2] = y
  <2>1. /\ Len(s) + 1 \in 1 .. Len(s) + Len(e) /\ ~ (Len(s) + 1 <= Len(s)) /\ Len(s) + 1 - Len(s) = 1
        /\ Len(s) + 2 \in 1 .. Len(s) + Len(e) /\ ~ (Len(s) + 2 <= Len(s)) /\ Len(s) + 2 - Len(s) = 2
    BY <1>1, <1>3
  <2> QED
    BY <1>1, <1>2, <2>1
<1>6. SubSeq(f, 1, Len(f) - 2) = s
  <2> DEFINE g == SubSeq(f, 1, Len(s))
  <2>1. g \in Seq(Byte) /\ Len(g) = Len(s) /\ \A i \in 1 .. Len(s) : g[i] = f[i]
    BY <1>2, <1>3
  <2> HIDE DEF g
  <2>2. \A i \in 1 .. Len(g) : g[i] = s[i]
    BY <1>4, <2>1
  <2>3. g = s
    BY <2>1, <2>2, SeqEqual
  <2> QED
    BY <1>3, <2>3 DEF g
<1> QED
  BY <1>2, <1>3, <1>4, <1>5, <1>6 DEF Completed, f, e

\* What an instrument sends is intact.
LEMMA SentIntact ==
  ASSUME NEW b, b \in Seq(Byte)
  PROVE  Completed(b, WithCRC(b)) /\ Intact(WithCRC(b))
<1> DEFINE crc == Mirrored(Remainder(b))
           low == crc \cap BytePlaces
           high == {i \in BytePlaces : i + ByteBits \in crc}
           f == WithCRC(b)
<1>1. crc \subseteq Places
  <2>1. crc = Rest(b)[Total(b)] /\ Total(b) \in 0 .. Total(b)
    BY RestPushes, TotalType
  <2> QED
    BY <2>1, RestPushes DEF Pushes
<1>2. f = b \o <<ByteOf(low), ByteOf(high)>>
  BY DEF WithCRC
<1>3. modbusCRC16(b) = crc
  BY CRCIsRemainder
<1> HIDE DEF crc, f
<1>4. /\ ByteOf(low) \in Byte /\ Bits(ByteOf(low)) = low
      /\ ByteOf(high) \in Byte /\ Bits(ByteOf(high)) = high
  BY ByteOfBits
<1> HIDE DEF low, high
<1>5. /\ Completed(b, f)
      /\ f[Len(b) + 1] = ByteOf(low) /\ f[Len(b) + 2] = ByteOf(high)
  BY <1>2, <1>4, TwoBytes
<1>6. Len(b) \in Nat /\ Len(f) = Len(b) + 2 /\ Len(f) - 1 = Len(b) + 1
  BY <1>5 DEF Completed
<1>7. CRCSeen(f) = low \cup {i + ByteBits : i \in high}
  BY <1>4, <1>5, <1>6 DEF CRCSeen
<1>8. low \cup {i + ByteBits : i \in high} = crc
  <2>1. ASSUME NEW i \in Places
        PROVE  i \in crc <=> i \in low \cup {j + ByteBits : j \in high}
    <3>1. i \in Nat /\ ByteBits \in Nat /\ Width = ByteBits + ByteBits
      BY Widths DEF Places
    <3>2. \A j \in high : j \in 0 .. ByteBits - 1
      BY DEF high, BytePlaces
    <3>3. CASE i \in BytePlaces
      <4>1. i \notin {j + ByteBits : j \in high}
        BY <3>1, <3>2, <3>3 DEF BytePlaces
      <4> QED
        BY <3>3, <4>1 DEF low
    <3>4. CASE i \notin BytePlaces
      <4>1. i - ByteBits \in BytePlaces /\ i - ByteBits + ByteBits = i
        BY <3>1, <3>4 DEF BytePlaces, Places
      <4>2. i \in {j + ByteBits : j \in high} <=> i - ByteBits \in high
        <5>1. ASSUME NEW j \in high, i = j + ByteBits
              PROVE  i - ByteBits \in high
          <6>1. i - ByteBits = j
            BY <3>1, <3>2, <5>1
          <6> QED
            BY <5>1, <6>1
        <5> QED
          BY <4>1, <5>1
      <4>3. i - ByteBits \in high <=> i \in crc
        BY <4>1 DEF high
      <4> QED
        BY <3>4, <4>2, <4>3 DEF low
    <3> QED
      BY <3>3, <3>4
  <2>2. low \cup {j + ByteBits : j \in high} \subseteq Places
    <3>1. \A j \in high : j + ByteBits \in Places
      BY Widths DEF high, BytePlaces, Places
    <3>2. low \subseteq Places
      BY BitsType DEF low
    <3> QED
      BY <3>1, <3>2
  <2> QED
    BY <1>1, <2>1, <2>2
<1>9. Intact(f)
  BY <1>3, <1>5, <1>7, <1>8 DEF Intact, Completed
<1> QED
  BY <1>5, <1>9 DEF f

\* The CRC of the first bytes of a frame is the one reached on the way.
LEMMA RegistersOfPrefix ==
  ASSUME NEW f, f \in Seq(Byte), NEW m, m \in 0 .. Len(f)
  PROVE  modbusCRC16(SubSeq(f, 1, m)) = Registers(f)[m]
<1> DEFINE b == SubSeq(f, 1, m)
           C == Registers(f)
           D == Registers(b)
           S == {n \in 0 .. m : D[n] = C[n]}
<1>1. m \in Nat /\ b \in Seq(Byte) /\ Len(b) = m /\ \A i \in 1 .. m : b[i] = f[i]
  OBVIOUS
<1> HIDE DEF b
<1>2. C[0] = Places /\ \A n \in 1 .. Len(f) : C[n] = AfterByte(C[n - 1], f[n])
  BY RegistersSteps DEF IsRegisters
<1>3. D[0] = Places /\ \A n \in 1 .. m : D[n] = AfterByte(D[n - 1], b[n])
  BY <1>1, RegistersSteps DEF IsRegisters
<1>4. modbusCRC16(b) = D[m]
  BY <1>1 DEF modbusCRC16
<1> HIDE DEF C, D
<1>5. 0 \in S
  BY <1>1, <1>2, <1>3
<1>6. ASSUME NEW n \in 1 .. m, n - 1 \in S
      PROVE  n \in S
  <2>1. n \in 1 .. Len(f) /\ n \in 0 .. m
    OBVIOUS
  <2>2. D[n - 1] = C[n - 1] /\ b[n] = f[n]
    BY <1>1, <1>6
  <2> QED
    BY <1>2, <1>3, <2>1, <2>2
<1> HIDE DEF S
<1>7. \A n \in 0 .. m : n \in S
  BY <1>1, <1>5, <1>6, InductionUpTo
<1>8. D[m] = C[m]
  <2>1. m \in S
    BY <1>1, <1>7
  <2> QED
    BY <2>1 DEF S
<1> QED
  BY <1>4, <1>8 DEF b, C

\* A frame is intact if its own bits leave nothing of the division behind.
LEMMA IntactRest ==
  ASSUME NEW f, f \in Seq(Byte), Len(f) >= 2
  PROVE  Intact(f) <=> Rest(f)[ByteBits * Len(f)] = {}
<1> DEFINE m == Len(f) - 2
           p == ByteBits * m
<1>1. m \in Nat /\ m \in 0 .. Len(f) /\ m < Len(f) /\ m + 1 < Len(f) /\ m + 1 \in Nat
      /\ m + 1 = Len(f) - 1 /\ m + 1 + 1 = Len(f)
  OBVIOUS
<1>2. /\ p \in Nat /\ ByteBits * (m + 1) = p + ByteBits
      /\ ByteBits * (m + 1 + 1) = p + ByteBits + ByteBits
  <2> HIDE DEF m
  <2>1. ByteBits * (m + 1) = ByteBits * m + ByteBits /\ ByteBits * m \in Nat
    BY <1>1, Multiples
  <2>2. ByteBits * (m + 1 + 1) = ByteBits * (m + 1) + ByteBits
    BY <1>1, Multiples
  <2> QED
    BY <2>1, <2>2
<1> HIDE DEF m
<1>3. Rest(f)[p + Width] = Xor(Registers(f)[m], Window(f, p))
  BY <1>1, RegistersOfRest
<1>4. p + Width = ByteBits * Len(f)
  <2>1. p + ByteBits + ByteBits = p + Width
    BY <1>2, Widths
  <2> QED
    BY <1>1, <1>2, <2>1
<1>5. Window(f, p) = CRCSeen(f)
  <2> DEFINE low == Bits(f[m + 1])
             high == Bits(f[m + 1 + 1])
             seen == low \cup {i + ByteBits : i \in high}
  <2>1. CRCSeen(f) = seen
    BY <1>1 DEF CRCSeen
  <2>2. \A i \in BytePlaces : Bit(f, p + i) <=> i \in low
    BY <1>1, BitOfByte
  <2>3. \A i \in BytePlaces : Bit(f, p + ByteBits + i) <=> i \in high
    <3>1. \A i \in BytePlaces : Bit(f, ByteBits * (m + 1) + i) <=> i \in high
      BY <1>1, BitOfByte
    <3> QED
      BY <1>2, <3>1
  <2>4. low \subseteq BytePlaces /\ high \subseteq BytePlaces
    BY BitsType
  <2> HIDE DEF low, high, p
  <2>5. ASSUME NEW i \in Places
        PROVE  i \in seen <=> Bit(f, p + i)
    <3>1. i \in Nat /\ ByteBits \in Nat /\ Width = ByteBits + ByteBits
      BY Widths DEF Places
    <3>2. \A j \in high : j \in 0 .. ByteBits - 1
      BY <2>4 DEF BytePlaces
    <3>3. CASE i \in BytePlaces
      <4>1. i \notin {j + ByteBits : j \in high}
        BY <3>1, <3>2, <3>3 DEF BytePlaces
      <4> QED
        BY <2>2, <3>3, <4>1
    <3>4. CASE i \notin BytePlaces
      <4>1. i - ByteBits \in BytePlaces /\ i - ByteBits + ByteBits = i
            /\ p + ByteBits + (i - ByteBits) = p + i
        BY <1>2, <3>1, <3>4 DEF BytePlaces, Places
      <4>2. i \in {j + ByteBits : j \in high} <=> i - ByteBits \in high
        <5>1. ASSUME NEW j \in high, i = j + ByteBits
              PROVE  i - ByteBits \in high
          <6>1. i - ByteBits = j
            BY <3>1, <3>2, <5>1
          <6> QED
            BY <5>1, <6>1
        <5> QED
          BY <4>1, <5>1
      <4>3. i - ByteBits \in high <=> Bit(f, p + i)
        BY <2>3, <4>1
      <4> QED
        BY <2>4, <3>4, <4>2, <4>3
    <3> QED
      BY <3>3, <3>4
  <2>6. seen \subseteq Places
    <3>1. \A j \in high : j + ByteBits \in Places
      BY <2>4, Widths DEF BytePlaces, Places
    <3>2. low \subseteq Places
      BY <2>4, BitsType
    <3> QED
      BY <3>1, <3>2
  <2> HIDE DEF seen
  <2> QED
    BY <2>1, <2>5, <2>6 DEF Window
<1>6. modbusCRC16(SubSeq(f, 1, m)) = Registers(f)[m]
  BY <1>1, RegistersOfPrefix
<1> HIDE DEF p
<1>7. Intact(f) <=> Registers(f)[m] = CRCSeen(f)
  BY <1>6 DEF Intact, m
<1>8. Xor(Registers(f)[m], CRCSeen(f)) = {} <=> Registers(f)[m] = CRCSeen(f)
  BY XorEmpty
<1> QED
  BY <1>3, <1>4, <1>5, <1>7, <1>8

-----------------------------------------------------------------------------
(***************************************************************************)
(* What the CRC check notices                                              *)
(***************************************************************************)
\* Every bit of b is a bit of one of its bytes.
LEMMA BitPlace ==
  ASSUME NEW L, L \in Nat, NEW k, k \in Nat, k < ByteBits * L
  PROVE  \E n \in Nat, i \in BytePlaces : n < L /\ k = ByteBits * n + i
<1> DEFINE n == k \div ByteBits
           i == k % ByteBits
<1>1. ByteBits \in Nat \ {0}
  BY Widths
<1>2. n \in Int /\ i \in 0 .. ByteBits - 1 /\ k = n * ByteBits + i /\ n >= 0
  BY <1>1
<1> HIDE DEF n, i
<1>3. n \in Nat /\ i \in BytePlaces /\ k = ByteBits * n + i
  BY <1>1, <1>2 DEF BytePlaces
<1>4. n < L
  <2> SUFFICES ASSUME L <= n PROVE FALSE
    BY <1>3
  <2>1. ByteBits * L <= ByteBits * n /\ ByteBits * n \in Nat /\ ByteBits * L \in Nat
    BY <1>3, Multiples
  <2> QED
    BY <1>1, <1>2, <1>3, <2>1
<1> QED
  BY <1>3, <1>4

\* The bits of two messages, one after the other.
LEMMA BitsOfBoth ==
  ASSUME NEW f, f \in Seq(Byte), NEW g, g \in Seq(Byte)
  PROVE  /\ f \o g \in Seq(Byte) /\ Len(f \o g) = Len(f) + Len(g)
         /\ \A k \in Nat : k < ByteBits * Len(f) => (Bit(f \o g, k) <=> Bit(f, k))
         /\ \A k \in Nat : k < ByteBits * Len(g) =>
              (Bit(f \o g, ByteBits * Len(f) + k) <=> Bit(g, k))
<1> DEFINE h == f \o g
<1>1. /\ h \in Seq(Byte) /\ Len(h) = Len(f) + Len(g)
      /\ \A j \in 1 .. Len(f) + Len(g) : h[j] = IF j <= Len(f) THEN f[j] ELSE g[j - Len(f)]
  BY ConcatProperties
<1>2. Len(f) \in Nat /\ Len(g) \in Nat
  OBVIOUS
<1> HIDE DEF h
<1>3. ASSUME NEW k \in Nat, k < ByteBits * Len(f)
      PROVE  Bit(h, k) <=> Bit(f, k)
  <2>1. PICK n \in Nat, i \in BytePlaces : n < Len(f) /\ k = ByteBits * n + i
    BY <1>2, <1>3, BitPlace
  <2>2. Bit(f, ByteBits * n + i) <=> i \in Bits(f[n + 1])
    BY <2>1, BitOfByte
  <2>3. n < Len(h)
    BY <1>1, <1>2, <2>1
  <2>4. Bit(h, ByteBits * n + i) <=> i \in Bits(h[n + 1])
    BY <1>1, <2>3, BitOfByte
  <2>5. h[n + 1] = f[n + 1]
    <3>1. n + 1 \in 1 .. Len(f) + Len(g) /\ n + 1 <= Len(f)
      BY <1>2, <2>1
    <3> QED
      BY <1>1, <3>1
  <2> QED
    BY <2>1, <2>2, <2>4, <2>5
<1>4. ASSUME NEW k \in Nat, k < ByteBits * Len(g)
      PROVE  Bit(h, ByteBits * Len(f) + k) <=> Bit(g, k)
  <2>1. PICK n \in Nat, i \in BytePlaces : n < Len(g) /\ k = ByteBits * n + i
    BY <1>2, <1>4, BitPlace
  <2> DEFINE m == Len(f) + n
  <2>2. Bit(g, ByteBits * n + i) <=> i \in Bits(g[n + 1])
    BY <2>1, BitOfByte
  <2>3. m \in Nat /\ m < Len(h)
    BY <1>1, <1>2, <2>1
  <2>4. h[m + 1] = g[n + 1]
    <3>1. m + 1 \in 1 .. Len(f) + Len(g) /\ ~ (m + 1 <= Len(f)) /\ m + 1 - Len(f) = n + 1
      BY <1>2, <2>1
    <3> QED
      BY <1>1, <3>1
  <2>5. ByteBits * m + i = ByteBits * Len(f) + k
    <3>1. ByteBits * m = ByteBits * Len(f) + ByteBits * n
      BY <1>2, Multiples
    <3>2. ByteBits * Len(f) \in Nat /\ ByteBits * n \in Nat /\ i \in Int
      BY <1>2, Multiples, Widths DEF BytePlaces
    <3> HIDE DEF m
    <3> QED
      BY <2>1, <3>1, <3>2
  <2> HIDE DEF m
  <2>6. Bit(h, ByteBits * m + i) <=> i \in Bits(h[m + 1])
    BY <1>1, <2>3, BitOfByte
  <2> QED
    BY <2>1, <2>2, <2>4, <2>5, <2>6
<1> QED
  BY <1>1, <1>3, <1>4 DEF h

LEMMA FrameBits ==
  ASSUME NEW f, f \in Seq(Byte), Len(f) >= 2
  PROVE  /\ Len(f) \in Nat /\ ByteBits * Len(f) \in Nat /\ ByteBits * Len(f) >= Width
         /\ Pushes(Rest(f), Ones(f), ByteBits * Len(f))
         /\ Rest(f)[0] = {}
<1> DEFINE N == ByteBits * Len(f)
<1>1. Len(f) \in Nat /\ N \in Nat /\ Total(f) = N + Width /\ Total(f) \in Nat
  BY TotalType
<1>2. N >= Width
  <2>1. ByteBits * 2 <= ByteBits * Len(f) /\ ByteBits * 2 = Width
    BY <1>1, Multiples, Widths
  <2> QED
    BY <2>1
<1>3. Pushes(Rest(f), Ones(f), Total(f)) /\ Rest(f)[0] = {}
  BY RestPushes
<1> HIDE DEF N
<1>4. /\ \A n \in 0 .. N : n \in 0 .. Total(f)
      /\ \A n \in 1 .. N : n \in 1 .. Total(f)
  BY <1>1, Widths
<1>5. Pushes(Rest(f), Ones(f), N)
  BY <1>3, <1>4 DEF Pushes
<1> QED
  BY <1>1, <1>2, <1>3, <1>5 DEF N

LEMMA FlippedBits ==
  ASSUME NEW f, f \in Seq(Byte), NEW first, first \in Nat, NEW pattern
  PROVE  /\ Flipped(f, first, pattern) \in Seq(Byte)
         /\ Len(Flipped(f, first, pattern)) = Len(f)
         /\ \A k \in Nat : k < ByteBits * Len(f) =>
              (Bit(Flipped(f, first, pattern), k) <=> ~ (Bit(f, k) <=> k - first \in pattern))
<1> DEFINE Turned(b) == {i \in BytePlaces : (b - 1) * ByteBits + i - first \in pattern}
           g == Flipped(f, first, pattern)
           L == Len(f)
<1>1. L \in Nat /\ DOMAIN f = 1 .. L
  OBVIOUS
<1>2. g = [b \in 1 .. L |-> ByteOf(Xor(Bits(f[b]), Turned(b)))]
  BY <1>1 DEF Flipped
<1>3. \A b \in 1 .. L : /\ ByteOf(Xor(Bits(f[b]), Turned(b))) \in Byte
                        /\ Bits(ByteOf(Xor(Bits(f[b]), Turned(b)))) = Xor(Bits(f[b]), Turned(b))
  <2> TAKE b \in 1 .. L
  <2>1. Bits(f[b]) \subseteq BytePlaces
    BY BitsType
  <2>2. Turned(b) \subseteq BytePlaces
    OBVIOUS
  <2> HIDE DEF Turned
  <2>3. Xor(Bits(f[b]), Turned(b)) \subseteq BytePlaces
    BY <2>1, <2>2 DEF Xor
  <2> QED
    BY <2>3, ByteOfBits
<1> HIDE DEF g, Turned, L
<1>4. g \in Seq(Byte) /\ Len(g) = L
  <2>1. g \in [1 .. L -> Byte]
    BY <1>2, <1>3
  <2> QED
    BY <1>1, <2>1
<1>5. ASSUME NEW k \in Nat, k < ByteBits * L
      PROVE  Bit(g, k) <=> ~ (Bit(f, k) <=> k - first \in pattern)
  <2>1. PICK n \in Nat, i \in BytePlaces : n < L /\ k = ByteBits * n + i
    BY <1>1, <1>5, BitPlace
  <2>2. Bit(f, ByteBits * n + i) <=> i \in Bits(f[n + 1])
    BY <2>1, BitOfByte DEF L
  <2>3. Bit(g, ByteBits * n + i) <=> i \in Bits(g[n + 1])
    BY <1>4, <2>1, BitOfByte
  <2>4. Bits(g[n + 1]) = Xor(Bits(f[n + 1]), Turned(n + 1))
    <3>1. n + 1 \in 1 .. L
      BY <1>1, <2>1
    <3> QED
      BY <1>2, <1>3, <3>1
  <2>5. i \in Turned(n + 1) <=> k - first \in pattern
    <3>1. ByteBits * n \in Nat /\ i \in Nat
      BY Multiples, Widths DEF BytePlaces
    <3>2. (n + 1 - 1) * ByteBits = ByteBits * n
      BY Widths
    <3>3. (n + 1 - 1) * ByteBits + i - first = k - first
      BY <2>1, <3>1, <3>2
    <3> QED
      BY <3>3 DEF Turned
  <2>6. i \in Xor(Bits(f[n + 1]), Turned(n + 1)) <=> ~ (i \in Bits(f[n + 1]) <=> i \in Turned(n + 1))
    BY XorMember
  <2> QED
    BY <2>1, <2>2, <2>3, <2>4, <2>5, <2>6
<1> QED
  BY <1>4, <1>5 DEF g, L

\* frame.go:35: no burst of errors within the width of the CRC, wherever in a
\* frame it begins, goes unnoticed.
THEOREM BurstIsNoticed ==
  ASSUME NEW f, f \in Seq(Byte), Len(f) >= 2, Intact(f),
         NEW first, first \in 0 .. ByteBits * Len(f) - 1,
         NEW pattern, pattern \subseteq Places, 0 \in pattern
  PROVE  ~ Intact(Flipped(f, first, pattern))
<1> DEFINE g == Flipped(f, first, pattern)
           N == ByteBits * Len(f)
<1>1. N \in Nat /\ N >= Width /\ Pushes(Rest(f), Ones(f), N) /\ Rest(f)[0] = {}
  BY FrameBits
<1>2. first \in Nat
  BY <1>1
<1>3. /\ g \in Seq(Byte) /\ Len(g) = Len(f)
      /\ \A k \in Nat : k < N => (Bit(g, k) <=> ~ (Bit(f, k) <=> k - first \in pattern))
  BY <1>2, FlippedBits
<1> HIDE DEF g
<1>4. Pushes(Rest(g), Ones(g), N) /\ Rest(g)[0] = {}
  <2>1. Len(g) >= 2
    BY <1>3
  <2>2. Pushes(Rest(g), Ones(g), ByteBits * Len(g)) /\ Rest(g)[0] = {}
    BY <1>3, <2>1, FrameBits
  <2> QED
    BY <1>3, <2>2
<1>5. Rest(f)[N] = {}
  BY IntactRest
<1> HIDE DEF N
<1>6. \A k \in 0 .. N - 1 : (k \in Ones(f) <=> k \in Ones(g)) <=> k - first \notin pattern
  <2> TAKE k \in 0 .. N - 1
  <2>1. k \in Nat /\ k < N
    BY <1>1
  <2>2. Bit(g, k) <=> ~ (Bit(f, k) <=> k - first \in pattern)
    BY <1>3, <2>1
  <2>3. k < Width \/ k >= Width
    BY <2>1, Widths
  <2>4. CASE k < Width
    BY <2>1, <2>2, <2>4, OnesMember
  <2>5. CASE k >= Width
    BY <2>1, <2>2, <2>5, OnesMember
  <2> QED
    BY <2>3, <2>4, <2>5
<1>7. \A j \in pattern : j \in Nat /\ j < Width
  BY Widths DEF Places
<1>8. \A k \in 0 .. first - 1 : k \in Ones(f) <=> k \in Ones(g)
  <2> TAKE k \in 0 .. first - 1
  <2>1. k \in 0 .. N - 1 /\ ~ (k - first \in Nat)
    BY <1>1, <1>2 DEF N
  <2> QED
    BY <1>6, <1>7, <2>1
<1>9. ~ (first \in Ones(f) <=> first \in Ones(g))
  <2>1. first \in 0 .. N - 1 /\ first - first = 0
    BY <1>2 DEF N
  <2> QED
    BY <1>6, <2>1
<1>10. \A k \in 0 .. N - 1 : k >= first + Width => (k \in Ones(f) <=> k \in Ones(g))
  <2> TAKE k \in 0 .. N - 1
  <2> HAVE k >= first + Width
  <2>1. ~ (k - first < Width)
    BY <1>1, <1>2, Widths
  <2> QED
    BY <1>6, <1>7, <2>1
<1>11. first \in 0 .. N - 1 /\ Rest(f)[0] = Rest(g)[0]
  BY <1>1, <1>4 DEF N
<1>12. Rest(f)[N] # Rest(g)[N]
  BY <1>1, <1>4, <1>8, <1>9, <1>10, <1>11, BurstSeen
<1>13. Rest(g)[ByteBits * Len(g)] # {}
  BY <1>3, <1>5, <1>12 DEF N
<1>14. Len(g) >= 2
  BY <1>3
<1> QED
  BY <1>3, <1>13, <1>14, IntactRest DEF g

\* frame.go:35: two intact messages that are taken for one frame never pass for
\* an intact one.
THEOREM GluedIsNoticed ==
  ASSUME NEW f, f \in Seq(Byte), Len(f) >= 2, Intact(f),
         NEW g, g \in Seq(Byte), Len(g) >= 2, Intact(g)
  PROVE  ~ Intact(f \o g)
<1> DEFINE h == f \o g
           n == ByteBits * Len(f)
           N == ByteBits * Len(g)
           R == [k \in 0 .. N |-> Rest(h)[n + k]]
           U == {k \in Nat : n + k \in Ones(h)}
<1>1. /\ h \in Seq(Byte) /\ Len(h) = Len(f) + Len(g)
      /\ \A k \in Nat : k < n => (Bit(h, k) <=> Bit(f, k))
      /\ \A k \in Nat : k < N => (Bit(h, n + k) <=> Bit(g, k))
  BY BitsOfBoth
<1>2. /\ Len(f) \in Nat /\ n \in Nat /\ n >= Width
      /\ Pushes(Rest(f), Ones(f), n) /\ Rest(f)[0] = {}
  BY FrameBits
<1>3. /\ Len(g) \in Nat /\ N \in Nat /\ N >= Width
      /\ Pushes(Rest(g), Ones(g), N) /\ Rest(g)[0] = {}
  BY FrameBits
<1> HIDE DEF h
<1>4. Len(h) >= 2 /\ ByteBits * Len(h) = n + N
  <2>1. ByteBits * (Len(f) + Len(g)) = ByteBits * Len(f) + ByteBits * Len(g)
    BY <1>2, <1>3, Multiples
  <2>2. Len(h) >= 2
    BY <1>1, <1>2, <1>3
  <2> QED
    BY <1>1, <2>1, <2>2
<1>5. Pushes(Rest(h), Ones(h), n + N) /\ Rest(h)[0] = {}
  <2>1. Pushes(Rest(h), Ones(h), ByteBits * Len(h)) /\ Rest(h)[0] = {}
    BY <1>1, <1>4, FrameBits
  <2> QED
    BY <1>4, <2>1
<1>6. Rest(f)[n] = {} /\ Rest(g)[N] = {}
  BY IntactRest
<1> HIDE DEF n, N
<1>7. Rest(h)[n] = {}
  <2>1. Pushes(Rest(h), Ones(h), n)
    <3>1. /\ \A k \in 0 .. n : k \in 0 .. n + N
          /\ \A k \in 1 .. n : k \in 1 .. n + N
      BY <1>2, <1>3
    <3> QED
      BY <1>5, <3>1 DEF Pushes
  <2>2. \A k \in 0 .. n - 1 : k \in Ones(f) <=> k \in Ones(h)
    <3> TAKE k \in 0 .. n - 1
    <3>1. k \in Nat /\ k < n /\ (k < Width \/ k >= Width)
      BY <1>2, Widths
    <3>2. Bit(h, k) <=> Bit(f, k)
      BY <1>1, <3>1
    <3>3. CASE k < Width
      BY <3>1, <3>2, <3>3, OnesMember
    <3>4. CASE k >= Width
      BY <3>1, <3>2, <3>4, OnesMember
    <3> QED
      BY <3>1, <3>3, <3>4
  <2>3. Rest(f)[0] = Rest(h)[0]
    BY <1>2, <1>5
  <2>4. \A k \in 0 .. n : Rest(f)[k] = Rest(h)[k]
    BY <1>2, <2>1, <2>2, <2>3, SamePushed
  <2>5. n \in 0 .. n
    BY <1>2
  <2> QED
    BY <1>6, <2>4, <2>5
<1>8. Pushes(R, U, N)
  <2>1. ASSUME NEW k \in 0 .. N
        PROVE  R[k] \subseteq Places
    <3>1. n + k \in 0 .. n + N
      BY <1>2, <1>3
    <3> QED
      BY <1>5, <3>1 DEF Pushes
  <2>2. ASSUME NEW k \in 1 .. N
        PROVE  R[k] = Pushed(R[k - 1], U, k - 1)
    <3>1. n + k \in 1 .. n + N /\ (n + k) - 1 = n + (k - 1) /\ k - 1 \in Nat
          /\ k \in 0 .. N /\ k - 1 \in 0 .. N
      BY <1>2, <1>3
    <3>2. Rest(h)[n + k] = Pushed(Rest(h)[(n + k) - 1], Ones(h), (n + k) - 1)
      <4>1. \A j \in 1 .. n + N : Rest(h)[j] = Pushed(Rest(h)[j - 1], Ones(h), j - 1)
        BY <1>5 DEF Pushes
      <4> DEFINE j == n + k
      <4>2. j \in 1 .. n + N
        BY <3>1
      <4> HIDE DEF j
      <4>3. Rest(h)[j] = Pushed(Rest(h)[j - 1], Ones(h), j - 1)
        BY <4>1, <4>2
      <4> QED
        BY <4>3 DEF j
    <3>3. k - 1 \in U <=> n + (k - 1) \in Ones(h)
      BY <3>1
    <3>4. R[k] = Rest(h)[n + k] /\ R[k - 1] = Rest(h)[n + (k - 1)]
      BY <3>1
    <3> HIDE DEF R, U
    <3>5. Pushed(R[k - 1], U, k - 1) = Pushed(R[k - 1], Ones(h), n + (k - 1))
      BY <3>3 DEF Pushed
    <3> QED
      BY <3>1, <3>2, <3>4, <3>5
  <2> HIDE DEF R, U
  <2> QED
    BY <2>1, <2>2 DEF Pushes
<1>9. \A k \in 0 .. N - 1 : /\ k < Width => ~ (k \in U <=> k \in Ones(g))
                            /\ k >= Width => (k \in U <=> k \in Ones(g))
  <2> TAKE k \in 0 .. N - 1
  <2>1. k \in Nat /\ k < N /\ n + k \in Nat /\ n + k >= Width
    BY <1>2, <1>3, Widths
  <2>2. Bit(h, n + k) <=> Bit(g, k)
    BY <1>1, <2>1
  <2>3. n + k \in Ones(h) <=> Bit(h, n + k)
    BY <2>1, OnesMember
  <2>4. k \in U <=> Bit(g, k)
    BY <2>1, <2>2, <2>3
  <2> HIDE DEF U
  <2> QED
    BY <2>1, <2>4, OnesMember
<1>10. R[0] = Rest(g)[0]
  <2>1. 0 \in 0 .. N /\ n + 0 = n
    BY <1>2, <1>3
  <2> QED
    BY <1>3, <1>7, <2>1
<1>11. R[N] = Rest(h)[n + N]
  BY <1>3
<1> HIDE DEF R, U
<1>12. 0 \in 0 .. N - 1 /\ 0 < Width /\ 0 .. 0 - 1 = {}
  BY <1>3, Widths
<1>13. ~ (0 \in U <=> 0 \in Ones(g))
  BY <1>9, <1>12
<1>14. \A k \in 0 .. 0 - 1 : k \in U <=> k \in Ones(g)
  BY <1>12
<1>15. \A k \in 0 .. N - 1 : k >= 0 + Width => (k \in U <=> k \in Ones(g))
  BY <1>9, Widths
<1>16. R[N] # Rest(g)[N]
  BY <1>3, <1>8, <1>10, <1>12, <1>13, <1>14, <1>15, BurstSeen
<1>17. Rest(h)[ByteBits * Len(h)] # {}
  BY <1>4, <1>6, <1>11, <1>16
<1> QED
  BY <1>1, <1>4, <1>17, IntactRest DEF h

-----------------------------------------------------------------------------
(***************************************************************************)
(* Messages                                                                *)
(***************************************************************************)
LEMMA WordBases ==
  /\ WordBase \in Nat \ {0} /\ WordBase = Base * Base
  /\ WordBase = 2 * (WordBase \div 2) /\ WordBase \div 2 \in Nat
<1> DEFINE h == Power[ByteBits - 1]
<1>1. h \in Nat \ {0} /\ Base = 2 * h
  BY Bases
<1> HIDE DEF h
<1>2. Base * Base = 2 * (h * (2 * h)) /\ h * (2 * h) \in Nat \ {0}
  BY <1>1
<1> DEFINE k == h * (2 * h)
<1> HIDE DEF k
<1>3. Base * Base = 2 * k /\ k \in Nat \ {0}
  BY <1>2 DEF k
<1>4. (2 * k) \div 2 = k
  BY <1>3
<1> QED
  BY <1>3, <1>4 DEF WordBase

\* The two bytes of a number.
High(v) == (v % WordBase) \div Base
Low(v) == (v % WordBase) % Base

LEMMA WordBytesType ==
  ASSUME NEW v, v \in Int
  PROVE  /\ WordBytes(v) = <<High(v), Low(v)>>
         /\ High(v) \in Byte /\ Low(v) \in Byte
         /\ High(v) * Base + Low(v) = v % WordBase
         /\ WordBytes(v) \in Seq(Byte) /\ Len(WordBytes(v)) = 2
         /\ WordBytes(v)[1] = High(v) /\ WordBytes(v)[2] = Low(v)
<1> DEFINE u == v % WordBase
           q == u \div Base
           r == u % Base
<1>1. WordBytes(v) = <<High(v), Low(v)>>
  BY DEF WordBytes, High, Low
<1>2. Base \in Nat \ {0} /\ u \in 0 .. WordBase - 1 /\ WordBase = Base * Base
  <2>1. WordBase \in Nat \ {0}
    BY WordBases
  <2>2. u \in 0 .. WordBase - 1
    BY <2>1
  <2> QED
    BY <2>2, WordBases, Bases
<1> HIDE DEF u
<1>3. q \in Int /\ r \in 0 .. Base - 1 /\ u = q * Base + r /\ q >= 0
  BY <1>2
<1> HIDE DEF q, r
<1>4. q <= Base - 1
  <2> SUFFICES ASSUME q >= Base PROVE FALSE
    BY <1>2, <1>3
  <2>1. PICK d \in Nat : q = Base + d
    <3>1. q - Base \in Nat /\ q = Base + (q - Base)
      BY <1>2, <1>3
    <3> QED
      BY <3>1
  <2>2. q * Base = Base * Base + d * Base /\ d * Base \in Nat /\ Base * Base \in Nat
    BY <1>2, <2>1
  <2> QED
    BY <1>2, <1>3, <2>2
<1>5. q \in Byte /\ r \in Byte
  BY <1>2, <1>3, <1>4, Bases
<1>6. High(v) = q /\ Low(v) = r
  BY DEF High, Low, q, r, u
<1>7. High(v) \in Byte /\ Low(v) \in Byte /\ High(v) * Base + Low(v) = v % WordBase
  BY <1>3, <1>5, <1>6 DEF u
<1> DEFINE hi == High(v)
           lo == Low(v)
<1> HIDE DEF hi, lo
<1>8. <<hi, lo>> \in Seq(Byte) /\ Len(<<hi, lo>>) = 2 /\ <<hi, lo>>[1] = hi /\ <<hi, lo>>[2] = lo
  BY <1>7 DEF hi, lo
<1> QED
  BY <1>1, <1>7, <1>8 DEF hi, lo

\* What is read back of two bytes is the number, if it fits the type.
LEMMA WordOfBytes ==
  ASSUME NEW type, NEW v, v \in OfType(type)
  PROVE  Word(type, High(v), Low(v)) = v
<1> DEFINE half == WordBase \div 2
           u == v % WordBase
<1>1. WordBase \in Nat \ {0} /\ half \in Nat /\ WordBase = 2 * half
  BY WordBases
<1> HIDE DEF half
<1>2. /\ v \in Int /\ v >= -half /\ v < WordBase
      /\ type = "uint16" => v >= 0
      /\ type # "uint16" => v < half
  BY <1>1 DEF OfType, half
<1>3. u = IF v >= 0 THEN v ELSE v + WordBase
  <2>1. CASE v >= 0
    <3>1. 0 * WordBase + v = v /\ v \in 0 .. WordBase - 1 /\ 0 \in Int
      BY <1>1, <1>2, <2>1
    <3>2. (0 * WordBase + v) % WordBase = v
      BY <1>1, <3>1, DivMod
    <3> QED
      BY <2>1, <3>1, <3>2
  <2>2. CASE ~ (v >= 0)
    <3> DEFINE w == v + WordBase
    <3>1. (-1) * WordBase + w = v /\ w \in 0 .. WordBase - 1 /\ -1 \in Int
      BY <1>1, <1>2, <2>2
    <3> HIDE DEF w
    <3>2. ((-1) * WordBase + w) % WordBase = w
      BY <1>1, <3>1, DivMod
    <3> QED
      BY <2>2, <3>1, <3>2 DEF w
  <2> QED
    BY <2>1, <2>2
<1>4. High(v) * Base + Low(v) = u
  BY <1>2, WordBytesType
<1>5. Word(type, High(v), Low(v)) = IF type # "uint16" /\ u >= half THEN u - WordBase ELSE u
  BY <1>4 DEF Word, half
<1> HIDE DEF u
<1> DEFINE signed == type # "uint16"
<1>6. CASE type = "uint16"
  BY <1>2, <1>3, <1>5, <1>6
<1>7. CASE type # "uint16"
  BY <1>1, <1>2, <1>3, <1>5, <1>7
<1> QED
  BY <1>6, <1>7

\* A message whose frame is intact and begins with the address of the slave.
Sound(m) ==
  m.bytes \in Seq(Byte) /\ Len(m.bytes) >= 4 /\ Intact(m.bytes) /\ m.bytes[1] = m.slave

\* The frame of the message m, made of body and its CRC.
Carries(m, body) == Sound(m) /\ Completed(body, m.bytes)

LEMMA MessageCarries ==
  ASSUME NEW body, body \in Seq(Byte), Len(body) >= 2, NEW slave, body[1] = slave, NEW registers
  PROVE  Carries(Message(slave, body, registers), body)
<1> DEFINE m == Message(slave, body, registers)
<1>1. m.slave = slave /\ m.bytes = WithCRC(body)
  BY DEF Message
<1> HIDE DEF m
<1>2. Completed(body, m.bytes) /\ Intact(m.bytes)
  BY <1>1, SentIntact
<1>3. m.bytes \in Seq(Byte) /\ Len(m.bytes) >= 4 /\ m.bytes[1] = body[1]
  <2>1. 1 \in 1 .. Len(body)
    OBVIOUS
  <2> QED
    BY <1>2, <2>1 DEF Completed
<1> QED
  BY <1>1, <1>2, <1>3 DEF Carries, Sound, m

QueryBody(p) == <<p.slave, p.function>> \o WordBytes(p.start) \o WordBytes(p.count)

Answered(p, values) ==
  [k \in 1 .. 2 * p.count |-> WordBytes(values[p.start + (k - 1) \div 2])[2 - (k % 2)]]

\* Three bytes and more.
Headed(a, b, c, rest) == <<a, b, c>> \o rest

IsHeaded(f, a, c, rest) ==
  /\ f \in Seq(Byte) /\ Len(f) = 3 + Len(rest)
  /\ f[1] = a /\ f[3] = c
  /\ \A k \in 1 .. Len(rest) : f[3 + k] = rest[k]

LEMMA HeadedType ==
  ASSUME NEW a, a \in Byte, NEW b, b \in Byte, NEW c, c \in Byte, NEW rest, rest \in Seq(Byte)
  PROVE  IsHeaded(Headed(a, b, c, rest), a, c, rest)
<1> DEFINE s == <<a, b, c>>
           f == s \o rest
<1>1. s \in Seq(Byte) /\ Len(s) = 3 /\ s[1] = a /\ s[3] = c
  OBVIOUS
<1> HIDE DEF s
<1>2. /\ f \in Seq(Byte) /\ Len(f) = Len(s) + Len(rest)
      /\ \A i \in 1 .. Len(s) + Len(rest) : f[i] = IF i <= Len(s) THEN s[i] ELSE rest[i - Len(s)]
  BY <1>1, ConcatProperties
<1>3. Len(rest) \in Nat
  OBVIOUS
<1> HIDE DEF f
<1>4. f[1] = a /\ f[3] = c
  BY <1>1, <1>2, <1>3
<1>5. ASSUME NEW k \in 1 .. Len(rest)
      PROVE  f[3 + k] = rest[k]
  <2>1. 3 + k \in 1 .. Len(s) + Len(rest) /\ ~ (3 + k <= Len(s)) /\ 3 + k - Len(s) = k
    BY <1>1, <1>3
  <2> QED
    BY <1>2, <2>1
<1> QED
  BY <1>1, <1>2, <1>4, <1>5 DEF Headed, IsHeaded, f, s

\* What PollsAssumption says of one poll.
LEMMA PollType ==
  ASSUME NEW p, p \in Polls
  PROVE  /\ p.slave \in Byte /\ p.slave # 0 /\ p.function \in Byte /\ p.function # 0
         /\ p.function + Power[ByteBits - 1] \in Byte
         /\ p.start \in Nat /\ p.count \in Nat \ {0}
         /\ ReadsRegisters(p) => 2 * p.count \in Byte
         /\ ReadsBits(p) => BitBytes(p) \in Byte
         /\ 1 \in Byte /\ 2 \in Byte /\ 6 \in Byte
<1>1. /\ Base \in Nat /\ Base >= 8 /\ Byte = 0 .. Base - 1 /\ Power[ByteBits - 1] \in Nat
      /\ Base = 2 * Power[ByteBits - 1] /\ WordBase \in Nat
  BY Bases, WordBases
<1>2. /\ p.slave \in 1 .. Base - 1 /\ p.function \in 1 .. Power[ByteBits - 1] - 1
      /\ p.start \in Nat /\ p.count \in 1 .. WordBase - 1
      /\ ReadsRegisters(p) => 2 * p.count < Base
      /\ ReadsBits(p) => BitBytes(p) < Base
  BY PollsAssumption
<1>3. p.slave \in Byte /\ p.slave # 0 /\ p.function \in Byte /\ p.function # 0
  BY <1>1, <1>2
<1>4. p.function + Power[ByteBits - 1] \in Byte
  BY <1>1, <1>2
<1>5. p.count \in Nat \ {0}
  BY <1>1, <1>2
<1>6. ReadsRegisters(p) => 2 * p.count \in Byte
  BY <1>1, <1>2, <1>5
<1>7. BitBytes(p) \in Nat
  <2>1. p.count + ByteBits - 1 \in Nat /\ ByteBits \in Nat \ {0}
    BY <1>5, Widths
  <2> QED
    BY <2>1 DEF BitBytes
<1>8. ReadsBits(p) => BitBytes(p) \in Byte
  BY <1>1, <1>2, <1>7
<1>9. 1 \in Byte /\ 2 \in Byte /\ 6 \in Byte
  BY <1>1
<1> QED
  BY <1>2, <1>3, <1>4, <1>5, <1>6, <1>8, <1>9

LEMMA QueryCarries ==
  ASSUME NEW p, p \in Polls
  PROVE  Carries(Query(p), QueryBody(p)) /\ Len(QueryBody(p)) = 6 /\ Query(p).registers = NoRegisters
<1> DEFINE s == <<p.slave, p.function>>
           u == WordBytes(p.start)
           w == WordBytes(p.count)
           t == s \o u
           f == t \o w
<1>1. p.slave \in Byte /\ p.function \in Byte /\ p.start \in Int /\ p.count \in Int
  BY PollType
<1>2. s \in Seq(Byte) /\ Len(s) = 2 /\ s[1] = p.slave
  BY <1>1
<1>3. u \in Seq(Byte) /\ Len(u) = 2 /\ w \in Seq(Byte) /\ Len(w) = 2
  BY <1>1, WordBytesType
<1>4. Query(p) = Message(p.slave, f, NoRegisters) /\ QueryBody(p) = f
  BY DEF Query, QueryBody
<1> HIDE DEF s, u, w
<1>5. /\ t \in Seq(Byte) /\ Len(t) = Len(s) + Len(u)
      /\ \A i \in 1 .. Len(s) + Len(u) : t[i] = IF i <= Len(s) THEN s[i] ELSE u[i - Len(s)]
  BY <1>2, <1>3, ConcatProperties
<1> HIDE DEF t
<1>6. /\ f \in Seq(Byte) /\ Len(f) = Len(t) + Len(w)
      /\ \A i \in 1 .. Len(t) + Len(w) : f[i] = IF i <= Len(t) THEN t[i] ELSE w[i - Len(t)]
  <2>1. t \in Seq(Byte) /\ w \in Seq(Byte)
    BY <1>3, <1>5
  <2> QED
    BY <2>1, ConcatProperties
<1> HIDE DEF f
<1>7. Len(f) = 6 /\ Len(f) >= 2 /\ f[1] = p.slave
  BY <1>2, <1>3, <1>5, <1>6
<1>8. Carries(Message(p.slave, f, NoRegisters), f)
  BY <1>6, <1>7, MessageCarries
<1>9. Message(p.slave, f, NoRegisters).registers = NoRegisters
  BY DEF Message
<1> QED
  BY <1>4, <1>7, <1>8, <1>9

\* The words of an answer, one after the other.
LEMMA AnsweredType ==
  ASSUME NEW p, p \in Polls, ReadsRegisters(p), NEW values, values \in Contents(p)
  PROVE  /\ Answered(p, values) \in Seq(Byte) /\ Len(Answered(p, values)) = 2 * p.count
         /\ DOMAIN values = Asked(p)
         /\ \A r \in Asked(p) : values[r] \in Held[p.slave][r] /\ values[r] \in Int
         /\ \A j \in 0 .. p.count - 1 :
              /\ Answered(p, values)[2 * j + 1] = High(values[p.start + j])
              /\ Answered(p, values)[2 * j + 2] = Low(values[p.start + j])
<1> DEFINE a == Answered(p, values)
           n == 2 * p.count
<1>1. p.start \in Nat /\ p.count \in Nat \ {0} /\ n \in Nat
  BY PollType
<1>2. DOMAIN values = Asked(p) /\ \A r \in Asked(p) : values[r] \in Held[p.slave][r]
  BY DEF Contents
<1>3. \A r \in Asked(p) : values[r] \in Int
  BY <1>2, HeldAssumption
<1>4. \A j \in 0 .. p.count - 1 : p.start + j \in Asked(p)
  BY <1>1 DEF Asked
<1>5. \A r \in Asked(p) :
        /\ High(values[r]) \in Byte /\ Low(values[r]) \in Byte
        /\ WordBytes(values[r])[1] = High(values[r]) /\ WordBytes(values[r])[2] = Low(values[r])
  BY <1>3, WordBytesType
<1>6. a = [k \in 1 .. n |-> WordBytes(values[p.start + (k - 1) \div 2])[2 - (k % 2)]]
  BY DEF Answered
<1> HIDE DEF a, n
<1>7. ASSUME NEW j \in 0 .. p.count - 1
      PROVE  /\ 2 * j + 1 \in 1 .. n /\ a[2 * j + 1] = High(values[p.start + j])
             /\ 2 * j + 2 \in 1 .. n /\ a[2 * j + 2] = Low(values[p.start + j])
  <2>1. /\ 2 * j + 1 \in 1 .. n /\ 2 * j + 2 \in 1 .. n
        /\ (2 * j + 1 - 1) \div 2 = j /\ (2 * j + 2 - 1) \div 2 = j
        /\ 2 - ((2 * j + 1) % 2) = 1 /\ 2 - ((2 * j + 2) % 2) = 2
    BY <1>1 DEF n
  <2> DEFINE k == 2 * j + 1
             l == 2 * j + 2
  <2>2. k \in 1 .. n /\ l \in 1 .. n /\ (k - 1) \div 2 = j /\ (l - 1) \div 2 = j
        /\ 2 - (k % 2) = 1 /\ 2 - (l % 2) = 2
    BY <2>1
  <2> HIDE DEF k, l
  <2>3. a[k] = WordBytes(values[p.start + j])[1] /\ a[l] = WordBytes(values[p.start + j])[2]
    BY <1>6, <2>2
  <2>4. a[k] = High(values[p.start + j]) /\ a[l] = Low(values[p.start + j])
    BY <1>4, <1>5, <2>3
  <2> QED
    BY <2>2, <2>4 DEF k, l
<1>8. ASSUME NEW k \in 1 .. n
      PROVE  a[k] \in Byte
  <2>1. PICK j \in 0 .. p.count - 1 : k = 2 * j + 1 \/ k = 2 * j + 2
    <3>1. (k - 1) \div 2 \in 0 .. p.count - 1
      BY <1>1 DEF n
    <3>2. k = 2 * ((k - 1) \div 2) + 1 \/ k = 2 * ((k - 1) \div 2) + 2
      BY <1>1
    <3> QED
      BY <3>1, <3>2
  <2>2. a[k] = High(values[p.start + j]) \/ a[k] = Low(values[p.start + j])
    BY <1>7, <2>1
  <2> QED
    BY <1>4, <1>5, <2>2
<1>9. a \in Seq(Byte) /\ Len(a) = n
  <2>1. a \in [1 .. n -> Byte]
    BY <1>6, <1>8
  <2> QED
    BY <1>1, <2>1
<1> QED
  BY <1>2, <1>3, <1>7, <1>9 DEF a, n

ResponseBody(p, values) == Headed(p.slave, p.function, 2 * p.count, Answered(p, values))

LEMMA ResponseCarries ==
  ASSUME NEW p, p \in Polls, ReadsRegisters(p), NEW values, values \in Contents(p)
  PROVE  /\ Carries(Response(p, values), ResponseBody(p, values))
         /\ ResponseBody(p, values) \in Seq(Byte)
         /\ Len(ResponseBody(p, values)) = 3 + 2 * p.count
         /\ ResponseBody(p, values)[3] = 2 * p.count
         /\ \A k \in 1 .. 2 * p.count : ResponseBody(p, values)[3 + k] = Answered(p, values)[k]
         /\ Response(p, values).registers = values /\ Response(p, values).slave = p.slave
<1> DEFINE a == Answered(p, values)
           c == 2 * p.count
           f == Headed(p.slave, p.function, c, a)
<1>1. p.slave \in Byte /\ p.function \in Byte /\ c \in Byte /\ c \in Nat
  BY PollType
<1>2. a \in Seq(Byte) /\ Len(a) = c
  BY AnsweredType
<1>3. Response(p, values) = Message(p.slave, f, values) /\ ResponseBody(p, values) = f
  BY DEF Response, Headed, Answered, ResponseBody
<1>4. Message(p.slave, f, values).registers = values /\ Message(p.slave, f, values).slave = p.slave
  BY DEF Message
<1> HIDE DEF a, c
<1>5. /\ f \in Seq(Byte) /\ Len(f) = 3 + Len(a) /\ f[1] = p.slave /\ f[3] = c
      /\ \A k \in 1 .. Len(a) : f[3 + k] = a[k]
  <2> DEFINE x == p.slave
             y == p.function
  <2>1. x \in Byte /\ y \in Byte
    BY <1>1
  <2> HIDE DEF x, y
  <2>2. IsHeaded(Headed(x, y, c, a), x, c, a)
    BY <1>1, <1>2, <2>1, HeadedType
  <2> QED
    BY <2>2 DEF IsHeaded, x, y
<1> HIDE DEF f
<1>6. Len(f) >= 2
  BY <1>1, <1>2, <1>5
<1>7. Carries(Message(p.slave, f, values), f)
  BY <1>5, <1>6, MessageCarries
<1> QED
  BY <1>2, <1>3, <1>4, <1>5, <1>7 DEF a, c, f

LEMMA BitsResponseCarries ==
  ASSUME NEW p, p \in Polls, ReadsBits(p)
  PROVE  \E body : /\ Carries(BitsResponse(p), body)
                   /\ Len(body) = 3 + BitBytes(p) /\ body[3] = BitBytes(p)
                   /\ BitsResponse(p).registers = NoRegisters
<1> DEFINE c == BitBytes(p)
           a == [k \in 1 .. c |-> 1]
           f == Headed(p.slave, p.function, c, a)
<1>1. p.slave \in Byte /\ p.function \in Byte /\ c \in Byte /\ 1 \in Byte
  BY PollType
<1>2. c \in Nat
  BY <1>1, Bases
<1> HIDE DEF c
<1>3. a \in Seq(Byte) /\ Len(a) = c
  BY <1>1, <1>2
<1>4. BitsResponse(p) = Message(p.slave, f, NoRegisters)
  BY DEF BitsResponse, Headed, c
<1>5. Message(p.slave, f, NoRegisters).registers = NoRegisters
  BY DEF Message
<1> HIDE DEF a
<1>6. f \in Seq(Byte) /\ Len(f) = 3 + Len(a) /\ f[1] = p.slave /\ f[3] = c
  <2> DEFINE x == p.slave
             y == p.function
  <2>1. x \in Byte /\ y \in Byte
    BY <1>1
  <2> HIDE DEF x, y
  <2>2. IsHeaded(Headed(x, y, c, a), x, c, a)
    BY <1>1, <1>3, <2>1, HeadedType
  <2> QED
    BY <2>2 DEF IsHeaded, x, y
<1> HIDE DEF f
<1>7. Len(f) >= 2
  BY <1>2, <1>3, <1>6
<1>8. Carries(Message(p.slave, f, NoRegisters), f)
  BY <1>6, <1>7, MessageCarries
<1>9. Carries(BitsResponse(p), f) /\ Len(f) = 3 + c /\ f[3] = c /\ BitsResponse(p).registers = NoRegisters
  BY <1>3, <1>4, <1>5, <1>6, <1>8
<1> QED
  BY <1>9 DEF c

LEMMA ExceptionCarries ==
  ASSUME NEW p, p \in Polls, NEW code, code \in {2, 6}
  PROVE  \E body : /\ Carries(ExceptionResponse(p, code), body) /\ Len(body) = 3
                   /\ ExceptionResponse(p, code).registers = NoRegisters
<1> DEFINE g == p.function + Power[ByteBits - 1]
           f == <<p.slave, g, code>>
<1>1. p.slave \in Byte /\ g \in Byte /\ code \in Byte
  BY PollType
<1>2. ExceptionResponse(p, code) = Message(p.slave, f, NoRegisters)
  BY DEF ExceptionResponse
<1>3. Message(p.slave, f, NoRegisters).registers = NoRegisters
  BY DEF Message
<1> HIDE DEF g
<1>4. f \in Seq(Byte) /\ Len(f) = 3 /\ f[1] = p.slave
  BY <1>1
<1> HIDE DEF f
<1>5. Len(f) >= 2
  BY <1>4
<1>6. Carries(Message(p.slave, f, NoRegisters), f)
  BY <1>4, <1>5, MessageCarries
<1> QED
  BY <1>2, <1>3, <1>4, <1>6

-----------------------------------------------------------------------------
(***************************************************************************)
(* What becomes of a frame                                                 *)
(***************************************************************************)
LEMMA Summary ==
  ASSUME NEW frame, Len(frame) >= 4
  PROVE  /\ summarizeFrame(frame).slaveID = frame[1]
         /\ summarizeFrame(frame).crcValid <=> Intact(frame)
         /\ summarizeFrame(frame).byteCount = IF Len(frame) > 4 THEN frame[3] ELSE NoCount
<1> DEFINE valid == modbusCRC16(SubSeq(frame, 1, Len(frame) - 2)) = CRCSeen(frame)
           count == IF Len(frame) > 4 THEN frame[3] ELSE NoCount
<1>1. CASE Len(frame) < 4
  <2>1. FALSE
    BY <1>1, Len(frame) >= 4
  <2> QED
    BY <2>1
<1>2. CASE ~ (Len(frame) < 4)
  <2>1. summarizeFrame(frame) = [slaveID |-> frame[1], crcValid |-> valid, byteCount |-> count]
    BY <1>2 DEF summarizeFrame
  <2> HIDE DEF valid, count
  <2>2. /\ summarizeFrame(frame).slaveID = frame[1]
        /\ summarizeFrame(frame).crcValid = valid
        /\ summarizeFrame(frame).byteCount = count
    BY <2>1
  <2> QED
    BY <2>2 DEF valid, count, Intact
<1> QED
  BY <1>1, <1>2

\* A frame that is not intact has no effect.
Ignored(h, m) ==
  /\ h.message = m /\ h.intact = FALSE
  /\ h.detected = {} /\ h.values = {} /\ h.stored = {} /\ ~ h.single

LEMMA DamagedIsIgnored ==
  ASSUME NEW port, NEW frame, Len(frame) >= 4, ~ Intact(frame), NEW m
  PROVE  Ignored(Logged(port, frame, FALSE, m), m)
<1> DEFINE h == Logged(port, frame, FALSE, m)
           summary == summarizeFrame(frame)
           decoded == RegisterValues(Sections, frame)
           lines == buildLineProtocol(Measurement, port, summary.slaveID, decoded.slaveName, decoded.values)
<1>1. ~ summary.crcValid
  BY Summary
<1>2. decoded = NoValues
  BY <1>1 DEF RegisterValues, Decodable
<1>3. decoded.values = {}
  BY <1>2 DEF NoValues
<1>4. lines = {}
  <2> HIDE DEF summary, decoded
  <2> QED
    BY <1>3 DEF buildLineProtocol
<1>5. ~ SingleRegister(frame)
  BY <1>1 DEF SingleRegister
<1>6. /\ h.message = m /\ h.intact = FALSE
      /\ h.detected = IF summary.crcValid THEN {summary.slaveID} ELSE {}
      /\ h.values = decoded.values
      /\ h.stored = {Fields(line) : line \in lines}
  BY DEF Logged
<1>7. h.single = SingleRegister(frame)
  BY DEF Logged
<1> HIDE DEF h, summary, decoded, lines
<1>8. h.stored = {}
  BY <1>4, <1>6
<1> QED
  BY <1>1, <1>3, <1>5, <1>6, <1>7, <1>8 DEF Ignored, h

\* What is done with an intact frame of a message.
Recorded(h, port, m) ==
  LET decoded == RegisterValues(Sections, m.bytes)
  IN /\ h.message = m /\ h.intact = TRUE /\ h.port = port
     /\ h.detected = {m.slave}
     /\ h.single <=> SingleRegister(m.bytes)
     /\ h.values = decoded.values
     /\ h.stored = {Fields(line) : line \in
                      buildLineProtocol(Measurement, port, m.slave, decoded.slaveName, decoded.values)}

LEMMA IntactIsRecorded ==
  ASSUME NEW port, NEW m, Sound(m)
  PROVE  Recorded(Logged(port, m.bytes, TRUE, m), port, m)
<1> DEFINE frame == m.bytes
           h == Logged(port, frame, TRUE, m)
           summary == summarizeFrame(frame)
           decoded == RegisterValues(Sections, frame)
           lines == buildLineProtocol(Measurement, port, summary.slaveID, decoded.slaveName, decoded.values)
<1>1. summary.crcValid /\ summary.slaveID = m.slave
  BY Summary DEF Sound
<1>2. /\ h.message = m /\ h.intact = TRUE /\ h.port = port
      /\ h.detected = IF summary.crcValid THEN {summary.slaveID} ELSE {}
      /\ h.values = decoded.values
      /\ h.stored = {Fields(line) : line \in lines}
  BY DEF Logged
<1>3. h.single = SingleRegister(frame)
  BY DEF Logged
<1>4. lines = buildLineProtocol(Measurement, port, m.slave, decoded.slaveName, decoded.values)
  BY <1>1
<1> HIDE DEF h, summary, decoded, lines
<1>5. h.detected = {m.slave}
  BY <1>1, <1>2
<1> QED
  BY <1>2, <1>3, <1>4, <1>5 DEF h, decoded, Recorded

\* The numbers that are decoded are numbers of two bytes.
DecodedRange == -(WordBase \div 2) .. WordBase - 1

LEMMA WordType ==
  ASSUME NEW type, NEW hi, hi \in Byte, NEW lo, lo \in Byte
  PROVE  Word(type, hi, lo) \in DecodedRange
<1> DEFINE u == hi * Base + lo
<1>1. Base \in Nat \ {0} /\ hi \in 0 .. Base - 1 /\ lo \in 0 .. Base - 1 /\ WordBase = Base * Base
  BY Bases, WordBases
<1>2. u \in 0 .. WordBase - 1
  <2>1. PICK d \in Nat : Base = hi + 1 + d
    <3>1. Base - hi - 1 \in Nat /\ Base = hi + 1 + (Base - hi - 1)
      BY <1>1
    <3> QED
      BY <3>1
  <2>2. Base * Base = hi * Base + Base + d * Base /\ d * Base \in Nat /\ hi * Base \in Nat
    BY <1>1, <2>1
  <2> DEFINE x == hi * Base
             y == d * Base
             z == Base * Base
  <2> HIDE DEF x, y, z
  <2>3. z = x + Base + y /\ x \in Nat /\ y \in Nat
    BY <2>2 DEF x, y, z
  <2>4. x + lo \in 0 .. z - 1
    BY <1>1, <2>3
  <2> QED
    BY <1>1, <2>4 DEF x, z
<1>3. Word(type, hi, lo) = IF type # "uint16" /\ u >= WordBase \div 2 THEN u - WordBase ELSE u
  BY DEF Word
<1> HIDE DEF u
<1> DEFINE half == WordBase \div 2
<1> HIDE DEF half
<1>4. WordBase \in Nat \ {0} /\ half \in Nat /\ WordBase = 2 * half
  BY WordBases DEF half
<1>5. CASE type # "uint16" /\ u >= half
  BY <1>2, <1>3, <1>4, <1>5 DEF DecodedRange, half
<1>6. CASE ~ (type # "uint16" /\ u >= half)
  BY <1>2, <1>3, <1>4, <1>6 DEF DecodedRange, half
<1> QED
  BY <1>5, <1>6

LEMMA DecodedType ==
  ASSUME NEW m, Sound(m)
  PROVE  \A v \in RegisterValues(Sections, m.bytes).values : v.value \in DecodedRange
<1> DEFINE frame == m.bytes
           data == Data(frame)
           id == summarizeFrame(frame).slaveID
           decoded == decodeKnownRegisters(Sections, id, data)
           sections == {i \in DOMAIN Sections : Sections[i].address = id}
           section == Sections[CHOOSE i \in sections : \A j \in sections : i <= j]
           usable == {reg \in ToSet(section.registers) : /\ reg.register >= 0
                                                         /\ reg.count \in {0, 1}
                                                         /\ 2 * reg.register + 1 < Len(data)}
           Value(reg) == [register |-> reg.register, name |-> reg.name,
                          value |-> Word(reg.type, data[2 * reg.register + 1],
                                                   data[2 * reg.register + 2])]
<1>1. data \in Seq(Byte)
  <2>1. frame \in Seq(Byte) /\ Len(frame) \in Nat
    BY DEF Sound
  <2>2. SubSeq(frame, 4, Len(frame) - 2) \in Seq(Byte)
    BY <2>1
  <2> QED
    BY <2>2 DEF Data
<1>2. RegisterValues(Sections, frame).values \subseteq decoded.values
  BY DEF RegisterValues, NoValues
<1>3. ASSUME NEW v \in decoded.values
      PROVE  v.value \in DecodedRange
  <2>1. decoded = IF sections = {} THEN NoValues
                  ELSE [slaveName |-> section.name, values |-> {Value(reg) : reg \in usable}]
    BY DEF decodeKnownRegisters
  <2> HIDE DEF decoded, Value, data
  <2>2. sections # {} /\ decoded.values = {Value(reg) : reg \in usable}
    BY <1>3, <2>1 DEF NoValues
  <2>3. \E i \in sections : \A j \in sections : i <= j
    <3>1. sections \subseteq Nat
      BY SectionsAssumption
    <3> HIDE DEF sections
    <3> QED
      BY <2>2, <3>1, Least
  <2>4. \A reg \in ToSet(section.registers) : reg.register \in Int
    <3>1. (CHOOSE i \in sections : \A j \in sections : i <= j) \in sections
      BY <2>3
    <3>2. (CHOOSE i \in sections : \A j \in sections : i <= j) \in DOMAIN Sections
      BY <3>1
    <3> QED
      BY <3>2, SectionsAssumption
  <2>5. PICK reg \in usable : v = Value(reg)
    BY <2>2
  <2> DEFINE r == reg.register
  <2>6. r \in Int /\ r >= 0 /\ 2 * r + 1 < Len(data)
    BY <2>4, <2>5
  <2> HIDE DEF r
  <2>7. Len(data) \in Nat /\ 2 * r + 1 \in 1 .. Len(data) /\ 2 * r + 2 \in 1 .. Len(data)
    BY <1>1, <2>6
  <2>8. data[2 * r + 1] \in Byte /\ data[2 * r + 2] \in Byte
    BY <1>1, <2>7
  <2>9. Word(reg.type, data[2 * r + 1], data[2 * r + 2]) \in DecodedRange
    BY <2>8, WordType
  <2>10. v.value = Word(reg.type, data[2 * r + 1], data[2 * r + 2])
    BY <2>5 DEF Value, r
  <2> QED
    BY <2>9, <2>10
<1> QED
  BY <1>2, <1>3

-----------------------------------------------------------------------------
(***************************************************************************)
(* The invariant: what is on the wire was sent, and what was heard was a   *)
(* message on its own or a frame that is not intact.                       *)
(***************************************************************************)
Queries == {Query(p) : p \in Polls}
RegisterPolls == {p \in Polls : ReadsRegisters(p)}
ResponsesTo(p) == {Response(p, values) : values \in Contents(p)}
Responses == UNION {ResponsesTo(p) : p \in RegisterPolls}
BitPolls == {p \in Polls : ReadsBits(p)}
BitsResponses == {BitsResponse(p) : p \in BitPolls}
ExceptionsTo(p) == {ExceptionResponse(p, code) : code \in {2, 6}}
Exceptions == UNION {ExceptionsTo(p) : p \in Polls}

Messages == Queries \cup Responses \cup BitsResponses \cup Exceptions

HeardIntact(h) == \E m \in Messages, port \in Ports : h = Logged(port, m.bytes, TRUE, m)

HeardDamaged(h) ==
  \E m \in Messages, frame \in Seq(Byte) :
    /\ Len(frame) >= 4 /\ ~ Intact(frame)
    /\ \E port \in Ports \cup {SomePort} : h = Logged(port, frame, FALSE, m)

PolledOK == polled \in Polls \cup {Idle}
WireOK == wire \in Seq(Messages) /\ Len(wire) <= 2
HeardOK == heard = Silence \/ HeardIntact(heard) \/ HeardDamaged(heard)

IInv == PolledOK /\ WireOK /\ HeardOK

\* Which message it is.
IsResponse(m) ==
  \E p \in Polls : ReadsRegisters(p) /\ \E values \in Contents(p) : m = Response(p, values)

IsException(m) == \E p \in Polls, code \in {2, 6} : m = ExceptionResponse(p, code)

LEMMA MessageKinds ==
  ASSUME NEW m
  PROVE  m \in Messages <=>
           \/ \E p \in Polls : m = Query(p)
           \/ IsResponse(m)
           \/ \E p \in Polls : ReadsBits(p) /\ m = BitsResponse(p)
           \/ IsException(m)
<1>1. m \in Queries <=> \E p \in Polls : m = Query(p)
  BY DEF Queries
<1>2. m \in Responses <=> IsResponse(m)
  <2>1. \A p : m \in ResponsesTo(p) <=> \E values \in Contents(p) : m = Response(p, values)
    BY DEF ResponsesTo
  <2>2. \A p : p \in RegisterPolls <=> p \in Polls /\ ReadsRegisters(p)
    BY DEF RegisterPolls
  <2>3. m \in Responses <=> \E p \in RegisterPolls : m \in ResponsesTo(p)
    BY DEF Responses
  <2> QED
    BY <2>1, <2>2, <2>3 DEF IsResponse
<1>3. m \in BitsResponses <=> \E p \in Polls : ReadsBits(p) /\ m = BitsResponse(p)
  BY DEF BitsResponses, BitPolls
<1>4. m \in Exceptions <=> IsException(m)
  <2>1. \A p : m \in ExceptionsTo(p) <=> \E code \in {2, 6} : m = ExceptionResponse(p, code)
    BY DEF ExceptionsTo
  <2>2. m \in Exceptions <=> \E p \in Polls : m \in ExceptionsTo(p)
    BY DEF Exceptions
  <2> QED
    BY <2>1, <2>2 DEF IsException
<1> QED
  BY <1>1, <1>2, <1>3, <1>4 DEF Messages

LEMMA MessagesAreSound ==
  ASSUME NEW m, m \in Messages
  PROVE  Sound(m)
<1>1. CASE \E p \in Polls : m = Query(p)
  BY <1>1, QueryCarries DEF Carries
<1>2. CASE IsResponse(m)
  <2>1. PICK p \in Polls : ReadsRegisters(p) /\ \E values \in Contents(p) : m = Response(p, values)
    BY <1>2 DEF IsResponse
  <2>2. PICK values \in Contents(p) : m = Response(p, values)
    BY <2>1
  <2> QED
    BY <2>1, <2>2, ResponseCarries DEF Carries
<1>3. CASE \E p \in Polls : ReadsBits(p) /\ m = BitsResponse(p)
  BY <1>3, BitsResponseCarries DEF Carries
<1>4. CASE IsException(m)
  <2>1. PICK p \in Polls, code \in {2, 6} : m = ExceptionResponse(p, code)
    BY <1>4 DEF IsException
  <2> QED
    BY <2>1, ExceptionCarries DEF Carries
<1> QED
  BY <1>1, <1>2, <1>3, <1>4, MessageKinds

LEMMA WireMessages ==
  ASSUME WireOK
  PROVE  /\ Len(wire) = 1 => wire[1] \in Messages
         /\ Len(wire) = 2 => wire[1] \in Messages /\ wire[2] \in Messages
<1>1. \A i \in 1 .. Len(wire) : wire[i] \in Messages
  BY DEF WireOK
<1>2. CASE Len(wire) = 1
  BY <1>1, <1>2
<1>3. CASE Len(wire) = 2
  BY <1>1, <1>3
<1> QED
  BY <1>2, <1>3

LEMMA InitIInv == Init => IInv
<1> SUFFICES ASSUME Init PROVE IInv
  OBVIOUS
<1> DEFINE w == <<>>
<1>1. w \in Seq(Messages) /\ Len(w) <= 2
  OBVIOUS
<1> QED
  BY <1>1 DEF Init, IInv, PolledOK, WireOK, HeardOK

LEMMA SendWire ==
  ASSUME NEW m, m \in Messages, WireOK, Send(m)
  PROVE  WireOK' /\ HeardOK'
<1>1. Append(wire, m) \in Seq(Messages) /\ Len(Append(wire, m)) = Len(wire) + 1 /\ Len(wire) \in Nat
  BY AppendProperties DEF WireOK
<1>2. Len(wire) < 2 /\ wire' = Append(wire, m) /\ heard' = Silence
  BY DEF Send
<1> QED
  BY <1>1, <1>2 DEF WireOK, HeardOK

LEMMA EmptyWire ==
  ASSUME wire' = <<>>
  PROVE  WireOK'
<1> DEFINE w == <<>>
<1>1. w \in Seq(Messages) /\ Len(w) <= 2
  OBVIOUS
<1> QED
  BY <1>1 DEF WireOK

LEMMA NextIInv == IInv /\ [Next]_vars => IInv'
<1> SUFFICES ASSUME IInv, [Next]_vars PROVE IInv'
  OBVIOUS
<1> USE DEF IInv
<1>1. ASSUME NEW p \in Polls, Poll(p)
      PROVE  IInv'
  <2>1. Query(p) \in Messages
    BY MessageKinds
  <2>2. WireOK' /\ HeardOK'
    BY <1>1, <2>1, SendWire DEF Poll
  <2>3. PolledOK'
    BY <1>1 DEF Poll, PolledOK
  <2> QED
    BY <2>2, <2>3
<1>2. CASE Answer
  <2>1. polled \in Polls /\ ReadsRegisters(polled)
    BY <1>2 DEF Answer, ReadsRegisters, PolledOK, Idle
  <2>2. PICK values \in Contents(polled) : Send(Response(polled, values))
    BY <1>2 DEF Answer
  <2>3. Response(polled, values) \in Messages
    BY <2>1, MessageKinds DEF IsResponse
  <2>4. WireOK' /\ HeardOK'
    BY <2>2, <2>3, SendWire
  <2>5. PolledOK'
    BY <1>2 DEF Answer, PolledOK
  <2> QED
    BY <2>4, <2>5
<1>3. CASE AnswerBits
  <2>1. polled \in Polls /\ ReadsBits(polled)
    BY <1>3 DEF AnswerBits, ReadsBits, PolledOK, Idle
  <2>2. BitsResponse(polled) \in Messages
    BY <2>1, MessageKinds
  <2>3. WireOK' /\ HeardOK'
    BY <1>3, <2>2, SendWire DEF AnswerBits
  <2>4. PolledOK'
    BY <1>3 DEF AnswerBits, PolledOK
  <2> QED
    BY <2>3, <2>4
<1>4. CASE Exception
  <2>1. polled \in Polls
    BY <1>4 DEF Exception, PolledOK
  <2>2. PICK code \in {2, 6} : Send(ExceptionResponse(polled, code))
    BY <1>4 DEF Exception
  <2>3. ExceptionResponse(polled, code) \in Messages
    BY <2>1, MessageKinds DEF IsException
  <2>4. WireOK' /\ HeardOK'
    BY <2>2, <2>3, SendWire
  <2>5. PolledOK'
    BY <1>4 DEF Exception, PolledOK
  <2> QED
    BY <2>4, <2>5
<1>5. CASE Hear
  <2>1. wire[1] \in Messages /\ wire' = <<>> /\ polled' = polled
    BY <1>5, WireMessages DEF Hear
  <2>2. PICK port \in Ports : heard' = Logged(port, wire[1].bytes, TRUE, wire[1])
    BY <1>5 DEF Hear
  <2>3. HeardOK'
    BY <2>1, <2>2 DEF HeardOK, HeardIntact
  <2> QED
    BY <2>1, <2>3, EmptyWire DEF PolledOK
<1>6. CASE HearGlued
  <2>1. wire[1] \in Messages /\ wire[2] \in Messages /\ wire' = <<>> /\ polled' = polled
    BY <1>6, WireMessages DEF HearGlued
  <2>2. PICK port \in Ports :
          heard' = Logged(port, wire[1].bytes \o wire[2].bytes, FALSE, wire[1])
    BY <1>6 DEF HearGlued
  <2> DEFINE f == wire[1].bytes
             g == wire[2].bytes
  <2>3. /\ f \in Seq(Byte) /\ Len(f) >= 4 /\ Intact(f)
        /\ g \in Seq(Byte) /\ Len(g) >= 4 /\ Intact(g)
    BY <2>1, MessagesAreSound DEF Sound
  <2> HIDE DEF f, g
  <2>4. Len(f) >= 2 /\ Len(g) >= 2
    BY <2>3
  <2>5. ~ Intact(f \o g)
    BY <2>3, <2>4, GluedIsNoticed
  <2>6. f \o g \in Seq(Byte) /\ Len(f \o g) >= 4
    <3>1. f \o g \in Seq(Byte) /\ Len(f \o g) = Len(f) + Len(g)
      BY <2>3, ConcatProperties
    <3> QED
      BY <2>3, <3>1
  <2>7. HeardDamaged(heard')
    BY <2>1, <2>2, <2>5, <2>6 DEF HeardDamaged, f, g
  <2> QED
    BY <2>1, <2>7, EmptyWire DEF PolledOK, HeardOK
<1>7. CASE HearDamaged
  <2>1. wire[1] \in Messages /\ wire' = <<>> /\ polled' = polled
    BY <1>7, WireMessages DEF HearDamaged
  <2> DEFINE f == wire[1].bytes
  <2>2. PICK first \in 0 .. ByteBits * Len(f) - 1, pattern \in SUBSET Places :
          /\ 0 \in pattern
          /\ heard' = Logged(SomePort, Flipped(f, first, pattern), FALSE, wire[1])
    BY <1>7 DEF HearDamaged
  <2>3. f \in Seq(Byte) /\ Len(f) >= 4 /\ Intact(f)
    BY <2>1, MessagesAreSound DEF Sound
  <2> HIDE DEF f
  <2>4. Len(f) >= 2 /\ first \in Nat
    BY <2>3
  <2> DEFINE d == Flipped(f, first, pattern)
  <2>5. ~ Intact(d)
    BY <2>2, <2>3, <2>4, BurstIsNoticed
  <2>6. d \in Seq(Byte) /\ Len(d) = Len(f)
    BY <2>3, <2>4, FlippedBits
  <2>7. heard' = Logged(SomePort, d, FALSE, wire[1]) /\ SomePort \in Ports \cup {SomePort}
    BY <2>2
  <2> HIDE DEF d
  <2>8. HeardDamaged(heard')
    BY <2>1, <2>3, <2>5, <2>6, <2>7 DEF HeardDamaged
  <2> QED
    BY <2>1, <2>8, EmptyWire DEF PolledOK, HeardOK
<1>8. CASE UNCHANGED vars
  BY <1>8 DEF vars, PolledOK, WireOK, HeardOK
<1> QED
  BY <1>1, <1>2, <1>3, <1>4, <1>5, <1>6, <1>7, <1>8 DEF Next

\* A property of the latest frame follows from the invariant if it holds for
\* the intact frame of every message and for every frame that is ignored.
LEMMA FrameCases ==
  ASSUME IInv, heard # Silence
  PROVE  \E m \in Messages : \/ \E port \in Ports : Recorded(heard, port, m)
                             \/ Ignored(heard, m)
<1>1. CASE HeardIntact(heard)
  <2>1. PICK m \in Messages, port \in Ports : heard = Logged(port, m.bytes, TRUE, m)
    BY <1>1 DEF HeardIntact
  <2>2. Recorded(Logged(port, m.bytes, TRUE, m), port, m)
    BY MessagesAreSound, IntactIsRecorded
  <2> QED
    BY <2>1, <2>2
<1>2. CASE HeardDamaged(heard)
  <2>1. PICK m \in Messages, frame \in Seq(Byte) :
          /\ Len(frame) >= 4 /\ ~ Intact(frame)
          /\ \E port \in Ports \cup {SomePort} : heard = Logged(port, frame, FALSE, m)
    BY <1>2 DEF HeardDamaged
  <2>2. PICK port \in Ports \cup {SomePort} : heard = Logged(port, frame, FALSE, m)
    BY <2>1
  <2>3. Ignored(Logged(port, frame, FALSE, m), m)
    BY <2>1, DamagedIsIgnored
  <2> QED
    BY <2>2, <2>3
<1> QED
  BY <1>1, <1>2 DEF IInv, HeardOK

LEMMA IInvType == IInv => TypeOK
<1> SUFFICES ASSUME IInv PROVE TypeOK
  OBVIOUS
<1>1. polled \in Polls \cup {Idle} /\ Len(wire) <= 2
  BY DEF IInv, PolledOK, WireOK
<1>2. ASSUME NEW i \in DOMAIN wire, NEW b \in DOMAIN wire[i].bytes
      PROVE  wire[i].bytes[b] \in Byte
  <2>1. wire[i] \in Messages
    BY DEF IInv, WireOK
  <2>2. wire[i].bytes \in Seq(Byte)
    BY <2>1, MessagesAreSound DEF Sound
  <2> QED
    BY <2>2
<1>3. ASSUME heard # Silence, NEW v \in heard.values
      PROVE  v.value \in DecodedRange
  <2>1. PICK m \in Messages : (\E port \in Ports : Recorded(heard, port, m)) \/ Ignored(heard, m)
    BY <1>3, FrameCases
  <2>2. heard.values = RegisterValues(Sections, m.bytes).values
    BY <1>3, <2>1 DEF Recorded, Ignored
  <2> QED
    BY <1>3, <2>2, MessagesAreSound, DecodedType
<1> QED
  BY <1>1, <1>2, <1>3 DEF TypeOK, DecodedRange

LEMMA IInvIntact == IInv => OnlyIntactFrames
<1> SUFFICES ASSUME IInv, heard # Silence
             PROVE  heard.detected = IF heard.intact THEN {heard.message.slave} ELSE {}
  BY DEF OnlyIntactFrames
<1>1. PICK m \in Messages : (\E port \in Ports : Recorded(heard, port, m)) \/ Ignored(heard, m)
  BY FrameCases
<1> QED
  BY <1>1 DEF Recorded, Ignored

LEMMA Invariance == Spec => []IInv
<1>1. Init => IInv
  BY InitIInv
<1>2. IInv /\ [Next]_vars => IInv'
  BY NextIInv
<1> QED
  BY <1>1, <1>2, PTL DEF Spec

\* The master waits for the answer to a poll of its own or to none, bytes are
\* bytes, and what is decoded is a number of 16 bits (registers.go:47-76), for
\* any width of bytes, polynomial, polls and instruments.
THEOREM TypeCorrect == Spec => []TypeOK
<1>1. IInv => TypeOK
  BY IInvType
<1> QED
  BY <1>1, Invariance, PTL

\* frame.go:35, listener.go:118: the collector learns the slave of a message
\* from every intact frame and nothing from any other, for any polynomial that
\* has the highest place of the CRC: no burst as long as the CRC and no second
\* message in a frame passes the check.
THEOREM IntactFramesOnly == Spec => []OnlyIntactFrames
<1>1. IInv => OnlyIntactFrames
  BY IInvIntact
<1> QED
  BY <1>1, Invariance, PTL

-----------------------------------------------------------------------------
(***************************************************************************)
(* Which frames are decoded, and which are those of a single register      *)
(***************************************************************************)
\* A frame of more than four bytes with its body.
Shape(m, body) ==
  /\ Len(m.bytes) = Len(body) + 2
  /\ summarizeFrame(m.bytes).crcValid
  /\ summarizeFrame(m.bytes).slaveID = m.slave
  /\ summarizeFrame(m.bytes).byteCount = body[3]
  /\ \A k \in 1 .. Len(body) : m.bytes[k] = body[k]

LEMMA CarriedShape ==
  ASSUME NEW m, NEW body, Carries(m, body), Len(body) \in Nat, Len(body) >= 3
  PROVE  Shape(m, body)
<1> DEFINE frame == m.bytes
<1>1. /\ Len(frame) = Len(body) + 2 /\ \A k \in 1 .. Len(body) : frame[k] = body[k]
      /\ Intact(frame) /\ frame[1] = m.slave
  BY DEF Carries, Completed, Sound
<1> HIDE DEF frame
<1>2. Len(frame) >= 4 /\ Len(frame) > 4 /\ 3 \in 1 .. Len(body)
  BY <1>1
<1>3. /\ summarizeFrame(frame).slaveID = frame[1]
      /\ summarizeFrame(frame).crcValid
      /\ summarizeFrame(frame).byteCount = frame[3]
  BY <1>1, <1>2, Summary
<1> QED
  BY <1>1, <1>2, <1>3 DEF Shape, frame

\* Nothing is decoded from a message that is not an answer with registers, and
\* it is not one of a single register.
Silent(m) ==
  m.registers = NoRegisters /\ ~ Decodable(m.bytes) /\ ~ SingleRegister(m.bytes)

LEMMA QueryIsSilent ==
  ASSUME NEW p, p \in Polls
  PROVE  Silent(Query(p))
<1> DEFINE m == Query(p)
           body == QueryBody(p)
<1>1. Carries(m, body) /\ Len(body) = 6 /\ m.registers = NoRegisters
  BY QueryCarries
<1> HIDE DEF m, body
<1>2. Shape(m, body)
  <2>1. Len(body) \in Nat /\ Len(body) >= 3
    BY <1>1
  <2> QED
    BY <1>1, <2>1, CarriedShape
<1>3. Len(m.bytes) = 8
  BY <1>1, <1>2 DEF Shape
<1>4. ~ Decodable(m.bytes)
  <2> DEFINE c == summarizeFrame(m.bytes).byteCount
  <2>1. 8 - 5 = 3 /\ 3 % 2 # 0
    OBVIOUS
  <2>2. c = 8 - 5 => c % 2 # 0
    BY <2>1
  <2> QED
    BY <1>3, <2>2 DEF Decodable
<1>5. ~ SingleRegister(m.bytes)
  BY <1>3 DEF SingleRegister
<1> QED
  BY <1>1, <1>4, <1>5 DEF Silent, m

LEMMA BitsAreSilent ==
  ASSUME OddBitBytes, NEW p, p \in Polls, ReadsBits(p)
  PROVE  Silent(BitsResponse(p))
<1> DEFINE m == BitsResponse(p)
           n == BitBytes(p)
<1>1. PICK body : Carries(m, body) /\ Len(body) = 3 + n /\ body[3] = n /\ m.registers = NoRegisters
  BY BitsResponseCarries
<1>2. n \in Nat
  BY PollType, Bases
<1>3. n % 2 = 1
  BY DEF OddBitBytes
<1> HIDE DEF m, n
<1>4. Shape(m, body)
  <2>1. Len(body) \in Nat /\ Len(body) >= 3
    BY <1>1, <1>2
  <2> QED
    BY <1>1, <2>1, CarriedShape
<1>5. summarizeFrame(m.bytes).byteCount = n
  BY <1>1, <1>4 DEF Shape
<1>6. ~ Decodable(m.bytes)
  BY <1>3, <1>5 DEF Decodable
<1>7. ~ SingleRegister(m.bytes)
  BY <1>3, <1>5 DEF SingleRegister
<1> QED
  BY <1>1, <1>6, <1>7 DEF Silent, m

LEMMA ExceptionIsSilent ==
  ASSUME NEW p, p \in Polls, NEW code, code \in {2, 6}
  PROVE  Silent(ExceptionResponse(p, code))
<1> DEFINE m == ExceptionResponse(p, code)
<1>1. PICK body : Carries(m, body) /\ Len(body) = 3 /\ m.registers = NoRegisters
  BY ExceptionCarries
<1> HIDE DEF m
<1>2. Len(m.bytes) = 5
  BY <1>1 DEF Carries, Completed
<1>3. ~ Decodable(m.bytes) /\ ~ SingleRegister(m.bytes)
  BY <1>2 DEF Decodable, SingleRegister
<1> QED
  BY <1>1, <1>3 DEF Silent, m

\* An answer with registers is decoded: its data are the words of the registers.
Speaking(m, p) ==
  /\ m.slave = p.slave /\ m.registers \in Contents(p)
  /\ Decodable(m.bytes)
  /\ SingleRegister(m.bytes) <=> p.count = 1
  /\ summarizeFrame(m.bytes).slaveID = p.slave
  /\ Len(Data(m.bytes)) = 2 * p.count
  /\ \A k \in 1 .. 2 * p.count : Data(m.bytes)[k] = Answered(p, m.registers)[k]

LEMMA AnswerSpeaks ==
  ASSUME NEW p, p \in Polls, ReadsRegisters(p), NEW values, values \in Contents(p)
  PROVE  Speaking(Response(p, values), p)
<1> DEFINE m == Response(p, values)
           body == ResponseBody(p, values)
           n == 2 * p.count
           a == Answered(p, values)
           c == p.count
<1>1. /\ Carries(m, body) /\ body \in Seq(Byte) /\ Len(body) = 3 + n /\ body[3] = n
      /\ \A k \in 1 .. n : body[3 + k] = a[k]
      /\ m.registers = values /\ m.slave = p.slave
  BY ResponseCarries
<1>2. n = 2 * c /\ c \in Nat \ {0} /\ n \in Nat
  BY PollType
<1> DEFINE frame == m.bytes
<1>3. frame \in Seq(Byte)
  BY <1>1 DEF Carries, Completed
<1> HIDE DEF m, body, n, a, c
<1>4. Shape(m, body)
  <2>1. Len(body) \in Nat /\ Len(body) >= 3
    BY <1>1, <1>2
  <2> QED
    BY <1>1, <2>1, CarriedShape
<1>5. /\ Len(frame) = 5 + n /\ summarizeFrame(frame).crcValid
      /\ summarizeFrame(frame).slaveID = p.slave /\ summarizeFrame(frame).byteCount = n
      /\ \A k \in 1 .. 3 + n : frame[k] = body[k]
  BY <1>1, <1>2, <1>4 DEF Shape
<1> HIDE DEF frame
<1>6. Decodable(frame)
  <2>1. Len(frame) > 5 /\ n = Len(frame) - 5 /\ n % 2 = 0
    BY <1>2, <1>5
  <2> QED
    BY <1>5, <2>1 DEF Decodable
<1>7. SingleRegister(frame) <=> c = 1
  <2>1. Len(frame) = 7 /\ n = 2 <=> c = 1
    BY <1>2, <1>5
  <2> QED
    BY <1>5, <2>1 DEF SingleRegister
<1>8. Len(Data(frame)) = n /\ \A k \in 1 .. n : Data(frame)[k] = a[k]
  <2> DEFINE d == SubSeq(frame, 4, 3 + n)
  <2>1. Data(frame) = d
    BY <1>2, <1>5 DEF Data
  <2>2. Len(d) = n /\ \A k \in 1 .. n : d[k] = frame[4 + k - 1]
    BY <1>2, <1>3, <1>5
  <2> HIDE DEF d
  <2>3. ASSUME NEW k \in 1 .. n
        PROVE  d[k] = a[k]
    <3>1. 4 + k - 1 = 3 + k /\ 3 + k \in 1 .. 3 + n
      BY <1>2
    <3> QED
      BY <1>1, <1>5, <2>2, <3>1
  <2> QED
    BY <2>1, <2>2, <2>3
<1>9. frame = m.bytes
  BY DEF frame
<1>10. Len(Data(m.bytes)) = 2 * p.count
       /\ \A k \in 1 .. 2 * p.count : Data(m.bytes)[k] = Answered(p, m.registers)[k]
  BY <1>1, <1>8, <1>9 DEF n, a
<1> QED
  BY <1>1, <1>5, <1>6, <1>7, <1>9, <1>10 DEF Speaking, c, m

LEMMA SilentOrSpeaking ==
  ASSUME OddBitBytes, NEW m, m \in Messages
  PROVE  Silent(m) \/ \E p \in Polls : ReadsRegisters(p) /\ Speaking(m, p)
<1>1. CASE \E p \in Polls : m = Query(p)
  BY <1>1, QueryIsSilent
<1>2. CASE IsResponse(m)
  <2>1. PICK p \in Polls : ReadsRegisters(p) /\ \E values \in Contents(p) : m = Response(p, values)
    BY <1>2 DEF IsResponse
  <2>2. PICK values \in Contents(p) : m = Response(p, values)
    BY <2>1
  <2> QED
    BY <2>1, <2>2, AnswerSpeaks
<1>3. CASE \E p \in Polls : ReadsBits(p) /\ m = BitsResponse(p)
  BY <1>3, BitsAreSilent
<1>4. CASE IsException(m)
  <2>1. PICK p \in Polls, code \in {2, 6} : m = ExceptionResponse(p, code)
    BY <1>4 DEF IsException
  <2> QED
    BY <2>1, ExceptionIsSilent
<1> QED
  BY <1>1, <1>2, <1>3, <1>4, MessageKinds

LEMMA AskedSize ==
  ASSUME NEW p, p \in Polls
  PROVE  Cardinality(Asked(p)) = p.count
<1> DEFINE a == p.start
           b == p.start + p.count - 1
<1>1. a \in Int /\ b \in Int /\ p.count \in Nat \ {0} /\ b - a + 1 = p.count /\ a <= b
  BY PollType
<1>2. Asked(p) = a .. b
  BY DEF Asked
<1> HIDE DEF a, b
<1>3. Cardinality(a .. b) = IF a > b THEN 0 ELSE b - a + 1
  BY <1>1, FS_Interval
<1> QED
  BY <1>1, <1>2, <1>3

LEMMA IInvSingles == OddBitBytes /\ IInv => SinglesAreAnswers
<1> SUFFICES ASSUME OddBitBytes, IInv, heard # Silence
             PROVE  heard.single <=> heard.intact /\ Cardinality(DOMAIN heard.message.registers) = 1
  BY DEF SinglesAreAnswers
<1>1. PICK m \in Messages : (\E port \in Ports : Recorded(heard, port, m)) \/ Ignored(heard, m)
  BY FrameCases
<1>2. CASE Ignored(heard, m)
  BY <1>2 DEF Ignored
<1>3. CASE \E port \in Ports : Recorded(heard, port, m)
  <2>1. /\ heard.message = m /\ heard.intact = TRUE
        /\ heard.single <=> SingleRegister(m.bytes)
    BY <1>3 DEF Recorded
  <2>2. CASE Silent(m)
    <3>1. DOMAIN NoRegisters = {} /\ Cardinality({}) = 0
      BY FS_EmptySet DEF NoRegisters
    <3> QED
      BY <2>1, <2>2, <3>1 DEF Silent
  <2>3. CASE \E p \in Polls : ReadsRegisters(p) /\ Speaking(m, p)
    <3>1. PICK p \in Polls : ReadsRegisters(p) /\ Speaking(m, p)
      BY <2>3
    <3>2. SingleRegister(m.bytes) <=> p.count = 1
      BY <3>1 DEF Speaking
    <3>3. Cardinality(DOMAIN m.registers) = p.count
      <4>1. DOMAIN m.registers = Asked(p)
        BY <3>1 DEF Speaking, Contents
      <4> QED
        BY <4>1, AskedSize
    <3> QED
      BY <2>1, <3>2, <3>3
  <2> QED
    BY <2>2, <2>3, SilentOrSpeaking
<1> QED
  BY <1>1, <1>2, <1>3

-----------------------------------------------------------------------------
(***************************************************************************)
(* The registers of an answer                                              *)
(***************************************************************************)
\* The sections of a slave, and what the first of them names.
SectionsOf(slave) == {i \in DOMAIN Sections : Sections[i].address = slave}

Usable(section, n) ==
  {reg \in ToSet(section.registers) :
     reg.register >= 0 /\ reg.count \in {0, 1} /\ 2 * reg.register + 1 < n}

Reading(reg, data) ==
  [register |-> reg.register, name |-> reg.name,
   value |-> Word(reg.type, data[2 * reg.register + 1], data[2 * reg.register + 2])]

\* i is the number of the only section of the slave.
OnlySection(i, slave) == SectionsOf(slave) = {i} /\ i \in DOMAIN Sections

LEMMA SectionCases ==
  ASSUME UniqueSections, NEW slave
  PROVE  SectionsOf(slave) = {} \/ \E i : OnlySection(i, slave)
<1> SUFFICES ASSUME SectionsOf(slave) # {} PROVE \E i : OnlySection(i, slave)
  OBVIOUS
<1>1. PICK i : i \in SectionsOf(slave)
  OBVIOUS
<1>2. \A j \in SectionsOf(slave) : j = i
  BY <1>1 DEF SectionsOf, UniqueSections
<1>3. SectionsOf(slave) = {i}
  BY <1>1, <1>2
<1>4. i \in DOMAIN Sections
  BY <1>1 DEF SectionsOf
<1> QED
  BY <1>3, <1>4 DEF OnlySection

LEMMA DecodedNothing ==
  ASSUME NEW slave, SectionsOf(slave) = {}, NEW data
  PROVE  decodeKnownRegisters(Sections, slave, data) = NoValues
BY DEF decodeKnownRegisters, SectionsOf

LEMMA DecodedSection ==
  ASSUME NEW slave, NEW i, OnlySection(i, slave), NEW data
  PROVE  /\ decodeKnownRegisters(Sections, slave, data).slaveName = Sections[i].name
         /\ decodeKnownRegisters(Sections, slave, data).values
              = {Reading(reg, data) : reg \in Usable(Sections[i], Len(data))}
<1> DEFINE section == Sections[CHOOSE k \in SectionsOf(slave) : \A j \in SectionsOf(slave) : k <= j]
           decoded == decodeKnownRegisters(Sections, slave, data)
<1>1. decoded = IF SectionsOf(slave) = {} THEN NoValues
                ELSE [slaveName |-> section.name,
                      values |-> {Reading(reg, data) : reg \in Usable(section, Len(data))}]
  BY DEF decodeKnownRegisters, SectionsOf, Usable, Reading
<1>2. (CHOOSE k \in SectionsOf(slave) : \A j \in SectionsOf(slave) : k <= j) = i
  <2>1. SectionsOf(slave) = {i} /\ i <= i
    BY SectionsAssumption DEF OnlySection
  <2> QED
    BY <2>1
<1>3. section = Sections[i]
  BY <1>2
<1> HIDE DEF section, decoded
<1>4. SectionsOf(slave) # {}
  BY DEF OnlySection
<1>5. decoded = [slaveName |-> Sections[i].name,
                 values |-> {Reading(reg, data) : reg \in Usable(Sections[i], Len(data))}]
  BY <1>1, <1>3, <1>4
<1> QED
  BY <1>5 DEF decoded

LEMMA TheSection ==
  ASSUME NEW slave, NEW i, OnlySection(i, slave)
  PROVE  {s \in ToSet(Sections) : s.address = slave} = {Sections[i]}
<1> DEFINE mine == {s \in ToSet(Sections) : s.address = slave}
<1>1. ToSet(Sections) = {Sections[j] : j \in DOMAIN Sections}
  BY DEF ToSet
<1>2. Sections[i] \in mine
  BY <1>1 DEF OnlySection, SectionsOf
<1>3. ASSUME NEW s \in mine
      PROVE  s = Sections[i]
  <2>1. PICK j \in DOMAIN Sections : s = Sections[j]
    BY <1>1
  <2>2. j \in SectionsOf(slave)
    BY <2>1 DEF SectionsOf
  <2> QED
    BY <2>1, <2>2 DEF OnlySection
<1> QED
  BY <1>2, <1>3

\* What the configuration names of a message of that slave.
LEMMA NamedInSection ==
  ASSUME NEW m, NEW i, OnlySection(i, m.slave)
  PROVE  Named(m) = {r \in ToSet(Sections[i].registers) :
                       r.register \in DOMAIN m.registers /\ r.count \in {0, 1}}
<1> DEFINE mine == {s \in ToSet(Sections) : s.address = m.slave}
           all == UNION {ToSet(s.registers) : s \in mine}
<1>1. mine = {Sections[i]}
  BY TheSection
<1> HIDE DEF mine
<1>2. all = ToSet(Sections[i].registers)
  BY <1>1
<1>3. Named(m) = {r \in all : r.register \in DOMAIN m.registers /\ r.count \in {0, 1}}
  BY DEF Named, mine
<1> QED
  BY <1>2, <1>3

LEMMA NamedNowhere ==
  ASSUME NEW m, SectionsOf(m.slave) = {}
  PROVE  Named(m) = {}
<1>1. {s \in ToSet(Sections) : s.address = m.slave} = {}
  BY DEF ToSet, SectionsOf
<1> QED
  BY <1>1 DEF Named

\* The values of an answer to a poll from register 0 on are the ones it carries.
LEMMA AnswerDecoded ==
  ASSUME UniqueSections, TypesFit, NEW p, p \in Polls, ReadsRegisters(p), p.start = 0,
         NEW m, Speaking(m, p)
  PROVE  RegisterValues(Sections, m.bytes).values = Readings(m)
<1> DEFINE data == Data(m.bytes)
           n == Len(data)
           values == m.registers
<1>1. RegisterValues(Sections, m.bytes) = decodeKnownRegisters(Sections, m.slave, data)
  BY DEF Speaking, RegisterValues
<1>2. n = 2 * p.count /\ p.count \in Nat \ {0}
  BY PollType DEF Speaking
<1>3. \A k \in 1 .. n : data[k] = Answered(p, values)[k]
  BY DEF Speaking
<1>4. /\ DOMAIN values = Asked(p) /\ values \in Contents(p)
      /\ \A r \in Asked(p) : values[r] \in Held[p.slave][r] /\ values[r] \in Int
      /\ \A j \in 0 .. p.count - 1 :
           /\ Answered(p, values)[2 * j + 1] = High(values[p.start + j])
           /\ Answered(p, values)[2 * j + 2] = Low(values[p.start + j])
  BY AnsweredType DEF Speaking
<1>5. Asked(p) = 0 .. p.count - 1
  BY <1>2 DEF Asked
<1>6. m.slave = p.slave
  BY DEF Speaking
<1> HIDE DEF data, n, values
<1>7. CASE SectionsOf(m.slave) = {}
  <2>1. Named(m) = {}
    BY <1>7, NamedNowhere
  <2>2. RegisterValues(Sections, m.bytes).values = {}
    BY <1>1, <1>7, DecodedNothing DEF NoValues
  <2> QED
    BY <2>1, <2>2 DEF Readings
<1>8. ASSUME NEW i, OnlySection(i, m.slave)
      PROVE  RegisterValues(Sections, m.bytes).values = Readings(m)
  <2> DEFINE regs == ToSet(Sections[i].registers)
             usable == Usable(Sections[i], n)
             named == Named(m)
  <2>1. RegisterValues(Sections, m.bytes).values = {Reading(reg, data) : reg \in usable}
    BY <1>1, <1>8, DecodedSection DEF n
  <2>2. named = {r \in regs : r.register \in DOMAIN values /\ r.count \in {0, 1}}
    BY <1>8, NamedInSection DEF values
  <2>3. i \in DOMAIN Sections /\ Sections[i].address = p.slave
    BY <1>6, <1>8 DEF OnlySection, SectionsOf
  <2>4. \A reg \in regs : reg.register \in Int
    BY <2>3, SectionsAssumption
  <2>5. usable = {r \in regs : r.register >= 0 /\ r.count \in {0, 1} /\ 2 * r.register + 1 < n}
    BY DEF Usable
  <2>6. Readings(m) = {[register |-> r.register, name |-> r.name, value |-> values[r.register]] :
                         r \in named}
    BY DEF Readings, values
  <2>7. \A reg \in regs : reg.register \in Asked(p) => Held[p.slave][reg.register] \subseteq OfType(reg.type)
    BY <2>3 DEF TypesFit
  <2> HIDE DEF regs, usable, named
  <2>8. ASSUME NEW reg \in regs
        PROVE  /\ reg \in usable <=> reg \in named
               /\ reg \in named => Reading(reg, data)
                    = [register |-> reg.register, name |-> reg.name, value |-> values[reg.register]]
    <3> DEFINE r == reg.register
               v == values[r]
    <3>1. r \in Int
      BY <2>4
    <3>2. r >= 0 /\ 2 * r + 1 < n <=> r \in Asked(p)
      <4> HIDE DEF r
      <4> QED
        BY <1>2, <1>5, <3>1
    <3>3. reg \in usable <=> reg \in named
      BY <1>4, <2>2, <2>5, <3>2
    <3>4. ASSUME r \in Asked(p)
          PROVE  Word(reg.type, data[2 * r + 1], data[2 * r + 2]) = v
      <4> HIDE DEF r
      <4>1. /\ r \in 0 .. p.count - 1 /\ 2 * r + 1 \in 1 .. n /\ 2 * r + 2 \in 1 .. n
            /\ p.start + r = r
        BY <1>2, <1>5, <3>1, <3>4
      <4>2. data[2 * r + 1] = High(v) /\ data[2 * r + 2] = Low(v)
        BY <1>3, <1>4, <4>1
      <4>3. v \in OfType(reg.type)
        BY <1>4, <2>7, <3>4 DEF r
      <4> HIDE DEF v
      <4>4. Word(reg.type, High(v), Low(v)) = v
        BY <4>3, WordOfBytes
      <4> QED
        BY <4>2, <4>4
    <3>5. reg \in named => r \in Asked(p)
      BY <1>4, <2>2
    <3> QED
      BY <3>3, <3>4, <3>5 DEF Reading
  <2>9. usable \subseteq regs /\ named \subseteq regs
    BY <2>2, <2>5
  <2>10. usable = named
    BY <2>8, <2>9
  <2> QED
    BY <2>1, <2>6, <2>8, <2>9, <2>10
<1> QED
  BY <1>7, <1>8, SectionCases

LEMMA IInvKnown ==
  UniqueSections /\ PollsFromZero /\ OddBitBytes /\ TypesFit /\ IInv => KnownRegistersDecoded
<1> SUFFICES ASSUME UniqueSections, PollsFromZero, OddBitBytes, TypesFit, IInv, heard # Silence
             PROVE  heard.values = IF heard.intact THEN Readings(heard.message) ELSE {}
  BY DEF KnownRegistersDecoded
<1>1. PICK m \in Messages : (\E port \in Ports : Recorded(heard, port, m)) \/ Ignored(heard, m)
  BY FrameCases
<1>2. CASE Ignored(heard, m)
  BY <1>2 DEF Ignored
<1>3. CASE \E port \in Ports : Recorded(heard, port, m)
  <2>1. /\ heard.message = m /\ heard.intact = TRUE
        /\ heard.values = RegisterValues(Sections, m.bytes).values
    BY <1>3 DEF Recorded
  <2>2. CASE Silent(m)
    <3>1. RegisterValues(Sections, m.bytes).values = {}
      BY <2>2 DEF Silent, RegisterValues, NoValues
    <3>2. Named(m) = {}
      BY <2>2 DEF Silent, NoRegisters, Named
    <3>3. Readings(m) = {}
      BY <3>2 DEF Readings
    <3> QED
      BY <2>1, <3>1, <3>3
  <2>3. CASE \E p \in Polls : ReadsRegisters(p) /\ Speaking(m, p)
    <3>1. PICK p \in Polls : ReadsRegisters(p) /\ Speaking(m, p)
      BY <2>3
    <3>2. p.start = 0
      BY <3>1 DEF PollsFromZero
    <3> QED
      BY <2>1, <3>1, <3>2, AnswerDecoded
  <2> QED
    BY <2>2, <2>3, SilentOrSpeaking
<1> QED
  BY <1>1, <1>2, <1>3

\* dustiq.go:63-72: the handler is given every answer of one register and no
\* other message, unless the bits of an answer come in an even number of bytes.
THEOREM SinglesOnlyAnswers ==
  ASSUME OddBitBytes
  PROVE  Spec => []SinglesAreAnswers
<1>1. IInv => SinglesAreAnswers
  BY IInvSingles
<1> QED
  BY <1>1, Invariance, PTL

\* registers.go:17-81: what is decoded is what the slave answered, for every
\* configuration with one section per slave and the types of its registers, if
\* the polls begin with register 0 and no answer has an even number of bytes of bits.
THEOREM KnownRegisters ==
  ASSUME UniqueSections, PollsFromZero, OddBitBytes, TypesFit
  PROVE  Spec => []KnownRegistersDecoded
<1>1. IInv => KnownRegistersDecoded
  BY IInvKnown
<1> QED
  BY <1>1, Invariance, PTL

-----------------------------------------------------------------------------
(***************************************************************************)
(* What the database reads                                                 *)
(***************************************************************************)
\* The names are texts over some set of symbols, whatever they are; the
\* measurement is never empty (storage.go:38).
Texts(A) ==
  /\ Measurement \in Seq(A) /\ Measurement # <<>>
  /\ Ports \subseteq Seq(A)
  /\ \A i \in DOMAIN Sections :
       /\ Sections[i].name \in Seq(A)
       /\ \A reg \in ToSet(Sections[i].registers) : reg.name \in Seq(A)

AllSymbols(A) == ((A \cup Special) \cup Words) \cup {ToString(n) : n \in Int}

LEMMA TextsOfAll ==
  ASSUME NEW A, Texts(A)
  PROVE  Symbols(AllSymbols(A)) /\ Texts(AllSymbols(A))
<1> DEFINE B == AllSymbols(A)
<1>1. A \subseteq B /\ Special \subseteq B /\ Words \subseteq B /\ \A n \in Int : ToString(n) \in B
  BY DEF AllSymbols
<1> HIDE DEF B
<1>2. \A s \in Seq(A) : s \in Seq(B)
  BY <1>1, SeqMonotonic
<1>3. Symbols(B)
  BY <1>1 DEF Symbols
<1>4. Texts(B)
  BY <1>2 DEF Texts
<1> QED
  BY <1>3, <1>4 DEF B

\* A value of one of the sections of the configuration.
LEMMA ValueType ==
  ASSUME NEW A, Texts(A), NEW m, Sound(m), NEW i, OnlySection(i, m.slave),
         NEW v, v \in RegisterValues(Sections, m.bytes).values
  PROVE  v.name \in Seq(A) /\ v.register \in Int /\ v.value \in Int
<1> DEFINE data == Data(m.bytes)
<1>1. RegisterValues(Sections, m.bytes) = decodeKnownRegisters(Sections, m.slave, data)
      \/ RegisterValues(Sections, m.bytes) = NoValues
  BY Summary DEF RegisterValues, Sound
<1>2. v \in decodeKnownRegisters(Sections, m.slave, data).values
  BY <1>1 DEF NoValues
<1> HIDE DEF data
<1>3. PICK reg \in Usable(Sections[i], Len(data)) : v = Reading(reg, data)
  BY <1>2, DecodedSection
<1>4. v.name = reg.name /\ v.register = reg.register
  BY <1>3 DEF Reading
<1>5. reg \in ToSet(Sections[i].registers) /\ i \in DOMAIN Sections
  BY <1>3 DEF Usable, OnlySection
<1>6. v.value \in DecodedRange
  BY DecodedType
<1>7. v.value \in Int
  BY <1>6, WordBases DEF DecodedRange
<1>8. reg.name \in Seq(A) /\ reg.register \in Int
  BY <1>5, SectionsAssumption DEF Texts
<1> QED
  BY <1>4, <1>7, <1>8

\* The lines of an intact message are read back as what is meant.
LEMMA StoredLines ==
  ASSUME NEW A, Symbols(A), Texts(A), NumbersArePlain, UniqueSections,
         NEW m, Sound(m), m.slave \in Int, NEW port, port \in Ports,
         NEW h, Recorded(h, port, m)
  PROVE  h.stored = {Meant(Measurement, port, m.slave, s.name, v) :
                       s \in {s \in ToSet(Sections) : s.address = m.slave},
                       v \in {v \in h.values : v.name # <<>>}}
<1> DEFINE decoded == RegisterValues(Sections, m.bytes)
           name == decoded.slaveName
           values == decoded.values
           Text(v) == Line(Measurement, port, m.slave, name, v)
           shown == {v \in values : v.name # <<>>}
           mine == {s \in ToSet(Sections) : s.address = m.slave}
<1>1. /\ h.values = values
      /\ h.stored = {Fields(line) : line \in buildLineProtocol(Measurement, port, m.slave, name, values)}
  BY DEF Recorded
<1>2. Measurement \in Seq(A) /\ Measurement # <<>> /\ port \in Seq(A)
  BY DEF Texts
<1>3. buildLineProtocol(Measurement, port, m.slave, name, values) = {Text(v) : v \in shown}
  BY <1>2 DEF buildLineProtocol
<1> HIDE DEF decoded
<1>4. h.stored = {Fields(Text(v)) : v \in shown}
  BY <1>1, <1>3
<1>5. decoded = decodeKnownRegisters(Sections, m.slave, Data(m.bytes)) \/ values = {}
  BY Summary DEF RegisterValues, Sound, NoValues, decoded
<1>6. CASE shown = {}
  <2> HIDE DEF shown
  <2>1. h.stored = {}
    BY <1>4, <1>6
  <2>2. {v \in h.values : v.name # <<>>} = {}
    BY <1>1, <1>6 DEF shown
  <2> QED
    BY <2>1, <2>2
<1>7. CASE shown # {}
  <2>1. values # {}
    BY <1>7
  <2>2. SectionsOf(m.slave) # {}
    <3>1. SectionsOf(m.slave) = {} => decoded = NoValues
      BY <1>5, <2>1, DecodedNothing
    <3> QED
      BY <2>1, <3>1 DEF NoValues
  <2>3. PICK i : OnlySection(i, m.slave)
    BY <2>2, SectionCases
  <2>4. name = Sections[i].name
    BY <1>5, <2>1, <2>3, DecodedSection
  <2>5. name \in Seq(A)
    BY <2>3, <2>4 DEF Texts, OnlySection
  <2>6. mine = {Sections[i]}
    BY <2>3, TheSection
  <2>7. ASSUME NEW v \in shown
        PROVE  Fields(Text(v)) = Meant(Measurement, port, m.slave, Sections[i].name, v)
    <3>1. v \in values
      OBVIOUS
    <3>2. v.name \in Seq(A) /\ v.register \in Int /\ v.value \in Int
      BY <2>3, <3>1, ValueType DEF decoded
    <3> DEFINE slave == m.slave
               measurement == Measurement
    <3> HIDE DEF name, values, shown, slave, measurement
    <3>3. measurement \in Seq(A) /\ slave \in Int
      BY <1>2 DEF measurement, slave
    <3>4. LineReadBack(measurement, port, slave, name, v)
      BY <1>2, <2>5, <3>2, <3>3, LineIsReadBack
    <3>5. Fields(Text(v)) = Meant(Measurement, port, m.slave, name, v)
      BY <3>4 DEF LineReadBack, measurement, slave
    <3> QED
      BY <2>4, <3>5
  <2> DEFINE Wanted(v) == Meant(Measurement, port, m.slave, Sections[i].name, v)
             Found(v) == Fields(Text(v))
  <2>8. \A v \in shown : Found(v) = Wanted(v)
    BY <2>7
  <2>9. h.stored = {Found(v) : v \in shown}
    BY <1>4
  <2>10. {Meant(Measurement, port, m.slave, s.name, v) : s \in mine, v \in shown}
           = {Wanted(v) : v \in shown}
    <3> HIDE DEF shown, mine
    <3> QED
      BY <2>6
  <2>11. h.stored = {Wanted(v) : v \in shown}
    <3> HIDE DEF shown, Found, Wanted
    <3> QED
      BY <2>8, <2>9
  <2>12. {v \in h.values : v.name # <<>>} = shown
    BY <1>1
  <2> HIDE DEF Wanted, shown
  <2> QED
    BY <2>10, <2>11, <2>12
<1> QED
  BY <1>6, <1>7

LEMMA IInvStored ==
  ASSUME NEW A, Texts(A), NumbersArePlain, UniqueSections
  PROVE  IInv => StoredAsAnswered
<1> SUFFICES ASSUME IInv, heard # Silence
             PROVE  heard.stored =
                      {Meant(Measurement, heard.port, heard.message.slave, s.name, v) :
                         s \in {s \in ToSet(Sections) : s.address = heard.message.slave},
                         v \in {v \in heard.values : v.name # <<>>}}
  BY DEF StoredAsAnswered
<1>1. PICK m \in Messages : (\E port \in Ports : Recorded(heard, port, m)) \/ Ignored(heard, m)
  BY FrameCases
<1>2. CASE Ignored(heard, m)
  <2>1. heard.stored = {} /\ {v \in heard.values : v.name # <<>>} = {}
    BY <1>2 DEF Ignored
  <2> QED
    BY <2>1
<1>3. ASSUME NEW port \in Ports, Recorded(heard, port, m)
      PROVE  heard.stored =
               {Meant(Measurement, heard.port, heard.message.slave, s.name, v) :
                  s \in {s \in ToSet(Sections) : s.address = heard.message.slave},
                  v \in {v \in heard.values : v.name # <<>>}}
  <2> DEFINE B == AllSymbols(A)
  <2>1. Symbols(B) /\ Texts(B)
    BY TextsOfAll
  <2> HIDE DEF B
  <2>2. Sound(m)
    BY MessagesAreSound
  <2>3. m.slave \in Int
    <3>1. m.bytes \in Seq(Byte) /\ Len(m.bytes) >= 4 /\ m.bytes[1] = m.slave
      BY <2>2 DEF Sound
    <3>2. m.bytes[1] \in Byte
      BY <3>1
    <3> QED
      BY <3>1, <3>2, Bases
  <2>4. heard.message = m /\ heard.port = port
    BY <1>3 DEF Recorded
  <2>5. heard.stored = {Meant(Measurement, port, m.slave, s.name, v) :
                          s \in {s \in ToSet(Sections) : s.address = m.slave},
                          v \in {v \in heard.values : v.name # <<>>}}
    BY <1>3, <2>1, <2>2, <2>3, StoredLines
  <2> QED
    BY <2>4, <2>5
<1> QED
  BY <1>1, <1>2, <1>3

\* storage.go:121-178: the database reads back the names of the configuration
\* and the numbers that were decoded, whatever symbols the names are made of, if
\* a slave has one section and numbers are written without the four characters
\* that mean something in a line.
THEOREM StoredTexts ==
  ASSUME NEW A, Texts(A), NumbersArePlain, UniqueSections
  PROVE  Spec => []StoredAsAnswered
<1>1. IInv => StoredAsAnswered
  BY IInvStored
<1> QED
  BY <1>1, Invariance, PTL
===============================================================================
