------------------------- MODULE SerialFramingProofs -------------------------
(***************************************************************************)
(* Theorems about SerialFraming, for every set of messages, every length   *)
(* of the buffer and every exclusive or of bytes that undoes itself on the *)
(* escaped ones.  What the two folds of the sender compute is found by     *)
(* induction first; everything about the receiver rests on that.           *)
(***************************************************************************)
EXTENDS SerialFraming, WellFoundedInduction, SequenceTheorems, TLAPS

-----------------------------------------------------------------------------
(* The bytes of a frame                                                    *)

\* The induction over the natural numbers, for a set in place of a predicate.
LEMMA Induction ==
  ASSUME NEW S, 0 \in S, \A n \in Nat : n \in S => n + 1 \in S
  PROVE  Nat \subseteq S
<1> DEFINE Less == OpToRel(<, Nat)
           Out == Nat \ S
<1>1. IsWellFoundedOn(Less, Nat)
  BY NatLessThanWellFounded
<1>2. \A x, y \in Nat : y < x => <<y, x>> \in Less
  BY DEF OpToRel
<1> HIDE DEF Less
<1> SUFFICES ASSUME Out # {} PROVE FALSE
  OBVIOUS
<1>3. PICK x \in Out : \A y \in Out : ~ (<<y, x>> \in Less)
  BY <1>1, WFMin
<1>4. x # 0 /\ x - 1 \in Nat /\ x - 1 < x
  BY <1>3
<1>5. x - 1 \in S
  BY <1>2, <1>3, <1>4
<1> QED
  BY <1>3, <1>4, <1>5

\* The same up to a number.
LEMMA InductionUpTo ==
  ASSUME NEW n \in Nat, NEW S, 0 \in S, \A m \in 0 .. n - 1 : m \in S => m + 1 \in S
  PROVE  \A m \in 0 .. n : m \in S
<1> DEFINE T == {m \in Nat : m <= n => m \in S}
<1>1. 0 \in T
  OBVIOUS
<1>2. ASSUME NEW m \in Nat, m \in T PROVE m + 1 \in T
  BY <1>2
<1> HIDE DEF T
<1>3. Nat \subseteq T
  BY <1>1, <1>2, Induction
<1> QED
  BY <1>3 DEF T

\* The largest number of a set that reaches up to n.
LEMMA MaxIsTop ==
  ASSUME NEW n \in Nat, NEW D \in SUBSET (1 .. n), n \in D
  PROVE  Max(D) = n
<1>1. \A x \in D : (\A y \in D : x >= y) => x = n
  OBVIOUS
<1>2. \A y \in D : n >= y
  OBVIOUS
<1> QED
  BY <1>1, <1>2 DEF Max

\* The fold of CalculateCRC over a part D of the bytes of s.
XorStep(g, D, s) == IF D = {} THEN 0 ELSE XorByte(g[D \ {Max(D)}], s[Max(D)])

IsXorFold(g, m, s) == g = [D \in SUBSET (1 .. m) |-> XorStep(g, D, s)]

\* A function that satisfies the equation of the fold for m bytes, and what it yields with one more.
LEMMA XorExtends ==
  ASSUME NEW s, NEW m \in Nat, NEW g, IsXorFold(g, m, s)
  PROVE  \E h : IsXorFold(h, m + 1, s)
<1> DEFINE h == [D \in SUBSET (1 .. m + 1) |->
                   IF m + 1 \in D THEN XorByte(g[D \ {m + 1}], s[m + 1]) ELSE g[D]]
<1>1. ASSUME NEW D \in SUBSET (1 .. m + 1) PROVE h[D] = XorStep(h, D, s)
  <2>1. CASE m + 1 \in D
    <3>1. Max(D) = m + 1
      BY <2>1, MaxIsTop
    <3>2. D \ {m + 1} \in SUBSET (1 .. m + 1) /\ m + 1 \notin D \ {m + 1}
      OBVIOUS
    <3>3. h[D \ {m + 1}] = g[D \ {m + 1}]
      BY <3>2
    <3> QED
      BY <2>1, <3>1, <3>3 DEF XorStep
  <2>2. CASE m + 1 \notin D
    <3>1. D \in SUBSET (1 .. m) /\ h[D] = g[D]
      BY <2>2
    <3>2. g[D] = XorStep(g, D, s)
      BY <3>1 DEF IsXorFold
    <3>3. \A x : h[D \ {x}] = g[D \ {x}]
      BY <2>2
    <3> QED
      BY <3>1, <3>2, <3>3 DEF XorStep
  <2> QED
    BY <2>1, <2>2
<1>2. h = [D \in SUBSET (1 .. m + 1) |-> XorStep(h, D, s)]
  BY <1>1
<1> HIDE DEF h
<1> QED
  BY <1>2 DEF IsXorFold

\* There is a function that satisfies the equation of the fold.
LEMMA XorExists ==
  ASSUME NEW s, NEW n \in Nat
  PROVE  \E g : IsXorFold(g, n, s)
<1> DEFINE S == {m \in 0 .. n : \E g : IsXorFold(g, m, s)}
<1>1. \E g : IsXorFold(g, 0, s)
  <2> DEFINE g == [D \in SUBSET (1 .. 0) |-> 0]
  <2>1. \A D \in SUBSET (1 .. 0) : XorStep(g, D, s) = 0
    <3>1. \A D \in SUBSET (1 .. 0) : D = {}
      OBVIOUS
    <3> QED
      BY <3>1 DEF XorStep
  <2>2. g = [D \in SUBSET (1 .. 0) |-> XorStep(g, D, s)]
    BY <2>1
  <2> HIDE DEF g
  <2> QED
    BY <2>2 DEF IsXorFold
<1>2. 0 \in S
  BY <1>1
<1>3. \A m \in 0 .. n - 1 : m \in S => m + 1 \in S
  BY XorExtends
<1> HIDE DEF S
<1>4. n \in S
  BY <1>2, <1>3, InductionUpTo
<1> QED
  BY <1>4 DEF S

LEMMA XorOfBytes == \A a, b \in Byte : XorByte(a, b) \in Byte
BY XorAssumption

\* What such a function yields is a byte.
LEMMA XorFoldIsByte ==
  ASSUME NEW s \in Seq(Byte), NEW n \in Nat, n <= Len(s), NEW g, IsXorFold(g, n, s)
  PROVE  g[1 .. n] \in Byte
<1> DEFINE S == {m \in 0 .. n : \A D \in SUBSET (1 .. m) : g[D] \in Byte}
<1>1. 0 \in S
  <2>1. \A D \in SUBSET (1 .. 0) : D = {} /\ D \in SUBSET (1 .. n)
    OBVIOUS
  <2>2. g[{}] = XorStep(g, {}, s)
    BY DEF IsXorFold
  <2>3. g[{}] = 0 /\ 0 \in Byte
    BY <2>2 DEF XorStep, Byte
  <2>4. \A D \in SUBSET (1 .. 0) : g[D] \in Byte
    BY <2>1, <2>3
  <2> QED
    BY <2>4
<1>2. ASSUME NEW m \in 0 .. n - 1, m \in S PROVE m + 1 \in S
  <2> SUFFICES ASSUME NEW D \in SUBSET (1 .. m + 1) PROVE g[D] \in Byte
    OBVIOUS
  <2>1. CASE m + 1 \in D
    <3>1. Max(D) = m + 1
      BY <2>1, MaxIsTop
    <3>2. g[D] = XorStep(g, D, s)
      BY DEF IsXorFold
    <3>3. g[D] = XorByte(g[D \ {m + 1}], s[m + 1])
      BY <2>1, <3>1, <3>2 DEF XorStep
    <3>4. g[D \ {m + 1}] \in Byte
      BY <1>2
    <3>5. s[m + 1] \in Byte
      OBVIOUS
    <3> QED
      BY <3>3, <3>4, <3>5, XorOfBytes
  <2>2. CASE m + 1 \notin D
    BY <1>2, <2>2
  <2> QED
    BY <2>1, <2>2
<1> HIDE DEF S
<1>3. \A m \in 0 .. n - 1 : m \in S => m + 1 \in S
  BY <1>2
<1>4. \A m \in 0 .. n : m \in S
  BY <1>1, <1>3, InductionUpTo
<1>5. n \in 0 .. n
  OBVIOUS
<1> QED
  BY <1>4, <1>5 DEF S

\* The checksum of bytes is a byte.
LEMMA XorIsByte ==
  ASSUME NEW s \in Seq(Byte)
  PROVE  XorAll(s) \in Byte
<1> DEFINE g == CHOOSE f : f = [D \in SUBSET DOMAIN s |-> XorStep(f, D, s)]
<1>1. XorAll(s) = g[DOMAIN s]
  BY DEF XorAll, FoldLeft, MapThenFoldSet, XorStep
<1>2. DOMAIN s = 1 .. Len(s) /\ Len(s) \in Nat
  OBVIOUS
<1>3. \E f : f = [D \in SUBSET DOMAIN s |-> XorStep(f, D, s)]
  <2>1. PICK f : IsXorFold(f, Len(s), s)
    BY <1>2, XorExists
  <2>2. f = [D \in SUBSET DOMAIN s |-> XorStep(f, D, s)]
    BY <1>2, <2>1 DEF IsXorFold
  <2> QED
    BY <2>2
<1>4. g = [D \in SUBSET DOMAIN s |-> XorStep(g, D, s)]
  BY <1>3
<1> HIDE DEF g
<1>5. IsXorFold(g, Len(s), s)
  BY <1>2, <1>4 DEF IsXorFold
<1> QED
  BY <1>1, <1>2, <1>5, XorFoldIsByte

LEMMA XorOfSpecials ==
  \A b \in 0 .. 15 : XorByte(b, 16) \in 16 .. 31 /\ XorByte(XorByte(b, 16), 16) = b
BY XorAssumption

\* What iSL_TxByte makes of a byte: no special character but the escape.
LEMMA TxByteMakes ==
  ASSUME NEW b \in Byte
  PROVE  /\ b < 16 => /\ TxByte(b) = <<SL_ESC_CHAR, XorByte(b, 16)>>
                      /\ XorByte(b, 16) \in 16 .. 31 /\ XorByte(XorByte(b, 16), 16) = b
         /\ b >= 16 => TxByte(b) = <<b>>
         /\ TxByte(b) \in Seq(Byte)
<1>1. CASE b < 16
  <2>1. b \in 0 .. 15
    BY <1>1 DEF Byte
  <2>2. XorByte(b, 16) \in 16 .. 31 /\ XorByte(XorByte(b, 16), 16) = b
    BY <2>1, XorOfSpecials
  <2> QED
    BY <1>1, <2>2 DEF TxByte, SL_ESC_CHAR, Byte
<1>2. CASE b >= 16
  <2>1. ~ (b < 16)
    BY <1>2 DEF Byte
  <2>2. TxByte(b) = <<b>>
    BY <2>1 DEF TxByte
  <2>3. <<b>> \in Seq(Byte)
    OBVIOUS
  <2> QED
    BY <2>1, <2>2, <2>3
<1> QED
  BY <1>1, <1>2 DEF Byte

\* r yields for every k what is sent of the bytes of c behind the k-th.
EscapedFrom(r, first, c) ==
    /\ r \in [first .. Len(c) -> Seq(Byte)]
    /\ r[Len(c)] = <<>>
    /\ \A k \in first .. Len(c) - 1 : r[k] = TxByte(c[k + 1]) \o r[k + 1]

LEMMA EscapedExtends ==
  ASSUME NEW c \in Seq(Byte), NEW k \in 0 .. Len(c) - 1, NEW r, EscapedFrom(r, k + 1, c)
  PROVE  \E q : EscapedFrom(q, k, c)
<1> DEFINE q == [i \in k .. Len(c) |-> IF i = k THEN TxByte(c[k + 1]) \o r[k + 1] ELSE r[i]]
<1>1. c[k + 1] \in Byte /\ Len(c) \in Nat
  OBVIOUS
<1>2. r \in [k + 1 .. Len(c) -> Seq(Byte)] /\ r[Len(c)] = <<>>
  BY DEF EscapedFrom
<1>3. TxByte(c[k + 1]) \o r[k + 1] \in Seq(Byte)
  <2>1. TxByte(c[k + 1]) \in Seq(Byte)
    BY <1>1, TxByteMakes
  <2>2. r[k + 1] \in Seq(Byte)
    BY <1>1, <1>2
  <2> QED
    BY <2>1, <2>2
<1>4. q \in [k .. Len(c) -> Seq(Byte)]
  BY <1>2, <1>3
<1>5. q[Len(c)] = <<>>
  BY <1>1, <1>2
<1> DEFINE first == TxByte(c[k + 1]) \o r[k + 1]
<1>7. q[k] = first
  <2>1. k \in k .. Len(c)
    BY <1>1
  <2> QED
    BY <2>1, Zenon
<1>6. ASSUME NEW i \in k .. Len(c) - 1 PROVE q[i] = TxByte(c[i + 1]) \o q[i + 1]
  <2>1. q[i + 1] = r[i + 1]
    BY <1>1
  <2>2. CASE i = k
    BY <1>7, <2>1, <2>2
  <2>3. CASE i # k
    <3>1. q[i] = r[i] /\ i \in k + 1 .. Len(c) - 1
      BY <1>1, <2>3
    <3>2. r[i] = TxByte(c[i + 1]) \o r[i + 1]
      BY <3>1 DEF EscapedFrom
    <3> QED
      BY <2>1, <3>1, <3>2
  <2> QED
    BY <2>2, <2>3
<1> HIDE DEF q
<1> QED
  BY <1>4, <1>5, <1>6 DEF EscapedFrom

LEMMA EscapedExists ==
  ASSUME NEW c \in Seq(Byte)
  PROVE  \E r : EscapedFrom(r, 0, c)
<1> DEFINE n == Len(c)
           S == {j \in 0 .. n : \E r : EscapedFrom(r, n - j, c)}
<1>1. n \in Nat
  OBVIOUS
<1>2. 0 \in S
  <2> DEFINE r == [i \in n .. n |-> <<>>]
  <2>1. r \in [n .. n -> Seq(Byte)] /\ r[n] = <<>> /\ n .. n - 1 = {}
    BY <1>1
  <2>2. n - 0 = n
    BY <1>1
  <2> HIDE DEF r
  <2>3. EscapedFrom(r, n, c)
    BY <2>1 DEF EscapedFrom
  <2> QED
    BY <1>1, <2>2, <2>3
<1>3. ASSUME NEW j \in 0 .. n - 1, j \in S PROVE j + 1 \in S
  <2>1. PICK r : EscapedFrom(r, n - j, c)
    BY <1>3
  <2>2. n - (j + 1) \in 0 .. n - 1 /\ (n - (j + 1)) + 1 = n - j
    BY <1>1
  <2>3. \E q : EscapedFrom(q, n - (j + 1), c)
    BY <2>1, <2>2, EscapedExtends
  <2> QED
    BY <1>1, <2>3
<1> HIDE DEF S
<1>4. \A j \in 0 .. n - 1 : j \in S => j + 1 \in S
  BY <1>3
<1>5. \A j \in 0 .. n : j \in S
  BY <1>1, <1>2, <1>4, InductionUpTo
<1>6. n \in S /\ n - n = 0
  BY <1>1, <1>5
<1> QED
  BY <1>6 DEF S

\* The prefixes of FlattenSeq(E) for the first n sequences of E.
IsFlat(f, n, E) == f = [i \in 1 .. n |-> IF i = 1 THEN E[i] ELSE f[i - 1] \o E[i]]

LEMMA FlatExtends ==
  ASSUME NEW E, NEW n \in Nat, NEW f, IsFlat(f, n, E)
  PROVE  \E g : IsFlat(g, n + 1, E)
<1> DEFINE g == [i \in 1 .. n + 1 |->
                   IF i <= n THEN f[i] ELSE IF i = 1 THEN E[i] ELSE f[i - 1] \o E[i]]
           G(i) == IF i = 1 THEN E[i] ELSE g[i - 1] \o E[i]
<1>1. ASSUME NEW i \in 1 .. n + 1 PROVE g[i] = G(i)
  <2>1. i = 1 \/ i - 1 \in 1 .. n
    OBVIOUS
  <2>2. i # 1 => g[i - 1] = f[i - 1]
    BY <2>1
  <2>3. CASE i <= n
    <3>1. g[i] = f[i]
      BY <2>3
    <3>2. i \in 1 .. n
      BY <2>3
    <3>3. f[i] = IF i = 1 THEN E[i] ELSE f[i - 1] \o E[i]
      BY <3>2 DEF IsFlat
    <3> HIDE DEF g
    <3> QED
      BY <2>2, <3>1, <3>3
  <2>4. CASE i > n
    <3>1. g[i] = IF i = 1 THEN E[i] ELSE f[i - 1] \o E[i]
      BY <2>4
    <3> HIDE DEF g
    <3> QED
      BY <2>2, <3>1
  <2> QED
    BY <2>3, <2>4
<1>2. g = [i \in 1 .. n + 1 |-> G(i)]
  BY <1>1
<1> HIDE DEF g
<1> QED
  BY <1>2 DEF IsFlat

LEMMA FlatExists ==
  ASSUME NEW E, NEW n \in Nat
  PROVE  \E f : IsFlat(f, n, E)
<1> DEFINE S == {m \in 0 .. n : \E f : IsFlat(f, m, E)}
<1>1. \E f : IsFlat(f, 0, E)
  <2> DEFINE f == [i \in 1 .. 0 |-> E[i]]
  <2>1. f = [i \in 1 .. 0 |-> IF i = 1 THEN E[i] ELSE f[i - 1] \o E[i]]
    OBVIOUS
  <2> HIDE DEF f
  <2> QED
    BY <2>1 DEF IsFlat
<1>2. 0 \in S
  BY <1>1
<1>3. \A m \in 0 .. n - 1 : m \in S => m + 1 \in S
  BY FlatExtends
<1> HIDE DEF S
<1>4. n \in S
  BY <1>2, <1>3, InductionUpTo
<1> QED
  BY <1>4 DEF S

LEMMA AssociativeBytes == \A s, t, u \in Seq(Byte) : (s \o t) \o u = s \o (t \o u)
BY ConcatAssociative

\* A prefix of the escaped bytes and what is sent behind it are together all of them.
LEMMA PrefixAndRest ==
  ASSUME NEW c \in Seq(Byte), c # <<>>, NEW r, EscapedFrom(r, 0, c),
         NEW f, IsFlat(f, Len(c), [i \in DOMAIN c |-> TxByte(c[i])])
  PROVE  f[Len(c)] = r[0]
<1> DEFINE n == Len(c)
           E == [i \in DOMAIN c |-> TxByte(c[i])]
           S == {k \in 0 .. n - 1 : f[k + 1] \in Seq(Byte) /\ f[k + 1] \o r[k + 1] = r[0]}
<1>1. n \in Nat /\ n >= 1 /\ DOMAIN c = 1 .. n
  OBVIOUS
<1>2. ASSUME NEW k \in 0 .. n - 1
      PROVE  /\ E[k + 1] = TxByte(c[k + 1]) /\ E[k + 1] \in Seq(Byte)
             /\ r[k + 1] \in Seq(Byte) /\ r[k] = E[k + 1] \o r[k + 1]
  <2>1. k + 1 \in 1 .. n /\ c[k + 1] \in Byte
    BY <1>1
  <2>2. E[k + 1] = TxByte(c[k + 1])
    BY <1>1, <2>1
  <2>3. r[k] = TxByte(c[k + 1]) \o r[k + 1]
    BY DEF EscapedFrom
  <2>4. r[k + 1] \in Seq(Byte)
    <3>1. r \in [0 .. n -> Seq(Byte)] /\ k + 1 \in 0 .. n
      BY <1>1 DEF EscapedFrom
    <3> QED
      BY <3>1
  <2> HIDE DEF E
  <2> QED
    BY <2>1, <2>2, <2>3, <2>4, TxByteMakes
<1> HIDE DEF E
<1>3. ASSUME NEW i \in 1 .. n PROVE f[i] = IF i = 1 THEN E[i] ELSE f[i - 1] \o E[i]
  BY DEF IsFlat, E
<1>4. 0 \in S
  <2>1. 0 \in 0 .. n - 1 /\ f[0 + 1] = E[0 + 1]
    BY <1>1, <1>3
  <2> QED
    BY <1>2, <2>1
<1>5. ASSUME NEW k \in 0 .. n - 2, k \in S PROVE k + 1 \in S
  <2>1. k + 1 \in 0 .. n - 1 /\ k + 2 \in 1 .. n /\ k + 2 # 1 /\ (k + 2) - 1 = k + 1 /\ (k + 1) + 1 = k + 2
    BY <1>1
  <2>2. f[k + 2] = f[k + 1] \o E[k + 2]
    BY <1>3, <2>1
  <2>3. E[k + 2] \in Seq(Byte) /\ r[k + 2] \in Seq(Byte) /\ r[k + 1] = E[k + 2] \o r[k + 2]
    BY <1>2, <2>1
  <2>4. f[k + 1] \in Seq(Byte) /\ f[k + 1] \o r[k + 1] = r[0]
    BY <1>5
  <2>5. f[k + 2] \in Seq(Byte)
    BY <2>2, <2>3, <2>4
  <2>6. (f[k + 1] \o E[k + 2]) \o r[k + 2] = f[k + 1] \o (E[k + 2] \o r[k + 2])
    BY <2>3, <2>4, AssociativeBytes, Zenon
  <2>7. f[k + 2] \o r[k + 2] = r[0]
    BY <2>2, <2>3, <2>4, <2>6
  <2> QED
    BY <2>1, <2>5, <2>7
<1>6. S \subseteq 0 .. n - 1
  OBVIOUS
<1> HIDE DEF S
<1>7. n - 1 \in S
  <2>1. n - 1 \in Nat /\ (n - 1) - 1 = n - 2
    BY <1>1
  <2>2. \A m \in 0 .. (n - 1) - 1 : m \in S => m + 1 \in S
    BY <1>5, <2>1
  <2>3. \A m \in 0 .. n - 1 : m \in S
    BY <1>4, <2>1, <2>2, InductionUpTo
  <2> QED
    BY <2>1, <2>3
<1>8. f[n] \in Seq(Byte) /\ f[n] \o r[n] = r[0]
  <2>1. (n - 1) + 1 = n
    BY <1>1
  <2> QED
    BY <1>7, <2>1 DEF S
<1>9. r[n] = <<>>
  BY DEF EscapedFrom
<1> QED
  BY <1>8, <1>9, ConcatEmptySeq

\* What eSL_WriteMessage sends between the start and the end.
LEMMA FlattenIsEscaped ==
  ASSUME NEW c \in Seq(Byte), c # <<>>, NEW r, EscapedFrom(r, 0, c)
  PROVE  FlattenSeq([i \in DOMAIN c |-> TxByte(c[i])]) = r[0]
<1> DEFINE E == [i \in DOMAIN c |-> TxByte(c[i])]
           n == Len(c)
           f == CHOOSE g : g = [i \in 1 .. Len(E) |-> IF i = 1 THEN E[i] ELSE g[i - 1] \o E[i]]
<1>1. n \in Nat /\ n > 0 /\ DOMAIN c = 1 .. n /\ Len(E) = n
  <2>1. n \in Nat /\ n > 0 /\ DOMAIN c = 1 .. n
    OBVIOUS
  <2>2. E = [i \in 1 .. n |-> TxByte(c[i])]
    BY <2>1
  <2>3. Len(E) = n
    BY <2>1, <2>2
  <2> QED
    BY <2>1, <2>3
<1> HIDE DEF E
<1>2. FlattenSeq(E) = f[Len(E)]
  BY <1>1 DEF FlattenSeq
<1>3. \E g : g = [i \in 1 .. Len(E) |-> IF i = 1 THEN E[i] ELSE g[i - 1] \o E[i]]
  <2>1. PICK g : IsFlat(g, Len(E), E)
    BY <1>1, FlatExists
  <2> QED
    BY <2>1 DEF IsFlat
<1>4. f = [i \in 1 .. Len(E) |-> IF i = 1 THEN E[i] ELSE f[i - 1] \o E[i]]
  BY <1>3
<1> HIDE DEF f
<1>5. IsFlat(f, n, E)
  BY <1>1, <1>4 DEF IsFlat
<1>6. f[n] = r[0]
  BY <1>5, PrefixAndRest DEF E
<1> QED
  BY <1>1, <1>2, <1>6 DEF E

-----------------------------------------------------------------------------
(* The frame of a message                                                  *)

\* The bytes of the frame of m before they are escaped.
Content(m) ==
    <<MSB(m.type), LSB(m.type), MSB(Len(m.data)), LSB(Len(m.data)),
      CalculateCRC(m.type, Len(m.data), m.data)>> \o m.data

\* What is on the line behind the k-th of them.
Rest(m, k) == (CHOOSE r : EscapedFrom(r, 0, Content(m)))[k] \o <<SL_END_CHAR>>

LEMMA Halves ==
  ASSUME NEW w \in Word
  PROVE  MSB(w) \in Byte /\ LSB(w) \in Byte /\ 256 * MSB(w) + LSB(w) = w
BY DEF MSB, LSB, Byte, Word

LEMMA MessageType ==
  ASSUME NEW m \in Messages
  PROVE  /\ m = [type |-> m.type, data |-> m.data]
         /\ m.type \in Word /\ m.data \in Seq(Byte) /\ Len(m.data) \in Word
BY FramingAssumption

LEMMA CRCIsByte ==
  ASSUME NEW type \in Word, NEW length \in Word, NEW data, SubSeq(data, 1, length) \in Seq(Byte)
  PROVE  CalculateCRC(type, length, data) \in Byte
<1> DEFINE head == <<MSB(type), LSB(type), MSB(length), LSB(length)>>
           body == SubSeq(data, 1, length)
<1>1. head \in Seq(Byte)
  BY Halves
<1>2. CalculateCRC(type, length, data) = XorAll(head \o body)
  BY DEF CalculateCRC
<1> HIDE DEF head, body
<1>3. head \o body \in Seq(Byte)
  BY <1>1 DEF body
<1> QED
  BY <1>2, <1>3, XorIsByte

LEMMA ContentIs ==
  ASSUME NEW m \in Messages
  PROVE  /\ Content(m) \in Seq(Byte) /\ Len(Content(m)) = 5 + Len(m.data)
         /\ Content(m)[1] = MSB(m.type) /\ Content(m)[2] = LSB(m.type)
         /\ Content(m)[3] = MSB(Len(m.data)) /\ Content(m)[4] = LSB(Len(m.data))
         /\ Content(m)[5] = CalculateCRC(m.type, Len(m.data), m.data)
         /\ \A i \in 1 .. Len(m.data) : Content(m)[5 + i] = m.data[i]
<1> DEFINE n == Len(m.data)
           crc == CalculateCRC(m.type, n, m.data)
           head == <<MSB(m.type), LSB(m.type), MSB(n), LSB(n), crc>>
<1>1. m.type \in Word /\ m.data \in Seq(Byte) /\ n \in Word /\ n \in Nat
  BY MessageType
<1>2. crc \in Byte
  <2>1. SubSeq(m.data, 1, n) = m.data
    BY <1>1, SubSeqFull
  <2> QED
    BY <1>1, <2>1, CRCIsByte
<1> HIDE DEF crc
<1>3. head \in Seq(Byte) /\ Len(head) = 5
  BY <1>1, <1>2, Halves
<1>4. /\ head[1] = MSB(m.type) /\ head[2] = LSB(m.type)
      /\ head[3] = MSB(n) /\ head[4] = LSB(n) /\ head[5] = crc
  OBVIOUS
<1>5. Content(m) = head \o m.data
  BY DEF Content, crc
<1> HIDE DEF head
<1>6. /\ head \o m.data \in Seq(Byte) /\ Len(head \o m.data) = 5 + n
      /\ \A i \in 1 .. 5 + n : (head \o m.data)[i] = IF i <= 5 THEN head[i] ELSE m.data[i - 5]
  <2>1. \A s, t \in Seq(Byte) :
           /\ s \o t \in Seq(Byte) /\ Len(s \o t) = Len(s) + Len(t)
           /\ \A i \in 1 .. Len(s) + Len(t) : (s \o t)[i] = IF i <= Len(s) THEN s[i] ELSE t[i - Len(s)]
    BY ConcatProperties
  <2>2. /\ head \o m.data \in Seq(Byte) /\ Len(head \o m.data) = Len(head) + Len(m.data)
        /\ \A i \in 1 .. Len(head) + Len(m.data) :
              (head \o m.data)[i] = IF i <= Len(head) THEN head[i] ELSE m.data[i - Len(head)]
    BY <1>1, <1>3, <2>1, Zenon
  <2> QED
    BY <1>3, <2>2, Zenon
<1>7. \A i \in 1 .. 5 : i \in 1 .. 5 + n
  BY <1>1
<1>8. \A i \in 1 .. 5 : Content(m)[i] = head[i]
  BY <1>5, <1>6, <1>7
<1>9. ASSUME NEW i \in 1 .. n PROVE Content(m)[5 + i] = m.data[i]
  <2>1. 5 + i \in 1 .. 5 + n /\ ~ (5 + i <= 5) /\ (5 + i) - 5 = i
    BY <1>1
  <2> QED
    BY <1>5, <1>6, <2>1
<1> QED
  BY <1>4, <1>5, <1>6, <1>8, <1>9 DEF crc

\* Behind the k-th byte come the next one, escaped, and what is behind that; behind the
\* last the end.
LEMMA RestIs ==
  ASSUME NEW m \in Messages
  PROVE  /\ \A k \in 0 .. Len(Content(m)) : Rest(m, k) \in Seq(Byte)
         /\ \A k \in 0 .. Len(Content(m)) - 1 : Rest(m, k) = TxByte(Content(m)[k + 1]) \o Rest(m, k + 1)
         /\ Rest(m, Len(Content(m))) = <<SL_END_CHAR>>
         /\ WriteMessage(m) = <<SL_START_CHAR>> \o Rest(m, 0)
<1> DEFINE c == Content(m)
           n == Len(c)
           r == CHOOSE q : EscapedFrom(q, 0, c)
           end == <<SL_END_CHAR>>
           start == <<SL_START_CHAR>>
           E == [i \in DOMAIN c |-> TxByte(c[i])]
<1>1. c \in Seq(Byte) /\ n \in Nat /\ n >= 5 /\ c # <<>>
  <2>1. Len(m.data) \in Nat
    BY MessageType
  <2> QED
    BY <2>1, ContentIs
<1>2. WriteMessage(m) = (start \o FlattenSeq(E)) \o end
  BY DEF WriteMessage, Content
<1>3. \A k : Rest(m, k) = r[k] \o end
  BY DEF Rest
<1> HIDE DEF c, E
<1>4. EscapedFrom(r, 0, c)
  BY <1>1, EscapedExists
<1> HIDE DEF r
<1>5. end \in Seq(Byte) /\ start \in Seq(Byte)
  BY DEF SL_END_CHAR, SL_START_CHAR, Byte
<1> HIDE DEF end, start
<1>6. /\ \A k \in 0 .. n : r[k] \in Seq(Byte)
      /\ r[n] = <<>>
      /\ \A k \in 0 .. n - 1 : r[k] = TxByte(c[k + 1]) \o r[k + 1]
  BY <1>4 DEF EscapedFrom
<1>7. \A k \in 0 .. n : r[k] \o end \in Seq(Byte)
  BY <1>5, <1>6
<1>8. ASSUME NEW k \in 0 .. n - 1 PROVE r[k] \o end = TxByte(c[k + 1]) \o (r[k + 1] \o end)
  <2>1. k + 1 \in 0 .. n /\ c[k + 1] \in Byte
    BY <1>1
  <2>2. TxByte(c[k + 1]) \in Seq(Byte) /\ r[k + 1] \in Seq(Byte)
    BY <1>6, <2>1, TxByteMakes
  <2>3. (TxByte(c[k + 1]) \o r[k + 1]) \o end = TxByte(c[k + 1]) \o (r[k + 1] \o end)
    BY <1>5, <2>2, AssociativeBytes, Zenon
  <2> QED
    BY <1>6, <2>3
<1>9. r[n] \o end = end
  BY <1>5, <1>6, ConcatEmptySeq
<1>10. (start \o r[0]) \o end = start \o (r[0] \o end)
  <2>1. r[0] \in Seq(Byte)
    BY <1>1, <1>6
  <2> QED
    BY <1>5, <2>1, AssociativeBytes, Zenon
<1>11. FlattenSeq(E) = r[0]
  BY <1>1, <1>4, FlattenIsEscaped DEF E
<1> QED
  BY <1>2, <1>3, <1>7, <1>8, <1>9, <1>10, <1>11 DEF c, end, start

-----------------------------------------------------------------------------
(* What the receiver does with a byte                                      *)

RxState == {"START", "TYPEMSB", "TYPELSB", "LENMSB", "LENLSB", "CRC", "DATA"}

LEMMA Following ==
  /\ Follow("TYPEMSB") = "TYPELSB" /\ Follow("TYPELSB") = "LENMSB"
  /\ Follow("LENMSB") = "LENLSB" /\ Follow("CRC") = "DATA"
<1> DEFINE S == <<"TYPEMSB", "TYPELSB", "LENMSB", "LENLSB", "CRC", "DATA">>
           Pos(s) == CHOOSE i \in 1 .. 5 : S[i] = s
<1>1. \A s : Follow(s) = S[1 + Pos(s)]
  BY DEF Follow, RxStates
<1>2. \A i \in 1 .. 5 : i = 1 \/ i = 2 \/ i = 3 \/ i = 4 \/ i = 5
  OBVIOUS
<1>3. S[1] = "TYPEMSB" /\ S[2] = "TYPELSB" /\ S[3] = "LENMSB" /\ S[4] = "LENLSB" /\ S[5] = "CRC" /\ S[6] = "DATA"
  OBVIOUS
<1> HIDE DEF S
<1>4. Pos("TYPEMSB") = 1 /\ Pos("TYPELSB") = 2 /\ Pos("LENMSB") = 3 /\ Pos("CRC") = 5
  BY <1>2, <1>3
<1> HIDE DEF Pos
<1> QED
  BY <1>1, <1>3, <1>4

\* RxData, one state of the automaton at a time.
LEMMA RxDataDoes ==
  ASSUME NEW d, RxData(d)
  PROVE  /\ eRxState = "START" => UNCHANGED <<eRxState, u8CRC, u16Bytes, u16Type, u16Length, au8Message>>
         /\ eRxState = "TYPEMSB" => /\ eRxState' = "TYPELSB" /\ u16Type' = 256 * d
                                    /\ UNCHANGED <<u16Length, au8Message, u8CRC, u16Bytes>>
         /\ eRxState = "TYPELSB" => /\ eRxState' = "LENMSB" /\ u16Type' = (u16Type + d) % 65536
                                    /\ UNCHANGED <<u16Length, au8Message, u8CRC, u16Bytes>>
         /\ eRxState = "LENMSB" => /\ eRxState' = "LENLSB" /\ u16Length' = 256 * d
                                   /\ UNCHANGED <<u16Type, au8Message, u8CRC, u16Bytes>>
         /\ eRxState = "LENLSB" => RxLength(d)
         /\ eRxState = "CRC" => /\ eRxState' = "DATA" /\ u8CRC' = d
                                /\ UNCHANGED <<u16Type, u16Length, au8Message, u16Bytes>>
         /\ eRxState = "DATA" => /\ UNCHANGED <<u16Type, u16Length, eRxState, u8CRC>>
                                 /\ u16Bytes < u16Length =>
                                      /\ au8Message' = [au8Message EXCEPT ![u16Bytes + 1] = d]
                                      /\ u16Bytes' = u16Bytes + 1
                                 /\ ~ (u16Bytes < u16Length) => UNCHANGED <<au8Message, u16Bytes>>
<1>1. CASE eRxState = "START"
  BY <1>1 DEF RxData, message
<1>2. CASE eRxState = "TYPEMSB"
  BY <1>2, Following DEF RxData
<1>3. CASE eRxState = "TYPELSB"
  BY <1>3, Following DEF RxData
<1>4. CASE eRxState = "LENMSB"
  BY <1>4, Following DEF RxData
<1>5. CASE eRxState = "LENLSB"
  <2>1. RxLength(d)
    BY <1>5 DEF RxData
  <2> QED
    BY <1>5, <2>1
<1>6. CASE eRxState = "CRC"
  BY <1>6, Following DEF RxData, message
<1>7. CASE eRxState = "DATA"
  BY <1>7 DEF RxData, message
<1> QED
  BY <1>1, <1>2, <1>3, <1>4, <1>5, <1>6, <1>7

\* RxByte, one kind of byte at a time.
LEMMA RxByteDoes ==
  ASSUME NEW b, RxByte(b)
  PROVE  /\ b = 1 => RxStart
         /\ b = 2 => RxEsc
         /\ b = 3 => RxEnd
         /\ b \notin {1, 2, 3} => /\ RxData(IF bInEsc THEN XorByte(b, 16) ELSE b)
                                  /\ bInEsc' = FALSE /\ UNCHANGED accepted
BY DEF RxByte, SL_START_CHAR, SL_ESC_CHAR, SL_END_CHAR

-----------------------------------------------------------------------------
(* Types                                                                   *)

RxTypeOK == /\ eRxState \in RxState /\ u8CRC \in Byte /\ u16Bytes \in Word /\ bInEsc \in BOOLEAN
            /\ u16Type \in Word /\ u16Length \in Word
            /\ au8Message \in [1 .. u16MaxLength -> Byte]

\* TypeOK, and that the frame is one of a message that was sent.
TInv == TypeOK /\ sent \in Messages \cup {NoMessage} /\ (intact => sent \in Messages)

LEMMA TypeParts ==
  TypeOK <=> /\ RxTypeOK /\ wire \in Seq(Byte) /\ intact \in BOOLEAN
             /\ stray \in Nat /\ faults \in 0 .. MaxFaults /\ kinds \subseteq Faults
BY DEF TypeOK, RxTypeOK, RxState

\* The numbers of sixteen bits, without their list.
LEMMA InWord ==
  ASSUME NEW x \in Int, 0 <= x, x <= 65535
  PROVE  x \in Word
<1> DEFINE top == 65535
<1>1. Word = 0 .. top
  BY DEF Word
<1>2. x <= top /\ top \in Int
  OBVIOUS
<1> HIDE DEF top
<1> QED
  BY <1>1, <1>2

LEMMA OfWord == \A x \in Word : x \in Int /\ 0 <= x /\ x <= 65535
BY DEF Word

LEMMA ModIsWord ==
  ASSUME NEW x \in Int
  PROVE  x % 65536 \in Word
<1> DEFINE modulus == 65536
<1>1. modulus > 0 /\ modulus \in Int /\ modulus - 1 = 65535
  OBVIOUS
<1> HIDE DEF modulus
<1>2. x % modulus \in Int /\ 0 <= x % modulus /\ x % modulus <= modulus - 1
  BY <1>1
<1>3. x % modulus \in Word
  BY <1>1, <1>2, InWord
<1> QED
  BY <1>3 DEF modulus

LEMMA ZeroIs == 0 \in Byte /\ 0 \in Word
<1>1. 0 \in Byte
  BY DEF Byte
<1> QED
  BY <1>1, InWord

LEMMA TopIs == 65535 \in Word
BY InWord

LEMMA NextIsWord ==
  ASSUME NEW x \in Word, NEW y \in Word, x < y
  PROVE  x + 1 \in Word
BY OfWord, InWord

LEMMA SumIsWord ==
  ASSUME NEW w \in Word, NEW d \in Byte
  PROVE  256 * d \in Word /\ (w + d) % 65536 \in Word
<1>1. d \in Int /\ 0 <= d /\ d <= 255
  BY DEF Byte
<1>2. w + d \in Int
  BY <1>1, OfWord
<1>3. 256 * d \in Int /\ 0 <= 256 * d /\ 256 * d <= 65535
  BY <1>1
<1> QED
  BY <1>2, <1>3, InWord, ModIsWord

LEMMA DataKeepsType ==
  ASSUME RxTypeOK, NEW d \in Byte, RxData(d), bInEsc' \in BOOLEAN
  PROVE  RxTypeOK'
<1>1. 256 * d \in Word /\ (u16Type + d) % 65536 \in Word /\ (u16Length + d) % 65536 \in Word
  <2>1. u16Type \in Word /\ u16Length \in Word
    BY DEF RxTypeOK
  <2> QED
    BY <2>1, SumIsWord
<1>2. CASE eRxState = "LENLSB"
  <2>1. RxLength(d)
    BY <1>2, RxDataDoes
  <2> QED
    BY <1>1, <2>1 DEF RxTypeOK, RxLength, RxState
<1>3. CASE eRxState = "DATA"
  <2>1. u16Bytes < u16Length => u16Bytes + 1 \in Word
    <3>1. u16Bytes \in Word /\ u16Length \in Word
      BY DEF RxTypeOK
    <3> QED
      BY <3>1, NextIsWord
  <2>2. [au8Message EXCEPT ![u16Bytes + 1] = d] \in [1 .. u16MaxLength -> Byte]
    BY DEF RxTypeOK
  <2> QED
    BY <1>3, <2>1, <2>2, RxDataDoes DEF RxTypeOK
<1>4. CASE eRxState \in {"START", "TYPEMSB", "TYPELSB"}
  BY <1>1, <1>4, RxDataDoes DEF RxTypeOK, RxState
<1>5. CASE eRxState \in {"LENMSB", "CRC"}
  BY <1>1, <1>5, RxDataDoes DEF RxTypeOK, RxState
<1> QED
  BY <1>2, <1>3, <1>4, <1>5 DEF RxTypeOK, RxState

LEMMA WipeKeepsType ==
  ASSUME RxTypeOK, WipedMessage
  PROVE  (u16Type \in Word /\ u16Length \in Word /\ au8Message \in [1 .. u16MaxLength -> Byte])'
BY DEF WipedMessage, Zeros, Word, Byte

LEMMA ByteKeepsType ==
  ASSUME RxTypeOK, NEW b \in Byte, RxByte(b)
  PROVE  RxTypeOK'
<1>1. CASE b = 1
  <2>1. RxStart
    BY <1>1, RxByteDoes
  <2>2. /\ u16Bytes' = 0 /\ bInEsc' = FALSE /\ eRxState' = "TYPEMSB"
        /\ UNCHANGED <<u8CRC, u16Type, u16Length, au8Message>>
    BY <2>1 DEF RxStart, message
  <2>3. eRxState' \in RxState /\ u16Bytes' \in Word
    BY <2>2, ZeroIs DEF RxState
  <2> QED
    BY <2>2, <2>3 DEF RxTypeOK
<1>2. CASE b = 2
  <2>1. RxEsc
    BY <1>2, RxByteDoes
  <2> QED
    BY <2>1 DEF RxEsc, message, RxTypeOK
<1>3. CASE b = 3
  <2>1. RxEnd
    BY <1>3, RxByteDoes
  <2>2. \/ UNCHANGED message
        \/ WipedMessage
    BY <2>1 DEF RxEnd
  <2>3. UNCHANGED <<u8CRC, u16Bytes, bInEsc>> /\ eRxState' \in {eRxState, "START"}
    BY <2>1 DEF RxEnd, statics
  <2> QED
    BY <2>2, <2>3, WipeKeepsType DEF RxTypeOK, RxState, message
<1>4. CASE b \notin {1, 2, 3}
  <2>1. RxData(IF bInEsc THEN XorByte(b, 16) ELSE b) /\ bInEsc' = FALSE
    BY <1>4, RxByteDoes
  <2>2. 16 \in Byte
    BY DEF Byte
  <2>3. XorByte(b, 16) \in Byte
    BY <2>2, XorOfBytes
  <2>4. PICK d \in Byte : RxData(d)
    BY <2>1, <2>3, Zenon
  <2> QED
    BY <2>1, <2>4, DataKeepsType
<1> QED
  BY <1>1, <1>2, <1>3, <1>4

LEMMA InitTInv == Init => TInv
<1> SUFFICES ASSUME Init PROVE TInv
  OBVIOUS
<1>1. Zeros \in [1 .. u16MaxLength -> Byte]
  BY DEF Zeros, Byte
<1>2. RxTypeOK
  <2>1. /\ eRxState = "START" /\ u8CRC = 0 /\ u16Bytes = 0 /\ bInEsc = FALSE
        /\ u16Type = 0 /\ au8Message = Zeros
    BY DEF Init
  <2>2. u8CRC \in Byte /\ u16Bytes \in Word /\ u16Type \in Word
    BY <2>1, ZeroIs
  <2>3. u16Length \in Word
    BY TopIs, SMT DEF Init
  <2>4. eRxState \in RxState
    BY <2>1 DEF RxState
  <2>5. bInEsc \in BOOLEAN
    BY <2>1
  <2>6. au8Message \in [1 .. u16MaxLength -> Byte]
    BY <1>1, <2>1, Zenon
  <2> QED
    BY <2>2, <2>3, <2>4, <2>5, <2>6 DEF RxTypeOK
<1>3. wire \in Seq(Byte) /\ intact = FALSE /\ stray \in Nat /\ faults \in 0 .. MaxFaults /\ kinds \subseteq Faults
  BY FramingAssumption DEF Init
<1>4. TypeOK
  BY <1>2, <1>3, TypeParts
<1> QED
  BY <1>3, <1>4 DEF TInv, Init

LEMMA FaultKeepsType ==
  ASSUME NEW f, Fault(f), faults \in 0 .. MaxFaults, kinds \subseteq Faults
  PROVE  faults' \in 0 .. MaxFaults /\ kinds' \subseteq Faults
<1>1. MaxFaults \in Nat
  BY FramingAssumption
<1> QED
  BY <1>1 DEF Fault

LEMMA NextTInv == TInv /\ [Next]_vars => TInv'
<1> SUFFICES ASSUME TInv, [Next]_vars PROVE TInv'
  OBVIOUS
<1>1. /\ RxTypeOK /\ wire \in Seq(Byte) /\ intact \in BOOLEAN
      /\ stray \in Nat /\ faults \in 0 .. MaxFaults /\ kinds \subseteq Faults
      /\ sent \in Messages \cup {NoMessage} /\ (intact => sent \in Messages)
  BY TypeParts DEF TInv
<1>2. SUFFICES /\ RxTypeOK' /\ wire' \in Seq(Byte) /\ intact' \in BOOLEAN
               /\ stray' \in Nat /\ faults' \in 0 .. MaxFaults /\ kinds' \subseteq Faults
               /\ sent' \in Messages \cup {NoMessage} /\ (intact' => sent' \in Messages)
  BY DEF TInv, TypeOK, RxTypeOK, RxState
<1>3. UNCHANGED <<statics, message>> => RxTypeOK'
  BY <1>1 DEF RxTypeOK, statics, message
<1>4. CASE UNCHANGED vars
  BY <1>1, <1>3, <1>4 DEF vars
<1>5. ASSUME NEW m \in Messages, Send(m) PROVE TInv'
  <2>1. WriteMessage(m) \in Seq(Byte)
    <3>1. WriteMessage(m) = <<SL_START_CHAR>> \o Rest(m, 0)
      BY RestIs
    <3>2. 0 \in 0 .. Len(Content(m))
      <4>1. Len(m.data) \in Nat
        BY MessageType
      <4> QED
        BY <4>1, ContentIs
    <3>3. Rest(m, 0) \in Seq(Byte) /\ <<SL_START_CHAR>> \in Seq(Byte)
      BY <3>2, RestIs DEF SL_START_CHAR, Byte
    <3> QED
      BY <3>1, <3>3
  <2>2. /\ wire' = WriteMessage(m) /\ intact' = TRUE /\ sent' = m
        /\ stray' = 0 /\ UNCHANGED <<statics, message, faults, kinds>>
    BY <1>5 DEF Send
  <2> QED
    BY <1>1, <1>3, <2>1, <2>2 DEF TInv, TypeOK, RxTypeOK, RxState
<1>6. CASE ReadByte
  <2>1. wire # <<>> /\ RxByte(Head(wire)) /\ wire' = Tail(wire) /\ UNCHANGED <<sent, intact, stray, faults, kinds>>
    BY <1>6 DEF ReadByte
  <2>2. Head(wire) \in Byte /\ wire' \in Seq(Byte)
    BY <1>1, <2>1, HeadTailProperties
  <2>3. RxTypeOK'
    BY <1>1, <2>1, <2>2, ByteKeepsType
  <2> QED
    BY <1>1, <2>1, <2>2, <2>3
<1>7. CASE LoseByte
  <2>1. /\ wire # <<>> /\ wire' = Tail(wire) /\ Fault("loss") /\ intact' = FALSE
        /\ UNCHANGED <<statics, message, sent, stray>>
    BY <1>7 DEF LoseByte
  <2>2. wire' \in Seq(Byte)
    BY <1>1, <2>1, HeadTailProperties
  <2> QED
    BY <1>1, <1>3, <2>1, <2>2, FaultKeepsType
<1>8. CASE NoiseByte
  <2>1. Fault("noise") /\ stray' = stray + 1 /\ UNCHANGED <<wire, sent, intact>>
    BY <1>8 DEF NoiseByte
  <2>2. PICK b \in Noise : RxByte(b)
    BY <1>8 DEF NoiseByte
  <2>3. b \in Byte
    BY FramingAssumption
  <2>4. RxTypeOK'
    BY <1>1, <2>2, <2>3, ByteKeepsType
  <2> QED
    BY <1>1, <2>1, <2>4, FaultKeepsType
<1>9. CASE Interrupt
  <2>1. /\ Fault("interrupt") /\ WipedMessage /\ UNCHANGED <<eRxState, u8CRC, u16Bytes, bInEsc, wire, sent, stray>>
        /\ intact' = (intact /\ wire \in {<<>>, WriteMessage(sent)})
    BY <1>9 DEF Interrupt, statics
  <2>2. RxTypeOK'
    BY <1>1, <2>1, WipeKeepsType DEF RxTypeOK
  <2> QED
    BY <1>1, <2>1, <2>2, FaultKeepsType
<1> QED
  BY <1>4, <1>5, <1>6, <1>7, <1>8, <1>9 DEF Next, TInv, TypeOK, RxTypeOK, RxState

\* Whatever is sent, lost, added and interrupted, what eSL_ReadMessage keeps between two bytes
\* and what comes over the line stays in its type: in particular u16Bytes does not wrap, because data
\* is only stored below a length of sixteen bits, and the escaped bytes and the checksum are bytes.
THEOREM FramingTypeCorrect == Spec => []TypeOK
<1>1. TInv => TypeOK
  BY DEF TInv
<1> QED
  BY <1>1, InitTInv, NextTInv, PTL DEF Spec

-----------------------------------------------------------------------------
(* The bounds of the buffer                                                *)

\* The length is checked before the first byte of data is awaited.
Measured == "interrupt" \notin kinds =>
              /\ u16Bytes <= u16MaxLength
              /\ eRxState \in {"CRC", "DATA"} => u16Length <= u16MaxLength

LEMMA RxNumbers ==
  ASSUME RxTypeOK
  PROVE  /\ u16Bytes \in Int /\ u16Length \in Int /\ u16Type \in Int /\ u16MaxLength \in Nat
         /\ 0 <= u16Bytes
BY OfWord, FramingAssumption DEF RxTypeOK

LEMMA DataIsMeasured ==
  ASSUME RxTypeOK, Measured, kinds \subseteq kinds', NEW d \in Byte, RxData(d)
  PROVE  Measured'
<1> DEFINE length == (u16Length + d) % 65536
<1>1. CASE eRxState = "LENLSB"
  <2>1. /\ u16Length' = length /\ UNCHANGED u16Bytes
        /\ eRxState' = IF length > u16MaxLength THEN "START" ELSE "CRC"
    BY <1>1, RxDataDoes DEF RxLength
  <2>2. length \in Int
    BY RxNumbers, SumIsWord, OfWord DEF RxTypeOK
  <2> HIDE DEF length
  <2> QED
    BY <2>1, <2>2, RxNumbers DEF Measured
<1>2. CASE eRxState = "DATA"
  <2>1. /\ UNCHANGED <<u16Length, eRxState>>
        /\ \/ u16Bytes < u16Length /\ u16Bytes' = u16Bytes + 1
           \/ UNCHANGED u16Bytes
    BY <1>2, RxDataDoes
  <2> QED
    BY <1>2, <2>1, RxNumbers DEF Measured
<1>3. CASE eRxState = "CRC"
  BY <1>3, RxDataDoes DEF Measured
<1>4. CASE eRxState \in {"START", "TYPEMSB", "TYPELSB", "LENMSB"}
  <2>1. UNCHANGED u16Bytes /\ eRxState' \notin {"CRC", "DATA"}
    BY <1>4, RxDataDoes
  <2> QED
    BY <2>1 DEF Measured
<1> QED
  BY <1>1, <1>2, <1>3, <1>4 DEF RxTypeOK, RxState

LEMMA ByteIsMeasured ==
  ASSUME RxTypeOK, Measured, kinds \subseteq kinds', NEW b \in Byte, RxByte(b)
  PROVE  Measured'
<1>1. CASE b = 1
  <2>1. u16Bytes' = 0 /\ eRxState' = "TYPEMSB"
    BY <1>1, RxByteDoes DEF RxStart
  <2> QED
    BY <2>1, RxNumbers DEF Measured
<1>2. CASE b = 2
  <2>1. UNCHANGED <<eRxState, u16Bytes, u16Length>>
    BY <1>2, RxByteDoes DEF RxEsc, message
  <2> QED
    BY <2>1 DEF Measured
<1>3. CASE b = 3
  <2>1. /\ UNCHANGED u16Bytes
        /\ eRxState' = "START" \/ UNCHANGED <<eRxState, u16Length>>
    BY <1>3, RxByteDoes DEF RxEnd, statics, message
  <2> QED
    BY <2>1 DEF Measured
<1>4. CASE b \notin {1, 2, 3}
  <2>1. RxData(IF bInEsc THEN XorByte(b, 16) ELSE b)
    BY <1>4, RxByteDoes
  <2>2. 16 \in Byte
    BY DEF Byte
  <2>3. XorByte(b, 16) \in Byte
    BY <2>2, XorOfBytes
  <2>4. PICK d \in Byte : RxData(d)
    BY <2>1, <2>3, Zenon
  <2> QED
    BY <2>4, DataIsMeasured
<1> QED
  BY <1>1, <1>2, <1>3, <1>4

LEMMA NextMeasured == TInv /\ Measured /\ [Next]_vars => Measured'
<1> SUFFICES ASSUME TInv, Measured, [Next]_vars PROVE Measured'
  OBVIOUS
<1>1. RxTypeOK /\ wire \in Seq(Byte)
  BY TypeParts DEF TInv
<1>2. ASSUME UNCHANGED <<eRxState, u16Bytes, u16Length>>, kinds \subseteq kinds' PROVE Measured'
  BY <1>2 DEF Measured
<1>3. CASE UNCHANGED vars
  BY <1>2, <1>3 DEF vars, statics, message
<1>4. ASSUME NEW m \in Messages, Send(m) PROVE Measured'
  BY <1>2, <1>4 DEF Send, statics, message
<1>5. CASE ReadByte
  <2>1. wire # <<>> /\ RxByte(Head(wire)) /\ UNCHANGED kinds
    BY <1>5 DEF ReadByte
  <2>2. Head(wire) \in Byte
    BY <1>1, <2>1, HeadTailProperties
  <2> QED
    BY <1>1, <2>1, <2>2, ByteIsMeasured
<1>6. CASE LoseByte
  BY <1>2, <1>6 DEF LoseByte, Fault, statics, message
<1>7. CASE NoiseByte
  <2>1. kinds \subseteq kinds'
    BY <1>7 DEF NoiseByte, Fault
  <2>2. PICK b \in Noise : RxByte(b)
    BY <1>7 DEF NoiseByte
  <2>3. b \in Byte
    BY FramingAssumption
  <2> QED
    BY <1>1, <2>1, <2>2, <2>3, ByteIsMeasured
<1>8. CASE Interrupt
  BY <1>8 DEF Interrupt, Fault, Measured
<1> QED
  BY <1>3, <1>4, <1>5, <1>6, <1>7, <1>8 DEF Next

\* While reads are not interrupted the data of a frame stays inside au8Message: for any length of the
\* buffer, whatever bytes come and whatever is lost of a length or of an escape.  eSL_ReadMessage
\* goes on to the data only with a length that fits, and nothing changes it after that.
THEOREM DataStaysInBounds == Spec => []DataInBounds
<1>1. Init => Measured
  BY FramingAssumption DEF Init, Measured
<1>2. Measured => DataInBounds
  BY DEF Measured, DataInBounds
<1> QED
  BY <1>1, <1>2, InitTInv, NextTInv, NextMeasured, PTL DEF Spec

-----------------------------------------------------------------------------
(* A whole frame                                                           *)

TooLong == Len(sent.data) > u16MaxLength

\* Where the receiver stands after k bytes of the content of the frame.
Place(k) ==
    /\ accepted = <<>>
    /\ k = 0 => eRxState = "TYPEMSB"
    /\ k = 1 => eRxState = "TYPELSB" /\ u16Type = 256 * MSB(sent.type)
    /\ k = 2 => eRxState = "LENMSB"
    /\ k = 3 => eRxState = "LENLSB" /\ u16Length = 256 * MSB(Len(sent.data))
    /\ k >= 2 => u16Type = sent.type
    /\ k >= 4 => u16Length = Len(sent.data)
    /\ k >= 4 /\ TooLong => eRxState = "START"
    /\ k = 4 /\ ~TooLong => eRxState = "CRC"
    /\ k <= 5 => u16Bytes = 0
    /\ k >= 5 /\ ~TooLong =>
         /\ eRxState = "DATA"
         /\ u8CRC = CalculateCRC(sent.type, Len(sent.data), sent.data)
         /\ u16Bytes = k - 5
         /\ \A i \in 1 .. k - 5 : au8Message[i] = sent.data[i]

\* And what of the frame is still to come, the escape perhaps read and the escaped byte not.
InFrame(k) ==
    /\ k \in 0 .. Len(Content(sent))
    /\ Place(k)
    /\ \/ bInEsc = FALSE /\ wire = Rest(sent, k)
       \/ /\ bInEsc = TRUE /\ k < Len(Content(sent)) /\ Content(sent)[k + 1] < 16
          /\ wire = <<XorByte(Content(sent)[k + 1], 16)>> \o Rest(sent, k + 1)

\* Between two frames no end is taken for the end of a message: the length is still that of a
\* wiped message, or so much noise has come that the next byte is one too many.
Quiet ==
    \/ SL_END_CHAR \notin Noise
    \/ eRxState = "START" /\ u16Length > u16MaxLength
    \/ /\ SL_START_CHAR \in Noise /\ u16Length > u16MaxLength
       /\ \/ eRxState = "TYPEMSB" /\ stray >= 1
          \/ eRxState = "TYPELSB" /\ stray >= 2
          \/ eRxState = "LENMSB" /\ stray >= 3
    \/ SL_START_CHAR \in Noise /\ eRxState = "LENLSB" /\ stray >= 4

Expected == IF Len(sent.data) <= u16MaxLength THEN <<sent>> ELSE <<>>

\* A whole frame is about to be read, being read or read.
FrameInv ==
    intact => \/ wire = WriteMessage(sent) /\ accepted = <<>>
              \/ \E k \in 0 .. Len(Content(sent)) : InFrame(k)
              \/ wire = <<>> /\ (NoFrameOfNoise => accepted = Expected /\ Quiet)

\* With noise alone every frame is whole.
NoiseInv ==
    kinds \subseteq {"noise"} =>
        intact \/ (wire = <<>> /\ (NoFrameOfNoise => accepted = <<>> /\ Quiet))

LEMMA OfByte == \A x \in Byte : x \in Int /\ 0 <= x /\ x <= 255
BY DEF Byte

\* Every byte of a frame behind its start is an escape, the end, or no special character.
LEMMA RestShows ==
  ASSUME NEW m \in Messages, NEW k \in 0 .. Len(Content(m))
  PROVE  /\ k = Len(Content(m)) => Rest(m, k) = <<SL_END_CHAR>>
         /\ k < Len(Content(m)) =>
              /\ Content(m)[k + 1] \in Byte /\ Rest(m, k + 1) \in Seq(Byte)
              /\ Content(m)[k + 1] < 16 =>
                   Rest(m, k) = <<SL_ESC_CHAR>> \o (<<XorByte(Content(m)[k + 1], 16)>> \o Rest(m, k + 1))
              /\ Content(m)[k + 1] >= 16 => Rest(m, k) = <<Content(m)[k + 1]>> \o Rest(m, k + 1)
<1> DEFINE c == Content(m)
           n == Len(c)
           b == c[k + 1]
           rest == Rest(m, k + 1)
<1>1. c \in Seq(Byte) /\ n \in Nat
  BY ContentIs
<1>2. k = n => Rest(m, k) = <<SL_END_CHAR>>
  BY RestIs
<1>3. CASE k < n
  <2>1. k \in 0 .. n - 1 /\ k + 1 \in 0 .. n /\ k + 1 \in 1 .. n
    BY <1>1, <1>3
  <2>2. Rest(m, k) = TxByte(b) \o rest /\ rest \in Seq(Byte)
    BY <2>1, RestIs
  <2> HIDE DEF c, rest
  <2>3. b \in Byte
    BY <1>1, <2>1
  <2>4. CASE b < 16
    <3>1. TxByte(b) = <<SL_ESC_CHAR, XorByte(b, 16)>> /\ XorByte(b, 16) \in 16 .. 31
      BY <2>3, <2>4, TxByteMakes
    <3> DEFINE x == XorByte(b, 16)
    <3>2. x \in Byte /\ SL_ESC_CHAR \in Byte
      BY <3>1 DEF Byte, SL_ESC_CHAR
    <3> HIDE DEF x
    <3>3. <<SL_ESC_CHAR, x>> = <<SL_ESC_CHAR>> \o <<x>>
      OBVIOUS
    <3>4. <<SL_ESC_CHAR>> \in Seq(Byte) /\ <<x>> \in Seq(Byte)
      BY <3>2
    <3>5. (<<SL_ESC_CHAR>> \o <<x>>) \o rest = <<SL_ESC_CHAR>> \o (<<x>> \o rest)
      BY <2>2, <3>4, AssociativeBytes, Zenon
    <3>6. TxByte(b) = <<SL_ESC_CHAR>> \o <<x>>
      BY <3>1, <3>3 DEF x
    <3>7. Rest(m, k) = <<SL_ESC_CHAR>> \o (<<x>> \o rest)
      BY <2>2, <3>5, <3>6
    <3>8. b \in Int
      BY <2>3, OfByte
    <3> QED
      BY <1>3, <2>2, <2>3, <2>4, <3>7, <3>8 DEF c, rest, x
  <2>5. CASE b >= 16
    <3>1. TxByte(b) = <<b>> /\ b \in Int
      BY <2>3, <2>5, TxByteMakes, OfByte
    <3>2. Rest(m, k) = <<b>> \o rest
      BY <2>2, <3>1
    <3> QED
      BY <1>3, <2>2, <2>3, <2>5, <3>1, <3>2 DEF c, rest
  <2>6. b < 16 \/ b >= 16
    BY <2>3, OfByte
  <2> QED
    BY <2>4, <2>5, <2>6
<1> QED
  BY <1>1, <1>2, <1>3

LEMMA PutBefore ==
  ASSUME NEW b, NEW s \in Seq(Byte)
  PROVE  <<b>> \o s # <<>> /\ Head(<<b>> \o s) = b /\ Tail(<<b>> \o s) = s
OBVIOUS

LEMMA WordMod ==
  ASSUME NEW w \in Word
  PROVE  w % 65536 = w
<1> DEFINE modulus == 65536
<1>1. modulus \in Int /\ w \in Int /\ 0 <= w /\ w < modulus
  BY OfWord
<1> HIDE DEF modulus
<1>2. w % modulus = w
  BY <1>1
<1> QED
  BY <1>2 DEF modulus

\* A byte of the content takes the receiver one place on.
LEMMA NextPlace ==
  ASSUME RxTypeOK, sent \in Messages, NEW k \in 0 .. Len(Content(sent)) - 1, Place(k),
         RxData(Content(sent)[k + 1]), UNCHANGED <<sent, accepted>>
  PROVE  Place(k + 1)'
<1> DEFINE d == Content(sent)[k + 1]
           n == Len(sent.data)
<1>1. /\ sent.type \in Word /\ sent.data \in Seq(Byte) /\ n \in Word /\ n \in Nat
      /\ Len(Content(sent)) = 5 + n /\ k \in Nat /\ k < 5 + n
  BY MessageType, ContentIs
<1>2. /\ 256 * MSB(sent.type) + LSB(sent.type) = sent.type
      /\ 256 * MSB(n) + LSB(n) = n
  BY <1>1, Halves
<1>3. TooLong' = TooLong /\ (TooLong <=> n > u16MaxLength)
  BY DEF TooLong
<1>4. accepted' = <<>>
  BY DEF Place
<1>5. CASE k = 0
  <2>1. d = MSB(sent.type) /\ eRxState = "TYPEMSB"
    BY <1>5, ContentIs DEF Place
  <2>2. eRxState' = "TYPELSB" /\ u16Type' = 256 * MSB(sent.type) /\ UNCHANGED u16Bytes
    BY <2>1, RxDataDoes
  <2>3. u16Bytes = 0
    BY <1>5 DEF Place
  <2> QED
    BY <1>4, <1>5, <2>2, <2>3 DEF Place
<1>6. CASE k = 1
  <2>1. d = LSB(sent.type) /\ eRxState = "TYPELSB" /\ u16Type = 256 * MSB(sent.type) /\ u16Bytes = 0
    BY <1>6, ContentIs DEF Place
  <2>2. eRxState' = "LENMSB" /\ u16Type' = sent.type % 65536 /\ UNCHANGED u16Bytes
    BY <1>2, <2>1, RxDataDoes
  <2>3. sent.type % 65536 = sent.type
    BY <1>1, WordMod
  <2> QED
    BY <1>4, <1>6, <2>1, <2>2, <2>3 DEF Place
<1>7. CASE k = 2
  <2>1. d = MSB(n) /\ eRxState = "LENMSB" /\ u16Type = sent.type /\ u16Bytes = 0
    BY <1>7, ContentIs DEF Place
  <2>2. eRxState' = "LENLSB" /\ u16Length' = 256 * MSB(n) /\ UNCHANGED <<u16Type, u16Bytes>>
    BY <2>1, RxDataDoes
  <2> QED
    BY <1>4, <1>7, <2>1, <2>2 DEF Place
<1>8. CASE k = 3
  <2>1. d = LSB(n) /\ eRxState = "LENLSB" /\ u16Length = 256 * MSB(n) /\ u16Type = sent.type /\ u16Bytes = 0
    BY <1>8, ContentIs DEF Place
  <2>2. RxLength(d)
    BY <2>1, RxDataDoes
  <2>3. (u16Length + d) % 65536 = n
    BY <1>1, <1>2, <2>1, WordMod
  <2>4. /\ u16Length' = n /\ UNCHANGED <<u16Type, u16Bytes>>
        /\ eRxState' = IF n > u16MaxLength THEN "START" ELSE "CRC"
    BY <2>2, <2>3 DEF RxLength
  <2> QED
    BY <1>3, <1>4, <1>8, <2>1, <2>4 DEF Place
<1>9. CASE k >= 4 /\ TooLong
  <2>1. eRxState = "START" /\ u16Length = n /\ u16Type = sent.type /\ (k <= 5 => u16Bytes = 0)
    BY <1>9 DEF Place
  <2>2. UNCHANGED <<eRxState, u16Length, u16Type, u16Bytes>>
    BY <2>1, RxDataDoes
  <2> QED
    BY <1>1, <1>3, <1>4, <1>9, <2>1, <2>2 DEF Place
<1>10. CASE k = 4 /\ ~TooLong
  <2>1. /\ d = CalculateCRC(sent.type, n, sent.data)
        /\ eRxState = "CRC" /\ u16Length = n /\ u16Type = sent.type /\ u16Bytes = 0
    BY <1>10, ContentIs DEF Place
  <2>2. eRxState' = "DATA" /\ u8CRC' = d /\ UNCHANGED <<u16Length, u16Type, u16Bytes>>
    BY <2>1, RxDataDoes
  <2> QED
    BY <1>3, <1>4, <1>10, <2>1, <2>2 DEF Place
<1>11. CASE k >= 5 /\ ~TooLong
  <2>1. /\ eRxState = "DATA" /\ u16Length = n /\ u16Type = sent.type /\ u16Bytes = k - 5
        /\ u8CRC = CalculateCRC(sent.type, n, sent.data)
        /\ \A i \in 1 .. k - 5 : au8Message[i] = sent.data[i]
    BY <1>11 DEF Place
  <2>2. u16Bytes < u16Length
    BY <1>1, <2>1
  <2>3. /\ UNCHANGED <<eRxState, u16Length, u16Type, u8CRC>>
        /\ u16Bytes' = k - 4 /\ au8Message' = [au8Message EXCEPT ![k - 4] = d]
    <3>1. u16Bytes + 1 = k - 4
      BY <1>1, <2>1
    <3> QED
      BY <2>1, <2>2, <3>1, RxDataDoes
  <2>4. d = sent.data[k - 4]
    <3>1. k - 4 \in 1 .. n /\ 5 + (k - 4) = k + 1
      BY <1>1, <1>11
    <3> QED
      BY <3>1, ContentIs
  <2>5. ASSUME NEW i \in 1 .. k - 4 PROVE au8Message'[i] = sent.data[i]
    <3>1. n <= u16MaxLength /\ u16MaxLength \in Nat
      BY <1>1, <1>3, <1>11, FramingAssumption
    <3>2. au8Message \in [1 .. u16MaxLength -> Byte] /\ i \in 1 .. u16MaxLength
      BY <1>1, <3>1 DEF RxTypeOK
    <3>3. CASE i = k - 4
      BY <2>3, <2>4, <3>2, <3>3
    <3>4. CASE i # k - 4
      <4>1. i \in 1 .. k - 5
        BY <1>1, <3>4
      <4>2. au8Message'[i] = au8Message[i]
        BY <2>3, <3>2, <3>4
      <4> QED
        BY <2>1, <4>1, <4>2
    <3> QED
      BY <3>3, <3>4
  <2>6. (k + 1) - 5 = k - 4 /\ k + 1 >= 5 /\ ~ (k + 1 <= 5)
    BY <1>1, <1>11
  <2> QED
    BY <1>3, <1>4, <2>1, <2>3, <2>5, <2>6 DEF Place
<1> QED
  BY <1>1, <1>5, <1>6, <1>7, <1>8, <1>9, <1>10, <1>11

LEMMA EscapedIsPlain == \A x \in 16 .. 31 : x \in Byte /\ x # 1 /\ x # 2 /\ x # 3
BY DEF Byte

\* Inside a frame something is still to come, and it is no start.
LEMMA InFrameWire ==
  ASSUME sent \in Messages, NEW k \in 0 .. Len(Content(sent)), InFrame(k)
  PROVE  wire # <<>> /\ Head(wire) # SL_START_CHAR
<1> DEFINE n == Len(Content(sent))
           b == Content(sent)[k + 1]
<1>1. n \in Nat /\ SL_END_CHAR # SL_START_CHAR /\ SL_ESC_CHAR # SL_START_CHAR /\ SL_START_CHAR = 1
  BY MessageType, ContentIs DEF SL_END_CHAR, SL_ESC_CHAR, SL_START_CHAR
<1>2. CASE bInEsc = FALSE /\ k = n
  <2>1. wire = <<SL_END_CHAR>>
    BY <1>2, RestShows DEF InFrame
  <2> QED
    BY <1>1, <2>1
<1>3. CASE k < n
  <2>1. /\ b \in Byte /\ Rest(sent, k + 1) \in Seq(Byte)
        /\ b < 16 => Rest(sent, k) = <<SL_ESC_CHAR>> \o (<<XorByte(b, 16)>> \o Rest(sent, k + 1))
        /\ b >= 16 => Rest(sent, k) = <<b>> \o Rest(sent, k + 1)
    BY <1>3, RestShows
  <2> HIDE DEF b
  <2>2. b < 16 => /\ XorByte(b, 16) \in Byte /\ XorByte(b, 16) # 1
    BY <2>1, TxByteMakes, EscapedIsPlain
  <2>3. CASE bInEsc = FALSE /\ b < 16
    <3>1. wire = <<SL_ESC_CHAR>> \o (<<XorByte(b, 16)>> \o Rest(sent, k + 1))
      BY <2>1, <2>3 DEF InFrame
    <3>2. <<XorByte(b, 16)>> \o Rest(sent, k + 1) \in Seq(Byte)
      BY <2>1, <2>2, <2>3
    <3> QED
      BY <1>1, <3>1, <3>2, PutBefore
  <2>4. CASE bInEsc = FALSE /\ b >= 16
    <3>1. wire = <<b>> \o Rest(sent, k + 1)
      BY <2>1, <2>4 DEF InFrame
    <3> QED
      BY <1>1, <2>1, <2>4, <3>1, PutBefore
  <2>5. CASE bInEsc = TRUE
    <3>1. b < 16 /\ wire = <<XorByte(b, 16)>> \o Rest(sent, k + 1)
      BY <2>5 DEF InFrame, b
    <3> QED
      BY <1>1, <2>1, <2>2, <3>1, PutBefore
  <2>6. (b < 16 \/ b >= 16) /\ (bInEsc = FALSE \/ bInEsc = TRUE)
    BY <2>1, OfByte DEF InFrame
  <2> QED
    BY <2>3, <2>4, <2>5, <2>6
<1>4. k = n \/ k < n
  BY <1>1
<1>5. k < n \/ bInEsc = FALSE
  BY <1>4 DEF InFrame
<1> QED
  BY <1>2, <1>3, <1>4, <1>5

LEMMA FrameHead ==
  ASSUME NEW m \in Messages
  PROVE  /\ WriteMessage(m) # <<>> /\ Head(WriteMessage(m)) = SL_START_CHAR
         /\ Tail(WriteMessage(m)) = Rest(m, 0)
<1>1. 0 \in 0 .. Len(Content(m))
  BY MessageType, ContentIs
<1>2. Rest(m, 0) \in Seq(Byte) /\ WriteMessage(m) = <<SL_START_CHAR>> \o Rest(m, 0)
  BY <1>1, RestIs
<1> QED
  BY <1>2, PutBefore

\* The start of a frame puts the receiver at its beginning, whatever it was doing before.
LEMMA StartEntersFrame ==
  ASSUME sent \in Messages, wire = WriteMessage(sent), accepted = <<>>, ReadByte
  PROVE  InFrame(0)' /\ 0 \in 0 .. Len(Content(sent'))
<1>1. /\ RxByte(Head(wire)) /\ wire' = Tail(wire) /\ UNCHANGED <<sent, intact>>
  BY DEF ReadByte
<1>2. Head(wire) = 1 /\ wire' = Rest(sent, 0)
  BY <1>1, FrameHead DEF SL_START_CHAR
<1>3. u16Bytes' = 0 /\ bInEsc' = FALSE /\ eRxState' = "TYPEMSB" /\ UNCHANGED accepted
  BY <1>1, <1>2, RxByteDoes DEF RxStart
<1>4. 0 \in 0 .. Len(Content(sent))
  BY MessageType, ContentIs
<1>5. Place(0)'
  BY <1>3 DEF Place
<1> QED
  BY <1>1, <1>2, <1>3, <1>4, <1>5 DEF InFrame

\* A byte in the middle of a frame, escaped or not.
LEMMA ByteStaysInFrame ==
  ASSUME RxTypeOK, sent \in Messages, NEW k \in 0 .. Len(Content(sent)) - 1, InFrame(k), ReadByte
  PROVE  InFrame(k)' \/ InFrame(k + 1)'
<1> DEFINE n == Len(Content(sent))
           b == Content(sent)[k + 1]
           rest == Rest(sent, k + 1)
           x == XorByte(b, 16)
<1>1. /\ RxByte(Head(wire)) /\ wire' = Tail(wire) /\ UNCHANGED <<sent, intact>>
  BY DEF ReadByte
<1>2. k < n /\ n \in Nat /\ k \in 0 .. n /\ k + 1 \in 0 .. n /\ k \in Nat
  BY MessageType, ContentIs
<1>3. /\ b \in Byte /\ rest \in Seq(Byte)
      /\ b < 16 => Rest(sent, k) = <<SL_ESC_CHAR>> \o (<<x>> \o rest)
      /\ b >= 16 => Rest(sent, k) = <<b>> \o rest
  BY <1>2, RestShows
<1>4. b < 16 => x \in 16 .. 31 /\ XorByte(x, 16) = b
  BY <1>3, TxByteMakes
<1>5. b \in Int
  BY <1>3, OfByte
<1>6. ASSUME RxData(b), bInEsc' = FALSE, UNCHANGED accepted, wire' = rest
      PROVE  InFrame(k + 1)'
  <2>1. Place(k + 1)'
    BY <1>1, <1>6, NextPlace DEF InFrame
  <2> QED
    BY <1>1, <1>2, <1>6, <2>1 DEF InFrame
<1>7. CASE bInEsc = FALSE /\ b < 16
  <2>1. wire = <<SL_ESC_CHAR>> \o (<<x>> \o rest)
    BY <1>3, <1>7 DEF InFrame
  <2>2. <<x>> \o rest \in Seq(Byte)
    <3>1. x \in Byte
      BY <1>4, <1>7 DEF Byte
    <3> QED
      BY <1>3, <3>1
  <2>3. Head(wire) = 2 /\ wire' = <<x>> \o rest
    BY <1>1, <2>1, <2>2, PutBefore DEF SL_ESC_CHAR
  <2>4. bInEsc' = TRUE /\ UNCHANGED <<eRxState, u8CRC, u16Bytes, u16Type, u16Length, au8Message, accepted>>
    BY <1>1, <2>3, RxByteDoes DEF RxEsc, message
  <2>5. Place(k)'
    BY <1>1, <2>4 DEF InFrame, Place, TooLong
  <2> QED
    BY <1>1, <1>2, <1>7, <2>3, <2>4, <2>5 DEF InFrame
<1>8. CASE bInEsc = FALSE /\ b >= 16
  <2>1. wire = <<b>> \o rest
    BY <1>3, <1>8 DEF InFrame
  <2>2. Head(wire) = b /\ wire' = rest
    BY <1>1, <1>3, <2>1, PutBefore
  <2>3. b \notin {1, 2, 3}
    BY <1>5, <1>8
  <2>4. RxData(b) /\ bInEsc' = FALSE /\ UNCHANGED accepted
    BY <1>1, <1>8, <2>2, <2>3, RxByteDoes
  <2> QED
    BY <1>6, <2>2, <2>4
<1>9. CASE bInEsc = TRUE
  <2>1. b < 16 /\ wire = <<x>> \o rest
    BY <1>9 DEF InFrame
  <2>2. Head(wire) = x /\ wire' = rest
    BY <1>1, <1>3, <2>1, PutBefore
  <2>3. x \notin {1, 2, 3}
    <3>1. x \in 16 .. 31
      BY <1>4, <2>1
    <3> HIDE DEF x
    <3> QED
      BY <3>1, EscapedIsPlain
  <2>4. RxData(XorByte(x, 16)) /\ bInEsc' = FALSE /\ UNCHANGED accepted
    BY <1>1, <1>9, <2>2, <2>3, RxByteDoes
  <2> QED
    BY <1>4, <1>6, <2>1, <2>2, <2>4
<1>10. (b < 16 \/ b >= 16) /\ (bInEsc = FALSE \/ bInEsc = TRUE)
  BY <1>5 DEF InFrame
<1> QED
  BY <1>7, <1>8, <1>9, <1>10

\* The end of a frame: the message is accepted once and unchanged, unless it is too long.
LEMMA EndAccepts ==
  ASSUME RxTypeOK, sent \in Messages, InFrame(Len(Content(sent))), ReadByte
  PROVE  /\ wire' = <<>> /\ accepted' = Expected' /\ UNCHANGED <<sent, intact>>
         /\ eRxState' = "START" /\ u16Length' > u16MaxLength
<1> DEFINE n == Len(sent.data)
           k == Len(Content(sent))
<1>1. /\ sent.type \in Word /\ sent.data \in Seq(Byte) /\ n \in Nat /\ k = 5 + n
      /\ sent = [type |-> sent.type, data |-> sent.data]
  BY MessageType, ContentIs
<1>2. /\ RxByte(Head(wire)) /\ wire' = Tail(wire) /\ UNCHANGED <<sent, intact>>
  BY DEF ReadByte
<1>3. wire = <<SL_END_CHAR>>
  <2>1. k \in 0 .. k
    BY <1>1
  <2>2. Rest(sent, k) = <<SL_END_CHAR>>
    BY <2>1, RestShows
  <2> QED
    BY <1>1, <2>2 DEF InFrame
<1>4. wire' = <<>> /\ Head(wire) = 3
  BY <1>2, <1>3 DEF SL_END_CHAR
<1>5. RxEnd
  BY <1>2, <1>4, RxByteDoes
<1>6. accepted = <<>> /\ u16Length = n /\ u16Type = sent.type
  BY <1>1 DEF InFrame, Place
<1>7. Expected' = (IF n <= u16MaxLength THEN <<sent>> ELSE <<>>) /\ u16MaxLength \in Nat
  BY <1>2, FramingAssumption DEF Expected
<1>8. CASE TooLong
  <2>1. n > u16MaxLength
    BY <1>8 DEF TooLong
  <2>2. eRxState' = "START" /\ UNCHANGED <<u16Length, accepted>>
    BY <1>5, <1>6, <2>1 DEF RxEnd, message
  <2> QED
    BY <1>1, <1>2, <1>4, <1>6, <1>7, <2>1, <2>2
<1>9. CASE ~TooLong
  <2>1. n <= u16MaxLength
    BY <1>1, <1>7, <1>9 DEF TooLong
  <2>2. /\ u8CRC = CalculateCRC(sent.type, n, sent.data)
        /\ \A i \in 1 .. n : au8Message[i] = sent.data[i]
    <3>1. k - 5 = n /\ k >= 5
      BY <1>1
    <3> QED
      BY <1>9, <3>1 DEF InFrame, Place
  <2>3. SubSeq(au8Message, 1, n) = sent.data
    BY <1>1, <2>2
  <2>4. SubSeq(sent.data, 1, n) = sent.data
    BY <1>1, SubSeqFull
  <2>5. u8CRC = CalculateCRC(u16Type, u16Length, au8Message)
    BY <1>6, <2>2, <2>3, <2>4 DEF CalculateCRC
  <2>6. ~ (u16Length > u16MaxLength)
    BY <1>1, <1>6, <1>7, <2>1
  <2>7. /\ accepted' = Append(accepted, [type |-> u16Type, data |-> SubSeq(au8Message, 1, u16Length)])
        /\ eRxState' = "START" /\ u16Length' = 65535
    BY <1>5, <2>5, <2>6 DEF RxEnd, WipedMessage
  <2>8. accepted' = <<sent>>
    BY <1>1, <1>6, <2>3, <2>7
  <2>9. u16Length' > u16MaxLength
    BY <2>7, FramingAssumption
  <2>10. accepted' = Expected'
    BY <1>7, <2>1, <2>8
  <2>11. eRxState' = "START"
    BY <2>7
  <2> QED
    BY <1>2, <1>4, <2>9, <2>10, <2>11
<1> QED
  BY <1>8, <1>9

-----------------------------------------------------------------------------
(* Between two frames                                                      *)

\* A byte of noise is not accepted as anything, and the next one will not be either.
LEMMA NoiseKeepsQuiet ==
  ASSUME TInv, Quiet, NEW b \in Noise, RxByte(b), stray' = stray + 1, NoFrameOfNoise'
  PROVE  Quiet' /\ UNCHANGED accepted
<1>1. RxTypeOK /\ stray \in Nat
  BY TypeParts DEF TInv
<1>2. b = 1 => /\ eRxState' = "TYPEMSB" /\ UNCHANGED <<u16Length, accepted>>
  BY RxByteDoes DEF RxStart, message
<1>3. b = 2 => UNCHANGED <<eRxState, u16Length, accepted>>
  BY RxByteDoes DEF RxEsc, message
<1>4. b = 3 /\ u16Length > u16MaxLength => eRxState' = "START" /\ UNCHANGED <<u16Length, accepted>>
  BY RxByteDoes DEF RxEnd, message
<1>5. b \notin {1, 2, 3} => UNCHANGED accepted /\ \E d : RxData(d)
  BY RxByteDoes
<1>6. CASE SL_END_CHAR \notin Noise
  <2>1. b # 3
    BY <1>6 DEF SL_END_CHAR
  <2> QED
    BY <1>2, <1>3, <1>5, <1>6, <2>1 DEF Quiet
<1>7. CASE eRxState = "START" /\ u16Length > u16MaxLength
  <2>1. b = 1 => SL_START_CHAR \in Noise
    BY DEF SL_START_CHAR
  <2>2. b \notin {1, 2, 3} => UNCHANGED <<eRxState, u16Length, accepted>>
    BY <1>5, <1>7, RxDataDoes
  <2> QED
    BY <1>1, <1>2, <1>3, <1>4, <1>7, <2>1, <2>2 DEF Quiet
<1>8. CASE /\ SL_START_CHAR \in Noise /\ u16Length > u16MaxLength
           /\ \/ eRxState = "TYPEMSB" /\ stray >= 1
              \/ eRxState = "TYPELSB" /\ stray >= 2
              \/ eRxState = "LENMSB" /\ stray >= 3
  <2>1. CASE b = 1
    BY <1>1, <1>2, <1>8, <2>1 DEF Quiet
  <2>2. CASE b = 2
    BY <1>1, <1>3, <1>8, <2>2 DEF Quiet
  <2>3. CASE b = 3
    BY <1>4, <1>8, <2>3 DEF Quiet
  <2>4. CASE b \notin {1, 2, 3}
    <3>1. PICK d : RxData(d)
      BY <1>5, <2>4
    <3>2. /\ eRxState = "TYPEMSB" => eRxState' = "TYPELSB" /\ UNCHANGED u16Length
          /\ eRxState = "TYPELSB" => eRxState' = "LENMSB" /\ UNCHANGED u16Length
          /\ eRxState = "LENMSB" => eRxState' = "LENLSB"
      BY <3>1, RxDataDoes
    <3> QED
      BY <1>1, <1>5, <1>8, <2>4, <3>2 DEF Quiet
  <2> QED
    BY <2>1, <2>2, <2>3, <2>4
<1>9. CASE SL_END_CHAR \in Noise /\ SL_START_CHAR \in Noise /\ stray >= 4
  \* this byte is the fifth
  BY <1>1, <1>9 DEF NoFrameOfNoise
<1> QED
  BY <1>6, <1>7, <1>8, <1>9 DEF Quiet

\* An interrupted read leaves it so.
LEMMA InterruptKeepsQuiet ==
  ASSUME Quiet, Interrupt
  PROVE  Quiet'
<1>1. u16Length' = 65535 /\ eRxState' = eRxState /\ stray' = stray
  BY DEF Interrupt, WipedMessage, statics
<1>2. u16Length' > u16MaxLength
  BY <1>1, FramingAssumption
<1> QED
  BY <1>1, <1>2 DEF Quiet

LEMMA StrayGrows ==
  ASSUME TInv, stray' = stray + 1, NoFrameOfNoise'
  PROVE  NoFrameOfNoise
<1>1. stray \in Nat
  BY TypeParts DEF TInv
<1> QED
  BY <1>1 DEF NoFrameOfNoise

\* A read that is interrupted in the middle of a frame does not count as whole.
LEMMA InsideIsNeither ==
  ASSUME sent \in Messages, NEW k \in 0 .. Len(Content(sent)), InFrame(k)
  PROVE  wire \notin {<<>>, WriteMessage(sent)}
BY InFrameWire, FrameHead

LEMMA NextFrameInv == TInv /\ FrameInv /\ [Next]_vars => FrameInv'
<1> SUFFICES ASSUME TInv, FrameInv, [Next]_vars, intact' PROVE FrameInv'
  BY DEF FrameInv
<1> DEFINE Ahead == wire = WriteMessage(sent) /\ accepted = <<>>
           Inside == \E k \in 0 .. Len(Content(sent)) : InFrame(k)
           Past == wire = <<>> /\ (NoFrameOfNoise => accepted = Expected /\ Quiet)
<1>1. FrameInv' <=> (intact' => Ahead' \/ Inside' \/ Past')
  BY DEF FrameInv
<1>2. intact => sent \in Messages /\ (Ahead \/ Inside \/ Past)
  BY DEF FrameInv, TInv
<1>3. RxTypeOK
  BY TypeParts DEF TInv
<1>4. CASE UNCHANGED vars
  <2>1. UNCHANGED <<eRxState, u8CRC, u16Bytes, bInEsc, u16Type, u16Length, au8Message>>
    BY <1>4 DEF vars, statics, message
  <2>2. UNCHANGED <<wire, sent, intact, accepted, stray>>
    BY <1>4 DEF vars
  <2>3. ASSUME Inside PROVE Inside'
    <3>1. PICK k \in 0 .. Len(Content(sent)) : InFrame(k)
      BY <2>3
    <3>2. Place(k)'
      BY <2>1, <2>2, <3>1 DEF InFrame, Place, TooLong
    <3>3. InFrame(k)'
      BY <2>1, <2>2, <3>1, <3>2 DEF InFrame
    <3> QED
      BY <2>2, <3>1, <3>3
  <2>4. Past => Past'
    BY <2>1, <2>2 DEF Expected, Quiet, NoFrameOfNoise
  <2>5. Ahead => Ahead'
    BY <2>2
  <2> HIDE DEF Ahead, Inside, Past
  <2> QED
    BY <1>1, <1>2, <2>2, <2>3, <2>4, <2>5
<1>5. ASSUME NEW m \in Messages, Send(m) PROVE FrameInv'
  <2>1. Ahead'
    BY <1>5 DEF Send
  <2> HIDE DEF Ahead, Inside, Past
  <2> QED
    BY <1>1, <2>1
<1>6. CASE ReadByte
  <2>1. wire # <<>> /\ UNCHANGED <<sent, intact>>
    BY <1>6 DEF ReadByte
  <2>2. sent \in Messages /\ (Ahead \/ Inside)
    BY <1>2, <2>1
  <2>3. CASE Ahead
    <3>1. Inside'
      BY <1>6, <2>2, <2>3, StartEntersFrame
    <3> HIDE DEF Ahead, Inside, Past
    <3> QED
      BY <1>1, <3>1
  <2>4. CASE Inside
    <3>1. PICK k \in 0 .. Len(Content(sent)) : InFrame(k)
      BY <2>4
    <3>2. Len(Content(sent)) \in Nat
      BY <2>2, MessageType, ContentIs
    <3>3. CASE k = Len(Content(sent))
      <4>1. /\ wire' = <<>> /\ accepted' = Expected' /\ eRxState' = "START" /\ u16Length' > u16MaxLength
        BY <1>3, <1>6, <2>2, <3>1, <3>3, EndAccepts
      <4>2. Past'
        BY <4>1 DEF Quiet
      <4> HIDE DEF Ahead, Inside, Past
      <4> QED
        BY <1>1, <4>2
    <3>4. CASE k # Len(Content(sent))
      <4>1. k \in 0 .. Len(Content(sent)) - 1 /\ k + 1 \in 0 .. Len(Content(sent))
        BY <3>2, <3>4
      <4>2. InFrame(k)' \/ InFrame(k + 1)'
        BY <1>3, <1>6, <2>2, <3>1, <4>1, ByteStaysInFrame
      <4>3. Inside'
        BY <2>1, <4>1, <4>2
      <4> HIDE DEF Ahead, Inside, Past
      <4> QED
        BY <1>1, <4>3
    <3> QED
      BY <3>3, <3>4
  <2> QED
    BY <2>2, <2>3, <2>4
<1>7. CASE LoseByte
  BY <1>7 DEF LoseByte
<1>8. CASE NoiseByte
  <2>1. wire = <<>> /\ stray' = stray + 1 /\ UNCHANGED <<wire, sent, intact>>
    BY <1>8 DEF NoiseByte
  <2>2. PICK b \in Noise : RxByte(b)
    BY <1>8 DEF NoiseByte
  <2>3. Past
    BY <1>2, <2>1, FrameHead, InFrameWire
  <2>4. NoFrameOfNoise' => NoFrameOfNoise
    BY <2>1, StrayGrows
  <2>5. NoFrameOfNoise' => Quiet' /\ UNCHANGED accepted
    BY <2>1, <2>2, <2>3, <2>4, NoiseKeepsQuiet
  <2>6. Past'
    BY <2>1, <2>3, <2>4, <2>5 DEF Expected
  <2> HIDE DEF Ahead, Inside, Past
  <2> QED
    BY <1>1, <2>6
<1>9. CASE Interrupt
  <2>1. /\ UNCHANGED <<wire, sent, accepted, stray>> /\ intact /\ wire \in {<<>>, WriteMessage(sent)}
    BY <1>9 DEF Interrupt
  <2>2. Ahead \/ Past
    BY <1>2, <2>1, InsideIsNeither
  <2>3. Ahead => Ahead'
    BY <2>1
  <2>4. Past => Past'
    BY <1>9, <2>1, InterruptKeepsQuiet DEF Expected, NoFrameOfNoise
  <2> HIDE DEF Ahead, Inside, Past
  <2> QED
    BY <1>1, <2>2, <2>3, <2>4
<1> QED
  BY <1>4, <1>5, <1>6, <1>7, <1>8, <1>9 DEF Next

\* A whole frame that arrives is read once and unchanged, or is too long for the buffer and not
\* read at all: wherever the receiver was left, the start of the frame takes it to the beginning,
\* each byte of the content takes it one place on, and the checksum it compares with is the one
\* that was sent.  Nothing is asked of what came before, only of the noise after it.
THEOREM WholeFramesArrive == Spec => []WholeFramesAreRead
<1>1. Init => FrameInv
  BY DEF Init, FrameInv
<1>2. TInv /\ FrameInv => WholeFramesAreRead
  <2> SUFFICES ASSUME TInv, FrameInv, wire = <<>>, intact, NoFrameOfNoise PROVE accepted = Expected
    BY DEF WholeFramesAreRead, Expected
  <2>1. sent \in Messages
    BY DEF TInv
  <2> QED
    BY <2>1, FrameHead, InFrameWire DEF FrameInv
<1>3. TInv /\ FrameInv /\ [Next]_vars => FrameInv'
  BY NextFrameInv
<1> QED
  BY <1>1, <1>2, <1>3, InitTInv, NextTInv, PTL DEF Spec

LEMMA NextNoiseInv == TInv /\ NoiseInv /\ [Next]_vars => NoiseInv'
<1> DEFINE Silent == wire = <<>> /\ (NoFrameOfNoise => accepted = <<>> /\ Quiet)
<1> SUFFICES ASSUME TInv, NoiseInv, [Next]_vars, kinds' \subseteq {"noise"}
             PROVE  intact' \/ Silent'
  BY DEF NoiseInv
<1>1. kinds \subseteq {"noise"} => intact \/ Silent
  BY DEF NoiseInv
<1>2. CASE UNCHANGED vars
  <2>1. UNCHANGED <<eRxState, u16Length, wire, sent, intact, accepted, stray, kinds>>
    BY <1>2 DEF vars, statics, message
  <2> QED
    BY <1>1, <2>1 DEF Quiet, NoFrameOfNoise
<1>3. ASSUME NEW m \in Messages, Send(m) PROVE intact'
  BY <1>3 DEF Send
<1>4. CASE ReadByte
  <2>1. wire # <<>> /\ UNCHANGED <<intact, kinds>>
    BY <1>4 DEF ReadByte
  <2> QED
    BY <1>1, <2>1
<1>5. CASE LoseByte
  BY <1>5 DEF LoseByte, Fault
<1>6. CASE NoiseByte
  <2>1. stray' = stray + 1 /\ UNCHANGED <<wire, sent, intact>> /\ kinds \subseteq {"noise"}
    BY <1>6 DEF NoiseByte, Fault
  <2>2. PICK b \in Noise : RxByte(b)
    BY <1>6 DEF NoiseByte
  <2>3. NoFrameOfNoise' => NoFrameOfNoise /\ (Quiet => Quiet' /\ UNCHANGED accepted)
    BY <2>1, <2>2, StrayGrows, NoiseKeepsQuiet
  <2> QED
    BY <1>1, <2>1, <2>3
<1>7. CASE Interrupt
  BY <1>7 DEF Interrupt, Fault
<1> QED
  BY <1>2, <1>3, <1>4, <1>5, <1>6, <1>7 DEF Next

\* Nothing is accepted that was not sent, in the middle of a frame or after it, as long as nothing
\* is lost: noise leaves the length of the wiped message, above which the end of a frame counts for
\* nothing, and the frames are whole.
THEOREM AcceptedIsWhatWasSent == Spec => []AcceptedWasSent
<1>1. Init => FrameInv /\ NoiseInv
  <2> SUFFICES ASSUME Init PROVE FrameInv /\ NoiseInv
    OBVIOUS
  <2>1. eRxState = "START" /\ u16Length > u16MaxLength /\ wire = <<>> /\ accepted = <<>> /\ intact = FALSE
    BY FramingAssumption DEF Init
  <2> QED
    BY <2>1 DEF FrameInv, NoiseInv, Quiet
<1>2. TInv /\ FrameInv /\ NoiseInv => AcceptedWasSent
  <2> SUFFICES ASSUME TInv, FrameInv, NoiseInv, kinds \subseteq {"noise"}, NoFrameOfNoise
               PROVE  accepted = <<>> \/ accepted = <<sent>>
    BY DEF AcceptedWasSent
  <2> QED
    BY DEF FrameInv, NoiseInv, InFrame, Place, Expected
<1>3. TInv /\ FrameInv /\ NoiseInv /\ [Next]_vars => (FrameInv /\ NoiseInv)'
  BY NextFrameInv, NextNoiseInv
<1> QED
  BY <1>1, <1>2, <1>3, InitTInv, NextTInv, PTL DEF Spec
=============================================================================
