---------------------------- MODULE DiamondProofs ----------------------------
(***************************************************************************)
(* What holds of the thermostat's board for every identifier, revision     *)
(* word, list of functions, table of products and number of writers: the   *)
(* model diamond_init selects, and the dynamic USB gadget whose functions  *)
(* the board file lists.  Both need induction over lists (the characters   *)
(* of an identifier, the functions of a configuration), which is done with *)
(* the least counterexample.                                               *)
(***************************************************************************)
EXTENDS DiamondInit, DynamicGadget, SequenceTheorems, WellFoundedInduction, TLAPS

\* A set of natural numbers that is not empty has a least one: the induction that
\* every proof below about lists and identifiers of any length rests on.
LEMMA LeastOf ==
    ASSUME NEW S, S \subseteq Nat, S # {}
    PROVE  \E m \in S : \A y \in S : m <= y
<1>. DEFINE R == OpToRel(<, Nat)
<1>1. \E m \in S : \A y \in S : <<y, m>> \notin R
  BY NatLessThanWellFounded, WFMin
<1>2. \A y \in Nat, m \in Nat : y < m => <<y, m>> \in R
  BY DEF OpToRel
<1>. HIDE DEF R
<1>3. \A y \in S, m \in S : <<y, m>> \notin R => m <= y
  BY <1>2
<1>. QED
  BY <1>1, <1>3

\* The community modules' Min of such a set.
LEMMA MinOf ==
    ASSUME NEW S, S \subseteq Nat, S # {}
    PROVE  Min(S) \in S /\ \A y \in S : Min(S) <= y
BY LeastOf DEF Min

\* Max of a bounded one: the least distance from the bound.
LEMMA MaxOf ==
    ASSUME NEW n \in Nat, NEW S, S \subseteq 0..n, S # {}
    PROVE  Max(S) \in S /\ \A y \in S : Max(S) >= y
<1>. DEFINE T == {n - x : x \in S}
<1>1. T \subseteq Nat
  OBVIOUS
<1>2. T # {}
  OBVIOUS
<1>3. PICK m \in T : \A y \in T : m <= y
  BY <1>1, <1>2, LeastOf
<1>4. PICK k \in S : m = n - k
  BY <1>3
<1>5. \A y \in S : n - y \in T
  OBVIOUS
<1>6. \A y \in S : y \in Int
  OBVIOUS
<1>7. \A y \in S : n - k <= n - y
  BY <1>3, <1>4, <1>5
<1>8. \A y \in S : k >= y
  BY <1>6, <1>7
<1>. QED
  BY <1>4, <1>8 DEF Max

\* A set of numbers up to n that has 0, and with each number the next, has them all.
LEMMA Upward ==
    ASSUME NEW n \in Nat, NEW S, S \subseteq 0..n, 0 \in S,
           \A k \in 0..n : k # n /\ k \in S => k + 1 \in S
    PROVE  S = 0..n
<1>. SUFFICES ASSUME (0..n) \ S # {} PROVE FALSE
  OBVIOUS
<1>1. (0..n) \ S \subseteq Nat
  OBVIOUS
<1>2. PICK m \in (0..n) \ S : \A y \in (0..n) \ S : m <= y
  BY <1>1, LeastOf
<1>3. m # 0 /\ m \in 0..n
  BY <1>2
<1>4. m - 1 \in 0..n /\ m - 1 # n /\ m - 1 + 1 = m
  BY <1>3
<1>5. m - 1 \in S
  BY <1>2, <1>3, <1>4
<1>. QED
  BY <1>2, <1>4, <1>5

\* The last position of 1..k.
LEMMA LastPosition ==
    ASSUME NEW k \in Nat \ {0}
    PROVE  Max(1..k) = k /\ (1..k) \ {Max(1..k)} = 1..k - 1 /\ 1..k # {}
<1>1. 1..k \subseteq 0..k /\ k \in 1..k
  OBVIOUS
<1>2. Max(1..k) \in 1..k /\ \A y \in 1..k : Max(1..k) >= y
  BY <1>1, MaxOf
<1>3. Max(1..k) = k
  BY <1>1, <1>2
<1>. QED
  BY <1>1, <1>3

\* Quotient and remainder, for a modulus that is not known.
LEMMA DivMod ==
    ASSUME NEW a \in Nat, NEW m \in Nat \ {0}
    PROVE  a = m * (a \div m) + (a % m) /\ a \div m \in Nat /\ a % m \in 0..m - 1
OBVIOUS

\* The remainder is the only one.
LEMMA ModIs ==
    ASSUME NEW m \in Nat \ {0}, NEW q \in Nat, NEW r \in 0..m - 1
    PROVE  (m * q + r) % m = r
OBVIOUS

\* Multiples of the modulus do not count.
LEMMA ModAdd ==
    ASSUME NEW m \in Nat \ {0}, NEW q \in Nat, NEW a \in Nat
    PROVE  (m * q + a) % m = a % m
<1>. DEFINE b == a \div m
<1>. DEFINE r == a % m
<1>2. b \in Nat /\ r \in 0..m - 1 /\ a = m * b + r
  BY DivMod
<1>. HIDE DEF b, r
<1>3. m * q + a = m * (q + b) + r /\ q + b \in Nat
  BY <1>2
<1>4. (m * (q + b) + r) % m = r
  BY <1>2, <1>3, ModIs
<1>5. (m * q + a) % m = r
  BY <1>3, <1>4
<1>. QED
  BY <1>5 DEF r

\* Two numbers with the same remainder still have it with one digit more.
LEMMA ModStep ==
    ASSUME NEW m \in Nat \ {0}, NEW x \in Nat, NEW y \in Nat, NEW d \in Nat, x % m = y % m
    PROVE  (10 * x + d) % m = (10 * y + d) % m
<1>. DEFINE p == x \div m
<1>. DEFINE q == y \div m
<1>. DEFINE r == x % m
<1>1. p \in Nat /\ q \in Nat /\ r \in Nat /\ x = m * p + r /\ y = m * q + r
  <2>1. p \in Nat /\ r \in 0..m - 1 /\ x = m * p + r
    BY DivMod
  <2>2. q \in Nat /\ y = m * q + (y % m)
    BY DivMod
  <2>. HIDE DEF p, q
  <2>. QED
    BY <2>1, <2>2
<1>. HIDE DEF p, q, r
<1>2. /\ 10 * x + d = m * (10 * p) + (10 * r + d) /\ 10 * y + d = m * (10 * q) + (10 * r + d)
      /\ 10 * p \in Nat /\ 10 * q \in Nat /\ 10 * r + d \in Nat
  BY <1>1
<1>3. /\ (m * (10 * p) + (10 * r + d)) % m = (10 * r + d) % m
      /\ (m * (10 * q) + (10 * r + d)) % m = (10 * r + d) % m
  BY <1>2, ModAdd
<1>. QED
  BY <1>2, <1>3

\* What an unsigned long keeps of an unsigned long long it keeps of the number itself.
LEMMA ModMod ==
    ASSUME NEW m \in Nat \ {0}, NEW a \in Nat
    PROVE  (a % (m * m)) % m = a % m /\ a % (m * m) \in Nat
<1>. DEFINE k == m * m
<1>1. k \in Nat \ {0} /\ k = m * m
  OBVIOUS
<1>. HIDE DEF k
<1>. DEFINE q == a \div k
<1>. DEFINE r == a % k
<1>2. q \in Nat /\ r \in Nat /\ a = k * q + r
  <2>1. q \in Nat /\ r \in 0..k - 1 /\ a = k * q + r
    BY <1>1, DivMod
  <2>. HIDE DEF q, r
  <2>. QED
    BY <2>1, <1>1
<1>. HIDE DEF q, r
<1>3. a = m * (m * q) + r /\ m * q \in Nat
  BY <1>1, <1>2
<1>4. (m * (m * q) + r) % m = r % m
  BY <1>2, <1>3, ModAdd
<1>5. a % m = r % m
  BY <1>3, <1>4
<1>. QED
  BY <1>2, <1>5 DEF r, k

-----------------------------------------------------------------------------
(***************************************************************************)
(* The board: nlmodel_parse against the grammar of an identifier.          *)
(***************************************************************************)

\* The dash and the dot that nlmodel_parse looks for are no digits.
LEMMA Separators == ~IsDigit("-") /\ ~IsDigit(".")
BY DEF IsDigit, Numerals

\* strrchr returns the last c at i or behind it, or nothing when there is none.
LEMMA StrrchrFinds ==
    ASSUME NEW S, NEW s \in Seq(S), NEW i \in 1..Len(s) + 1, NEW c
    PROVE  \/ /\ Strrchr(s, i, c) = 0
              /\ \A k \in i..Len(s) : s[k] # c
           \/ /\ Strrchr(s, i, c) \in i..Len(s)
              /\ s[Strrchr(s, i, c)] = c
              /\ \A k \in Strrchr(s, i, c) + 1 .. Len(s) : s[k] # c
<1>. DEFINE I == {k \in i..Len(s) : s[k] = c}
<1>1. Strrchr(s, i, c) = IF I # {} THEN Max(I) ELSE 0
  BY DEF Strrchr, SelectLastInSubSeq
<1>2. I \subseteq 0..Len(s) /\ Len(s) \in Nat
  OBVIOUS
<1>3. CASE I = {}
  BY <1>1, <1>3
<1>4. CASE I # {}
  <2>1. Max(I) \in I /\ \A y \in I : Max(I) >= y
    BY <1>2, <1>4, MaxOf
  <2>. HIDE DEF I
  <2>2. Strrchr(s, i, c) = Max(I)
    BY <1>1, <1>4
  <2>3. Strrchr(s, i, c) \in i..Len(s) /\ s[Strrchr(s, i, c)] = c
    BY <2>1, <2>2 DEF I
  <2>4. \A k \in Strrchr(s, i, c) + 1 .. Len(s) : k \notin I
    BY <2>1, <2>2, <2>3
  <2>5. \A k \in Strrchr(s, i, c) + 1 .. Len(s) : s[k] # c
    BY <2>3, <2>4 DEF I
  <2>. QED
    BY <2>3, <2>5
<1>. QED
  BY <1>3, <1>4

\* simple_strtoul stops at the first character from i on that is no digit.
LEMMA EndpFinds ==
    ASSUME NEW S, NEW s \in Seq(S), NEW i \in 1..Len(s) + 1
    PROVE  /\ Endp(s, i) \in i..Len(s) + 1
           /\ \A k \in i..Endp(s, i) - 1 : IsDigit(s[k])
           /\ Endp(s, i) <= Len(s) => ~IsDigit(s[Endp(s, i)])
<1>. DEFINE I == {k \in i..Len(s) : ~IsDigit(s[k])}
<1>1. Endp(s, i) = LET e == IF I # {} THEN Min(I) ELSE 0 IN IF e = 0 THEN Len(s) + 1 ELSE e
  BY DEF Endp, SelectInSubSeq
<1>2. I \subseteq Nat /\ Len(s) \in Nat
  OBVIOUS
<1>3. CASE I = {}
  BY <1>1, <1>3
<1>4. CASE I # {}
  <2>1. Min(I) \in I /\ \A y \in I : Min(I) <= y
    BY <1>2, <1>4, MinOf
  <2>2. Min(I) \in i..Len(s) /\ ~IsDigit(s[Min(I)])
    BY <2>1
  <2>3. Endp(s, i) = Min(I)
    BY <1>1, <1>4, <2>2
  <2>. HIDE DEF I
  <2>4. \A k \in i..Min(I) - 1 : k \notin I
    BY <2>1, <2>2
  <2>5. \A k \in i..Min(I) - 1 : IsDigit(s[k])
    BY <2>2, <2>4 DEF I
  <2>. QED
    BY <2>2, <2>3, <2>5
<1>. QED
  BY <1>3, <1>4

\* The characters from a to b of s are a number when there are some, all digits.
LEMMA NumberOfSubSeq ==
    ASSUME NEW S, NEW s \in Seq(S), NEW a \in 1..Len(s) + 1, NEW b \in 0..Len(s)
    PROVE  Number(SubSeq(s, a, b)) <=> a <= b /\ \A k \in a..b : IsDigit(s[k])
<1>1. /\ Len(SubSeq(s, a, b)) = IF a <= b THEN b - a + 1 ELSE 0
      /\ \A i \in 1..b - a + 1 : SubSeq(s, a, b)[i] = s[a + i - 1]
      /\ SubSeq(s, a, b) \in Seq(S)
  BY SubSeqProperties
<1>2. SubSeq(s, a, b) # <<>> <=> a <= b
  BY <1>1
<1>3. CASE a <= b
  <2>1. DOMAIN SubSeq(s, a, b) = 1..b - a + 1
    BY <1>1, <1>3
  <2>2. ASSUME \A i \in DOMAIN SubSeq(s, a, b) : IsDigit(SubSeq(s, a, b)[i]), NEW k \in a..b
        PROVE  IsDigit(s[k])
    <3>1. k - a + 1 \in 1..b - a + 1 /\ a + (k - a + 1) - 1 = k
      OBVIOUS
    <3>2. IsDigit(SubSeq(s, a, b)[k - a + 1]) /\ SubSeq(s, a, b)[k - a + 1] = s[a + (k - a + 1) - 1]
      BY <1>1, <2>1, <2>2, <3>1
    <3>. QED
      BY <3>1, <3>2
  <2>3. ASSUME \A k \in a..b : IsDigit(s[k]), NEW i \in DOMAIN SubSeq(s, a, b)
        PROVE  IsDigit(SubSeq(s, a, b)[i])
    <3>1. i \in 1..b - a + 1 /\ a + i - 1 \in a..b
      BY <2>1, <2>3
    <3>2. IsDigit(s[a + i - 1]) /\ SubSeq(s, a, b)[i] = s[a + i - 1]
      BY <1>1, <2>3, <3>1
    <3>. QED
      BY <3>2
  <2>. QED
    BY <1>2, <1>3, <2>2, <2>3 DEF Number
<1>. QED
  BY <1>2, <1>3 DEF Number

\* The value of a digit.
LEMMA DigitIs ==
    ASSUME NEW c, IsDigit(c)
    PROVE  Digit(c) \in 0..9
BY DEF IsDigit, Digit

\* What the fold over the digits of s does with the positions in p, modulo m unless
\* m is 0, when g says what it does with fewer.
DigitStep(s, m, g, p) ==
    IF p = {} THEN 0
    ELSE IF m = 0 THEN 10 * g[p \ {Max(p)}] + Digit(s[Max(p)])
    ELSE (10 * g[p \ {Max(p)}] + Digit(s[Max(p)])) % m

\* g is the fold over the sets of positions up to n.
FoldsDigits(g, s, m, n) == g = [p \in SUBSET (1..n) |-> DigitStep(s, m, g, p)]

\* A fold over n positions can be had over one more.
LEMMA FoldsOn ==
    ASSUME NEW s, NEW m, NEW n \in Nat, NEW g, FoldsDigits(g, s, m, n)
    PROVE  \E h : FoldsDigits(h, s, m, n + 1)
<1>. DEFINE h == [p \in SUBSET (1..n + 1) |->
                    IF p \in SUBSET (1..n) THEN g[p] ELSE DigitStep(s, m, g, p)]
<1>1. ASSUME NEW p \in SUBSET (1..n + 1) PROVE h[p] = DigitStep(s, m, h, p)
  <2>1. CASE p = {}
    <3>1. p \in SUBSET (1..n)
      BY <2>1
    <3>2. h[p] = g[p] /\ g[p] = DigitStep(s, m, g, p)
      BY <3>1 DEF FoldsDigits
    <3>. QED
      BY <2>1, <3>2 DEF DigitStep
  <2>2. CASE p # {}
    <3>1. n + 1 \in Nat /\ p \subseteq 0..n + 1
      OBVIOUS
    <3>2. Max(p) \in p /\ \A y \in p : Max(p) >= y
      BY <2>2, <3>1, MaxOf
    <3>. DEFINE r == p \ {Max(p)}
    <3>3. r \in SUBSET (1..n)
      <4>. SUFFICES ASSUME NEW y \in r PROVE y \in 1..n
        OBVIOUS
      <4>1. y \in 1..n + 1 /\ Max(p) \in 1..n + 1 /\ Max(p) >= y /\ y # Max(p)
        BY <3>2
      <4>. QED
        BY <4>1
    <3>4. r \in SUBSET (1..n + 1) /\ h[r] = g[r]
      BY <3>3
    <3>5. DigitStep(s, m, h, p) = DigitStep(s, m, g, p)
      BY <3>4 DEF DigitStep
    <3>6. h[p] = DigitStep(s, m, g, p)
      BY DEF FoldsDigits
    <3>. QED
      BY <3>5, <3>6
  <2>. QED
    BY <2>1, <2>2
<1>2. h = [p \in SUBSET (1..n + 1) |-> h[p]]
  OBVIOUS
<1>. HIDE DEF h
<1>3. h = [p \in SUBSET (1..n + 1) |-> DigitStep(s, m, h, p)]
  BY <1>1, <1>2
<1>. QED
  BY <1>3 DEF FoldsDigits

\* Hence over digits of any number.
LEMMA FoldExists ==
    ASSUME NEW s, NEW m, NEW n \in Nat
    PROVE  \E g : FoldsDigits(g, s, m, n)
<1>. DEFINE K == {k \in 0..n : \E g : FoldsDigits(g, s, m, k)}
<1>1. 0 \in K
  <2>. DEFINE g == [p \in SUBSET (1..0) |-> 0]
  <2>1. \A p \in SUBSET (1..0) : DigitStep(s, m, g, p) = 0
    BY DEF DigitStep
  <2>2. FoldsDigits(g, s, m, 0)
    BY <2>1 DEF FoldsDigits
  <2>3. \E f : FoldsDigits(f, s, m, 0)
    BY <2>2
  <2>. QED
    BY <2>3
<1>2. \A k \in 0..n : k # n /\ k \in K => k + 1 \in K
  <2>. SUFFICES ASSUME NEW k \in 0..n, k # n, k \in K PROVE k + 1 \in K
    OBVIOUS
  <2>1. PICK g : FoldsDigits(g, s, m, k)
    OBVIOUS
  <2>2. k \in Nat /\ k + 1 \in 0..n
    OBVIOUS
  <2>3. \E h : FoldsDigits(h, s, m, k + 1)
    BY <2>1, <2>2, FoldsOn
  <2>. QED
    BY <2>2, <2>3
<1>3. K \subseteq 0..n
  OBVIOUS
<1>. HIDE DEF K
<1>4. K = 0..n
  BY <1>1, <1>2, <1>3, Upward
<1>5. n \in K
  BY <1>4
<1>. QED
  BY <1>5 DEF K

\* The number that digits stand for is such a fold.
LEMMA ValueFolds ==
    ASSUME NEW S, NEW s \in Seq(S)
    PROVE  \E g : FoldsDigits(g, s, 0, Len(s)) /\ Value(s) = g[1..Len(s)]
<1>. DEFINE step(g, p) == IF p = {} THEN 0 ELSE 10 * g[p \ {Max(p)}] + Digit(s[Max(p)])
<1>. DEFINE c == CHOOSE g : g = [p \in SUBSET (1..Len(s)) |-> step(g, p)]
<1>1. DOMAIN s = 1..Len(s) /\ Len(s) \in Nat
  OBVIOUS
<1>2. \A g, p : DigitStep(s, 0, g, p) = step(g, p)
  BY DEF DigitStep
<1>3. Value(s) = (CHOOSE g : g = [p \in SUBSET (DOMAIN s) |-> step(g, p)])[DOMAIN s]
  BY DEF Value, FoldLeft, MapThenFoldSet
<1>4. Value(s) = c[1..Len(s)]
  BY <1>1, <1>3
<1>. HIDE DEF step
<1>5. \E g : g = [p \in SUBSET (1..Len(s)) |-> step(g, p)]
  <2>1. PICK g : FoldsDigits(g, s, 0, Len(s))
    BY <1>1, FoldExists
  <2>2. g = [p \in SUBSET (1..Len(s)) |-> step(g, p)]
    BY <1>2, <2>1 DEF FoldsDigits
  <2>. QED
    BY <2>2
<1>6. c = [p \in SUBSET (1..Len(s)) |-> step(c, p)]
  BY <1>5
<1>. HIDE DEF c
<1>7. FoldsDigits(c, s, 0, Len(s))
  BY <1>2, <1>6 DEF FoldsDigits
<1>. QED
  BY <1>4, <1>7

\* And what simple_strtoull makes of them is one with a modulus.
LEMMA StrtoullFolds ==
    ASSUME NEW S, NEW s \in Seq(S)
    PROVE  \E g : FoldsDigits(g, s, LongSize * LongSize, Len(s)) /\ Strtoull(s) = g[1..Len(s)]
<1>. DEFINE step(g, p) == IF p = {} THEN 0
                          ELSE (10 * g[p \ {Max(p)}] + Digit(s[Max(p)])) % (LongSize * LongSize)
<1>. DEFINE c == CHOOSE g : g = [p \in SUBSET (1..Len(s)) |-> step(g, p)]
<1>1. DOMAIN s = 1..Len(s) /\ Len(s) \in Nat
  OBVIOUS
<1>2. \A g, p : DigitStep(s, LongSize * LongSize, g, p) = step(g, p)
  <2>1. LongSize * LongSize # 0
    BY DiamondAssumption
  <2>. QED
    BY <2>1 DEF DigitStep
<1>3. Strtoull(s) = (CHOOSE g : g = [p \in SUBSET (DOMAIN s) |-> step(g, p)])[DOMAIN s]
  BY DEF Strtoull, FoldLeft, MapThenFoldSet
<1>4. Strtoull(s) = c[1..Len(s)]
  BY <1>1, <1>3
<1>. HIDE DEF step
<1>5. \E g : g = [p \in SUBSET (1..Len(s)) |-> step(g, p)]
  <2>1. PICK g : FoldsDigits(g, s, LongSize * LongSize, Len(s))
    BY <1>1, FoldExists
  <2>2. g = [p \in SUBSET (1..Len(s)) |-> step(g, p)]
    BY <1>2, <2>1 DEF FoldsDigits
  <2>. QED
    BY <2>2
<1>6. c = [p \in SUBSET (1..Len(s)) |-> step(c, p)]
  BY <1>5
<1>. HIDE DEF c
<1>7. FoldsDigits(c, s, LongSize * LongSize, Len(s))
  BY <1>2, <1>6 DEF FoldsDigits
<1>. QED
  BY <1>4, <1>7

\* simple_strtoull may overflow, but the bits that an unsigned long has of its result
\* are those of the number, however many digits it has.
LEMMA StrtoullKeeps ==
    ASSUME NEW S, NEW s \in Seq(S), \A i \in 1..Len(s) : IsDigit(s[i])
    PROVE  Value(s) \in Nat /\ Strtoull(s) \in Nat /\ Strtoull(s) % LongSize = Value(s) % LongSize
<1>. DEFINE n == Len(s)
<1>. DEFINE m == LongSize * LongSize
<1>1. n \in Nat /\ LongSize \in Nat \ {0} /\ m # 0
  BY DiamondAssumption
<1>2. PICK g : FoldsDigits(g, s, 0, n) /\ Value(s) = g[1..n]
  BY ValueFolds
<1>3. PICK h : FoldsDigits(h, s, m, n) /\ Strtoull(s) = h[1..n]
  BY StrtoullFolds
<1>4. m = LongSize * LongSize
  OBVIOUS
<1>. HIDE DEF n, m
<1>. DEFINE K == {k \in 0..n : g[1..k] \in Nat /\ h[1..k] \in Nat /\ h[1..k] % LongSize = g[1..k] % LongSize}
<1>5. 0 \in K
  <2>1. 1..0 \in SUBSET (1..n) /\ 1..0 = {} /\ 0 \in 0..n
    BY <1>1
  <2>2. g[1..0] = 0
    BY <1>2, <2>1 DEF FoldsDigits, DigitStep
  <2>3. h[1..0] = 0
    BY <1>3, <2>1 DEF FoldsDigits, DigitStep
  <2>. QED
    BY <2>1, <2>2, <2>3
<1>6. \A k \in 0..n : k # n /\ k \in K => k + 1 \in K
  <2>. SUFFICES ASSUME NEW k \in 0..n, k # n,
                      g[1..k] \in Nat, h[1..k] \in Nat, h[1..k] % LongSize = g[1..k] % LongSize
               PROVE  /\ k + 1 \in 0..n /\ g[1..k + 1] \in Nat /\ h[1..k + 1] \in Nat
                      /\ h[1..k + 1] % LongSize = g[1..k + 1] % LongSize
    OBVIOUS
  <2>1. k + 1 \in Nat \ {0} /\ k + 1 \in 1..n /\ k + 1 - 1 = k
    BY <1>1
  <2>2. Max(1..k + 1) = k + 1 /\ (1..k + 1) \ {Max(1..k + 1)} = 1..k /\ 1..k + 1 # {}
    BY <2>1, LastPosition
  <2>3. 1..k + 1 \in SUBSET (1..n)
    BY <1>1
  <2>. DEFINE d == Digit(s[k + 1])
  <2>4. d \in Nat
    <3>1. d \in 0..9
      BY <2>1, DigitIs DEF n
    <3>. HIDE DEF d
    <3>. QED
      BY <3>1
  <2>5. g[1..k + 1] = 10 * g[1..k] + d
    <3>1. g[1..k + 1] = DigitStep(s, 0, g, 1..k + 1)
      BY <1>2, <2>3 DEF FoldsDigits
    <3>. QED
      BY <2>2, <3>1 DEF DigitStep
  <2>6. h[1..k + 1] = (10 * h[1..k] + d) % m
    <3>1. h[1..k + 1] = DigitStep(s, m, h, 1..k + 1)
      BY <1>3, <2>3 DEF FoldsDigits
    <3>. QED
      BY <1>1, <2>2, <3>1 DEF DigitStep
  <2>. HIDE DEF d
  <2>. DEFINE x == g[1..k]
  <2>. DEFINE y == h[1..k]
  <2>7. 10 * y + d \in Nat /\ 10 * x + d \in Nat
    <3>1. \A z \in Nat : 10 * z + d \in Nat
      BY <2>4
    <3>. QED
      BY <3>1
  <2>8. ((10 * y + d) % m) % LongSize = (10 * y + d) % LongSize /\ (10 * y + d) % m \in Nat
    BY <1>1, <1>4, <2>7, ModMod
  <2>9. (10 * y + d) % LongSize = (10 * x + d) % LongSize
    BY <1>1, <2>4, ModStep
  <2>. QED
    BY <2>1, <2>5, <2>6, <2>7, <2>8, <2>9
<1>7. K \subseteq 0..n
  OBVIOUS
<1>. HIDE DEF K
<1>8. n \in K
  <2>1. K = 0..n
    BY <1>1, <1>5, <1>6, <1>7, Upward
  <2>. QED
    BY <1>1, <2>1
<1>. QED
  BY <1>2, <1>3, <1>8 DEF K

\* The int that nlmodel_parse stores is what an int can hold of the number that the
\* digits from a to b stand for.
LEMMA IntRead ==
    ASSUME NEW S, NEW s \in Seq(S), NEW a \in 1..Len(s) + 1, NEW b \in 0..Len(s),
           Endp(s, a) = b + 1
    PROVE  AsInt(Strtoul(s, a)) = AsInt(Value(SubSeq(s, a, b))) /\ Value(SubSeq(s, a, b)) \in Nat
<1>. DEFINE u == SubSeq(s, a, b)
<1>1. /\ Len(u) = IF a <= b THEN b - a + 1 ELSE 0
      /\ \A i \in 1..b - a + 1 : u[i] = s[a + i - 1]
      /\ u \in Seq(S)
  BY SubSeqProperties
<1>2. \A k \in a..b : IsDigit(s[k])
  <2>1. \A k \in a..Endp(s, a) - 1 : IsDigit(s[k])
    BY EndpFinds
  <2>. QED
    BY <2>1
<1>3. Strtoul(s, a) = Strtoull(u) % LongSize
  BY DEF Strtoul
<1>. HIDE DEF u
<1>4. ASSUME NEW i \in 1..Len(u) PROVE IsDigit(u[i])
  <2>1. a <= b /\ i \in 1..b - a + 1
    BY <1>1
  <2>2. a + i - 1 \in a..b
    BY <2>1
  <2>. QED
    BY <1>1, <1>2, <2>1, <2>2
<1>5. Value(u) \in Nat /\ Strtoull(u) \in Nat /\ Strtoull(u) % LongSize = Value(u) % LongSize
  BY <1>1, <1>4, StrtoullKeeps
<1>6. (Value(u) % LongSize) % LongSize = Value(u) % LongSize
  <2>. DEFINE w == Value(u) % LongSize
  <2>1. LongSize \in Nat \ {0}
    BY DiamondAssumption
  <2>2. w \in 0..LongSize - 1
    BY <1>5, <2>1, DivMod
  <2>. HIDE DEF w
  <2>3. (LongSize * 0 + w) % LongSize = w
    BY <2>1, <2>2, ModIs
  <2>4. LongSize * 0 + w = w
    BY <2>1, <2>2
  <2>5. w % LongSize = w
    BY <2>3, <2>4
  <2>. QED
    BY <2>5 DEF w
<1>7. Strtoul(s, a) % LongSize = Value(u) % LongSize
  BY <1>3, <1>5, <1>6
<1>8. AsInt(Strtoul(s, a)) = AsInt(Value(u))
  BY <1>7 DEF AsInt
<1>. QED
  BY <1>5, <1>8 DEF u

\* The one number below zero that nlmodel_parse stores stays what it is.
LEMMA UnknownIsInt == AsInt(Unknown) = Unknown
<1>1. (-1) % LongSize = LongSize - 1
  BY DiamondAssumption
<1>2. ~(LongSize - 1 < LongSize \div 2)
  BY DiamondAssumption
<1>. QED
  BY <1>1, <1>2, DiamondAssumption DEF AsInt, Unknown

\* nlmodel_parse does not return early: there is a dash, digits behind the last
\* one, and behind those a dot or nothing.
Accepts(s) ==
    LET dashp == Strrchr(s, 1, "-")
        endp == Endp(s, dashp + 1)
    IN  dashp # 0 /\ endp # dashp + 1 /\ (endp <= Len(s) => s[endp] = ".")

\* What a reading is, in terms of the positions in s.
LEMMA ReadingIs ==
    ASSUME NEW S, NEW s \in Seq(S), NEW r
    PROVE  r \in Readings(s) <=>
              /\ r \in (1..Len(s)) \X (1..Len(s))
              /\ s[r[1]] = "-"
              /\ r[1] + 1 <= r[2] /\ \A k \in r[1] + 1 .. r[2] : IsDigit(s[k])
              /\ r[2] = Len(s) \/ s[r[2] + 1] = "."
              /\ \A k \in r[2] + 1 .. Len(s) : s[k] # "-"
<1>1. ASSUME r \in (1..Len(s)) \X (1..Len(s))
      PROVE  Number(SubSeq(s, r[1] + 1, r[2])) <=>
                r[1] + 1 <= r[2] /\ \A k \in r[1] + 1 .. r[2] : IsDigit(s[k])
  <2>1. r[1] + 1 \in 1..Len(s) + 1 /\ r[2] \in 0..Len(s)
    BY <1>1
  <2>. QED
    BY <2>1, NumberOfSubSeq
<1>. QED
  BY <1>1 DEF Readings

\* A reading begins at the last dash and ends where the digits end.
LEMMA ReadingUnique ==
    ASSUME NEW S, NEW s \in Seq(S), NEW r \in Readings(s)
    PROVE  /\ Accepts(s)
           /\ r[1] = Strrchr(s, 1, "-")
           /\ r[2] = Endp(s, r[1] + 1) - 1
<1>. DEFINE d == Strrchr(s, 1, "-")
<1>. DEFINE e == Endp(s, r[1] + 1)
<1>1. /\ r[1] \in 1..Len(s) /\ r[2] \in 1..Len(s) /\ Len(s) \in Nat
      /\ s[r[1]] = "-"
      /\ r[1] + 1 <= r[2] /\ \A k \in r[1] + 1 .. r[2] : IsDigit(s[k])
      /\ r[2] = Len(s) \/ s[r[2] + 1] = "."
      /\ \A k \in r[2] + 1 .. Len(s) : s[k] # "-"
  BY ReadingIs
<1>2. \/ d = 0 /\ \A k \in 1..Len(s) : s[k] # "-"
      \/ /\ d \in 1..Len(s)
         /\ s[d] = "-"
         /\ \A k \in d + 1 .. Len(s) : s[k] # "-"
  <2>1. 1 \in 1..Len(s) + 1
    BY <1>1
  <2>. QED
    BY <2>1, StrrchrFinds
<1>. HIDE DEF d
<1>3. d \in 1..Len(s) /\ s[d] = "-" /\ \A k \in d + 1 .. Len(s) : s[k] # "-"
  BY <1>1, <1>2
<1>4. d = r[1]
  <2>1. ~(d < r[1])
    BY <1>1, <1>3
  <2>2. ASSUME d > r[1] PROVE FALSE
    <3>1. d \in r[1] + 1 .. r[2] \/ d \in r[2] + 1 .. Len(s)
      BY <1>1, <1>3, <2>2
    <3>. QED
      BY <1>1, <1>3, <3>1, Separators
  <2>. QED
    BY <1>1, <1>3, <2>1, <2>2
<1>5. /\ e \in r[1] + 1 .. Len(s) + 1
      /\ \A k \in r[1] + 1 .. e - 1 : IsDigit(s[k])
      /\ e <= Len(s) => ~IsDigit(s[e])
  <2>1. r[1] + 1 \in 1..Len(s) + 1
    BY <1>1
  <2>. QED
    BY <2>1, EndpFinds
<1>. HIDE DEF e
<1>6. e = r[2] + 1
  <2>1. ASSUME e < r[2] + 1 PROVE FALSE
    <3>1. e \in r[1] + 1 .. r[2] /\ e <= Len(s)
      BY <1>1, <1>5, <2>1
    <3>. QED
      BY <1>1, <1>5, <3>1
  <2>2. ASSUME e > r[2] + 1 PROVE FALSE
    <3>1. r[2] + 1 \in r[1] + 1 .. e - 1 /\ r[2] # Len(s)
      BY <1>1, <1>5, <2>2
    <3>. QED
      BY <1>1, <1>5, <3>1, Separators
  <2>. QED
    BY <1>1, <1>5, <2>1, <2>2
<1>7. Accepts(s)
  <2>1. d # 0 /\ e # d + 1 /\ (e <= Len(s) => s[e] = ".")
    BY <1>1, <1>3, <1>4, <1>6
  <2>. QED
    BY <2>1, <1>4 DEF Accepts, d, e
<1>. QED
  BY <1>1, <1>4, <1>6, <1>7 DEF d, e

\* What the parser accepts has a reading.
LEMMA AcceptedIsRead ==
    ASSUME NEW S, NEW s \in Seq(S), Accepts(s)
    PROVE  <<Strrchr(s, 1, "-"), Endp(s, Strrchr(s, 1, "-") + 1) - 1>> \in Readings(s)
<1>. DEFINE d == Strrchr(s, 1, "-")
<1>. DEFINE e == Endp(s, d + 1)
<1>1. Len(s) \in Nat /\ 1 \in 1..Len(s) + 1
  OBVIOUS
<1>2. d # 0 /\ e # d + 1 /\ (e <= Len(s) => s[e] = ".")
  BY DEF Accepts
<1>3. \/ d = 0 /\ \A k \in 1..Len(s) : s[k] # "-"
      \/ /\ d \in 1..Len(s)
         /\ s[d] = "-"
         /\ \A k \in d + 1 .. Len(s) : s[k] # "-"
  BY <1>1, StrrchrFinds
<1>. HIDE DEF d
<1>4. d + 1 \in 1..Len(s) + 1
  BY <1>1, <1>2, <1>3
<1>5. /\ e \in d + 1 .. Len(s) + 1
      /\ \A k \in d + 1 .. e - 1 : IsDigit(s[k])
      /\ e <= Len(s) => ~IsDigit(s[e])
  BY <1>4, EndpFinds
<1>. HIDE DEF e
<1>. DEFINE r == <<d, e - 1>>
<1>6. d \in 1..Len(s) /\ e - 1 \in 1..Len(s)
  BY <1>1, <1>2, <1>3, <1>5
<1>7. r \in (1..Len(s)) \X (1..Len(s)) /\ r[1] = d /\ r[2] = e - 1
  BY <1>6
<1>. HIDE DEF r
<1>8. /\ s[r[1]] = "-"
      /\ r[1] + 1 <= r[2] /\ \A k \in r[1] + 1 .. r[2] : IsDigit(s[k])
      /\ r[2] = Len(s) \/ s[r[2] + 1] = "."
      /\ \A k \in r[2] + 1 .. Len(s) : s[k] # "-"
  BY <1>1, <1>2, <1>3, <1>5, <1>6, <1>7
<1>9. r \in Readings(s)
  BY <1>7, <1>8, ReadingIs
<1>. QED
  BY <1>9 DEF r, d, e

\* What is behind the first a characters.
LEMMA Behind ==
    ASSUME NEW S, NEW s \in Seq(S), NEW a \in 0..Len(s)
    PROVE  /\ SubSeq(s, a + 1, Len(s)) \in Seq(S)
           /\ Len(SubSeq(s, a + 1, Len(s))) = Len(s) - a
           /\ \A k \in 1..Len(s) - a : SubSeq(s, a + 1, Len(s))[k] = s[a + k]
<1>. DEFINE m == a + 1
<1>0. Len(s) \in Nat /\ m \in Int /\ Len(s) \in Int /\ m = a + 1
  OBVIOUS
<1>1. \A i \in m..Len(s) : s[i] \in S
  OBVIOUS
<1>. HIDE DEF m
<1>2. /\ SubSeq(s, m, Len(s)) \in Seq(S)
      /\ Len(SubSeq(s, m, Len(s))) = IF m <= Len(s) THEN Len(s) - m + 1 ELSE 0
      /\ \A k \in 1..Len(s) - m + 1 : SubSeq(s, m, Len(s))[k] = s[m + k - 1]
  BY <1>0, <1>1, SubSeqProperties
<1>3. Len(SubSeq(s, m, Len(s))) = Len(s) - a
  BY <1>0, <1>2
<1>4. ASSUME NEW k \in 1..Len(s) - a
      PROVE  SubSeq(s, m, Len(s))[k] = s[a + k]
  <2>1. k \in 1..Len(s) - m + 1 /\ m + k - 1 = a + k
    BY <1>0
  <2>. QED
    BY <1>2, <2>1
<1>. QED
  BY <1>2, <1>3, <1>4 DEF m

\* What is behind k characters more.
LEMMA BehindBehind ==
    ASSUME NEW S, NEW s \in Seq(S), NEW a \in 0..Len(s), NEW k \in 0..Len(s) - a
    PROVE  LET t == SubSeq(s, a + 1, Len(s))
           IN  SubSeq(t, k + 1, Len(t)) = SubSeq(s, a + k + 1, Len(s))
<1>. DEFINE t == SubSeq(s, a + 1, Len(s))
<1>. DEFINE u == SubSeq(t, k + 1, Len(t))
<1>. DEFINE v == SubSeq(s, a + k + 1, Len(s))
<1>0. Len(s) \in Nat /\ a + k \in 0..Len(s)
  OBVIOUS
<1>1. t \in Seq(S) /\ Len(t) = Len(s) - a /\ \A i \in 1..Len(s) - a : t[i] = s[a + i]
  BY Behind
<1>2. v \in Seq(S) /\ Len(v) = Len(s) - (a + k) /\ \A i \in 1..Len(s) - (a + k) : v[i] = s[(a + k) + i]
  BY <1>0, Behind
<1>. HIDE DEF t, v
<1>3. u \in Seq(S) /\ Len(u) = Len(t) - k /\ \A i \in 1..Len(t) - k : u[i] = t[k + i]
  <2>1. k \in 0..Len(t)
    BY <1>1
  <2>. QED
    BY <1>1, <2>1, Behind
<1>. HIDE DEF u
<1>4. Len(u) = Len(v)
  BY <1>0, <1>1, <1>2, <1>3
<1>5. ASSUME NEW i \in 1..Len(u) PROVE u[i] = v[i]
  <2>1. /\ i \in 1..Len(t) - k /\ k + i \in 1..Len(s) - a
        /\ i \in 1..Len(s) - (a + k) /\ a + (k + i) = (a + k) + i
    BY <1>0, <1>1, <1>3, <1>5
  <2>. QED
    BY <1>1, <1>2, <1>3, <2>1
<1>6. u = v
  BY <1>2, <1>3, <1>4, <1>5, SeqEqual
<1>. QED
  BY <1>6 DEF t, u, v

\* The number behind a dot that ends the tail is the one nlmodel_parse reads behind
\* the last dot of the identifier, and there is none where it reads none.
LEMMA RevisionRead ==
    ASSUME NEW S, NEW s \in Seq(S), NEW r \in Readings(s)
    PROVE  LET dotp == Strrchr(s, r[1], ".")
               enddot == Endp(s, dotp + 1)
           IN  RevisionsIn(SubSeq(s, r[2] + 1, Len(s))) =
                  IF dotp # 0 /\ enddot > dotp + 1 /\ enddot = Len(s) + 1
                  THEN {Value(SubSeq(s, dotp + 1, Len(s)))} ELSE {}
<1>. DEFINE n == Len(s)
<1>. DEFINE t == SubSeq(s, r[2] + 1, n)
<1>. DEFINE p == Strrchr(s, r[1], ".")
<1>. DEFINE e == Endp(s, p + 1)
<1>. DEFINE K == {k \in 1..Len(t) : t[k] = "." /\ Number(SubSeq(t, k + 1, Len(t)))}
<1>1. /\ r[1] \in 1..n /\ r[2] \in 1..n /\ n \in Nat
      /\ s[r[1]] = "-"
      /\ r[1] + 1 <= r[2] /\ \A k \in r[1] + 1 .. r[2] : IsDigit(s[k])
  BY ReadingIs
<1>2. /\ Len(t) = n - r[2]
      /\ \A k \in 1..n - r[2] : t[k] = s[r[2] + k]
      /\ t \in Seq(S)
  <2>1. r[2] \in 0..n
    BY <1>1
  <2>. QED
    BY <2>1, Behind
<1>3. \A k \in 1..Len(t) : SubSeq(t, k + 1, Len(t)) = SubSeq(s, r[2] + k + 1, n)
  <2>. SUFFICES ASSUME NEW k \in 1..Len(t)
               PROVE  SubSeq(t, k + 1, Len(t)) = SubSeq(s, r[2] + k + 1, n)
    OBVIOUS
  <2>1. r[2] \in 0..n /\ k \in 0..n - r[2]
    BY <1>1, <1>2
  <2>. QED
    BY <2>1, BehindBehind
<1>. HIDE DEF t
<1>4. \A k \in 1..Len(t) : k \in K <=>
         /\ s[r[2] + k] = "."
         /\ r[2] + k + 1 <= n /\ \A i \in r[2] + k + 1 .. n : IsDigit(s[i])
  <2>. SUFFICES ASSUME NEW k \in 1..Len(t)
               PROVE  k \in K <=>
                        /\ s[r[2] + k] = "."
                        /\ r[2] + k + 1 <= n /\ \A i \in r[2] + k + 1 .. n : IsDigit(s[i])
    OBVIOUS
  <2>1. k \in 1..n - r[2] /\ t[k] = s[r[2] + k]
    BY <1>2
  <2>2. r[2] + k + 1 \in 1..n + 1 /\ n \in 0..n
    BY <1>1, <2>1
  <2>3. Number(SubSeq(s, r[2] + k + 1, n)) <=>
           r[2] + k + 1 <= n /\ \A i \in r[2] + k + 1 .. n : IsDigit(s[i])
    BY <2>2, NumberOfSubSeq
  <2>. QED
    BY <1>3, <2>1, <2>3
<1>5. \/ p = 0 /\ \A k \in r[1]..n : s[k] # "."
      \/ /\ p \in r[1]..n
         /\ s[p] = "."
         /\ \A k \in p + 1 .. n : s[k] # "."
  <2>1. r[1] \in 1..n + 1
    BY <1>1
  <2>. QED
    BY <2>1, StrrchrFinds
<1>. HIDE DEF p, K
<1>6. p # 0 => p \in r[2] + 1 .. n
  <2>. SUFFICES ASSUME p # 0 PROVE p \in r[2] + 1 .. n
    OBVIOUS
  <2>1. p \in r[1]..n /\ s[p] = "."
    BY <1>5
  <2>2. p # r[1] /\ p \notin r[1] + 1 .. r[2]
    BY <1>1, <2>1, Separators
  <2>. QED
    BY <1>1, <2>1, <2>2
<1>7. p # 0 => /\ e \in p + 1 .. n + 1
               /\ \A k \in p + 1 .. e - 1 : IsDigit(s[k])
               /\ e <= n => ~IsDigit(s[e])
  <2>. SUFFICES ASSUME p # 0
               PROVE  /\ e \in p + 1 .. n + 1
                      /\ \A k \in p + 1 .. e - 1 : IsDigit(s[k])
                      /\ e <= n => ~IsDigit(s[e])
    OBVIOUS
  <2>1. p + 1 \in 1..n + 1
    BY <1>1, <1>6
  <2>. QED
    BY <2>1, EndpFinds
<1>. HIDE DEF e
<1>8. ASSUME NEW k \in K
      PROVE  p = r[2] + k /\ e = n + 1 /\ e > p + 1
  <2>1. /\ k \in 1..n - r[2]
        /\ s[r[2] + k] = "."
        /\ r[2] + k + 1 <= n /\ \A i \in r[2] + k + 1 .. n : IsDigit(s[i])
    BY <1>2, <1>4 DEF K
  <2>2. r[2] + k \in r[1]..n
    BY <1>1, <2>1
  <2>3. p # 0 /\ p \in r[2] + 1 .. n /\ s[p] = "." /\ \A j \in p + 1 .. n : s[j] # "."
    <3>1. ~\A j \in r[1]..n : s[j] # "."
      BY <2>1, <2>2
    <3>2. p # 0
      BY <1>1, <1>5, <3>1
    <3>. QED
      BY <1>5, <1>6, <3>2
  <2>4. p \notin r[2] + k + 1 .. n
    BY <2>1, <2>3, Separators
  <2>5. r[2] + k \notin p + 1 .. n
    BY <2>1, <2>3
  <2>6. p = r[2] + k
    BY <1>1, <2>1, <2>3, <2>4, <2>5
  <2>7. e \in p + 1 .. n + 1 /\ (e <= n => ~IsDigit(s[e]))
    BY <1>7, <2>3
  <2>8. ~(e <= n)
    <3>. SUFFICES ASSUME e <= n PROVE FALSE
      OBVIOUS
    <3>1. e \in r[2] + k + 1 .. n
      BY <1>1, <2>3, <2>6, <2>7
    <3>. QED
      BY <2>1, <2>7, <3>1
  <2>. QED
    BY <1>1, <2>1, <2>3, <2>6, <2>7, <2>8
<1>9. ASSUME p # 0, e > p + 1, e = n + 1
      PROVE  p - r[2] \in K
  <2>1. p \in r[2] + 1 .. n /\ s[p] = "."
    BY <1>5, <1>6, <1>9
  <2>2. p - r[2] \in 1..Len(t) /\ r[2] + (p - r[2]) = p
    BY <1>1, <1>2, <2>1
  <2>3. \A i \in p + 1 .. n : IsDigit(s[i])
    BY <1>1, <1>7, <1>9, <2>1
  <2>4. p + 1 <= n
    BY <1>1, <1>9, <2>1
  <2>. QED
    BY <1>4, <2>1, <2>2, <2>3, <2>4
<1>10. RevisionsIn(t) = {Value(SubSeq(t, k + 1, Len(t))) : k \in K}
  BY DEF RevisionsIn, K
<1>11. CASE p # 0 /\ e > p + 1 /\ e = n + 1
  <2>1. K = {p - r[2]}
    <3>1. \A k \in K : k \in Int
      BY <1>2 DEF K
    <3>2. \A k \in K : k = p - r[2]
      BY <1>1, <1>8, <3>1
    <3>. QED
      BY <1>9, <1>11, <3>2
  <2>2. p - r[2] \in 1..Len(t) /\ r[2] + (p - r[2]) + 1 = p + 1
    BY <1>1, <1>2, <1>6, <1>11
  <2>3. SubSeq(t, p - r[2] + 1, Len(t)) = SubSeq(s, p + 1, n)
    BY <1>3, <2>2
  <2>4. RevisionsIn(t) = {Value(SubSeq(s, p + 1, n))}
    BY <1>10, <2>1, <2>3
  <2>. QED
    BY <1>11, <2>4 DEF p, e, t
<1>12. CASE ~(p # 0 /\ e > p + 1 /\ e = n + 1)
  <2>1. K = {}
    <3>1. \A k \in K : p # 0
      BY <1>1, <1>2, <1>8 DEF K
    <3>. QED
      BY <1>8, <1>12, <3>1
  <2>2. RevisionsIn(t) = {}
    BY <1>10, <2>1
  <2>. QED
    BY <1>12, <2>2 DEF p, e, t
<1>. QED
  BY <1>11, <1>12

\* The fields of a model whose numbers are cut to ints.
LEMMA InIntsIs ==
    ASSUME NEW parsed, NEW family, NEW product, NEW revision
    PROVE  InInts([parsed |-> parsed, family |-> family, product |-> product, revision |-> revision])
             = [parsed |-> parsed, family |-> family, product |-> AsInt(product),
                revision |-> AsInt(revision)]
BY DEF InInts

\* nlmodel_parse reads what there is to read, for identifiers of every length: what
\* ints can hold of the reading of the grammar, which is unique, or nothing.
LEMMA ParseReads ==
    ASSUME NEW S, NEW s \in Seq(S)
    PROVE  /\ Readings(s) = {} => NlmodelParse(s) = NlmodelInit
           /\ \A r \in Readings(s) : NlmodelParse(s) = InInts(ModelRead(s, r))
           /\ \A r \in Readings(s), q \in Readings(s) : r = q
<1>1. ~Accepts(s) => NlmodelParse(s) = NlmodelInit
  BY DEF Accepts, NlmodelParse
<1>2. Readings(s) = {} => ~Accepts(s)
  BY AcceptedIsRead
<1>3. ASSUME NEW r \in Readings(s) PROVE NlmodelParse(s) = InInts(ModelRead(s, r))
  <2>. DEFINE p == Strrchr(s, r[1], ".")
  <2>. DEFINE e == Endp(s, p + 1)
  <2>. DEFINE R == RevisionsIn(SubSeq(s, r[2] + 1, Len(s)))
  <2>. DEFINE revision == IF R = {} THEN Unknown ELSE CHOOSE v \in R : TRUE
  <2>. DEFINE dotted == p # 0 /\ e > p + 1 /\ e = Len(s) + 1
  <2>1. Accepts(s) /\ r[1] = Strrchr(s, 1, "-") /\ r[2] = Endp(s, r[1] + 1) - 1
    BY ReadingUnique
  <2>2. NlmodelParse(s) =
           [parsed |-> TRUE, family |-> SubSeq(s, 1, r[1] - 1),
            product |-> AsInt(Strtoul(s, r[1] + 1)),
            revision |-> IF dotted THEN AsInt(Strtoul(s, p + 1)) ELSE Unknown]
    BY <2>1 DEF Accepts, NlmodelParse
  <2>3. r[1] \in 1..Len(s) /\ r[2] \in 1..Len(s) /\ Len(s) \in Nat
    BY ReadingIs
  <2>4. AsInt(Strtoul(s, r[1] + 1)) = AsInt(Value(SubSeq(s, r[1] + 1, r[2])))
    <3>1. r[1] + 1 \in 1..Len(s) + 1 /\ r[2] \in 0..Len(s)
      BY <2>3
    <3>2. Endp(s, r[1] + 1) \in r[1] + 1 .. Len(s) + 1
      BY <3>1, EndpFinds
    <3>3. Endp(s, r[1] + 1) = r[2] + 1
      BY <2>1, <2>3, <3>2
    <3>. QED
      BY <3>1, <3>3, IntRead
  <2>5. R = IF dotted THEN {Value(SubSeq(s, p + 1, Len(s)))} ELSE {}
    BY RevisionRead
  <2>6. dotted => AsInt(Strtoul(s, p + 1)) = AsInt(Value(SubSeq(s, p + 1, Len(s))))
    <3>. SUFFICES ASSUME dotted
                 PROVE  AsInt(Strtoul(s, p + 1)) = AsInt(Value(SubSeq(s, p + 1, Len(s))))
      OBVIOUS
    <3>1. r[1] \in 1..Len(s) + 1
      BY <2>3
    <3>2. p \in r[1]..Len(s)
      BY <3>1, StrrchrFinds
    <3>3. p + 1 \in 1..Len(s) + 1 /\ Len(s) \in 0..Len(s)
      BY <2>3, <3>2
    <3>. HIDE DEF p
    <3>. QED
      BY <3>3, IntRead
  <2>. HIDE DEF R, p, e, dotted
  <2>7. AsInt(revision) = IF dotted THEN AsInt(Strtoul(s, p + 1)) ELSE Unknown
    <3>1. CASE dotted
      <4>1. revision = Value(SubSeq(s, p + 1, Len(s)))
        BY <2>5, <3>1
      <4>. QED
        BY <2>6, <3>1, <4>1
    <3>2. CASE ~dotted
      <4>1. revision = Unknown
        BY <2>5, <3>2
      <4>. QED
        BY <3>2, <4>1, UnknownIsInt
    <3>. QED
      BY <3>1, <3>2
  <2>8. ModelRead(s, r) =
           [parsed |-> TRUE, family |-> SubSeq(s, 1, r[1] - 1),
            product |-> Value(SubSeq(s, r[1] + 1, r[2])), revision |-> revision]
    BY DEF ModelRead, R
  <2>. HIDE DEF revision
  <2>9. InInts(ModelRead(s, r)) =
           [parsed |-> TRUE, family |-> SubSeq(s, 1, r[1] - 1),
            product |-> AsInt(Value(SubSeq(s, r[1] + 1, r[2]))), revision |-> AsInt(revision)]
    <3>. DEFINE f == SubSeq(s, 1, r[1] - 1)
    <3>. DEFINE q == Value(SubSeq(s, r[1] + 1, r[2]))
    <3>. HIDE DEF f, q
    <3>1. InInts([parsed |-> TRUE, family |-> f, product |-> q, revision |-> revision]) =
            [parsed |-> TRUE, family |-> f, product |-> AsInt(q), revision |-> AsInt(revision)]
      BY InIntsIs
    <3>. QED
      BY <2>8, <3>1 DEF f, q
  <2>. QED
    BY <2>2, <2>4, <2>7, <2>9
<1>4. \A r \in Readings(s), q \in Readings(s) : r = q
  <2>1. \A r \in Readings(s) : r \in (1..Len(s)) \X (1..Len(s))
    BY ReadingIs
  <2>2. \A r \in Readings(s), q \in Readings(s) : r[1] = q[1] /\ r[2] = q[2]
    BY ReadingUnique
  <2>. QED
    BY <2>1, <2>2
<1>. QED
  BY <1>1, <1>2, <1>3, <1>4

-----------------------------------------------------------------------------
(***************************************************************************)
(* The board: what diamond_init chooses.                                   *)
(***************************************************************************)

\* The model that diamond_init has once the identifier is parsed.
ModelOf(id) == IF id = NoIdentifier THEN NlmodelInit ELSE NlmodelParse(id)

\* What the fallback works with.
FallbackChoice ==
    [family   |-> IF model.parsed THEN model.family ELSE Diamond,
     product  |-> Given(model.product, IF High + Low = 0 THEN Unknown ELSE High),
     revision |-> Given(model.revision, IF High + Low = 0 THEN Unknown ELSE Low)]

\* No boot ends in the BUG_ON.
Booting ==
    /\ at \in {"cmdline", "fallback", "guess", "init", "display", "up", "oops"}
    /\ identifier \in Identifiers \cup {NoIdentifier}
    /\ system_rev \in SystemRevs

\* From the parser until nlmodel_destroy the model is what the identifier says, and
\* diamond_backplate_init survives exactly the models that were parsed.
ModelRight ==
    /\ at \in {"fallback", "guess", "init", "display", "oops"} => model = ModelOf(identifier)
    /\ at = "display" => model.parsed
    /\ at = "oops" => ~model.parsed

\* The data that was found is that of the choice, which has the identifier, the
\* revision word or the guess behind it, each only when those before it failed.
ChoiceRight ==
    at \in {"init", "display"} =>
        /\ didp = Data(choice)
        /\ didp # None
        /\ \/ /\ source = "identifier"
              /\ model.parsed
              /\ choice = [family |-> model.family, product |-> model.product,
                           revision |-> model.revision]
           \/ source = "system_rev" /\ choice = FallbackChoice
           \/ /\ source = "guess"
              /\ choice = [family |-> Diamond, product |-> 1, revision |-> 10]
              /\ Data(FallbackChoice) = None

\* The guess is reached when the fallback has found nothing.
Exhausted == at = "guess" => Data(FallbackChoice) = None

\* The backplate is that of the model parsed.
BackplateRight ==
    at = "display" =>
        backplate = IF model.family = Diamond /\ model.revision <= 3 THEN "old" ELSE "new"

\* Where the identifier did not decide, it names no supported model.
Refused ==
    at \in {"fallback", "guess"} \/ (at = "init" /\ source # "identifier") =>
        (model.parsed => Data(model) = None)

BoardInv == Booting /\ ModelRight /\ ChoiceRight /\ Exhausted /\ BackplateRight /\ Refused

\* Characters that were not passed are no identifier.
LEMMA NothingRead == NoIdentifier \in Seq({"none"}) /\ Readings(NoIdentifier) = {}
<1>1. NoIdentifier \in Seq({"none"}) /\ Len(NoIdentifier) = 2
  BY DEF NoIdentifier
<1>2. NoIdentifier[1] # "-" /\ NoIdentifier[2] # "-"
  BY DEF NoIdentifier
<1>3. \A i \in 1..Len(NoIdentifier) : NoIdentifier[i] # "-"
  BY <1>1, <1>2
<1>. QED
  BY <1>1, <1>3 DEF Readings

\* The model is what the identifier says.
LEMMA ModelIsRead ==
    ASSUME NEW id \in Identifiers \cup {NoIdentifier}
    PROVE  /\ Readings(id) = {} => ModelOf(id) = NlmodelInit
           /\ \A r \in Readings(id) : ModelOf(id) = InInts(ModelRead(id, r))
           /\ ModelOf(id).parsed <=> Readings(id) # {}
           /\ ModelOf(id).parsed \in BOOLEAN
<1>1. \E S : id \in Seq(S)
  BY DiamondAssumption, NothingRead
<1>2. Readings(id) = {} => ModelOf(id) = NlmodelInit
  BY <1>1, ParseReads DEF ModelOf
<1>3. \A r \in Readings(id) : ModelOf(id) = InInts(ModelRead(id, r))
  BY <1>1, ParseReads, NothingRead DEF ModelOf
<1>4. NlmodelInit.parsed = FALSE /\ \A r : InInts(ModelRead(id, r)).parsed = TRUE
  BY DEF NlmodelInit, ModelRead, InInts
<1>. QED
  BY <1>2, <1>3, <1>4

\* The bytes of the revision word.
LEMMA RevisionBytes ==
    ASSUME system_rev \in Nat
    PROVE  High \in 0..255 /\ Low \in 0..255 /\ (system_rev = 0 => High = 0 /\ Low = 0)
BY DEF High, Low

\* Decoding the bytes as BCD would make a difference for 0x0210 only.
LEMMA Decoding ==
    ASSUME NEW h \in 0..255, NEW l \in 0..255
    PROVE  \/ InitData(Diamond, Bcd(h), Bcd(l)) = InitData(Diamond, h, l)
           \/ h = 2 /\ l = 16 /\ InitData(Diamond, h, l) = "2_11"
<1>1. Bcd(h) \in Nat /\ (Bcd(h) = 1 <=> h = 1) /\ (Bcd(h) = 2 <=> h = 2)
  BY DEF Bcd
<1>2. Bcd(l) \in Nat /\ (l <= 15 => Bcd(l) = l) /\ (l >= 16 => Bcd(l) >= 10) /\ (l >= 17 => Bcd(l) >= 11)
  BY DEF Bcd
<1>3. Diamond \in {Diamond, Display}
  OBVIOUS
<1>4. DiamondData(Bcd(l)) = DiamondData(l)
  <2>1. CASE l <= 15
    BY <1>2, <2>1
  <2>2. CASE l >= 16
    BY <1>2, <2>2 DEF DiamondData
  <2>. QED
    BY <2>1, <2>2
<1>5. DisplayData(Bcd(l)) = DisplayData(l) \/ (l = 16 /\ DisplayData(l) = "2_11")
  <2>1. CASE l <= 15
    BY <1>2, <2>1
  <2>2. CASE l = 16
    BY <2>2 DEF DisplayData
  <2>3. CASE l >= 17
    BY <1>2, <2>3 DEF DisplayData
  <2>. QED
    BY <2>1, <2>2, <2>3
<1>6. CASE h = 1
  <2>1. InitData(Diamond, h, l) = DiamondData(l) /\ InitData(Diamond, Bcd(h), Bcd(l)) = DiamondData(Bcd(l))
    BY <1>1, <1>3, <1>6 DEF InitData
  <2>. QED
    BY <1>4, <2>1
<1>7. CASE h = 2
  <2>1. InitData(Diamond, h, l) = DisplayData(l) /\ InitData(Diamond, Bcd(h), Bcd(l)) = DisplayData(Bcd(l))
    BY <1>1, <1>3, <1>7 DEF InitData
  <2>. QED
    BY <1>5, <1>7, <2>1
<1>8. CASE h \notin {1, 2}
  BY <1>1, <1>3, <1>8 DEF InitData
<1>. QED
  BY <1>6, <1>7, <1>8

\* No word names an unsupported revision of a supported product.
LEMMA Unsupported ==
    ASSUME NEW l \in 0..255
    PROVE  InitData(Diamond, 1, l) # None /\ InitData(Diamond, 2, l) # None
<1>1. Diamond \in {Diamond, Display}
  OBVIOUS
<1>2. DiamondData(l) # None /\ DisplayData(l) # None
  BY DEF DiamondData, DisplayData, None
<1>. QED
  BY <1>1, <1>2 DEF InitData

\* The guess is a supported model.
LEMMA GuessSupported == InitData(Diamond, 1, 10) = "1_7"
BY DEF InitData, DiamondData

\* An unknown product is none.
LEMMA UnknownUnsupported ==
    ASSUME NEW revision PROVE InitData(Diamond, Unknown, revision) = None
BY DEF InitData, Unknown

\* BoardInv holds in every state of the boot, for all identifiers and revision words:
\* diamond_init always ends with data for a supported model, and the BUG_ON is dead.
THEOREM BoardInductive == BoardSpec => []BoardInv
<1>1. BoardInit => BoardInv
  BY DEF BoardInit, BoardInv, Booting, ModelRight, ChoiceRight, Exhausted, BackplateRight, Refused
<1>2. BoardInv /\ [BoardNext]_boardVars => BoardInv'
  <2>. SUFFICES ASSUME BoardInv, [BoardNext]_boardVars
               PROVE  BoardInv'
    OBVIOUS
  <2>. USE DEF BoardInv
  <2>1. ASSUME NEW id \in Identifiers, NlmodelSetup(id) PROVE BoardInv'
    BY <2>1 DEF NlmodelSetup, Booting, ModelRight, ChoiceRight, Exhausted, BackplateRight, Refused
  <2>2. CASE Identify
    <3>. DEFINE c == [family |-> model'.family, product |-> model'.product,
                      revision |-> model'.revision]
    <3>1. /\ at = "cmdline" /\ model' = ModelOf(identifier) /\ choice' = c
          /\ didp' = (IF model'.parsed THEN Data(choice') ELSE None)
          /\ source' = (IF didp' = None THEN None ELSE "identifier")
          /\ at' = (IF didp' = None THEN "fallback" ELSE "init")
          /\ UNCHANGED <<identifier, system_rev, backplate, display>>
      BY <2>2 DEF Identify, ModelOf
    <3>. HIDE DEF c
    <3>2. Booting' /\ ModelRight' /\ Exhausted' /\ BackplateRight'
      BY <3>1 DEF Booting, ModelRight, Exhausted, BackplateRight
    <3>3. Refused'
      BY <3>1 DEF Refused, Data, c
    <3>4. ChoiceRight'
      <4>. SUFFICES ASSUME at' \in {"init", "display"}
                   PROVE  didp' = Data(choice') /\ didp' # None /\ source' = "identifier" /\ model'.parsed
        BY <3>1 DEF ChoiceRight, c
      <4>. QED
        BY <3>1
    <3>. QED
      BY <3>2, <3>3, <3>4
  <2>3. CASE Fallback
    <3>1. /\ at = "fallback" /\ choice' = FallbackChoice
          /\ didp' = Data(choice')
          /\ source' = (IF didp' = None THEN None ELSE "system_rev")
          /\ at' = (IF didp' = None THEN "guess" ELSE "init")
          /\ UNCHANGED <<identifier, system_rev, model, backplate, display>>
      BY <2>3 DEF Fallback, FallbackChoice
    <3>2. FallbackChoice' = FallbackChoice
      BY <3>1 DEF FallbackChoice, High, Low
    <3>3. Booting' /\ ModelRight' /\ BackplateRight' /\ Refused'
      BY <3>1 DEF Booting, ModelRight, BackplateRight, Refused, Data
    <3>4. Exhausted' /\ ChoiceRight'
      BY <3>1, <3>2 DEF Exhausted, ChoiceRight
    <3>. QED
      BY <3>3, <3>4
  <2>4. CASE Guess
    <3>1. choice' = [family |-> Diamond, product |-> 1, revision |-> 10] /\ didp' = Data(choice')
      BY <2>4 DEF Guess
    <3>2. didp' = "1_7"
      BY <3>1, GuessSupported DEF Data
    <3>3. /\ at = "guess" /\ source' = "guess" /\ at' = "init"
          /\ UNCHANGED <<identifier, system_rev, model, backplate, display>>
      BY <2>4, <3>2 DEF Guess, None
    <3>4. FallbackChoice' = FallbackChoice /\ Data(FallbackChoice) = None
      BY <3>3 DEF FallbackChoice, High, Low, Exhausted
    <3>5. Booting' /\ ModelRight' /\ BackplateRight' /\ Exhausted' /\ Refused'
      BY <3>3 DEF Booting, ModelRight, BackplateRight, Exhausted, Refused, Data
    <3>6. ChoiceRight'
      BY <3>1, <3>2, <3>3, <3>4 DEF ChoiceRight, None
    <3>. QED
      BY <3>5, <3>6
  <2>5. CASE BackplateInit
    <3>1. /\ at = "init" /\ at' = (IF model.parsed THEN "display" ELSE "oops")
          /\ model.parsed => backplate' = IF model.family = Diamond /\ model.revision <= 3
                                         THEN "old" ELSE "new"
          /\ UNCHANGED <<identifier, system_rev, model, choice, didp, source, display>>
      BY <2>5 DEF BackplateInit
    <3>2. FallbackChoice' = FallbackChoice
      BY <3>1 DEF FallbackChoice, High, Low
    <3>3. Booting' /\ ModelRight' /\ BackplateRight' /\ Exhausted' /\ Refused'
      BY <3>1 DEF Booting, ModelRight, BackplateRight, Exhausted, Refused
    <3>4. ChoiceRight'
      BY <3>1, <3>2 DEF ChoiceRight
    <3>. QED
      BY <3>3, <3>4
  <2>6. CASE DisplayInit
    BY <2>6 DEF DisplayInit, Booting, ModelRight, ChoiceRight, Exhausted, BackplateRight, Refused
  <2>7. CASE UNCHANGED boardVars
    <3>1. UNCHANGED <<at, identifier, system_rev, model, choice, didp, source, backplate>>
      BY <2>7 DEF boardVars
    <3>2. FallbackChoice' = FallbackChoice
      BY <3>1 DEF FallbackChoice, High, Low
    <3>. QED
      BY <3>1, <3>2 DEF Booting, ModelRight, ChoiceRight, Exhausted, BackplateRight, Refused
  <2>. QED
    BY <2>1, <2>2, <2>3, <2>4, <2>5, <2>6, <2>7 DEF BoardNext
<1>. QED
  BY <1>1, <1>2, PTL DEF BoardSpec

\* nlmodel_parse accepts an identifier of any length exactly when it has a reading of
\* the form <family>-<product>[.<revision>], and returns what the reading says, its
\* numbers cut to ints.
THEOREM AlwaysParseAgrees == BoardSpec => []ParseAgrees
<1>1. BoardInv => ParseAgrees
  BY ModelIsRead DEF BoardInv, Booting, ModelRight, ParseAgrees
<1>. QED
  BY <1>1, BoardInductive, PTL

\* The backplate of diamond_backplate_init agrees with the model chosen wherever the
\* identifier decided, and the NULL pointer is met if and only if none could be read.
THEOREM AlwaysBackplateAgrees == BoardSpec => []BackplateAgrees
<1>1. BoardInv => BackplateAgrees
  <2>. SUFFICES ASSUME BoardInv PROVE BackplateAgrees
    OBVIOUS
  <2>. USE DEF BoardInv
  <2>1. at = "oops" => Readings(identifier) = {}
    BY ModelIsRead DEF Booting, ModelRight
  <2>. SUFFICES ASSUME at = "display"
               PROVE  /\ Readings(identifier) # {}
                      /\ \/ backplate = "old" <=> choice.family = Diamond /\ choice.revision <= 3
                         \/ source # "identifier" /\ backplate = "old"
    BY <2>1 DEF BackplateAgrees
  <2>2. Readings(identifier) # {} /\ model.parsed
    BY ModelIsRead DEF Booting, ModelRight
  <2>3. backplate = IF model.family = Diamond /\ model.revision <= 3 THEN "old" ELSE "new"
    BY DEF BackplateRight
  <2>4. CASE source = "identifier"
    <3>1. choice.family = model.family /\ choice.revision = model.revision
      BY <2>4 DEF ChoiceRight
    <3>. QED
      BY <2>2, <2>3, <3>1
  <2>5. CASE source = "system_rev"
    <3>1. choice.revision = model.revision \/ model.revision = Unknown
      BY <2>2, <2>5 DEF ChoiceRight, FallbackChoice, Given
    <3>2. choice.family = model.family
      BY <2>2, <2>5 DEF ChoiceRight, FallbackChoice
    <3>. QED
      BY <2>2, <2>3, <2>5, <3>1, <3>2 DEF Unknown
  <2>6. CASE source = "guess"
    <3>1. choice.revision = 10
      BY <2>6 DEF ChoiceRight
    <3>. QED
      BY <2>2, <2>3, <2>6, <3>1
  <2>. QED
    BY <2>4, <2>5, <2>6 DEF ChoiceRight
<1>. QED
  BY <1>1, BoardInductive, PTL

\* diamond_init chooses what its comment promises, for every identifier and revision
\* word, with the three exceptions that the property names.
THEOREM AlwaysChosenAsPromised == BoardSpec => []ChosenAsPromised
<1>1. BoardInv => ChosenAsPromised
  <2>. SUFFICES ASSUME BoardInv, at = "init",
                      ~(source # "identifier" /\ Readings(identifier) # {} /\ FromIdentifier = {}),
                      \A r \in Readings(identifier) : Fits(ModelRead(identifier, r))
               PROVE  didp \in Promised \/ (High = 2 /\ Low = 16 /\ didp = "2_11")
    BY DEF ChosenAsPromised
  <2>. USE DEF BoardInv
  <2>1. didp = Data(choice) /\ didp # None
    BY DEF ChoiceRight
  <2>2. model = ModelOf(identifier) /\ identifier \in Identifiers \cup {NoIdentifier}
    BY DEF ModelRight, Booting
  <2>3. CASE source = "identifier"
    <3>1. model.parsed /\ choice.family = model.family /\ choice.product = model.product
                       /\ choice.revision = model.revision
      BY <2>3 DEF ChoiceRight
    <3>2. PICK r \in Readings(identifier) : model = ModelRead(identifier, r)
      BY <2>2, <3>1, ModelIsRead DEF Fits
    <3>3. didp = Data(ModelRead(identifier, r))
      BY <2>1, <3>1, <3>2 DEF Data
    <3>4. didp \in FromIdentifier
      BY <2>1, <3>3 DEF FromIdentifier
    <3>. QED
      BY <3>4 DEF Promised
  <2>4. CASE source # "identifier"
    <3>1. Readings(identifier) = {}
      <4>. SUFFICES ASSUME Readings(identifier) # {} PROVE FALSE
        OBVIOUS
      <4>1. \A r \in Readings(identifier) : model = ModelRead(identifier, r)
        BY <2>2, ModelIsRead DEF Fits
      <4>2. Data(model) = None
        BY <2>2, <2>4, ModelIsRead DEF Refused
      <4>3. FromIdentifier = {}
        BY <4>1, <4>2 DEF FromIdentifier
      <4>. QED
        BY <2>4, <4>3
    <3>2. model = NlmodelInit
      BY <2>2, <3>1, ModelIsRead
    <3>3. ~model.parsed /\ model.product = Unknown /\ model.revision = Unknown
      BY <3>2 DEF NlmodelInit
    <3>4. FromIdentifier = {}
      BY <3>1 DEF FromIdentifier
    <3>5. /\ FallbackChoice.family = Diamond
          /\ FallbackChoice.product = IF High + Low = 0 THEN Unknown ELSE High
          /\ FallbackChoice.revision = IF High + Low = 0 THEN Unknown ELSE Low
      BY <3>3 DEF FallbackChoice, Given
    <3>6. High \in 0..255 /\ Low \in 0..255 /\ (system_rev = 0 => High = 0 /\ Low = 0)
      BY DiamondAssumption, RevisionBytes DEF Booting
    <3>. HIDE DEF High, Low
    <3>7. Data(FallbackChoice) = IF High + Low = 0 THEN None ELSE InitData(Diamond, High, Low)
      BY <3>5, UnknownUnsupported DEF Data
    <3>8. CASE source = "system_rev"
      <4>1. didp = InitData(Diamond, High, Low) /\ system_rev # 0
        BY <2>1, <3>6, <3>7, <3>8 DEF ChoiceRight
      <4>2. CASE InitData(Diamond, Bcd(High), Bcd(Low)) = InitData(Diamond, High, Low)
        BY <2>1, <3>4, <4>1, <4>2 DEF Promised, FromSystemRev
      <4>. QED
        BY <3>6, <4>1, <4>2, Decoding
    <3>9. CASE source = "guess"
      <4>1. didp = InitData(Diamond, 1, 10) /\ Data(FallbackChoice) = None
        BY <2>1, <3>9 DEF ChoiceRight, Data
      <4>2. FromSystemRev = {}
        <5>1. CASE High + Low = 0
          <6>1. High = 0 /\ Low = 0
            BY <3>6, <5>1
          <6>2. Bcd(High) = 0
            BY <6>1 DEF Bcd
          <6>3. InitData(Diamond, Bcd(High), Bcd(Low)) = None
            BY <6>2 DEF InitData
          <6>. QED
            BY <6>3 DEF FromSystemRev
        <5>2. CASE High + Low # 0
          <6>1. InitData(Diamond, High, Low) = None
            BY <3>7, <4>1, <5>2
          <6>2. High # 2
            BY <3>6, <6>1, Unsupported
          <6>3. InitData(Diamond, Bcd(High), Bcd(Low)) = None
            BY <3>6, <6>1, <6>2, Decoding
          <6>. QED
            BY <6>3 DEF FromSystemRev
        <5>. QED
          BY <5>1, <5>2
      <4>. QED
        BY <3>4, <4>1, <4>2 DEF Promised
    <3>. QED
      BY <2>4, <3>8, <3>9 DEF ChoiceRight
  <2>. QED
    BY <2>3, <2>4
<1>. QED
  BY <1>1, BoardInductive, PTL

-----------------------------------------------------------------------------
(***************************************************************************)
(* The gadget: the host has read what the gadget would answer, and the     *)
(* descriptor is the one the enabled functions call for.  Both rest on the *)
(* same order of events: nothing is written before the initcalls are over, *)
(* and nothing is bound after that.                                        *)
(***************************************************************************)

BootPcs == {"idle", "add", "bind", "port", "desc"}
WriterPcs == {"idle", "class", "multi", "match", "ids", "reset", "connect"}
HostStates == {"detached", "default", "addressed", "described", "configured", "useless"}

\* The records have their fields, and no function is registered that the board has not.
Shape ==
    /\ boot \in [pc : BootPcs, via : {"none", "probe", "register"}, at : Nat]
    /\ writer = [w \in Writers |-> [pc |-> writer[w].pc, multi |-> writer[w].multi, ids |-> writer[w].ids]]
    /\ \A w \in Writers : writer[w].pc \in WriterPcs
    /\ host = [state |-> host.state, class |-> host.class, ids |-> host.ids,
               configs |-> host.configs, map |-> host.map]
    /\ host.state \in HostStates
    /\ registered \subseteq Names

\* A write is under way, or has been, only once the initcalls are over.
BootedFirst ==
    /\ \A w \in Writers : writer[w].pc # "idle" => Booted
    /\ written => Booted
    /\ ~written => disabled = {} /\ \A w \in Writers : writer[w].pc = "idle"

\* A host that has seen the gadget has given it a speed, and came early or after
\* the initcalls.
Enumerating ==
    host.state # "detached" => speed /\ (early \/ Booted)

\* The answers the host has had are those the gadget would give now.
Current ==
    /\ host.state \in {"addressed", "described", "configured"} =>
           host.class = class /\ host.ids = ids /\ host.configs = (IF speeds THEN 1 ELSE 0)
    /\ host.state \in {"described", "configured"} => host.map = config_buf

\* Only a writer between its change and its reset leaves a host behind.
HostInformed ==
    ~early /\ (\A w \in Writers : writer[w].pc \in {"idle", "connect"}) => Current

HostInv == Shape /\ BootedFirst /\ Enumerating /\ HostInformed

-----------------------------------------------------------------------------

\* The initcalls that may still take a step are not over; once they are over
\* they stay so, and what they set up is left alone.
LEMMA InitcallsEnd ==
    ASSUME Initcalls
    PROVE  ~Booted
BY DEF Initcalls, Booted, dynamic_probe, dynamic_register_function, usb_add_function,
       usb_add_function_end, gserial_setup, dynamic_bind

WriterTo(w, p, m, i) ==
    \/ /\ writer' = [writer EXCEPT ![w].pc = p]
       /\ m = writer[w].multi /\ i = writer[w].ids
    \/ /\ writer' = [writer EXCEPT ![w].pc = p, ![w].multi = m]
       /\ i = writer[w].ids
    \/ /\ writer' = [writer EXCEPT ![w].pc = p, ![w].ids = i]
       /\ m = writer[w].multi
    \/ /\ writer' = [writer EXCEPT ![w] = AtRest]
       /\ p = "idle" /\ m = FALSE /\ i = Default

\* A writer that goes on to p, and may have noted a class or ids, leaves the
\* others as they are.
LEMMA WriterGoes ==
    ASSUME Shape, NEW w \in Writers, NEW p \in WriterPcs, NEW m, NEW i,
           WriterTo(w, p, m, i)
    PROVE  /\ writer' = [x \in Writers |-> [pc |-> writer'[x].pc, multi |-> writer'[x].multi,
                                            ids |-> writer'[x].ids]]
           /\ writer'[w].pc = p /\ writer'[w].multi = m /\ writer'[w].ids = i
           /\ \A x \in Writers : x # w => writer'[x] = writer[x]
           /\ \A x \in Writers : writer'[x].pc \in WriterPcs
<1>1. writer' = [writer EXCEPT ![w] = [pc |-> p, multi |-> m, ids |-> i]]
  BY DEF Shape, AtRest, WriterTo
<1>2. writer' = [x \in Writers |-> IF x = w THEN [pc |-> p, multi |-> m, ids |-> i] ELSE writer[x]]
  BY <1>1 DEF Shape
<1>3. \A x \in Writers : writer'[x] = IF x = w THEN [pc |-> p, multi |-> m, ids |-> i] ELSE writer[x]
  BY <1>2
<1>4. writer'[w].pc = p /\ writer'[w].multi = m /\ writer'[w].ids = i
  BY <1>3
<1>5. \A x \in Writers : x # w => writer'[x] = writer[x]
  BY <1>3
<1>6. \A x \in Writers : writer[x] = [pc |-> writer[x].pc, multi |-> writer[x].multi, ids |-> writer[x].ids]
  BY DEF Shape
<1>7. \A x \in Writers :
        writer'[x] = [pc |-> writer'[x].pc, multi |-> writer'[x].multi, ids |-> writer'[x].ids]
  BY <1>3, <1>6
<1>8. writer' = [x \in Writers |-> [pc |-> writer'[x].pc, multi |-> writer'[x].multi,
                                    ids |-> writer'[x].ids]]
  BY <1>2, <1>7
<1>9. \A x \in Writers : writer'[x].pc \in WriterPcs
  BY <1>4, <1>5 DEF Shape
<1> QED
  BY <1>4, <1>5, <1>8, <1>9

\* The initcalls keep the shape of what they change, and change neither what
\* userspace writes nor what the host knows.
LEMMA InitcallsFrame ==
    ASSUME Shape, Initcalls
    PROVE  /\ Shape'
           /\ UNCHANGED <<disabled, writer, host, speed, early, written, overlapped>>
<1>1. \A i \in Nat, v \in {"none", "probe", "register"} :
        Onward(i, v) \in [pc : BootPcs, via : {"none", "probe", "register"}, at : Nat]
  BY DEF Onward, Done, BootPcs
<1>2. boot.at + 1 \in Nat /\ 1 \in Nat /\ boot.via \in {"none", "probe", "register"}
  BY DEF Shape
<1>3. \A q \in BootPcs :
        [boot EXCEPT !.pc = q] \in [pc : BootPcs, via : {"none", "probe", "register"}, at : Nat]
  BY DEF Shape
<1>4. "bind" \in BootPcs /\ "port" \in BootPcs /\ "desc" \in BootPcs /\ "idle" \in BootPcs
  BY DEF BootPcs
<1>5. UNCHANGED <<disabled, writer, host, speed, early, written, overlapped>>
  BY DEF Initcalls, dynamic_probe, dynamic_register_function, usb_add_function,
         usb_add_function_end, gserial_setup, dynamic_bind, wire, history
<1>6. /\ boot' \in [pc : BootPcs, via : {"none", "probe", "register"}, at : Nat]
      /\ registered' \subseteq Names
  <2>1. CASE dynamic_probe
    BY <2>1, <1>1, <1>2, <1>4 DEF dynamic_probe, bind_functions, should_bind_functions, Shape
  <2>2. CASE \E f \in Names : dynamic_register_function(f)
    BY <2>2, <1>1, <1>2 DEF dynamic_register_function, bind_functions, Shape
  <2>3. CASE usb_add_function
    BY <2>3, <1>1, <1>2, <1>3, <1>4 DEF usb_add_function, Shape
  <2>4. CASE usb_add_function_end
    BY <2>4, <1>1, <1>2, <1>3, <1>4 DEF usb_add_function_end, Shape
  <2>5. CASE gserial_setup
    BY <2>5, <1>1, <1>2 DEF gserial_setup, Shape
  <2>6. CASE dynamic_bind
    BY <2>6, <1>4 DEF dynamic_bind, Done, Shape
  <2> QED
    BY <2>1, <2>2, <2>3, <2>4, <2>5, <2>6 DEF Initcalls
<1> QED
  BY <1>5, <1>6 DEF Shape

\* What the writers leave alone, and that they write only once the initcalls are over.
LEMMA WriteFrame ==
    ASSUME Shape, BootedFirst, NEW w \in Writers,
           Write(w) \/ \E f \in Names : enable_store(w, f)
    PROVE  /\ Booted
           /\ UNCHANGED <<setup, speed, early>>
           /\ Booted'
<1>1. Booted /\ UNCHANGED <<setup, speed, early>>
  <2>1. CASE Write(w)
    BY <2>1 DEF Write, update_dev_desc, update_dev_desc_end, MatchIds, StoreIds,
       usb_composite_force_reset, usb_gadget_connect, BootedFirst, wire, history
  <2>2. CASE \E f \in Names : enable_store(w, f)
    BY <2>2 DEF enable_store, wire
  <2> QED
    BY <2>1, <2>2
<1>2. Booted'
  BY <1>1 DEF Booted, setup
<1> QED
  BY <1>1, <1>2

\* What the cable and the host leave alone.
LEMMA HostFrame ==
    ASSUME Shape, Plug \/ Unplug \/ HostStep
    PROVE  /\ UNCHANGED <<setup, disabled, desc, writer, written, overlapped>>
           /\ Booted' = Booted
           /\ Shape'
<1>1. UNCHANGED <<setup, disabled, desc, writer, written, overlapped>>
  BY DEF Plug, Unplug, HostStep, HostReset, GetDeviceDescriptor, GetConfigDescriptor, set_config,
         history
<1>2. Booted' = Booted
  BY <1>1 DEF Booted, setup
<1>3. /\ host' = [state |-> host'.state, class |-> host'.class, ids |-> host'.ids,
                  configs |-> host'.configs, map |-> host'.map]
      /\ host'.state \in HostStates
  <2>1. CASE host' = host
    BY <2>1 DEF Shape
  <2>2. CASE host' = Unconnected
    BY <2>2 DEF Unconnected, HostStates
  <2>3. CASE HostReset
    BY <2>3 DEF HostReset, Unconnected, HostStates
  <2>4. CASE GetDeviceDescriptor
    BY <2>4 DEF GetDeviceDescriptor, Shape, HostStates
  <2>5. CASE GetConfigDescriptor
    BY <2>5 DEF GetConfigDescriptor, Shape, HostStates
  <2>6. CASE set_config
    BY <2>6 DEF set_config, Shape, HostStates
  <2> QED
    BY <2>1, <2>2, <2>3, <2>4, <2>5, <2>6 DEF Plug, Unplug, HostStep
<1> QED
  BY <1>1, <1>2, <1>3 DEF Shape, setup

\* The host's knowledge through the initcalls: a host that came before their end
\* is early, and another is not there yet.
LEMMA InitcallsKeepHost ==
    ASSUME HostInv, Initcalls
    PROVE  HostInv'
<1>1. ~Booted
  BY InitcallsEnd
<1>2. Shape' /\ UNCHANGED <<disabled, writer, host, speed, early, written, overlapped>>
  BY InitcallsFrame DEF HostInv
<1>3. BootedFirst'
  BY <1>1, <1>2 DEF HostInv, BootedFirst
<1>4. Enumerating'
  BY <1>1, <1>2 DEF HostInv, Enumerating
<1>5. HostInformed'
  BY <1>1, <1>2 DEF HostInv, Enumerating, HostInformed, Current
<1> QED
  BY <1>2, <1>3, <1>4, <1>5 DEF HostInv

\* A write: from its change on to its reset the writer is at neither "idle" nor
\* "connect", and its reset sends away the host that may have read something.
LEMMA WritersKeepHost ==
    ASSUME HostInv, NEW w \in Writers,
           Write(w) \/ \E f \in Names : enable_store(w, f)
    PROVE  HostInv'
<1> USE DEF HostInv
<1>1. Booted /\ Booted' /\ UNCHANGED <<setup, speed, early>>
  BY WriteFrame
<1>2. "class" \in WriterPcs /\ "multi" \in WriterPcs /\ "match" \in WriterPcs /\ "ids" \in WriterPcs
      /\ "reset" \in WriterPcs /\ "connect" \in WriterPcs /\ "idle" \in WriterPcs
  BY DEF WriterPcs
<1>3. CASE UNCHANGED <<writer, disabled, written, host, desc>>
  <2>1. Shape' /\ BootedFirst' /\ Enumerating'
    BY <1>1, <1>3 DEF Shape, BootedFirst, Enumerating, setup
  <2>2. HostInformed'
    BY <1>1, <1>3 DEF HostInformed, Current, config_buf, setup, desc
  <2> QED
    BY <2>1, <2>2
<1>4. ASSUME NEW p \in WriterPcs \ {"idle", "connect"}, NEW m, NEW i, host' = host, written',
             WriterTo(w, p, m, i)
      PROVE  HostInv'
  <2>1. /\ writer' = [x \in Writers |-> [pc |-> writer'[x].pc, multi |-> writer'[x].multi,
                                         ids |-> writer'[x].ids]]
        /\ writer'[w].pc = p
        /\ \A x \in Writers : writer'[x].pc \in WriterPcs
    BY <1>4, WriterGoes
  <2>2. Shape'
    BY <1>1, <1>4, <2>1 DEF Shape, setup
  <2>3. BootedFirst' /\ Enumerating'
    BY <1>1, <1>4 DEF BootedFirst, Enumerating
  <2>4. HostInformed'
    BY <1>4, <2>1 DEF HostInformed
  <2> QED
    BY <2>2, <2>3, <2>4
<1>5. CASE \E f \in Names : enable_store(w, f)
  <2>1. PICK f \in Names : enable_store(w, f)
    BY <1>5
  <2>2. CASE f \in freed
    BY <2>1, <2>2, <1>3 DEF enable_store, wire
  <2>3. CASE f \notin freed
    BY <2>1, <2>3, <1>2, <1>4 DEF enable_store, wire, WriterTo
  <2> QED
    BY <2>2, <2>3
<1>6. ASSUME writer[w].pc # "idle", UNCHANGED written
      PROVE  written'
  BY <1>6 DEF BootedFirst
<1>7. CASE update_dev_desc(w)
  BY <1>7, <1>2, <1>4, <1>6 DEF update_dev_desc, wire, history, WriterTo
<1>8. CASE update_dev_desc_end(w)
  BY <1>8, <1>2, <1>4, <1>6 DEF update_dev_desc_end, wire, history, WriterTo
<1>9. CASE MatchIds(w)
  BY <1>9, <1>2, <1>4, <1>6 DEF MatchIds, wire, history, WriterTo
<1>10. CASE StoreIds(w)
  BY <1>10, <1>2, <1>4, <1>6 DEF StoreIds, wire, history, WriterTo
<1>11. CASE usb_composite_force_reset(w)
  <2> USE DEF usb_composite_force_reset
  <2>1. written' /\ UNCHANGED <<disabled, desc>>
    BY <1>11, <1>6 DEF history
  <2>2. /\ writer' = [x \in Writers |-> [pc |-> writer'[x].pc, multi |-> writer'[x].multi,
                                         ids |-> writer'[x].ids]]
        /\ \A x \in Writers : writer'[x].pc \in WriterPcs
    <3>1. CASE speed
      BY <3>1, <1>11, <1>2, WriterGoes DEF WriterTo
    <3>2. CASE ~speed
      BY <3>2, <1>11, <1>2, WriterGoes DEF WriterTo
    <3> QED
      BY <3>1, <3>2
  <2>3. host' = Unconnected \/ (host' = host /\ host.state = "detached")
    BY <1>11 DEF Enumerating
  <2>4. host'.state = "detached"
    BY <2>3 DEF Unconnected
  <2>5. host' = [state |-> host'.state, class |-> host'.class, ids |-> host'.ids,
                 configs |-> host'.configs, map |-> host'.map]
    BY <2>3 DEF Unconnected, Shape
  <2>6. Shape'
    BY <1>1, <2>2, <2>4, <2>5 DEF Shape, setup, HostStates
  <2>7. BootedFirst' /\ Enumerating'
    BY <1>1, <2>1, <2>4 DEF BootedFirst, Enumerating
  <2>8. HostInformed'
    BY <2>4 DEF HostInformed, Current
  <2> QED
    BY <2>6, <2>7, <2>8
<1>12. CASE usb_gadget_connect(w)
  <2>1. written' /\ UNCHANGED <<disabled, desc, host>> /\ writer[w].pc = "connect"
    BY <1>12, <1>6 DEF history, usb_gadget_connect
  <2>2. /\ writer' = [x \in Writers |-> [pc |-> writer'[x].pc, multi |-> writer'[x].multi,
                                         ids |-> writer'[x].ids]]
        /\ \A x \in Writers : writer'[x].pc \in WriterPcs
        /\ \A x \in Writers : x # w => writer'[x] = writer[x]
    BY <1>12, <1>2, WriterGoes DEF usb_gadget_connect, WriterTo
  <2>3. Shape'
    BY <1>1, <2>1, <2>2 DEF Shape, setup
  <2>4. BootedFirst' /\ Enumerating'
    BY <1>1, <2>1 DEF BootedFirst, Enumerating
  <2>5. HostInformed'
    <3>1. (\A x \in Writers : writer'[x].pc \in {"idle", "connect"})
            => \A x \in Writers : writer[x].pc \in {"idle", "connect"}
      BY <2>1, <2>2
    <3> QED
      BY <1>1, <2>1, <3>1 DEF HostInformed, Current, config_buf, setup, desc
  <2> QED
    BY <2>3, <2>4, <2>5
<1> QED
  BY <1>5, <1>7, <1>8, <1>9, <1>10, <1>11, <1>12 DEF Write

\* The cable and the host: every answer is written down as it is given.
LEMMA HostKeepsHost ==
    ASSUME HostInv, Plug \/ Unplug \/ HostStep
    PROVE  HostInv'
<1> USE DEF HostInv
<1>1. /\ UNCHANGED <<setup, disabled, desc, writer, written, overlapped>>
      /\ Booted' = Booted
      /\ Shape'
  BY HostFrame
<1>2. BootedFirst'
  BY <1>1 DEF BootedFirst
<1>3. config_buf' = config_buf
  BY <1>1 DEF config_buf, setup
<1>4. CASE Plug
  <2>1. UNCHANGED <<host, speed, early>>
    BY <1>4 DEF Plug, history
  <2> QED
    BY <1>1, <1>2, <1>3, <2>1 DEF Enumerating, HostInformed, Current, setup, desc
<1>5. CASE Unplug
  <2>1. host'.state = "detached"
    BY <1>5 DEF Unplug, Unconnected
  <2> QED
    BY <1>1, <1>2, <2>1 DEF Enumerating, HostInformed, Current
<1>6. CASE HostReset
  <2>1. host'.state = "default" /\ speed' /\ (early' <=> ~Booted)
    BY <1>6 DEF HostReset, Unconnected
  <2> QED
    BY <1>1, <1>2, <2>1 DEF Enumerating, HostInformed, Current
<1>7. ASSUME GetDeviceDescriptor \/ GetConfigDescriptor \/ set_config
      PROVE  Enumerating' /\ early' = early
  BY <1>1, <1>7 DEF GetDeviceDescriptor, GetConfigDescriptor, set_config, Enumerating, history
<1>8. CASE GetDeviceDescriptor
  <2>1. /\ host'.state = "addressed" /\ host'.class = class /\ host'.ids = ids
        /\ host'.configs = (IF speeds THEN 1 ELSE 0)
    BY <1>8 DEF GetDeviceDescriptor, Shape
  <2>2. Current'
    BY <1>1, <2>1 DEF Current, setup, desc
  <2> QED
    BY <1>1, <1>2, <1>7, <1>8, <2>2 DEF HostInformed
<1>9. CASE GetConfigDescriptor
  <2>1. CASE host.configs = 0
    <3>1. host'.state = "useless"
      BY <1>9, <2>1 DEF GetConfigDescriptor, Shape
    <3> QED
      BY <1>1, <1>2, <1>7, <1>9, <3>1 DEF HostInformed, Current
  <2>2. CASE host.configs # 0
    <3>1. /\ host.state = "addressed" /\ host'.state = "described" /\ host'.map = config_buf
          /\ host'.class = host.class /\ host'.ids = host.ids /\ host'.configs = host.configs
      BY <1>9, <2>2 DEF GetConfigDescriptor, Shape
    <3>2. Current => Current'
      BY <1>1, <1>3, <3>1 DEF Current, setup, desc
    <3> QED
      BY <1>1, <1>2, <1>7, <1>9, <3>2 DEF HostInformed
  <2> QED
    BY <2>1, <2>2
<1>10. CASE set_config
  <2>1. /\ host.state = "described" /\ host'.state = "configured" /\ host'.map = host.map
        /\ host'.class = host.class /\ host'.ids = host.ids /\ host'.configs = host.configs
    BY <1>10 DEF set_config, Shape
  <2>2. Current => Current'
    BY <1>1, <1>3, <2>1 DEF Current, setup, desc
  <2> QED
    BY <1>1, <1>2, <1>7, <1>10, <2>2 DEF HostInformed
<1> QED
  BY <1>4, <1>5, <1>6, <1>8, <1>9, <1>10 DEF HostStep

\* HostInv holds in every state of the gadget: the invariant that the host's
\* knowledge of the gadget rests on.
THEOREM GadgetHostInductive == Spec => []HostInv
<1>1. Init => HostInv
  <2> SUFFICES ASSUME Init PROVE HostInv
    OBVIOUS
  <2>1. \A w \in Writers : writer[w] = AtRest
    BY DEF Init
  <2>2. Shape
    BY DEF Init, Shape, AtRest, Unconnected, BootPcs, WriterPcs, HostStates
  <2>3. BootedFirst /\ Enumerating /\ HostInformed
    BY <2>1 DEF Init, BootedFirst, Enumerating, HostInformed, Current, AtRest, Unconnected
  <2> QED
    BY <2>2, <2>3 DEF HostInv
<1>2. HostInv /\ [Next]_vars => HostInv'
  <2> SUFFICES ASSUME HostInv, [Next]_vars PROVE HostInv'
    OBVIOUS
  <2>1. CASE Initcalls
    BY <2>1, InitcallsKeepHost
  <2>2. CASE \E w \in Writers : Write(w) \/ \E f \in Names : enable_store(w, f)
    BY <2>2, WritersKeepHost
  <2>3. CASE Plug \/ Unplug \/ HostStep
    BY <2>3, HostKeepsHost
  <2>4. CASE UNCHANGED vars
    BY <2>4 DEF vars, setup, desc, wire, history, HostInv, Shape, BootedFirst, Enumerating,
                HostInformed, Current, Booted, config_buf
  <2> QED
    BY <2>1, <2>2, <2>3, <2>4 DEF Next
<1> QED
  BY <1>1, <1>2, PTL DEF Spec

\* What the host has read is what the gadget would answer now, once no write is
\* under way: usb_composite_force_reset leaves no host with old descriptors,
\* whatever the functions, the products and the number of writers.
THEOREM AlwaysHostUpToDate == Spec => []HostUpToDate
<1>1. HostInv => HostUpToDate
  BY DEF HostInv, HostInformed, Current, HostUpToDate, Quiet
<1> QED
  BY <1>1, GadgetHostInductive, PTL

-----------------------------------------------------------------------------

BootSteps == {"add", "bind", "port"}

\* The functions are bound once the configuration and all of them are there, one
\* after the other, and not before.
Setting ==
    /\ bound <=> config /\ registered = Names
    /\ boot.pc \in BootSteps =>
           bound /\ boot.at \in 1..Len(Functions) /\ boot.via \in {"probe", "register"}
    /\ boot.pc = "desc" => config
    /\ ~bound => functions = << >>

\* The class that acm_bind_config leaves after the first n functions.
ClassAfter(n) == IF \E j \in 1..n : Functions[j] \in Acm THEN "comm" ELSE "per_interface"

\* The descriptor before the first write.
Started ==
    \/ class = "per_interface" /\ ids = Ids(functions, {})
    \/ class = (IF Acm = {} THEN "per_interface" ELSE "comm") /\ ids = Ids(<< >>, {})

\* The descriptor as the initcalls have it so far.
Starting ==
    /\ boot.pc = "idle" /\ config /\ ~bound => class = "per_interface" /\ ids = Ids(<< >>, {})
    /\ boot.pc \in BootSteps /\ boot.via = "register" =>
           /\ ids = Ids(<< >>, {})
           /\ class = ClassAfter(IF boot.pc = "add" THEN boot.at - 1 ELSE boot.at)
    /\ boot.pc = "idle" /\ bound /\ ~written => Started

\* Writers that did not overlap are at it one at a time.
Sole ==
    ~overlapped =>
        \A x, y \in Writers : x # y => writer[x].pc = "idle" \/ writer[y].pc = "idle"

\* The class that the enabled functions call for.
RightClass == IF Multi(functions, disabled) THEN "misc" ELSE "per_interface"

\* What a writer has noted, and what it has written, is right for the functions
\* that are enabled now.
Writing ==
    written /\ ~overlapped =>
        /\ \A w \in Writers : writer[w].pc = "multi" =>
               class = "per_interface" /\ (writer[w].multi <=> Multi(functions, disabled))
        /\ (\A w \in Writers : writer[w].pc \notin {"class", "multi"}) => class = RightClass
        /\ \A w \in Writers : writer[w].pc = "ids" => writer[w].ids = Ids(functions, disabled)
        /\ (\A w \in Writers : writer[w].pc \notin {"class", "multi", "match", "ids"}) =>
               ids = Ids(functions, disabled)

DescInv == Setting /\ Starting /\ Sole /\ Writing

\* The next function leaves the class that acm_bind_config leaves after one more.
LEMMA ClassStep ==
    ASSUME NEW n \in Nat \ {0}, NEW c,
           c = ClassAfter(n - 1)
    PROVE  (IF Functions[n] \in Acm /\ c = "per_interface" THEN "comm" ELSE c) = ClassAfter(n)
<1>1. 1..n = 1..(n - 1) \cup {n}
  OBVIOUS
<1>2. (\E j \in 1..n : Functions[j] \in Acm)
        <=> (\E j \in 1..(n - 1) : Functions[j] \in Acm) \/ Functions[n] \in Acm
  BY <1>1
<1> QED
  BY <1>2 DEF ClassAfter

\* After all functions it is the class of the ACM function, if there is one.
LEMMA ClassAtEnd ==
    /\ Len(Functions) \in Nat
    /\ ClassAfter(Len(Functions)) = (IF Acm = {} THEN "per_interface" ELSE "comm")
    /\ ClassAfter(0) = "per_interface"
<1>1. Functions \in Seq(Names) /\ Acm \subseteq Names
  BY GadgetAssumption
<1>2. Len(Functions) \in Nat /\ DOMAIN Functions = 1..Len(Functions)
  BY <1>1
<1>3. Names = {Functions[j] : j \in 1..Len(Functions)}
  BY <1>2 DEF Names, Range
<1>4. (\E j \in 1..Len(Functions) : Functions[j] \in Acm) <=> Acm # {}
  BY <1>1, <1>3
<1>5. ClassAfter(Len(Functions)) = (IF Acm = {} THEN "per_interface" ELSE "comm")
  BY <1>4 DEF ClassAfter
<1>6. ClassAfter(0) = "per_interface"
  BY DEF ClassAfter
<1> QED
  BY <1>2, <1>5, <1>6

\* bind_functions going on to function i.
LEMMA GoesOn ==
    ASSUME NEW i \in Nat \ {0}, i <= Len(Functions) + 1, NEW v \in {"probe", "register"},
           boot' = Onward(i, v), bound', config', registered' = Names,
           v = "register" => ids' = Ids(<< >>, {}) /\ class' = ClassAfter(i - 1)
    PROVE  Setting' /\ Starting'
<1>1. Len(Functions) \in Nat
  BY ClassAtEnd
<1>2. CASE i <= Len(Functions)
  <2>1. boot'.pc = "add" /\ boot'.via = v /\ boot'.at = i
    BY <1>2 DEF Onward
  <2>2. i \in 1..Len(Functions)
    BY <1>1, <1>2
  <2> QED
    BY <2>1, <2>2 DEF Setting, Starting, BootSteps
<1>3. CASE ~(i <= Len(Functions)) /\ v = "probe"
  <2>1. boot'.pc = "desc"
    BY <1>3 DEF Onward
  <2> QED
    BY <2>1 DEF Setting, Starting, BootSteps
<1>4. CASE ~(i <= Len(Functions)) /\ v = "register"
  <2>1. boot'.pc = "idle"
    BY <1>4 DEF Onward, Done
  <2>2. i - 1 = Len(Functions)
    BY <1>1, <1>4
  <2>3. Started'
    BY <1>4, <2>2, ClassAtEnd DEF Started
  <2> QED
    BY <2>1, <2>3 DEF Setting, Starting, BootSteps
<1> QED
  BY <1>2, <1>3, <1>4

\* The descriptor through the initcalls.
LEMMA InitcallsKeepDesc ==
    ASSUME HostInv, DescInv, Initcalls
    PROVE  DescInv'
<1> USE DEF HostInv, DescInv
<1>1. ~Booted
  BY InitcallsEnd
<1>2. UNCHANGED <<disabled, writer, written, overlapped>>
  BY InitcallsFrame
<1>3. ~written /\ disabled = {}
  BY <1>1 DEF BootedFirst
<1>4. Sole' /\ Writing'
  BY <1>2, <1>3 DEF Sole, Writing
<1>5. Len(Functions) \in Nat
  BY ClassAtEnd
<1>6. CASE dynamic_probe
  <2> USE <1>6 DEF dynamic_probe
  <2>1. ~bound /\ functions = << >>
    BY DEF Setting
  <2>2. CASE should_bind_functions(TRUE, registered)
    <3>1. boot' = Onward(1, "probe") /\ bound' /\ config' /\ registered' = Names
      BY <2>2 DEF bind_functions, should_bind_functions, Shape
    <3>2. 1 \in Nat \ {0} /\ 1 <= Len(Functions) + 1
      BY <1>5
    <3> QED
      BY <1>4, <3>1, <3>2, GoesOn
  <2>3. CASE ~should_bind_functions(TRUE, registered)
    <3>1. boot'.pc = "desc" /\ ~bound' /\ config' /\ registered' # Names /\ functions' = << >>
      BY <2>1, <2>3 DEF should_bind_functions
    <3> QED
      BY <1>4, <3>1 DEF Setting, Starting, BootSteps
  <2> QED
    BY <2>2, <2>3
<1>7. CASE \E f \in Names : dynamic_register_function(f)
  <2>1. PICK f \in Names : dynamic_register_function(f)
    BY <1>7
  <2> USE <2>1 DEF dynamic_register_function
  <2>2. ~bound /\ functions = << >>
    BY DEF Setting
  <2>3. UNCHANGED <<config, functions, class, ids>>
    BY DEF desc
  <2>4. CASE should_bind_functions(config, registered')
    <3>1. boot' = Onward(1, "register") /\ bound' /\ config' /\ registered' = Names
      BY <2>4 DEF bind_functions, should_bind_functions, Shape
    <3>2. 1 \in Nat \ {0} /\ 1 <= Len(Functions) + 1 /\ 1 - 1 = 0
      BY <1>5
    <3>3. ids' = Ids(<< >>, {}) /\ class' = ClassAfter(0)
      BY <2>2, <2>3, <2>4, ClassAtEnd DEF should_bind_functions, Starting
    <3> QED
      BY <1>4, <3>1, <3>2, <3>3, GoesOn
  <2>5. CASE ~should_bind_functions(config, registered')
    <3>1. UNCHANGED <<boot, bound>> /\ ~(config' /\ registered' = Names)
      BY <2>2, <2>3, <2>5 DEF should_bind_functions
    <3> QED
      BY <1>4, <2>2, <2>3, <3>1 DEF Setting, Starting, BootSteps
  <2> QED
    BY <2>4, <2>5
<1>8. ASSUME boot.pc \in BootSteps, UNCHANGED <<bound, config, registered>>
      PROVE  /\ bound' /\ config' /\ registered' = Names
             /\ boot.at \in 1..Len(Functions) /\ boot.via \in {"probe", "register"}
             /\ boot.at + 1 \in Nat \ {0} /\ boot.at + 1 <= Len(Functions) + 1
             /\ boot.at + 1 - 1 = boot.at /\ boot.at \in Nat \ {0}
  BY <1>5, <1>8 DEF Setting
<1>9. CASE usb_add_function
  <2> USE <1>9 DEF usb_add_function
  <2>1. boot.pc \in BootSteps /\ UNCHANGED <<bound, config, registered, ids>>
    BY DEF BootSteps
  <2>2. boot.via = "register" => ids' = Ids(<< >>, {}) /\ class' = ClassAfter(boot.at)
    BY <1>8, <2>1, ClassStep DEF Starting, Name
  <2>3. CASE boot' = [boot EXCEPT !.pc = "bind"]
    <3>1. boot'.pc = "bind" /\ boot'.via = boot.via /\ boot'.at = boot.at
      BY <2>3 DEF Shape
    <3> QED
      BY <1>4, <1>8, <2>1, <2>2, <3>1 DEF Setting, Starting, BootSteps
  <2>4. CASE boot' = Onward(boot.at + 1, boot.via)
    BY <1>4, <1>8, <2>1, <2>2, <2>4, GoesOn
  <2> QED
    BY <2>3, <2>4
<1>10. CASE usb_add_function_end
  <2> USE <1>10 DEF usb_add_function_end
  <2>1. boot.pc \in BootSteps /\ UNCHANGED <<bound, config, registered, ids, class>>
    BY DEF BootSteps, desc
  <2>2. boot.via = "register" => ids' = Ids(<< >>, {}) /\ class' = ClassAfter(boot.at)
    BY <2>1 DEF Starting
  <2>3. CASE boot' = [boot EXCEPT !.pc = "port"]
    <3>1. boot'.pc = "port" /\ boot'.via = boot.via /\ boot'.at = boot.at
      BY <2>3 DEF Shape
    <3> QED
      BY <1>4, <1>8, <2>1, <2>2, <3>1 DEF Setting, Starting, BootSteps
  <2>4. CASE boot' = Onward(boot.at + 1, boot.via)
    BY <1>4, <1>8, <2>1, <2>2, <2>4, GoesOn
  <2> QED
    BY <2>3, <2>4
<1>11. CASE gserial_setup
  <2> USE <1>11 DEF gserial_setup
  <2>1. boot.pc \in BootSteps /\ UNCHANGED <<bound, config, registered, ids, class>>
    BY DEF BootSteps, desc
  <2>2. boot.via = "register" => ids' = Ids(<< >>, {}) /\ class' = ClassAfter(boot.at)
    BY <2>1 DEF Starting
  <2> QED
    BY <1>4, <1>8, <2>1, <2>2, GoesOn
<1>12. CASE dynamic_bind
  <2> USE <1>12 DEF dynamic_bind
  <2>1. boot'.pc = "idle" /\ class' = "per_interface" /\ ids' = Ids(functions, {})
    BY <1>3 DEF Done
  <2>2. UNCHANGED <<bound, config, registered, functions>> /\ config
    BY DEF Setting
  <2>3. Setting'
    BY <2>1, <2>2 DEF Setting, BootSteps
  <2>4. Starting'
    BY <2>1, <2>2 DEF Setting, Starting, Started, BootSteps
  <2> QED
    BY <1>4, <2>3, <2>4
<1> QED
  BY <1>6, <1>7, <1>9, <1>10, <1>11, <1>12 DEF Initcalls

\* The descriptor through a write that no other overlaps: class and ids are
\* looked up and written while nobody else changes what they are looked up from.
LEMMA WritersKeepDesc ==
    ASSUME HostInv, DescInv, NEW w \in Writers,
           Write(w) \/ \E f \in Names : enable_store(w, f)
    PROVE  DescInv'
<1> USE DEF HostInv, DescInv
<1>1. Booted /\ Booted' /\ UNCHANGED setup
  BY WriteFrame
<1>2. UNCHANGED <<bound, config, registered, functions, boot>>
  BY <1>1 DEF setup
<1>3. Setting'
  BY <1>2 DEF Setting
<1>4. "class" \in WriterPcs /\ "multi" \in WriterPcs /\ "match" \in WriterPcs /\ "ids" \in WriterPcs
      /\ "reset" \in WriterPcs /\ "connect" \in WriterPcs /\ "idle" \in WriterPcs
  BY DEF WriterPcs
<1>5. written' => Starting'
  BY <1>1, <1>2 DEF Starting, Setting, Booted, BootSteps
<1>6. CASE \E f \in Names : enable_store(w, f)
  <2>1. PICK f \in Names : enable_store(w, f)
    BY <1>6
  <2>2. CASE f \in freed
    <3>1. UNCHANGED <<disabled, writer, written, overlapped, class, ids>>
      BY <2>1, <2>2 DEF enable_store, desc
    <3> QED
      BY <1>2, <1>3, <3>1 DEF Starting, Started, Sole, Writing, RightClass
  <2>3. CASE f \notin freed
    <3>1. /\ writer' = [writer EXCEPT ![w].pc = "class"]
          /\ written' /\ (overlapped' <=> ~Alone(w))
      BY <2>1, <2>3 DEF enable_store
    <3>2. writer'[w].pc = "class" /\ \A x \in Writers : x # w => writer'[x] = writer[x]
      BY <3>1, <1>4, WriterGoes DEF WriterTo
    <3>3. ~overlapped' => \A x \in Writers : x # w => writer'[x].pc = "idle"
      BY <3>1, <3>2 DEF Alone
    <3>4. Sole' /\ Writing'
      BY <3>2, <3>3 DEF Sole, Writing
    <3> QED
      BY <1>3, <1>5, <3>1, <3>4
  <2> QED
    BY <2>2, <2>3
<1>7. CASE Write(w)
  <2>1. /\ writer[w].pc # "idle"
        /\ UNCHANGED <<disabled, written, overlapped>>
    BY <1>7 DEF Write, update_dev_desc, update_dev_desc_end, MatchIds, StoreIds,
       usb_composite_force_reset, usb_gadget_connect, history
  <2>2. written /\ written'
    BY <2>1 DEF BootedFirst
  <2>3. ~overlapped => \A x \in Writers : x # w => writer[x].pc = "idle"
    BY <2>1 DEF Sole
  <2>4. ASSUME NEW p \in WriterPcs, NEW m, NEW i, WriterTo(w, p, m, i)
        PROVE  /\ writer'[w].pc = p /\ writer'[w].multi = m /\ writer'[w].ids = i
               /\ \A x \in Writers : x # w => writer'[x] = writer[x]
               /\ ~overlapped' => \A x \in Writers : x # w => writer'[x].pc = "idle"
               /\ Sole'
    <3>1. /\ writer'[w].pc = p /\ writer'[w].multi = m /\ writer'[w].ids = i
          /\ \A x \in Writers : x # w => writer'[x] = writer[x]
      BY <2>4, WriterGoes
    <3>2. ~overlapped' => \A x \in Writers : x # w => writer'[x].pc = "idle"
      BY <2>1, <2>3, <3>1
    <3>3. Sole'
      BY <3>2 DEF Sole
    <3> QED
      BY <3>1, <3>2, <3>3
  <2>5. CASE update_dev_desc(w)
    <3>1. WriterTo(w, "multi", Multi(functions, disabled), writer[w].ids) /\ class' = "per_interface"
      BY <2>5 DEF update_dev_desc, WriterTo
    <3>2. /\ writer'[w].pc = "multi" /\ (writer'[w].multi <=> Multi(functions, disabled))
          /\ ~overlapped' => \A x \in Writers : x # w => writer'[x].pc = "idle"
          /\ Sole'
      BY <1>4, <2>4, <3>1
    <3>3. Writing'
      BY <1>2, <2>1, <3>1, <3>2 DEF Writing
    <3> QED
      BY <1>3, <1>5, <2>2, <3>2, <3>3
  <2>6. CASE update_dev_desc_end(w)
    <3>1. /\ WriterTo(w, "match", writer[w].multi, writer[w].ids)
          /\ writer[w].pc = "multi"
          /\ class' = IF writer[w].multi THEN "misc" ELSE class
      BY <2>6 DEF update_dev_desc_end, WriterTo
    <3>2. /\ writer'[w].pc = "match"
          /\ ~overlapped' => \A x \in Writers : x # w => writer'[x].pc = "idle"
          /\ Sole'
      BY <1>4, <2>4, <3>1
    <3>3. ~overlapped => class' = RightClass
      BY <2>2, <3>1 DEF Writing, RightClass
    <3>4. Writing'
      BY <1>2, <2>1, <3>2, <3>3 DEF Writing, RightClass
    <3> QED
      BY <1>3, <1>5, <2>2, <3>2, <3>4
  <2>7. CASE MatchIds(w)
    <3>1. /\ WriterTo(w, "ids", writer[w].multi, Ids(functions, disabled))
          /\ writer[w].pc = "match" /\ class' = class
      BY <2>7 DEF MatchIds, WriterTo, desc
    <3>2. /\ writer'[w].pc = "ids" /\ writer'[w].ids = Ids(functions, disabled)
          /\ ~overlapped' => \A x \in Writers : x # w => writer'[x].pc = "idle"
          /\ Sole'
      BY <1>4, <2>4, <3>1
    <3>3. ~overlapped => class = RightClass
      BY <2>2, <2>3, <3>1 DEF Writing
    <3>4. Writing'
      BY <1>2, <2>1, <3>1, <3>2, <3>3 DEF Writing, RightClass
    <3> QED
      BY <1>3, <1>5, <2>2, <3>2, <3>4
  <2>8. CASE StoreIds(w)
    <3>1. /\ WriterTo(w, "reset", writer[w].multi, writer[w].ids)
          /\ writer[w].pc = "ids" /\ class' = class /\ ids' = writer[w].ids
      BY <2>8 DEF StoreIds, WriterTo
    <3>2. /\ writer'[w].pc = "reset"
          /\ ~overlapped' => \A x \in Writers : x # w => writer'[x].pc = "idle"
          /\ Sole'
      BY <1>4, <2>4, <3>1
    <3>3. ~overlapped => class = RightClass /\ ids' = Ids(functions, disabled)
      BY <2>2, <2>3, <3>1 DEF Writing
    <3>4. Writing'
      BY <1>2, <2>1, <3>1, <3>2, <3>3 DEF Writing, RightClass
    <3> QED
      BY <1>3, <1>5, <2>2, <3>2, <3>4
  <2>9. CASE usb_composite_force_reset(w) \/ usb_gadget_connect(w)
    <3>1. /\ \E p \in {"connect", "idle"} : \E m, i : WriterTo(w, p, m, i)
          /\ writer[w].pc \in {"reset", "connect"} /\ class' = class /\ ids' = ids
      <4>1. \/ WriterTo(w, "connect", writer[w].multi, writer[w].ids)
            \/ WriterTo(w, "idle", FALSE, Default)
        BY <2>9 DEF usb_composite_force_reset, usb_gadget_connect, WriterTo
      <4>2. writer[w].pc \in {"reset", "connect"} /\ class' = class /\ ids' = ids
        BY <2>9 DEF usb_composite_force_reset, usb_gadget_connect, desc
      <4> QED
        BY <4>1, <4>2
    <3>2. /\ writer'[w].pc \in {"connect", "idle"}
          /\ ~overlapped' => \A x \in Writers : x # w => writer'[x].pc = "idle"
          /\ Sole'
      BY <1>4, <2>4, <3>1
    <3>3. ~overlapped => class = RightClass /\ ids = Ids(functions, disabled)
      BY <2>2, <2>3, <3>1 DEF Writing
    <3>4. Writing'
      BY <1>2, <2>1, <3>1, <3>2, <3>3 DEF Writing, RightClass
    <3> QED
      BY <1>3, <1>5, <2>2, <3>2, <3>4
  <2> QED
    BY <1>7, <2>5, <2>6, <2>7, <2>8, <2>9 DEF Write
<1> QED
  BY <1>6, <1>7

\* DescInv holds in every state of the gadget: the invariant that the contents
\* of the descriptor rest on.
THEOREM GadgetDescInductive == Spec => []DescInv
<1>1. Init => DescInv
  <2> SUFFICES ASSUME Init PROVE DescInv
    OBVIOUS
  <2>1. \A w \in Writers : writer[w].pc = "idle"
    BY DEF Init, AtRest
  <2>2. Setting /\ Starting
    BY DEF Init, Setting, Starting, BootSteps
  <2>3. Sole /\ Writing
    BY <2>1 DEF Init, Sole, Writing
  <2> QED
    BY <2>2, <2>3 DEF DescInv
<1>2. HostInv /\ DescInv /\ [Next]_vars => DescInv'
  <2> SUFFICES ASSUME HostInv, DescInv, [Next]_vars PROVE DescInv'
    OBVIOUS
  <2>1. CASE Initcalls
    BY <2>1, InitcallsKeepDesc
  <2>2. CASE \E w \in Writers : Write(w) \/ \E f \in Names : enable_store(w, f)
    BY <2>2, WritersKeepDesc
  <2>3. ASSUME UNCHANGED <<setup, disabled, desc, writer, written, overlapped>>
        PROVE  DescInv'
    BY <2>3 DEF DescInv, setup, desc, Setting, Starting, Started, Sole, Writing, RightClass
  <2>4. CASE Plug \/ Unplug \/ HostStep
    BY <2>3, <2>4, HostFrame DEF HostInv
  <2>5. CASE UNCHANGED vars
    BY <2>3, <2>5 DEF vars, history
  <2> QED
    BY <2>1, <2>2, <2>4, <2>5 DEF Next
<1> QED
  BY <1>1, <1>2, GadgetHostInductive, PTL DEF Spec

\* The descriptor is the one that the enabled functions call for, once no write
\* is under way and unless two writers overlapped in dynamic_enable_function;
\* before the first write it is the one composite_bind or acm_bind_config left.
THEOREM AlwaysDescriptorAgrees == Spec => []DescriptorAgrees
<1>1. HostInv /\ DescInv => DescriptorAgrees
  <2> SUFFICES ASSUME HostInv, DescInv, Quiet, ~overlapped
               PROVE  IF written
                      THEN /\ class = (IF Multi(functions, disabled) THEN "misc" ELSE "per_interface")
                           /\ ids = Ids(functions, disabled)
                      ELSE Started
    BY DEF DescriptorAgrees, Started
  <2>1. \A w \in Writers : writer[w].pc = "idle"
    BY DEF Quiet
  <2>2. CASE written
    BY <2>1, <2>2 DEF DescInv, Writing, RightClass
  <2>3. CASE ~written
    BY <2>3 DEF DescInv, Starting, Setting, Quiet, Booted
  <2> QED
    BY <2>2, <2>3
<1> QED
  BY <1>1, GadgetHostInductive, GadgetDescInductive, PTL

-----------------------------------------------------------------------------
(***************************************************************************)
(* The gadget: the numbers of the interfaces.  config_buf numbers those of *)
(* the enabled functions anew, composite_setup and set_config use the ids  *)
(* that were taken at bind time.                                           *)
(***************************************************************************)

\* What the fold of config_buf does with the positions in s, when g says what it
\* does with fewer.
StepOf(fs, off, rd, g, s) ==
    IF s = {} THEN << >>
    ELSE IF fs[Max(s)] \in off \/ fs[Max(s)] \notin rd THEN g[s \ {Max(s)}]
    ELSE Numbered(fs[Max(s)], g[s \ {Max(s)}])

\* g is the fold over the sets of positions up to n.
Solves(g, fs, off, rd, n) == g = [s \in SUBSET (1..n) |-> StepOf(fs, off, rd, g, s)]

\* config_buf's loop, a fold of the community modules, with its definition opened.
LEMMA Unfold ==
    ASSUME NEW fs, NEW off, NEW rd
    PROVE  Described(fs, off, rd) =
             (CHOOSE g : g = [s \in SUBSET (DOMAIN fs) |-> StepOf(fs, off, rd, g, s)])[DOMAIN fs]
BY DEF Described, FoldLeft, MapThenFoldSet, StepOf

\* What is known of n positions can be had of one more.
LEMMA Extends ==
    ASSUME NEW fs, NEW off, NEW rd, NEW n \in Nat, NEW g, Solves(g, fs, off, rd, n)
    PROVE  \E h : Solves(h, fs, off, rd, n + 1)
<1>. DEFINE h == [s \in SUBSET (1..n + 1) |->
                    IF s \in SUBSET (1..n) THEN g[s] ELSE StepOf(fs, off, rd, g, s)]
<1>1. ASSUME NEW s \in SUBSET (1..n + 1) PROVE h[s] = StepOf(fs, off, rd, h, s)
  <2>1. CASE s = {}
    <3>1. s \in SUBSET (1..n)
      BY <2>1
    <3>2. h[s] = g[s] /\ g[s] = StepOf(fs, off, rd, g, s)
      BY <3>1 DEF Solves
    <3>. QED
      BY <2>1, <3>2 DEF StepOf
  <2>2. CASE s # {}
    <3>1. n + 1 \in Nat /\ s \subseteq 0..n + 1
      OBVIOUS
    <3>2. Max(s) \in s /\ \A y \in s : Max(s) >= y
      BY <2>2, <3>1, MaxOf
    <3>. DEFINE r == s \ {Max(s)}
    <3>3. r \in SUBSET (1..n)
      <4>. SUFFICES ASSUME NEW y \in r PROVE y \in 1..n
        OBVIOUS
      <4>1. y \in 1..n + 1 /\ Max(s) \in 1..n + 1 /\ Max(s) >= y /\ y # Max(s)
        BY <3>2
      <4>. QED
        BY <4>1
    <3>4. r \in SUBSET (1..n + 1) /\ h[r] = g[r]
      BY <3>3
    <3>5. StepOf(fs, off, rd, h, s) = StepOf(fs, off, rd, g, s)
      BY <3>4 DEF StepOf
    <3>6. h[s] = StepOf(fs, off, rd, g, s)
      BY DEF Solves
    <3>. QED
      BY <3>5, <3>6
  <2>. QED
    BY <2>1, <2>2
<1>2. h = [s \in SUBSET (1..n + 1) |-> h[s]]
  OBVIOUS
<1>. HIDE DEF h
<1>3. h = [s \in SUBSET (1..n + 1) |-> StepOf(fs, off, rd, h, s)]
  BY <1>1, <1>2
<1>. QED
  BY <1>3 DEF Solves

\* Hence of a list of any length.
LEMMA Solvable ==
    ASSUME NEW fs, NEW off, NEW rd, NEW n \in Nat
    PROVE  \E g : Solves(g, fs, off, rd, n)
<1>. DEFINE S == {k \in 0..n : \E g : Solves(g, fs, off, rd, k)}
<1>1. 0 \in S
  <2>. DEFINE g == [s \in SUBSET (1..0) |-> << >>]
  <2>1. \A s \in SUBSET (1..0) : StepOf(fs, off, rd, g, s) = << >>
    BY DEF StepOf
  <2>2. Solves(g, fs, off, rd, 0)
    BY <2>1 DEF Solves
  <2>3. \E f : Solves(f, fs, off, rd, 0)
    BY <2>2
  <2>. QED
    BY <2>3
<1>2. \A k \in 0..n : k # n /\ k \in S => k + 1 \in S
  <2>. SUFFICES ASSUME NEW k \in 0..n, k # n, k \in S PROVE k + 1 \in S
    OBVIOUS
  <2>1. PICK g : Solves(g, fs, off, rd, k)
    OBVIOUS
  <2>2. k \in Nat /\ k + 1 \in 0..n
    OBVIOUS
  <2>3. \E h : Solves(h, fs, off, rd, k + 1)
    BY <2>1, <2>2, Extends
  <2>. QED
    BY <2>2, <2>3
<1>3. S \subseteq 0..n
  OBVIOUS
<1>. HIDE DEF S
<1>4. S = 0..n
  BY <1>1, <1>2, <1>3, Upward
<1>5. n \in S
  BY <1>4
<1>. QED
  BY <1>5 DEF S

\* The loop computes what one step after the other computes.
LEMMA DescribedSolves ==
    ASSUME NEW S, NEW fs \in Seq(S), NEW off, NEW rd
    PROVE  \E g : Solves(g, fs, off, rd, Len(fs)) /\ Described(fs, off, rd) = g[1..Len(fs)]
<1>1. DOMAIN fs = 1..Len(fs) /\ Len(fs) \in Nat
  OBVIOUS
<1>2. \E g : g = [s \in SUBSET (1..Len(fs)) |-> StepOf(fs, off, rd, g, s)]
  <2>1. PICK g : Solves(g, fs, off, rd, Len(fs))
    BY <1>1, Solvable
  <2>2. g = [s \in SUBSET (1..Len(fs)) |-> StepOf(fs, off, rd, g, s)]
    BY <2>1 DEF Solves
  <2>. QED
    BY <2>2
<1>. DEFINE c == CHOOSE g : g = [s \in SUBSET (1..Len(fs)) |-> StepOf(fs, off, rd, g, s)]
<1>3. c = [s \in SUBSET (1..Len(fs)) |-> StepOf(fs, off, rd, c, s)]
  BY <1>2
<1>4. Described(fs, off, rd) = c[1..Len(fs)]
  BY <1>1, Unfold
<1>. QED
  BY <1>3, <1>4 DEF Solves

\* config_buf's loop, one function at a time.
LEMMA DescribedAppend ==
    ASSUME NEW S, NEW fs \in Seq(S), NEW f \in S, NEW off, NEW rd
    PROVE  Described(Append(fs, f), off, rd) =
             IF f \in off \/ f \notin rd THEN Described(fs, off, rd)
             ELSE Numbered(f, Described(fs, off, rd))
<1>. DEFINE n == Len(fs)
<1>. DEFINE fx == Append(fs, f)
<1>1. /\ n \in Nat /\ fx \in Seq(S) /\ Len(fx) = n + 1 /\ fx[n + 1] = f
      /\ \A i \in 1..n : fx[i] = fs[i]
  BY AppendProperties
<1>2. PICK g : Solves(g, fs, off, rd, n) /\ Described(fs, off, rd) = g[1..n]
  BY DescribedSolves
<1>. HIDE DEF n, fx
<1>3. PICK h : Solves(h, fx, off, rd, n + 1) /\ Described(fx, off, rd) = h[1..n + 1]
  BY <1>1, DescribedSolves
<1>. DEFINE K == {k \in 0..n : g[1..k] = h[1..k]}
<1>4. 0 \in K
  <2>1. 1..0 \in SUBSET (1..n) /\ 1..0 \in SUBSET (1..n + 1) /\ 1..0 = {} /\ 0 \in 0..n
    BY <1>1
  <2>2. g[1..0] = << >>
    BY <1>2, <2>1 DEF Solves, StepOf
  <2>3. h[1..0] = << >>
    BY <1>3, <2>1 DEF Solves, StepOf
  <2>. QED
    BY <2>1, <2>2, <2>3
<1>5. \A k \in 0..n : k # n /\ k \in K => k + 1 \in K
  <2>. SUFFICES ASSUME NEW k \in 0..n, k # n, g[1..k] = h[1..k]
               PROVE  g[1..k + 1] = h[1..k + 1] /\ k + 1 \in 0..n
    OBVIOUS
  <2>1. k + 1 \in Nat \ {0} /\ k + 1 \in 1..n /\ k + 1 - 1 = k
    BY <1>1
  <2>2. Max(1..k + 1) = k + 1 /\ (1..k + 1) \ {Max(1..k + 1)} = 1..k /\ 1..k + 1 # {}
    BY <2>1, LastPosition
  <2>3. 1..k + 1 \in SUBSET (1..n) /\ 1..k + 1 \in SUBSET (1..n + 1)
    BY <1>1
  <2>4. g[1..k + 1] = StepOf(fs, off, rd, g, 1..k + 1)
    BY <1>2, <2>3 DEF Solves
  <2>5. h[1..k + 1] = StepOf(fx, off, rd, h, 1..k + 1)
    BY <1>3, <2>3 DEF Solves
  <2>6. StepOf(fs, off, rd, g, 1..k + 1) = StepOf(fx, off, rd, h, 1..k + 1)
    BY <1>1, <2>1, <2>2 DEF StepOf
  <2>. QED
    BY <2>1, <2>4, <2>5, <2>6
<1>6. K \subseteq 0..n
  OBVIOUS
<1>. HIDE DEF K
<1>7. n \in K
  <2>1. K = 0..n
    BY <1>1, <1>4, <1>5, <1>6, Upward
  <2>. QED
    BY <1>1, <2>1
<1>8. g[1..n] = h[1..n]
  BY <1>7 DEF K
<1>9. Max(1..n + 1) = n + 1 /\ (1..n + 1) \ {Max(1..n + 1)} = 1..n /\ 1..n + 1 # {}
  <2>. DEFINE m == n + 1
  <2>1. m \in Nat \ {0} /\ m - 1 = n
    BY <1>1
  <2>. HIDE DEF m
  <2>2. Max(1..m) = m /\ (1..m) \ {Max(1..m)} = 1..m - 1 /\ 1..m # {}
    BY <2>1, LastPosition
  <2>3. Max(1..m) = m /\ (1..m) \ {Max(1..m)} = 1..n /\ 1..m # {}
    BY <2>1, <2>2
  <2>. QED
    BY <2>3 DEF m
<1>10. h[1..n + 1] = StepOf(fx, off, rd, h, 1..n + 1)
  BY <1>3 DEF Solves
<1>11. h[1..n + 1] = IF f \in off \/ f \notin rd THEN h[1..n] ELSE Numbered(f, h[1..n])
  BY <1>1, <1>9, <1>10 DEF StepOf
<1>. QED
  BY <1>2, <1>3, <1>8, <1>11 DEF fx

\* A configuration without functions describes nothing.
LEMMA DescribedEmpty ==
    ASSUME NEW off, NEW rd
    PROVE  Described(<< >>, off, rd) = << >>
<1>1. << >> \in Seq({}) /\ Len(<< >>) = 0
  OBVIOUS
<1>2. PICK g : Solves(g, << >>, off, rd, 0) /\ Described(<< >>, off, rd) = g[1..0]
  BY <1>1, DescribedSolves
<1>3. 1..0 \in SUBSET (1..0) /\ 1..0 = {}
  OBVIOUS
<1>. QED
  BY <1>2, <1>3 DEF Solves, StepOf

\* The map the host is given against the table of bound interface ids, when the
\* functions in off are disabled: what is on is there, in order, and moves down
\* if and only if something before it is off.
Matches(off, map, table) ==
    /\ Of(map) = Of(table) \ off
    /\ Len(map) <= Len(table)
    /\ Len(map) = Len(table) <=> \A j \in 1..Len(table) : table[j][1] \notin off
    /\ \A i \in 1..Len(map) : \E k \in 1..Len(table) :
          /\ table[k] = map[i]
          /\ i <= k
          /\ k = i <=> \A j \in 1..(k - 1) : table[j][1] \notin off

\* The table with the first n interfaces of f behind those it has.
Taken(f, table, n) == table \o [i \in 1..n |-> <<f, i>>]

\* No two numbers are of the same interface.
NoneTwice(table) == \A i, j \in DOMAIN table : table[i] = table[j] => i = j

\* What such a table is.
LEMMA TakenIs ==
    ASSUME NEW f \in Names, NEW table \in Seq(Names \X Nat), NEW n \in Nat \ {0}
    PROVE  /\ Taken(f, table, n) \in Seq(Names \X Nat)
           /\ Len(Taken(f, table, n)) = Len(table) + n
           /\ \A j \in 1..Len(table) : Taken(f, table, n)[j] = table[j]
           /\ \A x \in 1..n : Taken(f, table, n)[Len(table) + x] = <<f, x>>
           /\ Of(Taken(f, table, n)) = Of(table) \cup {f}
           /\ NoneTwice(table) /\ f \notin Of(table) => NoneTwice(Taken(f, table, n))
<1>. DEFINE s == [i \in 1..n |-> <<f, i>>]
<1>. DEFINE t == Taken(f, table, n)
<1>1. n \in Nat \ {0}
  OBVIOUS
<1>2. s \in Seq(Names \X Nat) /\ Len(s) = n /\ \A x \in 1..n : s[x] = <<f, x>>
  <2>1. s \in [1..n -> Names \X Nat]
    BY <1>1
  <2>2. DOMAIN s = 1..n /\ \A x \in 1..n : s[x] = <<f, x>>
    OBVIOUS
  <2>. HIDE DEF s
  <2>3. n \in Nat
    BY <1>1
  <2>4. s \in Seq(Names \X Nat)
    BY <2>1, <2>3
  <2>. QED
    BY <2>2, <2>3, <2>4
<1>3. t = table \o s
  BY DEF Taken
<1>. HIDE DEF s
<1>4. t \in Seq(Names \X Nat) /\ Len(t) = Len(table) + n
  BY <1>1, <1>2, <1>3, ConcatProperties
<1>5. \A j \in 1..Len(table) : t[j] = table[j]
  BY <1>1, <1>2, <1>3, ConcatProperties
<1>6. \A x \in 1..n : t[Len(table) + x] = <<f, x>>
  <2>. SUFFICES ASSUME NEW x \in 1..n PROVE t[Len(table) + x] = <<f, x>>
    OBVIOUS
  <2>1. Len(table) + x \in 1..(Len(table) + n) /\ Len(table) + x > Len(table)
        /\ Len(table) + x - Len(table) = x
    BY <1>1
  <2>. DEFINE k == Len(table) + x
  <2>2. k \in 1..(Len(table) + Len(s)) /\ ~(k <= Len(table)) /\ k - Len(table) = x
    BY <1>1, <1>2, <2>1
  <2>. HIDE DEF k
  <2>3. t[k] = s[k - Len(table)]
    BY <1>2, <1>3, <2>2, ConcatProperties
  <2>4. t[Len(table) + x] = s[x]
    BY <2>2, <2>3 DEF k
  <2>. QED
    BY <1>2, <2>4
<1>. HIDE DEF t
<1>7. Of(t) = Of(table) \cup {f}
  <2>1. DOMAIN t = 1..(Len(table) + n) /\ DOMAIN table = 1..Len(table)
    BY <1>4
  <2>2. Of(t) = {t[j][1] : j \in 1..(Len(table) + n)}
    BY <2>1 DEF Of, Range
  <2>3. Of(table) = {table[j][1] : j \in 1..Len(table)}
    BY <2>1 DEF Of, Range
  <2>4. Of(table) \subseteq Of(t)
    BY <1>1, <1>5, <2>2, <2>3
  <2>5. f \in Of(t)
    <3>1. 1 \in 1..n /\ Len(table) + 1 \in 1..(Len(table) + n)
      BY <1>1
    <3>2. t[Len(table) + 1][1] = f
      BY <1>6, <3>1
    <3>. QED
      BY <2>2, <3>1, <3>2
  <2>6. ASSUME NEW j \in 1..(Len(table) + n) PROVE t[j][1] \in Of(table) \cup {f}
    <3>1. CASE j <= Len(table)
      <4>1. j \in 1..Len(table)
        BY <3>1
      <4>2. t[j] = table[j] /\ table[j][1] \in Of(table)
        BY <1>5, <2>3, <4>1
      <4>. QED
        BY <4>2
    <3>2. CASE ~(j <= Len(table))
      <4>1. j - Len(table) \in 1..n /\ Len(table) + (j - Len(table)) = j
        BY <1>1, <3>2
      <4>2. t[j] = <<f, j - Len(table)>>
        BY <1>6, <4>1
      <4>. QED
        BY <4>2
    <3>. QED
      BY <3>1, <3>2
  <2>. QED
    BY <2>2, <2>4, <2>5, <2>6
<1>8. ASSUME NoneTwice(table), f \notin Of(table), NEW i \in DOMAIN t, NEW j \in DOMAIN t, t[i] = t[j]
      PROVE  i = j
  <2>1. DOMAIN t = 1..(Len(table) + n) /\ DOMAIN table = 1..Len(table)
    BY <1>4
  <2>2. \A x \in 1..Len(table) : t[x] = table[x] /\ t[x][1] # f
    <3>1. \A x \in 1..Len(table) : table[x][1] \in Of(table)
      BY <2>1 DEF Of, Range
    <3>. QED
      BY <1>5, <1>8, <3>1
  <2>3. ASSUME NEW x \in DOMAIN t, x \notin 1..Len(table)
        PROVE  t[x] = <<f, x - Len(table)>> /\ t[x][1] = f
    <3>1. x - Len(table) \in 1..n /\ Len(table) + (x - Len(table)) = x
      BY <1>1, <2>1, <2>3
    <3>2. t[Len(table) + (x - Len(table))] = <<f, x - Len(table)>>
      BY <1>6, <3>1
    <3>3. t[x] = <<f, x - Len(table)>>
      BY <3>1, <3>2
    <3>. QED
      BY <3>3
  <2>4. CASE i \in 1..Len(table)
    <3>1. j \in 1..Len(table)
      BY <1>8, <2>2, <2>3, <2>4
    <3>. QED
      BY <1>8, <2>1, <2>2, <2>4, <3>1 DEF NoneTwice
  <2>5. CASE i \notin 1..Len(table)
    <3>1. j \notin 1..Len(table)
      BY <1>8, <2>2, <2>3, <2>5
    <3>2. i - Len(table) = j - Len(table)
      BY <1>8, <2>3, <2>5, <3>1
    <3>. QED
      BY <2>1, <3>2
  <2>. QED
    BY <2>4, <2>5
<1>. QED
  BY <1>4, <1>5, <1>6, <1>7, <1>8 DEF t, NoneTwice

\* The table with all the interfaces of f.
LEMMA NumberedIs ==
    ASSUME NEW f \in Names, NEW table \in Seq(Names \X Nat)
    PROVE  /\ Interfaces[f] \in Nat \ {0}
           /\ Numbered(f, table) = Taken(f, table, Interfaces[f])
           /\ Numbered(f, table) \in Seq(Names \X Nat)
           /\ Len(Numbered(f, table)) = Len(table) + Interfaces[f]
           /\ \A j \in 1..Len(table) : Numbered(f, table)[j] = table[j]
           /\ \A x \in 1..Interfaces[f] : Numbered(f, table)[Len(table) + x] = <<f, x>>
           /\ Of(Numbered(f, table)) = Of(table) \cup {f}
<1>1. Interfaces[f] \in Nat \ {0}
  BY GadgetAssumption
<1>2. Numbered(f, table) = Taken(f, table, Interfaces[f])
  BY DEF Numbered, Taken
<1>. DEFINE n == Interfaces[f]
<1>. HIDE DEF n
<1>3. n \in Nat \ {0}
  BY <1>1 DEF n
<1>4. /\ Taken(f, table, n) \in Seq(Names \X Nat)
      /\ Len(Taken(f, table, n)) = Len(table) + n
      /\ \A j \in 1..Len(table) : Taken(f, table, n)[j] = table[j]
      /\ \A x \in 1..n : Taken(f, table, n)[Len(table) + x] = <<f, x>>
      /\ Of(Taken(f, table, n)) = Of(table) \cup {f}
  BY <1>3, TakenIs
<1>. QED
  BY <1>1, <1>2, <1>4 DEF n

\* bind gets all its ids, or some, or none and leaves the table alone.
LEMMA IdsTaken ==
    ASSUME NEW f \in Names, NEW table \in Seq(Names \X Nat)
    PROVE  \/ usb_interface_id(f, table) = Numbered(f, table)
           \/ \E n \in Nat \ {0} :
                 usb_interface_id(f, table) = Taken(f, table, n) /\ n < Interfaces[f]
           \/ usb_interface_id(f, table) = table
<1>. DEFINE n == MaxInterfaces - Len(table)
<1>1. Interfaces[f] \in Nat \ {0} /\ Len(table) \in Nat /\ MaxInterfaces \in Nat
  BY GadgetAssumption
<1>2. CASE Len(table) + Interfaces[f] <= MaxInterfaces
  BY <1>2 DEF usb_interface_id
<1>3. CASE ~(Len(table) + Interfaces[f] <= MaxInterfaces) /\ n > 0
  <2>1. n \in Nat \ {0} /\ n < Interfaces[f]
    BY <1>1, <1>3
  <2>2. usb_interface_id(f, table) = Taken(f, table, n)
    BY <1>3 DEF usb_interface_id, Taken
  <2>. QED
    BY <2>1, <2>2
<1>4. CASE ~(Len(table) + Interfaces[f] <= MaxInterfaces) /\ ~(n > 0)
  <2>1. 1..n = {}
    BY <1>1, <1>4
  <2>2. [i \in 1..n |-> <<f, i>>] = << >>
    <3>. DEFINE none == [i \in 1..n |-> <<f, i>>]
    <3>1. none \in [1..0 -> {<<f, i>> : i \in 1..n}] /\ 0 \in Nat
      BY <2>1
    <3>. HIDE DEF none
    <3>2. none \in Seq({<<f, i>> : i \in 1..n}) /\ Len(none) = 0
      BY <3>1
    <3>3. none = << >>
      BY <3>2, EmptySeq
    <3>. QED
      BY <3>3 DEF none
  <2>3. usb_interface_id(f, table) = table \o << >>
    BY <1>4, <2>2 DEF usb_interface_id
  <2>. QED
    BY <2>3
<1>. QED
  BY <1>2, <1>3, <1>4


\* A function is bound, and described unless it is off: the map still matches.
LEMMA Lockstep ==
    ASSUME NEW off, NEW map \in Seq(Names \X Nat), NEW table \in Seq(Names \X Nat),
           NEW f \in Names, Matches(off, map, table)
    PROVE  Matches(off, IF f \in off THEN map ELSE Numbered(f, map), Numbered(f, table))
<1>. DEFINE n == Interfaces[f]
<1>. DEFINE t == Numbered(f, table)
<1>. DEFINE L == Len(table)
<1>. DEFINE M == Len(map)
<1>0. L \in Nat /\ M \in Nat /\ M <= L
  BY DEF Matches
<1>1. /\ n \in Nat \ {0} /\ Len(t) = L + n
      /\ \A j \in 1..L : t[j] = table[j]
      /\ \A x \in 1..n : t[L + x] = <<f, x>>
      /\ Of(t) = Of(table) \cup {f}
  BY NumberedIs
<1>2. Of(map) = Of(table) \ off
  BY DEF Matches
<1>3. M = L <=> \A j \in 1..L : table[j][1] \notin off
  BY DEF Matches
<1>4. \A i \in 1..M : \E k \in 1..L :
          /\ table[k] = map[i]
          /\ i <= k
          /\ k = i <=> \A j \in 1..(k - 1) : table[j][1] \notin off
  BY DEF Matches
<1>5. \A x \in 1..n : t[L + x][1] = f
  BY <1>1
<1>6. 1..L \subseteq 1..(L + n)
  BY <1>0, <1>1
<1>7. \A j \in 1..(L + n) : j \in 1..L \/ (j - L \in 1..n /\ L + (j - L) = j)
  BY <1>0, <1>1
<1>. HIDE DEF n, t, L, M
<1>8. ASSUME NEW i \in 1..M
      PROVE  \E k \in 1..(L + n) :
                 /\ t[k] = map[i]
                 /\ i <= k
                 /\ k = i <=> \A j \in 1..(k - 1) : t[j][1] \notin off
  <2>1. PICK k \in 1..L :
            /\ table[k] = map[i]
            /\ i <= k
            /\ k = i <=> \A j \in 1..(k - 1) : table[j][1] \notin off
    BY <1>4
  <2>2. 1..(k - 1) \subseteq 1..L
    BY <1>0
  <2>3. (\A j \in 1..(k - 1) : t[j][1] \notin off) <=> \A j \in 1..(k - 1) : table[j][1] \notin off
    BY <1>1, <2>2
  <2>4. t[k] = map[i] /\ k \in 1..(L + n)
    BY <1>1, <1>6, <2>1
  <2>. QED
    BY <2>1, <2>3, <2>4
<1>9. CASE f \in off
  <2>1. Of(map) = Of(t) \ off
    BY <1>1, <1>2, <1>9
  <2>2. M <= L + n /\ M # L + n
    BY <1>0, <1>1
  <2>3. ~ \A j \in 1..(L + n) : t[j][1] \notin off
    <3>1. 1 \in 1..n /\ L + 1 \in 1..(L + n)
      BY <1>0, <1>1
    <3>2. t[L + 1][1] = f
      BY <1>5, <3>1
    <3>. QED
      BY <1>9, <3>1, <3>2
  <2>4. Matches(off, map, t)
    BY <1>1, <1>8, <2>1, <2>2, <2>3 DEF Matches, M
  <2>. QED
    BY <1>9, <2>4 DEF t
<1>10. CASE f \notin off
  <2>. DEFINE m == Numbered(f, map)
  <2>1. /\ Len(m) = M + n
        /\ \A j \in 1..M : m[j] = map[j]
        /\ \A x \in 1..n : m[M + x] = <<f, x>>
        /\ Of(m) = Of(map) \cup {f}
    BY NumberedIs DEF n, M
  <2>. HIDE DEF m
  <2>2. Of(m) = Of(t) \ off
    BY <1>1, <1>2, <1>10, <2>1
  <2>3. M + n <= L + n /\ (M + n = L + n <=> M = L)
    BY <1>0, <1>1
  <2>4. ASSUME NEW p \in L..(L + n)
        PROVE  (\A j \in 1..p : t[j][1] \notin off) <=> M = L
    <3>1. 1..L \subseteq 1..p /\ 1..p \subseteq 1..(L + n)
      BY <1>0, <1>1
    <3>2. (\A j \in 1..p : t[j][1] \notin off) => \A j \in 1..L : table[j][1] \notin off
      BY <1>1, <3>1
    <3>3. ASSUME \A j \in 1..L : table[j][1] \notin off, NEW j \in 1..p PROVE t[j][1] \notin off
      <4>1. CASE j \in 1..L
        BY <1>1, <3>3, <4>1
      <4>2. CASE j - L \in 1..n /\ L + (j - L) = j
        <5>1. t[L + (j - L)][1] = f
          BY <1>5, <4>2
        <5>. QED
          BY <1>10, <4>2, <5>1
      <4>. QED
        BY <1>7, <3>1, <4>1, <4>2
    <3>. QED
      BY <1>3, <3>2, <3>3
  <2>5. (\A j \in 1..(L + n) : t[j][1] \notin off) <=> M = L
    <3>1. L + n \in L..(L + n)
      BY <1>0, <1>1
    <3>. QED
      BY <2>4, <3>1
  <2>6. ASSUME NEW i \in 1..(M + n)
        PROVE  \E k \in 1..(L + n) :
                   /\ t[k] = m[i]
                   /\ i <= k
                   /\ k = i <=> \A j \in 1..(k - 1) : t[j][1] \notin off
    <3>1. CASE i \in 1..M
      BY <1>8, <2>1, <3>1
    <3>2. CASE i \notin 1..M
      <4>. DEFINE x == i - M
      <4>. DEFINE k == L + x
      <4>1. x \in 1..n /\ M + x = i /\ k \in 1..(L + n) /\ k - 1 \in L..(L + n)
            /\ i <= k /\ (k = i <=> M = L)
        BY <1>0, <1>1, <3>2
      <4>2. t[k] = <<f, x>> /\ m[M + x] = <<f, x>>
        BY <1>1, <2>1, <4>1
      <4>3. (\A j \in 1..(k - 1) : t[j][1] \notin off) <=> M = L
        BY <2>4, <4>1
      <4>. HIDE DEF x, k
      <4>. QED
        BY <4>1, <4>2, <4>3
    <3>. QED
      BY <3>1, <3>2
  <2>7. Matches(off, m, t)
    BY <1>1, <2>1, <2>2, <2>3, <2>5, <2>6 DEF Matches
  <2>. QED
    BY <1>10, <2>7 DEF t, m
<1>. QED
  BY <1>9, <1>10

\* The list and the table of interface ids are of the same functions, and whatever
\* userspace disables, config_buf's numbers match.
LaidFor(fs) ==
    /\ Of(interface) = Range(fs)
    /\ \A off, rd \in SUBSET Names : Range(fs) \subseteq rd =>
          /\ Described(fs, off, rd) \in Seq(Names \X Nat)
          /\ Matches(off, Described(fs, off, rd), interface)

\* The function being bound has not got all its ids, and will fail.
Short == boot.pc = "bind" /\ ~AllIds

\* While no function that failed to bind holds an id, this is so of the list, less a
\* function that will fail for the want of any id.
Laid ==
    freed \cap Of(interface) = {} =>
        IF Short THEN Name \notin Of(interface) => LaidFor(Front(functions)) ELSE LaidFor(functions)

\* A function with interface ids has its descriptors, has failed or is being bound.
Binding ==
    /\ interface \in Seq(Names \X Nat) /\ functions \in Seq(Names)
    /\ ready \subseteq Names /\ disabled \subseteq Names
    /\ Of(interface) \subseteq ready \cup freed \cup (IF boot.pc = "bind" THEN {Name} ELSE {})
    /\ boot.pc = "bind" => functions # << >>

\* The functions that have been added when n of the board's list have had their turn.
UpTo(n) == {Functions[x] : x \in 1..n}

\* No function is bound twice, so that no two ids are of the same interface.
Distinct ==
    /\ NoneTwice(interface)
    /\ ~bound => interface = << >>
    /\ boot.pc \in BootSteps => Of(interface) \subseteq UpTo(IF boot.pc = "add" THEN boot.at - 1 ELSE boot.at)

\* What set_config has set up is what is enabled, until a writer changes that.
Running ==
    ~early /\ host.state = "configured" /\ oops = "none" =>
        /\ freed \cap Of(interface) = {}
        /\ (\A w \in Writers : writer[w].pc \in {"idle", "connect"}) =>
              active = Of(interface) \ (disabled \cup (IF ports THEN {} ELSE Acm))

\* The kernel crashes only on a failed bind, or on a host that came early.
Crashed == oops # "none" => early \/ freed # {}

TableInv == Laid /\ Binding /\ Distinct /\ Running /\ Crashed

\* The functions of a list with one more.
LEMMA RangeAppend ==
    ASSUME NEW S, NEW fs \in Seq(S), NEW f \in S
    PROVE  Append(fs, f) \in Seq(S) /\ Range(Append(fs, f)) = Range(fs) \cup {f}
<1>. DEFINE fx == Append(fs, f)
<1>. DEFINE n == Len(fs)
<1>1. /\ fx \in Seq(S) /\ Len(fx) = n + 1 /\ n \in Nat
      /\ \A i \in 1..n : fx[i] = fs[i]
      /\ fx[n + 1] = f
  BY AppendProperties
<1>2. DOMAIN fx = 1..(n + 1) /\ DOMAIN fs = 1..n
  BY <1>1
<1>. HIDE DEF fx, n
<1>3. 1..(n + 1) = 1..n \cup {n + 1}
  BY <1>1
<1>4. Range(fx) = Range(fs) \cup {f}
  BY <1>1, <1>2, <1>3 DEF Range
<1>. QED
  BY <1>1, <1>4 DEF fx

\* A list without the function that was put there last.
LEMMA FrontAppend ==
    ASSUME NEW S, NEW fs \in Seq(S), NEW f \in S
    PROVE  Front(Append(fs, f)) = fs /\ Append(fs, f) # << >>
<1>. DEFINE fx == Append(fs, f)
<1>. DEFINE n == Len(fs)
<1>1. /\ fx \in Seq(S) /\ Len(fx) = n + 1 /\ n \in Nat
      /\ \A i \in 1..n : fx[i] = fs[i]
  BY AppendProperties
<1>2. Front(fx) = SubSeq(fx, 1, n)
  BY <1>1 DEF Front
<1>3. /\ SubSeq(fx, 1, n) \in Seq(S) /\ Len(SubSeq(fx, 1, n)) = n
      /\ \A i \in 1..n : SubSeq(fx, 1, n)[i] = fx[i]
  BY <1>1
<1>. HIDE DEF fx
<1>4. \A i \in 1..n : Front(fx)[i] = fs[i]
  BY <1>1, <1>2, <1>3
<1>5. Front(fx) = fs
  BY <1>1, <1>2, <1>3, <1>4, SeqEqual
<1>6. fx # << >>
  BY <1>1
<1>. QED
  BY <1>5, <1>6 DEF fx

\* A list without its last function.
LEMMA FrontIs ==
    ASSUME NEW S, NEW fs \in Seq(S), fs # << >>
    PROVE  Front(fs) \in Seq(S)
<1>1. Len(fs) \in Nat \ {0}
  BY EmptySeq
<1>. QED
  BY <1>1 DEF Front

\* A function is added to the list and to the table.
LEMMA LaidStep ==
    ASSUME LaidFor(functions), interface \in Seq(Names \X Nat), functions \in Seq(Names), NEW f \in Names,
           functions' = Append(functions, f), interface' = Numbered(f, interface)
    PROVE  LaidFor(functions)'
<1>1. functions \in Seq(Names) /\ interface \in Seq(Names \X Nat) /\ Of(interface) = Range(functions)
  BY DEF LaidFor
<1>2. functions' \in Seq(Names) /\ Range(functions') = Range(functions) \cup {f}
  BY <1>1, RangeAppend
<1>3. interface' \in Seq(Names \X Nat) /\ Of(interface') = Of(interface) \cup {f}
  BY <1>1, NumberedIs
<1>4. ASSUME NEW off \in SUBSET Names, NEW rd \in SUBSET Names, Range(functions') \subseteq rd
      PROVE  /\ Described(functions', off, rd) \in Seq(Names \X Nat)
             /\ Matches(off, Described(functions', off, rd), interface')
  <2>. DEFINE map == Described(functions, off, rd)
  <2>1. f \in rd /\ Range(functions) \subseteq rd
    BY <1>2, <1>4
  <2>2. map \in Seq(Names \X Nat) /\ Matches(off, map, interface)
    BY <2>1 DEF LaidFor
  <2>3. Described(functions', off, rd) = IF f \in off THEN map ELSE Numbered(f, map)
    BY <1>1, <2>1, DescribedAppend
  <2>. HIDE DEF map
  <2>4. Numbered(f, map) \in Seq(Names \X Nat)
    BY <2>2, NumberedIs
  <2>5. Matches(off, IF f \in off THEN map ELSE Numbered(f, map), interface')
    BY <1>1, <2>2, Lockstep
  <2>. QED
    BY <2>2, <2>3, <2>4, <2>5
<1>. QED
  BY <1>1, <1>2, <1>3, <1>4 DEF LaidFor

\* The function being bound is one of the board's.
LEMMA NameIs ==
    ASSUME Setting, boot.pc \in BootSteps
    PROVE  Name \in Names
<1>1. Functions \in Seq(Names) /\ boot.at \in 1..Len(Functions)
  BY GadgetAssumption DEF Setting
<1>. QED
  BY <1>1 DEF Name

\* The functions before the one that is being added are others.
LEMMA NotYet ==
    ASSUME NEW n \in 1..Len(Functions)
    PROVE  Functions[n] \notin UpTo(n - 1) /\ UpTo(n - 1) \cup {Functions[n]} = UpTo(n) /\ UpTo(0) = {}
<1>1. Functions \in Seq(Names) /\ DOMAIN Functions = 1..Len(Functions) /\ Len(Functions) \in Nat
      /\ \A x, y \in DOMAIN Functions : Functions[x] = Functions[y] => x = y
  BY GadgetAssumption DEF IsInjective
<1>2. 1..(n - 1) \subseteq 1..Len(Functions) /\ n \notin 1..(n - 1) /\ 1..n = 1..(n - 1) \cup {n} /\ 1..0 = {}
  BY <1>1
<1>3. Functions[n] \notin UpTo(n - 1)
  BY <1>1, <1>2 DEF UpTo
<1>. QED
  BY <1>2, <1>3 DEF UpTo

\* The initcalls that bind nothing, and those that go on to the next function.
LEMMA TurnOver ==
    ASSUME Distinct, UNCHANGED interface, NEW i \in Nat \ {0}, NEW v,
           boot' = Onward(i, v), bound', Of(interface) \subseteq UpTo(i - 1)
    PROVE  Distinct' /\ boot'.pc # "bind" /\ ~Short'
<1>1. boot'.pc # "bind" /\ (boot'.pc \in BootSteps => boot'.pc = "add" /\ boot'.at = i)
  BY DEF Onward, Done, BootSteps
<1>2. Of(interface') = Of(interface) /\ NoneTwice(interface')
  BY DEF Distinct
<1>3. Distinct'
  BY <1>1, <1>2 DEF Distinct
<1>. QED
  BY <1>1, <1>3 DEF Short

\* usb_add_function lists the function, and its bind takes the ids there are.
LEMMA AddKeepsTable ==
    ASSUME HostInv, DescInv, TableInv, boot.pc = "add",
           functions' = Append(functions, Name), interface' = usb_interface_id(Name, interface),
           boot' = [boot EXCEPT !.pc = "bind"],
           UNCHANGED <<ready, freed, disabled, bound>>
    PROVE  Laid' /\ Binding' /\ Distinct'
<1>. USE DEF HostInv, DescInv, TableInv
<1>1. Name \in Names /\ boot.at \in 1..Len(Functions) /\ bound
  BY NameIs DEF BootSteps, Setting
<1>2. boot'.pc = "bind" /\ boot'.at = boot.at /\ Name' = Name
  BY DEF Shape, Name
<1>3. interface \in Seq(Names \X Nat) /\ functions \in Seq(Names)
  BY DEF Binding
<1>4. Name \notin Of(interface) /\ UpTo(boot.at - 1) \cup {Name} = UpTo(boot.at)
      /\ Of(interface) \subseteq UpTo(boot.at - 1) /\ NoneTwice(interface)
  BY <1>1, NotYet DEF Distinct, BootSteps, Name
<1>5. functions' \in Seq(Names) /\ functions' # << >> /\ Front(functions') = functions
  BY <1>1, <1>3, RangeAppend, FrontAppend
<1>6. Interfaces[Name] \in Nat \ {0}
  BY <1>1, <1>3, NumberedIs
<1>7. ~Short
  BY DEF Short
<1>8. ASSUME interface' \in Seq(Names \X Nat), Of(interface') \subseteq Of(interface) \cup {Name}, NoneTwice(interface')
      PROVE  Binding' /\ Distinct'
  <2>1. Binding'
    BY <1>2, <1>5, <1>8 DEF Binding
  <2>2. Distinct'
    BY <1>1, <1>2, <1>4, <1>8 DEF Distinct
  <2>. QED
    BY <2>1, <2>2
<1>9. CASE interface' = Numbered(Name, interface)
  <2>1. /\ interface' \in Seq(Names \X Nat) /\ Of(interface') = Of(interface) \cup {Name}
        /\ Len(interface') = Len(interface) + Interfaces[Name]
        /\ interface'[Len(interface) + Interfaces[Name]] = <<Name, Interfaces[Name]>>
    <3>1. Interfaces[Name] \in 1..Interfaces[Name]
      BY <1>6
    <3>2. /\ Numbered(Name, interface) \in Seq(Names \X Nat)
          /\ Of(Numbered(Name, interface)) = Of(interface) \cup {Name}
          /\ Len(Numbered(Name, interface)) = Len(interface) + Interfaces[Name]
          /\ \A x \in 1..Interfaces[Name] : Numbered(Name, interface)[Len(interface) + x] = <<Name, x>>
      BY <1>1, <1>3, NumberedIs
    <3>3. interface'[Len(interface) + Interfaces[Name]] = <<Name, Interfaces[Name]>>
      BY <1>9, <3>1, <3>2
    <3>. QED
      BY <1>9, <3>2, <3>3
  <2>2. NoneTwice(interface')
    <3>. DEFINE n == Interfaces[Name]
    <3>1. interface' = Taken(Name, interface, n)
      BY <1>1, <1>3, <1>9, NumberedIs
    <3>2. n \in Nat \ {0}
      BY <1>6
    <3>. HIDE DEF n
    <3>3. NoneTwice(Taken(Name, interface, n))
      BY <1>1, <1>3, <1>4, <3>2, TakenIs
    <3>. QED
      BY <3>1, <3>3
  <2>3. AllIds'
    <3>1. DOMAIN interface' = 1..Len(interface') /\ Len(interface) \in Nat
      BY <1>3, <2>1
    <3>2. Len(interface) + Interfaces[Name] \in DOMAIN interface'
      BY <1>6, <2>1, <3>1
    <3>3. <<Name, Interfaces[Name]>> \in Range(interface')
      BY <2>1, <3>2 DEF Range
    <3>. QED
      BY <1>2, <3>3 DEF AllIds
  <2>4. Laid'
    <3>. SUFFICES ASSUME freed' \cap Of(interface') = {} PROVE LaidFor(functions)'
      BY <2>3 DEF Laid, Short
    <3>1. LaidFor(functions)
      BY <1>7, <2>1 DEF Laid
    <3>. QED
      BY <1>1, <1>3, <1>9, <3>1, LaidStep
  <2>. QED
    BY <1>8, <2>1, <2>2, <2>4
<1>10. ASSUME NEW n \in Nat \ {0}, interface' = Taken(Name, interface, n), n < Interfaces[Name]
       PROVE  Laid' /\ Binding' /\ Distinct'
  <2>1. /\ interface' \in Seq(Names \X Nat) /\ Of(interface') = Of(interface) \cup {Name}
        /\ Len(interface') = Len(interface) + n
        /\ \A j \in 1..Len(interface) : interface'[j] = interface[j]
        /\ \A x \in 1..n : interface'[Len(interface) + x] = <<Name, x>>
        /\ NoneTwice(interface')
    <3>1. /\ Taken(Name, interface, n) \in Seq(Names \X Nat)
          /\ Of(Taken(Name, interface, n)) = Of(interface) \cup {Name}
          /\ Len(Taken(Name, interface, n)) = Len(interface) + n
          /\ \A j \in 1..Len(interface) : Taken(Name, interface, n)[j] = interface[j]
          /\ \A x \in 1..n : Taken(Name, interface, n)[Len(interface) + x] = <<Name, x>>
      BY <1>1, <1>3, <1>10, TakenIs
    <3>2. NoneTwice(Taken(Name, interface, n))
      BY <1>1, <1>3, <1>4, <1>10, TakenIs
    <3>. QED
      BY <1>10, <3>1, <3>2
  <2>2. ~AllIds'
    <3>. SUFFICES ASSUME NEW j \in DOMAIN interface', interface'[j] = <<Name, Interfaces[Name]>> PROVE FALSE
      BY <1>2 DEF AllIds, Range
    <3>1. DOMAIN interface' = 1..(Len(interface) + n) /\ Len(interface) \in Nat /\ DOMAIN interface = 1..Len(interface)
      BY <1>3, <2>1
    <3>2. CASE j \in 1..Len(interface)
      <4>1. interface[j][1] = Name /\ interface[j][1] \in Of(interface)
        BY <2>1, <3>1, <3>2 DEF Of, Range
      <4>. QED
        BY <1>4, <4>1
    <3>3. CASE j \notin 1..Len(interface)
      <4>. DEFINE x == j - Len(interface)
      <4>1. x \in 1..n /\ Len(interface) + x = j
        BY <3>1, <3>3
      <4>. HIDE DEF x
      <4>2. interface'[j] = <<Name, x>>
        BY <2>1, <4>1
      <4>3. x = Interfaces[Name]
        BY <4>2
      <4>. QED
        BY <1>6, <1>10, <4>1, <4>3
    <3>. QED
      BY <3>2, <3>3
  <2>3. Laid'
    BY <1>2, <2>1, <2>2 DEF Laid, Short
  <2>. QED
    BY <1>8, <2>1, <2>3
<1>11. CASE interface' = interface
  <2>1. ~AllIds'
    <3>. SUFFICES ASSUME NEW j \in DOMAIN interface, interface[j] = <<Name, Interfaces[Name]>> PROVE FALSE
      BY <1>2, <1>11 DEF AllIds, Range
    <3>1. interface[j][1] = Name /\ interface[j][1] \in Of(interface)
      BY DEF Of, Range
    <3>. QED
      BY <1>4, <3>1
  <2>2. Of(interface') = Of(interface)
    BY <1>11
  <2>3. Laid'
    <3>. SUFFICES ASSUME freed' \cap Of(interface') = {} PROVE LaidFor(Front(functions))'
      BY <1>2, <2>1 DEF Laid, Short
    <3>1. LaidFor(functions)
      BY <1>7, <2>2 DEF Laid
    <3>. QED
      BY <1>5, <1>11, <3>1 DEF LaidFor
  <2>. QED
    BY <1>3, <1>4, <1>8, <1>11, <2>2, <2>3
<1>. QED
  BY <1>1, <1>3, <1>9, <1>10, <1>11, IdsTaken

\* The table through the initcalls: bind takes ids for the function that
\* usb_add_function has listed.
LEMMA InitcallsKeepTable ==
    ASSUME HostInv, DescInv, TableInv, oops = "none", Initcalls
    PROVE  TableInv'
<1>. USE DEF HostInv, DescInv, TableInv
<1>1. ~Booted
  BY InitcallsEnd
<1>2. UNCHANGED <<disabled, writer, host, early>>
  BY InitcallsFrame
<1>3. oops' = oops
  BY DEF Initcalls, dynamic_probe, dynamic_register_function, usb_add_function,
         usb_add_function_end, gserial_setup, dynamic_bind
<1>4. Crashed' /\ Running'
  BY <1>1, <1>2, <1>3 DEF Crashed, Running, Enumerating
<1>5. ASSUME UNCHANGED <<functions, interface, ready, freed>>, boot.pc # "bind", boot'.pc # "bind"
      PROVE  Laid' /\ Binding'
  BY <1>2, <1>5 DEF Laid, LaidFor, Short, Binding
<1>6. ASSUME NEW v, boot' = Onward(1, v), bound', ~bound, UNCHANGED interface
      PROVE  Distinct' /\ boot'.pc # "bind"
  <2>1. interface = << >> /\ Of(interface) = {}
    <3>1. interface = << >>
      BY <1>6 DEF Distinct
    <3>. QED
      BY <3>1 DEF Of, Range
  <2>2. 1 \in Nat \ {0} /\ Of(interface) \subseteq UpTo(1 - 1)
    BY <2>1
  <2>. QED
    BY <1>6, <2>2, TurnOver
<1>7. ASSUME boot'.pc \notin BootSteps, UNCHANGED <<bound, interface>>
      PROVE  Distinct' /\ boot'.pc # "bind"
  BY <1>7 DEF Distinct, NoneTwice, BootSteps
<1>8. ASSUME boot.pc \in {"bind", "port"}, UNCHANGED <<bound, interface>>, boot' = Onward(boot.at + 1, boot.via)
      PROVE  Distinct' /\ boot'.pc # "bind"
  <2>1. bound' /\ boot.at \in 1..Len(Functions) /\ Of(interface) \subseteq UpTo(boot.at)
    BY <1>8 DEF Setting, BootSteps, Distinct
  <2>. DEFINE n == boot.at + 1
  <2>2. n \in Nat \ {0} /\ n - 1 = boot.at
    BY <2>1
  <2>. HIDE DEF n
  <2>3. boot' = Onward(n, boot.via) /\ Of(interface) \subseteq UpTo(n - 1)
    BY <1>8, <2>1, <2>2 DEF n
  <2>. QED
    BY <1>8, <2>1, <2>2, <2>3, TurnOver
<1>9. CASE dynamic_probe
  <2>1. UNCHANGED <<functions, interface, ready, freed>> /\ boot.pc # "bind" /\ ~bound
    BY <1>9 DEF dynamic_probe, Setting
  <2>2. \/ boot' = Onward(1, "probe") /\ bound'
        \/ boot'.pc \notin BootSteps /\ UNCHANGED bound
    BY <1>9 DEF dynamic_probe, bind_functions, should_bind_functions, BootSteps
  <2>3. CASE boot' = Onward(1, "probe") /\ bound'
    BY <1>4, <1>5, <1>6, <2>1, <2>3
  <2>4. CASE boot'.pc \notin BootSteps /\ UNCHANGED bound
    BY <1>4, <1>5, <1>7, <2>1, <2>4
  <2>. QED
    BY <2>2, <2>3, <2>4
<1>10. CASE \E f \in Names : dynamic_register_function(f)
  <2>1. PICK f \in Names : dynamic_register_function(f)
    BY <1>10
  <2>2. UNCHANGED <<functions, interface, ready, freed>> /\ boot.pc = "idle"
    BY <2>1 DEF dynamic_register_function
  <2>3. CASE should_bind_functions(config, registered')
    <3>1. boot' = Onward(1, "register") /\ bound' /\ ~bound
      BY <2>1, <2>3 DEF dynamic_register_function, bind_functions, should_bind_functions
    <3>. QED
      BY <1>4, <1>5, <1>6, <2>2, <3>1
  <2>4. CASE ~should_bind_functions(config, registered')
    <3>1. UNCHANGED <<boot, bound>>
      BY <2>1, <2>4 DEF dynamic_register_function
    <3>. QED
      BY <1>4, <1>5, <1>7, <2>2, <3>1 DEF BootSteps
  <2>. QED
    BY <2>3, <2>4
<1>11. CASE gserial_setup
  BY <1>4, <1>5, <1>8, <1>11 DEF gserial_setup
<1>12. CASE dynamic_bind
  <2>1. boot'.pc \notin BootSteps /\ UNCHANGED <<bound, functions, interface, ready, freed>> /\ boot.pc # "bind"
    BY <1>12 DEF dynamic_bind, Done, BootSteps
  <2>. QED
    BY <1>4, <1>5, <1>7, <2>1
<1>13. CASE usb_add_function
  <2>1. boot.pc = "add" /\ UNCHANGED <<ready, freed, bound>>
    BY <1>13 DEF usb_add_function
  <2>2. CASE boot' = Onward(boot.at + 1, boot.via) /\ UNCHANGED <<functions, interface>>
    <3>1. bound' /\ boot.at \in 1..Len(Functions) /\ Of(interface) \subseteq UpTo(boot.at - 1)
      BY <2>1 DEF Setting, BootSteps, Distinct
    <3>. DEFINE n == boot.at + 1
    <3>2. n \in Nat \ {0} /\ n - 1 = boot.at
      BY <3>1
    <3>. HIDE DEF n
    <3>3. boot' = Onward(n, boot.via) /\ Of(interface) \subseteq UpTo(n - 1)
      BY <2>2, <3>1, <3>2, NotYet DEF n
    <3>4. Distinct' /\ boot'.pc # "bind"
      BY <2>2, <3>1, <3>2, <3>3, TurnOver
    <3>. QED
      BY <1>4, <1>5, <2>1, <2>2, <3>4
  <2>3. CASE /\ functions' = Append(functions, Name)
             /\ interface' = usb_interface_id(Name, interface)
             /\ boot' = [boot EXCEPT !.pc = "bind"]
    BY <1>2, <1>4, <2>1, <2>3, AddKeepsTable
  <2>. QED
    BY <1>13, <2>2, <2>3 DEF usb_add_function
<1>14. CASE usb_add_function_end
  <2>. USE <1>14 DEF usb_add_function_end
  <2>1. Name \in Names /\ UNCHANGED <<interface, bound>> /\ boot.pc = "bind"
    BY NameIs DEF BootSteps
  <2>2. boot'.pc # "bind" /\ Distinct'
    <3>1. CASE boot' = [boot EXCEPT !.pc = "port"]
      <4>1. boot'.pc = "port" /\ boot'.at = boot.at
        BY <3>1 DEF Shape
      <4>. QED
        BY <2>1, <4>1 DEF Distinct, NoneTwice, BootSteps
    <3>2. CASE boot' = Onward(boot.at + 1, boot.via)
      BY <1>8, <2>1, <3>2
    <3>. QED
      BY <3>1, <3>2
  <2>3. ~Short' /\ Of(interface') = Of(interface)
    BY <2>1, <2>2 DEF Short
  <2>4. CASE AllIds /\ ready' = ready \cup {Name} /\ UNCHANGED <<functions, freed>>
    <3>1. Binding'
      BY <1>2, <2>1, <2>2, <2>3, <2>4 DEF Binding
    <3>2. Laid'
      BY <2>1, <2>3, <2>4 DEF Laid, LaidFor, Short
    <3>. QED
      BY <1>4, <2>2, <3>1, <3>2
  <2>5. CASE functions' = Front(functions) /\ freed' = freed \cup {Name} /\ UNCHANGED ready
    <3>1. functions' \in Seq(Names)
      BY <2>1, <2>5, FrontIs DEF Binding
    <3>2. Binding'
      BY <1>2, <2>1, <2>2, <2>3, <2>5, <3>1 DEF Binding
    <3>3. Laid'
      <4>. SUFFICES ASSUME freed' \cap Of(interface') = {} PROVE LaidFor(functions)'
        BY <2>3 DEF Laid
      <4>1. Name \notin Of(interface) /\ freed \cap Of(interface) = {}
        BY <2>3, <2>5
      <4>2. Short
        <5>. SUFFICES ASSUME AllIds PROVE Name \in Of(interface)
          BY <2>1, <4>1 DEF Short
        <5>1. <<Name, Interfaces[Name]>> \in Range(interface) /\ <<Name, Interfaces[Name]>>[1] = Name
          BY DEF AllIds
        <5>. QED
          BY <5>1 DEF Of
      <4>3. LaidFor(Front(functions))
        BY <4>1, <4>2 DEF Laid
      <4>. QED
        BY <2>1, <2>5, <4>3 DEF LaidFor
    <3>. QED
      BY <1>4, <2>2, <3>2, <3>3
  <2>. QED
    BY <2>4, <2>5
<1>. QED
  BY <1>9, <1>10, <1>11, <1>12, <1>13, <1>14 DEF Initcalls

\* Writers leave the table alone; between its change and its reset a writer is at
\* neither "idle" nor "connect".
LEMMA WritersKeepTable ==
    ASSUME HostInv, TableInv, oops = "none", NEW w \in Writers,
           Write(w) \/ \E f \in Names : enable_store(w, f)
    PROVE  TableInv'
<1>. USE DEF HostInv, TableInv
<1>1. UNCHANGED <<setup, speed, early>>
  BY WriteFrame
<1>2. UNCHANGED <<functions, interface, ready, freed, boot, bound, ports>>
  BY <1>1 DEF setup
<1>3. Laid' /\ Distinct'
  BY <1>2 DEF Laid, LaidFor, Short, AllIds, Name, Distinct, NoneTwice
<1>4. Of(interface') = Of(interface) /\ Name' = Name
  BY <1>2 DEF Name
<1>5. "class" \in WriterPcs /\ "multi" \in WriterPcs /\ "match" \in WriterPcs /\ "ids" \in WriterPcs
      /\ "reset" \in WriterPcs /\ "connect" \in WriterPcs /\ "idle" \in WriterPcs
  BY DEF WriterPcs
<1>6. CASE \E f \in Names : enable_store(w, f)
  <2>1. PICK f \in Names : enable_store(w, f)
    BY <1>6
  <2>2. UNCHANGED <<host, active>>
    BY <2>1 DEF enable_store, wire
  <2>3. CASE f \in freed
    <3>1. oops' = "freed" /\ UNCHANGED <<disabled, writer>>
      BY <2>1, <2>3 DEF enable_store
    <3>. QED
      BY <1>2, <1>3, <1>4, <2>3, <3>1 DEF Binding, Running, Crashed
  <2>4. CASE f \notin freed
    <3>1. /\ disabled' = IF f \in disabled THEN disabled \ {f} ELSE disabled \cup {f}
          /\ WriterTo(w, "class", writer[w].multi, writer[w].ids)
          /\ oops' = oops
      BY <2>1, <2>4 DEF enable_store, WriterTo
    <3>2. writer'[w].pc = "class"
      BY <1>5, <3>1, WriterGoes
    <3>3. Binding'
      BY <1>2, <1>4, <3>1 DEF Binding
    <3>4. Running'
      BY <1>1, <1>2, <2>2, <3>1, <3>2 DEF Running
    <3>. QED
      BY <1>3, <3>1, <3>3, <3>4 DEF Crashed
  <2>. QED
    BY <2>3, <2>4
<1>7. CASE Write(w)
  <2>1. UNCHANGED <<disabled, oops, active>>
    BY <1>7 DEF Write, update_dev_desc, update_dev_desc_end, MatchIds, StoreIds,
       usb_composite_force_reset, usb_gadget_connect, wire
  <2>2. Binding' /\ Crashed'
    BY <1>2, <1>4, <2>1 DEF Binding, Crashed
  <2>3. CASE update_dev_desc(w) \/ update_dev_desc_end(w) \/ MatchIds(w) \/ StoreIds(w)
    <3>1. /\ host' = host
          /\ \E p \in {"multi", "match", "ids", "reset"} : \E m, i : WriterTo(w, p, m, i)
      <4>1. host' = host
        BY <2>3 DEF update_dev_desc, update_dev_desc_end, MatchIds, StoreIds, wire
      <4>2. \/ WriterTo(w, "multi", Multi(functions, disabled), writer[w].ids)
            \/ WriterTo(w, "match", writer[w].multi, writer[w].ids)
            \/ WriterTo(w, "ids", writer[w].multi, Ids(functions, disabled))
            \/ WriterTo(w, "reset", writer[w].multi, writer[w].ids)
        BY <2>3 DEF update_dev_desc, update_dev_desc_end, MatchIds, StoreIds, WriterTo
      <4>. QED
        BY <4>1, <4>2
    <3>2. writer'[w].pc \in {"multi", "match", "ids", "reset"}
      BY <1>5, <3>1, WriterGoes
    <3>3. Running'
      BY <1>1, <1>2, <2>1, <3>1, <3>2 DEF Running
    <3>. QED
      BY <1>3, <2>2, <3>3
  <2>4. CASE usb_composite_force_reset(w)
    <3>1. host'.state = "detached"
      BY <2>4 DEF usb_composite_force_reset, Unconnected, Enumerating
    <3>. QED
      BY <1>3, <2>2, <3>1 DEF Running
  <2>5. CASE usb_gadget_connect(w)
    <3>1. /\ WriterTo(w, "idle", FALSE, Default)
          /\ writer[w].pc = "connect" /\ host' = host
      BY <2>5 DEF usb_gadget_connect, WriterTo
    <3>2. \A x \in Writers : x # w => writer'[x] = writer[x]
      BY <1>5, <3>1, WriterGoes
    <3>3. (\A x \in Writers : writer'[x].pc \in {"idle", "connect"})
            => \A x \in Writers : writer[x].pc \in {"idle", "connect"}
      BY <3>1, <3>2
    <3>4. Running'
      BY <1>1, <1>2, <2>1, <3>1, <3>3 DEF Running
    <3>. QED
      BY <1>3, <2>2, <3>4
  <2>. QED
    BY <1>7, <2>3, <2>4, <2>5 DEF Write
<1>. QED
  BY <1>6, <1>7

\* The host: set_config sets up what is enabled, or meets freed memory.
LEMMA HostKeepsTable ==
    ASSUME HostInv, TableInv, oops = "none", Plug \/ Unplug \/ HostStep
    PROVE  TableInv'
<1>. USE DEF HostInv, TableInv
<1>1. UNCHANGED <<setup, disabled, writer>> /\ Booted' = Booted
  BY HostFrame
<1>2. UNCHANGED <<functions, interface, ready, freed, boot, bound, ports>>
  BY <1>1 DEF setup
<1>3. Laid' /\ Distinct'
  BY <1>2 DEF Laid, LaidFor, Short, AllIds, Name, Distinct, NoneTwice
<1>4. Of(interface') = Of(interface) /\ Name' = Name
  BY <1>2 DEF Name
<1>5. Binding'
  BY <1>1, <1>2, <1>4 DEF Binding
<1>6. ASSUME oops' = oops, host'.state # "configured" PROVE TableInv'
  BY <1>3, <1>5, <1>6 DEF Running, Crashed
<1>7. CASE Plug
  <2>1. UNCHANGED <<oops, host, early, active>>
    BY <1>7 DEF Plug, history
  <2>2. Running' /\ Crashed'
    BY <1>1, <1>2, <2>1 DEF Running, Crashed
  <2>. QED
    BY <1>3, <1>5, <2>2
<1>8. CASE Unplug
  BY <1>6, <1>8 DEF Unplug, Unconnected
<1>9. CASE HostReset
  BY <1>6, <1>9 DEF HostReset, Unconnected
<1>10. CASE GetDeviceDescriptor
  BY <1>6, <1>10 DEF GetDeviceDescriptor, Shape
<1>11. CASE GetConfigDescriptor
  BY <1>6, <1>11 DEF GetConfigDescriptor, Shape
<1>12. CASE set_config
  <2>. USE <1>12 DEF set_config
  <2>1. early' = early /\ (early \/ boot.pc = "idle")
    BY DEF history, Enumerating, Booted
  <2>2. active' = Of(interface) \ (disabled \cup (IF ports THEN {} ELSE Acm))
    OBVIOUS
  <2>3. oops' = "none" => freed \cap Of(interface) = {}
    OBVIOUS
  <2>4. ~early /\ oops' # "none" => freed # {}
    BY <2>1 DEF Binding
  <2>5. Running'
    BY <1>1, <1>2, <1>4, <2>1, <2>2, <2>3 DEF Running
  <2>6. Crashed'
    BY <1>2, <2>1, <2>4 DEF Crashed
  <2>. QED
    BY <1>3, <1>5, <2>5, <2>6
<1>. QED
  BY <1>7, <1>8, <1>9, <1>10, <1>11, <1>12 DEF HostStep

\* TableInv holds in every state of the gadget: the invariant that the numbers
\* config_buf gives the host and the ids set_config goes through rest on.
THEOREM GadgetTableInductive == Spec => []TableInv
<1>1. Init => TableInv
  <2>. SUFFICES ASSUME Init PROVE TableInv
    OBVIOUS
  <2>1. functions = << >> /\ interface = << >> /\ Range(functions) = {} /\ Of(interface) = {}
    BY DEF Init, Range, Of
  <2>2. \A off, rd \in SUBSET Names : Described(functions, off, rd) = << >>
    BY <2>1, DescribedEmpty
  <2>3. << >> \in Seq(Names \X Nat) /\ << >> \in Seq(Names) /\ Len(<< >>) = 0
    OBVIOUS
  <2>4. \A off : Matches(off, << >>, << >>)
    BY <2>1, <2>3 DEF Matches
  <2>5. LaidFor(functions)
    BY <2>1, <2>2, <2>3, <2>4 DEF LaidFor
  <2>6. boot.pc = "idle" /\ DOMAIN interface = {}
    BY <2>1 DEF Init
  <2>7. Laid /\ Distinct
    BY <2>1, <2>5, <2>6 DEF Laid, Short, Distinct, NoneTwice, BootSteps
  <2>8. Binding /\ Running /\ Crashed
    BY <2>1, <2>3 DEF Init, Binding, Running, Crashed, Unconnected
  <2>. QED
    BY <2>7, <2>8 DEF TableInv
<1>2. HostInv /\ DescInv /\ TableInv /\ [Next]_vars => TableInv'
  <2>. SUFFICES ASSUME HostInv, DescInv, TableInv, [Next]_vars PROVE TableInv'
    OBVIOUS
  <2>1. CASE oops = "none" /\ Initcalls
    BY <2>1, InitcallsKeepTable
  <2>2. CASE oops = "none" /\ \E w \in Writers : Write(w) \/ \E f \in Names : enable_store(w, f)
    BY <2>2, WritersKeepTable
  <2>3. CASE oops = "none" /\ (Plug \/ Unplug \/ HostStep)
    BY <2>3, HostKeepsTable
  <2>4. CASE UNCHANGED vars
    <3>1. UNCHANGED <<functions, interface, ready, freed, boot, bound, ports, disabled, writer, host, active,
                      oops, early>>
      BY <2>4 DEF vars, setup, wire, history
    <3>2. Name' = Name
      BY <3>1 DEF Name
    <3>. QED
      BY <3>1, <3>2 DEF TableInv, Laid, LaidFor, Short, AllIds, Binding, Distinct, NoneTwice, Running, Crashed
  <2>. QED
    BY <2>1, <2>2, <2>3, <2>4 DEF Next
<1>. QED
  BY <1>1, <1>2, GadgetHostInductive, GadgetDescInductive, PTL DEF Spec

\* What holds of a configured gadget that nobody writes to.
LEMMA MapMatches ==
    ASSUME HostInv, TableInv, Quiet, ~early, host.state = "configured", oops = "none"
    PROVE  /\ host.map \in Seq(Names \X Nat) /\ interface \in Seq(Names \X Nat)
           /\ Matches(disabled, host.map, interface)
           /\ active = Of(interface) \ (disabled \cup (IF ports THEN {} ELSE Acm))
<1>1. \A w \in Writers : writer[w].pc = "idle"
  BY DEF Quiet
<1>2. host.map = Described(functions, disabled, ready)
  BY <1>1 DEF HostInv, HostInformed, Current, config_buf
<1>3. /\ freed \cap Of(interface) = {}
      /\ active = Of(interface) \ (disabled \cup (IF ports THEN {} ELSE Acm))
  BY <1>1 DEF TableInv, Running
<1>4. boot.pc = "idle" /\ ~Short
  BY DEF Quiet, Booted, Short
<1>5. LaidFor(functions) /\ interface \in Seq(Names \X Nat)
  BY <1>3, <1>4 DEF TableInv, Laid, Binding
<1>6. ready \in SUBSET Names /\ disabled \in SUBSET Names /\ Range(functions) \subseteq ready
  BY <1>3, <1>4, <1>5 DEF TableInv, Binding, LaidFor
<1>7. /\ Described(functions, disabled, ready) \in Seq(Names \X Nat)
      /\ Matches(disabled, Described(functions, disabled, ready), interface)
  BY <1>5, <1>6 DEF LaidFor
<1>. QED
  BY <1>2, <1>3, <1>5, <1>7

\* A class request that the host sends for interface number i, of a function that is
\* described to it, is taken by that function if and only if its bind noted that
\* number: asking all the functions adds nobody.
LEMMA TakenBy ==
    ASSUME NEW f, NEW i, f \in Acm \/ f \in active
    PROVE  composite_setup(f, i) = {f} <=> i \in DOMAIN interface /\ interface[i] = <<f, 1>>
<1>1. ASSUME i \in DOMAIN interface, interface[i] = <<f, 1>> PROVE composite_setup(f, i) = {f}
  <2>1. interface[i][1] = f
    BY <1>1
  <2>2. Answers(f, f, i)
    BY <1>1 DEF Answers
  <2>. QED
    BY <1>1, <2>1, <2>2 DEF composite_setup
<1>2. ASSUME composite_setup(f, i) = {f} PROVE i \in DOMAIN interface /\ interface[i] = <<f, 1>>
  <2>1. \E k \in DOMAIN interface : interface[k][1] = f /\ Answers(interface[k][1], f, i)
    <3>1. CASE i \in DOMAIN interface /\ Answers(interface[i][1], f, i)
      <4>1. interface[i][1] = f
        BY <1>2, <3>1 DEF composite_setup
      <4>. QED
        BY <3>1, <4>1
    <3>2. CASE ~(i \in DOMAIN interface /\ Answers(interface[i][1], f, i))
      <4>1. f \in dynamic_setup_config(f, i)
        BY <1>2, <3>2 DEF composite_setup
      <4>. QED
        BY <4>1 DEF dynamic_setup_config
    <3>. QED
      BY <3>1, <3>2
  <2>2. Answers(f, f, i)
    BY <2>1
  <2>. QED
    BY <2>2 DEF Answers
<1>. QED
  BY <1>1, <1>2

\* The function that the host was told of takes a class request for its interface,
\* and sets the interface up on SET_INTERFACE, if and only if no function bound before
\* it is disabled, for every list of functions, every number of interfaces and of ids.
THEOREM AlwaysRequestsReach == Spec => []RequestsReach
<1>1. HostInv /\ TableInv => RequestsReach
  <2>. DEFINE unmoved(k) == \A j \in 1..(k - 1) : interface[j][1] \notin disabled
  <2>. SUFFICES ASSUME HostInv, TableInv, Quiet, ~early, host.state = "configured", oops = "none",
                       NEW i \in DOMAIN host.map
               PROVE  \E k \in DOMAIN interface :
                          /\ interface[k] = host.map[i]
                          /\ set_alt(i) = {host.map[i]} <=> unmoved(k)
                          /\ host.map[i][2] = 1 =>
                                (composite_setup(host.map[i][1], i) = {host.map[i][1]} <=> unmoved(k))
    BY DEF RequestsReach
  <2>1. /\ host.map \in Seq(Names \X Nat) /\ interface \in Seq(Names \X Nat)
        /\ Matches(disabled, host.map, interface)
        /\ active = Of(interface) \ (disabled \cup (IF ports THEN {} ELSE Acm))
    BY MapMatches
  <2>2. DOMAIN host.map = 1..Len(host.map) /\ DOMAIN interface = 1..Len(interface)
    BY <2>1
  <2>3. PICK k \in DOMAIN interface : interface[k] = host.map[i] /\ (k = i <=> unmoved(k))
    BY <2>1, <2>2 DEF Matches
  <2>. HIDE DEF unmoved
  <2>4. i \in DOMAIN interface /\ interface[i] = host.map[i] <=> k = i
    BY <2>3 DEF TableInv, Distinct, NoneTwice
  <2>5. set_alt(i) = {host.map[i]} <=> unmoved(k)
    BY <2>3, <2>4 DEF set_alt
  <2>6. ASSUME host.map[i][2] = 1
        PROVE  composite_setup(host.map[i][1], i) = {host.map[i][1]} <=> unmoved(k)
    <3>. DEFINE f == host.map[i][1]
    <3>1. host.map[i] = <<f, 1>>
      <4>1. host.map[i] \in Names \X Nat
        BY <2>1, <2>2
      <4>. QED
        BY <2>6, <4>1
    <3>2. f \in Of(host.map)
      BY DEF Of, Range
    <3>3. f \in Acm \/ f \in active
      BY <2>1, <3>2 DEF Matches
    <3>. HIDE DEF f
    <3>4. composite_setup(f, i) = {f} <=> i \in DOMAIN interface /\ interface[i] = <<f, 1>>
      BY <3>3, TakenBy
    <3>5. composite_setup(f, i) = {f} <=> unmoved(k)
      BY <2>3, <2>4, <3>1, <3>4
    <3>. QED
      BY <3>5 DEF f
  <2>. QED
    BY <2>3, <2>5, <2>6
<1>. QED
  BY <1>1, GadgetHostInductive, GadgetTableInductive, PTL

\* Exactly the functions that config_buf described to the host run once set_config is
\* over and no write is under way; it crashes only where a bind had failed.
THEOREM AlwaysActiveAsDescribed == Spec => []ActiveAsDescribed
<1>1. HostInv /\ TableInv => ActiveAsDescribed
  <2>. SUFFICES ASSUME HostInv, TableInv, Quiet, ~early, host.state = "configured"
               PROVE  IF oops = "none" THEN active = Of(host.map) \ (IF ports THEN {} ELSE Acm)
                                       ELSE freed # {}
    BY DEF ActiveAsDescribed
  <2>1. CASE oops = "none"
    <3>1. /\ Of(host.map) = Of(interface) \ disabled
          /\ active = Of(interface) \ (disabled \cup (IF ports THEN {} ELSE Acm))
      BY <2>1, MapMatches DEF Matches
    <3>. QED
      BY <2>1, <3>1
  <2>2. CASE oops # "none"
    BY <2>2 DEF TableInv, Crashed
  <2>. QED
    BY <2>1, <2>2
<1>. QED
  BY <1>1, GadgetHostInductive, GadgetTableInductive, PTL

==============================================================================
