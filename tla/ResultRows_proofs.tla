------------------------- MODULE ResultRows_proofs --------------------------
(***************************************************************************)
(* Proofs about ResultRows: whatever the columns, values, NULLs and rows   *)
(* of a result set, the client of a sound one reads every cell where the   *)
(* server wrote it, and the texts it puts into the buffers are the values. *)
(***************************************************************************)
EXTENDS ResultRows, SequenceTheorems, WellFoundedInduction, TLAPS

-----------------------------------------------------------------------------
(* Powers of ten, by least counterexamples.                                *)

Less == {ss \in Nat \X Nat : ss[1] < ss[2]}

(* A set of natural numbers that is not empty has a least member.          *)
LEMMA LeastMember ==
    ASSUME NEW T \in SUBSET Nat, T # {}
    PROVE  \E x \in T : \A y \in T : x <= y
<1>1. IsWellFoundedOn(Less, Nat)
  BY NatLessThanWellFounded DEF OpToRel, Less
<1>2. PICK x \in T : \A y \in T : ~(<<y, x>> \in Less)
  BY <1>1, WFMin
<1>3. \A y \in T : x <= y
  <2> SUFFICES ASSUME NEW y \in T, ~(x <= y) PROVE FALSE
    OBVIOUS
  <2>1. <<y, x>> \in Nat \X Nat /\ y < x
    OBVIOUS
  <2>2. <<y, x>> \in Less
    BY <2>1 DEF Less
  <2> QED
    BY <1>2, <2>2
<1> QED
  BY <1>3

\* The powers up to the n-th, as a function
PowersUpTo(n, g) ==
    /\ g \in [0..n -> Nat]
    /\ g[0] = 1
    /\ \A i \in 1..n : g[i] = 10 * g[i - 1]

LEMMA PowersExist == \A n \in Nat : \E g : PowersUpTo(n, g)
<1> DEFINE T == {n \in Nat : ~\E g : PowersUpTo(n, g)}
<1> SUFFICES ASSUME T # {} PROVE FALSE
  OBVIOUS
<1>1. PICK n \in T : \A m \in T : n <= m
  BY LeastMember
<1>2. n # 0
  <2>1. [i \in 0..0 |-> 1] \in [0..0 -> Nat]
    OBVIOUS
  <2>2. PowersUpTo(0, [i \in 0..0 |-> 1])
    BY <2>1 DEF PowersUpTo
  <2> QED
    BY <2>2
<1>3. PICK g : PowersUpTo(n - 1, g)
  <2>1. n - 1 \in Nat /\ ~(n <= n - 1)
    BY <1>2
  <2> QED
    BY <1>1, <2>1
<1> DEFINE h == [i \in 0..n |-> IF i = n THEN 10 * g[n - 1] ELSE g[i]]
<1>4. n - 1 \in 0..(n - 1) /\ \A i \in 0..n : i # n => i \in 0..(n - 1)
  BY <1>2
<1>5. h \in [0..n -> Nat]
  BY <1>3, <1>4 DEF PowersUpTo
<1>6. h[0] = 1
  BY <1>2, <1>3 DEF PowersUpTo
<1>7. \A i \in 1..n : h[i] = 10 * h[i - 1]
  <2> SUFFICES ASSUME NEW i \in 1..n PROVE h[i] = 10 * h[i - 1]
    OBVIOUS
  <2>1. h[i - 1] = g[i - 1]
    OBVIOUS
  <2>2. i # n => h[i] = g[i] /\ i \in 1..(n - 1)
    OBVIOUS
  <2> QED
    BY <1>3, <2>1, <2>2 DEF PowersUpTo
<1>8. PowersUpTo(n, h)
  BY <1>5, <1>6, <1>7 DEF PowersUpTo
<1> QED
  BY <1>8

LEMMA PowersAgree ==
    \A n \in Nat, m \in Nat : \A g, h :
        PowersUpTo(n, g) /\ PowersUpTo(m, h) => \A i \in 0..n : i <= m => g[i] = h[i]
<1> SUFFICES ASSUME NEW n \in Nat, NEW m \in Nat, NEW g, NEW h,
                    PowersUpTo(n, g), PowersUpTo(m, h)
             PROVE  \A i \in 0..n : i <= m => g[i] = h[i]
  OBVIOUS
<1> DEFINE T == {i \in 0..n : i <= m /\ g[i] # h[i]}
<1> SUFFICES ASSUME T # {} PROVE FALSE
  OBVIOUS
<1>0. T \in SUBSET Nat
  OBVIOUS
<1>1. PICK i \in T : \A j \in T : i <= j
  <2> HIDE DEF T
  <2> QED
    BY <1>0, LeastMember
<1>2. i # 0
  BY DEF PowersUpTo
<1>3. i - 1 \in 0..n /\ i - 1 <= m /\ ~(i <= i - 1) /\ i \in 1..n /\ i \in 1..m
  BY <1>2
<1>4. g[i - 1] = h[i - 1]
  BY <1>1, <1>3
<1> QED
  BY <1>3, <1>4 DEF PowersUpTo

(* What Tens is: 1, and ten times the power before.                        *)
LEMMA TensEquation ==
    Tens = [n \in Nat |-> IF n = 0 THEN 1 ELSE 10 * Tens[n - 1]]
<1> DEFINE Power(n) == CHOOSE g : PowersUpTo(n, g)
           f == [n \in Nat |-> Power(n)[n]]
<1>1. \A n \in Nat : PowersUpTo(n, Power(n))
  BY PowersExist
<1> HIDE DEF Power
<1>2. f[0] = 1
  BY <1>1 DEF PowersUpTo
<1>3. \A n \in Nat : n # 0 => f[n] = 10 * f[n - 1]
  <2> SUFFICES ASSUME NEW n \in Nat, n # 0 PROVE f[n] = 10 * f[n - 1]
    OBVIOUS
  <2>1. n - 1 \in Nat /\ n - 1 \in 0..n /\ n \in 1..n /\ n - 1 \in 0..(n - 1)
    OBVIOUS
  <2>2. f[n] = 10 * Power(n)[n - 1]
    BY <1>1, <2>1 DEF PowersUpTo
  <2>3. Power(n)[n - 1] = Power(n - 1)[n - 1]
    <3>1. PowersUpTo(n, Power(n)) /\ PowersUpTo(n - 1, Power(n - 1))
      BY <1>1, <2>1
    <3> QED
      BY <2>1, <3>1, PowersAgree
  <2> QED
    BY <2>1, <2>2, <2>3
<1>4. f = [n \in Nat |-> IF n = 0 THEN 1 ELSE 10 * f[n - 1]]
  BY <1>2, <1>3
<1> HIDE DEF f
<1>5. \E t : t = [n \in Nat |-> IF n = 0 THEN 1 ELSE 10 * t[n - 1]]
  BY <1>4
<1> QED
  BY <1>5 DEF Tens

LEMMA TensStep ==
    /\ Tens[0] = 1
    /\ \A n \in Nat : n > 0 => Tens[n] = 10 * Tens[n - 1]
BY TensEquation

LEMMA TensPositive == \A n \in Nat : Tens[n] \in Nat /\ Tens[n] > 0
<1> DEFINE T == {n \in Nat : ~(Tens[n] \in Nat /\ Tens[n] > 0)}
<1> SUFFICES ASSUME T # {} PROVE FALSE
  OBVIOUS
<1>1. PICK n \in T : \A m \in T : n <= m
  BY LeastMember
<1>2. n # 0
  BY TensStep
<1>3. n - 1 \in Nat /\ ~(n <= n - 1)
  BY <1>2
<1>4. Tens[n - 1] \in Nat /\ Tens[n - 1] > 0
  BY <1>1, <1>3
<1> QED
  BY <1>2, <1>4, TensStep

LEMMA TensSmall ==
    /\ Tens[1] = 10 /\ Tens[2] = 100 /\ Tens[3] = 1000 /\ Tens[4] = 10000
    /\ Tens[5] = 100000 /\ Tens[6] = 1000000 /\ Tens[7] = 10000000
    /\ Tens[8] = 100000000 /\ Tens[9] = 1000000000
<1>1. Tens[1] = 10 * Tens[0] /\ Tens[2] = 10 * Tens[1] /\ Tens[3] = 10 * Tens[2]
      /\ Tens[4] = 10 * Tens[3] /\ Tens[5] = 10 * Tens[4] /\ Tens[6] = 10 * Tens[5]
      /\ Tens[7] = 10 * Tens[6] /\ Tens[8] = 10 * Tens[7] /\ Tens[9] = 10 * Tens[8]
  BY TensStep
<1> QED
  BY <1>1, TensStep

-----------------------------------------------------------------------------
(* Beginnings and ends of texts.                                           *)

\* A function over 1..n is a sequence
LEMMA AsSequence ==
    ASSUME NEW S, NEW n \in Nat, NEW f, DOMAIN f = 1..n,
           f = [i \in 1..n |-> f[i]], \A i \in 1..n : f[i] \in S
    PROVE  f \in Seq(S) /\ Len(f) = n
<1>1. f \in [1..n -> S]
  OBVIOUS
<1>2. f \in Seq(S)
  BY <1>1, SeqDef
<1>3. Len(f) \in Nat /\ DOMAIN f = 1..Len(f)
  BY <1>2, LenProperties
<1> QED
  BY <1>2, <1>3
LEMMA LengthOfText ==
    ASSUME NEW S, NEW t \in Seq(S)
    PROVE  /\ Len(t) \in Nat /\ DOMAIN t = 1..Len(t)
           /\ \A i \in 1..Len(t) : t[i] \in S
BY LenProperties, ElementOfSeq

LEMMA PrefixOfText ==
    ASSUME NEW S, NEW t \in Seq(S), NEW n \in Nat
    PROVE  /\ Prefix(t, n) \in Seq(S)
           /\ Len(Prefix(t, n)) = Lesser(n, Len(t))
           /\ \A i \in 1..Lesser(n, Len(t)) : Prefix(t, n)[i] = t[i]
<1>1. Len(t) \in Nat
  BY LengthOfText
<1>2. Lesser(n, Len(t)) \in 0..Len(t)
  BY <1>1 DEF Lesser
<1>3. \A i \in 1..Lesser(n, Len(t)) : i \in 1..Len(t)
  BY <1>1, <1>2
<1> QED
  BY <1>1, <1>2, <1>3, SubSeqProperties DEF Prefix

LEMMA PrefixWithin ==
    ASSUME NEW S, NEW t \in Seq(S), NEW n \in Nat, n <= Len(t)
    PROVE  /\ Prefix(t, n) \in Seq(S) /\ Len(Prefix(t, n)) = n
           /\ \A i \in 1..n : Prefix(t, n)[i] = t[i]
<1>1. Len(t) \in Nat /\ Lesser(n, Len(t)) = n
  BY LengthOfText DEF Lesser
<1> QED
  BY <1>1, PrefixOfText

LEMMA TwoTexts ==
    ASSUME NEW S, NEW a \in Seq(S), NEW b \in Seq(S)
    PROVE  /\ a \o b \in Seq(S) /\ Len(a \o b) = Len(a) + Len(b)
           /\ \A i \in 1..Len(a) : (a \o b)[i] = a[i]
           /\ \A i \in 1..Len(b) : (a \o b)[Len(a) + i] = b[i]
<1>1. /\ a \o b \in Seq(S) /\ Len(a \o b) = Len(a) + Len(b)
      /\ \A i \in 1..(Len(a) + Len(b)) : (a \o b)[i] = IF i <= Len(a) THEN a[i] ELSE b[i - Len(a)]
  BY ConcatProperties
<1>2. PICK m \in Nat, n \in Nat : m = Len(a) /\ n = Len(b)
  BY LengthOfText
<1>3. \A i \in 1..m : i \in 1..(m + n) /\ i <= m
  OBVIOUS
<1>4. \A i \in 1..n : m + i \in 1..(m + n) /\ ~(m + i <= m) /\ (m + i) - m = i
  OBVIOUS
<1> QED
  BY <1>1, <1>2, <1>3, <1>4

\* A text is its own beginning, and a beginning of a beginning is one too
LEMMA PrefixOfAll ==
    ASSUME NEW S, NEW t \in Seq(S), NEW n \in Nat, Len(t) <= n
    PROVE  Prefix(t, n) = t
<1>1. Len(t) \in Nat /\ Lesser(n, Len(t)) = Len(t)
  BY LengthOfText DEF Lesser
<1>2. Prefix(t, n) \in Seq(S) /\ Len(Prefix(t, n)) = Len(t)
  BY <1>1, PrefixOfText
<1>3. \A i \in 1..Len(t) : Prefix(t, n)[i] = t[i]
  BY <1>1, PrefixOfText
<1> QED
  BY <1>2, <1>3, SeqEqual

LEMMA PrefixOfPrefix ==
    ASSUME NEW S, NEW t \in Seq(S), NEW n \in Nat, NEW m \in Nat, m <= n
    PROVE  Prefix(Prefix(t, n), m) = Prefix(t, m)
<1> DEFINE a == Prefix(t, n)
<1>1. Len(t) \in Nat /\ a \in Seq(S) /\ Len(a) = Lesser(n, Len(t))
  BY LengthOfText, PrefixOfText
<1>2. Lesser(m, Len(a)) = Lesser(m, Len(t))
  BY <1>1 DEF Lesser
<1>3. /\ Prefix(a, m) \in Seq(S) /\ Prefix(t, m) \in Seq(S)
      /\ Len(Prefix(a, m)) = Len(Prefix(t, m))
      /\ Len(Prefix(t, m)) = Lesser(m, Len(t))
  <2>1. /\ Prefix(a, m) \in Seq(S) /\ Len(Prefix(a, m)) = Lesser(m, Len(a))
        /\ Prefix(t, m) \in Seq(S) /\ Len(Prefix(t, m)) = Lesser(m, Len(t))
    BY <1>1, PrefixOfText, ZenonT(60)
  <2> QED
    BY <1>2, <2>1, ZenonT(60)
<1>4. \A i \in 1..Lesser(m, Len(t)) : Prefix(a, m)[i] = Prefix(t, m)[i]
  <2> SUFFICES ASSUME NEW i \in 1..Lesser(m, Len(t)) PROVE Prefix(a, m)[i] = Prefix(t, m)[i]
    OBVIOUS
  <2>1. i \in 1..Lesser(n, Len(t))
    BY <1>1 DEF Lesser
  <2>2. Prefix(a, m)[i] = a[i]
    BY <1>1, <1>2, PrefixOfText
  <2>3. a[i] = t[i]
    BY <2>1, PrefixOfText
  <2>4. Prefix(t, m)[i] = t[i]
    BY PrefixOfText
  <2> QED
    BY <2>2, <2>3, <2>4
<1>5. \A i \in 1..Len(Prefix(a, m)) : Prefix(a, m)[i] = Prefix(t, m)[i]
  BY <1>3, <1>4
<1> HIDE DEF a
<1>6. Prefix(a, m) = Prefix(t, m)
  BY <1>3, <1>5, SeqEqual
<1> QED
  BY <1>6 DEF a

-----------------------------------------------------------------------------
(* Leading zeros.                                                          *)

\* Where a text begins without its zeros
PastZeros(t, k) == (k <= Len(t) => t[k] # "0") /\ \A j \in 1..(k - 1) : t[j] = "0"

LEMMA PastZerosExists ==
    ASSUME NEW S, NEW t \in Seq(S)
    PROVE  \E k \in 1..(Len(t) + 1) : PastZeros(t, k)
<1>1. Len(t) \in Nat
  BY LengthOfText
<1> DEFINE T == {k \in 1..Len(t) : t[k] # "0"}
<1>2. CASE T = {}
  <2>1. PastZeros(t, Len(t) + 1)
    BY <1>1, <1>2 DEF PastZeros
  <2> QED
    BY <1>1, <2>1
<1>3. CASE T # {}
  <2>1. T \in SUBSET Nat
    BY <1>1
  <2>2. PICK k \in T : \A j \in T : k <= j
    <3> HIDE DEF T
    <3> QED
      BY <1>3, <2>1, LeastMember
  <2>3. \A j \in 1..(k - 1) : t[j] = "0"
    BY <1>1, <2>2
  <2> QED
    BY <1>1, <2>2, <2>3 DEF PastZeros
<1> QED
  BY <1>2, <1>3

LEMMA SkipZerosText ==
    ASSUME NEW S, NEW t \in Seq(S)
    PROVE  \E k \in 1..(Len(t) + 1) :
              /\ PastZeros(t, k)
              /\ SkipZeros(t) = SubSeq(t, k, Len(t))
              /\ SkipZeros(t) \in Seq(S)
              /\ Len(SkipZeros(t)) = Len(t) + 1 - k
              /\ \A i \in 1..(Len(t) + 1 - k) : SkipZeros(t)[i] = t[i + k - 1]
<1> DEFINE P(k) == (k <= Len(t) => t[k] # "0") /\ \A j \in 1..(k - 1) : t[j] = "0"
           k == CHOOSE x \in 1..(Len(t) + 1) : P(x)
<1>1. \E x \in 1..(Len(t) + 1) : P(x)
  BY PastZerosExists DEF PastZeros
<1>2. k \in 1..(Len(t) + 1) /\ P(k)
  <2> HIDE DEF P
  <2> QED
    BY <1>1
<1>3. SkipZeros(t) = SubSeq(t, k, Len(t))
  BY DEF SkipZeros
<1> HIDE DEF k
<1>4. Len(t) \in Nat
  BY LengthOfText
<1>5. SubSeq(t, k, Len(t)) \in Seq(S)
  BY <1>2, <1>4, SubSeqProperties
<1>6. Len(SubSeq(t, k, Len(t))) = Len(t) + 1 - k
  BY <1>2, <1>4, SubSeqProperties
<1>7. \A i \in 1..(Len(t) + 1 - k) : SubSeq(t, k, Len(t))[i] = t[i + k - 1]
  BY <1>2, <1>4, SubSeqProperties
<1> QED
  BY <1>2, <1>3, <1>5, <1>6, <1>7 DEF PastZeros

-----------------------------------------------------------------------------
(* Digits.                                                                 *)

Char == STRING \cup {"-", "."} \cup {Figures[d] : d \in 1..10}

LEMMA FigureOf ==
    \A d \in 0..9 : Figures[d + 1] \in Char /\ (Figures[d + 1] = "0" => d = 0)
<1>1. \A d \in 0..9 : d \in {0, 1, 2, 3, 4, 5, 6, 7, 8, 9}
  OBVIOUS
<1>2. /\ Figures[1] = "0" /\ Figures[2] = "1" /\ Figures[3] = "2" /\ Figures[4] = "3"
      /\ Figures[5] = "4" /\ Figures[6] = "5" /\ Figures[7] = "6" /\ Figures[8] = "7"
      /\ Figures[9] = "8" /\ Figures[10] = "9"
  BY DEF Figures
<1>3. \A d \in {0, 1, 2, 3, 4, 5, 6, 7, 8, 9} : Figures[d + 1] \in Char
  BY DEF Char
<1>4. \A d \in {1, 2, 3, 4, 5, 6, 7, 8, 9} : Figures[d + 1] # "0"
  BY <1>2
<1> QED
  BY <1>1, <1>3, <1>4

LEMMA OneCharacter ==
    ASSUME NEW S, NEW x \in S
    PROVE  <<x>> \in Seq(S) /\ Len(<<x>>) = 1 /\ <<x>>[1] = x
OBVIOUS

LEMMA DigitsText ==
    ASSUME NEW n \in Nat, NEW w \in Nat
    PROVE  /\ Digits(n, w) \in Seq(Char) /\ Len(Digits(n, w)) = w
           /\ \A i \in 1..w : Digits(n, w)[i] = Figures[((n \div Tens[w - i]) % 10) + 1]
           /\ \A i \in 1..w : (n \div Tens[w - i]) % 10 \in 0..9
<1>1. \A i \in 1..w : w - i \in Nat
  OBVIOUS
<1>2. \A i \in 1..w : (n \div Tens[w - i]) % 10 \in 0..9
  <2> SUFFICES ASSUME NEW i \in 1..w PROVE (n \div Tens[w - i]) % 10 \in 0..9
    OBVIOUS
  <2>1. PICK d \in Nat : d = Tens[w - i] /\ d > 0
    BY <1>1, TensPositive
  <2>2. n \div d \in Nat
    BY <2>1
  <2> QED
    BY <2>1, <2>2
<1>3. /\ DOMAIN Digits(n, w) = 1..w
      /\ Digits(n, w) = [i \in 1..w |-> Digits(n, w)[i]]
      /\ \A i \in 1..w : Digits(n, w)[i] = Figures[((n \div Tens[w - i]) % 10) + 1]
  BY DEF Digits
<1>4. \A i \in 1..w : Digits(n, w)[i] \in Char
  BY <1>2, <1>3, FigureOf
<1> QED
  BY <1>2, <1>3, <1>4, AsSequence

(* A number whose first digit is 0 has one digit less.                     *)
LEMMA FirstDigitZero ==
    \A v \in Nat, d \in Nat \ {0} : v < 10 * d /\ (v \div d) % 10 = 0 => v < d
OBVIOUS

LEMMA FirstDigitsZero ==
    ASSUME NEW p \in Nat, NEW v \in Nat, v < Tens[p],
           NEW m \in 0..p, \A j \in 1..m : Digits(v, p)[j] = "0"
    PROVE  v < Tens[p - m]
<1> DEFINE T == {k \in 0..m : ~(v < Tens[p - k])}
<1> SUFFICES ASSUME T # {} PROVE FALSE
  OBVIOUS
<1>0. T \in SUBSET Nat
  OBVIOUS
<1>1. PICK k \in T : \A j \in T : k <= j
  <2> HIDE DEF T
  <2> QED
    BY <1>0, LeastMember
<1>2. k # 0
  OBVIOUS
<1>3. /\ k - 1 \in 0..m /\ k \in 1..m /\ k \in 1..p /\ ~(k <= k - 1)
      /\ p - k \in Nat /\ p - (k - 1) = (p - k) + 1
  BY <1>2
<1>4. v < Tens[p - (k - 1)]
  BY <1>1, <1>3
<1>5. PICK d \in Nat \ {0} : d = Tens[p - k]
  BY <1>3, TensPositive
<1>6. Tens[p - (k - 1)] = 10 * d
  BY <1>3, <1>5, TensStep
<1>7. (v \div d) % 10 = 0
  <2>1. Digits(v, p)[k] = "0"
    BY <1>3
  <2>2. Figures[((v \div d) % 10) + 1] = "0" /\ (v \div d) % 10 \in 0..9
    BY <1>3, <1>5, <2>1, DigitsText
  <2> QED
    BY <2>2, FigureOf
<1>8. v < d
  BY <1>4, <1>6, <1>7, FirstDigitZero
<1> QED
  BY <1>5, <1>8

-----------------------------------------------------------------------------
(* Numbers as text.                                                        *)

\* A 2-byte integer has at most five digits
LEMMA FiveDigits ==
    ASSUME NEW n \in Nat, n <= 32768
    PROVE  Width(n) \in 1..5
<1> DEFINE P(w) == n < Tens[w] /\ (w > 1 => n >= Tens[w - 1])
<1>1. \E w \in 1..10 : P(w)
  <2>1. CASE n < 10
    <3>1. P(1)
      BY <2>1, TensSmall
    <3> QED
      BY <3>1
  <2>2. CASE (n >= 10 /\ n < 100)
    <3>1. P(2)
      BY <2>2, TensSmall
    <3> QED
      BY <3>1
  <2>3. CASE (n >= 100 /\ n < 1000)
    <3>1. P(3)
      BY <2>3, TensSmall
    <3> QED
      BY <3>1
  <2>4. CASE (n >= 1000 /\ n < 10000)
    <3>1. P(4)
      BY <2>4, TensSmall
    <3> QED
      BY <3>1
  <2>5. CASE (n >= 10000 /\ n <= 32768)
    <3>1. P(5)
      BY <2>5, TensSmall
    <3> QED
      BY <3>1
  <2>6. n < 10 \/ (n >= 10 /\ n < 100) \/ (n >= 100 /\ n < 1000) \/ (n >= 1000 /\ n < 10000) \/ (n >= 10000 /\ n <= 32768)
    OBVIOUS
  <2> HIDE DEF P
  <2> QED
    BY <2>1, <2>2, <2>3, <2>4, <2>5, <2>6
<1>2. \A w \in 1..10 : P(w) => w \in 1..5
  <2> SUFFICES ASSUME NEW w \in 1..10, P(w), w > 5 PROVE FALSE
    OBVIOUS
  <2>1. n >= Tens[w - 1]
    OBVIOUS
  <2>2. w - 1 \in {5, 6, 7, 8, 9}
    OBVIOUS
  <2>3. Tens[w - 1] >= 100000 /\ Tens[w - 1] \in Nat
    BY <2>2, TensSmall
  <2> QED
    BY <2>1, <2>3
<1>3. Width(n) = CHOOSE w \in 1..10 : P(w)
  BY DEF Width
<1> HIDE DEF P
<1> QED
  BY <1>1, <1>2, <1>3

LEMMA SmallDecimal ==
    ASSUME NEW n \in Int, n >= -32768, n < 32768
    PROVE  Decimal(n) \in Seq(Char) /\ Len(Decimal(n)) <= 6
<1> DEFINE w == Width(Abs(n))
           sign == IF n < 0 THEN <<"-">> ELSE <<>>
<1>1. Abs(n) \in Nat /\ Abs(n) <= 32768
  BY DEF Abs
<1>2. w \in 1..5
  BY <1>1, FiveDigits
<1> HIDE DEF w
<1>3. Digits(Abs(n), w) \in Seq(Char) /\ Len(Digits(Abs(n), w)) = w
  <2>1. PICK a \in Nat : a = Abs(n)
    BY <1>1
  <2>2. w \in Nat
    BY <1>2
  <2>3. Digits(a, w) \in Seq(Char) /\ Len(Digits(a, w)) = w
    BY <2>2, DigitsText
  <2> QED
    BY <2>1, <2>3
<1>4. sign \in Seq(Char) /\ Len(sign) <= 1 /\ Len(sign) \in Nat
  <2>1. CASE n < 0
    <3>1. sign = <<"-">> /\ "-" \in Char
      BY <2>1 DEF Char
    <3> HIDE DEF sign
    <3> QED
      BY <3>1, OneCharacter
  <2>2. CASE ~(n < 0)
    <3>1. sign = <<>>
      BY <2>2
    <3> HIDE DEF sign
    <3> QED
      BY <3>1, EmptySeq
  <2> QED
    BY <2>1, <2>2
<1>5. Decimal(n) = sign \o Digits(Abs(n), w)
  BY DEF Decimal, w
<1> HIDE DEF sign
<1>6. Decimal(n) \in Seq(Char) /\ Len(Decimal(n)) = Len(sign) + w
  BY <1>3, <1>4, <1>5, ConcatProperties
<1> QED
  BY <1>2, <1>4, <1>6

LEMMA TwoByteInteger ==
    /\ \A n \in Int : Int2(n) \in Int /\ Int2(n) >= -32768 /\ Int2(n) < 32768
    /\ \A n \in Int : n >= -32768 /\ n < 32768 => Int2(n) = n
BY DEF Int2

-----------------------------------------------------------------------------
(* Decimals as text.                                                       *)

\* A character between two texts
LEMMA TextsAround ==
    ASSUME NEW S, NEW a \in Seq(S), NEW x \in S, NEW b \in Seq(S)
    PROVE  /\ (a \o <<x>>) \o b \in Seq(S)
           /\ Len((a \o <<x>>) \o b) = Len(a) + 1 + Len(b)
           /\ \A i \in 1..Len(a) : ((a \o <<x>>) \o b)[i] = a[i]
           /\ ((a \o <<x>>) \o b)[Len(a) + 1] = x
           /\ \A i \in 1..Len(b) : ((a \o <<x>>) \o b)[Len(a) + 1 + i] = b[i]
<1> DEFINE head == a \o <<x>>
<1>1. Len(a) \in Nat /\ Len(b) \in Nat
  BY LengthOfText
<1>2. /\ head \in Seq(S) /\ Len(head) = Len(a) + 1
      /\ \A i \in 1..Len(a) : head[i] = a[i]
      /\ head[Len(a) + 1] = x
  BY <1>1
<1> HIDE DEF head
<1>3. /\ head \o b \in Seq(S) /\ Len(head \o b) = Len(head) + Len(b)
      /\ \A i \in 1..Len(head) : (head \o b)[i] = head[i]
      /\ \A i \in 1..Len(b) : (head \o b)[Len(head) + i] = b[i]
  BY <1>2, SMTT(30)
<1>4. Len(a) + 1 \in 1..Len(head) /\ \A i \in 1..Len(a) : i \in 1..Len(head)
  BY <1>1, <1>2
<1>5. /\ head \o b \in Seq(S) /\ Len(head \o b) = Len(a) + 1 + Len(b)
      /\ \A i \in 1..Len(a) : (head \o b)[i] = a[i]
      /\ (head \o b)[Len(a) + 1] = x
      /\ \A i \in 1..Len(b) : (head \o b)[Len(a) + 1 + i] = b[i]
  BY <1>2, <1>3, <1>4
<1> QED
  BY <1>5 DEF head

LEMMA PointedText ==
    ASSUME NEW d \in Seq(Char), NEW s \in Nat, NEW p \in Nat, p = Len(d), s < p
    PROVE  /\ WithPoint(d, s) \in Seq(Char) /\ Len(WithPoint(d, s)) = p + 1
           /\ \A i \in 1..(p - s) : WithPoint(d, s)[i] = d[i]
           /\ WithPoint(d, s)[p - s + 1] = "."
           /\ \A i \in (p - s + 2)..(p + 1) : WithPoint(d, s)[i] = d[i - 1]
<1> DEFINE front == Prefix(d, p - s)
           back == SubSeq(d, p - s + 1, p)
           w == WithPoint(d, s)
<1>1. /\ front \in Seq(Char) /\ Len(front) = p - s
      /\ \A i \in 1..(p - s) : front[i] = d[i]
  <2>0. p - s \in Nat /\ p - s <= Len(d)
    OBVIOUS
  <2>1. PICK m \in Nat : m = p - s /\ m <= Len(d)
    BY <2>0
  <2> QED
    BY <2>1, PrefixWithin
<1>3. back \in Seq(Char) /\ Len(back) = s /\ \A i \in 1..s : back[i] = d[p - s + i]
  <2>1. \A i \in (p - s + 1)..p : d[i] \in Char
    BY LengthOfText
  <2>2. p - s + 1 \in Int /\ p \in Int
    OBVIOUS
  <2>3. /\ back \in Seq(Char) /\ Len(back) = IF p - s + 1 <= p THEN p - (p - s + 1) + 1 ELSE 0
        /\ \A i \in 1..(p - (p - s + 1) + 1) : back[i] = d[(p - s + 1) + i - 1]
    BY <2>1, <2>2, SubSeqProperties
  <2>4. p - (p - s + 1) + 1 = s /\ \A i \in 1..s : (p - s + 1) + i - 1 = p - s + i
    OBVIOUS
  <2>5. Len(back) = s
    BY <2>3
  <2>6. \A i \in 1..s : back[i] = d[p - s + i]
    BY <2>3, <2>4
  <2> QED
    BY <2>3, <2>5, <2>6
<1>4. w = (front \o <<".">>) \o back
  BY DEF WithPoint
<1> HIDE DEF front, back, w
<1>5. "." \in Char
  BY DEF Char
<1>6. /\ w \in Seq(Char) /\ Len(w) = Len(front) + 1 + Len(back)
      /\ \A i \in 1..Len(front) : w[i] = front[i]
      /\ w[Len(front) + 1] = "."
      /\ \A i \in 1..Len(back) : w[Len(front) + 1 + i] = back[i]
  <2>1. PICK x \in Char : x = "."
    BY <1>5
  <2>2. w = (front \o <<x>>) \o back /\ front \in Seq(Char) /\ back \in Seq(Char)
    BY <1>1, <1>3, <1>4, <2>1
  <2> QED
    BY <2>1, <2>2, TextsAround
<1>7. Len(w) = p + 1 /\ w[p - s + 1] = "." /\ \A i \in 1..(p - s) : w[i] = d[i]
  BY <1>1, <1>3, <1>6
<1>8. \A i \in (p - s + 2)..(p + 1) : w[i] = d[i - 1]
  <2> SUFFICES ASSUME NEW i \in (p - s + 2)..(p + 1) PROVE w[i] = d[i - 1]
    OBVIOUS
  <2>1. PICK j \in 1..s : i = p - s + 1 + j /\ p - s + j = i - 1
    <3>1. /\ i - (p - s + 1) \in 1..s
          /\ i = p - s + 1 + (i - (p - s + 1)) /\ p - s + (i - (p - s + 1)) = i - 1
      OBVIOUS
    <3> QED
      BY <3>1
  <2>2. w[i] = back[j]
    BY <1>1, <1>3, <1>6, <2>1
  <2> QED
    BY <1>3, <2>1, <2>2
<1> QED
  BY <1>6, <1>7, <1>8 DEF w

(* The text of a decimal that is not negative and has a digit before its   *)
(* point: the number without its leading zeros.                            *)
LEMMA DecimalReads ==
    ASSUME NEW p \in Nat, NEW s \in Nat, s < p, NEW v \in Nat, v < Tens[p]
    PROVE  ReadsAs(Prefix(SkipZeros(WithPoint(Digits(v, p), s)), p + 1), v, s)
<1> DEFINE d == Digits(v, p)
           w == WithPoint(d, s)
           t == SkipZeros(w)
<1>1. d \in Seq(Char) /\ Len(d) = p
  BY DigitsText
<1>2. /\ w \in Seq(Char) /\ Len(w) = p + 1
      /\ \A i \in 1..(p - s) : w[i] = d[i]
      /\ w[p - s + 1] = "."
      /\ \A i \in (p - s + 2)..(p + 1) : w[i] = d[i - 1]
  BY <1>1, PointedText
<1> HIDE DEF d, w
<1>3. PICK k \in 1..(p + 2) :
         /\ PastZeros(w, k)
         /\ t \in Seq(Char)
         /\ Len(t) = p + 2 - k
         /\ \A i \in 1..(p + 2 - k) : t[i] = w[i + k - 1]
  <2>1. /\ Len(w) + 1 = p + 2
        /\ \A k \in 1..(p + 2) : Len(w) + 1 - k = p + 2 - k
    BY <1>2
  <2>2. \E k \in 1..(Len(w) + 1) :
           /\ PastZeros(w, k)
           /\ SkipZeros(w) \in Seq(Char)
           /\ Len(SkipZeros(w)) = Len(w) + 1 - k
           /\ \A i \in 1..(Len(w) + 1 - k) : SkipZeros(w)[i] = w[i + k - 1]
    <3>1. w \in Seq(Char)
      BY <1>2
    <3> HIDE DEF t
    <3> QED
      BY <3>1, SkipZerosText
  <2> QED
    BY <2>1, <2>2
<1> HIDE DEF t
<1>4. k <= p - s + 1
  <2> SUFFICES ASSUME k > p - s + 1 PROVE FALSE
    OBVIOUS
  <2>1. p - s + 1 \in 1..(k - 1)
    OBVIOUS
  <2>2. w[p - s + 1] = "0"
    BY <1>3, <2>1 DEF PastZeros
  <2> QED
    BY <1>2, <2>2
<1>5. v < Tens[p - (k - 1)]
  <2>1. k - 1 \in 0..p /\ \A j \in 1..(k - 1) : j \in 1..(p - s)
    BY <1>4
  <2>2. \A j \in 1..(k - 1) : d[j] = "0"
    BY <1>2, <1>3, <2>1 DEF PastZeros
  <2>3. PICK m \in 0..p : m = k - 1
    BY <2>1
  <2>4. \A j \in 1..m : Digits(v, p)[j] = "0"
    BY <2>2, <2>3 DEF d
  <2>5. v < Tens[p - m]
    BY <2>4, FirstDigitsZero
  <2> QED
    BY <2>3, <2>5
<1> DEFINE n == p + 1 - k
<1>6. n \in Nat /\ n >= s /\ Len(t) = n + 1 /\ n = p - (k - 1)
  BY <1>3, <1>4
<1>7. Prefix(t, p + 1) = t
  <2>1. p + 1 \in Nat /\ Len(t) <= p + 1
    BY <1>6
  <2> QED
    BY <1>3, <2>1, PrefixOfAll
<1>8. t[n + 1 - s] = "."
  <2>1. n + 1 - s \in 1..(p + 2 - k) /\ (n + 1 - s) + k - 1 = p - s + 1
    BY <1>6
  <2> QED
    BY <1>2, <1>3, <2>1
<1> DEFINE a == Prefix(t, n - s)
           b == SubSeq(t, n + 2 - s, n + 1)
<1>9. a \in Seq(Char) /\ Len(a) = n - s /\ \A i \in 1..(n - s) : a[i] = t[i]
  <2>1. n - s \in Nat /\ Lesser(n - s, Len(t)) = n - s
    BY <1>6 DEF Lesser
  <2> QED
    BY <1>3, <2>1, PrefixOfText, ZenonT(60)
<1>10. b \in Seq(Char) /\ Len(b) = s /\ \A i \in 1..s : b[i] = t[n + 1 - s + i]
  <2>1. \A i \in (n + 2 - s)..(n + 1) : t[i] \in Char
    BY <1>3, <1>6, LengthOfText, SMTT(30)
  <2>2. n + 2 - s \in Int /\ n + 1 \in Int
    BY <1>6
  <2>3. /\ b \in Seq(Char)
        /\ Len(b) = IF n + 2 - s <= n + 1 THEN (n + 1) - (n + 2 - s) + 1 ELSE 0
        /\ \A i \in 1..((n + 1) - (n + 2 - s) + 1) : b[i] = t[(n + 2 - s) + i - 1]
    <3> HIDE DEF n
    <3> QED
      BY <2>1, <2>2, SubSeqProperties
  <2>4. /\ (n + 1) - (n + 2 - s) + 1 = s
        /\ \A i \in 1..s : (n + 2 - s) + i - 1 = n + 1 - s + i
    BY <1>6
  <2>5. Len(b) = s
    BY <1>6, <2>3
  <2>6. \A i \in 1..s : b[i] = t[n + 1 - s + i]
    BY <2>3, <2>4
  <2> QED
    BY <2>3, <2>5, <2>6
<1>11. a \o b = Digits(v, n)
  <2>1. n - s + s = n
    BY <1>6
  <2> HIDE DEF a, b
  <2>2. /\ a \o b \in Seq(Char) /\ Len(a \o b) = n
        /\ \A i \in 1..(n - s) : (a \o b)[i] = a[i]
        /\ \A i \in 1..s : (a \o b)[n - s + i] = b[i]
    <3> HIDE DEF n
    <3>1. PICK m \in Nat : m = n - s /\ m + s = n
      BY <1>6
    <3>3. a \in Seq(Char) /\ b \in Seq(Char) /\ Len(a) = m /\ Len(b) = s
      BY <1>9, <1>10, <3>1
    <3>2. /\ a \o b \in Seq(Char) /\ Len(a \o b) = Len(a) + Len(b)
          /\ \A i \in 1..Len(a) : (a \o b)[i] = a[i]
          /\ \A i \in 1..Len(b) : (a \o b)[Len(a) + i] = b[i]
      BY <3>3, TwoTexts, SMTT(30)
    <3>4. /\ Len(a \o b) = m + s
          /\ \A i \in 1..m : (a \o b)[i] = a[i]
          /\ \A i \in 1..s : (a \o b)[m + i] = b[i]
      BY <3>2, <3>3, SMTT(30)
    <3> QED
      BY <3>1, <3>2, <3>4
  <2>3. \A i \in 1..n : (a \o b)[i] = d[i + k - 1]
    <3> SUFFICES ASSUME NEW i \in 1..n PROVE (a \o b)[i] = d[i + k - 1]
      OBVIOUS
    <3>1. CASE i <= n - s
      <4>1. i \in 1..(n - s) /\ i \in 1..(p + 2 - k) /\ i + k - 1 \in 1..(p - s)
        BY <1>4, <1>6, <3>1
      <4>2. (a \o b)[i] = t[i]
        BY <1>9, <2>2, <3>1, <4>1
      <4>3. t[i] = w[i + k - 1]
        BY <1>3, <4>1
      <4> QED
        BY <1>2, <4>1, <4>2, <4>3
    <3>2. CASE ~(i <= n - s)
      <4>1. /\ i + 1 \in 1..(p + 2 - k) /\ (i + 1) + k - 1 = i + k
            /\ i + k \in (p - s + 2)..(p + 1) /\ (i + k) - 1 = i + k - 1
        BY <1>4, <1>6, <3>2
      <4>2. PICK j \in 1..s : i = n - s + j /\ n + 1 - s + j = i + 1
        <5>1. i - (n - s) \in 1..s
          BY <1>6, <3>2
        <5> QED
          BY <1>6, <5>1
      <4>3. (a \o b)[i] = t[i + 1]
        BY <1>10, <2>2, <4>2
      <4>4. t[i + 1] = w[i + k]
        BY <1>3, <4>1
      <4> QED
        BY <1>2, <4>1, <4>3, <4>4
    <3> QED
      BY <3>1, <3>2
  <2>4. \A i \in 1..n : Digits(v, n)[i] = d[i + k - 1]
    <3> SUFFICES ASSUME NEW i \in 1..n PROVE Digits(v, n)[i] = d[i + k - 1]
      OBVIOUS
    <3>1. i + k - 1 \in 1..p /\ p - (i + k - 1) = n - i
      BY <1>6
    <3>2. PICK j \in 1..p : j = i + k - 1 /\ p - j = n - i
      BY <3>1
    <3>3. d[j] = Figures[((v \div Tens[p - j]) % 10) + 1]
      BY DigitsText DEF d
    <3>4. Digits(v, n)[i] = Figures[((v \div Tens[n - i]) % 10) + 1]
      <4> HIDE DEF n
      <4> QED
        BY <1>6, DigitsText
    <3> QED
      BY <3>2, <3>3, <3>4
  <2>5. Digits(v, n) \in Seq(Char) /\ Len(Digits(v, n)) = n
    <3> HIDE DEF n
    <3> QED
      BY <1>6, DigitsText
  <2>6. \A i \in 1..Len(a \o b) : (a \o b)[i] = Digits(v, n)[i]
    BY <2>2, <2>3, <2>4
  <2> HIDE DEF n
  <2> QED
    BY <2>2, <2>5, <2>6, SeqEqual
<1>12. /\ Len(t) - 1 = n /\ Len(t) - s - 1 = n - s /\ Len(t) - s + 1 = n + 2 - s
       /\ Len(t) - s = n + 1 - s /\ Len(t) > s
  BY <1>6
<1>13. Prefix(t, Len(t) - s - 1) \o SubSeq(t, Len(t) - s + 1, Len(t)) = Digits(v, Len(t) - 1)
  <2> HIDE DEF n
  <2> QED
    BY <1>6, <1>11, <1>12 DEF a, b
<1>14. v < Tens[Len(t) - 1]
  BY <1>5, <1>6
<1>15. t[Len(t) - s] = "."
  <2> HIDE DEF n
  <2> QED
    BY <1>8, <1>12
<1>16. ReadsAs(t, v, s)
  BY <1>12, <1>13, <1>14, <1>15 DEF ReadsAs
<1> QED
  BY <1>7, <1>16 DEF t, w, d

-----------------------------------------------------------------------------
(* What the conversions give.                                              *)

\* The texts of the model's constants are texts of characters
LEMMA AsCharacters == \A t \in Seq(STRING) : t \in Seq(Char)
<1> SUFFICES ASSUME NEW t \in Seq(STRING) PROVE t \in Seq(Char)
  OBVIOUS
<1>1. Len(t) \in Nat /\ t \in [1..Len(t) -> STRING]
  BY SeqDef, LengthOfText
<1>2. t \in [1..Len(t) -> Char]
  BY <1>1 DEF Char
<1> QED
  BY <1>1, <1>2, SeqDef

(* The digits of a packed decimal that the precision takes.                *)
LEMMA PackedText ==
    ASSUME NEW v \in Int, NEW p \in Nat
    PROVE  LET d == Prefix(PackedDigits(v, p), p) IN
           /\ d \in Seq(Char) /\ Len(d) = p
           /\ v >= 0 /\ p % 2 = 1 => d = Digits(v, p)
<1>1. PICK a \in Nat : a = Abs(v) /\ (v >= 0 => a = v)
  BY DEF Abs
<1>2. PICK w \in Nat : w = 2 * (p \div 2) + 1 /\ p <= w /\ (p % 2 = 1 => w = p)
  OBVIOUS
<1>3. PackedDigits(v, p) = Digits(a, w)
  BY <1>1, <1>2 DEF PackedDigits
<1>4. Digits(a, w) \in Seq(Char) /\ Len(Digits(a, w)) = w
  BY DigitsText
<1>5. Prefix(Digits(a, w), p) \in Seq(Char) /\ Len(Prefix(Digits(a, w), p)) = p
  BY <1>2, <1>4, PrefixWithin
<1>6. w = p => Prefix(Digits(a, w), p) = Digits(a, w)
  BY <1>4, PrefixOfAll
<1> QED
  BY <1>1, <1>2, <1>3, <1>5, <1>6

(* The text of a decimal fits the buffer it is given, and if a point is    *)
(* placed it is the beginning of one and the same text.                    *)
LEMMA DecimalTexts ==
    ASSUME NEW col, NEW v \in Int, col.precision \in Nat, col.scale \in Nat,
           col.scale <= col.precision
    PROVE  /\ \A n \in Nat : \A t \in drda_convert_precision(col, v, n) :
                 t \in Seq(Char) /\ Len(t) <= n
           /\ col.scale < col.precision =>
                 \E x \in Seq(Char) :
                    /\ x = SkipZeros(WithPoint(Prefix(PackedDigits(v, col.precision), col.precision),
                                               col.scale))
                    /\ \A n \in Nat : drda_convert_precision(col, v, n) = {Prefix(x, n)}
<1> DEFINE p == col.precision
           s == col.scale
           d == Prefix(PackedDigits(v, p), p)
           wholes == IF s < p THEN {WithPoint(d, s)} ELSE {d \o x : x \in Leftover}
<1>1. d \in Seq(Char) /\ Len(d) = p
  BY PackedText
<1>2. \A n : drda_convert_precision(col, v, n) = {Prefix(SkipZeros(w), n) : w \in wholes}
  BY DEF drda_convert_precision
<1>3. s < p => WithPoint(d, s) \in Seq(Char)
  <2> HIDE DEF d
  <2> QED
    BY <1>1, PointedText
<1>4. \A x \in Leftover : d \o x \in Seq(Char)
  <2> HIDE DEF d
  <2> SUFFICES ASSUME NEW x \in Leftover PROVE d \o x \in Seq(Char)
    OBVIOUS
  <2>1. x \in Seq(Char)
    BY BuffersAssumption, AsCharacters
  <2> QED
    BY <1>1, <2>1, TwoTexts
<1>5. wholes \subseteq Seq(Char)
  <2> HIDE DEF d
  <2> QED
    BY <1>3, <1>4
<1>6. \A w \in wholes : SkipZeros(w) \in Seq(Char)
  <2> HIDE DEF wholes
  <2> SUFFICES ASSUME NEW w \in wholes PROVE SkipZeros(w) \in Seq(Char)
    OBVIOUS
  <2>1. w \in Seq(Char)
    BY <1>5
  <2> QED
    BY <2>1, SkipZerosText
<1>7. \A n \in Nat : \A t \in drda_convert_precision(col, v, n) : t \in Seq(Char) /\ Len(t) <= n
  <2> HIDE DEF wholes
  <2> SUFFICES ASSUME NEW n \in Nat, NEW w \in wholes
               PROVE  Prefix(SkipZeros(w), n) \in Seq(Char) /\ Len(Prefix(SkipZeros(w), n)) <= n
    BY <1>2
  <2>1. PICK z \in Seq(Char) : z = SkipZeros(w)
    BY <1>6
  <2>2. Prefix(z, n) \in Seq(Char) /\ Len(Prefix(z, n)) = Lesser(n, Len(z)) /\ Len(z) \in Nat
    BY PrefixOfText, LengthOfText
  <2> QED
    BY <2>1, <2>2 DEF Lesser
<1>8. s < p => \A n \in Nat : drda_convert_precision(col, v, n) = {Prefix(SkipZeros(WithPoint(d, s)), n)}
  <2> HIDE DEF d
  <2> QED
    BY <1>2
<1>9. s < p => SkipZeros(WithPoint(d, s)) \in Seq(Char)
  <2> HIDE DEF d
  <2> QED
    BY <1>6
<1> QED
  BY <1>7, <1>8, <1>9

(* A decimal of an odd precision that is not negative and has a digit      *)
(* before its point is shown as what it is.                                *)
LEMMA DecimalShown ==
    ASSUME NEW col, NEW v \in Nat, NEW p \in Nat, NEW s \in Nat, s < p, p % 2 = 1,
           col.precision = p, col.scale = s, v < Tens[p],
           NEW t \in drda_convert_precision(col, v, p + 1)
    PROVE  ReadsAs(t, v, s)
<1>0. v \in Int /\ v >= 0
  OBVIOUS
<1>1. Prefix(PackedDigits(v, p), p) = Digits(v, p)
  BY <1>0, PackedText
<1>2. drda_convert_precision(col, v, p + 1) =
          {Prefix(SkipZeros(WithPoint(Digits(v, p), s)), p + 1)}
  BY <1>1 DEF drda_convert_precision
<1> QED
  BY <1>2, DecimalReads

-----------------------------------------------------------------------------
(* Lengths and positions.                                                  *)

(* A signed byte holds a length up to 127.                                 *)
LEMMA ShortLength ==
    /\ \A n \in 0..127 : SignedByte(n) = n /\ n \in Nat
    /\ \A n \in 1..41 : 3 * n + 3 \in 0..127
BY DEF SignedByte

OneByte == -128..127

LEMMA SignedByteInteger ==
    /\ \A n \in Nat : SignedByte(n) \in OneByte
    /\ 0 \in OneByte /\ OneByte \subseteq Int
BY DEF SignedByte, OneByte

(* With a sign and an odd number of digits, half the nibbles are as many   *)
(* bytes as the client takes.                                              *)
LEMMA OddPrecision ==
    \A p \in Nat : p % 2 = 1 => (p + 1) \div 2 = (p \div 2) + 1
OBVIOUS

LEMMA Sums == \A a, b, c, d \in Nat : a + 1 \in Nat /\ a + b \in Nat /\ a + b + c + d \in Nat
OBVIOUS

LEMMA Sizes == \A t : fdoca_sizeof_length(t) \in 0..2 /\ Indicator(t) \in 0..1
BY DEF fdoca_sizeof_length, Indicator

-----------------------------------------------------------------------------
(* A column of the client's description.                                   *)
Column == [precision : Nat, scale : Nat, length : Nat, name : Nat,
           fdoca_type : {"0x00"} \cup STRING, fdoca_len : OneByte,
           cur_addr : Nat, cur_length : Nat]

\* What the SQLDA says of a column
SameLayout(col, c) ==
    /\ col.precision = c.precision /\ col.scale = c.scale
    /\ col.length = c.length /\ col.name = c.name

\* What the description says of a column's length
DescribedLength(c) == SignedByte(IF c.precision # 0 THEN c.scale ELSE c.length)

\* The client knows the columns by what the server said of them
AsDescribed ==
    phase # "execute" =>
        /\ Len(columns) = Len(table.columns)
        /\ \A i \in DOMAIN table.columns :
              /\ SameLayout(columns[i], table.columns[i])
              /\ columns[i].fdoca_type # "0x00" =>
                    columns[i].fdoca_len = DescribedLength(table.columns[i])
              /\ Sound =>
                    /\ columns[i].fdoca_type = table.columns[i].type
                    /\ columns[i].fdoca_len = DescribedLength(table.columns[i])

TableOK ==
    /\ table.columns \in Shapes
    /\ table.rows \in RowsOf(table.columns)

Progress ==
    /\ phase \in {"execute", "open", "row", "fetched", "lost", "exit"}
    /\ columns \in Seq(Column)
    /\ phase = "execute" => columns = <<>>
    /\ row \in 0..Len(table.rows)
    /\ coln \in 0..Len(columns)
    /\ phase = "row" => row > 0
    /\ pos \in Nat /\ at \in Nat
    /\ \A i \in DOMAIN columns : columns[i].cur_addr \in 0..row

RowsInv == TableOK /\ Progress /\ AsDescribed /\ InStep

-----------------------------------------------------------------------------
LEMMA RowsStart == RInit => RowsInv
<1> SUFFICES ASSUME RInit PROVE RowsInv
  OBVIOUS
<1>1. TableOK
  BY DEF RInit, TableOK
<1>2. Len(table.rows) \in Nat
  BY <1>1, ShapesAssumption, LenProperties DEF TableOK
<1>3. Progress
  BY <1>2, EmptySeq DEF RInit, Progress
<1> QED
  BY <1>1, <1>3 DEF RInit, RowsInv, AsDescribed, InStep
\* The result set of the server, from what is assumed of Shapes and RowsOf
LEMMA ColumnsOfServer ==
    ASSUME TableOK
    PROVE  /\ table.columns \in Seq(ColumnDesc)
           /\ table.rows \in Seq({table.rows[r] : r \in DOMAIN table.rows})
           /\ Len(table.columns) \in Nat /\ Len(table.rows) \in Nat
           /\ DOMAIN table.columns = 1..Len(table.columns)
           /\ DOMAIN table.rows = 1..Len(table.rows)
           /\ \A i \in DOMAIN table.columns : table.columns[i] \in ColumnDesc
BY ShapesAssumption, LenProperties, ElementOfSeq DEF TableOK

(* The description that the client builds when a result set is opened.     *)
LEMMA OpenKeeps == ASSUME RowsInv, OpenResult PROVE RowsInv'
<1> DEFINE cols == table.columns
           fresh == fdoca_read_sqlda
           len == SignedByte(3 * Len(fresh) + 3)
<1>1. /\ cols \in Seq(ColumnDesc) /\ Len(cols) \in Nat /\ DOMAIN cols = 1..Len(cols)
      /\ \A i \in DOMAIN cols : cols[i] \in ColumnDesc
  BY ColumnsOfServer DEF RowsInv
<1>2. /\ fresh = [i \in 1..Len(cols) |-> fresh[i]]
      /\ DOMAIN fresh = 1..Len(cols)
      /\ \A i \in 1..Len(cols) :
            fresh[i] = [precision |-> cols[i].precision, scale |-> cols[i].scale,
                        length |-> cols[i].length, name |-> cols[i].name,
                        fdoca_type |-> "0x00", fdoca_len |-> 0,
                        cur_addr |-> 0, cur_length |-> 0]
  BY <1>1 DEF fdoca_read_sqlda
<1>3. \A i \in 1..Len(cols) :
         /\ fresh[i] \in Column
         /\ SameLayout(fresh[i], cols[i])
         /\ fresh[i].fdoca_type = "0x00"
         /\ fresh[i].cur_addr = 0
  <2> SUFFICES ASSUME NEW i \in 1..Len(cols)
               PROVE  /\ fresh[i] \in Column
                      /\ SameLayout(fresh[i], cols[i])
                      /\ fresh[i].fdoca_type = "0x00"
                      /\ fresh[i].cur_addr = 0
    OBVIOUS
  <2>1. cols[i] \in ColumnDesc
    BY <1>1
  <2>2. /\ cols[i].precision \in Nat /\ cols[i].scale \in Nat
        /\ cols[i].length \in Nat /\ cols[i].name \in Nat /\ cols[i].type \in STRING
    BY <2>1 DEF ColumnDesc
  <2>3. fresh[i] = [precision |-> cols[i].precision, scale |-> cols[i].scale,
                    length |-> cols[i].length, name |-> cols[i].name,
                    fdoca_type |-> "0x00", fdoca_len |-> 0,
                    cur_addr |-> 0, cur_length |-> 0]
    BY <1>2
  <2> HIDE DEF fresh
  <2> QED
    BY <2>2, <2>3, SignedByteInteger DEF Column, SameLayout
<1>4. Len(fresh) = Len(cols)
  <2> HIDE DEF fresh
  <2> QED
    BY <1>1, <1>2, <1>3, AsSequence
<1>5. columns' = [i \in 1..Len(cols) |->
                    IF ~Described(i, len) THEN fresh[i]
                    ELSE [fresh[i] EXCEPT !.fdoca_type = cols[i].type,
                              !.fdoca_len = DescribedLength(cols[i])]]
  BY <1>2 DEF OpenResult, fdoca_read_qrydsc, DescribedLength
<1>6. \A i \in 1..Len(cols) :
         /\ columns'[i] \in Column
         /\ SameLayout(columns'[i], cols[i])
         /\ columns'[i].cur_addr = 0
         /\ columns'[i].fdoca_type # "0x00" => Described(i, len)
         /\ Described(i, len) =>
               /\ columns'[i].fdoca_type = cols[i].type
               /\ columns'[i].fdoca_len = DescribedLength(cols[i])
  <2> HIDE DEF fresh, len
  <2> SUFFICES ASSUME NEW i \in 1..Len(cols)
               PROVE  /\ columns'[i] \in Column
                      /\ SameLayout(columns'[i], cols[i])
                      /\ columns'[i].cur_addr = 0
                      /\ columns'[i].fdoca_type # "0x00" => Described(i, len)
                      /\ Described(i, len) =>
                           /\ columns'[i].fdoca_type = cols[i].type
                           /\ columns'[i].fdoca_len = DescribedLength(cols[i])
    OBVIOUS
  <2>1. /\ cols[i].precision \in Nat /\ cols[i].scale \in Nat
        /\ cols[i].length \in Nat /\ cols[i].type \in STRING
    BY <1>1 DEF ColumnDesc
  <2>2. DescribedLength(cols[i]) \in OneByte
    BY <2>1, SignedByteInteger DEF DescribedLength
  <2>3. CASE ~Described(i, len)
    BY <1>3, <1>5, <2>3
  <2>4. CASE Described(i, len)
    <3>1. PICK n \in OneByte : n = DescribedLength(cols[i])
      BY <2>2
    <3>2. columns'[i] = [fresh[i] EXCEPT !.fdoca_type = cols[i].type, !.fdoca_len = n]
      BY <1>5, <2>4, <3>1
    <3>3. fresh[i] \in Column /\ SameLayout(fresh[i], cols[i]) /\ fresh[i].cur_addr = 0
      BY <1>3
    <3>4. columns'[i] \in Column
      <4>1. cols[i].type \in {"0x00"} \cup STRING
        BY <2>1
      <4> QED
        BY <3>1, <3>2, <3>3, <4>1 DEF Column
    <3>5. /\ columns'[i].precision = fresh[i].precision /\ columns'[i].scale = fresh[i].scale
          /\ columns'[i].length = fresh[i].length /\ columns'[i].name = fresh[i].name
          /\ columns'[i].cur_addr = fresh[i].cur_addr
          /\ columns'[i].fdoca_type = cols[i].type
          /\ columns'[i].fdoca_len = n
      BY <3>2, <3>3 DEF Column
    <3> QED
      BY <2>4, <3>1, <3>3, <3>4, <3>5 DEF SameLayout
  <2> QED
    BY <2>3, <2>4
<1>7. columns' \in Seq(Column) /\ Len(columns') = Len(cols)
  <2>1. DOMAIN columns' = 1..Len(cols) /\ columns' = [i \in 1..Len(cols) |-> columns'[i]]
    BY <1>5
  <2> QED
    BY <1>1, <1>6, <2>1, AsSequence
<1>8. Sound => \A i \in 1..Len(cols) : Described(i, len)
  <2> SUFFICES ASSUME Sound PROVE \A i \in 1..Len(cols) : Described(i, len)
    OBVIOUS
  <2>1. Len(cols) \in 1..41
    BY DEF Sound
  <2>2. len = 3 * Len(cols) + 3
    <3>1. PICK n \in 1..41 : n = Len(cols)
      BY <2>1
    <3>2. 3 * n + 3 \in 0..127
      BY ShortLength
    <3>3. len = SignedByte(3 * n + 3)
      BY <1>4, <3>1
    <3> QED
      BY <3>1, <3>2, <3>3, ShortLength
  <2> QED
    BY <2>1, <2>2 DEF Described
<1>9. Sound' <=> Sound
  BY DEF OpenResult, Sound, Kind
<1>10. TableOK' /\ Progress'
  <2>1. UNCHANGED <<table, row, coln, pos, at>> /\ columns = <<>> /\ phase' = "open"
    BY DEF OpenResult, RowsInv, Progress
  <2>2. coln = 0
    BY <2>1, EmptySeq DEF RowsInv, Progress
  <2>3. \A i \in DOMAIN columns' : columns'[i].cur_addr \in 0..row
    BY <1>6, <1>7, LenProperties DEF RowsInv, Progress
  <2> QED
    BY <1>1, <1>7, <2>1, <2>2, <2>3 DEF RowsInv, TableOK, Progress
<1>11. AsDescribed'
  BY <1>1, <1>6, <1>7, <1>8, <1>9 DEF OpenResult, AsDescribed
<1>12. InStep'
  BY <1>9 DEF OpenResult, RowsInv, InStep
<1> QED
  BY <1>10, <1>11, <1>12 DEF RowsInv

(* What is assumed of the server's values, by the column they are of.      *)
LEMMA ValueOfServer ==
    ASSUME TableOK, NEW r \in DOMAIN table.rows, NEW i \in DOMAIN table.columns
    PROVE  IF table.rows[r][i] = Null THEN fdoca_is_nullable(table.columns[i].type)
           ELSE Fits(table.columns[i], table.rows[r][i])
BY ShapesAssumption DEF TableOK

\* A column whose values come with their length holds characters
LEMMA VaryingText ==
    ASSUME NEW c, NEW v, Fits(c, v), fdoca_sizeof_length(c.type) > 0
    PROVE  v \in Seq(STRING) /\ Len(v) \in Nat /\ Len(v) <= c.length
<1>1. drda_get_cardinal_type(c.type) = "CHAR"
  BY DEF fdoca_sizeof_length, drda_get_cardinal_type
<1>2. v \in Seq(STRING) /\ Len(v) <= c.length
  BY <1>1 DEF Fits
<1> QED
  BY <1>2, LenProperties

\* What the column of a sound result set occupies in a row, for the client
LEMMA SameLength ==
    ASSUME RowsInv, Sound, phase = "row", coln < Len(columns),
           Value(coln + 1) # Null
    PROVE  LET col == columns[coln + 1]
               c == table.columns[coln + 1]
           IN  /\ FieldLength(col, Value(coln + 1)) = ServerLength(c, Value(coln + 1))
               /\ FieldLength(col, Value(coln + 1)) \in Nat
<1> DEFINE i == coln + 1
           c == table.columns[i]
           v == Value(i)
<1>1. i \in DOMAIN table.columns /\ c \in ColumnDesc /\ row \in DOMAIN table.rows
  BY ColumnsOfServer DEF RowsInv, Progress, AsDescribed
<1>2. /\ columns[i].precision = c.precision /\ columns[i].fdoca_type = c.type
      /\ c.precision = 0 => columns[i].fdoca_len = SignedByte(c.length)
  BY <1>1 DEF RowsInv, AsDescribed, SameLayout, DescribedLength
<1>3. CASE fdoca_sizeof_length(c.type) > 0
  <2>1. v \in Seq(STRING)
    BY <1>1, <1>3, ValueOfServer, VaryingText DEF RowsInv, Value
  <2>2. Kind(i) # "DECIMAL"
    BY <1>3 DEF Kind, drda_get_cardinal_type, fdoca_sizeof_length
  <2> QED
    BY <1>2, <1>3, <2>1, <2>2, LenProperties DEF FieldLength, ServerLength, Kind
<1>4. CASE fdoca_sizeof_length(c.type) = 0 /\ Kind(i) = "DECIMAL"
  <2>1. c.precision \in Nat /\ c.precision % 2 = 1
    BY <1>1, <1>4 DEF Sound, ColumnDesc
  <2> QED
    <3>1. c.precision # 0 /\ (c.precision + 1) \div 2 = (c.precision \div 2) + 1
      <4> HIDE DEF c, v
      <4>1. c.precision # 0
        BY <2>1
      <4>2. (c.precision + 1) \div 2 = (c.precision \div 2) + 1
        BY <2>1, OddPrecision
      <4> QED
        BY <4>1, <4>2
    <3>2. FieldLength(columns[i], v) = (c.precision + 1) \div 2
      BY <1>2, <1>4, <3>1 DEF FieldLength
    <3>3. ServerLength(c, v) = (c.precision \div 2) + 1
      BY <1>4 DEF ServerLength, Kind
    <3> QED
      BY <2>1, <3>1, <3>2, <3>3, SMTT(30)
<1>5. CASE fdoca_sizeof_length(c.type) = 0 /\ Kind(i) # "DECIMAL"
  <2>1. c.precision = 0 /\ c.length \in 0..127
    BY <1>1, <1>5 DEF Sound
  <2>2. columns[i].fdoca_len = c.length
    BY <1>2, <2>1, ShortLength
  <2> QED
    <3>1. FieldLength(columns[i], v) = columns[i].fdoca_len
      <4>1. columns[i].fdoca_type = c.type /\ columns[i].precision = 0
        BY <1>2, <2>1
      <4> QED
        BY <1>5, <4>1 DEF FieldLength
    <3>2. ServerLength(c, v) = c.length
      BY <1>5 DEF ServerLength, Kind
    <3>3. FieldLength(columns[i], v) = c.length
      BY <2>2, <3>1
    <3>4. c.length \in Nat
      BY <2>1, ShortLength
    <3> QED
      BY <3>2, <3>3, <3>4
<1> QED
  BY <1>3, <1>4, <1>5, Sizes
-----------------------------------------------------------------------------
(* The steps.                                                              *)

LEMMA BeginRowKeeps == ASSUME RowsInv, BeginRow PROVE RowsInv'
<1>1. UNCHANGED <<table, columns>>
  BY DEF BeginRow
<1>2. Sound' <=> Sound
  BY <1>1 DEF Sound, Kind
<1>3. TableOK' /\ AsDescribed'
  BY <1>1, <1>2 DEF BeginRow, RowsInv, TableOK, AsDescribed
<1>4. Progress'
  <2>1. Len(table.rows) \in Nat /\ Len(columns) \in Nat
    BY ColumnsOfServer, LenProperties DEF RowsInv, Progress
  <2>2. row \in Nat /\ row < Len(table.rows) /\ row' = row + 1
    BY <2>1 DEF RowsInv, Progress, BeginRow
  <2>3. row' \in 0..Len(table.rows') /\ row' > 0
    BY <1>1, <2>1, <2>2
  <2>4. coln' \in 0..Len(columns')
    BY <1>1, <2>1 DEF BeginRow
  <2>5. \A i \in DOMAIN columns' : columns'[i].cur_addr \in 0..row'
    BY <1>1, <2>2 DEF RowsInv, Progress
  <2>6. pos' \in Nat /\ at' \in Nat
    BY DEF RowsInv, Progress, BeginRow
  <2> QED
    BY <1>1, <2>3, <2>4, <2>5, <2>6 DEF RowsInv, Progress, BeginRow
<1>5. InStep'
  BY <1>2 DEF BeginRow, RowsInv, InStep, Progress
<1> QED
  BY <1>3, <1>4, <1>5 DEF RowsInv

(* What the columns are known by does not change while rows are read.      *)
LEMMA ColumnsKept ==
    ASSUME RowsInv, phase # "execute", table' = table,
           columns' \in Seq(Column), Len(columns') = Len(columns),
           \A i \in DOMAIN columns :
               /\ columns'[i].precision = columns[i].precision
               /\ columns'[i].scale = columns[i].scale
               /\ columns'[i].length = columns[i].length
               /\ columns'[i].name = columns[i].name
               /\ columns'[i].fdoca_type = columns[i].fdoca_type
               /\ columns'[i].fdoca_len = columns[i].fdoca_len
    PROVE  TableOK' /\ AsDescribed' /\ (Sound' <=> Sound)
<1>1. Sound' <=> Sound
  BY DEF Sound, Kind
<1>2. DOMAIN columns = DOMAIN table.columns
  BY ColumnsOfServer, LenProperties DEF RowsInv, Progress, AsDescribed
<1> QED
  BY <1>1, <1>2 DEF RowsInv, TableOK, AsDescribed, SameLayout

(* One cell: the client and the server go on by the same number of bytes.  *)
LEMMA CellInStep ==
    ASSUME RowsInv, Sound, ReadColumn
    PROVE  pos' = at' /\ pos' \in Nat
<1> DEFINE i == coln + 1
           c == table.columns[i]
           v == Value(i)
<1>1. phase = "row" /\ coln < Len(columns) /\ pos = at /\ pos \in Nat
  BY DEF ReadColumn, RowsInv, Progress, InStepAt
<1>2. i \in DOMAIN table.columns
  BY <1>1, ColumnsOfServer DEF RowsInv, Progress, AsDescribed
<1>3. columns[i].fdoca_type = c.type
  BY <1>1, <1>2 DEF RowsInv, AsDescribed
<1>4. Indicator(c.type) \in Nat /\ fdoca_sizeof_length(c.type) \in Nat
  BY Sizes
<1>5. CASE ReadNull(i)
  BY <1>1, <1>3, <1>5 DEF ReadColumn, ReadNull, ServerSize, Indicator
<1>6. CASE ReadValue(i)
  <2>1. v # Null
    BY <1>6 DEF ReadValue
  <2>2. PICK n \in Nat : n = FieldLength(columns[i], v) /\ n = ServerLength(c, v)
    BY <1>1, <2>1, SameLength
  <2>3. pos' = pos + Indicator(c.type) + fdoca_sizeof_length(c.type) + n
    BY <1>3, <1>6, <2>2 DEF ReadValue
  <2>4. at' = at + (Indicator(c.type) + (fdoca_sizeof_length(c.type) + n))
    BY <2>1, <2>2 DEF ReadColumn, ServerSize
  <2> QED
    BY <1>1, <1>4, <2>3, <2>4
<1> QED
  BY <1>5, <1>6 DEF ReadColumn
\* Both sides move by whole numbers of bytes
LEMMA CellSizes ==
    ASSUME RowsInv, phase = "row", coln < Len(columns), InStepAt(coln + 1)
    PROVE  LET i == coln + 1
               v == Value(i)
           IN  /\ v # Null => FieldLength(columns[i], v) \in Nat
               /\ ServerSize(table.columns[i], v) \in Nat
<1> DEFINE i == coln + 1
           c == table.columns[i]
           v == Value(i)
<1>1. /\ i \in DOMAIN table.columns /\ i \in DOMAIN columns /\ row \in DOMAIN table.rows
      /\ c \in ColumnDesc /\ columns[i] \in Column
  BY ColumnsOfServer, LenProperties, ElementOfSeq DEF RowsInv, Progress, AsDescribed
<1>2. columns[i].fdoca_type = c.type
  BY DEF InStepAt
<1>3. v # Null /\ fdoca_sizeof_length(c.type) > 0 => Len(v) \in Nat
  BY <1>1, ValueOfServer, VaryingText DEF RowsInv, Value
<1>4. v # Null => FieldLength(columns[i], v) \in Nat
  <2>1. columns[i].precision \in Nat /\ columns[i].fdoca_len \in Int
    BY <1>1, SignedByteInteger DEF Column
  <2>2. (columns[i].precision + 1) \div 2 \in Int
    BY <2>1
  <2>3. v # Null => FieldLength(columns[i], v) >= 0
    BY DEF InStepAt
  <2> QED
    BY <1>2, <1>3, <2>1, <2>2, <2>3 DEF FieldLength
<1>5. v # Null => ServerLength(c, v) \in Nat
  <2>1. c.precision \in Nat /\ c.length \in Nat /\ (c.precision \div 2) + 1 \in Nat
    BY <1>1 DEF ColumnDesc
  <2> QED
    BY <1>3, <2>1 DEF ServerLength
<1>6. ServerSize(c, v) \in Nat
  <2>1. Indicator(c.type) \in Nat /\ fdoca_sizeof_length(c.type) \in Nat
    BY Sizes
  <2> QED
    BY <1>5, <2>1 DEF ServerSize
<1> QED
  BY <1>4, <1>6

(* Both positions stay natural numbers.                                    *)
LEMMA PositionsMove == ASSUME RowsInv, ReadColumn PROVE pos' \in Nat /\ at' \in Nat
<1> DEFINE i == coln + 1
<1>0. phase = "row" /\ coln < Len(columns) /\ InStepAt(i)
  BY DEF ReadColumn
<1>1. at \in Nat /\ pos \in Nat
  BY DEF RowsInv, Progress
<1>2. at' \in Nat
  <2>1. at' = at + ServerSize(table.columns[i], Value(i))
    BY DEF ReadColumn
  <2>2. ServerSize(table.columns[i], Value(i)) \in Nat
    BY <1>0, CellSizes
  <2> QED
    BY <1>1, <2>1, <2>2, Sums
<1>3. CASE ReadNull(i)
  BY <1>1, <1>2, <1>3, Sums DEF ReadNull
<1>4. CASE ReadValue(i)
  <2>1. PICK f \in Nat : f = FieldLength(columns[i], Value(i))
    BY <1>0, <1>4, CellSizes DEF ReadValue
  <2>2. PICK d \in Nat : d = Indicator(columns[i].fdoca_type)
    BY Sizes
  <2>3. PICK s \in Nat : s = fdoca_sizeof_length(columns[i].fdoca_type)
    BY Sizes
  <2>4. pos' = pos + d + s + f
    BY <1>4, <2>1, <2>2, <2>3 DEF ReadValue
  <2> QED
    BY <1>1, <1>2, <2>4, Sums
<1> QED
  BY <1>3, <1>4 DEF ReadColumn

LEMMA ReadColumnKeeps == ASSUME RowsInv, ReadColumn PROVE RowsInv'
<1> DEFINE i == coln + 1
<1>1. /\ phase = "row" /\ phase' = "row" /\ coln < Len(columns) /\ coln \in Nat
      /\ InStepAt(i) /\ UNCHANGED <<table, row>>
  BY ColumnsOfServer, LenProperties DEF ReadColumn, RowsInv, Progress
<1>2. /\ DOMAIN columns = 1..Len(columns) /\ Len(columns) \in Nat /\ columns \in Seq(Column)
      /\ i \in 1..Len(columns) /\ columns[i] \in Column
  BY <1>1, LenProperties, ElementOfSeq DEF RowsInv, Progress
<1>3. row \in Nat /\ \A j \in DOMAIN columns : columns[j].cur_addr \in 0..row
  BY ColumnsOfServer DEF RowsInv, Progress
<1>4. \E n \in Nat, a \in {columns[i].cur_addr, row} :
         columns' = [columns EXCEPT ![i] = [columns[i] EXCEPT !.cur_length = n, !.cur_addr = a]]
  <2>1. CASE ReadNull(i)
    <3>1. [columns[i] EXCEPT !.cur_length = 0] =
          [columns[i] EXCEPT !.cur_length = 0, !.cur_addr = columns[i].cur_addr]
      BY <1>2 DEF Column
    <3> QED
      BY <2>1, <3>1 DEF ReadNull, NullColumn
  <2>2. CASE ReadValue(i)
    <3>1. FieldLength(columns[i], Value(i)) \in Nat
      BY <1>1, <2>2, CellSizes DEF ReadValue
    <3>2. columns' = [columns EXCEPT ![i] = [columns[i] EXCEPT
                !.cur_length = FieldLength(columns[i], Value(i)), !.cur_addr = row]]
      BY <1>2, <2>2 DEF ReadValue
    <3> QED
      BY <3>1, <3>2
  <2> QED
    BY <2>1, <2>2 DEF ReadColumn
<1>5. PICK n \in Nat, a \in 0..row :
         columns' = [columns EXCEPT ![i] = [columns[i] EXCEPT !.cur_length = n, !.cur_addr = a]]
  <2>1. row \in 0..row /\ columns[i].cur_addr \in 0..row
    BY <1>2, <1>3
  <2> QED
    BY <1>4, <2>1
<1> DEFINE col == [columns[i] EXCEPT !.cur_length = n, !.cur_addr = a]
<1>6. /\ col \in Column
      /\ col.precision = columns[i].precision /\ col.scale = columns[i].scale
      /\ col.length = columns[i].length /\ col.name = columns[i].name
      /\ col.fdoca_type = columns[i].fdoca_type
      /\ col.fdoca_len = columns[i].fdoca_len /\ col.cur_addr = a
  <2>1. a \in Nat
    BY <1>3
  <2> QED
    BY <1>2, <2>1 DEF Column
<1>7. /\ DOMAIN columns' = 1..Len(columns)
      /\ columns' = [j \in 1..Len(columns) |-> columns'[j]]
      /\ \A j \in 1..Len(columns) : columns'[j] = IF j = i THEN col ELSE columns[j]
  BY <1>2, <1>5
<1>8. \A j \in 1..Len(columns) : columns'[j] \in Column
  BY <1>2, <1>6, <1>7, ElementOfSeq
<1>9. columns' \in Seq(Column) /\ Len(columns') = Len(columns)
  BY <1>2, <1>7, <1>8, AsSequence
<1>10. TableOK' /\ AsDescribed' /\ (Sound' <=> Sound)
  <2> HIDE DEF col
  <2>1. \A j \in DOMAIN columns :
           /\ columns'[j].precision = columns[j].precision
           /\ columns'[j].scale = columns[j].scale
           /\ columns'[j].length = columns[j].length
           /\ columns'[j].name = columns[j].name
           /\ columns'[j].fdoca_type = columns[j].fdoca_type
           /\ columns'[j].fdoca_len = columns[j].fdoca_len
    BY <1>2, <1>6, <1>7
  <2> QED
    BY <1>1, <1>9, <2>1, ColumnsKept
<1>11. pos' \in Nat /\ at' \in Nat
  BY PositionsMove
<1>12. Progress'
  <2> HIDE DEF col
  <2>1. \A j \in DOMAIN columns' : columns'[j].cur_addr \in 0..row'
    BY <1>1, <1>2, <1>3, <1>6, <1>7
  <2>2. coln' \in 0..Len(columns') /\ row' \in 0..Len(table.rows') /\ row' > 0
    BY <1>1, <1>2, <1>9 DEF ReadColumn, RowsInv, Progress
  <2> QED
    BY <1>1, <1>9, <1>11, <2>1, <2>2 DEF RowsInv, Progress
<1>13. InStep'
  BY <1>1, <1>10, CellInStep DEF InStep
<1> QED
  BY <1>10, <1>12, <1>13 DEF RowsInv

(* A sound row is never left in the middle of a cell.                      *)
LEMMA StopReadingKeeps == ASSUME RowsInv, StopReading PROVE RowsInv'
<1> DEFINE i == coln + 1
<1>1. /\ phase = "row" /\ phase' \in {"lost", "exit"} /\ coln < Len(columns) /\ coln \in Nat
      /\ UNCHANGED <<table, columns, row, coln, pos, at>>
  BY ColumnsOfServer, LenProperties DEF StopReading, RowsInv, Progress
<1>2. Sound' <=> Sound
  BY <1>1 DEF Sound, Kind
<1>3. Sound => InStepAt(i)
  <2> SUFFICES ASSUME Sound PROVE InStepAt(i)
    OBVIOUS
  <2>1. pos = at
    BY DEF RowsInv, InStep
  <2>2. i \in DOMAIN table.columns
    BY <1>1, ColumnsOfServer DEF RowsInv, Progress, AsDescribed
  <2>3. columns[i].fdoca_type = table.columns[i].type
    BY <1>1, <2>2 DEF RowsInv, AsDescribed
  <2>4. Value(i) # Null => FieldLength(columns[i], Value(i)) >= 0
    BY <1>1, SameLength
  <2> QED
    BY <2>1, <2>3, <2>4 DEF InStepAt
<1>4. TableOK' /\ Progress' /\ AsDescribed'
  BY <1>1, <1>2 DEF RowsInv, TableOK, Progress, AsDescribed
<1>5. InStep'
  BY <1>1, <1>2, <1>3 DEF StopReading, RowsInv, InStep
<1> QED
  BY <1>4, <1>5 DEF RowsInv

(* The other steps move neither of the two.                                *)
LEMMA OthersKeep ==
    ASSUME RowsInv, UNCHANGED <<table, columns, row, coln, pos, at>>,
           phase' = phase \/ (phase # "execute" /\ phase' \in {"fetched", "exit"})
    PROVE  RowsInv'
<1>1. Sound' <=> Sound
  BY DEF Sound, Kind
<1> QED
  BY <1>1 DEF RowsInv, TableOK, Progress, AsDescribed, InStep

LEMMA RowsStep == RowsInv /\ [RNext]_rvars => RowsInv'
<1> SUFFICES ASSUME RowsInv, [RNext]_rvars PROVE RowsInv'
  OBVIOUS
<1>1. CASE OpenResult
  BY <1>1, OpenKeeps
<1>2. CASE BeginRow
  BY <1>2, BeginRowKeeps
<1>3. CASE ReadColumn
  BY <1>3, ReadColumnKeeps
<1>4. CASE StopReading
  BY <1>4, StopReadingKeeps
<1>5. CASE EndRow
  BY <1>5, OthersKeep DEF EndRow
<1>6. CASE \E i \in DOMAIN columns : GetUnsupported(i)
  BY <1>6, OthersKeep DEF GetUnsupported
<1>7. CASE \E i \in DOMAIN columns, max \in Rooms : SQLGetData(i, max)
  BY <1>7, OthersKeep DEF SQLGetData
<1>8. CASE UNCHANGED rvars
  BY <1>8, OthersKeep DEF rvars
<1> QED
  BY <1>1, <1>2, <1>3, <1>4, <1>5, <1>6, <1>7, <1>8 DEF RNext

(* Whatever the columns and the values of a sound result set, the client   *)
(* reads each cell from its first byte on (fdoca_read_qrydta_row()).       *)
THEOREM RowsInStep == Spec => []InStep
<1>1. RowsInv => InStep
  BY DEF RowsInv
<1> QED
  BY RowsStart, RowsStep, <1>1, PTL DEF Spec

-----------------------------------------------------------------------------
(* The values: what the buffers of the bound columns hold.                 *)

(* A cell of this row that was read into a bound column.                   *)
Held(i) ==
    LET col == columns[i]
        v == Value(i)
    IN
    /\ Kind(i) # "none" /\ col.fdoca_type = table.columns[i].type
    /\ IF v = Null THEN col.cur_length = 0 /\ text[i] = <<>>
       ELSE /\ col.cur_addr = row
            /\ col.cur_length = FieldLength(col, v)
            /\ text[i] \in Converted(table.order, col, v, col.precision + 1, FieldLength(col, v))
            /\ ind[i] = Len(text[i])

Buffers ==
    /\ bound \subseteq DOMAIN table.columns
    /\ DOMAIN text = bound /\ DOMAIN ind = bound
    /\ phase = "fetched" => coln = Len(columns) /\ row > 0
    /\ got = NoData \/ (phase \in {"fetched", "exit"} /\ got.col \in DOMAIN columns)

AllHeld == phase \in {"row", "fetched"} => \A i \in bound : i <= coln => Held(i)

ValuesInv == RowsInv /\ Buffers /\ AllHeld /\ GetDataAsBound

\* Nothing is held before anything is fetched
LEMMA ValuesStart == RInit => ValuesInv
<1> SUFFICES ASSUME RInit PROVE ValuesInv
  OBVIOUS
<1>1. RowsInv
  BY RowsStart
<1>2. /\ bound \subseteq DOMAIN table.columns /\ phase = "execute" /\ got = NoData
      /\ DOMAIN text = bound /\ DOMAIN ind = bound
  BY DEF RInit
<1>3. 0 \notin bound
  BY <1>1, <1>2, ColumnsOfServer DEF RowsInv
<1>4. GetDataAsBound
  BY <1>2, <1>3 DEF GetDataAsBound, NoData
<1> QED
  BY <1>1, <1>2, <1>4 DEF ValuesInv, Buffers, AllHeld

(* Nothing that a conversion depends on is touched by reading a row.       *)
LEMMA SameConversion ==
    ASSUME NEW col, NEW c2,
           c2.precision = col.precision, c2.scale = col.scale,
           c2.fdoca_type = col.fdoca_type, c2.fdoca_len = col.fdoca_len
    PROVE  \A order, v, a, b :
              /\ Converted(order, c2, v, a, b) = Converted(order, col, v, a, b)
              /\ FieldLength(c2, v) = FieldLength(col, v)
BY DEF Converted, drda_convert, drda_convert_precision, FieldLength

\* No data was got before the first fetch of a row
LEMMA NothingGot == ASSUME ValuesInv, got' = NoData, UNCHANGED <<table, bound>> PROVE GetDataAsBound'
<1>1. 0 \notin bound
  BY ColumnsOfServer DEF ValuesInv, RowsInv, Buffers
<1> QED
  BY <1>1 DEF GetDataAsBound, NoData

(* Steps that leave the columns and the buffers as they are.               *)
LEMMA ValuesKept ==
    ASSUME ValuesInv, RowsInv', UNCHANGED <<table, columns, bound, row, coln, text, ind, got>>,
           \/ phase' = phase
           \/ phase' \in {"lost", "exit"} /\ (got = NoData \/ phase' = "exit")
           \/ phase = "row" /\ phase' = "fetched" /\ coln = Len(columns)
    PROVE  ValuesInv'
<1>1. Buffers'
  BY DEF ValuesInv, Buffers, NoData, RowsInv, Progress
<1>2. AllHeld'
  BY DEF ValuesInv, AllHeld, Held, Value, Kind
<1>3. GetDataAsBound'
  BY DEF ValuesInv, GetDataAsBound, GotAsBound, Kind
<1> QED
  BY <1>1, <1>2, <1>3 DEF ValuesInv

\* A new description comes before any row
LEMMA OpenValues == ASSUME ValuesInv, RowsInv', OpenResult PROVE ValuesInv'
<1>1. phase = "execute" /\ phase' = "open" /\ got = NoData
      /\ UNCHANGED <<table, bound, text, ind, got>>
  BY DEF OpenResult, ValuesInv, Buffers
<1>2. Buffers' /\ AllHeld'
  BY <1>1 DEF ValuesInv, Buffers, AllHeld, NoData
<1> QED
  BY <1>1, <1>2, NothingGot DEF ValuesInv

\* A row begins with no cell read
LEMMA BeginValues == ASSUME ValuesInv, RowsInv', BeginRow PROVE ValuesInv'
<1>1. phase' = "row" /\ coln' = 0 /\ got' = NoData /\ UNCHANGED <<table, columns, bound, text, ind>>
  BY DEF BeginRow
<1>2. \A i \in bound : ~(i <= 0)
  BY ColumnsOfServer DEF ValuesInv, RowsInv, Buffers
<1>3. Buffers' /\ AllHeld'
  BY <1>1, <1>2 DEF ValuesInv, Buffers, AllHeld, NoData
<1> QED
  BY <1>1, <1>3, NothingGot DEF ValuesInv

(* The cell that is read is held, and those before it stay as they are.    *)
LEMMA ReadHolds ==
    ASSUME ValuesInv, ReadColumn, NEW i \in bound, i = coln + 1
    PROVE  Held(i)'
<1> DEFINE col == columns[i]
           v == Value(i)
<1>1. /\ phase = "row" /\ coln < Len(columns) /\ InStepAt(i) /\ ~Unsupported(i)
      /\ UNCHANGED <<table, bound, row>> /\ coln' = coln + 1
  BY DEF ReadColumn
<1>2. /\ columns \in Seq(Column) /\ Len(columns) \in Nat /\ DOMAIN columns = 1..Len(columns)
      /\ i \in DOMAIN columns /\ col \in Column
      /\ DOMAIN text = bound /\ DOMAIN ind = bound
  BY <1>1, LenProperties, ElementOfSeq DEF ValuesInv, RowsInv, Progress, Buffers
<1>3. col.fdoca_type = table.columns[i].type /\ Kind(i) # "none"
  BY <1>1 DEF InStepAt, Unsupported, Kind
<1>4. CASE ReadNull(i)
  <2>1. v = Null /\ columns' = [columns EXCEPT ![i] = [col EXCEPT !.cur_length = 0]]
        /\ text' = [text EXCEPT ![i] = <<>>]
    BY <1>4 DEF ReadNull, NullColumn
  <2>2. columns'[i] = [col EXCEPT !.cur_length = 0] /\ text'[i] = <<>>
    BY <1>2, <2>1
  <2>3. columns'[i].cur_length = 0 /\ columns'[i].fdoca_type = col.fdoca_type
    BY <1>2, <2>2 DEF Column
  <2>4. Kind(i)' # "none" /\ Value(i)' = Null
    BY <1>1, <1>3, <2>1 DEF Kind, Value
  <2> QED
    BY <1>1, <1>3, <2>2, <2>3, <2>4 DEF Held
<1>5. CASE ReadValue(i)
  <2>1. /\ v # Null
        /\ columns' = [columns EXCEPT ![i].cur_length = FieldLength(col, v), ![i].cur_addr = row]
        /\ \E t \in Converted(table.order, col, v, col.precision + 1, FieldLength(col, v)) :
              /\ text' = [text EXCEPT ![i] = t]
              /\ ind' = [ind EXCEPT ![i] = Len(t)]
    BY <1>5 DEF ReadValue
  <2>2. PICK n : n = FieldLength(col, v)
    OBVIOUS
  <2>3. columns'[i] = [col EXCEPT !.cur_length = n, !.cur_addr = row]
    BY <1>2, <2>1, <2>2
  <2>4. /\ columns'[i].cur_length = n /\ columns'[i].cur_addr = row
        /\ columns'[i].precision = col.precision /\ columns'[i].scale = col.scale
        /\ columns'[i].fdoca_type = col.fdoca_type /\ columns'[i].fdoca_len = col.fdoca_len
    BY <1>2, <2>3 DEF Column
  <2>5. /\ text'[i] \in Converted(table.order, col, v, col.precision + 1, n)
        /\ ind'[i] = Len(text'[i])
    BY <1>2, <2>1, <2>2
  <2>6. /\ \A order, a, b : Converted(order, columns'[i], v, a, b) = Converted(order, col, v, a, b)
        /\ FieldLength(columns'[i], v) = n
    BY <2>2, <2>4, SameConversion
  <2>7. Kind(i)' = Kind(i) /\ Value(i)' = v
    BY <1>1 DEF Kind, Value
  <2>8. /\ columns'[i].cur_addr = row /\ columns'[i].cur_length = FieldLength(columns'[i], v)
        /\ text'[i] \in Converted(table.order, columns'[i], v, columns'[i].precision + 1,
                                  FieldLength(columns'[i], v))
    <3>1. FieldLength(columns'[i], v) = n /\ columns'[i].cur_length = n /\ columns'[i].cur_addr = row
      BY <2>4, <2>6
    <3>2. columns'[i].precision + 1 = col.precision + 1
      BY <2>4
    <3>3. Converted(table.order, columns'[i], v, col.precision + 1, n)
            = Converted(table.order, col, v, col.precision + 1, n)
      BY <2>6
    <3> HIDE DEF col, v
    <3> QED
      BY <2>5, <3>1, <3>2, <3>3
  <2>9. /\ Kind(i)' # "none" /\ columns'[i].fdoca_type = table'.columns[i].type
        /\ row' = row /\ table' = table /\ Value(i)' = v /\ v # Null
    BY <1>1, <1>3, <2>1, <2>4, <2>7
  <2> HIDE DEF col, v
  <2> QED
    BY <2>5, <2>8, <2>9 DEF Held
<1> QED
  BY <1>4, <1>5 DEF ReadColumn

\* One more column is held
LEMMA ReadValues == ASSUME ValuesInv, RowsInv', ReadColumn PROVE ValuesInv'
<1> DEFINE i == coln + 1
<1>1. /\ phase = "row" /\ phase' = "row" /\ coln < Len(columns) /\ coln' = i
      /\ UNCHANGED <<table, bound, row, got>> /\ got = NoData
  BY DEF ReadColumn, ValuesInv, Buffers
<1>2. /\ columns \in Seq(Column) /\ Len(columns) \in Nat /\ DOMAIN columns = 1..Len(columns)
      /\ coln \in Nat /\ bound \subseteq DOMAIN table.columns
      /\ DOMAIN table.columns = DOMAIN columns
      /\ DOMAIN text = bound /\ DOMAIN ind = bound
  BY <1>1, LenProperties, ColumnsOfServer DEF ValuesInv, RowsInv, Progress, Buffers, AsDescribed
<1>3. \A j \in DOMAIN columns : j # i => columns'[j] = columns[j]
  BY <1>2 DEF ReadColumn, ReadNull, ReadValue
<1>4. DOMAIN text' = bound /\ DOMAIN ind' = bound
  BY <1>2 DEF ReadColumn, ReadNull, ReadValue
<1>5. \A j \in bound : j # i => text'[j] = text[j] /\ ind'[j] = ind[j]
  BY <1>2 DEF ReadColumn, ReadNull, ReadValue
<1>6. Buffers'
  BY <1>1, <1>2, <1>4 DEF Buffers
<1>7. AllHeld'
  <2> SUFFICES ASSUME NEW j \in bound, j <= i PROVE Held(j)'
    BY <1>1 DEF AllHeld
  <2>1. CASE j = i
    <3>1. j = coln + 1
      BY <2>1
    <3> QED
      BY <3>1, ReadHolds
  <2>2. CASE j # i
    <3>1. j <= coln /\ j \in DOMAIN columns
      BY <1>2, <2>2
    <3>2. Held(j)
      BY <1>1, <3>1 DEF ValuesInv, AllHeld
    <3>3. columns'[j] = columns[j] /\ text'[j] = text[j] /\ ind'[j] = ind[j]
      BY <1>3, <1>5, <2>2, <3>1
    <3>4. Kind(j)' = Kind(j) /\ Value(j)' = Value(j) /\ row' = row /\ table' = table
      BY <1>1 DEF Kind, Value
    <3> QED
      BY <3>2, <3>3, <3>4 DEF Held
  <2> QED
    BY <2>1, <2>2
<1> QED
  BY <1>1, <1>6, <1>7, NothingGot DEF ValuesInv

(* What is known of a value that a bound column holds: its kind decides    *)
(* how many bytes it took and which texts it may be given as.              *)
LEMMA HeldValue ==
    ASSUME ValuesInv, phase \in {"row", "fetched"}, NEW i \in bound, i <= coln, Value(i) # Null
    PROVE  LET col == columns[i]
               c == table.columns[i]
               v == Value(i)
               n == FieldLength(col, v)
           IN  /\ col \in Column /\ SameLayout(col, c) /\ col.fdoca_type = c.type
               /\ c.precision \in Nat /\ c.scale \in Nat /\ c.length \in Nat /\ c.name \in Nat
               /\ c.scale <= c.precision
               /\ col.cur_addr = row /\ col.cur_length = n /\ n \in Nat
               /\ ind[i] = Len(text[i])
               /\ text[i] \in Converted(table.order, col, v, c.precision + 1, n)
               /\ Kind(i) # "none" /\ Fits(c, v)
               /\ Kind(i) = "DECIMAL" <=> c.precision > 0
               /\ Kind(i) = "SMALLINT" => c.length = 2
               /\ Kind(i) = "INT" => c.length = 4
               /\ col.fdoca_len = DescribedLength(c)
<1> DEFINE col == columns[i]
           c == table.columns[i]
           v == Value(i)
<1>1. Held(i)
  BY DEF ValuesInv, AllHeld
<1>2. /\ i \in DOMAIN table.columns /\ i \in DOMAIN columns /\ phase # "execute"
      /\ table.columns \in Seq(ColumnDesc) /\ c \in ColumnDesc
      /\ row \in DOMAIN table.rows
  <2>1. Len(columns) = Len(table.columns) /\ phase # "execute"
    BY DEF ValuesInv, RowsInv, AsDescribed
  <2>2. DOMAIN columns = 1..Len(columns) /\ columns \in Seq(Column)
    BY LenProperties DEF ValuesInv, RowsInv, Progress
  <2>3. row > 0 /\ row <= Len(table.rows) /\ row \in Nat
    BY ColumnsOfServer DEF ValuesInv, RowsInv, Progress, Buffers
  <2> QED
    BY <2>1, <2>2, <2>3, ColumnsOfServer DEF ValuesInv, Buffers, RowsInv
<1>3. col \in Column
  BY <1>2, ElementOfSeq, LenProperties DEF ValuesInv, RowsInv, Progress
<1>4. SameLayout(col, c) /\ (col.fdoca_type # "0x00" => col.fdoca_len = DescribedLength(c))
  BY <1>2 DEF ValuesInv, RowsInv, AsDescribed
<1>5. /\ Kind(i) # "none" /\ col.fdoca_type = c.type /\ col.cur_addr = row
      /\ col.cur_length = FieldLength(col, v) /\ ind[i] = Len(text[i])
      /\ text[i] \in Converted(table.order, col, v, col.precision + 1, FieldLength(col, v))
  BY <1>1 DEF Held
<1>6. c.type # "0x00"
  BY <1>5 DEF Kind, drda_get_cardinal_type
<1>7. FieldLength(col, v) \in Nat
  BY <1>3, <1>5 DEF Column
<1>8. Fits(c, v)
  BY <1>2, ValueOfServer DEF Value, ValuesInv, RowsInv
<1>9. /\ c.scale <= c.precision /\ (Kind(i) = "DECIMAL" <=> c.precision > 0)
      /\ (Kind(i) = "SMALLINT" => c.length = 2) /\ (Kind(i) = "INT" => c.length = 4)
  BY <1>2, <1>5, ShapesAssumption DEF ValuesInv, RowsInv, TableOK, Kind
<1>10. c.precision \in Nat /\ c.scale \in Nat /\ c.length \in Nat /\ c.name \in Nat
  BY <1>2 DEF ColumnDesc
<1>11. col.precision = c.precision
  BY <1>4 DEF SameLayout
<1> HIDE DEF col, c, v
<1>12. /\ text[i] \in Converted(table.order, col, v, c.precision + 1, FieldLength(col, v))
       /\ col.fdoca_len = DescribedLength(c)
  BY <1>4, <1>5, <1>6, <1>11
<1> QED
  BY <1>3, <1>4, <1>5, <1>7, <1>8, <1>9, <1>10, <1>12 DEF col, c, v

(* The texts of such a value, for every length asked for.                  *)
TextsHeld(i) ==
    LET col == columns[i]
        c == table.columns[i]
        v == Value(i)
        n == FieldLength(col, v)
    IN  /\ Kind(i) = "DECIMAL" =>
              /\ v \in Int /\ Abs(v) < Tens[c.precision]
              /\ n = (c.precision + 1) \div 2
              /\ \A a, b : Converted(table.order, col, v, a, b)
                              = drda_convert_precision(col, v, a)
        /\ Kind(i) = "SMALLINT" =>
              /\ v \in Int /\ v >= -32768 /\ v < 32768 /\ n = 2
              /\ \A a, b : Converted(table.order, col, v, a, b) = {Decimal(Int2(v))}
        /\ Kind(i) = "INT" =>
              /\ v \in Int /\ n = 4
              /\ \A a, b : Converted(table.order, col, v, a, b)
                              = {Decimal(TwoBytes(table.order, v))}
        /\ Kind(i) \notin {"DECIMAL", "SMALLINT", "INT"} =>
              /\ v \in Seq(STRING) /\ Len(v) \in Nat /\ Len(v) <= c.length
              /\ IF fdoca_sizeof_length(c.type) > 0 THEN n = Len(v)
                 ELSE n = SignedByte(c.length) /\ Len(v) = c.length
              /\ \A a, b : Converted(table.order, col, v, a, b) = {Prefix(v, b)}

LEMMA HeldTexts ==
    ASSUME ValuesInv, phase \in {"row", "fetched"}, NEW i \in bound, i <= coln, Value(i) # Null
    PROVE  TextsHeld(i)
<1> DEFINE col == columns[i]
           c == table.columns[i]
           v == Value(i)
           n == FieldLength(col, v)
<1>1. /\ col.fdoca_type = c.type /\ col.precision = c.precision /\ c.precision \in Nat
      /\ c.length \in Nat
      /\ Kind(i) # "none" /\ Fits(c, v) /\ (Kind(i) = "DECIMAL" <=> c.precision > 0)
      /\ (Kind(i) = "SMALLINT" => c.length = 2) /\ (Kind(i) = "INT" => c.length = 4)
      /\ col.fdoca_len = DescribedLength(c)
  BY HeldValue DEF SameLayout
<1>2. Kind(i) = drda_get_cardinal_type(c.type)
  BY DEF Kind
<1>3. fdoca_sizeof_length(c.type) > 0 => Kind(i) = "CHAR"
  BY DEF Kind, fdoca_sizeof_length, drda_get_cardinal_type
<1> HIDE DEF col, c, v
<1>4. n = IF fdoca_sizeof_length(c.type) > 0 THEN Len(v)
          ELSE IF c.precision # 0 THEN (c.precision + 1) \div 2 ELSE DescribedLength(c)
  BY <1>1 DEF FieldLength
<1>5. Kind(i) # "DECIMAL" =>
          /\ DescribedLength(c) = SignedByte(c.length)
          /\ \A a, b : Converted(table.order, col, v, a, b) = drda_convert(table.order, col, v, b)
  BY <1>1 DEF DescribedLength, Converted
<1>6. SignedByte(2) = 2 /\ SignedByte(4) = 4
  BY DEF SignedByte
<1>7. CASE Kind(i) = "DECIMAL"
  <2>1. v \in Int /\ Abs(v) < Tens[c.precision]
    BY <1>1, <1>2, <1>7 DEF Fits
  <2>2. n = (c.precision + 1) \div 2
    BY <1>1, <1>3, <1>4, <1>7
  <2>3. \A a, b : Converted(table.order, col, v, a, b) = drda_convert_precision(col, v, a)
    BY <1>1, <1>7 DEF Converted
  <2> QED
    BY <1>7, <2>1, <2>2, <2>3 DEF TextsHeld, col, c, v
<1>8. CASE Kind(i) = "SMALLINT"
  <2>1. v \in Int /\ v >= -32768 /\ v < 32768
    BY <1>1, <1>2, <1>8 DEF Fits
  <2>2. n = 2
    BY <1>1, <1>3, <1>4, <1>5, <1>6, <1>8
  <2>3. \A b : drda_convert(table.order, col, v, b) = {Decimal(Int2(v))}
    BY <1>1, <1>2, <1>8 DEF drda_convert
  <2>4. \A a, b : Converted(table.order, col, v, a, b) = {Decimal(Int2(v))}
    BY <1>5, <1>8, <2>3
  <2> QED
    BY <1>8, <2>1, <2>2, <2>4 DEF TextsHeld, col, c, v
<1>9. CASE Kind(i) = "INT"
  <2>1. v \in Int
    BY <1>1, <1>2, <1>9 DEF Fits
  <2>2. n = 4
    BY <1>1, <1>3, <1>4, <1>5, <1>6, <1>9
  <2>3. \A b : drda_convert(table.order, col, v, b) = {Decimal(TwoBytes(table.order, v))}
    BY <1>1, <1>2, <1>9 DEF drda_convert
  <2>4. \A a, b : Converted(table.order, col, v, a, b) = {Decimal(TwoBytes(table.order, v))}
    BY <1>5, <1>9, <2>3
  <2> QED
    BY <1>9, <2>1, <2>2, <2>4 DEF TextsHeld, col, c, v
<1>10. CASE Kind(i) \notin {"DECIMAL", "SMALLINT", "INT"}
  <2>1. /\ v \in Seq(STRING)
        /\ IF fdoca_sizeof_length(c.type) > 0 THEN Len(v) <= c.length ELSE Len(v) = c.length
    BY <1>1, <1>2, <1>10 DEF Fits
  <2>2. Len(v) \in Nat /\ Len(v) <= c.length
    BY <1>1, <2>1, LenProperties
  <2>3. IF fdoca_sizeof_length(c.type) > 0 THEN n = Len(v)
        ELSE n = SignedByte(c.length) /\ Len(v) = c.length
    BY <1>1, <1>4, <1>5, <1>10, <2>1
  <2>4. \A b : drda_convert(table.order, col, v, b) = {Prefix(v, b)}
    BY <1>1, <1>2, <1>10 DEF drda_convert
  <2>5. \A a, b : Converted(table.order, col, v, a, b) = {Prefix(v, b)}
    BY <1>5, <1>10, <2>4
  <2> QED
    BY <1>10, <2>1, <2>2, <2>3, <2>5 DEF TextsHeld, col, c, v
<1> QED
  BY <1>7, <1>8, <1>9, <1>10

\* What SQLGetData returns is data of the column as its buffer holds it
Returns(i, max, t, n) == got' = [col |-> i, max |-> max, text |-> t, len |-> n]

\* Of characters no fewer are there than the field is long
LEMMA CharactersThere ==
    ASSUME NEW k \in Nat PROVE SignedByte(k) <= k
BY DEF SignedByte

(* SQLGetData of a bound column, by the kind of the value.                 *)
LEMMA GetOfBound ==
    ASSUME ValuesInv, NEW i \in DOMAIN columns, NEW max \in Rooms, SQLGetData(i, max),
           i \in bound,
           Kind(i) = "DECIMAL" => table.columns[i].scale < table.columns[i].precision
    PROVE  GotAsBound(i, got')
<1> DEFINE col == columns[i]
           c == table.columns[i]
           v == Value(i)
           n == FieldLength(col, v)
           size == col.cur_length
           chars == Kind(i) \notin Integral \cup {"DECIMAL"}
<1>1. phase = "fetched" /\ i <= coln /\ i \in Nat /\ max \in Nat
  <2>1. columns \in Seq(Column) /\ phase = "fetched" /\ coln = Len(columns)
    BY DEF ValuesInv, RowsInv, Progress, Buffers, SQLGetData
  <2> QED
    BY <2>1, LenProperties, BuffersAssumption
<1>4. ASSUME NEW t, NEW m, Returns(i, max, t, m), chars => m \in {-1, Len(t)},
             \/ size <= 0 /\ m = -1 /\ t = text[i]
             \/ size \in 1..max /\ m = size /\ t = text[i]
             \/ size > max /\ m = max
                /\ t = IF Kind(i) \in Integral THEN text[i] ELSE Prefix(text[i], max)
      PROVE  GotAsBound(i, got')
  <2>1. got'.max = max /\ got'.text = t /\ got'.len = m
    BY <1>4 DEF Returns
  <2> QED
    BY <1>4, <2>1 DEF GotAsBound
<1>2. CASE v = Null
  <2>1. size = 0 /\ text[i] = <<>>
    BY <1>1, <1>2 DEF ValuesInv, AllHeld, Held
  <2>2. ~(0 > max) /\ 0 \notin 1..max
    BY <1>1
  <2>3. Returns(i, max, <<>>, -1)
    BY <2>1, <2>2 DEF SQLGetData, Returns
  <2> HIDE DEF size
  <2> QED
    BY <1>4, <2>1, <2>3
<1>3. CASE v # Null
  <2>1. /\ col.cur_addr = row /\ size = n /\ n \in Nat
        /\ col.precision = c.precision /\ c.precision \in Nat
        /\ col.scale = c.scale /\ c.scale \in Nat /\ c.scale <= c.precision
        /\ (Kind(i) = "DECIMAL" <=> c.precision > 0)
        /\ text[i] \in Converted(table.order, col, v, c.precision + 1, n)
    BY <1>1, <1>3, HeldValue DEF SameLayout
  <2>2. table.rows[col.cur_addr][i] = v
    BY <2>1 DEF Value
  <2>3. \/ n > max /\ \E t \in Converted(table.order, col, v, max, max) : Returns(i, max, t, max)
        \/ n \in 1..max /\ \E t \in Converted(table.order, col, v, c.precision + 1, n) :
              Returns(i, max, t, n)
        \/ n <= 0 /\ Returns(i, max, <<>>, -1)
    <3>1. \/ size > max
             /\ \E t \in Converted(table.order, col, table.rows[col.cur_addr][i], max, max) :
                   Returns(i, max, t, max)
          \/ /\ size \in 1..max
             /\ \E t \in Converted(table.order, col, table.rows[col.cur_addr][i],
                                   col.precision + 1, size) :
                   Returns(i, max, t, size)
          \/ size <= 0 /\ Returns(i, max, <<>>, -1)
      BY DEF SQLGetData, Returns
    <3> HIDE DEF col, v, size
    <3>2. size = n /\ col.precision + 1 = c.precision + 1
      BY <2>1
    <3> HIDE DEF n
    <3> QED
      BY <2>2, <3>1, <3>2
  <2>7. TextsHeld(i)
    BY <1>1, <1>3, HeldTexts
  <2>8. c.precision + 1 \in Nat
    BY <2>1
  <2>4. CASE Kind(i) = "DECIMAL"
    <3>1. /\ v \in Int /\ n = (c.precision + 1) \div 2 /\ c.precision > 0 /\ c.scale < c.precision
          /\ \A a, b : Converted(table.order, col, v, a, b) = drda_convert_precision(col, v, a)
      BY <2>1, <2>4, <2>7 DEF TextsHeld
    <3>0. ~chars /\ Kind(i) \notin Integral
      BY <2>4 DEF Integral
    <3> HIDE DEF col, v, n, c, size, chars
    <3>2. \E x \in Seq(Char) : \A m \in Nat : drda_convert_precision(col, v, m) = {Prefix(x, m)}
      <4>1. /\ v \in Int /\ col.precision \in Nat /\ col.scale \in Nat
            /\ col.scale <= col.precision /\ col.scale < col.precision
        BY <2>1, <3>1
      <4> QED
        BY <4>1, DecimalTexts
    <3>3. PICK x \in Seq(Char) : \A m \in Nat : drda_convert_precision(col, v, m) = {Prefix(x, m)}
      BY <3>2
    <3>4. text[i] = Prefix(x, c.precision + 1)
      BY <2>1, <2>8, <3>1, <3>3
    <3>5. CASE n > max
      <4>1. max <= c.precision + 1
        BY <1>1, <2>1, <3>1, <3>5
      <4>2. Returns(i, max, Prefix(x, max), max)
        <5>1. n \notin 1..max /\ ~(n <= 0)
          BY <1>1, <2>1, <3>5
        <5> QED
          BY <1>1, <2>3, <3>1, <3>3, <5>1
      <4>3. Prefix(text[i], max) = Prefix(x, max)
        BY <1>1, <2>8, <3>4, <4>1, PrefixOfPrefix
      <4> QED
        BY <1>4, <2>1, <3>0, <3>5, <4>2, <4>3
    <3>6. CASE ~(n > max)
      <4>1. n \in 1..max
        <5>1. n > 0
          BY <2>1, <3>1
        <5> QED
          BY <1>1, <2>1, <3>6, <5>1
      <4>2. \E t \in {Prefix(x, c.precision + 1)} : Returns(i, max, t, n)
        <5>1. ~(n <= 0)
          BY <2>1, <4>1
        <5> QED
          BY <2>3, <2>8, <3>1, <3>3, <3>6, <5>1
      <4> QED
        BY <1>4, <2>1, <3>0, <3>4, <4>1, <4>2
    <3> QED
      BY <3>5, <3>6
  <2>5. CASE Kind(i) \in Integral
    <3>1. n > 0 /\ \E x : \A a, b : Converted(table.order, col, v, a, b) = {x}
      <4>1. CASE Kind(i) = "SMALLINT"
        <5>1. n = 2 /\ \A a, b : Converted(table.order, col, v, a, b) = {Decimal(Int2(v))}
          BY <2>7, <4>1 DEF TextsHeld
        <5> HIDE DEF col, v, n
        <5> QED
          BY <5>1
      <4>2. CASE Kind(i) = "INT"
        <5>1. n = 4 /\ \A a, b : Converted(table.order, col, v, a, b)
                                    = {Decimal(TwoBytes(table.order, v))}
          BY <2>7, <4>2 DEF TextsHeld
        <5> HIDE DEF col, v, n
        <5> QED
          BY <5>1
      <4> QED
        BY <2>5, <4>1, <4>2 DEF Integral
    <3>2. PICK x : \A a, b : Converted(table.order, col, v, a, b) = {x}
      BY <3>1
    <3>0. ~chars
      BY <2>5
    <3> HIDE DEF col, v, n, c, size, chars
    <3>3. text[i] = x
      BY <2>1, <3>2
    <3>4. \/ n > max /\ Returns(i, max, x, max)
          \/ n \in 1..max /\ Returns(i, max, x, n)
      <4>1. ~(n <= 0)
        BY <2>1, <3>1
      <4> QED
        BY <2>3, <3>2, <4>1
    <3> QED
      BY <1>4, <2>1, <2>5, <3>0, <3>3, <3>4
  <2>6. CASE Kind(i) \notin {"DECIMAL", "SMALLINT", "INT"}
    <3>1. /\ v \in Seq(STRING) /\ n <= Len(v)
          /\ \A a, b : Converted(table.order, col, v, a, b) = {Prefix(v, b)}
      <4>1. Len(v) \in Nat /\ (n = Len(v) \/ (n = SignedByte(c.length) /\ Len(v) = c.length))
        BY <2>6, <2>7 DEF TextsHeld
      <4>2. n <= Len(v)
        <5> HIDE DEF col, v, n, c
        <5> QED
          BY <4>1, CharactersThere
      <4> QED
        BY <2>6, <2>7, <4>2 DEF TextsHeld
    <3>0. Kind(i) \notin Integral
      BY <2>6 DEF Integral
    <3> HIDE DEF col, v, n, c, size
    <3>2. text[i] = Prefix(v, n)
      BY <2>1, <3>1
    <3>6. \A m \in Nat : m <= n => Len(Prefix(v, m)) = m
      <4>1. ASSUME NEW m \in Nat, m <= n PROVE Len(Prefix(v, m)) = m
        <5>1. Len(v) \in Nat /\ Len(Prefix(v, m)) = Lesser(m, Len(v))
          BY <3>1, LengthOfText, PrefixOfText
        <5> QED
          BY <2>1, <3>1, <4>1, <5>1 DEF Lesser
      <4> QED
        BY <4>1
    <3>3. CASE n > max
      <4>1. max <= n
        BY <1>1, <2>1, <3>3
      <4>2. Returns(i, max, Prefix(v, max), max)
        <5>1. n \notin 1..max /\ ~(n <= 0)
          BY <1>1, <2>1, <3>3
        <5> QED
          BY <2>3, <3>1, <5>1
      <4>3. Prefix(text[i], max) = Prefix(v, max)
        BY <1>1, <2>1, <3>1, <3>2, <4>1, PrefixOfPrefix
      <4>4. Len(Prefix(v, max)) = max
        BY <1>1, <3>6, <4>1
      <4> QED
        BY <1>4, <2>1, <3>0, <3>3, <4>2, <4>3, <4>4
    <3>4. CASE ~(n > max) /\ n # 0
      <4>1. n \in 1..max /\ ~(n <= 0)
        BY <1>1, <2>1, <3>4
      <4>2. Returns(i, max, Prefix(v, n), n)
        BY <2>3, <3>1, <3>4, <4>1
      <4>3. Len(Prefix(v, n)) = n
        BY <2>1, <3>6
      <4> QED
        BY <1>4, <2>1, <3>2, <4>1, <4>2, <4>3
    <3>5. CASE n = 0
      <4>1. Prefix(v, 0) = <<>>
        <5>1. Lesser(0, Len(v)) = 0
          BY <3>1, LenProperties DEF Lesser
        <5>2. Prefix(v, 0) = SubSeq(v, 1, 0)
          BY <5>1 DEF Prefix
        <5> QED
          BY <3>1, <5>2
      <4>2. ~(n > max) /\ n \notin 1..max
        BY <1>1, <3>5
      <4>3. Returns(i, max, <<>>, -1)
        BY <2>3, <4>2
      <4> QED
        BY <1>4, <2>1, <3>2, <3>5, <4>1, <4>3
    <3> QED
      BY <3>3, <3>4, <3>5
  <2> QED
    BY <2>4, <2>5, <2>6 DEF Integral
<1> QED
  BY <1>2, <1>3

\* SQLGetData gives as the buffer holds
LEMMA GetValues ==
    ASSUME ValuesInv, RowsInv', NEW i \in DOMAIN columns, NEW max \in Rooms, SQLGetData(i, max)
    PROVE  ValuesInv'
<1>1. /\ phase = "fetched"
      /\ UNCHANGED <<table, columns, bound, phase, row, coln, text, ind>>
      /\ got'.col = i
  BY DEF SQLGetData
<1>2. Buffers'
  BY <1>1 DEF ValuesInv, Buffers
<1>3. AllHeld'
  BY <1>1 DEF ValuesInv, AllHeld, Held, Value, Kind
<1>4. Kind(i)' = Kind(i)
  BY <1>1 DEF Kind
<1>5. GetDataAsBound'
  <2>1. SUFFICES ASSUME i \in bound,
                        Kind(i) = "DECIMAL" => table.columns[i].scale < table.columns[i].precision
                 PROVE  GotAsBound(i, got)'
    BY <1>1, <1>4 DEF GetDataAsBound
  <2>2. GotAsBound(i, got')
    BY <2>1, GetOfBound
  <2> QED
    BY <1>1, <1>4, <2>2 DEF GotAsBound
<1> QED
  BY <1>2, <1>3, <1>5 DEF ValuesInv

\* The invariant is inductive
LEMMA ValuesStep == ValuesInv /\ [RNext]_rvars => ValuesInv'
<1> SUFFICES ASSUME ValuesInv, [RNext]_rvars PROVE ValuesInv'
  OBVIOUS
<1>0. RowsInv'
  BY RowsStep DEF ValuesInv
<1>1. CASE OpenResult
  BY <1>0, <1>1, OpenValues
<1>2. CASE BeginRow
  BY <1>0, <1>2, BeginValues
<1>3. CASE ReadColumn
  BY <1>0, <1>3, ReadValues
<1>4. CASE StopReading
  <2>1. got = NoData /\ phase' \in {"lost", "exit"}
    BY <1>4 DEF StopReading, ValuesInv, Buffers
  <2> QED
    BY <1>0, <1>4, <2>1, ValuesKept DEF StopReading
<1>5. CASE EndRow
  BY <1>0, <1>5, ValuesKept DEF EndRow
<1>6. ASSUME NEW i \in DOMAIN columns, GetUnsupported(i) PROVE ValuesInv'
  BY <1>0, <1>6, ValuesKept DEF GetUnsupported
<1>7. ASSUME NEW i \in DOMAIN columns, NEW max \in Rooms, SQLGetData(i, max) PROVE ValuesInv'
  BY <1>0, <1>7, GetValues
<1>8. CASE UNCHANGED rvars
  BY <1>0, <1>8, ValuesKept DEF rvars
<1> QED
  BY <1>1, <1>2, <1>3, <1>4, <1>5, <1>6, <1>7, <1>8 DEF RNext

\* The types follow from the invariant
LEMMA RowsTyped == ValuesInv => RowsTypeOK
<1> SUFFICES ASSUME ValuesInv PROVE RowsTypeOK
  OBVIOUS
<1>1. /\ columns \in Seq(Column) /\ DOMAIN columns = 1..Len(columns)
      /\ \A i \in DOMAIN columns : columns[i] \in Column /\ columns[i].cur_addr \in 0..row
  BY LenProperties, ElementOfSeq DEF ValuesInv, RowsInv, Progress
<1>2. \A i \in DOMAIN columns :
         /\ columns[i].cur_addr \in 0..row
         /\ columns[i].fdoca_len \in -128..127 /\ columns[i].cur_length \in Nat
  BY <1>1 DEF Column, OneByte
<1>3. got = NoData \/ got.col \in DOMAIN columns
  BY DEF ValuesInv, Buffers
<1> QED
  BY <1>2, <1>3 DEF ValuesInv, RowsInv, Progress, Buffers, RowsTypeOK

(* The texts of values that the conversion keeps.                          *)
LEMMA KeptShows ==
    ASSUME ValuesInv, phase \in {"row", "fetched"}, NEW i \in bound, i <= coln,
           Value(i) # Null, Kept(i, Value(i))
    PROVE  Shows(i, text[i], Value(i))
<1> DEFINE col == columns[i]
           c == table.columns[i]
           v == Value(i)
           n == FieldLength(col, v)
<1>1. /\ col.precision = c.precision /\ c.precision \in Nat
      /\ col.scale = c.scale /\ c.scale \in Nat /\ c.length \in Nat
      /\ n \in Nat /\ text[i] \in Converted(table.order, col, v, c.precision + 1, n)
  BY HeldValue DEF SameLayout
<1>2. TextsHeld(i)
  BY HeldTexts
<1>3. CASE Kind(i) = "DECIMAL"
  <2>1. /\ v \in Int /\ Abs(v) < Tens[c.precision]
        /\ \A a, b : Converted(table.order, col, v, a, b) = drda_convert_precision(col, v, a)
    BY <1>2, <1>3 DEF TextsHeld
  <2>2. v >= 0 /\ c.precision % 2 = 1 /\ c.scale < c.precision
    BY <1>3 DEF Kept
  <2> HIDE DEF col, c, v, n
  <2>3. v \in Nat /\ v < Tens[c.precision]
    BY <2>1, <2>2 DEF Abs
  <2>4. text[i] \in drda_convert_precision(col, v, c.precision + 1)
    BY <1>1, <2>1
  <2>5. ReadsAs(text[i], v, c.scale)
    BY <1>1, <2>2, <2>3, <2>4, DecimalShown
  <2> QED
    BY <1>3, <2>5 DEF Shows, c, v
<1>4. CASE Kind(i) = "SMALLINT"
  <2>1. /\ v \in Int /\ v >= -32768 /\ v < 32768
        /\ \A a, b : Converted(table.order, col, v, a, b) = {Decimal(Int2(v))}
    BY <1>2, <1>4 DEF TextsHeld
  <2> HIDE DEF col, c, v, n
  <2>2. text[i] = Decimal(Int2(v)) /\ Int2(v) = v
    BY <1>1, <2>1, TwoByteInteger
  <2>3. text[i] = Decimal(v)
    BY <2>2
  <2> QED
    BY <1>4, <2>3 DEF Shows, v
<1>5. CASE Kind(i) = "INT"
  <2>1. \A a, b : Converted(table.order, col, v, a, b) = {Decimal(TwoBytes(table.order, v))}
    BY <1>2, <1>5 DEF TextsHeld
  <2>2. table.order = "QTDSQLX86" /\ Int2(v) = v
    BY <1>5 DEF Kept
  <2> HIDE DEF col, c, v, n
  <2>3. text[i] = Decimal(TwoBytes(table.order, v)) /\ TwoBytes(table.order, v) = v
    BY <1>1, <2>1, <2>2 DEF TwoBytes
  <2>4. text[i] = Decimal(v)
    BY <2>3
  <2> QED
    BY <1>5, <2>4 DEF Shows, v
<1>6. CASE Kind(i) \notin {"DECIMAL", "SMALLINT", "INT"}
  <2>1. /\ v \in Seq(STRING) /\ Len(v) \in Nat
        /\ IF fdoca_sizeof_length(c.type) > 0 THEN n = Len(v)
           ELSE n = SignedByte(c.length) /\ Len(v) = c.length
        /\ \A a, b : Converted(table.order, col, v, a, b) = {Prefix(v, b)}
    BY <1>2, <1>6 DEF TextsHeld
  <2>2. fdoca_sizeof_length(c.type) = 0 => c.length \in 0..127
    BY <1>6 DEF Kept
  <2>3. fdoca_sizeof_length(c.type) \in 0..2
    BY Sizes
  <2> HIDE DEF col, c, v, n
  <2>4. n = Len(v)
    <3>1. CASE fdoca_sizeof_length(c.type) > 0
      BY <2>1, <3>1
    <3>2. CASE ~(fdoca_sizeof_length(c.type) > 0)
      <4>1. c.length \in 0..127
        BY <2>2, <2>3, <3>2
      <4>2. SignedByte(c.length) = c.length
        BY <4>1, ShortLength
      <4> QED
        BY <2>1, <3>2, <4>2
    <3> QED
      BY <3>1, <3>2
  <2>5. text[i] = Prefix(v, n) /\ Len(v) <= n
    BY <1>1, <2>1, <2>4
  <2>6. text[i] = v
    BY <1>1, <2>1, <2>5, PrefixOfAll
  <2> QED
    BY <1>6, <2>6 DEF Shows, v
<1> QED
  BY <1>3, <1>4, <1>5, <1>6

(* The texts of all values are short enough for the display size.          *)
LEMMA TextFits ==
    ASSUME ValuesInv, phase \in {"row", "fetched"}, NEW i \in bound, i <= coln,
           Value(i) # Null, Kind(i) # "INT",
           Kind(i) = "DECIMAL" => table.columns[i].scale # 0
    PROVE  Len(text[i]) <= DisplaySize(columns[i])
<1> DEFINE col == columns[i]
           c == table.columns[i]
           v == Value(i)
           n == FieldLength(col, v)
           size == CASE _odbc_get_client_type(col.fdoca_type) = "NUMERIC" -> DecimalSize(col)
                     [] _odbc_get_client_type(col.fdoca_type) = "SMALLINT" -> 6
                     [] OTHER -> col.length
<1>1. /\ col.precision = c.precision /\ c.precision \in Nat
      /\ col.scale = c.scale /\ c.scale \in Nat /\ c.scale <= c.precision
      /\ col.length = c.length /\ c.length \in Nat
      /\ col.name = c.name /\ c.name \in Nat /\ col.fdoca_type = c.type
      /\ n \in Nat /\ text[i] \in Converted(table.order, col, v, c.precision + 1, n)
  BY HeldValue DEF SameLayout
<1>2. TextsHeld(i)
  BY HeldTexts
<1>3. Kind(i) = drda_get_cardinal_type(col.fdoca_type)
  BY <1>1 DEF Kind
<1>4. DisplaySize(col) = IF size < col.name THEN col.name ELSE size
  BY DEF DisplaySize
<1>5. CASE Kind(i) = "DECIMAL"
  <2>1. /\ v \in Int
        /\ \A a, b : Converted(table.order, col, v, a, b) = drda_convert_precision(col, v, a)
    BY <1>2, <1>5 DEF TextsHeld
  <2>2. size = c.precision + 1
    BY <1>1, <1>3, <1>5 DEF _odbc_get_client_type, DecimalSize
  <2> HIDE DEF col, c, v, n, size
  <2>3. text[i] \in drda_convert_precision(col, v, c.precision + 1)
    BY <1>1, <2>1
  <2>4. /\ v \in Int /\ col.precision \in Nat /\ col.scale \in Nat /\ col.scale <= col.precision
        /\ c.precision + 1 \in Nat
    BY <1>1, <2>1
  <2>5. text[i] \in Seq(Char) /\ Len(text[i]) <= c.precision + 1
    BY <2>3, <2>4, DecimalTexts
  <2>6. Len(text[i]) \in Nat
    BY <2>5, LenProperties
  <2>7. Len(text[i]) <= DisplaySize(col)
    BY <1>1, <1>4, <2>2, <2>5, <2>6
  <2> QED
    BY <2>7 DEF col
<1>6. CASE Kind(i) = "SMALLINT"
  <2>1. v \in Int /\ \A a, b : Converted(table.order, col, v, a, b) = {Decimal(Int2(v))}
    BY <1>2, <1>6 DEF TextsHeld
  <2>2. size = 6
    BY <1>1, <1>3, <1>6 DEF _odbc_get_client_type
  <2> HIDE DEF col, c, v, n, size
  <2>3. text[i] = Decimal(Int2(v))
    BY <1>1, <2>1
  <2>4. PICK k \in Int : k = Int2(v) /\ k >= -32768 /\ k < 32768
    BY <2>1, TwoByteInteger
  <2>5. text[i] \in Seq(Char) /\ Len(text[i]) <= 6
    BY <2>3, <2>4, SmallDecimal
  <2>6. Len(text[i]) \in Nat
    BY <2>5, LenProperties
  <2>7. Len(text[i]) <= DisplaySize(col)
    BY <1>1, <1>4, <2>2, <2>5, <2>6
  <2> QED
    BY <2>7 DEF col
<1>7. CASE Kind(i) \notin {"DECIMAL", "SMALLINT", "INT"}
  <2>1. /\ v \in Seq(STRING) /\ Len(v) \in Nat /\ Len(v) <= c.length
        /\ \A a, b : Converted(table.order, col, v, a, b) = {Prefix(v, b)}
    BY <1>2, <1>7 DEF TextsHeld
  <2>2. size = c.length
    BY <1>1, <1>3, <1>7 DEF _odbc_get_client_type
  <2> HIDE DEF col, c, v, n, size
  <2>3. text[i] = Prefix(v, n)
    BY <1>1, <2>1
  <2>4. Len(text[i]) = Lesser(n, Len(v))
    BY <1>1, <2>1, <2>3, PrefixOfText
  <2>5. Len(text[i]) \in Nat /\ Len(text[i]) <= c.length
    BY <1>1, <2>1, <2>4 DEF Lesser
  <2>6. Len(text[i]) <= DisplaySize(col)
    BY <1>1, <1>4, <2>2, <2>5
  <2> QED
    BY <2>6 DEF col
<1> QED
  BY <1>5, <1>6, <1>7

\* After a fetch every bound column was read
LEMMA FetchedAll ==
    ASSUME ValuesInv, phase = "fetched", NEW i \in bound
    PROVE  /\ i <= coln /\ Held(i)
           /\ columns[i].name \in Nat /\ columns[i].length \in Nat /\ columns[i].precision \in Nat
<1>1. i \in DOMAIN table.columns /\ coln = Len(columns)
  BY DEF ValuesInv, Buffers
<1>2. Len(columns) = Len(table.columns) /\ columns \in Seq(Column)
  BY DEF ValuesInv, RowsInv, AsDescribed, Progress
<1>3. DOMAIN table.columns = 1..Len(table.columns) /\ DOMAIN columns = 1..Len(columns)
      /\ Len(columns) \in Nat
  BY <1>2, ColumnsOfServer, LenProperties DEF ValuesInv, RowsInv
<1>4. i <= coln /\ i \in DOMAIN columns
  BY <1>1, <1>2, <1>3
<1>5. columns[i] \in Column
  BY <1>2, <1>4, ElementOfSeq, <1>3
<1> QED
  BY <1>4, <1>5 DEF ValuesInv, AllHeld, Column

\* What is held is what the properties promise
LEMMA ValuesAsPromised == ValuesInv => BoundValues /\ DisplaySizeSuffices
<1> SUFFICES ASSUME ValuesInv, phase = "fetched", NEW i \in bound
             PROVE  /\ IF Value(i) = Null THEN text[i] = <<>>
                       ELSE /\ ind[i] = Len(text[i])
                            /\ Kept(i, Value(i)) => Shows(i, text[i], Value(i))
                    /\ \/ Kind(i) = "INT"
                       \/ Kind(i) = "DECIMAL" /\ table.columns[i].scale = 0
                       \/ Len(text[i]) <= DisplaySize(columns[i])
  BY DEF BoundValues, DisplaySizeSuffices
<1>1. i <= coln /\ Held(i) /\ columns[i].name \in Nat /\ columns[i].length \in Nat
      /\ columns[i].precision \in Nat
  BY FetchedAll
<1>2. CASE Value(i) = Null
  <2>1. text[i] = <<>>
    BY <1>1, <1>2 DEF Held
  <2>2. Len(text[i]) = 0
    BY <2>1
  <2>3. 0 <= DisplaySize(columns[i])
    BY <1>1 DEF DisplaySize, DecimalSize
  <2> QED
    BY <1>2, <2>1, <2>2, <2>3
<1>3. CASE Value(i) # Null
  <2>1. ind[i] = Len(text[i])
    BY <1>3, <1>1 DEF Held
  <2> QED
    BY <1>1, <1>3, <2>1, KeptShows, TextFits
<1> QED
  BY <1>2, <1>3

\* The invariant of the values
LEMMA ValuesAlways == Spec => []ValuesInv
<1>1. RInit => ValuesInv
  BY ValuesStart
<1>2. ValuesInv /\ [RNext]_rvars => ValuesInv'
  BY ValuesStep
<1> QED
  BY <1>1, <1>2, PTL DEF Spec

(* The variables keep their types, and the positions stay within the rows  *)
(* and columns there are: fdoca_read_qrydta() never reads a cell of a      *)
(* column that fdoca_read_sqlda() did not make.                            *)
THEOREM RowsTypes == Spec => []RowsTypeOK
<1>1. ValuesInv => RowsTypeOK
  BY RowsTyped
<1> QED
  BY <1>1, ValuesAlways, PTL

(* For every description, every row and every byte order: after SQLFetch() *)
(* the buffers that SQLBindCol() was given hold the texts of this row's    *)
(* values, decimals with their point in its place, and a NULL empties      *)
(* them.                                                                   *)
THEOREM BoundValuesOfRow == Spec => []BoundValues
<1>1. ValuesInv => BoundValues
  BY ValuesAsPromised
<1> QED
  BY <1>1, ValuesAlways, PTL

(* SQLGetData() converts a second time, from the value's address and       *)
(* length, and gives what SQLFetch() gave the bound buffer: of a field     *)
(* that is longer than its own buffer the first part, of an integer all.   *)
THEOREM GetDataGivesBound == Spec => []GetDataAsBound
<1>1. ValuesInv => GetDataAsBound
  BY DEF ValuesInv
<1> QED
  BY <1>1, ValuesAlways, PTL

(* An application that takes SQLColAttributes()'s word for the size of a   *)
(* column has room for every text of a fetch, integers of four bytes and   *)
(* decimals without a fraction excepted.                                   *)
THEOREM RoomForTexts == Spec => []DisplaySizeSuffices
<1>1. ValuesInv => DisplaySizeSuffices
  BY ValuesAsPromised
<1> QED
  BY <1>1, ValuesAlways, PTL

=============================================================================
