------------------------- MODULE Algorithms_proofs -------------------------
(***************************************************************************)
(* Proofs about QueryText: for every statement, what _odbc_fix_literals()  *)
(* makes of its text is what the statement means; and the types of the     *)
(* three parts that MCAlgorithms checks together.  Smallest                *)
(* counterexamples of natural numbers stand for the induction over texts.  *)
(***************************************************************************)
EXTENDS MCAlgorithms, ResultRows_proofs, ConnectText_proofs

-----------------------------------------------------------------------------
(* Texts one after the other: what Start defines by recursion.             *)

\* g has the first texts put together, up to n of them
StartsUpTo(texts, n, g) ==
    /\ DOMAIN g = 0..n /\ g[0] = <<>>
    /\ \A i \in 1..n : g[i] = g[i - 1] \o texts[i]

\* They exist, however many
LEMMA StartsExist == \A texts : \A n \in Nat : \E g : StartsUpTo(texts, n, g)
<1> TAKE texts
<1> DEFINE T == {n \in Nat : ~\E g : StartsUpTo(texts, n, g)}
<1> SUFFICES ASSUME T # {} PROVE FALSE
  OBVIOUS
<1>1. PICK n \in T : \A m \in T : n <= m
  BY LeastNumber
<1>2. n # 0
  <2>1. StartsUpTo(texts, 0, [i \in 0..0 |-> <<>>])
    BY DEF StartsUpTo
  <2> QED
    BY <2>1
<1>3. PICK g : StartsUpTo(texts, n - 1, g)
  <2>1. n - 1 \in Nat /\ ~(n <= n - 1)
    BY <1>2
  <2> QED
    BY <1>1, <2>1
<1> DEFINE h == [i \in 0..n |-> IF i = n THEN g[n - 1] \o texts[n] ELSE g[i]]
<1>4. n \in Nat /\ n \in 1..n /\ 0 \in 0..n
      /\ \A i \in 1..n : i - 1 \in 0..n /\ i - 1 # n /\ i \in 0..n
  BY <1>2
<1>5. DOMAIN h = 0..n /\ h[0] = <<>>
  BY <1>2, <1>3, <1>4 DEF StartsUpTo
<1>6. \A i \in 1..n : h[i] = h[i - 1] \o texts[i]
  <2> SUFFICES ASSUME NEW i \in 1..n PROVE h[i] = h[i - 1] \o texts[i]
    OBVIOUS
  <2>1. h[i - 1] = g[i - 1]
    BY <1>4
  <2>2. i # n => h[i] = g[i] /\ i \in 1..(n - 1)
    BY <1>4
  <2>3. i = n => h[i] = g[n - 1] \o texts[n]
    BY <1>4
  <2> HIDE DEF h
  <2> QED
    BY <1>3, <2>1, <2>2, <2>3 DEF StartsUpTo
<1>7. StartsUpTo(texts, n, h)
  <2> HIDE DEF h
  <2> QED
    BY <1>5, <1>6 DEF StartsUpTo
<1> QED
  BY <1>7

\* They agree with those of more texts
LEMMA StartsAgree ==
    \A texts : \A n \in Nat, m \in Nat : \A g, h :
        StartsUpTo(texts, n, g) /\ StartsUpTo(texts, m, h) => \A i \in 0..n : i <= m => g[i] = h[i]
<1> SUFFICES ASSUME NEW texts, NEW n \in Nat, NEW m \in Nat, NEW g, NEW h,
                    StartsUpTo(texts, n, g), StartsUpTo(texts, m, h)
             PROVE  \A i \in 0..n : i <= m => g[i] = h[i]
  OBVIOUS
<1> DEFINE T == {i \in 0..n : i <= m /\ g[i] # h[i]}
<1> SUFFICES ASSUME T # {} PROVE FALSE
  OBVIOUS
<1>1. T \in SUBSET Nat
  OBVIOUS
<1>2. PICK i \in T : \A j \in T : i <= j
  <2> HIDE DEF T
  <2> QED
    BY <1>1, LeastNumber
<1>3. i # 0
  BY DEF StartsUpTo
<1>4. i - 1 \in 0..n /\ i - 1 <= m /\ ~(i <= i - 1) /\ i \in 1..n /\ i \in 1..m
  BY <1>3
<1>5. g[i - 1] = h[i - 1]
  BY <1>2, <1>4
<1> QED
  BY <1>4, <1>5 DEF StartsUpTo

\* One text more
LEMMA StartEquation ==
    ASSUME NEW texts
    PROVE  /\ Start(texts, 0) = <<>>
           /\ \A n \in Nat : n > 0 => Start(texts, n) = Start(texts, n - 1) \o texts[n]
<1> DEFINE Some(n) == CHOOSE g : StartsUpTo(texts, n, g)
           f == [n \in Nat |-> Some(n)[n]]
           IsFirst(t) == t = [k \in Nat |-> IF k = 0 THEN <<>> ELSE t[k - 1] \o texts[k]]
           first == CHOOSE t : IsFirst(t)
<1>1. \A n \in Nat : StartsUpTo(texts, n, Some(n))
  BY StartsExist
<1> HIDE DEF Some
<1>2. f[0] = <<>>
  BY <1>1 DEF StartsUpTo
<1>3. \A n \in Nat : n # 0 => f[n] = f[n - 1] \o texts[n]
  <2> SUFFICES ASSUME NEW n \in Nat, n # 0 PROVE f[n] = f[n - 1] \o texts[n]
    OBVIOUS
  <2>1. n - 1 \in Nat /\ n - 1 \in 0..n /\ n \in 1..n /\ n - 1 \in 0..(n - 1) /\ n - 1 <= n
    OBVIOUS
  <2>2. f[n] = Some(n)[n - 1] \o texts[n]
    BY <1>1, <2>1 DEF StartsUpTo
  <2>3. Some(n)[n - 1] = Some(n - 1)[n - 1]
    <3>1. StartsUpTo(texts, n, Some(n)) /\ StartsUpTo(texts, n - 1, Some(n - 1))
      BY <1>1, <2>1
    <3> QED
      BY <2>1, <3>1, StartsAgree
  <2> QED
    BY <2>1, <2>2, <2>3
<1>4. IsFirst(f)
  <2>1. f = [n \in Nat |-> f[n]]
    OBVIOUS
  <2> HIDE DEF f
  <2>2. \A n \in Nat : f[n] = IF n = 0 THEN <<>> ELSE f[n - 1] \o texts[n]
    BY <1>2, <1>3
  <2> QED
    BY <2>1, <2>2
<1>5. IsFirst(first)
  <2> HIDE DEF f, IsFirst
  <2> QED
    BY <1>4
<1>6. \A n : Start(texts, n) = first[n]
  BY Zenon DEF Start
<1> HIDE DEF first
<1>7. first[0] = <<>> /\ \A n \in Nat : n > 0 => first[n] = first[n - 1] \o texts[n]
  <2>1. PICK t : t = first /\ IsFirst(t)
    BY <1>5
  <2>2. \A n \in Nat : t[n] = IF n = 0 THEN <<>> ELSE t[n - 1] \o texts[n]
    BY <2>1
  <2>3. t[0] = <<>>
    BY <2>2
  <2>4. ASSUME NEW n \in Nat, n > 0 PROVE t[n] = t[n - 1] \o texts[n]
    <3>1. n # 0
      BY <2>4
    <3> QED
      BY <2>2, <3>1, Zenon
  <2> QED
    BY <2>1, <2>3, <2>4
<1> QED
  BY <1>6, <1>7

\* What one text more adds
StartStep(texts, n) ==
    /\ Len(Start(texts, n)) = Len(Start(texts, n - 1)) + Len(texts[n])
    /\ \A p \in 1..Len(Start(texts, n - 1)) : Start(texts, n)[p] = Start(texts, n - 1)[p]
    /\ \A k \in 1..Len(texts[n]) :
          Start(texts, n)[Len(Start(texts, n - 1)) + k] = texts[n][k]

\* How the first texts grow
LEMMA StartGrows ==
    ASSUME NEW S, NEW texts \in Seq(Seq(S)), NEW n \in 1..Len(texts),
           Start(texts, n - 1) \in Seq(S)
    PROVE  Start(texts, n) \in Seq(S) /\ texts[n] \in Seq(S) /\ StartStep(texts, n)
<1>1. n \in Nat /\ n > 0 /\ texts[n] \in Seq(S)
  BY TextElements
<1>2. PICK a \in Seq(S) : a = Start(texts, n - 1)
  OBVIOUS
<1>3. PICK b \in Seq(S) : b = texts[n]
  BY <1>1
<1>4. PICK t : t = Start(texts, n) /\ t = a \o b
  BY <1>1, <1>2, <1>3, StartEquation
<1>5. /\ a \o b \in Seq(S) /\ Len(a \o b) = Len(a) + Len(b)
      /\ \A i \in 1..(Len(a) + Len(b)) : (a \o b)[i] = IF i <= Len(a) THEN a[i] ELSE b[i - Len(a)]
  BY ConcatProperties
<1>6. Len(a) \in Nat /\ Len(b) \in Nat
  BY TextElements
<1>7. \A p \in 1..Len(a) : t[p] = a[p]
  <2>1. \A p \in 1..Len(a) : p \in 1..(Len(a) + Len(b)) /\ p <= Len(a)
    BY <1>6
  <2> QED
    BY <1>4, <1>5, <2>1
<1>8. \A k \in 1..Len(b) : t[Len(a) + k] = b[k]
  <2>1. \A k \in 1..Len(b) : /\ Len(a) + k \in 1..(Len(a) + Len(b)) /\ ~(Len(a) + k <= Len(a))
                             /\ (Len(a) + k) - Len(a) = k
    BY <1>6
  <2> QED
    BY <1>4, <1>5, <2>1
<1>9. StartStep(texts, n)
  BY <1>2, <1>3, <1>4, <1>5, <1>7, <1>8 DEF StartStep
<1> QED
  BY <1>2, <1>3, <1>4, <1>5, <1>9

\* The first texts are a text
LEMMA StartIsText ==
    ASSUME NEW S, NEW texts \in Seq(Seq(S)), NEW n \in 0..Len(texts)
    PROVE  Start(texts, n) \in Seq(S) /\ Len(Start(texts, n)) \in Nat
<1> DEFINE T == {m \in 0..Len(texts) : Start(texts, m) \notin Seq(S)}
<1>1. T = {}
  <2> SUFFICES ASSUME T # {} PROVE FALSE
    OBVIOUS
  <2>1. Len(texts) \in Nat /\ T \in SUBSET Nat
    BY TextElements
  <2>2. PICK m \in T : \A j \in T : m <= j
    <3> HIDE DEF T
    <3> QED
      BY <2>1, LeastNumber
  <2>3. m # 0
    <3>1. Start(texts, 0) = <<>> /\ <<>> \in Seq(S)
      BY StartEquation, EmptySeq
    <3> QED
      BY <3>1
  <2>4. m - 1 \in 0..Len(texts) /\ ~(m <= m - 1) /\ m \in 1..Len(texts)
    BY <2>1, <2>3
  <2>5. Start(texts, m - 1) \in Seq(S)
    BY <2>2, <2>4
  <2>6. Start(texts, m) \in Seq(S)
    <3> HIDE DEF T
    <3> QED
      BY <2>4, <2>5, StartGrows
  <2> QED
    BY <2>6
<1>2. Start(texts, n) \in Seq(S)
  BY <1>1
<1> QED
  BY <1>2, TextElements

\* All that the first texts are
LEMMA StartSteps ==
    ASSUME NEW S, NEW texts \in Seq(Seq(S)), NEW n \in 1..Len(texts)
    PROVE  /\ Len(Start(texts, n - 1)) \in Nat /\ Len(Start(texts, n)) \in Nat
           /\ texts[n] \in Seq(S) /\ Len(texts[n]) \in Nat /\ StartStep(texts, n)
<1>1. n - 1 \in 0..Len(texts) /\ n \in 0..Len(texts)
  BY TextElements
<1>2. /\ Start(texts, n - 1) \in Seq(S)
      /\ Len(Start(texts, n - 1)) \in Nat /\ Len(Start(texts, n)) \in Nat
  BY <1>1, StartIsText
<1>3. texts[n] \in Seq(S) /\ Len(texts[n]) \in Nat
  BY TextElements
<1> QED
  BY <1>2, <1>3, StartGrows

\* What comes first stays where it is
LEMMA StartStays ==
    ASSUME NEW S, NEW texts \in Seq(Seq(S)), NEW n \in 0..Len(texts), NEW m \in n..Len(texts)
    PROVE  /\ Len(Start(texts, n)) <= Len(Start(texts, m))
           /\ \A p \in 1..Len(Start(texts, n)) : Start(texts, m)[p] = Start(texts, n)[p]
<1> DEFINE Stays(j) == /\ Len(Start(texts, n)) <= Len(Start(texts, j))
                       /\ \A p \in 1..Len(Start(texts, n)) : Start(texts, j)[p] = Start(texts, n)[p]
           T == {j \in n..Len(texts) : ~Stays(j)}
<1>1. Len(texts) \in Nat /\ n \in Nat
  BY TextElements
<1>2. T = {}
  <2> SUFFICES ASSUME T # {} PROVE FALSE
    OBVIOUS
  <2>1. T \in SUBSET Nat
    BY <1>1
  <2>2. PICK j \in T : \A i \in T : j <= i
    <3> HIDE DEF T
    <3> QED
      BY <2>1, LeastNumber
  <2>3. j \in n..Len(texts) /\ ~Stays(j)
    <3> HIDE DEF Stays
    <3> QED
      BY <2>2
  <2>4. j # n
    <3>1. Len(Start(texts, n)) \in Nat
      BY StartIsText
    <3>2. Stays(n)
      BY <3>1
    <3> HIDE DEF Stays
    <3> QED
      BY <2>3, <3>2
  <2>5. j - 1 \in n..Len(texts) /\ ~(j <= j - 1) /\ j \in 1..Len(texts) /\ j - 1 \in 0..Len(texts)
    BY <1>1, <2>3, <2>4
  <2>6. Stays(j - 1)
    <3> HIDE DEF Stays
    <3>1. j - 1 \notin T
      BY <2>2, <2>5
    <3> QED
      BY <2>5, <3>1
  <2>7. /\ Len(Start(texts, j - 1)) \in Nat /\ Len(Start(texts, j)) \in Nat
        /\ Len(texts[j]) \in Nat /\ StartStep(texts, j)
    BY <2>5, StartSteps
  <2>8. Len(Start(texts, n)) \in Nat
    BY StartIsText
  <2>9. Stays(j)
    <3>1. Len(Start(texts, n)) <= Len(Start(texts, j))
      <4>1. Len(Start(texts, n)) <= Len(Start(texts, j - 1))
        BY <2>6
      <4>2. Len(Start(texts, j)) = Len(Start(texts, j - 1)) + Len(texts[j])
        BY <2>7, Zenon DEF StartStep
      <4>3. \A a, b, c, d \in Nat : a <= b /\ d = b + c => a <= d
        OBVIOUS
      <4> QED
        BY <2>7, <2>8, <4>1, <4>2, <4>3, Zenon
    <3>2. \A p \in 1..Len(Start(texts, n)) : p \in 1..Len(Start(texts, j - 1))
      BY <2>6, <2>7, <2>8
    <3>3. \A p \in 1..Len(Start(texts, n)) : Start(texts, j)[p] = Start(texts, n)[p]
      BY <2>6, <2>7, <3>2 DEF StartStep
    <3> QED
      BY <3>1, <3>3
  <2> HIDE DEF Stays
  <2> QED
    BY <2>3, <2>9
<1>3. Stays(m)
  <2> HIDE DEF Stays
  <2>1. m \notin T
    <3> HIDE DEF T
    <3> QED
      BY <1>2
  <2> QED
    BY <2>1
<1> QED
  BY <1>3

\* Where the k-th character of the i-th text is when all are put together
PlacedAt(texts, i, k) ==
    /\ Len(Start(texts, i - 1)) + k \in 1..Len(Joined(texts))
    /\ Joined(texts)[Len(Start(texts, i - 1)) + k] = texts[i][k]

\* It is there
LEMMA PlaceOf ==
    ASSUME NEW S, NEW texts \in Seq(Seq(S)), NEW i \in 1..Len(texts), NEW k \in 1..Len(texts[i])
    PROVE  PlacedAt(texts, i, k)
<1>1. Len(texts) \in Nat /\ i \in Nat /\ i \in 0..Len(texts) /\ Len(texts) \in i..Len(texts)
  BY TextElements
<1>2. /\ Len(Start(texts, i - 1)) \in Nat /\ Len(Start(texts, i)) \in Nat
      /\ Len(texts[i]) \in Nat /\ StartStep(texts, i)
  BY StartSteps
<1>3. /\ Len(Start(texts, i)) <= Len(Start(texts, Len(texts)))
      /\ \A p \in 1..Len(Start(texts, i)) : Start(texts, Len(texts))[p] = Start(texts, i)[p]
  BY <1>1, StartStays
<1>4. Len(Start(texts, Len(texts))) \in Nat
  <2>1. Len(texts) \in 0..Len(texts)
    BY <1>1
  <2> QED
    BY <2>1, StartIsText
<1>5. /\ Len(Start(texts, i)) = Len(Start(texts, i - 1)) + Len(texts[i])
      /\ Start(texts, i)[Len(Start(texts, i - 1)) + k] = texts[i][k]
  BY <1>2, Zenon DEF StartStep
<1>6. \A a, b, c, d \in Nat : b = a + c /\ b <= d =>
          \A j \in 1..c : a + j \in 1..b /\ a + j \in 1..d
  OBVIOUS
<1>7. Len(Start(texts, i - 1)) + k \in 1..Len(Start(texts, i))
      /\ Len(Start(texts, i - 1)) + k \in 1..Len(Start(texts, Len(texts)))
  BY <1>2, <1>3, <1>4, <1>5, <1>6, Zenon
<1>8. Start(texts, Len(texts))[Len(Start(texts, i - 1)) + k]
      = Start(texts, i)[Len(Start(texts, i - 1)) + k]
  BY <1>3, <1>7, Zenon
<1> QED
  BY <1>5, <1>7, <1>8, Zenon DEF Joined, PlacedAt

(* The next text that is not empty, or the end, is n.                      *)
NextAt(ws, ms, i, n) ==
    /\ n <= Len(ws) => ws[n] # <<>>
    /\ \A j \in (i + 1)..(n - 1) : ws[j] = <<>>
    /\ Start(ws, n - 1) = Start(ws, i) /\ Start(ms, n - 1) = Start(ms, i)

\* Nothing is between a text and the next
LEMMA NextText ==
    ASSUME NEW S, NEW ws \in Seq(Seq(S)), NEW ms \in Seq(Seq(S)), Len(ms) = Len(ws),
           \A j \in 1..Len(ws) : ws[j] = <<>> => ms[j] = <<>>, NEW i \in 0..Len(ws)
    PROVE  \E n \in (i + 1)..(Len(ws) + 1) : NextAt(ws, ms, i, n)
<1> DEFINE T == {n \in (i + 1)..(Len(ws) + 1) : n <= Len(ws) => ws[n] # <<>>}
<1>1. Len(ws) \in Nat /\ i \in Nat /\ i <= Len(ws)
  BY TextElements
<1>2. Len(ws) + 1 \in T /\ T \in SUBSET Nat
  BY <1>1
<1>3. PICK n \in T : \A j \in T : n <= j
  <2> HIDE DEF T
  <2> QED
    BY <1>2, LeastNumber
<1>4. n \in (i + 1)..(Len(ws) + 1) /\ (n <= Len(ws) => ws[n] # <<>>)
  BY <1>3
<1>5. \A j \in (i + 1)..(n - 1) : ws[j] = <<>> /\ j \in 1..Len(ws)
  <2> SUFFICES ASSUME NEW j \in (i + 1)..(n - 1) PROVE ws[j] = <<>> /\ j \in 1..Len(ws)
    OBVIOUS
  <2>1. j \in (i + 1)..(Len(ws) + 1) /\ ~(n <= j) /\ j \in 1..Len(ws)
    BY <1>1, <1>4
  <2>2. j \notin T
    <3> HIDE DEF T
    <3> QED
      BY <1>3, <2>1
  <2> QED
    BY <2>1, <2>2
<1> HIDE DEF T
<1> DEFINE D == {j \in i..(n - 1) : Start(ws, j) # Start(ws, i) \/ Start(ms, j) # Start(ms, i)}
<1>6. D = {}
  <2> SUFFICES ASSUME D # {} PROVE FALSE
    OBVIOUS
  <2>1. D \in SUBSET Nat
    BY <1>1
  <2>2. PICK j \in D : \A q \in D : j <= q
    <3> HIDE DEF D
    <3> QED
      BY <2>1, LeastNumber
  <2>3. j \in i..(n - 1) /\ j # i
    BY <2>2
  <2>4. j - 1 \in i..(n - 1) /\ ~(j <= j - 1) /\ j \in (i + 1)..(n - 1) /\ j \in Nat /\ j > 0
        /\ j - 1 \in 0..Len(ws)
    <3> HIDE DEF D
    <3> QED
      BY <1>1, <1>4, <2>3
  <2>5. Start(ws, j - 1) = Start(ws, i) /\ Start(ms, j - 1) = Start(ms, i)
    <3>1. j - 1 \notin D
      <4> HIDE DEF D
      <4> QED
        BY <2>2, <2>4
    <3> QED
      BY <2>4, <3>1
  <2>6. ws[j] = <<>> /\ ms[j] = <<>>
    BY <1>5, <2>4
  <2> HIDE DEF D
  <2>7. Start(ws, j - 1) \in Seq(S) /\ Start(ms, j - 1) \in Seq(S)
    BY <2>4, StartIsText
  <2>8. Start(ws, j) = Start(ws, j - 1) \o <<>> /\ Start(ms, j) = Start(ms, j - 1) \o <<>>
    BY <2>4, <2>6, StartEquation
  <2>9. Start(ws, j) = Start(ws, j - 1) /\ Start(ms, j) = Start(ms, j - 1)
    BY <2>7, <2>8, ConcatEmptySeq
  <2> QED
    BY <2>2, <2>5, <2>9 DEF D
<1>7. n - 1 \in i..(n - 1)
  BY <1>1, <1>4
<1>8. Start(ws, n - 1) = Start(ws, i) /\ Start(ms, n - 1) = Start(ms, i)
  BY <1>6, <1>7
<1>9. NextAt(ws, ms, i, n)
  BY <1>4, <1>5, <1>8 DEF NextAt
<1> QED
  BY <1>4, <1>9

-----------------------------------------------------------------------------
(* The texts of a statement's pieces.                                      *)

OpenBrace == "{"
CloseBrace == "}"
NoQuote == "none"
DoubleQuote == "\""
Comma == ","
Call == "exec sp_tables "

Letters == STRING \cup {Blank, OpenBrace, CloseBrace, DoubleQuote, Comma, Call}

\* The characters _odbc_fix_literals() looks for are different ones
LEMMA LettersDiffer ==
    /\ OpenBrace # CloseBrace /\ OpenBrace # Blank /\ NoQuote \notin Quotes
    /\ OpenBrace \notin Quotes /\ CloseBrace \notin Quotes /\ Blank \notin Quotes
    /\ Blank \notin {OpenBrace, CloseBrace} /\ DoubleQuote \in Quotes
    /\ Comma \notin Quotes \cup {OpenBrace, CloseBrace}
    /\ Call \notin Quotes \cup {OpenBrace, CloseBrace}
BY Zenon DEF OpenBrace, CloseBrace, NoQuote, Blank, Quotes, DoubleQuote, Comma, Call

PlainText(t) == Len(t) = 1 /\ t[1] \notin Quotes \cup {OpenBrace, CloseBrace}
LiteralText(t) ==
    /\ Len(t) > 1 /\ t[1] \in Quotes /\ t[Len(t)] = t[1]
    /\ \A i \in 2..(Len(t) - 1) : t[i] # t[1]
TagText(t) == Len(t) \in 1..LongestTag /\ t[1] = OpenBrace /\ (\A i \in DOMAIN t : t[i] # Blank)

(* What is written and what it means, text by text: where a text of either *)
(* is empty, nothing is written.                                           *)
PieceOK(ws, ms, i) ==
    \/ (PlainText(ws[i]) \/ LiteralText(ws[i])) /\ ms[i] = ws[i]
    \/ TagText(ws[i]) /\ ms[i] = <<>> /\ (i < Len(ws) => ws[i + 1] = <<Blank>>)
    \/ ws[i] = <<CloseBrace>> /\ ms[i] = <<>> /\ \E j \in 1..(i - 1) : TagText(ws[j])
    \/ ws[i] = <<>> /\ ms[i] = <<>>
Fine(ws, ms) ==
    /\ ws \in Seq(Seq(Letters)) /\ ms \in Seq(Seq(Letters)) /\ Len(ms) = Len(ws)
    /\ \A i \in 1..Len(ws) : PieceOK(ws, ms, i)

\* What the model says of pieces
LEMMA PieceTexts ==
    /\ \A p : /\ IsPlain(p) <=> PlainText(p.written)
              /\ IsLiteral(p) <=> LiteralText(p.written)
              /\ IsOpening(p) <=> TagText(p.written)
    /\ Plain(" ") = [written |-> <<Blank>>, means |-> <<Blank>>]
    /\ Closing = [written |-> <<CloseBrace>>, means |-> <<>>]
<1>1. \A p : IsPlain(p) <=> PlainText(p.written)
  BY Zenon DEF IsPlain, PlainText, OpenBrace, CloseBrace
<1>2. \A p : IsLiteral(p) <=> LiteralText(p.written)
  BY Zenon DEF IsLiteral, LiteralText
<1>3. \A p : IsOpening(p) <=> TagText(p.written)
  BY Zenon DEF IsOpening, TagText, OpenBrace, Blank
<1> QED
  BY <1>1, <1>2, <1>3, Zenon DEF Plain, Closing, Blank, CloseBrace

\* A function of the first numbers is a sequence
LEMMA FunctionIsText ==
    ASSUME NEW S, NEW n \in Nat, NEW f \in [1..n -> S]
    PROVE  f \in Seq(S) /\ Len(f) = n
<1>1. f \in Seq(S)
  BY SeqDef
<1>2. Len(f) \in Nat /\ DOMAIN f = 1..Len(f) /\ DOMAIN f = 1..n
  BY <1>1, TextElements
<1> QED
  BY <1>1, <1>2

\* A statement is fine
LEMMA FineStatement ==
    ASSUME NEW st \in Statements
    PROVE  \E ws, ms : Fine(ws, ms) /\ Written(st) = Joined(ws) /\ Means(st) = Joined(ms)
<1> DEFINE ws == [i \in DOMAIN st |-> st[i].written]
           ms == [i \in DOMAIN st |-> st[i].means]
           P == [written : Seq(STRING), means : Seq(STRING)]
<1>1. st \in Seq(P)
  BY StatementsAssumption
<1>2. \A i \in DOMAIN st :
          \/ (IsPlain(st[i]) \/ IsLiteral(st[i])) /\ st[i].means = st[i].written
          \/ /\ IsOpening(st[i]) /\ st[i].means = <<>>
             /\ i < Len(st) => st[i + 1] = Plain(" ")
          \/ st[i] = Closing /\ \E j \in 1..(i - 1) : IsOpening(st[j])
  BY StatementsAssumption, Zenon
<1>3. Len(st) \in Nat /\ DOMAIN st = 1..Len(st) /\ \A i \in 1..Len(st) : st[i] \in P
  BY <1>1, TextElements
<1>4. \A t \in Seq(STRING) : t \in Seq(Letters)
  <2>1. STRING \subseteq Letters
    BY DEF Letters
  <2> QED
    BY <2>1, MoreThings
<1>5. \A i \in 1..Len(st) : st[i].written \in Seq(Letters) /\ st[i].means \in Seq(Letters)
  BY <1>3, <1>4
<1>6. /\ ws \in Seq(Seq(Letters)) /\ ms \in Seq(Seq(Letters))
      /\ Len(ws) = Len(st) /\ Len(ms) = Len(st)
  <2>1. ws \in [1..Len(st) -> Seq(Letters)] /\ ms \in [1..Len(st) -> Seq(Letters)]
    BY <1>3, <1>5
  <2> HIDE DEF ws, ms
  <2> QED
    BY <1>3, <2>1, FunctionIsText
<1>7. \A i \in 1..Len(st) : ws[i] = st[i].written /\ ms[i] = st[i].means
  BY <1>3
<1> HIDE DEF ws, ms
<1>8. ASSUME NEW i \in 1..Len(st) PROVE PieceOK(ws, ms, i)
  <2>1. CASE (IsPlain(st[i]) \/ IsLiteral(st[i])) /\ st[i].means = st[i].written
    BY <1>7, <2>1, PieceTexts, Zenon DEF PieceOK
  <2>2. CASE /\ IsOpening(st[i]) /\ st[i].means = <<>>
             /\ i < Len(st) => st[i + 1] = Plain(" ")
    <3>1. TagText(ws[i]) /\ ms[i] = <<>>
      BY <1>7, <2>2, PieceTexts, Zenon
    <3>2. ASSUME i < Len(ws) PROVE ws[i + 1] = <<Blank>>
      <4>1. i + 1 \in 1..Len(st) /\ i < Len(st)
        BY <1>3, <1>6, <3>2
      <4>2. st[i + 1] = [written |-> <<Blank>>, means |-> <<Blank>>]
        BY <2>2, <4>1, PieceTexts, Zenon
      <4> QED
        BY <1>7, <4>1, <4>2
    <3> QED
      BY <3>1, <3>2, Zenon DEF PieceOK
  <2>3. CASE st[i] = Closing /\ \E j \in 1..(i - 1) : IsOpening(st[j])
    <3>1. PICK j \in 1..(i - 1) : IsOpening(st[j])
      BY <2>3
    <3>2. j \in 1..Len(st)
      BY <1>3
    <3>3. TagText(ws[j])
      BY <1>7, <3>1, <3>2, PieceTexts, Zenon
    <3>4. st[i] = [written |-> <<CloseBrace>>, means |-> <<>>]
      BY <2>3, PieceTexts, Zenon
    <3>5. ws[i] = <<CloseBrace>> /\ ms[i] = <<>>
      BY <1>7, <3>4
    <3> QED
      BY <3>3, <3>5, Zenon DEF PieceOK
  <2> QED
    BY <1>2, <1>3, <2>1, <2>2, <2>3, Zenon
<1>9. Fine(ws, ms)
  BY <1>6, <1>8 DEF Fine
<1>10. Written(st) = Joined(ws) /\ Means(st) = Joined(ms)
  BY Zenon DEF Written, Means, ws, ms
<1> QED
  BY <1>9, <1>10

\* An empty name in quotes
LEMMA EmptyName ==
    LET t == Literal(DoubleQuote, <<>>).written IN t \in Seq(Letters) /\ LiteralText(t)
<1>1. PICK q : q = DoubleQuote
  OBVIOUS
<1>2. q \in Letters /\ q \in Quotes
  BY <1>1, LettersDiffer DEF Letters
<1>3. Literal(q, <<>>).written = <<q>> \o <<>> \o <<q>>
  BY DEF Literal
<1>4. <<q>> \in Seq(Letters) /\ Len(<<q>>) = 1 /\ <<q>>[1] = q
  BY <1>2, LoneCharacter
<1>5. PICK a \in Seq(Letters) : a = <<q>> /\ Len(a) = 1 /\ a[1] = q
  BY <1>4
<1>6. a \o <<>> = a
  BY ConcatEmptySeq
<1>7. /\ a \o a \in Seq(Letters) /\ Len(a \o a) = Len(a) + Len(a)
      /\ \A i \in 1..(Len(a) + Len(a)) : (a \o a)[i] = IF i <= Len(a) THEN a[i] ELSE a[i - Len(a)]
  BY ConcatProperties
<1>8. PICK t \in Seq(Letters) : t = a \o a /\ Len(t) = 2 /\ t[1] = q /\ t[2] = q
  <2>1. 1 \in 1..(Len(a) + Len(a)) /\ 2 \in 1..(Len(a) + Len(a)) /\ 1 <= Len(a)
        /\ ~(2 <= Len(a)) /\ 2 - Len(a) = 1 /\ Len(a) + Len(a) = 2
    BY <1>5
  <2>2. (a \o a)[1] = a[1] /\ (a \o a)[2] = a[1]
    BY <1>7, <2>1
  <2>3. a \o a \in Seq(Letters) /\ Len(a \o a) = 2
    BY <1>7, <2>1
  <2> QED
    BY <1>5, <2>2, <2>3
<1>9. LiteralText(t)
  <2>1. 2..(Len(t) - 1) = {}
    BY <1>8
  <2> QED
    BY <1>2, <1>8, <2>1 DEF LiteralText
<1> QED
  BY <1>1, <1>3, <1>5, <1>6, <1>8, <1>9

\* A character outside of literals and escapes
LEMMA PlainIsText ==
    ASSUME NEW c \in Letters, c \notin Quotes \cup {OpenBrace, CloseBrace}
    PROVE  Plain(c).written \in Seq(Letters) /\ PlainText(Plain(c).written)
<1>1. Plain(c).written = <<c>>
  BY DEF Plain
<1>2. <<c>> \in Seq(Letters) /\ Len(<<c>>) = 1 /\ <<c>>[1] = c
  BY LoneCharacter
<1> QED
  BY <1>1, <1>2 DEF PlainText

\* The call that SQLTables() composes
Composed(n) ==
    IF n = 0 THEN <<Plain(Call)>>
    ELSE [k \in 1..(2 * n) |-> IF k % 2 = 1 THEN Plain(IF k = 1 THEN Call ELSE Comma)
                               ELSE Literal(DoubleQuote, <<>>)]

\* SQLTables() composes a statement of such texts, however many names
LEMMA FineCall ==
    ASSUME NEW n \in 0..4
    PROVE  \E ws : Fine(ws, ws) /\ Written(Composed(n)) = Joined(ws)
<1> DEFINE call == Composed(n)
           ws == [i \in DOMAIN call |-> call[i].written]
           Name == Literal(DoubleQuote, <<>>)
           m == IF n = 0 THEN 1 ELSE 2 * n
<1>1. m \in Nat /\ DOMAIN call = 1..m
  <2>1. CASE n = 0
    <3>1. call = <<Plain(Call)>>
      BY <2>1, Zenon DEF Composed
    <3> HIDE DEF call
    <3> QED
      BY <2>1, <3>1
  <2>2. CASE n # 0
    <3>1. call = [k \in 1..(2 * n) |-> IF k % 2 = 1 THEN Plain(IF k = 1 THEN Call ELSE Comma)
                                       ELSE Name]
      BY <2>2, Zenon DEF Composed
    <3>2. DOMAIN call = 1..(2 * n)
      <4> HIDE DEF call, Name
      <4> QED
        BY <3>1
    <3> HIDE DEF call
    <3> QED
      BY <2>2, <3>2
  <2> QED
    BY <2>1, <2>2
<1>2. \A i \in 1..m : call[i] \in {Plain(Call), Plain(Comma), Name}
  <2>1. CASE n = 0
    <3>1. call = <<Plain(Call)>>
      BY <2>1, Zenon DEF Composed
    <3> HIDE DEF call, Name
    <3> QED
      BY <2>1, <3>1
  <2>2. CASE n # 0
    <3>1. call = [k \in 1..(2 * n) |-> IF k % 2 = 1 THEN Plain(IF k = 1 THEN Call ELSE Comma)
                                       ELSE Name]
      BY <2>2, Zenon DEF Composed
    <3>2. m = 2 * n
      BY <2>2
    <3> HIDE DEF call, m, Name
    <3> QED
      BY <3>1, <3>2
  <2> QED
    BY <2>1, <2>2
<1> HIDE DEF m
<1>3. \A i \in 1..m : /\ call[i].written \in Seq(Letters)
                      /\ PlainText(call[i].written) \/ LiteralText(call[i].written)
  <2>1. Call \in Letters /\ Comma \in Letters
    BY DEF Letters
  <2> HIDE DEF call
  <2> QED
    BY <1>2, <2>1, LettersDiffer, PlainIsText, EmptyName
<1> HIDE DEF call
<1>4. \A i \in 1..m : ws[i] = call[i].written
  BY <1>1
<1>5. ws \in Seq(Seq(Letters)) /\ Len(ws) = m
  <2>1. ws \in [1..m -> Seq(Letters)]
    BY <1>1, <1>3
  <2> HIDE DEF ws
  <2> QED
    BY <1>1, <2>1, FunctionIsText
<1>6. Written(Composed(n)) = Joined(ws)
  BY Zenon DEF Written, call
<1> HIDE DEF ws
<1>7. Fine(ws, ws)
  BY <1>3, <1>4, <1>5 DEF Fine, PieceOK
<1> QED
  BY <1>6, <1>7

\* What was rewritten once stays as it is
LEMMA FineAgain ==
    ASSUME NEW ws, NEW ms, Fine(ws, ms)
    PROVE  Fine(ms, ms)
<1>1. ms \in Seq(Seq(Letters)) /\ Len(ms) = Len(ws) /\ \A i \in 1..Len(ws) : PieceOK(ws, ms, i)
  BY DEF Fine
<1>2. ASSUME NEW i \in 1..Len(ms) PROVE PieceOK(ms, ms, i)
  <2>1. PieceOK(ws, ms, i)
    BY <1>1
  <2>2. \/ (PlainText(ws[i]) \/ LiteralText(ws[i])) /\ ms[i] = ws[i]
        \/ ms[i] = <<>>
    BY <2>1, Zenon DEF PieceOK
  <2> QED
    BY <2>2, Zenon DEF PieceOK
<1> QED
  BY <1>1, <1>2, Zenon DEF Fine

\* The next piece that is written, or the end
LEMMA NextPiece ==
    ASSUME NEW ws, NEW ms, Fine(ws, ms), NEW i \in 0..Len(ws)
    PROVE  \E n \in (i + 1)..(Len(ws) + 1) :
              /\ n <= Len(ws) => ws[n] # <<>>
              /\ \A j \in 1..(n - 1) : TagText(ws[j]) => j \in 1..i
              /\ Start(ws, n - 1) = Start(ws, i) /\ Start(ms, n - 1) = Start(ms, i)
<1>1. ws \in Seq(Seq(Letters)) /\ ms \in Seq(Seq(Letters)) /\ Len(ms) = Len(ws)
      /\ \A j \in 1..Len(ws) : PieceOK(ws, ms, j)
  BY DEF Fine
<1>2. Len(<<>>) = 0
  BY EmptySeq
<1>3. \A t : PlainText(t) \/ LiteralText(t) \/ TagText(t) => t # <<>>
  BY <1>2 DEF PlainText, LiteralText, TagText
<1>4. \A j \in 1..Len(ws) : ws[j] = <<>> => ms[j] = <<>>
  BY <1>1, <1>3, Zenon DEF PieceOK
<1>5. PICK n \in (i + 1)..(Len(ws) + 1) : NextAt(ws, ms, i, n)
  BY <1>1, <1>4, NextText
<1>6. /\ n <= Len(ws) => ws[n] # <<>>
      /\ \A j \in (i + 1)..(n - 1) : ws[j] = <<>>
      /\ Start(ws, n - 1) = Start(ws, i) /\ Start(ms, n - 1) = Start(ms, i)
  BY <1>5, Zenon DEF NextAt
<1>7. ASSUME NEW j \in 1..(n - 1), TagText(ws[j]) PROVE j \in 1..i
  <2>1. Len(ws) \in Nat
    BY <1>1, TextElements
  <2>2. ws[j] # <<>>
    BY <1>3, <1>7
  <2>3. j \notin (i + 1)..(n - 1)
    BY <1>6, <2>2
  <2> QED
    BY <1>5, <2>1, <2>3
<1> QED
  BY <1>5, <1>6, <1>7

-----------------------------------------------------------------------------
(* The length of a tag.                                                    *)

\* Where a blank is, from position k on
BlanksFrom(k) == {j \in k..Len(query) : query[j] = Blank}

\* TagLength() looks for the first of them
LEMMA TagLengthIs ==
    ASSUME NEW k
    PROVE  /\ BlanksFrom(k) = {} => TagLength(k) = Len(query) - k + 1
           /\ \A j \in BlanksFrom(k) : (\A i \in BlanksFrom(k) : j <= i) =>
                 \E b \in BlanksFrom(k) : (\A i \in BlanksFrom(k) : b <= i) /\ TagLength(k) = b - k
<1> DEFINE Nearest == CHOOSE j \in BlanksFrom(k) : \A i \in BlanksFrom(k) : j <= i
<1>1. TagLength(k) = IF BlanksFrom(k) = {} THEN Len(query) - k + 1 ELSE Nearest - k
  BY Zenon DEF TagLength, BlanksFrom, Blank
<1>2. ASSUME NEW j \in BlanksFrom(k), \A i \in BlanksFrom(k) : j <= i
      PROVE  Nearest \in BlanksFrom(k) /\ \A i \in BlanksFrom(k) : Nearest <= i
  BY <1>2
<1> HIDE DEF Nearest
<1> QED
  BY <1>1, <1>2

\* A tag up to a blank, or to the end
LEMMA TagEnds ==
    ASSUME query \in Seq(Letters), NEW k \in 1..Len(query), NEW n \in Nat,
           k + n <= Len(query) + 1, \A j \in k..(k + n - 1) : query[j] # Blank,
           k + n <= Len(query) => query[k + n] = Blank
    PROVE  TagLength(k) = n
<1>1. Len(query) \in Nat /\ k \in Nat
  BY TextElements
<1>2. \A j \in BlanksFrom(k) : j \in Nat /\ k + n <= j /\ j <= Len(query)
  BY <1>1 DEF BlanksFrom
<1>3. CASE k + n = Len(query) + 1
  <2>1. BlanksFrom(k) = {}
    BY <1>1, <1>2, <1>3
  <2>2. TagLength(k) = Len(query) - k + 1
    BY <2>1, TagLengthIs
  <2> QED
    BY <1>1, <1>3, <2>2
<1>4. CASE k + n <= Len(query)
  <2>1. k + n \in BlanksFrom(k)
    BY <1>1, <1>4 DEF BlanksFrom
  <2>2. PICK b \in BlanksFrom(k) : (\A i \in BlanksFrom(k) : b <= i) /\ TagLength(k) = b - k
    BY <1>2, <2>1, TagLengthIs
  <2>3. b <= k + n /\ k + n <= b /\ b \in Nat
    BY <1>2, <2>1, <2>2
  <2> QED
    BY <1>1, <2>2, <2>3
<1> QED
  BY <1>1, <1>3, <1>4

\* It ends within the query
LEMMA TagFits ==
    ASSUME query \in Seq(Letters), NEW k \in 1..Len(query), query[k] # Blank
    PROVE  TagLength(k) \in 1..(Len(query) + 1 - k)
<1>1. Len(query) \in Nat /\ k \in Nat /\ k <= Len(query)
  BY TextElements
<1>2. BlanksFrom(k) \in SUBSET Nat
  BY <1>1 DEF BlanksFrom
<1>3. CASE BlanksFrom(k) = {}
  BY <1>1, <1>3, TagLengthIs
<1>4. CASE BlanksFrom(k) # {}
  <2>1. PICK m \in BlanksFrom(k) : \A i \in BlanksFrom(k) : m <= i
    BY <1>2, <1>4, LeastNumber
  <2>2. PICK b \in BlanksFrom(k) : TagLength(k) = b - k
    BY <2>1, TagLengthIs
  <2>3. b \in k..Len(query) /\ b # k
    BY <2>2 DEF BlanksFrom
  <2> QED
    BY <1>1, <2>2, <2>3
<1> QED
  BY <1>3, <1>4

-----------------------------------------------------------------------------
(* The rounds of the loop.                                                 *)

\* What is after a character
LEMMA QuotedNext ==
    \A q, c : QuotedAfter(q, c) = IF q = NoQuote /\ c \in Quotes THEN c
                                  ELSE IF q # NoQuote /\ c = q THEN NoQuote ELSE q
BY Zenon DEF QuotedAfter, NoQuote

Ends(q, c) == q = NoQuote /\ find_end /\ c = CloseBrace
Begins(q, c) == q = NoQuote /\ c = OpenBrace /\ TagLength(s) <= LongestTag

\* What a round does with the character c, where it leaves q
Round(q, c) ==
    \/ Ends(q, c) /\ s' = s + 1 /\ UNCHANGED <<tmp, find_end>>
    \/ Begins(q, c) /\ s' = s + TagLength(s) /\ find_end' = TRUE /\ UNCHANGED tmp
    \/ ~Ends(q, c) /\ ~Begins(q, c) /\ s' = s + 1 /\ tmp' = Append(tmp, c) /\ UNCHANGED find_end

\* FixCharacter in those terms
LEMMA FixDoes ==
    ASSUME FixCharacter
    PROVE  /\ fixing /\ s <= Len(query)
           /\ quoted' = QuotedAfter(quoted, query[s])
           /\ Round(quoted', query[s])
           /\ UNCHANGED <<query, fixing, sent, meant, executes>>
BY Zenon DEF FixCharacter, Round, Ends, Begins, OpenBrace, CloseBrace, NoQuote

-----------------------------------------------------------------------------
(* Where the loop is: k characters into the i-th text, which k > 0 says is *)
(* a literal, at position p with t copied.                                 *)
Copied(ws, ms, i, k) ==
    IF k = 0 THEN Start(ms, i - 1) ELSE Start(ms, i - 1) \o SubSeq(ws[i], 1, k)
ReadingAt(ws, ms, i, k, p, t, q, f) ==
    /\ p = Len(Start(ws, i - 1)) + 1 + k
    /\ k > 0 => i <= Len(ws) /\ LiteralText(ws[i])
    /\ i <= Len(ws) => k < Len(ws[i])
    /\ t = Copied(ws, ms, i, k)
    /\ q = IF k = 0 THEN NoQuote ELSE ws[i][1]
    /\ (\E j \in 1..(i - 1) : TagText(ws[j])) => f
SomewhereIn(ws, ms, p, t, q, f) ==
    \E i \in 1..(Len(ws) + 1), k \in Nat : ReadingAt(ws, ms, i, k, p, t, q, f)

\* After a text it is before another one, or at the end
LEMMA Onwards ==
    ASSUME NEW ws, NEW ms, Fine(ws, ms), NEW i \in 0..Len(ws), NEW f,
           \A j \in 1..i : TagText(ws[j]) => f
    PROVE  SomewhereIn(ws, ms, Len(Start(ws, i)) + 1, Start(ms, i), NoQuote, f)
<1>1. PICK n \in (i + 1)..(Len(ws) + 1) :
          /\ n <= Len(ws) => ws[n] # <<>>
          /\ \A j \in 1..(n - 1) : TagText(ws[j]) => j \in 1..i
          /\ Start(ws, n - 1) = Start(ws, i) /\ Start(ms, n - 1) = Start(ms, i)
  BY NextPiece
<1>2. ws \in Seq(Seq(Letters)) /\ Len(ws) \in Nat
  <2>1. ws \in Seq(Seq(Letters))
    BY DEF Fine
  <2> QED
    BY <2>1, TextElements
<1>3. n \in 1..(Len(ws) + 1)
  BY <1>2
<1>4. ASSUME n <= Len(ws) PROVE 0 < Len(ws[n])
  <2>1. n \in 1..Len(ws)
    BY <1>2, <1>3, <1>4
  <2>2. ws[n] \in Seq(Letters) /\ Len(ws[n]) \in Nat /\ ws[n] # <<>>
    BY <1>1, <1>2, <1>4, <2>1, TextElements
  <2>3. Len(ws[n]) # 0
    BY <2>2, EmptySeq
  <2> QED
    BY <2>2, <2>3
<1>5. Len(Start(ws, i)) \in Nat
  BY <1>2, StartIsText
<1>6. ReadingAt(ws, ms, n, 0, Len(Start(ws, i)) + 1, Start(ms, i), NoQuote, f)
  <2>1. Len(Start(ws, n - 1)) + 1 + 0 = Len(Start(ws, i)) + 1
    BY <1>1, <1>5
  <2>2. (\E j \in 1..(n - 1) : TagText(ws[j])) => f
    BY <1>1
  <2> QED
    BY <1>1, <1>4, <2>1, <2>2 DEF ReadingAt, Copied
<1> QED
  BY <1>3, <1>6 DEF SomewhereIn

\* The character it reads is one of the text's
LEMMA CharacterHere ==
    ASSUME NEW ws, NEW ms, Fine(ws, ms), query = Joined(ws), s <= Len(query),
           NEW i \in 1..(Len(ws) + 1), NEW k \in Nat,
           ReadingAt(ws, ms, i, k, s, tmp, quoted, find_end)
    PROVE  /\ i \in 1..Len(ws) /\ k + 1 \in 1..Len(ws[i]) /\ query[s] = ws[i][k + 1]
           /\ ws \in Seq(Seq(Letters)) /\ ms \in Seq(Seq(Letters)) /\ Len(ms) = Len(ws)
           /\ PieceOK(ws, ms, i)
<1>1. /\ ws \in Seq(Seq(Letters)) /\ ms \in Seq(Seq(Letters)) /\ Len(ms) = Len(ws)
      /\ \A j \in 1..Len(ws) : PieceOK(ws, ms, j)
  BY DEF Fine
<1>2. /\ s = Len(Start(ws, i - 1)) + 1 + k
      /\ k > 0 => i <= Len(ws)
      /\ i <= Len(ws) => k < Len(ws[i])
  BY DEF ReadingAt
<1>3. Len(ws) \in Nat /\ i \in Nat /\ i - 1 \in 0..Len(ws)
  BY <1>1, TextElements
<1>4. Len(Start(ws, i - 1)) \in Nat
  BY <1>1, <1>3, StartIsText
<1>5. i <= Len(ws)
  <2> SUFFICES ASSUME ~(i <= Len(ws)) PROVE FALSE
    OBVIOUS
  <2>1. i - 1 = Len(ws) /\ k = 0
    BY <1>2, <1>3
  <2>2. query = Start(ws, i - 1)
    BY <2>1, Zenon DEF Joined
  <2>3. s = Len(query) + 1 /\ Len(query) \in Nat
    BY <1>2, <1>4, <2>1, <2>2
  <2> QED
    BY <2>3
<1>6. i \in 1..Len(ws)
  BY <1>3, <1>5
<1>7. Len(ws[i]) \in Nat
  BY <1>1, <1>6, TextElements
<1>8. k + 1 \in 1..Len(ws[i])
  BY <1>2, <1>5, <1>7
<1>9. Joined(ws)[Len(Start(ws, i - 1)) + (k + 1)] = ws[i][k + 1]
  <2>1. PICK m \in 1..Len(ws[i]) : m = k + 1
    BY <1>8
  <2>2. PlacedAt(ws, i, m)
    BY <1>1, <1>6, PlaceOf
  <2> QED
    BY <2>1, <2>2, Zenon DEF PlacedAt
<1>10. Len(Start(ws, i - 1)) + (k + 1) = s
  BY <1>2, <1>4
<1> QED
  BY <1>1, <1>6, <1>8, <1>9, <1>10

\* A text that is over, when the next one is read
LEMMA TextOver ==
    ASSUME NEW ws, NEW ms, Fine(ws, ms), NEW i \in 1..Len(ws),
           s' = Len(Start(ws, i - 1)) + Len(ws[i]) + 1,
           tmp' = Start(ms, i - 1) \o ms[i], quoted' = NoQuote,
           \A j \in 1..(i - 1) : TagText(ws[j]) => find_end', TagText(ws[i]) => find_end'
    PROVE  SomewhereIn(ws, ms, s', tmp', quoted', find_end')
<1>1. ws \in Seq(Seq(Letters)) /\ ms \in Seq(Seq(Letters)) /\ Len(ms) = Len(ws)
  BY DEF Fine
<1>2. Len(ws) \in Nat /\ i \in Nat /\ i > 0 /\ i \in 0..Len(ws)
  BY <1>1, TextElements
<1>3. Len(Start(ws, i)) = Len(Start(ws, i - 1)) + Len(ws[i])
  BY <1>1, StartSteps DEF StartStep
<1>4. Start(ms, i) = Start(ms, i - 1) \o ms[i]
  BY <1>2, StartEquation
<1>5. \A j \in 1..i : TagText(ws[j]) => find_end'
  BY <1>2
<1>6. PICK f : f = find_end'
  OBVIOUS
<1>7. SomewhereIn(ws, ms, Len(Start(ws, i)) + 1, Start(ms, i), NoQuote, f)
  BY <1>2, <1>5, <1>6, Onwards
<1>8. s' = Len(Start(ws, i)) + 1 /\ tmp' = Start(ms, i)
  BY <1>3, <1>4
<1> QED
  BY <1>6, <1>7, <1>8

\* What the places say together
InText(ws, ms, i, k) ==
    /\ i \in 1..Len(ws) /\ k \in Nat /\ k + 1 \in 1..Len(ws[i]) /\ query[s] = ws[i][k + 1]
    /\ ws \in Seq(Seq(Letters)) /\ ms \in Seq(Seq(Letters)) /\ Len(ms) = Len(ws)
    /\ Len(Start(ws, i - 1)) \in Nat /\ Start(ms, i - 1) \in Seq(Letters)
    /\ s = Len(Start(ws, i - 1)) + 1 + k
    /\ tmp = Copied(ws, ms, i, k)
    /\ quoted = IF k = 0 THEN NoQuote ELSE ws[i][1]
    /\ \A j \in 1..(i - 1) : TagText(ws[j]) => find_end

\* They say so where the loop is
LEMMA PlaceInText ==
    ASSUME NEW ws, NEW ms, Fine(ws, ms), query = Joined(ws), s <= Len(query),
           NEW i \in 1..(Len(ws) + 1), NEW k \in Nat,
           ReadingAt(ws, ms, i, k, s, tmp, quoted, find_end)
    PROVE  InText(ws, ms, i, k) /\ PieceOK(ws, ms, i) /\ (k > 0 => LiteralText(ws[i]))
<1>1. /\ i \in 1..Len(ws) /\ k + 1 \in 1..Len(ws[i]) /\ query[s] = ws[i][k + 1]
      /\ ws \in Seq(Seq(Letters)) /\ ms \in Seq(Seq(Letters)) /\ Len(ms) = Len(ws)
      /\ PieceOK(ws, ms, i)
  BY CharacterHere
<1>2. /\ s = Len(Start(ws, i - 1)) + 1 + k
      /\ tmp = Copied(ws, ms, i, k)
      /\ quoted = IF k = 0 THEN NoQuote ELSE ws[i][1]
      /\ (\E j \in 1..(i - 1) : TagText(ws[j])) => find_end
      /\ k > 0 => LiteralText(ws[i])
  BY Zenon DEF ReadingAt
<1>3. i - 1 \in 0..Len(ws) /\ i - 1 \in 0..Len(ms)
  BY <1>1, TextElements
<1>4. Len(Start(ws, i - 1)) \in Nat /\ Start(ms, i - 1) \in Seq(Letters)
  <2>1. Len(Start(ws, i - 1)) \in Nat
    BY <1>1, <1>3, StartIsText
  <2>2. Start(ms, i - 1) \in Seq(Letters)
    BY <1>1, <1>3, StartIsText
  <2> QED
    BY <2>1, <2>2
<1>5. \A j \in 1..(i - 1) : TagText(ws[j]) => find_end
  BY <1>2, Zenon
<1> QED
  BY <1>1, <1>2, <1>4, <1>5, Zenon DEF InText

\* A character outside of literals
LEMMA RoundPlain ==
    ASSUME NEW ws, NEW ms, Fine(ws, ms), NEW i, NEW k, InText(ws, ms, i, k),
           PlainText(ws[i]), ms[i] = ws[i],
           quoted' = QuotedAfter(quoted, query[s]), Round(quoted', query[s])
    PROVE  SomewhereIn(ws, ms, s', tmp', quoted', find_end')
<1> DEFINE c == query[s]
<1>1. k = 0 /\ Len(ws[i]) = 1 /\ c = ws[i][1] /\ c \notin Quotes \cup {OpenBrace, CloseBrace}
  <2>1. Len(ws[i]) = 1 /\ k \in Nat /\ k + 1 \in 1..Len(ws[i]) /\ c = ws[i][k + 1]
    BY DEF PlainText, InText
  <2>2. k = 0
    BY <2>1
  <2> QED
    BY <2>1, <2>2 DEF PlainText
<1>2. tmp = Start(ms, i - 1) /\ quoted = NoQuote /\ s = Len(Start(ws, i - 1)) + 1
  BY <1>1 DEF InText, Copied
<1> HIDE DEF c
<1>3. quoted' = NoQuote
  BY <1>1, <1>2, QuotedNext DEF c
<1>4. ~Ends(quoted', c) /\ ~Begins(quoted', c)
  BY <1>1, Zenon DEF Ends, Begins
<1>5. s' = s + 1 /\ tmp' = Append(tmp, c) /\ find_end' = find_end
  BY <1>4, Zenon DEF Round, c
<1>6. ms[i] \in Seq(Letters) /\ i \in 1..Len(ws) /\ Start(ms, i - 1) \in Seq(Letters)
      /\ Len(Start(ws, i - 1)) \in Nat
  <2>1. i \in 1..Len(ms) /\ ms \in Seq(Seq(Letters))
    BY DEF InText
  <2> QED
    BY <2>1, TextElements DEF InText
<1>7. tmp' = Start(ms, i - 1) \o ms[i]
  <2>1. PICK a \in Seq(Letters) : a = ms[i]
    BY <1>6
  <2>2. Len(a) = 1 /\ a[1] = c
    BY <1>1, <2>1
  <2>3. a = <<c>>
    BY <2>2
  <2>4. PICK b \in Seq(Letters) : b = Start(ms, i - 1)
    BY <1>6
  <2>5. Append(b, c) = b \o <<c>>
    BY <2>4
  <2> QED
    BY <1>2, <1>5, <2>1, <2>3, <2>4, <2>5
<1>8. s' = Len(Start(ws, i - 1)) + Len(ws[i]) + 1
  BY <1>1, <1>2, <1>5, <1>6
<1>9. ~TagText(ws[i])
  BY <1>1 DEF TagText
<1> QED
  BY <1>3, <1>5, <1>6, <1>7, <1>8, <1>9, TextOver DEF InText

\* Where a tag begins
LEMMA RoundTag ==
    ASSUME NEW ws, NEW ms, Fine(ws, ms), query = Joined(ws),
           NEW i, NEW k, k = 0, InText(ws, ms, i, k),
           TagText(ws[i]), ms[i] = <<>>, i < Len(ws) => ws[i + 1] = <<Blank>>,
           quoted' = QuotedAfter(quoted, query[s]), Round(quoted', query[s])
    PROVE  SomewhereIn(ws, ms, s', tmp', quoted', find_end')
<1> DEFINE c == query[s]
<1>0. PICK n \in Nat, L \in Nat : n = Len(ws[i]) /\ L = Len(Start(ws, i - 1))
  <2>1. ws[i] \in Seq(Letters) /\ Len(Start(ws, i - 1)) \in Nat
    BY TextElements DEF InText
  <2> QED
    BY <2>1, TextElements
<1>1. /\ n \in 1..LongestTag /\ c = OpenBrace
      /\ \A j \in DOMAIN ws[i] : ws[i][j] # Blank
  BY <1>0 DEF TagText, InText
<1>2. tmp = Start(ms, i - 1) /\ quoted = NoQuote /\ s = L + 1
  BY <1>0 DEF InText, Copied
<1>3. /\ i \in 1..Len(ws) /\ ws \in Seq(Seq(Letters)) /\ ms \in Seq(Seq(Letters)) /\ Len(ms) = Len(ws)
      /\ Start(ms, i - 1) \in Seq(Letters)
  BY DEF InText
<1>4. Len(ws) \in Nat /\ i \in Nat /\ ws[i] \in Seq(Letters) /\ DOMAIN ws[i] = 1..n
  BY <1>0, <1>3, TextElements
<1> HIDE DEF c
<1>5. quoted' = NoQuote
  BY <1>1, <1>2, QuotedNext, LettersDiffer DEF c
<1>6. query \in Seq(Letters) /\ Len(query) \in Nat
  <2>1. Len(ws) \in 0..Len(ws)
    BY <1>4
  <2>2. Start(ws, Len(ws)) \in Seq(Letters) /\ Len(Start(ws, Len(ws))) \in Nat
    BY <1>3, <2>1, StartIsText
  <2> QED
    BY <2>2, Zenon DEF Joined
<1>7. Len(Start(ws, i)) = L + n /\ L + n <= Len(query)
  <2>1. StartStep(ws, i) /\ Len(Start(ws, i)) \in Nat
    BY <1>3, StartSteps
  <2>2. i \in 0..Len(ws) /\ Len(ws) \in i..Len(ws)
    BY <1>4, <1>3
  <2>3. Len(Start(ws, i)) <= Len(Start(ws, Len(ws)))
    BY <1>3, <2>2, StartStays
  <2> QED
    BY <1>0, <2>1, <2>3, Zenon DEF StartStep, Joined
<1>8. TagLength(s) = n
  <2>1. s \in 1..Len(query) /\ s + n <= Len(query) + 1
    BY <1>1, <1>2, <1>6, <1>7
  <2>2. ASSUME NEW j \in s..(s + n - 1) PROVE query[j] # Blank
    <3>1. PICK m \in 1..n : j = L + m
      <4>1. j - L \in 1..n /\ j = L + (j - L)
        BY <1>2, <2>2
      <4> QED
        BY <4>1, Zenon
    <3>2. PlacedAt(ws, i, m)
      BY <1>0, <1>3, PlaceOf
    <3>3. query[j] = ws[i][m]
      BY <1>0, <3>1, <3>2, Zenon DEF PlacedAt
    <3> QED
      BY <1>1, <1>4, <3>3, Zenon
  <2>3. ASSUME s + n <= Len(query) PROVE query[s + n] = Blank
    <3>1. i # Len(ws)
      <4> SUFFICES ASSUME i = Len(ws) PROVE FALSE
        OBVIOUS
      <4>1. Len(query) = Len(Start(ws, i))
        BY Zenon DEF Joined
      <4> QED
        BY <1>2, <1>7, <2>3, <4>1
    <3>2. PICK m \in 1..Len(ws) : m = i + 1
      BY <1>3, <1>4, <3>1
    <3>3. ws[m] = <<Blank>>
      BY <1>3, <1>4, <3>1, <3>2
    <3>4. Len(ws[m]) = 1 /\ ws[m][1] = Blank
      BY <3>3
    <3>5. PICK one \in 1..Len(ws[m]) : one = 1
      BY <3>4
    <3>6. PlacedAt(ws, m, one)
      BY <1>3, PlaceOf
    <3>7. m - 1 = i
      BY <1>4, <3>2
    <3>8. query[Len(Start(ws, i)) + 1] = Blank
      BY <3>4, <3>5, <3>6, <3>7, Zenon DEF PlacedAt
    <3>9. Len(Start(ws, i)) + 1 = s + n
      BY <1>2, <1>7
    <3> QED
      BY <3>8, <3>9
  <2> QED
    BY <1>6, <2>1, <2>2, <2>3, TagEnds
<1>9. ~Ends(quoted', c) /\ Begins(quoted', c)
  <2>1. TagLength(s) <= LongestTag
    BY <1>1, <1>8
  <2> QED
    BY <1>1, <1>5, <2>1, LettersDiffer, Zenon DEF Ends, Begins
<1>10. s' = s + n /\ tmp' = tmp /\ find_end' = TRUE
  BY <1>8, <1>9, Zenon DEF Round, c
<1>11. tmp' = Start(ms, i - 1) \o ms[i]
  BY <1>2, <1>3, <1>10, ConcatEmptySeq
<1>12. s' = Len(Start(ws, i - 1)) + Len(ws[i]) + 1
  <2>1. s' = s + n /\ s = L + 1
    BY <1>2, <1>10
  <2>2. s' = L + n + 1
    BY <2>1
  <2> QED
    BY <1>0, <2>2, Zenon
<1> QED
  BY <1>3, <1>5, <1>10, <1>11, <1>12, TextOver

\* Where an escape ends
LEMMA RoundClosing ==
    ASSUME NEW ws, NEW ms, Fine(ws, ms),
           NEW i, NEW k, k = 0, InText(ws, ms, i, k),
           ws[i] = <<CloseBrace>>, ms[i] = <<>>, \E j \in 1..(i - 1) : TagText(ws[j]),
           quoted' = QuotedAfter(quoted, query[s]), Round(quoted', query[s])
    PROVE  SomewhereIn(ws, ms, s', tmp', quoted', find_end')
<1> DEFINE c == query[s]
<1>1. Len(ws[i]) = 1 /\ ws[i][1] = CloseBrace
  OBVIOUS
<1>2. /\ tmp = Start(ms, i - 1) /\ quoted = NoQuote /\ s = Len(Start(ws, i - 1)) + 1
      /\ c = CloseBrace /\ find_end
  BY <1>1 DEF InText, Copied
<1>3. i \in 1..Len(ws) /\ Len(Start(ws, i - 1)) \in Nat /\ Start(ms, i - 1) \in Seq(Letters)
  BY DEF InText
<1> HIDE DEF c
<1>4. quoted' = NoQuote
  BY <1>2, QuotedNext, LettersDiffer DEF c
<1>5. Ends(quoted', c) /\ ~Begins(quoted', c)
  BY <1>2, <1>4, LettersDiffer, Zenon DEF Ends, Begins
<1>6. s' = s + 1 /\ tmp' = tmp /\ find_end' = find_end
  BY <1>5, Zenon DEF Round, c
<1>7. tmp' = Start(ms, i - 1) \o ms[i]
  BY <1>2, <1>3, <1>6, ConcatEmptySeq
<1>8. s' = Len(Start(ws, i - 1)) + Len(ws[i]) + 1
  BY <1>1, <1>2, <1>3, <1>6
<1> QED
  BY <1>2, <1>3, <1>4, <1>6, <1>7, <1>8, TextOver

\* The first characters of a text
LEMMA FirstPart ==
    ASSUME NEW S, NEW t \in Seq(S), NEW k \in Nat, k <= Len(t)
    PROVE  /\ SubSeq(t, 1, k) \in Seq(S) /\ Len(SubSeq(t, 1, k)) = k
           /\ \A j \in 1..k : SubSeq(t, 1, k)[j] = t[j]
<1>1. Len(t) \in Nat /\ (\A j \in 1..Len(t) : t[j] \in S)
  BY TextElements
<1>2. 1 \in Int /\ k \in Int /\ \A j \in 1..k : t[j] \in S
  BY <1>1
<1>3. /\ SubSeq(t, 1, k) \in Seq(S)
      /\ Len(SubSeq(t, 1, k)) = IF 1 <= k THEN k - 1 + 1 ELSE 0
      /\ \A j \in 1..(k - 1 + 1) : SubSeq(t, 1, k)[j] = t[1 + j - 1]
  BY <1>2, SubSeqProperties
<1>4. (IF 1 <= k THEN k - 1 + 1 ELSE 0) = k /\ k - 1 + 1 = k /\ \A j \in 1..k : 1 + j - 1 = j
  OBVIOUS
<1> QED
  BY <1>3, <1>4

\* One character more of a text
LEMMA OneMore ==
    ASSUME NEW S, NEW t \in Seq(S), NEW k \in Nat, k + 1 <= Len(t)
    PROVE  Append(SubSeq(t, 1, k), t[k + 1]) = SubSeq(t, 1, k + 1)
<1>1. Len(t) \in Nat /\ (\A j \in 1..Len(t) : t[j] \in S) /\ k + 1 \in 1..Len(t)
  BY TextElements
<1>2. PICK u \in Seq(S) : u = SubSeq(t, 1, k) /\ Len(u) = k /\ \A j \in 1..k : u[j] = t[j]
  <2>1. k <= Len(t)
    BY <1>1
  <2>2. /\ SubSeq(t, 1, k) \in Seq(S) /\ Len(SubSeq(t, 1, k)) = k
        /\ \A j \in 1..k : SubSeq(t, 1, k)[j] = t[j]
    BY <2>1, FirstPart
  <2> QED
    BY <2>2
<1>3. PICK v \in Seq(S) : /\ v = SubSeq(t, 1, k + 1) /\ Len(v) = k + 1
                           /\ \A j \in 1..(k + 1) : v[j] = t[j]
  <2>1. PICK m \in Nat : m = k + 1 /\ m <= Len(t)
    OBVIOUS
  <2>2. /\ SubSeq(t, 1, m) \in Seq(S) /\ Len(SubSeq(t, 1, m)) = m
        /\ \A j \in 1..m : SubSeq(t, 1, m)[j] = t[j]
    BY <2>1, FirstPart
  <2> QED
    BY <2>1, <2>2
<1>4. PICK c \in S : c = t[k + 1]
  BY <1>1
<1>5. /\ Append(u, c) \in Seq(S) /\ Len(Append(u, c)) = k + 1
      /\ \A j \in 1..(k + 1) : Append(u, c)[j] = v[j]
  BY <1>2, <1>3, <1>4
<1>6. Append(u, c) = v
  BY <1>3, <1>5
<1> QED
  BY <1>2, <1>3, <1>4, <1>6

\* Inside of a literal, or where one begins
LEMMA CopiedOn ==
    ASSUME NEW ws, NEW ms, NEW i, NEW k, InText(ws, ms, i, k)
    PROVE  Append(tmp, query[s]) = Start(ms, i - 1) \o SubSeq(ws[i], 1, k + 1)
<1>1. /\ i \in 1..Len(ws) /\ k \in Nat /\ k + 1 \in 1..Len(ws[i]) /\ query[s] = ws[i][k + 1]
      /\ ws \in Seq(Seq(Letters)) /\ Start(ms, i - 1) \in Seq(Letters)
      /\ tmp = Copied(ws, ms, i, k)
  BY DEF InText
<1>2. PICK t \in Seq(Letters) : t = ws[i]
  BY <1>1, TextElements
<1>3. PICK b \in Seq(Letters) : b = Start(ms, i - 1)
  BY <1>1
<1>4. Len(t) \in Nat /\ (\A j \in 1..Len(t) : t[j] \in Letters) /\ k + 1 \in 1..Len(t)
  BY <1>1, <1>2, TextElements
<1>5. PICK c \in Letters : c = t[k + 1]
  BY <1>4
<1>6. PICK u \in Seq(Letters) : u = SubSeq(t, 1, k)
  <2>1. k <= Len(t)
    BY <1>1, <1>4
  <2>2. SubSeq(t, 1, k) \in Seq(Letters)
    BY <1>1, <2>1, FirstPart
  <2> QED
    BY <2>2
<1>7. Append(u, c) = SubSeq(t, 1, k + 1)
  BY <1>1, <1>4, <1>5, <1>6, OneMore
<1>8. Append(b \o u, c) = b \o Append(u, c)
  <2>1. b \o u \in Seq(Letters) /\ <<c>> \in Seq(Letters)
    BY ConcatProperties, LoneCharacter
  <2>2. Append(b \o u, c) = (b \o u) \o <<c>>
    <3>1. PICK t2 \in Seq(Letters) : t2 = b \o u
      BY <2>1
    <3>2. Append(t2, c) = t2 \o <<c>>
      BY AppendIsConcat
    <3> QED
      BY <3>1, <3>2
  <2>3. Append(u, c) = u \o <<c>>
    BY AppendIsConcat
  <2>4. (b \o u) \o <<c>> = b \o (u \o <<c>>)
    BY <2>1, ConcatAssociative
  <2> QED
    BY <2>2, <2>3, <2>4
<1>9. tmp = b \o u
  <2>1. CASE k > 0
    <3>1. k # 0
      BY <2>1
    <3> QED
      BY <1>1, <1>2, <1>3, <1>6, <3>1 DEF Copied
  <2>2. CASE k = 0
    <3>1. u = <<>>
      BY <1>6, <2>2
    <3>2. b \o <<>> = b
      BY ConcatEmptySeq
    <3> QED
      BY <1>1, <1>3, <2>2, <3>1, <3>2 DEF Copied
  <2> QED
    BY <1>1, <2>1, <2>2
<1> QED
  BY <1>1, <1>2, <1>3, <1>5, <1>7, <1>8, <1>9

\* A character of a literal
LEMMA RoundLiteral ==
    ASSUME NEW ws, NEW ms, Fine(ws, ms), NEW i, NEW k, InText(ws, ms, i, k),
           LiteralText(ws[i]), ms[i] = ws[i],
           quoted' = QuotedAfter(quoted, query[s]), Round(quoted', query[s])
    PROVE  SomewhereIn(ws, ms, s', tmp', quoted', find_end')
<1> DEFINE c == query[s]
<1>1. /\ i \in 1..Len(ws) /\ k \in Nat /\ k + 1 \in 1..Len(ws[i]) /\ c = ws[i][k + 1]
      /\ ws \in Seq(Seq(Letters)) /\ Len(Start(ws, i - 1)) \in Nat
      /\ s = Len(Start(ws, i - 1)) + 1 + k
      /\ quoted = IF k = 0 THEN NoQuote ELSE ws[i][1]
      /\ \A j \in 1..(i - 1) : TagText(ws[j]) => find_end
  BY DEF InText
<1>2. /\ Len(ws[i]) > 1 /\ ws[i][1] \in Quotes /\ ws[i][Len(ws[i])] = ws[i][1]
      /\ \A j \in 2..(Len(ws[i]) - 1) : ws[i][j] # ws[i][1]
  BY DEF LiteralText
<1>3. PICK n \in Nat, L \in Nat : n = Len(ws[i]) /\ L = Len(Start(ws, i - 1))
  BY <1>1, TextElements
<1>4. Append(tmp, c) = Start(ms, i - 1) \o SubSeq(ws[i], 1, k + 1)
  BY CopiedOn
<1>5. ~TagText(ws[i])
  BY <1>2, LettersDiffer DEF TagText
<1>6. NoQuote \notin Quotes /\ OpenBrace \notin Quotes /\ CloseBrace \notin Quotes
  BY LettersDiffer
<1>7. ASSUME ~Ends(quoted', c), ~Begins(quoted', c)
      PROVE  /\ s' = L + k + 2 /\ find_end' = find_end
             /\ tmp' = Start(ms, i - 1) \o SubSeq(ws[i], 1, k + 1)
  <2>1. s' = s + 1 /\ tmp' = Append(tmp, c) /\ find_end' = find_end
    BY <1>7, Zenon DEF Round
  <2>2. s = L + 1 + k
    BY <1>1, <1>3
  <2>3. s' = L + k + 2
    <3>1. s' = s + 1 /\ k \in Nat
      BY <1>1, <2>1, Zenon
    <3> QED
      BY <2>2, <3>1
  <2> QED
    BY <1>4, <2>1, <2>3
<1> HIDE DEF c
<1>8. CASE k + 1 = n
  <2>1. k # 0 /\ quoted = ws[i][1] /\ c = ws[i][1]
    BY <1>1, <1>2, <1>3, <1>8
  <2>2. quoted' = NoQuote
    BY <1>2, <1>6, <2>1, QuotedNext DEF c
  <2>3. ~Ends(quoted', c) /\ ~Begins(quoted', c)
    BY <1>2, <1>6, <2>1, Zenon DEF Ends, Begins
  <2>4. s' = Len(Start(ws, i - 1)) + Len(ws[i]) + 1
    <3>1. s' = L + k + 2
      BY <1>7, <2>3
    <3>2. s' = L + n + 1
      BY <1>1, <1>8, <3>1
    <3> QED
      BY <1>3, <3>2, Zenon
  <2>5. tmp' = Start(ms, i - 1) \o ms[i]
    <3>1. PICK t \in Seq(Letters) : t = ws[i]
      BY <1>1, TextElements
    <3>2. SubSeq(t, 1, Len(t)) = t
      BY <3>1
    <3>3. k + 1 = Len(t)
      BY <1>3, <1>8, <3>1
    <3> QED
      BY <1>7, <2>3, <3>1, <3>2, <3>3
  <2>6. find_end' = find_end
    BY <1>7, <2>3
  <2> QED
    BY <1>1, <1>5, <2>2, <2>4, <2>5, <2>6, TextOver
<1>9. CASE k + 1 # n
  <2>1. k + 1 < n
    BY <1>1, <1>3, <1>9
  <2>2. quoted' = ws[i][1]
    <3>1. CASE k = 0
      BY <1>1, <1>2, <1>6, <3>1, QuotedNext DEF c
    <3>2. CASE k # 0
      <4>1. k + 1 \in 2..(Len(ws[i]) - 1)
        BY <1>1, <1>3, <2>1, <3>2
      <4>2. c # ws[i][1] /\ quoted = ws[i][1]
        BY <1>1, <1>2, <3>2, <4>1
      <4> QED
        BY <1>2, <1>6, <4>2, QuotedNext DEF c
    <3> QED
      BY <3>1, <3>2
  <2>3. ~Ends(quoted', c) /\ ~Begins(quoted', c)
    BY <1>2, <1>6, <2>2, Zenon DEF Ends, Begins
  <2>4. PICK m \in Nat : m = k + 1 /\ m # 0 /\ m > 0
    BY <1>1
  <2>5. s' = L + k + 2 /\ find_end' = find_end /\ tmp' = Start(ms, i - 1) \o SubSeq(ws[i], 1, m)
    BY <1>7, <2>3, <2>4
  <2>6. s' = Len(Start(ws, i - 1)) + 1 + m
    <3>1. s' = L + 1 + m
      BY <1>1, <2>4, <2>5
    <3> QED
      BY <1>3, <3>1, Zenon
  <2>7. i <= Len(ws) /\ m < Len(ws[i])
    BY <1>1, <1>3, <2>1, <2>4, TextElements
  <2>8. ReadingAt(ws, ms, i, m, s', tmp', quoted', find_end')
    BY <1>1, <2>2, <2>4, <2>5, <2>6, <2>7, Zenon DEF ReadingAt, Copied
  <2>9. i \in 1..(Len(ws) + 1)
    BY <1>1, TextElements
  <2> QED
    BY <2>4, <2>8, <2>9 DEF SomewhereIn
<1> QED
  BY <1>8, <1>9

\* A round, wherever the loop is
LEMMA RoundOver ==
    ASSUME NEW ws, NEW ms, Fine(ws, ms), query = Joined(ws),
           SomewhereIn(ws, ms, s, tmp, quoted, find_end), FixCharacter
    PROVE  SomewhereIn(ws, ms, s', tmp', quoted', find_end')
<1>1. PICK i \in 1..(Len(ws) + 1) : \E k \in Nat : ReadingAt(ws, ms, i, k, s, tmp, quoted, find_end)
  BY Zenon DEF SomewhereIn
<1>2. PICK k \in Nat : ReadingAt(ws, ms, i, k, s, tmp, quoted, find_end)
  BY <1>1
<1>3. /\ s <= Len(query)
      /\ quoted' = QuotedAfter(quoted, query[s])
      /\ Round(quoted', query[s])
  BY FixDoes
<1>4. InText(ws, ms, i, k) /\ PieceOK(ws, ms, i) /\ (k > 0 => LiteralText(ws[i]))
  BY <1>2, <1>3, PlaceInText
<1>5. k + 1 \in 1..Len(ws[i])
  BY <1>4 DEF InText
<1>6. CASE LiteralText(ws[i]) /\ ms[i] = ws[i]
  BY <1>3, <1>4, <1>6, RoundLiteral
<1>7. CASE PlainText(ws[i]) /\ ms[i] = ws[i]
  BY <1>3, <1>4, <1>7, RoundPlain
<1>8. CASE TagText(ws[i]) /\ ms[i] = <<>> /\ (i < Len(ws) => ws[i + 1] = <<Blank>>)
  <2>1. ~LiteralText(ws[i])
    BY <1>8, LettersDiffer DEF TagText, LiteralText
  <2>2. k = 0
    BY <1>4, <2>1
  <2> QED
    BY <1>3, <1>4, <1>8, <2>2, RoundTag
<1>9. CASE ws[i] = <<CloseBrace>> /\ ms[i] = <<>> /\ \E j \in 1..(i - 1) : TagText(ws[j])
  <2>1. Len(ws[i]) = 1
    BY <1>9
  <2>2. k = 0
    BY <1>5, <2>1
  <2> QED
    BY <1>3, <1>4, <1>9, <2>2, RoundClosing
<1>10. CASE ws[i] = <<>>
  <2>1. Len(ws[i]) = 0
    BY <1>10
  <2> QED
    BY <1>5, <2>1
<1> QED
  BY <1>4, <1>6, <1>7, <1>8, <1>9, <1>10, Zenon DEF PieceOK

-----------------------------------------------------------------------------
(* The invariant: the query is what pieces are written as, or what they    *)
(* mean, and the loop is somewhere in them.                                *)
QueryOf(ws, ms) ==
    /\ Fine(ws, ms) /\ query = Joined(ws) /\ meant = Joined(ms)
    /\ fixing => SomewhereIn(ws, ms, s, tmp, quoted, find_end)
QueryInv ==
    /\ \E ws, ms : QueryOf(ws, ms)
    /\ ~fixing => s = 1 /\ tmp = <<>> /\ quoted = NoQuote /\ find_end = FALSE
    /\ QuerySent

\* The statement of no piece
LEMMA NoPiece == Fine(<<>>, <<>>) /\ Joined(<<>>) = <<>>
<1>1. <<>> \in Seq(Seq(Letters)) /\ Len(<<>>) = 0
  BY EmptySeq
<1>2. 1..Len(<<>>) = {}
  BY <1>1
<1>3. Fine(<<>>, <<>>)
  BY <1>1, <1>2 DEF Fine
<1>4. Start(<<>>, 0) = <<>>
  BY StartEquation
<1> QED
  BY <1>1, <1>3, <1>4 DEF Joined

\* The invariant holds at the start
LEMMA QueryInit == QInit => QueryInv
<1> SUFFICES ASSUME QInit PROVE QueryInv
  OBVIOUS
<1>1. /\ query = <<>> /\ meant = <<>> /\ ~fixing
      /\ s = 1 /\ tmp = <<>> /\ quoted = NoQuote /\ find_end = FALSE
      /\ executes = 0
  BY Zenon DEF QInit, NoQuote
<1>2. QueryOf(<<>>, <<>>)
  BY <1>1, NoPiece DEF QueryOf
<1>3. QuerySent
  BY <1>1 DEF QuerySent
<1> QED
  BY <1>1, <1>2, <1>3 DEF QueryInv

\* When the statement is over, what was copied is what it means
LEMMA CopiedAll ==
    ASSUME NEW ws, NEW ms, Fine(ws, ms), query = Joined(ws), s > Len(query),
           SomewhereIn(ws, ms, s, tmp, quoted, find_end)
    PROVE  tmp = Joined(ms)
<1>1. PICK i \in 1..(Len(ws) + 1) : \E k \in Nat : ReadingAt(ws, ms, i, k, s, tmp, quoted, find_end)
  BY Zenon DEF SomewhereIn
<1>2. PICK k \in Nat : ReadingAt(ws, ms, i, k, s, tmp, quoted, find_end)
  BY <1>1
<1>3. /\ s = Len(Start(ws, i - 1)) + 1 + k
      /\ k > 0 => i <= Len(ws)
      /\ i <= Len(ws) => k < Len(ws[i])
      /\ tmp = Copied(ws, ms, i, k)
  BY <1>2, Zenon DEF ReadingAt
<1>4. ws \in Seq(Seq(Letters)) /\ Len(ms) = Len(ws)
  BY DEF Fine
<1>5. Len(ws) \in Nat /\ i \in Nat /\ i - 1 \in 0..Len(ws)
  BY <1>4, TextElements
<1>6. ~(i <= Len(ws))
  <2> SUFFICES ASSUME i <= Len(ws) PROVE FALSE
    OBVIOUS
  <2>1. i \in 1..Len(ws)
    BY <1>5
  <2>2. Len(ws[i]) \in Nat
    BY <1>4, <2>1, TextElements
  <2>3. PICK m \in 1..Len(ws[i]) : m = k + 1
    BY <1>3, <2>2
  <2>4. PlacedAt(ws, i, m)
    BY <1>4, <2>1, PlaceOf
  <2>5. Len(Start(ws, i - 1)) + m \in 1..Len(query)
    BY <2>4, Zenon DEF PlacedAt
  <2>6. Len(Start(ws, i - 1)) \in Nat
    BY <1>4, <1>5, StartIsText
  <2>7. Len(query) \in Nat
    <3>1. Len(ws) \in 0..Len(ws)
      BY <1>5
    <3>2. Len(Start(ws, Len(ws))) \in Nat
      BY <1>4, <3>1, StartIsText
    <3> QED
      BY <3>2, Zenon DEF Joined
  <2>8. PICK L \in Nat, N \in Nat : L = Len(Start(ws, i - 1)) /\ N = Len(query)
    BY <2>6, <2>7
  <2>9. s = L + m /\ L + m <= N /\ s > N
    BY <1>3, <2>3, <2>5, <2>8
  <2> QED
    BY <2>9, <2>8, <2>3
<1>7. i - 1 = Len(ws) /\ k = 0
  BY <1>3, <1>5, <1>6
<1> QED
  BY <1>3, <1>4, <1>7 DEF Copied, Joined

-----------------------------------------------------------------------------
(* The steps.                                                              *)

\* A new statement
LEMMA PrepareStep ==
    ASSUME QueryInv, NEW st \in Statements, SQLPrepare(st)
    PROVE  QueryInv'
<1>1. /\ ~fixing /\ query' = Written(st) /\ meant' = Means(st) /\ executes' = 0
      /\ fixing' = fixing /\ s' = s /\ tmp' = tmp /\ quoted' = quoted /\ find_end' = find_end
  BY Zenon DEF SQLPrepare
<1>2. PICK ws : \E ms : Fine(ws, ms) /\ Written(st) = Joined(ws) /\ Means(st) = Joined(ms)
  BY FineStatement
<1>3. PICK ms : Fine(ws, ms) /\ Written(st) = Joined(ws) /\ Means(st) = Joined(ms)
  BY <1>2
<1>4. QueryOf(ws, ms)'
  BY <1>1, <1>3 DEF QueryOf
<1>5. QuerySent'
  BY <1>1 DEF QuerySent
<1> QED
  BY <1>1, <1>4, <1>5 DEF QueryInv

\* A catalog call
LEMMA TablesStep ==
    ASSUME QueryInv, NEW n \in 0..4, SQLTables(n)
    PROVE  QueryInv'
<1>1. /\ ~fixing /\ query' = Written(Composed(n)) /\ meant' = Written(Composed(n))
      /\ executes' = 0
      /\ fixing' = fixing /\ s' = s /\ tmp' = tmp /\ quoted' = quoted /\ find_end' = find_end
  BY Zenon DEF SQLTables, Composed, Call, Comma, DoubleQuote
<1>2. PICK ws : Fine(ws, ws) /\ Written(Composed(n)) = Joined(ws)
  BY FineCall
<1>3. QueryOf(ws, ws)'
  BY <1>1, <1>2 DEF QueryOf
<1>4. QuerySent'
  BY <1>1 DEF QuerySent
<1> QED
  BY <1>1, <1>3, <1>4 DEF QueryInv

\* The loop begins at the first piece
LEMMA ExecuteStep ==
    ASSUME QueryInv, SQLExecute
    PROVE  QueryInv'
<1>1. /\ ~fixing
      /\ query' = query /\ s' = s /\ tmp' = tmp /\ quoted' = quoted /\ find_end' = find_end
      /\ sent' = sent /\ meant' = meant /\ executes' = executes /\ fixing' = TRUE
  BY Zenon DEF SQLExecute
<1>2. PICK ws : \E ms : QueryOf(ws, ms)
  BY DEF QueryInv
<1>3. PICK ms : QueryOf(ws, ms)
  BY <1>2
<1>4. Fine(ws, ms) /\ query = Joined(ws) /\ meant = Joined(ms)
  BY <1>3 DEF QueryOf
<1>5. s = 1 /\ tmp = <<>> /\ quoted = NoQuote /\ find_end = FALSE /\ QuerySent
  BY <1>1 DEF QueryInv
<1>6. SomewhereIn(ws, ms, s, tmp, quoted, find_end)
  <2>1. Start(ws, 0) = <<>> /\ Start(ms, 0) = <<>>
    BY StartEquation
  <2>2. ws \in Seq(Seq(Letters))
    BY <1>4 DEF Fine
  <2>3. Len(ws) \in Nat
    BY <2>2, TextElements
  <2>4. PICK z \in 0..Len(ws) : z = 0
    BY <2>3
  <2>5. \A j \in 1..z : TagText(ws[j]) => FALSE
    BY <2>4
  <2>6. PICK f : f = FALSE
    OBVIOUS
  <2>7. SomewhereIn(ws, ms, Len(Start(ws, z)) + 1, Start(ms, z), NoQuote, f)
    BY <1>4, <2>5, <2>6, Onwards
  <2>8. Len(Start(ws, z)) + 1 = 1
    BY <2>1, <2>4
  <2> QED
    BY <1>5, <2>1, <2>4, <2>6, <2>7, <2>8
<1>7. QueryOf(ws, ms)'
  BY <1>1, <1>4, <1>6 DEF QueryOf
<1>8. QuerySent'
  BY <1>1, <1>5 DEF QuerySent
<1> QED
  BY <1>1, <1>7, <1>8 DEF QueryInv

\* A round
LEMMA FixStep ==
    ASSUME QueryInv, FixCharacter
    PROVE  QueryInv'
<1>1. fixing /\ UNCHANGED <<query, fixing, sent, meant, executes>>
  BY FixDoes
<1>2. PICK ws : \E ms : QueryOf(ws, ms)
  BY DEF QueryInv
<1>3. PICK ms : QueryOf(ws, ms)
  BY <1>2
<1>4. /\ Fine(ws, ms) /\ query = Joined(ws) /\ meant = Joined(ms)
      /\ SomewhereIn(ws, ms, s, tmp, quoted, find_end)
  BY <1>1, <1>3 DEF QueryOf
<1>5. SomewhereIn(ws, ms, s', tmp', quoted', find_end')
  BY <1>4, RoundOver
<1>6. QueryOf(ws, ms)'
  BY <1>1, <1>4, <1>5 DEF QueryOf
<1>7. QuerySent'
  <2>1. QuerySent
    BY DEF QueryInv
  <2> QED
    BY <1>1, <2>1 DEF QuerySent
<1> QED
  BY <1>1, <1>6, <1>7 DEF QueryInv

\* What the loop leaves is read as it is the next time
LEMMA PreparedStep ==
    ASSUME QueryInv, Prepared
    PROVE  QueryInv'
<1>1. /\ fixing /\ s > Len(query) /\ query' = tmp /\ sent' = tmp /\ meant' = meant
      /\ ~fixing' /\ s' = 1 /\ tmp' = <<>> /\ quoted' = NoQuote /\ find_end' = FALSE
  BY Zenon DEF Prepared, NoQuote
<1>2. PICK ws : \E ms : QueryOf(ws, ms)
  BY DEF QueryInv
<1>3. PICK ms : QueryOf(ws, ms)
  BY <1>2
<1>4. /\ Fine(ws, ms) /\ query = Joined(ws) /\ meant = Joined(ms)
      /\ SomewhereIn(ws, ms, s, tmp, quoted, find_end)
  BY <1>1, <1>3 DEF QueryOf
<1>5. tmp = meant
  BY <1>1, <1>4, CopiedAll
<1>6. Fine(ms, ms)
  BY <1>4, FineAgain
<1>7. QueryOf(ms, ms)'
  BY <1>1, <1>4, <1>5, <1>6 DEF QueryOf
<1>8. QuerySent'
  BY <1>1, <1>5 DEF QuerySent
<1> QED
  BY <1>1, <1>7, <1>8 DEF QueryInv

\* Every step keeps the invariant
LEMMA QueryStep == QueryInv /\ [QNext]_qvars => QueryInv'
<1> SUFFICES ASSUME QueryInv, [QNext]_qvars PROVE QueryInv'
  OBVIOUS
<1>1. CASE \E st \in Statements : SQLPrepare(st)
  BY <1>1, PrepareStep
<1>2. CASE \E n \in 0..4 : SQLTables(n)
  BY <1>2, TablesStep
<1>3. CASE SQLExecute
  BY <1>3, ExecuteStep
<1>4. CASE FixCharacter
  BY <1>4, FixStep
<1>5. CASE Prepared
  BY <1>5, PreparedStep
<1>6. CASE UNCHANGED qvars
  <2>1. /\ query' = query /\ fixing' = fixing /\ s' = s /\ tmp' = tmp /\ quoted' = quoted
        /\ find_end' = find_end /\ sent' = sent /\ meant' = meant /\ executes' = executes
    BY <1>6 DEF qvars
  <2> QED
    BY <2>1 DEF QueryInv, QueryOf, QuerySent
<1> QED
  BY <1>1, <1>2, <1>3, <1>4, <1>5, <1>6, Zenon DEF QNext

(* For every statement and however often it is executed, what              *)
(* _SQLExecute() sends is what the statement means: _odbc_fix_literals()   *)
(* unwraps the escapes, leaves every literal as it is written, and does    *)
(* nothing to a text it has rewritten before.                              *)
THEOREM SentAsMeant == QuerySpec => []QuerySent
<1>1. QInit => QueryInv
  BY QueryInit
<1>2. QueryInv /\ [QNext]_qvars => QueryInv'
  BY QueryStep
<1>3. QueryInv => QuerySent
  BY DEF QueryInv
<1> QED
  BY <1>1, <1>2, <1>3, PTL DEF QuerySpec

-----------------------------------------------------------------------------
(* The types, with the bounds of the position.                             *)

QueryTypes ==
    /\ fixing \in BOOLEAN /\ find_end \in BOOLEAN /\ quoted \in Quotes \cup {NoQuote}
    /\ s \in 1..(Len(query) + 1) /\ tmp \in Seq(Letters) /\ Len(tmp) < s
    /\ executes \in 0..MaxExecutes /\ (fixing => executes < MaxExecutes)

\* They are what QueryTypeOK says
LEMMA QueryTyped == QueryTypes => QueryTypeOK
BY Zenon DEF QueryTypes, QueryTypeOK, NoQuote

\* The query is a text
LEMMA QueryIsText ==
    ASSUME QueryInv
    PROVE  query \in Seq(Letters) /\ Len(query) \in Nat
<1>1. PICK ws : \E ms : QueryOf(ws, ms)
  BY DEF QueryInv
<1>2. ws \in Seq(Seq(Letters)) /\ query = Start(ws, Len(ws))
  BY <1>1, Zenon DEF QueryOf, Fine, Joined
<1>3. Len(ws) \in 0..Len(ws)
  <2>1. Len(ws) \in Nat
    BY <1>2, TextElements
  <2> QED
    BY <2>1
<1> QED
  BY <1>2, <1>3, StartIsText

\* The types at the start
LEMMA TypesStart == QInit => QueryTypes
<1> SUFFICES ASSUME QInit PROVE QueryTypes
  OBVIOUS
<1>1. /\ query = <<>> /\ fixing = FALSE /\ s = 1 /\ tmp = <<>>
      /\ quoted = NoQuote /\ find_end = FALSE /\ executes = 0
  BY Zenon DEF QInit, NoQuote
<1>2. <<>> \in Seq(Letters) /\ Len(<<>>) = 0
  BY EmptySeq
<1>3. s \in 1..(Len(query) + 1) /\ tmp \in Seq(Letters) /\ Len(tmp) < s
  BY <1>1, <1>2
<1>4. executes \in 0..MaxExecutes
  BY <1>1, ExecutesAssumption
<1> QED
  BY <1>1, <1>3, <1>4, Zenon DEF QueryTypes

\* A statement while nothing runs, and each that ends
LEMMA TypesAtRest ==
    ASSUME query' \in Seq(Letters), fixing' = FALSE, s' = 1, tmp' = <<>>, quoted' = NoQuote,
           find_end' = FALSE, executes' \in 0..MaxExecutes
    PROVE  QueryTypes'
<1>1. <<>> \in Seq(Letters) /\ Len(<<>>) = 0
  BY EmptySeq
<1>2. Len(query') \in Nat
  BY TextElements
<1>3. s' \in 1..(Len(query') + 1) /\ tmp' \in Seq(Letters) /\ Len(tmp') < s'
  BY <1>1, <1>2
<1> QED
  BY <1>3, Zenon DEF QueryTypes

\* The types after a round
LEMMA FixTypes ==
    ASSUME QueryInv, QueryTypes, FixCharacter
    PROVE  QueryTypes'
<1>1. /\ fixing /\ s <= Len(query) /\ quoted' = QuotedAfter(quoted, query[s])
      /\ Round(quoted', query[s])
      /\ query' = query /\ fixing' = fixing /\ executes' = executes
  BY FixDoes
<1>2. query \in Seq(Letters) /\ Len(query) \in Nat
  BY QueryIsText
<1>3. PICK c : c = query[s]
  OBVIOUS
<1>4. PICK q : q = quoted'
  OBVIOUS
<1>5. s \in 1..Len(query) /\ s \in Nat /\ c \in Letters
  <2>1. s \in 1..Len(query) /\ s \in Nat
    BY <1>1, <1>2 DEF QueryTypes
  <2> QED
    BY <1>2, <1>3, <2>1, TextElements
<1>6. quoted' \in Quotes \cup {NoQuote}
  BY <1>1, QuotedNext DEF QueryTypes
<1>7. tmp \in Seq(Letters) /\ Len(tmp) \in Nat /\ Len(tmp) < s
  BY TextElements DEF QueryTypes
<1>8. CASE Ends(q, c) /\ s' = s + 1 /\ UNCHANGED <<tmp, find_end>>
  <2>1. s' \in 1..(Len(query) + 1) /\ Len(tmp) < s'
    BY <1>2, <1>5, <1>7, <1>8
  <2>2. tmp' = tmp /\ find_end' = find_end
    BY <1>8
  <2> QED
    BY <1>1, <1>6, <1>7, <2>1, <2>2 DEF QueryTypes
<1>9. CASE Begins(q, c) /\ s' = s + TagLength(s) /\ find_end' = TRUE /\ UNCHANGED tmp
  <2>1. TagLength(s) \in 1..(Len(query) + 1 - s)
    <3>1. query[s] # Blank
      BY <1>3, <1>9, LettersDiffer DEF Begins
    <3> QED
      BY <1>2, <1>5, <3>1, TagFits
  <2>2. PICK n \in 1..(Len(query) + 1 - s) : n = TagLength(s)
    BY <2>1
  <2>3. s' = s + n
    BY <1>9, <2>2
  <2>4. s' \in 1..(Len(query) + 1) /\ Len(tmp) < s'
    BY <1>2, <1>5, <1>7, <2>3
  <2>5. tmp' = tmp /\ find_end' = TRUE
    BY <1>9
  <2> QED
    BY <1>1, <1>6, <1>7, <2>4, <2>5 DEF QueryTypes
<1>10. CASE s' = s + 1 /\ tmp' = Append(tmp, c) /\ UNCHANGED find_end
  <2>1. tmp' \in Seq(Letters) /\ Len(tmp') = Len(tmp) + 1
    BY <1>5, <1>7, <1>10, AppendProperties
  <2>2. s' \in 1..(Len(query) + 1) /\ Len(tmp') < s'
    BY <1>2, <1>5, <1>7, <1>10, <2>1
  <2>3. find_end' = find_end
    BY <1>10
  <2> QED
    BY <1>1, <1>6, <2>1, <2>2, <2>3 DEF QueryTypes
<1> QED
  BY <1>1, <1>3, <1>4, <1>8, <1>9, <1>10, Zenon DEF Round

\* Every step keeps the types
LEMMA TypesStep == ASSUME QueryInv, QueryTypes, [QNext]_qvars PROVE QueryTypes'
<1>0. QueryInv'
  BY QueryStep
<1>1. query' \in Seq(Letters)
  <2>1. PICK ws : \E ms : QueryOf(ws, ms)'
    BY <1>0 DEF QueryInv
  <2>2. ws \in Seq(Seq(Letters)) /\ query' = Start(ws, Len(ws))
    BY <2>1, Zenon DEF QueryOf, Fine, Joined
  <2>3. Len(ws) \in 0..Len(ws)
    <3>1. Len(ws) \in Nat
      BY <2>2, TextElements
    <3> QED
      BY <3>1
  <2> QED
    BY <2>2, <2>3, StartIsText
<1>2. MaxExecutes \in Nat /\ executes \in 0..MaxExecutes
  BY ExecutesAssumption DEF QueryTypes
<1>3. ASSUME ~fixing, UNCHANGED <<fixing, s, tmp, quoted, find_end>>, executes' = 0
      PROVE  QueryTypes'
  <2>1. /\ fixing' = FALSE /\ s' = 1 /\ tmp' = <<>> /\ quoted' = NoQuote /\ find_end' = FALSE
    BY <1>3 DEF QueryInv, QueryTypes
  <2>2. executes' \in 0..MaxExecutes
    BY <1>2, <1>3
  <2> QED
    BY <1>1, <2>1, <2>2, TypesAtRest
<1>4. CASE \E st \in Statements : SQLPrepare(st)
  <2>1. ~fixing /\ UNCHANGED <<fixing, s, tmp, quoted, find_end>> /\ executes' = 0
    BY <1>4, Zenon DEF SQLPrepare
  <2> QED
    BY <1>3, <2>1
<1>5. CASE \E n \in 0..4 : SQLTables(n)
  <2>1. ~fixing /\ UNCHANGED <<fixing, s, tmp, quoted, find_end>> /\ executes' = 0
    BY <1>5, Zenon DEF SQLTables
  <2> QED
    BY <1>3, <2>1
<1>6. CASE SQLExecute
  <2>1. /\ fixing' = TRUE /\ executes < MaxExecutes /\ query' = query /\ s' = s /\ tmp' = tmp
        /\ quoted' = quoted /\ find_end' = find_end /\ executes' = executes
    BY <1>6, Zenon DEF SQLExecute
  <2> QED
    BY <2>1 DEF QueryTypes
<1>7. CASE FixCharacter
  BY <1>7, FixTypes
<1>8. CASE Prepared
  <2>1. /\ fixing /\ executes' = executes + 1 /\ fixing' = FALSE /\ s' = 1 /\ tmp' = <<>>
        /\ quoted' = NoQuote /\ find_end' = FALSE
    BY <1>8, Zenon DEF Prepared, NoQuote
  <2>2. executes < MaxExecutes
    BY <2>1 DEF QueryTypes
  <2>3. executes' \in 0..MaxExecutes
    BY <1>2, <2>1, <2>2
  <2> QED
    BY <1>1, <2>1, <2>3, TypesAtRest
<1>9. CASE UNCHANGED qvars
  <2>1. /\ query' = query /\ fixing' = fixing /\ s' = s /\ tmp' = tmp /\ quoted' = quoted
        /\ find_end' = find_end /\ executes' = executes
    BY <1>9 DEF qvars
  <2> QED
    BY <2>1 DEF QueryTypes
<1> QED
  BY <1>4, <1>5, <1>6, <1>7, <1>8, <1>9, Zenon DEF QNext

(* The position of _odbc_fix_literals() stays within the query, and its    *)
(* copy, for which it allocates as much as the query takes, within that.   *)
THEOREM QueryTypesKept == QuerySpec => []QueryTypeOK
<1>1. QInit => QueryInv /\ QueryTypes
  BY QueryInit, TypesStart
<1>2. QueryInv /\ QueryTypes /\ [QNext]_qvars => (QueryInv /\ QueryTypes)'
  BY QueryStep, TypesStep
<1>3. QueryTypes => QueryTypeOK
  BY QueryTyped
<1> QED
  BY <1>1, <1>2, <1>3, PTL DEF QuerySpec

-----------------------------------------------------------------------------
(* The three algorithms together.                                          *)

PartsInv ==
    /\ \/ part = "rows" /\ ValuesInv
       \/ part \in {"query", "text"} /\ RowsIdle
    /\ QueryInv /\ QueryTypes /\ TextInv

\* Where no row is read, none is lost
LEMMA IdleTyped == RowsIdle => RowsTypeOK
<1> SUFFICES ASSUME RowsIdle PROVE RowsTypeOK
  OBVIOUS
<1>1. DOMAIN <<>> = {} /\ Len(<<>>) = 0
  BY EmptySeq
<1>2. table.rows = <<>> /\ bound = {} /\ columns = <<>> /\ phase = "execute" /\ got = NoData
      /\ row = 0 /\ coln = 0 /\ pos = 0 /\ at = 0 /\ text = <<>> /\ ind = <<>>
  BY DEF RowsIdle, NoTable
<1> QED
  BY <1>1, <1>2 DEF RowsTypeOK

\* A step of one part leaves the others alone
LEMMA PartsStep == PartsInv /\ [Next]_avars => PartsInv'
<1> SUFFICES ASSUME PartsInv, [Next]_avars PROVE PartsInv'
  OBVIOUS
<1>1. part' = part /\ [RNext]_rvars /\ [QNext]_qvars /\ [TNext]_tvars
  BY DEF Next, avars
<1>2. part # "rows" => UNCHANGED rvars
  BY DEF Next, avars
<1>3. QueryInv' /\ QueryTypes'
  BY <1>1, QueryStep, TypesStep DEF PartsInv
<1>4. TextInv'
  BY <1>1, AskedKeeps, FileKeeps, StringKeeps DEF PartsInv, TextInv
<1>5. CASE part = "rows" /\ ValuesInv
  <2>1. ValuesInv'
    BY <1>1, <1>5, ValuesStep
  <2> QED
    BY <1>1, <1>3, <1>4, <1>5, <2>1 DEF PartsInv
<1>6. CASE part \in {"query", "text"} /\ RowsIdle
  <2>1. UNCHANGED rvars
    BY <1>2, <1>6
  <2>2. RowsIdle'
    BY <1>6, <2>1 DEF RowsIdle, rvars
  <2> QED
    BY <1>1, <1>3, <1>4, <1>6, <2>2 DEF PartsInv
<1> QED
  BY <1>5, <1>6 DEF PartsInv

(* The variables of all three parts keep their types in every behaviour    *)
(* that the run checks.                                                    *)
THEOREM TypesKept == ASpec => []TypeOK
<1>1. Init => PartsInv
  BY ValuesStart, QueryInit, TypesStart, TextStart DEF Init, PartsInv
<1>2. PartsInv /\ [Next]_avars => PartsInv'
  BY PartsStep
<1>3. PartsInv => TypeOK
  <2>1. ValuesInv => RowsTypeOK
    BY RowsTyped
  <2> QED
    BY <2>1, IdleTyped, QueryTyped, TextTyped DEF PartsInv, TypeOK
<1> QED
  BY <1>1, <1>2, <1>3, PTL DEF ASpec

=============================================================================
