------------------------ MODULE ConnectText_proofs -------------------------
(***************************************************************************)
(* Proofs about ConnectText: for every odbc.ini, connect string and URL,   *)
(* what the three readers of connectparams.c and user.c leave in the table *)
(* and in the DRDA.  Smallest counterexamples of natural numbers stand for *)
(* the induction over texts.                                               *)
(***************************************************************************)
EXTENDS ConnectText, SequenceTheorems, WellFoundedInduction, TLAPS

-----------------------------------------------------------------------------
(* Numbers and sequences.                                                  *)

Smaller == {ss \in Nat \X Nat : ss[1] < ss[2]}

\* A set of natural numbers that is not empty has a least member
LEMMA LeastNumber ==
    ASSUME NEW T \in SUBSET Nat, T # {}
    PROVE  \E x \in T : \A y \in T : x <= y
<1>1. IsWellFoundedOn(Smaller, Nat)
  BY NatLessThanWellFounded DEF OpToRel, Smaller
<1>2. PICK x \in T : \A y \in T : ~(<<y, x>> \in Smaller)
  BY <1>1, WFMin
<1>3. \A y \in T : x <= y
  <2> SUFFICES ASSUME NEW y \in T, ~(x <= y) PROVE FALSE
    OBVIOUS
  <2>1. <<y, x>> \in Nat \X Nat /\ y < x
    OBVIOUS
  <2>2. <<y, x>> \in Smaller
    BY <2>1 DEF Smaller
  <2> QED
    BY <1>2, <2>2
<1> QED
  BY <1>3

\* Likewise the greatest of a bounded set
LEMMA GreatestNumber ==
    ASSUME NEW T \in SUBSET Nat, T # {}, NEW n \in Nat, \A x \in T : x <= n
    PROVE  \E x \in T : \A y \in T : y <= x
<1> DEFINE D == {n - x : x \in T}
<1>1. D \in SUBSET Nat /\ D # {}
  <2>1. \A x \in T : n - x \in Nat
    <3> SUFFICES ASSUME NEW x \in T PROVE n - x \in Nat
      OBVIOUS
    <3>1. x \in Nat /\ x <= n
      OBVIOUS
    <3> QED
      BY <3>1
  <2> QED
    BY <2>1
<1>2. PICK d \in D : \A e \in D : d <= e
  <2> HIDE DEF D
  <2> QED
    BY <1>1, LeastNumber
<1>3. PICK x \in T : d = n - x
  OBVIOUS
<1>4. \A y \in T : n - y \in D
  OBVIOUS
<1>5. \A y \in T : y <= x
  <2> SUFFICES ASSUME NEW y \in T PROVE y <= x
    OBVIOUS
  <2>1. n - x <= n - y
    BY <1>2, <1>3, <1>4
  <2> QED
    BY <2>1
<1> QED
  BY <1>5

\* A sequence, its length and its elements
LEMMA TextElements ==
    ASSUME NEW S, NEW t \in Seq(S)
    PROVE  /\ Len(t) \in Nat /\ DOMAIN t = 1..Len(t)
           /\ \A i \in 1..Len(t) : t[i] \in S
BY LenProperties, ElementOfSeq

\* The rest of a sequence
LEMMA RestOf ==
    ASSUME NEW S, NEW t \in Seq(S), NEW k \in 1..(Len(t) + 1)
    PROVE  /\ SubSeq(t, k, Len(t)) \in Seq(S)
           /\ Len(SubSeq(t, k, Len(t))) = Len(t) + 1 - k
           /\ \A i \in 1..(Len(t) + 1 - k) : SubSeq(t, k, Len(t))[i] = t[k + i - 1]
<1>1. Len(t) \in Nat
  BY TextElements
<1> QED
  BY <1>1, SubSeqProperties

\* The first k members of a sequence
LEMMA StartOf ==
    ASSUME NEW S, NEW t \in Seq(S), NEW k \in 0..Len(t)
    PROVE  /\ SubSeq(t, 1, k) \in Seq(S)
           /\ Len(SubSeq(t, 1, k)) = k
           /\ \A i \in 1..k : SubSeq(t, 1, k)[i] = t[i]
<1>1. Len(t) \in Nat
  BY TextElements
<1> QED
  BY <1>1, SubSeqProperties

\* What Head() and Tail() take from the rest of a sequence
LEMMA NextOf ==
    ASSUME NEW S, NEW t \in Seq(S), NEW k \in 0..Len(t), SubSeq(t, k + 1, Len(t)) # <<>>
    PROVE  /\ k + 1 \in 1..Len(t)
           /\ Head(SubSeq(t, k + 1, Len(t))) = t[k + 1]
           /\ Tail(SubSeq(t, k + 1, Len(t))) = SubSeq(t, k + 2, Len(t))
           /\ Len(SubSeq(t, k + 2, Len(t))) = Len(t) - (k + 1)
<1> DEFINE u == SubSeq(t, k + 1, Len(t))
           w == SubSeq(t, k + 2, Len(t))
<1>1. Len(t) \in Nat /\ k + 1 \in 1..(Len(t) + 1) /\ k + 1 \in Nat
  BY TextElements
<1>2. /\ u \in Seq(S) /\ Len(u) = Len(t) - k
      /\ \A i \in 1..(Len(t) - k) : u[i] = t[k + i]
  <2>1. Len(u) = Len(t) + 1 - (k + 1) /\ u \in Seq(S)
        /\ \A i \in 1..(Len(t) + 1 - (k + 1)) : u[i] = t[k + 1 + i - 1]
    BY <1>1, RestOf
  <2>2. PICK n \in Nat : n = Len(t)
    BY <1>1
  <2>3. n + 1 - (k + 1) = n - k /\ \A i \in 1..(n - k) : k + 1 + i - 1 = k + i
    BY <1>1, <2>2
  <2> HIDE DEF u
  <2> QED
    BY <2>1, <2>2, <2>3
<1>3. k < Len(t)
  <2> SUFFICES ASSUME k = Len(t) PROVE FALSE
    BY <1>1
  <2>1. Len(u) = 0
    BY <1>2
  <2> QED
    BY <1>2, <2>1, EmptySeq
<1>4. /\ w \in Seq(S) /\ Len(w) = Len(t) - (k + 1)
      /\ \A i \in 1..(Len(t) - (k + 1)) : w[i] = t[k + 1 + i]
  <2>0. k + 2 \in 1..(Len(t) + 1)
    BY <1>1, <1>3
  <2>1. Len(w) = Len(t) + 1 - (k + 2) /\ w \in Seq(S)
        /\ \A i \in 1..(Len(t) + 1 - (k + 2)) : w[i] = t[k + 2 + i - 1]
    BY <2>0, RestOf
  <2> HIDE DEF w
  <2> QED
    BY <1>1, <2>1
<1>5. /\ Tail(u) \in Seq(S) /\ Len(Tail(u)) = Len(u) - 1
      /\ \A i \in 1..(Len(u) - 1) : Tail(u)[i] = u[i + 1]
  BY <1>2, HeadTailProperties
<1>6. Tail(u) = w
  <2> HIDE DEF u, w
  <2>1. Len(Tail(u)) = Len(w)
    BY <1>1, <1>2, <1>4, <1>5
  <2>2. \A i \in 1..Len(w) : Tail(u)[i] = w[i]
    BY <1>1, <1>2, <1>4, <1>5
  <2> QED
    BY <1>4, <1>5, <2>1, <2>2, SeqEqual
<1>7. Head(u) = t[k + 1]
  <2> HIDE DEF u, w
  <2>1. Head(u) = u[1]
    BY <1>2, <1>3
  <2> QED
    BY <1>1, <1>2, <1>3, <2>1
<1> QED
  BY <1>1, <1>3, <1>4, <1>6, <1>7

-----------------------------------------------------------------------------
(* Parts of texts.                                                         *)

\* Where a character is first
LEMMA FirstIs ==
    ASSUME NEW S, NEW t \in Seq(S), NEW c, NEW k \in 1..Len(t),
           t[k] = c, \A j \in 1..(k - 1) : t[j] # c
    PROVE  Has(t, c) /\ First(t, c) = k
<1>1. Len(t) \in Nat /\ DOMAIN t = 1..Len(t)
  BY TextElements
<1>2. \A i \in DOMAIN t : t[i] = c /\ (\A j \in 1..(i - 1) : t[j] # c) => i = k
  BY <1>1
<1> QED
  BY <1>1, <1>2 DEF Has, First

\* A character that is in a text is somewhere first
LEMMA FirstOf ==
    ASSUME NEW S, NEW t \in Seq(S), NEW c, Has(t, c)
    PROVE  /\ First(t, c) \in 1..Len(t) /\ t[First(t, c)] = c
           /\ \A j \in 1..(First(t, c) - 1) : t[j] # c
<1> DEFINE T == {i \in 1..Len(t) : t[i] = c}
<1>1. Len(t) \in Nat /\ DOMAIN t = 1..Len(t)
  BY TextElements
<1>2. T \in SUBSET Nat /\ T # {}
  BY <1>1 DEF Has
<1>3. PICK k \in T : \A i \in T : k <= i
  <2> HIDE DEF T
  <2> QED
    BY <1>2, LeastNumber
<1>4. k \in 1..Len(t) /\ t[k] = c /\ k \in Nat
  OBVIOUS
<1>5. \A j \in 1..(k - 1) : t[j] # c
  <2> SUFFICES ASSUME NEW j \in 1..(k - 1), t[j] = c PROVE FALSE
    OBVIOUS
  <2>1. j \in T /\ j < k
    BY <1>1, <1>4
  <2> QED
    BY <1>3, <1>4, <2>1
<1>6. First(t, c) = k
  BY <1>4, <1>5, FirstIs
<1> QED
  BY <1>4, <1>5, <1>6

\* What comes before it and what after it
LEMMA Parted ==
    ASSUME NEW S, NEW t \in Seq(S), NEW c, Has(t, c)
    PROVE  /\ First(t, c) \in 1..Len(t) /\ t[First(t, c)] = c
           /\ \A j \in 1..(First(t, c) - 1) : t[j] # c
           /\ Before(t, c) = SubSeq(t, 1, First(t, c) - 1) /\ Before(t, c) \in Seq(S)
           /\ Len(Before(t, c)) = First(t, c) - 1
           /\ \A i \in 1..(First(t, c) - 1) : Before(t, c)[i] = t[i]
           /\ After(t, c) = SubSeq(t, First(t, c) + 1, Len(t)) /\ After(t, c) \in Seq(S)
           /\ Len(After(t, c)) = Len(t) - First(t, c)
           /\ \A i \in 1..(Len(t) - First(t, c)) : After(t, c)[i] = t[First(t, c) + i]
<1>1. PICK k \in 1..Len(t) : k = First(t, c) /\ t[k] = c /\ \A j \in 1..(k - 1) : t[j] # c
  BY FirstOf
<1>8. Len(t) \in Nat
  BY TextElements
<1>2. Before(t, c) = SubSeq(t, 1, k - 1) /\ After(t, c) = SubSeq(t, k + 1, Len(t))
  BY <1>1 DEF Before, After
<1>3. k - 1 \in 0..Len(t) /\ k + 1 \in 1..(Len(t) + 1) /\ k \in Nat
  BY <1>1, <1>8
<1>4. /\ SubSeq(t, 1, k - 1) \in Seq(S) /\ Len(SubSeq(t, 1, k - 1)) = k - 1
      /\ \A i \in 1..(k - 1) : SubSeq(t, 1, k - 1)[i] = t[i]
  BY <1>3, StartOf
<1>5. /\ SubSeq(t, k + 1, Len(t)) \in Seq(S)
      /\ Len(SubSeq(t, k + 1, Len(t))) = Len(t) + 1 - (k + 1)
      /\ \A i \in 1..(Len(t) + 1 - (k + 1)) : SubSeq(t, k + 1, Len(t))[i] = t[k + 1 + i - 1]
  BY <1>3, RestOf
<1>6. PICK w : w = SubSeq(t, k + 1, Len(t))
  OBVIOUS
<1>7. w \in Seq(S) /\ Len(w) = Len(t) - k /\ \A i \in 1..(Len(t) - k) : w[i] = t[k + i]
  BY <1>8, <1>3, <1>5, <1>6
<1> QED
  BY <1>1, <1>2, <1>4, <1>6, <1>7

\* Texts without the character
LEMMA WithoutIt ==
    ASSUME NEW t, NEW c, ~Has(t, c)
    PROVE  Before(t, c) = t /\ After(t, c) = <<>>
BY DEF Before, After

\* There is nothing to skip
LEMMA NothingSkipped ==
    ASSUME NEW S, NEW t \in Seq(S), NEW c, t # <<>> => t[1] # c
    PROVE  NoLeading(t, c) = t
<1>1. Len(t) \in Nat /\ (t # <<>> => Len(t) > 0) /\ (t = <<>> => Len(t) = 0)
  BY TextElements, EmptySeq
<1>2. 1 \in 1..(Len(t) + 1) /\ (1 <= Len(t) => t[1] # c) /\ \A j \in 1..(1 - 1) : t[j] = c
  BY <1>1
<1>3. \A k \in 1..(Len(t) + 1) :
         (k <= Len(t) => t[k] # c) /\ (\A j \in 1..(k - 1) : t[j] = c) => k = 1
  <2> SUFFICES ASSUME NEW k \in 1..(Len(t) + 1), \A j \in 1..(k - 1) : t[j] = c, k # 1
               PROVE  FALSE
    OBVIOUS
  <2>1. 1 \in 1..(k - 1) /\ Len(t) > 0
    BY <1>1
  <2>2. t[1] = c /\ t # <<>>
    BY <1>1, <2>1
  <2> QED
    BY <2>2
<1>4. PICK m : m = (CHOOSE k \in 1..(Len(t) + 1) :
                      (k <= Len(t) => t[k] # c) /\ \A j \in 1..(k - 1) : t[j] = c)
  OBVIOUS
<1>5. m = 1
  BY <1>2, <1>3, <1>4
<1>6. NoLeading(t, c) = SubSeq(t, 1, Len(t))
  BY <1>4, <1>5 DEF NoLeading
<1> QED
  BY <1>6, SubSeqFull

(* Trailing blanks are the same whether or not the first character may be  *)
(* taken for one, if it is none.                                           *)
LEMMA SameTrailing ==
    ASSUME NEW S, NEW t \in Seq(S), NEW c, t # <<>>, t[1] # c
    PROVE  NoTrailing(t, c, 0) = NoTrailing(t, c, 1)
<1> DEFINE T == {i \in 1..Len(t) : t[i] # c}
           Ends(k, least) == /\ k > least => t[k] # c
                             /\ \A j \in (k + 1)..Len(t) : j > least /\ t[j] = c
<1>1. Len(t) \in Nat /\ Len(t) > 0
  BY TextElements, EmptySeq
<1>2. 1 \in T /\ T \in SUBSET Nat /\ \A i \in T : i <= Len(t)
  BY <1>1
<1>3. PICK k \in T : \A i \in T : i <= k
  <2> HIDE DEF T
  <2> QED
    BY <1>1, <1>2, GreatestNumber
<1>4. k \in 1..Len(t) /\ t[k] # c
  OBVIOUS
<1>5. \A j \in (k + 1)..Len(t) : t[j] = c
  <2> SUFFICES ASSUME NEW j \in (k + 1)..Len(t), t[j] # c PROVE FALSE
    OBVIOUS
  <2>1. j \in T /\ j > k
    BY <1>1, <1>4
  <2> QED
    BY <1>3, <1>4, <2>1
<1> HIDE DEF T
<1>6. Ends(k, 0) /\ Ends(k, 1)
  BY <1>1, <1>4, <1>5
<1>7. \A i \in 0..Len(t) : Ends(i, 0) => i = k
  <2> SUFFICES ASSUME NEW i \in 0..Len(t), Ends(i, 0), i # k PROVE FALSE
    OBVIOUS
  <2>1. CASE i < k
    <3>1. k \in (i + 1)..Len(t)
      BY <1>1, <1>4, <2>1
    <3> QED
      BY <1>4, <3>1
  <2>2. CASE i > k
    <3>1. i \in (k + 1)..Len(t) /\ i > 0
      BY <1>1, <1>4, <2>2
    <3> QED
      BY <1>5, <3>1
  <2> QED
    BY <1>1, <1>4, <2>1, <2>2
<1>8. \A i \in 0..Len(t) : Ends(i, 1) => i = k
  <2> SUFFICES ASSUME NEW i \in 0..Len(t), Ends(i, 1), i # k PROVE FALSE
    OBVIOUS
  <2>1. CASE i < k
    <3>1. k \in (i + 1)..Len(t)
      BY <1>1, <1>4, <2>1
    <3> QED
      BY <1>4, <3>1
  <2>2. CASE i > k
    <3>1. i \in (k + 1)..Len(t) /\ i > 1
      BY <1>1, <1>4, <2>2
    <3> QED
      BY <1>5, <3>1
  <2> QED
    BY <1>1, <1>4, <2>1, <2>2
<1>9. k \in 0..Len(t)
  BY <1>1, <1>4
<1>10. PICK a : a = (CHOOSE i \in 0..Len(t) : Ends(i, 0))
  OBVIOUS
<1>11. PICK b : b = (CHOOSE i \in 0..Len(t) : Ends(i, 1))
  OBVIOUS
<1>12. a = k /\ b = k
  <2> HIDE DEF Ends
  <2> QED
    BY <1>6, <1>7, <1>8, <1>9, <1>10, <1>11
<1> QED
  BY <1>10, <1>11, <1>12 DEF NoTrailing

-----------------------------------------------------------------------------
(* Items and sections.                                                     *)

\* Where an item has its "="
LEMMA ItemParts ==
    ASSUME NEW S, NEW t \in Seq(S), IsItem(t)
    PROVE  /\ Has(t, "=") /\ ~Has(After(t, "="), "=")
           /\ First(t, "=") \in 1..Len(t) /\ First(t, "=") >= 2 /\ First(t, "=") < Len(t)
           /\ t[1] # "=" /\ Len(t) \in Nat
<1>1. /\ Has(t, "=") /\ ~Has(After(t, "="), "=") /\ t[1] # "=" /\ t[Len(t)] # "="
      /\ Len(t) \in Nat
  BY TextElements DEF IsItem, Once
<1>2. PICK k \in 1..Len(t) : k = First(t, "=") /\ t[k] = "="
  BY <1>1, FirstOf
<1>3. k >= 2 /\ k < Len(t)
  BY <1>1, <1>2
<1> QED
  BY <1>1, <1>2, <1>3

(* GetNextItem() takes of a line that is an item what the properties call  *)
(* its name and its value; blank is the character that is dropped.         *)
LEMMA ItemLine ==
    ASSUME NEW S, NEW l \in Seq(S), IsItem(l), NEW blank, l[1] # blank
    PROVE  /\ Token(AfterToken(l)) # <<>>
           /\ NoTrailing(Token(l), blank, 0) = NoTrailing(Before(l, "="), blank, 1)
           /\ NoLeading(Token(AfterToken(l)), blank) = NoLeading(After(l, "="), blank)
<1>1. PICK k \in 1..Len(l) : k = First(l, "=") /\ k >= 2 /\ k < Len(l)
  BY ItemParts
<1>2. Has(l, "=") /\ ~Has(After(l, "="), "=") /\ l[1] # "=" /\ Len(l) \in Nat /\ k \in Nat
  BY ItemParts
<1>3. PICK b \in Seq(S) : b = Before(l, "=") /\ Len(b) = k - 1 /\ \A i \in 1..(k - 1) : b[i] = l[i]
  BY <1>1, <1>2, Parted
<1>4. PICK a \in Seq(S) : a = After(l, "=") /\ Len(a) = Len(l) - k
  BY <1>1, <1>2, Parted
<1>5. NoLeading(l, "=") = l
  BY <1>2, NothingSkipped
<1>6. Token(l) = b /\ AfterToken(l) = a
  BY <1>3, <1>4, <1>5 DEF Token, AfterToken
<1>7. ~Has(a, "=") /\ Len(a) > 0 /\ DOMAIN a = 1..Len(a) /\ Len(a) \in Nat
  BY <1>1, <1>2, <1>4, TextElements
<1>8. a # <<>> /\ a[1] # "="
  <2>1. 1 \in DOMAIN a
    BY <1>7
  <2>2. a # <<>>
    BY <1>4, <1>7, EmptySeq
  <2> QED
    BY <1>7, <2>1, <2>2 DEF Has
<1>9. NoLeading(a, "=") = a
  BY <1>8, NothingSkipped
<1>10. Token(a) = a
  BY <1>7, <1>9, WithoutIt DEF Token
<1>11. b # <<>> /\ b[1] # blank
  <2>1. Len(b) > 0 /\ 1 \in 1..(k - 1)
    BY <1>1, <1>2, <1>3
  <2>2. b # <<>>
    BY <1>3, <2>1, EmptySeq
  <2> QED
    BY <1>3, <2>1, <2>2
<1>12. NoTrailing(b, blank, 0) = NoTrailing(b, blank, 1)
  BY <1>11, SameTrailing
<1> QED
  BY <1>3, <1>4, <1>6, <1>8, <1>10, <1>12

\* A heading without "=" gives no item, with its last character or without
LEMMA HeadingLine ==
    ASSUME NEW S, NEW l \in Seq(S), ~Has(l, "=")
    PROVE  Token(AfterToken(l)) = <<>>
<1>1. NoLeading(l, "=") = l
  <2>1. l # <<>> => l[1] # "="
    <3>1. l # <<>> => 1 \in DOMAIN l
      BY TextElements, EmptySeq
    <3> QED
      BY <3>1 DEF Has
  <2> QED
    BY <2>1, NothingSkipped
<1>2. AfterToken(l) = <<>>
  BY <1>1, WithoutIt DEF AfterToken
<1>3. <<>> \in Seq(S) /\ ~Has(<<>>, "=")
  BY EmptySeq, TextElements DEF Has
<1>4. NoLeading(<<>>, "=") = <<>>
  BY <1>3, NothingSkipped
<1> QED
  BY <1>2, <1>3, <1>4, WithoutIt DEF Token

(* The section of a file with a header: after the first of them and up to  *)
(* the next heading.                                                       *)
SectionIs(f, h, e) ==
    /\ h \in 1..Len(f) /\ IsHeader(f[h]) /\ \A i \in 1..(h - 1) : ~IsHeader(f[i])
    /\ e \in h..Len(f) /\ \A i \in (h + 1)..e : ~IsHeading(f[i])
    /\ e < Len(f) => IsHeading(f[e + 1])

\* A section that starts ends somewhere
LEMMA SectionExists ==
    ASSUME NEW S, NEW f \in Seq(S), NEW h \in 1..Len(f),
           IsHeader(f[h]), \A i \in 1..(h - 1) : ~IsHeader(f[i])
    PROVE  \E e \in h..Len(f) : SectionIs(f, h, e)
<1> DEFINE T == {e \in h..Len(f) : e < Len(f) => IsHeading(f[e + 1])}
<1>1. Len(f) \in Nat
  BY TextElements
<1>2. Len(f) \in T /\ T \in SUBSET Nat
  BY <1>1
<1>3. PICK e \in T : \A x \in T : e <= x
  <2> HIDE DEF T
  <2> QED
    BY <1>2, LeastNumber
<1>4. e \in h..Len(f) /\ (e < Len(f) => IsHeading(f[e + 1]))
  OBVIOUS
<1>5. \A i \in (h + 1)..e : ~IsHeading(f[i])
  <2> SUFFICES ASSUME NEW i \in (h + 1)..e, IsHeading(f[i]) PROVE FALSE
    OBVIOUS
  <2>1. i - 1 \in h..Len(f) /\ (i - 1) + 1 = i
    BY <1>1, <1>4
  <2>2. i - 1 \in T
    BY <2>1
  <2>3. e <= i - 1
    BY <1>3, <2>2
  <2> QED
    BY <1>1, <1>4, <2>1, <2>3
<1> QED
  BY <1>4, <1>5 DEF SectionIs

\* The lines of a section are those after its header
LEMMA SectionOf ==
    ASSUME NEW S, NEW f \in Seq(S), NEW h, NEW e, SectionIs(f, h, e)
    PROVE  /\ Section(f) \in Seq(S) /\ Len(Section(f)) = e - h
           /\ \A k \in 1..(e - h) : Section(f)[k] = f[h + k]
<1> DEFINE from == CHOOSE x \in DOMAIN f :
                       IsHeader(f[x]) /\ \A i \in 1..(x - 1) : ~IsHeader(f[i])
           Ends(x) == /\ \A i \in (h + 1)..x : ~IsHeading(f[i])
                      /\ x < Len(f) => IsHeading(f[x + 1])
<1>1. Len(f) \in Nat /\ DOMAIN f = 1..Len(f)
  BY TextElements
<1>2. /\ h \in 1..Len(f) /\ IsHeader(f[h]) /\ \A i \in 1..(h - 1) : ~IsHeader(f[i])
      /\ e \in h..Len(f) /\ Ends(e)
  BY DEF SectionIs
<1>3. from = h
  <2>1. \A x \in DOMAIN f : IsHeader(f[x]) /\ (\A i \in 1..(x - 1) : ~IsHeader(f[i])) => x = h
    <3> SUFFICES ASSUME NEW x \in DOMAIN f, IsHeader(f[x]), \A i \in 1..(x - 1) : ~IsHeader(f[i]),
                        x # h
                 PROVE  FALSE
      OBVIOUS
    <3>1. CASE x < h
      BY <1>1, <1>2, <3>1
    <3>2. CASE x > h
      <4>1. h \in 1..(x - 1)
        BY <1>1, <1>2, <3>2
      <4> QED
        BY <1>2, <4>1
    <3> QED
      BY <1>1, <1>2, <3>1, <3>2
  <2> QED
    BY <1>1, <1>2, <2>1
<1>4. \A x \in h..Len(f) : Ends(x) => x = e
  <2> SUFFICES ASSUME NEW x \in h..Len(f), Ends(x), x # e PROVE FALSE
    OBVIOUS
  <2>1. CASE x < e
    <3>1. x + 1 \in (h + 1)..e /\ x < Len(f)
      BY <1>1, <1>2, <2>1
    <3> QED
      BY <1>2, <3>1
  <2>2. CASE x > e
    <3>1. e + 1 \in (h + 1)..x /\ e < Len(f)
      BY <1>1, <1>2, <2>2
    <3> QED
      BY <1>2, <3>1
  <2> QED
    BY <1>1, <1>2, <2>1, <2>2
<1>5. PICK to : to = (CHOOSE x \in h..Len(f) : Ends(x))
  OBVIOUS
<1>6. to = e
  <2> HIDE DEF Ends
  <2> QED
    BY <1>2, <1>4, <1>5
<1>7. Section(f) = SubSeq(f, h + 1, e)
  <2>1. \E x \in DOMAIN f : IsHeader(f[x])
    BY <1>1, <1>2
  <2> QED
    BY <1>3, <1>5, <1>6, <2>1 DEF Section
<1>8. /\ SubSeq(f, h + 1, e) \in Seq(S)
      /\ Len(SubSeq(f, h + 1, e)) = IF h + 1 <= e THEN e - (h + 1) + 1 ELSE 0
      /\ \A i \in 1..(e - (h + 1) + 1) : SubSeq(f, h + 1, e)[i] = f[h + 1 + i - 1]
  <2>1. h + 1 \in Int /\ e \in Int /\ \A i \in (h + 1)..e : f[i] \in S
    BY <1>1, <1>2, TextElements
  <2> QED
    BY <2>1, SubSeqProperties
<1>9. PICK w : w = SubSeq(f, h + 1, e)
  OBVIOUS
<1>10. w \in Seq(S) /\ Len(w) = e - h /\ \A k \in 1..(e - h) : w[k] = f[h + k]
  BY <1>1, <1>2, <1>8, <1>9
<1> QED
  BY <1>7, <1>9, <1>10

-----------------------------------------------------------------------------
(* A table that holds what items give.                                     *)

\* The first m items: the value of a name is that of the last to give it
Holds(tab, items, m) ==
    /\ DOMAIN tab = {NameOf(items[i]) : i \in 1..m}
    /\ \A i \in 1..m :
          (\A j \in (i + 1)..m : NameOf(items[j]) # NameOf(items[i])) =>
              tab[NameOf(items[i])] = ValueOf(items[i])

\* One more item
LEMMA InsertNext ==
    ASSUME NEW tab, NEW items, NEW m \in Nat, Holds(tab, items, m),
           NEW new, new = Insert(tab, NameOf(items[m + 1]), ValueOf(items[m + 1]))
    PROVE  Holds(new, items, m + 1)
<1> DEFINE name == NameOf(items[m + 1])
           value == ValueOf(items[m + 1])
<1>1. new = [n \in DOMAIN tab \cup {name} |-> IF n = name THEN value ELSE tab[n]]
  BY DEF Insert
<1>2. 1..(m + 1) = 1..m \cup {m + 1}
  OBVIOUS
<1>3. DOMAIN new = {NameOf(items[i]) : i \in 1..(m + 1)}
  <2>1. DOMAIN new = {NameOf(items[i]) : i \in 1..m} \cup {name}
    BY <1>1 DEF Holds
  <2> QED
    BY <1>2, <2>1
<1>4. ASSUME NEW i \in 1..(m + 1),
             \A j \in (i + 1)..(m + 1) : NameOf(items[j]) # NameOf(items[i])
      PROVE  new[NameOf(items[i])] = ValueOf(items[i])
  <2>1. CASE i = m + 1
    BY <1>1, <2>1
  <2>2. CASE i # m + 1
    <3>1. i \in 1..m /\ m + 1 \in (i + 1)..(m + 1)
      BY <2>2
    <3>2. NameOf(items[i]) # name
      BY <1>4, <3>1
    <3>3. \A j \in (i + 1)..m : j \in (i + 1)..(m + 1)
      OBVIOUS
    <3>4. tab[NameOf(items[i])] = ValueOf(items[i])
      BY <1>4, <3>1, <3>3 DEF Holds
    <3>5. NameOf(items[i]) \in DOMAIN tab
      BY <3>1 DEF Holds
    <3> QED
      BY <1>1, <3>2, <3>4, <3>5
  <2> QED
    BY <2>1, <2>2
<1> QED
  BY <1>3, <1>4 DEF Holds

\* The last item to give a name
LEMMA LastGiven ==
    ASSUME NEW S, NEW items \in Seq(S), NEW n, Gives(items, n)
    PROVE  \E i \in 1..Len(items) :
              /\ NameOf(items[i]) = n /\ \A j \in (i + 1)..Len(items) : NameOf(items[j]) # n
              /\ LastValue(items, n) = ValueOf(items[i])
<1> DEFINE T == {i \in 1..Len(items) : NameOf(items[i]) = n}
           Last(i) == NameOf(items[i]) = n
                      /\ \A j \in (i + 1)..Len(items) : NameOf(items[j]) # n
<1>1. Len(items) \in Nat /\ DOMAIN items = 1..Len(items)
  BY TextElements
<1>2. T # {} /\ T \in SUBSET Nat /\ \A i \in T : i <= Len(items)
  BY <1>1 DEF Gives
<1>3. PICK k \in T : \A i \in T : i <= k
  <2> HIDE DEF T
  <2> QED
    BY <1>1, <1>2, GreatestNumber
<1>4. k \in 1..Len(items) /\ NameOf(items[k]) = n
  OBVIOUS
<1>5. \A j \in (k + 1)..Len(items) : NameOf(items[j]) # n
  <2> SUFFICES ASSUME NEW j \in (k + 1)..Len(items), NameOf(items[j]) = n PROVE FALSE
    OBVIOUS
  <2>1. j \in T /\ j > k
    BY <1>1, <1>4
  <2> QED
    BY <1>3, <1>4, <2>1
<1>6. k \in DOMAIN items /\ Last(k)
  BY <1>1, <1>4, <1>5
<1>7. PICK c : c = (CHOOSE i \in DOMAIN items : Last(i))
  OBVIOUS
<1>8. c \in DOMAIN items /\ Last(c)
  <2> HIDE DEF Last
  <2> QED
    BY <1>6, <1>7
<1>9. LastValue(items, n) = ValueOf(items[c])
  BY <1>7 DEF LastValue
<1> QED
  BY <1>1, <1>8, <1>9

\* A table that holds all items has for each name what was given last
LEMMA HeldLast ==
    ASSUME NEW S, NEW items \in Seq(S), NEW tab, Holds(tab, items, Len(items))
    PROVE  /\ DOMAIN tab = {NameOf(items[i]) : i \in DOMAIN items}
           /\ \A n \in DOMAIN tab : tab[n] = LastValue(items, n)
<1>1. DOMAIN items = 1..Len(items)
  BY TextElements
<1>2. DOMAIN tab = {NameOf(items[i]) : i \in DOMAIN items}
  BY <1>1 DEF Holds
<1>3. ASSUME NEW n \in DOMAIN tab PROVE tab[n] = LastValue(items, n)
  <2>1. Gives(items, n)
    BY <1>2 DEF Gives
  <2>2. PICK i \in 1..Len(items) :
              /\ NameOf(items[i]) = n /\ \A j \in (i + 1)..Len(items) : NameOf(items[j]) # n
              /\ LastValue(items, n) = ValueOf(items[i])
    BY <2>1, LastGiven
  <2> QED
    BY <2>2 DEF Holds
<1> QED
  BY <1>2, <1>3

-----------------------------------------------------------------------------
(* The invariant of the file: what was read of it, and what is held.       *)

ALine == [chars : Seq(STRING), newline : BOOLEAN]

WrittenOK ==
    /\ written.file \in Seq(ALine) /\ written.string \in Seq(STRING)
    /\ \A i \in DOMAIN written.file : ~written.file[i].newline => i = Len(written.file)

TextTypes ==
    /\ step \in {"idle", "find", "item", "string", "url", "option", "done"}
    /\ sep \in {";", ":"}
    /\ DOMAIN drda = DOMAIN NewDrda /\ DOMAIN drda.options \subseteq OptionNames

LinesRead == Len(written.file) - Len(file)

NoHeader(f) == \A i \in DOMAIN f : ~IsHeader(f[i])

\* How far the section was read, if every line of it is an item
Reading ==
    \/ NoHeader(written.file) /\ params = <<>> /\ file = <<>>
    \/ \E h, e \in Nat :
          /\ SectionIs(written.file, h, e) /\ LinesRead \in h..e
          /\ Holds(params, ItemsOf(written.file), LinesRead - h)

\* What the section gave before the connect string is read
SectionHeld ==
    LET items == ItemsOf(written.file) IN
    items \in Seq(Seq(STRING)) /\ Holds(params, items, Len(items))

FileInv ==
    /\ WrittenOK /\ TextTypes
    /\ Len(file) \in 0..Len(written.file)
    /\ file = SubSeq(written.file, LinesRead + 1, Len(written.file))
    /\ step = "idle" => params = <<>> /\ written = [file |-> <<>>, string |-> Nothing, url |-> Nothing]
    /\ step = "find" =>
          params = <<>> /\ \A i \in 1..LinesRead : ReadLine(written.file[i]) # Header
    /\ step = "item" /\ Clean(written.file) => Reading
    /\ Configured /\ written.string = Nothing => SectionHeld

\* The items of a section
LEMMA ItemsAre ==
    ASSUME NEW f \in Seq(ALine), NEW h, NEW e, SectionIs(f, h, e)
    PROVE  /\ ItemsOf(f) \in Seq(Seq(STRING)) /\ Len(ItemsOf(f)) = e - h
           /\ \A k \in 1..(e - h) : ItemsOf(f)[k] = f[h + k].chars
<1>1. /\ Section(f) \in Seq(ALine) /\ Len(Section(f)) = e - h
      /\ \A k \in 1..(e - h) : Section(f)[k] = f[h + k]
  BY SectionOf
<1>2. e - h \in Nat /\ DOMAIN Section(f) = 1..(e - h)
  BY <1>1, TextElements
<1>3. \A k \in 1..(e - h) : Section(f)[k].chars \in Seq(STRING)
  <2> SUFFICES ASSUME NEW k \in 1..(e - h) PROVE Section(f)[k].chars \in Seq(STRING)
    OBVIOUS
  <2>1. Section(f)[k] \in ALine
    BY <1>1, TextElements
  <2> QED
    BY <2>1 DEF ALine
<1>4. PICK n \in Nat : n = e - h
  BY <1>2
<1>5. ItemsOf(f) = [k \in 1..n |-> Section(f)[k].chars]
  BY <1>2, <1>4 DEF ItemsOf
<1>6. ItemsOf(f) \in [1..n -> Seq(STRING)]
  BY <1>3, <1>4, <1>5
<1>7. ItemsOf(f) \in Seq(Seq(STRING))
  BY <1>6, SeqDef
<1>8. DOMAIN ItemsOf(f) = 1..n /\ Len(ItemsOf(f)) \in Nat
      /\ DOMAIN ItemsOf(f) = 1..Len(ItemsOf(f))
  BY <1>5, <1>7, TextElements
<1>9. Len(ItemsOf(f)) = n
  BY <1>8
<1> QED
  BY <1>1, <1>4, <1>5, <1>7, <1>9

\* A file without the header has no items
LEMMA NoItems ==
    ASSUME NEW f, NoHeader(f)
    PROVE  ItemsOf(f) = <<>> /\ ItemsOf(f) \in Seq(Seq(STRING)) /\ Holds(<<>>, ItemsOf(f), Len(ItemsOf(f)))
<1>1. Section(f) = <<>>
  BY DEF Section, NoHeader
<1>2. <<>> \in Seq(Seq(STRING)) /\ DOMAIN <<>> = {} /\ Len(<<>>) = 0
  BY EmptySeq
<1>3. ItemsOf(f) = <<>>
  BY <1>1, <1>2 DEF ItemsOf
<1> QED
  BY <1>2, <1>3 DEF Holds

\* The invariant of the file holds before anything is asked for
LEMMA FileStart == TInit => FileInv
<1> SUFFICES ASSUME TInit PROVE FileInv
  OBVIOUS
<1>1. /\ step = "idle" /\ file = <<>> /\ params = <<>> /\ sep = ";" /\ drda = NewDrda
      /\ written = [file |-> <<>>, string |-> Nothing, url |-> Nothing]
  BY Zenon DEF TInit
<1>2. /\ <<>> \in Seq(ALine) /\ <<>> \in Seq(STRING) /\ Len(<<>>) = 0 /\ DOMAIN <<>> = {}
      /\ SubSeq(<<>>, 1, 0) = <<>>
  BY EmptySeq
<1>3. WrittenOK
  <2>1. written.file = <<>> /\ written.string = <<>>
    BY <1>1, Zenon DEF Nothing
  <2> QED
    BY <1>2, <2>1 DEF WrittenOK
<1>4. TextTypes
  <2>1. DOMAIN drda = DOMAIN NewDrda /\ DOMAIN drda.options \subseteq OptionNames
    <3>1. drda.options = <<>>
      BY <1>1, Zenon DEF NewDrda, Nothing
    <3> QED
      BY <1>1, <1>2, <3>1, Zenon
  <2> QED
    BY <1>1, <2>1, Zenon DEF TextTypes
<1>5. /\ Len(file) \in 0..Len(written.file)
      /\ file = SubSeq(written.file, LinesRead + 1, Len(written.file))
  <2>1. written.file = <<>> /\ file = <<>>
    BY <1>1, Zenon
  <2> QED
    BY <1>2, <2>1 DEF LinesRead
<1>6. step # "find" /\ step # "item" /\ ~Configured
  BY <1>1, Zenon DEF Configured
<1> QED
  BY <1>1, <1>3, <1>4, <1>5, <1>6, Zenon DEF FileInv

(* The next line of the file.                                              *)
LEMMA NextLine ==
    ASSUME FileInv, file # <<>>, NEW f2, f2 = Tail(file)
    PROVE  LET n == LinesRead + 1
               f == written.file
           IN  /\ n \in 1..Len(f) /\ LinesRead \in Nat /\ LinesRead \in 0..Len(f)
               /\ f \in Seq(ALine) /\ Len(f) \in Nat /\ DOMAIN f = 1..Len(f)
               /\ Head(file) = f[n] /\ f[n] \in ALine
               /\ f2 = SubSeq(f, n + 1, Len(f)) /\ Len(f2) = Len(f) - n
               /\ Len(f2) \in 0..Len(f)
               /\ ~f[n].newline => f2 = <<>> /\ n = Len(f)
<1> DEFINE n == LinesRead + 1
           f == written.file
<1>1. f \in Seq(ALine) /\ Len(f) \in Nat /\ DOMAIN f = 1..Len(f) /\ Len(file) \in 0..Len(f)
  BY TextElements DEF FileInv, WrittenOK
<1>2. LinesRead \in 0..Len(f) /\ LinesRead \in Nat
  BY <1>1 DEF LinesRead
<1>3. PICK k \in 0..Len(f) : k = LinesRead
  BY <1>2
<1>4. file = SubSeq(f, k + 1, Len(f))
  BY <1>3 DEF FileInv
<1>5. /\ k + 1 \in 1..Len(f)
      /\ Head(SubSeq(f, k + 1, Len(f))) = f[k + 1]
      /\ Tail(SubSeq(f, k + 1, Len(f))) = SubSeq(f, k + 2, Len(f))
      /\ Len(SubSeq(f, k + 2, Len(f))) = Len(f) - (k + 1)
  BY <1>1, <1>4, NextOf
<1>6. f[k + 1] \in ALine
  BY <1>1, <1>5, TextElements
<1>7. ~f[k + 1].newline => k + 1 = Len(f)
  BY <1>1, <1>5 DEF FileInv, WrittenOK
<1>8. k + 1 = Len(f) => SubSeq(f, k + 2, Len(f)) = <<>>
  BY <1>1, <1>3, SubSeqEmpty
<1>9. n = k + 1 /\ n + 1 = k + 2 /\ n \in 1..Len(f) /\ k \in Nat /\ k + 1 <= Len(f)
  BY <1>1, <1>3, <1>5
<1>10. f2 = SubSeq(f, n + 1, Len(f)) /\ Len(f2) = Len(f) - n /\ Len(f2) \in 0..Len(f)
  <2> HIDE DEF n, f
  <2>1. f2 = SubSeq(f, k + 2, Len(f)) /\ Len(f2) = Len(f) - (k + 1)
    BY <1>4, <1>5
  <2>2. f2 = SubSeq(f, n + 1, Len(f))
    BY <1>9, <2>1, Zenon
  <2>3. k \in Nat /\ k + 1 <= Len(f) /\ n = k + 1
    BY <1>9
  <2>4. Len(f2) = Len(f) - n
    BY <2>1, <2>3
  <2>5. Len(f) - n \in 0..Len(f)
    BY <1>1, <2>3
  <2> QED
    BY <2>2, <2>4, <2>5
<1>11. Head(file) = f[n] /\ f[n] \in ALine
  <2> HIDE DEF n, f
  <2> QED
    BY <1>4, <1>5, <1>6, <1>9
<1>12. ~f[n].newline => f2 = <<>> /\ n = Len(f)
  <2> HIDE DEF n, f
  <2> QED
    BY <1>4, <1>5, <1>7, <1>8, <1>9
<1> QED
  BY <1>1, <1>2, <1>9, <1>10, <1>11, <1>12

\* Types are kept where nothing but the table changes
LEMMA ConfigureKeeps ==
    ASSUME FileInv, NEW u \in Urls, NEW f \in FilesWith(Text(u)), NEW str \in Strings \cup {Nothing},
           Configure(u, f, str)
    PROVE  FileInv'
<1>1. /\ step = "idle" /\ step' = "find" /\ file' = f
      /\ written' = [file |-> f, string |-> str, url |-> u]
      /\ UNCHANGED <<rest, sep, params, drda>>
  BY DEF Configure
<1>2. f \in Seq(ALine) /\ \A i \in DOMAIN f : ~f[i].newline => i = Len(f)
  BY FilesAssumption DEF ALine
<1>3. str \in Seq(STRING)
  BY StringsAssumption, EmptySeq DEF Nothing
<1>4. written'.file = f /\ written'.string = str
  BY <1>1
<1>5. WrittenOK'
  BY <1>2, <1>3, <1>4 DEF WrittenOK
<1>6. TextTypes'
  BY <1>1, Zenon DEF FileInv, TextTypes
<1>7. Len(f) \in Nat /\ LinesRead' = 0
  BY <1>1, <1>2, <1>4, TextElements DEF LinesRead
<1>8. f = SubSeq(f, 1, Len(f))
  BY <1>2, SubSeqFull
<1>9. Len(file') \in 0..Len(written'.file)
      /\ file' = SubSeq(written'.file, LinesRead' + 1, Len(written'.file))
  BY <1>1, <1>4, <1>7, <1>8
<1>10. params' = <<>> /\ \A i \in 1..LinesRead' : FALSE
  BY <1>1, <1>7 DEF FileInv
<1>11. step' # "idle" /\ step' # "item" /\ ~Configured'
  BY <1>1 DEF Configured
<1> QED
  BY <1>1, <1>5, <1>6, <1>9, <1>10, <1>11 DEF FileInv

\* A line that is looked at for the header
LEMMA FindKeeps == ASSUME FileInv, FindSection PROVE FileInv'
<1> DEFINE f == written.file
           n == LinesRead + 1
<1>1. step = "find" /\ params = <<>> /\ \A i \in 1..LinesRead : ReadLine(f[i]) # Header
  BY DEF FindSection, FileInv
<1>2. UNCHANGED <<rest, sep, params, drda, written>>
  BY DEF FindSection
<1>3. WrittenOK'
  BY <1>2 DEF FileInv, WrittenOK
<1>4. CASE file = <<>>
  <2>1. step' = "done" /\ file' = file /\ LinesRead' = LinesRead
    BY <1>2, <1>4 DEF FindSection, LinesRead
  <2>2. TextTypes'
    BY <1>2, <2>1, Zenon DEF FileInv, TextTypes
  <2>3. NoHeader(f)
    <3>1. f \in Seq(ALine) /\ Len(f) \in Nat /\ DOMAIN f = 1..Len(f) /\ LinesRead = Len(f)
      BY <1>4, TextElements, EmptySeq DEF FileInv, WrittenOK, LinesRead
    <3>2. \A i \in DOMAIN f : ReadLine(f[i]) # Header
      BY <1>1, <3>1
    <3> QED
      BY <3>2 DEF NoHeader, IsHeader, ReadLine
  <2>4. SectionHeld'
    <3>1. ItemsOf(f) \in Seq(Seq(STRING)) /\ Holds(<<>>, ItemsOf(f), Len(ItemsOf(f)))
      BY <2>3, NoItems
    <3>2. params' = <<>> /\ written' = written
      BY <1>1, <1>2
    <3> QED
      BY <3>1, <3>2 DEF SectionHeld
  <2>5. /\ Len(file') \in 0..Len(written'.file)
        /\ file' = SubSeq(written'.file, LinesRead' + 1, Len(written'.file))
    BY <1>2, <2>1 DEF FileInv
  <2> QED
    BY <1>2, <1>3, <2>1, <2>2, <2>4, <2>5 DEF FileInv
<1>5. CASE file # <<>>
  <2>1. file' = Tail(file) /\ step' = IF ReadLine(Head(file)) = Header THEN "item" ELSE "find"
    BY <1>5 DEF FindSection
  <2>2. TextTypes'
    BY <1>2, <2>1, Zenon DEF FileInv, TextTypes
  <2>3. /\ n \in 1..Len(f) /\ LinesRead \in Nat /\ LinesRead \in 0..Len(f)
        /\ f \in Seq(ALine) /\ Len(f) \in Nat /\ DOMAIN f = 1..Len(f)
        /\ Head(file) = f[n] /\ f[n] \in ALine
        /\ file' = SubSeq(f, n + 1, Len(f)) /\ Len(file') = Len(f) - n
        /\ Len(file') \in 0..Len(f)
        /\ ~f[n].newline => file' = <<>> /\ n = Len(f)
    BY <1>5, <2>1, NextLine
  <2>4. LinesRead' = n
    <3>1. LinesRead' = Len(f) - Len(file')
      BY <1>2 DEF LinesRead
    <3>2. n \in Nat /\ Len(f) \in Nat /\ Len(file') = Len(f) - n
      BY <2>3
    <3> HIDE DEF n, f
    <3> QED
      BY <3>1, <3>2
  <2>5. /\ Len(file') \in 0..Len(written'.file)
        /\ file' = SubSeq(written'.file, LinesRead' + 1, Len(written'.file))
    <3> HIDE DEF n
    <3> QED
      BY <1>2, <2>3, <2>4
  <2>6. 1..n = 1..LinesRead \cup {n}
    BY <2>3
  <2>7. CASE ReadLine(f[n]) # Header
    <3>1. step' = "find" /\ ~Configured'
      BY <2>1, <2>3, <2>7 DEF Configured
    <3>2. \A i \in 1..n : ReadLine(f[i]) # Header
      <4> HIDE DEF n
      <4> QED
        BY <1>1, <2>6, <2>7
    <3>3. \A i \in 1..LinesRead' : ReadLine(f[i]) # Header
      <4> HIDE DEF n
      <4> QED
        BY <2>4, <3>2
    <3> QED
      BY <1>1, <1>2, <1>3, <2>2, <2>5, <3>1, <3>3 DEF FileInv
  <2>8. CASE ReadLine(f[n]) = Header
    <3>1. step' = "item" /\ ~Configured'
      BY <2>1, <2>3, <2>8 DEF Configured
    <3>2. \A i \in 1..(n - 1) : ~IsHeader(f[i])
      <4>1. n - 1 = LinesRead
        BY <2>3
      <4> HIDE DEF n
      <4> QED
        BY <1>1, <4>1 DEF IsHeader, ReadLine
    <3>3. Reading'
      <4>1. CASE IsHeader(f[n])
        <5>1. PICK e \in n..Len(f) : SectionIs(f, n, e)
          BY <2>3, <3>2, <4>1, SectionExists
        <5>2. n \in Nat /\ e \in Nat /\ n \in n..e /\ n - n = 0
          BY <2>3
        <5> HIDE DEF n
        <5>3. Holds(<<>>, ItemsOf(f), 0)
          BY EmptySeq DEF Holds
        <5>4. /\ SectionIs(f, n, e) /\ LinesRead' \in n..e
              /\ Holds(params', ItemsOf(f), LinesRead' - n)
          BY <1>1, <1>2, <2>4, <5>1, <5>2, <5>3
        <5> QED
          BY <1>2, <5>2, <5>4 DEF Reading
      <4>2. CASE ~IsHeader(f[n])
        <5>1. ~f[n].newline
          BY <2>8, <4>2 DEF IsHeader, ReadLine
        <5>2. file' = <<>> /\ n = Len(f)
          BY <2>3, <5>1
        <5>3. NoHeader(f)
          <6>1. \A i \in 1..Len(f) : i = n \/ i \in 1..(n - 1)
            BY <2>3, <5>2
          <6> HIDE DEF n
          <6> QED
            BY <2>3, <3>2, <4>2, <6>1 DEF NoHeader
        <5> QED
          BY <1>1, <1>2, <5>2, <5>3 DEF Reading
      <4> QED
        BY <4>1, <4>2
    <3> QED
      BY <1>2, <1>3, <2>2, <2>5, <3>1, <3>3 DEF FileInv
  <2> QED
    BY <2>7, <2>8
<1> QED
  BY <1>4, <1>5

\* Characters by name, for the provers
Blank == " "

\* What the properties call name and value
LEMMA BlankNames ==
    \A t : /\ NameOf(t) = NoTrailing(Before(t, "="), Blank, 1)
           /\ ValueOf(t) = NoLeading(After(t, "="), Blank)
BY Zenon DEF NameOf, ValueOf, Blank

\* What a clean file is
LEMMA CleanLines ==
    ASSUME NEW f, Clean(f)
    PROVE  /\ \A k \in DOMAIN Section(f) :
                 /\ Section(f)[k].newline /\ IsItem(Section(f)[k].chars)
                 /\ Section(f)[k].chars[1] # Blank
           /\ \A i \in DOMAIN f : IsHeading(f[i]) => ~Has(f[i].chars, "=")
BY Zenon DEF Clean, Blank

(* A line of a section where all lines are items.                          *)
LEMMA SectionLine ==
    ASSUME NEW f \in Seq(ALine), Clean(f), NEW h \in Nat, NEW e \in Nat, SectionIs(f, h, e),
           NEW n \in (h + 1)..e
    PROVE  LET l == ReadLine(f[n]) IN
           /\ Token(AfterToken(l)) # <<>>
           /\ NoTrailing(Token(l), Blank, 0) = NameOf(f[n].chars)
           /\ NoLeading(Token(AfterToken(l)), Blank) = ValueOf(f[n].chars)
           /\ f[n].chars = ItemsOf(f)[n - h]
<1>1. PICK k \in 1..(e - h) : k = n - h /\ h + k = n
  OBVIOUS
<1>2. /\ Section(f) \in Seq(ALine) /\ Len(Section(f)) = e - h
      /\ \A j \in 1..(e - h) : Section(f)[j] = f[h + j]
  BY SectionOf
<1>3. DOMAIN Section(f) = 1..(e - h)
  BY <1>2, TextElements
<1>4. Section(f)[k] = f[n] /\ Section(f)[k] \in ALine
  <2>1. Section(f)[k] = f[n]
    BY <1>1, <1>2
  <2>2. Section(f)[k] \in ALine
    BY <1>1, <1>2, TextElements
  <2> QED
    BY <2>1, <2>2
<1>5. f[n].newline /\ IsItem(f[n].chars) /\ f[n].chars[1] # Blank /\ f[n].chars \in Seq(STRING)
  <2>1. Section(f)[k].newline /\ IsItem(Section(f)[k].chars) /\ Section(f)[k].chars[1] # Blank
    BY <1>3, CleanLines
  <2>2. Section(f)[k].chars \in Seq(STRING)
    BY <1>4 DEF ALine
  <2> QED
    BY <1>4, <2>1, <2>2
<1>6. ReadLine(f[n]) = f[n].chars
  BY <1>5 DEF ReadLine
<1>7. ItemsOf(f)[k] = f[h + k].chars
  BY ItemsAre
<1>8. PICK t \in Seq(STRING) : t = f[n].chars
  BY <1>5
<1>9. IsItem(t) /\ t[1] # Blank
  BY <1>5, <1>8
<1>10. /\ Token(AfterToken(t)) # <<>>
       /\ NoTrailing(Token(t), Blank, 0) = NoTrailing(Before(t, "="), Blank, 1)
       /\ NoLeading(Token(AfterToken(t)), Blank) = NoLeading(After(t, "="), Blank)
  BY <1>9, ItemLine
<1>11. f[n].chars = ItemsOf(f)[n - h]
  BY <1>1, <1>7
<1> QED
  BY <1>6, <1>8, <1>10, <1>11, BlankNames

(* The line after the section holds no item.                               *)
LEMMA LineAfter ==
    ASSUME NEW f \in Seq(ALine), Clean(f), NEW n \in 1..Len(f), IsHeading(f[n])
    PROVE  Token(AfterToken(ReadLine(f[n]))) = <<>>
<1>1. f[n] \in ALine /\ n \in DOMAIN f
  BY TextElements
<1>2. PICK t \in Seq(STRING) : t = f[n].chars /\ ~Has(t, "=")
  BY <1>1, CleanLines DEF ALine
<1>3. CASE f[n].newline
  BY <1>2, <1>3, HeadingLine DEF ReadLine
<1>4. CASE ~f[n].newline
  <2>1. Len(t) \in Nat /\ DOMAIN t = 1..Len(t) /\ Len(t) > 0
    <3>1. t # <<>>
      BY <1>2 DEF IsHeading
    <3> QED
      BY <3>1, TextElements, EmptySeq
  <2>9. Len(t) - 1 \in 0..Len(t)
    BY <2>1
  <2>2. PICK m \in 0..Len(t) : m = Len(t) - 1
    BY <2>9
  <2>3. /\ SubSeq(t, 1, m) \in Seq(STRING) /\ Len(SubSeq(t, 1, m)) = m
        /\ \A i \in 1..m : SubSeq(t, 1, m)[i] = t[i]
    BY StartOf
  <2>4. PICK w \in Seq(STRING) : w = SubSeq(t, 1, m)
    BY <2>3
  <2>5. DOMAIN w = 1..m /\ m \in Nat
    BY <2>1, <2>3, <2>4, TextElements
  <2>6. ~Has(w, "=")
    BY <1>2, <2>1, <2>2, <2>3, <2>4, <2>5 DEF Has
  <2>7. ReadLine(f[n]) = w
    BY <1>2, <1>4, <2>2, <2>4 DEF ReadLine
  <2> QED
    BY <2>6, <2>7, HeadingLine
<1> QED
  BY <1>3, <1>4

\* A line that gives an item to the table
LEMMA NextItemKeeps == ASSUME FileInv, GetNextItem PROVE FileInv'
<1> DEFINE f == written.file
           n == LinesRead + 1
           l == ReadLine(Head(file))
<1>1. /\ step = "item" /\ file # <<>> /\ Token(AfterToken(l)) # <<>>
      /\ params' = Insert(params, NoTrailing(Token(l), Blank, 0), NoLeading(Token(AfterToken(l)), Blank))
      /\ file' = Tail(file)
      /\ UNCHANGED <<step, rest, sep, drda, written>>
  BY Zenon DEF GetNextItem, NoItem, Blank
<1>2. /\ n \in 1..Len(f) /\ LinesRead \in Nat /\ LinesRead \in 0..Len(f)
      /\ f \in Seq(ALine) /\ Len(f) \in Nat /\ DOMAIN f = 1..Len(f)
      /\ Head(file) = f[n] /\ f[n] \in ALine
      /\ file' = SubSeq(f, n + 1, Len(f)) /\ Len(file') = Len(f) - n
      /\ Len(file') \in 0..Len(f)
  BY <1>1, NextLine
<1>3. LinesRead' = n
  <2>1. LinesRead' = Len(f) - Len(file')
    BY <1>1 DEF LinesRead
  <2>2. n \in Nat /\ Len(f) \in Nat /\ Len(file') = Len(f) - n
    BY <1>2
  <2> HIDE DEF n, f
  <2> QED
    BY <2>1, <2>2
<1>4. WrittenOK'
  BY <1>1 DEF FileInv, WrittenOK
<1>5. TextTypes'
  BY <1>1, Zenon DEF FileInv, TextTypes
<1>6. /\ Len(file') \in 0..Len(written'.file)
      /\ file' = SubSeq(written'.file, LinesRead' + 1, Len(written'.file))
  <2> HIDE DEF n
  <2> QED
    BY <1>1, <1>2, <1>3
<1>7. ASSUME Clean(f) PROVE Reading'
  <2>1. PICK h \in Nat, e \in Nat :
          /\ SectionIs(f, h, e) /\ LinesRead \in h..e
          /\ Holds(params, ItemsOf(f), LinesRead - h)
    BY <1>1, <1>7 DEF FileInv, Reading
  <2>2. CASE n <= e
    <3>1. n \in (h + 1)..e /\ LinesRead - h \in Nat /\ n - h = (LinesRead - h) + 1 /\ n \in h..e
      BY <1>2, <2>1, <2>2
    <3> HIDE DEF n, f
    <3>2. /\ NoTrailing(Token(l), Blank, 0) = NameOf(f[n].chars)
          /\ NoLeading(Token(AfterToken(l)), Blank) = ValueOf(f[n].chars)
          /\ f[n].chars = ItemsOf(f)[n - h]
      BY <1>2, <1>7, <2>1, <3>1, SectionLine, ZenonT(60)
    <3>3. PICK m \in Nat : m = LinesRead - h
      BY <3>1
    <3>4. m + 1 = n - h
      BY <3>1, <3>3
    <3>5. params' = Insert(params, NameOf(ItemsOf(f)[m + 1]), ValueOf(ItemsOf(f)[m + 1]))
      BY <1>1, <3>2, <3>4
    <3>6. Holds(params', ItemsOf(f), m + 1)
      BY <2>1, <3>3, <3>5, InsertNext
    <3>7. written'.file = f
      BY <1>1 DEF f
    <3>8. SectionIs(f, h, e) /\ LinesRead' \in h..e /\ Holds(params', ItemsOf(f), LinesRead' - h)
      BY <1>3, <2>1, <3>1, <3>4, <3>6
    <3> QED
      BY <3>7, <3>8 DEF Reading
  <2>3. CASE ~(n <= e)
    <3>1. n = e + 1 /\ e < Len(f)
      BY <1>2, <2>1, <2>3
    <3>2. IsHeading(f[n])
      BY <2>1, <3>1 DEF SectionIs
    <3> HIDE DEF n, f
    <3>3. Token(AfterToken(l)) = <<>>
      BY <1>2, <1>7, <3>2, LineAfter
    <3> QED
      BY <1>1, <3>3
  <2> QED
    BY <2>2, <2>3
<1>8. Clean(written'.file) => Reading'
  BY <1>1, <1>7
<1>9. step' = "item" /\ ~Configured'
  BY <1>1 DEF Configured
<1> QED
  BY <1>1, <1>4, <1>5, <1>6, <1>8, <1>9 DEF FileInv

(* At the end of its section all its items are held.                       *)
LEMMA EndHolds == ASSUME FileInv, EndOfSection, Clean(written.file) PROVE SectionHeld
<1> DEFINE f == written.file
           n == LinesRead + 1
<1>1. step = "item" /\ Reading /\ NoItem
  BY DEF EndOfSection, FileInv
<1>2. f \in Seq(ALine) /\ Len(f) \in Nat /\ Len(file) \in 0..Len(f)
  BY TextElements DEF FileInv, WrittenOK
<1>3. CASE NoHeader(f) /\ params = <<>> /\ file = <<>>
  BY <1>3, NoItems DEF SectionHeld
<1>4. CASE \E h, e \in Nat :
          /\ SectionIs(f, h, e) /\ LinesRead \in h..e
          /\ Holds(params, ItemsOf(f), LinesRead - h)
  <2>1. PICK h \in Nat, e \in Nat :
          /\ SectionIs(f, h, e) /\ LinesRead \in h..e
          /\ Holds(params, ItemsOf(f), LinesRead - h)
    BY <1>4
  <2>2. ItemsOf(f) \in Seq(Seq(STRING)) /\ Len(ItemsOf(f)) = e - h
    BY <1>2, <2>1, ItemsAre
  <2>3. LinesRead = e
    <3> SUFFICES ASSUME LinesRead # e PROVE FALSE
      OBVIOUS
    <3>1. e \in h..Len(f)
      BY <2>1 DEF SectionIs
    <3>2. n \in (h + 1)..e /\ Len(file) > 0
      BY <1>2, <2>1, <3>1 DEF LinesRead
    <3>3. file # <<>>
      BY <3>2, EmptySeq
    <3>4. Head(file) = f[n]
      BY <3>3, NextLine
    <3> HIDE DEF n, f
    <3>5. Token(AfterToken(ReadLine(f[n]))) # <<>>
      <4>1. Clean(f)
        BY DEF f
      <4> QED
        BY <1>2, <2>1, <3>2, <4>1, SectionLine
    <3> QED
      BY <1>1, <3>3, <3>4, <3>5 DEF NoItem
  <2> QED
    BY <2>1, <2>2, <2>3 DEF SectionHeld
<1> QED
  BY <1>1, <1>3, <1>4 DEF Reading

\* The line after the section, or the end of the file
LEMMA EndKeeps == ASSUME FileInv, EndOfSection PROVE FileInv'
<1>1. /\ step = "item" /\ step' \in {"string", "url", "done"}
      /\ UNCHANGED <<file, sep, params, drda, written>>
  BY DEF EndOfSection
<1>2. WrittenOK' /\ LinesRead' = LinesRead
  BY <1>1 DEF FileInv, WrittenOK, LinesRead
<1>3. TextTypes'
  <2>1. step' \in {"idle", "find", "item", "string", "url", "option", "done"}
    BY <1>1
  <2> QED
    BY <1>1, <2>1, Zenon DEF FileInv, TextTypes
<1>4. Clean(written.file) => SectionHeld'
  BY <1>1, EndHolds DEF SectionHeld
<1>5. Configured' => Clean(written.file)
  BY <1>1 DEF Configured
<1>6. /\ Len(file') \in 0..Len(written'.file)
      /\ file' = SubSeq(written'.file, LinesRead' + 1, Len(written'.file))
  BY <1>1, <1>2 DEF FileInv
<1> QED
  BY <1>1, <1>2, <1>3, <1>4, <1>5, <1>6 DEF FileInv

-----------------------------------------------------------------------------
(* The parts of a connect string.                                          *)

Semicolon == ";"
StartsBy(str, c) == {1} \cup {i + 1 : i \in {j \in DOMAIN str : str[j] = c}}

\* Where parts start and what they are, with the semicolon by its name
LEMMA StartsParts ==
    \A str : /\ Starts(str) = StartsBy(str, Semicolon)
             /\ \A i : Part(str, i) = Before(SubSeq(str, i, Len(str)), Semicolon)
BY Zenon DEF Starts, StartsBy, Part, Semicolon

\* Two characters the string is parted by
LEMMA SemicolonIsNoEquals == Semicolon # "="
BY Zenon DEF Semicolon

\* k is where the character is first in t, b what is before and a what is after it
IsParted(S, t, c, k, b, a) ==
    /\ k \in 1..Len(t) /\ t[k] = c /\ \A j \in 1..(k - 1) : t[j] # c
    /\ b \in Seq(S) /\ Len(b) = k - 1 /\ \A i \in 1..(k - 1) : b[i] = t[i]
    /\ a \in Seq(S) /\ Len(a) = Len(t) - k /\ \A i \in 1..(Len(t) - k) : a[i] = t[k + i]

\* What Parted says, as one fact
LEMMA PartedAt ==
    ASSUME NEW S, NEW t \in Seq(S), NEW c, Has(t, c)
    PROVE  IsParted(S, t, c, First(t, c), Before(t, c), After(t, c))
BY Parted DEF IsParted

(* What SetConnectString() takes from the rest of a string whose next part *)
(* is an item, c being what ends a part.                                   *)
LEMMA PartOfRest ==
    ASSUME NEW S, NEW r \in Seq(S), NEW c, c # "=", IsItem(Before(r, c))
    PROVE  /\ Has(r, "=")
           /\ Before(r, "=") = Before(Before(r, c), "=")
           /\ Before(After(r, "="), c) = After(Before(r, c), "=")
           /\ Has(After(r, "="), c) <=> Has(r, c)
           /\ Has(r, c) => After(After(r, "="), c) = After(r, c)
           /\ ~Has(r, c) => ~Has(After(r, "="), "=")
<1>1. CASE ~Has(r, c)
  <2>1. Before(r, c) = r
    BY <1>1, WithoutIt
  <2>2. Has(r, "=") /\ ~Has(After(r, "="), "=")
    BY <2>1, ItemParts
  <2>3. /\ First(r, "=") \in 1..Len(r) /\ After(r, "=") \in Seq(S)
        /\ Len(After(r, "=")) = Len(r) - First(r, "=")
        /\ \A i \in 1..(Len(r) - First(r, "=")) : After(r, "=")[i] = r[First(r, "=") + i]
    BY <2>2, Parted
  <2>4. ~Has(After(r, "="), c)
    <3>1. Len(r) \in Nat /\ DOMAIN r = 1..Len(r)
          /\ DOMAIN After(r, "=") = 1..(Len(r) - First(r, "="))
      BY <2>3, TextElements
    <3>2. \A i \in 1..(Len(r) - First(r, "=")) : First(r, "=") + i \in 1..Len(r)
      BY <2>3, <3>1
    <3> QED
      BY <1>1, <2>3, <3>1, <3>2 DEF Has
  <2>5. Before(After(r, "="), c) = After(r, "=")
    BY <2>4, WithoutIt
  <2> QED
    BY <1>1, <2>1, <2>2, <2>4, <2>5
<1>2. CASE Has(r, c)
  <2>1. PICK q \in 1..Len(r) : q = First(r, c) /\ r[q] = c /\ \A j \in 1..(q - 1) : r[j] # c
    BY <1>2, FirstOf
  <2>2. Len(r) \in Nat /\ DOMAIN r = 1..Len(r) /\ q \in Nat
    BY <2>1, TextElements
  <2>19. IsParted(S, r, c, q, Before(r, c), After(r, c))
    BY <1>2, <2>1, PartedAt
  <2>3. PICK p \in Seq(S) : p = Before(r, c) /\ Len(p) = q - 1 /\ \A i \in 1..(q - 1) : p[i] = r[i]
    BY <2>19 DEF IsParted
  <2>4. /\ After(r, c) \in Seq(S) /\ Len(After(r, c)) = Len(r) - q
        /\ \A i \in 1..(Len(r) - q) : After(r, c)[i] = r[q + i]
    BY <2>19 DEF IsParted
  <2>5. PICK k \in 1..Len(p) : k = First(p, "=") /\ Has(p, "=") /\ k < Len(p)
    BY <2>3, ItemParts
  <2>6. /\ p[k] = "=" /\ \A j \in 1..(k - 1) : p[j] # "="
        /\ Before(p, "=") \in Seq(S) /\ Len(Before(p, "=")) = k - 1
        /\ \A i \in 1..(k - 1) : Before(p, "=")[i] = p[i]
        /\ After(p, "=") \in Seq(S) /\ Len(After(p, "=")) = Len(p) - k
        /\ \A i \in 1..(Len(p) - k) : After(p, "=")[i] = p[k + i]
    <3>1. IsParted(S, p, "=", k, Before(p, "="), After(p, "="))
      BY <2>3, <2>5, PartedAt
    <3> QED
      BY <3>1 DEF IsParted
  <2>7. k \in 1..Len(r) /\ r[k] = "=" /\ (\A j \in 1..(k - 1) : r[j] # "=") /\ k \in Nat /\ k < q - 1
    <3>1. k \in Nat /\ k < q - 1 /\ k \in 1..Len(r) /\ k \in 1..(q - 1)
      BY <2>2, <2>3, <2>5
    <3>2. \A j \in 1..(k - 1) : j \in 1..(q - 1)
      BY <2>2, <3>1
    <3> QED
      BY <2>3, <2>6, <3>1, <3>2
  <2>8. Has(r, "=") /\ First(r, "=") = k
    BY <2>7, FirstIs
  <2>9. /\ Before(r, "=") \in Seq(S) /\ Len(Before(r, "=")) = k - 1
        /\ \A i \in 1..(k - 1) : Before(r, "=")[i] = r[i]
        /\ After(r, "=") \in Seq(S) /\ Len(After(r, "=")) = Len(r) - k
        /\ \A i \in 1..(Len(r) - k) : After(r, "=")[i] = r[k + i]
    <3>1. IsParted(S, r, "=", k, Before(r, "="), After(r, "="))
      BY <2>8, PartedAt
    <3> QED
      BY <3>1 DEF IsParted
  <2>10. Before(r, "=") = Before(p, "=")
    <3>1. \A i \in 1..(k - 1) : Before(r, "=")[i] = Before(p, "=")[i]
      <4>1. \A i \in 1..(k - 1) : i \in 1..(q - 1)
        BY <2>2, <2>7
      <4> QED
        BY <2>3, <2>6, <2>9, <4>1
    <3> QED
      BY <2>6, <2>9, <3>1, SeqEqual
  <2>11. PICK a \in Seq(S) : a = After(r, "=") /\ Len(a) = Len(r) - k
                             /\ \A i \in 1..(Len(r) - k) : a[i] = r[k + i]
    BY <2>9
  <2>12. q - k \in 1..Len(a) /\ a[q - k] = c /\ \A j \in 1..(q - k - 1) : a[j] # c
    <3>1. q - k \in 1..Len(a) /\ k + (q - k) = q
      BY <2>2, <2>7, <2>11
    <3>2. a[q - k] = c
      BY <2>1, <2>11, <3>1
    <3>3. \A j \in 1..(q - k - 1) : j \in 1..(Len(r) - k) /\ k + j \in 1..(q - 1)
      BY <2>2, <2>7
    <3> QED
      BY <2>1, <2>11, <3>1, <3>2, <3>3
  <2>13. PICK m \in 1..Len(a) : m = q - k
    BY <2>12
  <2>14. a[m] = c /\ \A j \in 1..(m - 1) : a[j] # c
    BY <2>12, <2>13
  <2>15. Has(a, c) /\ First(a, c) = m
    BY <2>14, FirstIs
  <2>16. /\ Before(a, c) \in Seq(S) /\ Len(Before(a, c)) = m - 1
         /\ \A i \in 1..(m - 1) : Before(a, c)[i] = a[i]
         /\ After(a, c) \in Seq(S) /\ Len(After(a, c)) = Len(a) - m
         /\ \A i \in 1..(Len(a) - m) : After(a, c)[i] = a[m + i]
    <3>1. IsParted(S, a, c, m, Before(a, c), After(a, c))
      BY <2>15, PartedAt
    <3> QED
      BY <3>1 DEF IsParted
  <2>17. Before(a, c) = After(p, "=")
    <3>1. m - 1 = Len(p) - k
      BY <2>2, <2>3, <2>7, <2>13
    <3>2. \A i \in 1..(m - 1) : i \in 1..(Len(r) - k) /\ i \in 1..(Len(p) - k) /\ k + i \in 1..(q - 1)
      BY <2>2, <2>3, <2>7, <2>13
    <3>3. \A i \in 1..(m - 1) : Before(a, c)[i] = After(p, "=")[i]
      <4> SUFFICES ASSUME NEW i \in 1..(m - 1) PROVE Before(a, c)[i] = After(p, "=")[i]
        OBVIOUS
      <4>1. Before(a, c)[i] = r[k + i]
        BY <2>11, <2>16, <3>2
      <4>2. After(p, "=")[i] = r[k + i]
        BY <2>3, <2>6, <3>2
      <4> QED
        BY <4>1, <4>2
    <3>4. Len(Before(a, c)) = Len(After(p, "="))
      BY <2>6, <2>16, <3>1
    <3> QED
      BY <2>6, <2>16, <3>3, <3>4, SeqEqual
  <2>18. After(a, c) = After(r, c)
    <3>1. Len(a) - m = Len(r) - q
      <4>1. Len(a) = Len(r) - k /\ Len(r) \in Nat /\ q \in Nat /\ k \in Nat /\ m = q - k
        BY <2>2, <2>7, <2>11, <2>13
      <4> QED
        BY <4>1
    <3>2. \A i \in 1..(Len(r) - q) : m + i \in 1..(Len(r) - k) /\ k + (m + i) = q + i
      BY <2>2, <2>7, <2>13
    <3>3. \A i \in 1..(Len(r) - q) : After(a, c)[i] = After(r, c)[i]
      BY <2>4, <2>11, <2>16, <3>1, <3>2
    <3>4. Len(After(a, c)) = Len(After(r, c))
      BY <2>4, <2>16, <3>1
    <3> QED
      BY <2>4, <2>16, <3>3, <3>4, <3>1, SeqEqual
  <2> QED
    BY <1>2, <2>3, <2>8, <2>10, <2>11, <2>15, <2>17, <2>18
<1> QED
  BY <1>1, <1>2

\* Where the part after the one at i starts
LEMMA StartsAre ==
    ASSUME NEW S, NEW str \in Seq(S), NEW c
    PROVE  /\ StartsBy(str, c) \subseteq 1..(Len(str) + 1) /\ 1 \in StartsBy(str, c)
           /\ \A x \in StartsBy(str, c) : x > 1 => x - 1 \in 1..Len(str) /\ str[x - 1] = c
           /\ \A x \in 1..Len(str) : str[x] = c => x + 1 \in StartsBy(str, c)
<1>1. Len(str) \in Nat /\ DOMAIN str = 1..Len(str)
  BY TextElements
<1> QED
  BY <1>1 DEF StartsBy

NextPart(str, c, i, r) ==
    /\ Len(str) \in Nat /\ i \in 1..(Len(str) + 1)
    /\ Has(r, c) => /\ i + First(r, c) \in StartsBy(str, c)
                    /\ After(r, c) = SubSeq(str, i + First(r, c), Len(str))
                    /\ \A x \in StartsBy(str, c) :
                          x < i + First(r, c) <=> x < i \/ x = i
    /\ ~Has(r, c) => \A x \in StartsBy(str, c) : x < i \/ x = i

\* The part after one is where the semicolon is that ends it
LEMMA NextStart ==
    ASSUME NEW S, NEW str \in Seq(S), NEW c, NEW i \in StartsBy(str, c),
           NEW r, r = SubSeq(str, i, Len(str))
    PROVE  r \in Seq(S) /\ NextPart(str, c, i, r)
<1>1. Len(str) \in Nat /\ i \in 1..(Len(str) + 1) /\ StartsBy(str, c) \subseteq 1..(Len(str) + 1)
  BY TextElements, StartsAre
<1>2. /\ r \in Seq(S) /\ Len(r) = Len(str) + 1 - i
      /\ \A j \in 1..(Len(str) + 1 - i) : r[j] = str[i + j - 1]
  BY <1>1, RestOf
<1>3. Len(r) \in Nat /\ DOMAIN r = 1..Len(r)
  BY <1>2, TextElements
<1>4. ASSUME NEW x \in StartsBy(str, c), x > i
      PROVE  x - i \in 1..Len(r) /\ r[x - i] = c
  <2>1. x \in 1..(Len(str) + 1) /\ x > 1
    BY <1>1, <1>4
  <2>2. str[x - 1] = c
    BY <2>1, StartsAre
  <2>3. x - i \in 1..(Len(str) + 1 - i) /\ i + (x - i) - 1 = x - 1
    BY <1>1, <1>4, <2>1
  <2> QED
    BY <1>2, <2>2, <2>3
<1>5. CASE ~Has(r, c)
  <2>1. \A x \in StartsBy(str, c) : ~(x > i)
    BY <1>3, <1>4, <1>5 DEF Has
  <2>2. \A x \in StartsBy(str, c) : x \in Nat
    BY <1>1
  <2>3. \A x \in StartsBy(str, c) : x < i \/ x = i
    BY <1>1, <2>1, <2>2
  <2> QED
    BY <1>1, <1>2, <1>5, <2>3 DEF NextPart
<1>6. CASE Has(r, c)
  <2>1. IsParted(S, r, c, First(r, c), Before(r, c), After(r, c))
    BY <1>2, <1>6, PartedAt
  <2>2. PICK k \in 1..Len(r) : /\ k = First(r, c) /\ r[k] = c /\ \A j \in 1..(k - 1) : r[j] # c
    BY <2>1 DEF IsParted
  <2>3. After(r, c) \in Seq(S) /\ Len(After(r, c)) = Len(r) - k
        /\ \A j \in 1..(Len(r) - k) : After(r, c)[j] = r[k + j]
    BY <2>1, <2>2 DEF IsParted
  <2>4. k \in 1..(Len(str) + 1 - i) /\ i + k - 1 \in 1..Len(str) /\ k \in Nat
        /\ (i + k - 1) + 1 = i + k
    BY <1>1, <1>2, <2>2
  <2>5. str[i + k - 1] = c
    BY <1>2, <2>2, <2>4
  <2>6. i + k \in StartsBy(str, c)
    BY <2>4, <2>5, StartsAre
  <2>7. PICK q \in 1..(Len(str) + 1) : q = i + k
    BY <1>1, <2>6
  <2>8. /\ SubSeq(str, q, Len(str)) \in Seq(S) /\ Len(SubSeq(str, q, Len(str))) = Len(str) + 1 - q
        /\ \A j \in 1..(Len(str) + 1 - q) : SubSeq(str, q, Len(str))[j] = str[q + j - 1]
    BY RestOf
  <2>9. After(r, c) = SubSeq(str, q, Len(str))
    <3>1. Len(r) - k = Len(str) + 1 - q
      BY <1>1, <1>2, <2>4, <2>7
    <3>2. \A j \in 1..(Len(r) - k) : After(r, c)[j] = SubSeq(str, q, Len(str))[j]
      <4> SUFFICES ASSUME NEW j \in 1..(Len(r) - k) PROVE After(r, c)[j] = SubSeq(str, q, Len(str))[j]
        OBVIOUS
      <4>1. k + j \in 1..(Len(str) + 1 - i) /\ i + (k + j) - 1 = q + j - 1
        BY <1>1, <1>2, <2>4, <2>7
      <4>2. r[k + j] = str[q + j - 1]
        BY <1>2, <4>1
      <4> QED
        BY <2>3, <2>8, <3>1, <4>2
    <3> QED
      BY <2>3, <2>8, <3>1, <3>2, SeqEqual
  <2>10. ASSUME NEW x \in StartsBy(str, c) PROVE x < i + k <=> x < i \/ x = i
    <3>1. x \in Nat
      BY <1>1
    <3>2. CASE x > i
      <4>1. x - i \in 1..Len(r) /\ r[x - i] = c
        BY <1>4, <3>2
      <4>2. ~(x - i <= k - 1)
        <5> SUFFICES ASSUME x - i <= k - 1 PROVE FALSE
          OBVIOUS
        <5>1. x - i \in 1..(k - 1)
          BY <1>1, <2>4, <3>1, <3>2
        <5> QED
          BY <2>2, <4>1, <5>1
      <4> QED
        BY <1>1, <2>4, <3>1, <3>2, <4>2
    <3>3. CASE ~(x > i)
      BY <1>1, <2>4, <3>1, <3>3
    <3> QED
      BY <3>2, <3>3
  <2> QED
    BY <1>1, <1>2, <1>6, <2>2, <2>6, <2>7, <2>9, <2>10 DEF NextPart
<1> QED
  BY <1>5, <1>6

-----------------------------------------------------------------------------
(* A table in which the parts of a string took the place of items: those   *)
(* that start before i.                                                    *)
Overridden(tab, items, str, i) ==
    /\ DOMAIN tab = {NameOf(items[k]) : k \in DOMAIN items}
                    \cup {NameOf(Part(str, j)) : j \in {x \in Starts(str) : x < i}}
    /\ \A n \in DOMAIN tab :
          (\A j \in Starts(str) : j < i => NameOf(Part(str, j)) # n) => tab[n] = LastValue(items, n)
    /\ \A j \in Starts(str) :
          j < i /\ (\A x \in Starts(str) :
                       x < i /\ NameOf(Part(str, x)) = NameOf(Part(str, j)) => x <= j)
          => tab[NameOf(Part(str, j))] = ValueOf(Part(str, j))

\* One more part of the string
LEMMA OverrideNext ==
    ASSUME NEW tab, NEW items, NEW str, Starts(str) \subseteq Nat,
           NEW i \in Starts(str), NEW q,
           \A x \in Starts(str) : x < q <=> x < i \/ x = i,
           Overridden(tab, items, str, i),
           NEW new, new = Insert(tab, NameOf(Part(str, i)), ValueOf(Part(str, i)))
    PROVE  Overridden(new, items, str, q)
<1> DEFINE name == NameOf(Part(str, i))
           value == ValueOf(Part(str, i))
<1>1. new = [n \in DOMAIN tab \cup {name} |-> IF n = name THEN value ELSE tab[n]]
  BY DEF Insert
<1>2. {x \in Starts(str) : x < q} = {x \in Starts(str) : x < i} \cup {i}
  OBVIOUS
<1>3. DOMAIN new = {NameOf(items[k]) : k \in DOMAIN items}
                   \cup {NameOf(Part(str, j)) : j \in {x \in Starts(str) : x < q}}
  <2>1. {NameOf(Part(str, j)) : j \in {x \in Starts(str) : x < q}}
        = {NameOf(Part(str, j)) : j \in {x \in Starts(str) : x < i}} \cup {name}
    BY <1>2
  <2> QED
    BY <1>1, <2>1 DEF Overridden
<1>4. ASSUME NEW n \in DOMAIN new, \A j \in Starts(str) : j < q => NameOf(Part(str, j)) # n
      PROVE  new[n] = LastValue(items, n)
  <2>1. n # name /\ \A j \in Starts(str) : j < i => NameOf(Part(str, j)) # n
    BY <1>4
  <2>2. n \in DOMAIN tab
    BY <1>1, <2>1
  <2> QED
    BY <1>1, <2>1, <2>2 DEF Overridden
<1>5. ASSUME NEW j \in Starts(str), j < q,
             \A x \in Starts(str) :
                 x < q /\ NameOf(Part(str, x)) = NameOf(Part(str, j)) => x <= j
      PROVE  new[NameOf(Part(str, j))] = ValueOf(Part(str, j))
  <2>1. CASE j = i
    BY <1>1, <2>1
  <2>2. CASE j # i
    <3>1. j < i /\ j \in Nat /\ i \in Nat
      BY <1>5, <2>2
    <3>2. NameOf(Part(str, j)) # name
      BY <1>5, <3>1
    <3>3. tab[NameOf(Part(str, j))] = ValueOf(Part(str, j))
      BY <1>5, <3>1 DEF Overridden
    <3>4. NameOf(Part(str, j)) \in DOMAIN tab
      BY <3>1 DEF Overridden
    <3> QED
      BY <1>1, <3>2, <3>3, <3>4
  <2> QED
    BY <2>1, <2>2
<1> QED
  BY <1>3, <1>4, <1>5 DEF Overridden

\* Before the first part there is what the section gave
LEMMA OverrideFirst ==
    ASSUME NEW S, NEW tab, NEW items \in Seq(S), NEW str, Starts(str) \subseteq Nat,
           \A x \in Starts(str) : 1 <= x, Holds(tab, items, Len(items))
    PROVE  Overridden(tab, items, str, 1)
<1>1. /\ DOMAIN tab = {NameOf(items[k]) : k \in DOMAIN items}
      /\ \A n \in DOMAIN tab : tab[n] = LastValue(items, n)
  BY HeldLast
<1>2. \A x \in Starts(str) : ~(x < 1)
  OBVIOUS
<1> QED
  BY <1>1, <1>2 DEF Overridden

-----------------------------------------------------------------------------
(* The other steps keep what the file gave.                                *)

AskedWhere ==
    /\ step = "string" => written.string # Nothing
    /\ step \in {"url", "option"} => written.string = Nothing

\* Nothing changes but the rest of the string, the table and the DRDA
LEMMA LaterKeeps ==
    ASSUME FileInv, step \notin {"idle", "find", "item"}, step' \in {step, "done", "option"},
           file' = file, written' = written,
           TextTypes', written.string = Nothing => params' = params
    PROVE  FileInv'
<1>1. WrittenOK'
  BY DEF FileInv, WrittenOK
<1>2. LinesRead' = LinesRead
  BY DEF LinesRead
<1>3. /\ Len(file') \in 0..Len(written'.file)
      /\ file' = SubSeq(written'.file, LinesRead' + 1, Len(written'.file))
  BY <1>2 DEF FileInv
<1>4. step' \notin {"idle", "find", "item"}
  OBVIOUS
<1>5. Configured' /\ written'.string = Nothing => SectionHeld'
  <2> SUFFICES ASSUME Configured', written'.string = Nothing PROVE SectionHeld'
    OBVIOUS
  <2>1. Configured /\ params' = params
    BY DEF Configured
  <2>2. SectionHeld
    BY <2>1 DEF FileInv
  <2> QED
    BY <2>1, <2>2 DEF SectionHeld
<1> QED
  BY <1>1, <1>3, <1>4, <1>5 DEF FileInv

\* SetConnectString() leaves alone what there is without a connect string
LEMMA SetItemKeeps == ASSUME FileInv, AskedWhere, SetItem PROVE FileInv'
<1>1. /\ step = "string" /\ step' \in {step, "done"}
      /\ UNCHANGED <<file, sep, drda, written>>
  BY Zenon DEF SetItem
<1>2. TextTypes'
  <2>1. step' \in {"idle", "find", "item", "string", "url", "option", "done"}
    BY <1>1
  <2> QED
    BY <1>1, <2>1, Zenon DEF FileInv, TextTypes
<1>3. written.string # Nothing
  BY <1>1 DEF AskedWhere
<1> QED
  BY <1>1, <1>2, <1>3, LaterKeeps

\* The settings keep their fields
Settings(d) == DOMAIN d = DOMAIN NewDrda /\ DOMAIN d.options \subseteq OptionNames

\* UID and PWD of the data source are set in fields there are
LEMMA FinishTypes ==
    ASSUME NEW d, Settings(d), Finish(d)
    PROVE  step' = "done" /\ Settings(drda')
BY Zenon DEF Finish, Settings, NewDrda

\* drda_set_by_url() sets fields there are
LEMMA SetByUrlTypes ==
    ASSUME Settings(drda), SetByUrl
    PROVE  /\ step = "url" /\ step' \in {"done", "option"} /\ sep' \in {";", ":"}
           /\ Settings(drda')
           /\ UNCHANGED <<file, params, written>>
<1> DEFINE s == IF Has(rest, "://") THEN After(rest, "://") ELSE rest
           cred == Before(s, "@")
           place == IF Has(s, "@") THEN After(s, "@") ELSE s
           host == Before(place, "/")
           base == After(place, "/")
           by == IF Has(base, ";") THEN ";" ELSE ":"
           user == IF ~Has(s, "@") THEN <<"local">> ELSE User(cred)
           d == [drda EXCEPT !.user = user,
                   !.passwd = IF Has(s, "@") /\ HasPassword(cred) THEN Password(cred) ELSE @]
           asks == ~(Has(s, "@") /\ HasPassword(cred))
           e == [d EXCEPT !.server = Before(host, ":"), !.port = Port(host),
                   !.passwd = IF asks THEN <<"typed">> ELSE @, !.database = Before(base, by)]
<1>1. /\ step = "url" /\ sep' = by /\ UNCHANGED <<file, params, written>>
      /\ \/ Finish(drda) \/ Finish(d) \/ Finish(e) \/ (drda' = e /\ step' = "option")
  BY Zenon DEF SetByUrl
<1>2. Settings(d) /\ Settings(e)
  <2> HIDE DEF by, user, cred, s, place, base, host
  <2>1. DOMAIN d = DOMAIN drda /\ DOMAIN e = DOMAIN drda
    OBVIOUS
  <2>2. d.options = drda.options /\ e.options = drda.options
    BY DEF Settings, NewDrda
  <2> QED
    BY <2>1, <2>2, Zenon DEF Settings
<1>3. by \in {";", ":"}
  <2> HIDE DEF base
  <2> QED
    BY Zenon
<1> HIDE DEF d, e, by
<1>4. Settings(drda') /\ step' \in {"done", "option"}
  <2>1. CASE Finish(drda)
    BY <2>1, FinishTypes
  <2>2. CASE Finish(d)
    BY <1>2, <2>2, FinishTypes
  <2>3. CASE Finish(e)
    BY <1>2, <2>3, FinishTypes
  <2>4. CASE drda' = e /\ step' = "option"
    BY <1>2, <2>4
  <2> QED
    BY <1>1, <2>1, <2>2, <2>3, <2>4
<1> QED
  BY <1>1, <1>3, <1>4, Zenon

\* drda_set_by_keyvalue() knows its options
LEMMA KeyvalueTypes ==
    ASSUME NEW d, Settings(d), NEW k
    PROVE  Settings(SetByKeyvalue(d, k))
<1>1. CASE ~Has(k, "=") \/ Before(k, "=") \notin OptionNames
  BY <1>1 DEF SetByKeyvalue
<1>2. CASE Has(k, "=") /\ Before(k, "=") \in OptionNames
  <2> DEFINE tab == Insert(d.options, Before(k, "="), After(k, "="))
             e == [d EXCEPT !.options = tab]
  <2>1. SetByKeyvalue(d, k) = e
    BY <1>2, Zenon DEF SetByKeyvalue
  <2>2. DOMAIN tab = DOMAIN d.options \cup {Before(k, "=")}
    BY DEF Insert
  <2> HIDE DEF tab
  <2>3. DOMAIN e = DOMAIN d /\ e.options = tab
    BY DEF Settings, NewDrda
  <2> HIDE DEF e
  <2> QED
    BY <1>2, <2>1, <2>2, <2>3 DEF Settings
<1> QED
  BY <1>1, <1>2

\* An option of the URL changes no other field
LEMMA SetOptionTypes ==
    ASSUME Settings(drda), SetOption
    PROVE  /\ step = "option" /\ step' \in {step, "done"}
           /\ Settings(drda')
           /\ UNCHANGED <<file, params, written, sep>>
<1> DEFINE e == SetByKeyvalue(drda, Before(rest, sep))
<1>1. /\ step = "option" /\ UNCHANGED <<file, sep, params, written>>
      /\ \/ drda' = e /\ step' = step
         \/ Finish(e)
  BY Zenon DEF SetOption
<1>2. Settings(e)
  BY KeyvalueTypes
<1> HIDE DEF e
<1>3. Settings(drda') /\ step' \in {step, "done"}
  BY <1>1, <1>2, FinishTypes
<1> QED
  BY <1>1, <1>3

\* The URL leaves the table alone
LEMMA SetByUrlKeeps == ASSUME FileInv, AskedWhere, SetByUrl PROVE FileInv'
<1>1. Settings(drda)
  BY Zenon DEF FileInv, TextTypes, Settings
<1>2. /\ step = "url" /\ step' \in {"done", "option"} /\ sep' \in {";", ":"}
      /\ Settings(drda') /\ UNCHANGED <<file, params, written>>
  BY <1>1, SetByUrlTypes
<1>3. TextTypes'
  <2>1. step' \in {"idle", "find", "item", "string", "url", "option", "done"}
    BY <1>2, Zenon
  <2> QED
    BY <1>2, <2>1, Zenon DEF TextTypes, Settings
<1>4. /\ step \notin {"idle", "find", "item"} /\ step' \in {step, "done", "option"}
      /\ file' = file /\ written' = written /\ params' = params
  BY <1>2, Zenon
<1> QED
  BY <1>3, <1>4, LaterKeeps

\* So do its options
LEMMA SetOptionKeeps == ASSUME FileInv, AskedWhere, SetOption PROVE FileInv'
<1>1. Settings(drda)
  BY Zenon DEF FileInv, TextTypes, Settings
<1>2. /\ step = "option" /\ step' \in {step, "done"}
      /\ Settings(drda') /\ UNCHANGED <<file, params, written, sep>>
  BY <1>1, SetOptionTypes
<1>3. TextTypes'
  <2>1. step' \in {"idle", "find", "item", "string", "url", "option", "done"}
    BY <1>2, Zenon
  <2> QED
    BY <1>2, <2>1, Zenon DEF FileInv, TextTypes, Settings
<1>4. /\ step \notin {"idle", "find", "item"} /\ step' \in {step, "done", "option"}
      /\ file' = file /\ written' = written /\ params' = params
  BY <1>2, Zenon
<1> QED
  BY <1>3, <1>4, LaterKeeps

\* Without odbc.ini nothing is held
LEMMA TesterKeeps == ASSUME FileInv, NEW u \in Urls, Tester(u) PROVE FileInv'
<1>1. /\ step = "idle" /\ step' = "url" /\ written' = [written EXCEPT !.url = u]
      /\ UNCHANGED <<file, sep, params, drda>>
  BY Zenon DEF Tester
<1>2. written = [file |-> <<>>, string |-> Nothing, url |-> Nothing]
  BY <1>1, Zenon DEF FileInv
<1>3. written'.file = written.file /\ written'.string = written.string /\ written.file = <<>>
  BY <1>1, <1>2
<1>4. WrittenOK'
  BY <1>3 DEF FileInv, WrittenOK
<1>5. TextTypes'
  <2>1. step' \in {"idle", "find", "item", "string", "url", "option", "done"}
    BY <1>1
  <2> QED
    BY <1>1, <2>1, Zenon DEF FileInv, TextTypes
<1>6. /\ Len(file') \in 0..Len(written'.file)
      /\ file' = SubSeq(written'.file, LinesRead' + 1, Len(written'.file))
  <2>1. LinesRead' = LinesRead
    BY <1>1, <1>3 DEF LinesRead
  <2> QED
    BY <1>1, <1>3, <2>1 DEF FileInv
<1>7. ~Configured'
  BY <1>3 DEF Configured
<1> QED
  BY <1>1, <1>4, <1>5, <1>6, <1>7 DEF FileInv

AllParts(str) == \A i \in Starts(str) : IsItem(Part(str, i))

\* How far the connect string was read, if every part of it is an item
StringInv ==
    LET items == ItemsOf(written.file)
        str == written.string
    IN
    Clean(written.file) /\ AllParts(str) =>
        /\ step = "string" =>
              \/ \E i \in Starts(str) : /\ rest = SubSeq(str, i, Len(str))
                                        /\ Overridden(params, items, str, i)
              \/ ~Has(rest, "=") /\ Overridden(params, items, str, Len(str) + 2)
        /\ step = "done" /\ str # Nothing =>
              params = <<>> \/ Overridden(params, items, str, Len(str) + 2)

TextInv == FileInv /\ AskedWhere /\ StringInv

\* The invariant holds at the start
LEMMA TextStart == TInit => TextInv
<1> SUFFICES ASSUME TInit PROVE TextInv
  OBVIOUS
<1>1. step = "idle"
  BY Zenon DEF TInit
<1>2. AskedWhere /\ StringInv
  BY <1>1 DEF AskedWhere, StringInv
<1> QED
  BY <1>2, FileStart DEF TextInv

\* Only EndOfSection goes on to the connect string or the URL, besides Tester
LEMMA AskedKeeps == ASSUME TextInv, [TNext]_tvars PROVE AskedWhere'
<1>1. CASE UNCHANGED tvars
  BY <1>1, Zenon DEF TextInv, AskedWhere, tvars
<1>2. CASE \E u \in Urls : Tester(u)
  <2>1. PICK u \in Urls : Tester(u)
    BY <1>2
  <2>2. step = "idle" /\ step' = "url" /\ written' = [written EXCEPT !.url = u]
    BY <2>1, Zenon DEF Tester
  <2>3. written = [file |-> <<>>, string |-> Nothing, url |-> Nothing]
    BY <2>2, Zenon DEF TextInv, FileInv
  <2>4. written'.string = Nothing
    BY <2>2, <2>3
  <2> QED
    BY <2>2, <2>4 DEF AskedWhere
<1>3. CASE \E u \in Urls : \E f \in FilesWith(Text(u)), str \in Strings \cup {Nothing} :
              Configure(u, f, str)
  BY <1>3, Zenon DEF Configure, AskedWhere
<1>4. CASE FindSection
  <2>1. step' \in {"done", "item", "find"}
    BY <1>4, Zenon DEF FindSection
  <2> QED
    BY <2>1, Zenon DEF AskedWhere
<1>5. CASE EndOfSection
  BY <1>5, Zenon DEF EndOfSection, AskedWhere
<1>6. CASE GetNextItem
  <2>1. step' = "item"
    BY <1>6, Zenon DEF GetNextItem
  <2> QED
    BY <2>1 DEF AskedWhere
<1>7. CASE SetItem
  BY <1>7, Zenon DEF SetItem, AskedWhere, TextInv
<1>8. CASE SetByUrl
  <2>1. Settings(drda)
    BY Zenon DEF TextInv, FileInv, TextTypes, Settings
  <2>2. step = "url" /\ step' \in {"done", "option"} /\ written' = written
    BY <1>8, <2>1, SetByUrlTypes
  <2> QED
    BY <2>2, Zenon DEF AskedWhere, TextInv
<1>9. CASE SetOption
  <2>1. Settings(drda)
    BY Zenon DEF TextInv, FileInv, TextTypes, Settings
  <2>2. step = "option" /\ step' \in {step, "done"} /\ written' = written
    BY <1>9, <2>1, SetOptionTypes
  <2> QED
    BY <2>2, Zenon DEF AskedWhere, TextInv
<1> QED
  BY <1>1, <1>2, <1>3, <1>4, <1>5, <1>6, <1>7, <1>8, <1>9, Zenon DEF TNext

\* Every step keeps what was read of the file
LEMMA FileKeeps == ASSUME TextInv, [TNext]_tvars PROVE FileInv'
<1>1. CASE UNCHANGED tvars
  <2>1. UNCHANGED <<step, file, rest, sep, params, drda, written>>
    BY <1>1, Zenon DEF tvars
  <2>2. TextTypes'
    BY <2>1, Zenon DEF TextInv, FileInv, TextTypes
  <2>3. WrittenOK' /\ LinesRead' = LinesRead
    BY <2>1 DEF TextInv, FileInv, WrittenOK, LinesRead
  <2>4. Reading => Reading'
    BY <2>1, <2>3 DEF Reading
  <2>5. (Configured' <=> Configured) /\ (SectionHeld' <=> SectionHeld)
    BY <2>1 DEF Configured, SectionHeld
  <2> QED
    BY <2>1, <2>2, <2>3, <2>4, <2>5 DEF TextInv, FileInv
<1>2. CASE \E u \in Urls : Tester(u)
  BY <1>2, TesterKeeps DEF TextInv
<1>3. CASE \E u \in Urls : \E f \in FilesWith(Text(u)), str \in Strings \cup {Nothing} :
              Configure(u, f, str)
  BY <1>3, ConfigureKeeps DEF TextInv
<1>4. CASE FindSection
  BY <1>4, FindKeeps DEF TextInv
<1>5. CASE EndOfSection
  BY <1>5, EndKeeps DEF TextInv
<1>6. CASE GetNextItem
  BY <1>6, NextItemKeeps DEF TextInv
<1>7. CASE SetItem
  BY <1>7, SetItemKeeps DEF TextInv
<1>8. CASE SetByUrl
  BY <1>8, SetByUrlKeeps DEF TextInv
<1>9. CASE SetOption
  BY <1>9, SetOptionKeeps DEF TextInv
<1> QED
  BY <1>1, <1>2, <1>3, <1>4, <1>5, <1>6, <1>7, <1>8, <1>9, Zenon DEF TNext

\* The connect string is read from its first part
LEMMA StringStarts ==
    ASSUME TextInv, EndOfSection
    PROVE  StringInv'
<1> DEFINE f == written.file
           str == written.string
<1>1. UNCHANGED <<params, written>>
  BY Zenon DEF EndOfSection
<1>2. /\ step' = "string" => rest' = str
      /\ step' = "done" => str = Nothing
  BY Zenon DEF EndOfSection
<1>3. ASSUME Clean(f), AllParts(str), step' = "string"
      PROVE  1 \in Starts(str) /\ rest' = SubSeq(str, 1, Len(str))
             /\ Overridden(params, ItemsOf(f), str, 1)
  <2>1. SectionHeld
    BY <1>3, EndHolds DEF TextInv
  <2>2. str \in Seq(STRING)
    BY DEF TextInv, FileInv, WrittenOK
  <2>3. /\ Starts(str) = StartsBy(str, Semicolon)
        /\ StartsBy(str, Semicolon) \subseteq 1..(Len(str) + 1) /\ 1 \in StartsBy(str, Semicolon)
    BY <2>2, StartsParts, StartsAre
  <2>4. Starts(str) \subseteq Nat /\ (\A x \in Starts(str) : 1 <= x) /\ 1 \in Starts(str)
    BY <2>3
  <2>5. ItemsOf(f) \in Seq(Seq(STRING)) /\ Holds(params, ItemsOf(f), Len(ItemsOf(f)))
    BY <2>1 DEF SectionHeld
  <2>6. Overridden(params, ItemsOf(f), str, 1)
    BY <2>4, <2>5, OverrideFirst
  <2>7. SubSeq(str, 1, Len(str)) = str
    BY <2>2, SubSeqFull
  <2> QED
    BY <1>2, <1>3, <2>4, <2>6, <2>7
<1>4. CASE step' = "string"
  BY <1>1, <1>3, <1>4 DEF StringInv
<1>5. CASE step' # "string"
  BY <1>1, <1>2, <1>5 DEF StringInv
<1> QED
  BY <1>4, <1>5

\* The next item of the connect string
LEMMA StringGoesOn ==
    ASSUME TextInv, SetItem
    PROVE  StringInv'
<1> DEFINE items == ItemsOf(written.file)
           str == written.string
<1>1. /\ step = "string" /\ UNCHANGED <<file, sep, drda, written>>
      /\ ~Has(rest, "=") => step' = "done" /\ UNCHANGED <<rest, params>>
      /\ Has(rest, "=") =>
            LET values == After(rest, "=") IN
            /\ params' = Insert(params, NoTrailing(Before(rest, "="), Blank, 1),
                                NoLeading(Before(values, Semicolon), Blank))
            /\ rest' = IF Has(values, Semicolon) THEN After(values, Semicolon) ELSE values
            /\ step' = "string"
  BY Zenon DEF SetItem, Override, Blank, Semicolon
<1>2. str \in Seq(STRING)
  BY DEF TextInv, FileInv, WrittenOK
<1>3. SUFFICES ASSUME Clean(written.file), AllParts(str)
               PROVE  /\ step' = "string" =>
                            \/ \E i \in Starts(str) : /\ rest' = SubSeq(str, i, Len(str))
                                                      /\ Overridden(params', items, str, i)
                            \/ ~Has(rest', "=") /\ Overridden(params', items, str, Len(str) + 2)
                      /\ step' = "done" =>
                            params' = <<>> \/ Overridden(params', items, str, Len(str) + 2)
  BY <1>1 DEF StringInv
<1>4. \/ \E i \in Starts(str) : /\ rest = SubSeq(str, i, Len(str))
                                /\ Overridden(params, items, str, i)
      \/ ~Has(rest, "=") /\ Overridden(params, items, str, Len(str) + 2)
  BY <1>1, <1>3 DEF TextInv, StringInv
<1>5. CASE ~Has(rest, "=") /\ Overridden(params, items, str, Len(str) + 2)
  BY <1>1, <1>5
<1>6. CASE \E i \in Starts(str) : /\ rest = SubSeq(str, i, Len(str))
                                  /\ Overridden(params, items, str, i)
  <2>1. PICK i \in Starts(str) : /\ rest = SubSeq(str, i, Len(str))
                                 /\ Overridden(params, items, str, i)
    BY <1>6
  <2>2. /\ i \in StartsBy(str, Semicolon) /\ Starts(str) = StartsBy(str, Semicolon)
        /\ Part(str, i) = Before(rest, Semicolon) /\ IsItem(Part(str, i))
    BY <1>3, <2>1, StartsParts DEF AllParts
  <2>3. /\ rest \in Seq(STRING) /\ Len(str) \in Nat /\ i \in 1..(Len(str) + 1)
        /\ Has(rest, Semicolon) =>
              /\ i + First(rest, Semicolon) \in StartsBy(str, Semicolon)
              /\ After(rest, Semicolon) = SubSeq(str, i + First(rest, Semicolon), Len(str))
              /\ \A x \in StartsBy(str, Semicolon) :
                    x < i + First(rest, Semicolon) <=> x < i \/ x = i
        /\ ~Has(rest, Semicolon) => \A x \in StartsBy(str, Semicolon) : x < i \/ x = i
    <3> HIDE DEF items, str
    <3>1. rest = SubSeq(str, i, Len(str)) /\ i \in StartsBy(str, Semicolon) /\ str \in Seq(STRING)
      BY <1>2, <2>1, <2>2
    <3>2. rest \in Seq(STRING) /\ NextPart(str, Semicolon, i, rest)
      BY <3>1, NextStart
    <3> QED
      BY <3>2 DEF NextPart
  <2>4. /\ Has(rest, "=")
        /\ Before(rest, "=") = Before(Part(str, i), "=")
        /\ Before(After(rest, "="), Semicolon) = After(Part(str, i), "=")
        /\ Has(After(rest, "="), Semicolon) <=> Has(rest, Semicolon)
        /\ Has(rest, Semicolon) => After(After(rest, "="), Semicolon) = After(rest, Semicolon)
        /\ ~Has(rest, Semicolon) => ~Has(After(rest, "="), "=")
    BY <2>2, <2>3, SemicolonIsNoEquals, PartOfRest
  <2>5. step' = "string" /\ params' = Insert(params, NameOf(Part(str, i)), ValueOf(Part(str, i)))
    BY <1>1, <2>4, BlankNames
  <2>6. Starts(str) \subseteq Nat
    <3>1. StartsBy(str, Semicolon) \subseteq 1..(Len(str) + 1)
      BY <1>2, StartsAre
    <3> QED
      BY <2>2, <3>1
  <2>7. CASE Has(rest, Semicolon)
    <3>1. PICK q : q = i + First(rest, Semicolon)
      OBVIOUS
    <3>2. rest' = SubSeq(str, q, Len(str)) /\ q \in Starts(str)
      BY <1>1, <2>2, <2>3, <2>4, <2>7, <3>1
    <3>3. \A x \in Starts(str) : x < q <=> x < i \/ x = i
      BY <2>2, <2>3, <2>7, <3>1
    <3>4. Overridden(params', items, str, q)
      <4> HIDE DEF items, str
      <4> QED
        BY <2>1, <2>5, <2>6, <3>3, OverrideNext
    <3> QED
      BY <2>5, <3>2, <3>4
  <2>8. CASE ~Has(rest, Semicolon)
    <3>1. rest' = After(rest, "=") /\ ~Has(rest', "=")
      BY <1>1, <2>4, <2>8
    <3>2. PICK q : q = Len(str) + 2
      OBVIOUS
    <3>3. \A x \in Starts(str) : x < q <=> x < i \/ x = i
      <4>1. \A x \in Starts(str) : x < i \/ x = i
        BY <2>2, <2>3, <2>8
      <4>2. \A x \in Starts(str) : x \in 1..(Len(str) + 1)
        BY <1>2, <2>2, StartsAre
      <4>3. \A x \in Starts(str) : x < q
        BY <2>3, <3>2, <4>2
      <4> QED
        BY <4>1, <4>3
    <3>4. Overridden(params', items, str, q)
      <4> HIDE DEF items, str
      <4> QED
        BY <2>1, <2>5, <2>6, <3>3, OverrideNext
    <3> QED
      BY <2>5, <3>1, <3>2, <3>4
  <2> QED
    BY <2>7, <2>8
<1> QED
  BY <1>4, <1>5, <1>6

\* Every step keeps what was read of the connect string
LEMMA StringKeeps == ASSUME TextInv, [TNext]_tvars PROVE StringInv'
<1>1. CASE UNCHANGED tvars
  BY <1>1 DEF TextInv, StringInv, tvars
<1>2. CASE \E u \in Urls : Tester(u)
  <2>1. step' = "url"
    BY <1>2, Zenon DEF Tester
  <2> QED
    BY <2>1 DEF StringInv
<1>3. CASE \E u \in Urls : \E f \in FilesWith(Text(u)), str \in Strings \cup {Nothing} :
              Configure(u, f, str)
  <2>1. step' = "find"
    BY <1>3, Zenon DEF Configure
  <2> QED
    BY <2>1 DEF StringInv
<1>4. CASE FindSection
  <2>1. step' \in {"done", "item", "find"} /\ params' = params /\ params = <<>>
    BY <1>4, Zenon DEF FindSection, TextInv, FileInv
  <2> QED
    BY <2>1 DEF StringInv
<1>5. CASE EndOfSection
  BY <1>5, StringStarts
<1>6. CASE GetNextItem
  <2>1. step' = "item"
    BY <1>6, Zenon DEF GetNextItem
  <2> QED
    BY <2>1 DEF StringInv
<1>7. CASE SetItem
  BY <1>7, StringGoesOn
<1>8. CASE SetByUrl
  <2>1. Settings(drda)
    BY Zenon DEF TextInv, FileInv, TextTypes, Settings
  <2>2. step = "url" /\ step' \in {"done", "option"} /\ written' = written
    BY <1>8, <2>1, SetByUrlTypes
  <2>3. written'.string = Nothing /\ step' # "string"
    BY <2>2, Zenon DEF AskedWhere, TextInv
  <2> QED
    BY <2>3 DEF StringInv
<1>9. CASE SetOption
  <2>1. Settings(drda)
    BY Zenon DEF TextInv, FileInv, TextTypes, Settings
  <2>2. step = "option" /\ step' \in {step, "done"} /\ written' = written
    BY <1>9, <2>1, SetOptionTypes
  <2>3. written'.string = Nothing /\ step' # "string"
    BY <2>2, Zenon DEF AskedWhere, TextInv
  <2> QED
    BY <2>3 DEF StringInv
<1> QED
  BY <1>1, <1>2, <1>3, <1>4, <1>5, <1>6, <1>7, <1>8, <1>9, Zenon DEF TNext

(* The inductive invariant: what was read of the file, what of the connect *)
(* string, and which of the two the steps come from.                       *)
LEMMA TextAlways == TextSpec => []TextInv
<1>1. TextInv /\ [TNext]_tvars => TextInv'
  BY AskedKeeps, FileKeeps, StringKeeps DEF TextInv
<1> QED
  BY <1>1, TextStart, PTL DEF TextSpec

\* What it says of the types
LEMMA TextTyped == TextInv => TextTypeOK
<1> SUFFICES ASSUME TextInv PROVE TextTypeOK
  OBVIOUS
<1>1. Len(file) <= Len(written.file)
  <2>1. Len(written.file) \in Nat /\ Len(file) \in 0..Len(written.file)
    BY TextElements DEF TextInv, FileInv, WrittenOK
  <2> QED
    BY <2>1
<1> QED
  BY <1>1, Zenon DEF TextInv, FileInv, TextTypes, TextTypeOK

(* The settings keep their fields and know no other option; of the file no *)
(* more is left than was written.                                          *)
THEOREM TextTypesKept == TextSpec => []TextTypeOK
BY TextTyped, TextAlways, PTL

(* LoadDSN() leaves in the table the items of the data source's section,   *)
(* and nothing of another, for every file.                                 *)
THEOREM SectionInTable == TextSpec => []ItemsOfSection
<1>1. TextInv => ItemsOfSection
  <2> SUFFICES ASSUME TextInv, Configured, written.string = Nothing
               PROVE  LET items == ItemsOf(written.file) IN
                      /\ DOMAIN params = {NameOf(items[i]) : i \in DOMAIN items}
                      /\ \A n \in DOMAIN params : params[n] = LastValue(items, n)
    BY DEF ItemsOfSection
  <2>1. SectionHeld
    BY DEF TextInv, FileInv
  <2> QED
    BY <2>1, HeldLast DEF SectionHeld
<1> QED
  BY <1>1, TextAlways, PTL

(* SetConnectString() puts what the connect string gives over what the     *)
(* section says, for every file and every string.                          *)
THEOREM StringOverSection == TextSpec => []StringOverrides
<1>1. TextInv => StringOverrides
  <2> DEFINE items == ItemsOf(written.file)
             str == written.string
             given(n) == {i \in Starts(str) : NameOf(Part(str, i)) = n}
  <2> SUFFICES ASSUME TextInv, Configured, str # Nothing, step = "done", AllParts(str), params # <<>>
               PROVE  /\ DOMAIN params = {NameOf(items[k]) : k \in DOMAIN items}
                                         \cup {NameOf(Part(str, i)) : i \in Starts(str)}
                      /\ \A n \in DOMAIN params :
                            IF given(n) = {} THEN params[n] = LastValue(items, n)
                            ELSE \A i \in given(n) :
                                    (\A j \in given(n) : j <= i) => params[n] = ValueOf(Part(str, i))
    <3>1. params = <<>> => DOMAIN params = {}
      BY EmptySeq
    <3> QED
      BY <3>1 DEF StringOverrides, AllParts
  <2>1. Overridden(params, items, str, Len(str) + 2)
    BY DEF TextInv, StringInv, Configured
  <2>2. str \in Seq(STRING)
    BY DEF TextInv, FileInv, WrittenOK
  <2>3. \A x \in Starts(str) : x < Len(str) + 2
    <3>1. Len(str) \in Nat /\ Starts(str) \subseteq 1..(Len(str) + 1)
      BY <2>2, TextElements, StartsParts, StartsAre
    <3> QED
      BY <3>1
  <2> HIDE DEF str, items
  <2>4. {x \in Starts(str) : x < Len(str) + 2} = Starts(str)
    BY <2>3
  <2>5. DOMAIN params = {NameOf(items[k]) : k \in DOMAIN items}
                        \cup {NameOf(Part(str, i)) : i \in Starts(str)}
    BY <2>1, <2>4 DEF Overridden
  <2>6. ASSUME NEW n \in DOMAIN params, given(n) = {}
        PROVE  params[n] = LastValue(items, n)
    BY <2>1, <2>6 DEF Overridden
  <2>7. ASSUME NEW n \in DOMAIN params, NEW i \in given(n), \A j \in given(n) : j <= i
        PROVE  params[n] = ValueOf(Part(str, i))
    BY <2>1, <2>3, <2>7 DEF Overridden
  <2> QED
    BY <2>5, <2>6, <2>7
<1> QED
  BY <1>1, TextAlways, PTL

-----------------------------------------------------------------------------
(* Texts put together.                                                     *)

\* What is in two texts
LEMMA ConcatHas ==
    ASSUME NEW S, NEW a \in Seq(S), NEW b \in Seq(S), NEW c
    PROVE  a \o b \in Seq(S) /\ (Has(a \o b, c) <=> Has(a, c) \/ Has(b, c))
<1>1. /\ Len(a) \in Nat /\ Len(b) \in Nat /\ DOMAIN a = 1..Len(a) /\ DOMAIN b = 1..Len(b)
  BY TextElements
<1>2. PICK t \in Seq(S) : /\ t = a \o b /\ Len(t) = Len(a) + Len(b)
                          /\ \A i \in 1..(Len(a) + Len(b)) :
                                t[i] = IF i <= Len(a) THEN a[i] ELSE b[i - Len(a)]
  <2>1. /\ a \o b \in Seq(S) /\ Len(a \o b) = Len(a) + Len(b)
        /\ \A i \in 1..(Len(a) + Len(b)) :
              (a \o b)[i] = IF i <= Len(a) THEN a[i] ELSE b[i - Len(a)]
    BY ConcatProperties
  <2> QED
    BY <2>1
<1>3. DOMAIN t = 1..(Len(a) + Len(b))
  BY <1>2, TextElements
<1>4. ASSUME Has(t, c) PROVE Has(a, c) \/ Has(b, c)
  <2>1. PICK i \in 1..(Len(a) + Len(b)) : t[i] = c
    BY <1>3, <1>4 DEF Has
  <2>2. CASE i <= Len(a)
    BY <1>1, <1>2, <2>1, <2>2 DEF Has
  <2>3. CASE ~(i <= Len(a))
    <3>1. i - Len(a) \in DOMAIN b /\ b[i - Len(a)] = c
      BY <1>1, <1>2, <2>1, <2>3
    <3> QED
      BY <3>1 DEF Has
  <2> QED
    BY <2>2, <2>3
<1>5. ASSUME Has(a, c) PROVE Has(t, c)
  <2>1. PICK i \in 1..Len(a) : a[i] = c
    BY <1>1, <1>5 DEF Has
  <2>2. i \in 1..(Len(a) + Len(b)) /\ i <= Len(a)
    BY <1>1
  <2> QED
    BY <1>2, <1>3, <2>1, <2>2 DEF Has
<1>6. ASSUME Has(b, c) PROVE Has(t, c)
  <2>1. PICK i \in 1..Len(b) : b[i] = c
    BY <1>1, <1>6 DEF Has
  <2>2. PICK k \in 1..(Len(a) + Len(b)) : k = Len(a) + i
    BY <1>1
  <2>3. ~(k <= Len(a)) /\ k - Len(a) = i
    BY <1>1, <2>2
  <2> QED
    BY <1>2, <1>3, <2>1, <2>3 DEF Has
<1> QED
  BY <1>2, <1>4, <1>5, <1>6

\* A text of one character
LEMMA LoneCharacter ==
    ASSUME NEW S, NEW c \in S
    PROVE  <<c>> \in Seq(S) /\ Len(<<c>>) = 1 /\ <<c>>[1] = c /\ \A x : Has(<<c>>, x) <=> x = c
<1>1. <<c>> \in Seq(S) /\ Len(<<c>>) = 1 /\ <<c>>[1] = c
  OBVIOUS
<1>2. DOMAIN <<c>> = 1..1
  BY <1>1, TextElements
<1>3. DOMAIN <<c>> = {1}
  BY <1>2
<1>4. \A x : Has(<<c>>, x) <=> x = c
  BY <1>1, <1>3 DEF Has
<1> QED
  BY <1>1, <1>4

\* A text is cut where two were put together
IsCut(S, t, c, a, b) == t \in Seq(S) /\ Has(t, c) /\ Before(t, c) = a /\ After(t, c) = b

\* A cut where the character is put
LEMMA CutThere ==
    ASSUME NEW S, NEW a \in Seq(S), NEW b \in Seq(S), NEW c \in S, ~Has(a, c)
    PROVE  IsCut(S, a \o (<<c>> \o b), c, a, b)
<1>1. PICK d \in Seq(S) : d = <<c>> \o b /\ Len(d) = 1 + Len(b) /\ d[1] = c
                          /\ \A i \in 1..Len(b) : d[1 + i] = b[i]
  <2>1. /\ <<c>> \in Seq(S) /\ Len(<<c>>) = 1 /\ <<c>>[1] = c /\ Len(b) \in Nat
    BY LoneCharacter, TextElements
  <2>2. PICK x \in Seq(S) : x = <<c>>
    BY <2>1
  <2>3. /\ x \o b \in Seq(S) /\ Len(x \o b) = Len(x) + Len(b)
        /\ \A i \in 1..(Len(x) + Len(b)) :
              (x \o b)[i] = IF i <= Len(x) THEN x[i] ELSE b[i - Len(x)]
    BY ConcatProperties
  <2>4. PICK y : y = x \o b
    OBVIOUS
  <2>5. y[1] = c /\ \A i \in 1..Len(b) : y[1 + i] = b[i]
    BY <2>1, <2>2, <2>3, <2>4
  <2>6. y \in Seq(S) /\ Len(y) = 1 + Len(b) /\ y = <<c>> \o b
    BY <2>1, <2>2, <2>3, <2>4
  <2> QED
    BY <2>5, <2>6
<1>2. PICK t \in Seq(S) : /\ t = a \o d /\ Len(t) = Len(a) + Len(d)
                          /\ \A i \in 1..(Len(a) + Len(d)) :
                                t[i] = IF i <= Len(a) THEN a[i] ELSE d[i - Len(a)]
  <2>1. /\ a \o d \in Seq(S) /\ Len(a \o d) = Len(a) + Len(d)
        /\ \A i \in 1..(Len(a) + Len(d)) :
              (a \o d)[i] = IF i <= Len(a) THEN a[i] ELSE d[i - Len(a)]
    BY ConcatProperties
  <2> QED
    BY <2>1
<1>3. Len(a) \in Nat /\ Len(b) \in Nat /\ DOMAIN a = 1..Len(a)
  BY TextElements
<1>4. PICK k \in 1..Len(t) : k = Len(a) + 1
  BY <1>1, <1>2, <1>3
<1>5. t[k] = c
  <2>1. k \in 1..(Len(a) + Len(d)) /\ ~(k <= Len(a)) /\ k - Len(a) = 1
    BY <1>1, <1>2, <1>3, <1>4
  <2> QED
    BY <1>1, <1>2, <2>1
<1>6. \A j \in 1..(k - 1) : t[j] = a[j] /\ a[j] # c
  <2>1. \A j \in 1..(k - 1) : j \in 1..(Len(a) + Len(d)) /\ j <= Len(a) /\ j \in DOMAIN a
    BY <1>1, <1>3, <1>4
  <2> QED
    BY <1>2, <2>1 DEF Has
<1>7. Has(t, c) /\ First(t, c) = k
  BY <1>5, <1>6, FirstIs
<1>8. IsParted(S, t, c, k, Before(t, c), After(t, c))
  BY <1>7, PartedAt
<1>9. Before(t, c) = a
  <2>1. /\ Before(t, c) \in Seq(S) /\ Len(Before(t, c)) = k - 1
        /\ \A i \in 1..(k - 1) : Before(t, c)[i] = t[i]
    BY <1>8 DEF IsParted
  <2>2. Len(Before(t, c)) = Len(a)
    BY <1>3, <1>4, <2>1
  <2>3. \A i \in 1..Len(a) : Before(t, c)[i] = a[i]
    BY <1>3, <1>4, <1>6, <2>1
  <2> QED
    BY <2>1, <2>2, <2>3, SeqEqual
<1>10. After(t, c) = b
  <2>1. /\ After(t, c) \in Seq(S) /\ Len(After(t, c)) = Len(t) - k
        /\ \A i \in 1..(Len(t) - k) : After(t, c)[i] = t[k + i]
    BY <1>8 DEF IsParted
  <2>2. Len(t) - k = Len(b)
    BY <1>1, <1>2, <1>3, <1>4
  <2>3. ASSUME NEW i \in 1..Len(b) PROVE After(t, c)[i] = b[i]
    <3>1. k + i \in 1..(Len(a) + Len(d)) /\ ~(k + i <= Len(a)) /\ (k + i) - Len(a) = 1 + i
      BY <1>1, <1>2, <1>3, <1>4
    <3>2. t[k + i] = d[1 + i]
      BY <1>2, <3>1
    <3> QED
      BY <1>1, <2>1, <2>2, <3>2
  <2> QED
    BY <2>1, <2>2, <2>3, SeqEqual
<1> QED
  BY <1>1, <1>2, <1>7, <1>9, <1>10 DEF IsCut

-----------------------------------------------------------------------------
(* The text of the options of a URL: what Options defines by recursion.    *)

OptionText(u, i) == <<u.by>> \o u.options[Len(u.options) + 1 - i]

\* g has the texts of the last options, up to n of them
TextsUpTo(u, n, g) ==
    /\ DOMAIN g = 0..n /\ g[0] = <<>>
    /\ \A i \in 1..n : g[i] = OptionText(u, i) \o g[i - 1]

\* There are texts of the last options, however many
LEMMA TextsExist == \A u : \A n \in Nat : \E g : TextsUpTo(u, n, g)
<1> TAKE u
<1> DEFINE T == {n \in Nat : ~\E g : TextsUpTo(u, n, g)}
<1> SUFFICES ASSUME T # {} PROVE FALSE
  OBVIOUS
<1>1. PICK n \in T : \A m \in T : n <= m
  BY LeastNumber
<1>2. n # 0
  <2>1. TextsUpTo(u, 0, [i \in 0..0 |-> <<>>])
    BY DEF TextsUpTo
  <2> QED
    BY <2>1
<1>3. PICK g : TextsUpTo(u, n - 1, g)
  <2>1. n - 1 \in Nat /\ ~(n <= n - 1)
    BY <1>2
  <2> QED
    BY <1>1, <2>1
<1> DEFINE h == [i \in 0..n |-> IF i = n THEN OptionText(u, n) \o g[n - 1] ELSE g[i]]
<1>4. n \in Nat /\ n \in 1..n /\ 0 \in 0..n /\ \A i \in 1..n : i - 1 \in 0..n /\ i - 1 # n /\ i \in 0..n
  BY <1>2
<1>5. DOMAIN h = 0..n /\ h[0] = <<>>
  BY <1>2, <1>3, <1>4 DEF TextsUpTo
<1>6. \A i \in 1..n : h[i] = OptionText(u, i) \o h[i - 1]
  <2> SUFFICES ASSUME NEW i \in 1..n PROVE h[i] = OptionText(u, i) \o h[i - 1]
    OBVIOUS
  <2>1. h[i - 1] = g[i - 1]
    BY <1>4
  <2>2. i # n => h[i] = g[i] /\ i \in 1..(n - 1)
    BY <1>4
  <2>3. i = n => h[i] = OptionText(u, n) \o g[n - 1]
    BY <1>4
  <2> HIDE DEF h
  <2> QED
    BY <1>3, <2>1, <2>2, <2>3 DEF TextsUpTo
<1>7. TextsUpTo(u, n, h)
  <2> HIDE DEF h
  <2> QED
    BY <1>5, <1>6 DEF TextsUpTo
<1> QED
  BY <1>7

\* They agree with those of more options
LEMMA TextsAgree ==
    \A u : \A n \in Nat, m \in Nat : \A g, h :
        TextsUpTo(u, n, g) /\ TextsUpTo(u, m, h) => \A i \in 0..n : i <= m => g[i] = h[i]
<1> SUFFICES ASSUME NEW u, NEW n \in Nat, NEW m \in Nat, NEW g, NEW h,
                    TextsUpTo(u, n, g), TextsUpTo(u, m, h)
             PROVE  \A i \in 0..n : i <= m => g[i] = h[i]
  OBVIOUS
<1> DEFINE T == {i \in 0..n : i <= m /\ g[i] # h[i]}
<1> SUFFICES ASSUME T # {} PROVE FALSE
  OBVIOUS
<1>1. T \in SUBSET Nat
  OBVIOUS
<1>2. PICK i \in T : \A j \in T : i <= j
  <2> HIDE DEF T
  <2> QED
    BY <1>1, LeastNumber
<1>3. i # 0
  BY DEF TextsUpTo
<1>4. i - 1 \in 0..n /\ i - 1 <= m /\ ~(i <= i - 1) /\ i \in 1..n /\ i \in 1..m
  BY <1>3
<1>5. g[i - 1] = h[i - 1]
  BY <1>2, <1>4
<1> QED
  BY <1>4, <1>5 DEF TextsUpTo

\* The text of the last options, one more at a time
LEMMA OptionsEquation ==
    ASSUME NEW u
    PROVE  /\ Options(u, 0) = <<>>
           /\ \A n \in Nat : n > 0 => Options(u, n) = OptionText(u, n) \o Options(u, n - 1)
<1> DEFINE Some(n) == CHOOSE g : TextsUpTo(u, n, g)
           f == [n \in Nat |-> Some(n)[n]]
           IsLast(t) == t = [k \in Nat |-> IF k = 0 THEN <<>>
                                ELSE <<u.by>> \o u.options[Len(u.options) + 1 - k] \o t[k - 1]]
           last == CHOOSE t : IsLast(t)
<1>1. \A n \in Nat : TextsUpTo(u, n, Some(n))
  BY TextsExist
<1> HIDE DEF Some
<1>2. f[0] = <<>>
  BY <1>1 DEF TextsUpTo
<1>3. \A n \in Nat : n # 0 => f[n] = OptionText(u, n) \o f[n - 1]
  <2> SUFFICES ASSUME NEW n \in Nat, n # 0 PROVE f[n] = OptionText(u, n) \o f[n - 1]
    OBVIOUS
  <2>1. n - 1 \in Nat /\ n - 1 \in 0..n /\ n \in 1..n /\ n - 1 \in 0..(n - 1) /\ n - 1 <= n
    OBVIOUS
  <2>2. f[n] = OptionText(u, n) \o Some(n)[n - 1]
    BY <1>1, <2>1 DEF TextsUpTo
  <2>3. Some(n)[n - 1] = Some(n - 1)[n - 1]
    <3>1. TextsUpTo(u, n, Some(n)) /\ TextsUpTo(u, n - 1, Some(n - 1))
      BY <1>1, <2>1
    <3> QED
      BY <2>1, <3>1, TextsAgree
  <2> QED
    BY <2>1, <2>2, <2>3
<1>4. IsLast(f)
  <2>1. f = [n \in Nat |-> f[n]]
    OBVIOUS
  <2> HIDE DEF f
  <2>2. \A n \in Nat : f[n] = IF n = 0 THEN <<>>
                              ELSE <<u.by>> \o u.options[Len(u.options) + 1 - n] \o f[n - 1]
    BY <1>2, <1>3 DEF OptionText
  <2> QED
    BY <2>1, <2>2
<1>5. IsLast(last)
  <2> HIDE DEF f, IsLast
  <2> QED
    BY <1>4
<1>6. \A n : Options(u, n) = last[n]
  BY Zenon DEF Options
<1> HIDE DEF last
<1>7. last[0] = <<>> /\ \A n \in Nat : n > 0 => last[n] = OptionText(u, n) \o last[n - 1]
  <2>1. PICK t : t = last /\ IsLast(t)
    BY <1>5
  <2>2. \A n \in Nat : t[n] = IF n = 0 THEN <<>>
                               ELSE <<u.by>> \o u.options[Len(u.options) + 1 - n] \o t[n - 1]
    BY <2>1
  <2>3. t[0] = <<>> /\ \A n \in Nat : n > 0 => t[n] = OptionText(u, n) \o t[n - 1]
    <3>1. t[0] = <<>>
      BY <2>2
    <3>2. ASSUME NEW n \in Nat, n > 0 PROVE t[n] = OptionText(u, n) \o t[n - 1]
      <4>1. t[n] = <<u.by>> \o u.options[Len(u.options) + 1 - n] \o t[n - 1]
        <5>1. n # 0
          BY <3>2
        <5> QED
          BY <2>2, <5>1, Zenon
      <4> QED
        BY <4>1 DEF OptionText
    <3> QED
      BY <3>1, <3>2
  <2> QED
    BY <2>1, <2>3
<1> QED
  BY <1>6, <1>7

\* Its characters are those of the options, and what separates them
LEMMA OptionsHave ==
    ASSUME NEW S, NEW u, u.options \in Seq(Seq(S)), u.by \in S
    PROVE  \A n \in 0..Len(u.options) :
              /\ Options(u, n) \in Seq(S)
              /\ \A c : Has(Options(u, n), c) =>
                         c = u.by \/ \E i \in DOMAIN u.options : Has(u.options[i], c)
<1> DEFINE Good(n) == /\ Options(u, n) \in Seq(S)
                      /\ \A c : Has(Options(u, n), c) =>
                                 c = u.by \/ \E i \in DOMAIN u.options : Has(u.options[i], c)
           T == {n \in 0..Len(u.options) : ~Good(n)}
<1>1. Len(u.options) \in Nat /\ DOMAIN u.options = 1..Len(u.options)
      /\ \A i \in 1..Len(u.options) : u.options[i] \in Seq(S)
  <2>1. PICK o \in Seq(Seq(S)) : o = u.options
    OBVIOUS
  <2>2. Len(o) \in Nat /\ DOMAIN o = 1..Len(o) /\ \A i \in 1..Len(o) : o[i] \in Seq(S)
    BY TextElements
  <2> QED
    BY <2>1, <2>2
<1> SUFFICES ASSUME T # {} PROVE FALSE
  <2> HIDE DEF Good
  <2> QED
    BY DEF Good
<1>2. PICK n \in T : \A m \in T : n <= m
  <2>1. T \in SUBSET Nat
    BY <1>1
  <2> HIDE DEF T
  <2> QED
    BY <2>1, LeastNumber
<1>3. n \in 0..Len(u.options) /\ ~Good(n)
  <2> HIDE DEF Good
  <2> QED
    BY <1>2
<1>4. n # 0
  <2>1. Options(u, 0) = <<>> /\ <<>> \in Seq(S) /\ \A c : ~Has(<<>>, c)
    BY OptionsEquation, EmptySeq DEF Has
  <2>2. Good(0)
    BY <2>1
  <2> HIDE DEF Good
  <2> QED
    BY <1>3, <2>2
<1>5. n \in Nat /\ n - 1 \in 0..Len(u.options) /\ ~(n <= n - 1) /\ n > 0
      /\ Len(u.options) + 1 - n \in 1..Len(u.options)
  BY <1>1, <1>3, <1>4
<1>6. Good(n - 1)
  <2> HIDE DEF Good
  <2>1. n - 1 \in T => n <= n - 1
    BY <1>2
  <2> QED
    BY <1>5, <2>1
<1>7. PICK i \in DOMAIN u.options : i = Len(u.options) + 1 - n /\ u.options[i] \in Seq(S)
  BY <1>1, <1>5
<1>8. PICK o \in Seq(S) : o = u.options[i]
  BY <1>7
<1>9. PICK r \in Seq(S) : r = Options(u, n - 1)
  BY <1>6
<1>10. Options(u, n) = (<<u.by>> \o o) \o r
  BY <1>5, <1>7, <1>8, <1>9, OptionsEquation DEF OptionText
<1>11. <<u.by>> \in Seq(S) /\ \A c : Has(<<u.by>>, c) <=> c = u.by
  BY LoneCharacter
<1>12. <<u.by>> \o o \in Seq(S) /\ \A c : Has(<<u.by>> \o o, c) <=> c = u.by \/ Has(o, c)
  BY <1>11, ConcatHas
<1>13. PICK w \in Seq(S) : w = <<u.by>> \o o
  BY <1>12
<1>14. w \o r \in Seq(S) /\ \A c : Has(w \o r, c) <=> Has(w, c) \/ Has(r, c)
  BY ConcatHas
<1>15. \A c : Has(w \o r, c) => c = u.by \/ \E k \in DOMAIN u.options : Has(u.options[k], c)
  BY <1>6, <1>7, <1>8, <1>9, <1>12, <1>13, <1>14
<1>16. Good(n)
  BY <1>10, <1>13, <1>14, <1>15
<1> QED
  <2> HIDE DEF Good
  <2> QED
    BY <1>3, <1>16

-----------------------------------------------------------------------------
(* The text of a URL, put together from its end.                           *)

\* The characters that are looked for are characters
Characters == STRING \cup {"://", "@", ".", ":", "/", "drda", Semicolon}

\* A sequence of some things is one of more things
LEMMA MoreThings ==
    ASSUME NEW S, NEW T, S \subseteq T, NEW t \in Seq(S)
    PROVE  t \in Seq(T)
<1>1. Len(t) \in Nat /\ t \in [1..Len(t) -> S]
  BY LenProperties
<1>2. t \in [1..Len(t) -> T]
  BY <1>1
<1> QED
  BY <1>1, <1>2, SeqDef

\* What a well-formed URL is
LEMMA UrlParts ==
    ASSUME NEW u, WellFormed(u)
    PROVE  /\ u.scheme \in Seq(STRING)
           /\ u.user \in Seq(STRING) /\ u.passwd \in Seq(STRING) /\ u.server \in Seq(STRING)
           /\ u.port \in Seq(STRING) /\ u.database \in Seq(STRING)
           /\ u.options \in Seq(Seq(STRING)) /\ u.by \in {Semicolon, ":"}
           /\ \A c \in {"://", "@", ".", ":"} : ~Has(u.user, c)
           /\ \A c \in {"://", "@", ":"} : ~Has(u.passwd, c)
           /\ \A c \in {"://", "@", "/", ":"} : ~Has(u.server, c)
           /\ \A c \in {"://", "@", "/"} : ~Has(u.port, c)
           /\ \A c \in {"://", "@", Semicolon, ":"} : ~Has(u.database, c)
           /\ \A i \in DOMAIN u.options :
                 \A c \in {"://", "@", Semicolon, Blank, u.by} : ~Has(u.options[i], c)
BY Zenon DEF WellFormed, Lacks, Semicolon, Blank

\* What SetByUrl() looks for differs from what ends the options
LEMMA SemicolonDiffers ==
    Semicolon # "://" /\ Semicolon # "@" /\ Semicolon # "." /\ Semicolon # ":" /\ Semicolon # "/"
BY Zenon DEF Semicolon

\* Its parts are texts of characters
LEMMA UrlTypes ==
    ASSUME NEW u, WellFormed(u)
    PROVE  /\ u.scheme \in Seq(Characters) /\ u.user \in Seq(Characters)
           /\ u.passwd \in Seq(Characters) /\ u.server \in Seq(Characters)
           /\ u.port \in Seq(Characters) /\ u.database \in Seq(Characters)
           /\ u.options \in Seq(Seq(Characters)) /\ u.by \in Characters
           /\ "://" \in Characters /\ "@" \in Characters /\ "." \in Characters
           /\ ":" \in Characters /\ "/" \in Characters /\ "drda" \in Characters
<1>1. STRING \subseteq Characters
  BY DEF Characters
<1>2. \A t \in Seq(STRING) : t \in Seq(Characters)
  BY <1>1, MoreThings
<1>3. Seq(STRING) \subseteq Seq(Characters)
  BY <1>2
<1>4. PICK o \in Seq(Seq(STRING)) : o = u.options
  BY UrlParts
<1>5. o \in Seq(Seq(Characters))
  BY <1>3, MoreThings
<1>6. u.by \in Characters
  BY UrlParts DEF Characters
<1>7. /\ "://" \in Characters /\ "@" \in Characters /\ "." \in Characters
      /\ ":" \in Characters /\ "/" \in Characters /\ "drda" \in Characters
  BY DEF Characters
<1> QED
  BY <1>2, <1>4, <1>5, <1>6, <1>7, UrlParts

\* Brackets make no difference
Associate(a, b, c) == (a \o b) \o c = a \o (b \o c)
FourSame(a, b, c, d) == a \o b \o c \o d = a \o (b \o (c \o d))
SevenSame(a, b, s, p, x, d, o) ==
    a \o b \o s \o p \o x \o d \o o = a \o (b \o ((s \o p) \o (x \o (d \o o))))
FiveSame(a, b, s, p, z) == a \o b \o s \o p \o z = a \o (b \o ((s \o p) \o z))

\* So for three texts
LEMMA ThreeTexts ==
    ASSUME NEW S, NEW a \in Seq(S), NEW b \in Seq(S), NEW c \in Seq(S)
    PROVE  Associate(a, b, c)
BY ConcatAssociative DEF Associate

\* for four
LEMMA FourTexts ==
    ASSUME NEW S, NEW a \in Seq(S), NEW b \in Seq(S), NEW c \in Seq(S), NEW d \in Seq(S)
    PROVE  FourSame(a, b, c, d)
<1>1. a \o b \in Seq(S) /\ c \o d \in Seq(S)
  BY ConcatProperties
<1>2. ((a \o b) \o c) \o d = (a \o b) \o (c \o d)
  BY <1>1, ConcatAssociative, SMTT(30)
<1>3. (a \o b) \o (c \o d) = a \o (b \o (c \o d))
  BY <1>1, ConcatAssociative, SMTT(30)
<1> QED
  BY <1>2, <1>3 DEF FourSame

\* for five
LEMMA FiveTexts ==
    ASSUME NEW S, NEW a \in Seq(S), NEW b \in Seq(S), NEW s \in Seq(S), NEW p \in Seq(S),
           NEW z \in Seq(S)
    PROVE  FiveSame(a, b, s, p, z)
<1>1. a \o b \in Seq(S) /\ s \o p \in Seq(S)
  BY ConcatProperties
<1>2. PICK ab \in Seq(S) : ab = a \o b
  BY <1>1
<1>3. FourSame(ab, s, p, z)
  BY FourTexts
<1>4. Associate(s, p, z)
  BY ThreeTexts
<1>5. PICK w \in Seq(S) : w = (s \o p) \o z
  <2>1. (s \o p) \o z \in Seq(S)
    BY <1>1, ConcatProperties
  <2> QED
    BY <2>1
<1>6. Associate(a, b, w)
  BY ThreeTexts
<1> QED
  BY <1>2, <1>3, <1>4, <1>5, <1>6, Zenon DEF FourSame, Associate, FiveSame

\* and for seven
LEMMA SevenTexts ==
    ASSUME NEW S, NEW a \in Seq(S), NEW b \in Seq(S), NEW s \in Seq(S), NEW p \in Seq(S),
           NEW x \in Seq(S), NEW d \in Seq(S), NEW o \in Seq(S)
    PROVE  SevenSame(a, b, s, p, x, d, o)
<1>1. a \o b \o s \o p \in Seq(S)
  <2>1. PICK y \in Seq(S) : y = a \o b
    BY ConcatProperties
  <2>2. PICK w \in Seq(S) : w = y \o s
    BY ConcatProperties
  <2>3. w \o p \in Seq(S)
    BY ConcatProperties
  <2> QED
    BY <2>1, <2>2, <2>3, Zenon
<1>2. PICK y \in Seq(S) : y = a \o b \o s \o p
  BY <1>1
<1>3. FourSame(y, x, d, o)
  BY FourTexts
<1>4. PICK z \in Seq(S) : z = x \o (d \o o)
  <2>1. PICK w \in Seq(S) : w = d \o o
    BY ConcatProperties
  <2>2. x \o w \in Seq(S)
    BY ConcatProperties
  <2> QED
    BY <2>1, <2>2, Zenon
<1>5. FiveSame(a, b, s, p, z)
  BY FiveTexts
<1> QED
  BY <1>2, <1>3, <1>4, <1>5, Zenon DEF FourSame, FiveSame, SevenSame

PasswordText(u) == IF u.passwd = Nothing THEN <<>> ELSE <<".">> \o u.passwd
CredText(u) == u.user \o PasswordText(u)
HostText(u) == u.server \o (IF u.port = Nothing THEN <<>> ELSE <<":">> \o u.port)
BaseText(u) == u.database \o Options(u, Len(u.options))
PlaceText(u) == HostText(u) \o (<<"/">> \o BaseText(u))
AfterScheme(u) == IF u.user = Nothing THEN PlaceText(u) ELSE CredText(u) \o (<<"@">> \o PlaceText(u))

\* The parts are texts, and what is in them
LEMMA PartsHave ==
    ASSUME NEW u, WellFormed(u)
    PROVE  /\ Options(u, Len(u.options)) \in Seq(Characters)
           /\ BaseText(u) \in Seq(Characters) /\ HostText(u) \in Seq(Characters)
           /\ PlaceText(u) \in Seq(Characters) /\ CredText(u) \in Seq(Characters)
           /\ PasswordText(u) \in Seq(Characters)
           /\ <<"/">> \in Seq(Characters) /\ <<"@">> \in Seq(Characters)
           /\ <<"://">> \in Seq(Characters)
           /\ ~Has(BaseText(u), "://") /\ ~Has(BaseText(u), "@")
           /\ ~Has(HostText(u), "://") /\ ~Has(HostText(u), "@") /\ ~Has(HostText(u), "/")
           /\ ~Has(PlaceText(u), "://") /\ ~Has(PlaceText(u), "@")
           /\ ~Has(CredText(u), "://") /\ ~Has(CredText(u), "@") /\ ~Has(CredText(u), ":")
           /\ u.by = ":" => ~Has(BaseText(u), Semicolon)
<1> DEFINE C == Characters
           o == Options(u, Len(u.options))
           pw == IF u.passwd = Nothing THEN <<>> ELSE <<".">> \o u.passwd
           po == IF u.port = Nothing THEN <<>> ELSE <<":">> \o u.port
<1>1. /\ u.user \in Seq(C) /\ u.passwd \in Seq(C) /\ u.server \in Seq(C)
      /\ u.port \in Seq(C) /\ u.database \in Seq(C)
  BY UrlTypes
<1>2. /\ <<"/">> \in Seq(C) /\ <<"@">> \in Seq(C) /\ <<"://">> \in Seq(C)
      /\ <<".">> \in Seq(C) /\ <<":">> \in Seq(C) /\ <<>> \in Seq(C)
      /\ \A x : /\ Has(<<"/">>, x) <=> x = "/"
                /\ Has(<<"@">>, x) <=> x = "@"
                /\ Has(<<".">>, x) <=> x = "."
                /\ Has(<<":">>, x) <=> x = ":"
                /\ ~Has(<<>>, x)
  <2>1. <<>> \in Seq(C) /\ \A x : ~Has(<<>>, x)
    BY EmptySeq DEF Has
  <2>2. <<"/">> \in Seq(C) /\ \A x : Has(<<"/">>, x) <=> x = "/"
    BY UrlTypes, LoneCharacter
  <2>3. <<"@">> \in Seq(C) /\ \A x : Has(<<"@">>, x) <=> x = "@"
    BY UrlTypes, LoneCharacter
  <2>4. <<".">> \in Seq(C) /\ \A x : Has(<<".">>, x) <=> x = "."
    BY UrlTypes, LoneCharacter
  <2>5. <<":">> \in Seq(C) /\ \A x : Has(<<":">>, x) <=> x = ":"
    BY UrlTypes, LoneCharacter
  <2>6. <<"://">> \in Seq(C)
    BY UrlTypes, LoneCharacter
  <2> QED
    BY <2>1, <2>2, <2>3, <2>4, <2>5, <2>6
<1> HIDE DEF C
<1>3. pw \in Seq(C) /\ \A x : Has(pw, x) => x = "." \/ Has(u.passwd, x)
  <2>1. <<".">> \o u.passwd \in Seq(C)
        /\ \A x : Has(<<".">> \o u.passwd, x) => x = "." \/ Has(u.passwd, x)
    BY <1>1, <1>2, ConcatHas, ZenonT(60)
  <2> QED
    BY <1>2, <2>1
<1>4. po \in Seq(C) /\ \A x : Has(po, x) => x = ":" \/ Has(u.port, x)
  <2>1. <<":">> \o u.port \in Seq(C)
        /\ \A x : Has(<<":">> \o u.port, x) => x = ":" \/ Has(u.port, x)
    BY <1>1, <1>2, ConcatHas, ZenonT(60)
  <2> QED
    BY <1>2, <2>1
<1>5. o \in Seq(C)
      /\ \A x : Has(o, x) => x = u.by \/ \E i \in DOMAIN u.options : Has(u.options[i], x)
  <2>1. u.options \in Seq(Seq(C)) /\ u.by \in C
    BY UrlTypes DEF C
  <2>2. Len(u.options) \in 0..Len(u.options)
    <3>1. Len(u.options) \in Nat
      BY <2>1, TextElements
    <3> QED
      BY <3>1
  <2> QED
    BY <2>1, <2>2, OptionsHave
<1> HIDE DEF o, pw, po
<1>6. PICK p \in Seq(C) : p = pw /\ \A x : Has(p, x) => x = "." \/ Has(u.passwd, x)
  BY <1>3
<1>7. PICK q \in Seq(C) : q = po /\ \A x : Has(q, x) => x = ":" \/ Has(u.port, x)
  BY <1>4
<1>8. PICK w \in Seq(C) : w = o
      /\ \A x : Has(w, x) => x = u.by \/ \E i \in DOMAIN u.options : Has(u.options[i], x)
  BY <1>5
<1>9. PICK cred \in Seq(C) : cred = CredText(u) /\ \A x : Has(cred, x) <=> Has(u.user, x) \/ Has(p, x)
  <2>1. CredText(u) = u.user \o p
    BY <1>6 DEF CredText, PasswordText, pw
  <2>2. u.user \o p \in Seq(C) /\ \A x : Has(u.user \o p, x) <=> Has(u.user, x) \/ Has(p, x)
    BY <1>1, ConcatHas
  <2> QED
    BY <2>1, <2>2, Zenon
<1>10. PICK host \in Seq(C) :
          host = HostText(u) /\ \A x : Has(host, x) <=> Has(u.server, x) \/ Has(q, x)
  <2>1. HostText(u) = u.server \o q
    BY <1>7 DEF HostText, po
  <2>2. u.server \o q \in Seq(C) /\ \A x : Has(u.server \o q, x) <=> Has(u.server, x) \/ Has(q, x)
    BY <1>1, ConcatHas
  <2> QED
    BY <2>1, <2>2, Zenon
<1>11. PICK base \in Seq(C) :
          base = BaseText(u) /\ \A x : Has(base, x) <=> Has(u.database, x) \/ Has(w, x)
  <2>1. BaseText(u) = u.database \o w
    BY <1>8 DEF BaseText, o
  <2>2. u.database \o w \in Seq(C)
        /\ \A x : Has(u.database \o w, x) <=> Has(u.database, x) \/ Has(w, x)
    BY <1>1, ConcatHas
  <2> QED
    BY <2>1, <2>2, Zenon
<1>12. PICK sb \in Seq(C) : sb = <<"/">> \o base /\ \A x : Has(sb, x) <=> x = "/" \/ Has(base, x)
  <2>1. <<"/">> \o base \in Seq(C)
        /\ \A x : Has(<<"/">> \o base, x) <=> Has(<<"/">>, x) \/ Has(base, x)
    BY <1>2, ConcatHas, ZenonT(60)
  <2> QED
    BY <1>2, <2>1, Zenon
<1>13. PICK place \in Seq(C) :
          place = PlaceText(u) /\ \A x : Has(place, x) <=> Has(host, x) \/ Has(sb, x)
  <2>1. PlaceText(u) = host \o sb
    BY <1>10, <1>11, <1>12 DEF PlaceText
  <2>2. host \o sb \in Seq(C) /\ \A x : Has(host \o sb, x) <=> Has(host, x) \/ Has(sb, x)
    BY ConcatHas
  <2> QED
    BY <2>1, <2>2, Zenon
<1>14. /\ ~Has(base, "://") /\ ~Has(base, "@") /\ (u.by = ":" => ~Has(base, Semicolon))
  <2>1. ~Has(w, "://") /\ ~Has(w, "@") /\ (u.by = ":" => ~Has(w, Semicolon))
    BY <1>8, UrlParts, SemicolonDiffers
  <2>2. ~Has(u.database, "://") /\ ~Has(u.database, "@") /\ ~Has(u.database, Semicolon)
    BY UrlParts
  <2> QED
    BY <1>11, <2>1, <2>2
<1>15. ~Has(host, "://") /\ ~Has(host, "@") /\ ~Has(host, "/")
  <2>1. ~Has(q, "://") /\ ~Has(q, "@") /\ ~Has(q, "/")
    BY <1>7, UrlParts
  <2>2. ~Has(u.server, "://") /\ ~Has(u.server, "@") /\ ~Has(u.server, "/")
    BY UrlParts
  <2> QED
    BY <1>10, <2>1, <2>2
<1>16. ~Has(cred, "://") /\ ~Has(cred, "@") /\ ~Has(cred, ":")
  <2>1. ~Has(p, "://") /\ ~Has(p, "@") /\ ~Has(p, ":")
    BY <1>6, UrlParts
  <2>2. ~Has(u.user, "://") /\ ~Has(u.user, "@") /\ ~Has(u.user, ":")
    BY UrlParts
  <2> QED
    BY <1>9, <2>1, <2>2
<1>17. ~Has(place, "://") /\ ~Has(place, "@")
  BY <1>12, <1>13, <1>14, <1>15
<1>18. PasswordText(u) = p /\ Options(u, Len(u.options)) = w
  BY <1>6, <1>8 DEF PasswordText, pw, o
<1> QED
  BY <1>2, <1>9, <1>10, <1>11, <1>13, <1>14, <1>15, <1>16, <1>17, <1>18 DEF C

\* The text of a URL is its scheme and what is after it
LEMMA TextIs ==
    ASSUME NEW u, WellFormed(u)
    PROVE  Text(u) = IF u.scheme = Nothing THEN AfterScheme(u)
                     ELSE u.scheme \o (<<"://">> \o AfterScheme(u))
<1> DEFINE C == Characters
           A == IF u.scheme = Nothing THEN <<>> ELSE u.scheme \o <<"://">>
           B == IF u.user = Nothing THEN <<>> ELSE CredText(u) \o <<"@">>
           P == IF u.port = Nothing THEN <<>> ELSE <<":">> \o u.port
           D == u.database
           O == Options(u, Len(u.options))
<1>1. Text(u) = A \o B \o u.server \o P \o <<"/">> \o D \o O
  BY Zenon DEF Text, CredText, PasswordText
<1>2. /\ A \in Seq(C) /\ B \in Seq(C) /\ P \in Seq(C) /\ O \in Seq(C)
      /\ u.server \in Seq(C) /\ <<"/">> \in Seq(C) /\ D \in Seq(C) /\ u.scheme \in Seq(C)
      /\ CredText(u) \in Seq(C) /\ PlaceText(u) \in Seq(C) /\ <<"@">> \in Seq(C)
      /\ <<"://">> \in Seq(C)
  <2>1. /\ CredText(u) \in Seq(C) /\ PlaceText(u) \in Seq(C) /\ O \in Seq(C)
        /\ <<"/">> \in Seq(C) /\ <<"@">> \in Seq(C) /\ <<"://">> \in Seq(C)
    BY PartsHave
  <2>2. /\ u.scheme \in Seq(C) /\ u.server \in Seq(C) /\ D \in Seq(C) /\ u.port \in Seq(C)
        /\ <<":">> \in Seq(C) /\ <<>> \in Seq(C)
    BY UrlTypes, LoneCharacter, EmptySeq
  <2> HIDE DEF C, D, O
  <2>3. u.scheme \o <<"://">> \in Seq(C)
    BY <2>1, <2>2, ConcatHas
  <2>4. CredText(u) \o <<"@">> \in Seq(C)
    BY <2>1, ConcatHas
  <2>5. <<":">> \o u.port \in Seq(C)
    BY <2>2, ConcatHas
  <2> QED
    BY <2>1, <2>2, <2>3, <2>4, <2>5, Zenon
<1>3. A \o B \o u.server \o P \o <<"/">> \o D \o O = A \o (B \o PlaceText(u))
  <2>1. PlaceText(u) = (u.server \o P) \o (<<"/">> \o (D \o O))
    BY Zenon DEF PlaceText, HostText, BaseText
  <2> HIDE DEF A, B, P, D, O, C
  <2>2. SevenSame(A, B, u.server, P, <<"/">>, D, O)
    BY <1>2, SevenTexts
  <2> QED
    BY <2>1, <2>2, Zenon DEF SevenSame
<1> HIDE DEF C, D, O, P
<1>4. B \o PlaceText(u) = AfterScheme(u)
  <2>1. CASE u.user = Nothing
    <3>1. <<>> \o PlaceText(u) = PlaceText(u)
      BY <1>2, ConcatEmptySeq
    <3> QED
      BY <2>1, <3>1, Zenon DEF AfterScheme
  <2>2. CASE u.user # Nothing
    <3>1. Associate(CredText(u), <<"@">>, PlaceText(u))
      BY <1>2, ThreeTexts
    <3> QED
      BY <2>2, <3>1, Zenon DEF AfterScheme, Associate
  <2> QED
    BY <2>1, <2>2
<1> HIDE DEF B
<1>5. AfterScheme(u) \in Seq(C)
  <2>1. B \o PlaceText(u) \in Seq(C)
    BY <1>2, ConcatHas
  <2> QED
    BY <1>4, <2>1
<1>6. A \o AfterScheme(u) = IF u.scheme = Nothing THEN AfterScheme(u)
                            ELSE u.scheme \o (<<"://">> \o AfterScheme(u))
  <2>1. CASE u.scheme = Nothing
    <3>1. <<>> \o AfterScheme(u) = AfterScheme(u)
      BY <1>5, ConcatEmptySeq
    <3> QED
      BY <2>1, <3>1, Zenon
  <2>2. CASE u.scheme # Nothing
    <3>1. Associate(u.scheme, <<"://">>, AfterScheme(u))
      BY <1>2, <1>5, ThreeTexts
    <3> QED
      BY <2>2, <3>1, Zenon DEF Associate
  <2> QED
    BY <2>1, <2>2
<1> QED
  BY <1>1, <1>3, <1>4, <1>6, Zenon

\* Where the scheme is found, and where there is none
LEMMA SchemeFound ==
    ASSUME NEW u, WellFormed(u), u.scheme \in {Nothing, <<"drda">>}
    PROVE  /\ AfterScheme(u) \in Seq(Characters)
           /\ IF u.scheme = Nothing THEN Text(u) = AfterScheme(u) /\ ~Has(Text(u), "://")
              ELSE /\ Has(Text(u), "://") /\ Before(Text(u), "://") = <<"drda">>
                   /\ After(Text(u), "://") = AfterScheme(u)
<1>1. AfterScheme(u) \in Seq(Characters) /\ ~Has(AfterScheme(u), "://")
  <2>1. /\ PlaceText(u) \in Seq(Characters) /\ CredText(u) \in Seq(Characters)
        /\ <<"@">> \in Seq(Characters) /\ \A x : Has(<<"@">>, x) <=> x = "@"
        /\ ~Has(PlaceText(u), "://") /\ ~Has(CredText(u), "://")
    BY PartsHave, UrlTypes, LoneCharacter
  <2>2. PICK ap \in Seq(Characters) : ap = <<"@">> \o PlaceText(u) /\ ~Has(ap, "://")
    <3>1. <<"@">> \o PlaceText(u) \in Seq(Characters)
          /\ (Has(<<"@">> \o PlaceText(u), "://") <=> Has(<<"@">>, "://") \/ Has(PlaceText(u), "://"))
      BY <2>1, ConcatHas
    <3> QED
      BY <2>1, <3>1
  <2>3. CredText(u) \o ap \in Seq(Characters) /\ ~Has(CredText(u) \o ap, "://")
    <3>1. CredText(u) \o ap \in Seq(Characters)
          /\ (Has(CredText(u) \o ap, "://") <=> Has(CredText(u), "://") \/ Has(ap, "://"))
      BY <2>1, ConcatHas
    <3> QED
      BY <2>1, <2>2, <3>1
  <2> QED
    BY <2>1, <2>2, <2>3, Zenon DEF AfterScheme
<1>2. CASE u.scheme = Nothing
  BY <1>1, <1>2, TextIs
<1>3. CASE u.scheme # Nothing
  <2>1. u.scheme = <<"drda">> /\ <<"drda">> \in Seq(Characters) /\ ~Has(<<"drda">>, "://")
        /\ "://" \in Characters
    BY <1>3, UrlTypes, LoneCharacter
  <2>2. Text(u) = <<"drda">> \o (<<"://">> \o AfterScheme(u))
    BY <1>3, <2>1, TextIs
  <2>3. IsCut(Characters, <<"drda">> \o (<<"://">> \o AfterScheme(u)), "://", <<"drda">>, AfterScheme(u))
    BY <1>1, <2>1, CutThere
  <2> QED
    BY <1>1, <1>3, <2>2, <2>3, Zenon DEF IsCut
<1> QED
  BY <1>2, <1>3

\* Where the user and the password are
LEMMA CredFound ==
    ASSUME NEW u, WellFormed(u)
    PROVE  /\ HasPassword(CredText(u)) <=> u.passwd # Nothing
           /\ User(CredText(u)) = u.user
           /\ u.passwd # Nothing => Password(CredText(u)) = u.passwd
<1>1. /\ u.user \in Seq(Characters) /\ u.passwd \in Seq(Characters) /\ "." \in Characters
      /\ ~Has(u.user, ".") /\ ~Has(u.user, ":") /\ ~Has(CredText(u), ":")
  BY UrlTypes, UrlParts, PartsHave
<1>2. CASE u.passwd = Nothing
  <2>1. u.user \o <<>> = u.user
    BY <1>1, ConcatEmptySeq
  <2>2. CredText(u) = u.user
    BY <1>2, <2>1, Zenon DEF CredText, PasswordText
  <2>3. Before(u.user, ".") = u.user
    BY <1>1, WithoutIt
  <2> QED
    BY <1>1, <1>2, <2>2, <2>3, Zenon DEF HasPassword, User
<1>3. CASE u.passwd # Nothing
  <2>1. CredText(u) = u.user \o (<<".">> \o u.passwd)
    BY <1>3, Zenon DEF CredText, PasswordText
  <2>2. IsCut(Characters, u.user \o (<<".">> \o u.passwd), ".", u.user, u.passwd)
    BY <1>1, CutThere
  <2>3. Has(CredText(u), ".") /\ Before(CredText(u), ".") = u.user /\ After(CredText(u), ".") = u.passwd
    BY <2>1, <2>2, Zenon DEF IsCut
  <2> QED
    BY <1>1, <1>3, <2>3, Zenon DEF HasPassword, User, Password
<1> QED
  BY <1>2, <1>3

\* Where the server and the port are
LEMMA HostFound ==
    ASSUME NEW u, WellFormed(u)
    PROVE  Before(HostText(u), ":") = u.server /\ Port(HostText(u)) = Else(u.port, <<"446">>)
<1>1. /\ u.server \in Seq(Characters) /\ u.port \in Seq(Characters) /\ ":" \in Characters
      /\ ~Has(u.server, ":")
  BY UrlTypes, UrlParts
<1>2. CASE u.port = Nothing
  <2>1. u.server \o <<>> = u.server
    BY <1>1, ConcatEmptySeq
  <2>2. HostText(u) = u.server
    BY <1>2, <2>1, Zenon DEF HostText
  <2>3. Before(u.server, ":") = u.server
    BY <1>1, WithoutIt
  <2> QED
    BY <1>1, <1>2, <2>2, <2>3, Zenon DEF Port, Else
<1>3. CASE u.port # Nothing
  <2>1. HostText(u) = u.server \o (<<":">> \o u.port)
    BY <1>3, Zenon DEF HostText
  <2>2. IsCut(Characters, u.server \o (<<":">> \o u.port), ":", u.server, u.port)
    BY <1>1, CutThere
  <2> QED
    BY <1>3, <2>1, <2>2, Zenon DEF IsCut, Port, Else
<1> QED
  BY <1>2, <1>3

\* Where the credentials are, and where the host
LEMMA PlaceFound ==
    ASSUME NEW u, WellFormed(u)
    PROVE  /\ IsCut(Characters, PlaceText(u), "/", HostText(u), BaseText(u))
           /\ IF u.user = Nothing THEN AfterScheme(u) = PlaceText(u) /\ ~Has(AfterScheme(u), "@")
              ELSE IsCut(Characters, AfterScheme(u), "@", CredText(u), PlaceText(u))
<1>1. /\ PlaceText(u) \in Seq(Characters) /\ CredText(u) \in Seq(Characters)
      /\ HostText(u) \in Seq(Characters) /\ BaseText(u) \in Seq(Characters)
      /\ ~Has(PlaceText(u), "@") /\ ~Has(CredText(u), "@") /\ ~Has(HostText(u), "/")
      /\ "@" \in Characters /\ "/" \in Characters
  BY UrlTypes, PartsHave
<1>2. IsCut(Characters, HostText(u) \o (<<"/">> \o BaseText(u)), "/", HostText(u), BaseText(u))
  BY <1>1, CutThere
<1>3. IsCut(Characters, CredText(u) \o (<<"@">> \o PlaceText(u)), "@", CredText(u), PlaceText(u))
  BY <1>1, CutThere
<1>4. IsCut(Characters, PlaceText(u), "/", HostText(u), BaseText(u))
  BY <1>2, Zenon DEF PlaceText
<1>5. IF u.user = Nothing THEN AfterScheme(u) = PlaceText(u) /\ ~Has(AfterScheme(u), "@")
      ELSE IsCut(Characters, AfterScheme(u), "@", CredText(u), PlaceText(u))
  BY <1>1, <1>3, Zenon DEF AfterScheme
<1> QED
  BY <1>4, <1>5

\* What is left of the options from the one at i
OptionsFrom(u, i) == u.options[i] \o Options(u, Len(u.options) - i)

\* Where an option ends
LEMMA OptionFound ==
    ASSUME NEW u, WellFormed(u), NEW i \in 1..Len(u.options)
    PROVE  /\ OptionsFrom(u, i) \in Seq(Characters) /\ u.options[i] \in Seq(Characters)
           /\ IF i = Len(u.options) THEN OptionsFrom(u, i) = u.options[i] /\ ~Has(OptionsFrom(u, i), u.by)
              ELSE IsCut(Characters, OptionsFrom(u, i), u.by, u.options[i], OptionsFrom(u, i + 1))
<1>1. u.options \in Seq(Seq(Characters)) /\ u.by \in Characters
  BY UrlTypes
<1>2. Len(u.options) \in Nat /\ DOMAIN u.options = 1..Len(u.options)
      /\ \A k \in 1..Len(u.options) : u.options[k] \in Seq(Characters)
  <2>1. PICK o \in Seq(Seq(Characters)) : o = u.options
    BY <1>1
  <2>2. Len(o) \in Nat /\ DOMAIN o = 1..Len(o) /\ \A k \in 1..Len(o) : o[k] \in Seq(Characters)
    BY TextElements
  <2> QED
    BY <2>1, <2>2
<1>3. \A k \in 0..Len(u.options) : Options(u, k) \in Seq(Characters)
  BY <1>1, OptionsHave
<1>4. u.options[i] \in Seq(Characters) /\ ~Has(u.options[i], u.by)
      /\ Len(u.options) - i \in 0..Len(u.options)
  BY <1>2, UrlParts
<1>5. OptionsFrom(u, i) \in Seq(Characters)
  <2>1. Options(u, Len(u.options) - i) \in Seq(Characters)
    BY <1>3, <1>4
  <2> QED
    BY <1>4, <2>1, ConcatHas DEF OptionsFrom
<1>6. CASE i = Len(u.options)
  <2>1. Options(u, Len(u.options) - i) = <<>>
    <3>1. Len(u.options) - i = 0
      BY <1>2, <1>6
    <3> QED
      BY <3>1, OptionsEquation
  <2>2. OptionsFrom(u, i) = u.options[i] \o <<>>
    BY <2>1 DEF OptionsFrom
  <2>3. OptionsFrom(u, i) = u.options[i]
    BY <1>4, <2>2, ConcatEmptySeq
  <2> QED
    BY <1>4, <1>5, <1>6, <2>3
<1>7. CASE i # Len(u.options)
  <2>1. PICK n \in 0..Len(u.options) : n = Len(u.options) - i
    BY <1>4
  <2>2. n \in Nat /\ n > 0 /\ Len(u.options) + 1 - n = i + 1 /\ i + 1 \in 1..Len(u.options)
        /\ n - 1 = Len(u.options) - (i + 1) /\ n - 1 \in 0..Len(u.options)
    BY <1>2, <1>7, <2>1
  <2>3. Options(u, n) = OptionText(u, n) \o Options(u, n - 1)
    BY <2>2, OptionsEquation
  <2>4. OptionText(u, n) = <<u.by>> \o u.options[i + 1]
    BY <2>2 DEF OptionText
  <2>5. u.options[i + 1] \in Seq(Characters) /\ Options(u, n - 1) \in Seq(Characters)
        /\ <<u.by>> \in Seq(Characters)
    BY <1>1, <1>2, <1>3, <2>2, LoneCharacter
  <2>6. Associate(<<u.by>>, u.options[i + 1], Options(u, n - 1))
    BY <2>5, ThreeTexts
  <2>7. OptionsFrom(u, i + 1) = u.options[i + 1] \o Options(u, n - 1)
    BY <2>2 DEF OptionsFrom
  <2>8. Options(u, n) = <<u.by>> \o OptionsFrom(u, i + 1)
    BY <2>3, <2>4, <2>6, <2>7, Zenon DEF Associate
  <2>9. OptionsFrom(u, i + 1) \in Seq(Characters)
    <3>1. u.options[i + 1] \o Options(u, n - 1) \in Seq(Characters)
      BY <2>5, ConcatProperties
    <3> QED
      BY <2>7, <3>1
  <2>10. IsCut(Characters, u.options[i] \o (<<u.by>> \o OptionsFrom(u, i + 1)), u.by,
               u.options[i], OptionsFrom(u, i + 1))
    BY <1>1, <1>4, <2>9, CutThere
  <2>11. OptionsFrom(u, i) = u.options[i] \o (<<u.by>> \o OptionsFrom(u, i + 1))
    BY <2>1, <2>8, Zenon DEF OptionsFrom
  <2> QED
    BY <1>4, <1>5, <1>7, <2>10, <2>11, Zenon
<1> QED
  BY <1>6, <1>7

\* Where the database ends
LEMMA BaseFound ==
    ASSUME NEW u, WellFormed(u)
    PROVE  /\ Len(u.options) \in Nat /\ u.database \in Seq(Characters)
           /\ ~Has(u.database, Semicolon) /\ ~Has(u.database, ":")
           /\ u.by = ":" => ~Has(BaseText(u), Semicolon)
           /\ IF Len(u.options) = 0 THEN BaseText(u) = u.database
              ELSE IsCut(Characters, BaseText(u), u.by, u.database, OptionsFrom(u, 1))
<1>1. /\ u.options \in Seq(Seq(Characters)) /\ u.by \in Characters /\ u.database \in Seq(Characters)
      /\ ~Has(u.database, Semicolon) /\ ~Has(u.database, ":") /\ u.by \in {Semicolon, ":"}
      /\ (u.by = ":" => ~Has(BaseText(u), Semicolon))
  BY UrlTypes, UrlParts, PartsHave
<1>2. Len(u.options) \in Nat
  <2>1. PICK o \in Seq(Seq(Characters)) : o = u.options
    BY <1>1
  <2> QED
    BY <2>1, TextElements
<1>3. CASE Len(u.options) = 0
  <2>1. Options(u, Len(u.options)) = <<>>
    BY <1>3, OptionsEquation
  <2>2. u.database \o <<>> = u.database
    BY <1>1, ConcatEmptySeq
  <2> QED
    BY <1>1, <1>2, <1>3, <2>1, <2>2 DEF BaseText
<1>4. CASE Len(u.options) # 0
  <2>1. PICK n \in Nat : n = Len(u.options)
    BY <1>2
  <2>2. n > 0 /\ Len(u.options) + 1 - n = 1 /\ 1 \in 1..Len(u.options)
    BY <1>2, <1>4, <2>1
  <2>3. Options(u, n) = OptionText(u, n) \o Options(u, n - 1)
    BY <2>2, OptionsEquation
  <2>4. OptionText(u, n) = <<u.by>> \o u.options[1]
    BY <2>2 DEF OptionText
  <2>5. OptionsFrom(u, 1) \in Seq(Characters) /\ u.options[1] \in Seq(Characters)
    BY <2>2, OptionFound
  <2>6. OptionsFrom(u, 1) = u.options[1] \o Options(u, n - 1)
    BY <2>1 DEF OptionsFrom
  <2>7. Associate(<<u.by>>, u.options[1], Options(u, n - 1))
    <3>1. <<u.by>> \in Seq(Characters)
      BY <1>1, LoneCharacter
    <3>2. n - 1 \in 0..Len(u.options)
      BY <1>2, <2>1, <2>2
    <3>3. Options(u, n - 1) \in Seq(Characters)
      BY <1>1, <3>2, OptionsHave
    <3> QED
      BY <2>5, <3>1, <3>3, ThreeTexts
  <2>8. Options(u, n) = <<u.by>> \o OptionsFrom(u, 1)
    BY <2>3, <2>4, <2>6, <2>7, Zenon DEF Associate
  <2>9. ~Has(u.database, u.by)
    BY <1>1
  <2>10. IsCut(Characters, u.database \o (<<u.by>> \o OptionsFrom(u, 1)), u.by,
               u.database, OptionsFrom(u, 1))
    BY <1>1, <2>5, <2>9, CutThere
  <2>11. BaseText(u) = u.database \o (<<u.by>> \o OptionsFrom(u, 1))
    BY <2>1, <2>8, Zenon DEF BaseText
  <2> QED
    BY <1>1, <1>2, <1>4, <2>10, <2>11
<1> QED
  BY <1>3, <1>4

-----------------------------------------------------------------------------
(* What SetByUrl() reads.                                                  *)

\* Everything but the options
ReadPlace(d, u) ==
    /\ d.user = Else(u.user, <<"local">>)
    /\ d.passwd = IF u.user = Nothing THEN <<"typed">> ELSE Else(u.passwd, <<"typed">>)
    /\ d.server = u.server /\ d.port = Else(u.port, <<"446">>) /\ d.database = u.database

\* The settings up to the host, and those after it
UserSet(d, s) ==
    [d EXCEPT !.user = IF ~Has(s, "@") THEN <<"local">> ELSE User(Before(s, "@")),
              !.passwd = IF Has(s, "@") /\ HasPassword(Before(s, "@"))
                         THEN Password(Before(s, "@")) ELSE @]
PlaceSet(d, s, host, base, by) ==
    [d EXCEPT !.server = Before(host, ":"), !.port = Port(host),
              !.passwd = IF ~(Has(s, "@") /\ HasPassword(Before(s, "@"))) THEN <<"typed">> ELSE @,
              !.database = Before(base, by)]

\* The parts of the URL are in the settings, each in its place
LEMMA SettingsRead ==
    ASSUME NEW u, WellFormed(u), NEW by, Before(BaseText(u), by) = u.database,
           NEW e, e = PlaceSet(UserSet(NewDrda, AfterScheme(u)), AfterScheme(u), HostText(u),
                               BaseText(u), by)
    PROVE  ReadPlace(e, u) /\ e.options = Nothing /\ Settings(e)
<1> DEFINE s == AfterScheme(u)
           d == UserSet(NewDrda, s)
           has == Has(s, "@") /\ HasPassword(Before(s, "@"))
<1>1. IF u.user = Nothing THEN ~Has(s, "@")
      ELSE Has(s, "@") /\ Before(s, "@") = CredText(u)
  BY PlaceFound, Zenon DEF IsCut
<1>2. /\ HasPassword(CredText(u)) <=> u.passwd # Nothing
      /\ User(CredText(u)) = u.user
      /\ u.passwd # Nothing => Password(CredText(u)) = u.passwd
  BY CredFound
<1>3. Before(HostText(u), ":") = u.server /\ Port(HostText(u)) = Else(u.port, <<"446">>)
  BY HostFound
<1>4. has <=> u.user # Nothing /\ u.passwd # Nothing
  BY <1>1, <1>2, Zenon
<1> DEFINE us == IF ~Has(s, "@") THEN <<"local">> ELSE User(Before(s, "@"))
           pw == IF has THEN Password(Before(s, "@")) ELSE Nothing
<1>5. us = Else(u.user, <<"local">>) /\ (has => pw = u.passwd)
  BY <1>1, <1>2, <1>4, Zenon DEF Else
<1> HIDE DEF s
<1>6. d = [user |-> us, passwd |-> pw, server |-> Nothing, port |-> Nothing,
           database |-> Nothing, options |-> Nothing]
  <2> DEFINE cred == Before(s, "@")
  <2> HIDE DEF cred
  <2>1. d = [NewDrda EXCEPT !.user = us, !.passwd = IF has THEN Password(cred) ELSE @]
    BY Zenon DEF UserSet, cred
  <2>2. pw = IF has THEN Password(cred) ELSE Nothing
    BY Zenon DEF cred
  <2> HIDE DEF us, pw, has
  <2> QED
    BY <2>1, <2>2 DEF NewDrda
<1> DEFINE tp == IF ~has THEN <<"typed">> ELSE pw
<1>7. e = [user |-> us, passwd |-> tp, server |-> u.server, port |-> Else(u.port, <<"446">>),
           database |-> u.database, options |-> Nothing]
  <2>1. e = [d EXCEPT !.server = u.server, !.port = Else(u.port, <<"446">>),
                      !.passwd = IF ~has THEN <<"typed">> ELSE @, !.database = u.database]
    BY <1>3, Zenon DEF PlaceSet, s
  <2> HIDE DEF us, pw, has, d
  <2> QED
    BY <1>6, <2>1
<1>8. tp = IF u.user = Nothing THEN <<"typed">> ELSE Else(u.passwd, <<"typed">>)
  BY <1>4, <1>5, Zenon DEF Else
<1> HIDE DEF us, tp
<1>9. ReadPlace(e, u) /\ e.options = Nothing
  BY <1>5, <1>7, <1>8 DEF ReadPlace
<1>10. Settings(e)
  <2>1. DOMAIN e = DOMAIN NewDrda
    BY <1>7 DEF NewDrda
  <2>2. DOMAIN e.options = {}
    BY <1>9, EmptySeq DEF Nothing
  <2> QED
    BY <2>1, <2>2 DEF Settings
<1> QED
  BY <1>9, <1>10

\* SetByUrl() reads a URL up to its first option, if it has one
LEMMA UrlIsRead ==
    ASSUME NEW u, WellFormed(u), u.scheme \in {Nothing, <<"drda">>},
           rest = Text(u), drda = NewDrda, SetByUrl
    PROVE  \E e : /\ ReadPlace(e, u) /\ e.options = Nothing /\ Settings(e)
                  /\ IF Len(u.options) = 0 THEN Finish(e)
                     ELSE /\ drda' = e /\ rest' = OptionsFrom(u, 1)
                          /\ step' = "option" /\ sep' = u.by
<1> DEFINE s == IF Has(rest, "://") THEN After(rest, "://") ELSE rest
           place == IF Has(s, "@") THEN After(s, "@") ELSE s
           host == Before(place, "/")
           base == After(place, "/")
           by == IF Has(base, Semicolon) THEN Semicolon ELSE ":"
           e == PlaceSet(UserSet(drda, s), s, host, base, by)
<1>1. /\ sep' = by
      /\ IF Has(rest, "://") /\ Before(rest, "://") # <<"drda">> THEN TRUE
         ELSE IF ~Has(place, "/") THEN TRUE
         ELSE IF ~Has(base, by) THEN Finish(e)
         ELSE drda' = e /\ rest' = After(base, by) /\ step' = "option"
  BY Zenon DEF SetByUrl, UserSet, PlaceSet, Semicolon
<1>2. s = AfterScheme(u) /\ ~(Has(rest, "://") /\ Before(rest, "://") # <<"drda">>)
  BY SchemeFound, Zenon
<1>3. place = PlaceText(u)
  BY <1>2, PlaceFound, Zenon DEF IsCut
<1>4. host = HostText(u) /\ base = BaseText(u) /\ Has(place, "/")
  BY <1>3, PlaceFound, Zenon DEF IsCut
<1> HIDE DEF s, place, host, base
<1>5. /\ Len(u.options) \in Nat /\ ~Has(u.database, Semicolon) /\ ~Has(u.database, ":")
      /\ (u.by = ":" => ~Has(base, Semicolon)) /\ u.by \in {Semicolon, ":"}
      /\ IF Len(u.options) = 0 THEN base = u.database
         ELSE Has(base, u.by) /\ Before(base, u.by) = u.database
              /\ After(base, u.by) = OptionsFrom(u, 1)
  BY <1>4, BaseFound, UrlParts, Zenon DEF IsCut
<1>6. CASE Len(u.options) = 0
  <2>1. ~Has(base, by) /\ Before(base, by) = u.database
    BY <1>5, <1>6, WithoutIt, SemicolonDiffers
  <2>2. ReadPlace(e, u) /\ e.options = Nothing /\ Settings(e)
    <3> HIDE DEF by
    <3> QED
      BY <1>2, <1>4, <2>1, SettingsRead
  <2>3. Finish(e)
    BY <1>1, <1>2, <1>4, <2>1, Zenon
  <2> QED
    BY <1>6, <2>2, <2>3, Zenon
<1>7. CASE Len(u.options) # 0
  <2>1. by = u.by
    BY <1>5, <1>7, SemicolonDiffers
  <2>2. Has(base, by) /\ Before(base, by) = u.database /\ After(base, by) = OptionsFrom(u, 1)
    BY <1>5, <1>7, <2>1, Zenon
  <2>3. ReadPlace(e, u) /\ e.options = Nothing /\ Settings(e)
    <3> HIDE DEF by
    <3> QED
      BY <1>2, <1>4, <2>2, SettingsRead
  <2>4. drda' = e /\ rest' = OptionsFrom(u, 1) /\ step' = "option" /\ sep' = u.by
    <3> HIDE DEF e, by
    <3>1. drda' = e /\ rest' = After(base, by) /\ step' = "option"
      BY <1>1, <1>2, <1>4, <2>2
    <3> QED
      BY <1>1, <2>1, <2>2, <3>1
  <2> QED
    BY <1>7, <2>3, <2>4, Zenon
<1> QED
  BY <1>6, <1>7

-----------------------------------------------------------------------------
(* The options.                                                            *)

\* There is nothing to drop at the end
LEMMA NothingTrailing ==
    ASSUME NEW S, NEW t \in Seq(S), NEW c, ~Has(t, c)
    PROVE  NoTrailing(t, c, 1) = t
<1> DEFINE Ends(k) == /\ k > 1 => t[k] # c
                      /\ \A j \in (k + 1)..Len(t) : j > 1 /\ t[j] = c
<1>0. \A n \in Nat : \A k \in 0..n : k # n => k + 1 \in (k + 1)..n /\ k + 1 \in 1..n
  OBVIOUS
<1>1. Len(t) \in Nat /\ DOMAIN t = 1..Len(t)
  BY TextElements
<1>2. Len(t) \in 0..Len(t) /\ Ends(Len(t))
  BY <1>1 DEF Has
<1>3. \A k \in 0..Len(t) : Ends(k) => k = Len(t)
  <2> SUFFICES ASSUME NEW k \in 0..Len(t), Ends(k), k # Len(t) PROVE FALSE
    OBVIOUS
  <2>1. k + 1 \in (k + 1)..Len(t) /\ k + 1 \in DOMAIN t
    BY <1>0, <1>1, Zenon
  <2>2. t[k + 1] = c
    BY <2>1
  <2> QED
    BY <2>1, <2>2 DEF Has
<1>4. PICK x : x = (CHOOSE k \in 0..Len(t) : Ends(k))
  OBVIOUS
<1>5. x = Len(t)
  <2> HIDE DEF Ends
  <2> QED
    BY <1>2, <1>3, <1>4
<1>6. NoTrailing(t, c, 1) = SubSeq(t, 1, Len(t))
  BY <1>4, <1>5 DEF NoTrailing
<1> QED
  BY <1>6, SubSeqFull

\* The name and the value of an option without blanks
LEMMA OptionName ==
    ASSUME NEW S, NEW t \in Seq(S), ~Has(t, Blank), Has(t, "=")
    PROVE  NameOf(t) = Before(t, "=") /\ ValueOf(t) = After(t, "=")
<1>1. IsParted(S, t, "=", First(t, "="), Before(t, "="), After(t, "="))
  BY PartedAt
<1>2. PICK k \in 1..Len(t), b \in Seq(S), a \in Seq(S) :
          /\ b = Before(t, "=") /\ Len(b) = k - 1 /\ \A i \in 1..(k - 1) : b[i] = t[i]
          /\ a = After(t, "=") /\ Len(a) = Len(t) - k /\ \A i \in 1..(Len(t) - k) : a[i] = t[k + i]
  BY <1>1 DEF IsParted
<1>3. Len(t) \in Nat /\ DOMAIN t = 1..Len(t) /\ DOMAIN b = 1..(k - 1) /\ DOMAIN a = 1..(Len(t) - k)
  BY <1>2, TextElements
<1>4. ~Has(b, Blank)
  <2>1. \A i \in 1..(k - 1) : i \in DOMAIN t
    BY <1>3
  <2> QED
    BY <1>2, <1>3, <2>1 DEF Has
<1>5. ~Has(a, Blank) /\ (a # <<>> => a[1] # Blank)
  <2>1. \A i \in 1..(Len(t) - k) : k + i \in DOMAIN t
    BY <1>3
  <2>2. ~Has(a, Blank)
    BY <1>2, <1>3, <2>1 DEF Has
  <2>3. a # <<>> => 1 \in DOMAIN a
    BY TextElements, EmptySeq
  <2> QED
    BY <2>2, <2>3 DEF Has
<1>6. NoTrailing(b, Blank, 1) = b /\ NoLeading(a, Blank) = a
  BY <1>4, <1>5, NothingTrailing, NothingSkipped
<1> QED
  BY <1>2, <1>6, BlankNames

\* What the first m options set, all of them well formed
OptionsHeld(tab, u, m) ==
    /\ \A i \in 1..m : Has(u.options[i], "=")
    /\ DOMAIN tab = {Before(u.options[i], "=") : i \in 1..m} \cap OptionNames
    /\ \A i \in 1..m :
          /\ Before(u.options[i], "=") \in OptionNames
          /\ \A j \in (i + 1)..m : Before(u.options[j], "=") # Before(u.options[i], "=")
          => tab[Before(u.options[i], "=")] = After(u.options[i], "=")

\* One more option
LEMMA OptionNext ==
    ASSUME NEW d, Settings(d), NEW u, NEW m \in Nat, OptionsHeld(d.options, u, m),
           Has(u.options[m + 1], "=")
    PROVE  OptionsHeld(SetByKeyvalue(d, u.options[m + 1]).options, u, m + 1)
<1> DEFINE name == Before(u.options[m + 1], "=")
           value == After(u.options[m + 1], "=")
           tab == d.options
           new == SetByKeyvalue(d, u.options[m + 1]).options
<1>1. 1..(m + 1) = 1..m \cup {m + 1}
  OBVIOUS
<1>2. \A i \in 1..(m + 1) : Has(u.options[i], "=")
  BY <1>1 DEF OptionsHeld
<1>3. IF name \in OptionNames THEN new = Insert(tab, name, value) ELSE new = tab
  <2>1. CASE name \notin OptionNames
    BY <2>1, Zenon DEF SetByKeyvalue
  <2>2. CASE name \in OptionNames
    <3>1. SetByKeyvalue(d, u.options[m + 1]) = [d EXCEPT !.options = Insert(tab, name, value)]
      BY <2>2, Zenon DEF SetByKeyvalue
    <3>2. "options" \in DOMAIN d
      BY DEF Settings, NewDrda
    <3> HIDE DEF name, value, tab
    <3> QED
      BY <2>2, <3>1, <3>2
  <2> QED
    BY <2>1, <2>2
<1> HIDE DEF new
<1>4. DOMAIN new = {Before(u.options[i], "=") : i \in 1..(m + 1)} \cap OptionNames
  <2>1. {Before(u.options[i], "=") : i \in 1..(m + 1)}
        = {Before(u.options[i], "=") : i \in 1..m} \cup {name}
    BY <1>1
  <2>2. DOMAIN tab = {Before(u.options[i], "=") : i \in 1..m} \cap OptionNames
    BY DEF OptionsHeld
  <2>3. DOMAIN Insert(tab, name, value) = DOMAIN tab \cup {name}
    BY DEF Insert
  <2> HIDE DEF name, value, tab
  <2> QED
    BY <1>3, <2>1, <2>2, <2>3
<1>5. ASSUME NEW i \in 1..(m + 1), Before(u.options[i], "=") \in OptionNames,
             \A j \in (i + 1)..(m + 1) : Before(u.options[j], "=") # Before(u.options[i], "=")
      PROVE  new[Before(u.options[i], "=")] = After(u.options[i], "=")
  <2>1. CASE i = m + 1
    <3>1. new = Insert(tab, name, value) /\ Before(u.options[i], "=") = name
          /\ After(u.options[i], "=") = value
      BY <1>3, <1>5, <2>1
    <3> HIDE DEF name, value, tab
    <3>2. Insert(tab, name, value)[name] = value
      BY DEF Insert
    <3> QED
      BY <3>1, <3>2
  <2>2. CASE i # m + 1
    <3>1. i \in 1..m /\ m + 1 \in (i + 1)..(m + 1) /\ \A j \in (i + 1)..m : j \in (i + 1)..(m + 1)
      BY <2>2
    <3>2. Before(u.options[i], "=") # name
      BY <1>5, <3>1
    <3>3. tab[Before(u.options[i], "=")] = After(u.options[i], "=")
          /\ Before(u.options[i], "=") \in DOMAIN tab
      BY <1>5, <3>1 DEF OptionsHeld
    <3> HIDE DEF name, value, tab
    <3>4. Insert(tab, name, value)[Before(u.options[i], "=")] = tab[Before(u.options[i], "=")]
      BY <3>2, <3>3 DEF Insert
    <3> QED
      BY <1>3, <3>3, <3>4
  <2> QED
    BY <2>1, <2>2
<1>6. OptionsHeld(new, u, m + 1)
  BY <1>2, <1>4, <1>5 DEF OptionsHeld
<1> QED
  BY <1>6 DEF new

\* Which options are accepted
Final(u, m) == m = Len(u.options) \/ ~Has(u.options[m + 1], "=")

\* They are the first, up to one that is malformed
LEMMA AcceptedAre ==
    ASSUME NEW S, NEW u, u.options \in Seq(S), NEW m \in 0..Len(u.options),
           \A i \in 1..m : Has(u.options[i], "="), Final(u, m)
    PROVE  /\ Accepted(u) \in Seq(S) /\ Len(Accepted(u)) = m
           /\ \A i \in 1..m : Accepted(u)[i] = u.options[i]
<1> DEFINE bad == {i \in DOMAIN u.options : ~Has(u.options[i], "=")}
           least == CHOOSE i \in bad : \A j \in bad : i <= j
<1>1. PICK o \in Seq(S) : o = u.options
  OBVIOUS
<1>2. Len(o) \in Nat /\ DOMAIN o = 1..Len(o)
  BY TextElements
<1>3. Accepted(u) = SubSeq(o, 1, m)
  <2>1. CASE m = Len(o)
    <3>1. bad = {}
      BY <1>1, <1>2, <2>1
    <3> QED
      BY <1>1, <2>1, <3>1, Zenon DEF Accepted
  <2>2. CASE m # Len(o)
    <3>1. m + 1 \in bad /\ m \in Nat /\ bad \in SUBSET Nat /\ bad \subseteq 1..Len(o)
      BY <1>1, <1>2, <2>2 DEF Final
    <3>2. \A i \in bad : m + 1 <= i
      BY <1>1, <1>2, <3>1
    <3> HIDE DEF bad
    <3>3. least \in bad /\ \A j \in bad : least <= j
      BY <3>1, <3>2
    <3>4. least = m + 1
      <4>1. least <= m + 1 /\ m + 1 <= least /\ least \in Nat
        BY <3>1, <3>2, <3>3
      <4> QED
        BY <3>1, <4>1
    <3>5. bad # {}
      BY <3>1
    <3>6. Accepted(u) = SubSeq(o, 1, least - 1)
      BY <1>1, <3>5, Zenon DEF Accepted, bad
    <3>7. least - 1 = m
      <4> HIDE DEF least
      <4> QED
        BY <3>1, <3>4
    <3> QED
      BY <3>6, <3>7
  <2> QED
    BY <2>1, <2>2
<1>4. /\ SubSeq(o, 1, m) \in Seq(S) /\ Len(SubSeq(o, 1, m)) = m
      /\ \A i \in 1..m : SubSeq(o, 1, m)[i] = o[i]
  BY <1>1, StartOf
<1> QED
  BY <1>1, <1>3, <1>4

-----------------------------------------------------------------------------
(* What the URL leaves in the DRDA.                                        *)

\* What UrlRead says of the settings
UrlSays(d, p, u) ==
    /\ d.user = Given(p, "UID", Else(u.user, <<"local">>))
    /\ d.passwd = Given(p, "PWD",
             IF u.user = Nothing THEN <<"typed">> ELSE Else(u.passwd, <<"typed">>))
    /\ d.server = u.server
    /\ d.port = Else(u.port, <<"446">>)
    /\ d.database = u.database
    /\ DOMAIN d.options = {NameOf(Accepted(u)[i]) : i \in DOMAIN Accepted(u)} \cap OptionNames
    /\ \A n \in DOMAIN d.options : d.options[n] = LastValue(Accepted(u), n)

\* The options that were set are those that are accepted
LEMMA OptionsSaid ==
    ASSUME NEW u, WellFormed(u), NEW tab, NEW m \in 0..Len(u.options),
           OptionsHeld(tab, u, m), Final(u, m)
    PROVE  /\ DOMAIN tab = {NameOf(Accepted(u)[i]) : i \in DOMAIN Accepted(u)} \cap OptionNames
           /\ \A n \in DOMAIN tab : tab[n] = LastValue(Accepted(u), n)
<1>1. PICK o \in Seq(Seq(STRING)) : o = u.options
  BY UrlParts
<1>2. /\ Len(o) \in Nat /\ DOMAIN o = 1..Len(o) /\ m \in Nat /\ m <= Len(o)
      /\ \A i \in 1..Len(o) : o[i] \in Seq(STRING)
  BY <1>1, TextElements
<1>3. PICK a \in Seq(Seq(STRING)) : /\ a = Accepted(u) /\ Len(a) = m
                                    /\ \A i \in 1..m : a[i] = o[i]
  <2>1. \A i \in 1..m : Has(u.options[i], "=")
    BY DEF OptionsHeld
  <2> QED
    BY <1>1, <2>1, AcceptedAre, ZenonT(60)
<1>4. DOMAIN a = 1..m
  BY <1>3, TextElements
<1>5. \A i \in 1..m : NameOf(a[i]) = Before(o[i], "=") /\ ValueOf(a[i]) = After(o[i], "=")
  <2> SUFFICES ASSUME NEW i \in 1..m
               PROVE  NameOf(o[i]) = Before(o[i], "=") /\ ValueOf(o[i]) = After(o[i], "=")
    BY <1>3
  <2>1. i \in 1..Len(o)
    BY <1>2
  <2>2. ~Has(o[i], Blank)
    BY <1>1, <1>2, <2>1, UrlParts
  <2>3. Has(o[i], "=")
    BY <1>1 DEF OptionsHeld
  <2> QED
    BY <1>2, <2>1, <2>2, <2>3, OptionName
<1>6. DOMAIN tab = {NameOf(a[i]) : i \in 1..m} \cap OptionNames
  <2>1. DOMAIN tab = {Before(o[i], "=") : i \in 1..m} \cap OptionNames
    BY <1>1 DEF OptionsHeld
  <2> QED
    BY <1>5, <2>1
<1>7. ASSUME NEW n \in DOMAIN tab PROVE tab[n] = LastValue(a, n)
  <2>1. Gives(a, n)
    BY <1>4, <1>6 DEF Gives
  <2>2. PICK i \in 1..m : /\ NameOf(a[i]) = n /\ \A j \in (i + 1)..m : NameOf(a[j]) # n
                          /\ LastValue(a, n) = ValueOf(a[i])
    <3>1. \E i \in 1..Len(a) :
              /\ NameOf(a[i]) = n /\ \A j \in (i + 1)..Len(a) : NameOf(a[j]) # n
              /\ LastValue(a, n) = ValueOf(a[i])
      BY <2>1, LastGiven
    <3> QED
      BY <1>3, <3>1
  <2>3. Before(o[i], "=") = n /\ n \in OptionNames
    BY <1>5, <1>6, <2>2
  <2>4. \A j \in (i + 1)..m : Before(o[j], "=") # Before(o[i], "=")
    <3>1. \A j \in (i + 1)..m : j \in 1..m
      BY <1>2
    <3> QED
      BY <1>5, <2>2, <2>3, <3>1
  <2>5. tab[Before(o[i], "=")] = After(o[i], "=")
    BY <1>1, <2>3, <2>4 DEF OptionsHeld
  <2> QED
    BY <1>5, <2>2, <2>3, <2>5
<1> QED
  BY <1>3, <1>4, <1>6, <1>7

\* do_connect() sets no other field than the user and the password
LEMMA FinishReads ==
    ASSUME NEW u, WellFormed(u), NEW d, Settings(d), ReadPlace(d, u), NEW m \in 0..Len(u.options),
           OptionsHeld(d.options, u, m), Final(u, m), Finish(d)
    PROVE  step' = "done" /\ UrlSays(drda', params, u)
<1> DEFINE us == Given(params, "UID", d.user)
           pw == Given(params, "PWD", d.passwd)
<1>1. step' = "done" /\ drda' = [d EXCEPT !.user = us, !.passwd = pw]
  BY Zenon DEF Finish
<1> HIDE DEF us, pw
<1>2. /\ drda'.user = us /\ drda'.passwd = pw /\ drda'.server = d.server
      /\ drda'.port = d.port /\ drda'.database = d.database /\ drda'.options = d.options
  BY <1>1 DEF Settings, NewDrda
<1>3. /\ DOMAIN d.options = {NameOf(Accepted(u)[i]) : i \in DOMAIN Accepted(u)} \cap OptionNames
      /\ \A n \in DOMAIN d.options : d.options[n] = LastValue(Accepted(u), n)
  BY OptionsSaid
<1>4. /\ us = Given(params, "UID", Else(u.user, <<"local">>))
      /\ pw = Given(params, "PWD",
              IF u.user = Nothing THEN <<"typed">> ELSE Else(u.passwd, <<"typed">>))
  BY Zenon DEF us, pw, ReadPlace
<1>5. d.server = u.server /\ d.port = Else(u.port, <<"446">>) /\ d.database = u.database
  BY Zenon DEF ReadPlace
<1> QED
  BY <1>1, <1>2, <1>3, <1>4, <1>5, Zenon DEF UrlSays

\* An option changes no other setting
LEMMA KeyvalueReads ==
    ASSUME NEW d, Settings(d), NEW u, ReadPlace(d, u), NEW k
    PROVE  ReadPlace(SetByKeyvalue(d, k), u)
<1>1. CASE ~Has(k, "=") \/ Before(k, "=") \notin OptionNames
  BY <1>1, Zenon DEF SetByKeyvalue
<1>2. CASE Has(k, "=") /\ Before(k, "=") \in OptionNames
  <2> DEFINE tab == Insert(d.options, Before(k, "="), After(k, "="))
             e == [d EXCEPT !.options = tab]
  <2>1. SetByKeyvalue(d, k) = e
    BY <1>2, Zenon DEF SetByKeyvalue
  <2> HIDE DEF tab
  <2>2. /\ e.user = d.user /\ e.passwd = d.passwd /\ e.server = d.server
        /\ e.port = d.port /\ e.database = d.database
    BY DEF Settings, NewDrda
  <2> HIDE DEF e
  <2> QED
    BY <2>1, <2>2, Zenon DEF ReadPlace
<1> QED
  BY <1>1, <1>2

\* No option is set yet
LEMMA NoneHeld == \A u : OptionsHeld(<<>>, u, 0)
<1>1. 1..0 = {} /\ DOMAIN <<>> = {}
  BY EmptySeq
<1> QED
  BY <1>1 DEF OptionsHeld

\* The URL of which the first i - 1 options are set
OptionsRead(d, left, u, i) ==
    /\ ReadPlace(d, u) /\ OptionsHeld(d.options, u, i - 1) /\ left = OptionsFrom(u, i)

\* The URL is read up to its first option, or to its end
LEMMA UrlStarts ==
    ASSUME NEW u, WellFormed(u), u.scheme \in {Nothing, <<"drda">>},
           rest = Text(u), drda = NewDrda, SetByUrl
    PROVE  \/ step' = "done" /\ UrlSays(drda', params, u)
           \/ step' = "option" /\ sep' = u.by
              /\ \E i \in 1..Len(u.options) : OptionsRead(drda', rest', u, i)
<1>1. PICK e : /\ ReadPlace(e, u) /\ e.options = Nothing /\ Settings(e)
               /\ IF Len(u.options) = 0 THEN Finish(e)
                  ELSE drda' = e /\ rest' = OptionsFrom(u, 1) /\ step' = "option" /\ sep' = u.by
  BY UrlIsRead
<1>2. Len(u.options) \in Nat
  BY BaseFound
<1>3. OptionsHeld(e.options, u, 0)
  BY <1>1, NoneHeld DEF Nothing
<1>4. CASE Len(u.options) = 0
  <2>1. 0 \in 0..Len(u.options) /\ Final(u, 0)
    BY <1>4 DEF Final
  <2>2. Finish(e)
    BY <1>1, <1>4
  <2> QED
    BY <1>1, <1>3, <2>1, <2>2, FinishReads
<1>5. CASE Len(u.options) # 0
  <2>1. 1 \in 1..Len(u.options) /\ 1 - 1 = 0
    BY <1>2, <1>5
  <2>2. /\ drda' = e /\ rest' = OptionsFrom(u, 1) /\ step' = "option" /\ sep' = u.by
    BY <1>1, <1>5
  <2>3. OptionsRead(drda', rest', u, 1)
    BY <1>1, <1>3, <2>1, <2>2 DEF OptionsRead
  <2> QED
    BY <2>1, <2>2, <2>3
<1> QED
  BY <1>4, <1>5

\* The next option is set, or the last
LEMMA UrlGoesOn ==
    ASSUME NEW u, WellFormed(u), Settings(drda), sep = u.by, NEW i \in 1..Len(u.options),
           OptionsRead(drda, rest, u, i), SetOption
    PROVE  \/ step' = "done" /\ UrlSays(drda', params, u)
           \/ step' = "option" /\ \E j \in 1..Len(u.options) : OptionsRead(drda', rest', u, j)
<1> DEFINE o == u.options[i]
           e == SetByKeyvalue(drda, o)
<1>1. Len(u.options) \in Nat /\ i \in Nat /\ i <= Len(u.options) /\ i >= 1
  BY BaseFound
<1>2. Before(rest, sep) = o /\ (Has(rest, sep) <=> i # Len(u.options))
      /\ (i # Len(u.options) => After(rest, sep) = OptionsFrom(u, i + 1))
  <2>1. CASE i = Len(u.options)
    <3>1. rest = o /\ ~Has(rest, sep)
      BY <2>1, OptionFound DEF OptionsRead
    <3> QED
      BY <2>1, <3>1, WithoutIt
  <2>2. CASE i # Len(u.options)
    BY <2>2, OptionFound, Zenon DEF OptionsRead, IsCut
  <2> QED
    BY <2>1, <2>2
<1>3. IF Has(rest, sep) /\ Has(Before(rest, sep), "=")
      THEN /\ drda' = SetByKeyvalue(drda, Before(rest, sep)) /\ rest' = After(rest, sep)
           /\ step' = "option"
      ELSE Finish(SetByKeyvalue(drda, Before(rest, sep)))
  BY Zenon DEF SetOption, Advances
<1>4. IF i # Len(u.options) /\ Has(o, "=")
      THEN drda' = e /\ rest' = OptionsFrom(u, i + 1) /\ step' = "option"
      ELSE Finish(e)
  BY <1>2, <1>3, Zenon
<1>5. ReadPlace(e, u) /\ Settings(e)
  BY KeyvalueReads, KeyvalueTypes DEF OptionsRead
<1>6. Has(o, "=") => OptionsHeld(e.options, u, i)
  <2>1. PICK m \in Nat : m = i - 1 /\ m + 1 = i
    <3>1. i - 1 \in Nat /\ (i - 1) + 1 = i
      BY <1>1
    <3> QED
      BY <3>1
  <2>2. OptionsHeld(drda.options, u, m)
    BY <2>1 DEF OptionsRead
  <2>3. Has(u.options[m + 1], "=") =>
            OptionsHeld(SetByKeyvalue(drda, u.options[m + 1]).options, u, m + 1)
    BY <2>2, OptionNext
  <2> QED
    BY <2>1, <2>3
<1>7. CASE i # Len(u.options) /\ Has(o, "=")
  <2>1. i + 1 \in 1..Len(u.options) /\ (i + 1) - 1 = i
    BY <1>1, <1>7
  <2>2. drda' = e /\ rest' = OptionsFrom(u, i + 1) /\ step' = "option"
    BY <1>4, <1>7
  <2> HIDE DEF e
  <2>3. OptionsRead(drda', rest', u, i + 1)
    BY <1>5, <1>6, <1>7, <2>1, <2>2 DEF OptionsRead
  <2> QED
    BY <2>1, <2>2, <2>3
<1>8. CASE i = Len(u.options) /\ Has(o, "=")
  <2>1. i \in 0..Len(u.options) /\ Final(u, i)
    BY <1>1, <1>8 DEF Final
  <2>2. Finish(e)
    BY <1>4, <1>8
  <2> HIDE DEF e
  <2> QED
    BY <1>5, <1>6, <1>8, <2>1, <2>2, FinishReads
<1>9. CASE ~Has(o, "=")
  <2>1. e = drda
    BY <1>9, Zenon DEF SetByKeyvalue
  <2>2. PICK m \in 0..Len(u.options) : m = i - 1 /\ m + 1 = i
    <3>1. i - 1 \in 0..Len(u.options) /\ (i - 1) + 1 = i
      BY <1>1
    <3> QED
      BY <3>1
  <2>3. Final(u, m) /\ OptionsHeld(drda.options, u, m)
    BY <1>9, <2>2 DEF Final, OptionsRead
  <2>4. Finish(e)
    BY <1>4, <1>9
  <2> HIDE DEF e
  <2> QED
    BY <1>5, <2>1, <2>3, <2>4, FinishReads
<1> QED
  BY <1>7, <1>8, <1>9

\* What UrlRead asks of the URL and of where it comes from
UrlAsked ==
    LET u == written.url IN
    /\ u # Nothing /\ written.string = Nothing /\ u.scheme \in {Nothing, <<"drda">>}
    /\ written.file = <<>> \/ (Clean(written.file) /\ <<"URL">> \in DOMAIN params)

\* How far the URL was read
UrlInv ==
    LET u == written.url IN
    /\ u # Nothing => u \in Urls /\ (written.file = <<>> \/ written.file \in FilesWith(Text(u)))
    /\ step \notin {"option", "done"} => drda = NewDrda
    /\ step \in {"find", "item", "string"} => written.file # <<>>
    /\ step = "url" /\ UrlAsked => rest = Text(u)
    /\ step = "option" /\ UrlAsked =>
          sep = u.by /\ \E i \in 1..Len(u.options) : OptionsRead(drda, rest, u, i)
    /\ step = "done" /\ UrlAsked => UrlSays(drda, params, u)

\* A URL of the table is that of the file
LEMMA SectionUrl ==
    ASSUME TextInv, UrlInv, EndOfSection, UrlAsked'
    PROVE  step' = "url" /\ rest' = Text(written.url)
<1> DEFINE u == written.url
           f == written.file
           items == ItemsOf(f)
           name == <<"URL">>
<1>1. step = "item" /\ UNCHANGED <<params, written>> /\ f # <<>>
  BY Zenon DEF EndOfSection, UrlInv
<1>2. u # Nothing /\ written.string = Nothing /\ Clean(f) /\ name \in DOMAIN params
  BY <1>1 DEF UrlAsked
<1>3. step' = "url" /\ rest' = params[name]
  BY <1>2, Zenon DEF EndOfSection
<1>4. SectionHeld
  BY <1>2, EndHolds DEF TextInv
<1>5. items \in Seq(Seq(STRING)) /\ Holds(params, items, Len(items))
  BY <1>4 DEF SectionHeld
<1> HIDE DEF items, name
<1>6. params[name] = LastValue(items, name) /\ DOMAIN params = {NameOf(items[i]) : i \in DOMAIN items}
  BY <1>2, <1>5, HeldLast
<1>7. Gives(items, name)
  BY <1>2, <1>6 DEF Gives
<1>8. u \in Urls /\ f \in FilesWith(Text(u))
  BY <1>1, <1>2 DEF UrlInv
<1>9. LastValue(items, name) = Text(u)
  BY <1>2, <1>7, <1>8, UrlOfFiles DEF items, name
<1> QED
  BY <1>3, <1>6, <1>9

\* Nothing is read yet
LEMMA UrlStart == TInit => UrlInv
<1> SUFFICES ASSUME TInit PROVE UrlInv
  OBVIOUS
<1>1. /\ step = "idle" /\ drda = NewDrda
      /\ written = [file |-> <<>>, string |-> Nothing, url |-> Nothing]
  BY Zenon DEF TInit
<1>2. written.url = Nothing
  BY <1>1
<1> QED
  BY <1>1, <1>2 DEF UrlInv

\* Every step keeps how far the URL was read
LEMMA UrlKeeps == ASSUME TextInv, UrlInv, [TNext]_tvars PROVE UrlInv'
<1> DEFINE u == written.url
<1>1. Settings(drda)
  BY Zenon DEF TextInv, FileInv, TextTypes, Settings
<1>2. ASSUME params' = params, written' = written PROVE UrlAsked' <=> UrlAsked
  BY <1>2 DEF UrlAsked
<1>3. u # Nothing => u \in Urls /\ WellFormed(u)
  BY UrlsAssumption DEF UrlInv
<1>4. CASE UNCHANGED tvars
  <2>1. UNCHANGED <<step, file, rest, sep, params, drda, written>>
    BY <1>4, Zenon DEF tvars
  <2> QED
    BY <1>2, <2>1, Zenon DEF UrlInv
<1>5. CASE \E v \in Urls : Tester(v)
  <2>1. PICK v \in Urls : Tester(v)
    BY <1>5
  <2>2. step = "idle" /\ step' = "url" /\ rest' = Text(v) /\ drda' = drda
        /\ written' = [written EXCEPT !.url = v]
    BY <2>1, Zenon DEF Tester
  <2>3. written = [file |-> <<>>, string |-> Nothing, url |-> Nothing] /\ drda = NewDrda
    BY <2>2, Zenon DEF TextInv, FileInv, UrlInv
  <2>4. written'.file = <<>> /\ written'.url = v
    BY <2>2, <2>3
  <2> QED
    BY <2>2, <2>3, <2>4 DEF UrlInv
<1>6. CASE \E v \in Urls : \E f \in FilesWith(Text(v)), str \in Strings \cup {Nothing} :
              Configure(v, f, str)
  <2>1. PICK v \in Urls : \E f \in FilesWith(Text(v)), str \in Strings \cup {Nothing} :
                               Configure(v, f, str)
    BY <1>6
  <2>9. PICK f \in FilesWith(Text(v)), str \in Strings \cup {Nothing} : Configure(v, f, str)
    BY <2>1
  <2>2. step = "idle" /\ step' = "find" /\ drda' = drda
        /\ written' = [file |-> f, string |-> str, url |-> v]
    BY <2>9, Zenon DEF Configure
  <2>3. drda = NewDrda
    BY <2>2 DEF UrlInv
  <2>4. f # <<>>
    BY FilesAssumption
  <2>5. written'.file = f /\ written'.url = v
    BY <2>2
  <2> QED
    BY <2>2, <2>3, <2>4, <2>5 DEF UrlInv
<1>7. CASE FindSection
  <2>1. step = "find" /\ step' \in {"done", "item", "find"} /\ UNCHANGED <<params, drda, written>>
    BY <1>7, Zenon DEF FindSection
  <2>2. params = <<>> /\ written.file # <<>> /\ drda = NewDrda
    BY <2>1, Zenon DEF TextInv, FileInv, UrlInv
  <2>3. ~UrlAsked'
    <3>1. DOMAIN params = {}
      BY <2>2, EmptySeq
    <3> QED
      BY <2>1, <2>2, <3>1 DEF UrlAsked
  <2> QED
    BY <2>1, <2>2, <2>3 DEF UrlInv
<1>8. CASE EndOfSection
  <2>1. step = "item" /\ step' \in {"string", "url", "done"} /\ UNCHANGED <<params, drda, written>>
    BY <1>8, Zenon DEF EndOfSection
  <2>2. written.file # <<>> /\ drda = NewDrda
    BY <2>1 DEF UrlInv
  <2>3. UrlAsked' => step' = "url" /\ rest' = Text(u)
    BY <1>8, SectionUrl
  <2> QED
    BY <2>1, <2>2, <2>3 DEF UrlInv
<1>9. CASE GetNextItem
  <2>1. step = "item" /\ step' = "item" /\ UNCHANGED <<drda, written>>
    BY <1>9, Zenon DEF GetNextItem
  <2> QED
    BY <2>1 DEF UrlInv
<1>10. CASE SetItem
  <2>1. step = "string" /\ step' \in {"string", "done"} /\ UNCHANGED <<drda, written>>
    BY <1>10, Zenon DEF SetItem
  <2>2. ~UrlAsked'
    BY <2>1 DEF TextInv, AskedWhere, UrlAsked
  <2> QED
    BY <2>1, <2>2 DEF UrlInv
<1>11. CASE SetByUrl
  <2>1. step = "url" /\ step' \in {"done", "option"} /\ UNCHANGED <<params, written>>
    BY <1>1, <1>11, SetByUrlTypes
  <2>2. CASE UrlAsked
    <3>1. /\ u # Nothing /\ u.scheme \in {Nothing, <<"drda">>} /\ rest = Text(u) /\ drda = NewDrda
      BY <2>1, <2>2 DEF UrlAsked, UrlInv
    <3>2. \/ step' = "done" /\ UrlSays(drda', params, u)
          \/ step' = "option" /\ sep' = u.by
             /\ \E i \in 1..Len(u.options) : OptionsRead(drda', rest', u, i)
      <4> HIDE DEF u
      <4> QED
        BY <1>3, <1>11, <3>1, UrlStarts
    <3> QED
      BY <2>1, <3>2 DEF UrlInv
  <2>3. CASE ~UrlAsked
    <3>1. ~UrlAsked'
      BY <1>2, <2>1, <2>3
    <3> QED
      BY <2>1, <3>1 DEF UrlInv
  <2> QED
    BY <2>2, <2>3
<1>12. CASE SetOption
  <2>1. step = "option" /\ step' \in {"done", "option"} /\ UNCHANGED <<params, written, sep>>
    BY <1>1, <1>12, SetOptionTypes
  <2>2. CASE UrlAsked
    <3>1. PICK i \in 1..Len(u.options) : OptionsRead(drda, rest, u, i) /\ u # Nothing /\ sep = u.by
      BY <2>1, <2>2 DEF UrlAsked, UrlInv
    <3>2. \/ step' = "done" /\ UrlSays(drda', params, u)
          \/ step' = "option" /\ \E j \in 1..Len(u.options) : OptionsRead(drda', rest', u, j)
      <4> HIDE DEF u
      <4> QED
        BY <1>1, <1>3, <1>12, <3>1, UrlGoesOn
    <3> QED
      BY <2>1, <3>1, <3>2 DEF UrlInv
  <2>3. CASE ~UrlAsked
    <3>1. ~UrlAsked'
      BY <1>2, <2>1, <2>3
    <3> QED
      BY <2>1, <3>1 DEF UrlInv
  <2> QED
    BY <2>2, <2>3
<1> QED
  BY <1>4, <1>5, <1>6, <1>7, <1>8, <1>9, <1>10, <1>11, <1>12, Zenon DEF TNext

(* drda_set_by_url() reads every well-formed drda URL as it is written,    *)
(* and its options up to the first malformed one, from the command line    *)
(* as from a clean odbc.ini.                                               *)
THEOREM UrlAsWritten == TextSpec => []UrlRead
<1>1. TextInv /\ UrlInv /\ [TNext]_tvars => (TextInv /\ UrlInv)'
  BY AskedKeeps, FileKeeps, StringKeeps, UrlKeeps DEF TextInv
<1>2. TInit => TextInv /\ UrlInv
  BY TextStart, UrlStart
<1>3. UrlInv => UrlRead
  <2> SUFFICES ASSUME UrlInv, step = "done", UrlAsked
               PROVE  UrlSays(drda, params, written.url)
    BY Zenon DEF UrlRead, UrlAsked, UrlSays
  <2> QED
    BY DEF UrlInv
<1> QED
  BY <1>1, <1>2, <1>3, PTL DEF TextSpec

=============================================================================
