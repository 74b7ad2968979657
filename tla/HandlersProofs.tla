---------------------------- MODULE HandlersProofs ---------------------------
(***************************************************************************)
(* Proofs about the handlers that keep no state, for every body and every  *)
(* chain name a caller may send: amounts of any length, where the runs try *)
(* those of up to five characters.                                         *)
(*                                                                         *)
(* The inductive invariant Answered says what each answer was made of; the *)
(* work is in the lemmas about validateAmount, which compare the steps of  *)
(* the parser with the decimals it is to accept.                           *)
(***************************************************************************)
EXTENDS Handlers, SequenceTheorems, WellFoundedInduction, TLAPS

-----------------------------------------------------------------------------
(***************************************************************************)
(* The first and the last place of a sequence with a property.             *)
(***************************************************************************)
LEMMA LeastNumber ==
    ASSUME NEW I \in SUBSET Nat, I # {}
    PROVE  \E x \in I : \A y \in I : x <= y
  <1> DEFINE R == {ss \in Nat \X Nat : ss[1] < ss[2]}
  <1>1. IsWellFoundedOn(R, Nat)
    BY NatLessThanWellFounded DEF OpToRel
  <1> HIDE DEF R
  <1>2. PICK x \in I : \A y \in I : ~ (<<y, x>> \in R)
    BY <1>1, WFMin
  <1>3. \A y \in I : ~ (y < x)
    BY <1>2 DEF R
  <1> QED
    BY <1>3

LEMMA LeastPlace ==
    ASSUME NEW n \in Nat, NEW I \in SUBSET (1 .. n), I # {}
    PROVE  Min(I) \in I /\ \A i \in I : Min(I) <= i
  <1>1. I \in SUBSET Nat
    OBVIOUS
  <1>2. \E x \in I : \A y \in I : x <= y
    BY <1>1, LeastNumber
  <1> QED
    BY <1>2 DEF Min

LEMMA GreatestPlace ==
    ASSUME NEW n \in Nat, NEW I \in SUBSET (1 .. n), I # {}
    PROVE  Max(I) \in I /\ \A i \in I : i <= Max(I)
  <1> DEFINE J == {n - i : i \in I}
  <1>1. J \in SUBSET Nat
    <2>1. \A i \in I : n - i \in Nat
      OBVIOUS
    <2> QED
      BY <2>1
  <1>2. J # {}
    OBVIOUS
  <1> HIDE DEF J
  <1>3. PICK m \in J : \A j \in J : m <= j
    BY <1>1, <1>2, LeastNumber
  <1>4. PICK x \in I : m = n - x
    BY DEF J
  <1>5. ASSUME NEW y \in I
        PROVE  x >= y
    <2>1. n - x <= n - y
      BY <1>3, <1>4 DEF J
    <2>2. x \in Nat /\ y \in Nat
      OBVIOUS
    <2> QED
      BY <2>1, <2>2
  <1>6. \E z \in I : \A y \in I : z >= y
    BY <1>5
  <1>7. Max(I) \in I /\ \A i \in I : Max(I) >= i
    BY <1>6 DEF Max
  <1>8. \A i \in I : i \in Nat
    OBVIOUS
  <1> QED
    BY <1>7, <1>8

LEMMA SeqDomain ==
    ASSUME NEW a \in Seq(Characters)
    PROVE  /\ Len(a) \in Nat
           /\ DOMAIN a = 1 .. Len(a)
           /\ \A i \in DOMAIN a : i \in Nat \ {0} /\ a[i] \in Characters
  OBVIOUS

(***************************************************************************)
(* strings.TrimSpace takes away the spaces on both sides, and nothing      *)
(* else.                                                                   *)
(***************************************************************************)
LEMMA TrimmedOf ==
    ASSUME NEW a \in Seq(Characters)
    PROVE  \/ TrimSpace(a) = <<>> /\ \A i \in DOMAIN a : a[i] = " "
           \/ \E f, l \in DOMAIN a :
                 /\ f <= l /\ a[f] # " " /\ a[l] # " "
                 /\ \A i \in DOMAIN a \ (f .. l) : a[i] = " "
                 /\ TrimSpace(a) = SubSeq(a, f, l)
  <1> DEFINE I == {i \in 1 .. Len(a) : ~ IsSpace(a[i])}
  <1>1. Len(a) \in Nat /\ DOMAIN a = 1 .. Len(a)
    OBVIOUS
  <1>2. TrimSpace(a) =
           LET first == IF I # {} THEN Min(I) ELSE 0
               last == IF I # {} THEN Max(I) ELSE 0
           IN  IF first = 0 THEN <<>> ELSE SubSeq(a, first, last)
    BY DEF TrimSpace, SelectInSeq, SelectLastInSeq
  <1>3. CASE I = {}
    BY <1>1, <1>2, <1>3 DEF IsSpace
  <1>4. CASE I # {}
    <2>1. Min(I) \in I /\ \A i \in I : Min(I) <= i
      BY <1>1, <1>4, LeastPlace
    <2>2. Max(I) \in I /\ \A i \in I : i <= Max(I)
      BY <1>1, <1>4, GreatestPlace
    <2>3. TrimSpace(a) = SubSeq(a, Min(I), Max(I))
      <3>1. Min(I) # 0
        BY <2>1
      <3> QED
        BY <1>2, <1>4, <3>1
    <2>4. PICK f \in DOMAIN a : f = Min(I)
      BY <1>1, <2>1
    <2>5. PICK l \in DOMAIN a : l = Max(I)
      BY <1>1, <2>2
    <2>6. f <= l /\ a[f] # " " /\ a[l] # " "
      BY <2>1, <2>2, <2>4, <2>5 DEF IsSpace
    <2>7. ASSUME NEW i \in DOMAIN a, a[i] # " "
          PROVE  i \in f .. l
      <3>1. i \in I
        BY <1>1, <2>7 DEF IsSpace
      <3> QED
        BY <2>1, <2>2, <2>4, <2>5, <3>1
    <2> QED
      BY <2>3, <2>4, <2>5, <2>6, <2>7
  <1> QED
    BY <1>3, <1>4

(***************************************************************************)
(* Where strings.SplitN cuts.                                              *)
(***************************************************************************)
LEMMA PointOf ==
    ASSUME NEW s \in Seq(Characters)
    PROVE  \/ Point(s) = 0 /\ \A i \in DOMAIN s : s[i] # "."
           \/ \E p \in DOMAIN s :
                 Point(s) = p /\ s[p] = "." /\ \A i \in DOMAIN s : s[i] = "." => p <= i
  <1> DEFINE I == {i \in 1 .. Len(s) : s[i] = "."}
  <1>1. Len(s) \in Nat /\ DOMAIN s = 1 .. Len(s)
    OBVIOUS
  <1>2. Point(s) = IF I # {} THEN Min(I) ELSE 0
    BY DEF Point, SelectInSeq
  <1>3. CASE I = {}
    BY <1>1, <1>2, <1>3
  <1>4. CASE I # {}
    <2>1. Min(I) \in I /\ \A i \in I : Min(I) <= i
      BY <1>1, <1>4, LeastPlace
    <2>2. PICK p \in DOMAIN s : p = Min(I)
      BY <1>1, <2>1
    <2> QED
      BY <1>1, <1>2, <1>4, <2>1, <2>2
  <1> QED
    BY <1>3, <1>4

LEMMA RangeOfPair ==
    ASSUME NEW x, NEW y
    PROVE  Range(<<x, y>>) = {x, y}
  <1> DEFINE q == <<x, y>>
  <1>1. DOMAIN q = {1, 2} /\ q[1] = x /\ q[2] = y
    OBVIOUS
  <1> HIDE DEF q
  <1>2. Range(q) = {x, y}
    BY <1>1 DEF Range
  <1> QED
    BY <1>2 DEF q

LEMMA DigitsOfPart ==
    ASSUME NEW s \in Seq(Characters), NEW m \in 1 .. (Len(s) + 1), NEW n \in 0 .. Len(s)
    PROVE  SubSeq(s, m, n) # <<>> /\ Range(SubSeq(s, m, n)) \subseteq Digits
              <=> m <= n /\ \A i \in m .. n : s[i] \in Digits
  <1> DEFINE q == SubSeq(s, m, n)
  <1>1. Len(s) \in Nat /\ DOMAIN s = 1 .. Len(s) /\ m \in Nat /\ n \in Nat
    OBVIOUS
  <1>2. \A i \in m .. n : s[i] \in Characters
    OBVIOUS
  <1>3. /\ q \in Seq(Characters)
        /\ Len(q) = IF m <= n THEN n - m + 1 ELSE 0
        /\ \A i \in 1 .. (n - m + 1) : q[i] = s[m + i - 1]
    BY <1>1, <1>2, SubSeqProperties
  <1> HIDE DEF q
  <1>4. DOMAIN q = 1 .. Len(q) /\ (q = <<>> <=> Len(q) = 0)
    BY <1>3
  <1>5. ASSUME n < m
        PROVE  q = <<>> /\ ~ (m <= n)
    BY <1>1, <1>3, <1>4, <1>5
  <1>6. ASSUME m <= n
        PROVE  q # <<>> /\ (Range(q) \subseteq Digits <=> \A i \in m .. n : s[i] \in Digits)
    <2>1. DOMAIN q = 1 .. (n - m + 1) /\ q # <<>>
      BY <1>1, <1>3, <1>4, <1>6
    <2>2. ASSUME Range(q) \subseteq Digits, NEW i \in m .. n
          PROVE  s[i] \in Digits
      <3>1. i - m + 1 \in DOMAIN q /\ m + (i - m + 1) - 1 = i
        BY <1>1, <2>1
      <3>2. q[i - m + 1] = s[i]
        BY <1>3, <2>1, <3>1
      <3> QED
        BY <2>2, <3>1, <3>2 DEF Range
    <2>3. ASSUME \A i \in m .. n : s[i] \in Digits, NEW j \in DOMAIN q
          PROVE  q[j] \in Digits
      <3>1. m + j - 1 \in m .. n
        BY <1>1, <2>1
      <3> QED
        BY <1>3, <2>1, <2>3, <3>1
    <2>4. (\A j \in DOMAIN q : q[j] \in Digits) => Range(q) \subseteq Digits
      BY DEF Range
    <2> QED
      BY <2>1, <2>2, <2>3, <2>4
  <1>7. n < m \/ m <= n
    BY <1>1
  <1>8. q # <<>> /\ Range(q) \subseteq Digits
           <=> m <= n /\ \A i \in m .. n : s[i] \in Digits
    BY <1>5, <1>6, <1>7, Zenon
  <1> QED
    BY <1>8 DEF q

(***************************************************************************)
(* Digits on both sides of the point, if there is one: that is what the    *)
(* two parts of SplitN are asked for.                                      *)
(***************************************************************************)
IsDecimal(s) ==
    /\ s[1] \in Digits /\ s[Len(s)] \in Digits
    /\ \A i \in DOMAIN s : s[i] \in Digits \union {"."}
    /\ \A i, j \in DOMAIN s : s[i] = "." /\ s[j] = "." => i = j

PartsAreDigits(s) == \A part \in Range(Parts(s)) : part # <<>> /\ Range(part) \subseteq Digits

LEMMA PartsOfDecimal ==
    ASSUME NEW s \in Seq(Characters), s # <<>>
    PROVE  PartsAreDigits(s) <=> IsDecimal(s)
  <1>1. Len(s) \in Nat \ {0} /\ DOMAIN s = 1 .. Len(s)
    OBVIOUS
  <1>2. "." \notin Digits
    BY DEF Digits
  <1>3. CASE Point(s) = 0 /\ \A i \in DOMAIN s : s[i] # "."
    <2>1. Range(Parts(s)) = {s}
      BY <1>3 DEF Parts, Range
    <2>2. PartsAreDigits(s) <=> \A i \in DOMAIN s : s[i] \in Digits
      BY <2>1 DEF PartsAreDigits, Range
    <2>3. 1 \in DOMAIN s /\ Len(s) \in DOMAIN s
      BY <1>1
    <2> QED
      BY <1>3, <2>2, <2>3 DEF IsDecimal
  <1>4. ASSUME NEW p \in DOMAIN s, Point(s) = p, s[p] = ".",
               \A i \in DOMAIN s : s[i] = "." => p <= i
        PROVE  PartsAreDigits(s) <=> IsDecimal(s)
    <2> DEFINE before == SubSeq(s, 1, p - 1)
               after == SubSeq(s, p + 1, Len(s))
    <2>1. p # 0
      BY <1>1
    <2>2. Range(Parts(s)) = {before, after}
      <3>1. Parts(s) = <<before, after>>
        BY <1>4, <2>1 DEF Parts
      <3> QED
        BY <3>1, RangeOfPair
    <2>3. before # <<>> /\ Range(before) \subseteq Digits
             <=> 1 <= p - 1 /\ \A i \in 1 .. (p - 1) : s[i] \in Digits
      <3>1. 1 \in 1 .. (Len(s) + 1) /\ p - 1 \in 0 .. Len(s)
        BY <1>1
      <3> QED
        BY <3>1, DigitsOfPart
    <2>4. after # <<>> /\ Range(after) \subseteq Digits
             <=> p + 1 <= Len(s) /\ \A i \in (p + 1) .. Len(s) : s[i] \in Digits
      <3>1. p + 1 \in 1 .. (Len(s) + 1) /\ Len(s) \in 0 .. Len(s)
        BY <1>1
      <3> QED
        BY <3>1, DigitsOfPart
    <2> HIDE DEF before, after
    <2>5. PartsAreDigits(s) <=>
             /\ 1 <= p - 1 /\ \A i \in 1 .. (p - 1) : s[i] \in Digits
             /\ p + 1 <= Len(s) /\ \A i \in (p + 1) .. Len(s) : s[i] \in Digits
      BY <2>2, <2>3, <2>4 DEF PartsAreDigits
    <2>6. ASSUME PartsAreDigits(s)
          PROVE  IsDecimal(s)
      <3>1. \A i \in DOMAIN s : i = p \/ s[i] \in Digits
        BY <1>1, <2>5, <2>6
      <3>2. 1 \in DOMAIN s \ {p} /\ Len(s) \in DOMAIN s \ {p}
        BY <1>1, <2>5, <2>6
      <3> QED
        BY <1>2, <1>4, <3>1, <3>2 DEF IsDecimal
    <2>7. ASSUME IsDecimal(s)
          PROVE  PartsAreDigits(s)
      <3>1. \A i \in DOMAIN s \ {p} : s[i] \in Digits
        BY <1>4, <2>7 DEF IsDecimal
      <3>2. p # 1 /\ p # Len(s)
        BY <1>2, <1>4, <2>7 DEF IsDecimal
      <3> QED
        BY <1>1, <2>5, <3>1, <3>2
    <2> QED
      BY <2>6, <2>7
  <1> QED
    BY <1>3, <1>4, PointOf

(***************************************************************************)
(* validateAmount accepts the positive decimals, with space around them,   *)
(* whose float64 is not zero.                                              *)
(***************************************************************************)
LEMMA SameEnds ==
    ASSUME NEW from \in Nat, NEW to \in Nat, NEW f \in Nat, NEW l \in Nat,
           from \in f .. l, to \in f .. l, f \in from .. to, l \in from .. to
    PROVE  from = f /\ to = l
  OBVIOUS

LEMMA SameDistance ==
    ASSUME NEW f \in Nat, NEW i \in Nat, NEW j \in Nat, NEW p \in Nat, NEW q \in Nat,
           NEW far \in Nat, i = f + j - 1, p = f + q - 1
    PROVE  i >= p + far <=> j >= q + far
  OBVIOUS

LEMMA OneDecimal ==
    ASSUME NEW a \in Seq(Characters), NEW f \in DOMAIN a, NEW l \in DOMAIN a,
           a[f] # " ", a[l] # " ", \A i \in DOMAIN a \ (f .. l) : a[i] = " "
    PROVE  (\E from, to \in DOMAIN a : DecimalFrom(a, from, to)) <=> DecimalFrom(a, f, l)
  <1>1. \A i \in DOMAIN a : i \in Nat
    BY SeqDomain
  <1>2. ASSUME NEW from \in DOMAIN a, NEW to \in DOMAIN a, DecimalFrom(a, from, to)
        PROVE  from = f /\ to = l
    <2>1. a[from] # " " /\ a[to] # " " /\ \A i \in DOMAIN a \ (from .. to) : a[i] = " "
      BY <1>2 DEF DecimalFrom, IsSpace, Digits
    <2>2. from \in f .. l /\ to \in f .. l
      BY <2>1
    <2>3. f \in from .. to /\ l \in from .. to
      BY <2>1
    <2>4. from \in Nat /\ to \in Nat /\ f \in Nat /\ l \in Nat
      BY <1>1
    <2> QED
      BY <2>2, <2>3, <2>4, SameEnds
  <1> QED
    BY <1>2

\* t is what a has from f to l.
IsPart(t, a, f, l) ==
    /\ DOMAIN t = 1 .. (l - f + 1)
    /\ \A i \in DOMAIN t : f + i - 1 \in f .. l /\ t[i] = a[f + i - 1]
    /\ \A k \in f .. l : k - f + 1 \in DOMAIN t /\ t[k - f + 1] = a[k]

\* A name, so that the provers look into a text only where they are to.
Text == Seq(Characters)

LEMMA TinyAmounts ==
    ASSUME NEW a \in Text, NEW f \in DOMAIN a, NEW l \in DOMAIN a,
           NEW t \in Text, IsPart(t, a, f, l),
           DecimalFrom(a, f, l), NEW seven \in DOMAIN a, a[seven] = "7"
    PROVE  ReadsAsZero(t) <=>
              \E p \in DOMAIN a : a[p] = "." /\ \A i \in DOMAIN a : a[i] = "7" => i >= p + Underflow
  <1>1. \A i \in DOMAIN a : i \in Nat \ {0}
    BY SeqDomain DEF Text
  <1>2. \A i \in DOMAIN t : i \in Nat \ {0}
    BY SeqDomain DEF Text
  <1>3. Underflow \in Nat
    BY JournalAssumption
  <1>4. \A i \in DOMAIN a : a[i] # " " => i \in f .. l
    BY DEF DecimalFrom, IsSpace
  <1>5. \A i, j \in f .. l : a[i] = "." /\ a[j] = "." => i = j
    BY DEF DecimalFrom
  <1>6. \A k \in f .. l : k \in DOMAIN a
    BY <1>1, SeqDomain DEF Text
  <1>7. ASSUME ReadsAsZero(t)
        PROVE  \E p \in DOMAIN a : a[p] = "." /\ \A i \in DOMAIN a : a[i] = "7" => i >= p + Underflow
    <2>1. seven \in f .. l
      BY <1>4
    <2>2. Point(t) > 0
      BY <1>7, <2>1 DEF ReadsAsZero, IsPart
    <2>3. PICK q \in DOMAIN t : Point(t) = q /\ t[q] = "."
      BY <2>2, PointOf DEF Text
    <2>4. PICK p \in f .. l : p = f + q - 1
      BY DEF IsPart
    <2>5. p \in DOMAIN a /\ a[p] = "."
      BY <1>6, <2>3, <2>4 DEF IsPart
    <2>6. ASSUME NEW i \in DOMAIN a, a[i] = "7"
          PROVE  i >= p + Underflow
      <3>1. i \in f .. l
        BY <1>4, <2>6
      <3>2. i - f + 1 >= q + Underflow
        BY <1>7, <2>3, <2>6, <3>1 DEF ReadsAsZero, IsPart
      <3>3. PICK j \in DOMAIN t : j = i - f + 1
        BY <3>1 DEF IsPart
      <3>4. i \in Nat /\ j \in Nat /\ f \in Nat /\ q \in Nat /\ p \in Nat
        BY <1>1, <1>2, <2>5
      <3>5. i = f + j - 1
        BY <3>3, <3>4
      <3>6. i >= p + Underflow <=> j >= q + Underflow
        BY <1>3, <2>4, <3>4, <3>5, SameDistance
      <3> QED
        BY <3>2, <3>3, <3>6
    <2> QED
      BY <2>5, <2>6
  <1>8. ASSUME NEW p \in DOMAIN a, a[p] = ".",
               \A i \in DOMAIN a : a[i] = "7" => i >= p + Underflow
        PROVE  ReadsAsZero(t)
    <2>1. p \in f .. l
      BY <1>4, <1>8
    <2>2. t[p - f + 1] = "." /\ p - f + 1 \in DOMAIN t
      BY <1>8, <2>1 DEF IsPart
    <2>3. PICK q \in DOMAIN t : Point(t) = q /\ t[q] = "."
      BY <2>2, PointOf DEF Text
    <2>4. f + q - 1 = p
      BY <1>5, <1>8, <2>1, <2>3 DEF IsPart
    <2>5. q \in Nat /\ q > 0 /\ f \in Nat
      BY <1>1, <1>2
    <2>6. ASSUME NEW i \in DOMAIN t, t[i] = "7"
          PROVE  i >= q + Underflow
      <3>1. f + i - 1 \in DOMAIN a /\ a[f + i - 1] = "7"
        BY <1>6, <2>6 DEF IsPart
      <3>2. f + i - 1 >= p + Underflow
        BY <1>8, <3>1
      <3>3. PICK k \in DOMAIN a : k = f + i - 1
        BY <3>1
      <3>4. i \in Nat /\ k \in Nat /\ p \in Nat
        BY <1>1, <1>2
      <3>5. k >= p + Underflow <=> i >= q + Underflow
        <4>1. p = f + q - 1
          BY <2>4
        <4> QED
          BY <1>3, <2>5, <3>3, <3>4, <4>1, SameDistance
      <3> QED
        BY <3>2, <3>3, <3>5
    <2> QED
      BY <2>3, <2>5, <2>6 DEF ReadsAsZero
  <1> QED
    BY <1>7, <1>8

LEMMA PartOf ==
    ASSUME NEW a \in Seq(Characters), NEW f \in DOMAIN a, NEW l \in DOMAIN a, f <= l
    PROVE  /\ SubSeq(a, f, l) \in Seq(Characters)
           /\ SubSeq(a, f, l) # <<>>
           /\ Len(SubSeq(a, f, l)) = l - f + 1
           /\ IsPart(SubSeq(a, f, l), a, f, l)
  <1> DEFINE t == SubSeq(a, f, l)
  <1>1. f \in Nat \ {0} /\ l \in Nat /\ f <= l
    BY SeqDomain
  <1>2. \A i \in f .. l : a[i] \in Characters
    <2>1. \A i \in f .. l : i \in DOMAIN a
      BY <1>1, SeqDomain
    <2> QED
      BY <2>1, SeqDomain
  <1>3. /\ t \in Seq(Characters)
        /\ Len(t) = IF f <= l THEN l - f + 1 ELSE 0
        /\ \A i \in 1 .. (l - f + 1) : t[i] = a[f + i - 1]
    <2>1. f \in Int /\ l \in Int
      BY <1>1
    <2> QED
      BY <1>2, <2>1, SubSeqProperties
  <1> HIDE DEF t
  <1>4. Len(t) = l - f + 1
    BY <1>1, <1>3
  <1>5. DOMAIN t = 1 .. (l - f + 1)
    BY <1>3, <1>4, SeqDomain
  <1>6. t # <<>>
    BY <1>1, <1>4
  <1>7. \A i \in DOMAIN t : f + i - 1 \in f .. l /\ t[i] = a[f + i - 1]
    <2>1. \A i \in 1 .. (l - f + 1) : f + i - 1 \in f .. l
      BY <1>1
    <2> QED
      BY <1>3, <1>5, <2>1
  <1>8. ASSUME NEW k \in f .. l
        PROVE  k - f + 1 \in DOMAIN t /\ t[k - f + 1] = a[k]
    <2>1. k - f + 1 \in 1 .. (l - f + 1) /\ f + (k - f + 1) - 1 = k
      BY <1>1
    <2> QED
      BY <1>3, <1>5, <2>1
  <1> QED
    BY <1>3, <1>4, <1>5, <1>6, <1>7, <1>8 DEF IsPart, t

LEMMA ValidAmounts ==
    ASSUME NEW a \in Seq(Characters)
    PROVE  AmountIsValid(a) <=> PositiveDecimal(a) /\ ~ IsTiny(a)
  <1>1. CASE TrimSpace(a) = <<>> /\ \A i \in DOMAIN a : a[i] = " "
    BY <1>1 DEF AmountIsValid, PositiveDecimal
  <1>2. ASSUME NEW f \in DOMAIN a, NEW l \in DOMAIN a, f <= l, a[f] # " ", a[l] # " ",
               \A i \in DOMAIN a \ (f .. l) : a[i] = " ",
               TrimSpace(a) = SubSeq(a, f, l)
        PROVE  AmountIsValid(a) <=> PositiveDecimal(a) /\ ~ IsTiny(a)
    <2> DEFINE t == SubSeq(a, f, l)
    <2>1. /\ t \in Seq(Characters) /\ t # <<>>
          /\ Len(t) = l - f + 1
          /\ IsPart(t, a, f, l)
      BY <1>2, PartOf
    <2> HIDE DEF t
    <2>2. f \in Nat /\ l \in Nat /\ f <= l
      BY <1>2, SeqDomain
    <2>3. \A i \in DOMAIN t : i \in Nat
      BY <2>1, SeqDomain
    <2>4. AmountIsValid(a) <=> IsDecimal(t) /\ ~ ReadsAsZero(t)
      <3>1. PartsAreDigits(t) <=> IsDecimal(t)
        BY <2>1, PartsOfDecimal
      <3> QED
        BY <1>2, <2>1, <3>1 DEF AmountIsValid, PartsAreDigits, t
    <2>5. IsDecimal(t) <=> DecimalFrom(a, f, l)
      <3>1. t[1] = a[f] /\ t[Len(t)] = a[l]
        <4>1. f \in f .. l /\ f - f + 1 = 1 /\ l \in f .. l
          BY <2>2
        <4> QED
          BY <2>1, <4>1 DEF IsPart
      <3>2. (\A i \in DOMAIN t : t[i] \in Digits \union {"."})
               <=> \A k \in f .. l : a[k] \in Digits \union {"."}
        BY <2>1 DEF IsPart
      <3>3. ASSUME \A i, j \in DOMAIN t : t[i] = "." /\ t[j] = "." => i = j,
                   NEW i \in f .. l, NEW j \in f .. l, a[i] = ".", a[j] = "."
            PROVE  i = j
        <4>1. i - f + 1 = j - f + 1
          BY <2>1, <3>3 DEF IsPart
        <4> QED
          BY <2>2, <4>1
      <3>4. ASSUME \A i, j \in f .. l : a[i] = "." /\ a[j] = "." => i = j,
                   NEW i \in DOMAIN t, NEW j \in DOMAIN t, t[i] = ".", t[j] = "."
            PROVE  i = j
        <4>1. /\ f + i - 1 \in f .. l /\ a[f + i - 1] = "."
              /\ f + j - 1 \in f .. l /\ a[f + j - 1] = "."
          BY <2>1, <3>4 DEF IsPart
        <4>2. f + i - 1 = f + j - 1
          BY <3>4, <4>1
        <4> QED
          BY <2>2, <2>3, <4>2
      <3> QED
        BY <1>2, <3>1, <3>2, <3>3, <3>4 DEF IsDecimal, DecimalFrom, IsSpace
    <2>6. PositiveDecimal(a) <=> DecimalFrom(a, f, l) /\ \E i \in DOMAIN a : a[i] = "7"
      BY <1>2, OneDecimal DEF PositiveDecimal
    <2>7. ASSUME DecimalFrom(a, f, l), \A i \in DOMAIN a : a[i] # "7"
          PROVE  ReadsAsZero(t)
      <3>1. \A k \in f .. l : k \in DOMAIN a
        BY <2>2, SeqDomain
      <3>2. \A i \in DOMAIN t : t[i] # "7"
        BY <2>1, <2>7, <3>1 DEF IsPart
      <3> QED
        BY <3>2 DEF ReadsAsZero
    <2>8. ASSUME DecimalFrom(a, f, l), NEW seven \in DOMAIN a, a[seven] = "7"
           PROVE  ReadsAsZero(t) <=> IsTiny(a)
      <3>1. ReadsAsZero(t) <=>
               \E p \in DOMAIN a :
                  a[p] = "." /\ \A i \in DOMAIN a : a[i] = "7" => i >= p + Underflow
        BY <2>1, <2>8, TinyAmounts DEF Text
      <3> QED
        BY <2>6, <2>8, <3>1 DEF IsTiny
    <2> QED
      BY <2>4, <2>5, <2>6, <2>7, <2>8
  <1> QED
    BY <1>1, <1>2, TrimmedOf

-----------------------------------------------------------------------------
(***************************************************************************)
(* The inductive invariant: what is kept of each call is its answer.       *)
(***************************************************************************)
Answered ==
    /\ \/ lastEntry \in {Nothing, Undecodable}
       \/ \E req \in EntryRequests :
             lastEntry = [request |-> req, status |-> IF EntryIsAccepted(req) THEN 201 ELSE 400]
    /\ \/ lastRoute \in {Nothing, Undecodable}
       \/ \E wanted \in ChainNames \union {""} :
             lastRoute = [wanted |-> wanted, answer |-> Answer(wanted)]
    /\ catalog = {} \/ catalog = {ListedChain(c) : c \in Chains}

LEMMA AnsweredInit == Init => Answered
  BY DEF Init, Answered

LEMMA AnsweredStep == Answered /\ [Next]_vars => Answered'
  <1> SUFFICES ASSUME Answered, [Next]_vars
               PROVE  Answered'
    OBVIOUS
  <1> DEFINE Entry(e) ==
                \/ e \in {Nothing, Undecodable}
                \/ \E req \in EntryRequests :
                      e = [request |-> req, status |-> IF EntryIsAccepted(req) THEN 201 ELSE 400]
             Routing(r) ==
                \/ r \in {Nothing, Undecodable}
                \/ \E wanted \in ChainNames \union {""} :
                      r = [wanted |-> wanted, answer |-> Answer(wanted)]
             Listing(c) == c = {} \/ c = {ListedChain(x) : x \in Chains}
  <1>1. Entry(lastEntry) /\ Routing(lastRoute) /\ Listing(catalog)
    BY DEF Answered
  <1>2. Entry(lastEntry') /\ Routing(lastRoute') /\ Listing(catalog') => Answered'
    BY DEF Answered
  <1>3. CASE CreateEntry
    <2>1. Entry(lastEntry')
      BY <1>3 DEF CreateEntry
    <2> HIDE DEF Entry, Routing, Listing
    <2> QED
      BY <1>1, <1>2, <1>3, <2>1 DEF CreateEntry
  <1>4. CASE Route
    <2>1. Routing(lastRoute')
      BY <1>4 DEF Route
    <2> HIDE DEF Entry, Routing, Listing
    <2> QED
      BY <1>1, <1>2, <1>4, <2>1 DEF Route
  <1>5. CASE ListChains
    <2>1. Listing(catalog')
      BY <1>5 DEF ListChains
    <2> HIDE DEF Entry, Routing, Listing
    <2> QED
      BY <1>1, <1>2, <1>5, <2>1 DEF ListChains
  <1>6. CASE UNCHANGED vars
    <2> HIDE DEF Entry, Routing, Listing
    <2> QED
      BY <1>1, <1>2, <1>6 DEF vars
  <1> QED
    BY <1>3, <1>4, <1>5, <1>6 DEF Next

(***************************************************************************)
(* main.go of the ledger and of the router: what the handlers answer is a  *)
(* function of what they were asked.                                       *)
(***************************************************************************)
THEOREM HandlersInvariant == Spec => []Answered
  BY AnsweredInit, AnsweredStep, PTL DEF Spec

\* The caller leaves the choice to the router.
Unnamed(wanted) == wanted = ""

LEMMA AnswerOf ==
    ASSUME NEW wanted
    PROVE  \/ Unnamed(wanted) /\ Answer(wanted) = RouteResponse(rules["solana"])
           \/ /\ ~ Unnamed(wanted) /\ wanted \in Chains
              /\ Answer(wanted) = RouteResponse(rules[wanted])
           \/ /\ ~ Unnamed(wanted) /\ wanted \notin Chains
              /\ Answer(wanted) = [status |-> 400]
  <1>1. "solana" \in Chains
    BY DEF Chains, rules
  <1>2. Best(wanted) = IF Unnamed(wanted) THEN "solana" ELSE wanted
    BY Zenon DEF Best, Unnamed
  <1>3. Answer(wanted) = IF Best(wanted) \notin Chains THEN [status |-> 400]
                                                       ELSE RouteResponse(rules[Best(wanted)])
    BY Zenon DEF Answer, Unsupported, Chains
  <1> QED
    BY <1>1, <1>2, <1>3

LEMMA StatusOf ==
    ASSUME NEW wanted
    PROVE  /\ Answer(wanted).status \in {200, 400}
           /\ Answer(wanted).status = 400 <=> ~ Unnamed(wanted) /\ wanted \notin Chains
           /\ Answer(wanted).status = 200 => \E c \in Chains : Answer(wanted) = RouteResponse(rules[c])
  <1>1. "solana" \in Chains
    BY DEF Chains, rules
  <1>2. \A rule : RouteResponse(rule).status = 200
    BY DEF RouteResponse
  <1>3. \A rule : Answer(wanted) = RouteResponse(rule) => Answer(wanted).status = 200
    BY <1>2
  <1>4. Answer(wanted) = [status |-> 400] => Answer(wanted).status = 400
    OBVIOUS
  <1>5. 200 # 400
    OBVIOUS
  <1> QED
    BY <1>1, <1>3, <1>4, <1>5, AnswerOf

(***************************************************************************)
(* TypeOK of every reachable state: the handlers answer with the statuses  *)
(* they know and list chains of the registry.                              *)
(***************************************************************************)
THEOREM HandlersTypeCorrect == Spec => []TypeOK
  <1>1. Answered => TypeOK
    <2> SUFFICES ASSUME Answered
                 PROVE  TypeOK
      OBVIOUS
    <2>1. \/ lastEntry \in {Nothing, Undecodable}
          \/ /\ lastEntry.request \in EntryRequests
             /\ lastEntry.status \in {201, 400}
      <3>1. ASSUME NEW req \in EntryRequests,
                   lastEntry = [request |-> req,
                                status |-> IF EntryIsAccepted(req) THEN 201 ELSE 400]
            PROVE  lastEntry.request \in EntryRequests /\ lastEntry.status \in {201, 400}
        BY <3>1
      <3> QED
        BY <3>1 DEF Answered
    <2>2. \/ lastRoute \in {Nothing, Undecodable}
          \/ /\ lastRoute.wanted \in ChainNames \union {""}
             /\ lastRoute.answer.status \in {200, 400}
      <3>1. CASE lastRoute \in {Nothing, Undecodable}
        BY <3>1
      <3>2. ASSUME NEW wanted \in ChainNames \union {""},
                   lastRoute = [wanted |-> wanted, answer |-> Answer(wanted)]
            PROVE  lastRoute.wanted \in ChainNames \union {""}
                      /\ lastRoute.answer.status \in {200, 400}
        <4>1. Answer(wanted).status \in {200, 400}
          BY StatusOf
        <4> QED
          BY <3>2, <4>1
      <3> QED
        BY <3>1, <3>2 DEF Answered
    <2>3. \A c \in catalog : c.chain \in Chains
      <3>1. \A c : ListedChain(c).chain = c
        BY DEF ListedChain
      <3>2. catalog = {} \/ catalog = {ListedChain(c) : c \in Chains}
        BY DEF Answered
      <3> QED
        BY <3>1, <3>2
    <2> QED
      BY <2>1, <2>2, <2>3 DEF TypeOK
  <1> QED
    BY <1>1, HandlersInvariant, PTL

(***************************************************************************)
(* ledger main.go:207-244, 275-276.  JournalTakesItsEntries, for bodies    *)
(* with amounts of any length: the journal takes the entries with a        *)
(* positive decimal that float64 can tell from zero, and only those.       *)
(***************************************************************************)
THEOREM JournalIsExact == Spec => []JournalTakesItsEntries
  <1>1. Answered => JournalTakesItsEntries
    <2> SUFFICES ASSUME Answered, lastEntry # Nothing
                 PROVE  JournalTakesItsEntries
      BY DEF JournalTakesItsEntries
    <2>1. CASE lastEntry = Undecodable
      <3>1. lastEntry.status # 201
        BY <2>1 DEF Undecodable
      <3> QED
        BY <2>1, <3>1 DEF JournalTakesItsEntries
    <2>2. CASE lastEntry # Undecodable
      <3>1. PICK req \in EntryRequests :
               lastEntry = [request |-> req, status |-> IF EntryIsAccepted(req) THEN 201 ELSE 400]
        BY <2>2 DEF Answered
      <3>2. AmountIsValid(req.amount) <=> PositiveDecimal(req.amount) /\ ~ IsTiny(req.amount)
        BY HandlersAssumption, ValidAmounts
      <3>3. req.amount = <<>> => ~ PositiveDecimal(req.amount)
        BY DEF PositiveDecimal
      <3>4. req.currency = "" => ~ IsKnownCurrency(req.currency)
        BY DEF IsKnownCurrency, ToUpper
      <3>5. EntryIsAccepted(req) <=>
               /\ "" \notin {req.payment, req.debit, req.credit}
               /\ req.debit # req.credit
               /\ PositiveDecimal(req.amount) /\ ~ IsTiny(req.amount)
               /\ IsKnownCurrency(req.currency)
        BY <3>2, <3>3, <3>4 DEF EntryIsAccepted
      <3>6. lastEntry.request = req /\ (lastEntry.status = 201 <=> EntryIsAccepted(req))
        BY <3>1
      <3> QED
        BY <2>2, <3>5, <3>6 DEF JournalTakesItsEntries
    <2> QED
      BY <2>1, <2>2
  <1> QED
    BY <1>1, HandlersInvariant, PTL

\* The table of finality.go, rule by rule: its keys name their rules, and none
\* asks for fewer confirmations than the default.
LEMMA RulesAreConsistent ==
    ASSUME NEW c \in Chains
    PROVE  /\ rules[c].chain = c
           /\ rules["solana"].confirmations <= rules[c].confirmations
  BY DEF Chains, rules, Rule

(***************************************************************************)
(* router main.go:68, 78-93, 102-107.  RoutesFollowTheCatalog, for every   *)
(* name a caller may ask for.                                              *)
(***************************************************************************)
THEOREM RoutesAreListed == Spec => []RoutesFollowTheCatalog
  <1>1. Answered => RoutesFollowTheCatalog
    <2> SUFFICES ASSUME Answered, Routed, catalog # {}
                 PROVE  RoutesFollowTheCatalog
      BY DEF RoutesFollowTheCatalog
    <2>1. catalog = {ListedChain(c) : c \in Chains}
      BY DEF Answered
    <2>2. PICK wanted : lastRoute = [wanted |-> wanted, answer |-> Answer(wanted)]
      BY DEF Answered, Routed
    <2>3. Answer(wanted).status = 200
      BY <2>2 DEF Routed
    <2> DEFINE c == IF Unnamed(wanted) THEN "solana" ELSE wanted
    <2>4. c \in Chains /\ Answer(wanted) = RouteResponse(rules[c])
      <3>1. "solana" \in Chains
        BY DEF Chains, rules
      <3>2. Unnamed(wanted) \/ wanted \in Chains
        BY <2>3, StatusOf
      <3> QED
        BY <3>1, <3>2, AnswerOf
    <2> HIDE DEF c
    <2>5. lastRoute.wanted = wanted /\ lastRoute.answer = RouteResponse(rules[c])
      BY <2>2, <2>4
    <2>6. lastRoute.answer.chain = c
      BY <2>4, <2>5, RulesAreConsistent DEF RouteResponse
    <2>7. Unnamed(lastRoute.wanted) \/ lastRoute.wanted = lastRoute.answer.chain
      BY <2>5, <2>6 DEF c
    <2>8. [chain |-> lastRoute.answer.chain, confirmations |-> lastRoute.answer.confirmations,
           finality |-> lastRoute.answer.finality] \in catalog
      <3>1. /\ lastRoute.answer.confirmations = rules[c].confirmations
            /\ lastRoute.answer.finality = rules[c].finality
        BY <2>5 DEF RouteResponse
      <3> QED
        BY <2>1, <2>4, <2>6, <3>1 DEF ListedChain
    <2>9. Unnamed(lastRoute.wanted) =>
             \A x \in catalog : lastRoute.answer.score <= x.confirmations
      <3> SUFFICES ASSUME Unnamed(lastRoute.wanted), NEW d \in Chains
                   PROVE  lastRoute.answer.score <= ListedChain(d).confirmations
        BY <2>1
      <3>1. lastRoute.answer.score = rules["solana"].confirmations
        BY <2>5 DEF RouteResponse, c
      <3>2. ListedChain(d).confirmations = rules[d].confirmations
        BY DEF ListedChain
      <3> QED
        BY <3>1, <3>2, RulesAreConsistent
    <2> QED
      BY <2>7, <2>8, <2>9, Zenon DEF RoutesFollowTheCatalog, Unnamed
  <1> QED
    BY <1>1, HandlersInvariant, PTL

LEMMA RulesAreExact ==
    ASSUME NEW c \in Chains
    PROVE  LET blocks == rules[c].finality \div rules[c].blockTime
           IN  /\ blocks * rules[c].blockTime = rules[c].finality
               /\ IsFinal(c, blocks)
               /\ ~ IsFinal(c, blocks - 1)
  BY DEF Chains, rules, Rule, IsFinal

(***************************************************************************)
(* finality.go:38, 113-119.  RouteIsFinalOnTime: what a route promises of  *)
(* its finality is what IsFinal will find.                                 *)
(***************************************************************************)
THEOREM RoutesAreFinalOnTime == Spec => []RouteIsFinalOnTime
  <1>1. Answered => RouteIsFinalOnTime
    <2> SUFFICES ASSUME Answered, Routed
                 PROVE  RouteIsFinalOnTime
      BY DEF RouteIsFinalOnTime
    <2>1. PICK wanted : lastRoute = [wanted |-> wanted, answer |-> Answer(wanted)]
      BY DEF Answered, Routed
    <2>2. Answer(wanted).status = 200
      BY <2>1 DEF Routed
    <2>3. PICK c \in Chains : Answer(wanted) = RouteResponse(rules[c])
      BY <2>2, StatusOf
    <2>4. lastRoute.answer.chain = c /\ lastRoute.answer.finality = rules[c].finality
      BY <2>1, <2>3, RulesAreConsistent DEF RouteResponse
    <2> QED
      BY <2>4, RulesAreExact DEF RouteIsFinalOnTime
  <1> QED
    BY <1>1, HandlersInvariant, PTL

=============================================================================
