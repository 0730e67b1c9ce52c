-------------------------- MODULE MessagePathProofs --------------------------
(***************************************************************************)
(* What goes over the link, for every message, every value and every form  *)
(* a coder may give it.                                                    *)
(*                                                                         *)
(* The sections follow the modules.  Of Wire: patterns of bits, numbers    *)
(* written as varints and read back, strings of bytes.  Of Coding: the two *)
(* loops of the decoder as steps that each take some of the stream, what   *)
(* is read fills its structure and no more, what is written is as long as  *)
(* its structure allows, and what was written is read back as it was, or   *)
(* with a piece of it missing at the end.  Of MessagePath: what is on the  *)
(* link carries what its sender meant, and arrives as it was meant.        *)
(*                                                                         *)
(* What a loop does is a claim about streams of every length.  It is       *)
(* proved from a least stream that refutes it: Induction and Recursion are *)
(* stated for sets of numbers, and each loop counts its steps.             *)
(***************************************************************************)
EXTENDS MessagePath, WellFoundedInduction, SequenceTheorems, TLAPS

-----------------------------------------------------------------------------
(* Counting.                                                                *)

LEMMA Induction == ASSUME NEW S, 0 \in S, \A n \in Nat : n \in S => n + 1 \in S
  PROVE \A n \in Nat : n \in S
<1>1. SUFFICES ASSUME Nat \ S # {} PROVE FALSE
  OBVIOUS
<1>2. PICK x \in Nat \ S : \A y \in Nat \ S : <<y, x>> \notin OpToRel(<, Nat)
  BY <1>1, NatLessThanWellFounded, WFMin
<1>3. x \in Nat /\ x \notin S
  OBVIOUS
<1>31. x # 0
  BY <1>3
<1>32. x - 1 \in Nat /\ x - 1 < x /\ (x - 1) + 1 = x
  BY <1>3, <1>31
<1>4. <<x - 1, x>> \in OpToRel(<, Nat)
  BY <1>3, <1>32 DEF OpToRel
<1>5. x - 1 \in S
  BY <1>2, <1>32, <1>4
<1> QED
  BY <1>3, <1>32, <1>5

\* f holds what next makes of x, step by step.
Recurs(f, S, x, next, N) ==
  /\ f \in [0..N -> S]
  /\ f[0] = x
  /\ \A i \in 1..N : f[i] = next[<<i, f[i - 1]>>]

LEMMA Recursion ==
  ASSUME NEW S, NEW x \in S, NEW next \in [Nat \X S -> S], NEW N \in Nat
  PROVE  \E f : Recurs(f, S, x, next, N)
<1> DEFINE Good(n) == \E f \in [0..n -> S] :
                         f[0] = x /\ \A i \in 1..n : f[i] = next[<<i, f[i - 1]>>]
           H == {n \in Nat : Good(n)}
<1>1. Good(0)
  <2> DEFINE f == [i \in 0..0 |-> x]
  <2>1. f \in [0..0 -> S] /\ f[0] = x
    OBVIOUS
  <2>2. \A i \in 1..0 : f[i] = next[<<i, f[i - 1]>>]
    <3>1. 1..0 = {}
      OBVIOUS
    <3> QED BY <3>1
  <2> HIDE DEF f
  <2> QED BY <2>1, <2>2
<1>2. ASSUME NEW n \in Nat, Good(n) PROVE Good(n + 1)
  <2>1. PICK g \in [0..n -> S] : g[0] = x /\ \A i \in 1..n : g[i] = next[<<i, g[i - 1]>>]
    BY <1>2
  <2> DEFINE h == [i \in 0..(n + 1) |-> IF i = n + 1 THEN next[<<n + 1, g[n]>>] ELSE g[i]]
  <2>2. h \in [0..(n + 1) -> S] /\ h[0] = x /\ h[n + 1] = next[<<n + 1, g[n]>>]
    BY <2>1
  <2>3. \A i \in 0..n : h[i] = g[i]
    OBVIOUS
  <2> HIDE DEF h
  <2>4. ASSUME NEW i \in 1..(n + 1) PROVE h[i] = next[<<i, h[i - 1]>>]
    <3>1. CASE i = n + 1
      <4>1. h[i - 1] = g[n]
        BY <2>3, <3>1
      <4> QED BY <2>2, <3>1, <4>1
    <3>2. CASE i \in 1..n
      <4>1. h[i] = g[i] /\ h[i - 1] = g[i - 1]
        BY <2>3, <3>2
      <4> QED BY <2>1, <3>2, <4>1
    <3> QED BY <3>1, <3>2
  <2> QED BY <2>2, <2>4
<1> HIDE DEF Good
<1>3. 0 \in H /\ \A n \in Nat : n \in H => n + 1 \in H
  BY <1>1, <1>2
<1> HIDE DEF H
<1>4. N \in H
  BY <1>3, Induction
<1>5. PICK f \in [0..N -> S] : f[0] = x /\ \A i \in 1..N : f[i] = next[<<i, f[i - 1]>>]
  BY <1>4 DEF H, Good
<1>6. Recurs(f, S, x, next, N)
  BY <1>5, Zenon DEF Recurs
<1> QED BY <1>6, Zenon

\* The greatest and the least member of a set of numbers.
LEMMA MinIs == ASSUME NEW S \in SUBSET Int, NEW k \in S, \A x \in S : k <= x
  PROVE Min(S) = k
<1>1. Min(S) \in S /\ \A y \in S : Min(S) <= y
  BY Zenon DEF Min
<1>2. Min(S) \in Int /\ k \in Int /\ Min(S) >= k /\ Min(S) <= k
  BY <1>1
<1> QED BY <1>2
LEMMA MinIn == ASSUME NEW S \in SUBSET Nat, S # {}
  PROVE Min(S) \in S /\ \A x \in S : Min(S) <= x
<1>1. PICK x \in S : \A y \in S : <<y, x>> \notin OpToRel(<, Nat)
  BY NatLessThanWellFounded, WFMin
<1>2. ASSUME NEW y \in S PROVE x <= y
  <2>1. x \in Nat /\ y \in Nat
    OBVIOUS
  <2>2. <<y, x>> \notin OpToRel(<, Nat)
    BY <1>1
  <2>3. ~(y < x)
    BY <2>1, <2>2 DEF OpToRel
  <2> QED BY <2>1, <2>3
<1> QED BY <1>2, Zenon DEF Min
LEMMA MaxIn == ASSUME NEW S \in SUBSET Nat, S # {}, NEW n \in Nat, \A x \in S : x <= n
  PROVE Max(S) \in S /\ \A x \in S : x <= Max(S)
<1> DEFINE T == {n - x : x \in S}
<1>0. \A x \in S : x \in Nat /\ n - x \in Nat
  OBVIOUS
<1>1. T \in SUBSET Nat /\ T # {}
  <2>1. \A y \in T : \E x \in S : y = n - x
    OBVIOUS
  <2>2. \A y \in T : y \in Nat
    BY <1>0, <2>1
  <2>3. PICK x \in S : TRUE
    OBVIOUS
  <2>4. n - x \in T
    OBVIOUS
  <2> QED BY <2>2, <2>4
<1>2. Min(T) \in T /\ \A y \in T : Min(T) <= y
  BY <1>1, MinIn
<1>3. PICK k \in S : Min(T) = n - k
  BY <1>2
<1>4. \A x \in S : n - x \in T /\ x \in Nat
  OBVIOUS
<1> HIDE DEF T
<1>5. ASSUME NEW x \in S PROVE k >= x
  <2>1. n - k <= n - x /\ x \in Nat /\ k \in Nat
    BY <1>2, <1>3, <1>4
  <2> QED BY <2>1
<1>6. Max(S) \in S /\ \A x \in S : Max(S) >= x
  BY <1>5, Zenon DEF Max
<1> QED BY <1>6

-----------------------------------------------------------------------------
(* Patterns.                                                                *)

LEMMA SeptetIs == \A x : x \in Septet <=> x \in Int /\ 0 <= x /\ x <= 127
  BY DEF Septet
LEMMA PlacesIs == \A i : i \in Places <=> i \in Int /\ 1 <= i /\ i <= 10
  BY DEF Places

LEMMA DigitOf == ASSUME NEW d \in Seq(Septet), NEW i \in Int
  PROVE /\ Digit(d, i) \in Septet
        /\ 1 <= i /\ i <= Len(d) => Digit(d, i) = d[i]
        /\ (i < 1 \/ i > Len(d)) => Digit(d, i) = 0
<1>1. 0 \in Septet
  BY SeptetIs
<1> QED BY <1>1 DEF Digit

LEMMA DigitRange == ASSUME NEW d, Pattern(d)
  PROVE /\ \A i \in Int : Digit(d, i) \in Int /\ 0 <= Digit(d, i) /\ Digit(d, i) <= 127
        /\ Digit(d, 10) <= 1
        /\ \A i \in Int : (i < 1 \/ i > Len(d)) => Digit(d, i) = 0
        /\ d \in Seq(Septet) /\ Len(d) \in Nat /\ Len(d) <= 10
        /\ Len(d) # 0 => Digit(d, Len(d)) # 0
<1>1. d \in Seq(Septet) /\ Len(d) \in Nat /\ Len(d) <= 10
  BY DEF Pattern
<1>2. \A i \in Int : Digit(d, i) \in Int /\ 0 <= Digit(d, i) /\ Digit(d, i) <= 127
  BY <1>1, DigitOf, SeptetIs
<1>3. \A i \in Int : (i < 1 \/ i > Len(d)) => Digit(d, i) = 0
  BY <1>1, DigitOf
<1>4. Digit(d, 10) <= 1
  BY DEF Pattern
<1>5. Len(d) # 0 => Digit(d, Len(d)) # 0
  BY <1>1, DigitOf DEF Pattern, Zero
<1> QED BY <1>1, <1>2, <1>3, <1>4, <1>5, Zenon

\* A pattern is determined by its digits.
LEMMA SamePattern == ASSUME NEW d, NEW e, Pattern(d), Pattern(e),
                            \A i \in Places : Digit(d, i) = Digit(e, i)
  PROVE d = e
<1>1. /\ d \in Seq(Septet) /\ Len(d) \in Nat /\ Len(d) <= 10
      /\ e \in Seq(Septet) /\ Len(e) \in Nat /\ Len(e) <= 10
      /\ Len(d) # 0 => Digit(d, Len(d)) # 0
      /\ Len(e) # 0 => Digit(e, Len(e)) # 0
  BY DigitRange, Zenon
<1>2. \A i \in Int : (i > Len(d) => Digit(d, i) = 0) /\ (i > Len(e) => Digit(e, i) = 0)
  BY <1>1, DigitOf
<1>3. \A i \in Int : 1 <= i /\ i <= 10 => Digit(d, i) = Digit(e, i)
  BY PlacesIs
<1>4. Len(d) = Len(e)
  BY <1>1, <1>2, <1>3
<1>5. ASSUME NEW i \in 1..Len(d) PROVE d[i] = e[i]
  <2>1. i \in Int /\ 1 <= i /\ i <= Len(d) /\ i <= Len(e) /\ i <= 10
    BY <1>1, <1>4
  <2>2. d[i] = Digit(d, i) /\ e[i] = Digit(e, i)
    BY <1>1, <2>1, DigitOf
  <2> QED BY <1>3, <2>1, <2>2
<1> QED BY <1>1, <1>4, <1>5, SeqEqual

LEMMA TrimmedIs ==
  ASSUME NEW s \in Seq(Septet), Len(s) <= 10, Digit(s, 10) <= 1
  PROVE  Pattern(Trimmed(s)) /\ \A i \in Int : Digit(Trimmed(s), i) = Digit(s, i)
<1> DEFINE used == {i \in DOMAIN s : s[i] # 0}
<1>0. Len(s) \in Nat /\ DOMAIN s = 1..Len(s)
  OBVIOUS
<1>1. CASE used = {}
  <2>1. Trimmed(s) = << >>
    BY <1>1 DEF Trimmed, Zero
  <2>2. \A i \in Int : Digit(s, i) = 0 /\ Digit(<< >>, i) = 0
    BY <1>1 DEF Digit
  <2>3. Pattern(<< >>)
    <3>1. << >> \in Seq(Septet) /\ Len(<< >>) = 0 /\ Digit(<< >>, 10) = 0
      BY <2>2
    <3> QED BY <3>1 DEF Pattern, Zero
  <2> QED BY <2>1, <2>2, <2>3
<1>2. CASE used # {}
  <2> DEFINE k == Max(used)
             t == SubSeq(s, 1, k)
  <2>1. used \in SUBSET Nat /\ \A x \in used : x <= Len(s)
    BY <1>0
  <2>2. k \in used /\ \A x \in used : x <= k
    BY <1>0, <1>2, <2>1, MaxIn
  <2>3. Trimmed(s) = t
    BY <1>2 DEF Trimmed
  <2> HIDE DEF k
  <2>4. k \in Nat /\ 1 <= k /\ k <= Len(s) /\ s[k] # 0 /\ \A i \in 1..Len(s) : i > k => s[i] = 0
    BY <2>2, <1>0
  <2>5. t \in Seq(Septet) /\ Len(t) = k /\ \A i \in 1..k : t[i] = s[i]
    BY <2>4, <1>0
  <2>51. t[k] = s[k]
    BY <2>4, <2>5
  <2> HIDE DEF t
  <2>7. ASSUME NEW i \in Int PROVE Digit(t, i) = Digit(s, i)
    <3>1. CASE 1 <= i /\ i <= k
      <4>1. Digit(t, i) = t[i] /\ Digit(s, i) = s[i] /\ t[i] = s[i]
        BY <2>4, <2>5, <3>1, DigitOf
      <4> QED BY <4>1
    <3>2. CASE i > k /\ i <= Len(s)
      <4>1. Digit(t, i) = 0 /\ Digit(s, i) = s[i] /\ s[i] = 0
        BY <2>4, <2>5, <3>2, DigitOf
      <4> QED BY <4>1
    <3>3. CASE i < 1 \/ i > Len(s)
      <4>1. i < 1 \/ i > k
        BY <2>4, <3>3
      <4>2. Digit(t, i) = 0 /\ Digit(s, i) = 0
        BY <2>5, <3>3, <4>1, DigitOf
      <4> QED BY <4>2
    <3> QED BY <3>1, <3>2, <3>3, <2>4, <1>0
  <2>8. Pattern(t)
    <3>1. Digit(t, 10) <= 1
      BY <2>7
    <3> QED BY <2>4, <2>5, <2>51, <3>1 DEF Pattern, Zero
  <2> QED BY <2>3, <2>8, <2>7
<1> QED BY <1>1, <1>2

LEMMA RowIs ==
  ASSUME NEW n \in Nat, n <= 10, NEW s \in [1..n -> Septet],
         10 <= n => s[10] <= 1
  PROVE  /\ Pattern(Trimmed(s))
         /\ \A i \in Int : 1 <= i /\ i <= n => Digit(Trimmed(s), i) = s[i]
         /\ \A i \in Int : i < 1 \/ i > n => Digit(Trimmed(s), i) = 0
         /\ s \in Seq(Septet) /\ Len(s) = n
         /\ \A i \in Int : Digit(Trimmed(s), i) = Digit(s, i)
<1>1. s \in Seq(Septet) /\ Len(s) = n
  BY SeqDef
<1>2. \A i \in Int : /\ 1 <= i /\ i <= n => Digit(s, i) = s[i]
                     /\ i < 1 \/ i > n => Digit(s, i) = 0
  BY <1>1, DigitOf
<1>3. Digit(s, 10) <= 1
  BY <1>2
<1>4. Pattern(Trimmed(s)) /\ \A i \in Int : Digit(Trimmed(s), i) = Digit(s, i)
  BY <1>1, <1>3, TrimmedIs
<1> QED BY <1>1, <1>2, <1>4

LEMMA ZeroIs == Pattern(Zero) /\ \A i \in Int : Digit(Zero, i) = 0
<1>1. \A i \in Int : Digit(<< >>, i) = 0
  BY DEF Digit
<1>2. << >> \in Seq(Septet) /\ Len(<< >>) = 0 /\ Digit(<< >>, 10) = 0
  BY <1>1
<1> QED BY <1>1, <1>2 DEF Pattern, Zero

LEMMA TopIs == \A i \in Int : Top(i) = IF i = 10 THEN 2 ELSE 128
  BY DEF Top

LEMMA TenIs ==
  ASSUME NEW s \in [Places -> Septet], s[10] <= 1
  PROVE  /\ Pattern(Trimmed(s))
         /\ \A i \in Int : 1 <= i /\ i <= 10 => Digit(Trimmed(s), i) = s[i]
         /\ \A i \in Int : i < 1 \/ i > 10 => Digit(Trimmed(s), i) = 0
<1>1. 10 \in Nat /\ Places = 1..10
  BY DEF Places
<1>2. PICK n \in Nat : n = 10 /\ Places = 1..n
  BY <1>1, Zenon
<1>3. n <= 10 /\ s[10] <= 1 /\ s \in [1..n -> Septet] /\ n = 10
  BY <1>2
<1>4. /\ Pattern(Trimmed(s))
      /\ \A i \in Int : 1 <= i /\ i <= n => Digit(Trimmed(s), i) = s[i]
      /\ \A i \in Int : i < 1 \/ i > n => Digit(Trimmed(s), i) = 0
  BY <1>3, RowIs
<1> QED BY <1>3, <1>4

LEMMA ComplementIs == ASSUME NEW d, Pattern(d)
  PROVE /\ Pattern(Complement(d))
        /\ \A i \in Int : 1 <= i /\ i < 10 => Digit(Complement(d), i) = 127 - Digit(d, i)
        /\ Digit(Complement(d), 10) = 1 - Digit(d, 10)
<1> DEFINE s == [i \in Places |-> Top(i) - 1 - Digit(d, i)]
<1>1. \A i \in Int : Digit(d, i) \in Int /\ 0 <= Digit(d, i) /\ Digit(d, i) <= 127
  BY DigitRange
<1>2. Digit(d, 10) <= 1
  BY DigitRange
<1>3. \A i \in Places : Top(i) - 1 - Digit(d, i) \in Septet
  BY <1>1, <1>2, TopIs, SeptetIs, PlacesIs
<1>4. s \in [Places -> Septet] /\ \A i \in Int : 1 <= i /\ i <= 10 => s[i] = Top(i) - 1 - Digit(d, i)
  BY <1>3, PlacesIs
<1>5. Complement(d) = Trimmed(s)
  BY DEF Complement
<1> HIDE DEF s
<1>6. s[10] = 1 - Digit(d, 10) /\ s[10] <= 1
  BY <1>1, <1>4, TopIs
<1>7. \A i \in Int : 1 <= i /\ i < 10 => s[i] = 127 - Digit(d, i)
  BY <1>1, <1>4, TopIs
<1>8. Pattern(Trimmed(s)) /\ \A i \in Int : 1 <= i /\ i <= 10 => Digit(Trimmed(s), i) = s[i]
  BY <1>4, <1>6, TenIs
<1> QED BY <1>5, <1>6, <1>7, <1>8

LEMMA DoubledIs == ASSUME NEW d, Pattern(d)
  PROVE /\ Pattern(Doubled(d))
        /\ \A i \in Int : 1 <= i /\ i < 10 =>
              Digit(Doubled(d), i) = (2 * Digit(d, i) + Digit(d, i - 1) \div 64) % 128
        /\ Digit(Doubled(d), 10) = Digit(d, 9) \div 64
<1> DEFINE E(i) == (2 * Digit(d, i) + Digit(d, i - 1) \div 64) % Top(i)
           s == [i \in Places |-> E(i)]
<1>1. \A i \in Int : Digit(d, i) \in Int /\ 0 <= Digit(d, i) /\ Digit(d, i) <= 127
  BY DigitRange
<1>2. \A i \in Int : Digit(d, i - 1) \in Int /\ 0 <= Digit(d, i - 1) /\ Digit(d, i - 1) <= 127
  BY <1>1
<1>3. \A x, y \in Int : 0 <= x /\ x <= 127 /\ 0 <= y /\ y <= 127 =>
        /\ (2 * x + y \div 64) % 128 \in Int
        /\ 0 <= (2 * x + y \div 64) % 128 /\ (2 * x + y \div 64) % 128 <= 127
        /\ (2 * x + y \div 64) % 2 = y \div 64 /\ y \div 64 \in Int
        /\ 0 <= y \div 64 /\ y \div 64 <= 1
  OBVIOUS
<1>4. ASSUME NEW i \in Int PROVE
        E(i) = IF i = 10 THEN Digit(d, i - 1) \div 64
               ELSE (2 * Digit(d, i) + Digit(d, i - 1) \div 64) % 128
  BY <1>1, <1>2, <1>3, TopIs
<1>5. ASSUME NEW i \in Places PROVE E(i) \in Septet
  <2>1. i \in Int
    BY PlacesIs
  <2>2. CASE i = 10
    <3>1. E(i) = Digit(d, i - 1) \div 64
      BY <1>4, <2>1, <2>2
    <3>2. Digit(d, i - 1) \div 64 \in Int /\ 0 <= Digit(d, i - 1) \div 64 /\ Digit(d, i - 1) \div 64 <= 1
      BY <1>2, <1>3, <2>1
    <3> QED BY <3>1, <3>2, SeptetIs
  <2>3. CASE i # 10
    <3> HIDE DEF E
    <3>1. E(i) = (2 * Digit(d, i) + Digit(d, i - 1) \div 64) % 128
      BY <1>4, <2>1, <2>3
    <3>2. (2 * Digit(d, i) + Digit(d, i - 1) \div 64) % 128 \in Septet
      BY <1>1, <1>2, <1>3, <2>1, SeptetIs
    <3> QED BY <3>1, <3>2
  <2> QED BY <2>2, <2>3
<1>6. s \in [Places -> Septet] /\ \A i \in Int : 1 <= i /\ i <= 10 => s[i] = E(i)
  BY <1>5, PlacesIs
<1>7. Doubled(d) = Trimmed(s)
  BY DEF Doubled
<1> HIDE DEF s
<1>8. s[10] = Digit(d, 9) \div 64 /\ s[10] <= 1
  <2>1. s[10] = E(10)
    BY <1>6
  <2>2. E(10) = Digit(d, 9) \div 64
    BY <1>4
  <2>3. Digit(d, 9) \div 64 <= 1
    BY <1>1, <1>3
  <2> QED BY <2>1, <2>2, <2>3
<1>9. Pattern(Trimmed(s)) /\ \A i \in Int : 1 <= i /\ i <= 10 => Digit(Trimmed(s), i) = s[i]
  BY <1>6, <1>8, TenIs
<1> HIDE DEF E
<1>10. \A i \in Int : 1 <= i /\ i < 10 => s[i] = (2 * Digit(d, i) + Digit(d, i - 1) \div 64) % 128
  BY <1>4, <1>6
<1> QED BY <1>7, <1>8, <1>9, <1>10

LEMMA HalvedIs == ASSUME NEW d, Pattern(d)
  PROVE /\ Pattern(Halved(d))
        /\ \A i \in Int : 1 <= i /\ i < 10 =>
              Digit(Halved(d), i) = Digit(d, i) \div 2 + 64 * (Digit(d, i + 1) % 2)
        /\ Digit(Halved(d), 10) = 0
<1> DEFINE E(i) == Digit(d, i) \div 2 + 64 * (Digit(d, i + 1) % 2)
           s == [i \in Places |-> E(i)]
<1>1. \A i \in Int : Digit(d, i) \in Int /\ 0 <= Digit(d, i) /\ Digit(d, i) <= 127
  BY DigitRange
<1>2. \A i \in Int : Digit(d, i + 1) \in Int /\ 0 <= Digit(d, i + 1) /\ Digit(d, i + 1) <= 127
  BY <1>1
<1>3. \A x, y \in Int : 0 <= x /\ x <= 127 /\ 0 <= y /\ y <= 127 =>
        /\ x \div 2 + 64 * (y % 2) \in Int
        /\ 0 <= x \div 2 + 64 * (y % 2) /\ x \div 2 + 64 * (y % 2) <= 127
  OBVIOUS
<1>4. Digit(d, 10) <= 1 /\ Len(d) \in Nat /\ Len(d) <= 10 /\ \A i \in Int : i > Len(d) => Digit(d, i) = 0
  BY DigitRange
<1>5. E(10) = 0
  <2>1. Digit(d, 11) = 0 /\ Digit(d, 10) \in Int /\ 0 <= Digit(d, 10) /\ Digit(d, 10) <= 1
    BY <1>1, <1>4
  <2>2. \A x \in Int : 0 <= x /\ x <= 1 => x \div 2 + 64 * (0 % 2) = 0
    OBVIOUS
  <2>3. Digit(d, 10) \div 2 + 64 * (0 % 2) = 0
    BY <2>1, <2>2
  <2> QED BY <2>1, <2>3
<1>6. ASSUME NEW i \in Places PROVE E(i) \in Septet
  BY <1>1, <1>2, <1>3, SeptetIs, PlacesIs
<1>7. s \in [Places -> Septet] /\ \A i \in Int : 1 <= i /\ i <= 10 => s[i] = E(i)
  BY <1>6, PlacesIs
<1>8. Halved(d) = Trimmed(s)
  BY DEF Halved
<1> HIDE DEF s
<1>9. s[10] = 0
  BY <1>5, <1>7
<1>10. Pattern(Trimmed(s)) /\ \A i \in Int : 1 <= i /\ i <= 10 => Digit(Trimmed(s), i) = s[i]
  BY <1>7, <1>9, TenIs
<1> QED BY <1>7, <1>8, <1>9, <1>10

LEMMA NegativeIs == ASSUME NEW d, Pattern(d)
  PROVE /\ Negative(d) => Digit(d, 10) = 1
        /\ ~Negative(d) => Digit(d, 10) = 0
<1>1. Digit(d, 10) \in Int /\ 0 <= Digit(d, 10) /\ Digit(d, 10) <= 1
  BY DigitRange
<1> QED BY <1>1 DEF Negative

\* The zigzag of a number and back.
LEMMA ZigZagIs == ASSUME NEW x, Pattern(x)
  PROVE /\ Pattern(ZigZag(x))
        /\ Digit(ZigZag(x), 1) % 2 = IF Negative(x) THEN 1 ELSE 0
        /\ (IF Negative(x) THEN Complement(Halved(ZigZag(x))) ELSE Halved(ZigZag(x))) = x
<1> DEFINE b == Doubled(x)
           D(i) == Digit(x, i)
<1>1. \A i \in Int : D(i) \in Int /\ 0 <= D(i) /\ D(i) <= 127
  BY DigitRange
<1>11. D(0) = 0
  BY DigitRange
<1>2. /\ Pattern(b)
      /\ \A i \in Int : 1 <= i /\ i < 10 => Digit(b, i) = (2 * D(i) + D(i - 1) \div 64) % 128
      /\ Digit(b, 10) = D(9) \div 64
  BY DoubledIs
<1> HIDE DEF b
<1>31. \A w, u \in Int : 0 <= w /\ w <= 127 /\ 0 <= u /\ u <= 127 =>
        /\ ((2 * u + w \div 64) % 128) \div 2 + 64 * ((u \div 64) % 2) = u
        /\ 127 - ((127 - ((2 * u + w \div 64) % 128)) \div 2 + 64 * ((1 - u \div 64) % 2)) = u
  OBVIOUS
<1>32. \A u \in Int : 0 <= u /\ u <= 127 =>
        /\ ((2 * u) % 128) % 2 = 0 /\ (127 - ((2 * u) % 128)) % 2 = 1
        /\ 0 \div 64 = 0 /\ 2 * u + 0 = 2 * u
  OBVIOUS
<1>4. Digit(b, 1) = (2 * D(1)) % 128
  <2>1. Digit(b, 1) = (2 * D(1) + D(0) \div 64) % 128
    BY <1>2
  <2>2. D(0) \div 64 = 0
    BY <1>11
  <2>3. D(1) \in Int
    BY <1>1
  <2> HIDE DEF D
  <2> QED BY <2>1, <2>2, <2>3
<1>6. \A i \in Int : D(i - 1) \in Int /\ 0 <= D(i - 1) /\ D(i - 1) <= 127
                  /\ D(i + 1) \in Int /\ 0 <= D(i + 1) /\ D(i + 1) <= 127
  BY <1>1
<1>5. CASE ~Negative(x)
  <2>1. ZigZag(x) = b /\ D(10) = 0
    BY <1>5, NegativeIs DEF ZigZag, b
  <2>2. /\ Pattern(Halved(b)) /\ Digit(Halved(b), 10) = 0
        /\ \A i \in Int : 1 <= i /\ i < 10 =>
              Digit(Halved(b), i) = Digit(b, i) \div 2 + 64 * (Digit(b, i + 1) % 2)
    BY <1>2, HalvedIs
  <2> HIDE DEF D
  <2>3. ASSUME NEW i \in Int, 1 <= i, i <= 10 PROVE Digit(Halved(b), i) = D(i)
    <3>1. CASE i < 9
      <4>1. Digit(b, i) = (2 * D(i) + D(i - 1) \div 64) % 128
        BY <1>2, <2>3, <3>1
      <4>2. Digit(b, i + 1) = (2 * D(i + 1) + D(i) \div 64) % 128
        <5>1. i + 1 \in Int /\ 1 <= i + 1 /\ i + 1 < 10 /\ (i + 1) - 1 = i
          BY <2>3, <3>1
        <5> QED BY <1>2, <5>1
      <4>3. Digit(Halved(b), i) = Digit(b, i) \div 2 + 64 * (Digit(b, i + 1) % 2)
        BY <2>2, <2>3, <3>1
      <4>5. /\ D(i) \in Int /\ 0 <= D(i) /\ D(i) <= 127
            /\ D(i - 1) \in Int /\ 0 <= D(i - 1) /\ D(i - 1) <= 127
            /\ D(i + 1) \in Int /\ 0 <= D(i + 1) /\ D(i + 1) <= 127
        BY <1>1, <1>6
      <4>6. ((2 * D(i) + D(i - 1) \div 64) % 128) \div 2 + 64 * (((2 * D(i + 1) + D(i) \div 64) % 128) % 2) = D(i)
        <5>1. PICK w, u, y \in Int : w = D(i - 1) /\ u = D(i) /\ y = D(i + 1)
          BY <4>5, Zenon
        <5>2. 0 <= w /\ w <= 127 /\ 0 <= u /\ u <= 127 /\ 0 <= y /\ y <= 127
          BY <4>5, <5>1
        <5>3. ((2 * u + w \div 64) % 128) \div 2 + 64 * (((2 * y + u \div 64) % 128) % 2) = u
          BY <5>2
        <5> QED BY <5>1, <5>3, Zenon
      <4> QED BY <4>1, <4>2, <4>3, <4>6, Zenon
    <3>2. CASE i = 9
      <4>1. Digit(b, i) = (2 * D(i) + D(i - 1) \div 64) % 128
        BY <1>2, <3>2
      <4>2. Digit(b, i + 1) = D(i) \div 64
        BY <1>2, <3>2
      <4>3. Digit(Halved(b), i) = Digit(b, i) \div 2 + 64 * (Digit(b, i + 1) % 2)
        BY <2>2, <3>2
      <4>5. /\ D(i) \in Int /\ 0 <= D(i) /\ D(i) <= 127
            /\ D(i - 1) \in Int /\ 0 <= D(i - 1) /\ D(i - 1) <= 127
            /\ D(i + 1) \in Int /\ 0 <= D(i + 1) /\ D(i + 1) <= 127
        BY <1>1, <1>6
      <4>6. ((2 * D(i) + D(i - 1) \div 64) % 128) \div 2 + 64 * ((D(i) \div 64) % 2) = D(i)
        BY <1>31, <4>5, Zenon
      <4> QED BY <4>1, <4>2, <4>3, <4>6, Zenon
    <3>3. CASE i = 10
      BY <2>1, <2>2, <3>3
    <3> QED BY <2>3, <3>1, <3>2, <3>3
  <2>4. Halved(b) = x
    BY <2>2, <2>3, SamePattern, PlacesIs DEF D
  <2>5. Digit(b, 1) % 2 = 0
    BY <1>1, <1>32, <1>4
  <2> QED BY <1>2, <1>5, <2>1, <2>4, <2>5
<1>7. CASE Negative(x)
  <2> DEFINE z == Complement(b)
             h == Halved(z)
  <2>1. ZigZag(x) = z /\ D(10) = 1
    BY <1>7, NegativeIs DEF ZigZag, b
  <2>2. /\ Pattern(z)
        /\ \A i \in Int : 1 <= i /\ i < 10 => Digit(z, i) = 127 - Digit(b, i)
        /\ Digit(z, 10) = 1 - Digit(b, 10)
    BY <1>2, ComplementIs
  <2> HIDE DEF z
  <2>3. /\ Pattern(h) /\ Digit(h, 10) = 0
        /\ \A i \in Int : 1 <= i /\ i < 10 =>
              Digit(h, i) = Digit(z, i) \div 2 + 64 * (Digit(z, i + 1) % 2)
    BY <2>2, HalvedIs
  <2> HIDE DEF h
  <2>4. /\ Pattern(Complement(h)) /\ Digit(Complement(h), 10) = 1 - Digit(h, 10)
        /\ \A i \in Int : 1 <= i /\ i < 10 => Digit(Complement(h), i) = 127 - Digit(h, i)
    BY <2>3, ComplementIs
  <2> HIDE DEF D
  <2>5. ASSUME NEW i \in Int, 1 <= i, i <= 10 PROVE Digit(Complement(h), i) = D(i)
    <3>1. CASE i < 9
      <4>1. Digit(z, i) = 127 - ((2 * D(i) + D(i - 1) \div 64) % 128)
        BY <1>2, <2>2, <2>5, <3>1
      <4>2. Digit(z, i + 1) = 127 - ((2 * D(i + 1) + D(i) \div 64) % 128)
        <5>1. i + 1 \in Int /\ 1 <= i + 1 /\ i + 1 < 10 /\ (i + 1) - 1 = i
          BY <2>5, <3>1
        <5> QED BY <1>2, <2>2, <5>1
      <4>3. Digit(h, i) = Digit(z, i) \div 2 + 64 * (Digit(z, i + 1) % 2)
        BY <2>3, <2>5, <3>1
      <4>4. Digit(Complement(h), i) = 127 - Digit(h, i)
        BY <2>4, <2>5, <3>1
      <4>5. /\ D(i) \in Int /\ 0 <= D(i) /\ D(i) <= 127
            /\ D(i - 1) \in Int /\ 0 <= D(i - 1) /\ D(i - 1) <= 127
            /\ D(i + 1) \in Int /\ 0 <= D(i + 1) /\ D(i + 1) <= 127
        BY <1>1, <1>6
      <4>6. 127 - ((127 - ((2 * D(i) + D(i - 1) \div 64) % 128)) \div 2
                  + 64 * ((127 - ((2 * D(i + 1) + D(i) \div 64) % 128)) % 2)) = D(i)
        <5>1. PICK w, u, y \in Int : w = D(i - 1) /\ u = D(i) /\ y = D(i + 1)
          BY <4>5, Zenon
        <5>2. 0 <= w /\ w <= 127 /\ 0 <= u /\ u <= 127 /\ 0 <= y /\ y <= 127
          BY <4>5, <5>1
        <5>3. 127 - ((127 - ((2 * u + w \div 64) % 128)) \div 2
               + 64 * ((127 - ((2 * y + u \div 64) % 128)) % 2)) = u
          BY <5>2
        <5> QED BY <5>1, <5>3, Zenon
      <4> QED BY <4>1, <4>2, <4>3, <4>4, <4>6, Zenon
    <3>2. CASE i = 9
      <4>1. Digit(z, i) = 127 - ((2 * D(i) + D(i - 1) \div 64) % 128)
        BY <1>2, <2>2, <3>2
      <4>2. Digit(z, i + 1) = 1 - D(i) \div 64
        BY <1>2, <2>2, <3>2
      <4>3. Digit(h, i) = Digit(z, i) \div 2 + 64 * (Digit(z, i + 1) % 2)
        BY <2>3, <3>2
      <4>4. Digit(Complement(h), i) = 127 - Digit(h, i)
        BY <2>4, <3>2
      <4>5. /\ D(i) \in Int /\ 0 <= D(i) /\ D(i) <= 127
            /\ D(i - 1) \in Int /\ 0 <= D(i - 1) /\ D(i - 1) <= 127
            /\ D(i + 1) \in Int /\ 0 <= D(i + 1) /\ D(i + 1) <= 127
        BY <1>1, <1>6
      <4>6. 127 - ((127 - ((2 * D(i) + D(i - 1) \div 64) % 128)) \div 2 + 64 * ((1 - D(i) \div 64) % 2)) = D(i)
        BY <1>31, <4>5, Zenon
      <4> QED BY <4>1, <4>2, <4>3, <4>4, <4>6, Zenon
    <3>3. CASE i = 10
      BY <2>1, <2>3, <2>4, <3>3
    <3> QED BY <2>5, <3>1, <3>2, <3>3
  <2>6. Complement(h) = x
    BY <2>4, <2>5, SamePattern, PlacesIs DEF D
  <2>7. Digit(z, 1) % 2 = 1
    <3>1. Digit(z, 1) = 127 - ((2 * D(1)) % 128)
      BY <1>4, <2>2
    <3> QED BY <1>1, <1>32, <3>1
  <2> QED BY <1>7, <2>1, <2>2, <2>6, <2>7 DEF h
<1> QED BY <1>5, <1>7

LEMMA FiveIs ==
  ASSUME NEW s, s \in [1..5 -> Septet]
  PROVE  /\ Pattern(Trimmed(s))
         /\ \A i \in Int : 1 <= i /\ i <= 5 => Digit(Trimmed(s), i) = s[i]
         /\ \A i \in Int : i < 1 \/ i > 5 => Digit(Trimmed(s), i) = 0
<1>1. 5 \in Nat
  OBVIOUS
<1>2. PICK n \in Nat : n = 5
  BY <1>1, Zenon
<1>3. n <= 10 /\ ~(10 <= n)
  BY <1>2
<1>4. s \in [1..n -> Septet]
  BY <1>2, Zenon
<1>5. /\ Pattern(Trimmed(s))
      /\ \A i \in Int : 1 <= i /\ i <= n => Digit(Trimmed(s), i) = s[i]
      /\ \A i \in Int : i < 1 \/ i > n => Digit(Trimmed(s), i) = 0
  BY <1>3, <1>4, RowIs
<1> QED BY <1>2, <1>5, Zenon

LEMMA Low32Is == ASSUME NEW d \in Seq(Septet)
  PROVE /\ Pattern(Low32(d))
        /\ \A i \in Int : 1 <= i /\ i < 5 => Digit(Low32(d), i) = Digit(d, i)
        /\ Digit(Low32(d), 5) = Digit(d, 5) % 16
        /\ \A i \in Int : i > 5 => Digit(Low32(d), i) = 0
        /\ Digit(Low32(d), 5) \in Int /\ 0 <= Digit(Low32(d), 5) /\ Digit(Low32(d), 5) < 16
<1> DEFINE E(i) == IF i = 5 THEN Digit(d, 5) % 16 ELSE Digit(d, i)
           s == [i \in 1..5 |-> E(i)]
<1>1. \A i \in Int : Digit(d, i) \in Septet
  BY DigitOf
<1>2. Digit(d, 5) \in Int /\ 0 <= Digit(d, 5) /\ Digit(d, 5) <= 127
  BY <1>1, SeptetIs
<1>3. /\ Digit(d, 5) % 16 \in Septet
      /\ Digit(d, 5) % 16 \in Int /\ 0 <= Digit(d, 5) % 16 /\ Digit(d, 5) % 16 < 16
  BY <1>2, SeptetIs
<1>4. \A i \in Int : E(i) \in Septet
  BY <1>1, <1>3
<1> HIDE DEF E
<1>5. \A i \in 1..5 : i \in Int /\ 1 <= i /\ i <= 5
  OBVIOUS
<1>51. \A i \in Int : 1 <= i /\ i <= 5 => i \in 1..5
  OBVIOUS
<1>6. s \in [1..5 -> Septet] /\ \A i \in 1..5 : s[i] = E(i)
  BY <1>4, <1>5, Zenon
<1>7. Low32(d) = Trimmed(s)
  BY Zenon DEF Low32, E
<1> HIDE DEF s
<1>8. \A i \in Int : 1 <= i /\ i <= 5 => s[i] = E(i)
  BY <1>51, <1>6, Zenon
<1>9. /\ Pattern(Trimmed(s))
      /\ \A i \in Int : 1 <= i /\ i <= 5 => Digit(Trimmed(s), i) = s[i]
      /\ \A i \in Int : i < 1 \/ i > 5 => Digit(Trimmed(s), i) = 0
  BY <1>6, FiveIs, Zenon
<1>10. /\ \A i \in Int : 1 <= i /\ i < 5 => Digit(Trimmed(s), i) = Digit(d, i)
       /\ Digit(Trimmed(s), 5) = Digit(d, 5) % 16
       /\ \A i \in Int : i > 5 => Digit(Trimmed(s), i) = 0
  BY <1>8, <1>9 DEF E
<1> QED BY <1>3, <1>7, <1>9, <1>10

\* The low bits depend on the first five digits only.
LEMMA SameLow32 ==
  ASSUME NEW d \in Seq(Septet), NEW e \in Seq(Septet),
         \A i \in Int : 1 <= i /\ i < 5 => Digit(d, i) = Digit(e, i),
         Digit(d, 5) % 16 = Digit(e, 5) % 16
  PROVE  Low32(d) = Low32(e)
<1>1. /\ Pattern(Low32(d)) /\ Pattern(Low32(e))
      /\ \A i \in Int : 1 <= i /\ i < 5 => Digit(Low32(d), i) = Digit(d, i)
      /\ \A i \in Int : 1 <= i /\ i < 5 => Digit(Low32(e), i) = Digit(e, i)
      /\ Digit(Low32(d), 5) = Digit(d, 5) % 16
      /\ Digit(Low32(e), 5) = Digit(e, 5) % 16
      /\ \A i \in Int : i > 5 => Digit(Low32(d), i) = 0
      /\ \A i \in Int : i > 5 => Digit(Low32(e), i) = 0
  BY Low32Is
<1>2. ASSUME NEW i \in Int, 1 <= i, i <= 10 PROVE Digit(Low32(d), i) = Digit(Low32(e), i)
  <2>1. i < 5 \/ i = 5 \/ i > 5
    OBVIOUS
  <2> QED BY <1>1, <1>2, <2>1
<1> QED BY <1>1, <1>2, SamePattern, PlacesIs

LEMMA Low32Idem == ASSUME NEW d \in Seq(Septet)
  PROVE Low32(Low32(d)) = Low32(d) /\ Low32(d) \in Seq(Septet)
<1>1. Low32(d) \in Seq(Septet)
  BY Low32Is, DigitRange
<1>2. Digit(Low32(d), 5) = Digit(d, 5) % 16
  BY Low32Is
<1>3. Digit(d, 5) \in Int
  BY DigitOf, SeptetIs
<1>4. Digit(Low32(d), 5) % 16 = Digit(d, 5) % 16
  BY <1>2, <1>3
<1>5. \A i \in Int : 1 <= i /\ i < 5 => Digit(Low32(d), i) = Digit(d, i)
  BY Low32Is
<1> QED BY <1>1, <1>4, <1>5, SameLow32

LEMMA FullRow == ASSUME NEW s \in [Places -> Septet], s[10] = 1
  PROVE /\ Pattern(s) /\ s \in Seq(Septet)
        /\ \A i \in Int : 1 <= i /\ i <= 10 => Digit(s, i) = s[i]
<1>1. 10 \in Nat /\ Places = 1..10
  BY DEF Places
<1>2. PICK n \in Nat : n = 10 /\ Places = 1..n
  BY <1>1, Zenon
<1>3. s \in [1..n -> Septet]
  BY <1>2, Zenon
<1>4. s \in Seq(Septet) /\ Len(s) = n
  BY <1>3, SeqDef
<1>5. \A i \in Int : 1 <= i /\ i <= n => Digit(s, i) = s[i]
  BY <1>4, DigitOf
<1>6. \A i \in Int : 1 <= i /\ i <= 10 => Digit(s, i) = s[i]
  BY <1>2, <1>5, Zenon
<1>7. Digit(s, 10) = 1 /\ s[Len(s)] = 1
  BY <1>2, <1>4, <1>6
<1>8. Len(s) <= 10
  BY <1>2, <1>4
<1> QED BY <1>4, <1>6, <1>7, <1>8 DEF Pattern

LEMMA Int32Is == ASSUME NEW d \in Seq(Septet)
  PROVE /\ Pattern(Int32(d)) /\ Int32(Int32(d)) = Int32(d)
        /\ \/ Int32(d) = Low32(d)
           \/ /\ \A i \in Int : 6 <= i /\ i < 10 => Digit(Int32(d), i) = 127
              /\ Digit(Int32(d), 10) = 1
              /\ Digit(Int32(d), 5) \in Int /\ 120 <= Digit(Int32(d), 5)
<1> DEFINE Ext(e, i) == CASE i < 5 -> Digit(e, i)
                          [] i = 5 -> 112 + (Digit(e, 5) % 16)
                          [] i = 10 -> 1
                          [] OTHER -> 127
           Wide(e) == [i \in Places |-> Ext(e, i)]
<1>1. Pattern(Low32(d)) /\ Low32(Low32(d)) = Low32(d) /\ Low32(d) \in Seq(Septet)
  BY Low32Is, Low32Idem
<1>2. CASE Digit(Low32(d), 5) < 8
  <2>1. Int32(d) = Low32(d)
    BY <1>2 DEF Int32
  <2>2. Int32(Low32(d)) = Low32(d)
    BY <1>1, <1>2 DEF Int32
  <2> QED BY <1>1, <2>1, <2>2
<1>3. CASE ~(Digit(Low32(d), 5) < 8)
  <2> DEFINE s == Wide(d)
  <2>1. Int32(d) = s
    BY <1>3, Zenon DEF Int32
  <2>2. /\ \A i \in Int : Digit(d, i) \in Int /\ 0 <= Digit(d, i) /\ Digit(d, i) <= 127
        /\ Digit(Low32(d), 5) = Digit(d, 5) % 16
    BY DigitOf, SeptetIs, Low32Is
  <2>3. PICK f \in Int : f = Digit(d, 5) % 16
    BY <2>2
  <2>4. 8 <= f /\ f <= 15
    <3>1. \A x \in Int : 0 <= x % 16 /\ x % 16 <= 15
      OBVIOUS
    <3>2. 0 <= f /\ f <= 15
      <4>1. Digit(d, 5) \in Int
        BY <2>2
      <4>2. 0 <= Digit(d, 5) % 16 /\ Digit(d, 5) % 16 <= 15
        BY <3>1, <4>1, Zenon
      <4> QED BY <2>3, <4>2, Zenon
    <3>3. ~(f < 8)
      BY <1>3, <2>2, <2>3, Zenon
    <3> QED BY <3>2, <3>3
  <2>5. \A i \in Int : /\ i < 5 => Ext(d, i) = Digit(d, i)
                       /\ i = 5 => Ext(d, i) = 112 + f
                       /\ i = 10 => Ext(d, i) = 1
                       /\ 6 <= i /\ i # 10 => Ext(d, i) = 127
    BY <2>3
  <2> HIDE DEF Ext
  <2>6. \A i \in Int : Ext(d, i) \in Septet
    <3> SUFFICES ASSUME NEW i \in Int PROVE Ext(d, i) \in Septet
      OBVIOUS
    <3>1. i < 5 \/ i = 5 \/ i = 10 \/ (6 <= i /\ i # 10)
      OBVIOUS
    <3>2. CASE i < 5
      BY <2>2, <2>5, <3>2, SeptetIs
    <3>3. CASE i = 5
      BY <2>4, <2>5, <3>3, SeptetIs
    <3>4. CASE i = 10
      BY <2>5, <3>4, SeptetIs
    <3>5. CASE 6 <= i /\ i # 10
      BY <2>5, <3>5, SeptetIs
    <3> QED BY <3>1, <3>2, <3>3, <3>4, <3>5
  <2>7. s \in [Places -> Septet] /\ \A i \in Int : 1 <= i /\ i <= 10 => s[i] = Ext(d, i)
    BY <2>6, PlacesIs
  <2> HIDE DEF s
  <2>8. s[10] = 1
    BY <2>5, <2>7
  <2>9. /\ Pattern(s) /\ s \in Seq(Septet)
        /\ \A i \in Int : 1 <= i /\ i <= 10 => Digit(s, i) = Ext(d, i)
    BY <2>7, <2>8, FullRow
  <2>10. Digit(s, 5) = 112 + f /\ Digit(s, 10) = 1
    BY <2>5, <2>9
  <2>11. Digit(s, 5) % 16 = f
    <3>1. (112 + f) % 16 = f
      BY <2>4
    <3> QED BY <2>10, <3>1
  <2>12. \A i \in Int : 1 <= i /\ i < 5 => Digit(s, i) = Digit(d, i)
    BY <2>5, <2>9
  <2>13. Low32(s) = Low32(d)
    BY <2>3, <2>9, <2>11, <2>12, SameLow32
  <2>14. Int32(s) = Wide(s)
    BY <1>3, <2>13, Zenon DEF Int32, Ext
  <2>15. \A i \in Places : Ext(s, i) = Ext(d, i)
    <3> SUFFICES ASSUME NEW i \in Places PROVE Ext(s, i) = Ext(d, i)
      OBVIOUS
    <3>0. i \in Int /\ 1 <= i /\ i <= 10
      BY PlacesIs
    <3>1. CASE i < 5
      BY <2>12, <3>0, <3>1 DEF Ext
    <3>2. CASE ~(i < 5)
      <4>1. 112 + (Digit(s, 5) % 16) = 112 + (Digit(d, 5) % 16)
        BY <2>3, <2>11
      <4>2. CASE i = 5
        BY <4>1, <4>2 DEF Ext
      <4>3. CASE i # 5
        BY <3>2, <4>3 DEF Ext
      <4> QED BY <4>2, <4>3
    <3> QED BY <3>1, <3>2
  <2>16. Wide(s) = Wide(d)
    BY <2>15
  <2>17. Int32(s) = s
    BY <2>14, <2>16 DEF s
  <2>18. \A i \in Int : 6 <= i /\ i < 10 => Digit(s, i) = 127
    BY <2>5, <2>9
  <2>19. Digit(s, 5) \in Int /\ 120 <= Digit(s, 5)
    BY <2>4, <2>10
  <2> QED BY <2>1, <2>9, <2>10, <2>17, <2>18, <2>19
<1> QED BY <1>2, <1>3

\* The zigzag of a number of 32 bits takes five digits at most.
LEMMA ShortZigZag == ASSUME NEW x, Pattern(x), Int32(x) = x
  PROVE Len(ZigZag(x)) <= 5
<1> DEFINE D(i) == Digit(x, i)
           z == ZigZag(x)
<1>1. x \in Seq(Septet) /\ Pattern(z)
  BY DigitRange, ZigZagIs
<1>2. /\ \A i \in Int : D(i) \in Int /\ 0 <= D(i) /\ D(i) <= 127
      /\ z \in Seq(Septet) /\ Len(z) \in Nat /\ Len(z) <= 10 /\ (Len(z) # 0 => Digit(z, Len(z)) # 0)
  BY <1>1, DigitRange
<1>3. /\ Pattern(Doubled(x))
      /\ \A i \in Int : 1 <= i /\ i < 10 =>
            Digit(Doubled(x), i) = (2 * D(i) + D(i - 1) \div 64) % 128
      /\ Digit(Doubled(x), 10) = D(9) \div 64
  BY DoubledIs
<1>4. SUFFICES ASSUME NEW i \in Int, 6 <= i, i <= 10 PROVE Digit(z, i) = 0
  <2>1. \A i \in Int : 6 <= i /\ i <= 10 => Digit(z, i) = 0
    BY <1>4
  <2> HIDE DEF z
  <2>2. PICK l \in Nat : l = Len(z)
    BY <1>2
  <2>3. l <= 10 /\ (l # 0 => Digit(z, l) # 0)
    BY <1>2, <2>2
  <2>4. l <= 5
    BY <2>1, <2>3
  <2> QED BY <2>2, <2>4 DEF z
<1>5. CASE Int32(x) = Low32(x)
  <2>2. /\ \A j \in Int : j > 5 => D(j) = 0
        /\ D(5) < 16
    <3>1. Low32(x) = x
      BY <1>5
    <3>2. /\ \A j \in Int : j > 5 => Digit(Low32(x), j) = 0
          /\ Digit(Low32(x), 5) < 16
      BY <1>1, Low32Is
    <3> QED BY <3>1, <3>2
  <2>3. ~Negative(x)
    BY <2>2 DEF Negative
  <2>4. z = Doubled(x)
    BY <2>3 DEF ZigZag
  <2>5. D(5) \in Int /\ 0 <= D(5) /\ D(i) = 0
    BY <1>2, <1>4, <2>2
  <2>6. CASE i = 6
    <3>1. Digit(z, i) = (2 * D(6) + D(5) \div 64) % 128
      BY <1>3, <2>4, <2>6
    <3>2. D(6) = 0
      BY <2>2
    <3>3. PICK u \in Int : u = D(5) /\ 0 <= u /\ u < 16
      BY <2>2, <2>5
    <3>4. (2 * 0 + u \div 64) % 128 = 0
      BY <3>3
    <3> QED BY <3>1, <3>2, <3>3, <3>4, Zenon
  <2>7. CASE i > 6 /\ i < 10
    <3>1. Digit(z, i) = (2 * D(i) + D(i - 1) \div 64) % 128
      BY <1>3, <2>4, <2>7
    <3>2. D(i) = 0 /\ D(i - 1) = 0
      BY <2>2, <2>7
    <3>3. (2 * 0 + 0 \div 64) % 128 = 0
      OBVIOUS
    <3> QED BY <3>1, <3>2, <3>3, Zenon
  <2>8. CASE i = 10
    <3>1. Digit(z, i) = D(9) \div 64
      BY <1>3, <2>4, <2>8
    <3>2. D(9) = 0 /\ 0 \div 64 = 0
      BY <2>2
    <3> QED BY <3>1, <3>2, Zenon
  <2> QED BY <1>4, <2>6, <2>7, <2>8
<1>6. CASE ~(Int32(x) = Low32(x))
  <2>1. /\ \A j \in Int : 6 <= j /\ j < 10 => D(j) = 127
        /\ D(10) = 1 /\ D(5) \in Int /\ 120 <= D(5)
    BY <1>1, <1>6, Int32Is
  <2>2. Negative(x)
    BY <2>1 DEF Negative
  <2>3. z = Complement(Doubled(x))
    BY <2>2 DEF ZigZag
  <2>4. /\ \A j \in Int : 1 <= j /\ j < 10 => Digit(z, j) = 127 - Digit(Doubled(x), j)
        /\ Digit(z, 10) = 1 - Digit(Doubled(x), 10)
    BY <1>3, <2>3, ComplementIs
  <2>5. \A u \in Int : 120 <= u /\ u <= 127 => 127 - ((2 * 127 + u \div 64) % 128) = 0
    OBVIOUS
  <2>6. D(5) <= 127
    BY <1>2
  <2> HIDE DEF D
  <2>7. CASE i = 6
    <3>1. Digit(z, i) = 127 - ((2 * D(6) + D(5) \div 64) % 128)
      BY <1>3, <2>4, <2>7
    <3>2. D(6) = 127
      BY <2>1
    <3>3. 127 - ((2 * 127 + D(5) \div 64) % 128) = 0
      BY <2>1, <2>5, <2>6
    <3> QED BY <3>1, <3>2, <3>3, Zenon
  <2>8. CASE i > 6 /\ i < 10
    <3>1. Digit(z, i) = 127 - ((2 * D(i) + D(i - 1) \div 64) % 128)
      BY <1>3, <2>4, <2>8
    <3>2. D(i) = 127 /\ D(i - 1) = 127
      BY <2>1, <2>8
    <3>3. 127 - ((2 * 127 + 127 \div 64) % 128) = 0
      OBVIOUS
    <3> QED BY <3>1, <3>2, <3>3, Zenon
  <2>9. CASE i = 10
    <3>1. Digit(z, i) = 1 - D(9) \div 64
      BY <1>3, <2>4, <2>9
    <3>2. D(9) = 127 /\ 1 - 127 \div 64 = 0
      BY <2>1
    <3> QED BY <3>1, <3>2, Zenon
  <2> QED BY <1>4, <2>7, <2>8, <2>9
<1> QED BY <1>5, <1>6

-----------------------------------------------------------------------------
(* Small numbers.                                                           *)

LEMMA DigitsIs == ASSUME NEW n \in Nat
  PROVE /\ Pattern(Digits(n))
        /\ Digit(Digits(n), 1) = n % 128 /\ Digit(Digits(n), 2) = (n \div 128) % 128
        /\ Digit(Digits(n), 3) = (n \div (128 * 128)) % 128 /\ Digit(Digits(n), 4) = (n \div (128 * 128 * 128)) % 128
        /\ \A i \in Int : i > 4 => Digit(Digits(n), i) = 0
<1> DEFINE s == [i \in 1..4 |-> (n \div Weight[i]) % 128]
<1>1. Weight[1] = 1 /\ Weight[2] = 128 /\ Weight[3] = (128 * 128) /\ Weight[4] = (128 * 128 * 128)
  BY DEF Weight
<1>2. /\ n \div 1 = n /\ n % 128 \in Int /\ 0 <= n % 128 /\ n % 128 <= 127
      /\ (n \div 128) % 128 \in Int /\ 0 <= (n \div 128) % 128 /\ (n \div 128) % 128 <= 127
      /\ (n \div (128 * 128)) % 128 \in Int /\ 0 <= (n \div (128 * 128)) % 128 /\ (n \div (128 * 128)) % 128 <= 127
      /\ (n \div (128 * 128 * 128)) % 128 \in Int /\ 0 <= (n \div (128 * 128 * 128)) % 128 /\ (n \div (128 * 128 * 128)) % 128 <= 127
  OBVIOUS
<1>3. 1 \in 1..4 /\ 2 \in 1..4 /\ 3 \in 1..4 /\ 4 \in 1..4
      /\ \A i \in 1..4 : i = 1 \/ i = 2 \/ i = 3 \/ i = 4
  OBVIOUS
<1>4. /\ s[1] = (n \div Weight[1]) % 128 /\ s[2] = (n \div Weight[2]) % 128
      /\ s[3] = (n \div Weight[3]) % 128 /\ s[4] = (n \div Weight[4]) % 128
      /\ s = [i \in 1..4 |-> s[i]]
  BY <1>3, Zenon
<1>5. Digits(n) = Trimmed(s)
  BY DEF Digits
<1> HIDE DEF s
<1>6. s[1] = n % 128 /\ s[2] = (n \div 128) % 128 /\ s[3] = (n \div (128 * 128)) % 128 /\ s[4] = (n \div (128 * 128 * 128)) % 128
  BY <1>1, <1>2, <1>4
<1>7. \A i \in 1..4 : s[i] \in Septet
  <2>1. s[1] \in Septet /\ s[2] \in Septet /\ s[3] \in Septet /\ s[4] \in Septet
    BY <1>2, <1>6, SeptetIs
  <2> QED BY <1>3, <2>1, Zenon
<1>8. PICK k \in Nat : k = 4 /\ k <= 10 /\ ~(10 <= k)
  OBVIOUS
<1>9. s \in [1..k -> Septet]
  BY <1>4, <1>7, <1>8, Zenon
<1>10. /\ Pattern(Trimmed(s))
       /\ \A i \in Int : 1 <= i /\ i <= k => Digit(Trimmed(s), i) = s[i]
       /\ \A i \in Int : i < 1 \/ i > k => Digit(Trimmed(s), i) = 0
  BY <1>8, <1>9, RowIs
<1> QED BY <1>5, <1>6, <1>8, <1>10

LEMMA DigitsLow == ASSUME NEW n \in Nat
  PROVE Low32(Digits(n)) = Digits(n) /\ Fits(Digits(n), 4)
<1> DEFINE d == Digits(n)
<1>1. Pattern(d) /\ \A i \in Int : i > 4 => Digit(d, i) = 0
  BY DigitsIs
<1> HIDE DEF d
<1>2. d \in Seq(Septet)
  BY <1>1, DigitRange
<1>3. /\ Pattern(Low32(d))
      /\ \A i \in Int : 1 <= i /\ i < 5 => Digit(Low32(d), i) = Digit(d, i)
      /\ Digit(Low32(d), 5) = Digit(d, 5) % 16
      /\ \A i \in Int : i > 5 => Digit(Low32(d), i) = 0
  BY <1>2, Low32Is
<1>4. 0 % 16 = 0 /\ Digit(d, 5) = 0
  BY <1>1
<1>5. ASSUME NEW i \in Int, 1 <= i, i <= 10 PROVE Digit(Low32(d), i) = Digit(d, i)
  <2>1. i < 5 \/ i = 5 \/ i > 5
    OBVIOUS
  <2>2. i > 5 => Digit(d, i) = 0
    BY <1>1
  <2> QED BY <1>3, <1>4, <1>5, <2>1, <2>2
<1>6. Low32(d) = d
  BY <1>1, <1>3, <1>5, SamePattern, PlacesIs
<1> QED BY <1>6 DEF d, Fits

LEMMA LenDigits == ASSUME NEW n \in Nat, n < 128 * 128 * 128 * 128
  PROVE /\ Len(Digits(n)) \in Nat /\ Len(Digits(n)) <= 4
        /\ n < (128 * 128 * 128) => Len(Digits(n)) <= 3
        /\ n < (128 * 128) => Len(Digits(n)) <= 2
        /\ n < 128 => Len(Digits(n)) <= 1
        /\ n = 0 <=> Digits(n) = Zero
<1> DEFINE d == Digits(n)
<1>1. /\ Pattern(d)
      /\ Digit(d, 1) = n % 128 /\ Digit(d, 2) = (n \div 128) % 128
      /\ Digit(d, 3) = (n \div (128 * 128)) % 128 /\ Digit(d, 4) = (n \div (128 * 128 * 128)) % 128
      /\ \A i \in Int : i > 4 => Digit(d, i) = 0
  BY DigitsIs
<1> HIDE DEF d
<1>2. /\ d \in Seq(Septet) /\ Len(d) \in Nat
      /\ Len(d) # 0 => Digit(d, Len(d)) # 0
      /\ \A i \in Int : (i < 1 \/ i > Len(d)) => Digit(d, i) = 0
  BY <1>1, DigitRange
<1>3. /\ n < (128 * 128 * 128) => (n \div (128 * 128 * 128)) % 128 = 0
      /\ n < (128 * 128) => (n \div (128 * 128)) % 128 = 0
      /\ n < 128 => (n \div 128) % 128 = 0
      /\ n = 0 => n % 128 = 0
      /\ n % 128 = 0 /\ (n \div 128) % 128 = 0 /\ (n \div (128 * 128)) % 128 = 0 /\ (n \div (128 * 128 * 128)) % 128 = 0 => n = 0
  OBVIOUS
<1>4. PICK k \in Nat : k = Len(d)
  BY <1>2
<1>5. k # 0 => Digit(d, k) # 0
  BY <1>2, <1>4
<1>6. k <= 4
  BY <1>1, <1>5
<1>7. n < (128 * 128 * 128) => k <= 3
  BY <1>1, <1>3, <1>5, <1>6
<1>8. n < (128 * 128) => k <= 2
  BY <1>1, <1>3, <1>5, <1>7
<1>9. n < 128 => k <= 1
  BY <1>1, <1>3, <1>5, <1>8
<1>10. n = 0 => k = 0
  BY <1>1, <1>3, <1>5, <1>9
<1>11. k = 0 => n = 0
  BY <1>1, <1>2, <1>3, <1>4
<1>12. k = 0 <=> d = Zero
  BY <1>2, <1>4 DEF Zero
<1> QED BY <1>4, <1>6, <1>7, <1>8, <1>9, <1>10, <1>11, <1>12 DEF d

LEMMA AsNatDigits == ASSUME NEW n \in Nat, n < (128 * 128 * 128)
  PROVE AsNat(Digits(n)) = n
<1>1. Len(Digits(n)) \in Nat /\ Len(Digits(n)) <= 3
  BY LenDigits
<1>2. /\ Digit(Digits(n), 1) = n % 128 /\ Digit(Digits(n), 2) = (n \div 128) % 128
      /\ Digit(Digits(n), 3) = (n \div (128 * 128)) % 128
  BY DigitsIs
<1>3. (n % 128) + 128 * ((n \div 128) % 128) + (128 * 128) * ((n \div (128 * 128)) % 128) = n
  OBVIOUS
<1>4. AsNat(Digits(n)) = Digit(Digits(n), 1) + 128 * Digit(Digits(n), 2) + (128 * 128) * Digit(Digits(n), 3)
  BY <1>1 DEF AsNat
<1> QED BY <1>2, <1>3, <1>4

LEMMA AsNatRange == ASSUME NEW d, Pattern(d)
  PROVE AsNat(d) \in Nat
<1>1. \A i \in Int : Digit(d, i) \in Int /\ 0 <= Digit(d, i)
  BY DigitRange
<1>2. PICK a, b, c \in Nat : a = Digit(d, 1) /\ b = Digit(d, 2) /\ c = Digit(d, 3)
  BY <1>1
<1>3. a + 128 * b + (128 * 128) * c \in Nat /\ 128 * 128 * 128 \in Nat
  OBVIOUS
<1> QED BY <1>2, <1>3, Zenon DEF AsNat, Huge

-----------------------------------------------------------------------------
(* Varints.                                                                 *)

LEMMA ByteIs == \A x : x \in Byte <=> x \in Int /\ 0 <= x /\ x <= 255
  BY DEF Byte

LEMMA FunctionIsSeq == ASSUME NEW S, NEW n \in Nat, NEW g \in [1..n -> S]
  PROVE g \in Seq(S) /\ Len(g) = n
  BY SeqDef

LEMMA VarintIs == ASSUME NEW d, Pattern(d)
  PROVE /\ Varint(d) \in Seq(Byte)
        /\ d = Zero => Len(Varint(d)) = 1 /\ Varint(d)[1] = 0
        /\ d # Zero => Len(Varint(d)) = Len(d)
        /\ \A i \in 1..Len(Varint(d)) :
              /\ Varint(d)[i] \in Int
              /\ i < Len(Varint(d)) => Varint(d)[i] = 128 + Digit(d, i) /\ Varint(d)[i] >= 128
              /\ i = Len(Varint(d)) => Varint(d)[i] = Digit(d, i) /\ Varint(d)[i] < 128
        /\ Len(Varint(d)) \in Nat /\ 1 <= Len(Varint(d)) /\ Len(Varint(d)) <= 10
<1>1. CASE d = Zero
  <2>1. Varint(d) = <<0>>
    BY <1>1 DEF Varint
  <2>2. 0 \in Byte
    BY ByteIs
  <2>3. <<0>> \in Seq(Byte) /\ Len(<<0>>) = 1 /\ <<0>>[1] = 0
    BY <2>2
  <2>4. Digit(d, 1) = 0
    BY <1>1, ZeroIs
  <2>5. \A i \in 1..1 : i = 1
    OBVIOUS
  <2>6. \A i \in 1..1 :
              /\ <<0>>[i] \in Int
              /\ i < 1 => <<0>>[i] = 128 + Digit(d, i) /\ <<0>>[i] >= 128
              /\ i = 1 => <<0>>[i] = Digit(d, i) /\ <<0>>[i] < 128
    BY <2>3, <2>4, <2>5
  <2> QED BY <1>1, <2>1, <2>3, <2>6
<1>2. CASE d # Zero
  <2>1. /\ d \in Seq(Septet) /\ Len(d) \in Nat /\ Len(d) <= 10
        /\ DOMAIN d = 1..Len(d) /\ Len(d) # 0
    BY <1>2, DigitRange DEF Zero
  <2>2. PICK l \in Nat : l = Len(d)
    BY <2>1
  <2>3. l <= 10 /\ DOMAIN d = 1..l /\ 1 <= l
    BY <2>1, <2>2
  <2> DEFINE E(i) == IF i = l THEN d[i] ELSE 128 + d[i]
             s == [i \in 1..l |-> E(i)]
  <2>4. Varint(d) = s
    BY <1>2, <2>2, <2>3, Zenon DEF Varint
  <2>5. \A i \in 1..l : d[i] \in Int /\ 0 <= d[i] /\ d[i] <= 127 /\ Digit(d, i) = d[i]
    BY <2>1, <2>3, DigitOf, SeptetIs
  <2>6. \A i \in 1..l : E(i) \in Byte
    BY <2>5, ByteIs
  <2>7. s \in [1..l -> Byte] /\ \A i \in 1..l : s[i] = E(i)
    BY <2>6
  <2>8. ASSUME NEW i \in 1..l
        PROVE  /\ s[i] \in Int
               /\ i < l => s[i] = 128 + Digit(d, i) /\ s[i] >= 128
               /\ i = l => s[i] = Digit(d, i) /\ s[i] < 128
    <3>1. s[i] = E(i)
      BY <2>7
    <3>2. d[i] \in Int /\ 0 <= d[i] /\ d[i] <= 127 /\ Digit(d, i) = d[i]
      BY <2>5
    <3> HIDE DEF s
    <3> QED BY <3>1, <3>2
  <2> HIDE DEF s
  <2>9. s \in Seq(Byte) /\ Len(s) = l
    BY <2>7, FunctionIsSeq
  <2> QED BY <1>2, <2>2, <2>3, <2>4, <2>8, <2>9
<1> QED BY <1>1, <1>2

LEMMA RestIs == ASSUME NEW S, NEW s \in Seq(S), NEW n \in Nat, n <= Len(s)
  PROVE /\ Rest(s, n) \in Seq(S) /\ Len(Rest(s, n)) = Len(s) - n
        /\ SubSeq(s, 1, n) \in Seq(S) /\ Len(SubSeq(s, 1, n)) = n
        /\ SubSeq(s, 1, n) \o Rest(s, n) = s
<1>1. PICK l \in Nat : l = Len(s)
  OBVIOUS
<1>2. /\ SubSeq(s, n + 1, l) \in Seq(S) /\ Len(SubSeq(s, n + 1, l)) = l - n
      /\ \A i \in 1..(l - n) : SubSeq(s, n + 1, l)[i] = s[n + i]
  BY <1>1
<1>3. /\ SubSeq(s, 1, n) \in Seq(S) /\ Len(SubSeq(s, 1, n)) = n
      /\ \A i \in 1..n : SubSeq(s, 1, n)[i] = s[i]
  BY <1>1
<1>4. Rest(s, n) = SubSeq(s, n + 1, l)
  BY <1>1 DEF Rest
<1>5. SubSeq(s, 1, n) \o Rest(s, n) = s
  <2>1. PICK a \in Seq(S) : a = SubSeq(s, 1, n) /\ Len(a) = n /\ \A i \in 1..n : a[i] = s[i]
    BY <1>3
  <2>2. PICK b \in Seq(S) : b = Rest(s, n) /\ Len(b) = l - n /\ \A i \in 1..(l - n) : b[i] = s[n + i]
    BY <1>2, <1>4
  <2>3. a \o b \in Seq(S) /\ Len(a \o b) = l
    BY <1>1, <2>1, <2>2
  <2>4. ASSUME NEW i \in 1..l PROVE (a \o b)[i] = s[i]
    <3>1. CASE i <= n
      BY <1>1, <2>1, <2>2, <3>1
    <3>2. CASE i > n
      <4>1. (a \o b)[i] = b[i - n] /\ i - n \in 1..(l - n)
        BY <1>1, <2>1, <2>2, <3>2
      <4>2. n + (i - n) = i
        OBVIOUS
      <4> QED BY <2>2, <4>1, <4>2
    <3>3. i <= n \/ i > n
      OBVIOUS
    <3> QED BY <3>1, <3>2, <3>3, Zenon
  <2>5. a \o b = s
    BY <1>1, <2>3, <2>4, SeqEqual
  <2> QED BY <2>1, <2>2, <2>5
<1> QED BY <1>1, <1>2, <1>3, <1>4, <1>5

LEMMA RestOfConcat == ASSUME NEW S, NEW a \in Seq(S), NEW b \in Seq(S)
  PROVE /\ Rest(a \o b, Len(a)) = b
        /\ SubSeq(a \o b, 1, Len(a)) = a
        /\ a \o b \in Seq(S) /\ Len(a \o b) = Len(a) + Len(b)
  BY DEF Rest

LEMMA GroupsIs == ASSUME NEW s \in Seq(Byte), NEW n \in Nat, n <= Len(s)
  PROVE /\ Groups(s, n) \in Seq(Septet) /\ Len(Groups(s, n)) = n
        /\ \A i \in Int : 1 <= i /\ i <= n => Digit(Groups(s, n), i) = s[i] % 128
        /\ \A i \in Int : i < 1 \/ i > n => Digit(Groups(s, n), i) = 0
<1> DEFINE g == [i \in 1..n |-> s[i] % 128]
<1>1. \A x \in Byte : x % 128 \in Septet
  BY ByteIs, SeptetIs
<1>2. \A i \in 1..n : s[i] % 128 \in Septet
  BY <1>1
<1>3. g \in [1..n -> Septet] /\ \A i \in 1..n : g[i] = s[i] % 128
  BY <1>2
<1>4. Groups(s, n) = g
  BY DEF Groups
<1> HIDE DEF g
<1>5. g \in Seq(Septet) /\ Len(g) = n
  BY <1>3, SeqDef
<1>6. /\ \A i \in Int : 1 <= i /\ i <= n => Digit(g, i) = s[i] % 128
      /\ \A i \in Int : i < 1 \/ i > n => Digit(g, i) = 0
  BY <1>3, <1>5, DigitOf
<1> QED BY <1>4, <1>5, <1>6

LEMMA ExtentIs == ASSUME NEW s \in Seq(Byte)
  PROVE /\ Extent(s) \in Nat /\ Extent(s) <= Len(s)
        /\ Extent(s) # 0 => s[Extent(s)] < 128
        /\ \A k \in 1..Len(s) : s[k] < 128 /\ (\A i \in 1..Len(s) : i < k => s[i] >= 128)
              => Extent(s) = k
        /\ (\A i \in 1..Len(s) : s[i] >= 128) => Extent(s) = 0
<1> DEFINE last == {i \in DOMAIN s : s[i] < 128}
<1>0. Len(s) \in Nat /\ DOMAIN s = 1..Len(s) /\ \A i \in 1..Len(s) : s[i] \in Int
  BY ByteIs
<1>1. last \in SUBSET Nat /\ last \subseteq 1..Len(s) /\ \A i \in last : s[i] < 128
  BY <1>0
<1>2. Extent(s) = IF last = {} THEN 0 ELSE Min(last)
  BY DEF Extent
<1>3. \A i \in 1..Len(s) : s[i] < 128 => i \in last
  BY <1>0
<1> HIDE DEF last
<1>4. last # {} => Min(last) \in last
  BY <1>1, MinIn
<1>5. last # {} => Min(last) \in Nat /\ Min(last) <= Len(s) /\ s[Min(last)] < 128
  <2> SUFFICES ASSUME last # {} PROVE Min(last) \in Nat /\ Min(last) <= Len(s) /\ s[Min(last)] < 128
    OBVIOUS
  <2>1. PICK x \in last : x = Min(last)
    BY <1>4
  <2>2. x \in Nat /\ x \in 1..Len(s) /\ s[x] < 128
    BY <1>1
  <2>3. x <= Len(s)
    BY <1>0, <2>2
  <2> QED BY <2>1, <2>2, <2>3
<1>6. ASSUME NEW k \in 1..Len(s), s[k] < 128, \A i \in 1..Len(s) : i < k => s[i] >= 128
      PROVE  Extent(s) = k
  <2>1. k \in last
    BY <1>3, <1>6
  <2>2. ASSUME NEW x \in last PROVE k <= x
    <3>1. x \in 1..Len(s) /\ s[x] < 128 /\ s[x] \in Int
      BY <1>0, <1>1
    <3> QED BY <1>6, <3>1
  <2>3. last \in SUBSET Int
    BY <1>1
  <2>4. Min(last) = k
    BY <2>1, <2>2, <2>3, MinIs
  <2> QED BY <1>2, <2>1, <2>4
<1>7. ASSUME \A i \in 1..Len(s) : s[i] >= 128 PROVE Extent(s) = 0
  <2>1. last = {}
    <3> SUFFICES ASSUME NEW x \in last PROVE FALSE
      OBVIOUS
    <3>1. x \in 1..Len(s) /\ s[x] < 128 /\ s[x] \in Int /\ s[x] >= 128
      BY <1>0, <1>1, <1>7
    <3> QED BY <3>1
  <2> QED BY <1>2, <2>1
<1>8. Extent(s) \in Nat /\ Extent(s) <= Len(s)
  BY <1>0, <1>2, <1>5
<1>9. Extent(s) # 0 => s[Extent(s)] < 128
  BY <1>2, <1>5
<1> QED BY <1>6, <1>7, <1>8, <1>9

\* A varint at the head of a stream.
LEMMA HeadVarint == ASSUME NEW d, Pattern(d), NEW r \in Seq(Byte)
  PROVE LET n == Len(Varint(d))
            s == Varint(d) \o r
        IN  /\ s \in Seq(Byte) /\ n <= Len(s) /\ Extent(s) = n /\ Rest(s, n) = r
            /\ \A i \in Int : 1 <= i => Digit(Groups(s, n), i) = Digit(d, i)
            /\ \A i \in Int : 1 <= i /\ i <= n => s[i] = Varint(d)[i]
<1> DEFINE b == Varint(d)
           n == Len(b)
           s == b \o r
<1>1. /\ b \in Seq(Byte) /\ n \in Nat /\ 1 <= n
      /\ d = Zero => n = 1
      /\ d # Zero => n = Len(d)
      /\ \A i \in 1..n : /\ b[i] \in Int
                         /\ i < n => b[i] = 128 + Digit(d, i) /\ b[i] >= 128
                         /\ i = n => b[i] = Digit(d, i) /\ b[i] < 128
  BY VarintIs
<1> HIDE DEF b
<1>2. s \in Seq(Byte) /\ Len(s) = n + Len(r) /\ Rest(s, n) = r /\ \A i \in 1..n : s[i] = b[i]
  <2>1. s \in Seq(Byte) /\ Len(s) = n + Len(r) /\ Rest(s, n) = r
    BY <1>1, RestOfConcat
  <2>2. \A i \in 1..n : s[i] = b[i]
    BY <1>1
  <2> QED BY <2>1, <2>2
<1> HIDE DEF n, s
<1>3. Len(r) \in Nat
  OBVIOUS
<1>4. n \in 1..Len(s) /\ n <= Len(s)
  BY <1>1, <1>2, <1>3
<1>5. s[n] < 128 /\ \A i \in 1..Len(s) : i < n => s[i] >= 128
  <2>1. s[n] < 128
    BY <1>1, <1>2
  <2>2. ASSUME NEW i \in 1..Len(s), i < n PROVE s[i] >= 128
    <3>1. i \in 1..n
      BY <1>1, <2>2
    <3> QED BY <1>1, <1>2, <2>2, <3>1
  <2> QED BY <2>1, <2>2
<1>6. Extent(s) = n
  BY <1>2, <1>4, <1>5, ExtentIs
<1>7. /\ \A i \in Int : 1 <= i /\ i <= n => Digit(Groups(s, n), i) = s[i] % 128
      /\ \A i \in Int : i < 1 \/ i > n => Digit(Groups(s, n), i) = 0
  <2>1. n \in Nat /\ n <= Len(s) /\ s \in Seq(Byte)
    BY <1>1, <1>2, <1>4
  <2> QED BY <2>1, GroupsIs
<1>8. /\ \A i \in Int : Digit(d, i) \in Int /\ 0 <= Digit(d, i) /\ Digit(d, i) <= 127
      /\ \A i \in Int : i > Len(d) => Digit(d, i) = 0
      /\ Len(d) \in Nat
  BY DigitRange
<1>9. ASSUME NEW i \in Int, 1 <= i PROVE Digit(Groups(s, n), i) = Digit(d, i)
  <2>1. \A x \in Int : 0 <= x /\ x <= 127 => (128 + x) % 128 = x /\ x % 128 = x
    OBVIOUS
  <2>2. CASE i < n
    <3>1. i \in 1..n
      BY <1>1, <1>9, <2>2
    <3>2. Digit(Groups(s, n), i) = (128 + Digit(d, i)) % 128
      BY <1>1, <1>2, <1>7, <1>9, <2>2, <3>1
    <3> QED BY <1>8, <2>1, <3>2
  <2>3. CASE i = n
    <3>1. Digit(Groups(s, n), i) = Digit(d, i) % 128
      BY <1>1, <1>2, <1>7, <1>9, <2>3
    <3> QED BY <1>8, <2>1, <3>1
  <2>4. CASE i > n
    <3>1. Len(d) <= n
      <4>1. d = Zero => Len(d) = 0
        BY DEF Zero
      <4> QED BY <1>1, <1>8, <4>1
    <3>2. Digit(d, i) = 0 /\ Digit(Groups(s, n), i) = 0
      <4>1. i > Len(d)
        BY <1>1, <1>8, <2>4, <3>1
      <4> QED BY <1>7, <1>8, <2>4, <4>1
    <3> QED BY <3>2
  <2> QED BY <1>1, <1>9, <2>2, <2>3, <2>4
<1>10. \A i \in Int : 1 <= i /\ i <= n => s[i] = b[i]
  BY <1>1, <1>2
<1> QED BY <1>2, <1>4, <1>6, <1>9, <1>10 DEF b, n, s

LEMMA ReadParts == ASSUME NEW v, NEW r
  PROVE Read(v, r).ok = TRUE /\ Read(v, r).value = v /\ Read(v, r).rest = r
  BY DEF Read
LEMMA NotReadParts == NotRead.ok = FALSE /\ NotRead.rest = << >>
  BY DEF NotRead, Zero

LEMMA ReadIs == ASSUME NEW v, NEW r
  PROVE Read(v, r).ok /\ Read(v, r).value = v /\ Read(v, r).rest = r
  BY DEF Read
LEMMA NotReadIs == ~NotRead.ok
  BY DEF NotRead

LEMMA ReadVarintOf == ASSUME NEW d, Pattern(d), NEW r \in Seq(Byte)
  PROVE ReadVarint(Varint(d) \o r) = Read(d, r)
<1> DEFINE n == Len(Varint(d))
           s == Varint(d) \o r
<1>1. /\ s \in Seq(Byte) /\ n <= Len(s) /\ Extent(s) = n /\ Rest(s, n) = r
      /\ \A i \in Int : 1 <= i => Digit(Groups(s, n), i) = Digit(d, i)
      /\ \A i \in Int : 1 <= i /\ i <= n => s[i] = Varint(d)[i]
  BY HeadVarint
<1>2. /\ n \in Nat /\ 1 <= n /\ n <= 10
      /\ \A i \in 1..n : /\ Varint(d)[i] \in Int
                         /\ i = n => Varint(d)[i] = Digit(d, i)
  BY VarintIs
<1> HIDE DEF n, s
<1>3. n \in Places
  BY <1>2, PlacesIs
<1>4. Digit(d, 10) \in Int /\ 0 <= Digit(d, 10) /\ Digit(d, 10) <= 1
  BY DigitRange
<1>5. n = 10 => s[10] \in {0, 1}
  <2> SUFFICES ASSUME n = 10 PROVE s[n] \in {0, 1}
    OBVIOUS
  <2>1. n \in 1..n /\ n \in Int /\ 1 <= n /\ n <= n
    BY <1>2
  <2>2. s[n] = Digit(d, n)
    <3>1. s[n] = Varint(d)[n]
      BY <1>1, <2>1
    <3>2. Varint(d)[n] = Digit(d, n)
      BY <1>2, <2>1
    <3> QED BY <3>1, <3>2
  <2> QED BY <1>4, <2>2
<1>6. ReadVarint(s) = Read(Trimmed(Groups(s, n)), r)
  BY <1>1, <1>3, <1>5, Zenon DEF ReadVarint
<1>7. /\ Groups(s, n) \in Seq(Septet) /\ Len(Groups(s, n)) <= 10
      /\ Digit(Groups(s, n), 10) <= 1
  <2>1. Groups(s, n) \in Seq(Septet) /\ Len(Groups(s, n)) = n
    BY <1>1, <1>2, GroupsIs
  <2>2. Digit(Groups(s, n), 10) = Digit(d, 10)
    BY <1>1
  <2> QED BY <1>2, <1>4, <2>1, <2>2
<1>8. Pattern(Trimmed(Groups(s, n))) /\ \A i \in Int : Digit(Trimmed(Groups(s, n)), i) = Digit(Groups(s, n), i)
  BY <1>7, TrimmedIs
<1>9. Trimmed(Groups(s, n)) = d
  BY <1>1, <1>8, SamePattern, PlacesIs
<1> QED BY <1>6, <1>9 DEF s

\* Patterns of 32 bits.
LEMMA ReadVarint32Of == ASSUME NEW d, Pattern(d), Low32(d) = d, NEW r \in Seq(Byte)
  PROVE ReadVarint32(Varint(d) \o r) = Read(d, r) /\ Len(d) <= 5 /\ Len(Varint(d)) <= 5
<1> DEFINE n == Len(Varint(d))
           s == Varint(d) \o r
<1>1. /\ s \in Seq(Byte) /\ n <= Len(s) /\ Extent(s) = n /\ Rest(s, n) = r
      /\ \A i \in Int : 1 <= i => Digit(Groups(s, n), i) = Digit(d, i)
      /\ \A i \in Int : 1 <= i /\ i <= n => s[i] = Varint(d)[i]
  BY HeadVarint
<1>2. /\ n \in Nat /\ 1 <= n /\ n <= 10 /\ (d # Zero => n = Len(d)) /\ (d = Zero => n = 1)
      /\ \A i \in 1..n : /\ Varint(d)[i] \in Int
                         /\ i = n => Varint(d)[i] = Digit(d, i)
  BY VarintIs
<1> HIDE DEF n, s
<1>3. n \in Places
  BY <1>2, PlacesIs
<1>4. d \in Seq(Septet) /\ Len(d) \in Nat /\ (Len(d) # 0 => Digit(d, Len(d)) # 0)
  BY DigitRange
<1>5. /\ \A i \in Int : i > 5 => Digit(d, i) = 0
      /\ Digit(d, 5) \in Int /\ 0 <= Digit(d, 5) /\ Digit(d, 5) < 16
  BY <1>4, Low32Is
<1>6. Len(d) <= 5
  BY <1>4, <1>5
<1>7. n <= 5
  BY <1>2, <1>6
<1>8. n >= 5 => FifthIsSound(s[5])
  <2> SUFFICES ASSUME n = 5 PROVE FifthIsSound(s[n])
    BY <1>2, <1>7
  <2>1. n \in 1..n /\ n \in Int /\ 1 <= n /\ n <= n
    BY <1>2
  <2>2. s[n] = Digit(d, n)
    <3>1. s[n] = Varint(d)[n]
      BY <1>1, <2>1
    <3>2. Varint(d)[n] = Digit(d, n)
      BY <1>2, <2>1
    <3> QED BY <3>1, <3>2
  <2>3. PICK f \in Int : f = s[n] /\ 0 <= f /\ f < 16
    BY <1>5, <2>2
  <2>4. (f % 128) \div 16 = 0
    BY <2>3
  <2> QED BY <2>3, <2>4 DEF FifthIsSound
<1>9. \A i \in 6..n : Extends(s, i)
  BY <1>2, <1>7
<1>10. ReadVarint32(s) = Read(Low32(Groups(s, n)), r)
  BY <1>1, <1>3, <1>8, <1>9, Zenon DEF ReadVarint32
<1>11. Groups(s, n) \in Seq(Septet)
  BY <1>1, <1>2, GroupsIs
<1>12. Low32(Groups(s, n)) = Low32(d)
  BY <1>1, <1>4, <1>11, SameLow32
<1> QED BY <1>6, <1>7, <1>10, <1>12 DEF s, n

\* What a reader of a stream s may return: nothing, or a value and a shorter rest.
Shorter(r, s) == r = NotRead \/ (r.ok = TRUE /\ r = Read(r.value, r.rest) /\ r.rest \in Seq(Byte) /\ Len(r.rest) < Len(s))

LEMMA ShorterIs == ASSUME NEW v, NEW r \in Seq(Byte), NEW s, Len(r) < Len(s)
  PROVE Shorter(Read(v, r), s)
<1>1. Read(v, r).ok = TRUE /\ Read(v, r).value = v /\ Read(v, r).rest = r
  BY ReadParts
<1> QED BY <1>1, Zenon DEF Shorter
LEMMA ShorterNot == ASSUME NEW s PROVE Shorter(NotRead, s)
  BY DEF Shorter

LEMMA VarintsAreRead == ASSUME NEW s \in Seq(Byte)
  PROVE /\ Shorter(ReadVarint(s), s) /\ (ReadVarint(s).ok => Pattern(ReadVarint(s).value))
        /\ Shorter(ReadVarint32(s), s)
        /\ ReadVarint32(s).ok => /\ Pattern(ReadVarint32(s).value)
                                 /\ Low32(ReadVarint32(s).value) = ReadVarint32(s).value
        /\ Shorter(SkipVarint(s), s)
<1> DEFINE n == Extent(s)
           g == Groups(s, n)
<1>1. n \in Nat /\ n <= Len(s)
  BY ExtentIs
<1>2. /\ g \in Seq(Septet) /\ Len(g) = n
      /\ \A i \in Int : 1 <= i /\ i <= n => Digit(g, i) = s[i] % 128
      /\ \A i \in Int : i < 1 \/ i > n => Digit(g, i) = 0
  BY <1>1, GroupsIs
<1>3. Rest(s, n) \in Seq(Byte) /\ Len(Rest(s, n)) = Len(s) - n
  BY <1>1, RestIs
<1>4. ReadVarint(s) = IF n \in Places /\ (n = 10 => s[10] \in {0, 1})
                        THEN Read(Trimmed(g), Rest(s, n)) ELSE NotRead
  BY DEF ReadVarint
<1>5. \/ ReadVarint32(s) = Read(Low32(g), Rest(s, n)) /\ n \in Places
      \/ ReadVarint32(s) = NotRead
  BY Zenon DEF ReadVarint32
<1>6. SkipVarint(s) = IF n = 0 THEN NotRead ELSE Read(Zero, Rest(s, n))
  BY DEF SkipVarint
<1> HIDE DEF n, g
<1>7. n # 0 => Len(Rest(s, n)) < Len(s)
  BY <1>1, <1>3
<1>8. n \in Places => n # 0 /\ n <= 10
  BY PlacesIs
<1>9. Pattern(Low32(g)) /\ Low32(Low32(g)) = Low32(g)
  BY <1>2, Low32Is, Low32Idem
<1>14. /\ Shorter(ReadVarint32(s), s) /\ Shorter(SkipVarint(s), s)
       /\ ReadVarint32(s).ok => /\ Pattern(ReadVarint32(s).value)
                                /\ Low32(ReadVarint32(s).value) = ReadVarint32(s).value
  <2>1. CASE n \in Places
    <3>1. Rest(s, n) \in Seq(Byte) /\ Len(Rest(s, n)) < Len(s) /\ n # 0
      BY <1>3, <1>7, <1>8, <2>1
    <3>2. \A v : Shorter(Read(v, Rest(s, n)), s)
      BY <3>1, ShorterIs
    <3>3. SkipVarint(s) = Read(Zero, Rest(s, n))
      BY <1>6, <3>1
    <3>4. Read(Low32(g), Rest(s, n)).value = Low32(g)
      BY ReadIs
    <3>5. CASE ReadVarint32(s) = NotRead
      BY <3>2, <3>3, <3>5, NotReadIs, ShorterNot
    <3>6. CASE ReadVarint32(s) = Read(Low32(g), Rest(s, n))
      <4>1. Shorter(ReadVarint32(s), s) /\ Shorter(SkipVarint(s), s)
        BY <3>2, <3>3, <3>6
      <4>2. ReadVarint32(s).value = Low32(g)
        BY <3>4, <3>6
      <4> QED BY <1>9, <4>1, <4>2
    <3> QED BY <1>5, <3>5, <3>6
  <2>2. CASE n \notin Places
    <3>1. ReadVarint32(s) = NotRead
      BY <1>5, <2>2
    <3>2. n # 0 => Shorter(Read(Zero, Rest(s, n)), s)
      BY <1>3, <1>7, ShorterIs
    <3>3. Shorter(SkipVarint(s), s)
      BY <1>6, <3>2, ShorterNot
    <3> QED BY <3>1, <3>3, NotReadIs, ShorterNot
  <2> QED BY <2>1, <2>2
<1>10. CASE n \in Places /\ (n = 10 => s[10] \in {0, 1})
  <2>1. Digit(g, 10) <= 1
    <3>1. n < 10 => Digit(g, 10) = 0
      BY <1>1, <1>2
    <3>2. n = 10 => Digit(g, 10) = s[10] % 128
      BY <1>1, <1>2
    <3>3. 0 % 128 = 0 /\ 1 % 128 = 1
      OBVIOUS
    <3>4. n = 10 => Digit(g, 10) = 0 \/ Digit(g, 10) = 1
      BY <1>10, <3>2, <3>3
    <3> QED BY <1>1, <1>8, <1>10, <3>1, <3>4
  <2>2. Pattern(Trimmed(g))
    BY <1>1, <1>2, <1>8, <1>10, <2>1, TrimmedIs
  <2>3. ReadVarint(s) = Read(Trimmed(g), Rest(s, n))
    BY <1>4, <1>10
  <2>4. ReadVarint(s).value = Trimmed(g)
    BY <2>3, ReadIs
  <2>5. Shorter(ReadVarint(s), s)
    BY <1>3, <1>7, <1>8, <1>10, <2>3, ShorterIs
  <2> QED BY <1>14, <2>2, <2>4, <2>5
<1>11. CASE ~(n \in Places /\ (n = 10 => s[10] \in {0, 1}))
  <2>1. ReadVarint(s) = NotRead
    BY <1>4, <1>11, Zenon
  <2> QED BY <1>14, <2>1, NotReadIs, ShorterNot
<1> QED BY <1>10, <1>11

LEMMA CutConcat == ASSUME NEW S, NEW a \in Seq(S), NEW b \in Seq(S), NEW k \in Nat, k <= Len(a) + Len(b)
  PROVE /\ k <= Len(a) => SubSeq(a \o b, 1, k) = SubSeq(a, 1, k)
        /\ k >= Len(a) => SubSeq(a \o b, 1, k) = a \o SubSeq(b, 1, k - Len(a))
  OBVIOUS

\* The head of a varint is none.
LEMMA CutVarint == ASSUME NEW d, Pattern(d), NEW k \in Nat, k < Len(Varint(d))
  PROVE /\ ReadVarint(SubSeq(Varint(d), 1, k)) = NotRead
        /\ ReadVarint32(SubSeq(Varint(d), 1, k)) = NotRead
        /\ SkipVarint(SubSeq(Varint(d), 1, k)) = NotRead
<1> DEFINE b == Varint(d)
           q == SubSeq(b, 1, k)
<1>1. /\ b \in Seq(Byte) /\ Len(b) \in Nat
      /\ \A i \in 1..Len(b) : b[i] \in Int /\ (i < Len(b) => b[i] >= 128)
  BY VarintIs
<1> HIDE DEF b
<1>2. q \in Seq(Byte) /\ Len(q) = k /\ \A i \in 1..k : q[i] = b[i]
  BY <1>1 DEF b
<1>3. \A i \in 1..Len(q) : q[i] >= 128
  BY <1>1, <1>2 DEF b
<1>4. Extent(q) = 0
  BY <1>2, <1>3, ExtentIs
<1>5. ~(0 \in Places)
  BY PlacesIs
<1> QED BY <1>4, <1>5, Zenon DEF ReadVarint, ReadVarint32, SkipVarint, b

-----------------------------------------------------------------------------
(* Strings of bytes.                                                        *)

LEMMA TakeIs == ASSUME NEW s \in Seq(Byte), NEW n \in Nat
  PROVE /\ n > Len(s) => Take(s, n) = NotRead
        /\ n <= Len(s) => /\ Take(s, n) = Read(SubSeq(s, 1, n), Rest(s, n))
                          /\ Rest(s, n) \in Seq(Byte) /\ Len(Rest(s, n)) = Len(s) - n
                          /\ SubSeq(s, 1, n) \in Seq(Byte) /\ Len(SubSeq(s, 1, n)) = n
<1>1. n > Len(s) => Take(s, n) = NotRead
  BY DEF Take
<1>2. n <= Len(s) => Take(s, n) = Read(SubSeq(s, 1, n), Rest(s, n))
  BY DEF Take
<1> QED BY <1>1, <1>2, RestIs

LEMMA TakeOf == ASSUME NEW a \in Seq(Byte), NEW r \in Seq(Byte)
  PROVE Take(a \o r, Len(a)) = Read(a, r)
<1>1. /\ Rest(a \o r, Len(a)) = r /\ SubSeq(a \o r, 1, Len(a)) = a
      /\ a \o r \in Seq(Byte) /\ Len(a) \in Nat /\ Len(a) <= Len(a \o r)
  BY RestOfConcat
<1> QED BY <1>1, TakeIs

LEMMA ReadSizedIs == ASSUME NEW s \in Seq(Byte)
  PROVE /\ Shorter(ReadSized(s), s)
        /\ ReadSized(s).ok => ReadSized(s).value \in Seq(Byte)
<1> DEFINE h == ReadVarint32(s)
<1>1. Shorter(h, s) /\ (h.ok => Pattern(h.value))
  BY VarintsAreRead
<1>2. ReadSized(s) = IF h.ok THEN Take(h.rest, AsNat(h.value)) ELSE NotRead
  BY DEF ReadSized, Then
<1> HIDE DEF h
<1>3. CASE h = NotRead
  BY <1>2, <1>3, NotReadParts DEF Shorter
<1>4. CASE h.ok = TRUE /\ h.rest \in Seq(Byte) /\ Len(h.rest) < Len(s)
  <2> DEFINE n == AsNat(h.value)
  <2>1. n \in Nat
    BY <1>1, <1>4, AsNatRange
  <2> HIDE DEF n
  <2>2. ReadSized(s) = Take(h.rest, n)
    BY <1>2, <1>4 DEF n
  <2>3. CASE n > Len(h.rest)
    BY <1>4, <2>1, <2>2, <2>3, TakeIs, NotReadParts DEF Shorter
  <2>4. CASE n <= Len(h.rest)
    <3>1. /\ ReadSized(s) = Read(SubSeq(h.rest, 1, n), Rest(h.rest, n))
          /\ Rest(h.rest, n) \in Seq(Byte) /\ Len(Rest(h.rest, n)) = Len(h.rest) - n
          /\ SubSeq(h.rest, 1, n) \in Seq(Byte)
      BY <1>4, <2>1, <2>2, <2>4, TakeIs
    <3>2. Len(h.rest) \in Nat /\ Len(s) \in Nat /\ Len(h.rest) - n < Len(s)
      BY <1>4, <2>1
    <3>3. Len(Rest(h.rest, n)) < Len(s)
      BY <3>1, <3>2
    <3>4. ReadSized(s).value = SubSeq(h.rest, 1, n)
      <4>1. Read(SubSeq(h.rest, 1, n), Rest(h.rest, n)).value = SubSeq(h.rest, 1, n)
        BY ReadIs
      <4> QED BY <3>1, <4>1
    <3> QED BY <3>1, <3>3, <3>4, ShorterIs
  <2>5. Len(h.rest) \in Nat
    BY <1>4
  <2> QED BY <2>1, <2>3, <2>4, <2>5
<1> QED BY <1>1, <1>3, <1>4, Zenon DEF Shorter

LEMMA SizedIs == ASSUME NEW x \in Seq(Byte), Len(x) < (128 * 128 * 128)
  PROVE /\ Sized(x) \in Seq(Byte) /\ Len(Sized(x)) = Len(Varint(Digits(Len(x)))) + Len(x)
        /\ Len(Sized(x)) \in Nat /\ 1 <= Len(Sized(x)) /\ Len(x) <= Len(Sized(x))
        /\ \A r \in Seq(Byte) : ReadSized(Sized(x) \o r) = Read(x, r)
        /\ \A k \in Nat : k < Len(Sized(x)) => ReadSized(SubSeq(Sized(x), 1, k)) = NotRead
<1> DEFINE d == Digits(Len(x))
           b == Varint(d)
<1>1. Len(x) \in Nat /\ Len(x) < 128 * 128 * 128 * 128
  OBVIOUS
<1>2. Pattern(d) /\ Low32(d) = d /\ AsNat(d) = Len(x)
  BY <1>1, DigitsIs, DigitsLow, AsNatDigits
<1> HIDE DEF d
<1>3. b \in Seq(Byte) /\ Len(b) \in Nat /\ 1 <= Len(b)
  BY <1>2, VarintIs
<1>4. Sized(x) = b \o x
  BY DEF Sized, d
<1>5. \A r \in Seq(Byte) : ReadVarint32(b \o r) = Read(d, r)
  BY <1>2, ReadVarint32Of
<1>51. \A k \in Nat : k < Len(b) => ReadVarint32(SubSeq(b, 1, k)) = NotRead
  BY <1>2, CutVarint
<1> HIDE DEF b
<1>6. b \o x \in Seq(Byte) /\ Len(b \o x) = Len(b) + Len(x)
  BY <1>3
<1>7. ASSUME NEW r \in Seq(Byte) PROVE ReadSized((b \o x) \o r) = Read(x, r)
  <2>1. (b \o x) \o r = b \o (x \o r) /\ x \o r \in Seq(Byte)
    BY <1>3
  <2>2. ReadVarint32((b \o x) \o r) = Read(d, x \o r)
    BY <1>5, <2>1
  <2>3. ReadSized((b \o x) \o r) = Take(x \o r, AsNat(d))
    <3>1. Read(d, x \o r).ok /\ Read(d, x \o r).value = d /\ Read(d, x \o r).rest = x \o r
      BY ReadParts
    <3> QED BY <2>2, <3>1, Zenon DEF ReadSized, Then
  <2> QED BY <1>2, <2>3, TakeOf
<1>8. ASSUME NEW k \in Nat, k < Len(b) + Len(x) PROVE ReadSized(SubSeq(b \o x, 1, k)) = NotRead
  <2>1. CASE k < Len(b)
    <3>1. SubSeq(b \o x, 1, k) = SubSeq(b, 1, k)
      BY <1>3, <1>8, <2>1, CutConcat
    <3>2. ReadVarint32(SubSeq(b \o x, 1, k)) = NotRead
      BY <1>51, <2>1, <3>1
    <3> QED BY <3>2, NotReadParts, Zenon DEF ReadSized, Then
  <2>2. CASE k >= Len(b)
    <3> DEFINE y == SubSeq(x, 1, k - Len(b))
    <3>1. SubSeq(b \o x, 1, k) = b \o y
      BY <1>3, <1>8, <2>2, CutConcat
    <3>2. y \in Seq(Byte) /\ Len(y) < Len(x)
      BY <1>1, <1>3, <1>8, <2>2
    <3> HIDE DEF y
    <3>3. ReadVarint32(b \o y) = Read(d, y)
      BY <1>5, <3>2
    <3>4. ReadSized(b \o y) = Take(y, AsNat(d))
      <4>1. Read(d, y).ok /\ Read(d, y).value = d /\ Read(d, y).rest = y
        BY ReadParts
      <4> QED BY <3>3, <4>1, Zenon DEF ReadSized, Then
    <3> QED BY <1>1, <1>2, <3>1, <3>2, <3>4, TakeIs
  <2> QED BY <1>3, <2>1, <2>2
<1>9. Len(Sized(x)) = Len(b) + Len(x)
  BY <1>4, <1>6
<1> QED BY <1>1, <1>3, <1>4, <1>6, <1>7, <1>8, <1>9 DEF b, d

LEMMA TagIs == ASSUME NEW number \in Nat, number < (100 * 1000), NEW wt \in Nat, wt < 8
  PROVE /\ Tag(number, wt) \in Seq(Byte) /\ Len(Tag(number, wt)) \in Nat /\ 1 <= Len(Tag(number, wt))
        /\ \A r \in Seq(Byte) :
              ReadTag(Tag(number, wt) \o r) = Read([number |-> number, wireType |-> wt], r)
        /\ \A k \in Nat : k < Len(Tag(number, wt)) => ReadTag(SubSeq(Tag(number, wt), 1, k)) = NotRead
<1> DEFINE n == 8 * number + wt
           d == Digits(n)
<1>1. n \in Nat /\ n < (128 * 128 * 128) /\ n < 128 * 128 * 128 * 128 /\ n \div 8 = number /\ (n % 128) % 8 = wt
  OBVIOUS
<1> HIDE DEF n
<1>2. Pattern(d) /\ Low32(d) = d /\ AsNat(d) = n /\ Digit(d, 1) = n % 128
  BY <1>1, DigitsIs, DigitsLow, AsNatDigits
<1> HIDE DEF d
<1>3. Tag(number, wt) = Varint(d)
  BY DEF Tag, d, n
<1>4. Varint(d) \in Seq(Byte) /\ Len(Varint(d)) \in Nat /\ 1 <= Len(Varint(d))
  BY <1>2, VarintIs
<1>5. ASSUME NEW r \in Seq(Byte)
      PROVE  ReadTag(Varint(d) \o r) = Read([number |-> number, wireType |-> wt], r)
  <2>1. ReadVarint32(Varint(d) \o r) = Read(d, r)
    BY <1>2, ReadVarint32Of
  <2>2. ReadTag(Varint(d) \o r) = Read([number |-> AsNat(d) \div 8, wireType |-> Digit(d, 1) % 8], r)
    <3>1. Read(d, r).ok /\ Read(d, r).value = d /\ Read(d, r).rest = r
      BY ReadParts
    <3> QED BY <2>1, <3>1, Zenon DEF ReadTag, Then
  <2> QED BY <1>1, <1>2, <2>2, Zenon
<1>6. ASSUME NEW k \in Nat, k < Len(Varint(d)) PROVE ReadTag(SubSeq(Varint(d), 1, k)) = NotRead
  <2>1. ReadVarint32(SubSeq(Varint(d), 1, k)) = NotRead
    BY <1>2, <1>6, CutVarint
  <2> QED BY <2>1, NotReadParts, Zenon DEF ReadTag, Then
<1> QED BY <1>3, <1>4, <1>5, <1>6

LEMMA ReadTagIs == ASSUME NEW s \in Seq(Byte)
  PROVE /\ Shorter(ReadTag(s), s)
        /\ ReadTag(s).ok => /\ ReadTag(s).value.number \in Nat
                            /\ ReadTag(s).value.wireType \in Nat
                            /\ ReadTag(s).value.wireType < 8
<1> DEFINE h == ReadVarint32(s)
           v == [number |-> AsNat(h.value) \div 8, wireType |-> Digit(h.value, 1) % 8]
<1>1. Shorter(h, s) /\ (h.ok => Pattern(h.value))
  BY VarintsAreRead
<1>2. ReadTag(s) = IF h.ok THEN Read(v, h.rest) ELSE NotRead
  BY DEF ReadTag, Then
<1>3. CASE h = NotRead
  BY <1>2, <1>3, NotReadParts DEF Shorter
<1>4. CASE h.ok = TRUE /\ h.rest \in Seq(Byte) /\ Len(h.rest) < Len(s)
  <2>1. AsNat(h.value) \in Nat /\ Digit(h.value, 1) \in Int
    BY <1>1, <1>4, AsNatRange, DigitRange
  <2>2. \A x \in Nat : x \div 8 \in Nat
    OBVIOUS
  <2>3. \A x \in Int : x % 8 \in Nat /\ x % 8 < 8
    OBVIOUS
  <2>4. v.number = AsNat(h.value) \div 8 /\ v.wireType = Digit(h.value, 1) % 8
    OBVIOUS
  <2>5. v.number \in Nat /\ v.wireType \in Nat /\ v.wireType < 8
    BY <2>1, <2>2, <2>3, <2>4, Zenon
  <2> HIDE DEF v, h
  <2>6. ReadTag(s) = Read(v, h.rest)
    BY <1>2, <1>4
  <2>7. ReadTag(s).value = v
    BY <2>6, ReadIs
  <2> QED BY <1>4, <2>5, <2>6, <2>7, ShorterIs
<1> QED BY <1>1, <1>3, <1>4, Zenon DEF Shorter

\* Signed numbers.
LEMMA SVarintIs == ASSUME NEW x, Pattern(x)
  PROVE /\ SVarint(x) \in Seq(Byte) /\ Len(SVarint(x)) \in Nat /\ 1 <= Len(SVarint(x))
        /\ \A r \in Seq(Byte) : ReadSVarint(SVarint(x) \o r) = Read(x, r)
<1> DEFINE z == ZigZag(x)
<1>1. /\ Pattern(z)
      /\ Digit(z, 1) % 2 = IF Negative(x) THEN 1 ELSE 0
      /\ (IF Negative(x) THEN Complement(Halved(z)) ELSE Halved(z)) = x
  BY ZigZagIs
<1> HIDE DEF z
<1>2. (IF Digit(z, 1) % 2 = 1 THEN Complement(Halved(z)) ELSE Halved(z)) = x
  BY <1>1
<1>3. SVarint(x) = Varint(z)
  BY DEF SVarint, z
<1>4. ASSUME NEW r \in Seq(Byte) PROVE ReadSVarint(Varint(z) \o r) = Read(x, r)
  <2>1. ReadVarint(Varint(z) \o r) = Read(z, r)
    BY <1>1, ReadVarintOf
  <2>2. ReadSVarint(Varint(z) \o r)
          = Read(IF Digit(z, 1) % 2 = 1 THEN Complement(Halved(z)) ELSE Halved(z), r)
    <3>1. Read(z, r).ok /\ Read(z, r).value = z /\ Read(z, r).rest = r
      BY ReadParts
    <3> QED BY <2>1, <3>1, Zenon DEF ReadSVarint, Then
  <2> QED BY <1>2, <2>2, Zenon
<1> QED BY <1>1, <1>3, <1>4, VarintIs

LEMMA ReadSVarintIs == ASSUME NEW s \in Seq(Byte)
  PROVE Shorter(ReadSVarint(s), s) /\ (ReadSVarint(s).ok => Pattern(ReadSVarint(s).value))
<1> DEFINE h == ReadVarint(s)
           v == IF Digit(h.value, 1) % 2 = 1 THEN Complement(Halved(h.value)) ELSE Halved(h.value)
<1>1. Shorter(h, s) /\ (h.ok => Pattern(h.value))
  BY VarintsAreRead
<1>2. ReadSVarint(s) = IF h.ok THEN Read(v, h.rest) ELSE NotRead
  BY DEF ReadSVarint, Then
<1>3. h.ok => Pattern(v)
  BY <1>1, HalvedIs, ComplementIs
<1> HIDE DEF v, h
<1>4. CASE h = NotRead
  BY <1>2, <1>4, NotReadIs, ShorterNot
<1>5. CASE h.ok = TRUE /\ h.rest \in Seq(Byte) /\ Len(h.rest) < Len(s)
  <2>1. ReadSVarint(s) = Read(v, h.rest)
    BY <1>2, <1>5
  <2>2. ReadSVarint(s).value = v
    BY <2>1, ReadIs
  <2> QED BY <1>3, <1>5, <2>1, <2>2, ShorterIs
<1> QED BY <1>1, <1>4, <1>5, Zenon DEF Shorter

\* What is skipped.
LEMMA SkipIs == ASSUME NEW s \in Seq(Byte), NEW wt
  PROVE Shorter(Skip(s, wt), s)
<1>1. CASE wt = WT_VARINT
  <2>1. Skip(s, wt) = SkipVarint(s)
    BY <1>1 DEF Skip, WT_VARINT, WT_64BIT, WT_STRING, WT_32BIT
  <2> QED BY <2>1, VarintsAreRead
<1>2. CASE wt = WT_STRING
  <2>1. Skip(s, wt) = ReadSized(s)
    BY <1>2 DEF Skip, WT_VARINT, WT_64BIT, WT_STRING, WT_32BIT
  <2> QED BY <2>1, ReadSizedIs
<1>3. ASSUME NEW n \in Nat, 1 <= n PROVE Shorter(Take(s, n), s)
  <2>1. CASE n > Len(s)
    BY <2>1, TakeIs DEF Shorter
  <2>2. CASE n <= Len(s)
    <3>1. /\ Take(s, n) = Read(SubSeq(s, 1, n), Rest(s, n))
          /\ Rest(s, n) \in Seq(Byte) /\ Len(Rest(s, n)) = Len(s) - n
      BY <2>2, TakeIs
    <3>2. Len(Rest(s, n)) < Len(s)
      BY <1>3, <3>1
    <3> QED BY <3>1, <3>2, ShorterIs
  <2> QED BY <2>1, <2>2
<1>4. CASE wt = WT_64BIT
  <2>1. Skip(s, wt) = Take(s, 8)
    BY <1>4 DEF Skip, WT_VARINT, WT_64BIT, WT_STRING, WT_32BIT
  <2> QED BY <1>3, <2>1
<1>5. CASE wt = WT_32BIT
  <2>1. Skip(s, wt) = Take(s, 4)
    BY <1>5 DEF Skip, WT_VARINT, WT_64BIT, WT_STRING, WT_32BIT
  <2> QED BY <1>3, <2>1
<1>6. CASE wt \notin {WT_VARINT, WT_STRING, WT_64BIT, WT_32BIT}
  <2>1. Skip(s, wt) = NotRead
    BY <1>6 DEF Skip
  <2> QED BY <2>1 DEF Shorter
<1> QED BY <1>1, <1>2, <1>4, <1>5, <1>6

\* Of bytes b and a wire type: all of b is skipped, and none of its heads.
Skippable(b, wt) ==
  /\ b \in Seq(Byte)
  /\ \A r \in Seq(Byte) : Skip(b \o r, wt).ok = TRUE /\ Skip(b \o r, wt).rest = r
  /\ \A k \in Nat : k < Len(b) => Skip(SubSeq(b, 1, k), wt) = NotRead

LEMMA SkipVarintOf == ASSUME NEW d, Pattern(d) PROVE Skippable(Varint(d), WT_VARINT)
<1>1. \A s : Skip(s, WT_VARINT) = SkipVarint(s)
  BY DEF Skip, WT_VARINT, WT_64BIT, WT_STRING, WT_32BIT
<1>2. Varint(d) \in Seq(Byte) /\ Len(Varint(d)) # 0
  BY VarintIs
<1>3. ASSUME NEW r \in Seq(Byte)
      PROVE  Skip(Varint(d) \o r, WT_VARINT).ok = TRUE /\ Skip(Varint(d) \o r, WT_VARINT).rest = r
  <2>1. Extent(Varint(d) \o r) = Len(Varint(d)) /\ Rest(Varint(d) \o r, Len(Varint(d))) = r
    BY HeadVarint
  <2>2. SkipVarint(Varint(d) \o r) = Read(Zero, r)
    BY <1>2, <2>1, Zenon DEF SkipVarint
  <2>3. Read(Zero, r).ok = TRUE /\ Read(Zero, r).rest = r
    BY ReadParts
  <2> QED BY <1>1, <2>2, <2>3
<1>4. ASSUME NEW k \in Nat, k < Len(Varint(d)) PROVE Skip(SubSeq(Varint(d), 1, k), WT_VARINT) = NotRead
  BY <1>1, <1>4, CutVarint
<1> QED BY <1>2, <1>3, <1>4 DEF Skippable

LEMMA SkipSizedOf == ASSUME NEW x \in Seq(Byte), Len(x) < (128 * 128 * 128) PROVE Skippable(Sized(x), WT_STRING)
<1>1. \A s : Skip(s, WT_STRING) = ReadSized(s)
  BY DEF Skip, WT_VARINT, WT_64BIT, WT_STRING, WT_32BIT
<1>2. /\ Sized(x) \in Seq(Byte)
      /\ \A r \in Seq(Byte) : ReadSized(Sized(x) \o r) = Read(x, r)
      /\ \A k \in Nat : k < Len(Sized(x)) => ReadSized(SubSeq(Sized(x), 1, k)) = NotRead
  BY SizedIs
<1>3. \A r : Read(x, r).ok = TRUE /\ Read(x, r).rest = r
  BY ReadParts
<1> QED BY <1>1, <1>2, <1>3, Zenon DEF Skippable

LEMMA SkipFixedOf == ASSUME NEW b \in Seq(Byte), NEW wt, NEW n \in Nat, Len(b) = n,
                            \A s : Skip(s, wt) = Take(s, n)
  PROVE Skippable(b, wt)
<1>1. \A r \in Seq(Byte) : Take(b \o r, n) = Read(b, r)
  BY TakeOf
<1>2. ASSUME NEW k \in Nat, k < Len(b) PROVE Take(SubSeq(b, 1, k), n) = NotRead
  <2>1. SubSeq(b, 1, k) \in Seq(Byte) /\ Len(SubSeq(b, 1, k)) = k
    BY <1>2
  <2> QED BY <1>2, <2>1, TakeIs
<1>3. \A r : Read(b, r).ok = TRUE /\ Read(b, r).rest = r
  BY ReadParts
<1>4. \A r : Skip(b \o r, wt) = Take(b \o r, n)
  OBVIOUS
<1>5. \A k : Skip(SubSeq(b, 1, k), wt) = Take(SubSeq(b, 1, k), n)
  OBVIOUS
<1> QED BY <1>1, <1>2, <1>3, <1>4, <1>5, Zenon DEF Skippable

-----------------------------------------------------------------------------
(* Steps until nothing is left.                                             *)

OneStep(k, m, f, w, left) ==
  IF k = "message"
    THEN Then(ReadTag(left), LAMBDA tag, rest : DecodeNext(ReadValue, m, w, tag, rest))
    ELSE IF Full(m, f, w) THEN NotRead
         ELSE Then(ReadScalar(m, f, Zero, WT_PACKED, left), LAMBDA x, rest :
                     Read(Append(w, x), rest))
Steps(k, m, f, v, s) == UntilEnd(LAMBDA w, left : OneStep(k, m, f, w, left), v, s)

AfterNext(k, m, f, last) ==
  IF last.rest = << >> THEN last ELSE OneStep(k, m, f, last.value, last.rest)
IsRun(k, m, f, v, s, N, g) ==
  g = [n \in 0..N |-> IF n = 0 THEN Read(v, s) ELSE AfterNext(k, m, f, g[n - 1])]
TheRun(k, m, f, v, s, N) == CHOOSE g : IsRun(k, m, f, v, s, N, g)

LEMMA StepsAreRun == ASSUME NEW k, NEW m, NEW f, NEW v, NEW s
  PROVE Steps(k, m, f, v, s) =
          TheRun(k, m, f, v, s, Len(s))[CHOOSE n \in 0..Len(s) :
             TheRun(k, m, f, v, s, Len(s))[n].rest = << >>]
  BY Zenon DEF Steps, UntilEnd, TheRun, IsRun, AfterNext

Follows(k, m, f, v, s, N, a) ==
  a[0] = Read(v, s) /\ \A n \in 1..N : a[n] = AfterNext(k, m, f, a[n - 1])

LEMMA RunExists == ASSUME NEW k, NEW m, NEW f, NEW v, NEW s, NEW N \in Nat
  PROVE LET g == TheRun(k, m, f, v, s, N)
        IN  /\ IsRun(k, m, f, v, s, N, g)
            /\ Follows(k, m, f, v, s, N, g)
<1> DEFINE H == {n \in Nat : \E g : IsRun(k, m, f, v, s, n, g)}
<1>1. 0 \in H
  <2> DEFINE g == [n \in 0..0 |-> Read(v, s)]
  <2>1. \A n \in 0..0 : n = 0
    OBVIOUS
  <2>2. IsRun(k, m, f, v, s, 0, g)
    BY <2>1 DEF IsRun
  <2> QED BY <2>2
<1>2. ASSUME NEW n \in Nat, n \in H PROVE n + 1 \in H
  <2>1. PICK g : IsRun(k, m, f, v, s, n, g)
    BY <1>2
  <2> DEFINE h == [i \in 0..(n + 1) |->
                     IF i = n + 1 THEN AfterNext(k, m, f, g[n]) ELSE g[i]]
  <2>2. \A i \in 0..n : g[i] = IF i = 0 THEN Read(v, s) ELSE AfterNext(k, m, f, g[i - 1])
    BY <2>1 DEF IsRun
  <2>3. \A i \in 0..n : h[i] = g[i]
    OBVIOUS
  <2>4. h[n + 1] = AfterNext(k, m, f, g[n])
    OBVIOUS
  <2>5. h = [i \in 0..(n + 1) |-> h[i]]
    OBVIOUS
  <2> HIDE DEF h
  <2>6. ASSUME NEW i \in 0..(n + 1)
        PROVE  h[i] = IF i = 0 THEN Read(v, s) ELSE AfterNext(k, m, f, h[i - 1])
    <3>1. CASE i = n + 1
      <4>1. i # 0 /\ h[i - 1] = g[n]
        BY <2>3, <3>1
      <4> QED BY <2>4, <3>1, <4>1
    <3>2. CASE i \in 0..n
      <4>1. h[i] = g[i] /\ (i # 0 => h[i - 1] = g[i - 1])
        BY <2>3, <3>2
      <4> QED BY <2>2, <3>2, <4>1
    <3> QED BY <3>1, <3>2
  <2>7. IsRun(k, m, f, v, s, n + 1, h)
    BY <2>5, <2>6 DEF IsRun
  <2> QED BY <2>7
<1> HIDE DEF H
<1>3. N \in H
  BY <1>1, <1>2, Induction
<1>4. \E g : IsRun(k, m, f, v, s, N, g)
  BY <1>3 DEF H
<1> DEFINE a == TheRun(k, m, f, v, s, N)
<1>5. IsRun(k, m, f, v, s, N, a)
  BY <1>4, Zenon DEF TheRun
<1> HIDE DEF a
<1>6. a[0] = Read(v, s) /\ \A n \in 1..N : a[n] = AfterNext(k, m, f, a[n - 1])
  BY <1>5 DEF IsRun
<1>7. Follows(k, m, f, v, s, N, a)
  BY <1>6 DEF Follows
<1> QED BY <1>5, <1>7 DEF a

Shrinks(k, m, f) ==
  \A w : \A left \in Seq(Byte) : left # << >> => Shorter(OneStep(k, m, f, w, left), left)

Shrunk(s, N, a) ==
  /\ \A n \in 0..N : a[n].rest \in Seq(Byte) /\ (a[n].rest = << >> \/ Len(a[n].rest) <= Len(s) - n)
  /\ \A i, j \in 0..N : i <= j /\ a[i].rest = << >> => a[j] = a[i]

LEMMA RunShrinks ==
  ASSUME NEW k, NEW m, NEW f, NEW v, NEW s \in Seq(Byte), NEW N \in Nat, Shrinks(k, m, f),
         NEW a, Follows(k, m, f, v, s, N, a)
  PROVE  Shrunk(s, N, a)
<1>0. a[0] = Read(v, s) /\ \A n \in 1..N : a[n] = AfterNext(k, m, f, a[n - 1])
  BY DEF Follows
<1> DEFINE Small(n) == a[n].rest \in Seq(Byte) /\ (a[n].rest = << >> \/ Len(a[n].rest) <= Len(s) - n)
           H == {n \in Nat : n <= N => Small(n)}
<1>1. 0 \in H
  <2>0. Read(v, s).rest = s
    BY ReadParts
  <2>1. a[0].rest = s
    BY <1>0, <2>0
  <2>2. Len(s) <= Len(s) - 0
    OBVIOUS
  <2> QED BY <2>1, <2>2
<1>2. ASSUME NEW n \in Nat, n \in H PROVE n + 1 \in H
  <2> SUFFICES ASSUME n + 1 <= N PROVE Small(n + 1)
    OBVIOUS
  <2>1. Small(n) /\ a[n + 1] = AfterNext(k, m, f, a[n])
    BY <1>0, <1>2
  <2>2. CASE a[n].rest = << >>
    BY <2>1, <2>2 DEF AfterNext
  <2>3. CASE a[n].rest # << >>
    <3>1. Shorter(a[n + 1], a[n].rest)
      BY <2>1, <2>3 DEF AfterNext, Shrinks
    <3>2. a[n + 1].rest = << >> \/ (a[n + 1].rest \in Seq(Byte) /\ Len(a[n + 1].rest) < Len(a[n].rest))
      BY <3>1, NotReadParts DEF Shorter
    <3>3. Len(s) \in Nat /\ Len(a[n].rest) \in Nat /\ Len(a[n].rest) <= Len(s) - n
      BY <2>1, <2>3
    <3>4. a[n + 1].rest \in Seq(Byte)
      <4>1. << >> \in Seq(Byte)
        OBVIOUS
      <4> QED BY <3>2, <4>1
    <3>5. a[n + 1].rest # << >> => Len(a[n + 1].rest) <= Len(s) - (n + 1)
      <4> SUFFICES ASSUME a[n + 1].rest # << >> PROVE Len(a[n + 1].rest) <= Len(s) - (n + 1)
        OBVIOUS
      <4>1. Len(a[n + 1].rest) < Len(a[n].rest) /\ Len(a[n + 1].rest) \in Nat
        BY <3>2, <3>4
      <4> QED BY <3>3, <4>1
    <3> QED BY <3>4, <3>5
  <2> QED BY <2>2, <2>3
<1> HIDE DEF H
<1>3. \A n \in Nat : n \in H
  BY <1>1, <1>2, Induction
<1>4. \A n \in 0..N : Small(n)
  BY <1>3 DEF H
<1>5. ASSUME NEW i \in 0..N, a[i].rest = << >> PROVE \A j \in 0..N : i <= j => a[j] = a[i]
  <2> DEFINE G == {n \in Nat : i + n <= N => a[i + n] = a[i]}
  <2>1. 0 \in G
    OBVIOUS
  <2>2. ASSUME NEW n \in Nat, n \in G PROVE n + 1 \in G
    <3> SUFFICES ASSUME i + n + 1 <= N PROVE a[i + n + 1] = a[i]
      OBVIOUS
    <3>1. a[i + n] = a[i]
      BY <2>2
    <3>2. i + n + 1 \in 1..N /\ (i + n + 1) - 1 = i + n
      OBVIOUS
    <3>3. a[i + n + 1] = AfterNext(k, m, f, a[i + n])
      BY <1>0, <3>2
    <3> QED BY <1>5, <3>1, <3>3 DEF AfterNext
  <2> HIDE DEF G
  <2>3. \A n \in Nat : n \in G
    BY <2>1, <2>2, Induction
  <2>4. ASSUME NEW j \in 0..N, i <= j PROVE a[j] = a[i]
    <3>1. j - i \in Nat /\ i + (j - i) = j
      BY <2>4
    <3>2. j - i \in G /\ i + (j - i) <= N
      BY <2>3, <3>1
    <3>3. a[i + (j - i)] = a[i]
      BY <3>2 DEF G
    <3> QED BY <3>1, <3>3
  <2> QED BY <2>4
<1> QED BY <1>4, <1>5 DEF Shrunk

LEMMA StepsIsLast ==
  ASSUME NEW k, NEW m, NEW f, NEW v, NEW s \in Seq(Byte), Shrinks(k, m, f)
  PROVE  LET a == TheRun(k, m, f, v, s, Len(s))
         IN  /\ Steps(k, m, f, v, s) = a[Len(s)]
             /\ a[Len(s)].rest = << >>
             /\ \A n \in 0..Len(s) : a[n].rest = << >> => a[Len(s)] = a[n]
<1> DEFINE a == TheRun(k, m, f, v, s, Len(s))
           end == CHOOSE n \in 0..Len(s) : a[n].rest = << >>
<1>0. Len(s) \in Nat
  OBVIOUS
<1>1. Follows(k, m, f, v, s, Len(s), a)
  BY <1>0, RunExists
<1>2. Steps(k, m, f, v, s) = a[end]
  BY StepsAreRun
<1> HIDE DEF a, end
<1>3. /\ \A n \in 0..Len(s) : a[n].rest \in Seq(Byte) /\ (a[n].rest = << >> \/ Len(a[n].rest) <= Len(s) - n)
      /\ \A i, j \in 0..Len(s) : i <= j /\ a[i].rest = << >> => a[j] = a[i]
  <2>1. Shrunk(s, Len(s), a)
    BY <1>0, <1>1, RunShrinks
  <2> QED BY <2>1 DEF Shrunk
<1>4. Len(s) \in 0..Len(s) /\ a[Len(s)].rest = << >>
  <2>1. Len(s) \in 0..Len(s) /\ Len(s) - Len(s) = 0
    BY <1>0
  <2>2. a[Len(s)].rest \in Seq(Byte) /\ (a[Len(s)].rest = << >> \/ Len(a[Len(s)].rest) <= 0)
    BY <1>3, <2>1
  <2> QED BY <2>1, <2>2
<1>5. end \in 0..Len(s) /\ a[end].rest = << >>
  BY <1>4, Zenon DEF end
<1>6. end <= Len(s)
  BY <1>5, <1>0
<1>7. a[Len(s)] = a[end]
  BY <1>3, <1>4, <1>5, <1>6
<1>8. \A n \in 0..Len(s) : n <= Len(s)
  BY <1>0
<1>9. \A n \in 0..Len(s) : a[n].rest = << >> => a[Len(s)] = a[n]
  BY <1>3, <1>4, <1>8, Zenon
<1> QED BY <1>2, <1>4, <1>7, <1>9 DEF a

LEMMA StepsAre ==
  ASSUME NEW k, NEW m, NEW f, NEW v, NEW s \in Seq(Byte), Shrinks(k, m, f)
  PROVE  s # << >> => LET r == OneStep(k, m, f, v, s)
                      IN  /\ r.ok => Steps(k, m, f, v, s) = Steps(k, m, f, r.value, r.rest)
                          /\ r = NotRead => Steps(k, m, f, v, s) = NotRead
<1> DEFINE a == TheRun(k, m, f, v, s, Len(s))
           L == Len(s)
<1>0. L \in Nat
  OBVIOUS
<1>11. Follows(k, m, f, v, s, L, a)
  BY <1>0, RunExists
<1>1. a[0] = Read(v, s) /\ \A n \in 1..L : a[n] = AfterNext(k, m, f, a[n - 1])
  BY <1>11 DEF Follows
<1>2. Steps(k, m, f, v, s) = a[L] /\ a[L].rest = << >> /\ \A n \in 0..L : a[n].rest = << >> => a[L] = a[n]
  BY StepsIsLast
<1> HIDE DEF a
<1>4. ASSUME s # << >> PROVE LET r == OneStep(k, m, f, v, s)
                      IN  /\ r.ok => Steps(k, m, f, v, s) = Steps(k, m, f, r.value, r.rest)
                          /\ r = NotRead => Steps(k, m, f, v, s) = NotRead
  <2> DEFINE r == OneStep(k, m, f, v, s)
  <2>1. L >= 1 /\ 1 \in 1..L /\ 1 - 1 = 0 /\ 1 \in 0..L
    BY <1>4, <1>0
  <2>2. a[1] = r
    <3>1. a[1] = AfterNext(k, m, f, Read(v, s))
      BY <1>1, <2>1
    <3>2. Read(v, s).rest = s /\ Read(v, s).value = v
      BY ReadParts, Zenon
    <3>3. AfterNext(k, m, f, Read(v, s)) = OneStep(k, m, f, v, s)
      BY <1>4, <3>2, Zenon DEF AfterNext
    <3> QED BY <3>1, <3>3
  <2>3. Shorter(r, s)
    BY <1>4 DEF Shrinks
  <2> HIDE DEF r
  <2>4. ASSUME r = NotRead PROVE Steps(k, m, f, v, s) = NotRead
    BY <1>2, <2>1, <2>2, <2>4, NotReadParts
  <2>5. ASSUME r.ok PROVE Steps(k, m, f, v, s) = Steps(k, m, f, r.value, r.rest)
    <3> DEFINE t == r.rest
               M == Len(t)
               b == TheRun(k, m, f, r.value, t, Len(t))
    <3>1. t \in Seq(Byte) /\ M \in Nat /\ M < L /\ r = Read(r.value, t)
      <4>1. r # NotRead
        BY <2>5, NotReadParts
      <4>2. Shorter(r, s) /\ r.ok = TRUE /\ r.rest \in Seq(Byte) /\ Len(r.rest) < Len(s)
        BY <2>3, <4>1 DEF Shorter
      <4>3. t \in Seq(Byte) /\ M \in Nat /\ M < L
        BY <4>2
      <4>4. r = Read(r.value, t)
        BY <2>3, <4>1 DEF Shorter
      <4> QED BY <4>3, <4>4
    <3>21. Follows(k, m, f, r.value, t, M, b)
      BY <3>1, RunExists
    <3>2. b[0] = Read(r.value, t) /\ \A n \in 1..M : b[n] = AfterNext(k, m, f, b[n - 1])
      BY <3>21 DEF Follows
    <3>3. Steps(k, m, f, r.value, t) = b[M] /\ b[M].rest = << >>
      BY <3>1, StepsIsLast
    <3> HIDE DEF b
    <3> DEFINE H == {n \in Nat : n <= M => a[n + 1] = b[n]}
    <3>4. 0 \in H
      BY <2>2, <3>1, <3>2
    <3>5. ASSUME NEW n \in Nat, n \in H PROVE n + 1 \in H
      <4> SUFFICES ASSUME n + 1 <= M PROVE a[(n + 1) + 1] = b[n + 1]
        OBVIOUS
      <4>1. a[n + 1] = b[n]
        BY <3>5, <3>1
      <4>2. n + 1 \in 1..M /\ (n + 1) - 1 = n /\ (n + 1) + 1 \in 1..L /\ ((n + 1) + 1) - 1 = n + 1
        BY <3>1, <1>0
      <4>3. b[n + 1] = AfterNext(k, m, f, b[n]) /\ a[(n + 1) + 1] = AfterNext(k, m, f, a[n + 1])
        BY <1>1, <3>2, <4>2
      <4> QED BY <4>1, <4>3
    <3> HIDE DEF H
    <3>6. M \in H
      BY <3>1, <3>4, <3>5, Induction
    <3>7. a[M + 1] = b[M] /\ M + 1 \in 0..L
      BY <3>1, <3>6, <1>0 DEF H
    <3> QED BY <1>2, <3>3, <3>7
  <2> QED BY <1>4, <2>4, <2>5 DEF r
<1> QED BY <1>4

LEMMA StepsOfNothing == ASSUME NEW k, NEW m, NEW f, NEW v, Shrinks(k, m, f)
  PROVE Steps(k, m, f, v, << >>) = Read(v, << >>)
<1>1. << >> \in Seq(Byte)
  OBVIOUS
<1>2. ASSUME NEW s \in Seq(Byte), s = << >> PROVE Steps(k, m, f, v, s) = Read(v, s)
  <2> DEFINE a == TheRun(k, m, f, v, s, Len(s))
  <2>1. Len(s) = 0
    BY <1>2
  <2>2. Len(s) \in Nat
    OBVIOUS
  <2>3. Follows(k, m, f, v, s, Len(s), a)
    BY <2>2, RunExists
  <2>4. a[0] = Read(v, s)
    BY <2>3 DEF Follows
  <2>5. Steps(k, m, f, v, s) = a[Len(s)]
    BY StepsIsLast
  <2> QED BY <2>1, <2>4, <2>5
<1> QED BY <1>1, <1>2, Zenon

-----------------------------------------------------------------------------
(* One value of a field that is no message.                                 *)

TypeSets(f) ==
  /\ f.type \in Unsigned <=> f.type \in {"UINT32", "UINT64", "UENUM"}
  /\ f.type \in Signed <=> f.type \in {"INT32", "INT64"}
  /\ f.type \in ZigZags <=> f.type \in {"SINT32", "SINT64"}
  /\ f.type \in Fixed <=> f.type \in {"FLOAT", "DOUBLE"}
  /\ f.type \in Delimited <=> f.type \in {"STRING", "BYTES", "MESSAGE"}

LEMMA ScalarTypesAre == ASSUME NEW m, NEW f, SoundField(m, f), f.type # "MESSAGE"
  PROVE \/ f.type \in Unsigned \/ f.type \in Signed \/ f.type \in ZigZags \/ f.type \in Fixed
        \/ f.type = "BOOL" \/ f.type = "STRING" \/ f.type = "BYTES"
  BY DEF SoundField, Delimited

LEMMA ReadScalarIs == ASSUME NEW m, NEW f, NEW old, NEW wt, NEW s, RightWireType(f, wt)
  PROVE LET r == ReadScalar(m, f, old, wt, s)
        IN  /\ f.type \in Unsigned => r = ReadUnsigned(f, s)
            /\ f.type \in Signed => r = ReadSigned(f, s)
            /\ f.type \in ZigZags => r = ReadZigZag(f, s)
            /\ f.type \in Fixed => r = Take(s, Bytes[f.type])
            /\ f.type = "BOOL" => r = ReadBool(s)
            /\ f.type = "STRING" => r = ReadString(m, f, s)
            /\ f.type = "BYTES" => r = ReadBytes(m, f, s)
  BY DEF ReadScalar, Unsigned, Signed, ZigZags, Fixed

LEMMA ScalarIs == ASSUME NEW f, NEW x
  PROVE /\ f.type \in Unsigned => (Scalar(f, x) <=> Pattern(x) /\ Fits(x, Bytes[f.type]))
        /\ f.type \in Signed \cup ZigZags =>
             (Scalar(f, x) <=> Pattern(x) /\ (f.type \in {"INT32", "SINT32"} => x = Int32(x)))
        /\ f.type \in Fixed => (Scalar(f, x) <=> x \in [1..Bytes[f.type] -> Byte])
        /\ f.type = "BOOL" => (Scalar(f, x) <=> x \in {Zero, True})
        /\ f.type = "STRING" => (Scalar(f, x) <=> x \in Seq(Byte \ {0}))
        /\ f.type = "BYTES" => (Scalar(f, x) <=> x \in Seq(Byte))
  BY DEF Scalar, Unsigned, Signed, ZigZags, Fixed

LEMMA BytesAre == ASSUME NEW f, f.type \in Fixed
  PROVE Bytes[f.type] \in Nat /\ 4 <= Bytes[f.type] /\ Bytes[f.type] <= 8
  BY DEF Bytes, Fixed

LEMMA ThenIs == ASSUME NEW s \in Seq(Byte), NEW r, NEW t, Shorter(r, s), 
                       r.ok => t = NotRead \/ t = Read(t.value, r.rest), ~r.ok => t = NotRead
  PROVE Shorter(t, s) /\ (t.ok => r.ok /\ t = Read(t.value, r.rest))
<1>1. CASE r = NotRead
  BY <1>1, NotReadParts DEF Shorter
<1>2. CASE r # NotRead
  <2>1. r.ok = TRUE /\ r.rest \in Seq(Byte) /\ Len(r.rest) < Len(s)
    BY <1>2 DEF Shorter
  <2>2. CASE t = NotRead
    BY <2>2, NotReadParts DEF Shorter
  <2>3. CASE t = Read(t.value, r.rest)
    <3>0. PICK x : x = t.value
      OBVIOUS
    <3>1. t.ok = TRUE /\ t.rest = r.rest
      <4>1. t = Read(x, r.rest)
        BY <2>3, <3>0
      <4>2. Read(x, r.rest).ok = TRUE /\ Read(x, r.rest).rest = r.rest
        BY ReadParts
      <4> QED BY <4>1, <4>2
    <3> QED BY <2>1, <2>3, <3>1 DEF Shorter
  <2> QED BY <2>1, <2>2, <2>3
<1> QED BY <1>1, <1>2

LEMMA SeenIs == ASSUME NEW b \in Seq(Byte)
  PROVE Seen(b) \in Seq(Byte \ {0}) /\ Len(Seen(b)) <= Len(b) /\ (b \in Seq(Byte \ {0}) => Seen(b) = b)
<1> DEFINE zeros == {i \in DOMAIN b : b[i] = 0}
<1>1. CASE zeros = {}
  <2>1. Seen(b) = b
    BY <1>1 DEF Seen
  <2>2. \A i \in 1..Len(b) : b[i] \in Byte \ {0}
    BY <1>1
  <2>3. b \in Seq(Byte \ {0})
    BY <2>2, SeqDef
  <2> QED BY <2>1, <2>3
<1>2. CASE zeros # {}
  <2> DEFINE k == Min(zeros)
  <2>1. zeros \in SUBSET Nat
    OBVIOUS
  <2>2. k \in zeros /\ \A x \in zeros : k <= x
    BY <1>2, <2>1, MinIn
  <2>3. Seen(b) = SubSeq(b, 1, k - 1)
    BY <1>2 DEF Seen
  <2> HIDE DEF k
  <2>4. k \in Nat /\ 1 <= k /\ k <= Len(b) /\ b[k] = 0 /\ \A i \in 1..Len(b) : i < k => b[i] # 0
    BY <2>2
  <2> DEFINE c == SubSeq(b, 1, k - 1)
  <2>5. c \in Seq(Byte) /\ Len(c) = k - 1 /\ \A i \in 1..(k - 1) : c[i] = b[i]
    BY <2>4
  <2> HIDE DEF c
  <2>6. \A i \in 1..Len(c) : c[i] \in Byte \ {0}
    BY <2>4, <2>5
  <2>7. c \in Seq(Byte \ {0})
    BY <2>5, <2>6, SeqDef
  <2>8. b \notin Seq(Byte \ {0})
    BY <2>4
  <2> QED BY <2>3, <2>4, <2>5, <2>7, <2>8 DEF c
<1> QED BY <1>1, <1>2

LEMMA RoomIs == ASSUME NEW m, NEW f, SoundField(m, f)
  PROVE /\ f.tag \in Nat /\ 0 < f.tag /\ f.tag < (100 * 100) /\ f.tag # 15 /\ f.tag # 16 /\ f.tag # 99 /\ f.tag # 1000
        /\ f.type = "STRING" \/ f.type = "BYTES" \/ f.label = "REPEATED" =>
             m.room[f.name] \in Nat /\ 0 < m.room[f.name] /\ m.room[f.name] < (100 * 100)
<1>1. f.tag \in Tags
  BY DEF SoundField
<1>2. f.type = "STRING" \/ f.type = "BYTES" \/ f.label = "REPEATED" => m.room[f.name] \in Rooms
  BY DEF SoundField
<1>4. PICK n \in Nat : n = Limit
  BY DEF Limit
<1>5. Limit = 9999
  BY DEF Limit
<1>6. /\ f.tag \in 1..n /\ f.tag \notin {15, 16, 99, 1000}
      /\ f.type = "STRING" \/ f.type = "BYTES" \/ f.label = "REPEATED" => m.room[f.name] \in 1..n
  BY <1>1, <1>2, <1>4 DEF Tags, Rooms
<1>7. /\ f.tag \in Nat /\ 0 < f.tag /\ f.tag <= n /\ f.tag \notin {15, 16, 99, 1000}
      /\ f.type = "STRING" \/ f.type = "BYTES" \/ f.label = "REPEATED" =>
           m.room[f.name] \in Nat /\ 0 < m.room[f.name] /\ m.room[f.name] <= n
  BY <1>6
<1>8. n \in Nat /\ n < (100 * 100)
  BY <1>4, <1>5
<1> QED BY <1>7, <1>8


LEMMA ThenTyped ==
  ASSUME NEW s \in Seq(Byte), NEW r, Shorter(r, s), NEW c \in BOOLEAN, NEW x, NEW t,
         t = IF r.ok THEN (IF c THEN Read(x, r.rest) ELSE NotRead) ELSE NotRead
  PROVE  Shorter(t, s) /\ (t.ok => c /\ r.ok /\ t.value = x)
<1>1. Read(x, r.rest).ok = TRUE /\ Read(x, r.rest).value = x /\ Read(x, r.rest).rest = r.rest
  BY ReadParts
<1>2. NotRead.ok = FALSE
  BY NotReadParts
<1>3. CASE r.ok /\ c
  <2>1. t = Read(x, r.rest)
    BY <1>3
  <2>2. t = Read(t.value, r.rest)
    BY <2>1, <1>1
  <2>3. Shorter(t, s)
    BY <1>3, <2>2, ThenIs
  <2> QED BY <1>1, <1>3, <2>1, <2>3
<1>4. CASE ~(r.ok /\ c)
  <2>1. t = NotRead
    BY <1>4
  <2> QED BY <2>1, <1>2 DEF Shorter
<1> QED BY <1>3, <1>4

LEMMA ReadScalarTyped ==
  ASSUME NEW m, NEW f, SoundField(m, f), f.type # "MESSAGE", NEW old, NEW wt, NEW s \in Seq(Byte)
  PROVE  LET r == ReadScalar(m, f, old, wt, s)
         IN  /\ Shorter(r, s)
             /\ r.ok => Scalar(f, r.value) /\ ValueHasRoom(m, f, r.value)
<1> DEFINE r == ReadScalar(m, f, old, wt, s)
<1>1. CASE ~RightWireType(f, wt)
  <2>1. r = NotRead
    BY <1>1 DEF ReadScalar
  <2> QED BY <2>1, NotReadParts DEF Shorter
<1>2. CASE RightWireType(f, wt)
  <2> SUFFICES Shorter(r, s) /\ (r.ok => Scalar(f, r.value) /\ ValueHasRoom(m, f, r.value))
    OBVIOUS
  <2> HIDE DEF r
  <2> DEFINE b == ReadVarint(s)
             e == ReadVarint32(s)
             z == ReadSVarint(s)
             a == ReadSized(s)
  <2>0. /\ Shorter(b, s) /\ (b.ok => Pattern(b.value))
        /\ Shorter(e, s)
        /\ Shorter(z, s) /\ (z.ok => Pattern(z.value))
        /\ Shorter(a, s) /\ (a.ok => a.value \in Seq(Byte))
    BY VarintsAreRead, ReadSVarintIs, ReadSizedIs
  <2>00. f.type # "STRING" /\ f.type # "BYTES" => \A x : ValueHasRoom(m, f, x)
    BY DEF ValueHasRoom
  <2>1. CASE f.type \in Unsigned
    <3> DEFINE c == Fits(b.value, Bytes[f.type]) = TRUE
    <3>1. r = ReadUnsigned(f, s)
      BY <1>2, <2>1, ReadScalarIs DEF r
    <3>2. r = IF b.ok THEN (IF c THEN Read(b.value, b.rest) ELSE NotRead) ELSE NotRead
      BY <3>1, Zenon DEF ReadUnsigned, Then, ReadIf
    <3>3. Shorter(r, s) /\ (r.ok => c /\ b.ok /\ r.value = b.value)
      <4>1. c \in BOOLEAN
        OBVIOUS
      <4> HIDE DEF b, c
      <4> QED BY <2>0, <3>2, <4>1, ThenTyped
    <3> QED BY <2>0, <2>00, <2>1, <3>3, ScalarIs DEF Unsigned
  <2>2. CASE f.type \in Signed
    <3> DEFINE c == TRUE
               x == IF f.type = "INT32" THEN Int32(b.value) ELSE b.value
    <3>1. r = ReadSigned(f, s)
      BY <1>2, <2>2, ReadScalarIs DEF r
    <3>2. r = IF b.ok THEN (IF c THEN Read(x, b.rest) ELSE NotRead) ELSE NotRead
      BY <3>1, Zenon DEF ReadSigned, Then
    <3>3. Shorter(r, s) /\ (r.ok => b.ok /\ r.value = x)
      <4>1. c \in BOOLEAN
        OBVIOUS
      <4>2. Shorter(b, s)
        BY <2>0
      <4> HIDE DEF b, x, c
      <4> QED BY <3>2, <4>1, <4>2, ThenTyped
    <3>4. b.ok => b.value \in Seq(Septet) /\ Pattern(x) /\ (f.type = "INT32" => x = Int32(x))
      BY <2>0, DigitRange, Int32Is
    <3> QED BY <2>00, <2>2, <3>3, <3>4, ScalarIs DEF Signed
  <2>3. CASE f.type \in ZigZags
    <3> DEFINE c == (f.type = "SINT32" => z.value = Int32(z.value))
    <3>1. r = ReadZigZag(f, s)
      BY <1>2, <2>3, ReadScalarIs DEF r
    <3>2. r = IF z.ok THEN (IF c THEN Read(z.value, z.rest) ELSE NotRead) ELSE NotRead
      BY <3>1, Zenon DEF ReadZigZag, Then, ReadIf
    <3>3. Shorter(r, s) /\ (r.ok => c /\ z.ok /\ r.value = z.value)
      <4> HIDE DEF z
      <4>1. c \in BOOLEAN
        OBVIOUS
      <4> HIDE DEF c
      <4> QED BY <2>0, <3>2, <4>1, ThenTyped
    <3> QED BY <2>0, <2>00, <2>3, <3>3, ScalarIs DEF ZigZags
  <2>4. CASE f.type \in Fixed
    <3>1. r = Take(s, Bytes[f.type])
      BY <1>2, <2>4, ReadScalarIs DEF r
    <3>2. PICK n \in Nat : n = Bytes[f.type] /\ 4 <= n
      BY <2>4, BytesAre
    <3>3. /\ n > Len(s) => r = NotRead
          /\ n <= Len(s) => /\ r = Read(SubSeq(s, 1, n), Rest(s, n))
                            /\ Rest(s, n) \in Seq(Byte) /\ Len(Rest(s, n)) = Len(s) - n
                            /\ SubSeq(s, 1, n) \in Seq(Byte) /\ Len(SubSeq(s, 1, n)) = n
      BY <3>1, <3>2, TakeIs
    <3>4. CASE n > Len(s)
      BY <3>3, <3>4, NotReadParts DEF Shorter
    <3>5. CASE n <= Len(s)
      <4> DEFINE x == SubSeq(s, 1, n)
                 t == Rest(s, n)
      <4>1. r = Read(x, t) /\ t \in Seq(Byte) /\ Len(t) = Len(s) - n /\ x \in Seq(Byte) /\ Len(x) = n
        BY <3>3, <3>5
      <4> HIDE DEF x, t
      <4>2. r.ok = TRUE /\ r.value = x /\ r.rest = t
        BY <4>1, ReadParts
      <4>3. Len(t) < Len(s)
        BY <4>1, <3>2
      <4>4. Shorter(r, s)
        BY <4>1, <4>2, <4>3 DEF Shorter
      <4>5. x \in [1..Bytes[f.type] -> Byte]
        BY <3>2, <4>1
      <4> QED BY <2>00, <2>4, <4>2, <4>4, <4>5, ScalarIs DEF Fixed
    <3> QED BY <3>2, <3>4, <3>5
  <2>5. CASE f.type = "BOOL"
    <3> DEFINE c == TRUE
               x == IF e.value = Zero THEN Zero ELSE True
    <3>1. r = ReadBool(s)
      BY <1>2, <2>5, ReadScalarIs DEF r
    <3>2. r = IF e.ok THEN (IF c THEN Read(x, e.rest) ELSE NotRead) ELSE NotRead
      BY <3>1, Zenon DEF ReadBool, Then
    <3>3. Shorter(r, s) /\ (r.ok => e.ok /\ r.value = x)
      <4>1. c \in BOOLEAN
        OBVIOUS
      <4> HIDE DEF e, x, c
      <4> QED BY <2>0, <3>2, <4>1, ThenTyped
    <3> QED BY <2>00, <2>5, <3>3, ScalarIs
  <2>6. CASE f.type = "STRING"
    <3> DEFINE c == Len(a.value) + 1 <= m.room[f.name]
               x == Seen(a.value)
    <3>1. r = ReadString(m, f, s)
      BY <1>2, <2>6, ReadScalarIs DEF r
    <3>2. r = IF a.ok THEN (IF c THEN Read(x, a.rest) ELSE NotRead) ELSE NotRead
      BY <3>1, Zenon DEF ReadString, Then, ReadIf
    <3>3. Shorter(r, s) /\ (r.ok => c /\ a.ok /\ r.value = x)
      <4>1. c \in BOOLEAN
        OBVIOUS
      <4> HIDE DEF a, x, c
      <4> QED BY <2>0, <3>2, <4>1, ThenTyped
    <3>4. r.ok => x \in Seq(Byte \ {0}) /\ Len(x) <= Len(a.value)
      BY <2>0, <3>3, SeenIs
    <3>5. r.ok => Len(x) < m.room[f.name]
      <4>1. m.room[f.name] \in Nat
        BY <2>6, RoomIs
      <4> QED BY <4>1, <2>0, <3>3, <3>4
    <3>6. r.ok => ValueHasRoom(m, f, x)
      BY <2>6, <3>5 DEF ValueHasRoom
    <3> QED BY <2>6, <3>3, <3>4, <3>6, ScalarIs
  <2>7. CASE f.type = "BYTES"
    <3> DEFINE c == Len(a.value) <= m.room[f.name]
               x == a.value
    <3>1. r = ReadBytes(m, f, s)
      BY <1>2, <2>7, ReadScalarIs DEF r
    <3>2. r = IF a.ok THEN (IF c THEN Read(x, a.rest) ELSE NotRead) ELSE NotRead
      BY <3>1, Zenon DEF ReadBytes, Then, ReadIf
    <3>3. Shorter(r, s) /\ (r.ok => c /\ a.ok /\ r.value = x)
      <4>1. c \in BOOLEAN
        OBVIOUS
      <4> HIDE DEF a, c, x
      <4> QED BY <2>0, <3>2, <4>1, ThenTyped
    <3>4. r.ok => ValueHasRoom(m, f, r.value)
      BY <2>7, <3>3 DEF ValueHasRoom
    <3> QED BY <2>0, <2>7, <3>3, <3>4, ScalarIs
  <2> QED BY <2>1, <2>2, <2>3, <2>4, <2>5, <2>6, <2>7, ScalarTypesAre DEF r
<1> QED BY <1>1, <1>2

-----------------------------------------------------------------------------
(* Every step takes some of the stream.                                     *)

LEMMA EmptyIs ==
  /\ << >> \in Seq(Byte) /\ Len(<< >>) = 0
  /\ \A v : Read(v, << >>).ok = TRUE /\ Read(v, << >>).value = v /\ Read(v, << >>).rest = << >>
  BY DEF Read

LEMMA ReadValueShorter ==
  ASSUME NEW m, NEW f, SoundField(m, f), NEW old, NEW wt, NEW s \in Seq(Byte)
  PROVE  Shorter(ReadValue(m, f, old, wt, s), s)
<1>1. CASE f.type # "MESSAGE"
  <2>1. ReadValue(m, f, old, wt, s) = ReadScalar(m, f, old, wt, s)
    BY <1>1 DEF ReadValue
  <2> QED BY <1>1, <2>1, ReadScalarTyped
<1>2. CASE f.type = "MESSAGE"
  <2>1. CASE wt # WT_STRING
    <3>1. ReadValue(m, f, old, wt, s) = NotRead
      BY <1>2, <2>1 DEF ReadValue
    <3> QED BY <3>1, Zenon DEF Shorter
  <2>2. CASE wt = WT_STRING
    <3> DEFINE a == ReadSized(s)
               d == DecodeFlat(f.of, old, a.value)
               c == IF d.ok THEN TRUE ELSE FALSE
               x == d.value
               t == ReadValue(m, f, old, wt, s)
    <3>1. t = ReadMessage(f, old, s)
      BY <1>2, <2>2 DEF ReadValue
    <3>2. t = IF a.ok THEN (IF c THEN Read(x, a.rest) ELSE NotRead) ELSE NotRead
      BY <3>1, Zenon DEF ReadMessage, Then
    <3>3. Shorter(a, s)
      BY ReadSizedIs
    <3>4. c \in BOOLEAN
      OBVIOUS
    <3> HIDE DEF a, c, x, t
    <3>5. Shorter(t, s)
      BY <3>2, <3>3, <3>4, ThenTyped
    <3> QED BY <3>5 DEF t
  <2> QED BY <2>1, <2>2
<1> QED BY <1>1, <1>2

LEMMA ReadFieldShorter ==
  ASSUME NEW m, NEW v, NEW f, SoundField(m, f), NEW wt, NEW s \in Seq(Byte)
  PROVE  Shorter(ReadField(ReadValue, m, v, f, wt, s), s)
<1> DEFINE r == IF f.label = "REPEATED" THEN ReadArray(ReadValue, m, f, v[f.name], wt, s)
                                        ELSE ReadOne(ReadValue, m, f, v[f.name], wt, s)
           t == ReadField(ReadValue, m, v, f, wt, s)
           xs == v[f.name]
<1>1. Shorter(r, s)
  <2>1. CASE f.label # "REPEATED"
    <3> DEFINE old == IF f.type # "MESSAGE" THEN Zero
                      ELSE IF xs = << >> THEN Default(f.of) ELSE xs[1]
               a == ReadValue(m, f, old, wt, s)
               x == <<a.value>>
               c == TRUE
    <3>1. r = IF a.ok THEN (IF c THEN Read(x, a.rest) ELSE NotRead) ELSE NotRead
      BY <2>1, Zenon DEF ReadOne, Held, Then
    <3>2. Shorter(a, s)
      BY ReadValueShorter
    <3>3. c \in BOOLEAN
      OBVIOUS
    <3> HIDE DEF a, x, c, r
    <3> QED BY <3>1, <3>2, <3>3, ThenTyped
  <2>2. CASE f.label = "REPEATED" /\ ~(wt = WT_STRING /\ Packable(f))
    <3> DEFINE fresh == IF f.type = "MESSAGE" THEN Default(f.of) ELSE Zero
               a == ReadValue(m, f, fresh, wt, s)
               x == Append(xs, a.value)
               c == IF ~Full(m, f, xs) THEN TRUE ELSE FALSE
    <3>1. r = IF a.ok THEN (IF c THEN Read(x, a.rest) ELSE NotRead) ELSE NotRead
      BY <2>2, Zenon DEF ReadArray, Then, ReadIf
    <3>2. Shorter(a, s)
      BY ReadValueShorter
    <3>3. c \in BOOLEAN
      OBVIOUS
    <3> HIDE DEF a, x, c, r
    <3> QED BY <3>1, <3>2, <3>3, ThenTyped
  <2>3. CASE f.label = "REPEATED" /\ wt = WT_STRING /\ Packable(f)
    <3> DEFINE a == ReadSized(s)
               d == ReadPacked(m, f, xs, a.value)
               x == d.value
               c == IF d.ok THEN TRUE ELSE FALSE
    <3>1. r = IF a.ok THEN (IF c THEN Read(x, a.rest) ELSE NotRead) ELSE NotRead
      BY <2>3, Zenon DEF ReadArray, Then
    <3>2. Shorter(a, s)
      BY ReadSizedIs
    <3>3. c \in BOOLEAN
      OBVIOUS
    <3> HIDE DEF a, x, c, r
    <3> QED BY <3>1, <3>2, <3>3, ThenTyped
  <2> QED BY <2>1, <2>2, <2>3
<1> DEFINE x == Set(m, v, f, r.value)
           c == TRUE
<1>2. t = IF r.ok THEN (IF c THEN Read(x, r.rest) ELSE NotRead) ELSE NotRead
  BY Zenon DEF ReadField, Then
<1>3. c \in BOOLEAN
  OBVIOUS
<1> HIDE DEF r, x, c, t
<1>4. Shorter(t, s)
  BY <1>1, <1>2, <1>3, ThenTyped
<1> QED BY <1>4 DEF t

LEMMA FieldIs == ASSUME NEW m, NEW n, FieldsOf(m, n) # {}
  PROVE LET f == CHOOSE f \in FieldsOf(m, n) : TRUE IN f \in Fields(m) /\ f.tag = n
  BY Zenon DEF FieldsOf

LEMMA MessageShrinks == ASSUME NEW m, SoundFields(m), NEW f PROVE Shrinks("message", m, f)
<1> SUFFICES ASSUME NEW w, NEW s \in Seq(Byte), s # << >>
             PROVE  Shorter(OneStep("message", m, f, w, s), s)
  BY DEF Shrinks
<1> DEFINE a == ReadTag(s)
           t == OneStep("message", m, f, w, s)
           d == DecodeNext(ReadValue, m, w, a.value, a.rest)
<1>1. t = IF a.ok THEN d ELSE NotRead
  BY Zenon DEF OneStep, Then
<1>2. Shorter(a, s)
  BY ReadTagIs
<1>3. ASSUME a.ok PROVE Shorter(d, a.rest) /\ a.rest \in Seq(Byte) /\ Len(a.rest) < Len(s)
  <2>1. a.rest \in Seq(Byte) /\ Len(a.rest) < Len(s)
    BY <1>2, <1>3, NotReadParts DEF Shorter
  <2> DEFINE q == a.rest
             number == a.value.number
             wt == a.value.wireType
  <2>2. CASE number = 0
    <3>1. d = NotRead
      BY <2>2 DEF DecodeNext
    <3> QED BY <2>1, <3>1 DEF Shorter
  <2>3. CASE number # 0 /\ FieldsOf(m, number) = {}
    <3> DEFINE b == Skip(q, wt)
               c == TRUE
               x == w
    <3>1. d = Then(Skip(q, wt), LAMBDA y, rest : Read(w, rest))
      BY <2>3 DEF DecodeNext
    <3>2. d = IF b.ok THEN (IF c THEN Read(x, b.rest) ELSE NotRead) ELSE NotRead
      BY <3>1, Zenon DEF Then
    <3>3. Shorter(b, q)
      BY <2>1, SkipIs
    <3>4. c \in BOOLEAN
      OBVIOUS
    <3> HIDE DEF b, c, x, d, q
    <3>5. q \in Seq(Byte)
      BY <2>1 DEF q
    <3>6. Shorter(d, q)
      BY <3>2, <3>3, <3>4, <3>5, ThenTyped
    <3> QED BY <2>1, <3>6 DEF q
  <2>4. CASE number # 0 /\ FieldsOf(m, number) # {}
    <3> DEFINE g == CHOOSE g \in FieldsOf(m, number) : TRUE
    <3>1. d = ReadField(ReadValue, m, w, g, wt, q)
      BY <2>4 DEF DecodeNext
    <3>2. SoundField(m, g)
      BY <2>4, FieldIs DEF SoundFields
    <3>3. Shorter(ReadField(ReadValue, m, w, g, wt, q), q)
      BY <2>1, <3>2, ReadFieldShorter
    <3> QED BY <2>1, <3>1, <3>3
  <2> QED BY <2>2, <2>3, <2>4
<1> HIDE DEF a, t, d
<1>4. CASE a.ok
  <2>1. t = d
    BY <1>1, <1>4
  <2>2. Shorter(d, a.rest) /\ a.rest \in Seq(Byte) /\ Len(a.rest) < Len(s)
    BY <1>3, <1>4
  <2>3. Shorter(d, s)
    <3>1. CASE d = NotRead
      BY <3>1 DEF Shorter
    <3>2. CASE d # NotRead
      <4>1. d.ok = TRUE /\ d = Read(d.value, d.rest) /\ d.rest \in Seq(Byte) /\ Len(d.rest) < Len(a.rest)
        BY <2>2, <3>2 DEF Shorter
      <4>2. Len(d.rest) < Len(s)
        BY <2>2, <4>1
      <4> QED BY <4>1, <4>2 DEF Shorter
    <3> QED BY <3>1, <3>2
  <2> QED BY <2>1, <2>3 DEF t
<1>5. CASE ~a.ok
  <2>1. t = NotRead
    BY <1>1, <1>5
  <2> QED BY <2>1 DEF Shorter, t
<1> QED BY <1>4, <1>5

LEMMA PackedShrinks == ASSUME NEW m, NEW f, SoundField(m, f), f.type # "MESSAGE"
  PROVE Shrinks("packed", m, f)
<1> SUFFICES ASSUME NEW w, NEW s \in Seq(Byte), s # << >>
             PROVE  Shorter(OneStep("packed", m, f, w, s), s)
  BY DEF Shrinks
<1> DEFINE a == ReadScalar(m, f, Zero, WT_PACKED, s)
           t == OneStep("packed", m, f, w, s)
           x == Append(w, a.value)
           c == TRUE
<1>1. t = IF Full(m, f, w) THEN NotRead ELSE Then(a, LAMBDA y, rest : Read(Append(w, y), rest))
  BY DEF OneStep
<1>2. Shorter(a, s)
  BY ReadScalarTyped
<1>3. CASE Full(m, f, w)
  <2>1. t = NotRead
    BY <1>1, <1>3
  <2> QED BY <2>1 DEF Shorter
<1>4. CASE ~Full(m, f, w)
  <2>1. t = IF a.ok THEN (IF c THEN Read(x, a.rest) ELSE NotRead) ELSE NotRead
    BY <1>1, <1>4, Zenon DEF Then
  <2>2. c \in BOOLEAN
    OBVIOUS
  <2> HIDE DEF a, t, x, c
  <2>3. Shorter(t, s)
    BY <1>2, <2>1, <2>2, ThenTyped
  <2> QED BY <2>3 DEF t
<1> QED BY <1>3, <1>4

-----------------------------------------------------------------------------
(* What is read fills its structure and no more.                            *)

\* A value of a field, with the room it takes.
ItemIs(m, f, x) ==
  IF f.type = "MESSAGE" THEN FlatValue(f.of, x) /\ FlatHasRoom(f.of, x)
                        ELSE Scalar(f, x) /\ ValueHasRoom(m, f, x)
FieldGood(m, f, xs) ==
  /\ Sequence(xs)
  /\ f.label = "SINGULAR" => Len(xs) = 1
  /\ f.label \in {"OPTIONAL", "ONEOF"} => Len(xs) <= 1
  /\ f.label = "REPEATED" => Len(xs) <= m.room[f.name]
  /\ \A i \in DOMAIN xs : ItemIs(m, f, xs[i])
OneMember(m, v) ==
  \A f, g \in Fields(m) :
    f.label = "ONEOF" /\ g.label = "ONEOF" /\ f # g => v[f.name] = << >> \/ v[g.name] = << >>
Good(m, v) == IsValue(m, v) /\ HasRoom(m, v)

LEMMA GoodIs == ASSUME NEW m, NEW v, Sound(m)
  PROVE Good(m, v) <=> /\ v = [n \in Names(m) |-> v[n]]
                       /\ \A f \in Fields(m) : FieldGood(m, f, v[f.name])
                       /\ OneMember(m, v)
<1>1. Good(m, v) <=>
        /\ AsLabelled(m, v)
        /\ \A f \in Fields(m) :
              /\ Sequence(v[f.name])
              /\ \A i \in DOMAIN v[f.name] :
                    IF f.type = "MESSAGE" THEN FlatValue(f.of, v[f.name][i]) ELSE Scalar(f, v[f.name][i])
        /\ \A f \in Fields(m) : FieldHasRoom(m, f, v[f.name])
        /\ \A f \in Fields(m) :
             f.type = "MESSAGE" => \A i \in DOMAIN v[f.name] : FlatHasRoom(f.of, v[f.name][i])
  BY Zenon DEF Good, IsValue, ValuesOf, HasRoom, FlatHasRoom
<1>2. \A f, x : f.type = "MESSAGE" => ValueHasRoom(m, f, x)
  BY DEF ValueHasRoom
<1>3. \A f, xs : FieldHasRoom(m, f, xs) <=> /\ f.label = "REPEATED" => Len(xs) <= m.room[f.name]
                                            /\ \A i \in DOMAIN xs : ValueHasRoom(m, f, xs[i])
  BY Zenon DEF FieldHasRoom
<1>4. AsLabelled(m, v) <=>
        /\ v = [n \in Names(m) |-> v[n]]
        /\ \A f \in Fields(m) : /\ f.label = "SINGULAR" => Len(v[f.name]) = 1
                                /\ f.label \in {"OPTIONAL", "ONEOF"} => Len(v[f.name]) <= 1
        /\ OneMember(m, v)
  BY Zenon DEF AsLabelled, OneMember
<1> QED BY <1>1, <1>2, <1>3, <1>4, Zenon DEF FieldGood, ItemIs

LEMMA FlatGood == ASSUME NEW m, NEW v, IsFlat(m)
  PROVE /\ FlatValue(m, v) <=> IsValue(m, v)
        /\ FlatHasRoom(m, v) <=> HasRoom(m, v)
<1>1. \A f \in Fields(m) : f.type # "MESSAGE"
  BY DEF IsFlat
<1>2. FlatValue(m, v) <=> IsValue(m, v)
  BY <1>1, Zenon DEF FlatValue, IsValue, ValuesOf
<1>3. FlatHasRoom(m, v) <=> HasRoom(m, v)
  BY <1>1, Zenon DEF HasRoom
<1> QED BY <1>2, <1>3

LEMMA FlatSound == ASSUME NEW m, SoundFields(m), IsFlat(m) PROVE Sound(m)
  BY DEF Sound, IsFlat

\* The steps of the model's three loops, and that each loop makes them.
MessageStep(m, w, left) ==
  Then(ReadTag(left), LAMBDA tag, rest : DecodeNext(ReadValue, m, w, tag, rest))
FlatStep(m, w, left) ==
  Then(ReadTag(left), LAMBDA tag, rest : DecodeNext(ReadScalar, m, w, tag, rest))
PackedStep(m, f, w, left) ==
  IF Full(m, f, w) THEN NotRead
  ELSE Then(ReadScalar(m, f, Zero, WT_PACKED, left), LAMBDA x, rest : Read(Append(w, x), rest))

IsMessageRun(m, v, s, g) ==
  g = [n \in 0..Len(s) |->
         IF n = 0 THEN Read(v, s)
         ELSE LET last == g[n - 1]
              IN  IF last.rest = << >> THEN last ELSE MessageStep(m, last.value, last.rest)]
IsFlatRun(m, v, s, g) ==
  g = [n \in 0..Len(s) |->
         IF n = 0 THEN Read(v, s)
         ELSE LET last == g[n - 1]
              IN  IF last.rest = << >> THEN last ELSE FlatStep(m, last.value, last.rest)]
IsPackedRun(m, f, v, s, g) ==
  g = [n \in 0..Len(s) |->
         IF n = 0 THEN Read(v, s)
         ELSE LET last == g[n - 1]
              IN  IF last.rest = << >> THEN last ELSE PackedStep(m, f, last.value, last.rest)]
MessageRun(m, v, s)   == CHOOSE g : IsMessageRun(m, v, s, g)
FlatRun(m, v, s)      == CHOOSE g : IsFlatRun(m, v, s, g)
PackedRun(m, f, v, s) == CHOOSE g : IsPackedRun(m, f, v, s, g)

LEMMA DecodeIsSteps == ASSUME NEW m, NEW f, NEW v, NEW s
  PROVE DecodeOnto(m, v, s) = Steps("message", m, f, v, s)
<1>1. \A w, t : OneStep("message", m, f, w, t) = MessageStep(m, w, t)
  BY DEF OneStep, MessageStep
<1>2. \A g : IsRun("message", m, f, v, s, Len(s), g) <=> IsMessageRun(m, v, s, g)
  BY <1>1 DEF IsRun, IsMessageRun, AfterNext
<1>3. TheRun("message", m, f, v, s, Len(s)) = MessageRun(m, v, s)
  BY <1>2, Zenon DEF TheRun, MessageRun
<1>4. DecodeOnto(m, v, s) =
        MessageRun(m, v, s)[CHOOSE n \in 0..Len(s) : MessageRun(m, v, s)[n].rest = << >>]
  BY Zenon DEF DecodeOnto, DecodeFields, UntilEnd, MessageRun, IsMessageRun, MessageStep
<1> QED BY <1>3, <1>4, StepsAreRun, Zenon

LEMMA PackedIsSteps == ASSUME NEW m, NEW f, NEW v, NEW s
  PROVE ReadPacked(m, f, v, s) = Steps("packed", m, f, v, s)
<1>1. \A w, t : OneStep("packed", m, f, w, t) = PackedStep(m, f, w, t)
  BY DEF OneStep, PackedStep
<1>2. \A g : IsRun("packed", m, f, v, s, Len(s), g) <=> IsPackedRun(m, f, v, s, g)
  BY <1>1 DEF IsRun, IsPackedRun, AfterNext
<1>3. TheRun("packed", m, f, v, s, Len(s)) = PackedRun(m, f, v, s)
  BY <1>2, Zenon DEF TheRun, PackedRun
<1>4. ReadPacked(m, f, v, s) =
        PackedRun(m, f, v, s)[CHOOSE n \in 0..Len(s) : PackedRun(m, f, v, s)[n].rest = << >>]
  BY Zenon DEF ReadPacked, UntilEnd, PackedRun, IsPackedRun, PackedStep
<1> QED BY <1>3, <1>4, StepsAreRun, Zenon

LEMMA FlatField == ASSUME NEW m, IsFlat(m), NEW w, NEW f \in Fields(m), NEW wt, NEW t
  PROVE ReadField(ReadScalar, m, w, f, wt, t) = ReadField(ReadValue, m, w, f, wt, t)
<1>1. f.type # "MESSAGE"
  BY DEF IsFlat
<1>2. \A old : ReadValue(m, f, old, wt, t) = ReadScalar(m, f, old, wt, t)
  BY <1>1, Zenon DEF ReadValue
<1> DEFINE xs == w[f.name]
           old == IF f.type # "MESSAGE" THEN Zero
                  ELSE IF xs = << >> THEN Default(f.of) ELSE xs[1]
           fresh == IF f.type = "MESSAGE" THEN Default(f.of) ELSE Zero
           AsOne(a) == IF a.ok THEN Read(<<a.value>>, a.rest) ELSE NotRead
           AsItem(a) == IF a.ok THEN ReadIf(~Full(m, f, xs), Append(xs, a.value), a.rest) ELSE NotRead
           AsArray(a) == IF a.ok THEN Then(ReadPacked(m, f, xs, a.value), LAMBDA all, none : Read(all, a.rest))
                         ELSE NotRead
           AsField(a) == IF a.ok THEN Read(Set(m, w, f, a.value), a.rest) ELSE NotRead
<1>3. /\ ReadOne(ReadValue, m, f, xs, wt, t) = AsOne(ReadValue(m, f, old, wt, t))
      /\ ReadOne(ReadScalar, m, f, xs, wt, t) = AsOne(ReadScalar(m, f, old, wt, t))
  BY Zenon DEF ReadOne, Held, Then
<1>4. ReadOne(ReadValue, m, f, xs, wt, t) = ReadOne(ReadScalar, m, f, xs, wt, t)
  <2> HIDE DEF old
  <2>1. ReadValue(m, f, old, wt, t) = ReadScalar(m, f, old, wt, t)
    BY <1>2, Zenon
  <2> QED BY <1>3, <2>1
<1>5. CASE wt = WT_STRING /\ Packable(f)
  <2>1. ReadArray(ReadValue, m, f, xs, wt, t) = AsArray(ReadSized(t))
    BY <1>5, Zenon DEF ReadArray, Then
  <2>2. ReadArray(ReadScalar, m, f, xs, wt, t) = AsArray(ReadSized(t))
    BY <1>5, Zenon DEF ReadArray, Then
  <2>3. ReadArray(ReadValue, m, f, xs, wt, t) = ReadArray(ReadScalar, m, f, xs, wt, t)
    <3> HIDE DEF AsArray
    <3> QED BY <2>1, <2>2
  <2> QED BY <1>4, <2>3, Zenon DEF ReadField, Then
<1>6. CASE ~(wt = WT_STRING /\ Packable(f))
  <2>1. ReadArray(ReadValue, m, f, xs, wt, t) = AsItem(ReadValue(m, f, fresh, wt, t))
    BY <1>6, Zenon DEF ReadArray, Then
  <2>2. ReadArray(ReadScalar, m, f, xs, wt, t) = AsItem(ReadScalar(m, f, fresh, wt, t))
    BY <1>6, Zenon DEF ReadArray, Then
  <2> HIDE DEF fresh
  <2>3. ReadValue(m, f, fresh, wt, t) = ReadScalar(m, f, fresh, wt, t)
    BY <1>2, Zenon
  <2>4. ReadArray(ReadValue, m, f, xs, wt, t) = ReadArray(ReadScalar, m, f, xs, wt, t)
    BY <2>1, <2>2, <2>3
  <2> QED BY <1>4, <2>4, Zenon DEF ReadField, Then
<1> QED BY <1>5, <1>6

LEMMA FlatDecode == ASSUME NEW m, NEW v, NEW s, IsFlat(m)
  PROVE DecodeFlat(m, v, s) = DecodeOnto(m, v, s)
<1>1. ASSUME NEW w, NEW tag, NEW t
      PROVE  DecodeNext(ReadScalar, m, w, tag, t) = DecodeNext(ReadValue, m, w, tag, t)
  <2>1. CASE tag.number = 0
    BY <2>1 DEF DecodeNext
  <2>2. CASE tag.number # 0 /\ FieldsOf(m, tag.number) = {}
    BY <2>2 DEF DecodeNext
  <2>3. CASE tag.number # 0 /\ FieldsOf(m, tag.number) # {}
    <3> DEFINE g == CHOOSE g \in FieldsOf(m, tag.number) : TRUE
    <3>1. g \in Fields(m)
      BY <2>3, FieldIs
    <3>2. ReadField(ReadScalar, m, w, g, tag.wireType, t) = ReadField(ReadValue, m, w, g, tag.wireType, t)
      BY <3>1, FlatField
    <3>3. DecodeNext(ReadScalar, m, w, tag, t) = ReadField(ReadScalar, m, w, g, tag.wireType, t)
      BY <2>3 DEF DecodeNext
    <3>4. DecodeNext(ReadValue, m, w, tag, t) = ReadField(ReadValue, m, w, g, tag.wireType, t)
      BY <2>3 DEF DecodeNext
    <3> QED BY <3>2, <3>3, <3>4, Zenon
  <2> QED BY <2>1, <2>2, <2>3
<1>2. ASSUME NEW w, NEW t PROVE FlatStep(m, w, t) = MessageStep(m, w, t)
  <2>1. FlatStep(m, w, t) = IF ReadTag(t).ok THEN DecodeNext(ReadScalar, m, w, ReadTag(t).value, ReadTag(t).rest)
                            ELSE NotRead
    BY DEF FlatStep, Then
  <2>2. MessageStep(m, w, t) = IF ReadTag(t).ok THEN DecodeNext(ReadValue, m, w, ReadTag(t).value, ReadTag(t).rest)
                            ELSE NotRead
    BY DEF MessageStep, Then
  <2>3. DecodeNext(ReadScalar, m, w, ReadTag(t).value, ReadTag(t).rest) =
          DecodeNext(ReadValue, m, w, ReadTag(t).value, ReadTag(t).rest)
    BY <1>1, Zenon
  <2> QED BY <2>1, <2>2, <2>3
<1>3. \A g : IsFlatRun(m, v, s, g) <=> IsMessageRun(m, v, s, g)
  BY <1>2 DEF IsFlatRun, IsMessageRun
<1>4. FlatRun(m, v, s) = MessageRun(m, v, s)
  BY <1>3, Zenon DEF FlatRun, MessageRun
<1>5. DecodeOnto(m, v, s) =
        MessageRun(m, v, s)[CHOOSE n \in 0..Len(s) : MessageRun(m, v, s)[n].rest = << >>]
  BY Zenon DEF DecodeOnto, DecodeFields, UntilEnd, MessageRun, IsMessageRun, MessageStep
<1>6. DecodeFlat(m, v, s) =
        FlatRun(m, v, s)[CHOOSE n \in 0..Len(s) : FlatRun(m, v, s)[n].rest = << >>]
  BY Zenon DEF DecodeFlat, DecodeFields, UntilEnd, FlatRun, IsFlatRun, FlatStep
<1> QED BY <1>4, <1>5, <1>6, Zenon

LEMMA ByName == ASSUME NEW m, SoundFields(m), NEW f \in Fields(m)
  PROVE /\ \A g \in Fields(m) : g.name = f.name \/ g.tag = f.tag => g = f
        /\ (CHOOSE g \in Fields(m) : g.name = f.name) = f
        /\ FieldsOf(m, f.tag) # {} /\ (CHOOSE g \in FieldsOf(m, f.tag) : TRUE) = f
        /\ f.name \in Names(m) /\ SoundField(m, f)
<1>1. \A g \in Fields(m) : \E i \in DOMAIN m.fields : g = m.fields[i]
  BY DEF Fields, ToSet
<1>2. \A i, j \in DOMAIN m.fields :
         m.fields[i].name = m.fields[j].name \/ m.fields[i].tag = m.fields[j].tag => i = j
  BY DEF SoundFields
<1>3. \A g \in Fields(m) : g.name = f.name \/ g.tag = f.tag => g = f
  BY <1>1, <1>2
<1>4. (CHOOSE g \in Fields(m) : g.name = f.name) = f
  BY <1>3, Zenon
<1>5. f \in FieldsOf(m, f.tag) /\ \A g \in FieldsOf(m, f.tag) : g = f
  BY <1>3 DEF FieldsOf
<1>6. (CHOOSE g \in FieldsOf(m, f.tag) : TRUE) = f
  BY <1>5, Zenon
<1>7. f.name \in Names(m) /\ SoundField(m, f)
  BY DEF Names, SoundFields
<1> QED BY <1>3, <1>4, <1>5, <1>6, <1>7

LEMMA EmptyGood == ASSUME NEW m, NEW f, SoundField(m, f), f.label # "SINGULAR"
  PROVE FieldGood(m, f, << >>)
<1>1. Sequence(<< >>) /\ Len(<< >>) = 0 /\ DOMAIN << >> = {}
  BY DEF Sequence
<1>2. f.label = "REPEATED" => 0 <= m.room[f.name]
  BY RoomIs
<1> QED BY <1>1, <1>2 DEF FieldGood

LEMMA OneGood == ASSUME NEW m, NEW f, SoundField(m, f), NEW x, ItemIs(m, f, x), f.label # "REPEATED"
  PROVE FieldGood(m, f, <<x>>)
<1>1. Len(<<x>>) = 1 /\ DOMAIN <<x>> = {1} /\ <<x>>[1] = x
  OBVIOUS
<1>2. Sequence(<<x>>)
  <2>1. x \in ToSet(<<x>>)
    BY DEF ToSet
  <2> QED BY <2>1 DEF Sequence
<1> QED BY <1>1, <1>2 DEF FieldGood

LEMMA AppendIs == ASSUME NEW xs, Sequence(xs), NEW x
  PROVE /\ Sequence(Append(xs, x)) /\ Len(Append(xs, x)) = Len(xs) + 1 /\ Len(xs) \in Nat
        /\ \A i \in DOMAIN Append(xs, x) : i \in DOMAIN xs \/ Append(xs, x)[i] = x
        /\ \A i \in DOMAIN xs : Append(xs, x)[i] = xs[i]
<1> DEFINE S == ToSet(xs) \cup {x}
           ys == Append(xs, x)
<1>1. xs \in Seq(S) /\ x \in S
  <2>1. xs \in Seq(ToSet(xs))
    BY DEF Sequence
  <2>2. ToSet(xs) \subseteq S
    OBVIOUS
  <2> HIDE DEF S
  <2>3. xs \in Seq(S)
    BY <2>1, <2>2
  <2> QED BY <2>3 DEF S
<1> HIDE DEF S
<1>2. /\ ys \in Seq(S) /\ Len(ys) = Len(xs) + 1 /\ Len(xs) \in Nat
      /\ DOMAIN ys = 1..Len(ys) /\ DOMAIN xs = 1..Len(xs)
      /\ \A i \in 1..Len(xs) : ys[i] = xs[i]
      /\ ys[Len(xs) + 1] = x
  BY <1>1
<1>3. ys \in Seq(ToSet(ys))
  <2>1. \A i \in 1..Len(ys) : ys[i] \in ToSet(ys)
    BY <1>2 DEF ToSet
  <2> HIDE DEF ys
  <2>2. ys = [i \in 1..Len(ys) |-> ys[i]] /\ Len(ys) \in Nat
    BY <1>2
  <2> QED BY <2>1, <2>2, SeqDef
<1> QED BY <1>2, <1>3 DEF Sequence

LEMMA AppendGood ==
  ASSUME NEW m, NEW f, SoundField(m, f), f.label = "REPEATED", NEW xs, FieldGood(m, f, xs),
         NEW x, ItemIs(m, f, x), ~Full(m, f, xs)
  PROVE  FieldGood(m, f, Append(xs, x))
<1>1. Sequence(xs) /\ Len(xs) <= m.room[f.name] /\ \A i \in DOMAIN xs : ItemIs(m, f, xs[i])
  BY DEF FieldGood
<1>2. /\ Sequence(Append(xs, x)) /\ Len(Append(xs, x)) = Len(xs) + 1 /\ Len(xs) \in Nat
      /\ \A i \in DOMAIN Append(xs, x) : i \in DOMAIN xs \/ Append(xs, x)[i] = x
      /\ \A i \in DOMAIN xs : Append(xs, x)[i] = xs[i]
  BY <1>1, AppendIs
<1>3. m.room[f.name] \in Nat
  BY RoomIs
<1>4. Len(Append(xs, x)) <= m.room[f.name]
  BY <1>1, <1>2, <1>3 DEF Full
<1>5. \A i \in DOMAIN Append(xs, x) : ItemIs(m, f, Append(xs, x)[i])
  BY <1>1, <1>2
<1> QED BY <1>2, <1>4, <1>5 DEF FieldGood

LEMMA SetGood ==
  ASSUME NEW m, Sound(m), NEW v, Good(m, v), NEW f \in Fields(m), NEW xs, FieldGood(m, f, xs)
  PROVE  Good(m, Set(m, v, f, xs))
<1>0. SoundFields(m)
  BY DEF Sound
<1> DEFINE w == Set(m, v, f, xs)
<1>1. /\ v = [n \in Names(m) |-> v[n]]
      /\ \A g \in Fields(m) : FieldGood(m, g, v[g.name])
      /\ OneMember(m, v)
  BY GoodIs
<1>2. w = [n \in Names(m) |-> w[n]]
  BY DEF Set
<1>3. \A g \in Fields(m) : g.name = f.name => g = f
  BY <1>0, ByName
<1>4. ASSUME NEW g \in Fields(m)
      PROVE  w[g.name] = IF g = f THEN xs ELSE IF f.label = "ONEOF" /\ g.label = "ONEOF" THEN << >>
                         ELSE v[g.name]
  <2>1. g.name \in Names(m) /\ \A h \in Fields(m) : h.name = g.name => h = g
    BY <1>0, ByName
  <2> QED BY <1>3, <2>1 DEF Set
<1> HIDE DEF w
<1>5. \A g \in Fields(m) : FieldGood(m, g, w[g.name])
  <2> TAKE g \in Fields(m)
  <2>1. SoundField(m, g)
    BY <1>0, ByName
  <2> QED BY <1>1, <1>4, <2>1, EmptyGood
<1>6. OneMember(m, w)
  <2> SUFFICES ASSUME NEW g \in Fields(m), NEW h \in Fields(m), g.label = "ONEOF", h.label = "ONEOF", g # h
               PROVE  w[g.name] = << >> \/ w[h.name] = << >>
    BY DEF OneMember
  <2>1. v[g.name] = << >> \/ v[h.name] = << >>
    BY <1>1 DEF OneMember
  <2> QED BY <1>4, <2>1
<1> QED BY <1>2, <1>5, <1>6, GoodIs DEF w

LEMMA DefaultScalar == ASSUME NEW m, NEW f, SoundField(m, f), f.type # "MESSAGE"
  PROVE ItemIs(m, f, DefaultOf(f))
<1>1. CASE f.type \in Fixed
  <2>1. DefaultOf(f) = [i \in 1..Bytes[f.type] |-> 0]
    BY <1>1 DEF DefaultOf
  <2>2. 0 \in Byte
    BY ByteIs
  <2>3. DefaultOf(f) \in [1..Bytes[f.type] -> Byte]
    BY <2>1, <2>2
  <2>4. Scalar(f, DefaultOf(f))
    BY <1>1, <2>3, ScalarIs
  <2>5. ValueHasRoom(m, f, DefaultOf(f))
    BY <1>1 DEF ValueHasRoom, Fixed
  <2> QED BY <2>4, <2>5 DEF ItemIs
<1>2. CASE f.type \notin Fixed
  <2>1. DefaultOf(f) = << >>
    BY <1>2 DEF DefaultOf, Zero
  <2>2. Pattern(<< >>) /\ << >> \in Seq(Septet) /\ \A i \in Int : Digit(<< >>, i) = 0
    BY ZeroIs DEF Zero
  <2>3. Low32(<< >>) = << >>
    <3>1. Digit(<< >>, 5) % 16 = 0
      <4>1. Digit(<< >>, 5) = 0
        BY <2>2
      <4> QED BY <4>1
    <3>2. /\ Pattern(Low32(<< >>))
          /\ \A i \in Int : 1 <= i /\ i < 5 => Digit(Low32(<< >>), i) = 0
          /\ Digit(Low32(<< >>), 5) = 0
          /\ \A i \in Int : i > 5 => Digit(Low32(<< >>), i) = 0
      BY <2>2, <3>1, Low32Is
    <3>3. \A i \in Places : Digit(Low32(<< >>), i) = Digit(<< >>, i)
      BY <2>2, <3>2, PlacesIs
    <3> QED BY <2>2, <3>2, <3>3, SamePattern
  <2>4. Int32(<< >>) = << >>
    BY <2>2, <2>3 DEF Int32
  <2>5. Fits(<< >>, Bytes[f.type])
    <3>1. AsNat(<< >>) = 0
      BY <2>2 DEF AsNat
    <3> QED BY <2>3, <3>1 DEF Fits
  <2>6. Scalar(f, << >>)
    <3>1. << >> \in Seq(Byte) /\ << >> \in Seq(Byte \ {0}) /\ << >> = Zero
      BY DEF Zero
    <3>2. CASE f.type \in Unsigned
      BY <2>2, <2>5, <3>2, ScalarIs
    <3>3. CASE f.type \in Signed \cup ZigZags
      BY <2>2, <2>4, <3>3, ScalarIs
    <3>4. CASE f.type = "BOOL" \/ f.type = "STRING" \/ f.type = "BYTES"
      BY <3>1, <3>4, ScalarIs
    <3> QED BY <1>2, <3>2, <3>3, <3>4, ScalarTypesAre
  <2>7. ValueHasRoom(m, f, << >>)
    BY RoomIs DEF ValueHasRoom
  <2> QED BY <2>1, <2>6, <2>7 DEF ItemIs
<1> QED BY <1>1, <1>2

LEMMA DefaultIs == ASSUME NEW m, SoundFields(m)
  PROVE /\ Default(m) = [n \in Names(m) |-> Default(m)[n]]
        /\ \A f \in Fields(m) : Default(m)[f.name] = IF f.label = "SINGULAR" THEN <<DefaultOf(f)>> ELSE << >>
<1> DEFINE d == Default(m)
<1>1. d = [n \in Names(m) |-> d[n]]
  BY DEF Default
<1>2. ASSUME NEW f \in Fields(m)
      PROVE d[f.name] = IF f.label = "SINGULAR" THEN <<DefaultOf(f)>> ELSE << >>
  <2>1. (CHOOSE g \in Fields(m) : g.name = f.name) = f /\ f.name \in Names(m)
    BY ByName
  <2> QED BY <2>1 DEF Default
<1> QED BY <1>1, <1>2

LEMMA DefaultGood == ASSUME NEW m, Sound(m) PROVE Good(m, Default(m))
<1>0. SoundFields(m)
  BY DEF Sound
<1> DEFINE d == Default(m)
<1>1. /\ d = [n \in Names(m) |-> d[n]]
      /\ \A f \in Fields(m) : d[f.name] = IF f.label = "SINGULAR" THEN <<DefaultOf(f)>> ELSE << >>
  BY <1>0, DefaultIs
<1> HIDE DEF d
<1>2. ASSUME NEW f \in Fields(m) PROVE FieldGood(m, f, d[f.name])
  <2>1. SoundField(m, f)
    BY <1>0, ByName
  <2>2. CASE f.label = "SINGULAR"
    <3>1. f.type # "MESSAGE"
      BY <2>1, <2>2 DEF SoundField
    <3> QED BY <1>1, <2>1, <2>2, <3>1, DefaultScalar, OneGood
  <2>3. CASE f.label # "SINGULAR"
    BY <1>1, <2>1, <2>3, EmptyGood
  <2> QED BY <2>2, <2>3
<1>3. OneMember(m, d)
  BY <1>1 DEF OneMember
<1> QED BY <1>1, <1>2, <1>3, GoodIs DEF d

-----------------------------------------------------------------------------
(* The loops keep what has been read so far in good order.                  *)

PackedGood(m, f, xs) ==
  Sequence(xs) /\ Len(xs) <= m.room[f.name] /\ \A i \in DOMAIN xs : ItemIs(m, f, xs[i])
Kept(k, m, f, w) == IF k = "message" THEN Good(m, w) ELSE PackedGood(m, f, w)
Keeps(k, m, f) ==
  \A w : \A s \in Seq(Byte) :
    s # << >> /\ Kept(k, m, f, w) /\ OneStep(k, m, f, w, s).ok => Kept(k, m, f, OneStep(k, m, f, w, s).value)

LEMMA StepsKeep ==
  ASSUME NEW k, NEW m, NEW f, Shrinks(k, m, f), Keeps(k, m, f),
         NEW w, Kept(k, m, f, w), NEW s \in Seq(Byte)
  PROVE  LET r == Steps(k, m, f, w, s)
         IN  r = NotRead \/ (r = Read(r.value, << >>) /\ r.ok = TRUE /\ Kept(k, m, f, r.value))
<1> DEFINE Fine(v, t) == LET r == Steps(k, m, f, v, t)
                         IN  r = NotRead \/ (r = Read(r.value, << >>) /\ r.ok = TRUE /\ Kept(k, m, f, r.value))
           H == {n \in Nat : \A v : \A t \in Seq(Byte) : Len(t) <= n /\ Kept(k, m, f, v) => Fine(v, t)}
<1>1. ASSUME NEW v, Kept(k, m, f, v) PROVE Fine(v, << >>)
  <2>1. Steps(k, m, f, v, << >>) = Read(v, << >>)
    BY StepsOfNothing
  <2>2. PICK r : r = Steps(k, m, f, v, << >>)
    OBVIOUS
  <2>3. r = Read(v, << >>) /\ r.ok = TRUE /\ r.value = v
    BY <2>1, <2>2, EmptyIs, Zenon
  <2> QED BY <1>1, <2>2, <2>3
<1> HIDE DEF Fine
<1>2. 0 \in H
  <2>1. \A t \in Seq(Byte) : Len(t) <= 0 => t = << >>
    OBVIOUS
  <2> QED BY <1>1, <2>1
<1>3. ASSUME NEW n \in Nat, n \in H PROVE n + 1 \in H
  <2> SUFFICES ASSUME NEW v, NEW t \in Seq(Byte), Len(t) <= n + 1, Kept(k, m, f, v)
               PROVE  Fine(v, t)
    OBVIOUS
  <2>1. CASE t = << >>
    BY <1>1, <2>1
  <2>2. CASE t # << >>
    <3> DEFINE r == OneStep(k, m, f, v, t)
    <3>1. Shorter(r, t)
      BY <2>2 DEF Shrinks
    <3>2. /\ r.ok => Steps(k, m, f, v, t) = Steps(k, m, f, r.value, r.rest)
          /\ r = NotRead => Steps(k, m, f, v, t) = NotRead
      BY <2>2, StepsAre
    <3>3. r.ok => Kept(k, m, f, r.value)
      BY <2>2 DEF Keeps
    <3> HIDE DEF r
    <3>4. CASE r = NotRead
      BY <3>2, <3>4 DEF Fine
    <3>5. CASE r # NotRead
      <4>1. r.ok = TRUE /\ r.rest \in Seq(Byte) /\ Len(r.rest) < Len(t)
        BY <3>1, <3>5 DEF Shorter
      <4>2. Len(r.rest) <= n
        BY <4>1
      <4>3. Fine(r.value, r.rest)
        BY <1>3, <3>3, <4>1, <4>2
      <4> QED BY <3>2, <4>1, <4>3 DEF Fine
    <3> QED BY <3>4, <3>5
  <2> QED BY <2>1, <2>2
<1> HIDE DEF H
<1>4. Len(s) \in H
  BY <1>2, <1>3, Induction
<1> QED BY <1>4 DEF H, Fine

LEMMA PackedKeeps == ASSUME NEW m, NEW f, SoundField(m, f), f.type # "MESSAGE", f.label = "REPEATED"
  PROVE Keeps("packed", m, f)
<1> SUFFICES ASSUME NEW w, NEW s \in Seq(Byte), s # << >>, PackedGood(m, f, w),
                    OneStep("packed", m, f, w, s).ok
             PROVE  PackedGood(m, f, OneStep("packed", m, f, w, s).value)
  BY DEF Keeps, Kept
<1> DEFINE a == ReadScalar(m, f, Zero, WT_PACKED, s)
           t == OneStep("packed", m, f, w, s)
<1>1. t = IF Full(m, f, w) THEN NotRead ELSE IF a.ok THEN Read(Append(w, a.value), a.rest) ELSE NotRead
  BY DEF OneStep, Then
<1>2. a.ok => ItemIs(m, f, a.value)
  BY ReadScalarTyped DEF ItemIs
<1> HIDE DEF a
<1>3. ~Full(m, f, w) /\ a.ok /\ t = Read(Append(w, a.value), a.rest)
  BY <1>1, NotReadParts
<1> HIDE DEF t
<1>4. t.value = Append(w, a.value)
  BY <1>3, ReadParts
<1>5. FieldGood(m, f, w)
  BY DEF PackedGood, FieldGood
<1>6. FieldGood(m, f, Append(w, a.value))
  BY <1>2, <1>3, <1>5, AppendGood
<1> QED BY <1>4, <1>6 DEF FieldGood, PackedGood, t

LEMMA ReadPackedTyped ==
  ASSUME NEW m, NEW f, SoundField(m, f), f.type # "MESSAGE", f.label = "REPEATED",
         NEW xs, FieldGood(m, f, xs), NEW s \in Seq(Byte), ReadPacked(m, f, xs, s).ok
  PROVE  FieldGood(m, f, ReadPacked(m, f, xs, s).value)
<1> DEFINE r == ReadPacked(m, f, xs, s)
<1>1. r = Steps("packed", m, f, xs, s)
  BY PackedIsSteps
<1>2. PackedGood(m, f, xs)
  BY DEF FieldGood, PackedGood
<1>3. Kept("packed", m, f, xs)
  BY <1>2 DEF Kept
<1>4. r = NotRead \/ Kept("packed", m, f, r.value)
  BY <1>1, <1>3, PackedShrinks, PackedKeeps, StepsKeep
<1> HIDE DEF r
<1>5. r.ok => PackedGood(m, f, r.value)
  BY <1>4, NotReadParts DEF Kept
<1> QED BY <1>5 DEF r, PackedGood, FieldGood

\* Each value of a field is read as one, if a message is read over a good one.
ItemsTyped(m) ==
  \A f \in Fields(m) : \A old, wt : \A s \in Seq(Byte) :
    (f.type = "MESSAGE" => Good(f.of, old)) /\ ReadValue(m, f, old, wt, s).ok
      => ItemIs(m, f, ReadValue(m, f, old, wt, s).value)

LEMMA ReadFieldTyped ==
  ASSUME NEW m, Sound(m), ItemsTyped(m), NEW v, Good(m, v), NEW f \in Fields(m), NEW wt,
         NEW s \in Seq(Byte), ReadField(ReadValue, m, v, f, wt, s).ok
  PROVE  Good(m, ReadField(ReadValue, m, v, f, wt, s).value)
<1> DEFINE xs == v[f.name]
           r == IF f.label = "REPEATED" THEN ReadArray(ReadValue, m, f, xs, wt, s)
                                        ELSE ReadOne(ReadValue, m, f, xs, wt, s)
           t == ReadField(ReadValue, m, v, f, wt, s)
<1>0. SoundField(m, f) /\ FieldGood(m, f, xs)
  BY ByName, GoodIs DEF Sound
<1>1. t = IF r.ok THEN Read(Set(m, v, f, r.value), r.rest) ELSE NotRead
  BY Zenon DEF ReadField, Then
<1>2. f.type = "MESSAGE" => Sound(f.of) /\ IsFlat(f.of)
  BY FlatSound DEF Sound
<1>3. ASSUME r.ok PROVE FieldGood(m, f, r.value)
  <2>1. CASE f.label # "REPEATED"
    <3> DEFINE old == IF f.type # "MESSAGE" THEN Zero
                      ELSE IF xs = << >> THEN Default(f.of) ELSE xs[1]
               a == ReadValue(m, f, old, wt, s)
    <3>1. r = IF a.ok THEN Read(<<a.value>>, a.rest) ELSE NotRead
      BY <2>1, Zenon DEF ReadOne, Held, Then
    <3>2. f.type = "MESSAGE" => Good(f.of, old)
      <4> SUFFICES ASSUME f.type = "MESSAGE" PROVE Good(f.of, old)
        OBVIOUS
      <4>1. CASE xs = << >>
        BY <1>2, <4>1, DefaultGood
      <4>2. CASE xs # << >>
        <5>1. 1 \in DOMAIN xs
          BY <1>0, <4>2 DEF FieldGood, Sequence
        <5>2. ItemIs(m, f, xs[1])
          BY <1>0, <5>1 DEF FieldGood
        <5> QED BY <1>2, <4>2, <5>2, FlatGood DEF ItemIs, Good
      <4> QED BY <4>1, <4>2
    <3>3. a.ok => ItemIs(m, f, a.value)
      BY <3>2 DEF ItemsTyped
    <3> HIDE DEF a, r, xs
    <3>4. a.ok /\ r.value = <<a.value>>
      BY <1>3, <3>1, ReadParts, NotReadParts
    <3> QED BY <1>0, <2>1, <3>3, <3>4, OneGood
  <2>2. CASE f.label = "REPEATED" /\ ~(wt = WT_STRING /\ Packable(f))
    <3> DEFINE fresh == IF f.type = "MESSAGE" THEN Default(f.of) ELSE Zero
               a == ReadValue(m, f, fresh, wt, s)
    <3>1. r = IF a.ok THEN (IF ~Full(m, f, xs) THEN Read(Append(xs, a.value), a.rest) ELSE NotRead) ELSE NotRead
      BY <2>2, Zenon DEF ReadArray, Then, ReadIf
    <3>2. f.type = "MESSAGE" => Good(f.of, fresh)
      BY <1>2, DefaultGood
    <3>3. a.ok => ItemIs(m, f, a.value)
      BY <3>2 DEF ItemsTyped
    <3> HIDE DEF a, r, xs
    <3>4. a.ok /\ ~Full(m, f, xs) /\ r.value = Append(xs, a.value)
      BY <1>3, <3>1, ReadParts, NotReadParts
    <3> QED BY <1>0, <2>2, <3>3, <3>4, AppendGood
  <2>3. CASE f.label = "REPEATED" /\ wt = WT_STRING /\ Packable(f)
    <3> DEFINE a == ReadSized(s)
               d == ReadPacked(m, f, xs, a.value)
    <3>1. r = IF a.ok THEN (IF d.ok THEN Read(d.value, a.rest) ELSE NotRead) ELSE NotRead
      BY <2>3, Zenon DEF ReadArray, Then
    <3>2. a.ok => a.value \in Seq(Byte)
      BY ReadSizedIs
    <3>3. f.type # "MESSAGE"
      BY <2>3 DEF Packable, Delimited
    <3>4. a.ok /\ d.ok => FieldGood(m, f, d.value)
      BY <1>0, <2>3, <3>2, <3>3, ReadPackedTyped
    <3> HIDE DEF a, d, r
    <3>5. a.ok /\ d.ok /\ r.value = d.value
      BY <1>3, <3>1, ReadParts, NotReadParts
    <3> QED BY <3>4, <3>5
  <2> QED BY <2>1, <2>2, <2>3
<1> HIDE DEF r
<1>31. t.ok
  OBVIOUS
<1> HIDE DEF t
<1>4. r.ok /\ t.value = Set(m, v, f, r.value)
  BY <1>1, <1>31, ReadParts, NotReadParts
<1> QED BY <1>3, <1>4, SetGood DEF t

LEMMA MessageKeeps == ASSUME NEW m, Sound(m), ItemsTyped(m), NEW f PROVE Keeps("message", m, f)
<1> SUFFICES ASSUME NEW w, NEW s \in Seq(Byte), s # << >>, Good(m, w), OneStep("message", m, f, w, s).ok
             PROVE  Good(m, OneStep("message", m, f, w, s).value)
  BY DEF Keeps, Kept
<1> DEFINE a == ReadTag(s)
           t == OneStep("message", m, f, w, s)
           d == DecodeNext(ReadValue, m, w, a.value, a.rest)
<1>1. t = IF a.ok THEN d ELSE NotRead
  BY Zenon DEF OneStep, Then
<1>2. Shorter(a, s)
  BY ReadTagIs
<1>3. a.ok /\ t = d /\ d.ok
  <2> HIDE DEF a, d
  <2>1. t.ok
    OBVIOUS
  <2> HIDE DEF t
  <2> QED BY <1>1, <2>1, NotReadParts
<1>4. a.rest \in Seq(Byte)
  BY <1>2, <1>3, NotReadParts DEF Shorter
<1>5. Good(m, d.value)
  <2> DEFINE q == a.rest
             number == a.value.number
             wt == a.value.wireType
  <2>1. CASE number = 0
    <3>1. d = NotRead
      BY <2>1 DEF DecodeNext
    <3> QED BY <1>3, <3>1, NotReadParts
  <2>2. CASE number # 0 /\ FieldsOf(m, number) = {}
    <3> DEFINE b == Skip(q, wt)
    <3>1. d = Then(Skip(q, wt), LAMBDA y, rest : Read(w, rest))
      BY <2>2 DEF DecodeNext
    <3>2. d = IF b.ok THEN Read(w, b.rest) ELSE NotRead
      BY <3>1, Zenon DEF Then
    <3>3. d.ok
      BY <1>3
    <3> HIDE DEF b, d
    <3>4. d.value = w
      BY <3>2, <3>3, ReadParts, NotReadParts
    <3> QED BY <3>4 DEF d
  <2>3. CASE number # 0 /\ FieldsOf(m, number) # {}
    <3> DEFINE g == CHOOSE g \in FieldsOf(m, number) : TRUE
    <3>1. d = ReadField(ReadValue, m, w, g, wt, q)
      BY <2>3 DEF DecodeNext
    <3>2. g \in Fields(m)
      BY <2>3, FieldIs
    <3>3. ReadField(ReadValue, m, w, g, wt, q).ok
      BY <1>3, <3>1
    <3>4. Good(m, ReadField(ReadValue, m, w, g, wt, q).value)
      BY <1>4, <3>2, <3>3, ReadFieldTyped
    <3> QED BY <3>1, <3>4
  <2> QED BY <2>1, <2>2, <2>3
<1> QED BY <1>3, <1>5

\* Whatever is decoded onto a value that is in order leaves one in order.
DecodesTyped(m) ==
  \A v : \A s \in Seq(Byte) :
    Good(m, v) => LET r == DecodeOnto(m, v, s)
                  IN  r = NotRead \/ (r = Read(r.value, << >>) /\ r.ok = TRUE /\ Good(m, r.value))

LEMMA MessageTyped == ASSUME NEW m, Sound(m), ItemsTyped(m) PROVE DecodesTyped(m)
<1> SUFFICES ASSUME NEW v, NEW s \in Seq(Byte), Good(m, v)
             PROVE  LET r == DecodeOnto(m, v, s)
                    IN  r = NotRead \/ (r = Read(r.value, << >>) /\ r.ok = TRUE /\ Good(m, r.value))
  BY DEF DecodesTyped
<1>1. Shrinks("message", m, m) /\ Keeps("message", m, m)
  BY MessageShrinks, MessageKeeps DEF Sound
<1>2. Kept("message", m, m, v)
  BY DEF Kept
<1> DEFINE r == Steps("message", m, m, v, s)
<1>3. r = NotRead \/ (r = Read(r.value, << >>) /\ r.ok = TRUE /\ Kept("message", m, m, r.value))
  BY <1>1, <1>2, StepsKeep
<1>4. DecodeOnto(m, v, s) = r
  BY DecodeIsSteps
<1>5. \A x : Kept("message", m, m, x) => Good(m, x)
  BY DEF Kept
<1> HIDE DEF r
<1> QED BY <1>3, <1>4, <1>5

LEMMA FlatItemsTyped == ASSUME NEW m, SoundFields(m), IsFlat(m) PROVE ItemsTyped(m)
<1> SUFFICES ASSUME NEW f \in Fields(m), NEW old, NEW wt, NEW s \in Seq(Byte),
                    ReadValue(m, f, old, wt, s).ok
             PROVE  ItemIs(m, f, ReadValue(m, f, old, wt, s).value)
  BY DEF ItemsTyped
<1>1. SoundField(m, f) /\ f.type # "MESSAGE"
  BY ByName DEF IsFlat
<1>2. ReadValue(m, f, old, wt, s) = ReadScalar(m, f, old, wt, s)
  BY <1>1 DEF ReadValue
<1> QED BY <1>1, <1>2, ReadScalarTyped DEF ItemIs

LEMMA AllItemsTyped == ASSUME NEW m, Sound(m) PROVE ItemsTyped(m)
<1> SUFFICES ASSUME NEW f \in Fields(m), NEW old, NEW wt, NEW s \in Seq(Byte),
                    f.type = "MESSAGE" => Good(f.of, old), ReadValue(m, f, old, wt, s).ok
             PROVE  ItemIs(m, f, ReadValue(m, f, old, wt, s).value)
  BY DEF ItemsTyped
<1>0. SoundField(m, f)
  BY ByName DEF Sound
<1>1. CASE f.type # "MESSAGE"
  <2>1. ReadValue(m, f, old, wt, s) = ReadScalar(m, f, old, wt, s)
    BY <1>1 DEF ReadValue
  <2> QED BY <1>0, <1>1, <2>1, ReadScalarTyped DEF ItemIs
<1>2. CASE f.type = "MESSAGE"
  <2> DEFINE sub == f.of
             a == ReadSized(s)
             d == DecodeFlat(sub, old, a.value)
             t == ReadValue(m, f, old, wt, s)
  <2>1. SoundFields(sub) /\ IsFlat(sub) /\ Sound(sub)
    BY <1>2, FlatSound DEF Sound
  <2>2. DecodesTyped(sub)
    BY <2>1, FlatItemsTyped, MessageTyped
  <2>3. wt = WT_STRING
    BY <1>2, NotReadParts DEF ReadValue
  <2>4. t = ReadMessage(f, old, s)
    BY <1>2, <2>3 DEF ReadValue
  <2>5. t = IF a.ok THEN (IF d.ok THEN Read(d.value, a.rest) ELSE NotRead) ELSE NotRead
    BY <2>4, Zenon DEF ReadMessage, Then
  <2>6. a.ok => a.value \in Seq(Byte)
    BY ReadSizedIs
  <2>7. d = DecodeOnto(sub, old, a.value)
    BY <2>1, FlatDecode
  <2>8. t.ok
    OBVIOUS
  <2> HIDE DEF a, d, t
  <2>9. a.ok /\ d.ok /\ t.value = d.value
    BY <2>5, <2>8, ReadParts, NotReadParts
  <2>10. Good(sub, d.value)
    <3>1. LET r == DecodeOnto(sub, old, a.value)
          IN  r = NotRead \/ (r = Read(r.value, << >>) /\ r.ok = TRUE /\ Good(sub, r.value))
      BY <1>2, <2>2, <2>6, <2>9 DEF DecodesTyped
    <3> QED BY <2>7, <2>9, <3>1, NotReadParts
  <2> QED BY <1>2, <2>1, <2>9, <2>10, FlatGood DEF t, ItemIs, Good
<1> QED BY <1>1, <1>2

\* What decoding makes of any bytes at all is a value of the message that its
\* structure has room for, with no union of two members, or nothing.
THEOREM DecodedIsTyped ==
  ASSUME NEW m, Sound(m), NEW s \in Seq(Byte), Decode(m, s).ok
  PROVE  IsValue(m, Decode(m, s).value) /\ HasRoom(m, Decode(m, s).value)
<1>1. DecodesTyped(m) /\ Good(m, Default(m))
  BY AllItemsTyped, MessageTyped, DefaultGood
<1>2. LET r == DecodeOnto(m, Default(m), s)
      IN  r = NotRead \/ (r = Read(r.value, << >>) /\ r.ok = TRUE /\ Good(m, r.value))
  BY <1>1 DEF DecodesTyped
<1>3. Decode(m, s) = DecodeOnto(m, Default(m), s)
  BY DEF Decode
<1> QED BY <1>2, <1>3, NotReadParts DEF Good

-----------------------------------------------------------------------------
(* The lengths of varints.                                                  *)

LEMMA VarintLength == ASSUME NEW n \in Nat, n < (128 * 128 * 128)
  PROVE /\ n < 128 => Len(Varint(Digits(n))) = 1
        /\ 128 <= n /\ n < (128 * 128) => Len(Varint(Digits(n))) = 2
        /\ (128 * 128) <= n => Len(Varint(Digits(n))) = 3
<1> DEFINE d == Digits(n)
<1>1. /\ Pattern(d)
      /\ Digit(d, 1) = n % 128 /\ Digit(d, 2) = (n \div 128) % 128
      /\ Digit(d, 3) = (n \div (128 * 128)) % 128 /\ Digit(d, 4) = (n \div (128 * 128 * 128)) % 128
  <2>1. Pattern(Digits(n)) /\ Digit(Digits(n), 1) = n % 128 /\ Digit(Digits(n), 2) = (n \div 128) % 128
    BY DigitsIs
  <2>2. Digit(Digits(n), 3) = (n \div (128 * 128)) % 128
    BY DigitsIs
  <2>3. Digit(Digits(n), 4) = (n \div (128 * 128 * 128)) % 128
    BY DigitsIs
  <2> HIDE DEF d
  <2> QED BY <2>1, <2>2, <2>3 DEF d
<1>2. /\ Len(d) \in Nat
      /\ n < (128 * 128 * 128) => Len(d) <= 3
      /\ n < (128 * 128) => Len(d) <= 2
      /\ n < 128 => Len(d) <= 1
  BY LenDigits
<1>3. /\ \A i \in Int : i > Len(d) => Digit(d, i) = 0
      /\ d = Zero => Len(Varint(d)) = 1
      /\ d # Zero => Len(Varint(d)) = Len(d)
      /\ d = Zero <=> Len(d) = 0
  <2>1. (\A i \in Int : i > Len(d) => Digit(d, i) = 0) /\ d \in Seq(Septet)
    BY <1>1, DigitRange
  <2>2. (d = Zero => Len(Varint(d)) = 1) /\ (d # Zero => Len(Varint(d)) = Len(d))
    BY <1>1, VarintIs
  <2> HIDE DEF d
  <2>3. d = Zero <=> Len(d) = 0
    BY <2>1 DEF Zero
  <2> QED BY <2>1, <2>2, <2>3
<1> HIDE DEF d
<1>4. PICK k \in Nat : k = Len(d)
  BY <1>2
<1>5. PICK l : l = Len(Varint(d))
  OBVIOUS
<1>6. 128 <= n /\ n < (128 * 128) => (n \div 128) % 128 # 0
  OBVIOUS
<1>7. (128 * 128) <= n => (n \div (128 * 128)) % 128 # 0
  OBVIOUS
<1>8. 128 <= n /\ n < (128 * 128) => k >= 2
  BY <1>1, <1>3, <1>4, <1>6
<1>9. (128 * 128) <= n => k >= 3
  BY <1>1, <1>3, <1>4, <1>7
<1>10. (k = 0 => l = 1) /\ (k # 0 => l = k)
  BY <1>3, <1>4, <1>5
<1>11. (n < 128 => l = 1) /\ (128 <= n /\ n < (128 * 128) => l = 2) /\ ((128 * 128) <= n => l = 3)
  BY <1>2, <1>4, <1>8, <1>9, <1>10
<1> QED BY <1>5, <1>11 DEF d

LEMMA SizedBytes == ASSUME NEW x \in Seq(Byte)
  PROVE /\ Sized(x) \in Seq(Byte) /\ Len(Sized(x)) = Len(Varint(Digits(Len(x)))) + Len(x)
        /\ Len(Sized(x)) \in Nat /\ 1 <= Len(Sized(x)) /\ Len(x) <= Len(Sized(x)) /\ Len(x) \in Nat
<1>1. Len(x) \in Nat
  OBVIOUS
<1>2. Pattern(Digits(Len(x)))
  BY <1>1, DigitsIs
<1> DEFINE b == Varint(Digits(Len(x)))
<1>3. b \in Seq(Byte) /\ Len(b) \in Nat /\ 1 <= Len(b)
  BY <1>2, VarintIs
<1>4. Sized(x) = b \o x
  BY DEF Sized
<1> HIDE DEF b
<1>5. b \o x \in Seq(Byte) /\ Len(b \o x) = Len(b) + Len(x)
  BY <1>3
<1>6. Len(Sized(x)) = Len(b) + Len(x)
  BY <1>4, <1>5
<1> QED BY <1>1, <1>3, <1>4, <1>5, <1>6 DEF b

\* The size of a sized array grows with the array.
LEMMA SizedLengthGrows == ASSUME NEW n \in Nat, NEW k \in Nat, k <= n, n < (128 * 128 * 128)
  PROVE SizedLength(k) <= SizedLength(n) /\ SizedLength(n) \in Nat /\ n <= SizedLength(n) /\ SizedLength(k) \in Nat
<1> DEFINE a == Len(Varint(Digits(k)))
           b == Len(Varint(Digits(n)))
<1>1. /\ k < 128 => a = 1
      /\ 128 <= k /\ k < (128 * 128) => a = 2
      /\ (128 * 128) <= k => a = 3
  BY VarintLength
<1>2. /\ n < 128 => b = 1
      /\ 128 <= n /\ n < (128 * 128) => b = 2
      /\ (128 * 128) <= n => b = 3
  BY VarintLength
<1>3. SizedLength(k) = a + k /\ SizedLength(n) = b + n
  BY DEF SizedLength
<1> HIDE DEF a, b
<1>4. a \in Nat /\ b \in Nat /\ a <= b
  BY <1>1, <1>2
<1> QED BY <1>3, <1>4

LEMMA TagLength == ASSUME NEW n \in Nat, n < (100 * 1000), NEW wt \in Nat, wt < 8
  PROVE Len(Tag(n, wt)) = Len(Tag(n, 0))
<1> DEFINE a == Len(Varint(Digits(8 * n + wt)))
           b == Len(Varint(Digits(8 * n + 0)))
<1>0. PICK u \in Nat : u = 8 * n + wt
  OBVIOUS
<1>01. PICK z \in Nat : z = 8 * n + 0
  OBVIOUS
<1>1. u < (128 * 128 * 128) => /\ u < 128 => a = 1
                               /\ 128 <= u /\ u < (128 * 128) => a = 2
                               /\ (128 * 128) <= u => a = 3
  BY <1>0, VarintLength
<1>2. z < (128 * 128 * 128) => /\ z < 128 => b = 1
                               /\ 128 <= z /\ z < (128 * 128) => b = 2
                               /\ (128 * 128) <= z => b = 3
  BY <1>01, VarintLength
<1> HIDE DEF a, b
<1>3. /\ u < (128 * 128 * 128) /\ z < (128 * 128 * 128)
      /\ u < 128 <=> z < 128
      /\ u < (128 * 128) <=> z < (128 * 128)
  BY <1>0, <1>01
<1>4. a = b
  <2>1. CASE u < 128
    BY <1>1, <1>2, <1>3, <2>1
  <2>2. CASE 128 <= u /\ u < (128 * 128)
    <3>1. a = 2
      BY <1>1, <1>3, <2>2
    <3>2. 128 <= z /\ z < (128 * 128)
      BY <1>3, <2>2
    <3> QED BY <1>2, <1>3, <3>1, <3>2
  <2>3. CASE (128 * 128) <= u
    <3>1. a = 3
      BY <1>1, <1>3, <2>3
    <3>2. (128 * 128) <= z
      BY <1>3, <2>3
    <3> QED BY <1>2, <1>3, <3>1, <3>2
  <2> QED BY <2>1, <2>2, <2>3
<1> QED BY <1>4 DEF a, b, Tag

-----------------------------------------------------------------------------
(* Sequences of pieces, and sums.                                           *)

Joined(ss, P) ==
  /\ P \in [0..Len(ss) -> Seq(Byte)]
  /\ P[0] = << >>
  /\ \A i \in 1..Len(ss) : P[i] = P[i - 1] \o ss[i]

LEMMA PartsAre == ASSUME NEW S, NEW ss \in Seq(S) PROVE Len(ss) \in Nat /\ \A i \in 1..Len(ss) : ss[i] \in S
  OBVIOUS

LEMMA JoinedParts == ASSUME NEW ss \in Seq(Seq(Byte)), NEW P, Joined(ss, P), NEW N \in Nat, N = Len(ss)
  PROVE /\ P \in [0..N -> Seq(Byte)] /\ P[0] = << >>
        /\ \A i \in 1..N : P[i] = P[i - 1] \o ss[i] /\ ss[i] \in Seq(Byte) /\ P[i - 1] \in Seq(Byte)
        /\ P[N] \in Seq(Byte)
<1>1. P \in [0..N -> Seq(Byte)] /\ P[0] = << >> /\ \A i \in 1..N : P[i] = P[i - 1] \o ss[i]
  BY Zenon DEF Joined
<1>2. \A i \in 1..N : ss[i] \in Seq(Byte)
  BY PartsAre, Zenon
<1>3. (\A i \in 1..N : i - 1 \in 0..N) /\ N \in 0..N
  OBVIOUS
<1>4. \A i \in 0..N : P[i] \in Seq(Byte)
  BY <1>1
<1> QED BY <1>1, <1>2, <1>3, <1>4, Zenon

LEMMA JoinedExists == ASSUME NEW ss \in Seq(Seq(Byte)) PROVE \E P : Joined(ss, P)
<1>4. PICK N \in Nat : N = Len(ss)
  BY PartsAre
<1> DEFINE next == [q \in Nat \X Seq(Byte) |-> q[2] \o (IF q[1] \in 1..N THEN ss[q[1]] ELSE << >>)]
<1>1. << >> \in Seq(Byte) /\ \A i \in 1..N : ss[i] \in Seq(Byte)
  <2>1. \A i \in 1..N : ss[i] \in Seq(Byte)
    BY <1>4, PartsAre, Zenon
  <2> QED BY <2>1
<1>2. next \in [Nat \X Seq(Byte) -> Seq(Byte)]
  <2> SUFFICES ASSUME NEW q \in Nat \X Seq(Byte)
               PROVE  q[2] \o (IF q[1] \in 1..N THEN ss[q[1]] ELSE << >>) \in Seq(Byte)
    OBVIOUS
  <2>1. q[2] \in Seq(Byte) /\ q[1] \in Nat
    OBVIOUS
  <2>2. (IF q[1] \in 1..N THEN ss[q[1]] ELSE << >>) \in Seq(Byte)
    BY <1>1
  <2> QED BY <2>1, <2>2
<1>3. \A i \in 1..N : \A s \in Seq(Byte) : next[<<i, s>>] = s \o ss[i]
  <2> TAKE i \in 1..N
  <2> TAKE s \in Seq(Byte)
  <2>1. i \in Nat /\ <<i, s>> \in Nat \X Seq(Byte) /\ <<i, s>>[1] = i /\ <<i, s>>[2] = s
    OBVIOUS
  <2> QED BY <2>1
<1> HIDE DEF next
<1>5. PICK P \in [0..N -> Seq(Byte)] :
        P[0] = << >> /\ \A i \in 1..N : P[i] = next[<<i, P[i - 1]>>]
  <2>1. << >> \in Seq(Byte)
    OBVIOUS
  <2>2. \E P : Recurs(P, Seq(Byte), << >>, next, N)
    BY <2>1, <1>2, Recursion, Zenon
  <2> QED BY <2>2, Zenon DEF Recurs
<1>6. \A i \in 1..N : P[i - 1] \in Seq(Byte)
  <2>1. \A i \in 1..N : i - 1 \in 0..N
    OBVIOUS
  <2> QED BY <2>1
<1>7. \A i \in 1..N : P[i] = P[i - 1] \o ss[i]
  BY <1>3, <1>5, <1>6, Zenon
<1> QED BY <1>4, <1>5, <1>7, Zenon DEF Joined

IsFlatten(ss, g) == g = [i \in 1..Len(ss) |-> IF i = 1 THEN ss[i] ELSE g[i - 1] \o ss[i]]

LEMMA FlattenIs == ASSUME NEW ss \in Seq(Seq(Byte)), NEW P, Joined(ss, P)
  PROVE FlattenSeq(ss) = P[Len(ss)] /\ FlattenSeq(ss) \in Seq(Byte)
<1>01. PICK N \in Nat : N = Len(ss)
  BY PartsAre
<1>0. /\ P \in [0..N -> Seq(Byte)] /\ P[0] = << >> /\ P[N] \in Seq(Byte)
      /\ \A i \in 1..N : P[i] = P[i - 1] \o ss[i] /\ ss[i] \in Seq(Byte) /\ P[i - 1] \in Seq(Byte)
  BY <1>01, JoinedParts
<1>1. CASE N = 0
  <2>1. ss = << >>
    <3>1. Len(ss) = 0 /\ ss \in Seq(Seq(Byte))
      BY <1>01, <1>1
    <3> QED BY <3>1, EmptySeq, Zenon
  <2>2. FlattenSeq(ss) = ss
    BY <2>1 DEF FlattenSeq
  <2> QED BY <1>0, <1>01, <1>1, <2>1, <2>2
<1>2. CASE N # 0
  <2> DEFINE g == CHOOSE g : IsFlatten(ss, g)
             h == [i \in 1..N |-> P[i]]
  <2>1. FlattenSeq(ss) = g[N]
    BY <1>01, <1>2, Zenon DEF FlattenSeq, IsFlatten
  <2>2. IsFlatten(ss, h)
    <3>0. ASSUME NEW i \in 1..N PROVE h[i] = IF i = 1 THEN ss[i] ELSE h[i - 1] \o ss[i]
      <4>1. h[i] = P[i] /\ P[i] = P[i - 1] \o ss[i] /\ ss[i] \in Seq(Byte)
        BY <1>0
      <4>2. CASE i = 1
        <5>1. P[i - 1] = << >>
          BY <1>0, <4>2
        <5>2. << >> \o ss[i] = ss[i]
          BY <4>1
        <5> QED BY <4>1, <4>2, <5>1, <5>2
      <4>3. CASE i # 1
        <5>1. i - 1 \in 1..N
          BY <4>3
        <5>2. h[i - 1] = P[i - 1]
          BY <5>1
        <5> HIDE DEF h
        <5> QED BY <4>1, <4>3, <5>2
      <4> QED BY <4>2, <4>3
    <3>1. h = [i \in 1..N |-> h[i]]
      OBVIOUS
    <3> HIDE DEF h
    <3>2. h = [i \in 1..N |-> IF i = 1 THEN ss[i] ELSE h[i - 1] \o ss[i]]
      BY <3>0, <3>1, Zenon
    <3> QED BY <1>01, <3>2, Zenon DEF IsFlatten
  <2>3. IsFlatten(ss, g)
    BY <2>2, Zenon
  <2> HIDE DEF g, h
  <2>31. ASSUME NEW i \in 1..N PROVE g[i] = IF i = 1 THEN ss[i] ELSE g[i - 1] \o ss[i]
    <3>1. g = [j \in 1..N |-> IF j = 1 THEN ss[j] ELSE g[j - 1] \o ss[j]]
      BY <1>01, <2>3, Zenon DEF IsFlatten
    <3> QED BY <3>1, Zenon
  <2>4. \A n \in Nat : n \in {k \in Nat : k \in 1..N => g[k] = P[k]}
    <3> DEFINE H == {k \in Nat : k \in 1..N => g[k] = P[k]}
    <3>1. 0 \in H
      OBVIOUS
    <3>2. ASSUME NEW n \in Nat, n \in H PROVE n + 1 \in H
      <4> SUFFICES ASSUME n + 1 \in 1..N PROVE g[n + 1] = P[n + 1]
        OBVIOUS
      <4>1. g[n + 1] = IF n + 1 = 1 THEN ss[n + 1] ELSE g[n] \o ss[n + 1]
        <5>1. n + 1 - 1 = n
          OBVIOUS
        <5>2. g[n + 1] = IF n + 1 = 1 THEN ss[n + 1] ELSE g[n + 1 - 1] \o ss[n + 1]
          BY <2>31
        <5> QED BY <5>1, <5>2, Zenon
      <4>2. P[n + 1] = P[n] \o ss[n + 1] /\ ss[n + 1] \in Seq(Byte)
        <5>1. PICK j : j = n + 1 /\ j \in 1..N
          OBVIOUS
        <5>2. P[j] = P[j - 1] \o ss[j] /\ ss[j] \in Seq(Byte)
          BY <1>0, <5>1, Zenon
        <5>3. j - 1 = n
          BY <5>1
        <5>4. P[j] = P[n] \o ss[j]
          BY <5>2, <5>3, Zenon
        <5> QED BY <5>1, <5>2, <5>4, Zenon
      <4>3. CASE n = 0
        <5>1. P[n] = << >>
          BY <1>0, <4>3
        <5>2. << >> \o ss[n + 1] = ss[n + 1]
          BY <4>2
        <5>3. n + 1 = 1
          BY <4>3
        <5> QED BY <4>1, <4>2, <5>1, <5>2, <5>3
      <4>4. CASE n # 0
        <5>1. g[n] = P[n]
          BY <3>2, <4>4
        <5>2. n + 1 # 1
          BY <4>4
        <5> QED BY <4>1, <4>2, <5>1, <5>2
      <4> QED BY <4>3, <4>4
    <3> HIDE DEF H
    <3>3. \A n \in Nat : n \in H
      BY <3>1, <3>2, Induction
    <3> QED BY <3>3 DEF H
  <2>5. N \in 1..N
    BY <1>2
  <2>6. g[N] = P[N]
    BY <2>4, <2>5
  <2> QED BY <1>0, <1>01, <2>1, <2>6
<1> QED BY <1>1, <1>2

\* The pieces before one, and the piece, are no longer than the whole.
LEMMA JoinedGrows == ASSUME NEW ss \in Seq(Seq(Byte)), NEW P, Joined(ss, P)
  PROVE /\ \A i \in 0..Len(ss) : Len(P[i]) \in Nat /\ Len(P[i]) <= Len(P[Len(ss)])
        /\ \A i \in 1..Len(ss) : Len(P[i]) = Len(P[i - 1]) + Len(ss[i]) /\ Len(ss[i]) \in Nat
        /\ \A i \in 1..Len(ss) : Len(ss[i]) <= Len(P[Len(ss)])
<1>0. PICK N \in Nat : N = Len(ss)
  BY PartsAre
<1>01. /\ P \in [0..N -> Seq(Byte)] /\ P[0] = << >> /\ P[N] \in Seq(Byte)
       /\ \A i \in 1..N : P[i] = P[i - 1] \o ss[i] /\ ss[i] \in Seq(Byte) /\ P[i - 1] \in Seq(Byte)
  BY <1>0, JoinedParts
<1>1. \A i \in 0..N : P[i] \in Seq(Byte) /\ Len(P[i]) \in Nat
  BY <1>01
<1>2. ASSUME NEW i \in 1..N PROVE Len(P[i]) = Len(P[i - 1]) + Len(ss[i]) /\ Len(ss[i]) \in Nat
  <2>1. P[i] = P[i - 1] \o ss[i] /\ ss[i] \in Seq(Byte) /\ P[i - 1] \in Seq(Byte)
    BY <1>01
  <2> QED BY <2>1
<1> DEFINE H == {k \in Nat : k <= N => Len(P[N - k]) <= Len(P[N])}
<1>3. 0 \in H
  BY <1>1
<1>4. ASSUME NEW k \in Nat, k \in H PROVE k + 1 \in H
  <2> SUFFICES ASSUME k + 1 <= N PROVE Len(P[N - (k + 1)]) <= Len(P[N])
    OBVIOUS
  <2>1. N - k \in 1..N /\ (N - k) - 1 = N - (k + 1) /\ N - (k + 1) \in 0..N /\ N \in 0..N
    OBVIOUS
  <2>2. Len(P[N - k]) = Len(P[N - (k + 1)]) + Len(ss[N - k]) /\ Len(ss[N - k]) \in Nat
    BY <1>2, <2>1
  <2>3. Len(P[N - k]) <= Len(P[N])
    BY <1>4
  <2>4. PICK a \in Nat : a = Len(P[N - (k + 1)])
    BY <1>1, <2>1
  <2>5. PICK b \in Nat : b = Len(P[N])
    BY <1>1, <2>1
  <2>6. PICK c \in Nat : c = Len(ss[N - k])
    BY <2>2
  <2>7. a + c <= b
    BY <2>2, <2>3, <2>4, <2>5, <2>6
  <2>8. a <= b
    BY <2>7
  <2> QED BY <2>4, <2>5, <2>8
<1> HIDE DEF H
<1>5. \A k \in Nat : k \in H
  BY <1>3, <1>4, Induction
<1>6. ASSUME NEW i \in 0..N PROVE Len(P[i]) <= Len(P[N])
  <2>1. N - i \in Nat /\ N - i <= N /\ N - (N - i) = i
    OBVIOUS
  <2>2. N - i \in H
    BY <1>5, <2>1
  <2> QED BY <2>1, <2>2 DEF H
<1>7. ASSUME NEW i \in 1..N PROVE Len(ss[i]) <= Len(P[N])
  <2>1. i \in 0..N /\ i - 1 \in 0..N /\ N \in 0..N
    OBVIOUS
  <2>2. PICK a \in Nat : a = Len(P[i - 1])
    BY <1>1, <2>1
  <2>3. PICK b \in Nat : b = Len(P[N])
    BY <1>1, <2>1
  <2>4. PICK c \in Nat : c = Len(ss[i])
    BY <1>2
  <2>5. a + c <= b
    <3>1. Len(P[i]) = a + c
      BY <1>2, <2>2, <2>4
    <3>2. Len(P[i]) <= b
      BY <1>6, <2>1, <2>3
    <3> QED BY <3>1, <3>2
  <2> QED BY <2>3, <2>4, <2>5
<1> QED BY <1>0, <1>1, <1>2, <1>6, <1>7

Summed(xs, U) ==
  /\ U \in [0..Len(xs) -> Nat]
  /\ U[0] = 0
  /\ \A i \in 1..Len(xs) : U[i] = U[i - 1] + xs[i]

LEMMA SummedParts == ASSUME NEW xs \in Seq(Nat), NEW U, Summed(xs, U), NEW N \in Nat, N = Len(xs)
  PROVE /\ U \in [0..N -> Nat] /\ U[0] = 0
        /\ \A i \in 1..N : U[i] = U[i - 1] + xs[i]
  BY Zenon DEF Summed

LEMMA SummedExists == ASSUME NEW xs \in Seq(Nat) PROVE \E U : Summed(xs, U)
<1>4. PICK N \in Nat : N = Len(xs)
  BY PartsAre
<1> DEFINE next == [q \in Nat \X Nat |-> q[2] + (IF q[1] \in 1..N THEN xs[q[1]] ELSE 0)]
<1>1. 0 \in Nat /\ \A i \in 1..N : xs[i] \in Nat
  <2>1. \A i \in 1..N : xs[i] \in Nat
    BY <1>4, PartsAre, Zenon
  <2> QED BY <2>1
<1>2. next \in [Nat \X Nat -> Nat]
  <2> SUFFICES ASSUME NEW q \in Nat \X Nat
               PROVE  q[2] + (IF q[1] \in 1..N THEN xs[q[1]] ELSE 0) \in Nat
    OBVIOUS
  <2>1. q[2] \in Nat /\ q[1] \in Nat
    OBVIOUS
  <2>2. (IF q[1] \in 1..N THEN xs[q[1]] ELSE 0) \in Nat
    BY <1>1
  <2> QED BY <2>1, <2>2
<1>3. \A i \in 1..N : \A s \in Nat : next[<<i, s>>] = s + xs[i]
  <2> TAKE i \in 1..N
  <2> TAKE s \in Nat
  <2>1. i \in Nat /\ <<i, s>> \in Nat \X Nat /\ <<i, s>>[1] = i /\ <<i, s>>[2] = s
    OBVIOUS
  <2> QED BY <2>1
<1> HIDE DEF next
<1>5. PICK P \in [0..N -> Nat] :
        P[0] = 0 /\ \A i \in 1..N : P[i] = next[<<i, P[i - 1]>>]
  <2>1. 0 \in Nat
    OBVIOUS
  <2>2. \E P : Recurs(P, Nat, 0, next, N)
    BY <2>1, <1>2, Recursion, Zenon
  <2> QED BY <2>2, Zenon DEF Recurs
<1>6. \A i \in 1..N : P[i - 1] \in Nat
  <2>1. \A i \in 1..N : i - 1 \in 0..N
    OBVIOUS
  <2> QED BY <2>1
<1>7. \A i \in 1..N : P[i] = P[i - 1] + xs[i]
  BY <1>3, <1>5, <1>6, Zenon
<1> QED BY <1>4, <1>5, <1>7, Zenon DEF Summed

IsSum(xs, g) == g = [i \in 0..Len(xs) |-> IF i = 0 THEN 0 ELSE g[i - 1] + xs[i]]

LEMMA TotalIs == ASSUME NEW xs \in Seq(Nat), NEW U, Summed(xs, U)
  PROVE Total(xs) = U[Len(xs)] /\ Total(xs) \in Nat
<1>01. PICK N \in Nat : N = Len(xs)
  BY PartsAre
<1>02. /\ U \in [0..N -> Nat] /\ U[0] = 0
       /\ \A i \in 1..N : U[i] = U[i - 1] + xs[i]
  BY <1>01, SummedParts
<1>0. U[N] \in Nat
  BY <1>02
<1> DEFINE g == CHOOSE g : IsSum(xs, g)
<1>1. Total(xs) = g[N]
  BY <1>01, Zenon DEF Total, IsSum
<1>2. IsSum(xs, U)
  <2>1. U = [i \in 0..N |-> U[i]]
    BY <1>02
  <2>2. ASSUME NEW i \in 0..N PROVE U[i] = IF i = 0 THEN 0 ELSE U[i - 1] + xs[i]
    <3>1. i # 0 => i \in 1..N
      OBVIOUS
    <3> QED BY <1>02, <3>1, Zenon
  <2>3. U = [i \in 0..N |-> IF i = 0 THEN 0 ELSE U[i - 1] + xs[i]]
    BY <2>1, <2>2, Zenon
  <2> QED BY <1>01, <2>3, Zenon DEF IsSum
<1>3. IsSum(xs, g)
  BY <1>2, Zenon
<1> HIDE DEF g
<1>31. ASSUME NEW i \in 0..N PROVE g[i] = IF i = 0 THEN 0 ELSE g[i - 1] + xs[i]
  <2>1. g = [j \in 0..N |-> IF j = 0 THEN 0 ELSE g[j - 1] + xs[j]]
    BY <1>01, <1>3, Zenon DEF IsSum
  <2> QED BY <2>1, Zenon
<1> DEFINE H == {k \in Nat : k \in 0..N => g[k] = U[k]}
<1>4. 0 \in H
  <2>1. 0 \in 0..N
    OBVIOUS
  <2>2. g[0] = 0
    BY <1>31, <2>1, Zenon
  <2> QED BY <1>02, <2>2
<1>5. ASSUME NEW n \in Nat, n \in H PROVE n + 1 \in H
  <2> SUFFICES ASSUME n + 1 \in 0..N PROVE g[n + 1] = U[n + 1]
    OBVIOUS
  <2>0. PICK j : j = n + 1 /\ j \in 0..N /\ j \in 1..N
    OBVIOUS
  <2>1. n + 1 - 1 = n /\ n + 1 # 0 /\ n \in 0..N
    OBVIOUS
  <2>2. g[n + 1] = g[n] + xs[n + 1]
    <3>1. g[j] = IF j = 0 THEN 0 ELSE g[j - 1] + xs[j]
      BY <1>31, <2>0, Zenon
    <3>2. j # 0 /\ j - 1 = n
      BY <2>0
    <3>3. g[j] = g[n] + xs[j]
      BY <3>1, <3>2, Zenon
    <3> QED BY <2>0, <3>3, Zenon
  <2>3. U[n + 1] = U[n] + xs[n + 1]
    <3>1. U[j] = U[j - 1] + xs[j]
      BY <1>02, <2>0, Zenon
    <3>2. j - 1 = n
      BY <2>0
    <3>3. U[j] = U[n] + xs[j]
      BY <3>1, <3>2, Zenon
    <3> QED BY <2>0, <3>3, Zenon
  <2>4. g[n] = U[n]
    BY <1>5, <2>1
  <2> QED BY <2>2, <2>3, <2>4
<1> HIDE DEF H
<1>6. \A n \in Nat : n \in H
  BY <1>4, <1>5, Induction
<1>7. g[N] = U[N]
  <2>1. N \in 0..N
    OBVIOUS
  <2> QED BY <1>6, <2>1 DEF H
<1> QED BY <1>0, <1>01, <1>1, <1>7

-----------------------------------------------------------------------------
(* What is written, is bytes.                                               *)

ItemBytes(f, x)     == Tag(f.tag, WireTypeOf(f)) \o EncodeValue(f, x)
Items(f, xs)        == [i \in DOMAIN xs |-> ItemBytes(f, xs[i])]
EachBytes(f, xs)    == FlattenSeq(Items(f, xs))
Elements(f, xs)     == [i \in DOMAIN xs |-> EncodeScalar(f, xs[i])]
PackedBytes(f, xs)  == Tag(f.tag, WT_STRING) \o Sized(FlattenSeq(Elements(f, xs)))
FieldBytes(f, xs)   ==
  IF xs = << >> \/ IsDefault(f, xs) THEN << >>
  ELSE IF f.label = "REPEATED" /\ Packable(f) THEN PackedBytes(f, xs)
  ELSE EachBytes(f, xs)
Pieces(m, v)        == [i \in DOMAIN m.fields |-> FieldBytes(m.fields[i], v[m.fields[i].name])]
ExplicitPieces(m, v) == [i \in DOMAIN m.fields |-> EachBytes(m.fields[i], v[m.fields[i].name])]

LEMMA EncodeIs == ASSUME NEW m, NEW v
  PROVE Encode(m, v) = FlattenSeq(Pieces(m, v)) /\ EncodeAll(m, v) = FlattenSeq(ExplicitPieces(m, v))
<1>1. Encode(m, v) = FlattenSeq(Pieces(m, v))
  BY DEF Encode, EncodeFields, EncodeField, LeftOut, EncodeEach, EncodeItem, EncodePacked, Pieces, FieldBytes, PackedBytes,
         EachBytes, Items, Elements, ItemBytes
<1>2. EncodeAll(m, v) = FlattenSeq(ExplicitPieces(m, v))
  BY DEF EncodeAll, EncodeEach, EncodeItem, ExplicitPieces, EachBytes, Items, ItemBytes
<1> QED BY <1>1, <1>2

LEMMA EncodeFlatIs == ASSUME NEW m, NEW v, IsFlat(m) PROVE EncodeFlat(m, v) = Encode(m, v)
<1> DEFINE Each(f, xs) == FlattenSeq([i \in DOMAIN xs |-> Tag(f.tag, WireTypeOf(f)) \o EncodeScalar(f, xs[i])])
           One1(f, xs) == IF xs = << >> \/ IsDefault(f, xs) THEN << >>
                          ELSE IF f.label = "REPEATED" /\ Packable(f) THEN PackedBytes(f, xs)
                          ELSE Each(f, xs)
<1>1. EncodeFlat(m, v) = FlattenSeq([i \in DOMAIN m.fields |-> One1(m.fields[i], v[m.fields[i].name])])
  BY DEF EncodeFlat, EncodeFields, EncodeField, LeftOut, EncodeEach, EncodeItem, EncodePacked, PackedBytes, Elements
<1>2. ASSUME NEW f \in Fields(m), NEW xs PROVE One1(f, xs) = FieldBytes(f, xs)
  <2>1. f.type # "MESSAGE"
    BY DEF IsFlat
  <2>2. \A x : EncodeValue(f, x) = EncodeScalar(f, x)
    BY <2>1 DEF EncodeValue
  <2>3. Each(f, xs) = EachBytes(f, xs)
    BY <2>2 DEF EachBytes, Items, ItemBytes
  <2> HIDE DEF Each
  <2> QED BY <2>3 DEF FieldBytes
<1> HIDE DEF One1
<1>3. \A i \in DOMAIN m.fields : m.fields[i] \in Fields(m)
  BY DEF Fields, ToSet
<1>4. [i \in DOMAIN m.fields |-> One1(m.fields[i], v[m.fields[i].name])] = Pieces(m, v)
  BY <1>2, <1>3 DEF Pieces
<1> QED BY <1>1, <1>4, EncodeIs

LEMMA EncodeScalarIs == ASSUME NEW f, NEW x
  PROVE /\ f.type \in Unsigned \cup Signed \/ f.type = "BOOL" => EncodeScalar(f, x) = Varint(x)
        /\ f.type \in ZigZags => EncodeScalar(f, x) = SVarint(x)
        /\ f.type \in Fixed => EncodeScalar(f, x) = x
        /\ f.type = "STRING" \/ f.type = "BYTES" => EncodeScalar(f, x) = Sized(x)
  BY DEF EncodeScalar, Unsigned, Signed, ZigZags, Fixed

LEMMA TrueIs == Pattern(True) /\ Low32(True) = True /\ True # Zero /\ Len(True) <= 1
<1>1. 1 \in Nat /\ 1 < 128 * 128 * 128 * 128 /\ 1 # 0 /\ 1 < 128
  OBVIOUS
<1> QED BY <1>1, DigitsIs, DigitsLow, LenDigits DEF True

LEMMA ScalarBytes == ASSUME NEW m, NEW f, SoundField(m, f), f.type # "MESSAGE", NEW x, Scalar(f, x)
  PROVE EncodeScalar(f, x) \in Seq(Byte) /\ Len(EncodeScalar(f, x)) \in Nat /\ 1 <= Len(EncodeScalar(f, x))
<1>1. CASE f.type \in Unsigned
  <2>1. Pattern(x)
    BY <1>1, ScalarIs
  <2> QED BY <1>1, <2>1, EncodeScalarIs, VarintIs
<1>2. CASE f.type \in Signed
  <2>1. Pattern(x)
    BY <1>2, ScalarIs
  <2> QED BY <1>2, <2>1, EncodeScalarIs, VarintIs
<1>3. CASE f.type \in ZigZags
  <2>1. Pattern(x)
    BY <1>3, ScalarIs
  <2> QED BY <1>3, <2>1, EncodeScalarIs, SVarintIs
<1>4. CASE f.type \in Fixed
  <2>1. x \in [1..Bytes[f.type] -> Byte]
    BY <1>4, ScalarIs
  <2>2. PICK n \in Nat : n = Bytes[f.type] /\ 1 <= n
    BY <1>4, BytesAre
  <2>3. x \in Seq(Byte) /\ Len(x) = n
    BY <2>1, <2>2
  <2> QED BY <1>4, <2>2, <2>3, EncodeScalarIs
<1>5. CASE f.type = "BOOL"
  <2>1. Pattern(x)
    BY <1>5, ScalarIs, ZeroIs, TrueIs
  <2> QED BY <1>5, <2>1, EncodeScalarIs, VarintIs
<1>6. CASE f.type = "STRING" \/ f.type = "BYTES"
  <2>1. x \in Seq(Byte)
    <3>1. Seq(Byte \ {0}) \subseteq Seq(Byte)
      OBVIOUS
    <3> QED BY <1>6, <3>1, ScalarIs
  <2> QED BY <1>6, <2>1, EncodeScalarIs, SizedBytes
<1> QED BY <1>1, <1>2, <1>3, <1>4, <1>5, <1>6, ScalarTypesAre

IsItem(f, x) == IF f.type = "MESSAGE" THEN FlatValue(f.of, x) ELSE Scalar(f, x)

\* The fields of a message, and whether a value gives each of them items.
LEMMA ValueIs == ASSUME NEW m, NEW v
  PROVE IsValue(m, v) <=> /\ AsLabelled(m, v)
                          /\ \A f \in Fields(m) : /\ Sequence(v[f.name])
                                                  /\ \A i \in DOMAIN v[f.name] : IsItem(f, v[f.name][i])
  BY Zenon DEF IsValue, ValuesOf, IsItem

LEMMA FieldsAre == ASSUME NEW m, SoundFields(m)
  PROVE /\ Len(m.fields) \in Nat /\ DOMAIN m.fields = 1..Len(m.fields)
        /\ \A i \in 1..Len(m.fields) : m.fields[i] \in Fields(m)
        /\ \A f \in Fields(m) : \E i \in 1..Len(m.fields) : f = m.fields[i]
<1>1. m.fields \in Seq(Fields(m))
  BY DEF SoundFields
<1>2. Len(m.fields) \in Nat /\ DOMAIN m.fields = 1..Len(m.fields)
      /\ \A i \in 1..Len(m.fields) : m.fields[i] \in Fields(m)
  BY <1>1
<1>3. \A f \in Fields(m) : \E i \in DOMAIN m.fields : f = m.fields[i]
  BY DEF Fields, ToSet
<1> QED BY <1>2, <1>3

LEMMA SequenceIs == ASSUME NEW xs, Sequence(xs)
  PROVE Len(xs) \in Nat /\ DOMAIN xs = 1..Len(xs) /\ (xs = << >> <=> Len(xs) = 0)
        /\ xs = [i \in 1..Len(xs) |-> xs[i]]
  BY DEF Sequence

\* A sequence made of pieces.
LEMMA PiecesAre == ASSUME NEW n \in Nat, NEW S, NEW p, p = [i \in 1..n |-> p[i]], \A i \in 1..n : p[i] \in S
  PROVE p \in Seq(S) /\ Len(p) = n /\ DOMAIN p = 1..n
<1>1. p \in [1..n -> S]
  BY Zenon
<1> QED BY <1>1, SeqDef

LEMMA FlattenBytes == ASSUME NEW ss \in Seq(Seq(Byte)) PROVE FlattenSeq(ss) \in Seq(Byte)
  BY JoinedExists, FlattenIs

ItemsAreBytes(f, xs) ==
  Sequence(xs) /\ \A i \in DOMAIN xs : EncodeValue(f, xs[i]) \in Seq(Byte)

LEMMA TagBytes == ASSUME NEW m, NEW f, SoundField(m, f)
  PROVE /\ \A wt \in Nat : wt < 8 =>
             /\ Tag(f.tag, wt) \in Seq(Byte) /\ Len(Tag(f.tag, wt)) \in Nat /\ 1 <= Len(Tag(f.tag, wt))
             /\ Len(Tag(f.tag, wt)) = Len(Tag(f.tag, 0))
        /\ WireTypeOf(f) \in Nat /\ WireTypeOf(f) < 8 /\ WT_STRING \in Nat /\ WT_STRING < 8
        /\ f.tag \in Nat /\ f.tag < (100 * 1000)
<1>1. f.tag \in Nat /\ f.tag < (100 * 1000)
  BY RoomIs
<1>2. WireTypeOf(f) \in Nat /\ WireTypeOf(f) < 8 /\ WT_STRING \in Nat /\ WT_STRING < 8
  BY DEF WireTypeOf, WT_STRING, WT_32BIT, WT_64BIT, WT_VARINT
<1> QED BY <1>1, <1>2, TagIs, TagLength

LEMMA ItemsAre ==
  ASSUME NEW m, NEW f, SoundField(m, f), NEW xs, ItemsAreBytes(f, xs)
  PROVE  /\ Items(f, xs) \in Seq(Seq(Byte)) /\ Len(Items(f, xs)) = Len(xs) /\ Len(xs) \in Nat
         /\ \A i \in 1..Len(xs) : /\ Items(f, xs)[i] = ItemBytes(f, xs[i])
                                  /\ Len(ItemBytes(f, xs[i])) = Len(Tag(f.tag, 0)) + Len(EncodeValue(f, xs[i]))
                                  /\ ItemBytes(f, xs[i]) \in Seq(Byte)
<1>1. Len(xs) \in Nat /\ DOMAIN xs = 1..Len(xs)
  BY SequenceIs DEF ItemsAreBytes
<1> DEFINE t == Tag(f.tag, WireTypeOf(f))
<1>2. t \in Seq(Byte) /\ Len(t) = Len(Tag(f.tag, 0))
  BY TagBytes
<1>3. \A x : ItemBytes(f, x) = t \o EncodeValue(f, x)
  BY DEF ItemBytes
<1> HIDE DEF t
<1>4. ASSUME NEW i \in 1..Len(xs)
      PROVE  /\ ItemBytes(f, xs[i]) \in Seq(Byte)
             /\ Len(ItemBytes(f, xs[i])) = Len(Tag(f.tag, 0)) + Len(EncodeValue(f, xs[i]))
  <2>1. EncodeValue(f, xs[i]) \in Seq(Byte)
    BY <1>1 DEF ItemsAreBytes
  <2>2. PICK e \in Seq(Byte) : e = EncodeValue(f, xs[i])
    BY <2>1
  <2>3. t \o e \in Seq(Byte) /\ Len(t \o e) = Len(t) + Len(e)
    BY <1>2
  <2> QED BY <1>2, <1>3, <2>2, <2>3
<1>5. Items(f, xs) = [i \in 1..Len(xs) |-> ItemBytes(f, xs[i])]
  BY <1>1 DEF Items
<1>6. Items(f, xs) = [i \in 1..Len(xs) |-> Items(f, xs)[i]] /\ \A i \in 1..Len(xs) : Items(f, xs)[i] = ItemBytes(f, xs[i])
  BY <1>5
<1>7. Items(f, xs) \in Seq(Seq(Byte)) /\ Len(Items(f, xs)) = Len(xs)
  BY <1>1, <1>4, <1>6, PiecesAre
<1> QED BY <1>1, <1>4, <1>6, <1>7

LEMMA EachIsBytes ==
  ASSUME NEW m, NEW f, SoundField(m, f), NEW xs, ItemsAreBytes(f, xs) PROVE EachBytes(f, xs) \in Seq(Byte)
  BY ItemsAre, FlattenBytes DEF EachBytes

LEMMA ElementsAre ==
  ASSUME NEW m, NEW f, SoundField(m, f), f.type # "MESSAGE", NEW xs, ItemsAreBytes(f, xs)
  PROVE  /\ Elements(f, xs) \in Seq(Seq(Byte)) /\ Len(Elements(f, xs)) = Len(xs)
         /\ \A i \in 1..Len(xs) : Elements(f, xs)[i] = EncodeValue(f, xs[i]) /\ Elements(f, xs)[i] = EncodeScalar(f, xs[i])
         /\ PackedBytes(f, xs) \in Seq(Byte)
<1>1. Len(xs) \in Nat /\ DOMAIN xs = 1..Len(xs)
  BY SequenceIs DEF ItemsAreBytes
<1>2. \A x : EncodeValue(f, x) = EncodeScalar(f, x)
  BY DEF EncodeValue
<1>3. Elements(f, xs) = [i \in 1..Len(xs) |-> EncodeValue(f, xs[i])]
  BY <1>1, <1>2 DEF Elements
<1>4. Elements(f, xs) = [i \in 1..Len(xs) |-> Elements(f, xs)[i]] /\ \A i \in 1..Len(xs) : Elements(f, xs)[i] = EncodeValue(f, xs[i])
  BY <1>3
<1>5. \A i \in 1..Len(xs) : Elements(f, xs)[i] \in Seq(Byte)
  BY <1>1, <1>4 DEF ItemsAreBytes
<1>6. Elements(f, xs) \in Seq(Seq(Byte)) /\ Len(Elements(f, xs)) = Len(xs)
  BY <1>1, <1>4, <1>5, PiecesAre
<1>7. Sized(FlattenSeq(Elements(f, xs))) \in Seq(Byte)
  BY <1>6, FlattenBytes, SizedBytes
<1>8. Tag(f.tag, WT_STRING) \in Seq(Byte)
  BY TagBytes
<1>9. PackedBytes(f, xs) \in Seq(Byte)
  BY <1>7, <1>8 DEF PackedBytes
<1> QED BY <1>2, <1>4, <1>6, <1>9

LEMMA FieldIsBytes ==
  ASSUME NEW m, NEW f, SoundField(m, f), NEW xs, ItemsAreBytes(f, xs) PROVE FieldBytes(f, xs) \in Seq(Byte)
<1>1. << >> \in Seq(Byte)
  OBVIOUS
<1>2. EachBytes(f, xs) \in Seq(Byte)
  BY EachIsBytes
<1>3. Packable(f) => PackedBytes(f, xs) \in Seq(Byte)
  <2>1. Packable(f) => f.type # "MESSAGE"
    BY DEF Packable, Delimited
  <2> QED BY <2>1, ElementsAre
<1> QED BY <1>1, <1>2, <1>3 DEF FieldBytes

MessageIsBytes(m, v) ==
  /\ Pieces(m, v) \in Seq(Seq(Byte)) /\ Len(Pieces(m, v)) = Len(m.fields)
  /\ \A i \in 1..Len(m.fields) : Pieces(m, v)[i] = FieldBytes(m.fields[i], v[m.fields[i].name])
  /\ ExplicitPieces(m, v) \in Seq(Seq(Byte)) /\ Len(ExplicitPieces(m, v)) = Len(m.fields)
  /\ \A i \in 1..Len(m.fields) : ExplicitPieces(m, v)[i] = EachBytes(m.fields[i], v[m.fields[i].name])
  /\ Encode(m, v) \in Seq(Byte) /\ EncodeAll(m, v) \in Seq(Byte)

LEMMA PiecesTyped ==
  ASSUME NEW m, SoundFields(m), NEW v, \A f \in Fields(m) : ItemsAreBytes(f, v[f.name])
  PROVE  MessageIsBytes(m, v)
<1> DEFINE n == Len(m.fields)
           g(i) == m.fields[i]
<1>1. n \in Nat /\ DOMAIN m.fields = 1..n /\ \A i \in 1..n : g(i) \in Fields(m) /\ SoundField(m, g(i))
  BY FieldsAre DEF SoundFields
<1>2. Pieces(m, v) = [i \in 1..n |-> FieldBytes(g(i), v[g(i).name])]
  BY <1>1 DEF Pieces
<1>3. ExplicitPieces(m, v) = [i \in 1..n |-> EachBytes(g(i), v[g(i).name])]
  BY <1>1 DEF ExplicitPieces
<1> HIDE DEF n, g
<1>4. \A i \in 1..n : FieldBytes(g(i), v[g(i).name]) \in Seq(Byte) /\ EachBytes(g(i), v[g(i).name]) \in Seq(Byte)
  BY <1>1, FieldIsBytes, EachIsBytes
<1>5. /\ Pieces(m, v) = [i \in 1..n |-> Pieces(m, v)[i]]
      /\ \A i \in 1..n : Pieces(m, v)[i] = FieldBytes(g(i), v[g(i).name])
  BY <1>2
<1>6. /\ ExplicitPieces(m, v) = [i \in 1..n |-> ExplicitPieces(m, v)[i]]
      /\ \A i \in 1..n : ExplicitPieces(m, v)[i] = EachBytes(g(i), v[g(i).name])
  BY <1>3
<1>7. Pieces(m, v) \in Seq(Seq(Byte)) /\ Len(Pieces(m, v)) = n
  BY <1>1, <1>4, <1>5, PiecesAre
<1>8. ExplicitPieces(m, v) \in Seq(Seq(Byte)) /\ Len(ExplicitPieces(m, v)) = n
  BY <1>1, <1>4, <1>6, PiecesAre
<1>9. Encode(m, v) \in Seq(Byte) /\ EncodeAll(m, v) \in Seq(Byte)
  BY <1>7, <1>8, EncodeIs, FlattenBytes
<1> QED BY <1>5, <1>6, <1>7, <1>8, <1>9 DEF n, g, MessageIsBytes

\* For any value of a message that is sound.
LEMMA FlatBytes == ASSUME NEW m, SoundFields(m), IsFlat(m), NEW v, FlatValue(m, v)
  PROVE MessageIsBytes(m, v) /\ EncodeFlat(m, v) \in Seq(Byte)
<1>1. IsValue(m, v)
  BY FlatGood
<1>2. ASSUME NEW f \in Fields(m) PROVE ItemsAreBytes(f, v[f.name])
  <2>1. f.type # "MESSAGE" /\ SoundField(m, f)
    BY DEF IsFlat, SoundFields
  <2>2. Sequence(v[f.name]) /\ \A i \in DOMAIN v[f.name] : Scalar(f, v[f.name][i])
    BY <1>1, <2>1, ValueIs DEF IsItem
  <2>3. \A x : EncodeValue(f, x) = EncodeScalar(f, x)
    BY <2>1 DEF EncodeValue
  <2> QED BY <2>1, <2>2, <2>3, ScalarBytes DEF ItemsAreBytes
<1>3. MessageIsBytes(m, v)
  BY <1>2, PiecesTyped
<1> QED BY <1>3, EncodeFlatIs DEF MessageIsBytes

LEMMA ItemsBytes == ASSUME NEW m, Sound(m), NEW f \in Fields(m), NEW x, IsItem(f, x)
  PROVE EncodeValue(f, x) \in Seq(Byte) /\ Len(EncodeValue(f, x)) \in Nat /\ 1 <= Len(EncodeValue(f, x))
<1>1. SoundField(m, f)
  BY DEF Sound, SoundFields
<1>2. CASE f.type = "MESSAGE"
  <2>1. SoundFields(f.of) /\ IsFlat(f.of) /\ FlatValue(f.of, x)
    BY <1>2 DEF Sound, IsItem
  <2>2. EncodeFlat(f.of, x) \in Seq(Byte)
    BY <2>1, FlatBytes
  <2> QED BY <1>2, <2>2, SizedBytes DEF EncodeValue
<1>3. CASE f.type # "MESSAGE"
  BY <1>1, <1>3, ScalarBytes DEF EncodeValue, IsItem
<1> QED BY <1>2, <1>3

LEMMA EncodedIsBytes == ASSUME NEW m, Sound(m), NEW v, IsValue(m, v) PROVE MessageIsBytes(m, v)
<1>1. ASSUME NEW f \in Fields(m) PROVE ItemsAreBytes(f, v[f.name])
  <2>1. Sequence(v[f.name]) /\ \A i \in DOMAIN v[f.name] : IsItem(f, v[f.name][i])
    BY ValueIs
  <2> QED BY <2>1, ItemsBytes DEF ItemsAreBytes
<1> QED BY <1>1, PiecesTyped DEF Sound

-----------------------------------------------------------------------------
(* How long what is written can be.                                         *)

ShortEnum(f, x) == f.type = "UENUM" => Len(x) <= 1

LEMMA GreatestScalarIs == ASSUME NEW m, NEW f, SoundField(m, f), f.type # "MESSAGE"
  PROVE /\ GreatestScalar(m, f) \in Nat /\ 1 <= GreatestScalar(m, f) /\ GreatestScalar(m, f) < (100 * 200)
        /\ Packable(f) => GreatestScalar(m, f) <= 10
        /\ f.type = "UINT32" \/ f.type = "SINT32" => GreatestScalar(m, f) = 5
        /\ f.type = "BOOL" \/ f.type = "UENUM" => GreatestScalar(m, f) = 1
        /\ f.type = "INT32" \/ f.type = "INT64" \/ f.type = "UINT64" \/ f.type = "SINT64" => GreatestScalar(m, f) = 10
        /\ f.type \in Fixed => GreatestScalar(m, f) = Bytes[f.type]
        /\ f.type = "STRING" => GreatestScalar(m, f) = SizedLength(m.room[f.name] - 1)
        /\ f.type = "BYTES" => GreatestScalar(m, f) = SizedLength(m.room[f.name])
<1>1. CASE f.type = "STRING" \/ f.type = "BYTES"
  <2>1. PICK n \in Nat : n = (IF f.type = "STRING" THEN m.room[f.name] - 1 ELSE m.room[f.name]) /\ n < (100 * 100)
    BY <1>1, RoomIs
  <2>2. GreatestScalar(m, f) = SizedLength(n)
    <3>1. CASE f.type = "STRING"
      <4>1. n = m.room[f.name] - 1
        BY <2>1, <3>1, Zenon
      <4>2. GreatestScalar(m, f) = SizedLength(m.room[f.name] - 1)
        <5>1. /\ f.type \notin Fixed /\ f.type \notin {"UINT32", "SINT32"} /\ f.type \notin {"BOOL", "UENUM"}
              /\ f.type # "BYTES"
          BY <3>1 DEF Fixed
        <5> QED BY <3>1, <5>1, Zenon DEF GreatestScalar
      <4> QED BY <4>1, <4>2, Zenon
    <3>2. CASE f.type = "BYTES"
      <4>1. n = m.room[f.name]
        BY <2>1, <3>2, Zenon
      <4>2. GreatestScalar(m, f) = SizedLength(m.room[f.name])
        <5>1. /\ f.type \notin Fixed /\ f.type \notin {"UINT32", "SINT32"} /\ f.type \notin {"BOOL", "UENUM"}
              /\ f.type # "STRING"
          BY <3>2 DEF Fixed
        <5> QED BY <3>2, <5>1, Zenon DEF GreatestScalar
      <4> QED BY <4>1, <4>2, Zenon
    <3> QED BY <1>1, <3>1, <3>2
  <2>3. SizedLength(n) \in Nat
    BY <2>1, SizedLengthGrows
  <2>4. SizedLength(n) = Len(Varint(Digits(n))) + n
    BY DEF SizedLength
  <2>5. 1 <= Len(Varint(Digits(n))) /\ Len(Varint(Digits(n))) <= 10 /\ Len(Varint(Digits(n))) \in Nat
    BY DigitsIs, VarintIs
  <2>6. 1 <= SizedLength(n) /\ SizedLength(n) < (100 * 200)
    BY <2>1, <2>3, <2>4, <2>5
  <2>7. ~Packable(f)
    BY <1>1 DEF Packable, Delimited
  <2> QED BY <1>1, <2>1, <2>2, <2>3, <2>6, <2>7 DEF Fixed
<1>2. CASE f.type \in Fixed
  <2>1. GreatestScalar(m, f) = Bytes[f.type]
    BY <1>2 DEF GreatestScalar, Fixed
  <2> QED BY <1>2, <2>1, BytesAre DEF Fixed
<1>3. CASE f.type \notin Fixed /\ f.type # "STRING" /\ f.type # "BYTES"
  BY <1>3 DEF GreatestScalar
<1> QED BY <1>1, <1>2, <1>3

LEMMA ScalarSize ==
  ASSUME NEW m, NEW f, SoundField(m, f), f.type # "MESSAGE", NEW x, Scalar(f, x), ValueHasRoom(m, f, x),
         ShortEnum(f, x)
  PROVE  Len(EncodeScalar(f, x)) <= GreatestScalar(m, f)
<1>1. CASE f.type \in Unsigned
  <2>1. Pattern(x) /\ Fits(x, Bytes[f.type]) /\ EncodeScalar(f, x) = Varint(x)
    BY <1>1, ScalarIs, EncodeScalarIs
  <2>2. Len(Varint(x)) \in Nat /\ Len(Varint(x)) <= 10 /\ Len(x) \in Nat
        /\ (x = Zero => Len(Varint(x)) = 1) /\ (x # Zero => Len(Varint(x)) = Len(x))
    BY <2>1, VarintIs, DigitRange
  <2>3. CASE f.type = "UINT32"
    <3>1. Bytes[f.type] = 4
      BY <2>3 DEF Bytes
    <3>2. Low32(x) = x
      BY <2>1, <3>1 DEF Fits
    <3>3. << >> \in Seq(Byte)
      OBVIOUS
    <3>4. Len(Varint(x)) <= 5
      BY <2>1, <3>2, <3>3, ReadVarint32Of
    <3> QED BY <2>1, <2>3, <3>4, GreatestScalarIs
  <2>4. CASE f.type = "UENUM"
    <3>1. Len(Varint(x)) <= 1
      BY <2>2, <2>4 DEF ShortEnum
    <3> QED BY <2>1, <2>4, <3>1, GreatestScalarIs
  <2>5. CASE f.type = "UINT64"
    BY <2>1, <2>2, <2>5, GreatestScalarIs
  <2> QED BY <1>1, <2>3, <2>4, <2>5 DEF Unsigned
<1>2. CASE f.type \in Signed
  <2>1. Pattern(x) /\ EncodeScalar(f, x) = Varint(x)
    BY <1>2, ScalarIs, EncodeScalarIs
  <2> QED BY <1>2, <2>1, VarintIs, GreatestScalarIs DEF Signed
<1>3. CASE f.type \in ZigZags
  <2>1. Pattern(x) /\ EncodeScalar(f, x) = Varint(ZigZag(x)) /\ (f.type = "SINT32" => Int32(x) = x)
    BY <1>3, ScalarIs, EncodeScalarIs DEF SVarint
  <2>2. Pattern(ZigZag(x))
    BY <2>1, ZigZagIs
  <2>3. /\ Len(Varint(ZigZag(x))) \in Nat /\ Len(Varint(ZigZag(x))) <= 10 /\ Len(ZigZag(x)) \in Nat
        /\ (ZigZag(x) = Zero => Len(Varint(ZigZag(x))) = 1)
        /\ (ZigZag(x) # Zero => Len(Varint(ZigZag(x))) = Len(ZigZag(x)))
    BY <2>2, VarintIs, DigitRange
  <2>4. f.type = "SINT32" => Len(ZigZag(x)) <= 5
    BY <2>1, ShortZigZag
  <2>5. f.type = "SINT32" => Len(Varint(ZigZag(x))) <= 5
    <3>1. PICK y \in Nat : y = Len(ZigZag(x))
      BY <2>3
    <3>2. PICK l \in Nat : l = Len(Varint(ZigZag(x)))
      BY <2>3
    <3>3. (ZigZag(x) = Zero => l = 1) /\ (ZigZag(x) # Zero => l = y)
      BY <2>3, <3>1, <3>2, Zenon
    <3>4. f.type = "SINT32" => y <= 5
      BY <2>4, <3>1, Zenon
    <3>5. f.type = "SINT32" => l <= 5
      BY <3>3, <3>4
    <3> QED BY <3>2, <3>5
  <2> QED BY <1>3, <2>1, <2>3, <2>5, GreatestScalarIs DEF ZigZags
<1>4. CASE f.type \in Fixed
  <2>1. x \in [1..Bytes[f.type] -> Byte] /\ EncodeScalar(f, x) = x
    BY <1>4, ScalarIs, EncodeScalarIs
  <2>2. PICK n \in Nat : n = Bytes[f.type] /\ 1 <= n
    BY <1>4, BytesAre
  <2>3. Len(x) = n
    BY <2>1, <2>2
  <2> QED BY <1>4, <2>1, <2>2, <2>3, GreatestScalarIs
<1>5. CASE f.type = "BOOL"
  <2>1. x = Zero \/ x = True
    BY <1>5, ScalarIs
  <2>2. Pattern(x) /\ EncodeScalar(f, x) = Varint(x)
    BY <1>5, <2>1, ZeroIs, TrueIs, EncodeScalarIs
  <2>3. (x = Zero => Len(Varint(x)) = 1) /\ (x # Zero => Len(Varint(x)) = Len(x)) 
    BY <2>2, VarintIs
  <2>4. Len(Varint(x)) <= 1
    <3>1. CASE x = Zero
      <4>1. Len(Varint(x)) = 1 /\ 1 <= 1
        BY <2>3, <3>1
      <4> QED BY <4>1, Zenon
    <3>2. CASE x = True
      <4>1. Len(Varint(x)) = Len(x)
        BY <2>3, <3>2, TrueIs
      <4>2. Len(x) <= 1
        BY <3>2, TrueIs
      <4> QED BY <4>1, <4>2
    <3> QED BY <2>1, <3>1, <3>2
  <2> QED BY <1>5, <2>2, <2>4, GreatestScalarIs
<1>6. CASE f.type = "STRING" \/ f.type = "BYTES"
  <2>1. x \in Seq(Byte)
    <3>1. Seq(Byte \ {0}) \subseteq Seq(Byte)
      OBVIOUS
    <3> QED BY <1>6, <3>1, ScalarIs
  <2>2. PICK n \in Nat : n = (IF f.type = "STRING" THEN m.room[f.name] - 1 ELSE m.room[f.name]) /\ n < (100 * 100)
    BY <1>6, RoomIs
  <2>3. m.room[f.name] \in Nat
    BY <1>6, RoomIs
  <2>4. Len(x) \in Nat /\ Len(x) <= n
    BY <1>6, <2>1, <2>2, <2>3 DEF ValueHasRoom
  <2>5. SizedLength(Len(x)) <= SizedLength(n)
    BY <2>2, <2>4, SizedLengthGrows
  <2>6. Len(Sized(x)) = SizedLength(Len(x))
    BY <2>1, SizedBytes DEF SizedLength
  <2>7. GreatestScalar(m, f) = SizedLength(n)
    BY <1>6, <2>2, GreatestScalarIs
  <2>8. EncodeScalar(f, x) = Sized(x)
    BY <1>6, EncodeScalarIs
  <2> QED BY <2>5, <2>6, <2>7, <2>8
<1> QED BY <1>1, <1>2, <1>3, <1>4, <1>5, <1>6, ScalarTypesAre

\* A sequence of pieces of at most c bytes.
LEMMA JoinedBound ==
  ASSUME NEW ss \in Seq(Seq(Byte)), NEW c \in Nat, \A i \in 1..Len(ss) : Len(ss[i]) <= c
  PROVE  Len(FlattenSeq(ss)) \in Nat /\ Len(FlattenSeq(ss)) <= Len(ss) * c
<1>1. PICK P : Joined(ss, P)
  BY JoinedExists
<1>2. /\ \A i \in 0..Len(ss) : Len(P[i]) \in Nat
      /\ \A i \in 1..Len(ss) : Len(P[i]) = Len(P[i - 1]) + Len(ss[i]) /\ Len(ss[i]) \in Nat
  BY <1>1, JoinedGrows
<1>0. PICK N \in Nat : N = Len(ss)
  OBVIOUS
<1> DEFINE H == {k \in Nat : k <= N => Len(P[k]) <= k * c}
<1>3. 0 \in H
  <2>1. Len(P[0]) = 0 /\ 0 * c = 0
    BY <1>1 DEF Joined
  <2> QED BY <2>1
<1>4. ASSUME NEW k \in Nat, k \in H PROVE k + 1 \in H
  <2> SUFFICES ASSUME k + 1 <= N PROVE Len(P[k + 1]) <= (k + 1) * c
    OBVIOUS
  <2>1. PICK j : j = k + 1 /\ j \in 1..N
    OBVIOUS
  <2>11. j - 1 = k /\ k \in 0..N
    BY <2>1
  <2>2. Len(P[j]) = Len(P[j - 1]) + Len(ss[j]) /\ Len(ss[j]) \in Nat /\ Len(P[k]) \in Nat
    BY <1>0, <1>2, <2>1, <2>11, Zenon
  <2>21. Len(ss[j]) <= c
    BY <1>0, <2>1, Zenon
  <2>22. PICK a \in Nat, b \in Nat : a = Len(P[k]) /\ b = Len(ss[j])
    BY <2>2, Zenon
  <2>23. Len(P[j]) = a + b /\ b <= c
    BY <2>11, <2>2, <2>21, <2>22, Zenon
  <2>3. a <= k * c
    <3>1. Len(P[k]) <= k * c
      BY <1>4, <2>11
    <3> QED BY <2>22, <3>1, Zenon
  <2>4. (k + 1) * c = k * c + c /\ k * c \in Int
    OBVIOUS
  <2>5. a + b <= (k + 1) * c
    BY <2>23, <2>3, <2>4
  <2> QED BY <2>1, <2>23, <2>5, Zenon
<1> HIDE DEF H
<1>5. N \in H
  BY <1>3, <1>4, Induction
<1>6. FlattenSeq(ss) = P[N]
  BY <1>0, <1>1, FlattenIs
<1>7. Len(P[N]) <= N * c /\ Len(P[N]) \in Nat
  BY <1>0, <1>2, <1>5 DEF H
<1> QED BY <1>0, <1>6, <1>7

LEMMA TimesGrows == ASSUME NEW a \in Nat, NEW b \in Nat, NEW c \in Nat, a <= b
  PROVE a * c <= b * c /\ a * c \in Nat /\ b * c \in Nat
<1>1. PICK d \in Nat : b = a + d
  <2>1. b - a \in Nat /\ b = a + (b - a)
    OBVIOUS
  <2> QED BY <2>1
<1>2. (a + d) * c = a * c + d * c /\ d * c >= 0 /\ a * c \in Int /\ d * c \in Int /\ a * c >= 0
  OBVIOUS
<1> QED BY <1>1, <1>2

Times(m, f)    == IF f.label = "REPEATED" THEN m.room[f.name] ELSE 1
FieldMost(m, f) == (Len(Tag(f.tag, 0)) + GreatestValue(m, f)) * Times(m, f)

ItemsFit(m, f, xs) ==
  /\ ItemsAreBytes(f, xs)
  /\ GreatestValue(m, f) \in Nat
  /\ \A i \in DOMAIN xs : Len(EncodeValue(f, xs[i])) <= GreatestValue(m, f)
  /\ Len(xs) <= Times(m, f)

LEMMA TimesIs == ASSUME NEW m, NEW f, SoundField(m, f), GreatestValue(m, f) \in Nat
  PROVE /\ Times(m, f) \in Nat /\ 1 <= Times(m, f) /\ Times(m, f) < (100 * 100)
        /\ FieldMost(m, f) \in Nat
        /\ Len(Tag(f.tag, 0)) \in Nat /\ 1 <= Len(Tag(f.tag, 0))
<1>1. Times(m, f) \in Nat /\ 1 <= Times(m, f) /\ Times(m, f) < (100 * 100)
  BY RoomIs DEF Times
<1>2. Len(Tag(f.tag, 0)) \in Nat /\ 1 <= Len(Tag(f.tag, 0))
  <2>1. 0 \in Nat /\ 0 < 8
    OBVIOUS
  <2> QED BY <2>1, TagBytes
<1>3. Len(Tag(f.tag, 0)) + GreatestValue(m, f) \in Nat
  BY <1>2
<1>4. FieldMost(m, f) \in Nat
  BY <1>1, <1>3, TimesGrows DEF FieldMost
<1> QED BY <1>1, <1>2, <1>4

LEMMA EachSize == ASSUME NEW m, NEW f, SoundField(m, f), NEW xs, ItemsFit(m, f, xs)
  PROVE Len(EachBytes(f, xs)) <= FieldMost(m, f) /\ Len(EachBytes(f, xs)) \in Nat
<1> DEFINE c == Len(Tag(f.tag, 0)) + GreatestValue(m, f)
<1>1. ItemsAreBytes(f, xs) /\ GreatestValue(m, f) \in Nat /\ Len(xs) <= Times(m, f)
  BY DEF ItemsFit
<1>2. Times(m, f) \in Nat /\ Len(Tag(f.tag, 0)) \in Nat
  BY <1>1, TimesIs
<1>3. /\ Items(f, xs) \in Seq(Seq(Byte)) /\ Len(Items(f, xs)) = Len(xs) /\ Len(xs) \in Nat
      /\ \A i \in 1..Len(xs) : /\ Items(f, xs)[i] = ItemBytes(f, xs[i])
                               /\ Len(ItemBytes(f, xs[i])) = Len(Tag(f.tag, 0)) + Len(EncodeValue(f, xs[i]))
  BY <1>1, ItemsAre
<1>31. DOMAIN xs = 1..Len(xs)
  BY <1>1, SequenceIs DEF ItemsAreBytes
<1>4. \A i \in 1..Len(xs) : Len(Items(f, xs)[i]) <= c
  <2> TAKE i \in 1..Len(xs)
  <2>1. Len(EncodeValue(f, xs[i])) <= GreatestValue(m, f) /\ EncodeValue(f, xs[i]) \in Seq(Byte)
    BY <1>31 DEF ItemsFit, ItemsAreBytes
  <2>2. Len(EncodeValue(f, xs[i])) \in Nat
    BY <2>1
  <2> QED BY <1>1, <1>2, <1>3, <2>1, <2>2
<1>5. c \in Nat
  BY <1>1, <1>2
<1>6. FieldMost(m, f) = c * Times(m, f)
  BY DEF FieldMost
<1> HIDE DEF c
<1>7. Len(EachBytes(f, xs)) \in Nat /\ Len(EachBytes(f, xs)) <= Len(xs) * c
  BY <1>3, <1>4, <1>5, JoinedBound DEF EachBytes
<1>8. Len(xs) * c <= Times(m, f) * c /\ Len(xs) * c \in Nat /\ Times(m, f) * c \in Nat
  BY <1>1, <1>2, <1>3, <1>5, TimesGrows
<1>9. Times(m, f) * c = c * Times(m, f)
  BY <1>2, <1>5
<1> QED BY <1>6, <1>7, <1>8, <1>9

\* An array of four or more is not longer packed than one by one.
LEMMA PackedSize ==
  ASSUME NEW m, NEW f, SoundField(m, f), NEW xs, ItemsFit(m, f, xs), f.label = "REPEATED", Packable(f)
  PROVE  Len(PackedBytes(f, xs)) <= FieldMost(m, f) /\ Len(PackedBytes(f, xs)) \in Nat
<1> DEFINE t == Len(Tag(f.tag, 0))
           g == GreatestValue(m, f)
           n == Times(m, f)
           all == FlattenSeq(Elements(f, xs))
<1>0. f.type # "MESSAGE"
  BY DEF Packable, Delimited
<1>1. ItemsAreBytes(f, xs) /\ g \in Nat /\ Len(xs) <= n
  BY DEF ItemsFit
<1>2. t \in Nat /\ 1 <= t /\ n \in Nat /\ n < (100 * 100)
  BY <1>1, TimesIs
<1>3. g <= 10
  BY <1>0, GreatestScalarIs DEF GreatestValue
<1>4. 4 <= n
  <2>1. m.room[f.name] \in Nat
    BY RoomIs
  <2> QED BY <2>1 DEF SoundField, Times
<1>5. /\ Elements(f, xs) \in Seq(Seq(Byte)) /\ Len(Elements(f, xs)) = Len(xs)
      /\ \A i \in 1..Len(xs) : Elements(f, xs)[i] = EncodeValue(f, xs[i])
  BY <1>0, <1>1, ElementsAre
<1>51. DOMAIN xs = 1..Len(xs) /\ Len(xs) \in Nat
  BY <1>1, SequenceIs DEF ItemsAreBytes
<1>6. \A i \in 1..Len(Elements(f, xs)) : Len(Elements(f, xs)[i]) <= g
  BY <1>5, <1>51 DEF ItemsFit
<1>7. all \in Seq(Byte)
  BY <1>5, FlattenBytes
<1>8. Tag(f.tag, WT_STRING) \in Seq(Byte) /\ Len(Tag(f.tag, WT_STRING)) = t
  BY TagBytes
<1>9. PackedBytes(f, xs) = Tag(f.tag, WT_STRING) \o Sized(all)
  BY DEF PackedBytes
<1>91. FieldMost(m, f) = (t + g) * n
  BY DEF FieldMost
<1>10. Len(all) \in Nat /\ Len(all) <= Len(Elements(f, xs)) * g
  BY <1>1, <1>5, <1>6, JoinedBound
<1> HIDE DEF all, t, g, n
<1>11. Len(all) <= Len(xs) * g
  BY <1>5, <1>10
<1>12. Len(xs) * g <= n * g /\ Len(xs) * g \in Nat /\ n * g \in Nat
  BY <1>1, <1>2, <1>51, TimesGrows
<1>13. Len(all) <= n * g
  BY <1>10, <1>11, <1>12
<1>14. n * g <= (100 * 1000)
  <2>1. g * n <= 10 * n /\ g * n \in Nat
    BY <1>1, <1>2, <1>3, TimesGrows
  <2>2. g * n = n * g
    BY <1>1, <1>2
  <2> QED BY <1>2, <2>1, <2>2
<1>15. /\ Sized(all) \in Seq(Byte) /\ Len(Sized(all)) = Len(Varint(Digits(Len(all)))) + Len(all)
  BY <1>7, SizedBytes
<1>16. Len(Varint(Digits(Len(all)))) \in Nat /\ Len(Varint(Digits(Len(all)))) <= 3
  <2>1. Len(all) < (128 * 128 * 128)
    BY <1>10, <1>12, <1>13, <1>14
  <2>2. PICK k \in Nat : k = Len(all) /\ k < (128 * 128 * 128)
    BY <1>10, <2>1
  <2>3. PICK l : l = Len(Varint(Digits(k)))
    OBVIOUS
  <2>4. l = 1 \/ l = 2 \/ l = 3
    <3>1. (k < 128 => l = 1) /\ (128 <= k /\ k < (128 * 128) => l = 2) /\ ((128 * 128) <= k => l = 3)
      BY <2>2, <2>3, VarintLength
    <3> QED BY <2>2, <3>1
  <2>5. l \in Nat /\ l <= 3
    BY <2>4
  <2> QED BY <2>2, <2>3, <2>5
<1>17. Len(PackedBytes(f, xs)) = t + Len(Sized(all)) /\ Len(PackedBytes(f, xs)) \in Nat
  <2>1. Len(Tag(f.tag, WT_STRING) \o Sized(all)) = Len(Tag(f.tag, WT_STRING)) + Len(Sized(all))
        /\ Len(Tag(f.tag, WT_STRING) \o Sized(all)) \in Nat
    BY <1>8, <1>15
  <2> QED BY <1>8, <1>9, <2>1
<1>18. (t + g) * n = t * n + n * g /\ t * n >= t + 3 /\ t * n \in Int
  <2>1. (t + g) * n = t * n + n * g /\ t * n \in Int
    BY <1>1, <1>2
  <2>2. 4 * t <= n * t /\ n * t \in Nat /\ n * t = t * n
    BY <1>2, <1>4, TimesGrows
  <2> QED BY <1>2, <2>1, <2>2
<1> QED BY <1>10, <1>12, <1>13, <1>15, <1>16, <1>17, <1>18, <1>91, <1>2

LEMMA FieldSize == ASSUME NEW m, NEW f, SoundField(m, f), NEW xs, ItemsFit(m, f, xs)
  PROVE Len(FieldBytes(f, xs)) <= FieldMost(m, f) /\ (xs = << >> => FieldBytes(f, xs) = << >>)
<1>1. FieldMost(m, f) \in Nat
  BY TimesIs DEF ItemsFit
<1>2. Len(<< >>) = 0
  OBVIOUS
<1> QED BY <1>1, <1>2, EachSize, PackedSize DEF FieldBytes

Alternatives(m) == {f \in Fields(m) : f.label = "ONEOF"}
Others(m) ==
  [i \in DOMAIN m.fields |-> IF m.fields[i] \in Alternatives(m) THEN 0 ELSE FieldMost(m, m.fields[i])]
Longest(m) == Max({FieldMost(m, f) : f \in Alternatives(m)})

LEMMA GreatestIs == ASSUME NEW m
  PROVE GreatestSize(m) = IF Alternatives(m) = {} THEN Total(Others(m)) ELSE Total(Others(m)) + Longest(m)
  BY DEF GreatestSize, GreatestOf, GreatestField, Alternatives, Others, Longest, FieldMost, Times

LEMMA GreatestFlatIs == ASSUME NEW m, IsFlat(m) PROVE GreatestFlat(m) = GreatestSize(m)
<1> DEFINE F(f) == (Len(Tag(f.tag, 0)) + GreatestScalar(m, f)) * (IF f.label = "REPEATED" THEN m.room[f.name] ELSE 1)
           O == [i \in DOMAIN m.fields |-> IF m.fields[i] \in Alternatives(m) THEN 0 ELSE F(m.fields[i])]
           L == {F(f) : f \in Alternatives(m)}
<1>1. GreatestFlat(m) = IF Alternatives(m) = {} THEN Total(O) ELSE Total(O) + Max(L)
  BY DEF GreatestFlat, GreatestOf, GreatestField, Alternatives
<1>2. \A f \in Fields(m) : F(f) = FieldMost(m, f)
  BY DEF IsFlat, GreatestValue, FieldMost, Times
<1>3. \A i \in DOMAIN m.fields : m.fields[i] \in Fields(m)
  BY DEF Fields, ToSet
<1> HIDE DEF F
<1>4. O = Others(m)
  BY <1>2, <1>3 DEF Others
<1>5. L = {FieldMost(m, f) : f \in Alternatives(m)}
  BY <1>2 DEF Alternatives
<1> HIDE DEF O, L
<1> QED BY <1>1, <1>4, <1>5, GreatestIs DEF Longest

LEMMA LongestIs == ASSUME NEW m, SoundFields(m), Alternatives(m) # {}
  PROVE Longest(m) \in Nat /\ \A f \in Alternatives(m) : FieldMost(m, f) <= Longest(m)
<1> DEFINE S == {FieldMost(m, f) : f \in Alternatives(m)}
<1>1. PICK n \in Nat : n = (100 * 300)
  OBVIOUS
<1>2. ASSUME NEW f \in Alternatives(m) PROVE FieldMost(m, f) \in Nat /\ FieldMost(m, f) <= n
  <2>1. SoundField(m, f) /\ f.label = "ONEOF" /\ f.type # "MESSAGE"
    BY DEF Alternatives, SoundFields, SoundField
  <2>2. GreatestValue(m, f) \in Nat /\ GreatestValue(m, f) < (100 * 200)
    BY <2>1, GreatestScalarIs DEF GreatestValue
  <2>3. FieldMost(m, f) = (Len(Tag(f.tag, 0)) + GreatestValue(m, f)) * 1
    BY <2>1 DEF FieldMost, Times
  <2>4. Len(Tag(f.tag, 0)) \in Nat /\ Len(Tag(f.tag, 0)) <= 10
    <3>1. 8 * f.tag + 0 \in Nat
      BY <2>1, RoomIs
    <3> QED BY <3>1, DigitsIs, VarintIs DEF Tag
  <2> QED BY <1>1, <2>2, <2>3, <2>4
<1>3. S \in SUBSET Nat /\ S # {} /\ \A x \in S : x <= n
  BY <1>2
<1>4. \A f \in Alternatives(m) : FieldMost(m, f) \in S
  OBVIOUS
<1>5. Longest(m) = Max(S)
  BY DEF Longest
<1> HIDE DEF S
<1>6. Max(S) \in S /\ \A x \in S : x <= Max(S)
  BY <1>3, MaxIn
<1> QED BY <1>3, <1>4, <1>5, <1>6

ValueFits(m, v) == \A f \in Fields(m) : ItemsFit(m, f, v[f.name])

LEMMA MessageSize ==
  ASSUME NEW m, SoundFields(m), NEW v, ValueFits(m, v), OneMember(m, v), MessageIsBytes(m, v)
  PROVE  Len(Encode(m, v)) <= GreatestSize(m) /\ GreatestSize(m) \in Nat
<1> DEFINE g(i) == m.fields[i]
           alt == Alternatives(m)
           x(i) == v[g(i).name]
<1>0. PICK N \in Nat : N = Len(m.fields)
  BY FieldsAre
<1>1. /\ DOMAIN m.fields = 1..N
      /\ \A i \in 1..N : g(i) \in Fields(m) /\ SoundField(m, g(i)) /\ ItemsFit(m, g(i), x(i))
  BY <1>0, FieldsAre DEF SoundFields, ValueFits
<1>2. \A i, j \in 1..N : g(i) = g(j) => i = j
  BY <1>1 DEF SoundFields
<1>3. \A i \in 1..N : g(i) \in alt <=> g(i).label = "ONEOF"
  BY <1>1 DEF Alternatives
<1>4. \A i, j \in 1..N : g(i) \in alt /\ g(j) \in alt /\ i # j => x(i) = << >> \/ x(j) = << >>
  BY <1>1, <1>2, <1>3 DEF OneMember
<1>5. /\ Pieces(m, v) \in Seq(Seq(Byte)) /\ Len(Pieces(m, v)) = N
      /\ \A i \in 1..N : Pieces(m, v)[i] = FieldBytes(g(i), x(i))
  BY <1>0 DEF MessageIsBytes
<1>6. Others(m) = [i \in 1..N |-> IF g(i) \in alt THEN 0 ELSE FieldMost(m, g(i))]
  BY <1>1 DEF Others
<1>7. \A i \in 1..N : FieldMost(m, g(i)) \in Nat
  BY <1>1, TimesIs DEF ItemsFit
<1>8. \A f \in alt : \E i \in 1..N : f = g(i)
  BY <1>0, FieldsAre DEF Alternatives
<1> HIDE DEF g, alt, x
<1>9. /\ Others(m) = [i \in 1..N |-> Others(m)[i]]
      /\ \A i \in 1..N : Others(m)[i] = IF g(i) \in alt THEN 0 ELSE FieldMost(m, g(i))
  BY <1>6
<1>10. \A i \in 1..N : Others(m)[i] \in Nat
  BY <1>7, <1>9
<1>11. Others(m) \in Seq(Nat) /\ Len(Others(m)) = N
  BY <1>9, <1>10, PiecesAre
<1>12. PICK P : Joined(Pieces(m, v), P)
  BY <1>5, JoinedExists
<1>13. PICK U : Summed(Others(m), U)
  BY <1>11, SummedExists
<1>14. Encode(m, v) = P[N] /\ Total(Others(m)) = U[N] /\ U[N] \in Nat
  BY <1>5, <1>11, <1>12, <1>13, EncodeIs, FlattenIs, TotalIs
<1>15. PICK M \in Nat : /\ \A i \in 1..N : g(i) \in alt => FieldMost(m, g(i)) <= M
                        /\ GreatestSize(m) = U[N] + M
                        /\ alt = {} => M = 0
  <2>1. CASE alt = {}
    <3>1. GreatestSize(m) = U[N] + 0
      BY <1>14, <2>1, GreatestIs DEF alt
    <3> QED BY <2>1, <3>1
  <2>2. CASE alt # {}
    <3>1. /\ Longest(m) \in Nat /\ \A f \in alt : FieldMost(m, f) <= Longest(m)
          /\ GreatestSize(m) = U[N] + Longest(m)
      BY <1>14, <2>2, GreatestIs, LongestIs DEF alt
    <3> QED BY <2>2, <3>1
  <2> QED BY <2>1, <2>2
<1>16. /\ \A i \in 1..N : U[i - 1] \in Nat /\ U[i] \in Nat /\ U[i] = U[i - 1] + Others(m)[i]
       /\ U[0] = 0
  <2>1. \A i \in 1..N : i \in 0..N /\ i - 1 \in 0..N
    OBVIOUS
  <2>2. \A i \in 0..N : U[i] \in Nat
    BY <1>11, <1>13 DEF Summed
  <2> QED BY <1>11, <1>13, <2>1, <2>2 DEF Summed
<1>17. /\ \A i \in 0..N : Len(P[i]) \in Nat
       /\ \A i \in 1..N : Len(P[i]) = Len(P[i - 1]) + Len(FieldBytes(g(i), x(i)))
       /\ \A i \in 1..N : Len(FieldBytes(g(i), x(i))) \in Nat
       /\ Len(P[0]) = 0
  <2>1. /\ \A i \in 0..N : Len(P[i]) \in Nat
        /\ \A i \in 1..N : Len(P[i]) = Len(P[i - 1]) + Len(Pieces(m, v)[i]) /\ Len(Pieces(m, v)[i]) \in Nat
    BY <1>5, <1>12, JoinedGrows
  <2>2. Len(P[0]) = 0
    BY <1>12 DEF Joined
  <2> QED BY <1>5, <2>1, <2>2
<1>18. \A i \in 1..N : Len(FieldBytes(g(i), x(i))) <= FieldMost(m, g(i)) /\ (x(i) = << >> => Len(FieldBytes(g(i), x(i))) = 0)
  <2> TAKE i \in 1..N
  <2>1. Len(FieldBytes(g(i), x(i))) <= FieldMost(m, g(i)) /\ (x(i) = << >> => FieldBytes(g(i), x(i)) = << >>)
    BY <1>1, FieldSize
  <2>2. Len(<< >>) = 0
    OBVIOUS
  <2> QED BY <2>1, <2>2
<1> DEFINE None(k) == \A i \in 1..k : g(i) \in alt => x(i) = << >>
           H == {k \in Nat : k <= N => /\ Len(P[k]) <= U[k] + M
                                       /\ None(k) => Len(P[k]) <= U[k]}
<1>19. 0 \in H
  BY <1>16, <1>17
<1>20. ASSUME NEW k \in Nat, k \in H PROVE k + 1 \in H
  <2> SUFFICES ASSUME k + 1 <= N
               PROVE  /\ Len(P[k + 1]) <= U[k + 1] + M
                      /\ None(k + 1) => Len(P[k + 1]) <= U[k + 1]
    OBVIOUS
  <2>1. k + 1 \in 1..N /\ k + 1 - 1 = k /\ k \in 0..N /\ k <= N /\ k + 1 \in 0..N /\ (\A i \in 1..k : i \in 1..N /\ i # k + 1)
        /\ 1..k \subseteq 1..(k + 1) /\ k + 1 \in 1..(k + 1)
    OBVIOUS
  <2>2. Len(P[k]) <= U[k] + M /\ (None(k) => Len(P[k]) <= U[k])
    BY <1>20, <2>1
  <2>3. PICK l \in Nat : /\ l = Len(FieldBytes(g(k + 1), x(k + 1)))
                         /\ Len(P[k + 1]) = Len(P[k]) + l
                         /\ l <= FieldMost(m, g(k + 1)) /\ (x(k + 1) = << >> => l = 0)
    BY <1>17, <1>18, <2>1
  <2>4. /\ U[k + 1] = U[k] + Others(m)[k + 1] /\ U[k] \in Nat /\ U[k + 1] \in Nat
        /\ Others(m)[k + 1] = IF g(k + 1) \in alt THEN 0 ELSE FieldMost(m, g(k + 1))
        /\ FieldMost(m, g(k + 1)) \in Nat
        /\ Len(P[k]) \in Nat /\ Len(P[k + 1]) \in Nat
    BY <1>7, <1>9, <1>16, <1>17, <2>1
  <2>5. None(k + 1) => None(k)
    BY <2>1
  <2>51. PICK a \in Nat, b \in Nat, u \in Nat, w \in Nat, h \in Nat :
           /\ a = Len(P[k]) /\ b = Len(P[k + 1]) /\ u = U[k] /\ w = U[k + 1] /\ h = FieldMost(m, g(k + 1))
    BY <2>4, Zenon
  <2>52. /\ b = a + l /\ l <= h /\ (x(k + 1) = << >> => l = 0)
         /\ w = u + Others(m)[k + 1]
         /\ Others(m)[k + 1] = IF g(k + 1) \in alt THEN 0 ELSE h
         /\ a <= u + M /\ (None(k) => a <= u)
    BY <2>2, <2>3, <2>4, <2>51, Zenon
  <2>53. (b <= w + M /\ (None(k + 1) => b <= w)) =>
         (Len(P[k + 1]) <= U[k + 1] + M /\ (None(k + 1) => Len(P[k + 1]) <= U[k + 1]))
    BY <2>51, Zenon
  <2>6. CASE g(k + 1) \notin alt
    <3> HIDE DEF None
    <3>1. w = u + h
      BY <2>52, <2>6
    <3>2. b <= w + M /\ (None(k + 1) => b <= w)
      BY <2>5, <2>52, <3>1
    <3> QED BY <2>53, <3>2
  <2>7. CASE g(k + 1) \in alt /\ x(k + 1) = << >>
    <3> HIDE DEF None
    <3>1. w = u /\ b = a
      BY <2>52, <2>7
    <3>2. b <= w + M /\ (None(k + 1) => b <= w)
      BY <2>5, <2>52, <3>1
    <3> QED BY <2>53, <3>2
  <2>8. CASE g(k + 1) \in alt /\ x(k + 1) # << >>
    <3>1. None(k)
      BY <1>4, <2>1, <2>8
    <3>2. ~None(k + 1)
      BY <2>1, <2>8
    <3>3. FieldMost(m, g(k + 1)) <= M
      BY <1>15, <2>1, <2>8
    <3>4. h <= M
      BY <2>51, <3>3, Zenon
    <3> HIDE DEF None
    <3>5. w = u
      BY <2>52, <2>8
    <3>6. b <= w + M /\ (None(k + 1) => b <= w)
      BY <2>52, <3>1, <3>2, <3>4, <3>5
    <3> QED BY <2>53, <3>6
  <2> QED BY <2>6, <2>7, <2>8
<1> HIDE DEF H
<1>21. N \in H
  BY <1>19, <1>20, Induction
<1>22. Len(P[N]) <= U[N] + M
  BY <1>21 DEF H
<1> QED BY <1>14, <1>15, <1>22

\* An array has no more elements than there is room for, another field one.
LEMMA GoodCount == ASSUME NEW m, NEW f, SoundField(m, f), NEW xs, FieldGood(m, f, xs) PROVE Len(xs) <= Times(m, f)
<1>1. CASE f.label = "REPEATED"
  <2>1. Times(m, f) = m.room[f.name]
    BY <1>1, Zenon DEF Times
  <2> QED BY <1>1, <2>1, Zenon DEF FieldGood
<1>2. CASE f.label # "REPEATED"
  <2>1. Times(m, f) = 1
    BY <1>2, Zenon DEF Times
  <2>2. Len(xs) = 1 \/ Len(xs) <= 1
    BY <1>2, Zenon DEF FieldGood, SoundField
  <2>3. 1 <= 1
    OBVIOUS
  <2>4. Len(xs) <= 1
    BY <2>2, <2>3, Zenon
  <2> QED BY <2>1, <2>4, Zenon
<1> QED BY <1>1, <1>2

LEMMA FlatFits ==
  ASSUME NEW m, SoundFields(m), IsFlat(m), NEW v, FlatValue(m, v), FlatHasRoom(m, v), FlatDeclared(m, v)
  PROVE  Len(EncodeFlat(m, v)) <= GreatestFlat(m)
<1>1. Good(m, v) /\ Sound(m)
  BY FlatGood, FlatSound DEF Good
<1>2. (\A f \in Fields(m) : FieldGood(m, f, v[f.name])) /\ OneMember(m, v)
  BY <1>1, GoodIs
<1>3. MessageIsBytes(m, v)
  BY FlatBytes
<1>4. ASSUME NEW f \in Fields(m) PROVE ItemsFit(m, f, v[f.name])
  <2>1. f.type # "MESSAGE" /\ SoundField(m, f) /\ FieldGood(m, f, v[f.name])
    BY <1>2 DEF IsFlat, SoundFields
  <2>2. Sequence(v[f.name]) /\ \A i \in DOMAIN v[f.name] : Scalar(f, v[f.name][i]) /\ ValueHasRoom(m, f, v[f.name][i])
    BY <2>1 DEF FieldGood, ItemIs
  <2>3. (\A x : EncodeValue(f, x) = EncodeScalar(f, x)) /\ GreatestValue(m, f) = GreatestScalar(m, f)
    BY <2>1 DEF EncodeValue, GreatestValue
  <2>4. ItemsAreBytes(f, v[f.name])
    BY <2>1, <2>2, <2>3, ScalarBytes DEF ItemsAreBytes
  <2>5. \A i \in DOMAIN v[f.name] : ShortEnum(f, v[f.name][i])
    BY DEF FlatDeclared, ShortEnum
  <2>6. \A i \in DOMAIN v[f.name] : Len(EncodeValue(f, v[f.name][i])) <= GreatestValue(m, f)
    BY <2>1, <2>2, <2>3, <2>5, ScalarSize
  <2> QED BY <2>1, <2>3, <2>4, <2>6, GreatestScalarIs, GoodCount DEF ItemsFit
<1>5. Len(Encode(m, v)) <= GreatestSize(m)
  BY <1>2, <1>3, <1>4, MessageSize DEF ValueFits
<1> QED BY <1>5, EncodeFlatIs, GreatestFlatIs

LEMMA Limited == ASSUME NEW n \in 0..Limit PROVE \E k \in Nat : k = n /\ k < (100 * 100)
  BY DEF Limit

\* What the encoder writes of a value that its structure has room for is never
\* longer than the greatest size that the descriptor allows.
THEOREM EncodedFits ==
  ASSUME NEW m, Sound(m), NEW v, IsValue(m, v), HasRoom(m, v), Declared(m, v)
  PROVE  Len(Encode(m, v)) <= GreatestSize(m)
<1>1. Good(m, v) /\ SoundFields(m)
  BY DEF Good, Sound
<1>2. (\A f \in Fields(m) : FieldGood(m, f, v[f.name])) /\ OneMember(m, v)
  BY <1>1, GoodIs
<1>3. MessageIsBytes(m, v)
  BY EncodedIsBytes
<1>4. ASSUME NEW f \in Fields(m) PROVE ItemsFit(m, f, v[f.name])
  <2>1. SoundField(m, f) /\ FieldGood(m, f, v[f.name])
    BY <1>1, <1>2 DEF SoundFields
  <2>2. Sequence(v[f.name]) /\ \A i \in DOMAIN v[f.name] : ItemIs(m, f, v[f.name][i])
    BY <2>1 DEF FieldGood
  <2>3. \A i \in DOMAIN v[f.name] : IsItem(f, v[f.name][i])
    BY <2>2 DEF ItemIs, IsItem
  <2>4. ItemsAreBytes(f, v[f.name])
    BY <2>2, <2>3, ItemsBytes DEF ItemsAreBytes
  <2>5. GreatestValue(m, f) \in Nat /\ \A i \in DOMAIN v[f.name] : Len(EncodeValue(f, v[f.name][i])) <= GreatestValue(m, f)
    <3>1. CASE f.type # "MESSAGE"
      <4>1. (\A x : EncodeValue(f, x) = EncodeScalar(f, x)) /\ GreatestValue(m, f) = GreatestScalar(m, f)
        BY <3>1 DEF EncodeValue, GreatestValue
      <4>2. \A i \in DOMAIN v[f.name] : ShortEnum(f, v[f.name][i])
        BY DEF Declared, FlatDeclared, ShortEnum
      <4>3. \A i \in DOMAIN v[f.name] : Scalar(f, v[f.name][i]) /\ ValueHasRoom(m, f, v[f.name][i])
        BY <2>2, <3>1 DEF ItemIs
      <4> QED BY <2>1, <3>1, <4>1, <4>2, <4>3, ScalarSize, GreatestScalarIs
    <3>2. CASE f.type = "MESSAGE"
      <4> DEFINE sub == f.of
      <4>1. SoundFields(sub) /\ IsFlat(sub) /\ GreatestFlat(sub) \in 0..Limit
        BY <3>2 DEF Sound
      <4>2. GreatestValue(m, f) = SizedLength(GreatestFlat(sub))
        BY <3>2 DEF GreatestValue
      <4>3. PICK n \in Nat : n = GreatestFlat(sub) /\ n < (100 * 100)
        BY <4>1, Limited
      <4>4. SizedLength(n) \in Nat
        BY <4>3, SizedLengthGrows
      <4>5. ASSUME NEW i \in DOMAIN v[f.name]
            PROVE  Len(EncodeValue(f, v[f.name][i])) <= GreatestValue(m, f)
        <5> DEFINE x == v[f.name][i]
        <5>1. FlatValue(sub, x) /\ FlatHasRoom(sub, x)
          BY <2>2, <3>2 DEF ItemIs
        <5>2. FlatDeclared(sub, x)
          BY <3>2 DEF Declared
        <5>3. EncodeValue(f, x) = Sized(EncodeFlat(sub, x))
          BY <3>2 DEF EncodeValue
        <5> HIDE DEF x, sub
        <5>4. EncodeFlat(sub, x) \in Seq(Byte) /\ Len(EncodeFlat(sub, x)) <= n
          BY <4>1, <4>3, <5>1, <5>2, FlatBytes, FlatFits
        <5>5. Len(EncodeFlat(sub, x)) \in Nat
          BY <5>4
        <5>6. Len(Sized(EncodeFlat(sub, x))) = SizedLength(Len(EncodeFlat(sub, x)))
          BY <5>4, SizedBytes DEF SizedLength
        <5>7. SizedLength(Len(EncodeFlat(sub, x))) <= SizedLength(n)
          BY <4>3, <5>4, <5>5, SizedLengthGrows
        <5>8. Len(EncodeValue(f, x)) <= SizedLength(n)
          BY <5>3, <5>6, <5>7
        <5> QED BY <4>2, <4>3, <5>8 DEF x
      <4> QED BY <4>2, <4>3, <4>4, <4>5
    <3> QED BY <3>1, <3>2
  <2> QED BY <2>1, <2>4, <2>5, GoodCount DEF ItemsFit
<1> QED BY <1>1, <1>2, <1>3, <1>4, MessageSize DEF ValueFits

-----------------------------------------------------------------------------
(* What the steps of the decoder do with a piece of a message.              *)

-----------------------------------------------------------------------------
(* What bytes at the head of a stream do to what has been read before them. *)

Moves(k, m, f, w, b, x) ==
  b \in Seq(Byte) /\ \A r \in Seq(Byte) : Steps(k, m, f, w, b \o r) = Steps(k, m, f, x, r)
Fails(k, m, f, w, b) ==
  b \in Seq(Byte) /\ \A r \in Seq(Byte) : Steps(k, m, f, w, b \o r) = NotRead

LEMMA JoinIs == ASSUME NEW a \in Seq(Byte), NEW b \in Seq(Byte)
  PROVE a \o b \in Seq(Byte) /\ \A r \in Seq(Byte) : (a \o b) \o r = a \o (b \o r) /\ b \o r \in Seq(Byte)
  OBVIOUS

LEMMA NothingMoves == ASSUME NEW k, NEW m, NEW f, NEW w PROVE Moves(k, m, f, w, << >>, w)
<1>1. << >> \in Seq(Byte) /\ \A r \in Seq(Byte) : << >> \o r = r
  OBVIOUS
<1> QED BY <1>1 DEF Moves

LEMMA MovesMore ==
  ASSUME NEW k, NEW m, NEW f, NEW w, NEW a, NEW x, Moves(k, m, f, w, a, x), NEW b, NEW y
  PROVE  /\ Moves(k, m, f, x, b, y) => Moves(k, m, f, w, a \o b, y)
         /\ Fails(k, m, f, x, b) => Fails(k, m, f, w, a \o b)
<1>1. a \in Seq(Byte) /\ \A r \in Seq(Byte) : Steps(k, m, f, w, a \o r) = Steps(k, m, f, x, r)
  BY DEF Moves
<1>2. ASSUME Moves(k, m, f, x, b, y) PROVE Moves(k, m, f, w, a \o b, y)
  <2>1. b \in Seq(Byte) /\ \A r \in Seq(Byte) : Steps(k, m, f, x, b \o r) = Steps(k, m, f, y, r)
    BY <1>2 DEF Moves
  <2>2. a \o b \in Seq(Byte) /\ \A r \in Seq(Byte) : (a \o b) \o r = a \o (b \o r) /\ b \o r \in Seq(Byte)
    BY <1>1, <2>1, JoinIs
  <2> QED BY <1>1, <2>1, <2>2, Zenon DEF Moves
<1>3. ASSUME Fails(k, m, f, x, b) PROVE Fails(k, m, f, w, a \o b)
  <2>1. b \in Seq(Byte) /\ \A r \in Seq(Byte) : Steps(k, m, f, x, b \o r) = NotRead
    BY <1>3 DEF Fails
  <2>2. a \o b \in Seq(Byte) /\ \A r \in Seq(Byte) : (a \o b) \o r = a \o (b \o r) /\ b \o r \in Seq(Byte)
    BY <1>1, <2>1, JoinIs
  <2> QED BY <1>1, <2>1, <2>2, Zenon DEF Fails
<1> QED BY <1>2, <1>3

LEMMA FailsMore == ASSUME NEW k, NEW m, NEW f, NEW w, NEW a, Fails(k, m, f, w, a), NEW b \in Seq(Byte)
  PROVE Fails(k, m, f, w, a \o b)
<1>1. a \in Seq(Byte) /\ \A r \in Seq(Byte) : Steps(k, m, f, w, a \o r) = NotRead
  BY DEF Fails
<1>2. a \o b \in Seq(Byte) /\ \A r \in Seq(Byte) : (a \o b) \o r = a \o (b \o r) /\ b \o r \in Seq(Byte)
  BY <1>1, JoinIs
<1> QED BY <1>1, <1>2, Zenon DEF Fails

\* Pieces one after the other: those in C are read, the first that is not ends it.
LEMMA Chain ==
  ASSUME NEW k, NEW m, NEW f, NEW ss \in Seq(Seq(Byte)), NEW z, NEW C,
         \A i \in 1..Len(ss) : /\ i \in C => Moves(k, m, f, z[i - 1], ss[i], z[i])
                               /\ i \notin C => Fails(k, m, f, z[i - 1], ss[i])
  PROVE  /\ 1..Len(ss) \subseteq C => Moves(k, m, f, z[0], FlattenSeq(ss), z[Len(ss)])
         /\ ~(1..Len(ss) \subseteq C) => Fails(k, m, f, z[0], FlattenSeq(ss))
<1>1. PICK P : Joined(ss, P)
  BY JoinedExists
<1>2. FlattenSeq(ss) = P[Len(ss)] /\ Len(ss) \in Nat
  BY <1>1, FlattenIs
<1>3. P[0] = << >> /\ \A i \in 1..Len(ss) : P[i] = P[i - 1] \o ss[i] /\ ss[i] \in Seq(Byte)
  <2>1. \A i \in 1..Len(ss) : ss[i] \in Seq(Byte)
    OBVIOUS
  <2>2. P[0] = << >> /\ \A i \in 1..Len(ss) : P[i] = P[i - 1] \o ss[i]
    BY <1>1, Zenon DEF Joined
  <2> QED BY <2>1, <2>2, Zenon
<1> DEFINE Done(n) == /\ 1..n \subseteq C => Moves(k, m, f, z[0], P[n], z[n])
                      /\ ~(1..n \subseteq C) => Fails(k, m, f, z[0], P[n])
           H == {n \in Nat : n <= Len(ss) => Done(n)}
<1>4. 0 \in H
  <2>1. 1..0 \subseteq C
    OBVIOUS
  <2>2. Moves(k, m, f, z[0], P[0], z[0])
    BY <1>3, NothingMoves
  <2> QED BY <2>1, <2>2
<1>5. ASSUME NEW n \in Nat, n \in H PROVE n + 1 \in H
  <2> SUFFICES ASSUME n + 1 <= Len(ss) PROVE Done(n + 1)
    OBVIOUS
  <2>1. Done(n) /\ n + 1 \in 1..Len(ss) /\ (n + 1) - 1 = n
    BY <1>2, <1>5
  <2>2. P[n + 1] = P[n] \o ss[n + 1] /\ ss[n + 1] \in Seq(Byte)
    BY <1>3, <2>1
  <2>3. /\ n + 1 \in C => Moves(k, m, f, z[n], ss[n + 1], z[n + 1])
        /\ n + 1 \notin C => Fails(k, m, f, z[n], ss[n + 1])
    BY <2>1
  <2>4. 1..(n + 1) \subseteq C <=> 1..n \subseteq C /\ n + 1 \in C
    <3>1. \A i : i \in 1..(n + 1) <=> i \in 1..n \/ i = n + 1
      OBVIOUS
    <3> QED BY <3>1
  <2>5. CASE 1..n \subseteq C
    <3>1. Moves(k, m, f, z[0], P[n], z[n])
      BY <2>1, <2>5
    <3> QED BY <2>2, <2>3, <2>4, <2>5, <3>1, MovesMore
  <2>6. CASE ~(1..n \subseteq C)
    <3>1. Fails(k, m, f, z[0], P[n])
      BY <2>1, <2>6
    <3> QED BY <2>2, <2>4, <2>6, <3>1, FailsMore
  <2> QED BY <2>5, <2>6
<1> HIDE DEF H
<1>6. Len(ss) \in H
  BY <1>2, <1>4, <1>5, Induction
<1>7. Done(Len(ss))
  <2>1. Len(ss) <= Len(ss)
    BY <1>2
  <2> QED BY <1>6, <2>1, Zenon DEF H
<1> QED BY <1>2, <1>7

-----------------------------------------------------------------------------
(* One step of the loop that decodes a message.                             *)

StepOf(m, w, s) == OneStep("message", m, m, w, s)

LEMMA MessageStepIs == ASSUME NEW m, SoundFields(m), NEW w, NEW s \in Seq(Byte), s # << >>
  PROVE /\ StepOf(m, w, s).ok =>
             Steps("message", m, m, w, s) = Steps("message", m, m, StepOf(m, w, s).value, StepOf(m, w, s).rest)
        /\ StepOf(m, w, s) = NotRead => Steps("message", m, m, w, s) = NotRead
  BY MessageShrinks, StepsAre DEF StepOf

NextOf(m, w, tag, s) == DecodeNext(ReadValue, m, w, tag, s)
FieldOfTag(m, w, f, wt, s) == ReadField(ReadValue, m, w, f, wt, s)

LEMMA TagThen == ASSUME NEW m, NEW w, NEW s, NEW tag, NEW r, ReadTag(s) = Read(tag, r)
  PROVE StepOf(m, w, s) = NextOf(m, w, tag, r)
<1>1. StepOf(m, w, s) = IF ReadTag(s).ok THEN NextOf(m, w, ReadTag(s).value, ReadTag(s).rest) ELSE NotRead
  BY Zenon DEF StepOf, OneStep, Then, NextOf
<1>2. Read(tag, r).ok = TRUE /\ Read(tag, r).value = tag /\ Read(tag, r).rest = r
  BY ReadParts
<1> QED BY <1>1, <1>2, Zenon

TagNumber(n) == n \in Nat /\ n < (100 * 1000)
WireType(wt) == wt \in Nat /\ wt < 8

LEMMA TagIn == ASSUME NEW n, TagNumber(n), NEW wt, WireType(wt)
  PROVE Tag(n, wt) \in Seq(Byte) /\ Len(Tag(n, wt)) \in Nat /\ 1 <= Len(Tag(n, wt))
<1>1. 8 * n + wt \in Nat
  <2>1. n \in Nat /\ wt \in Nat
    BY DEF TagNumber, WireType
  <2> QED BY <2>1
<1>2. Pattern(Digits(8 * n + wt))
  BY <1>1, DigitsIs
<1> QED BY <1>2, VarintIs DEF Tag

LEMMA TagNot == ASSUME NEW m, NEW w, NEW s, ReadTag(s) = NotRead PROVE StepOf(m, w, s) = NotRead
<1>1. StepOf(m, w, s) = IF ReadTag(s).ok THEN NextOf(m, w, ReadTag(s).value, ReadTag(s).rest) ELSE NotRead
  BY Zenon DEF StepOf, OneStep, Then, NextOf
<1> QED BY <1>1, NotReadParts

LEMMA KnownTag == ASSUME NEW m, SoundFields(m), NEW w, NEW f \in Fields(m), NEW wt, NEW s
  PROVE NextOf(m, w, [number |-> f.tag, wireType |-> wt], s) = FieldOfTag(m, w, f, wt, s)
<1> DEFINE tag == [number |-> f.tag, wireType |-> wt]
<1>1. tag.number = f.tag /\ tag.wireType = wt
  OBVIOUS
<1>2. f.tag # 0 /\ FieldsOf(m, f.tag) # {} /\ (CHOOSE g \in FieldsOf(m, f.tag) : TRUE) = f
  BY ByName, RoomIs
<1> HIDE DEF tag
<1>3. NextOf(m, w, tag, s) = FieldOfTag(m, w, CHOOSE g \in FieldsOf(m, tag.number) : TRUE, tag.wireType, s)
  BY <1>1, <1>2, Zenon DEF NextOf, DecodeNext, FieldOfTag
<1> QED BY <1>1, <1>2, <1>3 DEF tag

LEMMA UnknownTag ==
  ASSUME NEW m, NEW w, NEW n, n # 0, FieldsOf(m, n) = {}, NEW wt, NEW s
  PROVE  NextOf(m, w, [number |-> n, wireType |-> wt], s) =
           IF Skip(s, wt).ok THEN Read(w, Skip(s, wt).rest) ELSE NotRead
<1> DEFINE tag == [number |-> n, wireType |-> wt]
<1>1. tag.number = n /\ tag.wireType = wt
  OBVIOUS
<1> HIDE DEF tag
<1>2. NextOf(m, w, tag, s) = IF Skip(s, tag.wireType).ok THEN Read(w, Skip(s, tag.wireType).rest) ELSE NotRead
  BY <1>1, Zenon DEF NextOf, DecodeNext, Then
<1> QED BY <1>1, <1>2 DEF tag

\* A tag and what follows it.
LEMMA StepsOn == ASSUME NEW m, SoundFields(m), NEW w, NEW s \in Seq(Byte), s # << >>, NEW x, NEW r,
                        StepOf(m, w, s) = Read(x, r)
  PROVE Steps("message", m, m, w, s) = Steps("message", m, m, x, r)
<1>1. StepOf(m, w, s).ok = TRUE /\ StepOf(m, w, s).value = x /\ StepOf(m, w, s).rest = r
  <2>1. Read(x, r).ok = TRUE /\ Read(x, r).value = x /\ Read(x, r).rest = r
    BY ReadParts
  <2> QED BY <2>1
<1>2. Steps("message", m, m, w, s) = Steps("message", m, m, StepOf(m, w, s).value, StepOf(m, w, s).rest)
  BY <1>1, MessageStepIs
<1> QED BY <1>1, <1>2

LEMMA TagStep == ASSUME NEW m, NEW w, NEW n, TagNumber(n), NEW wt, WireType(wt), NEW b \in Seq(Byte)
  PROVE /\ Tag(n, wt) \o b \in Seq(Byte) /\ Tag(n, wt) \o b # << >>
        /\ StepOf(m, w, Tag(n, wt) \o b) = NextOf(m, w, [number |-> n, wireType |-> wt], b)
<1>1. Tag(n, wt) \in Seq(Byte) /\ Len(Tag(n, wt)) \in Nat /\ 1 <= Len(Tag(n, wt))
  BY TagIn
<1>3. ReadTag(Tag(n, wt) \o b) = Read([number |-> n, wireType |-> wt], b)
  BY TagIs DEF TagNumber, WireType
<1>2. Tag(n, wt) \o b \in Seq(Byte) /\ Tag(n, wt) \o b # << >>
  BY <1>1
<1> QED BY <1>2, <1>3, TagThen

LEMMA FieldMoves ==
  ASSUME NEW m, SoundFields(m), NEW w, NEW f \in Fields(m), NEW wt, WireType(wt), NEW b \in Seq(Byte), NEW x
  PROVE  /\ (\A r \in Seq(Byte) : FieldOfTag(m, w, f, wt, b \o r) = Read(x, r))
                => Moves("message", m, m, w, Tag(f.tag, wt) \o b, x)
         /\ (\A r \in Seq(Byte) : FieldOfTag(m, w, f, wt, b \o r) = NotRead)
                => Fails("message", m, m, w, Tag(f.tag, wt) \o b)
<1>0. TagNumber(f.tag)
  BY ByName, TagBytes DEF TagNumber
<1> DEFINE t == Tag(f.tag, wt)
<1>1. t \in Seq(Byte) /\ t \o b \in Seq(Byte)
  <2>1. t \in Seq(Byte)
    BY <1>0, TagIn
  <2> HIDE DEF t
  <2> QED BY <1>0, <2>1
<1>2. ASSUME NEW r \in Seq(Byte)
      PROVE  /\ (t \o b) \o r \in Seq(Byte) /\ (t \o b) \o r # << >>
             /\ StepOf(m, w, (t \o b) \o r) = FieldOfTag(m, w, f, wt, b \o r)
  <2>1. (t \o b) \o r = t \o (b \o r) /\ b \o r \in Seq(Byte)
    BY <1>1
  <2>2. /\ t \o (b \o r) \in Seq(Byte) /\ t \o (b \o r) # << >>
        /\ StepOf(m, w, t \o (b \o r)) = NextOf(m, w, [number |-> f.tag, wireType |-> wt], b \o r)
    <3>1. b \o r \in Seq(Byte)
      BY <2>1
    <3>2. PICK s \in Seq(Byte) : s = b \o r
      BY <3>1
    <3>3. /\ Tag(f.tag, wt) \o s \in Seq(Byte) /\ Tag(f.tag, wt) \o s # << >>
          /\ StepOf(m, w, Tag(f.tag, wt) \o s) = NextOf(m, w, [number |-> f.tag, wireType |-> wt], s)
      BY <1>0, TagStep
    <3> QED BY <3>2, <3>3
  <2> HIDE DEF t
  <2> QED BY <2>1, <2>2, KnownTag
<1> HIDE DEF t
<1>3. ASSUME \A r \in Seq(Byte) : FieldOfTag(m, w, f, wt, b \o r) = Read(x, r)
      PROVE  Moves("message", m, m, w, t \o b, x)
  <2>1. ASSUME NEW r \in Seq(Byte) PROVE Steps("message", m, m, w, (t \o b) \o r) = Steps("message", m, m, x, r)
    <3>1. StepOf(m, w, (t \o b) \o r) = Read(x, r)
      BY <1>2, <1>3
    <3>2. (t \o b) \o r \in Seq(Byte) /\ (t \o b) \o r # << >>
      BY <1>2
    <3>3. PICK s \in Seq(Byte) : s = (t \o b) \o r
      BY <3>2
    <3>4. StepOf(m, w, s) = Read(x, r) /\ s # << >>
      BY <3>1, <3>2, <3>3
    <3>5. Steps("message", m, m, w, s) = Steps("message", m, m, x, r)
      BY <3>4, StepsOn
    <3> QED BY <3>3, <3>5
  <2> QED BY <1>1, <2>1 DEF Moves
<1>4. ASSUME \A r \in Seq(Byte) : FieldOfTag(m, w, f, wt, b \o r) = NotRead
      PROVE  Fails("message", m, m, w, t \o b)
  <2>1. ASSUME NEW r \in Seq(Byte) PROVE Steps("message", m, m, w, (t \o b) \o r) = NotRead
    <3>1. StepOf(m, w, (t \o b) \o r) = NotRead
      BY <1>2, <1>4
    <3> QED BY <1>2, <3>1, MessageStepIs
  <2> QED BY <1>1, <2>1 DEF Fails
<1> QED BY <1>3, <1>4 DEF t

\* Fields that are not known are skipped.
LEMMA StrangerMoves ==
  ASSUME NEW m, SoundFields(m), NEW w, NEW n, n # 0, TagNumber(n), FieldsOf(m, n) = {},
         NEW wt, WireType(wt), NEW b, Skippable(b, wt)
  PROVE  Moves("message", m, m, w, Tag(n, wt) \o b, w)
<1> DEFINE t == Tag(n, wt)
<1>0. b \in Seq(Byte) /\ \A r \in Seq(Byte) : Skip(b \o r, wt).ok = TRUE /\ Skip(b \o r, wt).rest = r
  BY DEF Skippable
<1>1. t \in Seq(Byte) /\ t \o b \in Seq(Byte)
  <2>1. t \in Seq(Byte)
    BY <1>0, TagIn
  <2> HIDE DEF t
  <2> QED BY <1>0, <2>1
<1>2. ASSUME NEW r \in Seq(Byte) PROVE Steps("message", m, m, w, (t \o b) \o r) = Steps("message", m, m, w, r)
  <2>1. (t \o b) \o r = t \o (b \o r) /\ b \o r \in Seq(Byte)
    BY <1>0, <1>1
  <2>2. /\ t \o (b \o r) \in Seq(Byte) /\ t \o (b \o r) # << >>
        /\ StepOf(m, w, t \o (b \o r)) = NextOf(m, w, [number |-> n, wireType |-> wt], b \o r)
    <3>1. b \o r \in Seq(Byte)
      BY <2>1
    <3>2. PICK s \in Seq(Byte) : s = b \o r
      BY <3>1
    <3>3. /\ Tag(n, wt) \o s \in Seq(Byte) /\ Tag(n, wt) \o s # << >>
          /\ StepOf(m, w, Tag(n, wt) \o s) = NextOf(m, w, [number |-> n, wireType |-> wt], s)
      BY TagStep
    <3> QED BY <3>2, <3>3
  <2> HIDE DEF t
  <2>3. StepOf(m, w, t \o (b \o r)) = Read(w, r)
    <3>1. NextOf(m, w, [number |-> n, wireType |-> wt], b \o r) =
            IF Skip(b \o r, wt).ok THEN Read(w, Skip(b \o r, wt).rest) ELSE NotRead
      BY UnknownTag, Zenon
    <3> QED BY <1>0, <2>2, <3>1, Zenon
  <2>4. Steps("message", m, m, w, t \o (b \o r)) = Steps("message", m, m, w, r)
    <3>1. PICK s \in Seq(Byte) : s = t \o (b \o r)
      BY <2>2
    <3>2. StepOf(m, w, s) = Read(w, r) /\ s # << >>
      BY <2>2, <2>3, <3>1
    <3>3. Steps("message", m, m, w, s) = Steps("message", m, m, w, r)
      BY <3>2, StepsOn
    <3> QED BY <3>1, <3>3
  <2> QED BY <2>1, <2>4, Zenon
<1> HIDE DEF t
<1> QED BY <1>1, <1>2 DEF Moves, t

-----------------------------------------------------------------------------
(* One value, written and read.                                             *)

\* Short enough for a length of three digits.
Brief(b) == b \in Seq(Byte) /\ Len(b) < (128 * 128 * 128)

LEMMA RoomOf == ASSUME NEW m, NEW f, NEW x
  PROVE /\ f.type # "STRING" /\ f.type # "BYTES" => ValueHasRoom(m, f, x)
        /\ f.type = "STRING" => (ValueHasRoom(m, f, x) <=> Len(x) < m.room[f.name])
        /\ f.type = "BYTES" => (ValueHasRoom(m, f, x) <=> Len(x) <= m.room[f.name])
  BY DEF ValueHasRoom

LEMMA NumberRead ==
  ASSUME NEW m, NEW f, SoundField(m, f), NEW x, Scalar(f, x), NEW r \in Seq(Byte)
  PROVE  LET s == EncodeScalar(f, x) \o r
         IN  /\ f.type \in Unsigned => ReadUnsigned(f, s) = Read(x, r)
             /\ f.type \in Signed => ReadSigned(f, s) = Read(x, r)
             /\ f.type \in ZigZags => ReadZigZag(f, s) = Read(x, r)
             /\ f.type \in Fixed => Take(s, Bytes[f.type]) = Read(x, r)
             /\ f.type = "BOOL" => ReadBool(s) = Read(x, r)
<1> DEFINE s == EncodeScalar(f, x) \o r
           v == ReadVarint(s)
           b == ReadVarint32(s)
           z == ReadSVarint(s)
<1>0. TypeSets(f)
  BY DEF TypeSets, Unsigned, Signed, ZigZags, Fixed, Delimited
<1>1. /\ ReadUnsigned(f, s) = IF v.ok THEN ReadIf(Fits(v.value, Bytes[f.type]), v.value, v.rest) ELSE NotRead
      /\ ReadSigned(f, s) = IF v.ok THEN Read(IF f.type = "INT32" THEN Int32(v.value) ELSE v.value, v.rest) ELSE NotRead
  BY Zenon DEF ReadUnsigned, ReadSigned, Then
<1>2. ReadZigZag(f, s) = IF z.ok THEN ReadIf(f.type = "SINT32" => z.value = Int32(z.value), z.value, z.rest) ELSE NotRead
  BY Zenon DEF ReadZigZag, Then
<1>3. ReadBool(s) = IF b.ok THEN Read(IF b.value = Zero THEN Zero ELSE True, b.rest) ELSE NotRead
  BY Zenon DEF ReadBool, Then
<1>31. Read(x, r).ok = TRUE /\ Read(x, r).value = x /\ Read(x, r).rest = r
  BY ReadParts
<1>4. f.type \in Unsigned \cup Signed => v = Read(x, r)
  <2> SUFFICES ASSUME f.type \in Unsigned \cup Signed PROVE v = Read(x, r)
    OBVIOUS
  <2>1. Pattern(x) /\ EncodeScalar(f, x) = Varint(x)
    BY ScalarIs, EncodeScalarIs
  <2> QED BY <2>1, ReadVarintOf
<1>5. f.type \in ZigZags => z = Read(x, r)
  <2> SUFFICES ASSUME f.type \in ZigZags PROVE z = Read(x, r)
    OBVIOUS
  <2>1. Pattern(x) /\ EncodeScalar(f, x) = SVarint(x)
    BY ScalarIs, EncodeScalarIs
  <2> QED BY <2>1, SVarintIs
<1>6. f.type = "BOOL" => b = Read(x, r) /\ (IF x = Zero THEN Zero ELSE True) = x
  <2> SUFFICES ASSUME f.type = "BOOL" PROVE b = Read(x, r) /\ (IF x = Zero THEN Zero ELSE True) = x
    OBVIOUS
  <2>1. x \in {Zero, True} /\ EncodeScalar(f, x) = Varint(x)
    BY ScalarIs, EncodeScalarIs
  <2>2. Pattern(x) /\ Low32(x) = x
    <3>1. Low32(Zero) = Zero
      <4>1. Digits(0) = Zero
        BY LenDigits
      <4> QED BY <4>1, DigitsLow
    <3> QED BY <2>1, <3>1, ZeroIs, TrueIs
  <2> QED BY <2>1, <2>2, ReadVarint32Of
<1>7. f.type \in Fixed => Take(s, Bytes[f.type]) = Read(x, r)
  <2> SUFFICES ASSUME f.type \in Fixed PROVE Take(s, Bytes[f.type]) = Read(x, r)
    OBVIOUS
  <2>1. x \in [1..Bytes[f.type] -> Byte] /\ EncodeScalar(f, x) = x
    BY ScalarIs, EncodeScalarIs
  <2>2. PICK n \in Nat : n = Bytes[f.type]
    BY BytesAre
  <2>3. x \in Seq(Byte) /\ Len(x) = n
    BY <2>1, <2>2, FunctionIsSeq
  <2> QED BY <2>1, <2>2, <2>3, TakeOf
<1> HIDE DEF s, v, b, z
<1>8. f.type \in Unsigned => ReadUnsigned(f, s) = Read(x, r)
  <2> SUFFICES ASSUME f.type \in Unsigned PROVE ReadUnsigned(f, s) = Read(x, r)
    OBVIOUS
  <2>1. Fits(x, Bytes[f.type])
    BY ScalarIs
  <2>2. v.ok = TRUE /\ v.value = x /\ v.rest = r
    BY <1>31, <1>4
  <2>3. ReadUnsigned(f, s) = ReadIf(Fits(x, Bytes[f.type]), x, r)
    BY <1>1, <2>2, Zenon
  <2> QED BY <2>1, <2>3 DEF ReadIf
<1>9. f.type \in Signed => ReadSigned(f, s) = Read(x, r)
  <2> SUFFICES ASSUME f.type \in Signed PROVE ReadSigned(f, s) = Read(x, r)
    OBVIOUS
  <2>1. f.type = "INT32" => x = Int32(x)
    BY ScalarIs
  <2>2. v.ok = TRUE /\ v.value = x /\ v.rest = r
    BY <1>31, <1>4
  <2>3. ReadSigned(f, s) = Read(IF f.type = "INT32" THEN Int32(x) ELSE x, r)
    BY <1>1, <2>2, Zenon
  <2> QED BY <2>1, <2>3
<1>10. f.type \in ZigZags => ReadZigZag(f, s) = Read(x, r)
  <2> SUFFICES ASSUME f.type \in ZigZags PROVE ReadZigZag(f, s) = Read(x, r)
    OBVIOUS
  <2>1. f.type = "SINT32" => x = Int32(x)
    BY ScalarIs
  <2>2. z.ok = TRUE /\ z.value = x /\ z.rest = r
    BY <1>31, <1>5
  <2>3. ReadZigZag(f, s) = ReadIf(f.type = "SINT32" => x = Int32(x), x, r)
    BY <1>2, <2>2, Zenon
  <2> QED BY <2>1, <2>3 DEF ReadIf
<1>11. f.type = "BOOL" => ReadBool(s) = Read(x, r)
  <2> SUFFICES ASSUME f.type = "BOOL" PROVE ReadBool(s) = Read(x, r)
    OBVIOUS
  <2>2. b.ok = TRUE /\ b.value = x /\ b.rest = r
    BY <1>31, <1>6
  <2>3. ReadBool(s) = Read(IF x = Zero THEN Zero ELSE True, r)
    BY <1>3, <2>2, Zenon
  <2> QED BY <1>6, <2>3, Zenon
<1> QED BY <1>7, <1>8, <1>9, <1>10, <1>11 DEF s

LEMMA TextRead ==
  ASSUME NEW m, NEW f, SoundField(m, f), NEW x, Scalar(f, x), Brief(EncodeScalar(f, x)), NEW r \in Seq(Byte)
  PROVE  LET s == EncodeScalar(f, x) \o r
         IN  /\ f.type = "STRING" => ReadString(m, f, s) = ReadIf(ValueHasRoom(m, f, x), x, r)
             /\ f.type = "BYTES" => ReadBytes(m, f, s) = ReadIf(ValueHasRoom(m, f, x), x, r)
<1> SUFFICES ASSUME f.type = "STRING" \/ f.type = "BYTES"
             PROVE  LET s == EncodeScalar(f, x) \o r
                    IN  /\ f.type = "STRING" => ReadString(m, f, s) = ReadIf(ValueHasRoom(m, f, x), x, r)
                        /\ f.type = "BYTES" => ReadBytes(m, f, s) = ReadIf(ValueHasRoom(m, f, x), x, r)
  OBVIOUS
<1> DEFINE s == EncodeScalar(f, x) \o r
           a == ReadSized(s)
<1>1. x \in Seq(Byte) /\ EncodeScalar(f, x) = Sized(x) /\ (f.type = "STRING" => x \in Seq(Byte \ {0}))
  <2>1. Seq(Byte \ {0}) \subseteq Seq(Byte)
    OBVIOUS
  <2> QED BY <2>1, ScalarIs, EncodeScalarIs
<1>2. a = Read(x, r)
  <2>1. Len(x) <= Len(Sized(x)) /\ Len(x) \in Nat /\ Len(Sized(x)) \in Nat
    BY <1>1, SizedBytes
  <2>2. Len(Sized(x)) < (128 * 128 * 128)
    BY <1>1 DEF Brief
  <2>3. Len(x) < (128 * 128 * 128)
    BY <2>1, <2>2
  <2> QED BY <1>1, <2>3, SizedIs
<1>3. PICK n \in Nat : n = Len(x)
  BY <1>1
<1>4. PICK k \in Nat : k = m.room[f.name]
  BY RoomIs
<1>5. a.ok = TRUE /\ a.value = x /\ a.rest = r
  <2>1. Read(x, r).ok = TRUE /\ Read(x, r).value = x /\ Read(x, r).rest = r
    BY ReadParts
  <2> HIDE DEF a
  <2> QED BY <1>2, <2>1
<1>6. /\ ReadString(m, f, s) = IF a.ok THEN ReadIf(Len(a.value) + 1 <= m.room[f.name], Seen(a.value), a.rest) ELSE NotRead
      /\ ReadBytes(m, f, s) = IF a.ok THEN ReadIf(Len(a.value) <= m.room[f.name], a.value, a.rest) ELSE NotRead
  BY Zenon DEF ReadString, ReadBytes, Then
<1> HIDE DEF s, a
<1>7. /\ ReadString(m, f, s) = ReadIf(n + 1 <= k, Seen(x), r)
      /\ ReadBytes(m, f, s) = ReadIf(n <= k, x, r)
  BY <1>3, <1>4, <1>5, <1>6, Zenon
<1>8. f.type = "STRING" => ReadString(m, f, s) = ReadIf(ValueHasRoom(m, f, x), x, r)
  <2> SUFFICES ASSUME f.type = "STRING" PROVE ReadString(m, f, s) = ReadIf(ValueHasRoom(m, f, x), x, r)
    OBVIOUS
  <2>1. Seen(x) = x
    BY <1>1, SeenIs
  <2>2. ValueHasRoom(m, f, x) <=> n < k
    BY <1>3, <1>4, RoomOf
  <2>3. n < k <=> n + 1 <= k
    BY <1>3, <1>4
  <2>4. ValueHasRoom(m, f, x) <=> n + 1 <= k
    BY <2>2, <2>3, Zenon
  <2> QED BY <1>7, <2>1, <2>4, Zenon DEF ReadIf
<1>9. f.type = "BYTES" => ReadBytes(m, f, s) = ReadIf(ValueHasRoom(m, f, x), x, r)
  <2> SUFFICES ASSUME f.type = "BYTES" PROVE ReadBytes(m, f, s) = ReadIf(ValueHasRoom(m, f, x), x, r)
    OBVIOUS
  <2>2. ValueHasRoom(m, f, x) <=> n <= k
    BY <1>3, <1>4, RoomOf
  <2> QED BY <1>7, <2>2, Zenon DEF ReadIf
<1> QED BY <1>8, <1>9 DEF s

LEMMA ScalarRead ==
  ASSUME NEW m, NEW f, SoundField(m, f), f.type # "MESSAGE", NEW x, Scalar(f, x), Brief(EncodeScalar(f, x)),
         NEW old, NEW wt, RightWireType(f, wt), NEW r \in Seq(Byte)
  PROVE  ReadScalar(m, f, old, wt, EncodeScalar(f, x) \o r) = ReadIf(ValueHasRoom(m, f, x), x, r)
<1> DEFINE s == EncodeScalar(f, x) \o r
           t == ReadScalar(m, f, old, wt, s)
<1>1. /\ f.type \in Unsigned => t = ReadUnsigned(f, s)
      /\ f.type \in Signed => t = ReadSigned(f, s)
      /\ f.type \in ZigZags => t = ReadZigZag(f, s)
      /\ f.type \in Fixed => t = Take(s, Bytes[f.type])
      /\ f.type = "BOOL" => t = ReadBool(s)
      /\ f.type = "STRING" => t = ReadString(m, f, s)
      /\ f.type = "BYTES" => t = ReadBytes(m, f, s)
  BY ReadScalarIs
<1>2. /\ f.type \in Unsigned => ReadUnsigned(f, s) = Read(x, r)
      /\ f.type \in Signed => ReadSigned(f, s) = Read(x, r)
      /\ f.type \in ZigZags => ReadZigZag(f, s) = Read(x, r)
      /\ f.type \in Fixed => Take(s, Bytes[f.type]) = Read(x, r)
      /\ f.type = "BOOL" => ReadBool(s) = Read(x, r)
  BY NumberRead, Zenon
<1>3. /\ f.type = "STRING" => ReadString(m, f, s) = ReadIf(ValueHasRoom(m, f, x), x, r)
      /\ f.type = "BYTES" => ReadBytes(m, f, s) = ReadIf(ValueHasRoom(m, f, x), x, r)
  BY TextRead, Zenon
<1> HIDE DEF s, t
<1>4. CASE f.type = "STRING" \/ f.type = "BYTES"
  BY <1>1, <1>3, <1>4, Zenon DEF s, t
<1>5. CASE f.type # "STRING" /\ f.type # "BYTES"
  <2>1. ValueHasRoom(m, f, x)
    BY <1>5, RoomOf
  <2>2. t = Read(x, r)
    BY <1>1, <1>2, <1>5, ScalarTypesAre, Zenon
  <2>3. ReadIf(ValueHasRoom(m, f, x), x, r) = Read(x, r)
    BY <2>1 DEF ReadIf
  <2> QED BY <2>2, <2>3 DEF s, t
<1> QED BY <1>4, <1>5

-----------------------------------------------------------------------------
(* A field, from what is written of it.                                     *)

ItemRoom(m, f, x) == IF f.type = "MESSAGE" THEN FlatHasRoom(f.of, x) ELSE ValueHasRoom(m, f, x)
Fresh(f) == IF f.type = "MESSAGE" THEN Default(f.of) ELSE Zero
ItemsRead(m) ==
  \A f \in Fields(m) : \A x : IsItem(f, x) /\ Brief(EncodeValue(f, x)) =>
    \A r \in Seq(Byte) :
      ReadValue(m, f, Fresh(f), WireTypeOf(f), EncodeValue(f, x) \o r) = ReadIf(ItemRoom(m, f, x), x, r)

LEMMA ReadIfParts == ASSUME NEW c, NEW x, NEW r
  PROVE /\ c => ReadIf(c, x, r) = Read(x, r)
        /\ ~c => ReadIf(c, x, r) = NotRead
  BY Zenon DEF ReadIf

LEMMA IfRead == ASSUME NEW p, NEW c, NEW x, NEW r, p = IF c THEN Read(x, r) ELSE NotRead
  PROVE (p.ok <=> c) /\ (c => p.value = x /\ p.rest = r)
<1>1. Read(x, r).ok = TRUE /\ Read(x, r).value = x /\ Read(x, r).rest = r
  BY ReadParts
<1>2. CASE c
  <2>1. p = Read(x, r)
    BY <1>2, Zenon
  <2> QED BY <1>1, <1>2, <2>1
<1>3. CASE ~c
  <2>1. p = NotRead
    BY <1>3, Zenon
  <2> QED BY <1>3, <2>1, NotReadParts
<1> QED BY <1>2, <1>3

\* Of u, that it is v with field f set.
IsSet(m, w, f, xs, u) ==
  /\ u = [n \in Names(m) |-> u[n]]
  /\ u[f.name] = xs
  /\ \A n \in Names(m) : n # f.name =>
       u[n] = IF f.label = "ONEOF" /\ \E g \in Fields(m) : g.name = n /\ g.label = "ONEOF" THEN << >> ELSE w[n]
IsPlainSet(m, w, f, xs, u) ==
  /\ u = [n \in Names(m) |-> u[n]]
  /\ u[f.name] = xs
  /\ \A n \in Names(m) : n # f.name => u[n] = w[n]

LEMMA SetIs == ASSUME NEW m, NEW w, NEW f \in Fields(m), NEW xs
  PROVE IsSet(m, w, f, xs, Set(m, w, f, xs))
<1>1. f.name \in Names(m)
  BY DEF Names
<1>2. Set(m, w, f, xs) =
        [n \in Names(m) |->
           IF n = f.name THEN xs
           ELSE IF f.label = "ONEOF" /\ \E g \in Fields(m) : g.name = n /\ g.label = "ONEOF" THEN << >>
           ELSE w[n]]
  BY Zenon DEF Set
<1> QED BY <1>1, <1>2 DEF IsSet

LEMMA SetPlain == ASSUME NEW m, NEW w, NEW f \in Fields(m), f.label # "ONEOF", NEW xs
  PROVE IsPlainSet(m, w, f, xs, Set(m, w, f, xs))
<1>1. IsSet(m, w, f, xs, Set(m, w, f, xs))
  BY SetIs
<1> QED BY <1>1, Zenon DEF IsSet, IsPlainSet

LEMMA SameValue == ASSUME NEW m, NEW u, NEW v, u = [n \in Names(m) |-> u[n]], v = [n \in Names(m) |-> v[n]],
                          \A n \in Names(m) : u[n] = v[n]
  PROVE u = v
<1>1. [n \in Names(m) |-> u[n]] = [n \in Names(m) |-> v[n]]
  BY Zenon
<1> QED BY <1>1, Zenon

LEMMA SetSet == ASSUME NEW m, NEW w, NEW f \in Fields(m), f.label # "ONEOF", NEW xs, NEW ys
  PROVE Set(m, Set(m, w, f, ys), f, xs) = Set(m, w, f, xs)
<1>1. PICK t : t = Set(m, w, f, ys)
  OBVIOUS
<1>2. PICK u : u = Set(m, t, f, xs)
  OBVIOUS
<1>3. PICK v : v = Set(m, w, f, xs)
  OBVIOUS
<1>4. IsPlainSet(m, w, f, ys, t) /\ IsPlainSet(m, t, f, xs, u) /\ IsPlainSet(m, w, f, xs, v)
  BY <1>1, <1>2, <1>3, SetPlain
<1>5. \A n \in Names(m) : u[n] = v[n]
  BY <1>4, Zenon DEF IsPlainSet
<1>6. u = v
  BY <1>4, <1>5, SameValue DEF IsPlainSet
<1> QED BY <1>1, <1>2, <1>3, <1>6

LEMMA SetSame == ASSUME NEW m, NEW w, w = [n \in Names(m) |-> w[n]], NEW f \in Fields(m), f.label # "ONEOF"
  PROVE Set(m, w, f, w[f.name]) = w
<1>1. PICK v : v = Set(m, w, f, w[f.name])
  OBVIOUS
<1>2. IsPlainSet(m, w, f, w[f.name], v)
  BY <1>1, SetPlain
<1>3. \A n \in Names(m) : v[n] = w[n]
  BY <1>2, Zenon DEF IsPlainSet
<1>4. v = w
  BY <1>2, <1>3, SameValue DEF IsPlainSet
<1> QED BY <1>1, <1>4

LEMMA FieldOfTagIs == ASSUME NEW m, NEW w, NEW f, NEW wt, NEW s
  PROVE /\ f.label # "REPEATED" =>
             FieldOfTag(m, w, f, wt, s) =
               IF ReadValue(m, f, Held(f, w[f.name]), wt, s).ok
                 THEN Read(Set(m, w, f, <<ReadValue(m, f, Held(f, w[f.name]), wt, s).value>>),
                           ReadValue(m, f, Held(f, w[f.name]), wt, s).rest)
                 ELSE NotRead
        /\ f.label = "REPEATED" /\ ~(wt = WT_STRING /\ Packable(f)) =>
             FieldOfTag(m, w, f, wt, s) =
               IF ReadValue(m, f, Fresh(f), wt, s).ok /\ ~Full(m, f, w[f.name])
                 THEN Read(Set(m, w, f, Append(w[f.name], ReadValue(m, f, Fresh(f), wt, s).value)),
                           ReadValue(m, f, Fresh(f), wt, s).rest)
                 ELSE NotRead
        /\ f.label = "REPEATED" /\ wt = WT_STRING /\ Packable(f) =>
             FieldOfTag(m, w, f, wt, s) =
               IF ReadSized(s).ok /\ ReadPacked(m, f, w[f.name], ReadSized(s).value).ok
                 THEN Read(Set(m, w, f, ReadPacked(m, f, w[f.name], ReadSized(s).value).value), ReadSized(s).rest)
                 ELSE NotRead
<1> DEFINE xs == w[f.name]
           one == ReadOne(ReadValue, m, f, xs, wt, s)
           array == ReadArray(ReadValue, m, f, xs, wt, s)
           t == FieldOfTag(m, w, f, wt, s)
<1>1. /\ f.label # "REPEATED" => t = IF one.ok THEN Read(Set(m, w, f, one.value), one.rest) ELSE NotRead
      /\ f.label = "REPEATED" => t = IF array.ok THEN Read(Set(m, w, f, array.value), array.rest) ELSE NotRead
  BY Zenon DEF FieldOfTag, ReadField, Then
<1>2. one = IF ReadValue(m, f, Held(f, xs), wt, s).ok
              THEN Read(<<ReadValue(m, f, Held(f, xs), wt, s).value>>, ReadValue(m, f, Held(f, xs), wt, s).rest)
              ELSE NotRead
  BY Zenon DEF ReadOne, Then
<1>3. ~(wt = WT_STRING /\ Packable(f)) =>
        array = IF ReadValue(m, f, Fresh(f), wt, s).ok
                  THEN ReadIf(~Full(m, f, xs), Append(xs, ReadValue(m, f, Fresh(f), wt, s).value),
                              ReadValue(m, f, Fresh(f), wt, s).rest)
                  ELSE NotRead
  BY Zenon DEF ReadArray, Then, Fresh
<1>4. wt = WT_STRING /\ Packable(f) =>
        array = IF ReadSized(s).ok
                  THEN (IF ReadPacked(m, f, xs, ReadSized(s).value).ok
                          THEN Read(ReadPacked(m, f, xs, ReadSized(s).value).value, ReadSized(s).rest)
                          ELSE NotRead)
                  ELSE NotRead
  BY Zenon DEF ReadArray, Then
<1> HIDE DEF one, array, t
<1>6. CASE f.label # "REPEATED"
  <2> DEFINE a == ReadValue(m, f, Held(f, xs), wt, s)
  <2>1. one = IF a.ok THEN Read(<<a.value>>, a.rest) ELSE NotRead
    BY <1>2
  <2> HIDE DEF a
  <2>11. (one.ok <=> a.ok) /\ (a.ok => one.value = <<a.value>> /\ one.rest = a.rest)
    BY <2>1, IfRead
  <2>2. t = IF a.ok THEN Read(Set(m, w, f, <<a.value>>), a.rest) ELSE NotRead
    BY <1>1, <1>6, <2>1, <2>11, Zenon
  <2> QED BY <1>6, <2>2, Zenon DEF t, a
<1>7. CASE f.label = "REPEATED" /\ ~(wt = WT_STRING /\ Packable(f))
  <2> DEFINE a == ReadValue(m, f, Fresh(f), wt, s)
             c == Full(m, f, xs)
  <2>1. array = IF a.ok THEN ReadIf(~c, Append(xs, a.value), a.rest) ELSE NotRead
    BY <1>3, <1>7
  <2> HIDE DEF a, c
  <2> DEFINE y == Append(xs, a.value)
             d == IF a.ok /\ ~c THEN TRUE ELSE FALSE
  <2>9. d <=> a.ok /\ ~c
    BY Zenon
  <2> HIDE DEF d, y
  <2>10. array = IF d THEN Read(y, a.rest) ELSE NotRead
    BY <2>1, <2>9, Zenon DEF ReadIf, y
  <2>11. (array.ok <=> d) /\ (d => array.value = y /\ array.rest = a.rest)
    BY <2>10, IfRead
  <2>2. t = IF a.ok /\ ~c THEN Read(Set(m, w, f, y), a.rest) ELSE NotRead
    BY <1>1, <1>7, <2>9, <2>11, Zenon
  <2> QED BY <1>7, <2>2, Zenon DEF t, a, c, y
<1>8. CASE f.label = "REPEATED" /\ wt = WT_STRING /\ Packable(f)
  <2> DEFINE a == ReadSized(s)
             p == ReadPacked(m, f, xs, a.value)
  <2>1. array = IF a.ok THEN (IF p.ok THEN Read(p.value, a.rest) ELSE NotRead) ELSE NotRead
    BY <1>4, <1>8
  <2> HIDE DEF a, p
  <2> DEFINE d == IF a.ok /\ p.ok THEN TRUE ELSE FALSE
  <2>9. d <=> a.ok /\ p.ok
    BY Zenon
  <2> HIDE DEF d
  <2>10. array = IF d THEN Read(p.value, a.rest) ELSE NotRead
    BY <2>1, <2>9, Zenon
  <2>11. (array.ok <=> d) /\ (d => array.value = p.value /\ array.rest = a.rest)
    BY <2>10, IfRead
  <2>2. t = IF a.ok /\ p.ok THEN Read(Set(m, w, f, p.value), a.rest) ELSE NotRead
    BY <1>1, <1>8, <2>9, <2>11, Zenon
  <2> QED BY <1>8, <2>2, Zenon DEF t, a, p
<1> QED BY <1>6, <1>7, <1>8, Zenon DEF t

LEMMA OneMoves ==
  ASSUME NEW m, SoundFields(m), ItemsRead(m), NEW f \in Fields(m), f.label # "REPEATED",
         NEW w, w[f.name] = Default(m)[f.name], NEW x, IsItem(f, x), Brief(EncodeValue(f, x))
  PROVE  /\ ItemRoom(m, f, x) => Moves("message", m, m, w, ItemBytes(f, x), Set(m, w, f, <<x>>))
         /\ ~ItemRoom(m, f, x) => Fails("message", m, m, w, ItemBytes(f, x))
<1> DEFINE b == EncodeValue(f, x)
           wt == WireTypeOf(f)
<1>1. SoundField(m, f) /\ WireType(wt) /\ b \in Seq(Byte)
  BY ByName, TagBytes DEF WireType, Brief
<1>2. Held(f, w[f.name]) = Fresh(f)
  <2>1. f.type = "MESSAGE" => w[f.name] = << >>
    <3>1. f.type = "MESSAGE" => f.label # "SINGULAR"
      BY <1>1 DEF SoundField
    <3> QED BY <3>1, DefaultIs
  <2> QED BY <2>1, Zenon DEF Held, Fresh
<1>3. ASSUME NEW r \in Seq(Byte)
      PROVE  FieldOfTag(m, w, f, wt, b \o r) = ReadIf(ItemRoom(m, f, x), Set(m, w, f, <<x>>), r)
  <2> DEFINE a == ReadValue(m, f, Fresh(f), wt, b \o r)
  <2>1. a = ReadIf(ItemRoom(m, f, x), x, r)
    BY DEF ItemsRead
  <2>2. FieldOfTag(m, w, f, wt, b \o r) = IF a.ok THEN Read(Set(m, w, f, <<a.value>>), a.rest) ELSE NotRead
    BY <1>2, FieldOfTagIs, Zenon
  <2> HIDE DEF a
  <2>3. a = IF ItemRoom(m, f, x) THEN Read(x, r) ELSE NotRead
    BY <2>1, Zenon DEF ReadIf
  <2>4. (a.ok <=> ItemRoom(m, f, x)) /\ (ItemRoom(m, f, x) => a.value = x /\ a.rest = r)
    BY <2>3, IfRead
  <2> QED BY <2>2, <2>4, Zenon DEF ReadIf
<1>4. ItemBytes(f, x) = Tag(f.tag, wt) \o b
  BY DEF ItemBytes
<1> HIDE DEF b, wt
<1>5. ItemRoom(m, f, x) => Moves("message", m, m, w, Tag(f.tag, wt) \o b, Set(m, w, f, <<x>>))
  <2> SUFFICES ASSUME ItemRoom(m, f, x) PROVE Moves("message", m, m, w, Tag(f.tag, wt) \o b, Set(m, w, f, <<x>>))
    OBVIOUS
  <2>1. \A r \in Seq(Byte) : FieldOfTag(m, w, f, wt, b \o r) = Read(Set(m, w, f, <<x>>), r)
    BY <1>3, ReadIfParts, Zenon
  <2> QED BY <1>1, <2>1, FieldMoves
<1>6. ~ItemRoom(m, f, x) => Fails("message", m, m, w, Tag(f.tag, wt) \o b)
  <2> SUFFICES ASSUME ~ItemRoom(m, f, x) PROVE Fails("message", m, m, w, Tag(f.tag, wt) \o b)
    OBVIOUS
  <2>1. \A r \in Seq(Byte) : FieldOfTag(m, w, f, wt, b \o r) = NotRead
    BY <1>3, ReadIfParts, Zenon
  <2> QED BY <1>1, <2>1, FieldMoves
<1> QED BY <1>4, <1>5, <1>6

LEMMA NextMoves ==
  ASSUME NEW m, SoundFields(m), ItemsRead(m), NEW f \in Fields(m), f.label = "REPEATED",
         NEW w, NEW x, IsItem(f, x), Brief(EncodeValue(f, x))
  PROVE  /\ ItemRoom(m, f, x) /\ ~Full(m, f, w[f.name]) =>
              Moves("message", m, m, w, ItemBytes(f, x), Set(m, w, f, Append(w[f.name], x)))
         /\ ~(ItemRoom(m, f, x) /\ ~Full(m, f, w[f.name])) => Fails("message", m, m, w, ItemBytes(f, x))
<1> DEFINE b == EncodeValue(f, x)
           wt == WireTypeOf(f)
           xs == w[f.name]
           y == Set(m, w, f, Append(xs, x))
           c == ItemRoom(m, f, x) /\ ~Full(m, f, xs)
<1>1. SoundField(m, f) /\ WireType(wt) /\ b \in Seq(Byte)
  BY ByName, TagBytes DEF WireType, Brief
<1>2. ~(wt = WT_STRING /\ Packable(f))
  BY DEF WireTypeOf, Packable, WT_STRING, WT_32BIT, WT_64BIT, WT_VARINT
<1>3. ASSUME NEW r \in Seq(Byte)
      PROVE  FieldOfTag(m, w, f, wt, b \o r) = IF c THEN Read(y, r) ELSE NotRead
  <2> DEFINE a == ReadValue(m, f, Fresh(f), wt, b \o r)
  <2>1. a = ReadIf(ItemRoom(m, f, x), x, r)
    BY DEF ItemsRead
  <2>2. FieldOfTag(m, w, f, wt, b \o r) =
          IF a.ok /\ ~Full(m, f, xs) THEN Read(Set(m, w, f, Append(xs, a.value)), a.rest) ELSE NotRead
    BY <1>2, FieldOfTagIs, Zenon
  <2> HIDE DEF a
  <2>3. a = IF ItemRoom(m, f, x) THEN Read(x, r) ELSE NotRead
    BY <2>1, Zenon DEF ReadIf
  <2>4. (a.ok <=> ItemRoom(m, f, x)) /\ (ItemRoom(m, f, x) => a.value = x /\ a.rest = r)
    BY <2>3, IfRead
  <2> QED BY <2>2, <2>4, Zenon DEF ReadIf
<1>4. ItemBytes(f, x) = Tag(f.tag, wt) \o b
  BY DEF ItemBytes
<1> HIDE DEF b, wt, xs, y, c
<1>5. c => Moves("message", m, m, w, Tag(f.tag, wt) \o b, y)
  <2> SUFFICES ASSUME c PROVE Moves("message", m, m, w, Tag(f.tag, wt) \o b, y)
    OBVIOUS
  <2>1. \A r \in Seq(Byte) : FieldOfTag(m, w, f, wt, b \o r) = Read(y, r)
    BY <1>3, Zenon
  <2> QED BY <1>1, <2>1, FieldMoves
<1>6. ~c => Fails("message", m, m, w, Tag(f.tag, wt) \o b)
  <2> SUFFICES ASSUME ~c PROVE Fails("message", m, m, w, Tag(f.tag, wt) \o b)
    OBVIOUS
  <2>1. \A r \in Seq(Byte) : FieldOfTag(m, w, f, wt, b \o r) = NotRead
    BY <1>3, Zenon
  <2> QED BY <1>1, <2>1, FieldMoves
<1> QED BY <1>4, <1>5, <1>6 DEF c, xs, y

-----------------------------------------------------------------------------
(* A repeated field, its values one by one and packed.                      *)

RoomFor(m, f, xs) ==
  /\ f.label = "REPEATED" => Len(xs) <= m.room[f.name]
  /\ \A i \in 1..Len(xs) : ItemRoom(m, f, xs[i])

\* The first i of some values.
Firsts(xs, i) == [j \in 1..i |-> xs[j]]

LEMMA FirstsAre == ASSUME NEW xs, Sequence(xs)
  PROVE /\ Firsts(xs, 0) = << >> /\ Firsts(xs, Len(xs)) = xs /\ Len(xs) \in Nat
        /\ \A i \in 0..Len(xs) : Len(Firsts(xs, i)) = i
        /\ \A i \in 1..Len(xs) : Append(Firsts(xs, i - 1), xs[i]) = Firsts(xs, i)
<1>1. Len(xs) \in Nat /\ DOMAIN xs = 1..Len(xs) /\ xs = [i \in 1..Len(xs) |-> xs[i]]
  BY SequenceIs
<1>2. PICK n \in Nat : n = Len(xs)
  BY <1>1
<1>3. PICK S : S = ToSet(xs) /\ xs \in Seq(S)
  BY DEF Sequence
<1>4. \A i \in 1..n : xs[i] \in S
  BY <1>2, <1>3
<1>5. Firsts(xs, 0) = << >>
  BY DEF Firsts
<1>6. Firsts(xs, n) = xs
  BY <1>1, <1>2, Zenon DEF Firsts
<1>7. ASSUME NEW i \in 0..n PROVE Firsts(xs, i) \in Seq(S) /\ Len(Firsts(xs, i)) = i
  <2>1. \A j \in 1..i : xs[j] \in S
    BY <1>4
  <2>2. Firsts(xs, i) = [j \in 1..i |-> Firsts(xs, i)[j]] /\ \A j \in 1..i : Firsts(xs, i)[j] \in S
    BY <2>1 DEF Firsts
  <2> QED BY <2>2, PiecesAre
<1>8. ASSUME NEW i \in 1..n PROVE Append(Firsts(xs, i - 1), xs[i]) = Firsts(xs, i)
  <2>1. i - 1 \in 0..n /\ i \in 0..n /\ i \in Nat /\ (i - 1) + 1 = i
    BY <1>2
  <2>2. Firsts(xs, i - 1) \in Seq(S) /\ Len(Firsts(xs, i - 1)) = i - 1
    BY <1>7, <2>1
  <2>3. xs[i] \in S
    BY <1>4
  <2>4. Firsts(xs, i) \in Seq(S) /\ Len(Firsts(xs, i)) = i
    BY <1>7, <2>1
  <2>5. \A j \in 1..(i - 1) : Firsts(xs, i - 1)[j] = xs[j]
    BY DEF Firsts
  <2>6. \A j \in 1..i : Firsts(xs, i)[j] = xs[j]
    BY DEF Firsts
  <2>7. PICK a \in Seq(S) : a = Firsts(xs, i - 1)
    BY <2>2
  <2>8. PICK b \in Seq(S) : b = Firsts(xs, i)
    BY <2>4
  <2>9. \A j \in 1..i : Append(a, xs[i])[j] = b[j]
    BY <2>1, <2>2, <2>3, <2>5, <2>6, <2>7, <2>8
  <2>10. Append(a, xs[i]) \in Seq(S) /\ Len(Append(a, xs[i])) = i /\ Len(b) = i
    BY <2>1, <2>2, <2>3, <2>4, <2>7, <2>8
  <2>11. Append(a, xs[i]) = b
    BY <2>1, <2>9, <2>10
  <2> QED BY <2>7, <2>8, <2>11
<1> QED BY <1>2, <1>5, <1>6, <1>7, <1>8

IsItems(f, xs) ==
  Sequence(xs) /\ \A i \in 1..Len(xs) : IsItem(f, xs[i]) /\ Brief(EncodeValue(f, xs[i]))

LEMMA ItemsBrief == ASSUME NEW f, NEW xs, IsItems(f, xs) PROVE ItemsAreBytes(f, xs)
<1>1. Sequence(xs) /\ DOMAIN xs = 1..Len(xs)
  BY SequenceIs DEF IsItems
<1> QED BY <1>1, Zenon DEF IsItems, ItemsAreBytes, Brief

LEMMA RoomForAll ==
  ASSUME NEW m, NEW f, SoundField(m, f), f.label = "REPEATED", NEW xs, Sequence(xs), NEW C,
         \A i \in 1..Len(xs) : i \in C <=> ItemRoom(m, f, xs[i]) /\ i <= m.room[f.name]
  PROVE  1..Len(xs) \subseteq C <=> RoomFor(m, f, xs)
<1>1. PICK n \in Nat : n = Len(xs)
  BY SequenceIs
<1>2. PICK k \in Nat : k = m.room[f.name]
  BY RoomIs
<1>3. (\A i \in 1..n : i <= k) <=> n <= k
  <2>1. CASE n = 0
    BY <2>1, <1>2
  <2>2. CASE n # 0
    <3>1. n \in 1..n
      BY <1>1, <2>2
    <3> QED BY <1>1, <1>2, <3>1
  <2> QED BY <2>1, <2>2
<1>4. 1..n \subseteq C <=> (\A i \in 1..n : ItemRoom(m, f, xs[i])) /\ (\A i \in 1..n : i <= k)
  BY <1>1, <1>2, Zenon
<1> QED BY <1>1, <1>2, <1>3, <1>4, Zenon DEF RoomFor

LEMMA SeveralMove ==
  ASSUME NEW m, SoundFields(m), ItemsRead(m), NEW f \in Fields(m), f.label = "REPEATED",
         NEW w, w = [n \in Names(m) |-> w[n]], w[f.name] = << >>, NEW xs, IsItems(f, xs)
  PROVE  /\ RoomFor(m, f, xs) => Moves("message", m, m, w, EachBytes(f, xs), Set(m, w, f, xs))
         /\ ~RoomFor(m, f, xs) => Fails("message", m, m, w, EachBytes(f, xs))
<1>1. SoundField(m, f) /\ Sequence(xs) /\ ItemsAreBytes(f, xs)
  BY ByName, ItemsBrief DEF IsItems
<1>2. PICK n \in Nat : n = Len(xs)
  BY <1>1, SequenceIs
<1>3. PICK k \in Nat : k = m.room[f.name]
  BY <1>1, RoomIs
<1>4. PICK ss \in Seq(Seq(Byte)) : /\ ss = Items(f, xs) /\ Len(ss) = n
                                   /\ \A i \in 1..n : ss[i] = ItemBytes(f, xs[i])
  BY <1>1, <1>2, ItemsAre
<1> DEFINE z == [i \in 0..n |-> Set(m, w, f, Firsts(xs, i))]
           C == {i \in 1..n : ItemRoom(m, f, xs[i]) /\ i <= k}
<1>5. /\ Firsts(xs, 0) = << >> /\ Firsts(xs, n) = xs
      /\ \A i \in 0..n : Len(Firsts(xs, i)) = i
      /\ \A i \in 1..n : Append(Firsts(xs, i - 1), xs[i]) = Firsts(xs, i)
  BY <1>1, <1>2, FirstsAre
<1>6. z[0] = w /\ z[n] = Set(m, w, f, xs)
  <2>1. Set(m, w, f, << >>) = w
    BY SetSame
  <2>2. 0 \in 0..n /\ n \in 0..n
    OBVIOUS
  <2> QED BY <1>5, <2>1, <2>2
<1>7. ASSUME NEW i \in 1..n
      PROVE  /\ i \in C => Moves("message", m, m, z[i - 1], ss[i], z[i])
             /\ i \notin C => Fails("message", m, m, z[i - 1], ss[i])
  <2> DEFINE ys == Firsts(xs, i - 1)
             u == Set(m, w, f, ys)
  <2>1. i - 1 \in 0..n /\ i \in 0..n /\ i \in 1..Len(xs)
    BY <1>2
  <2>2. z[i - 1] = u /\ z[i] = Set(m, w, f, Firsts(xs, i)) /\ Append(ys, xs[i]) = Firsts(xs, i) /\ Len(ys) = i - 1
    BY <1>5, <2>1
  <2>3. u[f.name] = ys
    BY SetPlain DEF IsPlainSet
  <2>4. Full(m, f, ys) <=> ~(i <= k)
    BY <1>3, <2>2 DEF Full
  <2>5. IsItem(f, xs[i]) /\ Brief(EncodeValue(f, xs[i]))
    BY <2>1 DEF IsItems
  <2>6. Set(m, u, f, Firsts(xs, i)) = z[i]
    BY <2>2, SetSet
  <2>7. i \in C <=> ItemRoom(m, f, xs[i]) /\ i <= k
    OBVIOUS
  <2> HIDE DEF u, ys, z, C
  <2>8. /\ ItemRoom(m, f, xs[i]) /\ ~Full(m, f, u[f.name]) =>
             Moves("message", m, m, u, ItemBytes(f, xs[i]), Set(m, u, f, Append(u[f.name], xs[i])))
        /\ ~(ItemRoom(m, f, xs[i]) /\ ~Full(m, f, u[f.name])) => Fails("message", m, m, u, ItemBytes(f, xs[i]))
    BY <2>5, NextMoves, Zenon
  <2> QED BY <1>4, <2>2, <2>3, <2>4, <2>6, <2>7, <2>8, Zenon
<1>8. \A i \in 1..Len(xs) : i \in C <=> ItemRoom(m, f, xs[i]) /\ i <= m.room[f.name]
  BY <1>2, <1>3
<1> HIDE DEF z, C
<1>9. 1..n \subseteq C <=> RoomFor(m, f, xs)
  BY <1>1, <1>2, <1>8, RoomForAll
<1>10. /\ 1..n \subseteq C => Moves("message", m, m, z[0], FlattenSeq(ss), z[n])
       /\ ~(1..n \subseteq C) => Fails("message", m, m, z[0], FlattenSeq(ss))
  <2>1. \A i \in 1..Len(ss) : /\ i \in C => Moves("message", m, m, z[i - 1], ss[i], z[i])
                              /\ i \notin C => Fails("message", m, m, z[i - 1], ss[i])
    BY <1>4, <1>7
  <2>2. /\ 1..Len(ss) \subseteq C => Moves("message", m, m, z[0], FlattenSeq(ss), z[Len(ss)])
        /\ ~(1..Len(ss) \subseteq C) => Fails("message", m, m, z[0], FlattenSeq(ss))
    BY <2>1, Chain
  <2> QED BY <1>4, <2>2
<1> QED BY <1>4, <1>6, <1>9, <1>10 DEF EachBytes

LEMMA PackedTo ==
  ASSUME NEW m, NEW f, Shrinks("packed", m, f), NEW w, NEW s \in Seq(Byte), s # << >>,
         NEW x, NEW r, OneStep("packed", m, f, w, s) = Read(x, r)
  PROVE  Steps("packed", m, f, w, s) = Steps("packed", m, f, x, r)
<1>1. Read(x, r).ok = TRUE /\ Read(x, r).value = x /\ Read(x, r).rest = r
  BY ReadParts
<1>2. LET t == OneStep("packed", m, f, w, s) IN t.ok => Steps("packed", m, f, w, s) = Steps("packed", m, f, t.value, t.rest)
  BY StepsAre
<1> QED BY <1>1, <1>2

LEMMA PackedNext ==
  ASSUME NEW m, NEW f, SoundField(m, f), Packable(f), f.label = "REPEATED", NEW ys, NEW x,
         Scalar(f, x), Brief(EncodeScalar(f, x))
  PROVE  /\ ~Full(m, f, ys) => Moves("packed", m, f, ys, EncodeScalar(f, x), Append(ys, x))
         /\ Full(m, f, ys) => Fails("packed", m, f, ys, EncodeScalar(f, x))
<1> DEFINE b == EncodeScalar(f, x)
           y == Append(ys, x)
<1>1. f.type # "MESSAGE" /\ f.type # "STRING" /\ f.type # "BYTES"
  BY DEF Packable, Delimited
<1>2. b \in Seq(Byte) /\ 1 <= Len(b) /\ Len(b) \in Nat
  BY <1>1, ScalarBytes
<1>3. Shrinks("packed", m, f)
  BY <1>1, PackedShrinks
<1>4. ASSUME NEW r \in Seq(Byte)
      PROVE  /\ b \o r \in Seq(Byte) /\ b \o r # << >>
             /\ Full(m, f, ys) => OneStep("packed", m, f, ys, b \o r) = NotRead
             /\ ~Full(m, f, ys) => OneStep("packed", m, f, ys, b \o r) = Read(y, r)
  <2> DEFINE s == b \o r
             a == ReadScalar(m, f, Zero, WT_PACKED, s)
             t == OneStep("packed", m, f, ys, s)
  <2>1. s \in Seq(Byte) /\ s # << >>
    <3> HIDE DEF b
    <3> QED BY <1>2
  <2>2. a = Read(x, r)
    <3>1. RightWireType(f, WT_PACKED)
      BY DEF RightWireType
    <3>2. a = ReadIf(ValueHasRoom(m, f, x), x, r)
      BY <1>1, <3>1, ScalarRead
    <3>3. ValueHasRoom(m, f, x)
      BY <1>1, RoomOf
    <3> HIDE DEF a
    <3> QED BY <3>2, <3>3, ReadIfParts
  <2>3. a.ok = TRUE /\ a.value = x /\ a.rest = r
    <3>1. Read(x, r).ok = TRUE /\ Read(x, r).value = x /\ Read(x, r).rest = r
      BY ReadParts
    <3> HIDE DEF a
    <3> QED BY <2>2, <3>1
  <2>4. t = IF Full(m, f, ys) THEN NotRead
            ELSE IF a.ok THEN Read(Append(ys, a.value), a.rest) ELSE NotRead
    BY Zenon DEF OneStep, Then
  <2> HIDE DEF a, t
  <2> QED BY <2>1, <2>3, <2>4, Zenon DEF t, s
<1> HIDE DEF b, y
<1>5. ASSUME ~Full(m, f, ys) PROVE Moves("packed", m, f, ys, b, y)
  <2>1. ASSUME NEW r \in Seq(Byte) PROVE Steps("packed", m, f, ys, b \o r) = Steps("packed", m, f, y, r)
    <3>1. PICK s \in Seq(Byte) : s = b \o r /\ s # << >>
      BY <1>4
    <3>2. OneStep("packed", m, f, ys, s) = Read(y, r)
      BY <1>4, <1>5, <3>1
    <3>4. s # << >>
      BY <3>1
    <3>3. Steps("packed", m, f, ys, s) = Steps("packed", m, f, y, r)
      BY <1>3, <3>2, <3>4, PackedTo
    <3> QED BY <3>1, <3>3
  <2> QED BY <1>2, <2>1 DEF Moves
<1>6. ASSUME Full(m, f, ys) PROVE Fails("packed", m, f, ys, b)
  <2>1. ASSUME NEW r \in Seq(Byte) PROVE Steps("packed", m, f, ys, b \o r) = NotRead
    <3>1. PICK s \in Seq(Byte) : s = b \o r /\ s # << >>
      BY <1>4
    <3>2. OneStep("packed", m, f, ys, s) = NotRead
      BY <1>4, <1>6, <3>1
    <3>3. Steps("packed", m, f, ys, s) = NotRead
      BY <1>3, <3>1, <3>2, StepsAre
    <3> QED BY <3>1, <3>3
  <2> QED BY <1>2, <2>1 DEF Fails
<1> QED BY <1>5, <1>6 DEF b, y

LEMMA PackedRead ==
  ASSUME NEW m, NEW f, SoundField(m, f), Packable(f), f.label = "REPEATED", NEW xs, IsItems(f, xs)
  PROVE  LET all == FlattenSeq(Elements(f, xs))
         IN  /\ all \in Seq(Byte)
             /\ RoomFor(m, f, xs) => ReadPacked(m, f, << >>, all) = Read(xs, << >>)
             /\ ~RoomFor(m, f, xs) => ReadPacked(m, f, << >>, all) = NotRead
<1> DEFINE all == FlattenSeq(Elements(f, xs))
<1>1. f.type # "MESSAGE" /\ Sequence(xs) /\ ItemsAreBytes(f, xs)
  BY ItemsBrief DEF IsItems, Packable, Delimited
<1>0. f.type # "STRING" /\ f.type # "BYTES"
  BY DEF Packable, Delimited
<1>2. PICK n \in Nat : n = Len(xs)
  BY <1>1, SequenceIs
<1>3. PICK k \in Nat : k = m.room[f.name]
  BY RoomIs
<1>4. PICK ss \in Seq(Seq(Byte)) : /\ ss = Elements(f, xs) /\ Len(ss) = n
                                   /\ \A i \in 1..n : ss[i] = EncodeScalar(f, xs[i]) /\ ss[i] = EncodeValue(f, xs[i])
  BY <1>1, <1>2, ElementsAre
<1> DEFINE z == [i \in 0..n |-> Firsts(xs, i)]
           C == {i \in 1..n : i <= k}
<1>5. /\ Firsts(xs, 0) = << >> /\ Firsts(xs, n) = xs
      /\ \A i \in 0..n : Len(Firsts(xs, i)) = i
      /\ \A i \in 1..n : Append(Firsts(xs, i - 1), xs[i]) = Firsts(xs, i)
  BY <1>1, <1>2, FirstsAre
<1>6. z[0] = << >> /\ z[n] = xs
  BY <1>5
<1>7. ASSUME NEW i \in 1..n
      PROVE  /\ i \in C => Moves("packed", m, f, z[i - 1], ss[i], z[i])
             /\ i \notin C => Fails("packed", m, f, z[i - 1], ss[i])
  <2> DEFINE ys == Firsts(xs, i - 1)
  <2>1. i - 1 \in 0..n /\ i \in 0..n /\ i \in 1..Len(xs)
    BY <1>2
  <2>2. z[i - 1] = ys /\ z[i] = Append(ys, xs[i]) /\ Len(ys) = i - 1
    BY <1>5, <2>1
  <2>4. Full(m, f, ys) <=> i \notin C
    BY <1>3, <2>2 DEF Full
  <2>5. Scalar(f, xs[i]) /\ Brief(EncodeScalar(f, xs[i]))
    BY <1>1, <1>4, <2>1, Zenon DEF IsItems, IsItem
  <2> HIDE DEF ys, z, C
  <2>8. /\ ~Full(m, f, ys) => Moves("packed", m, f, ys, EncodeScalar(f, xs[i]), Append(ys, xs[i]))
        /\ Full(m, f, ys) => Fails("packed", m, f, ys, EncodeScalar(f, xs[i]))
    BY <2>5, PackedNext, Zenon
  <2> QED BY <1>4, <2>2, <2>4, <2>8, Zenon
<1>8. \A i \in 1..Len(xs) : i \in C <=> ItemRoom(m, f, xs[i]) /\ i <= m.room[f.name]
  <2>1. ASSUME NEW i \in 1..Len(xs) PROVE ItemRoom(m, f, xs[i])
    BY <1>0, <1>1, RoomOf DEF ItemRoom
  <2> QED BY <1>2, <1>3, <2>1
<1> HIDE DEF z, C
<1>9. 1..n \subseteq C <=> RoomFor(m, f, xs)
  BY <1>1, <1>2, <1>8, RoomForAll
<1>10. /\ 1..n \subseteq C => Moves("packed", m, f, << >>, all, xs)
       /\ ~(1..n \subseteq C) => Fails("packed", m, f, << >>, all)
  <2>1. \A i \in 1..Len(ss) : /\ i \in C => Moves("packed", m, f, z[i - 1], ss[i], z[i])
                              /\ i \notin C => Fails("packed", m, f, z[i - 1], ss[i])
    BY <1>4, <1>7
  <2>2. /\ 1..Len(ss) \subseteq C => Moves("packed", m, f, z[0], FlattenSeq(ss), z[Len(ss)])
        /\ ~(1..Len(ss) \subseteq C) => Fails("packed", m, f, z[0], FlattenSeq(ss))
    BY <2>1, Chain
  <2> QED BY <1>4, <1>6, <2>2
<1>11. all \in Seq(Byte) /\ ReadPacked(m, f, << >>, all) = Steps("packed", m, f, << >>, all)
  BY <1>4, FlattenBytes, PackedIsSteps
<1> HIDE DEF all
<1>12. << >> \in Seq(Byte) /\ all \o << >> = all
  BY <1>11
<1>13. Steps("packed", m, f, xs, << >>) = Read(xs, << >>)
  BY <1>1, PackedShrinks, StepsOfNothing
<1>14. ASSUME RoomFor(m, f, xs) PROVE ReadPacked(m, f, << >>, all) = Read(xs, << >>)
  <2>1. \A r \in Seq(Byte) : Steps("packed", m, f, << >>, all \o r) = Steps("packed", m, f, xs, r)
    BY <1>9, <1>10, <1>14 DEF Moves
  <2>2. Steps("packed", m, f, << >>, all \o << >>) = Steps("packed", m, f, xs, << >>)
    BY <1>12, <2>1, Zenon
  <2> QED BY <1>11, <1>12, <1>13, <2>2
<1>15. ASSUME ~RoomFor(m, f, xs) PROVE ReadPacked(m, f, << >>, all) = NotRead
  <2>1. \A r \in Seq(Byte) : Steps("packed", m, f, << >>, all \o r) = NotRead
    BY <1>9, <1>10, <1>15 DEF Fails
  <2>2. Steps("packed", m, f, << >>, all \o << >>) = NotRead
    BY <1>12, <2>1, Zenon
  <2> QED BY <1>11, <1>12, <2>2
<1> QED BY <1>11, <1>14, <1>15 DEF all

LEMMA PackedMoves ==
  ASSUME NEW m, SoundFields(m), NEW f \in Fields(m), f.label = "REPEATED", Packable(f),
         NEW w, w[f.name] = << >>, NEW xs, IsItems(f, xs), Brief(FlattenSeq(Elements(f, xs)))
  PROVE  /\ RoomFor(m, f, xs) => Moves("message", m, m, w, PackedBytes(f, xs), Set(m, w, f, xs))
         /\ ~RoomFor(m, f, xs) => Fails("message", m, m, w, PackedBytes(f, xs))
<1> DEFINE all == FlattenSeq(Elements(f, xs))
           b == Sized(all)
           y == Set(m, w, f, xs)
           c == RoomFor(m, f, xs)
           p == ReadPacked(m, f, << >>, all)
<1>1. SoundField(m, f) /\ WireType(WT_STRING)
  BY ByName, TagBytes DEF WireType
<1>2. all \in Seq(Byte) /\ (c => p = Read(xs, << >>)) /\ (~c => p = NotRead)
  BY <1>1, PackedRead
<1>3. (p.ok <=> c) /\ (c => p.value = xs)
  <2>1. p = IF c THEN Read(xs, << >>) ELSE NotRead
    BY <1>2, Zenon
  <2> HIDE DEF p, c
  <2> QED BY <2>1, IfRead
<1>4. b \in Seq(Byte) /\ \A r \in Seq(Byte) : ReadSized(b \o r) = Read(all, r)
  <2> HIDE DEF all
  <2> QED BY <1>2, SizedBytes, SizedIs DEF Brief, all
<1>5. ASSUME NEW r \in Seq(Byte)
      PROVE  FieldOfTag(m, w, f, WT_STRING, b \o r) = IF c THEN Read(y, r) ELSE NotRead
  <2> DEFINE a == ReadSized(b \o r)
  <2>1. a.ok = TRUE /\ a.value = all /\ a.rest = r
    <3>1. Read(all, r).ok = TRUE /\ Read(all, r).value = all /\ Read(all, r).rest = r
      BY ReadParts
    <3>2. a = Read(all, r)
      BY <1>4
    <3> HIDE DEF a, all
    <3> QED BY <3>1, <3>2
  <2>2. FieldOfTag(m, w, f, WT_STRING, b \o r) =
          IF a.ok /\ ReadPacked(m, f, w[f.name], a.value).ok
            THEN Read(Set(m, w, f, ReadPacked(m, f, w[f.name], a.value).value), a.rest)
            ELSE NotRead
    BY FieldOfTagIs, Zenon
  <2> HIDE DEF a, all
  <2>3. ReadPacked(m, f, w[f.name], a.value) = p
    BY <2>1
  <2> HIDE DEF p, c
  <2> QED BY <1>3, <2>1, <2>2, <2>3, Zenon
<1>6. PackedBytes(f, xs) = Tag(f.tag, WT_STRING) \o b
  BY DEF PackedBytes
<1> HIDE DEF b, y, c, p
<1>7. c => Moves("message", m, m, w, Tag(f.tag, WT_STRING) \o b, y)
  <2> SUFFICES ASSUME c PROVE Moves("message", m, m, w, Tag(f.tag, WT_STRING) \o b, y)
    OBVIOUS
  <2>1. \A r \in Seq(Byte) : FieldOfTag(m, w, f, WT_STRING, b \o r) = Read(y, r)
    BY <1>5, Zenon
  <2> QED BY <1>1, <1>4, <2>1, FieldMoves
<1>8. ~c => Fails("message", m, m, w, Tag(f.tag, WT_STRING) \o b)
  <2> SUFFICES ASSUME ~c PROVE Fails("message", m, m, w, Tag(f.tag, WT_STRING) \o b)
    OBVIOUS
  <2>1. \A r \in Seq(Byte) : FieldOfTag(m, w, f, WT_STRING, b \o r) = NotRead
    BY <1>5, Zenon
  <2> QED BY <1>1, <1>4, <2>1, FieldMoves
<1> QED BY <1>6, <1>7, <1>8 DEF c, y

-----------------------------------------------------------------------------
(* A field as it is written, and the fields of a message one after another. *)

\* As many items as the label of a field allows.
FieldShape(f, xs) ==
  /\ Sequence(xs) /\ \A i \in 1..Len(xs) : IsItem(f, xs[i])
  /\ f.label = "SINGULAR" => Len(xs) = 1
  /\ f.label \in {"OPTIONAL", "ONEOF"} => Len(xs) <= 1
PlainAt(m, w, f) == w = [n \in Names(m) |-> w[n]] /\ w[f.name] = Default(m)[f.name]
With(m, w, f, xs) == IF xs = << >> THEN w ELSE Set(m, w, f, xs)
FieldDone(m, w, f, xs, b) ==
  /\ RoomFor(m, f, xs) => Moves("message", m, m, w, b, With(m, w, f, xs))
  /\ ~RoomFor(m, f, xs) => Fails("message", m, m, w, b)

LEMMA NoneIs == ASSUME NEW m, NEW f, SoundField(m, f), NEW w
  PROVE /\ EachBytes(f, << >>) = << >> /\ RoomFor(m, f, << >>)
        /\ FieldDone(m, w, f, << >>, << >>)
<1>1. Items(f, << >>) = << >> /\ << >> \in Seq(Seq(Byte)) /\ Len(<< >>) = 0
  BY DEF Items
<1>2. FlattenSeq(<< >>) = << >>
  <2>1. PICK s \in Seq(Seq(Byte)) : s = << >> /\ Len(s) = 0
    BY <1>1
  <2>2. PICK P : Joined(s, P)
    BY JoinedExists
  <2>3. FlattenSeq(s) = P[Len(s)]
    BY <2>2, FlattenIs
  <2>4. P[0] = << >>
    BY <2>2 DEF Joined
  <2> QED BY <2>1, <2>3, <2>4
<1>3. RoomFor(m, f, << >>)
  BY RoomIs DEF RoomFor
<1>4. Moves("message", m, m, w, << >>, w)
  BY NothingMoves
<1> QED BY <1>1, <1>2, <1>3, <1>4 DEF EachBytes, FieldDone, With

LEMMA OneIs == ASSUME NEW m, NEW f, SoundField(m, f), NEW xs, ItemsAreBytes(f, xs), Len(xs) = 1
  PROVE /\ EachBytes(f, xs) = ItemBytes(f, xs[1]) /\ xs = <<xs[1]>>
        /\ f.label # "REPEATED" => (RoomFor(m, f, xs) <=> ItemRoom(m, f, xs[1]))
<1>1. PICK ss \in Seq(Seq(Byte)) : ss = Items(f, xs) /\ Len(ss) = 1 /\ ss[1] = ItemBytes(f, xs[1])
  BY ItemsAre
<1>2. PICK P : Joined(ss, P)
  BY JoinedExists
<1>3. P[0] = << >> /\ P[1] = P[0] \o ss[1] /\ ss[1] \in Seq(Byte)
  <2>1. 1 \in 1..Len(ss) /\ 1 - 1 = 0
    BY <1>1
  <2>2. P[0] = << >> /\ P[1] = P[1 - 1] \o ss[1]
    BY <1>2, <2>1, Zenon DEF Joined
  <2>3. ss[1] \in Seq(Byte)
    BY <2>1
  <2> QED BY <2>1, <2>2, <2>3, Zenon
<1>4. P[1] = ss[1]
  BY <1>3
<1>5. FlattenSeq(ss) = P[1]
  BY <1>1, <1>2, FlattenIs
<1>6. xs = <<xs[1]>>
  <2>1. Sequence(xs)
    BY DEF ItemsAreBytes
  <2> QED BY <2>1 DEF Sequence
<1>7. f.label # "REPEATED" => (RoomFor(m, f, xs) <=> ItemRoom(m, f, xs[1]))
  <2>1. \A i \in 1..Len(xs) : i = 1
    OBVIOUS
  <2>2. 1 \in 1..Len(xs)
    OBVIOUS
  <2> QED BY <2>1, <2>2, Zenon DEF RoomFor
<1> QED BY <1>1, <1>4, <1>5, <1>6, <1>7 DEF EachBytes

LEMMA EachBrief ==
  ASSUME NEW m, NEW f, SoundField(m, f), NEW xs, ItemsAreBytes(f, xs), Brief(EachBytes(f, xs))
  PROVE  \A i \in 1..Len(xs) : Brief(EncodeValue(f, xs[i]))
<1> SUFFICES ASSUME NEW i \in 1..Len(xs) PROVE Brief(EncodeValue(f, xs[i]))
  OBVIOUS
<1>1. PICK ss \in Seq(Seq(Byte)) :
        /\ ss = Items(f, xs) /\ Len(ss) = Len(xs) /\ Len(xs) \in Nat /\ ss[i] = ItemBytes(f, xs[i])
        /\ Len(ItemBytes(f, xs[i])) = Len(Tag(f.tag, 0)) + Len(EncodeValue(f, xs[i]))
  BY ItemsAre
<1>2. PICK P : Joined(ss, P)
  BY JoinedExists
<1>3. Len(ss[i]) <= Len(P[Len(ss)]) /\ FlattenSeq(ss) = P[Len(ss)]
  BY <1>1, <1>2, JoinedGrows, FlattenIs
<1>4. Len(ss[i]) <= Len(EachBytes(f, xs))
  BY <1>1, <1>3 DEF EachBytes
<1>5. EncodeValue(f, xs[i]) \in Seq(Byte)
  BY SequenceIs DEF ItemsAreBytes
<1>6. PICK n \in Nat : n = Len(EncodeValue(f, xs[i]))
  BY <1>5
<1>7. PICK t \in Nat : t = Len(Tag(f.tag, 0))
  BY TagBytes
<1>8. PICK k \in Nat : k = Len(EachBytes(f, xs)) /\ k < (128 * 128 * 128)
  BY DEF Brief
<1>9. t + n <= k
  BY <1>1, <1>4, <1>6, <1>7, <1>8
<1>10. n < (128 * 128 * 128)
  BY <1>8, <1>9
<1> QED BY <1>5, <1>6, <1>10 DEF Brief

LEMMA PackedBrief ==
  ASSUME NEW m, NEW f, SoundField(m, f), f.type # "MESSAGE", NEW xs, ItemsAreBytes(f, xs),
         Brief(PackedBytes(f, xs))
  PROVE  /\ Brief(FlattenSeq(Elements(f, xs)))
         /\ \A i \in 1..Len(xs) : Brief(EncodeValue(f, xs[i]))
<1>1. PICK ss \in Seq(Seq(Byte)) :
        /\ ss = Elements(f, xs) /\ Len(ss) = Len(xs)
        /\ \A i \in 1..Len(xs) : ss[i] = EncodeValue(f, xs[i])
  BY ElementsAre
<1>2. PICK all \in Seq(Byte) : all = FlattenSeq(ss)
  BY FlattenBytes
<1>3. PICK b \in Seq(Byte) : b = Sized(all) /\ Len(all) <= Len(b)
  BY SizedBytes
<1>4. PICK t \in Seq(Byte) : t = Tag(f.tag, WT_STRING)
  BY TagBytes
<1>5. Len(t \o b) = Len(t) + Len(b) /\ Len(t) \in Nat /\ Len(b) \in Nat /\ Len(all) \in Nat
  OBVIOUS
<1>6. PackedBytes(f, xs) = t \o b
  BY <1>1, <1>2, <1>3, <1>4 DEF PackedBytes
<1>7. Len(t \o b) < (128 * 128 * 128)
  BY <1>6 DEF Brief
<1>8. Len(all) < (128 * 128 * 128)
  BY <1>3, <1>5, <1>7
<1>9. PICK P : Joined(ss, P)
  BY JoinedExists
<1>10. FlattenSeq(ss) = P[Len(ss)]
  BY <1>9, FlattenIs
<1>11. ASSUME NEW i \in 1..Len(xs) PROVE Brief(EncodeValue(f, xs[i]))
  <2>1. Len(ss[i]) <= Len(P[Len(ss)]) /\ i \in 1..Len(ss)
    BY <1>1, <1>9, JoinedGrows
  <2>2. Len(ss[i]) <= Len(all)
    BY <1>2, <1>10, <2>1
  <2>3. PICK s \in Seq(Byte) : s = ss[i]
    BY <2>1
  <2>4. Len(s) < (128 * 128 * 128)
    BY <1>5, <1>8, <2>2, <2>3
  <2> QED BY <1>1, <2>3, <2>4 DEF Brief
<1> QED BY <1>1, <1>2, <1>8, <1>11 DEF Brief

LEMMA EachDone ==
  ASSUME NEW m, SoundFields(m), ItemsRead(m), NEW f \in Fields(m), NEW w, PlainAt(m, w, f),
         NEW xs, FieldShape(f, xs), ItemsAreBytes(f, xs), \A i \in 1..Len(xs) : Brief(EncodeValue(f, xs[i]))
  PROVE  FieldDone(m, w, f, xs, EachBytes(f, xs))
<1>1. SoundField(m, f) /\ IsItems(f, xs)
  BY ByName DEF FieldShape, IsItems
<1>2. Len(xs) \in Nat /\ (xs = << >> <=> Len(xs) = 0)
  BY SequenceIs DEF FieldShape
<1>3. CASE xs = << >>
  <2>1. EachBytes(f, << >>) = << >> /\ FieldDone(m, w, f, << >>, << >>)
    BY <1>1, NoneIs
  <2> QED BY <1>3, <2>1
<1>4. CASE xs # << >> /\ f.label = "REPEATED"
  <2>1. w = [n \in Names(m) |-> w[n]] /\ w[f.name] = << >>
    BY <1>4, DefaultIs DEF PlainAt
  <2>2. /\ RoomFor(m, f, xs) => Moves("message", m, m, w, EachBytes(f, xs), Set(m, w, f, xs))
        /\ ~RoomFor(m, f, xs) => Fails("message", m, m, w, EachBytes(f, xs))
    BY <1>1, <1>4, <2>1, SeveralMove
  <2> QED BY <1>4, <2>2, Zenon DEF FieldDone, With
<1>5. CASE xs # << >> /\ f.label # "REPEATED"
  <2>1. Len(xs) = 1
    <3>1. f.label \in {"SINGULAR", "OPTIONAL", "ONEOF"}
      BY <1>1, <1>5 DEF SoundField
    <3>2. Len(xs) <= 1
      BY <1>2, <3>1 DEF FieldShape
    <3>3. Len(xs) # 0
      BY <1>2, <1>5
    <3>4. PICK n \in Nat : n = Len(xs)
      BY <1>2
    <3>5. n <= 1 /\ n # 0 => n = 1
      OBVIOUS
    <3> QED BY <3>2, <3>3, <3>4, <3>5
  <2>2. EachBytes(f, xs) = ItemBytes(f, xs[1]) /\ xs = <<xs[1]>> /\ (RoomFor(m, f, xs) <=> ItemRoom(m, f, xs[1]))
    BY <1>1, <1>5, <2>1, OneIs
  <2>3. PICK x : x = xs[1] /\ IsItem(f, x) /\ Brief(EncodeValue(f, x))
    BY <1>1, <2>1 DEF IsItems
  <2>4. w[f.name] = Default(m)[f.name]
    BY DEF PlainAt
  <2>5. /\ ItemRoom(m, f, x) => Moves("message", m, m, w, ItemBytes(f, x), Set(m, w, f, <<x>>))
        /\ ~ItemRoom(m, f, x) => Fails("message", m, m, w, ItemBytes(f, x))
    BY <1>5, <2>3, <2>4, OneMoves
  <2>6. xs = <<x>>
    BY <2>2, <2>3
  <2> QED BY <1>5, <2>2, <2>3, <2>5, <2>6, Zenon DEF FieldDone, With
<1> QED BY <1>3, <1>4, <1>5

LEMMA FieldBytesDone ==
  ASSUME NEW m, SoundFields(m), ItemsRead(m), NEW f \in Fields(m), NEW w, PlainAt(m, w, f),
         NEW xs, FieldShape(f, xs), ItemsAreBytes(f, xs), Brief(FieldBytes(f, xs))
  PROVE  FieldDone(m, w, f, xs, FieldBytes(f, xs))
<1>1. SoundField(m, f)
  BY ByName
<1>2. CASE xs = << >>
  <2>1. FieldBytes(f, xs) = << >>
    BY <1>2 DEF FieldBytes
  <2>2. FieldDone(m, w, f, << >>, << >>)
    BY <1>1, NoneIs
  <2> QED BY <1>2, <2>1, <2>2
<1>3. CASE xs # << >> /\ IsDefault(f, xs)
  <2>1. FieldBytes(f, xs) = << >>
    BY <1>3 DEF FieldBytes
  <2>2. f.label = "SINGULAR" /\ xs = <<DefaultOf(f)>>
    BY <1>3 DEF IsDefault
  <2>3. f.type # "MESSAGE" /\ f.label # "ONEOF" /\ f.label # "REPEATED"
    BY <1>1, <2>2 DEF SoundField
  <2>4. w[f.name] = xs /\ w = [n \in Names(m) |-> w[n]]
    BY <2>2, DefaultIs DEF PlainAt
  <2>5. Set(m, w, f, xs) = w
    BY <2>3, <2>4, SetSame
  <2>6. RoomFor(m, f, xs)
    <3>1. ValueHasRoom(m, f, DefaultOf(f))
      BY <1>1, <2>3, DefaultScalar DEF ItemIs
    <3>2. Len(xs) = 1 /\ xs[1] = DefaultOf(f)
      BY <2>2
    <3> QED BY <2>3, <3>1, <3>2 DEF RoomFor, ItemRoom
  <2>7. Moves("message", m, m, w, << >>, w)
    BY NothingMoves
  <2> QED BY <1>3, <2>1, <2>5, <2>6, <2>7, Zenon DEF FieldDone, With
<1>4. CASE xs # << >> /\ ~IsDefault(f, xs) /\ f.label = "REPEATED" /\ Packable(f)
  <2>1. FieldBytes(f, xs) = PackedBytes(f, xs)
    BY <1>4 DEF FieldBytes
  <2>2. f.type # "MESSAGE"
    BY <1>4 DEF Packable, Delimited
  <2>3. Brief(FlattenSeq(Elements(f, xs))) /\ \A i \in 1..Len(xs) : Brief(EncodeValue(f, xs[i]))
    BY <1>1, <2>1, <2>2, PackedBrief
  <2>4. IsItems(f, xs)
    BY <2>3 DEF FieldShape, IsItems
  <2>5. w[f.name] = << >>
    BY <1>4, DefaultIs DEF PlainAt
  <2>6. /\ RoomFor(m, f, xs) => Moves("message", m, m, w, PackedBytes(f, xs), Set(m, w, f, xs))
        /\ ~RoomFor(m, f, xs) => Fails("message", m, m, w, PackedBytes(f, xs))
    BY <1>4, <2>3, <2>4, <2>5, PackedMoves
  <2> QED BY <1>4, <2>1, <2>6, Zenon DEF FieldDone, With
<1>5. CASE xs # << >> /\ ~IsDefault(f, xs) /\ ~(f.label = "REPEATED" /\ Packable(f))
  <2>1. FieldBytes(f, xs) = EachBytes(f, xs)
    BY <1>5 DEF FieldBytes
  <2>2. \A i \in 1..Len(xs) : Brief(EncodeValue(f, xs[i]))
    BY <1>1, <2>1, EachBrief
  <2>3. FieldDone(m, w, f, xs, EachBytes(f, xs))
    BY <2>2, EachDone
  <2> QED BY <2>1, <2>3
<1> QED BY <1>2, <1>3, <1>4, <1>5

-----------------------------------------------------------------------------
(* A message, read back from what is written of it.                         *)

\* The value v as far as its first k fields, and otherwise the default.
Partly(m, v, k) ==
  [n \in Names(m) |-> IF \E i \in 1..k : m.fields[i].name = n THEN v[n] ELSE Default(m)[n]]
IsPartly(m, v, k, u) ==
  /\ u = [n \in Names(m) |-> u[n]]
  /\ \A n \in Names(m) : /\ (\E i \in 1..k : m.fields[i].name = n) => u[n] = v[n]
                         /\ ~(\E i \in 1..k : m.fields[i].name = n) => u[n] = Default(m)[n]

LEMMA PartlyIs == ASSUME NEW m, NEW v, NEW k PROVE IsPartly(m, v, k, Partly(m, v, k))
<1>1. Partly(m, v, k) =
        [n \in Names(m) |-> IF \E i \in 1..k : m.fields[i].name = n THEN v[n] ELSE Default(m)[n]]
  BY Zenon DEF Partly
<1> QED BY <1>1 DEF IsPartly

LEMMA PartlyEnds == ASSUME NEW m, SoundFields(m), NEW v, AsLabelled(m, v)
  PROVE Partly(m, v, 0) = Default(m) /\ Partly(m, v, Len(m.fields)) = v
<1>1. PICK a : a = Partly(m, v, 0)
  OBVIOUS
<1>2. PICK b : b = Partly(m, v, Len(m.fields))
  OBVIOUS
<1>3. PICK d : d = Default(m)
  OBVIOUS
<1>4. IsPartly(m, v, 0, a) /\ IsPartly(m, v, Len(m.fields), b)
  BY <1>1, <1>2, PartlyIs
<1>5. v = [n \in Names(m) |-> v[n]] /\ d = [n \in Names(m) |-> d[n]]
  BY <1>3, DefaultIs, Zenon DEF AsLabelled
<1>6. \A n \in Names(m) : a[n] = d[n]
  <2>1. \A i : i \notin 1..0
    OBVIOUS
  <2> QED BY <1>3, <1>4, <2>1, Zenon DEF IsPartly
<1>7. \A n \in Names(m) : b[n] = v[n]
  <2>1. ASSUME NEW n \in Names(m) PROVE \E i \in 1..Len(m.fields) : m.fields[i].name = n
    <3>1. PICK f \in Fields(m) : f.name = n
      BY Zenon DEF Names
    <3> QED BY <3>1, FieldsAre, Zenon
  <2> QED BY <1>4, <2>1, Zenon DEF IsPartly
<1>8. a = d
  BY <1>4, <1>5, <1>6, SameValue DEF IsPartly
<1>9. b = v
  BY <1>4, <1>5, <1>7, SameValue DEF IsPartly
<1> QED BY <1>1, <1>2, <1>3, <1>8, <1>9

LEMMA PartlyNext ==
  ASSUME NEW m, SoundFields(m), NEW v, AsLabelled(m, v), NEW i \in 1..Len(m.fields)
  PROVE  LET f == m.fields[i]
             w == Partly(m, v, i - 1)
         IN  PlainAt(m, w, f) /\ With(m, w, f, v[f.name]) = Partly(m, v, i)
<1>1. PICK f \in Fields(m) : f = m.fields[i]
  BY FieldsAre
<1>2. PICK w : w = Partly(m, v, i - 1)
  OBVIOUS
<1>3. PICK u : u = Partly(m, v, i)
  OBVIOUS
<1>4. IsPartly(m, v, i - 1, w) /\ IsPartly(m, v, i, u)
  BY <1>2, <1>3, PartlyIs
<1>5. f.name \in Names(m) /\ i \in Nat /\ SoundField(m, f)
  BY ByName, FieldsAre
<1>6. \A n : (\E j \in 1..i : m.fields[j].name = n) <=> (\E j \in 1..(i - 1) : m.fields[j].name = n) \/ n = f.name
  <2>1. \A j : j \in 1..i <=> j \in 1..(i - 1) \/ j = i
    BY <1>5
  <2> QED BY <1>1, <2>1, Zenon
<1>7. ~\E j \in 1..(i - 1) : m.fields[j].name = f.name
  <2> SUFFICES ASSUME NEW j \in 1..(i - 1), m.fields[j].name = f.name PROVE FALSE
    OBVIOUS
  <2>1. j \in DOMAIN m.fields /\ i \in DOMAIN m.fields /\ j # i
    BY <1>5, FieldsAre
  <2> QED BY <1>1, <2>1 DEF SoundFields
<1>8. w = [n \in Names(m) |-> w[n]] /\ u = [n \in Names(m) |-> u[n]] /\ w[f.name] = Default(m)[f.name]
  BY <1>4, <1>5, <1>7, Zenon DEF IsPartly
<1>9. u[f.name] = v[f.name] /\ \A n \in Names(m) : n # f.name => u[n] = w[n]
  BY <1>4, <1>5, <1>6, Zenon DEF IsPartly
<1>10. CASE v[f.name] = << >>
  <2>1. f.label # "SINGULAR"
    <3>1. f.label = "SINGULAR" => Len(v[f.name]) = 1
      BY Zenon DEF AsLabelled
    <3>2. Len(<< >>) = 0
      OBVIOUS
    <3> QED BY <1>10, <3>1, <3>2
  <2>2. w[f.name] = << >>
    BY <1>8, <2>1, DefaultIs
  <2>3. \A n \in Names(m) : u[n] = w[n]
    BY <1>9, <1>10, <2>2
  <2>4. u = w
    BY <1>8, <2>3, SameValue
  <2> QED BY <1>1, <1>2, <1>3, <1>8, <1>10, <2>4, Zenon DEF PlainAt, With
<1>11. CASE v[f.name] # << >>
  <2>1. PICK s : s = Set(m, w, f, v[f.name])
    OBVIOUS
  <2>2. IsSet(m, w, f, v[f.name], s)
    BY <2>1, SetIs
  <2>3. ASSUME NEW g \in Fields(m), g.name # f.name, f.label = "ONEOF", g.label = "ONEOF"
        PROVE  w[g.name] = << >>
    <3>1. g.name \in Names(m)
      BY DEF Names
    <3>2. v[g.name] = << >>
      BY <1>11, <2>3 DEF AsLabelled
    <3>3. Default(m)[g.name] = << >>
      BY <2>3, DefaultIs
    <3> QED BY <1>4, <3>1, <3>2, <3>3, Zenon DEF IsPartly
  <2>4. ASSUME NEW n \in Names(m) PROVE s[n] = u[n]
    <3>1. CASE n = f.name
      BY <1>9, <2>2, <3>1 DEF IsSet
    <3>2. CASE n # f.name /\ f.label = "ONEOF" /\ \E g \in Fields(m) : g.name = n /\ g.label = "ONEOF"
      <4>1. s[n] = << >>
        BY <2>2, <3>2, Zenon DEF IsSet
      <4>2. w[n] = << >>
        BY <2>3, <3>2
      <4> QED BY <1>9, <3>2, <4>1, <4>2
    <3>3. CASE n # f.name /\ ~(f.label = "ONEOF" /\ \E g \in Fields(m) : g.name = n /\ g.label = "ONEOF")
      <4>1. s[n] = w[n]
        BY <2>2, <3>3, Zenon DEF IsSet
      <4> QED BY <1>9, <3>3, <4>1
    <3> QED BY <3>1, <3>2, <3>3
  <2>5. s = [n \in Names(m) |-> s[n]]
    BY <2>2, Zenon DEF IsSet
  <2>6. s = u
    BY <1>8, <2>4, <2>5, SameValue
  <2> QED BY <1>1, <1>2, <1>3, <1>8, <1>11, <2>1, <2>6, Zenon DEF PlainAt, With
<1> QED BY <1>10, <1>11

LEMMA HasRoomIs == ASSUME NEW m, SoundFields(m), NEW v, IsValue(m, v)
  PROVE HasRoom(m, v) <=> \A i \in 1..Len(m.fields) : RoomFor(m, m.fields[i], v[m.fields[i].name])
<1>1. ASSUME NEW f \in Fields(m) PROVE DOMAIN v[f.name] = 1..Len(v[f.name])
  <2>1. Sequence(v[f.name])
    BY ValueIs
  <2> QED BY <2>1, SequenceIs
<1>2. HasRoom(m, v) <=>
        \A f \in Fields(m) :
          /\ f.label = "REPEATED" => Len(v[f.name]) <= m.room[f.name]
          /\ \A i \in 1..Len(v[f.name]) : ValueHasRoom(m, f, v[f.name][i])
          /\ f.type = "MESSAGE" => \A i \in 1..Len(v[f.name]) : FlatHasRoom(f.of, v[f.name][i])
  <2>1. FlatHasRoom(m, v) <=>
          \A f \in Fields(m) :
            /\ f.label = "REPEATED" => Len(v[f.name]) <= m.room[f.name]
            /\ \A i \in 1..Len(v[f.name]) : ValueHasRoom(m, f, v[f.name][i])
    BY <1>1, Zenon DEF FlatHasRoom, FieldHasRoom
  <2>2. HasRoom(m, v) <=>
          /\ FlatHasRoom(m, v)
          /\ \A f \in Fields(m) :
               f.type = "MESSAGE" => \A i \in 1..Len(v[f.name]) : FlatHasRoom(f.of, v[f.name][i])
    BY <1>1, Zenon DEF HasRoom
  <2> QED BY <2>1, <2>2, Zenon
<1>3. \A f : f.type = "MESSAGE" => \A x : ValueHasRoom(m, f, x)
  BY RoomOf
<1>4. HasRoom(m, v) <=> \A f \in Fields(m) : RoomFor(m, f, v[f.name])
  BY <1>2, <1>3, Zenon DEF RoomFor, ItemRoom
<1>5. (\A f \in Fields(m) : RoomFor(m, f, v[f.name])) <=>
        \A i \in 1..Len(m.fields) : RoomFor(m, m.fields[i], v[m.fields[i].name])
  BY FieldsAre, Zenon
<1> QED BY <1>4, <1>5

LEMMA ValueShape == ASSUME NEW m, Sound(m), NEW v, IsValue(m, v), NEW f \in Fields(m)
  PROVE FieldShape(f, v[f.name]) /\ ItemsAreBytes(f, v[f.name])
<1>1. AsLabelled(m, v) /\ Sequence(v[f.name]) /\ \A i \in DOMAIN v[f.name] : IsItem(f, v[f.name][i])
  BY ValueIs
<1>2. DOMAIN v[f.name] = 1..Len(v[f.name])
  BY <1>1, SequenceIs
<1>3. FieldShape(f, v[f.name])
  BY <1>1, <1>2 DEF FieldShape, AsLabelled
<1>4. \A i \in DOMAIN v[f.name] : EncodeValue(f, v[f.name][i]) \in Seq(Byte)
  BY <1>1, ItemsBytes
<1> QED BY <1>1, <1>3, <1>4 DEF ItemsAreBytes

\* Pieces that each bring their field bring the message.
LEMMA PiecesMove ==
  ASSUME NEW m, SoundFields(m), NEW v, IsValue(m, v), NEW ss \in Seq(Seq(Byte)), Len(ss) = Len(m.fields),
         \A i \in 1..Len(m.fields) : \A w :
           PlainAt(m, w, m.fields[i]) => FieldDone(m, w, m.fields[i], v[m.fields[i].name], ss[i])
  PROVE  /\ HasRoom(m, v) => Moves("message", m, m, Default(m), FlattenSeq(ss), v)
         /\ ~HasRoom(m, v) => Fails("message", m, m, Default(m), FlattenSeq(ss))
<1>1. PICK N \in Nat : N = Len(m.fields)
  BY FieldsAre
<1>2. AsLabelled(m, v)
  BY ValueIs
<1> DEFINE z == [i \in 0..N |-> Partly(m, v, i)]
           C == {i \in 1..N : RoomFor(m, m.fields[i], v[m.fields[i].name])}
<1>3. z[0] = Default(m) /\ z[N] = v
  BY <1>1, <1>2, PartlyEnds
<1>4. ASSUME NEW i \in 1..N
      PROVE  /\ i \in C => Moves("message", m, m, z[i - 1], ss[i], z[i])
             /\ i \notin C => Fails("message", m, m, z[i - 1], ss[i])
  <2>1. PICK f : f = m.fields[i]
    OBVIOUS
  <2>2. PICK w : w = Partly(m, v, i - 1)
    OBVIOUS
  <2>3. PlainAt(m, w, f) /\ With(m, w, f, v[f.name]) = Partly(m, v, i)
    BY <1>1, <1>2, <2>1, <2>2, PartlyNext
  <2>4. FieldDone(m, w, f, v[f.name], ss[i])
    BY <1>1, <2>1, <2>3
  <2>5. z[i - 1] = w /\ z[i] = Partly(m, v, i)
    BY <1>1, <2>2
  <2>6. i \in C <=> RoomFor(m, f, v[f.name])
    BY <2>1
  <2> HIDE DEF z, C
  <2> QED BY <2>3, <2>4, <2>5, <2>6, Zenon DEF FieldDone
<1>5. 1..N \subseteq C <=> HasRoom(m, v)
  <2>1. HasRoom(m, v) <=> \A i \in 1..N : RoomFor(m, m.fields[i], v[m.fields[i].name])
    BY <1>1, HasRoomIs
  <2> QED BY <2>1, Zenon
<1> HIDE DEF z, C
<1>6. \A i \in 1..Len(ss) : /\ i \in C => Moves("message", m, m, z[i - 1], ss[i], z[i])
                            /\ i \notin C => Fails("message", m, m, z[i - 1], ss[i])
  BY <1>1, <1>4
<1>7. /\ 1..Len(ss) \subseteq C => Moves("message", m, m, z[0], FlattenSeq(ss), z[Len(ss)])
      /\ ~(1..Len(ss) \subseteq C) => Fails("message", m, m, z[0], FlattenSeq(ss))
  BY <1>6, Chain
<1> QED BY <1>1, <1>3, <1>5, <1>7

LEMMA PieceBrief == ASSUME NEW ss \in Seq(Seq(Byte)), Brief(FlattenSeq(ss)), NEW i \in 1..Len(ss)
  PROVE Brief(ss[i])
<1>1. PICK P : Joined(ss, P)
  BY JoinedExists
<1>2. Len(ss[i]) <= Len(P[Len(ss)]) /\ FlattenSeq(ss) = P[Len(ss)]
  BY <1>1, JoinedGrows, FlattenIs
<1>3. PICK k \in Nat : k = Len(FlattenSeq(ss)) /\ k < (128 * 128 * 128)
  BY DEF Brief
<1>4. PICK s \in Seq(Byte) : s = ss[i]
  OBVIOUS
<1>5. Len(s) <= k /\ Len(s) \in Nat
  BY <1>2, <1>3, <1>4
<1>6. Len(s) < (128 * 128 * 128)
  BY <1>3, <1>5
<1> QED BY <1>4, <1>6 DEF Brief

LEMMA PlainMoves ==
  ASSUME NEW m, Sound(m), ItemsRead(m), NEW v, IsValue(m, v), Brief(Encode(m, v))
  PROVE  /\ HasRoom(m, v) => Moves("message", m, m, Default(m), Encode(m, v), v)
         /\ ~HasRoom(m, v) => Fails("message", m, m, Default(m), Encode(m, v))
<1>1. SoundFields(m) /\ MessageIsBytes(m, v) /\ Encode(m, v) = FlattenSeq(Pieces(m, v))
  BY EncodedIsBytes, EncodeIs DEF Sound
<1>2. PICK ss \in Seq(Seq(Byte)) :
        /\ ss = Pieces(m, v) /\ Len(ss) = Len(m.fields)
        /\ \A i \in 1..Len(m.fields) : ss[i] = FieldBytes(m.fields[i], v[m.fields[i].name])
  BY <1>1 DEF MessageIsBytes
<1>3. ASSUME NEW i \in 1..Len(m.fields), NEW w, PlainAt(m, w, m.fields[i])
      PROVE  FieldDone(m, w, m.fields[i], v[m.fields[i].name], ss[i])
  <2>1. PICK f \in Fields(m) : f = m.fields[i]
    BY <1>1, FieldsAre
  <2>2. FieldShape(f, v[f.name]) /\ ItemsAreBytes(f, v[f.name])
    BY ValueShape
  <2>3. Brief(ss[i])
    BY <1>1, <1>2, PieceBrief
  <2>4. ss[i] = FieldBytes(f, v[f.name])
    BY <1>2, <2>1
  <2>5. Brief(FieldBytes(f, v[f.name]))
    BY <2>3, <2>4
  <2>6. PlainAt(m, w, f)
    BY <1>3, <2>1
  <2>7. FieldDone(m, w, f, v[f.name], FieldBytes(f, v[f.name]))
    BY <1>1, <2>2, <2>5, <2>6, FieldBytesDone
  <2> QED BY <2>1, <2>4, <2>7
<1> QED BY <1>1, <1>2, <1>3, PiecesMove

LEMMA ExplicitMoves ==
  ASSUME NEW m, Sound(m), ItemsRead(m), NEW v, IsValue(m, v), Brief(EncodeAll(m, v))
  PROVE  /\ HasRoom(m, v) => Moves("message", m, m, Default(m), EncodeAll(m, v), v)
         /\ ~HasRoom(m, v) => Fails("message", m, m, Default(m), EncodeAll(m, v))
<1>1. SoundFields(m) /\ MessageIsBytes(m, v) /\ EncodeAll(m, v) = FlattenSeq(ExplicitPieces(m, v))
  BY EncodedIsBytes, EncodeIs DEF Sound
<1>2. PICK ss \in Seq(Seq(Byte)) :
        /\ ss = ExplicitPieces(m, v) /\ Len(ss) = Len(m.fields)
        /\ \A i \in 1..Len(m.fields) : ss[i] = EachBytes(m.fields[i], v[m.fields[i].name])
  BY <1>1 DEF MessageIsBytes
<1>3. ASSUME NEW i \in 1..Len(m.fields), NEW w, PlainAt(m, w, m.fields[i])
      PROVE  FieldDone(m, w, m.fields[i], v[m.fields[i].name], ss[i])
  <2>1. PICK f \in Fields(m) : f = m.fields[i]
    BY <1>1, FieldsAre
  <2>2. FieldShape(f, v[f.name]) /\ ItemsAreBytes(f, v[f.name])
    BY ValueShape
  <2>3. Brief(ss[i])
    BY <1>1, <1>2, PieceBrief
  <2>4. ss[i] = EachBytes(f, v[f.name])
    BY <1>2, <2>1
  <2>5. \A j \in 1..Len(v[f.name]) : Brief(EncodeValue(f, v[f.name][j]))
    BY <1>1, <2>2, <2>3, <2>4, ByName, EachBrief
  <2>6. PlainAt(m, w, f)
    BY <1>3, <2>1
  <2>7. FieldDone(m, w, f, v[f.name], EachBytes(f, v[f.name]))
    BY <1>1, <2>2, <2>5, <2>6, EachDone
  <2> QED BY <2>1, <2>4, <2>7
<1> QED BY <1>1, <1>2, <1>3, PiecesMove

LEMMA DecodeMoves == ASSUME NEW m, SoundFields(m), NEW b, NEW x
  PROVE /\ Moves("message", m, m, Default(m), b, x) => Decode(m, b) = Read(x, << >>)
        /\ Fails("message", m, m, Default(m), b) => Decode(m, b) = NotRead
<1>1. Decode(m, b) = Steps("message", m, m, Default(m), b)
  BY DecodeIsSteps DEF Decode
<1>2. Steps("message", m, m, x, << >>) = Read(x, << >>)
  BY MessageShrinks, StepsOfNothing
<1>3. << >> \in Seq(Byte) /\ (b \in Seq(Byte) => b \o << >> = b)
  OBVIOUS
<1>4. ASSUME Moves("message", m, m, Default(m), b, x) PROVE Decode(m, b) = Read(x, << >>)
  <2>1. b \in Seq(Byte) /\ Steps("message", m, m, Default(m), b \o << >>) = Steps("message", m, m, x, << >>)
    BY <1>3, <1>4, Zenon DEF Moves
  <2> QED BY <1>1, <1>2, <1>3, <2>1
<1>5. ASSUME Fails("message", m, m, Default(m), b) PROVE Decode(m, b) = NotRead
  <2>1. b \in Seq(Byte) /\ Steps("message", m, m, Default(m), b \o << >>) = NotRead
    BY <1>3, <1>5, Zenon DEF Fails
  <2> QED BY <1>1, <1>3, <2>1
<1> QED BY <1>4, <1>5

LEMMA FlatItemsRead == ASSUME NEW m, SoundFields(m), IsFlat(m) PROVE ItemsRead(m)
<1> SUFFICES ASSUME NEW f \in Fields(m), NEW x, IsItem(f, x), Brief(EncodeValue(f, x)), NEW r \in Seq(Byte)
             PROVE  ReadValue(m, f, Fresh(f), WireTypeOf(f), EncodeValue(f, x) \o r) = ReadIf(ItemRoom(m, f, x), x, r)
  BY DEF ItemsRead
<1>1. SoundField(m, f) /\ f.type # "MESSAGE"
  BY ByName DEF IsFlat
<1>2. EncodeValue(f, x) = EncodeScalar(f, x) /\ Scalar(f, x) /\ (ItemRoom(m, f, x) <=> ValueHasRoom(m, f, x))
  BY <1>1, Zenon DEF EncodeValue, IsItem, ItemRoom
<1>3. RightWireType(f, WireTypeOf(f))
  BY DEF RightWireType
<1>4. \A s : ReadValue(m, f, Fresh(f), WireTypeOf(f), s) = ReadScalar(m, f, Fresh(f), WireTypeOf(f), s)
  BY <1>1, Zenon DEF ReadValue
<1>5. Brief(EncodeScalar(f, x))
  BY <1>2
<1>6. ReadScalar(m, f, Fresh(f), WireTypeOf(f), EncodeScalar(f, x) \o r) = ReadIf(ValueHasRoom(m, f, x), x, r)
  BY <1>1, <1>2, <1>3, <1>5, ScalarRead
<1> QED BY <1>2, <1>4, <1>6, Zenon DEF ReadIf

LEMMA FlatReadBack ==
  ASSUME NEW m, SoundFields(m), IsFlat(m), NEW v, FlatValue(m, v), Brief(EncodeFlat(m, v))
  PROVE  /\ FlatHasRoom(m, v) => DecodeFlat(m, Default(m), EncodeFlat(m, v)) = Read(v, << >>)
         /\ ~FlatHasRoom(m, v) => DecodeFlat(m, Default(m), EncodeFlat(m, v)) = NotRead
<1>1. IsValue(m, v) /\ (FlatHasRoom(m, v) <=> HasRoom(m, v)) /\ Sound(m)
  BY FlatGood, FlatSound
<1>2. EncodeFlat(m, v) = Encode(m, v) /\ Brief(Encode(m, v))
  BY EncodeFlatIs
<1>3. DecodeFlat(m, Default(m), EncodeFlat(m, v)) = Decode(m, Encode(m, v))
  BY <1>2, FlatDecode DEF Decode
<1>4. ItemsRead(m)
  BY FlatItemsRead
<1>5. /\ HasRoom(m, v) => Moves("message", m, m, Default(m), Encode(m, v), v)
      /\ ~HasRoom(m, v) => Fails("message", m, m, Default(m), Encode(m, v))
  BY <1>1, <1>2, <1>4, PlainMoves
<1> QED BY <1>1, <1>3, <1>5, DecodeMoves

LEMMA AllItemsRead == ASSUME NEW m, Sound(m) PROVE ItemsRead(m)
<1> SUFFICES ASSUME NEW f \in Fields(m), NEW x, IsItem(f, x), Brief(EncodeValue(f, x)), NEW r \in Seq(Byte)
             PROVE  ReadValue(m, f, Fresh(f), WireTypeOf(f), EncodeValue(f, x) \o r) = ReadIf(ItemRoom(m, f, x), x, r)
  BY DEF ItemsRead
<1>1. SoundField(m, f) /\ SoundFields(m)
  BY ByName DEF Sound
<1>2. CASE f.type # "MESSAGE"
  <2>2. EncodeValue(f, x) = EncodeScalar(f, x) /\ Scalar(f, x) /\ (ItemRoom(m, f, x) <=> ValueHasRoom(m, f, x))
    BY <1>2, Zenon DEF EncodeValue, IsItem, ItemRoom
  <2>3. RightWireType(f, WireTypeOf(f))
    BY DEF RightWireType
  <2>4. \A s : ReadValue(m, f, Fresh(f), WireTypeOf(f), s) = ReadScalar(m, f, Fresh(f), WireTypeOf(f), s)
    BY <1>2, Zenon DEF ReadValue
  <2>5. Brief(EncodeScalar(f, x))
    BY <2>2
  <2>6. ReadScalar(m, f, Fresh(f), WireTypeOf(f), EncodeScalar(f, x) \o r) = ReadIf(ValueHasRoom(m, f, x), x, r)
    BY <1>1, <1>2, <2>2, <2>3, <2>5, ScalarRead
  <2> QED BY <2>2, <2>4, <2>6, Zenon DEF ReadIf
<1>3. CASE f.type = "MESSAGE"
  <2>1. PICK g : g = f.of /\ SoundFields(g) /\ IsFlat(g)
    BY <1>3 DEF Sound
  <2>2. FlatValue(g, x) /\ EncodeValue(f, x) = Sized(EncodeFlat(g, x)) /\ Fresh(f) = Default(g)
        /\ (ItemRoom(m, f, x) <=> FlatHasRoom(g, x))
    BY <1>3, <2>1 DEF IsItem, EncodeValue, Fresh, ItemRoom
  <2>3. PICK b \in Seq(Byte) : b = EncodeFlat(g, x)
    BY <2>1, <2>2, FlatBytes
  <2>4. Brief(Sized(b))
    BY <2>2, <2>3
  <2>5. Len(b) < (128 * 128 * 128) /\ Brief(b)
    <3>1. Len(b) <= Len(Sized(b)) /\ Len(b) \in Nat /\ Len(Sized(b)) \in Nat
      BY SizedBytes
    <3> QED BY <2>4, <3>1 DEF Brief
  <2>6. ReadSized(Sized(b) \o r) = Read(b, r)
    BY <2>5, SizedIs
  <2>7. /\ FlatHasRoom(g, x) => DecodeFlat(g, Default(g), b) = Read(x, << >>)
        /\ ~FlatHasRoom(g, x) => DecodeFlat(g, Default(g), b) = NotRead
    <3>1. Brief(EncodeFlat(g, x))
      BY <2>3, <2>5
    <3> QED BY <2>1, <2>2, <2>3, <3>1, FlatReadBack
  <2> DEFINE s == Sized(b) \o r
             a == ReadSized(s)
             c == FlatHasRoom(g, x)
             p == DecodeFlat(g, Default(g), a.value)
             t == ReadValue(m, f, Default(g), WT_STRING, s)
  <2>8. a.ok = TRUE /\ a.value = b /\ a.rest = r
    <3>1. Read(b, r).ok = TRUE /\ Read(b, r).value = b /\ Read(b, r).rest = r
      BY ReadParts
    <3>2. a = Read(b, r)
      BY <2>6
    <3> HIDE DEF a
    <3> QED BY <3>1, <3>2
  <2>9. t = IF a.ok THEN (IF p.ok THEN Read(p.value, a.rest) ELSE NotRead) ELSE NotRead
    <3>1. t = ReadMessage(f, Default(g), s)
      BY <1>3, Zenon DEF ReadValue
    <3>2. ReadMessage(f, Default(g), s) =
            IF ReadSized(s).ok THEN (IF DecodeFlat(f.of, Default(g), ReadSized(s).value).ok
                                       THEN Read(DecodeFlat(f.of, Default(g), ReadSized(s).value).value, ReadSized(s).rest)
                                       ELSE NotRead)
                               ELSE NotRead
      BY Zenon DEF ReadMessage, Then
    <3> QED BY <2>1, <3>1, <3>2, Zenon
  <2>10. WireTypeOf(f) = WT_STRING
    BY <1>3 DEF WireTypeOf, Delimited
  <2> HIDE DEF a, t, s
  <2>11. p = IF c THEN Read(x, << >>) ELSE NotRead
    BY <2>7, <2>8, Zenon
  <2> HIDE DEF p, c
  <2>12. (p.ok <=> c) /\ (c => p.value = x)
    BY <2>11, IfRead
  <2>13. t = IF c THEN Read(x, r) ELSE NotRead
    BY <2>8, <2>9, <2>12, Zenon
  <2>14. t = ReadValue(m, f, Fresh(f), WireTypeOf(f), EncodeValue(f, x) \o r)
    BY <2>2, <2>3, <2>10, Zenon DEF t, s
  <2> QED BY <2>2, <2>13, <2>14, Zenon DEF ReadIf, c
<1> QED BY <1>2, <1>3

-----------------------------------------------------------------------------
(* The headers.                                                             *)

HeaderNames == {"message_type", "endpoint_id", "number_of_objects", "remaining_objects", "transaction_id"}

LEMMA HeaderFields ==
  /\ \A f \in Fields(ReachMessageHeader) : f.name \in HeaderNames /\ f.type = "UINT32" /\ f.label = "SINGULAR"
  /\ Names(ReachMessageHeader) = HeaderNames
<1> DEFINE s == ReachMessageHeader.fields
<1>1. s = << One("message_type", "UINT32", 1), One("endpoint_id", "UINT32", 2), One("number_of_objects", "UINT32", 3),
             One("remaining_objects", "UINT32", 4), One("transaction_id", "UINT32", 5) >>
  BY DEF ReachMessageHeader, Message
<1>2. Fields(ReachMessageHeader) =
        {One("message_type", "UINT32", 1), One("endpoint_id", "UINT32", 2), One("number_of_objects", "UINT32", 3),
         One("remaining_objects", "UINT32", 4), One("transaction_id", "UINT32", 5)}
  <2>1. Fields(ReachMessageHeader) = {s[i] : i \in DOMAIN s}
    BY DEF Fields, ToSet
  <2> HIDE DEF s
  <2> QED BY <1>1, <2>1
<1>3. \A f \in Fields(ReachMessageHeader) : f.name \in HeaderNames /\ f.type = "UINT32" /\ f.label = "SINGULAR"
  BY <1>2 DEF One, HeaderNames
<1>4. Names(ReachMessageHeader) = HeaderNames
  BY <1>2 DEF Names, One, HeaderNames
<1> QED BY <1>3, <1>4

LEMMA EnvelopeFields ==
  /\ \E h, p \in Fields(ReachMessage) :
       /\ Fields(ReachMessage) = {h, p}
       /\ h.name = "header" /\ h.type = "MESSAGE" /\ h.label = "OPTIONAL" /\ h.of = ReachMessageHeader
       /\ p.name = "payload" /\ p.type = "BYTES" /\ p.label = "SINGULAR"
  /\ ReachMessage.room["payload"] = REACH_MESSAGE_PAYLOAD_MAX
  /\ Names(ReachMessage) = {"header", "payload"}
  /\ ReachMessage = Messages["ReachMessage"] /\ Sound(ReachMessage)
  /\ GreatestSize(ReachMessage) = 243
  /\ SoundFields(ReachMessageHeader) /\ IsFlat(ReachMessageHeader) /\ Sound(ReachMessageHeader)
<1> DEFINE s == ReachMessage.fields
           h == OptSub("header", ReachMessageHeader, 1)
           p == One("payload", "BYTES", 2)
<1>1. s = <<h, p>> /\ ReachMessage.room = Room_device.ReachMessage
  BY DEF ReachMessage, Message
<1>2. Fields(ReachMessage) = {h, p}
  <2>1. Fields(ReachMessage) = {s[i] : i \in DOMAIN s}
    BY DEF Fields, ToSet
  <2> HIDE DEF s, h, p
  <2> QED BY <1>1, <2>1
<1>3. h.name = "header" /\ h.type = "MESSAGE" /\ h.label = "OPTIONAL" /\ h.of = ReachMessageHeader
  BY DEF OptSub
<1>4. p.name = "payload" /\ p.type = "BYTES" /\ p.label = "SINGULAR"
  BY DEF One
<1> HIDE DEF h, p, s
<1>5. ReachMessage.room["payload"] = REACH_MESSAGE_PAYLOAD_MAX
  BY <1>1 DEF REACH_MESSAGE_PAYLOAD_MAX
<1>6. Names(ReachMessage) = {"header", "payload"}
  BY <1>2, <1>3, <1>4 DEF Names
<1>7. "ReachMessage" \in DOMAIN Messages /\ ReachMessage = Messages["ReachMessage"]
  BY DEF Messages
<1>8. Sound(ReachMessage)
  BY <1>7, DescriptorsAreSound
<1>9. GreatestSize(ReachMessage) = 243
  <2>1. DeclaredSize["ReachMessage"] = 243
    BY DEF DeclaredSize
  <2> QED BY <1>7, <2>1, SizesAreAnnounced
<1>10. SoundFields(ReachMessageHeader) /\ IsFlat(ReachMessageHeader)
  BY <1>2, <1>3, <1>8 DEF Sound
<1>11. Sound(ReachMessageHeader)
  BY <1>10, FlatSound
<1>12. h \in Fields(ReachMessage) /\ p \in Fields(ReachMessage)
  BY <1>2
<1> QED BY <1>2, <1>3, <1>4, <1>5, <1>6, <1>7, <1>8, <1>9, <1>10, <1>11, <1>12

LEMMA DigitsWord == ASSUME NEW n \in Nat PROVE Word(Digits(n))
  BY DigitsIs, DigitsLow DEF Word

LEMMA ZeroWord == Word(Zero)
<1>1. 0 \in Nat /\ 0 < 128 * 128 * 128 * 128
  OBVIOUS
<1> QED BY <1>1, DigitsWord, LenDigits

IsHeader(h) ==
  /\ h = [n \in HeaderNames |-> h[n]]
  /\ \A n \in HeaderNames : \E d : Word(d) /\ h[n] = <<d>>

LEMMA HeaderIsHeader ==
  ASSUME NEW type, NEW endpoint, NEW objects \in Nat, NEW remaining \in Nat, NEW transaction,
         type \in DOMAIN MessageType, Word(endpoint), Word(transaction)
  PROVE  /\ IsHeader(Header(type, endpoint, objects, remaining, transaction))
         /\ Header(type, endpoint, objects, remaining, transaction)["message_type"] = <<Digits(MessageType[type])>>
<1> DEFINE h == Header(type, endpoint, objects, remaining, transaction)
<1>1. Word(Digits(MessageType[type])) /\ Word(Digits(objects)) /\ Word(Digits(remaining))
  <2>1. MessageType[type] \in Nat
    BY TablesAreSound
  <2> QED BY <2>1, DigitsWord
<1>2. h = [n \in HeaderNames |-> h[n]]
  BY DEF Header, HeaderNames
<1>3. /\ h["message_type"] = <<Digits(MessageType[type])>> /\ h["endpoint_id"] = <<endpoint>>
      /\ h["number_of_objects"] = <<Digits(objects)>> /\ h["remaining_objects"] = <<Digits(remaining)>>
      /\ h["transaction_id"] = <<transaction>>
  BY DEF Header
<1> HIDE DEF h
<1>4. \A n \in HeaderNames : \E d : Word(d) /\ h[n] = <<d>>
  BY <1>1, <1>3 DEF HeaderNames
<1> QED BY <1>2, <1>3, <1>4 DEF h, IsHeader

LEMMA WordScalar == ASSUME NEW f, f.type = "UINT32", NEW d PROVE Word(d) <=> Scalar(f, d)
<1>1. Bytes[f.type] = 4 /\ f.type \in Unsigned
  BY DEF Bytes, Unsigned
<1> QED BY <1>1, ScalarIs DEF Word

LEMMA HeaderGood == ASSUME NEW h, IsHeader(h)
  PROVE Good(ReachMessageHeader, h) /\ FlatDeclared(ReachMessageHeader, h)
<1>1. \A f \in Fields(ReachMessageHeader) : f.name \in HeaderNames /\ f.type = "UINT32" /\ f.label = "SINGULAR"
  BY HeaderFields
<1>2. ASSUME NEW f \in Fields(ReachMessageHeader) PROVE FieldGood(ReachMessageHeader, f, h[f.name])
  <2>1. PICK d : Word(d) /\ h[f.name] = <<d>>
    BY <1>1 DEF IsHeader
  <2>2. SoundField(ReachMessageHeader, f)
    BY EnvelopeFields DEF SoundFields
  <2>3. ItemIs(ReachMessageHeader, f, d)
    BY <1>1, <2>1, WordScalar DEF ItemIs, ValueHasRoom
  <2> QED BY <1>1, <2>1, <2>2, <2>3, OneGood
<1>3. OneMember(ReachMessageHeader, h)
  BY <1>1 DEF OneMember
<1>4. h = [n \in Names(ReachMessageHeader) |-> h[n]]
  BY HeaderFields DEF IsHeader
<1>5. Good(ReachMessageHeader, h)
  BY <1>2, <1>3, <1>4, EnvelopeFields, GoodIs
<1>6. FlatDeclared(ReachMessageHeader, h)
  BY <1>1 DEF FlatDeclared
<1> QED BY <1>5, <1>6

\* The envelope of any payload is a message; of one that has room, one that fits.
LEMMA EnvelopeIs == ASSUME NEW h, IsHeader(h), NEW payload \in Seq(Byte)
  PROVE /\ IsValue(ReachMessage, Envelope(h, payload)) /\ Declared(ReachMessage, Envelope(h, payload))
        /\ HasRoom(ReachMessage, Envelope(h, payload)) <=> Len(payload) <= REACH_MESSAGE_PAYLOAD_MAX
        /\ Len(payload) <= REACH_MESSAGE_PAYLOAD_MAX => Len(Encode(ReachMessage, Envelope(h, payload))) <= 243
<1>1. PICK hf, pf \in Fields(ReachMessage) :
       /\ Fields(ReachMessage) = {hf, pf}
       /\ hf.name = "header" /\ hf.type = "MESSAGE" /\ hf.label = "OPTIONAL" /\ hf.of = ReachMessageHeader
       /\ pf.name = "payload" /\ pf.type = "BYTES" /\ pf.label = "SINGULAR"
  BY EnvelopeFields
<1> DEFINE e == Envelope(h, payload)
<1>2. e = [n \in {"header", "payload"} |-> e[n]] /\ e["header"] = <<h>> /\ e["payload"] = <<payload>>
  BY DEF Envelope
<1> HIDE DEF e
<1>3. /\ Len(<<h>>) = 1 /\ DOMAIN <<h>> = {1} /\ <<h>>[1] = h
      /\ Len(<<payload>>) = 1 /\ DOMAIN <<payload>> = {1} /\ <<payload>>[1] = payload
      /\ Sequence(<<h>>) /\ Sequence(<<payload>>)
      /\ Len(<<h>>) <= 1 /\ Len(<<payload>>) <= 1
  <2>1. \A x : Sequence(<<x>>)
    <3> TAKE x
    <3>1. x \in ToSet(<<x>>)
      BY DEF ToSet
    <3> QED BY <3>1 DEF Sequence
  <2> QED BY <2>1
<1>4. FlatValue(ReachMessageHeader, h) /\ FlatHasRoom(ReachMessageHeader, h) /\ FlatDeclared(ReachMessageHeader, h)
  BY HeaderGood, EnvelopeFields, FlatGood DEF Good
<1>5. IsItem(hf, h) /\ IsItem(pf, payload)
  <2>1. Scalar(pf, payload)
    BY <1>1, ScalarIs
  <2> QED BY <1>1, <1>4, <2>1 DEF IsItem
<1>6. AsLabelled(ReachMessage, e)
  <2>1. e = [n \in Names(ReachMessage) |-> e[n]]
    BY <1>2, EnvelopeFields
  <2>2. \A f \in Fields(ReachMessage) : Len(e[f.name]) = 1 /\ Len(e[f.name]) <= 1 /\ f.label # "ONEOF"
    BY <1>1, <1>2, <1>3
  <2>3. \A f \in Fields(ReachMessage) : /\ f.label = "SINGULAR" => Len(e[f.name]) = 1
                                        /\ f.label \in {"OPTIONAL", "ONEOF"} => Len(e[f.name]) <= 1
    BY <2>2, Zenon
  <2> QED BY <2>1, <2>2, <2>3, Zenon DEF AsLabelled
<1>7. IsValue(ReachMessage, e)
  BY <1>1, <1>2, <1>3, <1>5, <1>6, ValueIs
<1>8. Declared(ReachMessage, e)
  BY <1>1, <1>2, <1>3, <1>4 DEF Declared, FlatDeclared
<1>9. HasRoom(ReachMessage, e) <=> Len(payload) <= REACH_MESSAGE_PAYLOAD_MAX
  <2>1. FieldHasRoom(ReachMessage, hf, <<h>>)
    BY <1>1 DEF FieldHasRoom, ValueHasRoom
  <2>2. FieldHasRoom(ReachMessage, pf, <<payload>>) <=> Len(payload) <= REACH_MESSAGE_PAYLOAD_MAX
    BY <1>1, <1>3, EnvelopeFields DEF FieldHasRoom, ValueHasRoom
  <2> QED BY <1>1, <1>2, <1>3, <1>4, <2>1, <2>2 DEF HasRoom, FlatHasRoom
<1>10. Len(payload) <= REACH_MESSAGE_PAYLOAD_MAX => Len(Encode(ReachMessage, e)) <= 243
  BY <1>7, <1>8, <1>9, EnvelopeFields, EncodedFits
<1> QED BY <1>7, <1>8, <1>9, <1>10 DEF e

-----------------------------------------------------------------------------
(* The notifications.                                                       *)

LEMMA TextIs == ASSUME NEW n \in Nat PROVE Text(n) \in Seq(Byte \ {0}) /\ Text(n) \in Seq(Byte) /\ Len(Text(n)) = n
<1>1. 65 \in Byte \ {0} /\ 65 \in Byte
  BY ByteIs
<1>2. Text(n) \in [1..n -> Byte \ {0}] /\ Text(n) \in [1..n -> Byte]
  BY <1>1 DEF Text
<1>3. Len(Text(n)) = n
  BY DEF Text
<1> QED BY <1>2, <1>3, SeqDef

Notes == {"ErrorReport", "CLIData", "ParameterNotification"}

LEMMA NoteMessages ==
  /\ Messages["ErrorReport"] = ErrorReport /\ Messages["CLIData"] = CLIData
  /\ Messages["ParameterNotification"] = ParameterNotification
  /\ Messages["ParameterValue"] = ParameterValue
  /\ Sound(ErrorReport) /\ Sound(CLIData) /\ Sound(ParameterNotification) /\ Sound(ParameterValue)
  /\ Notes \subseteq DOMAIN Messages
<1>1. /\ Messages["ErrorReport"] = ErrorReport /\ Messages["CLIData"] = CLIData
      /\ Messages["ParameterNotification"] = ParameterNotification
      /\ Messages["ParameterValue"] = ParameterValue
  BY DEF Messages
<1>2. {"ErrorReport", "CLIData", "ParameterNotification", "ParameterValue"} \subseteq DOMAIN Messages
  BY DEF Messages
<1> QED BY <1>1, <1>2, DescriptorsAreSound DEF Notes

\* A message of two fields with one value each.
LEMMA PairGood ==
  ASSUME NEW m, SoundFields(m), IsFlat(m), NEW f, NEW g, m.fields = <<f, g>>, f.label = "SINGULAR", g.label = "SINGULAR",
         f.type # "UENUM", g.type # "UENUM",
         NEW v, v = [n \in {f.name, g.name} |-> v[n]], NEW x, v[f.name] = <<x>>, ItemIs(m, f, x),
         NEW y, v[g.name] = <<y>>, ItemIs(m, g, y)
  PROVE  IsValue(m, v) /\ HasRoom(m, v) /\ Declared(m, v)
<1>1. Fields(m) = {f, g}
  <2>1. DOMAIN m.fields = {1, 2} /\ m.fields[1] = f /\ m.fields[2] = g
    OBVIOUS
  <2>2. Fields(m) = {m.fields[i] : i \in DOMAIN m.fields}
    BY DEF Fields, ToSet
  <2> QED BY <2>1, <2>2
<1>2. Names(m) = {f.name, g.name}
  BY <1>1 DEF Names
<1>3. FieldGood(m, f, v[f.name]) /\ FieldGood(m, g, v[g.name])
  BY <1>1, OneGood DEF SoundFields
<1>4. OneMember(m, v)
  BY <1>1 DEF OneMember
<1>5. Good(m, v)
  BY <1>1, <1>2, <1>3, <1>4, FlatSound, GoodIs
<1>6. Declared(m, v)
  BY <1>1 DEF Declared, FlatDeclared, IsFlat
<1> QED BY <1>5, <1>6 DEF Good

LEMMA ErrorValueIs == ASSUME NEW code, Pattern(code), code = Int32(code), NEW length \in Nat
  PROVE Meaningful("ErrorReport", ErrorValue(code, length)) /\ HasRoom(ErrorReport, ErrorValue(code, length))
<1> DEFINE f == One("result_value", "INT32", 1)
           g == One("result_string", "STRING", 2)
           v == ErrorValue(code, length)
           y == Text(Min({length, Room_device.ErrorReport.result_string - 1}))
<1>1. ErrorReport.fields = <<f, g>> /\ ErrorReport.room = Room_device.ErrorReport
  BY DEF ErrorReport, Message
<1>2. f.label = "SINGULAR" /\ g.label = "SINGULAR" /\ f.type = "INT32" /\ g.type = "STRING"
      /\ f.name = "result_value" /\ g.name = "result_string"
  BY DEF One
<1>3. v["result_value"] = <<code>> /\ v["result_string"] = <<y>> /\ v = [n \in {"result_value", "result_string"} |-> v[n]]
  BY DEF ErrorValue
<1>4. PICK room \in Nat : room = Room_device.ErrorReport.result_string /\ 1 <= room
  BY DEF Room_device
<1>5. Min({length, room - 1}) \in Nat /\ Min({length, room - 1}) <= room - 1
  <2>1. {length, room - 1} \in SUBSET Int /\ length \in {length, room - 1} /\ room - 1 \in {length, room - 1}
    BY <1>4
  <2>2. CASE length <= room - 1
    <3>1. \A x \in {length, room - 1} : length <= x
      BY <2>2
    <3> QED BY <2>1, <2>2, <3>1, MinIs
  <2>3. CASE room - 1 <= length
    <3>1. \A x \in {length, room - 1} : room - 1 <= x
      BY <1>4, <2>3
    <3>2. Min({length, room - 1}) = room - 1
      BY <2>1, <3>1, MinIs
    <3> QED BY <1>4, <3>2
  <2> QED BY <1>4, <2>2, <2>3
<1>6. y \in Seq(Byte \ {0}) /\ Len(y) <= room - 1 /\ Len(y) \in Nat
  BY <1>4, <1>5, TextIs
<1> HIDE DEF f, g, v, y
<1>7. ItemIs(ErrorReport, f, code)
  <2>1. f.type \in Signed \cup ZigZags
    BY <1>2 DEF Signed
  <2> QED BY <1>2, <2>1, ScalarIs DEF ItemIs, ValueHasRoom
<1>8. ItemIs(ErrorReport, g, y)
  <2>1. ErrorReport.room[g.name] = room
    BY <1>1, <1>2, <1>4
  <2> QED BY <1>2, <1>4, <1>6, <2>1, ScalarIs DEF ItemIs, ValueHasRoom
<1>9. SoundFields(ErrorReport) /\ IsFlat(ErrorReport)
  <2>1. \A h \in Fields(ErrorReport) : h = f \/ h = g
    BY <1>1 DEF Fields, ToSet
  <2> QED BY <1>2, <2>1, NoteMessages DEF IsFlat, Sound
<1>10. IsValue(ErrorReport, v) /\ HasRoom(ErrorReport, v) /\ Declared(ErrorReport, v)
  BY <1>1, <1>2, <1>3, <1>7, <1>8, <1>9, PairGood
<1> QED BY <1>10, NoteMessages DEF v, Meaningful

LineValue(line) == [message_data |-> <<Text(LineShown(line))>>, is_complete |-> <<Digits(1)>>]

LEMMA LineValueIs == ASSUME NEW line \in Nat
  PROVE Meaningful("CLIData", LineValue(line)) /\ HasRoom(CLIData, LineValue(line))
<1> DEFINE f == One("message_data", "STRING", 1)
           g == One("is_complete", "BOOL", 2)
           v == LineValue(line)
           y == Text(LineShown(line))
<1>1. CLIData.fields = <<f, g>> /\ CLIData.room = Room_commands.CLIData
  BY DEF CLIData, Message
<1>2. f.label = "SINGULAR" /\ g.label = "SINGULAR" /\ f.type = "STRING" /\ g.type = "BOOL"
      /\ f.name = "message_data" /\ g.name = "is_complete"
  BY DEF One
<1>3. v["message_data"] = <<y>> /\ v["is_complete"] = <<True>> /\ v = [n \in {"message_data", "is_complete"} |-> v[n]]
  BY DEF LineValue, True
<1>4. PICK room \in Nat : room = Room_commands.CLIData.message_data /\ room > 9
  BY DEF Room_commands
<1>5. LineShown(line) \in Nat /\ LineShown(line) < room
  BY <1>4 DEF LineShown
<1>6. y \in Seq(Byte \ {0}) /\ Len(y) < room /\ Len(y) \in Nat
  BY <1>5, TextIs
<1> HIDE DEF f, g, v, y
<1>7. ItemIs(CLIData, f, y)
  <2>1. CLIData.room[f.name] = room
    BY <1>1, <1>2, <1>4
  <2> QED BY <1>2, <1>6, <2>1, ScalarIs DEF ItemIs, ValueHasRoom
<1>8. ItemIs(CLIData, g, True)
  BY <1>2, ScalarIs DEF ItemIs, ValueHasRoom
<1>9. SoundFields(CLIData) /\ IsFlat(CLIData)
  <2>1. \A h \in Fields(CLIData) : h = f \/ h = g
    BY <1>1 DEF Fields, ToSet
  <2> QED BY <1>2, <2>1, NoteMessages DEF IsFlat, Sound
<1>10. IsValue(CLIData, v) /\ HasRoom(CLIData, v) /\ Declared(CLIData, v)
  BY <1>1, <1>2, <1>3, <1>7, <1>8, <1>9, PairGood
<1> QED BY <1>10, NoteMessages DEF v, Meaningful

LEMMA NotificationIs == ASSUME NEW x, Meaningful("ParameterValue", x), HasRoom(ParameterValue, x)
  PROVE /\ Meaningful("ParameterNotification", [values |-> <<x>>])
        /\ HasRoom(ParameterNotification, [values |-> <<x>>])
<1> DEFINE m == ParameterNotification
           f == RepSub("values", ParameterValue, 2)
           v == [values |-> <<x>>]
<1>1. m.fields = <<f>>
  BY DEF ParameterNotification, Message
<1>2. f.label = "REPEATED" /\ f.type = "MESSAGE" /\ f.name = "values" /\ f.of = ParameterValue
  BY DEF RepSub
<1>3. v["values"] = <<x>> /\ v = [n \in {"values"} |-> v[n]]
  OBVIOUS
<1> HIDE DEF f, v, m
<1>4. Fields(m) = {f} /\ Names(m) = {"values"}
  <2>1. Fields(m) = {m.fields[i] : i \in DOMAIN m.fields}
    BY DEF Fields, ToSet
  <2>2. Fields(m) = {f}
    BY <1>1, <2>1
  <2> QED BY <1>2, <2>2 DEF Names
<1>5. Sound(m) /\ SoundField(m, f)
  BY <1>4, NoteMessages DEF Sound, SoundFields, m
<1>6. IsFlat(ParameterValue) /\ SoundFields(ParameterValue)
  BY <1>2, <1>4, <1>5 DEF Sound
<1>7. FlatValue(ParameterValue, x) /\ FlatHasRoom(ParameterValue, x) /\ FlatDeclared(ParameterValue, x)
  BY <1>6, FlatGood, NoteMessages DEF Meaningful, Declared
<1>8. ItemIs(m, f, x)
  BY <1>2, <1>7 DEF ItemIs
<1>9. << >> = << >> /\ Append(<< >>, x) = <<x>>
  OBVIOUS
<1>10. FieldGood(m, f, << >>)
  BY <1>2, <1>5, EmptyGood
<1>11. ~Full(m, f, << >>)
  <2>1. m.room[f.name] \in Nat /\ 0 < m.room[f.name] /\ Len(<< >>) = 0
    BY <1>2, <1>5, RoomIs
  <2> QED BY <2>1 DEF Full
<1>12. FieldGood(m, f, <<x>>)
  BY <1>2, <1>5, <1>8, <1>9, <1>10, <1>11, AppendGood
<1>13. OneMember(m, v)
  BY <1>2, <1>4 DEF OneMember
<1>14. Good(m, v)
  BY <1>2, <1>3, <1>4, <1>5, <1>12, <1>13, GoodIs
<1>15. Declared(m, v)
  <2>1. DOMAIN <<x>> = {1} /\ <<x>>[1] = x
    OBVIOUS
  <2> QED BY <1>2, <1>3, <1>4, <1>7, <2>1 DEF Declared, FlatDeclared
<1> QED BY <1>14, <1>15, NoteMessages DEF Meaningful, Good, m, v

-----------------------------------------------------------------------------
(* Whatever form a message is written in, its bytes are bytes.              *)

Forms == {"plain", "explicit", "newer"}

LEMMA StrangeBytes == Strange \in Seq(Byte)
<1>1. /\ Tag(15, WT_VARINT) \in Seq(Byte) /\ Tag(1000, WT_STRING) \in Seq(Byte)
      /\ Tag(99, WT_32BIT) \in Seq(Byte) /\ Tag(16, WT_64BIT) \in Seq(Byte)
  <2>1. ASSUME NEW n \in Nat, n < (100 * 1000), NEW wt \in Nat, wt < 8 PROVE Tag(n, wt) \in Seq(Byte)
    <3>1. 8 * n + wt \in Nat
      OBVIOUS
    <3>2. Pattern(Digits(8 * n + wt))
      BY <3>1, DigitsIs
    <3> QED BY <3>2, VarintIs DEF Tag
  <2>0. 15 < (100 * 1000) /\ 1000 < (100 * 1000) /\ 99 < (100 * 1000) /\ 16 < (100 * 1000)
        /\ 15 \in Nat /\ 1000 \in Nat /\ 99 \in Nat /\ 16 \in Nat
    OBVIOUS
  <2>2. /\ WT_VARINT \in Nat /\ WT_VARINT < 8 /\ WT_STRING \in Nat /\ WT_STRING < 8
        /\ WT_32BIT \in Nat /\ WT_32BIT < 8 /\ WT_64BIT \in Nat /\ WT_64BIT < 8
    BY DEF WT_VARINT, WT_STRING, WT_32BIT, WT_64BIT
  <2>3. Tag(15, WT_VARINT) \in Seq(Byte)
    BY <2>0, <2>1, <2>2
  <2>4. Tag(1000, WT_STRING) \in Seq(Byte)
    BY <2>0, <2>1, <2>2
  <2>5. Tag(99, WT_32BIT) \in Seq(Byte)
    BY <2>0, <2>1, <2>2
  <2>6. Tag(16, WT_64BIT) \in Seq(Byte)
    BY <2>0, <2>1, <2>2
  <2> QED BY <2>3, <2>4, <2>5, <2>6
<1>2. Varint(Digits(300)) \in Seq(Byte)
  BY DigitsIs, VarintIs
<1>3. Text(4) \in Seq(Byte) /\ Text(8) \in Seq(Byte)
  BY TextIs
<1>4. Sized(Text(4)) \in Seq(Byte)
  BY <1>3, SizedBytes
<1> QED BY <1>1, <1>2, <1>3, <1>4 DEF Strange

LEMMA AsBytes == ASSUME NEW form \in Forms, NEW m, Sound(m), NEW v, IsValue(m, v)
  PROVE EncodeAs(form, m, v) \in Seq(Byte)
<1>1. Encode(m, v) \in Seq(Byte) /\ EncodeAll(m, v) \in Seq(Byte)
  BY EncodedIsBytes DEF MessageIsBytes
<1>2. Strange \o Encode(m, v) \o Strange \in Seq(Byte)
  BY <1>1, StrangeBytes
<1>3. EncodeAs("plain", m, v) = Encode(m, v) /\ EncodeAs("explicit", m, v) = EncodeAll(m, v)
      /\ EncodeAs("newer", m, v) = Strange \o Encode(m, v) \o Strange
  BY DEF EncodeAs
<1> QED BY <1>1, <1>2, <1>3 DEF Forms

-----------------------------------------------------------------------------
(* What the device composes gets through its buffers.                       *)

LEMMA BuffersAre == /\ REACH_MESSAGE_PAYLOAD_MAX \in Nat /\ 207 <= REACH_MESSAGE_PAYLOAD_MAX
                    /\ REACH_MESSAGE_PAYLOAD_MAX <= UNCODED_PAYLOAD_SIZE
                    /\ 243 <= CR_CODED_BUFFER_SIZE
<1>1. PICK n \in Nat : n = REACH_MESSAGE_PAYLOAD_MAX /\ n = 208
  BY DEF REACH_MESSAGE_PAYLOAD_MAX, Room_device
<1> QED BY <1>1 DEF UNCODED_PAYLOAD_SIZE, CR_CODED_BUFFER_SIZE

LEMMA ShortEnough ==
  ASSUME NEW name \in DOMAIN Messages, NEW v, Meaningful(name, v), HasRoom(Messages[name], v)
  PROVE  Len(Encode(Messages[name], v)) <= DeclaredSize[name]
  BY DescriptorsAreSound, SizesAreAnnounced, EncodedFits DEF Meaningful

LEMMA CodedIs ==
  ASSUME NEW name \in DOMAIN Messages, NEW v, Meaningful(name, v), HasRoom(Messages[name], v),
         NEW h, IsHeader(h), NEW limit, REACH_MESSAGE_PAYLOAD_MAX <= limit, limit \in Nat,
         Len(Encode(Messages[name], v)) <= REACH_MESSAGE_PAYLOAD_MAX
  PROVE  Coded(name, limit, h, v) =
           [ok |-> TRUE, bytes |-> Encode(ReachMessage, Envelope(h, Encode(Messages[name], v)))]
<1> DEFINE p == Encode(Messages[name], v)
           b == Encode(ReachMessage, Envelope(h, p))
<1>1. p \in Seq(Byte)
  BY DescriptorsAreSound, EncodedIsBytes DEF Meaningful, MessageIsBytes
<1>2. HasRoom(ReachMessage, Envelope(h, p)) /\ Len(b) <= 243
  BY <1>1, EnvelopeIs
<1>3. b \in Seq(Byte)
  BY <1>1, EnvelopeIs, EnvelopeFields, EncodedIsBytes DEF MessageIsBytes
<1>4. Len(b) <= CR_CODED_BUFFER_SIZE /\ Len(p) <= limit
  <2>1. Len(b) \in Nat /\ Len(p) \in Nat
    BY <1>1, <1>3
  <2>2. Len(p) <= REACH_MESSAGE_PAYLOAD_MAX
    OBVIOUS
  <2>3. CR_CODED_BUFFER_SIZE \in Nat
    BY DEF CR_CODED_BUFFER_SIZE
  <2> HIDE DEF b, p
  <2> QED BY <1>2, <2>1, <2>2, <2>3, BuffersAre
<1>5. EncodeInto(limit, Messages[name], v) = [ok |-> TRUE, bytes |-> p]
  BY <1>4 DEF EncodeInto
<1>6. EncodeInto(CR_CODED_BUFFER_SIZE, ReachMessage, Envelope(h, p)) = [ok |-> TRUE, bytes |-> b]
  BY <1>2, <1>4 DEF EncodeInto
<1> HIDE DEF b, p
<1>7. [ok |-> TRUE, bytes |-> p].bytes = p /\ [ok |-> TRUE, bytes |-> p].ok = TRUE
      /\ [ok |-> TRUE, bytes |-> b].bytes = b /\ [ok |-> TRUE, bytes |-> b].ok = TRUE
  OBVIOUS
<1>8. EncodeInto(limit, Messages[name], v).bytes = p /\ EncodeInto(limit, Messages[name], v).ok = TRUE
  BY <1>5, <1>7
<1>9. Coded(name, limit, h, v) = [ok |-> TRUE /\ TRUE, bytes |-> b]
  BY <1>6, <1>7, <1>8 DEF Coded
<1> QED BY <1>9 DEF b, p

-----------------------------------------------------------------------------
(* What is on the link carries what was meant.                              *)

Table(to) == IF to = "device" THEN PromptOf ELSE FromDevice

PayloadAs(form, w) == EncodeAs(form, Messages[w.name], w.value)
WholeAs(form, w)   == EncodeAs(form, ReachMessage, Envelope(w.header, PayloadAs(form, w)))

IsMeant(w) ==
  /\ w.name \in DOMAIN Messages /\ Meaningful(w.name, w.value) /\ IsHeader(w.header)
  /\ w.size = Len(Encode(Messages[w.name], w.value))
Named(to, w) ==
  \E t \in DOMAIN Table(to) :
    w.name = Table(to)[t] /\ w.header["message_type"] = <<Digits(MessageType[t])>>
Holds(bytes, cut, form, w) ==
  /\ Len(PayloadAs(form, w)) <= REACH_MESSAGE_PAYLOAD_MAX /\ Len(WholeAs(form, w)) <= CR_CODED_BUFFER_SIZE
  /\ IF cut THEN \E n \in 0..Len(WholeAs(form, w)) : bytes = SubSeq(WholeAs(form, w), 1, n)
            ELSE bytes = WholeAs(form, w)
IsMessage(a) ==
  \E bytes : \E to \in {"device", "client"}, cut \in BOOLEAN : a = [to |-> to, bytes |-> bytes, cut |-> cut]
Carries(a, w) ==
  /\ IsMessage(a)
  /\ Named(a.to, w) /\ \E form \in Forms : Holds(a.bytes, a.cut, form, w)

Phases == /\ got # Nothing => air = Nothing /\ meant # Nothing
          /\ air # Nothing => meant # Nothing
OnItsWay == /\ meant # Nothing => IsMeant(meant)
            /\ air # Nothing => Carries(air, meant)
PathInv == Phases /\ OnItsWay

LEMMA TableIs == ASSUME NEW to, NEW t \in DOMAIN Table(to)
  PROVE t \in DOMAIN MessageType /\ Table(to)[t] \in DOMAIN Messages
<1>1. \A s \in DOMAIN PromptOf : s \in DOMAIN MessageType /\ PromptOf[s] \in DOMAIN Messages
  BY TablesAreSound
<1>2. \A s \in DOMAIN ReplyOf : s \in DOMAIN MessageType /\ ReplyOf[s] \in DOMAIN Messages
  BY TablesAreSound
<1>3. \A s \in DOMAIN NoteOf : s \in DOMAIN MessageType /\ NoteOf[s] \in DOMAIN Messages
  BY TablesAreSound
<1>4. DOMAIN FromDevice = DOMAIN NoteOf \cup DOMAIN ReplyOf
      /\ \A s \in DOMAIN FromDevice : FromDevice[s] = IF s \in DOMAIN NoteOf THEN NoteOf[s] ELSE ReplyOf[s]
  BY DEF FromDevice
<1> QED BY <1>1, <1>2, <1>3, <1>4 DEF Table

LEMMA SomethingIs ==
  /\ \A a : IsMessage(a) => a # Nothing /\ a.to \in {"device", "client"} /\ a.cut \in BOOLEAN
                            /\ a = [to |-> a.to, bytes |-> a.bytes, cut |-> a.cut]
  /\ \A name, size, header, value : [name |-> name, size |-> size, header |-> header, value |-> value] # Nothing
  /\ \A name, size, header, value : [name |-> name, header |-> header, value |-> value, size |-> size] # Nothing
  /\ Nothing.to = "nobody"
  /\ \A bytes : IsMessage([to |-> "device", bytes |-> bytes, cut |-> FALSE])
                /\ IsMessage([to |-> "client", bytes |-> bytes, cut |-> FALSE])
<1>1. ASSUME NEW a, IsMessage(a)
      PROVE  a # Nothing /\ a.to \in {"device", "client"} /\ a.cut \in BOOLEAN
             /\ a = [to |-> a.to, bytes |-> a.bytes, cut |-> a.cut]
  BY <1>1 DEF IsMessage, Nothing
<1>2. ASSUME NEW name, NEW size, NEW header, NEW value
      PROVE  [name |-> name, size |-> size, header |-> header, value |-> value] # Nothing
             /\ [name |-> name, header |-> header, value |-> value, size |-> size] # Nothing
  <2>1. "name" \in DOMAIN [name |-> name, size |-> size, header |-> header, value |-> value]
    OBVIOUS
  <2>2. "name" \in DOMAIN [name |-> name, header |-> header, value |-> value, size |-> size]
    OBVIOUS
  <2>3. "name" \notin DOMAIN Nothing
    BY DEF Nothing
  <2> QED BY <2>1, <2>2, <2>3
<1>3. Nothing.to = "nobody"
  BY DEF Nothing
<1>4. ASSUME NEW to \in {"device", "client"}, NEW cut \in BOOLEAN, NEW bytes
      PROVE  IsMessage([to |-> to, bytes |-> bytes, cut |-> cut])
  BY Zenon DEF IsMessage
<1>5. "device" \in {"device", "client"} /\ "client" \in {"device", "client"} /\ FALSE \in BOOLEAN
  OBVIOUS
<1>6. \A bytes : IsMessage([to |-> "device", bytes |-> bytes, cut |-> FALSE])
                /\ IsMessage([to |-> "client", bytes |-> bytes, cut |-> FALSE])
  BY <1>4, <1>5, Zenon
<1> QED BY <1>1, <1>2, <1>3, <1>6, Zenon

\* A message that a client sends.
LEMMA AskIs == ASSUME NEW p \in Prompts, NEW form \in Forms, Ask(p, form)
  PROVE IsMeant(meant') /\ meant' # Nothing /\ Carries(air', meant')
<1> DEFINE name    == PromptOf[p.type]
           payload == EncodeAs(form, Messages[name], p.value)
           header  == Header(p.type, Zero, 0, 0, p.transaction)
           bytes   == EncodeAs(form, ReachMessage, Envelope(header, payload))
           size    == Len(Encode(Messages[name], p.value))
<1>1. /\ Len(payload) <= REACH_MESSAGE_PAYLOAD_MAX /\ Len(bytes) <= CR_CODED_BUFFER_SIZE
      /\ air' = [to |-> "device", bytes |-> bytes, cut |-> FALSE]
      /\ meant' = [name |-> name, header |-> header, value |-> p.value, size |-> size]
  BY DEF Ask
<1>2. p.type \in DOMAIN PromptOf /\ Word(p.transaction) /\ Meaningful(name, p.value)
  BY PromptsAssumption
<1>3. p.type \in DOMAIN MessageType /\ name \in DOMAIN Messages
  BY <1>2, TableIs DEF Table
<1>4. IsHeader(header) /\ header["message_type"] = <<Digits(MessageType[p.type])>>
  BY <1>2, <1>3, ZeroWord, HeaderIsHeader
<1> HIDE DEF header, bytes, size, payload, name
<1>5. meant'.name = name /\ meant'.header = header /\ meant'.value = p.value /\ meant'.size = size
  BY <1>1
<1>6. air'.to = "device" /\ air'.bytes = bytes /\ air'.cut = FALSE
  BY <1>1
<1>7. IsMeant(meant')
  BY <1>2, <1>3, <1>4, <1>5 DEF IsMeant, size, name
<1>8. meant' # Nothing
  BY <1>1, SomethingIs
<1>9. IsMessage(air')
  BY <1>1, SomethingIs, Zenon
<1>10. Named(air'.to, meant')
  BY <1>2, <1>4, <1>5, <1>6 DEF Named, Table, name
<1>11. Holds(air'.bytes, air'.cut, form, meant')
  BY <1>1, <1>5, <1>6 DEF Holds, WholeAs, PayloadAs, bytes, payload, name
<1> QED BY <1>7, <1>8, <1>9, <1>10, <1>11 DEF Carries

\* A message that the device sends.
LEMMA GiveIs ==
  ASSUME NEW t \in DOMAIN FromDevice, NEW header, NEW value, NEW limit, Meaningful(FromDevice[t], value),
         HasRoom(Messages[FromDevice[t]], value), IsHeader(header),
         header["message_type"] = <<Digits(MessageType[t])>>, limit \in Nat, REACH_MESSAGE_PAYLOAD_MAX <= limit,
         Len(Encode(Messages[FromDevice[t]], value)) <= REACH_MESSAGE_PAYLOAD_MAX,
         Give(FromDevice[t], header, value, Coded(FromDevice[t], limit, header, value))
  PROVE  IsMeant(meant') /\ meant' # Nothing /\ Carries(air', meant')
<1> DEFINE name    == FromDevice[t]
           coded   == Coded(name, limit, header, value)
           size    == Len(Encode(Messages[name], value))
           payload == Encode(Messages[name], value)
           bytes   == Encode(ReachMessage, Envelope(header, payload))
<1>1. name \in DOMAIN Messages /\ "client" # "device"
  <2>1. "client" # "device"
    OBVIOUS
  <2>2. Table("client") = FromDevice
    BY <2>1 DEF Table
  <2> QED BY <2>1, <2>2, TableIs
<1>2. coded = [ok |-> TRUE, bytes |-> bytes]
  BY <1>1, CodedIs
<1>3. /\ air' = [to |-> "client", bytes |-> IF coded.ok THEN coded.bytes ELSE FailureReport.bytes, cut |-> FALSE]
      /\ meant' = [name |-> name, size |-> size, header |-> header, value |-> value]
  BY DEF Give
<1>4. \A fo, m, v : fo = "plain" => EncodeAs(fo, m, v) = Encode(m, v)
  BY DEF EncodeAs
<1>5. Len(payload) <= REACH_MESSAGE_PAYLOAD_MAX /\ Meaningful(name, value)
  OBVIOUS
<1>15. Len(bytes) <= CR_CODED_BUFFER_SIZE
  <2>1. payload \in Seq(Byte)
    BY <1>1, <1>5, DescriptorsAreSound, EncodedIsBytes DEF Meaningful, MessageIsBytes
  <2>2. bytes \in Seq(Byte)
    BY <2>1, EnvelopeIs, EnvelopeFields, EncodedIsBytes DEF MessageIsBytes
  <2>3. Len(bytes) <= 243
    BY <1>5, <2>1, EnvelopeIs
  <2>4. CR_CODED_BUFFER_SIZE \in Nat
    BY DEF CR_CODED_BUFFER_SIZE
  <2> HIDE DEF bytes
  <2> QED BY <2>2, <2>3, <2>4, BuffersAre
<1> HIDE DEF coded, size, payload, bytes, name
<1>6. air' = [to |-> "client", bytes |-> bytes, cut |-> FALSE]
  BY <1>2, <1>3
<1>7. meant'.name = name /\ meant'.header = header /\ meant'.value = value /\ meant'.size = size
  BY <1>3
<1>8. air'.to = "client" /\ air'.bytes = bytes /\ air'.cut = FALSE
  BY <1>6
<1>9. IsMeant(meant')
  BY <1>1, <1>5, <1>7 DEF IsMeant, size
<1>10. meant' # Nothing
  BY <1>3, SomethingIs
<1>11. IsMessage(air')
  BY <1>6, SomethingIs, Zenon
<1>12. Named(air'.to, meant')
  BY <1>1, <1>7, <1>8 DEF Named, Table, name
<1>13. Holds(air'.bytes, air'.cut, "plain", meant')
  <2>1. PayloadAs("plain", meant') = payload
    BY <1>4, <1>7 DEF PayloadAs, payload
  <2>2. WholeAs("plain", meant') = bytes
    BY <1>4, <1>7, <2>1 DEF WholeAs, bytes
  <2> QED BY <1>5, <1>8, <1>15, <2>1, <2>2 DEF Holds
<1>14. "plain" \in Forms
  BY DEF Forms
<1> QED BY <1>9, <1>10, <1>11, <1>12, <1>13, <1>14 DEF Carries

LEMMA AnswerIs == ASSUME NEW r \in Replies, Answer(r)
  PROVE IsMeant(meant') /\ meant' # Nothing /\ Carries(air', meant')
<1>1. PICK endpoint \in Garbage :
        LET header == Header(r.type, endpoint, r.objects, r.remaining, r.transaction)
        IN  Give(ReplyOf[r.type], header, r.value,
                 Coded(ReplyOf[r.type], UNCODED_PAYLOAD_SIZE, header, r.value))
  BY DEF Answer
<1> DEFINE header == Header(r.type, endpoint, r.objects, r.remaining, r.transaction)
           name   == ReplyOf[r.type]
<1>2. /\ r.type \in DOMAIN ReplyOf
      /\ r.objects \in Nat /\ r.remaining \in Nat /\ Word(r.transaction)
      /\ Meaningful(name, r.value) /\ HasRoom(Messages[name], r.value)
      /\ \/ DeclaredSize[name] <= REACH_MESSAGE_PAYLOAD_MAX
         \/ Len(Encode(Messages[name], r.value)) <= REACH_MESSAGE_PAYLOAD_MAX
  BY RepliesAssumption
<1>3. r.type \in DOMAIN FromDevice /\ FromDevice[r.type] = name
  <2>1. r.type \notin DOMAIN NoteOf
    BY <1>2, TablesAreSound
  <2> QED BY <1>2, <2>1 DEF FromDevice
<1>4. r.type \in DOMAIN MessageType /\ name \in DOMAIN Messages
  <2>1. "client" # "device"
    OBVIOUS
  <2> QED BY <1>3, <2>1, TableIs DEF Table
<1>5. Word(endpoint)
  BY GarbageAssumption
<1>6. IsHeader(header) /\ header["message_type"] = <<Digits(MessageType[r.type])>>
  <2>1. r.objects \in Nat /\ r.remaining \in Nat /\ Word(r.transaction)
    BY <1>2, Zenon
  <2>2. PICK type : type = r.type
    OBVIOUS
  <2>3. PICK objects \in Nat : objects = r.objects
    BY <2>1, Zenon
  <2>4. PICK remaining \in Nat : remaining = r.remaining
    BY <2>1, Zenon
  <2>5. PICK transaction : transaction = r.transaction
    OBVIOUS
  <2>6. type \in DOMAIN MessageType /\ Word(transaction)
    BY <1>4, <2>1, <2>2, <2>5, Zenon
  <2>7. /\ IsHeader(Header(type, endpoint, objects, remaining, transaction))
        /\ Header(type, endpoint, objects, remaining, transaction)["message_type"] = <<Digits(MessageType[type])>>
    BY <1>5, <2>6, HeaderIsHeader
  <2> QED BY <2>2, <2>3, <2>4, <2>5, <2>7, Zenon
<1>7. Len(Encode(Messages[name], r.value)) <= REACH_MESSAGE_PAYLOAD_MAX
  <2>1. Len(Encode(Messages[name], r.value)) <= DeclaredSize[name]
    BY <1>2, <1>4, ShortEnough
  <2>2. Len(Encode(Messages[name], r.value)) \in Nat
    <3>1. Encode(Messages[name], r.value) \in Seq(Byte)
      BY <1>2, <1>4, DescriptorsAreSound, EncodedIsBytes DEF Meaningful, MessageIsBytes
    <3> QED BY <3>1
  <2>3. DeclaredSize[name] \in Int
    BY <1>4 DEF DeclaredSize, Messages
  <2> QED BY <1>2, <2>1, <2>2, <2>3, BuffersAre
<1>8. UNCODED_PAYLOAD_SIZE \in Nat
  BY DEF UNCODED_PAYLOAD_SIZE, CR_CODED_BUFFER_SIZE
<1> HIDE DEF header, name
<1>9. Give(name, header, r.value, Coded(name, UNCODED_PAYLOAD_SIZE, header, r.value))
  BY <1>1 DEF header, name
<1> QED BY <1>2, <1>3, <1>6, <1>7, <1>8, <1>9, BuffersAre, GiveIs

LEMMA NotifyIs ==
  ASSUME NEW type \in DOMAIN NoteOf, NEW value, Meaningful(NoteOf[type], value), HasRoom(Messages[NoteOf[type]], value),
         Notify(type, value)
  PROVE  IsMeant(meant') /\ meant' # Nothing /\ Carries(air', meant')
<1> DEFINE header == Header(type, Zero, 0, 0, Zero)
           name   == NoteOf[type]
<1>1. type \in DOMAIN FromDevice /\ FromDevice[type] = name
  BY DEF FromDevice
<1>2. type \in DOMAIN MessageType /\ name \in DOMAIN Messages
  <2>1. "client" # "device"
    OBVIOUS
  <2> QED BY <1>1, <2>1, TableIs DEF Table
<1>3. IsHeader(header) /\ header["message_type"] = <<Digits(MessageType[type])>>
  BY <1>2, ZeroWord, HeaderIsHeader
<1>4. Len(Encode(Messages[name], value)) <= REACH_MESSAGE_PAYLOAD_MAX
  <2>1. Len(Encode(Messages[name], value)) <= DeclaredSize[name]
    BY <1>2, ShortEnough
  <2>2. PICK n \in Nat : n = DeclaredSize[name] /\ n <= 207
    <3>1. name = "ErrorReport" \/ name = "CLIData" \/ name = "ParameterNotification"
      BY DEF NoteOf
    <3>2. DeclaredSize["ErrorReport"] = 207 /\ DeclaredSize["CLIData"] = 198 /\ DeclaredSize["ParameterNotification"] = 192
      BY DEF DeclaredSize
    <3> QED BY <3>1, <3>2
  <2>3. Len(Encode(Messages[name], value)) \in Nat
    <3>1. Encode(Messages[name], value) \in Seq(Byte)
      BY <1>2, DescriptorsAreSound, EncodedIsBytes DEF Meaningful, MessageIsBytes
    <3> QED BY <3>1
  <2> QED BY <2>1, <2>2, <2>3, BuffersAre
<1>5. Give(name, header, value, Coded(name, REACH_MESSAGE_PAYLOAD_MAX, header, value))
  BY DEF Notify, NotifiedCode
<1>6. REACH_MESSAGE_PAYLOAD_MAX <= REACH_MESSAGE_PAYLOAD_MAX
  BY BuffersAre
<1>7. Meaningful(name, value) /\ HasRoom(Messages[name], value)
  OBVIOUS
<1> HIDE DEF header, name
<1> QED BY <1>1, <1>3, <1>4, <1>5, <1>6, <1>7, BuffersAre, GiveIs

LEMMA NotesAre ==
  /\ \A line \in Lines : crcb_cli_respond(line) => IsMeant(meant') /\ meant' # Nothing /\ Carries(air', meant')
  /\ \A e \in Errors : crcb_notify_error(e) => IsMeant(meant') /\ meant' # Nothing /\ Carries(air', meant')
  /\ \A v \in Values : crcb_notify_param(v) => IsMeant(meant') /\ meant' # Nothing /\ Carries(air', meant')
<1>0. /\ "CLI_NOTIFICATION" \in DOMAIN NoteOf /\ "ERROR_REPORT" \in DOMAIN NoteOf
      /\ "PARAMETER_NOTIFICATION" \in DOMAIN NoteOf
      /\ NoteOf["CLI_NOTIFICATION"] = "CLIData" /\ NoteOf["ERROR_REPORT"] = "ErrorReport"
      /\ NoteOf["PARAMETER_NOTIFICATION"] = "ParameterNotification"
  BY DEF NoteOf
<1>1. ASSUME NEW line \in Lines, crcb_cli_respond(line)
      PROVE  IsMeant(meant') /\ meant' # Nothing /\ Carries(air', meant')
  <2>1. Notify("CLI_NOTIFICATION", LineValue(line))
    BY <1>1 DEF crcb_cli_respond, LineValue
  <2>2. line \in Nat
    BY NotesAssumption
  <2> QED BY <1>0, <2>1, <2>2, LineValueIs, NoteMessages, NotifyIs
<1>2. ASSUME NEW e \in Errors, crcb_notify_error(e)
      PROVE  IsMeant(meant') /\ meant' # Nothing /\ Carries(air', meant')
  <2>1. Notify("ERROR_REPORT", ErrorValue(e.code, e.length))
    BY <1>2 DEF crcb_notify_error
  <2>2. Pattern(e.code) /\ e.code = Int32(e.code) /\ e.length \in Nat
    BY NotesAssumption
  <2> QED BY <1>0, <2>1, <2>2, ErrorValueIs, NoteMessages, NotifyIs
<1>3. ASSUME NEW v \in Values, crcb_notify_param(v)
      PROVE  IsMeant(meant') /\ meant' # Nothing /\ Carries(air', meant')
  <2>1. Notify("PARAMETER_NOTIFICATION", [values |-> <<v>>])
    BY <1>3 DEF crcb_notify_param
  <2>2. Meaningful("ParameterValue", v) /\ HasRoom(ParameterValue, v)
    BY NotesAssumption
  <2> QED BY <1>0, <2>1, <2>2, NotificationIs, NoteMessages, NotifyIs
<1> QED BY <1>1, <1>2, <1>3

-----------------------------------------------------------------------------
(* The invariant.                                                           *)

LEMMA FormsAreBytes == ASSUME NEW w, IsMeant(w), NEW form \in Forms
  PROVE PayloadAs(form, w) \in Seq(Byte) /\ WholeAs(form, w) \in Seq(Byte)
<1>1. PayloadAs(form, w) \in Seq(Byte)
  BY DescriptorsAreSound, AsBytes DEF IsMeant, Meaningful, PayloadAs
<1>2. IsValue(ReachMessage, Envelope(w.header, PayloadAs(form, w)))
  BY <1>1, EnvelopeIs DEF IsMeant
<1> QED BY <1>1, <1>2, EnvelopeFields, AsBytes DEF WholeAs

LEMMA CarriedBytes == ASSUME NEW a, NEW w, IsMeant(w), Carries(a, w)
  PROVE a.bytes \in Seq(Byte)
<1>1. PICK form \in Forms : Holds(a.bytes, a.cut, form, w)
  BY DEF Carries
<1>2. WholeAs(form, w) \in Seq(Byte)
  BY FormsAreBytes
<1>3. CASE a.cut
  <2>1. PICK n \in 0..Len(WholeAs(form, w)) : a.bytes = SubSeq(WholeAs(form, w), 1, n)
    BY <1>1, <1>3 DEF Holds
  <2>2. n \in Nat /\ n <= Len(WholeAs(form, w))
    BY <1>2, <2>1
  <2> QED BY <1>2, <2>1, <2>2, RestIs
<1>4. CASE ~a.cut
  BY <1>1, <1>2, <1>4 DEF Holds
<1> QED BY <1>3, <1>4

\* The head of a message still carries it.
LEMMA CutIs == ASSUME NEW n \in 1..CR_CODED_BUFFER_SIZE, Cut(n), OnItsWay, Phases
  PROVE Carries(air', meant) /\ meant' = meant /\ got' = got /\ air # Nothing
<1>1. /\ air.to = "device" /\ ~air.cut /\ n < Len(air.bytes)
      /\ air' = [air EXCEPT !.bytes = SubSeq(@, 1, n), !.cut = TRUE]
      /\ meant' = meant /\ got' = got
  BY DEF Cut
<1>2. air # Nothing
  <2>1. "device" # "nobody"
    OBVIOUS
  <2> QED BY <1>1, <2>1, SomethingIs
<1>3. Carries(air, meant) /\ IsMeant(meant)
  BY <1>2 DEF OnItsWay, Phases
<1>4. IsMessage(air)
  BY <1>3 DEF Carries
<1>5. air = [to |-> "device", bytes |-> air.bytes, cut |-> air.cut]
  BY <1>1, <1>4, SomethingIs
<1>6. air' = [to |-> "device", bytes |-> SubSeq(air.bytes, 1, n), cut |-> TRUE]
  BY <1>1, <1>5
<1>7. air'.to = "device" /\ air'.bytes = SubSeq(air.bytes, 1, n) /\ air'.cut = TRUE
  BY <1>6
<1>8. IsMessage(air')
  <2>1. "device" \in {"device", "client"} /\ TRUE \in BOOLEAN
    OBVIOUS
  <2> QED BY <1>6, <2>1, Zenon DEF IsMessage
<1>9. PICK form \in Forms : Holds(air.bytes, air.cut, form, meant)
  BY <1>3 DEF Carries
<1>10. /\ air.bytes = WholeAs(form, meant) /\ Len(PayloadAs(form, meant)) <= REACH_MESSAGE_PAYLOAD_MAX
       /\ Len(WholeAs(form, meant)) <= CR_CODED_BUFFER_SIZE
  BY <1>1, <1>9 DEF Holds
<1>11. WholeAs(form, meant) \in Seq(Byte)
  BY <1>3, FormsAreBytes
<1>12. n \in 0..Len(WholeAs(form, meant))
  <2>1. CR_CODED_BUFFER_SIZE \in Nat
    BY DEF CR_CODED_BUFFER_SIZE
  <2>2. n \in Nat /\ n < Len(WholeAs(form, meant)) /\ Len(WholeAs(form, meant)) \in Nat
    BY <1>1, <1>10, <1>11, <2>1
  <2> QED BY <2>2
<1>13. Holds(air'.bytes, air'.cut, form, meant)
  BY <1>7, <1>10, <1>12 DEF Holds
<1>14. Named(air'.to, meant)
  BY <1>1, <1>3, <1>7 DEF Carries
<1> QED BY <1>1, <1>2, <1>8, <1>13, <1>14 DEF Carries

LEMMA PathInit == Init => PathInv
<1> SUFFICES ASSUME Init PROVE PathInv
  OBVIOUS
<1> QED BY DEF Init, PathInv, Phases, OnItsWay

LEMMA PathStep == PathInv /\ [Next]_vars => PathInv'
<1> SUFFICES ASSUME PathInv, [Next]_vars PROVE PathInv'
  OBVIOUS
<1>0. Phases /\ OnItsWay
  BY DEF PathInv
<1> DEFINE Sends == IsMeant(meant') /\ meant' # Nothing /\ Carries(air', meant') /\ meant = Nothing /\ got' = got
<1>1. ASSUME Sends PROVE PathInv'
  BY <1>0, <1>1 DEF PathInv, Phases, OnItsWay
<1>2. ASSUME NEW p \in Prompts, NEW form \in {"plain", "explicit", "newer"}, Ask(p, form) PROVE PathInv'
  <2>1. meant = Nothing /\ got' = got
    BY <1>2 DEF Ask
  <2>2. form \in Forms
    BY DEF Forms
  <2> QED BY <1>1, <1>2, <2>1, <2>2, AskIs
<1>3. ASSUME NEW r \in Replies, Answer(r) PROVE PathInv'
  <2>1. meant = Nothing /\ got' = got
    BY <1>3 DEF Answer, Give
  <2> QED BY <1>1, <1>3, <2>1, AnswerIs
<1>4. ASSUME NEW line \in Lines, crcb_cli_respond(line) PROVE PathInv'
  <2>1. meant = Nothing /\ got' = got
    BY <1>4 DEF crcb_cli_respond, Notify, Give
  <2> QED BY <1>1, <1>4, <2>1, NotesAre
<1>5. ASSUME NEW e \in Errors, crcb_notify_error(e) PROVE PathInv'
  <2>1. meant = Nothing /\ got' = got
    BY <1>5 DEF crcb_notify_error, Notify, Give
  <2> QED BY <1>1, <1>5, <2>1, NotesAre
<1>6. ASSUME NEW v \in Values, crcb_notify_param(v) PROVE PathInv'
  <2>1. meant = Nothing /\ got' = got
    BY <1>6 DEF crcb_notify_param, Notify, Give
  <2> QED BY <1>1, <1>6, <2>1, NotesAre
<1>7. ASSUME NEW n \in 1..CR_CODED_BUFFER_SIZE, Cut(n) PROVE PathInv'
  <2>1. Carries(air', meant) /\ meant' = meant /\ got' = got /\ air # Nothing
    BY <1>0, <1>7, CutIs
  <2> QED BY <1>0, <2>1 DEF PathInv, Phases, OnItsWay
<1>8. CASE Arrive
  <2>1. air # Nothing /\ air' = Nothing /\ meant' = meant
    BY <1>8 DEF Arrive
  <2> QED BY <1>0, <2>1 DEF PathInv, Phases, OnItsWay
<1>9. CASE Another
  <2>1. got # Nothing /\ got' = Nothing /\ meant' = Nothing /\ air' = air
    BY <1>9 DEF Another
  <2> QED BY <1>0, <2>1 DEF PathInv, Phases, OnItsWay
<1>10. CASE UNCHANGED vars
  <2>1. air' = air /\ meant' = meant /\ got' = got
    BY <1>10 DEF vars
  <2> QED BY <1>0, <2>1 DEF PathInv, Phases, OnItsWay
<1> HIDE DEF Sends
<1> QED BY <1>2, <1>3, <1>4, <1>5, <1>6, <1>7, <1>8, <1>9, <1>10 DEF Next

LEMMA AlwaysPath == Spec => []PathInv
  BY PathInit, PathStep, PTL DEF Spec

-----------------------------------------------------------------------------
(* What is taken is typed.                                                  *)

\* The payload of an envelope that has been decoded.
LEMMA PayloadTyped == ASSUME NEW v, IsValue(ReachMessage, v)
  PROVE v["payload"][1] \in Seq(Byte)
<1>1. PICK p \in Fields(ReachMessage) : p.name = "payload" /\ p.type = "BYTES" /\ p.label = "SINGULAR"
  BY EnvelopeFields
<1>2. Sequence(v[p.name]) /\ \A i \in DOMAIN v[p.name] : IsItem(p, v[p.name][i])
  BY ValueIs
<1>3. Len(v[p.name]) = 1
  BY <1>1, ValueIs DEF AsLabelled
<1>4. 1 \in DOMAIN v[p.name]
  BY <1>2, <1>3, SequenceIs
<1> QED BY <1>1, <1>2, <1>4, ScalarIs DEF IsItem

TakenTyped(g) == /\ g.to # "nobody"
                 /\ g.to = "taken" => IsValue(Messages[g.name], g.value) /\ HasRoom(Messages[g.name], g.value)

LEMMA TakenAsIs ==
  ASSUME NEW types, NEW table, NEW header, NEW bytes, NEW cut,
         LET p == Decode(Messages[table[CHOOSE t \in types : TRUE]], bytes)
         IN  types # {} /\ p.ok => IsValue(Messages[table[CHOOSE t \in types : TRUE]], p.value)
                                   /\ HasRoom(Messages[table[CHOOSE t \in types : TRUE]], p.value)
  PROVE  TakenTyped(TakenAs(types, table, header, bytes, cut))
<1> DEFINE name == table[CHOOSE t \in types : TRUE]
           p    == Decode(Messages[name], bytes)
           g    == TakenAs(types, table, header, bytes, cut)
<1>1. g = IF types # {} /\ p.ok
            THEN [to |-> "taken", cut |-> cut, name |-> name, header |-> header, value |-> p.value]
            ELSE Refused(cut)
  BY DEF TakenAs
<1>2. types # {} /\ p.ok => IsValue(Messages[name], p.value) /\ HasRoom(Messages[name], p.value)
  OBVIOUS
<1> HIDE DEF g, p, name
<1>3. CASE types # {} /\ p.ok
  <2>1. g.to = "taken" /\ g.name = name /\ g.value = p.value
    BY <1>1, <1>3
  <2> QED BY <1>2, <1>3, <2>1 DEF TakenTyped, g
<1>4. CASE ~(types # {} /\ p.ok)
  <2>1. g.to = "refused"
    BY <1>1, <1>4 DEF Refused
  <2> QED BY <2>1 DEF TakenTyped, g
<1> QED BY <1>3, <1>4

LEMMA TakenIs == ASSUME NEW to, NEW bytes \in Seq(Byte), NEW cut
  PROVE TakenTyped(Taken(Table(to), bytes, cut))
<1> DEFINE m == Decode(ReachMessage, bytes)
           h == HeaderOf(m.value)
           b == m.value.payload[1]
           types == TypeIn(Table(to), h.message_type[1])
           name == Table(to)[CHOOSE t \in types : TRUE]
           p == Decode(Messages[name], b)
<1>1. CASE m.ok
  <2>1. IsValue(ReachMessage, m.value)
    BY <1>1, EnvelopeFields, DecodedIsTyped
  <2>2. b \in Seq(Byte)
    BY <2>1, PayloadTyped
  <2>3. types # {} => (CHOOSE t \in types : TRUE) \in DOMAIN Table(to)
    BY Zenon DEF TypeIn
  <2>4. types # {} => name \in DOMAIN Messages
    BY <2>3, TableIs
  <2>5. Taken(Table(to), bytes, cut) = TakenAs(types, Table(to), h, b, cut)
    BY <1>1 DEF Taken, PayloadOf
  <2> HIDE DEF b, types
  <2>6. types # {} /\ p.ok => IsValue(Messages[name], p.value) /\ HasRoom(Messages[name], p.value)
    BY <2>2, <2>4, DescriptorsAreSound, DecodedIsTyped
  <2> QED BY <2>5, <2>6, TakenAsIs
<1>2. CASE ~m.ok
  <2>1. Taken(Table(to), bytes, cut) = Refused(cut)
    BY <1>2 DEF Taken
  <2> QED BY <2>1 DEF Refused, TakenTyped
<1> QED BY <1>1, <1>2

\* Whatever arrives, cut anywhere and written by any encoder, what is taken of it
\* is a value of the message the header names and fits its C structure.
THEOREM TypeCorrect == Spec => []TypeOK
<1> DEFINE Typed == got # Nothing => TakenTyped(got)
<1>1. Init => Typed
  BY DEF Init
<1>2. PathInv /\ Typed /\ [Next]_vars => Typed'
  <2> SUFFICES ASSUME PathInv, Typed, [Next]_vars PROVE Typed'
    OBVIOUS
  <2>1. CASE Arrive
    <3>1. air # Nothing /\ got' = Taken(Table(air.to), air.bytes, air.cut)
      BY <2>1 DEF Arrive, Table
    <3>2. air.bytes \in Seq(Byte)
      BY <3>1, CarriedBytes DEF PathInv, Phases, OnItsWay
    <3> QED BY <3>1, <3>2, TakenIs
  <2>2. CASE got' = Nothing
    BY <2>2
  <2>3. CASE got' = got
    BY <2>3
  <2>4. Arrive \/ got' = Nothing \/ got' = got
    BY DEF Next, vars, Ask, Answer, crcb_cli_respond, crcb_notify_error, crcb_notify_param, Notify, Give, Cut, Another
  <2> QED BY <2>1, <2>2, <2>3, <2>4
<1>3. PathInv /\ Typed => TypeOK
  <2> SUFFICES ASSUME PathInv, Typed PROVE TypeOK
    OBVIOUS
  <2>1. air.to \in {"nobody", "device", "client"}
    BY SomethingIs DEF PathInv, OnItsWay, Carries
  <2>2. got.to = "taken" => got # Nothing
    BY SomethingIs
  <2> QED BY <2>1, <2>2 DEF TypeOK, TakenTyped
<1> HIDE DEF Typed
<1> QED BY <1>1, <1>2, <1>3, AlwaysPath, PTL DEF Spec

\* Nothing that is sent is longer than the generated header announces.
THEOREM SizesAreKept == Spec => []SizesAreDeclared
<1>1. PathInv => SizesAreDeclared
  BY ShortEnough DEF PathInv, OnItsWay, IsMeant, SizesAreDeclared
<1> QED BY <1>1, AlwaysPath, PTL

-----------------------------------------------------------------------------
(* Fields that nobody here knows.                                           *)

LEMMA MovesTwo ==
  ASSUME NEW k, NEW m, NEW f, NEW w, NEW a, Moves(k, m, f, w, a, w), NEW b \in Seq(Byte), NEW c \in Seq(Byte),
         Moves(k, m, f, w, b \o c, w)
  PROVE  Moves(k, m, f, w, (a \o b) \o c, w)
<1>1. Moves(k, m, f, w, a \o (b \o c), w)
  BY MovesMore
<1>2. a \in Seq(Byte)
  BY DEF Moves
<1>3. (a \o b) \o c = a \o (b \o c)
  BY <1>2, JoinIs
<1> QED BY <1>1, <1>3, Zenon

\* A tag and a body of a field that m does not have.
Stranger(m, a, b) ==
  \E n, wt : n # 0 /\ TagNumber(n) /\ FieldsOf(m, n) = {} /\ WireType(wt) /\ Skippable(b, wt) /\ a = Tag(n, wt)

LEMMA StrangerHas ==
  ASSUME NEW m, NEW n, n # 0, TagNumber(n), FieldsOf(m, n) = {}, NEW wt, WireType(wt), NEW b, Skippable(b, wt)
  PROVE  Stranger(m, Tag(n, wt), b)
  BY Zenon DEF Stranger

LEMMA StrangerIs == ASSUME NEW m, SoundFields(m), NEW a, NEW b, Stranger(m, a, b)
  PROVE a \in Seq(Byte) /\ b \in Seq(Byte) /\ \A w : Moves("message", m, m, w, a \o b, w)
<1>1. PICK n, wt : /\ n # 0 /\ TagNumber(n) /\ FieldsOf(m, n) = {} /\ WireType(wt) /\ Skippable(b, wt)
                   /\ a = Tag(n, wt)
  BY Zenon DEF Stranger
<1>2. a \in Seq(Byte) /\ b \in Seq(Byte)
  BY <1>1, TagIn DEF Skippable
<1>3. ASSUME NEW w PROVE Moves("message", m, m, w, Tag(n, wt) \o b, w)
  BY <1>1, StrangerMoves
<1> QED BY <1>1, <1>2, <1>3

LEMMA StrangeIs == ASSUME NEW m, SoundFields(m)
  PROVE \E a, b, c, d, e, f, g, h :
          /\ Strange = a \o b \o c \o d \o e \o f \o g \o h
          /\ Stranger(m, a, b) /\ Stranger(m, c, d) /\ Stranger(m, e, f) /\ Stranger(m, g, h)
<1>1. FieldsOf(m, 15) = {} /\ FieldsOf(m, 16) = {} /\ FieldsOf(m, 99) = {} /\ FieldsOf(m, 1000) = {}
  <2>1. \A f \in Fields(m) : f.tag # 15 /\ f.tag # 16 /\ f.tag # 99 /\ f.tag # 1000
    BY ByName, RoomIs
  <2>2. ASSUME NEW n, n \in {15, 16, 99, 1000} PROVE FieldsOf(m, n) = {}
    BY <2>1, <2>2 DEF FieldsOf
  <2> QED BY <2>2
<1>2. /\ WireType(WT_VARINT) /\ WireType(WT_STRING) /\ WireType(WT_32BIT) /\ WireType(WT_64BIT)
      /\ TagNumber(15) /\ TagNumber(16) /\ TagNumber(99) /\ TagNumber(1000)
  BY DEF WireType, TagNumber, WT_VARINT, WT_STRING, WT_32BIT, WT_64BIT
<1>3. Skippable(Varint(Digits(300)), WT_VARINT)
  <2>1. Pattern(Digits(300))
    BY DigitsIs
  <2> QED BY <2>1, SkipVarintOf
<1>4. Text(4) \in Seq(Byte) /\ Len(Text(4)) = 4 /\ Text(8) \in Seq(Byte) /\ Len(Text(8)) = 8
  BY TextIs
<1>5. Skippable(Sized(Text(4)), WT_STRING)
  <2>1. PICK x \in Seq(Byte) : x = Text(4) /\ Len(x) = 4
    BY <1>4
  <2>2. 4 < (128 * 128 * 128)
    OBVIOUS
  <2>3. Len(x) < (128 * 128 * 128)
    BY <2>1, <2>2, Zenon
  <2> QED BY <2>1, <2>3, SkipSizedOf
<1>6. (\A s : Skip(s, WT_32BIT) = Take(s, 4)) /\ (\A s : Skip(s, WT_64BIT) = Take(s, 8))
  BY DEF Skip, WT_VARINT, WT_64BIT, WT_STRING, WT_32BIT
<1>7. Skippable(Text(4), WT_32BIT)
  <2>1. PICK n \in Nat : n = 4
    OBVIOUS
  <2>2. Len(Text(4)) = n /\ \A s : Skip(s, WT_32BIT) = Take(s, n)
    BY <1>4, <1>6, <2>1
  <2> QED BY <1>4, <2>2, SkipFixedOf
<1>8. Skippable(Text(8), WT_64BIT)
  <2>1. PICK n \in Nat : n = 8
    OBVIOUS
  <2>2. Len(Text(8)) = n /\ \A s : Skip(s, WT_64BIT) = Take(s, n)
    BY <1>4, <1>6, <2>1
  <2> QED BY <1>4, <2>2, SkipFixedOf
<1>9. PICK a, b : a = Tag(15, WT_VARINT) /\ b = Varint(Digits(300))
  OBVIOUS
<1>10. PICK c, d : c = Tag(1000, WT_STRING) /\ d = Sized(Text(4))
  OBVIOUS
<1>11. PICK e, f : e = Tag(99, WT_32BIT) /\ f = Text(4)
  OBVIOUS
<1>12. PICK g, h : g = Tag(16, WT_64BIT) /\ h = Text(8)
  OBVIOUS
<1>14. Strange = a \o b \o c \o d \o e \o f \o g \o h
  BY <1>9, <1>10, <1>11, <1>12 DEF Strange
<1>15. 15 # 0 /\ 1000 # 0 /\ 99 # 0 /\ 16 # 0
  OBVIOUS
<1>16. Stranger(m, a, b)
  BY <1>1, <1>2, <1>3, <1>9, <1>15, StrangerHas
<1>17. Stranger(m, c, d)
  BY <1>1, <1>2, <1>5, <1>10, <1>15, StrangerHas
<1>18. Stranger(m, e, f)
  BY <1>1, <1>2, <1>7, <1>11, <1>15, StrangerHas
<1>19. Stranger(m, g, h)
  BY <1>1, <1>2, <1>8, <1>12, <1>15, StrangerHas
<1> QED BY <1>14, <1>16, <1>17, <1>18, <1>19

LEMMA StrangeMoves == ASSUME NEW m, SoundFields(m), NEW w
  PROVE Moves("message", m, m, w, Strange, w)
<1>1. PICK a, b, c, d, e, f, g, h :
        /\ Strange = a \o b \o c \o d \o e \o f \o g \o h
        /\ Stranger(m, a, b) /\ Stranger(m, c, d) /\ Stranger(m, e, f) /\ Stranger(m, g, h)
  BY StrangeIs
<1>2. /\ c \in Seq(Byte) /\ d \in Seq(Byte) /\ e \in Seq(Byte) /\ f \in Seq(Byte) /\ g \in Seq(Byte) /\ h \in Seq(Byte)
      /\ Moves("message", m, m, w, a \o b, w) /\ Moves("message", m, m, w, c \o d, w)
      /\ Moves("message", m, m, w, e \o f, w) /\ Moves("message", m, m, w, g \o h, w)
  BY <1>1, StrangerIs
<1>3. Moves("message", m, m, w, a \o b \o c \o d, w)
  BY <1>2, MovesTwo
<1>4. Moves("message", m, m, w, a \o b \o c \o d \o e \o f, w)
  BY <1>2, <1>3, MovesTwo
<1>5. Moves("message", m, m, w, a \o b \o c \o d \o e \o f \o g \o h, w)
  BY <1>2, <1>4, MovesTwo
<1> QED BY <1>1, <1>5, Zenon

\* What any of the encoders writes of a value is read back as that value: with
\* defaults left out or written, or with fields of a newer version around it.
\* Where the structure has no room for it, it is refused.
THEOREM RoundTrip ==
  ASSUME NEW m, Sound(m), NEW v, IsValue(m, v), NEW form \in {"plain", "explicit", "newer"},
         Len(EncodeAs(form, m, v)) < (128 * 128 * 128)
  PROVE  Decode(m, EncodeAs(form, m, v)) = IF HasRoom(m, v) THEN Read(v, << >>) ELSE NotRead
<1>1. SoundFields(m) /\ ItemsRead(m)
  BY AllItemsRead DEF Sound
<1> DEFINE b == EncodeAs(form, m, v)
<1>2. b \in Seq(Byte) /\ Brief(b)
  BY AsBytes DEF Brief, Forms
<1>3. /\ form = "plain" => b = Encode(m, v)
      /\ form = "explicit" => b = EncodeAll(m, v)
      /\ form = "newer" => b = Strange \o Encode(m, v) \o Strange
  BY DEF EncodeAs
<1> HIDE DEF b
<1>4. /\ HasRoom(m, v) => Moves("message", m, m, Default(m), b, v)
      /\ ~HasRoom(m, v) => Fails("message", m, m, Default(m), b)
  <2>1. CASE form = "plain"
    BY <1>1, <1>2, <1>3, <2>1, PlainMoves
  <2>2. CASE form = "explicit"
    BY <1>1, <1>2, <1>3, <2>2, ExplicitMoves
  <2>3. CASE form = "newer"
    <3>1. PICK s \in Seq(Byte) : s = Strange
      BY StrangeBytes
    <3>2. PICK e \in Seq(Byte) : e = Encode(m, v)
      BY EncodedIsBytes DEF MessageIsBytes
    <3>3. b = (s \o e) \o s
      BY <1>3, <2>3, <3>1, <3>2
    <3>4. Brief(e)
      <4>1. Len((s \o e) \o s) = Len(s) + Len(e) + Len(s) /\ Len(s) \in Nat /\ Len(e) \in Nat
        OBVIOUS
      <4>2. Len((s \o e) \o s) < (128 * 128 * 128)
        BY <1>2, <3>3 DEF Brief
      <4>3. Len(e) < (128 * 128 * 128)
        BY <4>1, <4>2
      <4> QED BY <4>3 DEF Brief
    <3>5. /\ HasRoom(m, v) => Moves("message", m, m, Default(m), e, v)
          /\ ~HasRoom(m, v) => Fails("message", m, m, Default(m), e)
      BY <1>1, <3>2, <3>4, PlainMoves
    <3>6. \A w : Moves("message", m, m, w, s, w)
      BY <1>1, <3>1, StrangeMoves
    <3>7. ASSUME HasRoom(m, v) PROVE Moves("message", m, m, Default(m), (s \o e) \o s, v)
      <4>1. Moves("message", m, m, Default(m), s \o e, v)
        BY <3>5, <3>6, <3>7, MovesMore
      <4> QED BY <3>6, <4>1, MovesMore
    <3>8. ASSUME ~HasRoom(m, v) PROVE Fails("message", m, m, Default(m), (s \o e) \o s)
      <4>1. Fails("message", m, m, Default(m), s \o e)
        BY <3>5, <3>6, <3>8, MovesMore
      <4> QED BY <4>1, FailsMore
    <3> QED BY <3>3, <3>7, <3>8
  <2> QED BY <2>1, <2>2, <2>3
<1>5. HasRoom(m, v) => Decode(m, b) = Read(v, << >>)
  BY <1>1, <1>4, DecodeMoves
<1>6. ~HasRoom(m, v) => Decode(m, b) = NotRead
  BY <1>1, <1>4, DecodeMoves
<1> QED BY <1>5, <1>6, Zenon DEF b

-----------------------------------------------------------------------------
(* A message that is carried whole.                                         *)

LEMMA OneType == ASSUME NEW to, NEW t \in DOMAIN Table(to)
  PROVE LET types == TypeIn(Table(to), Digits(MessageType[t]))
        IN  types # {} /\ (CHOOSE u \in types : TRUE) = t
<1>1. ASSUME NEW u \in DOMAIN Table(to), Digits(MessageType[u]) = Digits(MessageType[t]) PROVE u = t
  <2>1. u \in DOMAIN MessageType /\ t \in DOMAIN MessageType
    BY TableIs
  <2>2. PICK j \in 1..127 : j = MessageType[u]
    BY <2>1, TablesAreSound
  <2>3. PICK k \in 1..127 : k = MessageType[t]
    BY <2>1, TablesAreSound
  <2>4. j \in Nat /\ k \in Nat /\ j < (128 * 128 * 128) /\ k < (128 * 128 * 128)
    OBVIOUS
  <2>5. AsNat(Digits(j)) = j /\ AsNat(Digits(k)) = k
    BY <2>4, AsNatDigits
  <2>6. j = k
    BY <1>1, <2>2, <2>3, <2>5
  <2> QED BY <2>1, <2>2, <2>3, <2>6, TablesAreSound
<1>2. TypeIn(Table(to), Digits(MessageType[t])) = {t}
  <2>1. TypeIn(Table(to), Digits(MessageType[t])) =
          {u \in DOMAIN Table(to) : Digits(MessageType[u]) = Digits(MessageType[t])}
    BY DEF TypeIn
  <2> QED BY <1>1, <2>1, Zenon
<1> QED BY <1>2

AsMeant(w, cut) ==
  IF HasRoom(Messages[w.name], w.value)
    THEN [to |-> "taken", cut |-> cut, name |-> w.name, header |-> w.header, value |-> w.value]
    ELSE Refused(cut)

\* What is taken of an envelope with the header that was meant.
LEMMA TakenOf ==
  ASSUME NEW to, NEW w, Named(to, w), NEW bytes, NEW z, Decode(ReachMessage, bytes) = Read(z, << >>),
         HeaderOf(z) = w.header, NEW cut
  PROVE  LET p == Decode(Messages[w.name], z.payload[1])
         IN  Taken(Table(to), bytes, cut) =
               IF p.ok THEN [to |-> "taken", cut |-> cut, name |-> w.name, header |-> w.header, value |-> p.value]
                       ELSE Refused(cut)
<1>1. PICK t \in DOMAIN Table(to) : w.name = Table(to)[t] /\ w.header["message_type"] = <<Digits(MessageType[t])>>
  BY DEF Named
<1> DEFINE m == Decode(ReachMessage, bytes)
           types == TypeIn(Table(to), Digits(MessageType[t]))
           payload == z.payload[1]
           p == Decode(Messages[w.name], payload)
<1>2. types # {} /\ (CHOOSE u \in types : TRUE) = t
  BY OneType
<1>3. m.ok = TRUE /\ m.value = z
  <2>1. Read(z, << >>).ok = TRUE /\ Read(z, << >>).value = z
    BY ReadParts
  <2> QED BY <2>1
<1>4. w.header.message_type[1] = Digits(MessageType[t])
  BY <1>1
<1> HIDE DEF m, types
<1>5. Taken(Table(to), bytes, cut) = PayloadOf(Table(to), w.header, payload, cut)
  BY <1>3, Zenon DEF Taken, m
<1> HIDE DEF payload
<1>6. PayloadOf(Table(to), w.header, payload, cut) = TakenAs(types, Table(to), w.header, payload, cut)
  BY <1>4, Zenon DEF PayloadOf, types
<1> HIDE DEF p
<1>7. TakenAs(types, Table(to), w.header, payload, cut) =
        IF types # {} /\ p.ok
          THEN [to |-> "taken", cut |-> cut, name |-> w.name, header |-> w.header, value |-> p.value]
          ELSE Refused(cut)
  BY <1>1, <1>2, Zenon DEF TakenAs, p
<1>8. Taken(Table(to), bytes, cut) =
        IF p.ok THEN [to |-> "taken", cut |-> cut, name |-> w.name, header |-> w.header, value |-> p.value]
                ELSE Refused(cut)
  BY <1>2, <1>5, <1>6, <1>7, Zenon
<1> QED BY <1>8 DEF p, payload

\* The two decoders on the two coders.
LEMMA WholeIsTaken ==
  ASSUME NEW to, NEW w, IsMeant(w), Named(to, w), NEW form \in Forms, Holds(WholeAs(form, w), FALSE, form, w), NEW cut
  PROVE  Taken(Table(to), WholeAs(form, w), cut) = AsMeant(w, cut)
<1>2. PICK payload \in Seq(Byte) : payload = PayloadAs(form, w) /\ Len(payload) <= REACH_MESSAGE_PAYLOAD_MAX
  BY FormsAreBytes DEF Holds
<1>3. PICK whole \in Seq(Byte) : whole = WholeAs(form, w) /\ Len(whole) <= CR_CODED_BUFFER_SIZE
  BY FormsAreBytes DEF Holds
<1>4. form \in {"plain", "explicit", "newer"}
  BY DEF Forms
<1>5. Len(payload) < (128 * 128 * 128) /\ Len(whole) < (128 * 128 * 128)
  <2>1. REACH_MESSAGE_PAYLOAD_MAX = 208 /\ CR_CODED_BUFFER_SIZE = 244
    BY DEF REACH_MESSAGE_PAYLOAD_MAX, Room_device, CR_CODED_BUFFER_SIZE
  <2> QED BY <1>2, <1>3, <2>1
<1> DEFINE e == Envelope(w.header, payload)
           m == Decode(ReachMessage, whole)
           p == Decode(Messages[w.name], payload)
           c == HasRoom(Messages[w.name], w.value)
<1>6. m = Read(e, << >>)
  <2>1. IsValue(ReachMessage, e) /\ HasRoom(ReachMessage, e) /\ Sound(ReachMessage)
    BY <1>2, EnvelopeIs, EnvelopeFields DEF IsMeant
  <2>2. whole = EncodeAs(form, ReachMessage, e)
    BY <1>2, <1>3 DEF WholeAs
  <2>3. Len(EncodeAs(form, ReachMessage, e)) < (128 * 128 * 128)
    BY <1>5, <2>2
  <2> HIDE DEF e
  <2>4. Decode(ReachMessage, EncodeAs(form, ReachMessage, e)) = IF HasRoom(ReachMessage, e) THEN Read(e, << >>) ELSE NotRead
    BY <1>4, <2>1, <2>3, RoundTrip
  <2> QED BY <2>1, <2>2, <2>4, Zenon
<1>7. p = IF c THEN Read(w.value, << >>) ELSE NotRead
  <2>1. IsValue(Messages[w.name], w.value) /\ Sound(Messages[w.name])
    BY DescriptorsAreSound DEF IsMeant, Meaningful
  <2>2. payload = EncodeAs(form, Messages[w.name], w.value)
    BY <1>2 DEF PayloadAs
  <2>3. Len(EncodeAs(form, Messages[w.name], w.value)) < (128 * 128 * 128)
    BY <1>5, <2>2
  <2>4. Decode(Messages[w.name], EncodeAs(form, Messages[w.name], w.value)) =
          IF HasRoom(Messages[w.name], w.value) THEN Read(w.value, << >>) ELSE NotRead
    BY <1>4, <2>1, <2>3, RoundTrip
  <2> QED BY <2>2, <2>4, Zenon
<1>8. e.header = <<w.header>> /\ e.payload = <<payload>>
  BY DEF Envelope
<1> HIDE DEF e, p, c
<1>9. (p.ok <=> c) /\ (c => p.value = w.value)
  BY <1>7, IfRead
<1>10. HeaderOf(e) = w.header
  <2>1. PICK s : s = <<w.header>>
    OBVIOUS
  <2>2. s # << >> /\ s[1] = w.header
    BY <2>1
  <2>3. e.header = s
    BY <1>8, <2>1
  <2> QED BY <2>2, <2>3, Zenon DEF HeaderOf
<1>11. e.payload[1] = payload
  BY <1>8
<1>12. Taken(Table(to), whole, cut) =
         IF p.ok THEN [to |-> "taken", cut |-> cut, name |-> w.name, header |-> w.header, value |-> p.value]
                 ELSE Refused(cut)
  BY <1>6, <1>10, <1>11, TakenOf DEF p
<1> QED BY <1>3, <1>9, <1>12, Zenon DEF AsMeant, c

LEMMA TakenCut == ASSUME NEW table, NEW bytes, NEW cut PROVE Taken(table, bytes, cut).cut = cut
<1> DEFINE m == Decode(ReachMessage, bytes)
           h == HeaderOf(m.value)
           types == TypeIn(table, h.message_type[1])
           name == table[CHOOSE t \in types : TRUE]
           p == Decode(Messages[name], m.value.payload[1])
           g == [to |-> "taken", cut |-> cut, name |-> name, header |-> h, value |-> p.value]
<1>1. g.cut = cut /\ Refused(cut).cut = cut
  BY DEF Refused
<1>2. Taken(table, bytes, cut) = IF m.ok THEN (IF types # {} /\ p.ok THEN g ELSE Refused(cut)) ELSE Refused(cut)
  BY Zenon DEF Taken, PayloadOf, TakenAs
<1> HIDE DEF g, m, types, p
<1> QED BY <1>1, <1>2, Zenon

\* Whatever a client or the device sends, if the link carries all of it the other
\* end takes the value that was meant, with its header, or refuses it because its
\* C structure has no room for that value.
THEOREM AlwaysAsMeant == Spec => []ArrivesAsMeant
<1>1. Init => ArrivesAsMeant
  BY DEF Init, ArrivesAsMeant
<1>2. PathInv /\ ArrivesAsMeant /\ [Next]_vars => ArrivesAsMeant'
  <2> SUFFICES ASSUME PathInv, ArrivesAsMeant, [Next]_vars PROVE ArrivesAsMeant'
    OBVIOUS
  <2>0. ArrivesAsMeant' <=> (got' # Nothing /\ ~got'.cut => got' = AsMeant(meant', FALSE))
    BY DEF ArrivesAsMeant, AsMeant
  <2>1. CASE Arrive
    <3>1. air # Nothing /\ got' = Taken(Table(air.to), air.bytes, air.cut) /\ meant' = meant
      BY <2>1 DEF Arrive, Table
    <3>2. IsMeant(meant) /\ Named(air.to, meant) /\ IsMessage(air)
      BY <3>1 DEF PathInv, Phases, OnItsWay, Carries
    <3>3. PICK form \in Forms : Holds(air.bytes, air.cut, form, meant)
      BY <3>1 DEF PathInv, OnItsWay, Carries
    <3>4. CASE air.cut = FALSE
      <4>1. air.bytes = WholeAs(form, meant) /\ Holds(WholeAs(form, meant), FALSE, form, meant)
        BY <3>3, <3>4 DEF Holds
      <4>2. Taken(Table(air.to), WholeAs(form, meant), FALSE) = AsMeant(meant, FALSE)
        BY <3>2, <4>1, WholeIsTaken
      <4> QED BY <2>0, <3>1, <3>4, <4>1, <4>2
    <3>5. CASE air.cut = TRUE
      <4>1. got'.cut = TRUE
        BY <3>1, <3>5, TakenCut
      <4> QED BY <2>0, <4>1
    <3> QED BY <3>2, <3>4, <3>5, SomethingIs
  <2>2. CASE got' = Nothing
    BY <2>0, <2>2
  <2>3. CASE got' = got /\ meant' = meant
    BY <2>0, <2>3 DEF ArrivesAsMeant, AsMeant
  <2>4. Arrive \/ got' = Nothing \/ (got' = got /\ meant' = meant)
    BY DEF Next, vars, Ask, Answer, crcb_cli_respond, crcb_notify_error, crcb_notify_param, Notify, Give, Cut, Another,
           PathInv, Phases
  <2> QED BY <2>1, <2>2, <2>3, <2>4
<1> QED BY <1>1, <1>2, AlwaysPath, PTL DEF Spec

-----------------------------------------------------------------------------
(* The heads of a message.                                                  *)

-----------------------------------------------------------------------------
(* The head of a message.                                                   *)

\* What any head of b does to w: it is refused, or brings one of Z.
Outcomes(Z) == {NotRead} \cup {Read(z, << >>) : z \in Z}
Stops(m, w, b, Z) ==
  /\ b \in Seq(Byte)
  /\ \A k \in Nat : k <= Len(b) => Steps("message", m, m, w, SubSeq(b, 1, k)) \in Outcomes(Z)

LEMMA StopsAmong == ASSUME NEW m, NEW w, NEW b, NEW Y, Stops(m, w, b, Y), NEW Z, Y \subseteq Z
  PROVE Stops(m, w, b, Z)
<1>1. Outcomes(Y) \subseteq Outcomes(Z)
  BY DEF Outcomes
<1> QED BY <1>1 DEF Stops

LEMMA NothingStops == ASSUME NEW m, SoundFields(m), NEW w PROVE Stops(m, w, << >>, {w})
<1>1. Steps("message", m, m, w, << >>) = Read(w, << >>)
  BY MessageShrinks, StepsOfNothing
<1>2. << >> \in Seq(Byte) /\ \A k \in Nat : k <= Len(<< >>) => SubSeq(<< >>, 1, k) = << >>
  OBVIOUS
<1>3. Read(w, << >>) \in Outcomes({w})
  BY DEF Outcomes
<1> QED BY <1>1, <1>2, <1>3, Zenon DEF Stops

LEMMA HeadIs == ASSUME NEW s \in Seq(Byte), NEW k \in Nat, k <= Len(s)
  PROVE SubSeq(s, 1, k) \in Seq(Byte) /\ Len(SubSeq(s, 1, k)) = k
  BY TakeIs

LEMMA StopsMore ==
  ASSUME NEW m, NEW w, NEW a, NEW x, Moves("message", m, m, w, a, x), NEW Z, Stops(m, w, a, Z), NEW b, Stops(m, x, b, Z)
  PROVE  Stops(m, w, a \o b, Z)
<1>1. /\ a \in Seq(Byte) /\ b \in Seq(Byte)
      /\ \A r \in Seq(Byte) : Steps("message", m, m, w, a \o r) = Steps("message", m, m, x, r)
      /\ \A k \in Nat : k <= Len(a) => Steps("message", m, m, w, SubSeq(a, 1, k)) \in Outcomes(Z)
      /\ \A k \in Nat : k <= Len(b) => Steps("message", m, m, x, SubSeq(b, 1, k)) \in Outcomes(Z)
  BY DEF Moves, Stops
<1>2. a \o b \in Seq(Byte) /\ Len(a \o b) = Len(a) + Len(b) /\ Len(a) \in Nat /\ Len(b) \in Nat
  BY <1>1
<1>3. ASSUME NEW k \in Nat, k <= Len(a \o b)
      PROVE  Steps("message", m, m, w, SubSeq(a \o b, 1, k)) \in Outcomes(Z)
  <2>1. CASE k <= Len(a)
    <3>1. SubSeq(a \o b, 1, k) = SubSeq(a, 1, k)
      BY <1>1, <1>2, <1>3, <2>1, CutConcat
    <3> QED BY <1>1, <2>1, <3>1
  <2>2. CASE k >= Len(a)
    <3>1. PICK j \in Nat : j = k - Len(a) /\ j <= Len(b)
      <4>1. PICK A, B \in Nat : A = Len(a) /\ B = Len(b)
        BY <1>2
      <4>2. A <= k /\ k <= A + B
        BY <1>2, <1>3, <2>2, <4>1
      <4>3. k - A \in Nat /\ k - A <= B
        BY <4>2
      <4> QED BY <4>1, <4>3
    <3>2. SubSeq(a \o b, 1, k) = a \o SubSeq(b, 1, j)
      BY <1>1, <1>2, <1>3, <2>2, <3>1, CutConcat
    <3>3. SubSeq(b, 1, j) \in Seq(Byte)
      BY <1>1, <3>1, HeadIs
    <3> QED BY <1>1, <3>1, <3>2, <3>3, Zenon
  <2> QED BY <1>2, <2>1, <2>2
<1> QED BY <1>2, <1>3 DEF Stops

\* A tag, and a body of which no head is read.
LEMMA PieceStops ==
  ASSUME NEW m, SoundFields(m), NEW w, NEW n, TagNumber(n), NEW wt, WireType(wt), NEW b \in Seq(Byte), NEW x,
         Moves("message", m, m, w, Tag(n, wt) \o b, x),
         \A k \in Nat : k < Len(b) => NextOf(m, w, [number |-> n, wireType |-> wt], SubSeq(b, 1, k)) = NotRead
  PROVE  Stops(m, w, Tag(n, wt) \o b, {w, x})
<1> DEFINE t == Tag(n, wt)
<1>1. /\ t \in Seq(Byte) /\ Len(t) \in Nat /\ 1 <= Len(t)
      /\ \A k \in Nat : k < Len(t) => ReadTag(SubSeq(t, 1, k)) = NotRead
  BY TagIs DEF TagNumber, WireType
<1>2. \A s \in Seq(Byte) : t \o s \in Seq(Byte) /\ t \o s # << >>
                           /\ StepOf(m, w, t \o s) = NextOf(m, w, [number |-> n, wireType |-> wt], s)
  BY TagStep
<1>3. Moves("message", m, m, w, t \o b, x)
  OBVIOUS
<1> HIDE DEF t
<1>4. Read(w, << >>) \in Outcomes({w, x}) /\ Read(x, << >>) \in Outcomes({w, x}) /\ NotRead \in Outcomes({w, x})
  BY DEF Outcomes
<1>5. PICK T, B \in Nat : T = Len(t) /\ B = Len(b)
  BY <1>1
<1>6. t \o b \in Seq(Byte) /\ Len(t \o b) = T + B
  BY <1>1, <1>5
<1>7. ASSUME NEW k \in Nat, k <= T + B
      PROVE  Steps("message", m, m, w, SubSeq(t \o b, 1, k)) \in Outcomes({w, x})
  <2>1. CASE k = 0
    <3>1. SubSeq(t \o b, 1, k) = << >>
      BY <2>1
    <3>2. Steps("message", m, m, w, << >>) = Read(w, << >>)
      BY MessageShrinks, StepsOfNothing
    <3> QED BY <1>4, <3>1, <3>2
  <2>2. CASE k # 0 /\ k < T
    <3>1. SubSeq(t \o b, 1, k) = SubSeq(t, 1, k)
      BY <1>1, <1>5, <1>7, <2>2, CutConcat
    <3>2. PICK s \in Seq(Byte) : s = SubSeq(t, 1, k) /\ s # << >>
      <4>1. k <= Len(t)
        BY <1>5, <2>2
      <4>2. SubSeq(t, 1, k) \in Seq(Byte) /\ Len(SubSeq(t, 1, k)) = k
        BY <1>1, <4>1, HeadIs
      <4>3. SubSeq(t, 1, k) # << >>
        BY <2>2, <4>2
      <4> QED BY <4>2, <4>3
    <3>3. ReadTag(s) = NotRead
      BY <1>1, <1>5, <2>2, <3>2
    <3>4. StepOf(m, w, s) = NotRead
      BY <3>3, TagNot
    <3>5. Steps("message", m, m, w, s) = NotRead
      BY <3>2, <3>4, MessageStepIs
    <3> QED BY <1>4, <3>1, <3>2, <3>5
  <2>3. CASE T <= k /\ k < T + B
    <3>1. PICK j \in Nat : j = k - T /\ j < B
      BY <2>3
    <3>2. SubSeq(t \o b, 1, k) = t \o SubSeq(b, 1, j)
      BY <1>1, <1>5, <1>7, <2>3, <3>1, CutConcat
    <3>3. PICK y \in Seq(Byte) : y = SubSeq(b, 1, j)
      <4>1. j <= Len(b)
        BY <1>5, <3>1
      <4> QED BY <4>1, HeadIs
    <3>4. NextOf(m, w, [number |-> n, wireType |-> wt], y) = NotRead
      BY <1>5, <3>1, <3>3
    <3>5. PICK s \in Seq(Byte) : s = t \o y /\ s # << >> /\ StepOf(m, w, s) = NotRead
      BY <1>2, <3>4
    <3>6. Steps("message", m, m, w, s) = NotRead
      BY <3>5, MessageStepIs
    <3> QED BY <1>4, <3>2, <3>3, <3>5, <3>6
  <2>4. CASE k = T + B
    <3>1. SubSeq(t \o b, 1, k) = t \o b
      BY <1>6, <2>4
    <3>2. PICK s \in Seq(Byte) : s = t \o b
      BY <1>6
    <3>3. Steps("message", m, m, w, s \o << >>) = Steps("message", m, m, x, << >>)
      <4>1. << >> \in Seq(Byte)
        OBVIOUS
      <4> QED BY <1>3, <3>2, <4>1, Zenon DEF Moves
    <3>4. s \o << >> = s
      OBVIOUS
    <3>5. Steps("message", m, m, x, << >>) = Read(x, << >>)
      BY MessageShrinks, StepsOfNothing
    <3> QED BY <1>4, <3>1, <3>2, <3>3, <3>4, <3>5
  <2> QED BY <1>7, <2>1, <2>2, <2>3, <2>4
<1> QED BY <1>6, <1>7 DEF Stops, t

LEMMA StrangerStops ==
  ASSUME NEW m, SoundFields(m), NEW w, NEW n, n # 0, TagNumber(n), FieldsOf(m, n) = {},
         NEW wt, WireType(wt), NEW b, Skippable(b, wt)
  PROVE  Stops(m, w, Tag(n, wt) \o b, {w})
<1>1. b \in Seq(Byte) /\ \A k \in Nat : k < Len(b) => Skip(SubSeq(b, 1, k), wt) = NotRead
  BY DEF Skippable
<1>2. Moves("message", m, m, w, Tag(n, wt) \o b, w)
  BY StrangerMoves
<1>3. ASSUME NEW k \in Nat, k < Len(b)
      PROVE  NextOf(m, w, [number |-> n, wireType |-> wt], SubSeq(b, 1, k)) = NotRead
  <2>1. PICK s : s = SubSeq(b, 1, k) /\ Skip(s, wt) = NotRead
    BY <1>1, <1>3
  <2>2. Skip(s, wt).ok = FALSE
    BY <2>1, NotReadParts
  <2>3. NextOf(m, w, [number |-> n, wireType |-> wt], s) =
          IF Skip(s, wt).ok THEN Read(w, Skip(s, wt).rest) ELSE NotRead
    BY UnknownTag, Zenon
  <2> QED BY <2>1, <2>2, <2>3
<1>4. Stops(m, w, Tag(n, wt) \o b, {w, w})
  BY <1>1, <1>2, <1>3, PieceStops
<1>5. {w, w} = {w}
  OBVIOUS
<1> QED BY <1>4, <1>5

\* A field with a length.
LEMMA SizedStops ==
  ASSUME NEW m, SoundFields(m), NEW w, NEW f \in Fields(m), f.type \in Delimited, f.label # "REPEATED",
         NEW s, ReadSized(s) = NotRead
  PROVE  NextOf(m, w, [number |-> f.tag, wireType |-> WT_STRING], s) = NotRead
<1>1. ReadSized(s).ok = FALSE
  BY NotReadParts
<1>2. ASSUME NEW old PROVE ReadValue(m, f, old, WT_STRING, s) = NotRead
  <2>1. CASE f.type = "MESSAGE"
    BY <1>1, <2>1, Zenon DEF ReadValue, ReadMessage, Then
  <2>2. CASE f.type = "STRING"
    <3>1. ReadValue(m, f, old, WT_STRING, s) = ReadScalar(m, f, old, WT_STRING, s)
      BY <2>2 DEF ReadValue
    <3>2. ReadScalar(m, f, old, WT_STRING, s) = ReadString(m, f, s) \/ ReadScalar(m, f, old, WT_STRING, s) = NotRead
      BY <2>2 DEF ReadScalar, Unsigned, Signed, ZigZags, Fixed
    <3>3. ReadString(m, f, s) = NotRead
      BY <1>1, Zenon DEF ReadString, Then
    <3> QED BY <3>1, <3>2, <3>3
  <2>3. CASE f.type = "BYTES"
    <3>1. ReadValue(m, f, old, WT_STRING, s) = ReadScalar(m, f, old, WT_STRING, s)
      BY <2>3 DEF ReadValue
    <3>2. ReadScalar(m, f, old, WT_STRING, s) = ReadBytes(m, f, s) \/ ReadScalar(m, f, old, WT_STRING, s) = NotRead
      BY <2>3 DEF ReadScalar, Unsigned, Signed, ZigZags, Fixed
    <3>3. ReadBytes(m, f, s) = NotRead
      BY <1>1, Zenon DEF ReadBytes, Then
    <3> QED BY <3>1, <3>2, <3>3
  <2> QED BY <2>1, <2>2, <2>3 DEF Delimited
<1>3. FieldOfTag(m, w, f, WT_STRING, s) = NotRead
  <2> DEFINE a == ReadOne(ReadValue, m, f, w[f.name], WT_STRING, s)
  <2>1. a = NotRead
    <3>1. ReadValue(m, f, Held(f, w[f.name]), WT_STRING, s).ok = FALSE
      BY <1>2, NotReadParts
    <3> QED BY <3>1, Zenon DEF ReadOne, Then
  <2>2. FieldOfTag(m, w, f, WT_STRING, s) = IF a.ok THEN Read(Set(m, w, f, a.value), a.rest) ELSE NotRead
    BY Zenon DEF FieldOfTag, ReadField, Then
  <2> HIDE DEF a
  <2> QED BY <2>1, <2>2, NotReadParts
<1> QED BY <1>3, KnownTag

\* A message of which every field has a length, at most once.
Parcels(m) == \A f \in Fields(m) : f.type \in Delimited /\ f.label # "REPEATED"

LEMMA SizedBody == ASSUME NEW m, Sound(m), NEW f \in Fields(m), f.type \in Delimited, NEW x, IsItem(f, x), Brief(EncodeValue(f, x))
  PROVE \E y \in Seq(Byte) : EncodeValue(f, x) = Sized(y) /\ Len(y) < (128 * 128 * 128)
<1>1. \E y \in Seq(Byte) : EncodeValue(f, x) = Sized(y)
  <2>1. CASE f.type = "MESSAGE"
    <3>1. PICK g : g = f.of /\ SoundFields(g) /\ IsFlat(g)
      BY <2>1 DEF Sound
    <3>2. FlatValue(g, x) /\ EncodeValue(f, x) = Sized(EncodeFlat(g, x))
      BY <2>1, <3>1 DEF IsItem, EncodeValue
    <3> QED BY <3>1, <3>2, FlatBytes
  <2>2. CASE f.type # "MESSAGE"
    <3>1. f.type = "STRING" \/ f.type = "BYTES"
      BY <2>2 DEF Delimited
    <3>2. Scalar(f, x) /\ EncodeValue(f, x) = EncodeScalar(f, x)
      BY <2>2 DEF IsItem, EncodeValue
    <3>3. x \in Seq(Byte)
      <4>1. x \in Seq(Byte \ {0}) \/ x \in Seq(Byte)
        BY <3>1, <3>2 DEF Scalar, Unsigned, Signed, ZigZags, Fixed
      <4> QED BY <4>1
    <3>4. EncodeScalar(f, x) = Sized(x)
      BY <3>1 DEF EncodeScalar, Unsigned, Signed, ZigZags, Fixed
    <3> QED BY <3>2, <3>3, <3>4
  <2> QED BY <2>1, <2>2
<1>2. PICK y \in Seq(Byte) : EncodeValue(f, x) = Sized(y)
  BY <1>1
<1>3. Len(y) <= Len(Sized(y)) /\ Len(y) \in Nat /\ Len(Sized(y)) \in Nat
  BY SizedBytes
<1>4. Brief(Sized(y))
  BY <1>2
<1>5. Len(y) < (128 * 128 * 128)
  BY <1>3, <1>4 DEF Brief
<1> QED BY <1>2, <1>5

LEMMA SizedWireType == ASSUME NEW f, f.type \in Delimited PROVE WireTypeOf(f) = WT_STRING
  BY DEF WireTypeOf, Delimited

LEMMA ItemStops ==
  ASSUME NEW m, Sound(m), NEW f \in Fields(m), f.type \in Delimited, f.label # "REPEATED",
         NEW w, w[f.name] = Default(m)[f.name], NEW x, IsItem(f, x), Brief(EncodeValue(f, x)), ItemRoom(m, f, x)
  PROVE  Stops(m, w, ItemBytes(f, x), {w, Set(m, w, f, <<x>>)})
<1>1. SoundFields(m) /\ ItemsRead(m)
  BY AllItemsRead DEF Sound
<1>2. PICK u : u = Set(m, w, f, <<x>>)
  OBVIOUS
<1>3. Moves("message", m, m, w, ItemBytes(f, x), u)
  BY <1>1, <1>2, OneMoves
<1>4. PICK y \in Seq(Byte) : EncodeValue(f, x) = Sized(y) /\ Len(y) < (128 * 128 * 128)
  BY SizedBody
<1>5. PICK b \in Seq(Byte) : b = Sized(y) /\ \A k \in Nat : k < Len(b) => ReadSized(SubSeq(b, 1, k)) = NotRead
  BY <1>4, SizedIs
<1>6. TagNumber(f.tag) /\ WireType(WT_STRING) /\ WireTypeOf(f) = WT_STRING
  <2>1. WireTypeOf(f) = WT_STRING
    BY SizedWireType
  <2> QED BY <1>1, <2>1, ByName, TagBytes DEF TagNumber, WireType
<1>7. ItemBytes(f, x) = Tag(f.tag, WT_STRING) \o b
  BY <1>4, <1>5, <1>6, Zenon DEF ItemBytes
<1>8. ASSUME NEW k \in Nat, k < Len(b)
      PROVE  NextOf(m, w, [number |-> f.tag, wireType |-> WT_STRING], SubSeq(b, 1, k)) = NotRead
  BY <1>1, <1>5, <1>8, SizedStops
<1>9. Moves("message", m, m, w, Tag(f.tag, WT_STRING) \o b, u)
  BY <1>3, <1>7
<1>10. Stops(m, w, Tag(f.tag, WT_STRING) \o b, {w, u})
  BY <1>1, <1>6, <1>8, <1>9, PieceStops
<1> QED BY <1>2, <1>7, <1>10

LEMMA NoneOrOne == ASSUME NEW m, NEW f, SoundField(m, f), f.label # "REPEATED", NEW xs, FieldShape(f, xs)
  PROVE xs = << >> \/ Len(xs) = 1
<1>1. f.label \in {"SINGULAR", "OPTIONAL", "ONEOF"}
  BY DEF SoundField
<1>2. PICK n \in Nat : n = Len(xs) /\ (xs = << >> <=> n = 0)
  BY SequenceIs DEF FieldShape
<1>3. n <= 1
  BY <1>1, <1>2 DEF FieldShape
<1> QED BY <1>2, <1>3

LEMMA FieldStops ==
  ASSUME NEW m, Sound(m), NEW f \in Fields(m), f.type \in Delimited, f.label # "REPEATED",
         NEW w, PlainAt(m, w, f), NEW xs, FieldShape(f, xs), ItemsAreBytes(f, xs), RoomFor(m, f, xs)
  PROVE  /\ Brief(EachBytes(f, xs)) => Stops(m, w, EachBytes(f, xs), {w, With(m, w, f, xs)})
         /\ Brief(FieldBytes(f, xs)) => Stops(m, w, FieldBytes(f, xs), {w, With(m, w, f, xs)})
<1>1. SoundField(m, f) /\ SoundFields(m) /\ ~Packable(f)
  BY ByName DEF Sound, Packable
<1>2. Stops(m, w, << >>, {w, With(m, w, f, xs)})
  <2>1. Stops(m, w, << >>, {w})
    BY <1>1, NothingStops
  <2>2. {w} \subseteq {w, With(m, w, f, xs)}
    OBVIOUS
  <2> QED BY <2>1, <2>2, StopsAmong
<1>3. ASSUME Brief(EachBytes(f, xs)) PROVE Stops(m, w, EachBytes(f, xs), {w, With(m, w, f, xs)})
  <2>1. CASE xs = << >>
    <3>1. EachBytes(f, xs) = << >>
      BY <1>1, <2>1, NoneIs
    <3> QED BY <1>2, <3>1
  <2>2. CASE xs # << >>
    <3>1. Len(xs) = 1
      BY <1>1, <2>2, NoneOrOne
    <3>2. EachBytes(f, xs) = ItemBytes(f, xs[1]) /\ xs = <<xs[1]>> /\ ItemRoom(m, f, xs[1])
      BY <1>1, <3>1, OneIs
    <3>3. PICK x : x = xs[1] /\ IsItem(f, x) /\ Brief(EncodeValue(f, x))
      <4>1. 1 \in 1..Len(xs)
        BY <3>1
      <4>2. \A i \in 1..Len(xs) : Brief(EncodeValue(f, xs[i]))
        BY <1>1, <1>3, EachBrief
      <4> QED BY <4>1, <4>2 DEF FieldShape
    <3>4. Stops(m, w, ItemBytes(f, x), {w, Set(m, w, f, <<x>>)})
      BY <3>2, <3>3, ItemStops DEF PlainAt
    <3>5. xs = <<x>>
      BY <3>2, <3>3
    <3> QED BY <2>2, <3>2, <3>3, <3>4, <3>5, Zenon DEF With
  <2> QED BY <2>1, <2>2
<1>4. FieldBytes(f, xs) = << >> \/ FieldBytes(f, xs) = EachBytes(f, xs)
  BY <1>1 DEF FieldBytes
<1> QED BY <1>2, <1>3, <1>4

\* Pieces one after the other.
LEMMA ChainStops ==
  ASSUME NEW m, SoundFields(m), NEW ss \in Seq(Seq(Byte)), NEW z, NEW Z, z[0] \in Z,
         \A i \in 1..Len(ss) : Moves("message", m, m, z[i - 1], ss[i], z[i]) /\ Stops(m, z[i - 1], ss[i], Z)
  PROVE  Stops(m, z[0], FlattenSeq(ss), Z)
<1>1. PICK P : Joined(ss, P)
  BY JoinedExists
<1>2. FlattenSeq(ss) = P[Len(ss)] /\ Len(ss) \in Nat
  BY <1>1, FlattenIs
<1>3. P[0] = << >> /\ \A i \in 1..Len(ss) : P[i] = P[i - 1] \o ss[i]
  BY <1>1, Zenon DEF Joined
<1> DEFINE Done(n) == Moves("message", m, m, z[0], P[n], z[n]) /\ Stops(m, z[0], P[n], Z)
           H == {n \in Nat : n <= Len(ss) => Done(n)}
<1>4. 0 \in H
  <2>1. Moves("message", m, m, z[0], P[0], z[0])
    BY <1>3, NothingMoves
  <2>2. Stops(m, z[0], P[0], {z[0]}) /\ {z[0]} \subseteq Z
    BY <1>3, NothingStops
  <2>3. Stops(m, z[0], P[0], Z)
    BY <2>2, StopsAmong
  <2> QED BY <2>1, <2>3
<1>5. ASSUME NEW n \in Nat, n \in H PROVE n + 1 \in H
  <2> SUFFICES ASSUME n + 1 <= Len(ss) PROVE Done(n + 1)
    OBVIOUS
  <2>1. Done(n) /\ n + 1 \in 1..Len(ss) /\ (n + 1) - 1 = n
    BY <1>2, <1>5
  <2>2. P[n + 1] = P[n] \o ss[n + 1]
    BY <1>3, <2>1
  <2>3. Moves("message", m, m, z[n], ss[n + 1], z[n + 1]) /\ Stops(m, z[n], ss[n + 1], Z)
    BY <2>1
  <2>4. Moves("message", m, m, z[0], P[n], z[n]) /\ Stops(m, z[0], P[n], Z)
    BY <2>1
  <2>5. Moves("message", m, m, z[0], P[n] \o ss[n + 1], z[n + 1])
    BY <2>3, <2>4, MovesMore
  <2>6. Stops(m, z[0], P[n] \o ss[n + 1], Z)
    BY <2>3, <2>4, StopsMore
  <2> QED BY <2>2, <2>5, <2>6
<1> HIDE DEF H
<1>6. Len(ss) \in H
  BY <1>2, <1>4, <1>5, Induction
<1>7. Done(Len(ss))
  <2>1. Len(ss) <= Len(ss)
    BY <1>2
  <2> QED BY <1>6, <2>1, Zenon DEF H
<1> QED BY <1>2, <1>7

\* Whatever head of a message arrives: it is refused, or ends after one of its fields.
LEMMA HeadsStop ==
  ASSUME NEW m, Sound(m), Parcels(m), NEW v, IsValue(m, v), HasRoom(m, v)
  PROVE  LET Z == {Partly(m, v, i) : i \in 0..Len(m.fields)}
         IN  /\ Brief(Encode(m, v)) => Stops(m, Default(m), Encode(m, v), Z)
             /\ Brief(EncodeAll(m, v)) => Stops(m, Default(m), EncodeAll(m, v), Z)
<1>1. /\ SoundFields(m) /\ ItemsRead(m) /\ MessageIsBytes(m, v)
      /\ Encode(m, v) = FlattenSeq(Pieces(m, v)) /\ EncodeAll(m, v) = FlattenSeq(ExplicitPieces(m, v))
  BY AllItemsRead, EncodedIsBytes, EncodeIs DEF Sound
<1>2. PICK N \in Nat : N = Len(m.fields)
  BY <1>1, FieldsAre
<1>3. AsLabelled(m, v)
  BY ValueIs
<1> DEFINE z == [i \in 0..N |-> Partly(m, v, i)]
           Z == {Partly(m, v, i) : i \in 0..N}
<1>4. z[0] = Default(m) /\ z[0] \in Z
  <2>1. Partly(m, v, 0) = Default(m) /\ 0 \in 0..N
    BY <1>1, <1>3, PartlyEnds
  <2> QED BY <2>1
<1>5. ASSUME NEW ss \in Seq(Seq(Byte)), Len(ss) = N, Brief(FlattenSeq(ss)),
             \A i \in 1..N : \/ ss[i] = FieldBytes(m.fields[i], v[m.fields[i].name])
                             \/ ss[i] = EachBytes(m.fields[i], v[m.fields[i].name])
      PROVE  Stops(m, Default(m), FlattenSeq(ss), Z)
  <2>1. ASSUME NEW i \in 1..N PROVE Moves("message", m, m, z[i - 1], ss[i], z[i]) /\ Stops(m, z[i - 1], ss[i], Z)
    <3>1. PICK f \in Fields(m) : f = m.fields[i]
      BY <1>1, <1>2, FieldsAre
    <3>2. PICK w : w = Partly(m, v, i - 1)
      OBVIOUS
    <3>3. PICK u : u = Partly(m, v, i)
      OBVIOUS
    <3>4. PlainAt(m, w, f) /\ With(m, w, f, v[f.name]) = u
      BY <1>1, <1>2, <1>3, <3>1, <3>2, <3>3, PartlyNext
    <3>5. z[i - 1] = w /\ z[i] = u /\ w \in Z /\ u \in Z
      <4>1. i - 1 \in 0..N /\ i \in 0..N
        OBVIOUS
      <4> QED BY <3>2, <3>3, <4>1
    <3>6. f.type \in Delimited /\ f.label # "REPEATED" /\ RoomFor(m, f, v[f.name])
      BY <1>1, <1>2, <3>1, HasRoomIs DEF Parcels
    <3>7. FieldShape(f, v[f.name]) /\ ItemsAreBytes(f, v[f.name])
      BY ValueShape
    <3>8. Brief(ss[i]) /\ (ss[i] = FieldBytes(f, v[f.name]) \/ ss[i] = EachBytes(f, v[f.name]))
      BY <1>5, <3>1, PieceBrief
    <3> HIDE DEF z, Z
    <3>9. Stops(m, w, ss[i], {w, u})
      BY <3>4, <3>6, <3>7, <3>8, FieldStops
    <3>10. FieldDone(m, w, f, v[f.name], ss[i])
      <4>1. CASE ss[i] = FieldBytes(f, v[f.name])
        <5>1. Brief(FieldBytes(f, v[f.name]))
          BY <3>8, <4>1
        <5> QED BY <1>1, <3>4, <3>7, <4>1, <5>1, FieldBytesDone
      <4>2. CASE ss[i] = EachBytes(f, v[f.name])
        <5>1. Brief(EachBytes(f, v[f.name]))
          BY <3>8, <4>2
        <5>2. SoundField(m, f)
          BY <1>1, ByName
        <5>3. \A j \in 1..Len(v[f.name]) : Brief(EncodeValue(f, v[f.name][j]))
          BY <3>7, <5>1, <5>2, EachBrief
        <5> QED BY <1>1, <3>4, <3>7, <4>2, <5>3, EachDone
      <4> QED BY <3>8, <4>1, <4>2
    <3>11. Moves("message", m, m, w, ss[i], u)
      BY <3>4, <3>6, <3>10 DEF FieldDone
    <3>12. {w, u} \subseteq Z
      BY <3>5
    <3>13. Stops(m, w, ss[i], Z)
      BY <3>9, <3>12, StopsAmong
    <3> QED BY <3>5, <3>11, <3>13
  <2> HIDE DEF z, Z
  <2>2. Stops(m, z[0], FlattenSeq(ss), Z)
    BY <1>1, <1>4, <1>5, <2>1, ChainStops
  <2> QED BY <1>4, <2>2
<1> HIDE DEF Z
<1>6. ASSUME Brief(Encode(m, v)) PROVE Stops(m, Default(m), Encode(m, v), Z)
  <2>1. PICK ss \in Seq(Seq(Byte)) :
          /\ ss = Pieces(m, v) /\ Len(ss) = N
          /\ \A i \in 1..N : ss[i] = FieldBytes(m.fields[i], v[m.fields[i].name])
    BY <1>1, <1>2 DEF MessageIsBytes
  <2>2. Encode(m, v) = FlattenSeq(ss)
    BY <1>1, <2>1
  <2>3. Stops(m, Default(m), FlattenSeq(ss), Z)
    BY <1>5, <1>6, <2>1, <2>2
  <2> QED BY <2>2, <2>3
<1>7. ASSUME Brief(EncodeAll(m, v)) PROVE Stops(m, Default(m), EncodeAll(m, v), Z)
  <2>1. PICK ss \in Seq(Seq(Byte)) :
          /\ ss = ExplicitPieces(m, v) /\ Len(ss) = N
          /\ \A i \in 1..N : ss[i] = EachBytes(m.fields[i], v[m.fields[i].name])
    BY <1>1, <1>2 DEF MessageIsBytes
  <2>2. EncodeAll(m, v) = FlattenSeq(ss)
    BY <1>1, <2>1
  <2>3. Stops(m, Default(m), FlattenSeq(ss), Z)
    BY <1>5, <1>7, <2>1, <2>2
  <2> QED BY <2>2, <2>3
<1> QED BY <1>2, <1>6, <1>7 DEF Z

\* Before the fields of a message, and after them.
LEMMA StopsTwo ==
  ASSUME NEW m, NEW w, NEW a, Moves("message", m, m, w, a, w), NEW Z, Stops(m, w, a, Z),
         NEW b \in Seq(Byte), NEW c \in Seq(Byte), Stops(m, w, b \o c, Z)
  PROVE  Stops(m, w, (a \o b) \o c, Z)
<1>1. Stops(m, w, a \o (b \o c), Z)
  BY StopsMore
<1>2. a \in Seq(Byte)
  BY DEF Moves
<1>3. (a \o b) \o c = a \o (b \o c)
  BY <1>2, JoinIs
<1> QED BY <1>1, <1>3, Zenon

LEMMA StrangeStops == ASSUME NEW m, SoundFields(m), NEW w PROVE Stops(m, w, Strange, {w})
<1>1. PICK a, b, c, d, e, f, g, h :
        /\ Strange = a \o b \o c \o d \o e \o f \o g \o h
        /\ Stranger(m, a, b) /\ Stranger(m, c, d) /\ Stranger(m, e, f) /\ Stranger(m, g, h)
  BY StrangeIs
<1>2. ASSUME NEW s, NEW t, Stranger(m, s, t) PROVE Stops(m, w, s \o t, {w})
  <2>1. PICK n, wt : /\ n # 0 /\ TagNumber(n) /\ FieldsOf(m, n) = {} /\ WireType(wt) /\ Skippable(t, wt)
                     /\ s = Tag(n, wt)
    BY <1>2, Zenon DEF Stranger
  <2>2. Stops(m, w, Tag(n, wt) \o t, {w})
    BY <2>1, StrangerStops
  <2> QED BY <2>1, <2>2
<1>3. /\ Stops(m, w, a \o b, {w}) /\ Stops(m, w, c \o d, {w}) /\ Stops(m, w, e \o f, {w}) /\ Stops(m, w, g \o h, {w})
  BY <1>1, <1>2
<1>4. /\ c \in Seq(Byte) /\ d \in Seq(Byte) /\ e \in Seq(Byte) /\ f \in Seq(Byte) /\ g \in Seq(Byte) /\ h \in Seq(Byte)
      /\ Moves("message", m, m, w, a \o b, w) /\ Moves("message", m, m, w, c \o d, w)
      /\ Moves("message", m, m, w, e \o f, w)
  BY <1>1, StrangerIs
<1>5. Moves("message", m, m, w, a \o b \o c \o d, w) /\ Stops(m, w, a \o b \o c \o d, {w})
  BY <1>3, <1>4, MovesTwo, StopsTwo
<1>6. /\ Moves("message", m, m, w, a \o b \o c \o d \o e \o f, w)
      /\ Stops(m, w, a \o b \o c \o d \o e \o f, {w})
  BY <1>3, <1>4, <1>5, MovesTwo, StopsTwo
<1>7. Stops(m, w, a \o b \o c \o d \o e \o f \o g \o h, {w})
  BY <1>3, <1>4, <1>6, StopsTwo
<1> QED BY <1>1, <1>7, Zenon

\* The head of a message in any of the forms.
THEOREM HeadRead ==
  ASSUME NEW m, Sound(m), Parcels(m), NEW v, IsValue(m, v), HasRoom(m, v), NEW form \in {"plain", "explicit", "newer"},
         Len(EncodeAs(form, m, v)) < (128 * 128 * 128),
         NEW k \in Nat, k <= Len(EncodeAs(form, m, v))
  PROVE  \/ Decode(m, SubSeq(EncodeAs(form, m, v), 1, k)) = NotRead
         \/ \E i \in 0..Len(m.fields) :
              Decode(m, SubSeq(EncodeAs(form, m, v), 1, k)) = Read(Partly(m, v, i), << >>)
<1> DEFINE b == EncodeAs(form, m, v)
           Z == {Partly(m, v, i) : i \in 0..Len(m.fields)}
<1>1. SoundFields(m) /\ ItemsRead(m)
  BY AllItemsRead DEF Sound
<1>2. Default(m) \in Z /\ v \in Z
  <2>1. Partly(m, v, 0) = Default(m) /\ Partly(m, v, Len(m.fields)) = v
    BY <1>1, PartlyEnds, ValueIs
  <2>2. 0 \in 0..Len(m.fields) /\ Len(m.fields) \in 0..Len(m.fields)
    BY <1>1, FieldsAre
  <2> QED BY <2>1, <2>2
<1>3. b \in Seq(Byte) /\ Brief(b)
  BY AsBytes DEF Brief, Forms
<1>4. /\ form = "plain" => b = Encode(m, v)
      /\ form = "explicit" => b = EncodeAll(m, v)
      /\ form = "newer" => b = Strange \o Encode(m, v) \o Strange
  BY DEF EncodeAs
<1>5. k <= Len(b)
  OBVIOUS
<1> HIDE DEF b
<1>6. Stops(m, Default(m), b, Z)
  <2>1. CASE form = "plain"
    BY <1>3, <1>4, <2>1, HeadsStop
  <2>2. CASE form = "explicit"
    BY <1>3, <1>4, <2>2, HeadsStop
  <2>3. CASE form = "newer"
    <3> HIDE DEF Z
    <3>1. PICK s \in Seq(Byte) : s = Strange
      BY StrangeBytes
    <3>2. PICK e \in Seq(Byte) : e = Encode(m, v)
      BY EncodedIsBytes DEF MessageIsBytes
    <3>3. b = (s \o e) \o s
      BY <1>4, <2>3, <3>1, <3>2
    <3>4. Brief(e)
      <4>1. Len((s \o e) \o s) = Len(s) + Len(e) + Len(s) /\ Len(s) \in Nat /\ Len(e) \in Nat
        OBVIOUS
      <4>2. Len((s \o e) \o s) < (128 * 128 * 128)
        BY <1>3, <3>3 DEF Brief
      <4>3. Len(e) < (128 * 128 * 128)
        BY <4>1, <4>2
      <4> QED BY <4>3 DEF Brief
    <3>5. Moves("message", m, m, Default(m), e, v) /\ Stops(m, Default(m), e, Z)
      BY <1>1, <3>2, <3>4, PlainMoves, HeadsStop DEF Z
    <3>6. ASSUME NEW w, w \in Z PROVE Moves("message", m, m, w, s, w) /\ Stops(m, w, s, Z)
      <4>1. Moves("message", m, m, w, s, w) /\ Stops(m, w, s, {w})
        BY <1>1, <3>1, StrangeMoves, StrangeStops
      <4>2. {w} \subseteq Z
        BY <3>6
      <4> QED BY <4>1, <4>2, StopsAmong
    <3>7. Moves("message", m, m, Default(m), s \o e, v) /\ Stops(m, Default(m), s \o e, Z)
      BY <1>2, <3>5, <3>6, MovesMore, StopsMore
    <3>8. Stops(m, Default(m), (s \o e) \o s, Z)
      BY <1>2, <3>6, <3>7, StopsMore
    <3> QED BY <3>3, <3>8
  <2> QED BY <2>1, <2>2, <2>3
<1>7. Decode(m, SubSeq(b, 1, k)) \in Outcomes(Z)
  <2>1. Decode(m, SubSeq(b, 1, k)) = Steps("message", m, m, Default(m), SubSeq(b, 1, k))
    BY DecodeIsSteps DEF Decode
  <2> HIDE DEF Z
  <2> QED BY <1>5, <1>6, <2>1 DEF Stops
<1> QED BY <1>7 DEF Outcomes, b

-----------------------------------------------------------------------------
(* The head of a message is taken for no other.                             *)

\* As far as its fields have arrived, an envelope has its header or none, and
\* its payload or none.
LEMMA PartEnvelope == ASSUME NEW h, IsHeader(h), NEW payload \in Seq(Byte), NEW k
  PROVE LET z == Partly(ReachMessage, Envelope(h, payload), k)
        IN  /\ z.header = << >> \/ z.header = <<h>>
            /\ z.payload[1] = Zero \/ z.payload[1] = payload
<1>1. PICK hf, pf \in Fields(ReachMessage) :
        /\ hf.name = "header" /\ hf.label = "OPTIONAL"
        /\ pf.name = "payload" /\ pf.type = "BYTES" /\ pf.label = "SINGULAR"
  BY EnvelopeFields
<1>2. SoundFields(ReachMessage) /\ Names(ReachMessage) = {"header", "payload"}
  BY EnvelopeFields DEF Sound
<1> DEFINE e == Envelope(h, payload)
           d == Default(ReachMessage)
           z == Partly(ReachMessage, e, k)
<1>3. e["header"] = <<h>> /\ e["payload"] = <<payload>>
  BY DEF Envelope
<1>4. d["header"] = << >> /\ d["payload"] = <<Zero>>
  <2>1. DefaultOf(pf) = Zero
    BY <1>1 DEF DefaultOf, Fixed
  <2> QED BY <1>1, <1>2, <2>1, DefaultIs
<1> HIDE DEF e, d
<1>5. IsPartly(ReachMessage, e, k, z)
  BY PartlyIs
<1> HIDE DEF z
<1>6. ASSUME NEW n \in {"header", "payload"} PROVE z[n] = e[n] \/ z[n] = d[n]
  BY <1>2, <1>5, Zenon DEF IsPartly, d
<1>7. z["header"] = << >> \/ z["header"] = <<h>>
  BY <1>3, <1>4, <1>6
<1>8. z["payload"] = <<Zero>> \/ z["payload"] = <<payload>>
  BY <1>3, <1>4, <1>6
<1>9. z["payload"][1] = Zero \/ z["payload"][1] = payload
  BY <1>8
<1> QED BY <1>7, <1>9 DEF z, e

\* Without a header nothing is taken: no message has the type 0.
LEMMA NoHeader ==
  ASSUME NEW to, NEW bytes, NEW z, Decode(ReachMessage, bytes) = Read(z, << >>), z.header = << >>, NEW cut
  PROVE  Taken(Table(to), bytes, cut) = Refused(cut)
<1> DEFINE m == Decode(ReachMessage, bytes)
           h == Default(ReachMessageHeader)
           types == TypeIn(Table(to), Zero)
           payload == z.payload[1]
<1>1. m.ok = TRUE /\ m.value = z
  <2>1. Read(z, << >>).ok = TRUE /\ Read(z, << >>).value = z
    BY ReadParts
  <2> QED BY <2>1
<1>2. HeaderOf(z) = h
  BY Zenon DEF HeaderOf
<1>3. h.message_type[1] = Zero
  <2>1. "message_type" \in Names(ReachMessageHeader) /\ SoundFields(ReachMessageHeader)
    BY HeaderFields, EnvelopeFields DEF HeaderNames
  <2>2. PICK f \in Fields(ReachMessageHeader) : f.name = "message_type"
    BY <2>1 DEF Names
  <2>3. f.type = "UINT32" /\ f.label = "SINGULAR"
    BY HeaderFields
  <2>4. DefaultOf(f) = Zero
    BY <2>3 DEF DefaultOf, Fixed
  <2>5. h["message_type"] = <<Zero>>
    BY <2>1, <2>2, <2>3, <2>4, DefaultIs
  <2> HIDE DEF h
  <2> QED BY <2>5
<1>4. types = {}
  <2>1. ASSUME NEW t \in DOMAIN Table(to), Digits(MessageType[t]) = Zero PROVE FALSE
    <3>1. t \in DOMAIN MessageType
      BY TableIs
    <3>2. PICK j \in 1..127 : j = MessageType[t]
      BY <3>1, TablesAreSound
    <3>3. PICK k \in Nat : k = 0
      OBVIOUS
    <3>4. j \in Nat /\ j < (128 * 128 * 128) /\ k < (128 * 128 * 128)
      BY <3>3
    <3>5. j # k
      BY <3>3
    <3>6. AsNat(Digits(j)) = j /\ AsNat(Digits(k)) = k
      BY <3>4, AsNatDigits
    <3>7. Digits(k) = Zero
      BY <3>3, LenDigits
    <3>8. Digits(j) = Zero
      BY <2>1, <3>2
    <3> QED BY <3>5, <3>6, <3>7, <3>8
  <2> QED BY <2>1 DEF TypeIn
<1> HIDE DEF m, h, types, payload
<1>5. Taken(Table(to), bytes, cut) = PayloadOf(Table(to), h, payload, cut)
  BY <1>1, <1>2, Zenon DEF Taken, m, payload
<1>6. PayloadOf(Table(to), h, payload, cut) = TakenAs(types, Table(to), h, payload, cut)
  BY <1>3, Zenon DEF PayloadOf, types
<1> QED BY <1>4, <1>5, <1>6, Zenon DEF TakenAs

\* What the other end may make of a head of the message w: nothing, or a message
\* of its name and header, with its value or with none.
OfAHead(g, w, cut) ==
  \/ g = Refused(cut)
  \/ \E x \in {w.value, Default(Messages[w.name])} :
       g = [to |-> "taken", cut |-> cut, name |-> w.name, header |-> w.header, value |-> x]

LEMMA HeadIsTaken ==
  ASSUME NEW to, NEW w, IsMeant(w), Named(to, w), NEW form \in Forms, NEW bytes, Holds(bytes, TRUE, form, w), NEW cut
  PROVE  OfAHead(Taken(Table(to), bytes, cut), w, cut)
<1>1. PICK payload \in Seq(Byte) : payload = PayloadAs(form, w) /\ Len(payload) <= REACH_MESSAGE_PAYLOAD_MAX
  BY FormsAreBytes DEF Holds
<1>2. PICK whole \in Seq(Byte) : whole = WholeAs(form, w) /\ Len(whole) <= CR_CODED_BUFFER_SIZE
  BY FormsAreBytes DEF Holds
<1>3. PICK k \in Nat : k <= Len(whole) /\ bytes = SubSeq(whole, 1, k)
  BY <1>2 DEF Holds
<1>4. form \in {"plain", "explicit", "newer"}
  BY DEF Forms
<1>5. Len(payload) < (128 * 128 * 128) /\ Len(whole) < (128 * 128 * 128)
  <2>1. REACH_MESSAGE_PAYLOAD_MAX = 208 /\ CR_CODED_BUFFER_SIZE = 244
    BY DEF REACH_MESSAGE_PAYLOAD_MAX, Room_device, CR_CODED_BUFFER_SIZE
  <2> QED BY <1>1, <1>2, <2>1
<1>6. IsHeader(w.header)
  BY DEF IsMeant
<1> DEFINE e == Envelope(w.header, payload)
           n == Len(ReachMessage.fields)
<1>7. Decode(ReachMessage, bytes) = NotRead \/ \E i \in 0..n : Decode(ReachMessage, bytes) = Read(Partly(ReachMessage, e, i), << >>)
  <2>1. IsValue(ReachMessage, e) /\ HasRoom(ReachMessage, e) /\ Sound(ReachMessage)
    BY <1>1, <1>6, EnvelopeIs, EnvelopeFields
  <2>2. Parcels(ReachMessage)
    BY EnvelopeFields DEF Parcels, Delimited
  <2>3. whole = EncodeAs(form, ReachMessage, e)
    BY <1>1, <1>2 DEF WholeAs
  <2>4. Len(EncodeAs(form, ReachMessage, e)) < (128 * 128 * 128) /\ k <= Len(EncodeAs(form, ReachMessage, e))
    BY <1>3, <1>5, <2>3
  <2> HIDE DEF e
  <2>5. \/ Decode(ReachMessage, SubSeq(EncodeAs(form, ReachMessage, e), 1, k)) = NotRead
        \/ \E i \in 0..n : Decode(ReachMessage, SubSeq(EncodeAs(form, ReachMessage, e), 1, k)) =
                             Read(Partly(ReachMessage, e, i), << >>)
    BY <1>4, <2>1, <2>2, <2>4, HeadRead
  <2> QED BY <1>3, <2>3, <2>5
<1>8. ASSUME Decode(ReachMessage, bytes) = NotRead PROVE Taken(Table(to), bytes, cut) = Refused(cut)
  BY <1>8, NotReadParts DEF Taken
<1>9. ASSUME NEW i \in 0..n, Decode(ReachMessage, bytes) = Read(Partly(ReachMessage, e, i), << >>)
      PROVE  \/ Taken(Table(to), bytes, cut) = Refused(cut)
             \/ \E x \in {w.value, Default(Messages[w.name])} :
                  Taken(Table(to), bytes, cut) =
                    [to |-> "taken", cut |-> cut, name |-> w.name, header |-> w.header, value |-> x]
  <2>1. PICK z : z = Partly(ReachMessage, e, i)
    OBVIOUS
  <2>2. /\ z.header = << >> \/ z.header = <<w.header>>
        /\ z.payload[1] = Zero \/ z.payload[1] = payload
    BY <1>6, <2>1, PartEnvelope
  <2>3. Decode(ReachMessage, bytes) = Read(z, << >>)
    BY <1>9, <2>1
  <2> HIDE DEF e
  <2>4. CASE z.header = << >>
    BY <2>3, <2>4, NoHeader
  <2>5. CASE z.header = <<w.header>>
    <3> DEFINE p == Decode(Messages[w.name], z.payload[1])
    <3>1. HeaderOf(z) = w.header
      <4>1. PICK s : s = <<w.header>>
        OBVIOUS
      <4>2. s # << >> /\ s[1] = w.header
        BY <4>1
      <4>3. z.header = s
        BY <2>5, <4>1
      <4> QED BY <4>2, <4>3, Zenon DEF HeaderOf
    <3>2. Taken(Table(to), bytes, cut) =
            IF p.ok THEN [to |-> "taken", cut |-> cut, name |-> w.name, header |-> w.header, value |-> p.value]
                    ELSE Refused(cut)
      BY <2>3, <3>1, TakenOf
    <3>3. IsValue(Messages[w.name], w.value) /\ Sound(Messages[w.name])
      BY DescriptorsAreSound DEF IsMeant, Meaningful
    <3>4. p.ok => p.value = w.value \/ p.value = Default(Messages[w.name])
      <4>1. CASE z.payload[1] = payload
        <5>1. payload = EncodeAs(form, Messages[w.name], w.value)
          BY <1>1 DEF PayloadAs
        <5>2. Len(EncodeAs(form, Messages[w.name], w.value)) < (128 * 128 * 128)
          BY <1>5, <5>1
        <5>3. Decode(Messages[w.name], EncodeAs(form, Messages[w.name], w.value)) =
                IF HasRoom(Messages[w.name], w.value) THEN Read(w.value, << >>) ELSE NotRead
          BY <1>4, <3>3, <5>2, RoundTrip
        <5>4. p = IF HasRoom(Messages[w.name], w.value) THEN Read(w.value, << >>) ELSE NotRead
          BY <4>1, <5>1, <5>3, Zenon
        <5> HIDE DEF p
        <5> QED BY <5>4, IfRead
      <4>2. CASE z.payload[1] = Zero
        <5>1. Moves("message", Messages[w.name], Messages[w.name], Default(Messages[w.name]), Zero, Default(Messages[w.name]))
          BY NothingMoves DEF Zero
        <5>2. p = Read(Default(Messages[w.name]), << >>)
          BY <3>3, <4>2, <5>1, DecodeMoves DEF Sound
        <5> HIDE DEF p
        <5> QED BY <5>2, ReadParts
      <4> QED BY <2>2, <4>1, <4>2
    <3> HIDE DEF p
    <3>5. CASE p.ok
      BY <3>2, <3>4, <3>5, Zenon
    <3>6. CASE ~p.ok
      BY <3>2, <3>6, Zenon
    <3> QED BY <3>5, <3>6
  <2> QED BY <2>2, <2>4, <2>5
<1> QED BY <1>7, <1>8, <1>9 DEF OfAHead

\* Whatever head of a message the link carries, the other end refuses it or takes
\* a message of the same name, with the header that was meant, and with the value
\* that was meant or none at all: never with another value.
THEOREM AlwaysNoOther == Spec => []CutIsNoOther
<1> DEFINE Same(g, w) ==
      g.to = "taken" => g.cut = FALSE \/ (g.header = w.header /\ (g.value = w.value \/ g.value = Default(Messages[g.name])))
<1>1. Init => Same(got, meant)
  <2>1. "nobody" # "taken"
    OBVIOUS
  <2> QED BY <2>1, SomethingIs DEF Init
<1>2. PathInv /\ Same(got, meant) /\ [Next]_vars => Same(got, meant)'
  <2> SUFFICES ASSUME PathInv, Same(got, meant), [Next]_vars PROVE Same(got', meant')
    OBVIOUS
  <2>1. CASE Arrive
    <3>1. air # Nothing /\ got' = Taken(Table(air.to), air.bytes, air.cut) /\ meant' = meant
      BY <2>1 DEF Arrive, Table
    <3>2. IsMeant(meant) /\ Named(air.to, meant) /\ IsMessage(air)
      BY <3>1 DEF PathInv, Phases, OnItsWay, Carries
    <3>3. PICK form \in Forms : Holds(air.bytes, air.cut, form, meant)
      BY <3>1 DEF PathInv, OnItsWay, Carries
    <3>4. CASE air.cut = FALSE
      BY <3>1, <3>4, TakenCut
    <3>5. CASE air.cut = TRUE
      <4>0. PICK to, bytes, cut, w : to = air.to /\ bytes = air.bytes /\ cut = air.cut /\ w = meant
        OBVIOUS
      <4>1. OfAHead(got', w, cut)
        <5>1. IsMeant(w) /\ Named(to, w) /\ form \in Forms /\ Holds(bytes, TRUE, form, w)
          BY <3>2, <3>3, <3>5, <4>0
        <5>2. OfAHead(Taken(Table(to), bytes, cut), w, cut)
          BY <5>1, HeadIsTaken
        <5>3. got' = Taken(Table(to), bytes, cut)
          BY <3>1, <4>0
        <5> QED BY <5>2, <5>3
      <4>2. CASE got' = Refused(cut)
        BY <4>2 DEF Refused
      <4>3. ASSUME NEW x \in {w.value, Default(Messages[w.name])},
                   got' = [to |-> "taken", cut |-> cut, name |-> w.name, header |-> w.header, value |-> x]
            PROVE  Same(got', meant')
        <5>1. got'.name = meant.name /\ got'.header = meant.header /\ got'.value = x
          BY <4>0, <4>3
        <5>2. x = meant.value \/ x = Default(Messages[meant.name])
          BY <4>0, <4>3
        <5> QED BY <3>1, <5>1, <5>2
      <4> QED BY <4>1, <4>2, <4>3 DEF OfAHead
    <3> QED BY <3>2, <3>4, <3>5, SomethingIs
  <2>2. CASE got' = Nothing
    <3>1. got'.to = "nobody" /\ "nobody" # "taken"
      BY <2>2, SomethingIs
    <3> QED BY <3>1
  <2>3. CASE got' = got /\ meant' = meant
    BY <2>3
  <2>4. Arrive \/ got' = Nothing \/ (got' = got /\ meant' = meant)
    BY DEF Next, vars, Ask, Answer, crcb_cli_respond, crcb_notify_error, crcb_notify_param, Notify, Give, Cut, Another,
           PathInv, Phases
  <2> QED BY <2>1, <2>2, <2>3, <2>4
<1>3. Same(got, meant) => CutIsNoOther
  BY DEF CutIsNoOther
<1> HIDE DEF Same
<1> QED BY <1>1, <1>2, <1>3, AlwaysPath, PTL DEF Spec
=============================================================================
