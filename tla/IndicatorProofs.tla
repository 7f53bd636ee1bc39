-------------------------- MODULE IndicatorProofs --------------------------
(***************************************************************************)
(* What the indicators of the charts promise (Indicators), for any prices, *)
(* any period and any number of bars.                                      *)
(***************************************************************************)
EXTENDS Indicators, Induction

-----------------------------------------------------------------------------
(* Fractions *)

Fractions == Int \X (Nat \ {0})

\* Products on both sides keep an order, and a positive factor can be cancelled.
LEMMA TimesKeepsOrder ==
  ASSUME NEW a \in Int, NEW b \in Int, NEW c \in Nat, a <= b
  PROVE  a * c <= b * c
  <1>1. (b - a) * c >= 0
    OBVIOUS
  <1>2. (b - a) * c = b * c - a * c
    OBVIOUS
  <1> QED BY <1>1, <1>2

\* A positive factor can be cancelled from an order.
LEMMA CancelFactor ==
  ASSUME NEW a \in Int, NEW b \in Int, NEW c \in Nat \ {0}, a * c <= b * c
  PROVE  a <= b
  <1> SUFFICES ASSUME b + 1 <= a PROVE FALSE
    OBVIOUS
  <1>1. (b + 1) * c <= a * c
    BY TimesKeepsOrder
  <1>2. (b + 1) * c = b * c + c
    OBVIOUS
  <1> QED BY <1>1, <1>2

\* The recursion of gcd is the definition of a function.
GcdOn(F, D) ==
  F = [ab \in D |-> IF ab[2] = 0 THEN ab[1] ELSE F[<<ab[2], ab[1] % ab[2]>>]]

\* There is such a function: it is built up to each bound of the second argument, which falls.
LEMMA GcdExists == \E F : GcdOn(F, Nat \X Nat)
<1> DEFINE D(n) == Nat \X (0 .. n)
           N == {n \in Nat : \E F : GcdOn(F, D(n))}
<1>1. 0 \in N
  <2>1. GcdOn([ab \in D(0) |-> ab[1]], D(0))
    BY DEF GcdOn
  <2> QED BY <2>1
<1>2. ASSUME NEW n \in Nat, n \in N PROVE n + 1 \in N
  <2>1. PICK F : GcdOn(F, D(n))
    BY <1>2
  <2> DEFINE G == [ab \in D(n + 1) |->
                     IF ab[2] = 0 THEN ab[1] ELSE F[<<ab[2], ab[1] % ab[2]>>]]
  <2>2. \A a \in Nat, b \in 1 .. n + 1 : <<b, a % b>> \in D(n) /\ <<b, a % b>> \in D(n + 1)
    OBVIOUS
  <2>3. \A x \in D(n) : x \in D(n + 1) /\ F[x] = G[x]
    BY <2>1 DEF GcdOn
  <2>4. \A ab \in D(n + 1) :
          G[ab] = IF ab[2] = 0 THEN ab[1] ELSE G[<<ab[2], ab[1] % ab[2]>>]
    <3> TAKE ab \in D(n + 1)
    <3>1. PICK a \in Nat, b \in 0 .. n + 1 : ab = <<a, b>>
      OBVIOUS
    <3>2. CASE b = 0
      BY <3>1, <3>2
    <3>3. CASE b # 0
      <4>1. <<b, a % b>> \in D(n)
        BY <2>2, <3>3
      <4>2. G[ab] = F[<<b, a % b>>]
        BY <3>1, <3>3
      <4>3. F[<<b, a % b>>] = G[<<b, a % b>>]
        BY <2>3, <4>1
      <4> HIDE DEF G, D
      <4> QED BY <3>1, <3>3, <4>2, <4>3
    <3> QED BY <3>2, <3>3
  <2>5. GcdOn(G, D(n + 1))
    <3> DEFINE H == [ab \in D(n + 1) |->
                       IF ab[2] = 0 THEN ab[1] ELSE G[<<ab[2], ab[1] % ab[2]>>]]
    <3>1. \A ab \in D(n + 1) : G[ab] = H[ab]
      BY <2>4
    <3> QED BY <3>1 DEF GcdOn
  <2> QED BY <2>5
<1>3. Nat \subseteq N
  <2> HIDE DEF N
  <2> QED BY <1>1, <1>2, NatInductionSet
<1>4. PICK F : \A n \in Nat : GcdOn(F[n], D(n))
  <2> DEFINE F == [n \in Nat |-> CHOOSE f : GcdOn(f, D(n))]
  <2>1. \A n \in Nat : F[n] = CHOOSE f : GcdOn(f, D(n))
    OBVIOUS
  <2> HIDE DEF F
  <2>2. \A n \in Nat : GcdOn(F[n], D(n))
    BY <1>3, <2>1
  <2> QED BY <2>2
<1> DEFINE G == [ab \in Nat \X Nat |-> F[ab[2]][ab]]
<1>5. \A m \in Nat : \A a \in Nat, b \in Nat :
        b <= m => F[m][<<a, b>>] = IF b = 0 THEN a ELSE F[m][<<b, a % b>>]
  <2> TAKE m \in Nat
  <2>1. PICK f : f = F[m]
    OBVIOUS
  <2>2. f = [ab \in D(m) |-> IF ab[2] = 0 THEN ab[1] ELSE f[<<ab[2], ab[1] % ab[2]>>]]
    BY <1>4, <2>1 DEF GcdOn
  <2>3. \A a \in Nat, b \in Nat : b <= m => f[<<a, b>>] = IF b = 0 THEN a ELSE f[<<b, a % b>>]
    BY <2>2
  <2> QED BY <2>1, <2>3
\* The functions for different bounds agree where both are defined.
<1>6. \A k \in Nat : \A m, n, a, b \in Nat :
        b <= k /\ b <= m /\ b <= n => F[m][<<a, b>>] = F[n][<<a, b>>]
  <2> DEFINE K == {k \in Nat : \A m, n, a, b \in Nat :
                     b <= k /\ b <= m /\ b <= n => F[m][<<a, b>>] = F[n][<<a, b>>]}
  <2>1. 0 \in K
    <3> SUFFICES ASSUME NEW m \in Nat, NEW n \in Nat, NEW a \in Nat, NEW b \in Nat, b <= 0
                 PROVE  F[m][<<a, b>>] = F[n][<<a, b>>]
      OBVIOUS
    <3>1. b = 0 /\ b <= m /\ b <= n
      OBVIOUS
    <3>2. F[m][<<a, b>>] = a /\ F[n][<<a, b>>] = a
      BY <1>5, <3>1
    <3> QED BY <3>2
  <2>2. ASSUME NEW k \in Nat, k \in K PROVE k + 1 \in K
    <3> SUFFICES ASSUME NEW m \in Nat, NEW n \in Nat, NEW a \in Nat, NEW b \in Nat,
                        b <= k + 1, b <= m, b <= n
                 PROVE  F[m][<<a, b>>] = F[n][<<a, b>>]
      OBVIOUS
    <3>1. CASE b = 0
      <4>1. F[m][<<a, b>>] = a /\ F[n][<<a, b>>] = a
        BY <1>5, <3>1
      <4> QED BY <4>1
    <3>2. CASE b # 0
      <4>1. PICK r \in Nat : r = a % b /\ r <= k /\ r <= m /\ r <= n
        BY <3>2
      <4>2. F[m][<<b, r>>] = F[n][<<b, r>>]
        BY <2>2, <4>1
      <4>3. F[m][<<a, b>>] = F[m][<<b, r>>] /\ F[n][<<a, b>>] = F[n][<<b, r>>]
        BY <1>5, <3>2, <4>1
      <4> QED BY <4>2, <4>3
    <3> QED BY <3>1, <3>2
  <2>3. Nat \subseteq K
    <3> HIDE DEF K
    <3> QED BY <2>1, <2>2, NatInductionSet
  <2> QED BY <2>3
<1>7. \A ab \in Nat \X Nat : G[ab] = IF ab[2] = 0 THEN ab[1] ELSE G[<<ab[2], ab[1] % ab[2]>>]
  <2> TAKE ab \in Nat \X Nat
  <2>1. PICK a \in Nat, b \in Nat : ab = <<a, b>>
    OBVIOUS
  <2>2. G[ab] = F[b][<<a, b>>]
    BY <2>1
  <2>3. CASE b = 0
    <3>1. F[b][<<a, b>>] = a
      <4>1. b <= b
        OBVIOUS
      <4> QED BY <1>5, <2>3, <4>1
    <3>2. ab[1] = a /\ ab[2] = b
      BY <2>1
    <3> HIDE DEF G
    <3> QED BY <2>2, <2>3, <3>1, <3>2
  <2>4. CASE b # 0
    <3>1. PICK r \in Nat : r = a % b /\ r <= b
      BY <2>4
    <3>2. F[b][<<a, b>>] = F[b][<<b, r>>]
      BY <1>5, <2>4, <3>1
    <3>3. F[b][<<b, r>>] = F[r][<<b, r>>]
      BY <1>6, <3>1
    <3>4. G[<<b, r>>] = F[r][<<b, r>>]
      BY <3>1
    <3>5. ab[1] = a /\ ab[2] = b
      BY <2>1
    <3> HIDE DEF G
    <3> QED BY <2>2, <2>4, <3>1, <3>2, <3>3, <3>4, <3>5
  <2> QED BY <2>3, <2>4
<1>8. GcdOn(G, Nat \X Nat)
  <2> DEFINE H == [ab \in Nat \X Nat |->
                     IF ab[2] = 0 THEN ab[1] ELSE G[<<ab[2], ab[1] % ab[2]>>]]
  <2>1. \A ab \in Nat \X Nat : G[ab] = H[ab]
    BY <1>7
  <2> QED BY <2>1 DEF GcdOn
<1> QED BY <1>8

\* g divides n, and k is the quotient.
LEMMA QuotientIs ==
  ASSUME NEW g \in Nat \ {0}, NEW k \in Int
  PROVE  (g * k) \div g = k
  <1>1. PICK q \in Int : q = (g * k) \div g /\ g * q <= g * k /\ g * k < g * q + g
    OBVIOUS
  <1>2. g * (k - q) >= 0 /\ g * (k - q) < g
    BY <1>1
  <1>3. k - q <= 0
    <2> SUFFICES ASSUME k - q >= 1 PROVE FALSE
      OBVIOUS
    <2>1. 1 * g <= (k - q) * g
      BY TimesKeepsOrder
    <2> QED BY <1>2, <2>1
  <1>4. k - q >= 0
    <2> SUFFICES ASSUME k - q <= -1 PROVE FALSE
      OBVIOUS
    <2>1. (k - q) * g <= (-1) * g
      BY TimesKeepsOrder
    <2> QED BY <1>2, <2>1
  <1> QED BY <1>1, <1>3, <1>4

\* The remainder is what is left of the quotient.
LEMMA RemainderIs ==
  ASSUME NEW a \in Nat, NEW b \in Nat \ {0}
  PROVE  \E q \in Nat : a = b * q + (a % b) /\ a % b \in Nat /\ a % b < b
<1>1. PICK q \in Int : q = a \div b
  OBVIOUS
<1>2. a = b * q + (a % b) /\ a % b \in Nat /\ a % b < b
  BY <1>1
<1>3. q >= 0
  <2> SUFFICES ASSUME q <= -1 PROVE FALSE
    BY <1>1
  <2>1. q * b <= (-1) * b
    BY TimesKeepsOrder
  <2> QED BY <1>2, <2>1
<1>4. q \in Nat
  BY <1>3
<1> WITNESS q \in Nat
<1> QED BY <1>2

\* So Gcd is one, and Gcd[a, b] is what gcd's recursion says.
LEMMA GcdValue ==
  \A a, b \in Nat : Gcd[<<a, b>>] = IF b = 0 THEN a ELSE Gcd[<<b, a % b>>]
<1>1. Gcd = [ab \in Nat \X Nat |-> IF ab[2] = 0 THEN ab[1] ELSE Gcd[<<ab[2], ab[1] % ab[2]>>]]
  <2>1. PICK F : GcdOn(F, Nat \X Nat)
    BY GcdExists
  <2>2. Gcd = CHOOSE fn : GcdOn(fn, Nat \X Nat)
    BY DEF Gcd, GcdOn
  <2>3. GcdOn(Gcd, Nat \X Nat)
    BY <2>1, <2>2
  <2> QED BY <2>3 DEF GcdOn
<1> QED BY <1>1

\* gcd divides both, and is positive unless both are 0.
Divides(g, n) == \E k \in Nat : n = g * k

\* By induction on the second argument: what divides b and a % b divides a.
LEMMA GcdDivides ==
  ASSUME NEW a \in Nat, NEW b \in Nat, a # 0 \/ b # 0
  PROVE  /\ Gcd[<<a, b>>] \in Nat \ {0}
         /\ Divides(Gcd[<<a, b>>], a) /\ Divides(Gcd[<<a, b>>], b)
<1> DEFINE Good(x, y) == /\ Gcd[<<x, y>>] \in Nat
                         /\ x # 0 \/ y # 0 => Gcd[<<x, y>>] # 0
                         /\ Divides(Gcd[<<x, y>>], x) /\ Divides(Gcd[<<x, y>>], y)
           K == {k \in Nat : \A x, y \in Nat : y <= k => Good(x, y)}
<1>1. \A x \in Nat : Good(x, 0)
  <2> TAKE x \in Nat
  <2>1. Gcd[<<x, 0>>] = x
    BY GcdValue
  <2>2. x = x * 1 /\ 0 = x * 0
    OBVIOUS
  <2> QED BY <2>1, <2>2 DEF Divides
<1>2. ASSUME NEW k \in Nat, k \in K PROVE k + 1 \in K
  <2> SUFFICES ASSUME NEW x \in Nat, NEW y \in Nat, y <= k + 1, y # 0 PROVE Good(x, y)
    BY <1>1
  <2>1. PICK q \in Nat : x = y * q + (x % y) /\ x % y \in Nat /\ x % y < y
    BY RemainderIs
  <2>2. PICK r \in Nat : r = x % y
    BY <2>1
  <2>3. Good(y, r)
    <3>1. r <= k
      BY <2>1, <2>2
    <3> HIDE DEF Good
    <3> QED BY <1>2, <3>1
  <2>4. PICK g \in Nat : g = Gcd[<<y, r>>] /\ g = Gcd[<<x, y>>] /\ g # 0
    BY <2>2, <2>3, GcdValue
  <2>5. PICK i \in Nat : y = g * i
    BY <2>3, <2>4 DEF Divides
  <2>6. PICK j \in Nat : r = g * j
    BY <2>3, <2>4 DEF Divides
  <2>7. x = g * (i * q + j) /\ i * q + j \in Nat
    <3>1. x = (g * i) * q + g * j
      BY <2>1, <2>2, <2>5, <2>6
    <3>2. (g * i) * q + g * j = g * (i * q + j)
      OBVIOUS
    <3> QED BY <3>1, <3>2
  <2> QED BY <2>4, <2>5, <2>7 DEF Divides
<1>3. 0 \in K
  BY <1>1
<1>4. Nat \subseteq K
  <2> HIDE DEF K
  <2> QED BY <1>2, <1>3, NatInductionSet
<1>5. Good(a, b)
  <2> HIDE DEF Good
  <2> QED BY <1>4
<1> QED BY <1>5

\* A fraction is reduced by a factor of both its parts.
LEMMA FractionValue ==
  ASSUME NEW num \in Int, NEW den \in Nat \ {0}
  PROVE  \E g \in Nat \ {0}, n \in Int, d \in Nat \ {0} :
           Fraction(num, den) = <<n, d>> /\ num = g * n /\ den = g * d
<1> DEFINE m == Abs(num)
<1>1. m \in Nat /\ (m = num \/ m = -num)
  BY DEF Abs
<1>2. PICK g \in Nat \ {0} : g = Gcd[<<m, den>>] /\ Divides(g, m) /\ Divides(g, den)
  BY <1>1, GcdDivides
<1>3. PICK d \in Nat : den = g * d
  BY <1>2 DEF Divides
<1>4. PICK k \in Int : num = g * k
  <2>1. PICK j \in Nat : m = g * j
    BY <1>2 DEF Divides
  <2>2. -(g * j) = g * (-j)
    OBVIOUS
  <2>3. num = g * j \/ num = g * (-j)
    BY <1>1, <2>1, <2>2
  <2> QED BY <2>3
<1>5. d \in Nat \ {0}
  BY <1>3
<1>6. num \div g = k /\ den \div g = d
  BY <1>3, <1>4, QuotientIs
<1>7. Fraction(num, den) = <<k, d>>
  BY <1>2, <1>6 DEF Fraction
<1> HIDE DEF m
<1> WITNESS g \in Nat \ {0}, k \in Int, d \in Nat \ {0}
<1> QED BY <1>3, <1>4, <1>7

\* Plus adds: the equation is that of fractions, multiplied by all denominators.
LEMMA PlusValue ==
  ASSUME NEW a \in Fractions, NEW b \in Fractions
  PROVE  /\ Plus(a, b) \in Fractions
         /\ Plus(a, b)[1] * (a[2] * b[2]) = (a[1] * b[2] + b[1] * a[2]) * Plus(a, b)[2]
<1>1. PICK a1 \in Int, a2 \in Nat \ {0} : a = <<a1, a2>>
  BY DEF Fractions
<1>2. PICK b1 \in Int, b2 \in Nat \ {0} : b = <<b1, b2>>
  BY DEF Fractions
<1>3. PICK g \in Nat \ {0} : g = Gcd[<<a2, b2>>] /\ Divides(g, a2) /\ Divides(g, b2)
  BY GcdDivides
<1>4. PICK x \in Nat : a2 = g * x
  BY <1>3 DEF Divides
<1>5. PICK y \in Nat : b2 = g * y
  BY <1>3 DEF Divides
<1>6. x # 0 /\ y # 0
  BY <1>4, <1>5
<1>7. a2 \div g = x /\ b2 \div g = y
  BY <1>4, <1>5, QuotientIs
<1>8. PICK num \in Int, den \in Nat \ {0} : num = a1 * y + b1 * x /\ den = x * b2
  <2>1. x * b2 # 0 /\ x * b2 \in Nat
    BY <1>6
  <2> QED BY <2>1
<1>9. Plus(a, b) = Fraction(num, den)
  BY <1>1, <1>2, <1>3, <1>7, <1>8 DEF Plus
<1>10. PICK h \in Nat \ {0}, c1 \in Int, c2 \in Nat \ {0} :
          Fraction(num, den) = <<c1, c2>> /\ num = h * c1 /\ den = h * c2
  BY FractionValue
<1>11. Plus(a, b) = <<c1, c2>> /\ num = h * c1 /\ den = h * c2
  BY <1>9, <1>10
<1>12. c1 * (a2 * b2) = (a1 * b2 + b1 * a2) * c2
  <2>1. c1 * (a2 * b2) = g * c1 * (x * b2)
    BY <1>4
  <2>2. g * c1 * (x * b2) = g * h * c1 * c2
    BY <1>8, <1>11
  <2>3. a1 * b2 + b1 * a2 = g * (a1 * y + b1 * x)
    BY <1>4, <1>5
  <2>4. a1 * b2 + b1 * a2 = g * h * c1
    BY <1>8, <1>11, <2>3
  <2> QED BY <2>1, <2>2, <2>4
<1> QED BY <1>1, <1>2, <1>11, <1>12 DEF Fractions

\* A fraction that is n / d lies between the bounds of n / d.
LEMMA ValueWithin ==
  ASSUME NEW c \in Fractions, NEW n \in Int, NEW d \in Nat \ {0}, NEW lo \in Int, NEW hi \in Int,
         c[1] * d = n * c[2], lo * d <= n, n <= hi * d
  PROVE  Within(c, lo, hi)
<1>1. PICK c1 \in Int, c2 \in Nat \ {0} : c = <<c1, c2>>
  BY DEF Fractions
<1>2. (lo * d) * c2 <= n * c2 /\ n * c2 <= (hi * d) * c2
  BY TimesKeepsOrder
<1>3. (lo * d) * c2 = (lo * c2) * d /\ (hi * d) * c2 = (hi * c2) * d
  OBVIOUS
<1>4. c1 * d = n * c2
  BY <1>1
<1>5. lo * c2 <= c1 /\ c1 <= hi * c2
  BY <1>2, <1>3, <1>4, CancelFactor
<1> QED BY <1>1, <1>5 DEF Within

\* Bounds of two fractions add up.
LEMMA PlusWithin ==
  ASSUME NEW a \in Fractions, NEW b \in Fractions,
         NEW la \in Int, NEW ha \in Int, NEW lb \in Int, NEW hb \in Int,
         Within(a, la, ha), Within(b, lb, hb)
  PROVE  Within(Plus(a, b), la + lb, ha + hb)
<1>1. PICK a1 \in Int, a2 \in Nat \ {0} : a = <<a1, a2>>
  BY DEF Fractions
<1>2. PICK b1 \in Int, b2 \in Nat \ {0} : b = <<b1, b2>>
  BY DEF Fractions
<1>3. la * a2 <= a1 /\ a1 <= ha * a2 /\ lb * b2 <= b1 /\ b1 <= hb * b2
  BY <1>1, <1>2 DEF Within
<1>4. /\ (la * a2) * b2 <= a1 * b2 /\ a1 * b2 <= (ha * a2) * b2
      /\ (lb * b2) * a2 <= b1 * a2 /\ b1 * a2 <= (hb * b2) * a2
  BY <1>3, TimesKeepsOrder
<1>5. PICK d \in Nat \ {0} : d = a2 * b2
  OBVIOUS
<1>6. PICK n \in Int : n = a1 * b2 + b1 * a2
  OBVIOUS
<1>7. (la + lb) * d = (la * a2) * b2 + (lb * b2) * a2
  BY <1>5
<1>8. (ha + hb) * d = (ha * a2) * b2 + (hb * b2) * a2
  BY <1>5
<1>9. (la + lb) * d <= n /\ n <= (ha + hb) * d
  BY <1>4, <1>6, <1>7, <1>8
<1>10. Plus(a, b) \in Fractions /\ Plus(a, b)[1] * d = n * Plus(a, b)[2]
  BY <1>1, <1>2, <1>5, <1>6, PlusValue
<1> QED BY <1>9, <1>10, ValueWithin

\* A weighted mean of two fractions lies between their bounds.
LEMMA BlendWithin ==
  ASSUME NEW a \in Fractions, NEW b \in Fractions, NEW u \in Nat, NEW w \in Nat, u + w # 0,
         NEW lo \in Int, NEW hi \in Int, Within(a, lo, hi), Within(b, lo, hi)
  PROVE  LET x == <<u * a[1], (u + w) * a[2]>>
             y == <<w * b[1], (u + w) * b[2]>>
         IN  x \in Fractions /\ y \in Fractions /\ Within(Plus(x, y), lo, hi)
<1>1. PICK a1 \in Int, a2 \in Nat \ {0} : a = <<a1, a2>>
  BY DEF Fractions
<1>2. PICK b1 \in Int, b2 \in Nat \ {0} : b = <<b1, b2>>
  BY DEF Fractions
<1>3. PICK k \in Nat \ {0} : k = u + w
  OBVIOUS
<1>4. u * a1 \in Int /\ k * a2 \in Nat \ {0} /\ w * b1 \in Int /\ k * b2 \in Nat \ {0}
  BY <1>3
<1>5. PICK x \in Fractions, y \in Fractions : x = <<u * a1, k * a2>> /\ y = <<w * b1, k * b2>>
  BY <1>4 DEF Fractions
<1>6. lo * a2 <= a1 /\ a1 <= hi * a2 /\ lo * b2 <= b1 /\ b1 <= hi * b2
  BY <1>1, <1>2 DEF Within
<1>7. PICK d \in Nat \ {0} : d = (k * a2) * (k * b2)
  BY <1>4
<1>8. PICK n \in Int : n = (u * a1) * (k * b2) + (w * b1) * (k * a2)
  OBVIOUS
<1>9. u * (k * b2) \in Nat /\ w * (k * a2) \in Nat
  OBVIOUS
<1>10. /\ (lo * a2) * (u * (k * b2)) <= a1 * (u * (k * b2))
       /\ a1 * (u * (k * b2)) <= (hi * a2) * (u * (k * b2))
  BY <1>6, <1>9, TimesKeepsOrder
<1>11. /\ (lo * b2) * (w * (k * a2)) <= b1 * (w * (k * a2))
       /\ b1 * (w * (k * a2)) <= (hi * b2) * (w * (k * a2))
  BY <1>6, <1>9, TimesKeepsOrder
<1>12. n = a1 * (u * (k * b2)) + b1 * (w * (k * a2))
  BY <1>8
<1>13. \A z \in Int : z * d = (z * a2) * (u * (k * b2)) + (z * b2) * (w * (k * a2))
  <2> TAKE z \in Int
  <2>1. (z * a2) * (u * (k * b2)) + (z * b2) * (w * (k * a2)) = z * a2 * b2 * k * (u + w)
    OBVIOUS
  <2>2. z * a2 * b2 * k * (u + w) = z * d
    BY <1>3, <1>7
  <2> QED BY <2>1, <2>2
<1>14. lo * d <= n /\ n <= hi * d
  <2>1. lo * d = (lo * a2) * (u * (k * b2)) + (lo * b2) * (w * (k * a2))
    BY <1>13
  <2>2. hi * d = (hi * a2) * (u * (k * b2)) + (hi * b2) * (w * (k * a2))
    BY <1>13
  <2> QED BY <1>10, <1>11, <1>12, <2>1, <2>2
<1>15. Plus(x, y) \in Fractions /\ Plus(x, y)[1] * d = n * Plus(x, y)[2]
  BY <1>5, <1>7, <1>8, PlusValue
<1>16. Within(Plus(x, y), lo, hi)
  BY <1>14, <1>15, ValueWithin
<1> QED BY <1>1, <1>2, <1>3, <1>5, <1>16

-----------------------------------------------------------------------------
(* Recursion along a list *)

\* Induction over an interval of integers.
LEMMA IntervalInduction ==
  ASSUME NEW lo \in Int, NEW hi \in Int, NEW T,
         lo \in T, \A i \in lo + 1 .. hi : i - 1 \in T => i \in T
  PROVE  lo .. hi \subseteq T
<1> DEFINE K == {k \in Nat : lo + k <= hi => lo + k \in T}
<1>1. 0 \in K
  OBVIOUS
<1>2. ASSUME NEW k \in Nat, k \in K PROVE k + 1 \in K
  <2> SUFFICES ASSUME lo + (k + 1) <= hi PROVE lo + (k + 1) \in T
    OBVIOUS
  <2>1. PICK i \in Int : i = lo + (k + 1)
    OBVIOUS
  <2>2. i \in lo + 1 .. hi /\ i - 1 = lo + k
    BY <2>1
  <2>3. i - 1 \in T
    BY <1>2, <2>2
  <2> QED BY <2>1, <2>2, <2>3
<1>3. Nat \subseteq K
  <2> HIDE DEF K
  <2> QED BY <1>1, <1>2, NatInductionSet
<1> SUFFICES ASSUME NEW i \in lo .. hi PROVE i \in T
  OBVIOUS
<1>4. PICK k \in Nat : i = lo + k
  <2>1. i - lo \in Nat /\ i = lo + (i - lo)
    OBVIOUS
  <2> QED BY <2>1
<1> QED BY <1>3, <1>4

\* f starts with a and goes on by the step g.
Recursion(f, a, g, lo, hi) ==
  f = [i \in lo .. hi |-> IF i = lo THEN a ELSE g[<<f[i - 1], i>>]]

\* A list is defined by its first value and a step that leads from each to the next.
LEMMA RecursionExists ==
  ASSUME NEW lo \in Int, NEW hi \in Int, NEW S, NEW a \in S,
         NEW g \in [S \X (lo + 1 .. hi) -> S]
  PROVE  \E f \in [lo .. hi -> S] : Recursion(f, a, g, lo, hi)
<1> DEFINE T == {m \in Int : \E f \in [lo .. m -> S] : Recursion(f, a, g, lo, m)}
<1>1. lo \in T
  <2> DEFINE f == [i \in lo .. lo |-> a]
  <2>1. f \in [lo .. lo -> S]
    OBVIOUS
  <2>2. Recursion(f, a, g, lo, lo)
    BY DEF Recursion
  <2> QED BY <2>1, <2>2
<1>2. ASSUME NEW m \in lo + 1 .. hi, m - 1 \in T PROVE m \in T
  <2>1. PICK f \in [lo .. m - 1 -> S] : Recursion(f, a, g, lo, m - 1)
    BY <1>2
  <2> DEFINE h == [i \in lo .. m |-> IF i < m THEN f[i] ELSE g[<<f[m - 1], m>>]]
  <2>2. m - 1 \in lo .. m - 1 /\ f[m - 1] \in S
    OBVIOUS
  <2>3. g[<<f[m - 1], m>>] \in S
    BY <2>2
  <2>4. h \in [lo .. m -> S]
    BY <2>3
  <2>5. \A i \in lo .. m - 1 : h[i] = f[i]
    OBVIOUS
  <2>6. h[m] = g[<<f[m - 1], m>>]
    OBVIOUS
  <2>7. \A i \in lo .. m - 1 : f[i] = IF i = lo THEN a ELSE g[<<f[i - 1], i>>]
    BY <2>1 DEF Recursion
  <2> HIDE DEF h
  <2>8. ASSUME NEW i \in lo .. m
        PROVE  h[i] = IF i = lo THEN a ELSE g[<<h[i - 1], i>>]
    <3>1. CASE i = m
      <4>1. h[m - 1] = f[m - 1] /\ m # lo
        BY <2>2, <2>5
      <4> QED BY <2>6, <3>1, <4>1
    <3>2. CASE i = lo
      <4>1. lo \in lo .. m - 1
        OBVIOUS
      <4>2. h[lo] = f[lo] /\ f[lo] = a
        BY <2>5, <2>7, <4>1
      <4> QED BY <3>2, <4>2
    <3>3. CASE i # m /\ i # lo
      <4>1. i \in lo .. m - 1 /\ i - 1 \in lo .. m - 1
        BY <3>3
      <4> QED BY <2>5, <2>7, <3>3, <4>1
    <3> QED BY <3>1, <3>2, <3>3
  <2>9. Recursion(h, a, g, lo, m)
    <3> DEFINE H == [i \in lo .. m |-> IF i = lo THEN a ELSE g[<<h[i - 1], i>>]]
    <3>1. \A i \in lo .. m : h[i] = H[i]
      BY <2>8
    <3> QED BY <2>4, <3>1 DEF Recursion
  <2> QED BY <2>4, <2>9
<1>3. lo .. hi \subseteq T
  <2> HIDE DEF T
  <2> QED BY <1>1, <1>2, IntervalInduction
<1>4. CASE lo <= hi
  <2>1. hi \in T
    BY <1>3, <1>4
  <2> QED BY <2>1
<1>5. CASE ~(lo <= hi)
  <2>1. lo .. hi = {}
    BY <1>5
  <2> DEFINE f == [i \in lo .. hi |-> a]
  <2>2. f \in [lo .. hi -> S]
    OBVIOUS
  <2>3. Recursion(f, a, g, lo, hi)
    BY <2>1 DEF Recursion
  <2> QED BY <2>2, <2>3
<1> QED BY <1>4, <1>5

-----------------------------------------------------------------------------
(* Means *)

\* f sums values up from index lo on.
SumRec(f, values, lo, hi) ==
  f = [i \in lo .. hi |-> IF i = lo THEN values[i] ELSE Plus(f[i - 1], values[i])]

\* s are the totals of values on the way from lo to hi, and the mean is the last of them
\* divided by their number.
Totals(s, values, lo, hi) ==
  /\ MeanOf(values, lo, hi) = <<s[hi][1], s[hi][2] * (hi - lo + 1)>>
  /\ s[lo] = values[lo]
  /\ \A i \in lo + 1 .. hi : s[i] = Plus(s[i - 1], values[i])

\* MeanOf has totals, and they are fractions.
LEMMA MeanValue ==
  ASSUME NEW lo \in Int, NEW hi \in Int, lo <= hi,
         NEW values, \A i \in lo .. hi : values[i] \in Fractions
  PROVE  \E s \in [lo .. hi -> Fractions] : Totals(s, values, lo, hi)
<1> DEFINE g == [x \in Fractions \X (lo + 1 .. hi) |-> Plus(x[1], values[x[2]])]
<1>1. g \in [Fractions \X (lo + 1 .. hi) -> Fractions]
  <2>1. \A x \in Fractions \X (lo + 1 .. hi) : Plus(x[1], values[x[2]]) \in Fractions
    <3> TAKE x \in Fractions \X (lo + 1 .. hi)
    <3>1. x[1] \in Fractions /\ x[2] \in lo .. hi
      OBVIOUS
    <3> HIDE DEF Fractions
    <3> QED BY <3>1, PlusValue
  <2> QED BY <2>1
<1>2. \A y \in Fractions, i \in lo + 1 .. hi : g[<<y, i>>] = Plus(y, values[i])
  <2> HIDE DEF Fractions
  <2> QED OBVIOUS
<1>3. values[lo] \in Fractions
  OBVIOUS
<1> HIDE DEF g
<1>4. PICK s \in [lo .. hi -> Fractions] :
        Recursion(s, values[lo], g, lo, hi)
  <2> HIDE DEF Fractions
  <2> QED BY <1>1, <1>3, RecursionExists
<1>5. SumRec(s, values, lo, hi)
  <2>1. \A i \in lo .. hi : s[i] = IF i = lo THEN values[i] ELSE Plus(s[i - 1], values[i])
    <3> TAKE i \in lo .. hi
    <3>1. i # lo => i \in lo + 1 .. hi /\ s[i - 1] \in Fractions
      OBVIOUS
    <3> QED BY <1>2, <1>4, <3>1 DEF Recursion
  <2> DEFINE H == [i \in lo .. hi |-> IF i = lo THEN values[i] ELSE Plus(s[i - 1], values[i])]
  <2>2. \A i \in lo .. hi : s[i] = H[i]
    BY <2>1
  <2> QED BY <2>2 DEF SumRec
<1>6. PICK f : f = (CHOOSE fn : SumRec(fn, values, lo, hi)) /\ SumRec(f, values, lo, hi)
  BY <1>5
<1>7. MeanOf(values, lo, hi) = <<f[hi][1], f[hi][2] * (hi - lo + 1)>>
  BY <1>6 DEF MeanOf, SumRec
<1>8. \A i \in lo .. hi : f[i] = IF i = lo THEN values[i] ELSE Plus(f[i - 1], values[i])
  BY <1>6 DEF SumRec
<1>9. f \in [lo .. hi -> Fractions]
  <2> DEFINE T == {i \in lo .. hi : f[i] \in Fractions}
  <2>1. lo \in T
    BY <1>8
  <2>2. \A i \in lo + 1 .. hi : i - 1 \in T => i \in T
    <3> TAKE i \in lo + 1 .. hi
    <3>1. i \in lo .. hi /\ i # lo
      OBVIOUS
    <3> HIDE DEF Fractions
    <3> QED BY <1>8, <3>1, PlusValue
  <2>3. lo .. hi \subseteq T
    <3> HIDE DEF T
    <3> QED BY <2>1, <2>2, IntervalInduction
  <2>4. f = [i \in lo .. hi |-> f[i]]
    BY <1>6 DEF SumRec
  <2> QED BY <2>3, <2>4
<1>10. \A i \in lo + 1 .. hi : f[i] = Plus(f[i - 1], values[i])
  <2> TAKE i \in lo + 1 .. hi
  <2>1. i \in lo .. hi /\ i # lo
    OBVIOUS
  <2> QED BY <1>8, <2>1
<1>11. f[lo] = values[lo]
  BY <1>8
<1> QED BY <1>7, <1>9, <1>10, <1>11 DEF Totals

\* The mean of fractions is a fraction, and lies between their bounds.
LEMMA MeanWithin ==
  ASSUME NEW lo \in Int, NEW hi \in Int, lo <= hi,
         NEW values, \A i \in lo .. hi : values[i] \in Fractions
  PROVE  /\ MeanOf(values, lo, hi) \in Fractions
         /\ \A low, high \in Int : (\A i \in lo .. hi : Within(values[i], low, high))
              => Within(MeanOf(values, lo, hi), low, high)
<1>1. PICK s \in [lo .. hi -> Fractions] : Totals(s, values, lo, hi)
  BY MeanValue
<1>2. PICK m1 \in Int, m2 \in Nat \ {0} : s[hi] = <<m1, m2>>
  <2>1. s[hi] \in Fractions
    OBVIOUS
  <2> QED BY <2>1 DEF Fractions
<1>3. PICK k \in Nat \ {0} : k = hi - lo + 1
  OBVIOUS
<1>4. MeanOf(values, lo, hi) = <<m1, m2 * k>> /\ m2 * k \in Nat \ {0}
  BY <1>1, <1>2, <1>3 DEF Totals
<1>5. ASSUME NEW low \in Int, NEW high \in Int, \A i \in lo .. hi : Within(values[i], low, high)
      PROVE  Within(MeanOf(values, lo, hi), low, high)
  <2> DEFINE T == {i \in lo .. hi : Within(s[i], low * (i - lo + 1), high * (i - lo + 1))}
  <2>1. lo \in T
    <3>1. low * (lo - lo + 1) = low /\ high * (lo - lo + 1) = high
      OBVIOUS
    <3> QED BY <1>1, <1>5, <3>1 DEF Totals
  <2>2. \A i \in lo + 1 .. hi : i - 1 \in T => i \in T
    <3> SUFFICES ASSUME NEW i \in lo + 1 .. hi, i - 1 \in T PROVE i \in T
      OBVIOUS
    <3>1. PICK c \in Int : c = i - lo /\ c = (i - 1) - lo + 1 /\ c + 1 = i - lo + 1
      OBVIOUS
    <3>2. Within(s[i - 1], low * c, high * c) /\ i - 1 \in lo .. hi /\ i \in lo .. hi
      BY <3>1
    <3>3. Within(values[i], low, high) /\ values[i] \in Fractions /\ s[i - 1] \in Fractions
      BY <1>5, <3>2
    <3>4. low * c \in Int /\ high * c \in Int
      OBVIOUS
    <3>5. Within(Plus(s[i - 1], values[i]), low * c + low, high * c + high)
      <4> HIDE DEF Fractions
      <4> QED BY <3>2, <3>3, <3>4, PlusWithin
    <3>6. low * c + low = low * (i - lo + 1) /\ high * c + high = high * (i - lo + 1)
      <4>1. low * c + low = low * (c + 1) /\ high * c + high = high * (c + 1)
        OBVIOUS
      <4> QED BY <3>1, <4>1
    <3> QED BY <1>1, <3>2, <3>5, <3>6 DEF Totals
  <2>3. hi \in T
    <3>1. lo .. hi \subseteq T
      <4> HIDE DEF T
      <4> QED BY <2>1, <2>2, IntervalInduction
    <3> QED BY <3>1
  <2>4. (low * k) * m2 <= m1 /\ m1 <= (high * k) * m2
    BY <1>2, <1>3, <2>3 DEF Within
  <2>5. low * (m2 * k) = (low * k) * m2 /\ high * (m2 * k) = (high * k) * m2
    OBVIOUS
  <2> QED BY <1>4, <2>4, <2>5 DEF Within
<1>6. <<m1, m2 * k>> \in Fractions
  BY <1>4 DEF Fractions
<1> QED BY <1>4, <1>5, <1>6

\* The mean depends on what it is the mean of, and nothing else.
LEMMA MeanSame ==
  ASSUME NEW lo \in Int, NEW hi \in Int, lo <= hi, NEW values, NEW others,
         \A i \in lo .. hi : values[i] \in Fractions,
         \A i \in lo .. hi : others[i] = values[i]
  PROVE  MeanOf(others, lo, hi) = MeanOf(values, lo, hi)
<1>a. \A i \in lo .. hi : values[i] \in Fractions
  OBVIOUS
<1>b. \A i \in lo .. hi : others[i] \in Fractions
  OBVIOUS
<1>1. PICK s \in [lo .. hi -> Fractions] : Totals(s, values, lo, hi)
  BY <1>a, MeanValue
<1>2. PICK r \in [lo .. hi -> Fractions] : Totals(r, others, lo, hi)
  BY <1>b, MeanValue
<1> DEFINE T == {i \in lo .. hi : r[i] = s[i]}
<1>3. lo \in T
  BY <1>1, <1>2 DEF Totals
<1>4. \A i \in lo + 1 .. hi : i - 1 \in T => i \in T
  <2> TAKE i \in lo + 1 .. hi
  <2>1. i \in lo .. hi
    OBVIOUS
  <2> QED BY <1>1, <1>2, <2>1 DEF Totals
<1>5. lo .. hi \subseteq T
  <2> HIDE DEF T
  <2> QED BY <1>3, <1>4, IntervalInduction
<1>6. r[hi] = s[hi]
  BY <1>5
<1> QED BY <1>1, <1>2, <1>6 DEF Totals

-----------------------------------------------------------------------------
(* Lists along the bars *)

\* A list of n entries that has a value of S from index first on, and none before.
IsLine(list, n, first, S) ==
  /\ list \in [1 .. n -> S \cup {NoValue}]
  /\ \A i \in 1 .. n : IF i < first THEN list[i] = NoValue ELSE list[i] \in S

\* A function on 1 .. n is a sequence of n values.
LEMMA LineLength ==
  ASSUME NEW n \in Nat, NEW S, NEW list \in [1 .. n -> S]
  PROVE  list \in Seq(S) /\ Len(list) = n
  OBVIOUS

\* What From gives starts where it is told to.
LEMMA FromIsLine ==
  ASSUME NEW n \in Nat, NEW first \in Int, NEW S, NEW f, \A i \in first .. n : f[i] \in S
  PROVE  IsLine(From(n, first, f), n, first, S)
<1>1. \A i \in 1 .. n : IF i < first THEN From(n, first, f)[i] = NoValue
                                     ELSE From(n, first, f)[i] = f[i] /\ f[i] \in S
  BY DEF From
<1>2. From(n, first, f) = [i \in 1 .. n |-> From(n, first, f)[i]]
  BY DEF From
<1> QED BY <1>1, <1>2 DEF IsLine

\* f and g have the same values from lo to hi.
Agree(f, g, lo, hi) == \A i \in lo .. hi : g[i] = f[i]

\* Two lists of From that have the same values up to m agree up to m.
LEMMA FromPrefix ==
  ASSUME NEW n \in Nat, NEW m \in 0 .. n, NEW first \in Int, NEW f, NEW g,
         Agree(f, g, first, m)
  PROVE  From(m, first, g) = SubSeq(From(n, first, f), 1, m)
<1>1. SubSeq(From(n, first, f), 1, m) = [i \in 1 .. m |-> From(n, first, f)[i]]
  BY DEF From, Agree
<1>2. \A i \in 1 .. m : From(m, first, g)[i] = From(n, first, f)[i]
  BY DEF From, Agree
<1> QED BY <1>1, <1>2 DEF From

-----------------------------------------------------------------------------
(* Blends *)

BlendStep(values, u, w, i, x) ==
  Plus(<<u * values[i][1], (u + w) * values[i][2]>>, <<w * x[1], (u + w) * x[2]>>)

BlendRec(f, values, first, seed, u, w) ==
  f = [i \in seed .. Len(values) |->
         IF i = seed THEN MeanOf(values, first, seed) ELSE BlendStep(values, u, w, i, f[i - 1])]

\* A part of a fraction is one.
LEMMA PartIsFraction ==
  ASSUME NEW a \in Fractions, NEW u \in Nat, NEW k \in Nat \ {0}
  PROVE  <<u * a[1], k * a[2]>> \in Fractions
<1>1. PICK a1 \in Int, a2 \in Nat \ {0} : a = <<a1, a2>>
  BY DEF Fractions
<1>2. u * a1 \in Int /\ k * a2 \in Nat \ {0}
  OBVIOUS
<1> QED BY <1>1, <1>2 DEF Fractions

\* f are the values of a blend, from the seed on.
Blends(f, values, n, first, seed, u, w) ==
  /\ Blended(values, first, seed, u, w) = From(n, seed, f)
  /\ f[seed] = MeanOf(values, first, seed)
  /\ \A i \in seed + 1 .. n : f[i] = BlendStep(values, u, w, i, f[i - 1])

\* Blended has such values, and they are fractions.
LEMMA BlendValue ==
  ASSUME NEW n \in Nat, NEW values, NEW first \in Nat \ {0}, NEW seed \in first .. n,
         IsLine(values, n, first, Fractions), NEW u \in Nat, NEW w \in Nat, u + w # 0
  PROVE  \E f \in [seed .. n -> Fractions] : Blends(f, values, n, first, seed, u, w)
<1>1. Len(values) = n /\ \A i \in first .. n : values[i] \in Fractions
  BY LineLength DEF IsLine
<1>2. \A i \in seed .. n, x \in Fractions : BlendStep(values, u, w, i, x) \in Fractions
  <2> TAKE i \in seed .. n, x \in Fractions
  <2>1. PICK k \in Nat \ {0} : k = u + w
    OBVIOUS
  <2>2. values[i] \in Fractions
    BY <1>1
  <2> HIDE DEF Fractions
  <2>3. <<u * values[i][1], k * values[i][2]>> \in Fractions /\ <<w * x[1], k * x[2]>> \in Fractions
    BY <2>2, PartIsFraction
  <2> QED BY <2>1, <2>3, PlusValue DEF BlendStep
<1>3. MeanOf(values, first, seed) \in Fractions
  BY <1>1, MeanWithin
<1> DEFINE g == [x \in Fractions \X (seed + 1 .. n) |-> BlendStep(values, u, w, x[2], x[1])]
<1>4. g \in [Fractions \X (seed + 1 .. n) -> Fractions]
  <2>1. \A x \in Fractions \X (seed + 1 .. n) : BlendStep(values, u, w, x[2], x[1]) \in Fractions
    <3> TAKE x \in Fractions \X (seed + 1 .. n)
    <3>1. x[1] \in Fractions /\ x[2] \in seed .. n
      OBVIOUS
    <3> QED BY <1>2, <3>1
  <2> QED BY <2>1
<1>5. \A y \in Fractions, i \in seed + 1 .. n : g[<<y, i>>] = BlendStep(values, u, w, i, y)
  OBVIOUS
<1> HIDE DEF g
<1>6. PICK s \in [seed .. n -> Fractions] :
        Recursion(s, MeanOf(values, first, seed), g, seed, n)
  <2>1. seed \in Int /\ n \in Int
    OBVIOUS
  <2> HIDE DEF Fractions
  <2> QED BY <1>3, <1>4, <2>1, RecursionExists
<1>7. BlendRec(s, values, first, seed, u, w)
  <2> DEFINE H == [i \in seed .. n |-> IF i = seed THEN MeanOf(values, first, seed)
                                       ELSE BlendStep(values, u, w, i, s[i - 1])]
  <2>1. \A i \in seed .. n : s[i] = H[i]
    <3> TAKE i \in seed .. n
    <3>1. i # seed => i \in seed + 1 .. n /\ s[i - 1] \in Fractions
      OBVIOUS
    <3> QED BY <1>5, <1>6, <3>1 DEF Recursion
  <2> QED BY <1>1, <2>1 DEF BlendRec
<1>8. PICK f : /\ f = (CHOOSE fn : BlendRec(fn, values, first, seed, u, w))
               /\ BlendRec(f, values, first, seed, u, w)
  BY <1>7
<1>9. Blended(values, first, seed, u, w) = From(n, seed, f)
  BY <1>1, <1>8 DEF Blended, BlendRec, BlendStep
<1>10. \A i \in seed .. n : f[i] = IF i = seed THEN MeanOf(values, first, seed)
                                   ELSE BlendStep(values, u, w, i, f[i - 1])
  BY <1>1, <1>8 DEF BlendRec
<1>11. f \in [seed .. n -> Fractions]
  <2> DEFINE T == {i \in seed .. n : f[i] \in Fractions}
  <2>1. seed \in T
    BY <1>3, <1>10
  <2>2. \A i \in seed + 1 .. n : i - 1 \in T => i \in T
    <3> TAKE i \in seed + 1 .. n
    <3>1. i \in seed .. n /\ i # seed
      OBVIOUS
    <3> QED BY <1>2, <1>10, <3>1
  <2>3. seed .. n \subseteq T
    <3> HIDE DEF T
    <3> QED BY <2>1, <2>2, IntervalInduction
  <2>4. f = [i \in seed .. n |-> f[i]]
    BY <1>1, <1>8 DEF BlendRec
  <2> QED BY <2>3, <2>4
<1>12. \A i \in seed + 1 .. n : f[i] = BlendStep(values, u, w, i, f[i - 1])
  <2> TAKE i \in seed + 1 .. n
  <2>1. i \in seed .. n /\ i # seed
    OBVIOUS
  <2> QED BY <1>10, <2>1
<1>13. f[seed] = MeanOf(values, first, seed)
  BY <1>10
<1> QED BY <1>9, <1>11, <1>12, <1>13 DEF Blends

\* What the recursion of a blend gives: a line, between the bounds of what is blended, ...
LEMMA BlendIsLine ==
  ASSUME NEW n \in Nat, NEW values, NEW first \in Nat \ {0}, NEW seed \in Nat, first <= seed,
         IsLine(values, n, first, Fractions), NEW u \in Nat, NEW w \in Nat, u + w # 0
  PROVE  /\ IsLine(Blended(values, first, seed, u, w), n, seed, Fractions)
         /\ \A lo, hi \in Int :
              (\A i \in first .. n : Within(values[i], lo, hi))
              => \A i \in seed .. n : Within(Blended(values, first, seed, u, w)[i], lo, hi)
<1>1. CASE seed <= n
  <2>1. seed \in first .. n
    BY <1>1
  <2>2. PICK f \in [seed .. n -> Fractions] : Blends(f, values, n, first, seed, u, w)
    BY <2>1, BlendValue
  <2>3. \A i \in first .. n : values[i] \in Fractions
    BY DEF IsLine
  <2>4. ASSUME NEW lo \in Int, NEW hi \in Int, \A i \in first .. n : Within(values[i], lo, hi)
        PROVE  \A i \in seed .. n : Within(From(n, seed, f)[i], lo, hi)
    <3> DEFINE T == {i \in seed .. n : Within(f[i], lo, hi)}
    <3>1. seed \in T
      <4>1. \A i \in first .. seed : values[i] \in Fractions /\ Within(values[i], lo, hi)
        BY <2>1, <2>3, <2>4
      <4>2. first \in Int /\ seed \in Int
        OBVIOUS
      <4>3. Within(MeanOf(values, first, seed), lo, hi)
        BY <4>1, <4>2, MeanWithin
      <4> QED BY <1>1, <2>2, <4>3 DEF Blends
    <3>2. ASSUME NEW i \in seed + 1 .. n, i - 1 \in T PROVE i \in T
      <4>1. Within(f[i - 1], lo, hi) /\ f[i - 1] \in Fractions /\ i \in seed .. n
        BY <3>2
      <4>2. Within(values[i], lo, hi) /\ values[i] \in Fractions
        BY <2>1, <2>3, <2>4
      <4> HIDE DEF Fractions
      <4>3. Within(BlendStep(values, u, w, i, f[i - 1]), lo, hi)
        BY <4>1, <4>2, BlendWithin DEF BlendStep
      <4> QED BY <2>2, <4>1, <4>3 DEF Blends
    <3>3. seed .. n \subseteq T
      <4> HIDE DEF T
      <4> QED BY <3>1, <3>2, IntervalInduction
    <3>4. \A i \in seed .. n : From(n, seed, f)[i] = f[i]
      BY DEF From
    <3> QED BY <3>3, <3>4
  <2>5. IsLine(From(n, seed, f), n, seed, Fractions)
    BY FromIsLine
  <2> QED BY <2>2, <2>4, <2>5 DEF Blends
<1>2. CASE ~(seed <= n)
  <2>1. Len(values) = n
    BY LineLength DEF IsLine
  <2>2. \E f : Blended(values, first, seed, u, w) = From(n, seed, f)
    BY <2>1 DEF Blended
  <2>3. PICK f : Blended(values, first, seed, u, w) = From(n, seed, f)
    BY <2>2
  <2>4. IsLine(From(n, seed, f), n, seed, Fractions)
    BY <1>2, FromIsLine
  <2> QED BY <1>2, <2>3, <2>4
<1> QED BY <1>1, <1>2

\* ... which values that come later do not change.
Shorter(values, n, m, first, seed, u, w) ==
  /\ IsLine(SubSeq(values, 1, m), m, first, Fractions)
  /\ Blended(SubSeq(values, 1, m), first, seed, u, w)
       = SubSeq(Blended(values, first, seed, u, w), 1, m)

\* A blend of fewer values is the same as far as it goes.
LEMMA BlendPrefix ==
  ASSUME NEW n \in Nat, NEW m \in 0 .. n, NEW values,
         NEW first \in Nat \ {0}, NEW seed \in Nat, first <= seed,
         IsLine(values, n, first, Fractions),
         NEW u \in Nat, NEW w \in Nat, u + w # 0
  PROVE  Shorter(values, n, m, first, seed, u, w)
<1>0. first \in Int /\ seed \in Int /\ m \in Int
  OBVIOUS
<1>o. PICK others : others = SubSeq(values, 1, m)
  OBVIOUS
<1>1. others = [i \in 1 .. m |-> values[i]]
  BY <1>o DEF IsLine
<1>2. IsLine(others, m, first, Fractions)
  <2>1. \A i \in 1 .. m : i \in 1 .. n /\ others[i] = values[i]
    BY <1>1
  <2> HIDE DEF Fractions
  <2> QED BY <1>1, <2>1 DEF IsLine
<1> SUFFICES Blended(others, first, seed, u, w) = SubSeq(Blended(values, first, seed, u, w), 1, m)
  BY <1>o, <1>2 DEF Shorter
<1>3. Len(values) = n /\ Len(others) = m
  BY <1>2, LineLength DEF IsLine
<1>4. CASE seed <= m
  <2>1. seed \in first .. n /\ seed \in first .. m /\ m \in Nat
    BY <1>4
  <2>2. PICK f \in [seed .. n -> Fractions] : Blends(f, values, n, first, seed, u, w)
    BY <2>1, BlendValue
  <2>3. PICK g \in [seed .. m -> Fractions] : Blends(g, others, m, first, seed, u, w)
    BY <1>2, <2>1, BlendValue
  <2> DEFINE T == {i \in seed .. m : g[i] = f[i]}
  <2>4. seed \in T
    <3>a. \A i \in first .. seed : values[i] \in Fractions
      BY <2>1 DEF IsLine
    <3>1. \A i \in first .. seed : others[i] = values[i]
      BY <1>1, <2>1
    <3>2. MeanOf(others, first, seed) = MeanOf(values, first, seed)
      BY <1>0, <3>a, <3>1, MeanSame, ZenonT(30)
    <3> QED BY <1>4, <2>2, <2>3, <3>2 DEF Blends
  <2>5. ASSUME NEW i \in seed + 1 .. m, i - 1 \in T PROVE i \in T
    <3>1. i \in seed + 1 .. n /\ i \in 1 .. m /\ i \in seed .. m /\ g[i - 1] = f[i - 1]
      BY <2>5
    <3>2. others[i] = values[i]
      BY <1>1, <3>1
    <3> QED BY <2>2, <2>3, <3>1, <3>2 DEF BlendStep, Blends
  <2>6. seed .. m \subseteq T
    <3> HIDE DEF T
    <3> QED BY <1>0, <2>4, <2>5, IntervalInduction
  <2>7. Agree(f, g, seed, m)
    BY <2>6 DEF Agree
  <2> QED BY <1>2, <2>2, <2>3, <2>7, FromPrefix DEF Blends
<1>5. CASE ~(seed <= m)
  <2>1. PICK f : Blended(values, first, seed, u, w) = From(n, seed, f)
    BY <1>3 DEF Blended
  <2>2. PICK g : Blended(others, first, seed, u, w) = From(m, seed, g)
    BY <1>3 DEF Blended
  <2>3. Agree(f, g, seed, m)
    BY <1>5 DEF Agree
  <2> QED BY <1>2, <2>1, <2>2, <2>3, FromPrefix
<1> QED BY <1>4, <1>5

-----------------------------------------------------------------------------
(* Sums *)

\* The sum over an interval is the sum over a set.
LEMMA SumOfIsSum ==
  ASSUME NEW raw, NEW lo, NEW hi
  PROVE  SumOf(raw, lo, hi) = SumFunctionOnSet(raw, lo .. hi)
  BY DEF SumOf, MapThenSumSet, SumFunctionOnSet, FoldFunctionOnSet

\* A constant is summed up as often as there are elements.
LEMMA SumConstant ==
  ASSUME NEW S, IsFiniteSet(S), NEW c \in Int, NEW f, \A x \in S : f[x] = c
  PROVE  SumFunctionOnSet(f, S) = c * Cardinality(S)
<1>1. PICK F : Adds(F, f, S) /\ SumFunctionOnSet(f, S) = F[S]
  BY SumIsFold
<1> DEFINE P == {T \in SUBSET S : F[T] = c * Cardinality(T)}
<1>2. ASSUME NEW T \in SUBSET S, \A y \in T : T \ {y} \in P
      PROVE  T \in P
  <2>1. /\ T # {} => First(T) \in T /\ First(T) \in S
        /\ F[{}] = 0 /\ (T # {} => F[T] = f[First(T)] + F[T \ {First(T)}])
    BY <1>1 DEF Adds
  <2>2. CASE T = {}
    <3>1. Cardinality({}) = 0 /\ c * 0 = 0
      BY FS_EmptySet
    <3> QED BY <2>1, <2>2, <3>1
  <2>3. CASE T # {}
    <3>1. PICK k \in Nat : Cardinality(T \ {First(T)}) = k /\ Cardinality(T) = k + 1
      <4>1. IsFiniteSet(T)
        BY FS_Subset
      <4>2. Cardinality(T) \in Nat /\ Cardinality(T) # 0
        BY <2>3, <4>1, FS_CardinalityType, FS_EmptySet
      <4>3. Cardinality(T \ {First(T)}) = Cardinality(T) - 1
        BY <2>1, <2>3, <4>1, FS_RemoveElement
      <4> QED BY <4>2, <4>3
    <3>2. F[T \ {First(T)}] = c * k
      BY <1>2, <2>1, <2>3, <3>1
    <3>3. F[T] = c + c * k
      BY <2>1, <2>3, <3>2
    <3>4. c + c * k = c * (k + 1)
      OBVIOUS
    <3> QED BY <3>1, <3>3, <3>4
  <2> QED BY <2>2, <2>3
<1>3. S \in P
  <2> HIDE DEF P
  <2> QED BY <1>2, SubsetInduction
<1> QED BY <1>1, <1>3

\* What is nowhere less has a sum that is not less.
LEMMA SumMonotone ==
  ASSUME NEW S, IsFiniteSet(S), NEW f, NEW g,
         \A x \in S : f[x] \in Int /\ g[x] \in Int /\ f[x] <= g[x]
  PROVE  /\ SumFunctionOnSet(f, S) \in Int /\ SumFunctionOnSet(g, S) \in Int
         /\ SumFunctionOnSet(f, S) <= SumFunctionOnSet(g, S)
<1> DEFINE d == [x \in S |-> g[x] - f[x]]
<1>1. \A x \in S : f[x] \in Int /\ g[x] \in Int /\ d[x] \in Nat /\ d[x] \in Int /\ g[x] = f[x] + d[x]
  OBVIOUS
<1> HIDE DEF d
<1>2. SumFunctionOnSet(g, S) = SumFunctionOnSet(f, S) + SumFunctionOnSet(d, S)
  BY <1>1, SumAdds
<1>3. SumFunctionOnSet(d, S) \in Nat
  BY <1>1, SumNonNegative
<1>4. SumFunctionOnSet(f, S) \in Int
  BY <1>1, SumType
<1> QED BY <1>2, <1>3, <1>4

\* The sum of k integers lies between k times their bounds.
LEMMA SumOfBounds ==
  ASSUME NEW lo \in Int, NEW hi \in Int, lo <= hi + 1, NEW raw,
         NEW low \in Int, NEW high \in Int,
         \A i \in lo .. hi : raw[i] \in Int /\ low <= raw[i] /\ raw[i] <= high
  PROVE  /\ SumOf(raw, lo, hi) \in Int
         /\ low * (hi - lo + 1) <= SumOf(raw, lo, hi)
         /\ SumOf(raw, lo, hi) <= high * (hi - lo + 1)
<1> DEFINE least == [i \in lo .. hi |-> low]
           most == [i \in lo .. hi |-> high]
<1>1. IsFiniteSet(lo .. hi) /\ Cardinality(lo .. hi) = hi - lo + 1
  BY FS_Interval
<1>2. SumFunctionOnSet(least, lo .. hi) = low * (hi - lo + 1)
  <2>1. \A x \in lo .. hi : least[x] = low
    OBVIOUS
  <2> HIDE DEF least
  <2> QED BY <1>1, <2>1, SumConstant
<1>3. SumFunctionOnSet(most, lo .. hi) = high * (hi - lo + 1)
  <2>1. \A x \in lo .. hi : most[x] = high
    OBVIOUS
  <2> HIDE DEF most
  <2> QED BY <1>1, <2>1, SumConstant
<1>4. \A x \in lo .. hi : least[x] \in Int /\ raw[x] \in Int /\ least[x] <= raw[x]
  OBVIOUS
<1>5. \A x \in lo .. hi : raw[x] \in Int /\ most[x] \in Int /\ raw[x] <= most[x]
  OBVIOUS
<1> HIDE DEF least, most
<1>6. /\ SumFunctionOnSet(raw, lo .. hi) \in Int
      /\ SumFunctionOnSet(least, lo .. hi) <= SumFunctionOnSet(raw, lo .. hi)
  BY <1>1, <1>4, SumMonotone
<1>7. SumFunctionOnSet(raw, lo .. hi) <= SumFunctionOnSet(most, lo .. hi)
  BY <1>1, <1>5, SumMonotone
<1> QED BY <1>2, <1>3, <1>6, <1>7, SumOfIsSum

\* Sums of equal terms are equal.
LEMMA SumOfSame ==
  ASSUME NEW lo \in Int, NEW hi \in Int, NEW raw, NEW others,
         \A i \in lo .. hi : others[i] = raw[i]
  PROVE  SumOf(others, lo, hi) = SumOf(raw, lo, hi)
<1>1. IsFiniteSet(lo .. hi)
  BY FS_Interval
<1>2. SumFunctionOnSet(others, lo .. hi) = SumFunctionOnSet(raw, lo .. hi)
  BY <1>1, SumSame
<1> QED BY <1>2, SumOfIsSum

\* Sums of larger terms are larger.
LEMMA SumOfMonotone ==
  ASSUME NEW lo \in Int, NEW hi \in Int, NEW raw, NEW others,
         \A i \in lo .. hi : raw[i] \in Int /\ others[i] \in Int /\ raw[i] <= others[i]
  PROVE  SumOf(raw, lo, hi) <= SumOf(others, lo, hi)
<1>1. IsFiniteSet(lo .. hi)
  BY FS_Interval
<1>2. SumFunctionOnSet(raw, lo .. hi) <= SumFunctionOnSet(others, lo .. hi)
  BY <1>1, SumMonotone
<1> QED BY <1>2, SumOfIsSum

\* The square of a sum is at most as large as the sum of the squares times their number:
\* their difference is that number times the sum of the squared distances to the mean.
LEMMA VarianceNotNegative ==
  ASSUME NEW lo \in Int, NEW hi \in Int, lo <= hi, NEW f, NEW square,
         \A i \in lo .. hi : f[i] \in Int /\ square[i] = f[i] * f[i]
  PROVE  /\ SumOf(square, lo, hi) \in Int /\ SumOf(f, lo, hi) \in Int
         /\ (hi - lo + 1) * SumOf(square, lo, hi) - SumOf(f, lo, hi) * SumOf(f, lo, hi) >= 0
<1> DEFINE S == lo .. hi
<1>1. PICK p \in Nat \ {0} : p = hi - lo + 1
  OBVIOUS
<1>2. IsFiniteSet(S) /\ Cardinality(S) = p
  BY <1>1, FS_Interval
<1>a. \A x \in S : square[x] \in Int
  OBVIOUS
<1>3. PICK s \in Int : s = SumFunctionOnSet(f, S)
  BY <1>2, SumType
<1>4. PICK q \in Int : q = SumFunctionOnSet(square, S)
  BY <1>2, <1>a, SumType
<1> DEFINE mixed == [x \in S |-> p * p * square[x] + (-2 * p * s) * f[x]]
           const == [x \in S |-> s * s]
           dist == [x \in S |-> (p * f[x] - s) * (p * f[x] - s)]
<1>5. SumFunctionOnSet(mixed, S) = p * p * q + (-2 * p * s) * s
  <2>1. \A x \in S : square[x] \in Int /\ f[x] \in Int /\ mixed[x] \in Int
                     /\ 1 * mixed[x] = (p * p) * square[x] + (-2 * p * s) * f[x]
    OBVIOUS
  <2>2. PICK a \in Int, b \in Int : a = p * p /\ b = -2 * p * s
    OBVIOUS
  <2>3. \A x \in S : square[x] \in Int /\ f[x] \in Int /\ mixed[x] \in Int
                     /\ 1 * mixed[x] = a * square[x] + b * f[x]
    BY <2>1, <2>2
  <2> HIDE DEF mixed, S
  <2>4. 1 * SumFunctionOnSet(mixed, S) = a * SumFunctionOnSet(square, S) + b * SumFunctionOnSet(f, S)
    BY <1>2, <2>3, SumLinear
  <2>5. SumFunctionOnSet(mixed, S) \in Int
    BY <1>2, <2>3, SumType
  <2>6. SumFunctionOnSet(mixed, S) = a * q + b * s
    BY <1>3, <1>4, <2>4, <2>5
  <2> QED BY <2>2, <2>6
<1>6. SumFunctionOnSet(const, S) = (s * s) * p
  <2>1. \A x \in S : const[x] = s * s
    OBVIOUS
  <2> HIDE DEF const, S
  <2> QED BY <1>2, <2>1, SumConstant
<1>7. \A x \in S : mixed[x] \in Int /\ const[x] \in Int /\ dist[x] \in Nat
                   /\ dist[x] = mixed[x] + const[x]
  <2> TAKE x \in S
  <2>1. PICK y \in Int : y = f[x] /\ square[x] = y * y
    OBVIOUS
  <2>2. PICK z \in Int : z = p * y - s
    OBVIOUS
  <2>3. z * z >= 0
    OBVIOUS
  <2>4. z * z = (p * p * (y * y) + (-2 * p * s) * y) + s * s
    BY <2>2
  <2>5. dist[x] = z * z /\ mixed[x] = p * p * (y * y) + (-2 * p * s) * y /\ const[x] = s * s
    BY <2>1, <2>2
  <2>6. p * p * (y * y) + (-2 * p * s) * y \in Int /\ s * s \in Int /\ z * z \in Int
    OBVIOUS
  <2> HIDE DEF mixed, const, dist
  <2> QED BY <2>3, <2>4, <2>5, <2>6
<1>8. SumFunctionOnSet(dist, S) = SumFunctionOnSet(mixed, S) + SumFunctionOnSet(const, S)
  <2>1. \A x \in S : mixed[x] \in Int /\ const[x] \in Int /\ dist[x] = mixed[x] + const[x]
    BY <1>7
  <2> HIDE DEF mixed, const, dist, S
  <2> QED BY <1>2, <2>1, SumAdds
<1>9. SumFunctionOnSet(dist, S) \in Nat
  <2>1. \A x \in S : dist[x] \in Nat
    BY <1>7
  <2> HIDE DEF dist, S
  <2> QED BY <1>2, <2>1, SumNonNegative
<1> HIDE DEF mixed, const, dist
<1>10. p * p * q + (-2 * p * s) * s + (s * s) * p >= 0
  BY <1>5, <1>6, <1>8, <1>9
<1>11. p * p * q + (-2 * p * s) * s + (s * s) * p = (p * q - s * s) * p
  OBVIOUS
<1>12. p * q - s * s >= 0
  <2>1. 0 * p <= (p * q - s * s) * p
    BY <1>10, <1>11
  <2>2. p * q - s * s \in Int /\ 0 \in Int
    OBVIOUS
  <2> QED BY <2>1, <2>2, CancelFactor
<1> QED BY <1>1, <1>3, <1>4, <1>12, SumOfIsSum

-----------------------------------------------------------------------------
(* Recursions, in general *)

\* What holds for the first and is handed on holds for all.
LEMMA RecursionType ==
  ASSUME NEW lo \in Int, NEW hi \in Int, NEW S, NEW f, f = [i \in lo .. hi |-> f[i]],
         lo <= hi => f[lo] \in S,
         \A i \in lo + 1 .. hi : f[i - 1] \in S => f[i] \in S
  PROVE  f \in [lo .. hi -> S]
<1> DEFINE T == {i \in lo .. hi : f[i] \in S}
<1>1. CASE lo <= hi
  <2>1. lo \in T
    BY <1>1
  <2>2. \A i \in lo + 1 .. hi : i - 1 \in T => i \in T
    <3> TAKE i \in lo + 1 .. hi
    <3>1. i \in lo .. hi
      OBVIOUS
    <3> QED BY <3>1
  <2>3. lo .. hi \subseteq T
    <3> HIDE DEF T
    <3> QED BY <2>1, <2>2, IntervalInduction
  <2> QED BY <2>3
<1>2. CASE ~(lo <= hi)
  BY <1>2
<1> QED BY <1>1, <1>2

\* Two that start alike and go on alike are alike.
LEMMA RecursionSame ==
  ASSUME NEW lo \in Int, NEW hi \in Int, NEW f, NEW g,
         lo <= hi => g[lo] = f[lo],
         \A i \in lo + 1 .. hi : g[i - 1] = f[i - 1] => g[i] = f[i]
  PROVE  Agree(f, g, lo, hi)
<1> SUFFICES \A i \in lo .. hi : g[i] = f[i]
  BY DEF Agree
<1> DEFINE T == {i \in lo .. hi : g[i] = f[i]}
<1>1. CASE lo <= hi
  <2>1. lo \in T
    BY <1>1
  <2>2. \A i \in lo + 1 .. hi : i - 1 \in T => i \in T
    <3> TAKE i \in lo + 1 .. hi
    <3>1. i \in lo .. hi
      OBVIOUS
    <3> QED BY <3>1
  <2>3. lo .. hi \subseteq T
    <3> HIDE DEF T
    <3> QED BY <2>1, <2>2, IntervalInduction
  <2> QED BY <2>3
<1>2. CASE ~(lo <= hi)
  BY <1>2
<1> QED BY <1>1, <1>2

-----------------------------------------------------------------------------
(* Wilder's smoothing *)

Shares == Nat \X (Nat \ {0})

\* A share has a numerator and a denominator.
LEMMA ShareParts == \A x \in Shares : \E a \in Nat, d \in Nat \ {0} : x = <<a, d>>
  BY DEF Shares

WilderStep(raw, p, i, x) == <<x[1] * (p - 1) + raw[i] * x[2], p * x[2]>>

WilderRec(f, raw, p) ==
  f = [i \in p + 1 .. Len(raw) |->
         IF i = p + 1 THEN <<SumOf(raw, 2, p + 1), p>> ELSE WilderStep(raw, p, i, f[i - 1])]

\* f are the smoothed values, from the seed on.
Wilders(f, raw, n, p) ==
  /\ Wilder(raw, p) = From(n, p + 1, f)
  /\ p + 1 <= n => f[p + 1] = <<SumOf(raw, 2, p + 1), p>>
  /\ \A i \in p + 2 .. n : f[i] = WilderStep(raw, p, i, f[i - 1])

\* The seed is a share.
LEMMA WilderSeed ==
  ASSUME NEW n \in Nat, NEW raw \in [1 .. n -> Nat], NEW p \in Nat \ {0}, p + 1 <= n
  PROVE  <<SumOf(raw, 2, p + 1), p>> \in Shares
<1>1. \A i \in 2 .. p + 1 : raw[i] \in Nat
  OBVIOUS
<1>2. IsFiniteSet(2 .. p + 1)
  BY FS_Interval
<1>3. SumFunctionOnSet(raw, 2 .. p + 1) \in Nat
  BY <1>1, <1>2, SumNonNegative
<1> QED BY <1>3, SumOfIsSum DEF Shares

\* A step from a share gives a share.
LEMMA WilderStepType ==
  ASSUME NEW x \in Shares, NEW p \in Nat \ {0}, NEW raw, NEW i, raw[i] \in Nat
  PROVE  WilderStep(raw, p, i, x) \in Shares
<1>1. PICK a \in Nat, d \in Nat \ {0} : x = <<a, d>>
  BY DEF Shares
<1>2. a * (p - 1) \in Nat /\ raw[i] * d \in Nat /\ p * d \in Nat \ {0}
  OBVIOUS
<1> QED BY <1>1, <1>2 DEF Shares, WilderStep

\* Wilder has such values, and they are shares.
LEMMA WilderValue ==
  ASSUME NEW n \in Nat, NEW raw \in [1 .. n -> Nat], NEW p \in Nat \ {0}
  PROVE  \E f \in [p + 1 .. n -> Shares] : Wilders(f, raw, n, p)
<1>1. Len(raw) = n
  BY LineLength
<1>2. \A i \in p + 2 .. n, x \in Shares : WilderStep(raw, p, i, x) \in Shares
  <2> TAKE i \in p + 2 .. n, x \in Shares
  <2>1. raw[i] \in Nat
    OBVIOUS
  <2> HIDE DEF Shares
  <2> QED BY <2>1, WilderStepType
<1> DEFINE seed == <<SumOf(raw, 2, p + 1), p>>
<1>a. <<0, 1>> \in Shares
  BY DEF Shares
<1>3. \E f : WilderRec(f, raw, p)
  <2> DEFINE g == [x \in Shares \X (p + 2 .. n) |-> WilderStep(raw, p, x[2], x[1])]
             a == IF p + 1 <= n THEN seed ELSE <<0, 1>>
  <2>1. g \in [Shares \X (p + 2 .. n) -> Shares]
    <3> SUFFICES ASSUME NEW x \in Shares \X (p + 2 .. n)
                 PROVE  WilderStep(raw, p, x[2], x[1]) \in Shares
      OBVIOUS
    <3>1. x[1] \in Shares /\ x[2] \in p + 2 .. n
      OBVIOUS
    <3> QED BY <1>2, <3>1
  <2>2. \A y \in Shares, i \in p + 2 .. n : g[<<y, i>>] = WilderStep(raw, p, i, y)
    OBVIOUS
  <2>3. a \in Shares
    BY <1>a, WilderSeed
  <2>4. p + 1 <= n => a = seed
    OBVIOUS
  <2> HIDE DEF g, a
  <2>5. PICK lo \in Int : lo = p + 1
    OBVIOUS
  <2>6. lo + 1 = p + 2 /\ n \in Int
    BY <2>5
  <2>7. g \in [Shares \X (lo + 1 .. n) -> Shares]
    BY <2>1, <2>6
  <2>8. PICK s \in [lo .. n -> Shares] : Recursion(s, a, g, lo, n)
    BY <2>3, <2>6, <2>7, RecursionExists
  <2>9. WilderRec(s, raw, p)
    <3> DEFINE H == [i \in p + 1 .. n |->
                       IF i = p + 1 THEN seed ELSE WilderStep(raw, p, i, s[i - 1])]
    <3>1. \A i \in p + 1 .. n : s[i] = H[i]
      <4> TAKE i \in p + 1 .. n
      <4>1. i # p + 1 => i \in p + 2 .. n /\ s[i - 1] \in Shares
        BY <2>5
      <4>2. p + 1 <= n
        OBVIOUS
      <4>3. s[i] = IF i = lo THEN a ELSE g[<<s[i - 1], i>>]
        BY <2>5, <2>8 DEF Recursion
      <4> HIDE DEF seed
      <4> QED BY <2>2, <2>4, <2>5, <4>1, <4>2, <4>3
    <3>2. s = H
      BY <2>5, <3>1
    <3> QED BY <1>1, <3>2 DEF WilderRec
  <2> QED BY <2>9
<1>4. PICK f : f = (CHOOSE fn : WilderRec(fn, raw, p)) /\ WilderRec(f, raw, p)
  BY <1>3
<1>5. Wilder(raw, p) = From(n, p + 1, f)
  BY <1>1, <1>4 DEF Wilder, WilderRec, WilderStep
<1>6. \A i \in p + 1 .. n : f[i] = IF i = p + 1 THEN seed ELSE WilderStep(raw, p, i, f[i - 1])
  BY <1>1, <1>4 DEF WilderRec
<1>7. \A i \in p + 2 .. n : f[i] = WilderStep(raw, p, i, f[i - 1])
  <2> TAKE i \in p + 2 .. n
  <2>1. i \in p + 1 .. n /\ i # p + 1
    OBVIOUS
  <2> QED BY <1>6, <2>1
<1>8. p + 1 <= n => f[p + 1] = seed
  BY <1>6
<1>9. f \in [p + 1 .. n -> Shares]
  <2>1. PICK lo \in Int : lo = p + 1
    OBVIOUS
  <2>2. f = [i \in lo .. n |-> f[i]]
    BY <1>1, <1>4, <2>1 DEF WilderRec
  <2>3. lo <= n => f[lo] \in Shares
    BY <1>8, <2>1, WilderSeed
  <2>4. \A i \in lo + 1 .. n : f[i - 1] \in Shares => f[i] \in Shares
    BY <1>2, <1>7, <2>1
  <2>5. n \in Int
    OBVIOUS
  <2>6. f \in [lo .. n -> Shares]
    BY <2>2, <2>3, <2>4, <2>5, RecursionType
  <2> QED BY <2>1, <2>6
<1> QED BY <1>5, <1>7, <1>8, <1>9 DEF Wilders

\* The smoothing of values from 0 to a bound stays between them, ...
LEMMA WilderIsLine ==
  ASSUME NEW n \in Nat, NEW raw \in [1 .. n -> Nat], NEW p \in Nat \ {0}
  PROVE  /\ IsLine(Wilder(raw, p), n, p + 1, Shares)
         /\ \A high \in Nat : (\A i \in 1 .. n : raw[i] <= high)
              => \A i \in p + 1 .. n : Within(Wilder(raw, p)[i], 0, high)
<1>1. PICK f \in [p + 1 .. n -> Shares] : Wilders(f, raw, n, p)
  BY WilderValue
<1>2. PICK lo \in Int : lo = p + 1
  OBVIOUS
<1>3. IsLine(From(n, lo, f), n, lo, Shares)
  <2>1. \A i \in lo .. n : f[i] \in Shares
    BY <1>2
  <2> QED BY <2>1, FromIsLine
<1>4. ASSUME NEW high \in Nat, \A i \in 1 .. n : raw[i] <= high
      PROVE  \A i \in p + 1 .. n : Within(From(n, lo, f)[i], 0, high)
  <2> DEFINE Low == {x \in Shares : x[1] <= high * x[2]}
  <2>1. lo <= n => f[lo] \in Low
    <3> HAVE lo <= n
    <3>1. f[lo] = <<SumOf(raw, 2, p + 1), p>> /\ f[lo] \in Shares
      BY <1>1, <1>2 DEF Wilders
    <3>2. \A i \in 2 .. p + 1 : raw[i] \in Int /\ 0 <= raw[i] /\ raw[i] <= high
      BY <1>2, <1>4
    <3>3. PICK h \in Int : h = p + 1 /\ 2 <= h + 1
      OBVIOUS
    <3>4. SumOf(raw, 2, h) <= high * (h - 2 + 1)
      <4>1. 2 \in Int /\ 0 \in Int /\ high \in Int
        OBVIOUS
      <4>2. \A i \in 2 .. h : raw[i] \in Int /\ 0 <= raw[i] /\ raw[i] <= high
        BY <3>2, <3>3
      <4> QED BY <3>3, <4>1, <4>2, SumOfBounds
    <3>5. h - 2 + 1 = p
      BY <3>3
    <3>6. SumOf(raw, 2, p + 1) <= high * p
      BY <3>3, <3>4, <3>5
    <3> QED BY <3>1, <3>6
  <2>2. ASSUME NEW i \in lo + 1 .. n, f[i - 1] \in Low PROVE f[i] \in Low
    <3>a. i \in p + 2 .. n
      BY <1>2
    <3>b. PICK x \in Shares : x = f[i - 1]
      BY <2>2
    <3>1. PICK a \in Nat, d \in Nat \ {0} : f[i - 1] = <<a, d>>
      BY <3>b, ShareParts
    <3>c. f[i] = WilderStep(raw, p, i, f[i - 1])
      BY <1>1, <3>a DEF Wilders
    <3>2. a <= high * d
      BY <2>2, <3>1
    <3>3. PICK r \in Nat : r = raw[i] /\ r <= high
      BY <1>2, <1>4
    <3>4. f[i] = <<a * (p - 1) + r * d, p * d>>
      BY <3>c, <3>1, <3>3 DEF WilderStep
    <3>5. a * (p - 1) <= (high * d) * (p - 1)
      <4>1. PICK z \in Nat : z = high * d
        OBVIOUS
      <4>2. p - 1 \in Nat /\ a \in Int /\ z \in Int
        OBVIOUS
      <4> QED BY <3>2, <4>1, <4>2, TimesKeepsOrder
    <3>6. r * d <= high * d
      <4>1. r \in Int /\ high \in Int /\ d \in Nat
        OBVIOUS
      <4> QED BY <3>3, <4>1, TimesKeepsOrder
    <3>7. (high * d) * (p - 1) + high * d = high * (p * d)
      OBVIOUS
    <3>8. a * (p - 1) \in Int /\ r * d \in Int /\ (high * d) * (p - 1) \in Int /\ high * d \in Int
          /\ high * (p * d) \in Int
      OBVIOUS
    <3>9. a * (p - 1) + r * d <= high * (p * d)
      BY <3>5, <3>6, <3>7, <3>8
    <3>10. f[i] \in Shares
      BY <1>2
    <3> QED BY <3>4, <3>9, <3>10
  <2>3. f \in [lo .. n -> Low]
    <3>1. n \in Int /\ f = [i \in lo .. n |-> f[i]]
      BY <1>2
    <3> HIDE DEF Low
    <3> QED BY <2>1, <2>2, <3>1, RecursionType
  <2> SUFFICES ASSUME NEW i \in p + 1 .. n PROVE Within(From(n, lo, f)[i], 0, high)
    OBVIOUS
  <2>4. From(n, lo, f)[i] = f[i]
    BY <1>2 DEF From
  <2>5. f[i] \in Low
    BY <1>2, <2>3
  <2>6. PICK a \in Nat, d \in Nat \ {0} : f[i] = <<a, d>>
    BY <2>5 DEF Shares
  <2>7. 0 * d <= a /\ a <= high * d
    BY <2>5, <2>6
  <2> QED BY <2>4, <2>6, <2>7 DEF Within
<1>5. Wilder(raw, p) = From(n, lo, f)
  BY <1>1, <1>2 DEF Wilders
<1> QED BY <1>2, <1>3, <1>4, <1>5

\* ... and values that come later do not change it.
LEMMA WilderPrefix ==
  ASSUME NEW n \in Nat, NEW m \in 0 .. n, NEW raw \in [1 .. n -> Nat], NEW p \in Nat \ {0},
         NEW others \in [1 .. m -> Nat], Agree(raw, others, 1, m)
  PROVE  Wilder(others, p) = SubSeq(Wilder(raw, p), 1, m)
<1>1. PICK f \in [p + 1 .. n -> Shares] : Wilders(f, raw, n, p)
  BY WilderValue
<1>2. PICK g \in [p + 1 .. m -> Shares] : Wilders(g, others, m, p)
  <2>1. m \in Nat
    OBVIOUS
  <2> QED BY <2>1, WilderValue
<1>3. PICK lo \in Int : lo = p + 1
  OBVIOUS
<1>4. lo <= m => g[lo] = f[lo]
  <2> HAVE lo <= m
  <2>1. \A i \in 2 .. lo : others[i] = raw[i]
    BY DEF Agree
  <2>2. SumOf(others, 2, lo) = SumOf(raw, 2, lo)
    <3>1. 2 \in Int
      OBVIOUS
    <3> QED BY <2>1, <3>1, SumOfSame
  <2>3. lo <= n
    BY <1>3
  <2>4. f[lo] = <<SumOf(raw, 2, lo), p>>
    BY <1>1, <1>3, <2>3 DEF Wilders
  <2>5. g[lo] = <<SumOf(others, 2, lo), p>>
    BY <1>2, <1>3 DEF Wilders
  <2> QED BY <2>2, <2>4, <2>5
<1>5. \A i \in lo + 1 .. m : g[i - 1] = f[i - 1] => g[i] = f[i]
  <2> TAKE i \in lo + 1 .. m
  <2>1. i \in p + 2 .. n /\ i \in p + 2 .. m /\ others[i] = raw[i]
    BY <1>3 DEF Agree
  <2>2. f[i] = WilderStep(raw, p, i, f[i - 1])
    BY <1>1, <2>1 DEF Wilders
  <2>3. g[i] = WilderStep(others, p, i, g[i - 1])
    BY <1>2, <2>1 DEF Wilders
  <2> QED BY <2>1, <2>2, <2>3 DEF WilderStep
<1>6. Agree(f, g, lo, m)
  <2>1. m \in Int
    OBVIOUS
  <2> QED BY <1>4, <1>5, <2>1, RecursionSame
<1>7. From(m, lo, g) = SubSeq(From(n, lo, f), 1, m)
  BY <1>6, FromPrefix
<1> QED BY <1>1, <1>2, <1>3, <1>7 DEF Wilders

-----------------------------------------------------------------------------
(* Bars *)

\* A finite set of integers has its Max and its Min.
LEMMA MaxIs ==
  ASSUME NEW S, IsFiniteSet(S), S \subseteq Int, S # {}
  PROVE  /\ Max(S) \in S /\ \A y \in S : y <= Max(S)
         /\ Min(S) \in S /\ \A y \in S : Min(S) <= y
<1>1. \E x \in S : \A y \in S : x >= y
  <2>1. PICK x \in S : \A y \in S : y <= x
    BY Extremes
  <2> QED BY <2>1
<1>2. \E x \in S : \A y \in S : x =< y
  BY Extremes
<1>3. Max(S) \in S /\ \A y \in S : Max(S) >= y
  BY <1>1 DEF Max
<1>4. Min(S) \in S /\ \A y \in S : Min(S) =< y
  BY <1>2 DEF Min
<1> QED BY <1>3, <1>4

\* The levels of a bar are integers, and its close is between low and high.
LEMMA BarLevels ==
  \A b \in TapeBars : /\ b.low \in Int /\ b.close \in Int /\ b.high \in Int
                      /\ b.low <= b.close /\ b.close <= b.high
  BY IndicatorBounds DEF TapeBars

\* A true range is never negative, and no directional move exceeds it.
LEMMA TrueRangeBounds ==
  ASSUME NEW n \in Nat, NEW bars \in [1 .. n -> TapeBars], NEW i \in 2 .. n
  PROVE  /\ TrueRange(bars, i) \in Nat
         /\ bars[i].high - bars[i - 1].high <= TrueRange(bars, i)
         /\ bars[i - 1].low - bars[i].low <= TrueRange(bars, i)
<1>1. PICK h \in Int, l \in Int, c \in Int, hh \in Int, ll \in Int :
        /\ h = bars[i].high /\ l = bars[i].low
        /\ c = bars[i - 1].close /\ hh = bars[i - 1].high /\ ll = bars[i - 1].low
        /\ l <= h /\ ll <= c /\ c <= hh
  <2>1. bars[i] \in TapeBars /\ bars[i - 1] \in TapeBars
    OBVIOUS
  <2>2. /\ bars[i].low \in Int /\ bars[i].close \in Int /\ bars[i].high \in Int
        /\ bars[i].low <= bars[i].close /\ bars[i].close <= bars[i].high
    BY <2>1, BarLevels
  <2>3. /\ bars[i - 1].low \in Int /\ bars[i - 1].close \in Int /\ bars[i - 1].high \in Int
        /\ bars[i - 1].low <= bars[i - 1].close /\ bars[i - 1].close <= bars[i - 1].high
    BY <2>1, BarLevels
  <2>4. bars[i].low <= bars[i].high
    BY <2>2
  <2> QED BY <2>2, <2>3, <2>4
<1> DEFINE S == {h - l, Abs(h - c), Abs(l - c)}
<1>2. \A z \in Int : Abs(z) \in Int /\ z <= Abs(z) /\ -z <= Abs(z)
  BY DEF Abs
<1>3. S \subseteq Int /\ S # {} /\ IsFiniteSet(S)
  <2>0. h - c \in Int /\ l - c \in Int
    OBVIOUS
  <2>a. Abs(h - c) \in Int /\ Abs(l - c) \in Int
    BY <1>2, <2>0, Zenon
  <2>1. h - l \in Int /\ Abs(h - c) \in Int /\ Abs(l - c) \in Int
    BY <2>a
  <2>2. IsFiniteSet({h - l, Abs(h - c), Abs(l - c)})
    <3>1. IsFiniteSet({}) 
      BY FS_EmptySet
    <3>2. IsFiniteSet({} \cup {h - l})
      BY <3>1, FS_AddElement
    <3>3. IsFiniteSet(({} \cup {h - l}) \cup {Abs(h - c)})
      BY <3>2, FS_AddElement
    <3>4. IsFiniteSet((({} \cup {h - l}) \cup {Abs(h - c)}) \cup {Abs(l - c)})
      BY <3>3, FS_AddElement
    <3>5. (({} \cup {h - l}) \cup {Abs(h - c)}) \cup {Abs(l - c)} = S
      OBVIOUS
    <3> QED BY <3>4, <3>5
  <2> QED BY <2>1, <2>2
<1>4. TrueRange(bars, i) = Max(S)
  BY <1>1 DEF TrueRange
<1>5. Max(S) \in S /\ \A y \in S : y <= Max(S)
  <2> HIDE DEF S
  <2> QED BY <1>3, MaxIs
<1>6. PICK m \in Int : m = Max(S)
  BY <1>3, <1>5
<1>7. h - l <= m /\ Abs(h - c) <= m /\ Abs(l - c) <= m
  BY <1>5, <1>6
<1>8. h - c <= m /\ c - l <= m
  <2>1. h - c \in Int /\ l - c \in Int
    OBVIOUS
  <2>2. h - c <= Abs(h - c) /\ -(l - c) <= Abs(l - c) /\ Abs(h - c) \in Int /\ Abs(l - c) \in Int
    BY <1>2, <2>1
  <2> QED BY <1>7, <2>2
<1>9. m >= 0 /\ h - hh <= m /\ ll - l <= m
  <2>1. l <= h /\ ll <= c /\ c <= hh
    BY <1>1
  <2>2. h - l <= m
    BY <1>7
  <2> QED BY <1>8, <2>1, <2>2
<1> QED BY <1>1, <1>4, <1>6, <1>9

\* The raw values of the smoothings, by bar.
LEMMA RawValues ==
  ASSUME NEW n \in Nat, NEW bars \in [1 .. n -> TapeBars]
  PROVE  /\ DOMAIN bars = 1 .. n /\ Len(bars) = n
         /\ TrueRanges(bars) \in [1 .. n -> Nat]
         /\ \A sign \in {1, -1} : Changes(bars, sign) \in [1 .. n -> Nat]
         /\ \A i \in 1 .. n :
              /\ DirectionalMoves(bars)[i].plus \in 0 .. TrueRanges(bars)[i]
              /\ DirectionalMoves(bars)[i].minus \in 0 .. TrueRanges(bars)[i]
<1>1. DOMAIN bars = 1 .. n /\ Len(bars) = n
  BY LineLength
<1>2. \A i \in 1 .. n : bars[i] \in TapeBars
  OBVIOUS
<1>3. ASSUME NEW sign \in {1, -1} PROVE Changes(bars, sign) \in [1 .. n -> Nat]
  <2>1. ASSUME NEW i \in 1 .. n, i # 1 PROVE sign * (bars[i].close - bars[i - 1].close) \in Int
    <3>1. bars[i].close \in Int /\ bars[i - 1].close \in Int
      <4>1. bars[i] \in TapeBars /\ bars[i - 1] \in TapeBars
        BY <2>1
      <4> QED BY <4>1, BarLevels
    <3> QED BY <3>1
  <2> QED BY <1>1, <2>1 DEF Changes
<1>4. \A i \in 1 .. n : TrueRanges(bars)[i] = IF i = 1 THEN 0 ELSE TrueRange(bars, i)
  BY <1>1 DEF TrueRanges
<1>5. \A i \in 2 .. n : TrueRange(bars, i) \in Nat
  BY TrueRangeBounds
<1>6. TrueRanges(bars) \in [1 .. n -> Nat]
  <2>1. \A i \in 1 .. n : TrueRanges(bars)[i] \in Nat
    BY <1>4, <1>5
  <2> QED BY <1>1, <2>1 DEF TrueRanges
<1>7. ASSUME NEW i \in 1 .. n
      PROVE  /\ DirectionalMoves(bars)[i].plus \in 0 .. TrueRanges(bars)[i]
             /\ DirectionalMoves(bars)[i].minus \in 0 .. TrueRanges(bars)[i]
  <2>1. CASE i = 1
    BY <1>1, <1>4, <2>1 DEF DirectionalMoves
  <2>2. CASE i # 1
    <3>1. i \in 2 .. n
      BY <2>2
    <3>2. bars[i] \in TapeBars /\ bars[i - 1] \in TapeBars
      BY <2>2
    <3>3. PICK up \in Int, down \in Int : /\ up = bars[i].high - bars[i - 1].high
                                          /\ down = bars[i - 1].low - bars[i].low
      <4>1. /\ bars[i].high \in Int /\ bars[i].low \in Int
            /\ bars[i - 1].high \in Int /\ bars[i - 1].low \in Int
        BY <3>2, BarLevels
      <4>2. /\ bars[i].high - bars[i - 1].high \in Int
            /\ bars[i - 1].low - bars[i].low \in Int
        BY <4>1
      <4> QED BY <4>2, Zenon
    <3>4. TrueRange(bars, i) \in Nat /\ up <= TrueRange(bars, i) /\ down <= TrueRange(bars, i)
      BY <3>1, <3>3, TrueRangeBounds
    <3>5. DirectionalMoves(bars)[i] = [plus |-> IF up > down /\ up > 0 THEN up ELSE 0,
                                       minus |-> IF down > up /\ down > 0 THEN down ELSE 0]
      BY <1>1, <2>2, <3>3 DEF DirectionalMoves
    <3> QED BY <1>4, <2>2, <3>4, <3>5
  <2> QED BY <2>1, <2>2
<1> QED BY <1>1, <1>3, <1>6, <1>7

\* They depend on no later bar.
SameRaw(bars, others, m) ==
  \A i \in 1 .. m :
    /\ others[i] = bars[i]
    /\ TrueRanges(others)[i] = TrueRanges(bars)[i]
    /\ \A sign \in {1, -1} : Changes(others, sign)[i] = Changes(bars, sign)[i]
    /\ DirectionalMoves(others)[i] = DirectionalMoves(bars)[i]

\* On fewer bars the raw values are the same as far as they go.
LEMMA RawPrefix ==
  ASSUME NEW n \in Nat, NEW m \in 0 .. n, NEW bars \in [1 .. n -> TapeBars],
         NEW others, others = SubSeq(bars, 1, m)
  PROVE  others \in [1 .. m -> TapeBars] /\ SameRaw(bars, others, m)
<1>1. others = [i \in 1 .. m |-> bars[i]]
  OBVIOUS
<1>2. DOMAIN bars = 1 .. n /\ DOMAIN others = 1 .. m
  BY <1>1
<1>3. \A i \in 1 .. m : i \in 1 .. n /\ others[i] = bars[i] /\ (i # 1 => i - 1 \in 1 .. m)
  BY <1>1
<1>4. \A i \in 1 .. m : i # 1 => others[i - 1] = bars[i - 1]
  BY <1>3
<1> SUFFICES ASSUME NEW i \in 1 .. m
             PROVE  /\ TrueRanges(others)[i] = TrueRanges(bars)[i]
                    /\ \A sign \in {1, -1} : Changes(others, sign)[i] = Changes(bars, sign)[i]
                    /\ DirectionalMoves(others)[i] = DirectionalMoves(bars)[i]
  BY <1>1, <1>3 DEF SameRaw
<1>5. TrueRanges(others)[i] = TrueRanges(bars)[i]
  BY <1>2, <1>3, <1>4 DEF TrueRanges, TrueRange
<1>6. \A sign \in {1, -1} : Changes(others, sign)[i] = Changes(bars, sign)[i]
  BY <1>2, <1>3, <1>4 DEF Changes
<1>7. DirectionalMoves(others)[i] = DirectionalMoves(bars)[i]
  BY <1>2, <1>3, <1>4 DEF DirectionalMoves
<1> QED BY <1>5, <1>6, <1>7

-----------------------------------------------------------------------------
(* The smoothed sums of adx *)

\* The smoothed true range is at least each of the smoothed moves.
Sums == {x \in [sum : [1 .. 3 -> Nat], den : Nat \ {0}] :
           x.sum[2] <= x.sum[1] /\ x.sum[3] <= x.sum[1]}

MoveRaw(bars) ==
  [i \in 1 .. Len(bars) |->
     <<TrueRanges(bars)[i], DirectionalMoves(bars)[i].plus, DirectionalMoves(bars)[i].minus>>]

MoveSeed(bars, p) ==
  [sum |-> [j \in 1 .. 3 |-> SumOf([i \in 1 .. Len(bars) |-> MoveRaw(bars)[i][j]], 2, p + 1)],
   den |-> 1]

MoveStep(bars, p, i, x) ==
  [sum |-> [j \in 1 .. 3 |-> x.sum[j] * (p - 1) + MoveRaw(bars)[i][j] * p * x.den],
   den |-> p * x.den]

MovesRec(f, bars, p) ==
  f = [i \in p + 1 .. Len(bars) |->
         IF i = p + 1 THEN MoveSeed(bars, p) ELSE MoveStep(bars, p, i, f[i - 1])]

\* A smoothing step keeps the order of two sums.
LEMMA StepOrder ==
  ASSUME NEW a \in Nat, NEW b \in Nat, NEW r \in Nat, NEW t \in Nat, NEW q \in Nat, NEW k \in Nat
  PROVE  /\ a * q + r * k \in Nat
         /\ a <= b /\ r <= t => a * q + r * k <= b * q + t * k
<1>1. a * q \in Nat /\ r * k \in Nat /\ b * q \in Nat /\ t * k \in Nat
  OBVIOUS
<1>2. ASSUME a <= b, r <= t PROVE a * q <= b * q /\ r * k <= t * k
  <2>1. a \in Int /\ b \in Int /\ r \in Int /\ t \in Int
    OBVIOUS
  <2> QED BY <1>2, <2>1, TimesKeepsOrder
<1> QED BY <1>1, <1>2

\* A raw move is at most the true range of its bar.
LEMMA MoveRawType ==
  ASSUME NEW n \in Nat, NEW bars \in [1 .. n -> TapeBars], NEW i \in 1 .. n
  PROVE  /\ \A j \in 1 .. 3 : MoveRaw(bars)[i][j] \in Nat
         /\ MoveRaw(bars)[i][2] <= MoveRaw(bars)[i][1]
         /\ MoveRaw(bars)[i][3] <= MoveRaw(bars)[i][1]
<1>1. PICK t \in Nat, a \in Nat, b \in Nat :
        /\ a <= t /\ b <= t /\ t = TrueRanges(bars)[i]
        /\ a = DirectionalMoves(bars)[i].plus /\ b = DirectionalMoves(bars)[i].minus
  <2>1. TrueRanges(bars)[i] \in Nat
    BY RawValues
  <2>2. /\ DirectionalMoves(bars)[i].plus \in 0 .. TrueRanges(bars)[i]
        /\ DirectionalMoves(bars)[i].minus \in 0 .. TrueRanges(bars)[i]
    BY RawValues
  <2> QED BY <2>1, <2>2
<1>2. Len(bars) = n
  BY RawValues
<1>3. MoveRaw(bars)[i] = <<t, a, b>>
  BY <1>1, <1>2 DEF MoveRaw
<1>4. \A j \in 1 .. 3 : j = 1 \/ j = 2 \/ j = 3
  OBVIOUS
<1> QED BY <1>1, <1>3, <1>4

\* Seeded with sums, the smoothed moves are at most the smoothed true range,
LEMMA MoveSeedType ==
  ASSUME NEW n \in Nat, NEW bars \in [1 .. n -> TapeBars], NEW p \in Nat \ {0}, p + 1 <= n
  PROVE  MoveSeed(bars, p) \in Sums
<1>1. PICK hi \in Int : hi = p + 1
  OBVIOUS
<1>2. Len(bars) = n
  BY RawValues
<1> DEFINE row(j) == [i \in 1 .. n |-> MoveRaw(bars)[i][j]]
<1>3. ASSUME NEW i \in 2 .. hi
      PROVE  /\ \A j \in 1 .. 3 : row(j)[i] \in Nat /\ row(j)[i] \in Int
             /\ row(2)[i] <= row(1)[i] /\ row(3)[i] <= row(1)[i]
  <2>1. i \in 1 .. n
    BY <1>1
  <2>2. \A j \in 1 .. 3 : row(j)[i] = MoveRaw(bars)[i][j]
    BY <2>1
  <2> QED BY <2>1, <2>2, MoveRawType
<1>4. MoveSeed(bars, p) = [sum |-> [j \in 1 .. 3 |-> SumOf(row(j), 2, hi)], den |-> 1]
  BY <1>1, <1>2 DEF MoveSeed
<1> HIDE DEF row
<1>5. IsFiniteSet(2 .. hi)
  BY FS_Interval
<1>6. \A j \in 1 .. 3 : SumOf(row(j), 2, hi) \in Nat
  <2> TAKE j \in 1 .. 3
  <2>1. \A i \in 2 .. hi : row(j)[i] \in Nat
    BY <1>3
  <2>2. SumFunctionOnSet(row(j), 2 .. hi) \in Nat
    BY <1>5, <2>1, SumNonNegative
  <2> QED BY <2>2, SumOfIsSum
<1>7. SumOf(row(2), 2, hi) <= SumOf(row(1), 2, hi) /\ SumOf(row(3), 2, hi) <= SumOf(row(1), 2, hi)
  <2>1. 2 \in Int /\ 1 \in 1 .. 3 /\ 2 \in 1 .. 3 /\ 3 \in 1 .. 3
    OBVIOUS
  <2>2. \A i \in 2 .. hi : row(2)[i] \in Int /\ row(1)[i] \in Int /\ row(2)[i] <= row(1)[i]
    BY <1>3, <2>1
  <2>3. \A i \in 2 .. hi : row(3)[i] \in Int /\ row(1)[i] \in Int /\ row(3)[i] <= row(1)[i]
    BY <1>3, <2>1
  <2>4. SumOf(row(2), 2, hi) <= SumOf(row(1), 2, hi)
    BY <2>1, <2>2, SumOfMonotone
  <2>5. SumOf(row(3), 2, hi) <= SumOf(row(1), 2, hi)
    BY <2>1, <2>3, SumOfMonotone
  <2> QED BY <2>4, <2>5
<1> QED BY <1>4, <1>6, <1>7 DEF Sums

\* and each step keeps it so.
LEMMA MoveStepType ==
  ASSUME NEW n \in Nat, NEW bars \in [1 .. n -> TapeBars], NEW p \in Nat \ {0},
         NEW i \in 1 .. n, NEW x \in Sums
  PROVE  MoveStep(bars, p, i, x) \in Sums
<1>1. PICK s \in [1 .. 3 -> Nat], d \in Nat \ {0} : /\ x = [sum |-> s, den |-> d]
                                                    /\ s[2] <= s[1] /\ s[3] <= s[1]
  BY DEF Sums
<1>2. PICK q \in Nat, k \in Nat \ {0} : q = p - 1 /\ k = p * d
  OBVIOUS
<1> DEFINE new == [j \in 1 .. 3 |-> s[j] * q + MoveRaw(bars)[i][j] * p * d]
<1>3. MoveStep(bars, p, i, x) = [sum |-> new, den |-> k]
  BY <1>1, <1>2 DEF MoveStep
<1>4. PICK r \in [1 .. 3 -> Nat] : /\ \A j \in 1 .. 3 : r[j] = MoveRaw(bars)[i][j]
                                   /\ r[2] <= r[1] /\ r[3] <= r[1]
  <2> DEFINE rr == [j \in 1 .. 3 |-> MoveRaw(bars)[i][j]]
  <2>1. rr \in [1 .. 3 -> Nat] /\ \A j \in 1 .. 3 : rr[j] = MoveRaw(bars)[i][j]
    BY MoveRawType
  <2>2. rr[2] <= rr[1] /\ rr[3] <= rr[1]
    BY <2>1, MoveRawType
  <2> QED BY <2>1, <2>2
<1>5. \A j \in 1 .. 3 : new[j] = s[j] * q + r[j] * k
  <2> TAKE j \in 1 .. 3
  <2>1. r[j] * p * d = r[j] * (p * d)
    OBVIOUS
  <2> QED BY <1>2, <1>4, <2>1
<1>6. \A j \in 1 .. 3 : new[j] \in Nat
  <2> TAKE j \in 1 .. 3
  <2>1. s[j] \in Nat /\ r[j] \in Nat /\ k \in Nat
    OBVIOUS
  <2>2. s[j] * q + r[j] * k \in Nat
    BY <2>1, StepOrder
  <2> HIDE DEF new
  <2> QED BY <1>5, <2>2
<1>7. \A j \in {2, 3} : new[j] <= new[1]
  <2> TAKE j \in {2, 3}
  <2>1. /\ s[j] \in Nat /\ s[1] \in Nat /\ r[j] \in Nat /\ r[1] \in Nat /\ k \in Nat
        /\ s[j] <= s[1] /\ r[j] <= r[1]
    BY <1>1, <1>4
  <2>2. s[j] * q + r[j] * k <= s[1] * q + r[1] * k
    BY <2>1, StepOrder
  <2>3. new[j] = s[j] * q + r[j] * k /\ new[1] = s[1] * q + r[1] * k
    <3>1. j \in 1 .. 3 /\ 1 \in 1 .. 3
      OBVIOUS
    <3> HIDE DEF new
    <3> QED BY <1>5, <3>1
  <2> HIDE DEF new
  <2> QED BY <2>2, <2>3
<1>8. new = [j \in 1 .. 3 |-> new[j]]
  OBVIOUS
<1>9. new \in [1 .. 3 -> Nat]
  <2> HIDE DEF new
  <2> QED BY <1>6, <1>8
<1> HIDE DEF new
<1>10. [sum |-> new, den |-> k] \in [sum : [1 .. 3 -> Nat], den : Nat \ {0}]
  BY <1>9
<1>11. [sum |-> new, den |-> k].sum = new
  OBVIOUS
<1>12. new[2] <= new[1] /\ new[3] <= new[1]
  BY <1>7
<1> QED BY <1>3, <1>10, <1>11, <1>12 DEF Sums

\* The sums are those of the recursion, and within Sums.
MovesAre(f, bars, n, p) ==
  /\ f \in [p + 1 .. n -> Sums]
  /\ p + 1 <= n => f[p + 1] = MoveSeed(bars, p)
  /\ \A i \in p + 2 .. n : f[i] = MoveStep(bars, p, i, f[i - 1])

\* SmoothedMoves is what its recursion says, and keeps its type.
LEMMA MovesValue ==
  ASSUME NEW n \in Nat, NEW bars \in [1 .. n -> TapeBars], NEW p \in Nat \ {0}
  PROVE  MovesAre(SmoothedMoves(bars, p), bars, n, p)
<1>1. Len(bars) = n
  BY LineLength
<1>2. \A i \in p + 2 .. n, x \in Sums : MoveStep(bars, p, i, x) \in Sums
  <2> TAKE i \in p + 2 .. n, x \in Sums
  <2>1. i \in 1 .. n
    OBVIOUS
  <2> HIDE DEF Sums
  <2> QED BY <2>1, MoveStepType
<1> DEFINE seed == MoveSeed(bars, p)
           none == [sum |-> [j \in 1 .. 3 |-> 0], den |-> 1]
<1>a. none \in Sums
  BY DEF Sums
<1>3. \E f : MovesRec(f, bars, p)
  <2> DEFINE g == [x \in Sums \X (p + 2 .. n) |-> MoveStep(bars, p, x[2], x[1])]
             a == IF p + 1 <= n THEN seed ELSE none
  <2>1. g \in [Sums \X (p + 2 .. n) -> Sums]
    <3> SUFFICES ASSUME NEW x \in Sums \X (p + 2 .. n)
                 PROVE  MoveStep(bars, p, x[2], x[1]) \in Sums
      OBVIOUS
    <3>1. x[1] \in Sums /\ x[2] \in p + 2 .. n
      OBVIOUS
    <3> QED BY <1>2, <3>1
  <2>2. \A y \in Sums, i \in p + 2 .. n : g[<<y, i>>] = MoveStep(bars, p, i, y)
    OBVIOUS
  <2>3. a \in Sums
    BY <1>a, MoveSeedType
  <2>4. p + 1 <= n => a = seed
    OBVIOUS
  <2> HIDE DEF g, a
  <2>5. PICK lo \in Int : lo = p + 1
    OBVIOUS
  <2>6. lo + 1 = p + 2 /\ n \in Int
    BY <2>5
  <2>7. g \in [Sums \X (lo + 1 .. n) -> Sums]
    BY <2>1, <2>6
  <2>8. PICK s \in [lo .. n -> Sums] : Recursion(s, a, g, lo, n)
    BY <2>3, <2>6, <2>7, RecursionExists
  <2>9. MovesRec(s, bars, p)
    <3> DEFINE H == [i \in p + 1 .. n |->
                       IF i = p + 1 THEN seed ELSE MoveStep(bars, p, i, s[i - 1])]
    <3>1. \A i \in p + 1 .. n : s[i] = H[i]
      <4> TAKE i \in p + 1 .. n
      <4>1. i # p + 1 => i \in p + 2 .. n /\ s[i - 1] \in Sums
        BY <2>5
      <4>2. p + 1 <= n
        OBVIOUS
      <4>3. s[i] = IF i = lo THEN a ELSE g[<<s[i - 1], i>>]
        BY <2>5, <2>8 DEF Recursion
      <4> HIDE DEF seed
      <4> QED BY <2>2, <2>4, <2>5, <4>1, <4>2, <4>3
    <3>2. s = H
      BY <2>5, <3>1
    <3> QED BY <1>1, <3>2 DEF MovesRec
  <2> QED BY <2>9
<1>4. PICK f : f = (CHOOSE fn : MovesRec(fn, bars, p)) /\ MovesRec(f, bars, p)
  BY <1>3
<1>5. SmoothedMoves(bars, p) = f
  BY <1>1, <1>4 DEF SmoothedMoves, MovesRec, MoveSeed, MoveStep, MoveRaw
<1>6. \A i \in p + 1 .. n : f[i] = IF i = p + 1 THEN seed ELSE MoveStep(bars, p, i, f[i - 1])
  BY <1>1, <1>4 DEF MovesRec
<1>7. \A i \in p + 2 .. n : f[i] = MoveStep(bars, p, i, f[i - 1])
  <2> TAKE i \in p + 2 .. n
  <2>1. i \in p + 1 .. n /\ i # p + 1
    OBVIOUS
  <2> QED BY <1>6, <2>1
<1>8. p + 1 <= n => f[p + 1] = seed
  BY <1>6
<1>9. f \in [p + 1 .. n -> Sums]
  <2>1. PICK lo \in Int : lo = p + 1
    OBVIOUS
  <2>2. f = [i \in lo .. n |-> f[i]]
    BY <1>1, <1>4, <2>1 DEF MovesRec
  <2>3. lo <= n => f[lo] \in Sums
    BY <1>8, <2>1, MoveSeedType
  <2>4. \A i \in lo + 1 .. n : f[i - 1] \in Sums => f[i] \in Sums
    BY <1>2, <1>7, <2>1
  <2>5. n \in Int
    OBVIOUS
  <2>6. f \in [lo .. n -> Sums]
    BY <2>2, <2>3, <2>4, <2>5, RecursionType
  <2> QED BY <2>1, <2>6
<1> QED BY <1>5, <1>7, <1>8, <1>9 DEF MovesAre

\* Bars that come later change no sum.
LEMMA MovesPrefix ==
  ASSUME NEW n \in Nat, NEW m \in 0 .. n, NEW bars \in [1 .. n -> TapeBars],
         NEW p \in Nat \ {0}
  PROVE  Agree(SmoothedMoves(bars, p), SmoothedMoves(SubSeq(bars, 1, m), p), p + 1, m)
<1>o. PICK others : others = SubSeq(bars, 1, m)
  OBVIOUS
<1>1. PICK lo \in Int : lo = p + 1
  OBVIOUS
<1>2. others \in [1 .. m -> TapeBars] /\ m \in Nat /\ SameRaw(bars, others, m)
  <2>1. others \in [1 .. m -> TapeBars] /\ SameRaw(bars, others, m)
    BY <1>o, RawPrefix
  <2> QED BY <2>1
<1>3. Len(bars) = n /\ Len(others) = m
  BY <1>2, LineLength
<1>4. \A i \in 1 .. m : MoveRaw(others)[i] = MoveRaw(bars)[i]
  <2> TAKE i \in 1 .. m
  <2>1. /\ TrueRanges(others)[i] = TrueRanges(bars)[i]
        /\ DirectionalMoves(others)[i] = DirectionalMoves(bars)[i]
    BY <1>2 DEF SameRaw
  <2>2. i \in 1 .. n
    OBVIOUS
  <2>3. MoveRaw(others)[i] = <<TrueRanges(others)[i], DirectionalMoves(others)[i].plus,
                               DirectionalMoves(others)[i].minus>>
    BY <1>3 DEF MoveRaw
  <2>4. MoveRaw(bars)[i] = <<TrueRanges(bars)[i], DirectionalMoves(bars)[i].plus,
                             DirectionalMoves(bars)[i].minus>>
    BY <1>3, <2>2 DEF MoveRaw
  <2> QED BY <2>1, <2>3, <2>4
<1> DEFINE f == SmoothedMoves(bars, p)
           g == SmoothedMoves(others, p)
<1>a. MovesAre(f, bars, n, p)
  BY MovesValue
<1>b. MovesAre(g, others, m, p)
  BY <1>2, MovesValue
<1>5. lo <= m => g[lo] = f[lo]
  <2> HAVE lo <= m
  <2>1. f[lo] = MoveSeed(bars, p) /\ g[lo] = MoveSeed(others, p)
    <3> HIDE DEF f, g
    <3>1. lo <= n
      OBVIOUS
    <3>2. f[p + 1] = MoveSeed(bars, p)
      BY <1>1, <1>a, <3>1 DEF MovesAre
    <3>3. g[p + 1] = MoveSeed(others, p)
      BY <1>1, <1>b DEF MovesAre
    <3> QED BY <1>1, <3>2, <3>3
  <2>2. \A j \in 1 .. 3 : SumOf([i \in 1 .. m |-> MoveRaw(others)[i][j]], 2, lo)
                          = SumOf([i \in 1 .. n |-> MoveRaw(bars)[i][j]], 2, lo)
    <3> TAKE j \in 1 .. 3
    <3> DEFINE r == [i \in 1 .. n |-> MoveRaw(bars)[i][j]]
               o == [i \in 1 .. m |-> MoveRaw(others)[i][j]]
    <3>1. \A i \in 2 .. lo : o[i] = r[i]
      BY <1>1, <1>4
    <3>2. 2 \in Int
      OBVIOUS
    <3> HIDE DEF r, o
    <3>3. SumOf(o, 2, lo) = SumOf(r, 2, lo)
      BY <3>1, <3>2, SumOfSame
    <3> QED BY <3>3 DEF r, o
  <2>3. MoveSeed(others, p) = MoveSeed(bars, p)
    BY <1>1, <1>3, <2>2 DEF MoveSeed
  <2> QED BY <2>1, <2>3
<1>6. \A i \in lo + 1 .. m : g[i - 1] = f[i - 1] => g[i] = f[i]
  <2> TAKE i \in lo + 1 .. m
  <2>1. i \in p + 2 .. n /\ i \in p + 2 .. m /\ i \in 1 .. m
    BY <1>1
  <2> HIDE DEF f, g
  <2>2. f[i] = MoveStep(bars, p, i, f[i - 1])
    BY <1>a, <2>1 DEF MovesAre
  <2>3. g[i] = MoveStep(others, p, i, g[i - 1])
    BY <1>b, <2>1 DEF MovesAre
  <2>4. MoveRaw(others)[i] = MoveRaw(bars)[i]
    BY <1>4, <2>1
  <2> QED BY <2>2, <2>3, <2>4 DEF MoveStep
<1>7. Agree(f, g, lo, m)
  <2>1. m \in Int
    OBVIOUS
  <2> HIDE DEF f, g
  <2> QED BY <1>5, <1>6, <2>1, RecursionSame
<1> QED BY <1>o, <1>1, <1>7

-----------------------------------------------------------------------------
(* The lines that are drawn.  Each starts where its warm-up ends and stays  *)
(* in its range, and the line of fewer bars is a prefix of it.              *)

\* A missing value is none of the values that are drawn.
LEMMA ValuesAreValues ==
  /\ NoValue \notin Fractions /\ NoValue \notin Shares /\ Shares \subseteq Fractions
  /\ NoValue \notin [middle : Fractions, variance : Fractions]
<1>1. Fractions \subseteq Int \X Int /\ Shares \subseteq Fractions
  BY DEF Fractions, Shares
<1>2. [middle : Fractions, variance : Fractions] \subseteq [middle : Int \X Int, variance : Int \X Int]
  BY <1>1
<1> QED BY <1>1, <1>2, IndicatorBounds

\* A line of some values is a line of more.
LEMMA LineOfMore ==
  ASSUME NEW n \in Nat, NEW first, NEW S, NEW T, S \subseteq T, NEW list, IsLine(list, n, first, S)
  PROVE  IsLine(list, n, first, T)
  BY DEF IsLine

\* The closes are a line that starts at the first bar.
LEMMA ClosesLine ==
  ASSUME NEW n \in Nat, NEW bars \in [1 .. n -> TapeBars]
  PROVE  /\ IsLine(Closes(bars), n, 1, Fractions)
         /\ \A lo, hi \in Int : (\A i \in 1 .. n : lo <= bars[i].close /\ bars[i].close <= hi)
              => \A i \in 1 .. n : Within(Closes(bars)[i], lo, hi)
         /\ \A m \in 0 .. n : Closes(SubSeq(bars, 1, m)) = SubSeq(Closes(bars), 1, m)
<1>1. DOMAIN bars = 1 .. n
  OBVIOUS
<1>2. \A i \in 1 .. n : bars[i].close \in Int
  BY BarLevels
<1>3. \A i \in 1 .. n : Closes(bars)[i] = <<bars[i].close, 1>> /\ Closes(bars)[i] \in Fractions
  BY <1>1, <1>2 DEF Closes, Fractions
<1>4. IsLine(Closes(bars), n, 1, Fractions)
  <2>1. Closes(bars) = [i \in 1 .. n |-> Closes(bars)[i]]
    BY <1>1 DEF Closes
  <2> HIDE DEF Fractions
  <2> QED BY <1>3, <2>1 DEF IsLine
<1>5. ASSUME NEW lo \in Int, NEW hi \in Int,
             \A i \in 1 .. n : lo <= bars[i].close /\ bars[i].close <= hi
      PROVE  \A i \in 1 .. n : Within(Closes(bars)[i], lo, hi)
  <2> TAKE i \in 1 .. n
  <2>1. PICK c \in Int : c = bars[i].close
    BY <1>2
  <2>2. Closes(bars)[i] = <<c, 1>>
    BY <1>3, <2>1
  <2>3. lo <= c /\ c <= hi
    BY <1>5, <2>1
  <2> QED BY <2>2, <2>3 DEF Within
<1>6. ASSUME NEW m \in 0 .. n PROVE Closes(SubSeq(bars, 1, m)) = SubSeq(Closes(bars), 1, m)
  <2>1. SubSeq(bars, 1, m) = [i \in 1 .. m |-> bars[i]]
    OBVIOUS
  <2>2. Closes(SubSeq(bars, 1, m)) = [i \in 1 .. m |-> <<bars[i].close, 1>>]
    BY <2>1 DEF Closes
  <2>3. SubSeq(Closes(bars), 1, m) = [i \in 1 .. m |-> Closes(bars)[i]]
    BY <1>1 DEF Closes
  <2>4. \A i \in 1 .. m : Closes(bars)[i] = <<bars[i].close, 1>>
    BY <1>3
  <2> QED BY <2>2, <2>3, <2>4
<1> QED BY <1>4, <1>5, <1>6

\* The average starts at bar p, stays within the closes and does not repaint.
LEMMA EmaIs ==
  ASSUME NEW n \in Nat, NEW bars \in [1 .. n -> TapeBars], NEW p \in Nat \ {0}
  PROVE  /\ IsLine(Ema(bars, p), n, p, Fractions)
         /\ \A lo, hi \in Int : (\A i \in 1 .. n : lo <= bars[i].close /\ bars[i].close <= hi)
              => \A i \in p .. n : Within(Ema(bars, p)[i], lo, hi)
         /\ \A m \in 0 .. n : Ema(SubSeq(bars, 1, m), p) = SubSeq(Ema(bars, p), 1, m)
<1> DEFINE c == Closes(bars)
<1>1. IsLine(c, n, 1, Fractions)
  BY ClosesLine
<1>2. PICK w \in Nat : w = p - 1 /\ 2 + w # 0
  OBVIOUS
<1>3. 1 + p - 1 = p
  OBVIOUS
<1>4. Ema(bars, p) = Blended(c, 1, p, 2, w)
  BY <1>2, <1>3 DEF Ema, Smoothed
<1>5. 1 \in Nat \ {0} /\ 1 <= p /\ p \in Nat /\ 2 \in Nat
  OBVIOUS
<1>6. /\ IsLine(Blended(c, 1, p, 2, w), n, p, Fractions)
      /\ \A lo, hi \in Int : (\A i \in 1 .. n : Within(c[i], lo, hi))
           => \A i \in p .. n : Within(Blended(c, 1, p, 2, w)[i], lo, hi)
  <2> HIDE DEF c
  <2> QED BY <1>1, <1>2, <1>5, BlendIsLine
<1>7. ASSUME NEW lo \in Int, NEW hi \in Int,
             \A i \in 1 .. n : lo <= bars[i].close /\ bars[i].close <= hi
      PROVE  \A i \in p .. n : Within(Ema(bars, p)[i], lo, hi)
  <2>1. \A i \in 1 .. n : Within(c[i], lo, hi)
    BY <1>7, ClosesLine
  <2> HIDE DEF c
  <2> QED BY <1>4, <1>6, <2>1
<1>8. ASSUME NEW m \in 0 .. n PROVE Ema(SubSeq(bars, 1, m), p) = SubSeq(Ema(bars, p), 1, m)
  <2> DEFINE o == Closes(SubSeq(bars, 1, m))
  <2>1. o = SubSeq(c, 1, m)
    BY ClosesLine
  <2>2. Ema(SubSeq(bars, 1, m), p) = Blended(o, 1, p, 2, w)
    BY <1>2, <1>3 DEF Ema, Smoothed
  <2> HIDE DEF c, o
  <2>a. Shorter(c, n, m, 1, p, 2, w)
    BY <1>1, <1>2, <1>5, BlendPrefix
  <2>3. Blended(o, 1, p, 2, w) = SubSeq(Blended(c, 1, p, 2, w), 1, m)
    BY <2>1, <2>a DEF Shorter
  <2> QED BY <1>4, <2>2, <2>3
<1> QED BY <1>4, <1>6, <1>7, <1>8

\* ATR starts at bar p + 1, stays within the true ranges and does not repaint.
LEMMA AtrIs ==
  ASSUME NEW n \in Nat, NEW bars \in [1 .. n -> TapeBars], NEW p \in Nat \ {0}
  PROVE  /\ IsLine(Atr(bars, p), n, p + 1, Fractions)
         /\ \A high \in Nat : (\A i \in 1 .. n : TrueRanges(bars)[i] <= high)
              => \A i \in p + 1 .. n : Within(Atr(bars, p)[i], 0, high)
         /\ \A m \in 0 .. n : Atr(SubSeq(bars, 1, m), p) = SubSeq(Atr(bars, p), 1, m)
<1>1. TrueRanges(bars) \in [1 .. n -> Nat]
  BY RawValues
<1>2. IsLine(Wilder(TrueRanges(bars), p), n, p + 1, Shares)
  BY <1>1, WilderIsLine
<1>3. IsLine(Wilder(TrueRanges(bars), p), n, p + 1, Fractions)
  BY <1>2, LineOfMore, ValuesAreValues
<1>4. ASSUME NEW high \in Nat, \A i \in 1 .. n : TrueRanges(bars)[i] <= high
      PROVE  \A i \in p + 1 .. n : Within(Wilder(TrueRanges(bars), p)[i], 0, high)
  <2> HIDE DEF TrueRanges
  <2> QED BY <1>1, <1>4, WilderIsLine
<1>5. ASSUME NEW m \in 0 .. n PROVE Atr(SubSeq(bars, 1, m), p) = SubSeq(Atr(bars, p), 1, m)
  <2> DEFINE o == SubSeq(bars, 1, m)
  <2>1. o \in [1 .. m -> TapeBars] /\ SameRaw(bars, o, m)
    BY RawPrefix
  <2>2. TrueRanges(o) \in [1 .. m -> Nat]
    <3>1. m \in Nat
      OBVIOUS
    <3> HIDE DEF o
    <3> QED BY <2>1, <3>1, RawValues
  <2>3. Agree(TrueRanges(bars), TrueRanges(o), 1, m)
    BY <2>1 DEF SameRaw, Agree
  <2> HIDE DEF o
  <2>4. Wilder(TrueRanges(o), p) = SubSeq(Wilder(TrueRanges(bars), p), 1, m)
    BY <1>1, <2>2, <2>3, WilderPrefix
  <2> QED BY <2>4 DEF Atr, o
<1> QED BY <1>3, <1>4, <1>5 DEF Atr

\* RSI starts at bar p + 1, stays between 0 and 100 and does not repaint.
LEMMA RsiIs ==
  ASSUME NEW n \in Nat, NEW bars \in [1 .. n -> TapeBars], NEW p \in Nat \ {0}
  PROVE  /\ IsLine(Rsi(bars, p), n, p + 1, Fractions)
         /\ \A i \in p + 1 .. n : Within(Rsi(bars, p)[i], 0, 100)
         /\ \A m \in 0 .. n : Rsi(SubSeq(bars, 1, m), p) = SubSeq(Rsi(bars, p), 1, m)
<1>1. PICK lo \in Int : lo = p + 1
  OBVIOUS
<1> DEFINE gain == Wilder(Changes(bars, 1), p)
           loss == Wilder(Changes(bars, -1), p)
           r == [i \in lo .. n |-> RsiFrom(gain[i], loss[i])]
<1>2. Len(bars) = n /\ Changes(bars, 1) \in [1 .. n -> Nat] /\ Changes(bars, -1) \in [1 .. n -> Nat]
  BY RawValues
<1>3. IsLine(gain, n, lo, Shares) /\ IsLine(loss, n, lo, Shares)
  <2>1. IsLine(gain, n, p + 1, Shares)
    BY <1>2, WilderIsLine
  <2>2. IsLine(loss, n, p + 1, Shares)
    BY <1>2, WilderIsLine
  <2> HIDE DEF gain, loss
  <2> QED BY <1>1, <2>1, <2>2
<1>4. Rsi(bars, p) = From(n, lo, r)
  BY <1>1, <1>2 DEF Rsi
<1>5. \A g, l \in Shares : RsiFrom(g, l) \in Fractions /\ Within(RsiFrom(g, l), 0, 100)
  <2> TAKE g, l \in Shares
  <2>1. PICK a \in Nat, d \in Nat \ {0} : g = <<a, d>>
    BY ShareParts
  <2>2. PICK b \in Nat, e \in Nat \ {0} : l = <<b, e>>
    BY ShareParts
  <2>3. RsiFrom(g, l) = IF b = 0 /\ a = 0 THEN <<50, 1>> ELSE <<100 * a, a + b>>
    BY <2>1, <2>2 DEF RsiFrom
  <2> QED BY <2>3 DEF Fractions, Within
<1>6. \A i \in lo .. n : gain[i] \in Shares /\ loss[i] \in Shares
  <2> HIDE DEF gain, loss
  <2>1. \A i \in lo .. n : i \in 1 .. n /\ ~(i < lo)
    BY <1>1
  <2> QED BY <1>3, <2>1 DEF IsLine
<1>7. \A i \in lo .. n : r[i] \in Fractions /\ Within(r[i], 0, 100)
  <2> TAKE i \in lo .. n
  <2>1. r[i] = RsiFrom(gain[i], loss[i])
    OBVIOUS
  <2> HIDE DEF gain, loss, r
  <2> QED BY <1>5, <1>6, <2>1
<1>8. IsLine(From(n, lo, r), n, lo, Fractions)
  <2> HIDE DEF r
  <2> QED BY <1>7, FromIsLine
<1>9. \A i \in lo .. n : Within(From(n, lo, r)[i], 0, 100)
  <2> TAKE i \in lo .. n
  <2> HIDE DEF r
  <2>1. From(n, lo, r)[i] = r[i]
    BY <1>1 DEF From
  <2> QED BY <1>7, <2>1
<1>10. ASSUME NEW m \in 0 .. n PROVE Rsi(SubSeq(bars, 1, m), p) = SubSeq(Rsi(bars, p), 1, m)
  <2>1. PICK o : o = SubSeq(bars, 1, m)
    OBVIOUS
  <2>2. o \in [1 .. m -> TapeBars] /\ SameRaw(bars, o, m)
    BY <2>1, RawPrefix
  <2>3. m \in Nat
    OBVIOUS
  <2>4. Len(o) = m /\ Changes(o, 1) \in [1 .. m -> Nat] /\ Changes(o, -1) \in [1 .. m -> Nat]
    BY <2>2, <2>3, RawValues
  <2>5. /\ Agree(Changes(bars, 1), Changes(o, 1), 1, m)
        /\ Agree(Changes(bars, -1), Changes(o, -1), 1, m)
    BY <2>2 DEF SameRaw, Agree
  <2> DEFINE g == Wilder(Changes(o, 1), p)
             l == Wilder(Changes(o, -1), p)
             s == [i \in lo .. m |-> RsiFrom(g[i], l[i])]
  <2>6. g = SubSeq(gain, 1, m)
    BY <1>2, <2>4, <2>5, WilderPrefix
  <2>7. l = SubSeq(loss, 1, m)
    BY <1>2, <2>4, <2>5, WilderPrefix
  <2>8. Rsi(o, p) = From(m, lo, s)
    BY <1>1, <2>4 DEF Rsi
  <2>9. \A i \in lo .. m : s[i] = RsiFrom(g[i], l[i]) /\ r[i] = RsiFrom(gain[i], loss[i])
    OBVIOUS
  <2> HIDE DEF g, l, s, gain, loss, r
  <2>10. \A i \in 1 .. m : g[i] = gain[i] /\ l[i] = loss[i]
    BY <1>3, <2>6, <2>7 DEF IsLine
  <2>11. Agree(r, s, lo, m)
    <3>1. \A i \in lo .. m : i \in 1 .. m
      BY <1>1
    <3> QED BY <2>9, <2>10, <3>1 DEF Agree
  <2>12. From(m, lo, s) = SubSeq(From(n, lo, r), 1, m)
    BY <2>11, FromPrefix
  <2> QED BY <1>4, <2>1, <2>8, <2>12
<1> HIDE DEF r
<1> QED BY <1>1, <1>4, <1>8, <1>9, <1>10

Bands == [middle : Fractions, variance : Fractions]

CloseOf(bars) == [i \in DOMAIN bars |-> bars[i].close]
SquareOf(bars) == [i \in DOMAIN bars |-> CloseOf(bars)[i] * CloseOf(bars)[i]]

BandAt(bars, p, i) ==
  LET sum == SumOf(CloseOf(bars), i - p + 1, i)
  IN  [middle |-> <<sum, p>>,
       variance |-> <<p * SumOf(SquareOf(bars), i - p + 1, i) - sum * sum, p * p>>]

\* A band is in the range of what it is the band of, and its deviation is a real number.
LEMMA BandIs ==
  ASSUME NEW n \in Nat, NEW bars \in [1 .. n -> TapeBars], NEW p \in Nat \ {0}, NEW i \in p .. n
  PROVE  /\ BandAt(bars, p, i) \in Bands
         /\ BandAt(bars, p, i).variance[1] >= 0
         /\ \A low, high \in Int :
              (\A j \in 1 .. n : low <= bars[j].close /\ bars[j].close <= high)
              => Within(BandAt(bars, p, i).middle, low, high)
<1>1. PICK lo \in Int : lo = i - p + 1 /\ i - lo + 1 = p /\ lo <= i /\ lo >= 1
  OBVIOUS
<1>2. DOMAIN bars = 1 .. n
  OBVIOUS
<1> DEFINE f == CloseOf(bars)
           q == SquareOf(bars)
<1>3. \A j \in 1 .. n : bars[j].close \in Int
  BY BarLevels
<1>4. \A j \in lo .. i : j \in 1 .. n
  BY <1>1
<1>5. \A j \in 1 .. n : f[j] = bars[j].close
  BY <1>2 DEF CloseOf
<1>6. \A j \in 1 .. n : q[j] = f[j] * f[j]
  BY <1>2 DEF SquareOf
<1>7. \A j \in lo .. i : f[j] \in Int /\ q[j] = f[j] * f[j]
  <2> HIDE DEF f, q
  <2> QED BY <1>3, <1>4, <1>5, <1>6
<1>8. BandAt(bars, p, i) =
        [middle |-> <<SumOf(f, lo, i), p>>,
         variance |-> <<p * SumOf(q, lo, i) - SumOf(f, lo, i) * SumOf(f, lo, i), p * p>>]
  BY <1>1 DEF BandAt
<1> HIDE DEF f, q
<1>9. /\ SumOf(q, lo, i) \in Int /\ SumOf(f, lo, i) \in Int
      /\ (i - lo + 1) * SumOf(q, lo, i) - SumOf(f, lo, i) * SumOf(f, lo, i) >= 0
  <2>1. i \in Int
    OBVIOUS
  <2> QED BY <1>1, <1>7, <2>1, VarianceNotNegative
<1>10. PICK s \in Int, t \in Int : s = SumOf(f, lo, i) /\ t = SumOf(q, lo, i)
  BY <1>9
<1>11. p * t - s * s >= 0
  BY <1>1, <1>9, <1>10
<1>12. BandAt(bars, p, i) = [middle |-> <<s, p>>, variance |-> <<p * t - s * s, p * p>>]
  BY <1>8, <1>10
<1>13. <<s, p>> \in Fractions /\ <<p * t - s * s, p * p>> \in Fractions
  <2>1. p * t - s * s \in Int /\ p * p \in Nat \ {0}
    OBVIOUS
  <2> QED BY <2>1 DEF Fractions
<1>14. ASSUME NEW low \in Int, NEW high \in Int,
              \A j \in 1 .. n : low <= bars[j].close /\ bars[j].close <= high
       PROVE  Within(<<s, p>>, low, high)
  <2>1. \A j \in lo .. i : f[j] \in Int /\ low <= f[j] /\ f[j] <= high
    BY <1>4, <1>5, <1>7, <1>14
  <2>2. lo <= i + 1 /\ i \in Int
    BY <1>1
  <2>3. low * (i - lo + 1) <= SumOf(f, lo, i) /\ SumOf(f, lo, i) <= high * (i - lo + 1)
    BY <2>1, <2>2, SumOfBounds
  <2>4. low * p <= s /\ s <= high * p
    BY <1>1, <1>10, <2>3
  <2> QED BY <2>4 DEF Within
<1>15. BandAt(bars, p, i) \in Bands
  <2> HIDE DEF Fractions
  <2> QED BY <1>12, <1>13 DEF Bands
<1>16. BandAt(bars, p, i).middle = <<s, p>> /\ BandAt(bars, p, i).variance = <<p * t - s * s, p * p>>
  BY <1>12
<1>17. BandAt(bars, p, i).variance[1] = p * t - s * s
  BY <1>16
<1>18. \A low, high \in Int :
         (\A j \in 1 .. n : low <= bars[j].close /\ bars[j].close <= high)
         => Within(BandAt(bars, p, i).middle, low, high)
  BY <1>14, <1>16
<1> QED BY <1>11, <1>15, <1>17, <1>18

\* The bands start at bar p, are those of the p closes up to each bar, and do not repaint.
LEMMA BbandsIs ==
  ASSUME NEW n \in Nat, NEW bars \in [1 .. n -> TapeBars], NEW p \in Nat \ {0}
  PROVE  /\ IsLine(Bbands(bars, p), n, p, Bands)
         /\ \A i \in p .. n : Bbands(bars, p)[i] = BandAt(bars, p, i)
         /\ \A m \in 0 .. n : Bbands(SubSeq(bars, 1, m), p) = SubSeq(Bbands(bars, p), 1, m)
<1>1. Len(bars) = n
  BY RawValues
<1> DEFINE at(b, k) == [i \in p .. k |-> BandAt(b, p, i)]
<1>2. Bbands(bars, p) = From(n, p, at(bars, n))
  BY <1>1 DEF Bbands, BandAt, CloseOf, SquareOf
<1>3. IsLine(From(n, p, at(bars, n)), n, p, Bands)
  <2>1. \A i \in p .. n : at(bars, n)[i] \in Bands
    BY BandIs
  <2>2. p \in Int
    OBVIOUS
  <2> HIDE DEF at
  <2> QED BY <2>1, <2>2, FromIsLine
<1>4. \A i \in p .. n : From(n, p, at(bars, n))[i] = BandAt(bars, p, i)
  BY DEF From
<1>5. ASSUME NEW m \in 0 .. n PROVE Bbands(SubSeq(bars, 1, m), p) = SubSeq(Bbands(bars, p), 1, m)
  <2>1. PICK o : o = SubSeq(bars, 1, m)
    OBVIOUS
  <2>2. o \in [1 .. m -> TapeBars] /\ SameRaw(bars, o, m)
    BY <2>1, RawPrefix
  <2>3. m \in Nat /\ DOMAIN o = 1 .. m /\ DOMAIN bars = 1 .. n
    BY <2>2
  <2>4. Len(o) = m
    BY <2>2, <2>3, RawValues
  <2>5. Bbands(o, p) = From(m, p, at(o, m))
    BY <2>4 DEF Bbands, BandAt, CloseOf, SquareOf
  <2>6. ASSUME NEW i \in p .. m PROVE BandAt(o, p, i) = BandAt(bars, p, i)
    <3>1. \A j \in i - p + 1 .. i : j \in 1 .. m /\ j \in 1 .. n
      OBVIOUS
    <3>2. \A j \in i - p + 1 .. i : o[j] = bars[j]
      BY <2>2, <3>1 DEF SameRaw
    <3>3. \A j \in i - p + 1 .. i : CloseOf(o)[j] = CloseOf(bars)[j]
      BY <2>3, <3>1, <3>2 DEF CloseOf
    <3>4. \A j \in i - p + 1 .. i : SquareOf(o)[j] = SquareOf(bars)[j]
      BY <2>3, <3>1, <3>3 DEF SquareOf
    <3>5. i - p + 1 \in Int /\ i \in Int
      OBVIOUS
    <3>6. SumOf(CloseOf(o), i - p + 1, i) = SumOf(CloseOf(bars), i - p + 1, i)
      BY <3>3, <3>5, SumOfSame
    <3>7. SumOf(SquareOf(o), i - p + 1, i) = SumOf(SquareOf(bars), i - p + 1, i)
      BY <3>4, <3>5, SumOfSame
    <3> QED BY <3>6, <3>7 DEF BandAt
  <2>7. Agree(at(bars, n), at(o, m), p, m)
    BY <2>6 DEF Agree
  <2>8. p \in Int
    OBVIOUS
  <2> HIDE DEF at
  <2>9. From(m, p, at(o, m)) = SubSeq(From(n, p, at(bars, n)), 1, m)
    BY <2>7, <2>8, FromPrefix
  <2> QED BY <1>2, <2>1, <2>5, <2>9
<1> HIDE DEF at
<1> QED BY <1>2, <1>3, <1>4, <1>5

\* A difference of fractions is a fraction.
LEMMA MinusType ==
  ASSUME NEW a \in Fractions, NEW b \in Fractions
  PROVE  Minus(a, b) \in Fractions
<1>1. <<-b[1], b[2]>> \in Fractions
  BY DEF Fractions
<1> HIDE DEF Fractions
<1> QED BY <1>1, PlusValue DEF Minus

\* The difference of two lines starts where the later of them does.
Between(f, g, n) == [i \in 1 .. n |-> IF f[i] # NoValue /\ g[i] # NoValue THEN Minus(f[i], g[i])
                                                                          ELSE NoValue]

\* A difference of lines starts where the later one does.
LEMMA BetweenIsLine ==
  ASSUME NEW n \in Nat, NEW a \in Int, NEW b \in Int, a <= b, NEW f, NEW g,
         IsLine(f, n, a, Fractions), IsLine(g, n, b, Fractions)
  PROVE  IsLine(Between(f, g, n), n, b, Fractions)
<1>1. \A i \in 1 .. n : /\ IF i < a THEN f[i] = NoValue ELSE f[i] \in Fractions
                        /\ IF i < b THEN g[i] = NoValue ELSE g[i] \in Fractions
  BY DEF IsLine
<1>2. \A i \in 1 .. n : Between(f, g, n)[i] =
        IF f[i] # NoValue /\ g[i] # NoValue THEN Minus(f[i], g[i]) ELSE NoValue
  BY DEF Between
<1>3. \A i \in 1 .. n : IF i < b THEN Between(f, g, n)[i] = NoValue
                                 ELSE Between(f, g, n)[i] \in Fractions
  <2> TAKE i \in 1 .. n
  <2>1. CASE i < b
    BY <1>1, <1>2, <2>1
  <2>2. CASE ~(i < b)
    <3>1. ~(i < a) /\ f[i] \in Fractions /\ g[i] \in Fractions
      BY <1>1, <2>2
    <3> HIDE DEF Fractions
    <3>2. f[i] # NoValue /\ g[i] # NoValue
      BY <3>1, ValuesAreValues
    <3>3. Minus(f[i], g[i]) \in Fractions
      BY <3>1, MinusType
    <3> QED BY <1>2, <2>2, <3>2, <3>3
  <2> QED BY <2>1, <2>2
<1>4. Between(f, g, n) = [i \in 1 .. n |-> Between(f, g, n)[i]]
  BY DEF Between
<1> HIDE DEF Fractions
<1> QED BY <1>3, <1>4 DEF IsLine

ShorterBetween(f, g, n, m) ==
  Between(SubSeq(f, 1, m), SubSeq(g, 1, m), m) = SubSeq(Between(f, g, n), 1, m)

\* A difference of shorter lines is the same as far as it goes.
LEMMA BetweenPrefix ==
  ASSUME NEW n \in Nat, NEW m \in 0 .. n, NEW a, NEW b, NEW f, NEW g,
         IsLine(f, n, a, Fractions), IsLine(g, n, b, Fractions)
  PROVE  ShorterBetween(f, g, n, m)
<1>1. SubSeq(f, 1, m) = [i \in 1 .. m |-> f[i]] /\ SubSeq(g, 1, m) = [i \in 1 .. m |-> g[i]]
  BY DEF IsLine
<1>2. SubSeq(Between(f, g, n), 1, m) = [i \in 1 .. m |-> Between(f, g, n)[i]]
  BY DEF Between
<1>3. \A i \in 1 .. m : i \in 1 .. n /\ Between(SubSeq(f, 1, m), SubSeq(g, 1, m), m)[i]
                                        = Between(f, g, n)[i]
  BY <1>1 DEF Between
<1>4. Between(SubSeq(f, 1, m), SubSeq(g, 1, m), m)
        = [i \in 1 .. m |-> Between(SubSeq(f, 1, m), SubSeq(g, 1, m), m)[i]]
  BY DEF Between
<1> HIDE DEF Between
<1> QED BY <1>2, <1>3, <1>4 DEF ShorterBetween

\* macd with the periods p and p + 1, and a signal of period p.
LEMMA MacdIs ==
  ASSUME NEW n \in Nat, NEW bars \in [1 .. n -> TapeBars], NEW p \in Nat \ {0}
  PROVE  LET now == Macd(bars, p, p + 1, p)
         IN  /\ IsLine(now.macd, n, p + 1, Fractions)
             /\ IsLine(now.signal, n, 2 * p, Fractions)
             /\ IsLine(now.hist, n, 2 * p, Fractions)
             /\ \A m \in 0 .. n :
                  LET before == Macd(SubSeq(bars, 1, m), p, p + 1, p)
                  IN  /\ before.macd = SubSeq(now.macd, 1, m)
                      /\ before.signal = SubSeq(now.signal, 1, m)
                      /\ before.hist = SubSeq(now.hist, 1, m)
<1>1. PICK slow \in Nat \ {0} : slow = p + 1
  OBVIOUS
<1>2. PICK seed \in Nat : seed = 2 * p
  OBVIOUS
<1>3. PICK w \in Nat : w = p - 1 /\ 2 + w # 0
  OBVIOUS
<1>4. p \in Int /\ slow \in Int /\ seed \in Int /\ p <= slow /\ slow <= seed /\ 2 \in Nat
  BY <1>1, <1>2
<1>5. slow + p - 1 = seed
  BY <1>1, <1>2
<1>6. Max({p, slow}) = slow
  <2>1. {p, slow} \subseteq Int /\ {p, slow} # {}
    BY <1>4
  <2>2. IsFiniteSet({p, slow})
    <3>1. IsFiniteSet({p}) /\ {p} \cup {slow} = {p, slow}
      BY FS_Singleton
    <3>2. IsFiniteSet({p} \cup {slow})
      BY <3>1, FS_AddElement
    <3> QED BY <3>1, <3>2
  <2>3. Max({p, slow}) \in {p, slow} /\ \A y \in {p, slow} : y <= Max({p, slow})
    BY <2>1, <2>2, MaxIs
  <2> QED BY <1>1, <2>3
<1> DEFINE line == Between(Ema(bars, p), Ema(bars, slow), n)
           signal == Blended(line, slow, seed, 2, w)
<1>7. DOMAIN bars = 1 .. n
  OBVIOUS
<1>8. MacdLine(bars, p, slow) = line
  BY <1>7 DEF MacdLine, Between
<1>9. Macd(bars, p, slow, p) = [macd |-> line, signal |-> signal, hist |-> Between(line, signal, n)]
  <2> HIDE DEF line
  <2> QED BY <1>3, <1>5, <1>6, <1>7, <1>8 DEF Macd, Smoothed, Between
<1>10. IsLine(Ema(bars, p), n, p, Fractions) /\ IsLine(Ema(bars, slow), n, slow, Fractions)
  BY EmaIs
<1>11. IsLine(line, n, slow, Fractions)
  BY <1>4, <1>10, BetweenIsLine
<1>12. IsLine(signal, n, seed, Fractions)
  <2> HIDE DEF line
  <2> QED BY <1>3, <1>4, <1>11, BlendIsLine
<1>13. IsLine(Between(line, signal, n), n, seed, Fractions)
  <2> HIDE DEF line, signal
  <2> QED BY <1>4, <1>11, <1>12, BetweenIsLine
<1>14. ASSUME NEW m \in 0 .. n
       PROVE  LET before == Macd(SubSeq(bars, 1, m), p, slow, p)
              IN  /\ before.macd = SubSeq(line, 1, m)
                  /\ before.signal = SubSeq(signal, 1, m)
                  /\ before.hist = SubSeq(Between(line, signal, n), 1, m)
  <2>1. PICK o : o = SubSeq(bars, 1, m)
    OBVIOUS
  <2>2. o \in [1 .. m -> TapeBars] /\ DOMAIN o = 1 .. m
    BY <2>1, RawPrefix
  <2> DEFINE ol == Between(Ema(o, p), Ema(o, slow), m)
             os == Blended(ol, slow, seed, 2, w)
  <2>3. MacdLine(o, p, slow) = ol
    BY <2>2 DEF MacdLine, Between
  <2>4. Macd(o, p, slow, p) = [macd |-> ol, signal |-> os, hist |-> Between(ol, os, m)]
    <3> HIDE DEF ol
    <3> QED BY <1>3, <1>5, <1>6, <2>2, <2>3 DEF Macd, Smoothed, Between
  <2>5. Ema(o, p) = SubSeq(Ema(bars, p), 1, m)
    BY <2>1, EmaIs
  <2>6. Ema(o, slow) = SubSeq(Ema(bars, slow), 1, m)
    BY <2>1, EmaIs
  <2>7. ol = SubSeq(line, 1, m)
    <3>1. ShorterBetween(Ema(bars, p), Ema(bars, slow), n, m)
      BY <1>10, BetweenPrefix
    <3> QED BY <2>5, <2>6, <3>1 DEF ShorterBetween
  <2>8. os = SubSeq(signal, 1, m)
    <3> HIDE DEF line, ol
    <3>1. Shorter(line, n, m, slow, seed, 2, w)
      BY <1>3, <1>4, <1>11, BlendPrefix
    <3> QED BY <2>7, <3>1 DEF Shorter
  <2>9. Between(ol, os, m) = SubSeq(Between(line, signal, n), 1, m)
    <3> HIDE DEF line, signal, ol, os
    <3>1. ShorterBetween(line, signal, n, m)
      BY <1>11, <1>12, BetweenPrefix
    <3> QED BY <2>7, <2>8, <3>1 DEF ShorterBetween
  <2> HIDE DEF line, signal, ol, os
  <2> QED BY <2>1, <2>4, <2>7, <2>8, <2>9
<1> HIDE DEF line, signal
<1> QED BY <1>1, <1>2, <1>9, <1>11, <1>12, <1>13, <1>14

\* The directional indicators and what they are averaged from.
LEMMA DirectionIs ==
  \A x \in Sums : /\ DX(x.sum) \in Fractions /\ Within(DX(x.sum), 0, 100)
                  /\ \A j \in {2, 3} : DI(x.sum, j) \in Fractions /\ Within(DI(x.sum, j), 0, 100)
<1> TAKE x \in Sums
<1>1. PICK a \in Nat, b \in Nat, c \in Nat :
        x.sum[1] = a /\ x.sum[2] = b /\ x.sum[3] = c /\ b <= a /\ c <= a
  BY DEF Sums
<1>2. DX(x.sum) = IF a = 0 \/ b + c = 0 THEN <<0, 1>> ELSE <<100 * Abs(b - c), b + c>>
  BY <1>1 DEF DX
<1>3. PICK d \in Nat : d = Abs(b - c) /\ d <= b + c
  <2>1. Abs(b - c) \in Nat /\ Abs(b - c) <= b + c
    BY DEF Abs
  <2> QED BY <2>1
<1>4. DX(x.sum) \in Fractions /\ Within(DX(x.sum), 0, 100)
  BY <1>2, <1>3 DEF Fractions, Within
<1>5. ASSUME NEW j \in {2, 3} PROVE DI(x.sum, j) \in Fractions /\ Within(DI(x.sum, j), 0, 100)
  <2>1. PICK e \in Nat : e = x.sum[j] /\ e <= a
    BY <1>1
  <2>2. DI(x.sum, j) = IF a = 0 THEN <<0, 1>> ELSE <<100 * e, a>>
    BY <1>1, <2>1 DEF DI
  <2> QED BY <2>1, <2>2 DEF Fractions, Within
<1> QED BY <1>4, <1>5

DxOf(bars, p, n) == From(n, p + 1, [i \in p + 1 .. n |-> DX(SmoothedMoves(bars, p)[i].sum)])
DiOf(bars, p, n, j) ==
  From(n, p + 1, [i \in p + 1 .. n |-> DI(SmoothedMoves(bars, p)[i].sum, j)])

\* DX starts at bar p + 1, stays between 0 and 100 and does not repaint.
LEMMA DxIs ==
  ASSUME NEW n \in Nat, NEW bars \in [1 .. n -> TapeBars], NEW p \in Nat \ {0}
  PROVE  /\ IsLine(DxOf(bars, p, n), n, p + 1, Fractions)
         /\ \A i \in p + 1 .. n : Within(DxOf(bars, p, n)[i], 0, 100)
         /\ \A m \in 0 .. n : DxOf(SubSeq(bars, 1, m), p, m) = SubSeq(DxOf(bars, p, n), 1, m)
<1>1. PICK lo \in Int : lo = p + 1
  OBVIOUS
<1> DEFINE f == [i \in lo .. n |-> DX(SmoothedMoves(bars, p)[i].sum)]
<1>2. DxOf(bars, p, n) = From(n, lo, f)
  BY <1>1 DEF DxOf
<1>3. \A i \in lo .. n : f[i] \in Fractions /\ Within(f[i], 0, 100)
  <2> TAKE i \in lo .. n
  <2>1. SmoothedMoves(bars, p)[i] \in Sums
    <3>1. MovesAre(SmoothedMoves(bars, p), bars, n, p)
      BY MovesValue
    <3> QED BY <1>1, <3>1 DEF MovesAre
  <2>2. f[i] = DX(SmoothedMoves(bars, p)[i].sum)
    OBVIOUS
  <2> HIDE DEF f
  <2> QED BY <2>1, <2>2, DirectionIs
<1>4. ASSUME NEW m \in 0 .. n PROVE DxOf(SubSeq(bars, 1, m), p, m) = SubSeq(From(n, lo, f), 1, m)
  <2> DEFINE g == [i \in lo .. m |-> DX(SmoothedMoves(SubSeq(bars, 1, m), p)[i].sum)]
  <2>1. Agree(SmoothedMoves(bars, p), SmoothedMoves(SubSeq(bars, 1, m), p), p + 1, m)
    BY MovesPrefix
  <2>2. Agree(f, g, lo, m)
    BY <1>1, <2>1 DEF Agree
  <2>3. DxOf(SubSeq(bars, 1, m), p, m) = From(m, lo, g)
    BY <1>1 DEF DxOf
  <2> HIDE DEF f, g
  <2>4. From(m, lo, g) = SubSeq(From(n, lo, f), 1, m)
    BY <2>2, FromPrefix
  <2> QED BY <2>3, <2>4
<1> HIDE DEF f
<1>5. IsLine(From(n, lo, f), n, lo, Fractions)
  BY <1>3, FromIsLine
<1>6. \A i \in lo .. n : Within(From(n, lo, f)[i], 0, 100)
  BY <1>1, <1>3 DEF From
<1> QED BY <1>1, <1>2, <1>4, <1>5, <1>6

\* +DI and -DI start at bar p + 1, stay between 0 and 100 and do not repaint.
LEMMA DiIs ==
  ASSUME NEW n \in Nat, NEW bars \in [1 .. n -> TapeBars], NEW p \in Nat \ {0}, NEW j \in {2, 3}
  PROVE  /\ IsLine(DiOf(bars, p, n, j), n, p + 1, Fractions)
         /\ \A i \in p + 1 .. n : Within(DiOf(bars, p, n, j)[i], 0, 100)
         /\ \A m \in 0 .. n : DiOf(SubSeq(bars, 1, m), p, m, j) = SubSeq(DiOf(bars, p, n, j), 1, m)
<1>1. PICK lo \in Int : lo = p + 1
  OBVIOUS
<1> DEFINE f == [i \in lo .. n |-> DI(SmoothedMoves(bars, p)[i].sum, j)]
<1>2. DiOf(bars, p, n, j) = From(n, lo, f)
  BY <1>1 DEF DiOf
<1>3. \A i \in lo .. n : f[i] \in Fractions /\ Within(f[i], 0, 100)
  <2> TAKE i \in lo .. n
  <2>1. SmoothedMoves(bars, p)[i] \in Sums
    <3>1. MovesAre(SmoothedMoves(bars, p), bars, n, p)
      BY MovesValue
    <3> QED BY <1>1, <3>1 DEF MovesAre
  <2>2. f[i] = DI(SmoothedMoves(bars, p)[i].sum, j)
    OBVIOUS
  <2> HIDE DEF f
  <2> QED BY <2>1, <2>2, DirectionIs
<1>4. ASSUME NEW m \in 0 .. n
      PROVE  DiOf(SubSeq(bars, 1, m), p, m, j) = SubSeq(From(n, lo, f), 1, m)
  <2> DEFINE g == [i \in lo .. m |-> DI(SmoothedMoves(SubSeq(bars, 1, m), p)[i].sum, j)]
  <2>1. Agree(SmoothedMoves(bars, p), SmoothedMoves(SubSeq(bars, 1, m), p), p + 1, m)
    BY MovesPrefix
  <2>2. Agree(f, g, lo, m)
    BY <1>1, <2>1 DEF Agree
  <2>3. DiOf(SubSeq(bars, 1, m), p, m, j) = From(m, lo, g)
    BY <1>1 DEF DiOf
  <2> HIDE DEF f, g
  <2>4. From(m, lo, g) = SubSeq(From(n, lo, f), 1, m)
    BY <2>2, FromPrefix
  <2> QED BY <2>3, <2>4
<1> HIDE DEF f
<1>5. IsLine(From(n, lo, f), n, lo, Fractions)
  BY <1>3, FromIsLine
<1>6. \A i \in lo .. n : Within(From(n, lo, f)[i], 0, 100)
  BY <1>1, <1>3 DEF From
<1> QED BY <1>1, <1>2, <1>4, <1>5, <1>6

\* adx itself is a blend of dx, 1 part of the new and p - 1 of the old.
LEMMA AdxParts ==
  ASSUME NEW n \in Nat, NEW bars \in [1 .. n -> TapeBars], NEW p \in Nat \ {0}
  PROVE  Adx(bars, p) = [adx |-> Blended(DxOf(bars, p, n), p + 1, 2 * p, 1, p - 1),
                         plusDI |-> DiOf(bars, p, n, 2), minusDI |-> DiOf(bars, p, n, 3)]
<1>1. Len(bars) = n
  BY RawValues
<1>2. \A i \in 1 .. n : DxOf(bars, p, n)[i] =
        IF i < p + 1 THEN NoValue ELSE DX(SmoothedMoves(bars, p)[i].sum)
  BY DEF DxOf, From
<1>3. DxOf(bars, p, n) = [i \in 1 .. n |-> IF i < p + 1 THEN NoValue
                                            ELSE DX(SmoothedMoves(bars, p)[i].sum)]
  <2>1. DxOf(bars, p, n) = [i \in 1 .. n |-> DxOf(bars, p, n)[i]]
    BY DEF DxOf, From
  <2> HIDE DEF DxOf
  <2> QED BY <1>2, <2>1
<1> QED BY <1>1, <1>3 DEF Adx, DiOf

\* ADX starts at bar 2p, stays between 0 and 100 and does not repaint.
LEMMA AdxIs ==
  ASSUME NEW n \in Nat, NEW bars \in [1 .. n -> TapeBars], NEW p \in Nat \ {0}
  PROVE  /\ IsLine(Adx(bars, p).adx, n, 2 * p, Fractions)
         /\ \A i \in 2 * p .. n : Within(Adx(bars, p).adx[i], 0, 100)
         /\ \A m \in 0 .. n : Adx(SubSeq(bars, 1, m), p).adx = SubSeq(Adx(bars, p).adx, 1, m)
<1>1. PICK first \in Nat \ {0} : first = p + 1
  OBVIOUS
<1>2. PICK seed \in Nat : seed = 2 * p
  OBVIOUS
<1>3. PICK w \in Nat : w = p - 1 /\ 1 + w # 0
  OBVIOUS
<1>4. first <= seed /\ 1 \in Nat /\ 0 \in Int /\ 100 \in Int
  BY <1>1, <1>2
<1> DEFINE dx == DxOf(bars, p, n)
<1>5. IsLine(dx, n, first, Fractions) /\ \A i \in first .. n : Within(dx[i], 0, 100)
  BY <1>1, DxIs
<1>6. Adx(bars, p).adx = Blended(dx, first, seed, 1, w)
  BY <1>1, <1>2, <1>3, AdxParts
<1>7. IsLine(Blended(dx, first, seed, 1, w), n, seed, Fractions)
  <2> HIDE DEF dx
  <2> QED BY <1>3, <1>4, <1>5, BlendIsLine
<1>8. \A lo, hi \in Int : (\A i \in first .. n : Within(dx[i], lo, hi))
        => \A i \in seed .. n : Within(Blended(dx, first, seed, 1, w)[i], lo, hi)
  <2> HIDE DEF dx
  <2> QED BY <1>3, <1>4, <1>5, BlendIsLine
<1>9. \A i \in seed .. n : Within(Blended(dx, first, seed, 1, w)[i], 0, 100)
  <2> HIDE DEF dx
  <2> QED BY <1>4, <1>5, <1>8
<1>10. ASSUME NEW m \in 0 .. n
       PROVE  Adx(SubSeq(bars, 1, m), p).adx = SubSeq(Blended(dx, first, seed, 1, w), 1, m)
  <2>1. PICK o : o = SubSeq(bars, 1, m)
    OBVIOUS
  <2>2. o \in [1 .. m -> TapeBars] /\ SameRaw(bars, o, m)
    BY <2>1, RawPrefix
  <2>a. m \in Nat
    OBVIOUS
  <2>b. Adx(o, p) = [adx |-> Blended(DxOf(o, p, m), p + 1, 2 * p, 1, p - 1),
                     plusDI |-> DiOf(o, p, m, 2), minusDI |-> DiOf(o, p, m, 3)]
    BY <2>2, <2>a, AdxParts
  <2>3. Adx(o, p).adx = Blended(DxOf(o, p, m), first, seed, 1, w)
    BY <1>1, <1>2, <1>3, <2>b
  <2>4. DxOf(o, p, m) = SubSeq(dx, 1, m)
    BY <2>1, DxIs
  <2> HIDE DEF dx
  <2>5. Shorter(dx, n, m, first, seed, 1, w)
    BY <1>3, <1>4, <1>5, BlendPrefix
  <2> QED BY <2>1, <2>3, <2>4, <2>5 DEF Shorter
<1> HIDE DEF dx
<1> QED BY <1>2, <1>6, <1>7, <1>9, <1>10

\* So do the two lines that are drawn with it, from bar p + 1 on.
LEMMA DirectionalIs ==
  ASSUME NEW n \in Nat, NEW bars \in [1 .. n -> TapeBars], NEW p \in Nat \ {0}
  PROVE  /\ IsLine(Adx(bars, p).plusDI, n, p + 1, Fractions)
         /\ IsLine(Adx(bars, p).minusDI, n, p + 1, Fractions)
         /\ \A i \in p + 1 .. n : /\ Within(Adx(bars, p).plusDI[i], 0, 100)
                                  /\ Within(Adx(bars, p).minusDI[i], 0, 100)
         /\ \A m \in 0 .. n :
              /\ Adx(SubSeq(bars, 1, m), p).plusDI = SubSeq(Adx(bars, p).plusDI, 1, m)
              /\ Adx(SubSeq(bars, 1, m), p).minusDI = SubSeq(Adx(bars, p).minusDI, 1, m)
<1>1. Adx(bars, p) = [adx |-> Blended(DxOf(bars, p, n), p + 1, 2 * p, 1, p - 1),
                      plusDI |-> DiOf(bars, p, n, 2), minusDI |-> DiOf(bars, p, n, 3)]
  BY AdxParts
<1>2. Adx(bars, p).plusDI = DiOf(bars, p, n, 2) /\ Adx(bars, p).minusDI = DiOf(bars, p, n, 3)
  BY <1>1
<1>3. /\ IsLine(DiOf(bars, p, n, 2), n, p + 1, Fractions)
      /\ IsLine(DiOf(bars, p, n, 3), n, p + 1, Fractions)
  <2>1. 2 \in {2, 3} /\ 3 \in {2, 3}
    OBVIOUS
  <2> QED BY <2>1, DiIs
<1>4. \A j \in {2, 3} : \A i \in p + 1 .. n : Within(DiOf(bars, p, n, j)[i], 0, 100)
  BY DiIs
<1>5. ASSUME NEW m \in 0 .. n
      PROVE  /\ Adx(SubSeq(bars, 1, m), p).plusDI = SubSeq(DiOf(bars, p, n, 2), 1, m)
             /\ Adx(SubSeq(bars, 1, m), p).minusDI = SubSeq(DiOf(bars, p, n, 3), 1, m)
  <2>1. PICK o : o = SubSeq(bars, 1, m)
    OBVIOUS
  <2>2. o \in [1 .. m -> TapeBars] /\ SameRaw(bars, o, m)
    BY <2>1, RawPrefix
  <2>3. m \in Nat
    OBVIOUS
  <2>4. Adx(o, p) = [adx |-> Blended(DxOf(o, p, m), p + 1, 2 * p, 1, p - 1),
                     plusDI |-> DiOf(o, p, m, 2), minusDI |-> DiOf(o, p, m, 3)]
    BY <2>2, <2>3, AdxParts
  <2>5. Adx(o, p).plusDI = DiOf(o, p, m, 2) /\ Adx(o, p).minusDI = DiOf(o, p, m, 3)
    BY <2>4
  <2>6. \A j \in {2, 3} : DiOf(SubSeq(bars, 1, m), p, m, j) = SubSeq(DiOf(bars, p, n, j), 1, m)
    BY DiIs
  <2>7. 2 \in {2, 3} /\ 3 \in {2, 3}
    OBVIOUS
  <2> QED BY <2>1, <2>5, <2>6, <2>7
<1> QED BY <1>2, <1>3, <1>4, <1>5

-----------------------------------------------------------------------------
(* All lines together *)

Names == {"ema", "rsi", "atr", "bbands", "macd", "signal", "hist", "plusDI", "minusDI", "adx"}

\* What is drawn under a name, where it starts, and what its values are.
LineOf(name, bars, p) ==
  CASE name = "ema" -> Ema(bars, p)
    [] name = "rsi" -> Rsi(bars, p)
    [] name = "atr" -> Atr(bars, p)
    [] name = "bbands" -> Bbands(bars, p)
    [] name = "macd" -> Macd(bars, p, p + 1, p).macd
    [] name = "signal" -> Macd(bars, p, p + 1, p).signal
    [] name = "hist" -> Macd(bars, p, p + 1, p).hist
    [] name = "plusDI" -> Adx(bars, p).plusDI
    [] name = "minusDI" -> Adx(bars, p).minusDI
    [] name = "adx" -> Adx(bars, p).adx

StartOf(name, p) ==
  CASE name \in {"ema", "bbands"} -> p
    [] name \in {"rsi", "atr", "macd", "plusDI", "minusDI"} -> p + 1
    [] name \in {"signal", "hist", "adx"} -> 2 * p

ValuesOf(name) == IF name = "bbands" THEN Bands ELSE Fractions

\* Every list that is drawn has a name, and start and values go by it.
LEMMA DrawnIs ==
  ASSUME NEW bars, NEW p, NEW line \in Drawn(bars, p)
  PROVE  \E name \in Names : line = <<name, StartOf(name, p), LineOf(name, bars, p)>>
<1>1. \/ line = <<"ema", p, Ema(bars, p)>>
      \/ line = <<"rsi", p + 1, Rsi(bars, p)>>
      \/ line = <<"atr", p + 1, Atr(bars, p)>>
      \/ line = <<"bbands", p, Bbands(bars, p)>>
      \/ line = <<"macd", p + 1, Macd(bars, p, p + 1, p).macd>>
      \/ line = <<"signal", 2 * p, Macd(bars, p, p + 1, p).signal>>
      \/ line = <<"hist", 2 * p, Macd(bars, p, p + 1, p).hist>>
      \/ line = <<"plusDI", p + 1, Adx(bars, p).plusDI>>
      \/ line = <<"minusDI", p + 1, Adx(bars, p).minusDI>>
      \/ line = <<"adx", 2 * p, Adx(bars, p).adx>>
  BY Zenon DEF Drawn
<1>2. /\ StartOf("ema", p) = p /\ StartOf("bbands", p) = p
      /\ StartOf("rsi", p) = p + 1 /\ StartOf("atr", p) = p + 1 /\ StartOf("macd", p) = p + 1
      /\ StartOf("plusDI", p) = p + 1 /\ StartOf("minusDI", p) = p + 1
      /\ StartOf("signal", p) = 2 * p /\ StartOf("hist", p) = 2 * p /\ StartOf("adx", p) = 2 * p
  BY DEF StartOf
<1>3. /\ LineOf("ema", bars, p) = Ema(bars, p)
      /\ LineOf("rsi", bars, p) = Rsi(bars, p)
      /\ LineOf("atr", bars, p) = Atr(bars, p)
      /\ LineOf("bbands", bars, p) = Bbands(bars, p)
      /\ LineOf("macd", bars, p) = Macd(bars, p, p + 1, p).macd
      /\ LineOf("signal", bars, p) = Macd(bars, p, p + 1, p).signal
      /\ LineOf("hist", bars, p) = Macd(bars, p, p + 1, p).hist
      /\ LineOf("plusDI", bars, p) = Adx(bars, p).plusDI
      /\ LineOf("minusDI", bars, p) = Adx(bars, p).minusDI
      /\ LineOf("adx", bars, p) = Adx(bars, p).adx
  BY DEF LineOf
<1> QED BY <1>1, <1>2, <1>3 DEF Names

\* Every line is one, and has its bars of fewer.
LEMMA EveryLine ==
  ASSUME NEW n \in Nat, NEW bars \in [1 .. n -> TapeBars], NEW p \in Nat \ {0}, NEW name \in Names
  PROVE  /\ IsLine(LineOf(name, bars, p), n, StartOf(name, p), ValuesOf(name))
         /\ \A m \in 0 .. n : LineOf(name, SubSeq(bars, 1, m), p)
                              = SubSeq(LineOf(name, bars, p), 1, m)
<1>1. CASE name = "ema"
  <2>1. StartOf(name, p) = p /\ ValuesOf(name) = Fractions /\ \A b : LineOf(name, b, p) = Ema(b, p)
    BY <1>1 DEF StartOf, ValuesOf, LineOf
  <2> QED BY <2>1, EmaIs
<1>2. CASE name = "rsi"
  <2>1. /\ StartOf(name, p) = p + 1 /\ ValuesOf(name) = Fractions
        /\ \A b : LineOf(name, b, p) = Rsi(b, p)
    BY <1>2 DEF StartOf, ValuesOf, LineOf
  <2>2. IsLine(Rsi(bars, p), n, p + 1, Fractions)
    BY RsiIs
  <2>3. \A m \in 0 .. n : Rsi(SubSeq(bars, 1, m), p) = SubSeq(Rsi(bars, p), 1, m)
    BY RsiIs
  <2> QED BY <2>1, <2>2, <2>3
<1>3. CASE name = "atr"
  <2>1. /\ StartOf(name, p) = p + 1 /\ ValuesOf(name) = Fractions
        /\ \A b : LineOf(name, b, p) = Atr(b, p)
    BY <1>3 DEF StartOf, ValuesOf, LineOf
  <2>2. IsLine(Atr(bars, p), n, p + 1, Fractions)
    BY AtrIs
  <2>3. \A m \in 0 .. n : Atr(SubSeq(bars, 1, m), p) = SubSeq(Atr(bars, p), 1, m)
    BY AtrIs
  <2> QED BY <2>1, <2>2, <2>3
<1>4. CASE name = "bbands"
  <2>1. /\ StartOf(name, p) = p /\ ValuesOf(name) = Bands
        /\ \A b : LineOf(name, b, p) = Bbands(b, p)
    BY <1>4 DEF StartOf, ValuesOf, LineOf
  <2> QED BY <2>1, BbandsIs
<1>5. CASE name \in {"macd", "signal", "hist"}
  <2>1. ValuesOf(name) = Fractions
    BY <1>5 DEF ValuesOf
  <2>2. \A b : LineOf(name, b, p) = IF name = "macd" THEN Macd(b, p, p + 1, p).macd
                                    ELSE IF name = "signal" THEN Macd(b, p, p + 1, p).signal
                                    ELSE Macd(b, p, p + 1, p).hist
    BY <1>5 DEF LineOf
  <2>3. StartOf(name, p) = IF name = "macd" THEN p + 1 ELSE 2 * p
    BY <1>5 DEF StartOf
  <2> DEFINE now == Macd(bars, p, p + 1, p)
  <2>4. /\ IsLine(now.macd, n, p + 1, Fractions)
        /\ IsLine(now.signal, n, 2 * p, Fractions)
        /\ IsLine(now.hist, n, 2 * p, Fractions)
    BY MacdIs
  <2>5. ASSUME NEW m \in 0 .. n
        PROVE  LineOf(name, SubSeq(bars, 1, m), p) = SubSeq(LineOf(name, bars, p), 1, m)
    <3> DEFINE before == Macd(SubSeq(bars, 1, m), p, p + 1, p)
    <3>1. /\ before.macd = SubSeq(now.macd, 1, m)
          /\ before.signal = SubSeq(now.signal, 1, m)
          /\ before.hist = SubSeq(now.hist, 1, m)
      BY MacdIs
    <3> QED BY <1>5, <2>2, <3>1
  <2> QED BY <1>5, <2>1, <2>2, <2>3, <2>4, <2>5
<1>6. CASE name \in {"plusDI", "minusDI"}
  <2>1. StartOf(name, p) = p + 1 /\ ValuesOf(name) = Fractions
    BY <1>6 DEF StartOf, ValuesOf
  <2>2. \A b : LineOf(name, b, p) = IF name = "plusDI" THEN Adx(b, p).plusDI ELSE Adx(b, p).minusDI
    BY <1>6 DEF LineOf
  <2>3. /\ IsLine(Adx(bars, p).plusDI, n, p + 1, Fractions)
        /\ IsLine(Adx(bars, p).minusDI, n, p + 1, Fractions)
        /\ \A m \in 0 .. n :
             /\ Adx(SubSeq(bars, 1, m), p).plusDI = SubSeq(Adx(bars, p).plusDI, 1, m)
             /\ Adx(SubSeq(bars, 1, m), p).minusDI = SubSeq(Adx(bars, p).minusDI, 1, m)
    BY DirectionalIs
  <2> QED BY <1>6, <2>1, <2>2, <2>3
<1>7. CASE name = "adx"
  <2>1. /\ StartOf(name, p) = 2 * p /\ ValuesOf(name) = Fractions
        /\ \A b : LineOf(name, b, p) = Adx(b, p).adx
    BY <1>7 DEF StartOf, ValuesOf, LineOf
  <2>2. IsLine(Adx(bars, p).adx, n, 2 * p, Fractions)
    BY AdxIs
  <2>3. \A m \in 0 .. n : Adx(SubSeq(bars, 1, m), p).adx = SubSeq(Adx(bars, p).adx, 1, m)
    BY AdxIs
  <2> QED BY <2>1, <2>2, <2>3
<1> QED BY <1>1, <1>2, <1>3, <1>4, <1>5, <1>6, <1>7 DEF Names

-----------------------------------------------------------------------------
(* The window that slides *)

\* bars are those of old from the second on, and one more.
Slid(bars, old, n) == \A i \in 1 .. n - 1 : bars[i] = old[i + 1]

\* A fraction has a numerator and a denominator.
LEMMA FractionParts == \A x \in Fractions : \E a \in Int, d \in Nat \ {0} : x = <<a, d>>
  BY DEF Fractions

\* x follows f in a smoothing that gives the parts w and u of d to the past and to a value.
Follows(x, f, u, w, d) == x[1] * (d * f[2]) = (u * f[2] + w * f[1]) * x[2]

\* What follows two values in the same way differs by w / d of what they differ by.
LEMMA FollowersFade ==
  ASSUME NEW x \in Fractions, NEW y \in Fractions, NEW f \in Fractions, NEW g \in Fractions,
         NEW u \in Int, NEW w \in Int, NEW d \in Int,
         Follows(x, f, u, w, d), Follows(y, g, u, w, d)
  PROVE  d * Gap(x, y)[1] * Gap(f, g)[2] = w * Gap(f, g)[1] * Gap(x, y)[2]
<1>a. PICK x1 \in Int, x2 \in Nat \ {0} : x = <<x1, x2>>
  BY FractionParts
<1>b. PICK y1 \in Int, y2 \in Nat \ {0} : y = <<y1, y2>>
  BY FractionParts
<1>c. PICK f1 \in Int, f2 \in Nat \ {0} : f = <<f1, f2>>
  BY FractionParts
<1>d. PICK g1 \in Int, g2 \in Nat \ {0} : g = <<g1, g2>>
  BY FractionParts
<1>1. x = <<x1, x2>> /\ y = <<y1, y2>> /\ f = <<f1, f2>> /\ g = <<g1, g2>>
  BY <1>a, <1>b, <1>c, <1>d
<1>2. x1 * (d * f2) = (u * f2 + w * f1) * x2 /\ y1 * (d * g2) = (u * g2 + w * g1) * y2
  BY <1>1 DEF Follows
<1>3. d * (x1 * y2 - y1 * x2) * (f2 * g2)
        = (x1 * (d * f2)) * (y2 * g2) - (y1 * (d * g2)) * (x2 * f2)
  OBVIOUS
<1>4. d * (x1 * y2 - y1 * x2) * (f2 * g2)
        = ((u * f2 + w * f1) * x2) * (y2 * g2) - ((u * g2 + w * g1) * y2) * (x2 * f2)
  BY <1>2, <1>3
<1>5. ((u * f2 + w * f1) * x2) * (y2 * g2) - ((u * g2 + w * g1) * y2) * (x2 * f2)
        = w * (f1 * g2 - g1 * f2) * (x2 * y2)
  OBVIOUS
<1>6. Gap(x, y) = <<x1 * y2 - y1 * x2, x2 * y2>> /\ Gap(f, g) = <<f1 * g2 - g1 * f2, f2 * g2>>
  BY <1>1 DEF Gap
<1> QED BY <1>4, <1>5, <1>6

\* A positive factor can be cancelled from an equation.
LEMMA CancelFromBoth ==
  ASSUME NEW a \in Int, NEW b \in Int, NEW c \in Nat \ {0}, a * c = b * c
  PROVE  a = b
<1>1. a * c <= b * c /\ b * c <= a * c
  OBVIOUS
<1>2. a <= b /\ b <= a
  BY <1>1, CancelFactor
<1> QED BY <1>2

\* Each average follows that of the bar before.
LEMMA EmaFollows ==
  ASSUME NEW n \in Nat, NEW bars \in [1 .. n -> TapeBars], NEW p \in Nat \ {0}, NEW i \in p + 1 .. n
  PROVE  /\ Ema(bars, p)[i] \in Fractions /\ Ema(bars, p)[i - 1] \in Fractions
         /\ Follows(Ema(bars, p)[i], Ema(bars, p)[i - 1], 2 * bars[i].close, p - 1, p + 1)
<1> DEFINE c == Closes(bars)
<1>1. IsLine(c, n, 1, Fractions)
  BY ClosesLine
<1>2. PICK w \in Nat, d \in Nat \ {0} : w = p - 1 /\ d = p + 1 /\ 2 + w = d /\ 2 + w # 0
  OBVIOUS
<1>3. 1 \in Nat \ {0} /\ p \in 1 .. n /\ 2 \in Nat /\ 1 + p - 1 = p
  OBVIOUS
<1>4. PICK f \in [p .. n -> Fractions] : Blends(f, c, n, 1, p, 2, w)
  <2> HIDE DEF c
  <2> QED BY <1>1, <1>2, <1>3, BlendValue
<1>5. Ema(bars, p) = From(n, p, f)
  BY <1>2, <1>3, <1>4 DEF Ema, Smoothed, Blends
<1>6. i \in 1 .. n /\ i \in p .. n /\ i - 1 \in p .. n /\ i - 1 \in 1 .. n
  OBVIOUS
<1>7. Ema(bars, p)[i] = f[i] /\ Ema(bars, p)[i - 1] = f[i - 1]
  BY <1>5, <1>6 DEF From
<1>a. f[i] \in Fractions /\ f[i - 1] \in Fractions
  BY <1>6
<1>b. PICK f1 \in Int, f2 \in Nat \ {0} : f[i - 1] = <<f1, f2>>
  BY <1>a, FractionParts
<1>c. PICK x1 \in Int, x2 \in Nat \ {0} : f[i] = <<x1, x2>>
  BY <1>a, FractionParts
<1>8. f[i - 1] = <<f1, f2>> /\ f[i] = <<x1, x2>>
  BY <1>b, <1>c
<1>9. PICK k \in Int : k = bars[i].close
  BY <1>6, BarLevels
<1>10. c[i] = <<k, 1>>
  <2>1. DOMAIN bars = 1 .. n
    OBVIOUS
  <2> QED BY <1>6, <1>9, <2>1 DEF Closes
<1> HIDE DEF c
<1>11. PICK a \in Fractions, b \in Fractions :
         /\ a = <<2 * k, d>> /\ b = <<w * f1, d * f2>> /\ <<x1, x2>> = Plus(a, b)
  <2>1. f[i] = BlendStep(c, 2, w, i, f[i - 1])
    BY <1>4 DEF Blends
  <2>2. BlendStep(c, 2, w, i, f[i - 1]) = Plus(<<2 * k, (2 + w) * 1>>, <<w * f1, (2 + w) * f2>>)
    BY <1>8, <1>10 DEF BlendStep
  <2>3. (2 + w) * 1 = d /\ (2 + w) * f2 = d * f2
    BY <1>2
  <2>4. <<x1, x2>> = Plus(<<2 * k, d>>, <<w * f1, d * f2>>)
    BY <1>8, <2>1, <2>2, <2>3
  <2>5. 2 * k \in Int /\ w * f1 \in Int /\ d * f2 \in Nat \ {0}
    OBVIOUS
  <2>6. <<2 * k, d>> \in Fractions /\ <<w * f1, d * f2>> \in Fractions
    BY <2>5 DEF Fractions
  <2> QED BY <2>4, <2>6
<1>12. Plus(a, b)[1] * (a[2] * b[2]) = (a[1] * b[2] + b[1] * a[2]) * Plus(a, b)[2]
  BY PlusValue
<1>13. x1 * (d * (d * f2)) = ((2 * k) * (d * f2) + (w * f1) * d) * x2
  <2>1. a[1] = 2 * k /\ a[2] = d /\ b[1] = w * f1 /\ b[2] = d * f2
    BY <1>11
  <2>2. Plus(a, b)[1] = x1 /\ Plus(a, b)[2] = x2
    BY <1>11
  <2> QED BY <1>12, <2>1, <2>2
<1>14. x1 * (d * f2) = ((2 * k) * f2 + w * f1) * x2
  <2>1. (x1 * (d * f2)) * d = x1 * (d * (d * f2))
    OBVIOUS
  <2>2. (((2 * k) * f2 + w * f1) * x2) * d = ((2 * k) * (d * f2) + (w * f1) * d) * x2
    OBVIOUS
  <2>3. x1 * (d * f2) \in Int /\ ((2 * k) * f2 + w * f1) * x2 \in Int
    OBVIOUS
  <2> QED BY <1>13, <2>1, <2>2, <2>3, CancelFromBoth
<1>15. Follows(<<x1, x2>>, <<f1, f2>>, 2 * k, w, d)
  BY <1>14 DEF Follows
<1> QED BY <1>2, <1>7, <1>8, <1>9, <1>15, <1>a

\* So what another seed changes of the averages fades.
LEMMA EmaFades ==
  ASSUME NEW n \in Nat, NEW bars \in [1 .. n -> TapeBars], NEW old \in [1 .. n -> TapeBars],
         Slid(bars, old, n), NEW p \in Nat \ {0}, NEW i \in p + 1 .. n - 1
  PROVE  Fades(Ema(bars, p), Ema(old, p), i, p - 1, p + 1)
<1>1. i \in p + 1 .. n /\ i + 1 \in p + 1 .. n /\ (i + 1) - 1 = i /\ i \in 1 .. n - 1 /\ i \in 1 .. n
  OBVIOUS
<1>2. PICK k \in Int : k = 2 * bars[i].close /\ k = 2 * old[i + 1].close
  <2>1. bars[i].close \in Int /\ bars[i] = old[i + 1]
    BY <1>1, BarLevels DEF Slid
  <2> QED BY <2>1
<1>3. /\ Ema(bars, p)[i] \in Fractions /\ Ema(bars, p)[i - 1] \in Fractions
      /\ Follows(Ema(bars, p)[i], Ema(bars, p)[i - 1], k, p - 1, p + 1)
  BY <1>1, <1>2, EmaFollows
<1>4. /\ Ema(old, p)[i + 1] \in Fractions /\ Ema(old, p)[i] \in Fractions
      /\ Follows(Ema(old, p)[i + 1], Ema(old, p)[i], k, p - 1, p + 1)
  BY <1>1, <1>2, EmaFollows
<1>5. p - 1 \in Int /\ p + 1 \in Int
  OBVIOUS
<1> QED BY <1>3, <1>4, <1>5, FollowersFade DEF Fades

\* Each value that Wilder smooths follows that of the bar before.
LEMMA WilderFollows ==
  ASSUME NEW n \in Nat, NEW raw \in [1 .. n -> Nat], NEW p \in Nat \ {0}, NEW i \in p + 2 .. n
  PROVE  /\ Wilder(raw, p)[i] \in Fractions /\ Wilder(raw, p)[i - 1] \in Fractions
         /\ Follows(Wilder(raw, p)[i], Wilder(raw, p)[i - 1], raw[i], p - 1, p)
<1>1. PICK f \in [p + 1 .. n -> Shares] : Wilders(f, raw, n, p)
  BY WilderValue
<1>2. i \in 1 .. n /\ i \in p + 1 .. n /\ i - 1 \in p + 1 .. n /\ i - 1 \in 1 .. n
  OBVIOUS
<1>3. Wilder(raw, p)[i] = f[i] /\ Wilder(raw, p)[i - 1] = f[i - 1]
  BY <1>1, <1>2 DEF Wilders, From
<1>4. f[i] \in Shares /\ f[i - 1] \in Shares
  BY <1>2
<1>5. PICK f1 \in Nat, f2 \in Nat \ {0} : f[i - 1] = <<f1, f2>>
  BY <1>4, ShareParts
<1>6. PICK r \in Nat, w \in Nat : r = raw[i] /\ w = p - 1
  BY <1>2
<1>7. f[i] = <<f1 * w + r * f2, p * f2>>
  <2>1. f[i] = WilderStep(raw, p, i, f[i - 1])
    BY <1>1 DEF Wilders
  <2> QED BY <1>5, <1>6, <2>1 DEF WilderStep
<1>8. (f1 * w + r * f2) * (p * f2) = (r * f2 + w * f1) * (p * f2)
  OBVIOUS
<1>9. Follows(f[i], f[i - 1], r, w, p)
  BY <1>5, <1>7, <1>8 DEF Follows
<1>10. f[i] \in Fractions /\ f[i - 1] \in Fractions
  BY <1>4, ValuesAreValues
<1> QED BY <1>3, <1>6, <1>9, <1>10

\* So what another seed changes of them fades.
LEMMA WilderFades ==
  ASSUME NEW n \in Nat, NEW raw \in [1 .. n -> Nat], NEW others \in [1 .. n -> Nat],
         \A i \in 2 .. n - 1 : raw[i] = others[i + 1],
         NEW p \in Nat \ {0}, NEW i \in p + 2 .. n - 1
  PROVE  Fades(Wilder(raw, p), Wilder(others, p), i, p - 1, p)
<1>1. /\ i \in p + 2 .. n /\ i + 1 \in p + 2 .. n /\ (i + 1) - 1 = i
      /\ i \in 2 .. n - 1 /\ i \in 1 .. n
  OBVIOUS
<1>2. PICK k \in Int : k = raw[i] /\ k = others[i + 1]
  BY <1>1
<1>3. /\ Wilder(raw, p)[i] \in Fractions /\ Wilder(raw, p)[i - 1] \in Fractions
      /\ Follows(Wilder(raw, p)[i], Wilder(raw, p)[i - 1], k, p - 1, p)
  BY <1>1, <1>2, WilderFollows
<1>4. /\ Wilder(others, p)[i + 1] \in Fractions /\ Wilder(others, p)[i] \in Fractions
      /\ Follows(Wilder(others, p)[i + 1], Wilder(others, p)[i], k, p - 1, p)
  BY <1>1, <1>2, WilderFollows
<1>5. PICK x, y, f, g : /\ x = Wilder(raw, p)[i] /\ y = Wilder(others, p)[i + 1]
                       /\ f = Wilder(raw, p)[i - 1] /\ g = Wilder(others, p)[i]
  OBVIOUS
<1>6. PICK w \in Int, d \in Int : w = p - 1 /\ d = p
  OBVIOUS
<1>7. /\ x \in Fractions /\ f \in Fractions /\ Follows(x, f, k, w, d)
      /\ y \in Fractions /\ g \in Fractions /\ Follows(y, g, k, w, d)
  BY <1>3, <1>4, <1>5, <1>6
<1>8. d * Gap(x, y)[1] * Gap(f, g)[2] = w * Gap(f, g)[1] * Gap(x, y)[2]
  BY <1>7, FollowersFade
<1> QED BY <1>5, <1>6, <1>8 DEF Fades

\* From the second bar on, the raw values of both windows are the same.
LEMMA RawSlides ==
  ASSUME NEW n \in Nat, NEW bars \in [1 .. n -> TapeBars], NEW old \in [1 .. n -> TapeBars],
         Slid(bars, old, n), NEW i \in 2 .. n - 1
  PROVE  /\ TrueRanges(bars)[i] = TrueRanges(old)[i + 1]
         /\ \A sign \in {1, -1} : Changes(bars, sign)[i] = Changes(old, sign)[i + 1]
<1>1. DOMAIN bars = 1 .. n /\ DOMAIN old = 1 .. n
  OBVIOUS
<1>2. i \in 1 .. n /\ i + 1 \in 1 .. n /\ i # 1 /\ i + 1 # 1 /\ (i + 1) - 1 = i
  OBVIOUS
<1>3. bars[i] = old[i + 1] /\ bars[i - 1] = old[i]
  <2>1. i \in 1 .. n - 1 /\ i - 1 \in 1 .. n - 1 /\ (i - 1) + 1 = i
    OBVIOUS
  <2> QED BY <2>1 DEF Slid
<1>4. TrueRange(bars, i) = TrueRange(old, i + 1)
  BY <1>2, <1>3 DEF TrueRange
<1>5. TrueRanges(bars)[i] = TrueRanges(old)[i + 1]
  BY <1>1, <1>2, <1>4 DEF TrueRanges
<1>6. \A sign \in {1, -1} : Changes(bars, sign)[i] = Changes(old, sign)[i + 1]
  BY <1>1, <1>2, <1>3 DEF Changes
<1> QED BY <1>5, <1>6

\* The band of a bar stays, as it is that of the same closes.
LEMMA BandSlides ==
  ASSUME NEW n \in Nat, NEW bars \in [1 .. n -> TapeBars], NEW old \in [1 .. n -> TapeBars],
         Slid(bars, old, n), NEW p \in Nat \ {0}, NEW i \in p .. n - 1
  PROVE  Bbands(bars, p)[i] = Bbands(old, p)[i + 1]
<1>1. DOMAIN bars = 1 .. n /\ DOMAIN old = 1 .. n
  OBVIOUS
<1>2. PICK lo \in Int : /\ lo = i - p + 1 /\ lo + 1 = (i + 1) - p + 1
                        /\ \A j \in lo .. i : j \in 1 .. n - 1 /\ j \in 1 .. n /\ j + 1 \in 1 .. n
  OBVIOUS
<1>3. \A j \in lo .. i : /\ bars[j].close \in Int
                         /\ CloseOf(bars)[j] = bars[j].close /\ CloseOf(old)[j + 1] = bars[j].close
  BY <1>1, <1>2, BarLevels DEF CloseOf, Slid
<1>4. \A j \in lo .. i : SquareOf(bars)[j] = bars[j].close * bars[j].close
                         /\ SquareOf(old)[j + 1] = bars[j].close * bars[j].close
  BY <1>1, <1>2, <1>3 DEF SquareOf
<1>5. SumOf(CloseOf(old), lo + 1, i + 1) = SumOf(CloseOf(bars), lo, i)
  <2>1. \A j \in lo .. i : CloseOf(bars)[j] \in Int /\ CloseOf(old)[j + 1] = CloseOf(bars)[j]
    BY <1>3
  <2>2. i \in Int
    OBVIOUS
  <2> QED BY <2>1, <2>2, SumShifts, SumOfIsSum
<1>6. SumOf(SquareOf(old), lo + 1, i + 1) = SumOf(SquareOf(bars), lo, i)
  <2>1. \A j \in lo .. i : SquareOf(bars)[j] \in Int /\ SquareOf(old)[j + 1] = SquareOf(bars)[j]
    BY <1>3, <1>4
  <2>2. i \in Int
    OBVIOUS
  <2> QED BY <2>1, <2>2, SumShifts, SumOfIsSum
<1>7. BandAt(bars, p, i) = BandAt(old, p, i + 1)
  BY <1>2, <1>5, <1>6 DEF BandAt
<1>8. i \in p .. n /\ i + 1 \in p .. n
  OBVIOUS
<1> QED BY <1>7, <1>8, BbandsIs

\* What a window that slides does to the lines.
Faded(bars, old, n, p) ==
  /\ \A i \in p .. n - 1 : Bbands(bars, p)[i] = Bbands(old, p)[i + 1]
  /\ \A i \in p + 1 .. n - 1 : Fades(Ema(bars, p), Ema(old, p), i, p - 1, p + 1)
  /\ \A i \in p + 2 .. n - 1 :
       Fades(Wilder(TrueRanges(bars), p), Wilder(TrueRanges(old), p), i, p - 1, p)
  /\ \A sign \in {1, -1}, i \in p + 2 .. n - 1 :
       Fades(Wilder(Changes(bars, sign), p), Wilder(Changes(old, sign), p), i, p - 1, p)

LEMMA AllFades ==
  ASSUME NEW n \in Nat, NEW bars \in [1 .. n -> TapeBars], NEW old \in [1 .. n -> TapeBars],
         Slid(bars, old, n), NEW p \in Nat \ {0}
  PROVE  Faded(bars, old, n, p)
<1>1. ASSUME NEW i \in p .. n - 1 PROVE Bbands(bars, p)[i] = Bbands(old, p)[i + 1]
  BY BandSlides
<1>2. ASSUME NEW i \in p + 1 .. n - 1 PROVE Fades(Ema(bars, p), Ema(old, p), i, p - 1, p + 1)
  BY EmaFades
<1>3. /\ TrueRanges(bars) \in [1 .. n -> Nat] /\ TrueRanges(old) \in [1 .. n -> Nat]
      /\ \A sign \in {1, -1} : /\ Changes(bars, sign) \in [1 .. n -> Nat]
                               /\ Changes(old, sign) \in [1 .. n -> Nat]
  BY RawValues
<1>4. ASSUME NEW j \in 2 .. n - 1
      PROVE  /\ TrueRanges(bars)[j] = TrueRanges(old)[j + 1]
             /\ \A sign \in {1, -1} : Changes(bars, sign)[j] = Changes(old, sign)[j + 1]
  BY RawSlides
<1>5. ASSUME NEW i \in p + 2 .. n - 1
      PROVE  Fades(Wilder(TrueRanges(bars), p), Wilder(TrueRanges(old), p), i, p - 1, p)
  BY <1>3, <1>4, WilderFades
<1>6. ASSUME NEW sign \in {1, -1}, NEW i \in p + 2 .. n - 1
      PROVE  Fades(Wilder(Changes(bars, sign), p), Wilder(Changes(old, sign), p), i, p - 1, p)
  <2>1. PICK raw \in [1 .. n -> Nat], others \in [1 .. n -> Nat] :
          raw = Changes(bars, sign) /\ others = Changes(old, sign)
    BY <1>3
  <2>2. \A j \in 2 .. n - 1 : raw[j] = others[j + 1]
    BY <1>4, <2>1
  <2> QED BY <2>1, <2>2, WilderFades
<1> QED BY <1>1, <1>2, <1>5, <1>6 DEF Faded

-----------------------------------------------------------------------------
(* What is drawn can be read off the chart *)

TapeTypeOK == /\ tape \in Seq(TapeBars) /\ period \in Periods
              /\ gone \in {<<>>} \cup {<<b>> : b \in TapeBars}

\* A tape is a function on its bars, and a period is positive.
LEMMA TapeTypes ==
  ASSUME TapeTypeOK
  PROVE  /\ Len(tape) \in Nat /\ tape \in [1 .. Len(tape) -> TapeBars] /\ DOMAIN tape = 1 .. Len(tape)
         /\ period \in Nat \ {0}
  BY IndicatorBounds DEF TapeTypeOK

\* Each line has its documented warm-up, and a value for every bar after it.
LEMMA LinesAligned == TapeTypeOK => Aligned
<1> SUFFICES ASSUME TapeTypeOK, NEW line \in Drawn(tape, period)
             PROVE  /\ Len(line[3]) = Len(tape)
                    /\ \A i \in DOMAIN tape : line[3][i] # NoValue <=> i >= line[2]
  BY DEF Aligned
<1>1. PICK n \in Nat : n = Len(tape) /\ tape \in [1 .. n -> TapeBars] /\ DOMAIN tape = 1 .. n
  BY TapeTypes
<1>2. period \in Nat \ {0}
  BY TapeTypes
<1>3. PICK name \in Names : line = <<name, StartOf(name, period), LineOf(name, tape, period)>>
  BY DrawnIs
<1>4. PICK list, first : list = LineOf(name, tape, period) /\ first = StartOf(name, period)
  OBVIOUS
<1>5. line[2] = first /\ line[3] = list
  BY <1>3, <1>4
<1>6. IsLine(list, n, first, ValuesOf(name))
  BY <1>1, <1>2, <1>4, EveryLine
<1>7. first \in Int
  BY <1>2, <1>4 DEF StartOf, Names
<1>8. Len(list) = n
  BY <1>6, LineLength DEF IsLine
<1>9. NoValue \notin ValuesOf(name)
  BY ValuesAreValues DEF ValuesOf, Bands
<1>10. \A i \in 1 .. n : list[i] # NoValue <=> i >= first
  <2> TAKE i \in 1 .. n
  <2>1. IF i < first THEN list[i] = NoValue ELSE list[i] \in ValuesOf(name)
    BY <1>6 DEF IsLine
  <2>2. i < first <=> ~(i >= first)
    BY <1>7
  <2> QED BY <1>9, <2>1, <2>2
<1> QED BY <1>1, <1>5, <1>8, <1>10

\* A bar that is appended changes nothing to its left.
LEMMA LinesStay == TapeTypeOK /\ tape # <<>> /\ gone = <<>> => NeverRepaints
<1> SUFFICES ASSUME TapeTypeOK, tape # <<>>, gone = <<>>,
                    NEW now \in Drawn(tape, period),
                    NEW before \in Drawn(SubSeq(tape, 1, Len(tape) - 1), period),
                    now[1] = before[1]
             PROVE  before[3] = SubSeq(now[3], 1, Len(tape) - 1)
  <2> HAVE TapeTypeOK /\ tape # <<>> /\ gone = <<>>
  <2>1. PICK some : some = SubSeq(tape, 1, Len(tape) - 1)
    OBVIOUS
  <2>2. some \in Seq(TapeBars)
    BY <2>1 DEF TapeTypeOK
  <2>3. LastWindow = some
    BY <2>1, <2>2 DEF LastWindow
  <2> QED BY <2>1, <2>3 DEF NeverRepaints
<1>1. PICK n \in Nat : n = Len(tape) /\ tape \in [1 .. n -> TapeBars]
  BY TapeTypes
<1>2. n # 0
  BY <1>1 DEF TapeTypeOK
<1>3. PICK m \in 0 .. n : m = n - 1
  BY <1>2
<1>4. period \in Nat \ {0}
  BY TapeTypes
<1>5. PICK a \in Names : now = <<a, StartOf(a, period), LineOf(a, tape, period)>>
  BY DrawnIs
<1>6. PICK b \in Names :
        before = <<b, StartOf(b, period), LineOf(b, SubSeq(tape, 1, Len(tape) - 1), period)>>
  BY DrawnIs
<1>7. a = b
  BY <1>5, <1>6
<1>8. LineOf(a, SubSeq(tape, 1, m), period) = SubSeq(LineOf(a, tape, period), 1, m)
  <2>1. PICK p \in Nat \ {0} : p = period
    BY <1>4
  <2>2. PICK bars \in [1 .. n -> TapeBars] : bars = tape
    BY <1>1
  <2>3. \A k \in 0 .. n : LineOf(a, SubSeq(bars, 1, k), p) = SubSeq(LineOf(a, bars, p), 1, k)
    BY EveryLine
  <2> QED BY <2>1, <2>2, <2>3
<1> QED BY <1>1, <1>3, <1>5, <1>6, <1>7, <1>8

\* A bar that pushes the oldest one out changes less and less to the right.
LEMMA LinesFade == TapeTypeOK /\ tape # <<>> /\ gone # <<>> => ChangesFade
<1> SUFFICES ASSUME TapeTypeOK, tape # <<>>, gone # <<>> PROVE ChangesFade
  OBVIOUS
<1>1. PICK n \in Nat : n = Len(tape) /\ n >= 1 /\ tape \in [1 .. n -> TapeBars]
  <2>1. Len(tape) # 0
    BY DEF TapeTypeOK
  <2>2. Len(tape) \in Nat /\ tape \in [1 .. Len(tape) -> TapeBars]
    BY TapeTypes
  <2>3. Len(tape) >= 1
    BY <2>1, <2>2
  <2> QED BY <2>2, <2>3
<1>2. PICK p \in Nat \ {0} : p = period
  BY TapeTypes
<1>3. PICK old : old = LastWindow
  OBVIOUS
<1>4. old \in [1 .. n -> TapeBars] /\ Slid(tape, old, n)
  <2>1. PICK b \in TapeBars : gone = <<b>>
    BY DEF TapeTypeOK
  <2>2. PICK rest : rest = SubSeq(tape, 1, n - 1)
    OBVIOUS
  <2>3. rest \in [1 .. n - 1 -> TapeBars] /\ \A i \in 1 .. n - 1 : rest[i] = tape[i]
    <3>1. \A i \in 1 .. n - 1 : i \in 1 .. n
      BY <1>1
    <3>2. rest = [i \in 1 .. n - 1 |-> tape[i]]
      BY <1>1, <2>2
    <3> QED BY <1>1, <3>1, <3>2
  <2>4. rest \in Seq(TapeBars) /\ Len(rest) = n - 1
    <3>1. n - 1 \in Nat
      BY <1>1
    <3> QED BY <2>3, <3>1, LineLength
  <2>5. old = <<b>> \o rest
    BY <1>1, <1>3, <2>1, <2>2 DEF LastWindow
  <2>6. old = [j \in 1 .. n |-> IF j = 1 THEN b ELSE rest[j - 1]]
    <3>1. <<b>> \in Seq(TapeBars) /\ Len(<<b>>) = 1 /\ <<b>>[1] = b
      OBVIOUS
    <3>2. 1 + (n - 1) = n
      BY <1>1
    <3> QED BY <2>4, <2>5, <3>1, <3>2
  <2>7. \A i \in 1 .. n - 1 : i \in 1 .. n /\ i + 1 \in 1 .. n /\ i + 1 # 1 /\ (i + 1) - 1 = i
    BY <1>1
  <2>8. \A j \in 1 .. n : j # 1 => j - 1 \in 1 .. n - 1
    BY <1>1
  <2>9. old \in [1 .. n -> TapeBars]
    BY <2>3, <2>6, <2>8
  <2>10. \A i \in 1 .. n - 1 : tape[i] = old[i + 1]
    BY <2>3, <2>6, <2>7
  <2> QED BY <2>9, <2>10 DEF Slid
<1>5. Faded(tape, old, n, p)
  <2>1. PICK bars : bars = tape
    OBVIOUS
  <2>2. Faded(bars, old, n, p)
    BY <1>1, <1>4, <2>1, AllFades
  <2> QED BY <2>1, <2>2
<1> QED BY <1>1, <1>2, <1>3, <1>5 DEF ChangesFade, Faded

\* Every line stays where its indicator lives.
LEMMA LinesInRange == TapeTypeOK /\ tape # <<>> => InRange
<1> DEFINE close == {tape[i].close : i \in DOMAIN tape}
           range == {TrueRanges(tape)[i] : i \in DOMAIN tape}
<1> SUFFICES ASSUME TapeTypeOK, tape # <<>>,
                    NEW line \in Drawn(tape, period), NEW i \in DOMAIN tape, line[3][i] # NoValue
             PROVE  /\ line[1] \in {"rsi", "adx", "plusDI", "minusDI"} => Within(line[3][i], 0, 100)
                    /\ line[1] = "ema" => Within(line[3][i], Min(close), Max(close))
                    /\ line[1] = "atr" => Within(line[3][i], 0, Max(range))
                    /\ line[1] = "bbands" => /\ Within(line[3][i].middle, Min(close), Max(close))
                                             /\ line[3][i].variance[1] >= 0
  BY DEF InRange
<1>1. PICK n \in Nat : n = Len(tape) /\ tape \in [1 .. n -> TapeBars] /\ DOMAIN tape = 1 .. n
  BY TapeTypes
<1>2. PICK p \in Nat \ {0} : p = period
  BY TapeTypes
<1>3. i \in 1 .. n
  BY <1>1
<1>4. i >= line[2]
  BY LinesAligned DEF Aligned
<1>5. PICK name \in Names : line = <<name, StartOf(name, p), LineOf(name, tape, p)>>
  BY <1>2, DrawnIs
<1>6. i >= StartOf(name, p) /\ line[3] = LineOf(name, tape, p) /\ line[1] = name
  BY <1>4, <1>5
<1>7. PICK lo \in Int, hi \in Int : /\ lo = Min(close) /\ hi = Max(close)
                                    /\ \A j \in 1 .. n : lo <= tape[j].close /\ tape[j].close <= hi
  <2>1. close \subseteq Int /\ close # {}
    <3>1. \A j \in 1 .. n : tape[j].close \in Int
      BY <1>1, BarLevels
    <3> QED BY <1>1, <1>3, <3>1
  <2>2. IsFiniteSet(close)
    <3> DEFINE f == [j \in 1 .. n |-> tape[j].close]
    <3>1. f = [j \in 1 .. n |-> f[j]]
      OBVIOUS
    <3>2. close = {f[j] : j \in 1 .. n}
      BY <1>1
    <3> HIDE DEF f
    <3> QED BY <3>1, <3>2, ValuesFinite
  <2>3. \A j \in 1 .. n : tape[j].close \in close
    BY <1>1
  <2> HIDE DEF close
  <2>4. Min(close) \in close /\ Max(close) \in close
        /\ \A y \in close : Min(close) <= y /\ y <= Max(close)
    BY <2>1, <2>2, MaxIs
  <2> QED BY <2>1, <2>3, <2>4
<1>8. PICK high \in Nat : high = Max(range) /\ \A j \in 1 .. n : TrueRanges(tape)[j] <= high
  <2>1. TrueRanges(tape) \in [1 .. n -> Nat]
    BY <1>1, RawValues
  <2>2. range \subseteq Nat /\ range # {} /\ \A j \in 1 .. n : TrueRanges(tape)[j] \in range
    BY <1>1, <1>3, <2>1
  <2>3. IsFiniteSet(range)
    <3> DEFINE f == TrueRanges(tape)
    <3>1. f = [j \in 1 .. n |-> f[j]] /\ range = {f[j] : j \in 1 .. n}
      BY <1>1, <2>1
    <3> HIDE DEF f
    <3> QED BY <3>1, ValuesFinite
  <2> HIDE DEF range
  <2>4. range \subseteq Int
    BY <2>2
  <2>5. Max(range) \in range /\ \A y \in range : y <= Max(range)
    BY <2>2, <2>3, <2>4, MaxIs
  <2> QED BY <2>2, <2>5
<1> HIDE DEF close, range
<1>9. ASSUME name \in {"rsi", "adx", "plusDI", "minusDI"}
      PROVE  Within(LineOf(name, tape, p)[i], 0, 100)
  <2>1. CASE name = "rsi"
    <3>1. i \in p + 1 .. n /\ LineOf(name, tape, p) = Rsi(tape, p)
      BY <1>3, <1>6, <2>1 DEF StartOf, LineOf
    <3>2. \A j \in p + 1 .. n : Within(Rsi(tape, p)[j], 0, 100)
      BY <1>1, RsiIs
    <3> QED BY <3>1, <3>2
  <2>2. CASE name = "adx"
    <3>1. i \in 2 * p .. n /\ LineOf(name, tape, p) = Adx(tape, p).adx
      BY <1>3, <1>6, <2>2 DEF StartOf, LineOf
    <3>2. \A j \in 2 * p .. n : Within(Adx(tape, p).adx[j], 0, 100)
      BY <1>1, AdxIs
    <3> QED BY <3>1, <3>2
  <2>3. CASE name \in {"plusDI", "minusDI"}
    <3>1. /\ i \in p + 1 .. n
          /\ LineOf(name, tape, p) = IF name = "plusDI" THEN Adx(tape, p).plusDI
                                                        ELSE Adx(tape, p).minusDI
      BY <1>3, <1>6, <2>3 DEF StartOf, LineOf
    <3>2. \A j \in p + 1 .. n : /\ Within(Adx(tape, p).plusDI[j], 0, 100)
                                /\ Within(Adx(tape, p).minusDI[j], 0, 100)
      BY <1>1, DirectionalIs
    <3> QED BY <3>1, <3>2
  <2> QED BY <1>9, <2>1, <2>2, <2>3
<1>10. ASSUME name = "ema" PROVE Within(LineOf(name, tape, p)[i], lo, hi)
  <2>1. i \in p .. n /\ LineOf(name, tape, p) = Ema(tape, p)
    BY <1>3, <1>6, <1>10 DEF StartOf, LineOf
  <2>2. \A j \in p .. n : Within(Ema(tape, p)[j], lo, hi)
    BY <1>1, <1>7, EmaIs
  <2> QED BY <2>1, <2>2
<1>11. ASSUME name = "atr" PROVE Within(LineOf(name, tape, p)[i], 0, high)
  <2>1. i \in p + 1 .. n /\ LineOf(name, tape, p) = Atr(tape, p)
    BY <1>3, <1>6, <1>11 DEF StartOf, LineOf
  <2>2. \A j \in p + 1 .. n : Within(Atr(tape, p)[j], 0, high)
    BY <1>1, <1>8, AtrIs
  <2> QED BY <2>1, <2>2
<1>12. ASSUME name = "bbands"
       PROVE  /\ Within(LineOf(name, tape, p)[i].middle, lo, hi)
              /\ LineOf(name, tape, p)[i].variance[1] >= 0
  <2>1. i \in p .. n /\ LineOf(name, tape, p) = Bbands(tape, p)
    BY <1>3, <1>6, <1>12 DEF StartOf, LineOf
  <2>2. Bbands(tape, p)[i] = BandAt(tape, p, i)
    BY <1>1, <2>1, BbandsIs
  <2>3. /\ BandAt(tape, p, i).variance[1] >= 0
        /\ Within(BandAt(tape, p, i).middle, lo, hi)
    BY <1>1, <1>7, <2>1, BandIs
  <2> QED BY <2>1, <2>2, <2>3
<1> QED BY <1>6, <1>7, <1>8, <1>9, <1>10, <1>11, <1>12

\* TapeTypeOK is inductive: it holds at first,
LEMMA TapeInitType == TapeInit => TapeTypeOK
  BY DEF TapeInit, TapeTypeOK

\* and every bar keeps it.
LEMMA TapeNextType == TapeTypeOK /\ [NextBar]_tapeVars => TapeTypeOK'
<1> SUFFICES ASSUME TapeTypeOK, [NextBar]_tapeVars PROVE TapeTypeOK'
  OBVIOUS
<1>1. CASE NextBar
  <2>1. PICK b \in TapeBars :
          \/ tape' = Append(tape, b) /\ gone' = <<>>
          \/ Len(tape) = MaxTape /\ tape' = Append(Tail(tape), b) /\ gone' = <<Head(tape)>>
    BY <1>1 DEF NextBar
  <2>2. period' = period
    BY <1>1 DEF NextBar
  <2>3. CASE tape' = Append(tape, b) /\ gone' = <<>>
    BY <2>2, <2>3 DEF TapeTypeOK
  <2>4. CASE Len(tape) = MaxTape /\ tape' = Append(Tail(tape), b) /\ gone' = <<Head(tape)>>
    <3>1. tape # <<>>
      BY <2>4, IndicatorBounds
    <3>2. Head(tape) \in TapeBars /\ Tail(tape) \in Seq(TapeBars)
      BY <3>1 DEF TapeTypeOK
    <3> QED BY <2>2, <2>4, <3>2 DEF TapeTypeOK
  <2> QED BY <2>1, <2>3, <2>4
<1>2. CASE UNCHANGED tapeVars
  BY <1>2 DEF tapeVars, TapeTypeOK
<1> QED BY <1>1, <1>2

\* Whatever bars come, however many the window holds, and whatever the period: every line of
\* the charts starts at the bar its documentation names and stays in its range; an appended bar
\* changes nothing to its left, and when the oldest one goes, the bands stay and what another
\* seed changes of the averages fades.
THEOREM IndicatorsAreRight == TapeSpec => []IndicatorsReadRight
<1>1. TapeTypeOK => IndicatorsReadRight
  BY LinesAligned, LinesStay, LinesFade, LinesInRange DEF IndicatorsReadRight
<1> QED BY <1>1, TapeInitType, TapeNextType, PTL DEF TapeSpec

=============================================================================
