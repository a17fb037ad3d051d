--------------------------- MODULE ConvertProofs ---------------------------
(***************************************************************************)
(* Proofs about Convert, for words, mantissas and milliseconds of any      *)
(* width.                                                                  *)
(***************************************************************************)
EXTENDS Convert, SequenceTheorems, WellFoundedInduction, TLAPS

-----------------------------------------------------------------------------
(***************************************************************************)
(* Powers.                                                                 *)
(***************************************************************************)

\* Among natural numbers there is a smallest.
LEMMA Smallest ==
    ASSUME NEW S, S \subseteq Nat, S # {}
    PROVE  \E n \in S : \A m \in S : n <= m
<1>1. IsWellFoundedOn(OpToRel(<, Nat), Nat)
  BY NatLessThanWellFounded
<1>2. PICK n \in S : \A m \in S : ~(<<m, n>> \in OpToRel(<, Nat))
  BY <1>1, WFMin
<1>3. \A m \in S : ~(m < n)
  BY <1>2 DEF OpToRel
<1> QED
  BY <1>3

\* g has the first powers of b.
Powers(b, n, g) == /\ g \in [0 .. n -> Nat]
                   /\ g[0] = 1
                   /\ \A i \in 1 .. n : g[i] = b * g[i - 1]

\* There are as many powers as one likes.
LEMMA PowersExist ==
    ASSUME NEW b \in Nat, NEW n \in Nat
    PROVE  \E g : Powers(b, n, g)
<1> DEFINE S == {m \in Nat : ~\E g : Powers(b, m, g)}
<1> SUFFICES ASSUME S # {} PROVE FALSE
  OBVIOUS
<1>1. PICK m \in S : \A k \in S : m <= k
  <2>1. S \subseteq Nat
    OBVIOUS
  <2> HIDE DEF S
  <2> QED
    BY <2>1, Smallest
<1>2. CASE m = 0
  <2>1. Powers(b, 0, [i \in 0 .. 0 |-> 1])
    BY DEF Powers
  <2> QED
    BY <1>1, <1>2, <2>1
<1>3. CASE m # 0
  <2>1. m - 1 \in Nat /\ m - 1 \notin S
    BY <1>1, <1>3
  <2>2. PICK g : Powers(b, m - 1, g)
    BY <2>1
  <2> DEFINE h == [i \in 0 .. m |-> IF i = m THEN b * g[m - 1] ELSE g[i]]
  <2>3. g[m - 1] \in Nat
    BY <2>1, <2>2 DEF Powers
  <2>4. b * g[m - 1] \in Nat
    BY <2>3
  <2>5. h \in [0 .. m -> Nat] /\ h[0] = 1
    BY <1>1, <1>3, <2>2, <2>4 DEF Powers
  <2>6. ASSUME NEW i \in 1 .. m PROVE h[i] = b * h[i - 1]
    <3>1. CASE i = m
      <4>1. h[m] = b * g[m - 1] /\ h[m - 1] = g[m - 1]
        BY <1>1, <1>3, <2>1
      <4> QED
        BY <3>1, <4>1
    <3>2. CASE i # m
      <4>1. i \in 1 .. m - 1 /\ i \in 0 .. m /\ i - 1 \in 0 .. m /\ i - 1 # m
        BY <1>1, <3>2
      <4>2. h[i] = g[i] /\ h[i - 1] = g[i - 1]
        BY <3>2, <4>1
      <4>3. g[i] = b * g[i - 1]
        BY <2>2, <4>1 DEF Powers
      <4> QED
        BY <4>2, <4>3
    <3> QED
      BY <3>1, <3>2
  <2>7. Powers(b, m, h)
    BY <2>5, <2>6 DEF Powers
  <2> QED
    BY <1>1, <2>7
<1> QED
  BY <1>2, <1>3

\* And they are the same however many one takes.
LEMMA PowersAgree ==
    ASSUME NEW b \in Nat, NEW n \in Nat, NEW m \in Nat, NEW g, NEW h,
           Powers(b, n, g), Powers(b, m, h), NEW i \in Nat, i <= n, i <= m
    PROVE  g[i] = h[i]
<1> DEFINE S == {k \in Nat : k <= n /\ k <= m /\ g[k] # h[k]}
<1> SUFFICES ASSUME S # {} PROVE FALSE
  OBVIOUS
<1>1. PICK k \in S : \A x \in S : k <= x
  <2>1. S \subseteq Nat
    OBVIOUS
  <2> HIDE DEF S
  <2> QED
    BY <2>1, Smallest
<1>2. k # 0
  BY <1>1 DEF Powers
<1>3. k - 1 \in Nat /\ k - 1 \notin S /\ k - 1 <= n /\ k - 1 <= m
  BY <1>1, <1>2
<1>4. g[k - 1] = h[k - 1]
  BY <1>3
<1>5. k \in 1 .. n /\ k \in 1 .. m
  BY <1>1, <1>2
<1>6. g[k] = b * g[k - 1] /\ h[k] = b * h[k - 1]
  BY <1>5 DEF Powers
<1> QED
  BY <1>1, <1>4, <1>6

\* Power satisfies the equation that defines it.
LEMMA PowerDef ==
    ASSUME NEW b \in Nat
    PROVE  /\ Power(b, 0) = 1
           /\ \A n \in Nat : /\ Power(b, n) \in Nat
                              /\ Power(b, n + 1) = b * Power(b, n)
<1> DEFINE Rec(f) == f = [k \in Nat |-> IF k = 0 THEN 1 ELSE b * f[k - 1]]
           G(n) == CHOOSE g : Powers(b, n, g)
           F == [n \in Nat |-> G(n)[n]]
<1>1. ASSUME NEW n \in Nat PROVE Powers(b, n, G(n))
  BY PowersExist
<1> HIDE DEF G
<1>2. G(0)[0] = 1
  BY <1>1 DEF Powers
<1>3. ASSUME NEW n \in Nat, n # 0 PROVE G(n)[n] = b * G(n - 1)[n - 1]
  <2>1. n - 1 \in Nat /\ n \in 1 .. n
    BY <1>3
  <2>2. G(n)[n] = b * G(n)[n - 1]
    BY <1>1, <2>1 DEF Powers
  <2>3. G(n)[n - 1] = G(n - 1)[n - 1]
    BY <1>1, <2>1, PowersAgree
  <2> QED
    BY <2>2, <2>3
<1>4. Rec(F)
  <2>1. \A n \in Nat : F[n] = IF n = 0 THEN 1 ELSE b * F[n - 1]
    BY <1>2, <1>3
  <2> QED
    BY <2>1
<1>5. \A f : Rec(f) => f[0] = 1 /\ \A n \in Nat : f[n + 1] = b * f[n]
  OBVIOUS
<1> DEFINE P == CHOOSE f : Rec(f)
<1>6. \A n : Power(b, n) = P[n]
  BY DEF Power
<1> HIDE DEF Rec, F
<1>7. Rec(P)
  BY <1>4
<1> HIDE DEF P
<1>8. P[0] = 1 /\ \A n \in Nat : P[n + 1] = b * P[n]
  BY <1>5, <1>7
<1>9. ASSUME NEW n \in Nat PROVE P[n] \in Nat
  <2> DEFINE S == {m \in Nat : P[m] \notin Nat}
  <2> SUFFICES ASSUME S # {} PROVE FALSE
    OBVIOUS
  <2>1. PICK k \in S : \A x \in S : k <= x
    <3>1. S \subseteq Nat
      OBVIOUS
    <3> HIDE DEF S
    <3> QED
      BY <3>1, Smallest
  <2>2. k # 0
    BY <1>8, <2>1
  <2>3. PICK j \in Nat : k = j + 1
    <3>1. k - 1 \in Nat /\ k = (k - 1) + 1
      BY <2>1, <2>2
    <3> QED
      BY <3>1
  <2>4. j \notin S
    BY <2>1, <2>3
  <2>5. P[j] \in Nat
    BY <2>4
  <2>6. P[k] = b * P[j]
    BY <1>8, <2>3
  <2>7. b * P[j] \in Nat
    BY <2>5
  <2> QED
    BY <2>1, <2>6, <2>7
<1> QED
  BY <1>6, <1>8, <1>9

\* Powers of a positive number are positive.
LEMMA PowerPos ==
    ASSUME NEW b \in Nat, b > 0, NEW n \in Nat
    PROVE  Power(b, n) \in Nat /\ Power(b, n) > 0
<1> DEFINE S == {m \in Nat : ~(Power(b, m) > 0)}
<1> SUFFICES ASSUME S # {} PROVE FALSE
  BY PowerDef
<1>1. PICK k \in S : \A x \in S : k <= x
  <2>1. S \subseteq Nat
    OBVIOUS
  <2> HIDE DEF S
  <2> QED
    BY <2>1, Smallest
<1>2. k # 0
  BY <1>1, PowerDef
<1>3. PICK j \in Nat : k = j + 1
  <2>1. k - 1 \in Nat /\ k = (k - 1) + 1
    BY <1>1, <1>2
  <2> QED
    BY <2>1
<1>4. j \notin S
  BY <1>1, <1>3
<1>5. PICK p \in Nat : p = Power(b, j)
  BY PowerDef
<1>6. p > 0 /\ Power(b, k) = b * p
  BY <1>3, <1>4, <1>5, PowerDef
<1>7. b * p > 0
  BY <1>6
<1> QED
  BY <1>1, <1>6, <1>7

\* A power of a sum is a product of powers.
LEMMA PowerAdd ==
    ASSUME NEW b \in Nat, NEW m \in Nat, NEW n \in Nat
    PROVE  Power(b, m + n) = Power(b, m) * Power(b, n)
<1> DEFINE S == {k \in Nat : Power(b, m + k) # Power(b, m) * Power(b, k)}
<1> SUFFICES ASSUME S # {} PROVE FALSE
  OBVIOUS
<1>1. PICK k \in S : \A x \in S : k <= x
  <2>1. S \subseteq Nat
    OBVIOUS
  <2> HIDE DEF S
  <2> QED
    BY <2>1, Smallest
<1>2. PICK p \in Nat : p = Power(b, m)
  BY PowerDef
<1>3. k # 0
  <2>1. Power(b, 0) = 1 /\ m + 0 = m /\ p * 1 = p
    BY <1>2, PowerDef
  <2> QED
    BY <1>1, <1>2, <2>1
<1>4. PICK j \in Nat : k = j + 1
  <2>1. k - 1 \in Nat /\ k = (k - 1) + 1
    BY <1>1, <1>3
  <2> QED
    BY <2>1
<1>5. j \notin S
  BY <1>1, <1>4
<1>6. PICK q \in Nat : q = Power(b, j)
  BY PowerDef
<1>7. Power(b, m + j) = p * q
  BY <1>2, <1>5, <1>6
<1>8. Power(b, k) = b * q
  BY <1>4, <1>6, PowerDef
<1>9. Power(b, m + k) = b * (p * q)
  <2>1. PICK s \in Nat : s = m + j
    OBVIOUS
  <2>2. m + k = s + 1
    BY <1>4, <2>1
  <2>3. Power(b, s + 1) = b * Power(b, s)
    BY PowerDef
  <2> QED
    BY <1>7, <2>1, <2>2, <2>3
<1>10. b * (p * q) = p * (b * q)
  OBVIOUS
<1> QED
  BY <1>1, <1>2, <1>8, <1>9, <1>10

\* Powers grow.
LEMMA PowerGrows ==
    ASSUME NEW b \in Nat, b > 0, NEW m \in Nat, NEW n \in Nat, m <= n
    PROVE  Power(b, m) <= Power(b, n)
<1>1. PICK k \in Nat : n = m + k
  <2>1. n - m \in Nat /\ n = m + (n - m)
    OBVIOUS
  <2> QED
    BY <2>1
<1>2. PICK p \in Nat : p = Power(b, m)
  BY PowerDef
<1>3. PICK q \in Nat : q = Power(b, k) /\ q > 0
  BY PowerPos
<1>4. Power(b, n) = p * q
  BY <1>1, <1>2, <1>3, PowerAdd
<1>5. p <= p * q
  BY <1>3
<1> QED
  BY <1>2, <1>4, <1>5

\* The next power.
LEMMA PowerNext ==
    ASSUME NEW b \in Nat, NEW n \in Nat, n > 0
    PROVE  Power(b, n) = b * Power(b, n - 1)
<1>1. n - 1 \in Nat /\ n = (n - 1) + 1
  OBVIOUS
<1> QED
  BY <1>1, PowerDef

-----------------------------------------------------------------------------
(***************************************************************************)
(* Division of natural numbers.                                            *)
(***************************************************************************)

\* What a quotient and its remainder are.
LEMMA DivMod ==
    ASSUME NEW n \in Nat, NEW c \in Nat, c > 0
    PROVE  /\ n \div c \in Nat
           /\ n % c \in Nat
           /\ n % c < c
           /\ n = c * (n \div c) + (n % c)
OBVIOUS

\* Of two products the one with the smaller factor is smaller by at least c.
LEMMA FactorLess ==
    ASSUME NEW a \in Int, NEW b \in Int, NEW c \in Nat, a < b
    PROVE  c * a + c <= c * b
<1>1. c * (b - a - 1) >= 0
  <2>1. PICK d \in Nat : d = b - a - 1
    OBVIOUS
  <2>2. c * d >= 0
    OBVIOUS
  <2> QED
    BY <2>1, <2>2
<1>2. c * (b - a - 1) = c * b - c * a - c
  OBVIOUS
<1>3. c * a \in Int /\ c * b \in Int
  OBVIOUS
<1> QED
  BY <1>1, <1>2, <1>3

\* Factors keep an order.
LEMMA FactorLeq ==
    ASSUME NEW a \in Nat, NEW b \in Nat, NEW c \in Nat, a <= b
    PROVE  c * a <= c * b
<1>1. CASE a = b
  BY <1>1
<1>2. CASE a < b
  <2>1. c * a + c <= c * b
    BY <1>2, FactorLess
  <2>2. c * a \in Nat /\ c * b \in Nat
    OBVIOUS
  <2> QED
    BY <2>1, <2>2
<1> QED
  BY <1>1, <1>2

\* There is one quotient and one remainder.
LEMMA DivUnique ==
    ASSUME NEW c \in Nat, c > 0, NEW a \in Nat, NEW r \in Nat, r < c,
           NEW n \in Nat, n = c * a + r
    PROVE  n \div c = a /\ n % c = r
<1>1. PICK q \in Nat, s \in Nat :
         q = n \div c /\ s = n % c /\ s < c /\ n = c * q + s
  BY DivMod
<1>2. PICK u \in Nat, v \in Nat : u = c * q /\ v = c * a
  OBVIOUS
<1>3. ~(q < a)
  <2> SUFFICES ASSUME q < a PROVE FALSE
    OBVIOUS
  <2>1. c * q + c <= c * a
    BY FactorLess
  <2> QED
    BY <1>1, <1>2, <2>1
<1>4. ~(a < q)
  <2> SUFFICES ASSUME a < q PROVE FALSE
    OBVIOUS
  <2>1. c * a + c <= c * q
    BY FactorLess
  <2> QED
    BY <1>1, <1>2, <2>1
<1>5. q = a
  BY <1>3, <1>4
<1> QED
  BY <1>1, <1>2, <1>5

\* Quotients grow.
LEMMA DivMono ==
    ASSUME NEW c \in Nat, c > 0, NEW n \in Nat, NEW m \in Nat, n <= m
    PROVE  n \div c <= m \div c
<1>1. PICK q \in Nat, s \in Nat :
         q = n \div c /\ s = n % c /\ s < c /\ n = c * q + s
  BY DivMod
<1>2. PICK p \in Nat, r \in Nat :
         p = m \div c /\ r = m % c /\ r < c /\ m = c * p + r
  BY DivMod
<1>3. PICK u \in Nat, v \in Nat : u = c * q /\ v = c * p
  OBVIOUS
<1> SUFFICES ASSUME p < q PROVE FALSE
  BY <1>1, <1>2
<1>4. c * p + c <= c * q
  BY FactorLess
<1> QED
  BY <1>1, <1>2, <1>3, <1>4

\* Numbers with the same quotient differ in the remainder.
LEMMA SameQuotient ==
    ASSUME NEW c \in Nat, c > 0, NEW n \in Nat, NEW m \in Nat, n < m,
           n \div c = m \div c
    PROVE  n % c < m % c
<1>1. PICK q \in Nat, s \in Nat :
         q = n \div c /\ s = n % c /\ s < c /\ n = c * q + s
  BY DivMod
<1>2. PICK r \in Nat : r = m % c /\ r < c /\ m = c * q + r
  BY <1>1, DivMod
<1>3. PICK u \in Nat : u = c * q
  OBVIOUS
<1> QED
  BY <1>1, <1>2, <1>3

\* Dividing twice is dividing by the product.
LEMMA DivDiv ==
    ASSUME NEW c \in Nat, c > 0, NEW d \in Nat, d > 0, NEW n \in Nat
    PROVE  (n \div c) \div d = n \div (d * c)
<1>1. PICK q \in Nat, s \in Nat :
         q = n \div c /\ s = n % c /\ s < c /\ n = c * q + s
  BY DivMod
<1>2. PICK p \in Nat, r \in Nat :
         p = q \div d /\ r = q % d /\ r < d /\ q = d * p + r
  BY DivMod
<1>3. PICK e \in Nat : e = d * c /\ e > 0
  OBVIOUS
<1>4. PICK t \in Nat : t = c * r + s
  OBVIOUS
<1>5. n = e * p + t
  <2>1. c * (d * p + r) = (d * c) * p + c * r
    OBVIOUS
  <2>2. (d * c) * p \in Int /\ c * r \in Int
    OBVIOUS
  <2> QED
    BY <1>1, <1>2, <1>3, <1>4, <2>1, <2>2
<1>6. t < e
  <2>1. c * r + c <= c * d
    BY <1>2, FactorLess
  <2>2. c * d = d * c /\ c * r \in Int
    OBVIOUS
  <2> QED
    BY <1>1, <1>3, <1>4, <2>1, <2>2
<1>7. n \div e = p
  BY <1>3, <1>5, <1>6, DivUnique
<1> QED
  BY <1>1, <1>2, <1>3, <1>7

-----------------------------------------------------------------------------
(***************************************************************************)
(* Digits.                                                                 *)
(***************************************************************************)

\* Numbers that agree without their last j digits agree in all the others.
LEMMA HigherDigits ==
    ASSUME NEW n \in Nat, NEW m \in Nat, NEW j \in Nat, NEW i \in Nat, j <= i,
           n \div Power(Base, j) = m \div Power(Base, j)
    PROVE  n \div Power(Base, i) = m \div Power(Base, i)
<1>1. Base \in Nat /\ Base > 0
  BY ConvertAssumption
<1>2. PICK k \in Nat : i = j + k
  <2>1. i - j \in Nat /\ i = j + (i - j)
    OBVIOUS
  <2> QED
    BY <2>1
<1>3. PICK c \in Nat, d \in Nat :
         c = Power(Base, j) /\ c > 0 /\ d = Power(Base, k) /\ d > 0
  BY <1>1, PowerPos
<1>4. Power(Base, i) = d * c
  <2>1. Power(Base, i) = c * d /\ c * d = d * c
    BY <1>1, <1>2, <1>3, PowerAdd
  <2> QED
    BY <2>1
<1>5. /\ (n \div c) \div d = n \div (d * c)
      /\ (m \div c) \div d = m \div (d * c)
  BY <1>3, DivDiv
<1> QED
  BY <1>3, <1>4, <1>5

\* Of two numbers of w digits the smaller one has a smaller digit, and the
\* same ones before it.
LEMMA DigitLess ==
    ASSUME NEW w \in Nat, NEW n \in Nat, NEW m \in Nat, n < m,
           m < Power(Base, w)
    PROVE  \E k \in 0 .. w - 1 :
              /\ Digit(n, k) < Digit(m, k)
              /\ \A i \in k + 1 .. w - 1 : Digit(n, i) = Digit(m, i)
<1>1. Base \in Nat /\ Base > 0
  BY ConvertAssumption
<1> DEFINE S == {k \in Nat : n \div Power(Base, k) = m \div Power(Base, k)}
<1>2. w \in S
  <2>1. PICK c \in Nat : c = Power(Base, w) /\ c > 0
    BY <1>1, PowerPos
  <2>2. n = c * 0 + n /\ m = c * 0 + m /\ n < c /\ m < c
    BY <2>1
  <2>3. n \div c = 0 /\ m \div c = 0
    BY <2>1, <2>2, DivUnique
  <2> QED
    BY <2>1, <2>3
<1>3. 0 \notin S
  <2>1. Power(Base, 0) = 1 /\ n \div 1 = n /\ m \div 1 = m
    BY <1>1, PowerDef
  <2> QED
    BY <2>1
<1>4. PICK j \in S : \A x \in S : j <= x
  <2>1. S \subseteq Nat
    OBVIOUS
  <2> HIDE DEF S
  <2> QED
    BY <1>2, <2>1, Smallest
<1>5. PICK k \in Nat : j = k + 1
  <2>1. j \in Nat /\ j # 0
    BY <1>3, <1>4
  <2>2. j - 1 \in Nat /\ j = (j - 1) + 1
    BY <2>1
  <2> QED
    BY <2>2
<1>6. k \notin S /\ k \in 0 .. w - 1
  BY <1>2, <1>4, <1>5
<1>7. Digit(n, k) < Digit(m, k)
  <2>1. PICK c \in Nat : c = Power(Base, k) /\ c > 0
    BY <1>1, PowerPos
  <2>2. PICK p \in Nat, q \in Nat : p = n \div c /\ q = m \div c
    BY <2>1, DivMod
  <2>3. p <= q
    BY <2>1, <2>2, DivMono
  <2>4. p # q
    BY <1>6, <2>1, <2>2
  <2>5. Power(Base, j) = Base * c
    BY <1>1, <1>5, <2>1, PowerDef
  <2>6. p \div Base = n \div (Base * c) /\ q \div Base = m \div (Base * c)
    BY <1>1, <2>1, <2>2, DivDiv
  <2>7. p \div Base = q \div Base
    BY <1>4, <2>5, <2>6
  <2>8. p < q
    BY <2>3, <2>4
  <2>9. p % Base < q % Base
    BY <1>1, <2>7, <2>8, SameQuotient
  <2> QED
    BY <2>1, <2>2, <2>9 DEF Digit
<1>8. ASSUME NEW i \in k + 1 .. w - 1 PROVE Digit(n, i) = Digit(m, i)
  <2>1. i \in Nat /\ j \in Nat /\ j <= i
    BY <1>5
  <2>2. n \div Power(Base, j) = m \div Power(Base, j)
    BY <1>4
  <2>3. n \div Power(Base, i) = m \div Power(Base, i)
    BY <2>1, <2>2, HigherDigits
  <2> QED
    BY <2>3 DEF Digit
<1> QED
  BY <1>6, <1>7, <1>8

\* A digit is a natural number.
LEMMA DigitType ==
    ASSUME NEW n \in Nat, NEW i \in Nat
    PROVE  Digit(n, i) \in Nat
<1>1. Base \in Nat /\ Base > 0
  BY ConvertAssumption
<1>2. PICK c \in Nat : c = Power(Base, i) /\ c > 0
  BY <1>1, PowerPos
<1>3. PICK q \in Nat : q = n \div c
  BY <1>2, DivMod
<1>4. q % Base \in Nat
  BY <1>1, DivMod
<1> QED
  BY <1>2, <1>3, <1>4 DEF Digit

\* "%0wd" makes w digits.
LEMMA PaddedType ==
    ASSUME NEW n \in Nat, NEW w \in Nat
    PROVE  Padded(n, w) \in Seq(Nat) /\ Len(Padded(n, w)) = w
<1>1. ASSUME NEW i \in 1 .. w PROVE Digit(n, w - i) \in Nat
  BY DigitType
<1> QED
  BY <1>1 DEF Padded

\* The digits of a smaller number are smaller.
LEMMA PaddedLess ==
    ASSUME NEW w \in Nat, NEW n \in Nat, NEW m \in Nat, n < m,
           m < Power(Base, w)
    PROVE  \E i \in 1 .. w :
              /\ Padded(n, w)[i] < Padded(m, w)[i]
              /\ \A j \in 1 .. i - 1 : Padded(n, w)[j] = Padded(m, w)[j]
<1>1. PICK k \in 0 .. w - 1 :
         /\ Digit(n, k) < Digit(m, k)
         /\ \A i \in k + 1 .. w - 1 : Digit(n, i) = Digit(m, i)
  BY DigitLess
<1>2. w - k \in 1 .. w /\ w - (w - k) = k
  OBVIOUS
<1>3. Padded(n, w)[w - k] < Padded(m, w)[w - k]
  BY <1>1, <1>2 DEF Padded
<1>4. ASSUME NEW j \in 1 .. (w - k) - 1
      PROVE  Padded(n, w)[j] = Padded(m, w)[j]
  <2>1. j \in 1 .. w /\ w - j \in k + 1 .. w - 1
    OBVIOUS
  <2> QED
    BY <1>1, <2>1 DEF Padded
<1> QED
  BY <1>2, <1>3, <1>4

\* Different numbers have different digits.
LEMMA PaddedDiffer ==
    ASSUME NEW w \in Nat, NEW n \in Nat, NEW m \in Nat, n # m,
           n < Power(Base, w), m < Power(Base, w)
    PROVE  Padded(n, w) # Padded(m, w)
<1>1. ASSUME NEW x \in Nat, NEW y \in Nat, x < y, y < Power(Base, w)
      PROVE  Padded(x, w) # Padded(y, w)
  <2>1. PICK i \in 1 .. w : Padded(x, w)[i] < Padded(y, w)[i]
    BY <1>1, PaddedLess
  <2>2. Padded(x, w)[i] \in Nat
    <3>1. w - i \in Nat /\ Padded(x, w)[i] = Digit(x, w - i)
      BY DEF Padded
    <3> QED
      BY <3>1, DigitType
  <2> QED
    BY <2>1, <2>2
<1>2. n < m \/ m < n
  OBVIOUS
<1> QED
  BY <1>1, <1>2

\* A text with a first part put before it.
Cons(a, s) == <<a>> \o s

\* What such a text has where.
LEMMA ConsType ==
    ASSUME NEW a \in Int, NEW s \in Seq(Int)
    PROVE  /\ Cons(a, s) \in Seq(Int)
           /\ Len(Cons(a, s)) = 1 + Len(s)
           /\ Cons(a, s)[1] = a
BY DEF Cons

\* After the first part comes the other one.
LEMMA ConsNth ==
    ASSUME NEW a \in Int, NEW s \in Seq(Int), NEW i \in 1 .. Len(s)
    PROVE  Cons(a, s)[i + 1] = s[i]
BY DEF Cons

\* Such texts are equal only if both parts are.
LEMMA ConsEqual ==
    ASSUME NEW a \in Int, NEW b \in Int, NEW s \in Seq(Int), NEW t \in Seq(Int),
           Cons(a, s) = Cons(b, t)
    PROVE  a = b /\ s = t
<1>1. a = b /\ 1 + Len(s) = 1 + Len(t)
  BY ConsType
<1>2. Len(s) = Len(t)
  <2>1. Len(s) \in Nat /\ Len(t) \in Nat
    OBVIOUS
  <2> QED
    BY <1>1, <2>1
<1>3. ASSUME NEW i \in 1 .. Len(s) PROVE s[i] = t[i]
  <2>1. Cons(a, s)[i + 1] = s[i] /\ Cons(b, t)[i + 1] = t[i]
    <3>1. i \in 1 .. Len(t)
      BY <1>2
    <3> QED
      BY <3>1, ConsNth
  <2> QED
    BY <2>1
<1>4. s = t
  BY <1>2, <1>3, SeqEqual
<1> QED
  BY <1>1, <1>4

-----------------------------------------------------------------------------
(***************************************************************************)
(* Dates as text.                                                          *)
(***************************************************************************)

\* A date has some milliseconds in a second.
LEMMA PerSecondType == PerSecond \in Nat /\ PerSecond > 0
BY ConvertAssumption, PowerPos DEF PerSecond

\* C's quotient and remainder, with signs, give the number.
LEMMA QuotRem ==
    ASSUME NEW n \in Int, NEW c \in Nat, c > 0
    PROVE  /\ Quot(n, c) \in Int
           /\ Rem(n, c) \in Int
           /\ -c < Rem(n, c) /\ Rem(n, c) < c
           /\ n = c * Quot(n, c) + Rem(n, c)
           /\ n >= 0 => Quot(n, c) = n \div c /\ Rem(n, c) = n % c
<1>1. CASE n >= 0
  <2>1. /\ n \in Nat /\ n \div c \in Nat /\ n % c \in Nat /\ n % c < c
        /\ n = c * (n \div c) + (n % c)
    BY <1>1, DivMod
  <2>2. Abs(n) = n /\ Sign(n) = 1
    BY <1>1 DEF Abs, Sign
  <2>3. Quot(n, c) = n \div c /\ Rem(n, c) = n % c
    BY <2>1, <2>2 DEF Quot, Rem
  <2> QED
    BY <2>1, <2>3
<1>2. CASE n < 0
  <2>1. PICK a \in Nat : a = -n
    BY <1>2
  <2>2. Abs(n) = a /\ Sign(n) = -1
    BY <1>2, <2>1 DEF Abs, Sign
  <2>3. PICK q \in Nat, r \in Nat :
           q = a \div c /\ r = a % c /\ r < c /\ a = c * q + r
    BY DivMod
  <2>4. Quot(n, c) = -q /\ Rem(n, c) = -r
    BY <2>2, <2>3 DEF Quot, Rem
  <2>5. c * (-q) = -(c * q) /\ c * q \in Int
    OBVIOUS
  <2> QED
    BY <1>2, <2>1, <2>3, <2>4, <2>5
<1> QED
  BY <1>1, <1>2

\* The milliseconds are digits, after a minus sign if they are negative.
LEMMA MillisType ==
    ASSUME NEW r \in Int
    PROVE  /\ Millis(r) \in Seq(Int)
           /\ r < 0 => Millis(r)[1] = -1
           /\ r >= 0 => Millis(r)[1] \in Nat
<1>1. Digits \in Nat /\ Digits > 1 /\ Digits - 1 \in Nat
  BY ConvertAssumption
<1>2. CASE r >= 0
  <2>1. r \in Nat /\ Millis(r) = Padded(r, Digits)
    BY <1>2 DEF Millis
  <2>2. Padded(r, Digits) \in Seq(Nat) /\ Len(Padded(r, Digits)) = Digits
    BY <1>1, <2>1, PaddedType
  <2>3. Padded(r, Digits) \in Seq(Int)
    BY <2>2
  <2>4. Padded(r, Digits)[1] \in Nat
    BY <1>1, <2>2
  <2> QED
    BY <1>2, <2>1, <2>3, <2>4
<1>3. CASE r < 0
  <2>1. PICK a \in Nat : a = -r
    BY <1>3
  <2> DEFINE w == IF a < Power(Base, Digits - 1) THEN Digits - 1 ELSE Digits
  <2>2. Millis(r) = Cons(-1, Padded(a, w))
    BY <1>3, <2>1 DEF Millis, Cons
  <2>3. w \in Nat
    BY <1>1
  <2> HIDE DEF w
  <2>4. Padded(a, w) \in Seq(Int)
    <3>1. Padded(a, w) \in Seq(Nat)
      BY <2>3, PaddedType
    <3> QED
      BY <3>1
  <2>5. -1 \in Int
    OBVIOUS
  <2>6. Cons(-1, Padded(a, w)) \in Seq(Int) /\ Cons(-1, Padded(a, w))[1] = -1
    BY <2>4, <2>5, ConsType
  <2> QED
    BY <1>3, <2>2, <2>6
<1> QED
  BY <1>2, <1>3

\* Different milliseconds are different as text.
LEMMA MillisDiffer ==
    ASSUME NEW r \in Int, NEW s \in Int, r # s,
           -PerSecond < r, r < PerSecond, -PerSecond < s, s < PerSecond
    PROVE  Millis(r) # Millis(s)
<1>1. Digits \in Nat /\ Digits > 1 /\ Digits - 1 \in Nat
  BY ConvertAssumption
<1>2. CASE r >= 0 /\ s >= 0
  <2>1. r \in Nat /\ s \in Nat
    BY <1>2
  <2>2. r < Power(Base, Digits) /\ s < Power(Base, Digits)
    BY DEF PerSecond
  <2>3. Padded(r, Digits) # Padded(s, Digits)
    BY <1>1, <2>1, <2>2, PaddedDiffer
  <2> QED
    BY <1>2, <2>3 DEF Millis
<1>3. CASE (r >= 0 /\ s < 0) \/ (r < 0 /\ s >= 0)
  <2>1. Millis(r)[1] # Millis(s)[1]
    <3>1. ASSUME NEW x \in Int, NEW y \in Int, x >= 0, y < 0
          PROVE  Millis(x)[1] # Millis(y)[1]
      <4>1. Millis(x)[1] \in Nat
        BY <3>1, MillisType
      <4>2. Millis(y)[1] = -1
        BY <3>1, MillisType
      <4> QED
        BY <4>1, <4>2
    <3> QED
      BY <1>3, <3>1
  <2> QED
    BY <2>1
<1>4. CASE r < 0 /\ s < 0
  <2>1. PICK a \in Nat, b \in Nat : a = -r /\ b = -s
    BY <1>4
  <2> DEFINE w(x) == IF x < Power(Base, Digits - 1) THEN Digits - 1 ELSE Digits
  <2>2. /\ Millis(r) = Cons(-1, Padded(a, w(a)))
        /\ Millis(s) = Cons(-1, Padded(b, w(b)))
    BY <1>4, <2>1 DEF Millis, Cons
  <2>3. ASSUME NEW x \in Nat, x < PerSecond
        PROVE  w(x) \in Nat /\ x < Power(Base, w(x))
    BY <1>1, <2>3 DEF PerSecond
  <2>4. a # b /\ a < PerSecond /\ b < PerSecond
    BY <2>1, PerSecondType
  <2>5. w(a) \in Nat /\ w(b) \in Nat
    BY <2>3, <2>4
  <2>6. a < Power(Base, w(a)) /\ b < Power(Base, w(b))
    BY <2>3, <2>4
  <2> HIDE DEF w
  <2>7. /\ Padded(a, w(a)) \in Seq(Nat) /\ Len(Padded(a, w(a))) = w(a)
        /\ Padded(b, w(b)) \in Seq(Nat) /\ Len(Padded(b, w(b))) = w(b)
    BY <2>5, PaddedType
  <2>8. Padded(a, w(a)) # Padded(b, w(b))
    <3>1. CASE w(a) = w(b)
      BY <2>4, <2>5, <2>6, <3>1, PaddedDiffer
    <3>2. CASE w(a) # w(b)
      BY <2>7, <3>2
    <3> QED
      BY <3>1, <3>2
  <2>9. /\ Padded(a, w(a)) \in Seq(Int) /\ Padded(b, w(b)) \in Seq(Int)
        /\ -1 \in Int
    BY <2>7
  <2>10. Cons(-1, Padded(a, w(a))) # Cons(-1, Padded(b, w(b)))
    <3> SUFFICES ASSUME Cons(-1, Padded(a, w(a))) = Cons(-1, Padded(b, w(b)))
                 PROVE  FALSE
      OBVIOUS
    <3>1. Padded(a, w(a)) = Padded(b, w(b))
      BY <2>9, ConsEqual
    <3> QED
      BY <2>8, <3>1
  <2> QED
    BY <2>2, <2>10
<1> QED
  BY <1>2, <1>3, <1>4

\* Words are integers.
LEMMA WordsInt ==
    ASSUME NEW w \in Nat, w > 0
    PROVE  Half(w) \in Nat /\ Half(w) > 0 /\ Words(w) \subseteq Int
<1>1. w - 1 \in Nat /\ 2 \in Nat /\ 2 > 0
  OBVIOUS
<1>2. Half(w) \in Nat /\ Half(w) > 0
  BY <1>1, PowerPos DEF Half
<1> QED
  BY <1>2 DEF Words

\* A word has twice as many values as half of it.
LEMMA TwoHalves ==
    ASSUME NEW w \in Nat, w > 0
    PROVE  Power(2, w) = 2 * Half(w)
BY PowerNext DEF Half

\* Powers of two.
LEMMA TwoPower ==
    ASSUME NEW n \in Nat
    PROVE  \E p \in Nat : p = Power(2, n) /\ p > 0
<1>1. 2 \in Nat /\ 2 > 0
  OBVIOUS
<1> QED
  BY <1>1, PowerPos

\* Powers of two grow.
LEMMA TwoGrows ==
    ASSUME NEW m \in Nat, NEW n \in Nat, m <= n
    PROVE  \E p \in Nat, q \in Nat :
              p = Power(2, m) /\ q = Power(2, n) /\ p > 0 /\ p <= q
<1>1. 2 \in Nat /\ 2 > 0
  OBVIOUS
<1>2. PICK p \in Nat : p = Power(2, m) /\ p > 0
  BY TwoPower
<1>3. PICK q \in Nat : q = Power(2, n)
  BY TwoPower
<1>4. Power(2, m) <= Power(2, n)
  BY <1>1, PowerGrows
<1> QED
  BY <1>2, <1>3, <1>4

\* Powers of a larger number are larger.
LEMMA PowerBase ==
    ASSUME NEW b \in Nat, NEW c \in Nat, b <= c, NEW n \in Nat
    PROVE  Power(b, n) <= Power(c, n)
<1> DEFINE S == {k \in Nat : ~(Power(b, k) <= Power(c, k))}
<1> SUFFICES ASSUME S # {} PROVE FALSE
  OBVIOUS
<1>1. PICK k \in S : \A x \in S : k <= x
  <2>1. S \subseteq Nat
    OBVIOUS
  <2> HIDE DEF S
  <2> QED
    BY <2>1, Smallest
<1>2. k # 0
  BY <1>1, PowerDef
<1>3. PICK j \in Nat : k = j + 1
  <2>1. k - 1 \in Nat /\ k = (k - 1) + 1
    BY <1>1, <1>2
  <2> QED
    BY <2>1
<1>4. PICK p \in Nat, q \in Nat : p = Power(b, j) /\ q = Power(c, j)
  BY PowerDef
<1>5. p <= q
  BY <1>1, <1>3, <1>4
<1>6. Power(b, k) = b * p /\ Power(c, k) = c * q
  BY <1>3, <1>4, PowerDef
<1>7. b * p <= b * q
  BY <1>5, FactorLeq
<1>8. q * b <= q * c /\ q * b = b * q /\ q * c = c * q
  BY FactorLeq
<1>9. b * p \in Nat /\ b * q \in Nat /\ c * q \in Nat
  OBVIOUS
<1>10. b * p <= c * q
  BY <1>7, <1>8, <1>9
<1> QED
  BY <1>1, <1>6, <1>10

\* A number of a word has a width.
LEMMA WidthType ==
    ASSUME NEW a \in Nat, a <= Half(Wide)
    PROVE  Width(a) \in Nat /\ Width(a) > 0 /\ a < Power(Base, Width(a))
<1>1. /\ Wide \in Nat /\ Wide > 0 /\ Base \in Nat /\ 2 <= Base /\ 2 \in Nat
  BY ConvertAssumption
<1> DEFINE S == {k \in Nat : k > 0 /\ a < Power(Base, k)}
           W(k) == a < Power(Base, k) /\ (k > 1 => a >= Power(Base, k - 1))
<1>2. Wide \in S
  <2>1. PICK h \in Nat : h = Half(Wide) /\ h > 0 /\ Power(2, Wide) = 2 * h
    BY <1>1, WordsInt, TwoHalves
  <2>2. PICK b \in Nat : b = Power(Base, Wide) /\ Power(2, Wide) <= b
    <3>1. Power(Base, Wide) \in Nat
      BY <1>1, PowerDef
    <3>2. Power(2, Wide) <= Power(Base, Wide)
      BY <1>1, PowerBase
    <3> QED
      BY <3>1, <3>2
  <2> QED
    BY <1>1, <2>1, <2>2
<1>3. PICK l \in S : \A x \in S : l <= x
  <2>1. S \subseteq Nat
    OBVIOUS
  <2> HIDE DEF S
  <2> QED
    BY <1>2, <2>1, Smallest
<1>4. l \in 1 .. Wide
  BY <1>1, <1>2, <1>3
<1>5. ASSUME l > 1 PROVE a >= Power(Base, l - 1)
  <2>1. l - 1 \in Nat /\ l - 1 > 0 /\ l - 1 \notin S
    BY <1>3, <1>5
  <2>2. Power(Base, l - 1) \in Nat
    BY <1>1, <2>1, PowerDef
  <2> QED
    BY <2>1, <2>2
<1>6. W(l)
  BY <1>3, <1>5
<1>7. Width(a) = CHOOSE k \in 1 .. Wide : W(k)
  BY DEF Width
<1> HIDE DEF W
<1>8. Width(a) \in 1 .. Wide /\ W(Width(a))
  BY <1>4, <1>6, <1>7
<1> QED
  BY <1>1, <1>8 DEF W

\* A year as text: digits, after a minus sign if it is negative.
LEMMA DecimalType ==
    ASSUME NEW y \in Words(Wide)
    PROVE  /\ Decimal(y) \in Seq(Int)
           /\ Len(Decimal(y)) > 0
           /\ \A i \in 2 .. Len(Decimal(y)) : Decimal(y)[i] \in Nat
           /\ y < 0 => Decimal(y)[1] = -1
           /\ y >= 0 => Decimal(y)[1] \in Nat
<1>1. Wide \in Nat /\ Wide > 0
  BY ConvertAssumption
<1>2. PICK h \in Nat : h = Half(Wide) /\ h > 0
  BY <1>1, WordsInt
<1>3. y \in Int /\ -h <= y /\ y <= h - 1
  BY <1>2 DEF Words
<1>4. PICK a \in Nat : a = Abs(y) /\ a <= h
  BY <1>3 DEF Abs
<1>5. PICK w \in Nat : w = Width(a) /\ w > 0
  BY <1>2, <1>4, WidthType
<1>6. PICK s \in Seq(Nat) : s = Padded(a, w) /\ Len(s) = w
  BY PaddedType
<1>7. \A i \in 1 .. w : s[i] \in Nat
  BY <1>6
<1>8. s \in Seq(Int)
  BY <1>6
<1>9. CASE y >= 0
  <2>1. Decimal(y) = <<>> \o s
    BY <1>3, <1>4, <1>5, <1>6, <1>9 DEF Decimal
  <2>2. <<>> \o s = s
    BY <1>8, ConcatEmptySeq
  <2>3. PICK d : d = Decimal(y) /\ d = s
    BY <2>1, <2>2
  <2>4. /\ d \in Seq(Int) /\ Len(d) > 0 /\ d[1] \in Nat
        /\ \A i \in 2 .. Len(d) : d[i] \in Nat
    BY <1>5, <1>6, <1>7, <1>8, <2>3
  <2> QED
    BY <1>3, <1>9, <2>3, <2>4
<1>10. CASE y < 0
  <2>1. Decimal(y) = Cons(-1, s)
    BY <1>4, <1>5, <1>6, <1>10 DEF Decimal, Cons
  <2>2. -1 \in Int
    OBVIOUS
  <2>3. /\ Cons(-1, s) \in Seq(Int) /\ Len(Cons(-1, s)) = 1 + w
        /\ Cons(-1, s)[1] = -1
    BY <1>6, <1>8, <2>2, ConsType
  <2>4. ASSUME NEW i \in 2 .. 1 + w PROVE Cons(-1, s)[i] \in Nat
    <3>1. i - 1 \in 1 .. Len(s) /\ i = (i - 1) + 1
      BY <1>6
    <3>2. Cons(-1, s)[(i - 1) + 1] = s[i - 1]
      BY <1>8, <2>2, <3>1, ConsNth
    <3> QED
      BY <1>6, <1>7, <3>1, <3>2
  <2> QED
    <3>1. PICK d : d = Decimal(y) /\ d = Cons(-1, s)
      BY <2>1
    <3>2. /\ d \in Seq(Int) /\ Len(d) = 1 + w /\ d[1] = -1
          /\ \A i \in 2 .. 1 + w : d[i] \in Nat
      BY <2>3, <2>4, <3>1, Zenon
    <3>3. 1 + w > 0 /\ ~(y >= 0)
      BY <1>3, <1>10
    <3> QED
      BY <3>1, <3>2, <3>3, Zenon
<1> QED
  BY <1>3, <1>9, <1>10

\* The year of a date from 1970 on has no sign.
LEMMA DecimalPadded ==
    ASSUME NEW y \in Words(Wide), y >= 0
    PROVE  /\ y \in Nat /\ Width(y) \in Nat /\ y < Power(Base, Width(y))
           /\ Decimal(y) = Padded(y, Width(y))
           /\ Len(Decimal(y)) = Width(y)
<1>1. Wide \in Nat /\ Wide > 0
  BY ConvertAssumption
<1>2. PICK h \in Nat : h = Half(Wide) /\ h > 0
  BY <1>1, WordsInt
<1>3. y \in Nat /\ y <= h /\ Abs(y) = y
  BY <1>2 DEF Words, Abs
<1>4. Width(y) \in Nat /\ y < Power(Base, Width(y))
  BY <1>2, <1>3, WidthType
<1>5. PICK s \in Seq(Nat) : s = Padded(y, Width(y)) /\ Len(s) = Width(y)
  BY <1>3, <1>4, PaddedType
<1>6. Decimal(y) = <<>> \o s
  BY <1>3, <1>5 DEF Decimal
<1>7. <<>> \o s = s
  BY <1>5, ConcatEmptySeq
<1> QED
  BY <1>3, <1>4, <1>5, <1>6, <1>7

\* Different years are different as text.
LEMMA DecimalDiffer ==
    ASSUME NEW y \in Words(Wide), NEW z \in Words(Wide), y # z
    PROVE  Decimal(y) # Decimal(z)
<1>1. Wide \in Nat /\ Wide > 0
  BY ConvertAssumption
<1>2. PICK h \in Nat : h = Half(Wide) /\ h > 0
  BY <1>1, WordsInt
<1>3. y \in Int /\ z \in Int /\ -h <= y /\ y < h /\ -h <= z /\ z < h
  BY <1>2 DEF Words
<1>4. PICK a \in Nat : a = Abs(y) /\ a <= h
  BY <1>3 DEF Abs
<1>5. PICK b \in Nat : b = Abs(z) /\ b <= h
  BY <1>3 DEF Abs
<1>6. PICK v \in Nat : v = Width(a) /\ a < Power(Base, v)
  BY <1>2, <1>4, WidthType
<1>7. PICK w \in Nat : w = Width(b) /\ b < Power(Base, w)
  BY <1>2, <1>5, WidthType
<1>8. PICK s \in Seq(Int) : s = Padded(a, v) /\ Len(s) = v
  <2>1. Padded(a, v) \in Seq(Nat) /\ Len(Padded(a, v)) = v
    BY PaddedType
  <2> QED
    BY <2>1
<1>9. PICK t \in Seq(Int) : t = Padded(b, w) /\ Len(t) = w
  <2>1. Padded(b, w) \in Seq(Nat) /\ Len(Padded(b, w)) = w
    BY PaddedType
  <2> QED
    BY <2>1
<1>10. ASSUME s = t PROVE a = b
  <2>1. v = w
    BY <1>8, <1>9, <1>10
  <2> QED
    BY <1>6, <1>7, <1>8, <1>9, <1>10, <2>1, PaddedDiffer
<1>11. CASE y >= 0 /\ z >= 0
  <2>1. Decimal(y) = <<>> \o s /\ Decimal(z) = <<>> \o t
    BY <1>3, <1>4, <1>5, <1>6, <1>7, <1>8, <1>9, <1>11 DEF Decimal
  <2>2. <<>> \o s = s /\ <<>> \o t = t
    BY ConcatEmptySeq
  <2>3. a # b
    BY <1>3, <1>4, <1>5, <1>11 DEF Abs
  <2> QED
    BY <1>10, <2>1, <2>2, <2>3
<1>12. CASE y < 0 /\ z < 0
  <2>1. Decimal(y) = Cons(-1, s) /\ Decimal(z) = Cons(-1, t)
    BY <1>4, <1>5, <1>6, <1>7, <1>8, <1>9, <1>12 DEF Decimal, Cons
  <2>2. -1 \in Int
    OBVIOUS
  <2>3. Cons(-1, s) = Cons(-1, t) => s = t
    BY <2>2, ConsEqual
  <2>4. a # b
    BY <1>3, <1>4, <1>5, <1>12 DEF Abs
  <2> QED
    BY <1>10, <2>1, <2>3, <2>4
<1>13. CASE (y < 0 /\ z >= 0) \/ (y >= 0 /\ z < 0)
  <2>1. Decimal(y)[1] # Decimal(z)[1]
    <3>1. ASSUME NEW i \in Words(Wide), NEW j \in Words(Wide), i < 0, j >= 0
          PROVE  Decimal(i)[1] # Decimal(j)[1]
      <4>1. Decimal(i)[1] = -1
        BY <3>1, DecimalType
      <4>2. Decimal(j)[1] \in Nat
        BY <3>1, DecimalType
      <4> QED
        BY <4>1, <4>2
    <3> QED
      BY <1>13, <3>1
  <2> QED
    BY <2>1
<1> QED
  BY <1>3, <1>11, <1>12, <1>13

\* A date as text has a year, a minus sign, the rest of the year and the
\* milliseconds.
Text(d, x, ms) == d \o <<-1, x>> \o ms

\* Where the parts of a sequence are.
LEMMA JoinParts ==
    ASSUME NEW s \in Seq(Int), NEW t \in Seq(Int)
    PROVE  /\ s \o t \in Seq(Int) /\ Len(s \o t) = Len(s) + Len(t)
           /\ \A i \in 1 .. Len(s) : (s \o t)[i] = s[i]
           /\ \A i \in 1 .. Len(t) : (s \o t)[Len(s) + i] = t[i]
OBVIOUS

\* Where the parts of a text are.
LEMMA TextParts ==
    ASSUME NEW d \in Seq(Int), NEW x \in Int, NEW ms \in Seq(Int)
    PROVE  /\ Text(d, x, ms) \in Seq(Int)
           /\ Len(Text(d, x, ms)) = Len(d) + 2 + Len(ms)
           /\ \A i \in 1 .. Len(d) : Text(d, x, ms)[i] = d[i]
           /\ Text(d, x, ms)[Len(d) + 1] = -1
           /\ Text(d, x, ms)[Len(d) + 2] = x
           /\ \A i \in 1 .. Len(ms) : Text(d, x, ms)[Len(d) + 2 + i] = ms[i]
<1>1. PICK s \in Seq(Int) : /\ s = <<-1, x>> /\ Len(s) = 2
                            /\ s[1] = -1 /\ s[2] = x
  <2>1. /\ <<-1, x>> \in Seq(Int) /\ Len(<<-1, x>>) = 2
        /\ <<-1, x>>[1] = -1 /\ <<-1, x>>[2] = x
    OBVIOUS
  <2> QED
    BY <2>1
<1>2. PICK p \in Nat, l \in Nat : p = Len(d) /\ l = Len(ms)
  OBVIOUS
<1>3. PICK c \in Seq(Int) : /\ c = d \o s /\ Len(c) = p + 2
                            /\ \A i \in 1 .. p : c[i] = d[i]
                            /\ \A i \in 1 .. 2 : c[p + i] = s[i]
  <2>1. /\ d \o s \in Seq(Int) /\ Len(d \o s) = Len(d) + Len(s)
        /\ \A i \in 1 .. Len(d) : (d \o s)[i] = d[i]
        /\ \A i \in 1 .. Len(s) : (d \o s)[Len(d) + i] = s[i]
    BY JoinParts
  <2> QED
    BY <1>1, <1>2, <2>1
<1>4. PICK t \in Seq(Int) : /\ t = c \o ms /\ Len(t) = p + 2 + l
                            /\ \A i \in 1 .. p + 2 : t[i] = c[i]
                            /\ \A i \in 1 .. l : t[p + 2 + i] = ms[i]
  <2>1. /\ c \o ms \in Seq(Int) /\ Len(c \o ms) = Len(c) + Len(ms)
        /\ \A i \in 1 .. Len(c) : (c \o ms)[i] = c[i]
        /\ \A i \in 1 .. Len(ms) : (c \o ms)[Len(c) + i] = ms[i]
    BY JoinParts
  <2>2. /\ Len(c \o ms) = p + 2 + l
        /\ \A i \in 1 .. p + 2 : (c \o ms)[i] = c[i]
        /\ \A i \in 1 .. l : (c \o ms)[p + 2 + i] = ms[i]
    BY <1>2, <1>3, <2>1, Zenon
  <2> QED
    BY <2>1, <2>2, Zenon
<1>5. Text(d, x, ms) = t
  BY <1>1, <1>3, <1>4 DEF Text
<1>6. t[p + 1] = -1 /\ t[p + 2] = x
  BY <1>1, <1>3, <1>4
<1>7. \A i \in 1 .. p : t[i] = d[i]
  BY <1>3, <1>4
<1> QED
  BY <1>2, <1>4, <1>5, <1>6, <1>7

\* The same, of a sequence that is a text.
HasParts(t, d, p, x, ms, l) ==
    /\ Len(t) = p + 2 + l
    /\ \A i \in 1 .. p : t[i] = d[i]
    /\ t[p + 1] = -1 /\ t[p + 2] = x
    /\ \A i \in 1 .. l : t[p + 2 + i] = ms[i]

\* A text has its parts.
LEMMA TextIs ==
    ASSUME NEW d \in Seq(Int), NEW x \in Int, NEW ms \in Seq(Int)
    PROVE  HasParts(Text(d, x, ms), d, Len(d), x, ms, Len(ms))
<1>1. /\ Text(d, x, ms) \in Seq(Int)
      /\ Len(Text(d, x, ms)) = Len(d) + 2 + Len(ms)
      /\ \A i \in 1 .. Len(d) : Text(d, x, ms)[i] = d[i]
      /\ Text(d, x, ms)[Len(d) + 1] = -1
      /\ Text(d, x, ms)[Len(d) + 2] = x
      /\ \A i \in 1 .. Len(ms) : Text(d, x, ms)[Len(d) + 2 + i] = ms[i]
  BY TextParts
<1> QED
  BY <1>1, Zenon DEF HasParts

\* A number as text has a minus sign at most before its digits.
OneSign(d) == Len(d) > 0 /\ \A i \in 2 .. Len(d) : d[i] \in Nat

\* The minus sign after the year tells where it ends, however many digits it has.
LEMMA TextEqual ==
    ASSUME NEW d \in Seq(Int), NEW e \in Seq(Int), OneSign(d), OneSign(e),
           NEW x \in Int, NEW y \in Int, NEW ms \in Seq(Int), NEW ns \in Seq(Int),
           Text(d, x, ms) = Text(e, y, ns)
    PROVE  d = e /\ x = y /\ ms = ns
<1>1. PICK p \in Nat, q \in Nat : p = Len(d) /\ q = Len(e) /\ p > 0 /\ q > 0
  BY DEF OneSign
<1>2. PICK t \in Seq(Int) : t = Text(d, x, ms)
  BY TextParts
<1>3. HasParts(t, d, p, x, ms, Len(ms))
  BY <1>1, <1>2, TextIs
<1>4. HasParts(t, e, q, y, ns, Len(ns))
  BY <1>1, <1>2, TextIs
<1> USE DEF HasParts, OneSign
<1>5. p = q
  <2>1. ASSUME p < q PROVE FALSE
    <3>1. p + 1 \in 2 .. q /\ p + 1 \in 1 .. q
      BY <1>1, <2>1
    <3>2. e[p + 1] = -1 /\ e[p + 1] \in Nat
      BY <1>1, <1>3, <1>4, <3>1
    <3> QED
      BY <3>2
  <2>2. ASSUME q < p PROVE FALSE
    <3>1. q + 1 \in 2 .. p /\ q + 1 \in 1 .. p
      BY <1>1, <2>2
    <3>2. d[q + 1] = -1 /\ d[q + 1] \in Nat
      BY <1>1, <1>3, <1>4, <3>1
    <3> QED
      BY <3>2
  <2> QED
    BY <2>1, <2>2
<1>6. d = e
  <2>1. \A i \in 1 .. Len(d) : d[i] = e[i]
    BY <1>1, <1>3, <1>4, <1>5
  <2> QED
    BY <1>1, <1>5, <2>1, SeqEqual
<1>7. Len(ms) = Len(ns)
  <2>1. Len(ms) \in Nat /\ Len(ns) \in Nat
    OBVIOUS
  <2> QED
    BY <1>3, <1>4, <1>5, <2>1
<1>8. ms = ns
  <2>1. \A i \in 1 .. Len(ms) : ms[i] = ns[i]
    BY <1>3, <1>4, <1>5, <1>7
  <2> QED
    BY <1>7, <2>1, SeqEqual
<1> QED
  BY <1>3, <1>4, <1>5, <1>6, <1>8

\* Texts with years of the same width compare like their parts.
LEMMA TextBefore ==
    ASSUME NEW d \in Seq(Int), NEW e \in Seq(Int), Len(d) = Len(e),
           NEW x \in Int, NEW y \in Int, NEW ms \in Seq(Int), NEW ns \in Seq(Int),
           Len(ms) = Len(ns),
           \/ \E i \in 1 .. Len(d) : d[i] < e[i] /\ \A j \in 1 .. i - 1 : d[j] = e[j]
           \/ d = e /\ x < y
           \/ /\ d = e /\ x = y
              /\ \E i \in 1 .. Len(ms) :
                    ms[i] < ns[i] /\ \A j \in 1 .. i - 1 : ms[j] = ns[j]
    PROVE  Before(Text(d, x, ms), Text(e, y, ns))
<1>1. PICK p \in Nat, l \in Nat : p = Len(d) /\ l = Len(ms)
  OBVIOUS
<1>2. PICK s \in Seq(Int), t \in Seq(Int) :
         s = Text(d, x, ms) /\ t = Text(e, y, ns)
  BY TextParts
<1>3. HasParts(s, d, p, x, ms, l)
  BY <1>1, <1>2, TextIs
<1>4. HasParts(t, e, p, y, ns, l)
  <2>1. HasParts(t, e, Len(e), y, ns, Len(ns))
    BY <1>2, TextIs
  <2> QED
    BY <1>1, <2>1
<1> USE DEF HasParts
<1>5. SUFFICES ASSUME NEW i \in 1 .. p + 2 + l, s[i] < t[i],
                      NEW k \in Nat, k = i,
                      \A j \in 1 .. i - 1 : s[j] = t[j]
               PROVE  Before(s, t)
  <2>1. CASE \E i \in 1 .. p : d[i] < e[i] /\ \A j \in 1 .. i - 1 : d[j] = e[j]
    <3>1. PICK i \in 1 .. p : d[i] < e[i] /\ \A j \in 1 .. i - 1 : d[j] = e[j]
      BY <2>1
    <3>2. /\ i \in Nat /\ i \in 1 .. p + 2 + l /\ s[i] < t[i]
          /\ \A j \in 1 .. i - 1 : s[j] = t[j]
      BY <1>3, <1>4, <3>1
    <3> QED
      BY <1>2, <1>5, <3>2
  <2>2. ASSUME d = e, NEW j \in 1 .. p + 1 PROVE s[j] = t[j]
    <3>1. CASE j = p + 1
      BY <1>3, <1>4, <3>1
    <3>2. CASE j # p + 1
      <4>1. j \in 1 .. p
        BY <3>2
      <4> QED
        BY <1>3, <1>4, <2>2, <4>1
    <3> QED
      BY <3>1, <3>2
  <2>3. CASE d = e /\ x < y
    <3>1. /\ p + 2 \in Nat /\ p + 2 \in 1 .. p + 2 + l /\ s[p + 2] < t[p + 2]
          /\ \A j \in 1 .. (p + 2) - 1 : s[j] = t[j]
      BY <1>3, <1>4, <2>2, <2>3
    <3> QED
      BY <1>2, <1>5, <3>1
  <2>4. CASE /\ d = e /\ x = y
             /\ \E i \in 1 .. l :
                   ms[i] < ns[i] /\ \A j \in 1 .. i - 1 : ms[j] = ns[j]
    <3>1. PICK i \in 1 .. l :
             ms[i] < ns[i] /\ \A j \in 1 .. i - 1 : ms[j] = ns[j]
      BY <2>4
    <3>2. p + 2 + i \in Nat /\ p + 2 + i \in 1 .. p + 2 + l
      OBVIOUS
    <3>3. s[p + 2 + i] < t[p + 2 + i]
      BY <1>3, <1>4, <3>1
    <3>4. ASSUME NEW j \in 1 .. (p + 2 + i) - 1 PROVE s[j] = t[j]
      <4>1. CASE j <= p + 1
        BY <2>2, <2>4, <4>1
      <4>2. CASE j = p + 2
        BY <1>3, <1>4, <2>4, <4>2
      <4>3. CASE j > p + 2
        <5>1. PICK m \in 1 .. i - 1 : j = p + 2 + m
          <6>1. j - (p + 2) \in 1 .. i - 1 /\ j = p + 2 + (j - (p + 2))
            BY <4>3
          <6> QED
            BY <6>1
        <5>2. m \in 1 .. l
          OBVIOUS
        <5> QED
          BY <1>3, <1>4, <3>1, <5>1, <5>2
      <4> QED
        BY <4>1, <4>2, <4>3
    <3> QED
      BY <1>2, <1>5, <3>2, <3>3, <3>4
  <2> QED
    BY <1>1, <2>1, <2>3, <2>4
<1>6. \A j \in 1 .. i - 1 : j <= Len(s)
  BY <1>3
<1> QED
  BY <1>3, <1>4, <1>5, <1>6 DEF Before

\* A number that fits into a word is not changed by the conversion.
LEMMA ToWordExact ==
    ASSUME NEW w \in Nat, w > 0, NEW n \in Words(w)
    PROVE  ToWord(n, w) = n
<1>1. PICK h \in Nat : h = Half(w) /\ h > 0 /\ Power(2, w) = 2 * h
  BY WordsInt, TwoHalves
<1>2. PICK y \in Nat : y = n + h /\ y < 2 * h
  BY <1>1 DEF Words
<1>3. y % (2 * h) = y
  <2>1. PICK c \in Nat : c = 2 * h /\ c > 0
    BY <1>1
  <2>2. y = c * 0 + y
    OBVIOUS
  <2>3. y % c = y
    BY <1>2, <2>1, <2>2, DivUnique
  <2> QED
    BY <2>1, <2>3
<1>4. n \in Int
  BY WordsInt
<1> QED
  BY <1>1, <1>2, <1>3, <1>4 DEF ToWord

\* What a date that a time_t holds is as text.
LEMMA DateParts ==
    ASSUME NEW n \in Timely
    PROVE  \E s \in Words(TimeBits), r \in Int :
              /\ s = Quot(n, PerSecond) /\ r = Rem(n, PerSecond)
              /\ s \in Int /\ n \in Int /\ Seconds(n) = s
              /\ n = PerSecond * s + r /\ -PerSecond < r /\ r < PerSecond
              /\ Year(s) \in Words(Wide) /\ InYear(s) \in Nat
              /\ ConvertDate(n, TRUE).val = Text(Decimal(Year(s)), InYear(s), Millis(r))
<1>1. n \in Int
  BY ConvertAssumption, WordsInt DEF Timely
<1>2. PICK c \in Nat : c = PerSecond /\ c > 0
  BY PerSecondType
<1>3. PICK s \in Words(TimeBits) : s = Quot(n, c)
  BY <1>2 DEF Timely
<1>4. PICK r \in Int : /\ r = Rem(n, c) /\ -c < r /\ r < c
                       /\ n = c * s + r /\ s \in Int
  BY <1>1, <1>2, <1>3, QuotRem
<1>5. TimeBits \in Nat /\ TimeBits > 0
  BY ConvertAssumption
<1>6. Seconds(n) = s
  BY <1>2, <1>3, <1>5, ToWordExact DEF Seconds
<1>7. Year(s) \in Words(Wide) /\ InYear(s) \in Nat
  BY CalendarAssumption
<1>8. ConvertDate(n, TRUE).val = Text(Decimal(Year(s)), InYear(s), Millis(r))
  BY <1>2, <1>4, <1>6 DEF ConvertDate, DateText, String, Text
<1> QED
  BY <1>1, <1>2, <1>3, <1>4, <1>6, <1>7, <1>8

\* Different dates that a time_t holds are different as text.
LEMMA DatesDistinctHolds == DatesDistinct
<1> SUFFICES ASSUME NEW n \in Timely, NEW m \in Timely, n # m,
                    ConvertDate(n, TRUE) = ConvertDate(m, TRUE)
             PROVE  FALSE
  BY DEF DatesDistinct
<1>1. PICK c \in Nat : c = PerSecond
  BY PerSecondType
<1>2. PICK s \in Words(TimeBits), r \in Int :
         /\ s \in Int /\ n = c * s + r /\ -c < r /\ r < c
         /\ Year(s) \in Words(Wide) /\ InYear(s) \in Nat
         /\ ConvertDate(n, TRUE).val = Text(Decimal(Year(s)), InYear(s), Millis(r))
  BY <1>1, DateParts
<1>3. PICK t \in Words(TimeBits), q \in Int :
         /\ t \in Int /\ m = c * t + q /\ -c < q /\ q < c
         /\ Year(t) \in Words(Wide) /\ InYear(t) \in Nat
         /\ ConvertDate(m, TRUE).val = Text(Decimal(Year(t)), InYear(t), Millis(q))
  BY <1>1, DateParts
<1>4. PICK d \in Seq(Int) : /\ d = Decimal(Year(s)) /\ Len(d) > 0
                            /\ \A i \in 2 .. Len(d) : d[i] \in Nat
  BY <1>2, DecimalType
<1>5. PICK e \in Seq(Int) : /\ e = Decimal(Year(t)) /\ Len(e) > 0
                            /\ \A i \in 2 .. Len(e) : e[i] \in Nat
  BY <1>3, DecimalType
<1>6. PICK ms \in Seq(Int), ns \in Seq(Int) : ms = Millis(r) /\ ns = Millis(q)
  BY MillisType
<1>7. PICK x \in Int, y \in Int : x = InYear(s) /\ y = InYear(t)
  BY <1>2, <1>3
<1>8. Text(d, x, ms) = Text(e, y, ns)
  BY <1>2, <1>3, <1>4, <1>5, <1>6, <1>7
<1>9. d = e /\ x = y /\ ms = ns
  <2>1. OneSign(d) /\ OneSign(e)
    BY <1>4, <1>5 DEF OneSign
  <2> QED
    BY <1>8, <2>1, TextEqual
<1>10. Year(s) = Year(t)
  BY <1>2, <1>3, <1>4, <1>5, <1>9, DecimalDiffer
<1>11. r = q
  BY <1>1, <1>2, <1>3, <1>6, <1>9, MillisDiffer
<1>12. s = t
  <2>1. Year(s) \in Int /\ Year(t) \in Int
    <3>1. Wide \in Nat /\ Wide > 0
      BY ConvertAssumption
    <3>2. Words(Wide) \subseteq Int
      BY <3>1, WordsInt
    <3> QED
      BY <1>2, <1>3, <3>2
  <2>2. ~(s < t)
    <3> SUFFICES ASSUME s < t PROVE FALSE
      OBVIOUS
    <3>1. Year(s) < Year(t) \/ InYear(s) < InYear(t)
      BY CalendarAssumption
    <3> QED
      BY <1>7, <1>9, <1>10, <2>1, <3>1
  <2>3. ~(t < s)
    <3> SUFFICES ASSUME t < s PROVE FALSE
      OBVIOUS
    <3>1. Year(t) < Year(s) \/ InYear(t) < InYear(s)
      BY CalendarAssumption
    <3> QED
      BY <1>7, <1>9, <1>10, <2>1, <3>1
  <2> QED
    BY <1>2, <1>3, <2>2, <2>3
<1> QED
  BY <1>2, <1>3, <1>11, <1>12

\* From 1970 on the milliseconds have a fixed width.
LEMMA MillisPadded ==
    ASSUME NEW r \in Nat
    PROVE  Millis(r) = Padded(r, Digits) /\ Len(Millis(r)) = Digits
<1>1. Millis(r) = Padded(r, Digits)
  BY DEF Millis
<1> QED
  BY <1>1, ConvertAssumption, PaddedType

\* An earlier date from 1970 on comes before a later one as text, if their years
\* have the same width.
LEMMA TextsOrderedHolds == TextsOrdered
<1> SUFFICES ASSUME NEW n \in Timely, NEW m \in Timely, 0 <= n, n < m,
                    SameWidth(n, m)
             PROVE  Before(ConvertDate(n, TRUE).val, ConvertDate(m, TRUE).val)
  BY DEF TextsOrdered
<1>1. PICK c \in Nat : c = PerSecond /\ c > 0
  BY PerSecondType
<1>2. PICK s \in Words(TimeBits), r \in Int :
         /\ s = Quot(n, c) /\ r = Rem(n, c)
         /\ s \in Int /\ n \in Int /\ Seconds(n) = s
         /\ Year(s) \in Words(Wide) /\ InYear(s) \in Nat
         /\ ConvertDate(n, TRUE).val = Text(Decimal(Year(s)), InYear(s), Millis(r))
  BY <1>1, DateParts
<1>3. PICK t \in Words(TimeBits), q \in Int :
         /\ t = Quot(m, c) /\ q = Rem(m, c)
         /\ t \in Int /\ m \in Int /\ Seconds(m) = t
         /\ Year(t) \in Words(Wide) /\ InYear(t) \in Nat
         /\ ConvertDate(m, TRUE).val = Text(Decimal(Year(t)), InYear(t), Millis(q))
  BY <1>1, DateParts
<1>4. /\ n \in Nat /\ m \in Nat
      /\ s = n \div c /\ r = n % c /\ t = m \div c /\ q = m % c
  BY <1>1, <1>2, <1>3, QuotRem
<1>5. /\ s \in Nat /\ r \in Nat /\ r < c /\ t \in Nat /\ q \in Nat /\ q < c
      /\ s <= t /\ (s = t => r < q)
  BY <1>1, <1>4, DivMod, DivMono, SameQuotient
<1>6. Year(s) \in Nat /\ Year(t) \in Nat
  <2>1. 0 \in Words(TimeBits)
    <3>1. TimeBits \in Nat /\ TimeBits > 0
      BY ConvertAssumption
    <3>2. PICK h \in Nat : h = Half(TimeBits) /\ h > 0
      BY <3>1, WordsInt
    <3> QED
      BY <3>2 DEF Words
  <2>2. Year(s) \in Int /\ Year(t) \in Int
    BY <1>2, <1>3, ConvertAssumption, WordsInt
  <2>3. \A u \in Words(TimeBits) : 0 < u /\ Year(u) \in Int => Year(u) \in Nat
    BY <2>1, CalendarAssumption
  <2>4. ASSUME NEW u \in Words(TimeBits), u \in Nat, Year(u) \in Int
        PROVE  Year(u) \in Nat
    <3>1. CASE u = 0
      BY <3>1, CalendarAssumption
    <3>2. CASE u > 0
      BY <2>3, <2>4, <3>2
    <3> QED
      BY <2>4, <3>1, <3>2
  <2> QED
    BY <1>5, <2>2, <2>4
<1>7. PICK w \in Nat : /\ w = Width(Year(s)) /\ w = Width(Year(t))
                       /\ Year(t) < Power(Base, w)
                       /\ Decimal(Year(s)) = Padded(Year(s), w)
                       /\ Decimal(Year(t)) = Padded(Year(t), w)
                       /\ Len(Decimal(Year(s))) = w /\ Len(Decimal(Year(t))) = w
  <2>1. Width(Year(s)) = Width(Year(t))
    BY <1>2, <1>3 DEF SameWidth
  <2> QED
    BY <1>2, <1>3, <1>6, <2>1, DecimalPadded
<1>8. PICK d \in Seq(Int) : d = Decimal(Year(s)) /\ Len(d) = w
  BY <1>2, <1>7, DecimalType
<1>9. PICK e \in Seq(Int) : e = Decimal(Year(t)) /\ Len(e) = w
  BY <1>3, <1>7, DecimalType
<1>10. PICK l \in Nat : l = Digits
  BY ConvertAssumption
<1>11. PICK ms \in Seq(Int) :
          ms = Millis(r) /\ ms = Padded(r, l) /\ Len(ms) = l
  BY <1>5, <1>10, MillisType, MillisPadded
<1>12. PICK ns \in Seq(Int) :
          ns = Millis(q) /\ ns = Padded(q, l) /\ Len(ns) = l
  BY <1>5, <1>10, MillisType, MillisPadded
<1>13. PICK x \in Int, y \in Int : x = InYear(s) /\ y = InYear(t)
  BY <1>2, <1>3
<1>14. \/ \E i \in 1 .. Len(d) : d[i] < e[i] /\ \A j \in 1 .. i - 1 : d[j] = e[j]
       \/ d = e /\ x < y
       \/ /\ d = e /\ x = y
          /\ \E i \in 1 .. Len(ms) :
                ms[i] < ns[i] /\ \A j \in 1 .. i - 1 : ms[j] = ns[j]
  <2>1. CASE Year(s) < Year(t)
    <3>1. \E i \in 1 .. w :
              /\ Padded(Year(s), w)[i] < Padded(Year(t), w)[i]
              /\ \A j \in 1 .. i - 1 :
                    Padded(Year(s), w)[j] = Padded(Year(t), w)[j]
      BY <1>6, <1>7, <2>1, PaddedLess
    <3> QED
      BY <1>7, <1>8, <1>9, <3>1
  <2>2. CASE Year(s) = Year(t) /\ x < y
    BY <1>8, <1>9, <2>2
  <2>3. CASE s = t
    <3>1. q < Power(Base, l) /\ r < q
      BY <1>1, <1>5, <1>10, <2>3 DEF PerSecond
    <3>2. \E i \in 1 .. l :
              /\ Padded(r, l)[i] < Padded(q, l)[i]
              /\ \A j \in 1 .. i - 1 : Padded(r, l)[j] = Padded(q, l)[j]
      BY <1>5, <3>1, PaddedLess
    <3> QED
      BY <1>8, <1>9, <1>11, <1>12, <1>13, <2>3, <3>2
  <2>4. s < t => Year(s) < Year(t) \/ (Year(s) = Year(t) /\ x < y)
    BY <1>13, CalendarAssumption
  <2> QED
    BY <1>5, <2>1, <2>2, <2>3, <2>4
<1>15. Before(Text(d, x, ms), Text(e, y, ns))
  BY <1>8, <1>9, <1>11, <1>12, <1>14, TextBefore
<1> QED
  BY <1>2, <1>3, <1>8, <1>9, <1>11, <1>12, <1>13, <1>15

-----------------------------------------------------------------------------
(***************************************************************************)
(* Integers and timestamps.                                                *)
(***************************************************************************)

\* Only the int32 that is NA needs a double, and it gets one.
LEMMA Int32KeptHolds == Int32Kept
<1> SUFFICES ASSUME NEW n \in Words(Bits)
             PROVE  /\ ConvertInt32(n).val = n
                    /\ ~(/\ ConvertInt32(n).class = "integer"
                         /\ ConvertInt32(n).val = NA)
  BY DEF Int32Kept
<1> QED
  BY DEF ConvertInt32, Integer, Real

\* Unsigned words remain different as signed integers.
LEMMA ToIntDiffer ==
    ASSUME NEW t \in Unsigned, NEW u \in Unsigned, t # u
    PROVE  ToInt(t) # ToInt(u)
<1>1. Bits \in Nat /\ Bits > 0
  BY ConvertAssumption
<1>2. PICK h \in Nat : h = Half(Bits) /\ Power(2, Bits) = 2 * h
  BY <1>1, TwoHalves, WordsInt
<1> QED
  BY <1>2 DEF ToInt, Unsigned

\* Timestamps remain different.
LEMMA TimestampsDistinctHolds == TimestampsDistinct
<1> SUFFICES ASSUME NEW t \in Unsigned, NEW u \in Unsigned, t # u
             PROVE  /\ ConvertTimestamp(t, 0) # ConvertTimestamp(u, 0)
                    /\ ConvertTimestamp(0, t) # ConvertTimestamp(0, u)
  BY DEF TimestampsDistinct
<1>1. ToInt(t) # ToInt(u)
  BY ToIntDiffer
<1>2. Integer(ToInt(t)) # Integer(ToInt(u))
  BY <1>1 DEF Integer
<1> QED
  BY <1>2 DEF ConvertTimestamp

-----------------------------------------------------------------------------
(***************************************************************************)
(* Doubles.                                                                *)
(***************************************************************************)

\* How far a / d is shifted to fit into the mantissa.
Shift(a, d, k) == /\ a < d * Power(2, Mantissa + k)
                  /\ k > 0 => a >= d * Power(2, Mantissa + k - 1)

\* The number of units next to a.
RoundsUp(a, u) == \/ 2 * (a % u) > u
                  \/ 2 * (a % u) = u /\ (a \div u) % 2 = 1
Steps(a, u) == IF RoundsUp(a, u) THEN a \div u + 1 ELSE a \div u

\* The numbers that Round is defined for.
Limit(d) == d * Power(2, Mantissa + (Wide + Mantissa + SecBits))

\* The units next to a are at most half a unit away from it.
LEMMA StepsNear ==
    ASSUME NEW a \in Nat, NEW u \in Nat, u > 0
    PROVE  \E v \in Nat, x \in Nat :
              /\ v = Steps(a, u) /\ x = u * v
              /\ 2 * x <= 2 * a + u /\ 2 * a <= 2 * x + u
<1>1. PICK q \in Nat, r \in Nat :
         q = a \div u /\ r = a % u /\ r < u /\ a = u * q + r
  BY DivMod
<1>2. PICK x \in Nat : x = u * q
  OBVIOUS
<1>3. a = x + r
  BY <1>1, <1>2
<1>4. CASE RoundsUp(a, u)
  <2>1. 2 * r >= u
    BY <1>1, <1>4 DEF RoundsUp
  <2>2. Steps(a, u) = q + 1 /\ u * (q + 1) = x + u
    BY <1>1, <1>2, <1>4 DEF Steps
  <2> WITNESS q + 1 \in Nat, x + u \in Nat
  <2> QED
    BY <1>1, <1>3, <2>1, <2>2
<1>5. CASE ~RoundsUp(a, u)
  <2>1. 2 * r <= u
    BY <1>1, <1>5 DEF RoundsUp
  <2>2. Steps(a, u) = q
    BY <1>1, <1>5 DEF Steps
  <2> WITNESS q \in Nat, x \in Nat
  <2> QED
    BY <1>1, <1>2, <1>3, <2>1, <2>2
<1> QED
  BY <1>4, <1>5

\* A larger number is not rounded to fewer units.
LEMMA StepsMono ==
    ASSUME NEW a \in Nat, NEW b \in Nat, a <= b, NEW u \in Nat, u > 0
    PROVE  /\ Steps(a, u) \in Nat /\ Steps(b, u) \in Nat
           /\ Steps(a, u) <= Steps(b, u)
<1>1. PICK q \in Nat, r \in Nat :
         q = a \div u /\ r = a % u /\ r < u /\ a = u * q + r
  BY DivMod
<1>2. PICK p \in Nat, s \in Nat :
         p = b \div u /\ s = b % u /\ s < u /\ b = u * p + s
  BY DivMod
<1>3. q <= p
  BY <1>1, <1>2, DivMono
<1>4. Steps(a, u) \in {q, q + 1} /\ Steps(b, u) \in {p, p + 1}
  BY <1>1, <1>2 DEF Steps
<1>5. CASE q < p
  BY <1>4, <1>5
<1>6. CASE q = p
  <2>1. PICK x \in Nat : x = u * q
    OBVIOUS
  <2>2. r <= s
    BY <1>1, <1>2, <1>6, <2>1
  <2>3. /\ RoundsUp(a, u) <=> (2 * r > u \/ (2 * r = u /\ q % 2 = 1))
        /\ RoundsUp(b, u) <=> (2 * s > u \/ (2 * s = u /\ q % 2 = 1))
    BY <1>1, <1>2, <1>6 DEF RoundsUp
  <2>4. RoundsUp(a, u) => RoundsUp(b, u)
    BY <2>2, <2>3
  <2>5. Steps(b, u) = q => Steps(a, u) = q
    BY <1>1, <1>2, <1>6, <2>4 DEF Steps
  <2> QED
    BY <1>4, <1>6, <2>5
<1> QED
  BY <1>3, <1>5, <1>6

\* Rounding does not leave the numbers that have the same shift, but for the
\* first of the next.
LEMMA StepsBounds ==
    ASSUME NEW a \in Nat, NEW d \in Nat, d > 0, NEW k \in Nat, Shift(a, d, k),
           NEW u \in Nat, u = d * Power(2, k), u > 0
    PROVE  /\ Steps(a, u) \in Nat
           /\ Steps(a, u) <= Power(2, Mantissa)
           /\ k > 0 => Steps(a, u) >= Power(2, Mantissa - 1)
<1>1. Mantissa \in Nat /\ Mantissa > 0 /\ Mantissa - 1 \in Nat
  BY ConvertAssumption
<1>2. PICK w \in Nat : w = Power(2, k)
  BY PowerDef
<1>3. PICK q \in Nat, r \in Nat :
         q = a \div u /\ r = a % u /\ r < u /\ a = u * q + r
  <2>1. \A v \in Nat : v > 0 =>
           \E q \in Nat, r \in Nat :
              q = a \div v /\ r = a % v /\ r < v /\ a = v * q + r
    BY DivMod
  <2> QED
    BY <2>1
<1>4. PICK x \in Nat : x = u * q
  OBVIOUS
<1>5. a = x + r /\ Steps(a, u) \in {q, q + 1}
  BY <1>3, <1>4 DEF Steps
<1>6. PICK t \in Nat : t = Power(2, Mantissa)
  BY <1>1, PowerDef
<1>7. q < t
  <2>1. Power(2, Mantissa + k) = t * w
    BY <1>1, <1>2, <1>6, PowerAdd
  <2>2. d * (t * w) = u * t
    BY <1>2
  <2>3. PICK y \in Nat : y = u * t
    OBVIOUS
  <2>4. a < y
    BY <2>1, <2>2, <2>3 DEF Shift
  <2> SUFFICES ASSUME t <= q PROVE FALSE
    OBVIOUS
  <2>5. u * t <= u * q
    BY FactorLeq
  <2> QED
    BY <1>4, <1>5, <2>3, <2>4, <2>5
<1>8. ASSUME k > 0 PROVE Power(2, Mantissa - 1) <= q
  <2>1. PICK g \in Nat : g = Power(2, Mantissa - 1)
    BY <1>1, PowerDef
  <2>2. Power(2, Mantissa + k - 1) = g * w
    <3>1. Mantissa + k - 1 = (Mantissa - 1) + k
      BY <1>1
    <3> QED
      BY <1>1, <1>2, <2>1, <3>1, PowerAdd
  <2>3. d * (g * w) = u * g
    BY <1>2
  <2>4. PICK z \in Nat : z = u * g
    OBVIOUS
  <2>5. z <= a
    BY <1>8, <2>2, <2>3, <2>4 DEF Shift
  <2>6. ~(q < g)
    <3> SUFFICES ASSUME q < g PROVE FALSE
      OBVIOUS
    <3>1. u * q + u <= u * g
      BY FactorLess
    <3> QED
      BY <1>3, <1>4, <1>5, <2>4, <2>5, <3>1
  <2> QED
    BY <2>1, <2>6
<1>9. ASSUME k > 0 PROVE Steps(a, u) >= Power(2, Mantissa - 1)
  <2>1. PICK g \in Nat : g = Power(2, Mantissa - 1)
    BY <1>1, PowerDef
  <2> QED
    BY <1>5, <1>8, <1>9, <2>1
<1> QED
  BY <1>5, <1>6, <1>7, <1>9

\* A number below the limit has a shift, and is rounded by its units.
LEMMA RoundValue ==
    ASSUME NEW a \in Nat, NEW d \in Nat, d > 0, a < Limit(d)
    PROVE  \E k \in Nat, w \in Nat, u \in Nat :
              /\ Shift(a, d, k) /\ w = Power(2, k) /\ w > 0
              /\ u = d * w /\ u > 0
              /\ Round(a, d) = Steps(a, u) * w
              /\ Round(a, d) \in Nat
<1> DEFINE K == Wide + Mantissa + SecBits
<1>1. Mantissa \in Nat /\ K \in Nat /\ 2 \in Nat /\ 2 > 0
  BY ConvertAssumption
<1> DEFINE S == {k \in Nat : a < d * Power(2, Mantissa + k)}
<1>2. K \in S
  BY <1>1 DEF Limit
<1> HIDE DEF K
<1>3. PICK l \in S : \A x \in S : l <= x
  <2>1. S \subseteq Nat
    OBVIOUS
  <2> HIDE DEF S
  <2> QED
    BY <1>2, <2>1, Smallest
<1>4. l \in 0 .. K
  BY <1>1, <1>2, <1>3
<1>5. ASSUME l > 0 PROVE a >= d * Power(2, Mantissa + l - 1)
  <2>1. l - 1 \in Nat /\ l - 1 \notin S
    BY <1>3, <1>5
  <2>2. ~(a < d * Power(2, Mantissa + (l - 1)))
    BY <2>1
  <2>3. Mantissa + (l - 1) = Mantissa + l - 1 /\ Mantissa + (l - 1) \in Nat
    BY <1>1, <2>1
  <2>4. PICK z \in Nat : z = Power(2, Mantissa + (l - 1))
    BY <1>1, <2>3, PowerDef
  <2>5. d * z \in Nat
    OBVIOUS
  <2> QED
    BY <2>2, <2>3, <2>4, <2>5
<1>6. Shift(a, d, l)
  BY <1>3, <1>5 DEF Shift
<1> DEFINE k == CHOOSE x \in 0 .. K : Shift(a, d, x)
<1>7. k \in 0 .. K /\ Shift(a, d, k)
  BY <1>4, <1>6
<1>8. Round(a, d) = Steps(a, d * Power(2, k)) * Power(2, k)
  BY DEF Round, Shift, RoundsUp, Steps, K
<1> HIDE DEF k
<1>9. k \in Nat
  BY <1>1, <1>7
<1>10. PICK w \in Nat : w = Power(2, k) /\ w > 0
  BY <1>9, PowerPos
<1>11. PICK u \in Nat : u = d * w /\ u > 0
  <2>1. d * w \in Nat /\ d * w > 0
    BY <1>10
  <2> QED
    BY <2>1
<1>12. PICK v \in Nat : v = Steps(a, u)
  BY <1>11, StepsNear
<1>13. Round(a, d) = v * w /\ v * w \in Nat
  BY <1>8, <1>10, <1>11, <1>12
<1> QED
  BY <1>7, <1>9, <1>10, <1>11, <1>12, <1>13

\* A larger number is not rounded to a smaller one.
LEMMA RoundOrder ==
    ASSUME NEW a \in Nat, NEW b \in Nat, a <= b, NEW d \in Nat, d > 0,
           a < Limit(d), b < Limit(d)
    PROVE  /\ Round(a, d) \in Nat /\ Round(b, d) \in Nat
           /\ Round(a, d) <= Round(b, d)
<1>1. Mantissa \in Nat /\ Mantissa > 0 /\ Mantissa - 1 \in Nat
  BY ConvertAssumption
<1>2. PICK j \in Nat, w \in Nat, u \in Nat :
         /\ Shift(a, d, j) /\ w = Power(2, j) /\ w > 0 /\ u = d * w /\ u > 0
         /\ Round(a, d) = Steps(a, u) * w /\ Round(a, d) \in Nat
  BY RoundValue
<1>3. PICK k \in Nat, x \in Nat, y \in Nat :
         /\ Shift(b, d, k) /\ x = Power(2, k) /\ x > 0 /\ y = d * x /\ y > 0
         /\ Round(b, d) = Steps(b, y) * x /\ Round(b, d) \in Nat
  BY RoundValue
<1>4. PICK p \in Nat : p = Steps(a, u) /\ p <= Power(2, Mantissa)
  BY <1>2, StepsBounds
<1>5. PICK q \in Nat : /\ q = Steps(b, y)
                       /\ k > 0 => q >= Power(2, Mantissa - 1)
  BY <1>3, StepsBounds
<1>6. CASE j = k
  <2>1. w = x /\ u = y
    BY <1>2, <1>3, <1>6
  <2>2. p <= q
    BY <1>2, <1>4, <1>5, <2>1, StepsMono
  <2>3. w * p <= w * q
    BY <2>2, FactorLeq
  <2>4. p * w = w * p /\ q * w = w * q
    OBVIOUS
  <2> QED
    BY <1>2, <1>3, <1>4, <1>5, <2>1, <2>3, <2>4
<1>7. CASE j < k
  <2>1. PICK t \in Nat : t = Power(2, Mantissa)
    BY <1>1, PowerDef
  <2>2. PICK g \in Nat : g = Power(2, Mantissa - 1) /\ g <= q
    BY <1>1, <1>5, <1>7, PowerDef
  <2>3. w * p <= w * t /\ x * g <= x * q
    BY <1>4, <2>1, <2>2, FactorLeq
  <2>4. Power(2, Mantissa + j) = t * w
    BY <1>1, <1>2, <2>1, PowerAdd
  <2>5. Power(2, (Mantissa - 1) + k) = g * x
    BY <1>1, <1>3, <2>2, PowerAdd
  <2>6. Power(2, Mantissa + j) <= Power(2, (Mantissa - 1) + k)
    BY <1>1, <1>7, PowerGrows
  <2>7. /\ p * w = w * p /\ t * w = w * t /\ q * x = x * q /\ g * x = x * g
        /\ p * w \in Nat /\ t * w \in Nat /\ q * x \in Nat /\ g * x \in Nat
    OBVIOUS
  <2>8. p * w <= t * w /\ t * w <= g * x /\ g * x <= q * x
    BY <2>3, <2>4, <2>5, <2>6, <2>7
  <2>9. p * w <= q * x
    BY <2>7, <2>8
  <2> QED
    BY <1>2, <1>3, <1>4, <1>5, <2>9
<1>8. ~(k < j)
  <2> SUFFICES ASSUME k < j PROVE FALSE
    OBVIOUS
  <2>1. /\ Mantissa + k \in Nat /\ Mantissa + j - 1 \in Nat
        /\ Mantissa + k <= Mantissa + j - 1
    BY <1>1
  <2>2. PICK s \in Nat, t \in Nat :
           s = Power(2, Mantissa + k) /\ t = Power(2, Mantissa + j - 1) /\ s <= t
    BY <2>1, TwoGrows
  <2>3. d * s <= d * t /\ d * s \in Nat /\ d * t \in Nat
    BY <2>2, FactorLeq
  <2>4. b < d * s /\ a >= d * t
    BY <1>2, <1>3, <2>2 DEF Shift
  <2> QED
    BY <2>3, <2>4
<1> QED
  BY <1>2, <1>3, <1>6, <1>7, <1>8

\* Numbers of a word are below the limit.
LEMMA WordLimit ==
    ASSUME NEW a \in Nat, a <= Half(Wide)
    PROVE  a < Limit(1) /\ 2 * a <= Power(2, Wide)
<1> DEFINE K == Mantissa + (Wide + Mantissa + SecBits)
<1>1. Wide \in Nat /\ Wide > 0 /\ K \in Nat /\ Wide <= K
  BY ConvertAssumption
<1>2. PICK h \in Nat : h = Half(Wide) /\ h > 0 /\ Power(2, Wide) = 2 * h
  BY <1>1, WordsInt, TwoHalves
<1>3. PICK t \in Nat : t = Power(2, K) /\ Power(2, Wide) <= t
  BY <1>1, TwoGrows
<1> QED
  BY <1>2, <1>3 DEF Limit

\* A number that fits into the mantissa is not rounded.
LEMMA RoundExact ==
    ASSUME NEW a \in Nat, a <= Power(2, Mantissa), a < Limit(1)
    PROVE  Round(a, 1) = a
<1>1. Mantissa \in Nat /\ Mantissa > 0 /\ Mantissa - 1 \in Nat
  BY ConvertAssumption
<1>2. PICK k \in Nat, w \in Nat, u \in Nat :
         /\ Shift(a, 1, k) /\ w = Power(2, k) /\ w > 0 /\ u = 1 * w /\ u > 0
         /\ Round(a, 1) = Steps(a, u) * w
  BY RoundValue
<1>3. CASE k = 0
  <2>1. w = 1 /\ u = 1
    BY <1>2, <1>3, PowerDef
  <2>2. a \div 1 = a /\ a % 1 = 0 /\ a * 1 = a
    OBVIOUS
  <2>3. Steps(a, 1) = a
    BY <2>2 DEF RoundsUp, Steps
  <2> QED
    BY <1>2, <2>1, <2>2, <2>3
<1>4. CASE k > 0
  <2>1. PICK g \in Nat : g = Power(2, Mantissa - 1) /\ g > 0
    BY <1>1, PowerPos
  <2>2. Power(2, Mantissa) = 2 * g
    BY <1>1, <2>1, PowerNext
  <2>3. Power(2, Mantissa + 1) = 2 * (2 * g)
    BY <1>1, <2>2, PowerDef
  <2>4. PICK z \in Nat : z = Power(2, Mantissa + k - 1) /\ a >= z
    <3>1. Mantissa + k - 1 \in Nat
      BY <1>1, <1>4
    <3>2. PICK z \in Nat : z = Power(2, Mantissa + k - 1)
      BY <3>1, PowerDef
    <3>3. 1 * z = z
      OBVIOUS
    <3> QED
      BY <1>2, <1>4, <3>2, <3>3 DEF Shift
  <2>5. k = 1
    <3> SUFFICES ASSUME k > 1 PROVE FALSE
      BY <1>4
    <3>1. Mantissa + k - 1 \in Nat /\ Mantissa + 1 \in Nat
          /\ Mantissa + 1 <= Mantissa + k - 1
      BY <1>1
    <3>2. Power(2, Mantissa + 1) <= Power(2, Mantissa + k - 1)
      BY <3>1, PowerGrows
    <3> QED
      BY <2>1, <2>2, <2>3, <2>4, <3>2
  <2>6. a = 2 * g
    <3>1. Mantissa + 1 - 1 = Mantissa
      BY <1>1
    <3> QED
      BY <2>2, <2>4, <2>5, <3>1
  <2>7. w = 2 /\ u = 2
    <3>1. Power(2, 0 + 1) = 2 * Power(2, 0) /\ Power(2, 0) = 1
      BY PowerDef
    <3> QED
      BY <1>2, <2>5, <3>1
  <2>8. a \div 2 = g /\ a % 2 = 0 /\ g * 2 = a
    BY <2>6
  <2>9. Steps(a, 2) = g
    BY <2>8 DEF RoundsUp, Steps
  <2> QED
    BY <1>2, <2>7, <2>8, <2>9
<1> QED
  BY <1>3, <1>4

\* A word has a size, which is rounded to at most twice itself.
LEMMA WordSize ==
    ASSUME NEW n \in Words(Wide)
    PROVE  \E a \in Nat, x \in Nat :
              /\ a = Abs(n) /\ a < Limit(1) /\ x = Round(a, 1)
              /\ x <= Power(2, Wide) /\ (a = 0 => x = 0)
              /\ Double(n) = IF n < 0 THEN -x ELSE x
              /\ Abs(Double(n)) = x
<1>1. Wide \in Nat /\ Wide > 0 /\ Mantissa \in Nat /\ Mantissa > 0
  BY ConvertAssumption
<1>2. PICK h \in Nat : h = Half(Wide) /\ h > 0
  BY <1>1, WordsInt
<1>3. n \in Int /\ -h <= n /\ n <= h - 1
  BY <1>2 DEF Words
<1>4. PICK a \in Nat : a = Abs(n) /\ a <= h
  BY <1>3 DEF Abs
<1>5. a < Limit(1) /\ 2 * a <= Power(2, Wide)
  BY <1>2, <1>4, WordLimit
<1>6. PICK k \in Nat, w \in Nat, u \in Nat :
         /\ Shift(a, 1, k) /\ w = Power(2, k) /\ w > 0 /\ u = 1 * w /\ u > 0
         /\ Round(a, 1) = Steps(a, u) * w /\ Round(a, 1) \in Nat
  BY <1>5, RoundValue
<1>7. PICK v \in Nat, x \in Nat : /\ v = Steps(a, u) /\ x = u * v
                                  /\ 2 * x <= 2 * a + u
  BY <1>6, StepsNear
<1>8. Round(a, 1) = x
  <2>1. u = w /\ v * w = w * v
    BY <1>6
  <2> QED
    BY <1>6, <1>7, <2>1
<1>9. PICK s \in Nat : s = Power(2, Mantissa) /\ a <= s => x = a
  <2>1. PICK s \in Nat : s = Power(2, Mantissa)
    BY <1>1, PowerDef
  <2>2. a <= s => x = a
    BY <1>5, <1>8, <2>1, RoundExact
  <2> QED
    BY <2>1, <2>2
<1>10. x <= 2 * a
  <2>1. CASE k = 0
    <3>1. u = 1
      BY <1>6, <2>1, PowerDef
    <3>2. 2 * x <= 2 * a + 1
      BY <1>7, <3>1
    <3> QED
      BY <3>2
  <2>2. CASE k > 0
    <3>1. Mantissa + k - 1 \in Nat /\ k <= Mantissa + k - 1
      BY <1>1, <2>2
    <3>2. PICK z \in Nat : z = Power(2, Mantissa + k - 1) /\ w <= z
      BY <1>6, <3>1, TwoGrows
    <3>3. a >= z
      <4>1. 1 * z = z
        OBVIOUS
      <4> QED
        BY <1>6, <2>2, <3>2, <4>1 DEF Shift
    <3> QED
      BY <1>6, <1>7, <3>2, <3>3
  <2> QED
    BY <2>1, <2>2
<1>11. PICK t \in Nat : t = Power(2, Wide)
  BY <1>1, PowerDef
<1>12. Double(n) = Sign(n) * x
  BY <1>4, <1>8 DEF Double
<1>13. Double(n) = IF n < 0 THEN -x ELSE x
  BY <1>3, <1>12 DEF Sign
<1>14. Abs(Double(n)) = x
  <2>1. n < 0 => a > 0
    BY <1>3, <1>4 DEF Abs
  <2> QED
    BY <1>3, <1>13 DEF Abs
<1>15. x <= t
  BY <1>5, <1>10, <1>11
<1>16. a = 0 => x = 0
  BY <1>10
<1> QED
  BY <1>4, <1>5, <1>8, <1>11, <1>13, <1>14, <1>15, <1>16

\* A larger number is not a smaller double, and a larger size not a smaller one.
LEMMA SizeOrder ==
    ASSUME NEW n \in Words(Wide), NEW m \in Words(Wide), Abs(n) <= Abs(m)
    PROVE  Abs(Double(n)) <= Abs(Double(m))
<1>1. PICK a \in Nat, x \in Nat : /\ a = Abs(n) /\ a < Limit(1)
                                  /\ x = Round(a, 1) /\ Abs(Double(n)) = x
  BY WordSize
<1>2. PICK b \in Nat, y \in Nat : /\ b = Abs(m) /\ b < Limit(1)
                                  /\ y = Round(b, 1) /\ Abs(Double(m)) = y
  BY WordSize
<1>3. x <= y
  <2>1. a <= b
    BY <1>1, <1>2
  <2> QED
    BY <1>1, <1>2, <2>1, RoundOrder
<1> QED
  BY <1>1, <1>2, <1>3

\* A number that fits into the mantissa is its own double.
LEMMA DoubleExact ==
    ASSUME NEW n \in Words(Wide), Abs(n) <= Power(2, Mantissa)
    PROVE  Double(n) = n
<1>1. n \in Int
  BY ConvertAssumption, WordsInt
<1>2. PICK a \in Nat, x \in Nat :
         /\ a = Abs(n) /\ a < Limit(1) /\ x = Round(a, 1)
         /\ Double(n) = IF n < 0 THEN -x ELSE x
  BY WordSize
<1>3. x = a
  BY <1>2, RoundExact
<1> QED
  BY <1>1, <1>2, <1>3 DEF Abs

\* The quotient of a date, as a double.
LEMMA QuotientSize ==
    ASSUME NEW n \in Words(Wide)
    PROVE  \E x \in Nat, y \in Nat, q \in Nat :
              /\ x = Abs(Double(n)) /\ y = x * Power(2, Mantissa + SecBits)
              /\ y < Limit(PerSecond) /\ q = Round(y, PerSecond)
              /\ PerThousand(n) = IF n < 0 THEN -q ELSE q
<1> DEFINE P == Mantissa + SecBits
           K == Wide + Mantissa + SecBits
<1>1. /\ Wide \in Nat /\ P \in Nat /\ K \in Nat /\ K = Wide + P
      /\ Mantissa \in Nat /\ Mantissa > 0
  BY ConvertAssumption
<1>2. n \in Int
  BY ConvertAssumption, WordsInt
<1>3. PICK x \in Nat : x = Abs(Double(n)) /\ x <= Power(2, Wide)
  BY WordSize
<1>4. PICK t \in Nat : t = Power(2, P)
  BY <1>1, PowerDef
<1>5. PICK y \in Nat : y = x * t
  OBVIOUS
<1>6. y < Limit(PerSecond)
  <2>1. PICK c \in Nat : c = PerSecond /\ c > 0
    BY PerSecondType
  <2>2. PICK s \in Nat : s = Power(2, Wide)
    BY <1>1, PowerDef
  <2>3. t * x <= t * s /\ t * x = x * t /\ t * s = s * t
    BY <1>3, <2>2, FactorLeq
  <2>4. PICK f \in Nat : f = Power(2, K) /\ f = s * t
    <3>1. PICK f \in Nat : f = Power(2, K)
      BY <1>1, TwoPower
    <3>2. Power(2, Wide + P) = s * t
      BY <1>1, <1>4, <2>2, PowerAdd
    <3> QED
      BY <1>1, <3>1, <3>2
  <2>5. PICK g \in Nat : g = Power(2, Mantissa + K) /\ f < g
    <3>1. PICK e \in Nat : e = Power(2, K + 1) /\ e = 2 * f
      BY <1>1, <2>4, PowerDef
    <3>2. PICK g \in Nat : g = Power(2, Mantissa + K) /\ e <= g
      <4>1. K + 1 \in Nat /\ Mantissa + K \in Nat /\ K + 1 <= Mantissa + K
        BY <1>1
      <4> QED
        BY <3>1, <4>1, TwoGrows
    <3>3. f > 0
      BY <1>1, <2>4, PowerPos
    <3> QED
      BY <3>1, <3>2, <3>3
  <2>6. g <= c * g /\ c * g \in Nat
    <3>1. g * 1 <= g * c /\ g * 1 = g /\ g * c = c * g
      BY <2>1, FactorLeq
    <3> QED
      BY <3>1
  <2>7. Limit(PerSecond) = c * g
    BY <2>1, <2>5 DEF Limit
  <2> QED
    BY <1>5, <2>3, <2>4, <2>5, <2>6, <2>7
<1>7. PICK q \in Nat : q = Round(y, PerSecond)
  BY <1>6, PerSecondType, RoundValue
<1>8. PerThousand(n) = Sign(n) * q
  BY <1>3, <1>4, <1>5, <1>7 DEF PerThousand
<1>9. PerThousand(n) = IF n < 0 THEN -q ELSE q
  BY <1>2, <1>8 DEF Sign
<1> QED
  BY <1>3, <1>4, <1>5, <1>6, <1>7, <1>9

\* A larger number has no smaller quotient.
LEMMA QuotientOrder ==
    ASSUME NEW n \in Words(Wide), NEW m \in Words(Wide), n < m
    PROVE  PerThousand(n) <= PerThousand(m)
<1>1. n \in Int /\ m \in Int
  BY ConvertAssumption, WordsInt
<1>2. PICK t \in Nat : t = Power(2, Mantissa + SecBits)
  <2>1. Mantissa + SecBits \in Nat
    BY ConvertAssumption
  <2> QED
    BY <2>1, TwoPower
<1>3. PICK x \in Nat, y \in Nat, q \in Nat :
         /\ x = Abs(Double(n)) /\ y = x * t
         /\ y < Limit(PerSecond) /\ q = Round(y, PerSecond)
         /\ PerThousand(n) = IF n < 0 THEN -q ELSE q
  BY <1>2, QuotientSize
<1>4. PICK z \in Nat, w \in Nat, p \in Nat :
         /\ z = Abs(Double(m)) /\ w = z * t
         /\ w < Limit(PerSecond) /\ p = Round(w, PerSecond)
         /\ PerThousand(m) = IF m < 0 THEN -p ELSE p
  BY <1>2, QuotientSize
<1>5. ASSUME x <= z PROVE q <= p
  <2>1. t * x <= t * z /\ t * x = x * t /\ t * z = z * t
    BY <1>5, FactorLeq
  <2>2. y <= w
    BY <1>3, <1>4, <2>1
  <2> QED
    BY <1>3, <1>4, <2>2, PerSecondType, RoundOrder
<1>6. ASSUME z <= x PROVE p <= q
  <2>1. t * z <= t * x /\ t * x = x * t /\ t * z = z * t
    BY <1>6, FactorLeq
  <2>2. w <= y
    BY <1>3, <1>4, <2>1
  <2> QED
    BY <1>3, <1>4, <2>2, PerSecondType, RoundOrder
<1>7. CASE n >= 0
  <2>1. Abs(n) <= Abs(m)
    BY <1>1, <1>7 DEF Abs
  <2>2. x <= z
    BY <1>3, <1>4, <2>1, SizeOrder
  <2> QED
    BY <1>1, <1>3, <1>4, <1>5, <1>7, <2>2
<1>8. CASE n < 0 /\ m < 0
  <2>1. Abs(m) <= Abs(n)
    BY <1>1, <1>8 DEF Abs
  <2>2. z <= x
    BY <1>3, <1>4, <2>1, SizeOrder
  <2> QED
    BY <1>3, <1>4, <1>6, <1>8, <2>2
<1>9. CASE n < 0 /\ m >= 0
  <2>1. PerThousand(n) = -q /\ PerThousand(m) = p
    BY <1>1, <1>3, <1>4, <1>9
  <2>2. -q <= p
    OBVIOUS
  <2> QED
    BY <2>1, <2>2
<1> QED
  BY <1>1, <1>7, <1>8, <1>9

\* The quotient of a near number is less than a unit of 2^SecBits away from it,
\* so that it is nearer to it than to its neighbours.
LEMMA QuotientNear ==
    ASSUME NEW n \in Words(Wide), Near(n),
           NEW c \in Nat, c = PerSecond, NEW t \in Nat,
           t = Power(2, Mantissa + SecBits)
    PROVE  \E e \in Int, s \in Int :
              /\ s = PerThousand(n) /\ -t < e /\ e < t
              /\ 2 * (c * s) = 2 * (t * n) + e
<1>1. /\ Mantissa \in Nat /\ Mantissa > 0 /\ SecBits \in Nat
      /\ Mantissa - SecBits \in Nat /\ Mantissa + SecBits \in Nat
      /\ 2 * Mantissa \in Nat
  BY ConvertAssumption
<1>2. n \in Int /\ c > 0 /\ t > 0
  <2>1. n \in Int
    BY ConvertAssumption, WordsInt
  <2>2. t > 0
    BY <1>1, TwoPower
  <2> QED
    BY <2>1, <2>2, PerSecondType
<1>3. PICK r \in Nat : r = Power(2, Mantissa - SecBits)
  BY <1>1, PowerDef
<1>4. PICK b \in Nat : b = Power(2, SecBits) /\ c < b
  BY <1>1, ConvertAssumption, PowerDef
<1>5. PICK f \in Nat : f = Power(2, Mantissa) /\ f > 0
  BY <1>1, PowerPos
<1>6. PICK a \in Nat : a = Abs(n) /\ a < c * r
  BY <1>2, <1>3 DEF Near, Abs
<1>7. f = r * b /\ t = f * b
  <2>1. (Mantissa - SecBits) + SecBits = Mantissa
    BY <1>1
  <2> QED
    BY <1>1, <1>3, <1>4, <1>5, <2>1, PowerAdd
<1>8. c * r <= f
  <2>1. r * c <= r * b /\ r * c = c * r
    BY <1>4, FactorLeq
  <2> QED
    BY <1>7, <2>1
<1>9. Double(n) = n
  <2>1. a <= f
    BY <1>6, <1>8
  <2> QED
    BY <1>5, <1>6, <2>1, DoubleExact
<1>10. PICK y \in Nat, q \in Nat :
          /\ y = a * t /\ y < Limit(c) /\ q = Round(y, c)
          /\ PerThousand(n) = IF n < 0 THEN -q ELSE q
  <2>1. PICK x \in Nat, y \in Nat, q \in Nat :
            /\ x = Abs(Double(n)) /\ y = x * Power(2, Mantissa + SecBits)
            /\ y < Limit(PerSecond) /\ q = Round(y, PerSecond)
            /\ PerThousand(n) = IF n < 0 THEN -q ELSE q
    BY QuotientSize
  <2>2. x = a
    BY <1>6, <1>9, <2>1
  <2> QED
    BY <2>1, <2>2
<1>11. PICK k \in Nat, w \in Nat, u \in Nat :
          /\ Shift(y, c, k) /\ w = Power(2, k) /\ w > 0 /\ u = c * w /\ u > 0
          /\ q = Steps(y, u) * w
  BY <1>2, <1>10, RoundValue
<1>12. PICK v \in Nat, x \in Nat :
          /\ v = Steps(y, u) /\ x = u * v
          /\ 2 * x <= 2 * y + u /\ 2 * y <= 2 * x + u
  BY <1>11, StepsNear
<1>13. x = c * q
  <2>1. (c * w) * v = c * (v * w)
    OBVIOUS
  <2> QED
    BY <1>11, <1>12, <2>1
<1>14. y < c * (f * f)
  <2>1. t * a + t <= t * (c * r)
    BY <1>6, FactorLess
  <2>2. t * (c * r) = c * ((f * b) * r) /\ (f * b) * r = f * (r * b)
    BY <1>7
  <2>3. t * a = a * t /\ t * a \in Nat /\ c * (f * f) \in Nat
    OBVIOUS
  <2> QED
    BY <1>2, <1>7, <1>10, <2>1, <2>2, <2>3
<1>15. k <= Mantissa
  <2> SUFFICES ASSUME k > Mantissa PROVE FALSE
    BY <1>1
  <2>1. /\ Mantissa + k - 1 \in Nat /\ Mantissa + Mantissa \in Nat
        /\ Mantissa + Mantissa <= Mantissa + k - 1
    BY <1>1
  <2>2. Power(2, Mantissa + Mantissa) = f * f
    BY <1>1, <1>5, PowerAdd
  <2>3. PICK z \in Nat : z = Power(2, Mantissa + k - 1) /\ f * f <= z
    BY <2>1, <2>2, TwoGrows
  <2>4. PICK g \in Nat : g = f * f
    OBVIOUS
  <2>5. c * g <= c * z /\ c * g \in Nat /\ c * z \in Nat
    BY <2>3, <2>4, FactorLeq
  <2>6. y >= c * z
    BY <1>1, <1>11, <2>3 DEF Shift
  <2> QED
    BY <1>14, <2>4, <2>5, <2>6
<1>16. u < t
  <2>1. w <= f
    BY <1>1, <1>5, <1>11, <1>15, PowerGrows
  <2>2. c * w <= c * f
    BY <2>1, FactorLeq
  <2>3. f * c + f <= f * b
    BY <1>4, FactorLess
  <2>4. c * f = f * c /\ f * c \in Nat /\ f * b \in Nat
    OBVIOUS
  <2> QED
    BY <1>5, <1>7, <1>11, <2>2, <2>3, <2>4
<1>17. PICK e \in Int : e = 2 * x - 2 * y /\ -t < e /\ e < t
  BY <1>12, <1>16
<1>18. CASE n >= 0
  <2>1. PerThousand(n) = q /\ a = n
    BY <1>2, <1>6, <1>10, <1>18 DEF Abs
  <2>2. y = t * n
    BY <1>10, <2>1
  <2> WITNESS e \in Int, q \in Int
  <2> QED
    BY <1>13, <1>17, <2>1, <2>2
<1>19. CASE n < 0
  <2>1. PerThousand(n) = -q /\ a = -n
    BY <1>2, <1>6, <1>10, <1>19 DEF Abs
  <2>2. c * (-q) = -x /\ t * n = -y
    <3>1. c * (-q) = -(c * q) /\ t * n = -((-n) * t)
      BY <1>2
    <3> QED
      BY <1>10, <1>13, <2>1, <3>1
  <2>3. -e \in Int /\ -q \in Int
    OBVIOUS
  <2> WITNESS -e \in Int, -q \in Int
  <2> QED
    BY <1>17, <2>1, <2>2, <2>3
<1> QED
  BY <1>2, <1>18, <1>19

\* Near dates have different quotients.
LEMMA QuotientsDiffer ==
    ASSUME NEW n \in Words(Wide), NEW m \in Words(Wide), n < m, Near(n), Near(m)
    PROVE  PerThousand(n) # PerThousand(m)
<1>1. PICK c \in Nat : c = PerSecond
  BY PerSecondType
<1>2. PICK t \in Nat : t = Power(2, Mantissa + SecBits)
  <2>1. Mantissa + SecBits \in Nat
    BY ConvertAssumption
  <2> QED
    BY <2>1, TwoPower
<1>3. n \in Int /\ m \in Int
  BY ConvertAssumption, WordsInt
<1>4. PICK e \in Int, s \in Int :
         /\ s = PerThousand(n) /\ -t < e /\ e < t
         /\ 2 * (c * s) = 2 * (t * n) + e
  BY <1>1, <1>2, QuotientNear
<1>5. PICK f \in Int, r \in Int :
         /\ r = PerThousand(m) /\ -t < f /\ f < t
         /\ 2 * (c * r) = 2 * (t * m) + f
  BY <1>1, <1>2, QuotientNear
<1>6. t * n + t <= t * m
  BY <1>3, FactorLess
<1>7. PICK x \in Int, y \in Int : x = t * n /\ y = t * m
  BY <1>3
<1> SUFFICES ASSUME s = r PROVE FALSE
  BY <1>4, <1>5
<1>8. 2 * x + e = 2 * y + f
  BY <1>4, <1>5, <1>7
<1> QED
  BY <1>4, <1>5, <1>6, <1>7, <1>8

\* An int64 is the same number in R, or the same text.
LEMMA Int64KeptHolds == Int64Kept
<1> SUFFICES ASSUME NEW n \in Words(Wide)
             PROVE  /\ ConvertInt64(n, TRUE) = String(n)
                    /\ Abs(n) <= Power(2, Mantissa) => ConvertInt64(n, FALSE) = Real(n)
  BY DEF Int64Kept
<1>1. ConvertInt64(n, TRUE) = String(n) /\ ConvertInt64(n, FALSE) = Real(Double(n))
  BY DEF ConvertInt64
<1> QED
  BY <1>1, DoubleExact

\* Dates as POSIXct keep their order.
LEMMA TimesOrderedHolds == TimesOrdered
<1> SUFFICES ASSUME NEW n \in Words(Wide), NEW m \in Words(Wide), n < m
             PROVE  /\ ConvertDate(n, FALSE).val <= ConvertDate(m, FALSE).val
                    /\ Near(n) /\ Near(m) =>
                         ConvertDate(n, FALSE) # ConvertDate(m, FALSE)
  BY DEF TimesOrdered
<1>1. /\ ConvertDate(n, FALSE).val = PerThousand(n)
      /\ ConvertDate(m, FALSE).val = PerThousand(m)
  BY DEF ConvertDate, POSIXct
<1>2. PerThousand(n) <= PerThousand(m)
  BY QuotientOrder
<1>3. ASSUME Near(n), Near(m)
      PROVE  ConvertDate(n, FALSE) # ConvertDate(m, FALSE)
  <2>1. PerThousand(n) # PerThousand(m)
    BY <1>3, QuotientsDiffer
  <2> QED
    BY <1>1, <2>1
<1> QED
  BY <1>1, <1>2, <1>3

-----------------------------------------------------------------------------
(***************************************************************************)
(* The theorems: what holds of all values holds of the documents of every  *)
(* page that R_mongo_cursor_next_page makes lists of.                      *)
(***************************************************************************)

\* ConvertObject makes no integer of a document another number or NA: an
\* int32 never, an int64 neither up to 2^Mantissa nor as text.
THEOREM NumbersAreKept == Spec => []NumbersKept
<1>1. NumbersKept
  BY Int32KeptHolds, Int64KeptHolds DEF NumbersKept
<1> QED
  BY <1>1, PTL

\* Different timestamps, and different dates as text whose seconds a time_t holds,
\* are different in R, for any calendar.
THEOREM ValuesStayDistinct == Spec => []ValuesDistinct
<1>1. ValuesDistinct
  BY TimestampsDistinctHolds, DatesDistinctHolds DEF ValuesDistinct
<1> QED
  BY <1>1, PTL

\* Dates from 1970 on sort as text as they do as times while their years have the
\* same width, and dates as POSIXct never change places and are different while
\* their seconds are less than 2^(Mantissa - SecBits).
THEOREM DatesStaySorted == Spec => []DatesSorted
<1>1. DatesSorted
  BY TextsOrderedHolds, TimesOrderedHolds DEF DatesSorted
<1> QED
  BY <1>1, PTL
=============================================================================
