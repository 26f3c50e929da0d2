--------------------------- MODULE OpReturnProofs ---------------------------
(***************************************************************************)
(* Theorems about the codec, for any size of a byte, any number of bytes   *)
(* of a time stamp and an identifier: what is encoded is what is decoded.  *)
(***************************************************************************)
EXTENDS OpReturn, WellFoundedInduction, TLAPS

-----------------------------------------------------------------------------
\* Induction and recursion over an interval, with sets and functions in the
\* place of predicates.

Less == OpToRel(<, Nat)

LEMMA Smallest ==
  ASSUME NEW T, T \subseteq Nat, T # {}
  PROVE  \E x \in T : \A y \in T : x <= y
<1>1. IsWellFoundedOn(Less, Nat)
  BY NatLessThanWellFounded DEF Less
<1>2. PICK x \in T : \A y \in T : <<y, x>> \notin Less
  BY <1>1, WFMin
<1>3. \A y \in T : y < x => <<y, x>> \in Less
  BY DEF Less, OpToRel
<1>4. x \in Nat /\ \A y \in T : y \in Nat /\ ~(y < x)
  BY <1>2, <1>3
<1>5. \A y \in T : x <= y
  BY <1>4
<1> QED  BY <1>5

\* What holds of 0 and of every number whose predecessor has it.
LEMMA UpTo ==
  ASSUME NEW n \in Nat, NEW T, 0 \in T, \A i \in 1..n : i - 1 \in T => i \in T
  PROVE  \A i \in 0..n : i \in T
<1> DEFINE rest == (0..n) \ T
<1>1. CASE rest = {}
  BY <1>1
<1>2. CASE rest # {}
  <2>1. PICK x \in rest : \A y \in rest : x <= y
    <3>1. rest \subseteq Nat
      OBVIOUS
    <3> HIDE DEF rest
    <3> QED  BY <1>2, <3>1, Smallest
  <2>2. x \in 1..n /\ x - 1 \in 0..n /\ ~(x <= x - 1)
    BY <2>1
  <2>3. x - 1 \in T
    BY <2>1, <2>2
  <2> QED  BY <2>1, <2>2, <2>3
<1> QED  BY <1>1, <1>2

\* A function that is given by its first value and by steps exists.
Follows(f, n, c, step) ==
  /\ f[0] = c
  /\ \A i \in 1..n : f[i] = step[i][f[i - 1]]

LEMMA Recursion ==
  ASSUME NEW S, NEW c \in S, NEW n \in Nat, NEW step \in [1..n -> [S -> S]]
  PROVE  \E f \in [0..n -> S] : Follows(f, n, c, step)
<1> DEFINE Reached(k) == \E f \in [0..k -> S] : Follows(f, k, c, step)
           T == {k \in 0..n : Reached(k)}
<1>1. Reached(0)
  <2>1. [i \in 0..0 |-> c] \in [0..0 -> S] /\ Follows([i \in 0..0 |-> c], 0, c, step)
    BY DEF Follows
  <2> QED  BY <2>1
<1>2. ASSUME NEW k \in 1..n, Reached(k - 1)
      PROVE  Reached(k)
  <2>1. PICK f \in [0..(k - 1) -> S] : Follows(f, k - 1, c, step)
    BY <1>2
  <2> DEFINE next == step[k][f[k - 1]]
             g == [i \in 0..k |-> IF i = k THEN next ELSE f[i]]
  <2>2. next \in S
    <3>1. k \in Nat /\ k - 1 \in 0..(k - 1)
      OBVIOUS
    <3>2. f[k - 1] \in S /\ step[k] \in [S -> S]
      BY <3>1
    <3> QED  BY <3>2
  <2>3. g \in [0..k -> S]
    <3> HIDE DEF next
    <3>1. \A i \in 0..k : i # k => i \in 0..(k - 1)
      OBVIOUS
    <3> QED  BY <2>2, <3>1
  <2>4. g[0] = c
    <3>1. 0 \in 0..k /\ 0 # k
      OBVIOUS
    <3> QED  BY <2>1, <3>1 DEF Follows
  <2>5. ASSUME NEW i \in 1..k
        PROVE  g[i] = step[i][g[i - 1]]
    <3>1. i - 1 \in 0..k /\ i \in 0..k /\ i - 1 # k
      OBVIOUS
    <3>2. g[i - 1] = f[i - 1] /\ g[i] = IF i = k THEN next ELSE f[i]
      BY <3>1
    <3>3. i # k => f[i] = step[i][f[i - 1]]
      BY <2>1 DEF Follows
    <3> QED  BY <3>2, <3>3
  <2>6. Follows(g, k, c, step)
    BY <2>4, <2>5 DEF Follows
  <2> QED  BY <2>3, <2>6
<1>3. Reached(n)
  <2> HIDE DEF Reached
  <2>1. 0 \in T /\ \A i \in 1..n : i - 1 \in T => i \in T
    BY <1>1, <1>2
  <2> HIDE DEF T
  <2>2. \A i \in 0..n : i \in T
    BY <2>1, UpTo
  <2>3. n \in T
    BY <2>2
  <2> QED  BY <2>3 DEF T
<1> QED  BY <1>3

-----------------------------------------------------------------------------
\* The weights of the bytes.

LEMMA Parameters ==
  /\ Base \in Nat /\ Base > 1 /\ Width \in Nat /\ Width > 0 /\ IDLen \in Nat
  /\ \A i \in 1..Width : i \in 0..Width /\ i - 1 \in 0..Width /\ Width - i \in 0..Width
BY OpReturnAssumption

LEMMA WeightDefined ==
  /\ Weight \in [0..Width -> Int] /\ Weight[0] = 1
  /\ \A n \in 1..Width : Weight[n] = Base * Weight[n - 1]
<1> DEFINE Def(f) == [n \in 0..Width |-> IF n = 0 THEN 1 ELSE Base * f[n - 1]]
           step == [i \in 1..Width |-> [x \in Int |-> Base * x]]
<1>1. step \in [1..Width -> [Int -> Int]]
  BY Parameters
<1>2. PICK f \in [0..Width -> Int] : Follows(f, Width, 1, step)
  <2> HIDE DEF step
  <2>1. Width \in Nat /\ 1 \in Int
    BY Parameters
  <2> QED  BY <1>1, <2>1, Recursion
<1>3. \A i \in 1..Width : f[i] = Base * f[i - 1]
  BY <1>2, Parameters DEF Follows
<1>4. f = Def(f)
  <2>1. \A i \in 0..Width : i # 0 => i \in 1..Width
    OBVIOUS
  <2> QED  BY <1>2, <1>3, <2>1 DEF Follows
<1>5. Weight = CHOOSE g : g = Def(g)
  BY DEF Weight
<1>6. Weight = Def(Weight)
  <2> HIDE DEF Def
  <2> QED  BY <1>4, <1>5
<1>7. Weight[0] = 1 /\ \A n \in 1..Width : Weight[n] = Base * Weight[n - 1]
  BY <1>6, Parameters
<1>8. Weight \in [0..Width -> Int]
  <2> DEFINE T == {i \in 0..Width : Weight[i] \in Int}
  <2>1. 0 \in T /\ \A i \in 1..Width : i - 1 \in T => i \in T
    BY <1>7, Parameters
  <2> HIDE DEF T
  <2>2. \A i \in 0..Width : i \in T
    BY <2>1, UpTo, Parameters
  <2>3. \A i \in 0..Width : Weight[i] \in Int
    BY <2>2 DEF T
  <2> QED  BY <1>6, <2>3
<1> QED  BY <1>7, <1>8

LEMMA WeightPositive == \A n \in 0..Width : Weight[n] \in Nat /\ Weight[n] > 0
<1> DEFINE T == {i \in 0..Width : Weight[i] > 0}
<1>1. 0 \in T
  BY WeightDefined, Parameters
<1>2. ASSUME NEW i \in 1..Width, i - 1 \in T
      PROVE  i \in T
  <2>1. Weight[i] = Base * Weight[i - 1] /\ Weight[i - 1] > 0 /\ Weight[i - 1] \in Int
    BY <1>2, WeightDefined, Parameters
  <2>2. \A x \in Int : x > 0 => Base * x > 0
    BY Parameters
  <2> QED  BY <2>1, <2>2
<1> HIDE DEF T
<1>3. \A i \in 0..Width : i \in T
  BY <1>1, <1>2, UpTo, Parameters
<1> QED  BY <1>3, WeightDefined DEF T

LEMMA PrefixesDefined ==
  ASSUME NEW b \in [1..Width -> Int]
  PROVE  /\ Prefixes(b) \in [0..Width -> Int] /\ Prefixes(b)[0] = 0
         /\ \A n \in 1..Width : Prefixes(b)[n] = Prefixes(b)[n - 1] * Base + b[n]
<1> DEFINE Def(f) == [n \in 0..Width |-> IF n = 0 THEN 0 ELSE f[n - 1] * Base + b[n]]
           step == [i \in 1..Width |-> [x \in Int |-> x * Base + b[i]]]
           p == Prefixes(b)
<1>1. step \in [1..Width -> [Int -> Int]]
  BY Parameters
<1>2. PICK f \in [0..Width -> Int] : Follows(f, Width, 0, step)
  <2> HIDE DEF step
  <2>1. Width \in Nat /\ 0 \in Int
    BY Parameters
  <2> QED  BY <1>1, <2>1, Recursion
<1>3. \A i \in 1..Width : f[i] = f[i - 1] * Base + b[i]
  BY <1>2, Parameters DEF Follows
<1>4. f = Def(f)
  <2>1. \A i \in 0..Width : i # 0 => i \in 1..Width
    OBVIOUS
  <2> QED  BY <1>2, <1>3, <2>1 DEF Follows
<1>5. p = CHOOSE g : g = Def(g)
  BY DEF Prefixes
<1>6. p = Def(p)
  <2> HIDE DEF Def
  <2> QED  BY <1>4, <1>5
<1>7. p[0] = 0 /\ \A n \in 1..Width : p[n] = p[n - 1] * Base + b[n]
  <2> HIDE DEF p
  <2> QED  BY <1>6, Parameters
<1>8. p \in [0..Width -> Int]
  <2> HIDE DEF p
  <2> DEFINE T == {i \in 0..Width : p[i] \in Int}
  <2>1. 0 \in T /\ \A i \in 1..Width : i - 1 \in T => i \in T
    <3>1. \A i \in 1..Width : b[i] \in Int
      OBVIOUS
    <3>2. 0 \in T
      BY <1>7, Parameters
    <3>3. ASSUME NEW i \in 1..Width, i - 1 \in T
          PROVE  i \in T
      <4>1. p[i] = p[i - 1] * Base + b[i] /\ p[i - 1] \in Int
        BY <1>7, <3>3
      <4>2. p[i - 1] * Base \in Int /\ b[i] \in Int
        BY <3>1, <4>1, Parameters
      <4>3. p[i] \in Int
        BY <4>1, <4>2
      <4> QED  BY <4>3
    <3> QED  BY <3>2, <3>3
  <2> HIDE DEF T
  <2>2. \A i \in 0..Width : i \in T
    BY <2>1, UpTo, Parameters
  <2>3. \A i \in 0..Width : p[i] \in Int
    BY <2>2 DEF T
  <2> QED  BY <1>6, <2>3
<1> QED  BY <1>7, <1>8

-----------------------------------------------------------------------------
\* Division.

LEMMA Divided ==
  ASSUME NEW w \in Nat, w > 0, NEW v \in Int
  PROVE  /\ v \div w \in Int /\ v % w \in 0..(w - 1)
         /\ v = (v \div w) * w + (v % w)
OBVIOUS

LEMMA Quotient ==
  ASSUME NEW w \in Nat, w > 0, NEW v \in Int, NEW q \in Int, NEW r \in 0..(w - 1),
         v = q * w + r
  PROVE  v \div w = q /\ v % w = r
<1> DEFINE p == v \div w
           s == v % w
<1>1. p \in Int /\ s \in 0..(w - 1) /\ v = p * w + s
  BY Divided
<1>2. p = q => s = r
  BY <1>1
<1>3. ASSUME NEW x \in Int, NEW y \in Int, NEW t \in 0..(w - 1), NEW u \in 0..(w - 1),
             x * w + t = y * w + u
      PROVE  ~(x > y)
  <2>1. \A d \in Int : d > 0 => d * w >= w
    OBVIOUS
  <2>2. x > y => (x - y) * w >= w
    BY <2>1
  <2>3. (x - y) * w = x * w - y * w
    OBVIOUS
  <2> QED  BY <1>3, <2>2, <2>3
<1> HIDE DEF p, s
<1>4. p * w + s = q * w + r
  BY <1>1
<1>5. ~(p > q) /\ ~(q > p)
  BY <1>1, <1>3, <1>4
<1>6. p = q
  BY <1>1, <1>5
<1> QED  BY <1>2, <1>6 DEF p, s

\* To divide by a product is to divide twice.
LEMMA DividedTwice ==
  ASSUME NEW a \in Nat, a > 0, NEW w \in Nat, w > 0, NEW v \in Int
  PROVE  v \div (a * w) = (v \div w) \div a
<1> DEFINE q == v \div w
           r == v % w
           p == q \div a
           s == q % a
           rest == s * w + r
<1>1. q \in Int /\ r \in 0..(w - 1) /\ v = q * w + r
  BY Divided
<1>2. p \in Int /\ s \in 0..(a - 1) /\ q = p * a + s
  <2> HIDE DEF q
  <2> QED  BY <1>1, Divided
<1> HIDE DEF q, r, p, s
<1>3. v = (p * a + s) * w + r
  BY <1>1, <1>2
<1>4. (p * a + s) * w = p * (a * w) + s * w
  BY <1>2
<1>5. v = p * (a * w) + rest
  BY <1>1, <1>2, <1>3, <1>4
<1>6. s * w >= 0 /\ s * w <= (a - 1) * w
  <2>1. \A x, y \in Int : x >= 0 /\ y >= 0 => x * y >= 0
    OBVIOUS
  <2>2. s * w >= 0 /\ ((a - 1) - s) * w >= 0
    BY <1>2, <2>1
  <2>3. ((a - 1) - s) * w = (a - 1) * w - s * w
    BY <1>2
  <2> QED  BY <1>2, <2>2, <2>3
<1>7. (a - 1) * w = a * w - w
  OBVIOUS
<1>8. a * w \in Nat /\ a * w > 0
  OBVIOUS
<1>9. rest \in 0..(a * w - 1)
  BY <1>1, <1>2, <1>6, <1>7, <1>8
<1> HIDE DEF rest
<1>10. v \div (a * w) = p
  <2> DEFINE m == a * w
  <2>1. m \in Nat /\ m > 0 /\ v = p * m + rest /\ rest \in 0..(m - 1)
    BY <1>5, <1>8, <1>9
  <2> HIDE DEF m
  <2>2. v \div m = p
    BY <1>2, <2>1, Quotient
  <2> QED  BY <2>2 DEF m
<1> QED  BY <1>10 DEF p, q

-----------------------------------------------------------------------------
\* The time stamp, there and back.

LEMMA ModulusEven ==
  /\ Modulus \in Nat /\ Modulus > 0
  /\ Modulus \div 2 \in Nat /\ 2 * (Modulus \div 2) = Modulus
<1> DEFINE half == Base \div 2
           w == Weight[Width - 1]
<1>1. Base = 2 * half /\ half \in Nat
  BY OpReturnAssumption
<1>2. w \in Nat /\ Modulus = Base * w
  BY Parameters, WeightDefined, WeightPositive DEF Modulus
<1>3. Modulus \in Nat /\ Modulus > 0
  BY Parameters, WeightPositive DEF Modulus
<1> HIDE DEF half, w
<1>4. Modulus = 2 * (half * w) /\ half * w \in Nat
  BY <1>1, <1>2
<1> QED  BY <1>3, <1>4

LEMMA SignedUnsigned ==
  ASSUME NEW t \in Seconds
  PROVE  Unsigned(t) \in 0..(Modulus - 1) /\ Signed(Unsigned(t)) = t
<1> DEFINE h == Modulus \div 2
<1>1. Modulus = 2 * h /\ h \in Nat /\ Modulus \in Nat /\ Modulus > 0
  BY ModulusEven
<1>2. t \in Int /\ -h <= t /\ t <= h - 1
  BY <1>1 DEF Seconds
<1>3. CASE t >= 0
  <2>1. t = 0 * Modulus + t /\ t \in 0..(Modulus - 1)
    BY <1>1, <1>2, <1>3
  <2>2. Unsigned(t) = t
    BY <1>1, <2>1, Quotient DEF Unsigned
  <2>3. t < h
    BY <1>1, <1>2
  <2> QED  BY <2>1, <2>2, <2>3 DEF Signed
<1>4. CASE t < 0
  <2>1. t = (-1) * Modulus + (t + Modulus) /\ t + Modulus \in 0..(Modulus - 1)
    BY <1>1, <1>2, <1>4
  <2>2. Unsigned(t) = t + Modulus
    <3>1. t % Modulus = t + Modulus
      <4> DEFINE r == t + Modulus
      <4>1. r \in 0..(Modulus - 1) /\ t = (-1) * Modulus + r /\ -1 \in Int
        BY <2>1
      <4> HIDE DEF r
      <4>2. t % Modulus = r
        BY <1>1, <1>2, <4>1, Quotient
      <4> QED  BY <4>2 DEF r
    <3> QED  BY <3>1 DEF Unsigned
  <2>3. ~(t + Modulus < h) /\ (t + Modulus) - Modulus = t
    BY <1>1, <1>2
  <2> QED  BY <2>1, <2>2, <2>3 DEF Signed
<1> QED  BY <1>2, <1>3, <1>4

LEMMA UnsignedSigned ==
  ASSUME NEW v \in 0..(Modulus - 1)
  PROVE  Signed(v) \in Seconds /\ Unsigned(Signed(v)) = v
<1> DEFINE h == Modulus \div 2
<1>1. Modulus = 2 * h /\ h \in Nat /\ Modulus \in Nat /\ Modulus > 0
  BY ModulusEven
<1>2. v \in Int /\ 0 <= v /\ v < Modulus
  BY <1>1
<1>3. CASE v < h
  <2>1. Signed(v) = v /\ v \in Seconds
    BY <1>1, <1>2, <1>3 DEF Signed, Seconds
  <2>2. v = 0 * Modulus + v
    BY <1>1, <1>2
  <2>3. v % Modulus = v
    BY <1>1, <1>2, <2>2, Quotient
  <2> QED  BY <2>1, <2>3 DEF Unsigned
<1>4. CASE ~(v < h)
  <2> DEFINE t == v - Modulus
  <2>1. Signed(v) = t /\ t \in Seconds /\ t \in Int
    BY <1>1, <1>2, <1>4 DEF Signed, Seconds
  <2>2. t = (-1) * Modulus + v /\ -1 \in Int
    BY <1>1, <1>2
  <2> HIDE DEF t
  <2>3. t % Modulus = v
    BY <1>1, <1>2, <2>1, <2>2, Quotient
  <2> QED  BY <2>1, <2>3 DEF Unsigned
<1> QED  BY <1>3, <1>4

LEMMA PutIsBytes ==
  ASSUME NEW v \in Int
  PROVE  putUint64BE(v) \in [1..Width -> Byte]
<1>1. ASSUME NEW i \in 1..Width
      PROVE  (v \div Weight[Width - i]) % Base \in Byte
  <2>1. Weight[Width - i] \in Nat /\ Weight[Width - i] > 0
    BY Parameters, WeightPositive
  <2>2. v \div Weight[Width - i] \in Int
    BY <2>1, Divided
  <2> QED  BY <2>2, Parameters, Divided DEF Byte
<1> QED  BY <1>1 DEF putUint64BE

LEMMA BytesAreNumbers == Byte \subseteq Int /\ [1..Width -> Byte] \subseteq [1..Width -> Int]
BY Parameters DEF Byte

\* Of a number that fits, the first n bytes are what is left when the others
\* are shifted out.
LEMMA GetPut ==
  ASSUME NEW v \in 0..(Modulus - 1)
  PROVE  getUint64BE(putUint64BE(v)) = v
<1> DEFINE b == putUint64BE(v)
           p == Prefixes(b)
           T == {n \in 0..Width : p[n] = v \div Weight[Width - n]}
<1>1. v \in Int /\ 0 <= v /\ v < Modulus /\ Modulus \in Nat /\ Modulus > 0
  BY ModulusEven
<1>2. b \in [1..Width -> Int] /\ \A i \in 1..Width : b[i] = (v \div Weight[Width - i]) % Base
  BY <1>1, PutIsBytes, BytesAreNumbers DEF putUint64BE
<1> HIDE DEF b
<1>3. /\ p \in [0..Width -> Int] /\ p[0] = 0
      /\ \A n \in 1..Width : p[n] = p[n - 1] * Base + b[n]
  BY <1>2, PrefixesDefined
<1> HIDE DEF p
<1>4. 0 \in T
  <2>1. v = 0 * Modulus + v /\ v \in 0..(Modulus - 1)
    BY <1>1
  <2>2. v \div Modulus = 0
    BY <1>1, <2>1, Quotient
  <2>3. Width - 0 = Width /\ 0 \in 0..Width
    BY Parameters
  <2> QED  BY <1>3, <2>2, <2>3 DEF Modulus
<1>5. ASSUME NEW n \in 1..Width, n - 1 \in T
      PROVE  n \in T
  <2> DEFINE w == Weight[Width - n]
             x == v \div w
  <2>1. w \in Nat /\ w > 0
    BY Parameters, WeightPositive
  <2>2. Weight[Width - (n - 1)] = Base * w
    <3>1. Width - (n - 1) \in 1..Width /\ (Width - (n - 1)) - 1 = Width - n
      BY Parameters
    <3> QED  BY <3>1, WeightDefined
  <2>3. p[n - 1] = v \div (Base * w)
    BY <1>5, <2>2
  <2> HIDE DEF w
  <2>4. v \div (Base * w) = x \div Base
    BY <1>1, <2>1, Parameters, DividedTwice
  <2>5. x \in Int
    BY <1>1, <2>1, Divided
  <2>6. b[n] = x % Base
    BY <1>2 DEF w
  <2> HIDE DEF x
  <2>7. x = (x \div Base) * Base + (x % Base)
    BY <2>5, Parameters, Divided
  <2>8. p[n] = x
    BY <1>3, <2>3, <2>4, <2>6, <2>7
  <2> QED  BY <2>8, Parameters DEF x, w
<1> HIDE DEF T
<1>6. \A n \in 0..Width : n \in T
  BY <1>4, <1>5, UpTo, Parameters
<1>7. p[Width] = v \div Weight[Width - Width]
  BY <1>6, Parameters DEF T
<1>8. p[Width] = v
  <2>1. Weight[Width - Width] = 1
    BY WeightDefined, Parameters
  <2>2. v \div 1 = v
    BY <1>1
  <2> QED  BY <1>7, <2>1, <2>2
<1> QED  BY <1>8 DEF getUint64BE, p, b

LEMMA PutGet ==
  ASSUME NEW b \in [1..Width -> Byte]
  PROVE  getUint64BE(b) \in 0..(Modulus - 1) /\ putUint64BE(getUint64BE(b)) = b
<1> DEFINE p == Prefixes(b)
           v == p[Width]
           T == {n \in 0..Width : p[n] \in 0..(Weight[n] - 1)}
           U == {k \in 0..Width : v \div Weight[k] = p[Width - k]}
<1>1. b \in [1..Width -> Int] /\ \A n \in 1..Width : b[n] \in 0..(Base - 1)
  BY BytesAreNumbers DEF Byte
<1>2. /\ p \in [0..Width -> Int] /\ p[0] = 0
      /\ \A n \in 1..Width : p[n] = p[n - 1] * Base + b[n]
  BY <1>1, PrefixesDefined
<1> HIDE DEF p
<1>3. 0 \in T
  <2>1. Weight[0] = 1 /\ 0 \in 0..Width /\ 0 \in 0..(1 - 1)
    BY WeightDefined, Parameters
  <2> QED  BY <1>2, <2>1
<1>4. ASSUME NEW n \in 1..Width, n - 1 \in T
      PROVE  n \in T
  <2> DEFINE w == Weight[n - 1]
             x == p[n - 1]
             c == b[n]
  <2>1. w \in Nat /\ w > 0 /\ x \in 0..(w - 1) /\ c \in 0..(Base - 1)
    BY <1>1, <1>4, Parameters, WeightPositive
  <2>2. Weight[n] = Base * w /\ p[n] = x * Base + c
    BY <1>2, WeightDefined
  <2> HIDE DEF w, x, c
  <2>3. x * Base >= 0 /\ x * Base <= (w - 1) * Base
    <3>1. \A i, j \in Int : i >= 0 /\ j >= 0 => i * j >= 0
      OBVIOUS
    <3>2. x * Base >= 0 /\ ((w - 1) - x) * Base >= 0
      BY <2>1, <3>1, Parameters
    <3>3. ((w - 1) - x) * Base = (w - 1) * Base - x * Base
      BY <2>1, Parameters
    <3> QED  BY <2>1, <3>2, <3>3, Parameters
  <2>4. (w - 1) * Base = Base * w - Base
    BY <2>1, Parameters
  <2>5. x * Base + c \in 0..(Base * w - 1)
    BY <2>1, <2>3, <2>4, Parameters
  <2> QED  BY <2>2, <2>5, Parameters
<1> HIDE DEF T
<1>5. \A n \in 0..Width : n \in T
  BY <1>3, <1>4, UpTo, Parameters
<1>6. v \in 0..(Modulus - 1) /\ v \in Int
  BY <1>5, Parameters, ModulusEven DEF T, Modulus
<1>7. 0 \in U
  <2>1. v \div 1 = v /\ Width - 0 = Width /\ 0 \in 0..Width
    BY <1>6, Parameters
  <2> QED  BY <2>1, WeightDefined
<1> HIDE DEF v
<1>8. ASSUME NEW k \in 1..Width, k - 1 \in U
      PROVE  k \in U
  <2> DEFINE w == Weight[k - 1]
             n == Width - (k - 1)
  <2>1. w \in Nat /\ w > 0 /\ Weight[k] = Base * w
    BY Parameters, WeightPositive, WeightDefined
  <2>2. n \in 1..Width /\ n - 1 = Width - k /\ n - 1 \in 0..Width
    BY Parameters
  <2>3. v \div w = p[n]
    BY <1>8
  <2> HIDE DEF w, n
  <2>4. v \div (Base * w) = (v \div w) \div Base
    BY <1>6, <2>1, Parameters, DividedTwice
  <2>5. p[n] = p[n - 1] * Base + b[n] /\ p[n] \in Int /\ p[n - 1] \in Int
    BY <1>2, <2>2, Parameters
  <2>6. p[n] \div Base = p[n - 1]
    <3>1. b[n] \in 0..(Base - 1) /\ Base \in Nat /\ Base > 0
      BY <1>1, <2>2, Parameters
    <3> QED  BY <2>5, <3>1, Quotient
  <2> QED  BY <2>1, <2>2, <2>3, <2>4, <2>6
<1> HIDE DEF U
<1>9. \A k \in 0..Width : k \in U
  BY <1>7, <1>8, UpTo, Parameters
<1>10. ASSUME NEW n \in 1..Width
       PROVE  (v \div Weight[Width - n]) % Base = b[n]
  <2>1. Width - n \in U /\ Width - (Width - n) = n
    BY <1>9, Parameters
  <2>2. v \div Weight[Width - n] = p[n]
    BY <2>1 DEF U
  <2>3. p[n] = p[n - 1] * Base + b[n] /\ p[n] \in Int /\ p[n - 1] \in Int
    BY <1>2, Parameters
  <2>4. p[n] % Base = b[n]
    <3> DEFINE x == p[n]
               y == p[n - 1]
               r == b[n]
    <3>1. r \in 0..(Base - 1) /\ Base \in Nat /\ Base > 0
      BY <1>1, Parameters
    <3>2. x = y * Base + r /\ x \in Int /\ y \in Int
      BY <2>3
    <3> HIDE DEF x, y, r
    <3>3. x % Base = r
      BY <3>1, <3>2, Quotient
    <3> QED  BY <3>3 DEF x, r
  <2> QED  BY <2>2, <2>4
<1>11. putUint64BE(v) = b
  <2>1. putUint64BE(v) = [i \in 1..Width |-> b[i]]
    BY <1>10 DEF putUint64BE
  <2> QED  BY <2>1
<1>12. getUint64BE(b) = v
  BY DEF getUint64BE, v, p
<1> QED  BY <1>6, <1>11, <1>12

-----------------------------------------------------------------------------
\* The places of the fields.

Joins(b, S, s, m, t, n) ==
  /\ b \in Seq(S) /\ Len(b) = m + n
  /\ \A i \in 1..m : b[i] = s[i]
  /\ \A i \in 1..n : b[m + i] = t[i]

LEMMA Concatenation ==
  ASSUME NEW S, NEW s \in Seq(S), NEW t \in Seq(S), NEW m, NEW n, Len(s) = m, Len(t) = n
  PROVE  Joins(s \o t, S, s, m, t, n)
BY DEF Joins

LEMMA Stretch ==
  ASSUME NEW S, NEW b \in Seq(S), NEW m \in Nat, NEW k \in Nat, m + k <= Len(b)
  PROVE  SubSeq(b, m + 1, m + k) = [i \in 1..k |-> b[m + i]]
OBVIOUS

LEMMA FunctionIsSeq ==
  ASSUME NEW S, NEW n \in Nat, NEW f \in [1..n -> S]
  PROVE  f \in Seq(S) /\ Len(f) = n
OBVIOUS

LEMMA AnchorFields ==
  ASSUME NEW a \in Anchor
  PROVE  /\ a.version \in Byte /\ a.net \in Byte /\ a.time.sec \in Seconds
         /\ a.domain \in [1..IDLen -> Byte] /\ a.digest \in [1..IDLen -> Byte]
BY DEF Anchor, Times

LEMMA Layout ==
  ASSUME NEW a \in Anchor
  PROVE  LET b == EncodeOpReturn(a) IN
         /\ b \in Seq(Byte) /\ Len(b) = Size
         /\ \A i \in 1..4 : b[i] = Signature[i]
         /\ b[5] = a.version /\ b[6] = a.net
         /\ \A i \in 1..Width : b[8 + i] = putUint64BE(Unsigned(a.time.sec))[i]
         /\ \A i \in 1..IDLen : b[8 + Width + i] = a.domain[i]
         /\ \A i \in 1..IDLen : b[8 + Width + IDLen + i] = a.digest[i]
<1> DEFINE head == <<a.version, a.net, 0, 0>>
           time == putUint64BE(Unsigned(a.time.sec))
           dom == a.domain
           dig == a.digest
           upToHead == Signature \o head
           upToTime == upToHead \o time
           upToDom == upToTime \o dom
           b == upToDom \o dig
<1> Width \in Nat /\ IDLen \in Nat
  BY Parameters
<1>1. Signature \in Seq(Byte) /\ Len(Signature) = 4
  <2>1. Signature \in [1..4 -> Byte] /\ 4 \in Nat
    BY OpReturnAssumption
  <2> QED  BY <2>1, FunctionIsSeq
<1>2. head \in Seq(Byte) /\ Len(head) = 4 /\ head[1] = a.version /\ head[2] = a.net
  <2>1. a.version \in Byte /\ a.net \in Byte /\ 0 \in Byte
    BY AnchorFields, Parameters DEF Byte
  <2> QED  BY <2>1
<1>3. time \in Seq(Byte) /\ Len(time) = Width
  <2>1. Unsigned(a.time.sec) \in Int
    BY AnchorFields, SignedUnsigned, ModulusEven
  <2>2. time \in [1..Width -> Byte]
    BY <2>1, PutIsBytes
  <2> HIDE DEF time
  <2> QED  BY <2>2, Parameters, FunctionIsSeq
<1>4. dom \in Seq(Byte) /\ Len(dom) = IDLen /\ dig \in Seq(Byte) /\ Len(dig) = IDLen
  BY AnchorFields, Parameters, FunctionIsSeq
<1>5. EncodeOpReturn(a) = b
  BY DEF EncodeOpReturn
<1> HIDE DEF head, time, dom, dig
<1>6. /\ upToHead \in Seq(Byte) /\ Len(upToHead) = 8
      /\ \A i \in 1..4 : upToHead[i] = Signature[i]
      /\ upToHead[5] = a.version /\ upToHead[6] = a.net
  <2>1. Joins(upToHead, Byte, Signature, 4, head, 4)
    BY <1>1, <1>2, Concatenation
  <2> HIDE DEF upToHead
  <2>2. /\ upToHead \in Seq(Byte) /\ Len(upToHead) = 4 + 4
        /\ \A i \in 1..4 : upToHead[i] = Signature[i]
        /\ \A i \in 1..4 : upToHead[4 + i] = head[i]
    BY <2>1 DEF Joins
  <2>3. upToHead[4 + 1] = head[1] /\ upToHead[4 + 2] = head[2]
    BY <2>2
  <2> QED  BY <1>2, <2>2, <2>3
<1> HIDE DEF upToHead
<1>7. /\ upToTime \in Seq(Byte) /\ Len(upToTime) = 8 + Width
      /\ \A i \in 1..8 : upToTime[i] = upToHead[i]
      /\ \A i \in 1..Width : upToTime[8 + i] = time[i]
  <2>1. Joins(upToTime, Byte, upToHead, 8, time, Width)
    BY <1>3, <1>6, Concatenation
  <2> HIDE DEF upToTime
  <2> QED  BY <2>1 DEF Joins
<1> HIDE DEF upToTime
<1>8. /\ upToDom \in Seq(Byte) /\ Len(upToDom) = 8 + Width + IDLen
      /\ \A i \in 1..(8 + Width) : upToDom[i] = upToTime[i]
      /\ \A i \in 1..IDLen : upToDom[8 + Width + i] = dom[i]
  <2>1. Joins(upToDom, Byte, upToTime, 8 + Width, dom, IDLen)
    BY <1>4, <1>7, Concatenation
  <2> HIDE DEF upToDom
  <2> QED  BY <2>1 DEF Joins
<1> HIDE DEF upToDom
<1>9. /\ b \in Seq(Byte) /\ Len(b) = 8 + Width + IDLen + IDLen
      /\ \A i \in 1..(8 + Width + IDLen) : b[i] = upToDom[i]
      /\ \A i \in 1..IDLen : b[8 + Width + IDLen + i] = dig[i]
  <2>1. Joins(b, Byte, upToDom, 8 + Width + IDLen, dig, IDLen)
    BY <1>4, <1>8, Concatenation
  <2> HIDE DEF b
  <2> QED  BY <2>1 DEF Joins
<1> HIDE DEF b
<1>10. Width \in Nat /\ IDLen \in Nat
  BY Parameters
<1>11. \A i \in 1..8 : b[i] = upToHead[i]
  <2> SUFFICES ASSUME NEW i \in 1..8 PROVE b[i] = upToHead[i]
    OBVIOUS
  <2>1. i \in 1..(8 + Width) /\ i \in 1..(8 + Width + IDLen)
    BY <1>10
  <2> QED  BY <1>7, <1>8, <1>9, <2>1
<1>12. \A i \in 1..Width : b[8 + i] = time[i]
  <2> SUFFICES ASSUME NEW i \in 1..Width PROVE b[8 + i] = time[i]
    OBVIOUS
  <2>1. 8 + i \in 1..(8 + Width) /\ 8 + i \in 1..(8 + Width + IDLen)
    BY <1>10
  <2> QED  BY <1>7, <1>8, <1>9, <2>1
<1>13. \A i \in 1..IDLen : b[8 + Width + i] = dom[i]
  <2> SUFFICES ASSUME NEW i \in 1..IDLen PROVE b[8 + Width + i] = dom[i]
    OBVIOUS
  <2>1. 8 + Width + i \in 1..(8 + Width + IDLen)
    BY <1>10
  <2> QED  BY <1>8, <1>9, <2>1
<1>14. Len(b) = Size
  BY <1>9, <1>10 DEF Size
<1>15. \A i \in 1..4 : b[i] = Signature[i]
  BY <1>6, <1>11
<1>16. b[5] = a.version /\ b[6] = a.net
  BY <1>6, <1>11
<1> QED
  BY <1>5, <1>9, <1>12, <1>13, <1>14, <1>15, <1>16 DEF time, dom, dig

\* What the decoder cuts out.
LEMMA Cuts ==
  ASSUME NEW b \in Seq(Byte), Len(b) = Size
  PROVE  /\ SubSeq(b, 1, 4) = [i \in 1..4 |-> b[i]]
         /\ SubSeq(b, 9, 8 + Width) = [i \in 1..Width |-> b[8 + i]]
         /\ SubSeq(b, 9 + Width, 8 + Width + IDLen) = [i \in 1..IDLen |-> b[8 + Width + i]]
         /\ SubSeq(b, 9 + Width + IDLen, Size)
              = [i \in 1..IDLen |-> b[8 + Width + IDLen + i]]
<1>1. Width \in Nat /\ IDLen \in Nat /\ Len(b) = 8 + Width + 2 * IDLen
  BY Parameters DEF Size
<1>2. SubSeq(b, 0 + 1, 0 + 4) = [i \in 1..4 |-> b[0 + i]]
  BY <1>1, Stretch
<1>3. SubSeq(b, 8 + 1, 8 + Width) = [i \in 1..Width |-> b[8 + i]]
  BY <1>1, Stretch
<1>4. SubSeq(b, (8 + Width) + 1, (8 + Width) + IDLen)
        = [i \in 1..IDLen |-> b[(8 + Width) + i]]
  BY <1>1, Stretch
<1>5. SubSeq(b, (8 + Width + IDLen) + 1, (8 + Width + IDLen) + IDLen)
        = [i \in 1..IDLen |-> b[(8 + Width + IDLen) + i]]
  BY <1>1, Stretch
<1>6. /\ (8 + Width) + 1 = 9 + Width /\ (8 + Width + IDLen) + 1 = 9 + Width + IDLen
      /\ (8 + Width + IDLen) + IDLen = Size
  BY <1>1 DEF Size
<1>7. [i \in 1..4 |-> b[0 + i]] = [i \in 1..4 |-> b[i]]
  OBVIOUS
<1> QED  BY <1>2, <1>3, <1>4, <1>5, <1>6, <1>7

\* What the decoder makes of the fields is an anchor.
LEMMA FieldsOfBytes ==
  ASSUME NEW b \in Seq(Byte), Len(b) = Size
  PROVE  /\ b[5] \in Byte /\ b[6] \in Byte
         /\ Fields(b) \in Anchor
         /\ Fields(b).version = b[5] /\ Fields(b).net = b[6]
         /\ putUint64BE(Unsigned(Fields(b).time.sec)) = [i \in 1..Width |-> b[8 + i]]
         /\ Fields(b).domain = [i \in 1..IDLen |-> b[8 + Width + i]]
         /\ Fields(b).digest = [i \in 1..IDLen |-> b[8 + Width + IDLen + i]]
<1> DEFINE stamp == [i \in 1..Width |-> b[8 + i]]
           v == getUint64BE(stamp)
           dom == [i \in 1..IDLen |-> b[8 + Width + i]]
           dig == [i \in 1..IDLen |-> b[8 + Width + IDLen + i]]
<1> Width \in Nat /\ IDLen \in Nat
  BY Parameters
<1>1. Len(b) = 8 + Width + 2 * IDLen
  BY DEF Size
<1>2. /\ b[5] \in Byte /\ b[6] \in Byte /\ stamp \in [1..Width -> Byte]
      /\ dom \in [1..IDLen -> Byte] /\ dig \in [1..IDLen -> Byte]
  BY <1>1
<1>3. Fields(b) = [version |-> b[5], net |-> b[6],
                   time |-> [sec |-> Signed(v), nsec |-> 0], domain |-> dom, digest |-> dig]
  BY Cuts DEF Fields
<1> HIDE DEF stamp, dom, dig
<1>4. v \in 0..(Modulus - 1) /\ putUint64BE(v) = stamp
  BY <1>2, PutGet
<1> HIDE DEF v
<1>5. Signed(v) \in Seconds /\ Unsigned(Signed(v)) = v
  BY <1>4, UnsignedSigned
<1>6. Fields(b) \in Anchor
  BY <1>2, <1>3, <1>5 DEF Anchor, Times
<1>7. /\ Fields(b).version = b[5] /\ Fields(b).net = b[6]
      /\ Fields(b).domain = dom /\ Fields(b).digest = dig
      /\ Fields(b).time.sec = Signed(v)
  BY <1>3
<1>8. putUint64BE(Unsigned(Fields(b).time.sec)) = stamp
  BY <1>4, <1>5, <1>7
<1> QED  BY <1>2, <1>6, <1>7, <1>8 DEF stamp, dom, dig

LEMMA NewAnchorIsAnchor == NewAnchors \subseteq Anchor
<1>1. Versions \subseteq Byte /\ IDs \subseteq [1..IDLen -> Byte]
  BY OpReturnAssumption
<1> QED  BY <1>1 DEF NewAnchors, Anchor

\* Reading what was written gives every field but the fraction of the second,
\* of any size of a time stamp and for times before 1970, too.
LEMMA FieldsOfEncoded ==
  ASSUME NEW a \in Anchor
  PROVE  Fields(EncodeOpReturn(a)) = [a EXCEPT !.time.nsec = 0]
<1> DEFINE b == EncodeOpReturn(a)
           stamp == putUint64BE(Unsigned(a.time.sec))
<1>1. /\ b \in Seq(Byte) /\ Len(b) = Size
      /\ b[5] = a.version /\ b[6] = a.net
      /\ \A i \in 1..Width : b[8 + i] = stamp[i]
      /\ \A i \in 1..IDLen : b[8 + Width + i] = a.domain[i]
      /\ \A i \in 1..IDLen : b[8 + Width + IDLen + i] = a.digest[i]
  BY Layout
<1> HIDE DEF b
<1>2. Unsigned(a.time.sec) \in 0..(Modulus - 1) /\ Signed(Unsigned(a.time.sec)) = a.time.sec
  BY AnchorFields, SignedUnsigned
<1>3. stamp \in [1..Width -> Byte] /\ getUint64BE(stamp) = Unsigned(a.time.sec)
  BY <1>2, PutIsBytes, GetPut, ModulusEven
<1> HIDE DEF stamp
<1>4. SubSeq(b, 9, 8 + Width) = stamp
  BY <1>1, <1>3, Cuts
<1>5. /\ SubSeq(b, 9 + Width, 8 + Width + IDLen) = a.domain
      /\ SubSeq(b, 9 + Width + IDLen, Size) = a.digest
  <2>1. /\ a.domain = [i \in 1..IDLen |-> a.domain[i]]
        /\ a.digest = [i \in 1..IDLen |-> a.digest[i]]
    BY AnchorFields
  <2>2. /\ SubSeq(b, 9 + Width, 8 + Width + IDLen) = [i \in 1..IDLen |-> b[8 + Width + i]]
        /\ SubSeq(b, 9 + Width + IDLen, Size)
              = [i \in 1..IDLen |-> b[8 + Width + IDLen + i]]
    BY <1>1, Cuts
  <2> QED  BY <1>1, <2>1, <2>2
<1>6. Fields(b) = [version |-> a.version, net |-> a.net,
                   time |-> [sec |-> a.time.sec, nsec |-> 0],
                   domain |-> a.domain, digest |-> a.digest]
  BY <1>1, <1>2, <1>3, <1>4, <1>5 DEF Fields
<1>7. a = [version |-> a.version, net |-> a.net, time |-> a.time,
           domain |-> a.domain, digest |-> a.digest]
      /\ a.time = [sec |-> a.time.sec, nsec |-> a.time.nsec]
  BY DEF Anchor, Times
<1>8. [a EXCEPT !.time.nsec = 0]
        = [version |-> a.version, net |-> a.net,
           time |-> [sec |-> a.time.sec, nsec |-> 0],
           domain |-> a.domain, digest |-> a.digest]
  BY <1>7
<1> QED  BY <1>6, <1>8 DEF b

\* Every anchor that NewAnchor makes is read back as it was, but for the fraction
\* of its second, if its network has a name, and is refused otherwise.
THEOREM DecodeEncoded ==
  ASSUME NEW a \in NewAnchors
  PROVE  DecodeOpReturn(EncodeOpReturn(a)) =
           IF a.net \in Nets THEN [error |-> None, anchor |-> [a EXCEPT !.time.nsec = 0]]
                             ELSE Failed("ErrInvalidBTCNet")
<1> DEFINE b == EncodeOpReturn(a)
<1>1. a \in Anchor
  BY NewAnchorIsAnchor
<1>2. a.version \in Versions
  BY DEF NewAnchors
<1>3. /\ b \in Seq(Byte) /\ Len(b) = Size /\ b[5] = a.version /\ b[6] = a.net
      /\ \A i \in 1..4 : b[i] = Signature[i]
  BY <1>1, Layout
<1>4. Fields(b) = [a EXCEPT !.time.nsec = 0]
  BY <1>1, FieldsOfEncoded
<1> HIDE DEF b
<1>5. SubSeq(b, 1, 4) = Signature
  <2>1. Signature = [i \in 1..4 |-> Signature[i]]
    BY OpReturnAssumption
  <2>2. SubSeq(b, 1, 4) = [i \in 1..4 |-> b[i]]
    BY <1>3, Cuts
  <2> QED  BY <1>3, <2>1, <2>2
<1>6. DecodeOpReturn(b) = IF a.net \in Nets THEN [error |-> None, anchor |-> Fields(b)]
                                            ELSE Failed("ErrInvalidBTCNet")
  BY <1>2, <1>3, <1>5 DEF DecodeOpReturn
<1> QED  BY <1>4, <1>6 DEF b

\* Whatever bytes are read as an anchor, they are that anchor's: encoded again it
\* gives them back but for the two that are not looked at.
THEOREM EncodeDecoded ==
  ASSUME NEW b \in Seq(Byte), Len(b) = Size, DecodeOpReturn(b).error = None
  PROVE  LET a == DecodeOpReturn(b).anchor IN
         /\ a \in Anchor /\ a.version \in Versions /\ a.net \in Nets
         /\ \A i \in (1..Size) \ {7, 8} : EncodeOpReturn(a)[i] = b[i]
<1> DEFINE a == Fields(b)
           e == EncodeOpReturn(a)
<1>1. /\ SubSeq(b, 1, 4) = Signature /\ b[5] \in Versions /\ b[6] \in Nets
      /\ DecodeOpReturn(b).anchor = a
  <2>1. OpReturnErrors = {"ErrInvalidSignature", "ErrInvalidVersion", "ErrInvalidBTCNet"}
        /\ None \notin OpReturnErrors
    BY OpReturnAssumption DEF OpReturnErrors
  <2> HIDE DEF a
  <2>2. \A x \in OpReturnErrors : Failed(x).error # None
    BY <2>1 DEF Failed
  <2>3. /\ SubSeq(b, 1, 4) = Signature /\ b[5] \in Versions /\ b[6] \in Nets
    BY <2>1, <2>2 DEF DecodeOpReturn
  <2> QED  BY <2>3 DEF DecodeOpReturn, a
<1>2. /\ a \in Anchor /\ a.version = b[5] /\ a.net = b[6]
      /\ putUint64BE(Unsigned(a.time.sec)) = [i \in 1..Width |-> b[8 + i]]
      /\ a.domain = [i \in 1..IDLen |-> b[8 + Width + i]]
      /\ a.digest = [i \in 1..IDLen |-> b[8 + Width + IDLen + i]]
  BY FieldsOfBytes
<1> HIDE DEF a
<1>3. /\ \A i \in 1..4 : e[i] = Signature[i]
      /\ e[5] = a.version /\ e[6] = a.net
      /\ \A i \in 1..Width : e[8 + i] = putUint64BE(Unsigned(a.time.sec))[i]
      /\ \A i \in 1..IDLen : e[8 + Width + i] = a.domain[i]
      /\ \A i \in 1..IDLen : e[8 + Width + IDLen + i] = a.digest[i]
  BY <1>2, Layout
<1> HIDE DEF e
<1>4. \A i \in 1..4 : Signature[i] = b[i]
  BY <1>1, Cuts
<1>5. ASSUME NEW i \in (1..Size) \ {7, 8}
      PROVE  e[i] = b[i]
  <2>1. Width \in Nat /\ IDLen \in Nat /\ Size = 8 + Width + 2 * IDLen /\ i \in Nat
    BY Parameters DEF Size
  <2>2. CASE i \in 1..4
    BY <1>3, <1>4, <2>2
  <2>3. CASE i = 5 \/ i = 6
    BY <1>2, <1>3, <2>3
  <2>4. CASE i > 8 /\ i <= 8 + Width
    <3>1. i - 8 \in 1..Width /\ 8 + (i - 8) = i
      BY <2>1, <2>4
    <3> QED  BY <1>2, <1>3, <3>1
  <2>5. CASE i > 8 + Width /\ i <= 8 + Width + IDLen
    <3>1. i - (8 + Width) \in 1..IDLen /\ 8 + Width + (i - (8 + Width)) = i
      BY <2>1, <2>5
    <3> QED  BY <1>2, <1>3, <3>1
  <2>6. CASE i > 8 + Width + IDLen
    <3> DEFINE n == i - (8 + Width + IDLen)
    <3>1. n \in 1..IDLen /\ 8 + Width + IDLen + n = i
      BY <2>1, <2>6
    <3> HIDE DEF n
    <3> QED  BY <1>2, <1>3, <3>1
  <2> QED  BY <2>1, <2>2, <2>3, <2>4, <2>5, <2>6
<1> QED  BY <1>1, <1>2, <1>5 DEF e

=============================================================================
