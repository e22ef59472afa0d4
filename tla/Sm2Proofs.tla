----------------------------- MODULE Sm2Proofs -----------------------------
(***************************************************************************)
(* What the calls of the SM2 library compute, for every curve that         *)
(* GroupAssumption describes: addition, doubling, negation, comparison and *)
(* both multiplications against the group of chord and tangent; signing    *)
(* and verification, encryption and decryption against the standard,       *)
(* whatever the source of randomness yields.  After them, what is built on *)
(* signatures that verify: chains and pairs of certificates.               *)
(***************************************************************************)
EXTENDS Sm2Ops, CertChains, DataLemmas

(***************************************************************************)
(* Powers of two.                                                          *)
(***************************************************************************)
(* Powers of two up to 2^Bits.                                             *)
LEMMA PowersAre ==
    /\ TwoTo[0] = 1
    /\ \A i \in 1..Bits : TwoTo[i] = 2 * TwoTo[i - 1]
<1>. DEFINE s == [a \in Nat \X Nat |-> 2 * a[2]]
            P(f) == f = [i \in 0..Bits |-> IF i = 0 THEN 1 ELSE 2 * f[i - 1]]
<1>1. 1 \in Nat /\ s \in [Nat \X Nat -> Nat] /\ \A i, a \in Nat : s[<<i, a>>] = 2 * a
  OBVIOUS
<1>2. Bits \in Nat
  BY CurveAssumption
<1>. HIDE DEF s
<1>3. PICK f \in [0..Bits -> Nat] : f = [i \in 0..Bits |-> IF i = 0 THEN 1 ELSE s[<<i, f[i - 1]>>]]
  <2>1. \E f \in [0..Bits -> Nat] : Stepwise(f, 1, s, Bits)
    BY <1>1, <1>2, Recursion
  <2>. QED BY <2>1 DEF Stepwise
<1>4. \A i \in 0..Bits : f[i] = IF i = 0 THEN 1 ELSE 2 * f[i - 1]
  BY <1>1, <1>2, <1>3
<1>5. P(f)
  BY <1>2, <1>3, <1>4
<1>6. TwoTo = CHOOSE g : P(g)
  BY DEF TwoTo
<1>. HIDE DEF P
<1>7. P(TwoTo)
  BY <1>5, <1>6
<1>. QED BY <1>2, <1>7 DEF P

(* The powers of two: the first is 1, none is zero, each doubles the last. *)
LEMMA PowersFacts ==
    /\ TwoTo[0] = 1
    /\ \A i \in 0..Bits : TwoTo[i] \in Nat \ {0}
    /\ \A i \in 0..(Bits - 1) : i + 1 \in 0..Bits /\ TwoTo[i + 1] = 2 * TwoTo[i]
<1>. DEFINE S == {i \in Nat : i \in 0..Bits => TwoTo[i] \in Nat \ {0}}
<1>1. Bits \in Nat /\ TwoTo[0] = 1
  BY PowersAre, CurveAssumption
<1>2. \A i \in 0..(Bits - 1) : i + 1 \in 0..Bits /\ TwoTo[i + 1] = 2 * TwoTo[i]
  <2>. SUFFICES ASSUME NEW i \in 0..(Bits - 1)
                PROVE  i + 1 \in 0..Bits /\ TwoTo[i + 1] = 2 * TwoTo[i]
    OBVIOUS
  <2>1. i + 1 \in 1..Bits /\ (i + 1) - 1 = i
    BY <1>1
  <2>. QED BY <2>1, PowersAre
<1>3. 0 \in S
  BY <1>1
<1>4. ASSUME NEW i \in Nat, i \in S PROVE i + 1 \in S
  BY <1>1, <1>2, <1>4
<1>. HIDE DEF S
<1>5. Nat \subseteq S
  BY <1>3, <1>4, NatClosure
<1>. QED BY <1>1, <1>2, <1>5 DEF S

(* Exponents add.                                                          *)
LEMMA PowersAdd ==
    ASSUME NEW i \in Nat
    PROVE  \A j \in Nat : i + j \in 0..Bits => TwoTo[i + j] = TwoTo[i] * TwoTo[j]
<1>. DEFINE S == {j \in Nat : i + j \in 0..Bits => TwoTo[i + j] = TwoTo[i] * TwoTo[j]}
<1>0. Bits \in Nat
  BY CurveAssumption
<1>1. 0 \in S
  <2>1. i \in 0..Bits => TwoTo[i] \in Nat
    BY PowersFacts
  <2>. QED BY <2>1, PowersFacts
<1>2. ASSUME NEW j \in Nat, j \in S PROVE j + 1 \in S
  <2>. SUFFICES ASSUME i + (j + 1) \in 0..Bits
                PROVE  TwoTo[i + (j + 1)] = TwoTo[i] * TwoTo[j + 1]
    OBVIOUS
  <2>1. /\ i + j \in 0..(Bits - 1) /\ i + (j + 1) = (i + j) + 1
        /\ j \in 0..(Bits - 1) /\ i \in 0..Bits
    BY <1>0
  <2>2. PICK a \in Nat, b \in Nat : a = TwoTo[i] /\ b = TwoTo[j]
    BY <2>1, <1>0, PowersFacts
  <2>3. TwoTo[i + j] = a * b
    BY <1>2, <2>1, <2>2, <1>0
  <2>4. TwoTo[i + (j + 1)] = 2 * (a * b) /\ TwoTo[j + 1] = 2 * b
    BY <2>1, <2>2, <2>3, PowersFacts
  <2>5. 2 * (a * b) = a * (2 * b)
    OBVIOUS
  <2>. QED BY <2>2, <2>4, <2>5
<1>. HIDE DEF S
<1>3. Nat \subseteq S
  BY <1>1, <1>2, NatClosure
<1>. QED BY <1>3 DEF S

(***************************************************************************)
(* Remainders.                                                             *)
(***************************************************************************)
(* Equal up to a multiple of n.                                            *)
Alike(n, a, b) == \E k \in Int : a = b + k * n

(* Division of any integer by a positive one.                              *)
LEMMA RemInt ==
    ASSUME NEW n \in Nat \ {0}, NEW a \in Int
    PROVE  a % n \in 0..(n - 1) /\ a % n \in Int /\ a \div n \in Int /\ a = (a % n) + (a \div n) * n
  OBVIOUS

(* Two remainders that differ by a multiple of the divisor are equal.      *)
LEMMA NoMultiple ==
    ASSUME NEW n \in Nat \ {0}, NEW k \in Int, NEW r \in 0..(n - 1), NEW s \in 0..(n - 1),
           r = s + k * n
    PROVE  r = s
<1>1. CASE k = 0
  BY <1>1
<1>2. CASE k >= 1
  <2>1. k * n >= n
    BY <1>2
  <2>. QED BY <2>1
<1>3. CASE k <= -1
  <2>1. k * n <= -n
    BY <1>3
  <2>. QED BY <2>1
<1>. QED BY <1>1, <1>2, <1>3

(* Equal remainders are a difference by a multiple of the divisor.         *)
LEMMA RemAlike ==
    ASSUME NEW n \in Nat \ {0}, NEW a \in Int, NEW b \in Int
    PROVE  a % n = b % n <=> Alike(n, a, b)
<1>1. PICK r \in 0..(n - 1), q \in Int : r = a % n /\ a = r + q * n
  BY RemInt
<1>2. PICK s \in 0..(n - 1), p \in Int : s = b % n /\ b = s + p * n
  BY RemInt
<1>3. ASSUME r = s PROVE Alike(n, a, b)
  <2>1. a = b + (q - p) * n
    BY <1>1, <1>2, <1>3
  <2>. QED BY <2>1 DEF Alike
<1>4. ASSUME Alike(n, a, b) PROVE r = s
  <2>1. PICK k \in Int : a = b + k * n
    BY <1>4 DEF Alike
  <2>2. r = s + (k + p - q) * n
    BY <2>1, <1>1, <1>2
  <2>. QED BY <2>2, NoMultiple
<1>. QED BY <1>1, <1>2, <1>3, <1>4

(* Sums, differences and products respect equality of remainders.          *)
LEMMA RemOps ==
    ASSUME NEW n \in Nat \ {0}, NEW a \in Int, NEW b \in Int, NEW c \in Int, NEW d \in Int,
           Rem(a, n) = Rem(b, n), Rem(c, n) = Rem(d, n)
    PROVE  /\ Rem(a + c, n) = Rem(b + d, n) /\ Rem(a - c, n) = Rem(b - d, n)
           /\ Rem(Mul(a, c), n) = Rem(Mul(b, d), n)
<1>0. a % n = b % n /\ c % n = d % n
  BY DEF Rem
<1>1. PICK k \in Int : a = b + k * n
  BY <1>0, RemAlike DEF Alike
<1>2. PICK l \in Int : c = d + l * n
  BY <1>0, RemAlike DEF Alike
<1>3. Alike(n, a + c, b + d)
  <2>1. a + c = (b + d) + (k + l) * n
    BY <1>1, <1>2
  <2>. QED BY <2>1 DEF Alike
<1>4. Alike(n, a - c, b - d)
  <2>1. a - c = (b - d) + (k - l) * n
    BY <1>1, <1>2
  <2>. QED BY <2>1 DEF Alike
<1>5. Alike(n, a * c, b * d)
  <2>1. (b + k * n) * (d + l * n) = b * d + (k * d + b * l + k * l * n) * n
    OBVIOUS
  <2>2. k * d + b * l + k * l * n \in Int
    OBVIOUS
  <2>. QED BY <1>1, <1>2, <2>1, <2>2 DEF Alike
<1>6. a + c \in Int /\ b + d \in Int /\ a - c \in Int /\ b - d \in Int
      /\ a * c \in Int /\ b * d \in Int
  OBVIOUS
<1>7. (a + c) % n = (b + d) % n /\ (a - c) % n = (b - d) % n
  BY <1>3, <1>4, <1>6, RemAlike
<1>8. (a * c) % n = (b * d) % n
  BY <1>5, <1>6, RemAlike
<1>. QED BY <1>7, <1>8 DEF Rem, Mul

(* A remainder is its own remainder.                                       *)
LEMMA RemRem ==
    ASSUME NEW n \in Nat \ {0}, NEW a \in Int
    PROVE  a % n \in Int /\ (a % n) % n = a % n
<1>1. PICK r \in 0..(n - 1), q \in Int : r = a % n /\ a = r + q * n
  BY RemInt
<1>2. r % n = a % n
  <2>1. Alike(n, a, r)
    BY <1>1 DEF Alike
  <2>. QED BY <2>1, <1>1, RemAlike
<1>. QED BY <1>1, <1>2

(***************************************************************************)
(* The field, and points of it.                                            *)
(***************************************************************************)
Elements == 0..(FieldP - 1)
Points == [x : Elements, y : Elements, z : Elements]

(* Reduction into the field (field arithmetic of curve.rs).                *)
LEMMA FpFacts ==
    /\ FieldP \in Nat \ {0}
    /\ \A a \in Int : Fp(a) \in Elements /\ Fp(a) \in Int /\ Fp(Fp(a)) = Fp(a)
    /\ \A a \in Elements : Fp(a) = a /\ a \in Int
<1>1. FieldP \in Nat \ {0}
  BY CurveAssumption
<1>2. ASSUME NEW a \in Int PROVE Fp(a) \in Elements /\ Fp(a) \in Int /\ Fp(Fp(a)) = Fp(a)
  BY <1>1, RemInt, RemRem DEF Fp, Elements
<1>3. ASSUME NEW a \in Elements PROVE Fp(a) = a /\ a \in Int
  <2>1. a \in 0..(FieldP - 1) /\ a \in Int
    BY <1>1 DEF Elements
  <2>2. a % FieldP \in 0..(FieldP - 1) /\ a \div FieldP \in Int
        /\ a = (a % FieldP) + (a \div FieldP) * FieldP
    BY <1>1, <2>1, RemInt
  <2>3. a = a % FieldP
    BY <1>1, <2>1, <2>2, NoMultiple
  <2>. QED BY <2>1, <2>3 DEF Fp
<1>. QED BY <1>1, <1>2, <1>3

(* The field operations respect reduction of their operands.               *)
LEMMA FpOps ==
    ASSUME NEW a \in Int, NEW b \in Int, NEW c \in Int, NEW d \in Int, Fp(a) = Fp(b), Fp(c) = Fp(d)
    PROVE  Fp(a + c) = Fp(b + d) /\ Fp(a - c) = Fp(b - d) /\ Fp(a * c) = Fp(b * d)
<1>1. FieldP \in Nat \ {0} /\ Rem(a, FieldP) = Rem(b, FieldP) /\ Rem(c, FieldP) = Rem(d, FieldP)
  BY FpFacts DEF Fp, Rem
<1>2. /\ Rem(a + c, FieldP) = Rem(b + d, FieldP) /\ Rem(a - c, FieldP) = Rem(b - d, FieldP)
      /\ Rem(Mul(a, c), FieldP) = Rem(Mul(b, d), FieldP)
  BY <1>1, RemOps
<1>. QED BY <1>2 DEF Fp, Rem, Mul

(* u is s times v in the field.                                            *)
IsTimes(s, u, v) == u \in Int /\ v \in Int /\ Fp(u) = Fp(s * v)

(* Sums and differences of multiples by one factor are multiples by it.    *)
LEMMA TimesSum ==
    ASSUME NEW s \in Int, NEW u, NEW v, NEW w, NEW x, IsTimes(s, u, v), IsTimes(s, w, x)
    PROVE  IsTimes(s, u + w, v + x) /\ IsTimes(s, u - w, v - x)
<1>1. s * v \in Int /\ s * x \in Int /\ u \in Int /\ v \in Int /\ w \in Int /\ x \in Int
  BY DEF IsTimes
<1>2. Fp(u + w) = Fp(s * v + s * x) /\ Fp(u - w) = Fp(s * v - s * x)
  BY <1>1, FpOps DEF IsTimes
<1>3. s * v + s * x = s * (v + x) /\ s * v - s * x = s * (v - x)
  BY <1>1
<1>. QED BY <1>1, <1>2, <1>3 DEF IsTimes

(* A constant may be multiplied into both sides.                           *)
LEMMA TimesConst ==
    ASSUME NEW s \in Int, NEW c \in Int, NEW u, NEW v, IsTimes(s, u, v)
    PROVE  IsTimes(s, c * u, c * v)
<1>1. s * v \in Int /\ u \in Int /\ v \in Int
  BY DEF IsTimes
<1>2. Fp(c * u) = Fp(c * (s * v))
  <2>1. PICK w \in Int : w = s * v
    BY <1>1
  <2>2. Fp(u) = Fp(w) /\ Fp(c) \in Int
    BY <2>1, FpFacts DEF IsTimes
  <2>3. Fp(c * u) = Fp(c * w)
    BY <1>1, <2>2, FpOps
  <2>. QED BY <2>1, <2>3
<1>3. c * (s * v) = s * (c * v)
  BY <1>1
<1>. QED BY <1>1, <1>2, <1>3 DEF IsTimes

(* Both sides may be reduced.                                              *)
LEMMA TimesFp ==
    ASSUME NEW s \in Int, NEW u, NEW v, IsTimes(s, u, v)
    PROVE  IsTimes(s, Fp(u), Fp(v)) /\ IsTimes(s, u, Fp(v))
<1>1. u \in Int /\ v \in Int /\ Fp(u) \in Int /\ Fp(v) \in Int
  BY FpFacts DEF IsTimes
<1>2. Fp(s * v) = Fp(s * Fp(v))
  BY <1>1, FpFacts, FpOps
<1>. QED BY <1>1, <1>2, FpFacts DEF IsTimes

(* A product of multiples is a multiple by the product of the factors.     *)
LEMMA TimesProduct ==
    ASSUME NEW s \in Int, NEW t \in Int, NEW u, NEW v, NEW w, NEW x, IsTimes(s, u, v), IsTimes(t, w, x)
    PROVE  IsTimes(s * t, u * w, v * x)
<1>1. s * v \in Int /\ t * x \in Int /\ u \in Int /\ v \in Int /\ w \in Int /\ x \in Int
  BY DEF IsTimes
<1>2. Fp(u * w) = Fp((s * v) * (t * x))
  BY <1>1, FpOps DEF IsTimes
<1>3. (s * v) * (t * x) = (s * t) * (v * x)
  BY <1>1
<1>. QED BY <1>1, <1>2, <1>3 DEF IsTimes

(* q is r with every coordinate multiplied by s.                           *)
ScaledBy(s, q, r) == IsTimes(s, q.x, r.x) /\ IsTimes(s, q.y, r.y) /\ IsTimes(s, q.z, r.z)

(* A point built from multiplied coordinates is the multiplied point.      *)
LEMMA PointTimes ==
    ASSUME NEW s \in Int, NEW u, NEW v, NEW w, NEW a, NEW b, NEW c,
           IsTimes(s, u, a), IsTimes(s, v, b), IsTimes(s, w, c)
    PROVE  ScaledBy(s, Point(u, v, w), Point(a, b, c))
BY TimesFp DEF ScaledBy, Point

(* The complete addition is homogeneous: scaled operands give a scaled     *)
(* sum, so the result stands for the same point.                           *)
LEMMA AddScales ==
    ASSUME NEW s \in Int, NEW t \in Int, NEW q, NEW r, NEW u, NEW v,
           ScaledBy(s, u, q), ScaledBy(t, v, r)
    PROVE  ScaledBy((s * t) * (s * t), Add(u, v), Add(q, r))
<1>. DEFINE xx(a, b) == Fp(a.x * b.x)
            yy(a, b) == Fp(a.y * b.y)
            zz(a, b) == Fp(a.z * b.z)
            xy(a, b) == (a.x + a.y) * (b.x + b.y) - (xx(a, b) + yy(a, b))
            yz(a, b) == (a.y + a.z) * (b.y + b.z) - (yy(a, b) + zz(a, b))
            xz(a, b) == Fp((a.x + a.z) * (b.x + b.z) - (xx(a, b) + zz(a, b)))
            bzz3(a, b) == 3 * (xz(a, b) - CurveB * zz(a, b))
            minus(a, b) == Fp(yy(a, b) - bzz3(a, b))
            plus(a, b) == Fp(yy(a, b) + bzz3(a, b))
            bxz3(a, b) == Fp(3 * (CurveB * xz(a, b) - (3 * zz(a, b) + xx(a, b))))
            xx3(a, b) == Fp(3 * xx(a, b) - 3 * zz(a, b))
<1>1. ASSUME NEW a, NEW b
      PROVE  Add(a, b) = Point(plus(a, b) * Fp(xy(a, b)) - Fp(yz(a, b)) * bxz3(a, b),
                               plus(a, b) * minus(a, b) + xx3(a, b) * bxz3(a, b),
                               minus(a, b) * Fp(yz(a, b)) + Fp(xy(a, b)) * xx3(a, b))
  BY DEF Add
<1>2. s * t \in Int /\ 3 \in Int /\ CurveB \in Int
  BY CurveAssumption
<1>3. /\ IsTimes(s, u.x, q.x) /\ IsTimes(s, u.y, q.y) /\ IsTimes(s, u.z, q.z)
      /\ IsTimes(t, v.x, r.x) /\ IsTimes(t, v.y, r.y) /\ IsTimes(t, v.z, r.z)
  BY DEF ScaledBy
<1>4. IsTimes(s * t, xx(u, v), xx(q, r))
  BY <1>2, <1>3, TimesProduct, TimesFp
<1>5. IsTimes(s * t, yy(u, v), yy(q, r))
  BY <1>2, <1>3, TimesProduct, TimesFp
<1>6. IsTimes(s * t, zz(u, v), zz(q, r))
  BY <1>2, <1>3, TimesProduct, TimesFp
<1>. HIDE DEF xx, yy, zz
<1>7. IsTimes(s * t, xy(u, v), xy(q, r))
  <2>1. IsTimes(s, u.x + u.y, q.x + q.y) /\ IsTimes(t, v.x + v.y, r.x + r.y)
    BY <1>3, TimesSum
  <2>2. IsTimes(s * t, (u.x + u.y) * (v.x + v.y), (q.x + q.y) * (r.x + r.y))
    BY <2>1, TimesProduct
  <2>3. IsTimes(s * t, xx(u, v) + yy(u, v), xx(q, r) + yy(q, r))
    BY <1>2, <1>4, <1>5, TimesSum
  <2>. QED BY <1>2, <2>2, <2>3, TimesSum
<1>8. IsTimes(s * t, yz(u, v), yz(q, r))
  <2>1. IsTimes(s, u.y + u.z, q.y + q.z) /\ IsTimes(t, v.y + v.z, r.y + r.z)
    BY <1>3, TimesSum
  <2>2. IsTimes(s * t, (u.y + u.z) * (v.y + v.z), (q.y + q.z) * (r.y + r.z))
    BY <2>1, TimesProduct
  <2>3. IsTimes(s * t, yy(u, v) + zz(u, v), yy(q, r) + zz(q, r))
    BY <1>2, <1>5, <1>6, TimesSum
  <2>. QED BY <1>2, <2>2, <2>3, TimesSum
<1>9. IsTimes(s * t, xz(u, v), xz(q, r))
  <2>1. IsTimes(s, u.x + u.z, q.x + q.z) /\ IsTimes(t, v.x + v.z, r.x + r.z)
    BY <1>3, TimesSum
  <2>2. IsTimes(s * t, (u.x + u.z) * (v.x + v.z), (q.x + q.z) * (r.x + r.z))
    BY <2>1, TimesProduct
  <2>3. IsTimes(s * t, xx(u, v) + zz(u, v), xx(q, r) + zz(q, r))
    BY <1>2, <1>4, <1>6, TimesSum
  <2>. QED BY <1>2, <2>2, <2>3, TimesSum, TimesFp
<1>. HIDE DEF xy, yz, xz
<1>10. IsTimes(s * t, bzz3(u, v), bzz3(q, r))
  BY <1>2, <1>6, <1>9, TimesConst, TimesSum
<1>. HIDE DEF bzz3
<1>11. IsTimes(s * t, minus(u, v), minus(q, r)) /\ IsTimes(s * t, plus(u, v), plus(q, r))
  BY <1>2, <1>5, <1>10, TimesSum, TimesFp
<1>12. IsTimes(s * t, bxz3(u, v), bxz3(q, r))
  <2>1. IsTimes(s * t, 3 * zz(u, v) + xx(u, v), 3 * zz(q, r) + xx(q, r))
    BY <1>2, <1>4, <1>6, TimesConst, TimesSum
  <2>2. IsTimes(s * t, CurveB * xz(u, v), CurveB * xz(q, r))
    BY <1>2, <1>9, TimesConst
  <2>. QED BY <1>2, <2>1, <2>2, TimesConst, TimesSum, TimesFp
<1>13. IsTimes(s * t, xx3(u, v), xx3(q, r))
  BY <1>2, <1>4, <1>6, TimesConst, TimesSum, TimesFp
<1>14. IsTimes(s * t, Fp(xy(u, v)), Fp(xy(q, r))) /\ IsTimes(s * t, Fp(yz(u, v)), Fp(yz(q, r)))
  BY <1>2, <1>7, <1>8, TimesFp
<1>. DEFINE m == s * t  fxy(a, b) == Fp(xy(a, b))  fyz(a, b) == Fp(yz(a, b))
<1>15. /\ m \in Int /\ m * m \in Int
       /\ IsTimes(m, minus(u, v), minus(q, r)) /\ IsTimes(m, plus(u, v), plus(q, r))
       /\ IsTimes(m, bxz3(u, v), bxz3(q, r)) /\ IsTimes(m, xx3(u, v), xx3(q, r))
       /\ IsTimes(m, fxy(u, v), fxy(q, r)) /\ IsTimes(m, fyz(u, v), fyz(q, r))
  BY <1>2, <1>11, <1>12, <1>13, <1>14
<1>16. ASSUME NEW a, NEW b
       PROVE  Add(a, b) = Point(plus(a, b) * fxy(a, b) - fyz(a, b) * bxz3(a, b),
                               plus(a, b) * minus(a, b) + xx3(a, b) * bxz3(a, b),
                               minus(a, b) * fyz(a, b) + fxy(a, b) * xx3(a, b))
  BY <1>1
<1>. HIDE DEF minus, plus, bxz3, xx3, fxy, fyz, m
<1>17. IsTimes(m * m, plus(u, v) * fxy(u, v) - fyz(u, v) * bxz3(u, v),
                    plus(q, r) * fxy(q, r) - fyz(q, r) * bxz3(q, r))
  BY <1>15, TimesProduct, TimesSum
<1>18. IsTimes(m * m, plus(u, v) * minus(u, v) + xx3(u, v) * bxz3(u, v),
                    plus(q, r) * minus(q, r) + xx3(q, r) * bxz3(q, r))
  BY <1>15, TimesProduct, TimesSum
<1>19. IsTimes(m * m, minus(u, v) * fyz(u, v) + fxy(u, v) * xx3(u, v),
                    minus(q, r) * fyz(q, r) + fxy(q, r) * xx3(q, r))
  BY <1>15, TimesProduct, TimesSum
<1>20. ScaledBy(m * m, Add(u, v), Add(q, r))
  BY <1>15, <1>16, <1>17, <1>18, <1>19, PointTimes
<1>. QED BY <1>20 DEF m

(***************************************************************************)
(* Equality in the field, and the curve.                                   *)
(***************************************************************************)
(* Equal in the field.                                                     *)
Equal(u, v) == u \in Int /\ v \in Int /\ Fp(u) = Fp(v)

(* Equality in the field is a congruence.                                  *)
LEMMA EqualFacts ==
    ASSUME NEW u, NEW v, NEW w, NEW x, Equal(u, v), Equal(w, x)
    PROVE  /\ Equal(u + w, v + x) /\ Equal(u - w, v - x) /\ Equal(u * w, v * x)
           /\ Equal(Fp(u), v) /\ Equal(v, u) /\ Equal(u, u)
<1>1. u \in Int /\ v \in Int /\ w \in Int /\ x \in Int /\ Fp(u) = Fp(v) /\ Fp(w) = Fp(x)
  BY DEF Equal
<1>2. Fp(u + w) = Fp(v + x) /\ Fp(u - w) = Fp(v - x) /\ Fp(u * w) = Fp(v * x)
  BY <1>1, FpOps
<1>3. u * w \in Int /\ v * x \in Int /\ u + w \in Int /\ v + x \in Int /\ u - w \in Int /\ v - x \in Int
  BY <1>1
<1>. QED BY <1>1, <1>2, <1>3, FpFacts DEF Equal

(* A reduced value equals the value.                                       *)
LEMMA EqualFp ==
    ASSUME NEW u, NEW v, Equal(u, v)
    PROVE  Equal(Fp(u), v)
BY EqualFacts

(* q satisfies the equation of the curve, in projective coordinates.       *)
OnCubic(q) ==
    Equal(q.x * q.x * q.x - 3 * q.x * q.z * q.z + CurveB * q.z * q.z * q.z - q.y * q.y * q.z, 0)

(* Doubling is adding a point to itself, by cheaper formulas: on the curve *)
(* the two agree in every coordinate.                                      *)
LEMMA DoubleIsAdd ==
    ASSUME NEW q \in Points, OnCubic(q)
    PROVE  Double(q) = Add(q, q)
<1>1. PICK x \in Int, y \in Int, z \in Int : q.x = x /\ q.y = y /\ q.z = z
  BY FpFacts DEF Points
<1>2. PICK b \in Int : b = CurveB
  BY CurveAssumption
<1>. DEFINE XX == x * x  YY == y * y  ZZ == z * z  XY == 2 * x * y  XZ == 2 * x * z  YZ == 2 * y * z
            BZ == 3 * (XZ - b * ZZ)
            BX == 3 * (b * XZ - (3 * ZZ + XX))
            X3 == 3 * XX - 3 * ZZ
            C == x * x * x - 3 * x * z * z + b * z * z * z - y * y * z
<1>3. /\ XX \in Int /\ YY \in Int /\ ZZ \in Int /\ XY \in Int /\ XZ \in Int /\ YZ \in Int
      /\ BZ \in Int /\ BX \in Int /\ X3 \in Int /\ C \in Int
  OBVIOUS
<1>4. Equal(C, 0)
  BY <1>1, <1>2 DEF OnCubic
<1>5. (YY - BZ) * YZ + XY * X3 = 4 * YZ * YY + (6 * y) * C
  OBVIOUS
<1>6. /\ (x + y) * (x + y) - (XX + YY) = XY
      /\ (x + z) * (x + z) - (XX + ZZ) = XZ
      /\ (y + z) * (y + z) - (YY + ZZ) = YZ
      /\ 3 * (b * ZZ - XZ) = -BZ
  OBVIOUS
<1>7. \A i \in Int : Equal(i, i) /\ Equal(Fp(i), i)
  BY FpFacts DEF Equal
<1>8. /\ Equal(Fp(x * x), XX) /\ Equal(Fp(y * y), YY) /\ Equal(Fp(z * z), ZZ)
      /\ Equal(Fp(2 * x * y), XY) /\ Equal(Fp(2 * x * z), XZ) /\ Equal(Fp(2 * y * z), YZ)
  BY <1>3, <1>7
<1>. DEFINE xx == Fp(x * x)  yy == Fp(y * y)  zz == Fp(z * z)
            xy == (x + y) * (x + y) - (xx + yy)
            yz == (y + z) * (y + z) - (yy + zz)
            xz == Fp((x + z) * (x + z) - (xx + zz))
            bzz3 == 3 * (xz - b * zz)
            minus == Fp(yy - bzz3)
            plus == Fp(yy + bzz3)
            bxz3 == Fp(3 * (b * xz - (3 * zz + xx)))
            xx3 == Fp(3 * xx - 3 * zz)
            xy2 == Fp(2 * x * y)
            xz2 == Fp(2 * x * z)
            yz2 == Fp(2 * y * z)
            dbzz3 == 3 * (b * zz - xz2)
            dminus == Fp(yy - dbzz3)
            dplus == Fp(yy + dbzz3)
            bxz6 == Fp(3 * (b * xz2 - (3 * zz + xx)))
<1>9. Add(q, q) = Point(plus * Fp(xy) - Fp(yz) * bxz3, plus * minus + xx3 * bxz3,
                        minus * Fp(yz) + Fp(xy) * xx3)
  BY <1>1, <1>2 DEF Add
<1>10. Double(q) = Point(dminus * xy2 - bxz6 * yz2, dplus * dminus + xx3 * bxz6, 4 * yz2 * yy)
  BY <1>1, <1>2 DEF Double
<1>. HIDE DEF XX, YY, ZZ, XY, XZ, YZ
<1>11. Equal(xx, XX) /\ Equal(yy, YY) /\ Equal(zz, ZZ) /\ Equal(xy2, XY) /\ Equal(xz2, XZ) /\ Equal(yz2, YZ)
  BY <1>8
<1>. HIDE DEF xx, yy, zz, xy2, xz2, yz2
<1>12. Equal(xy, XY) /\ Equal(xz, XZ) /\ Equal(yz, YZ)
  <2>1. /\ Equal((x + y) * (x + y), (x + y) * (x + y))
        /\ Equal((x + z) * (x + z), (x + z) * (x + z))
        /\ Equal((y + z) * (y + z), (y + z) * (y + z))
    <3>1. (x + y) * (x + y) \in Int /\ (x + z) * (x + z) \in Int /\ (y + z) * (y + z) \in Int
      OBVIOUS
    <3>. QED BY <3>1, <1>7
  <2>2. Equal(xx + yy, XX + YY) /\ Equal(xx + zz, XX + ZZ) /\ Equal(yy + zz, YY + ZZ)
    BY <1>11, EqualFacts
  <2>. DEFINE sxy == (x + y) * (x + y)  sxz == (x + z) * (x + z)  syz == (y + z) * (y + z)
  <2>3. Equal(sxy, sxy) /\ Equal(sxz, sxz) /\ Equal(syz, syz)
    BY <2>1
  <2>4. xy = sxy - (xx + yy) /\ xz = Fp(sxz - (xx + zz)) /\ yz = syz - (yy + zz)
    OBVIOUS
  <2>5. sxy - (XX + YY) = XY /\ sxz - (XX + ZZ) = XZ /\ syz - (YY + ZZ) = YZ
    BY <1>6
  <2>. HIDE DEF sxy, sxz, syz, xy, xz, yz
  <2>. QED BY <2>2, <2>3, <2>4, <2>5, EqualFacts
<1>. HIDE DEF xy, xz, yz, C
<1>13. Equal(3, 3) /\ Equal(4, 4) /\ Equal(b, b)
  BY <1>7
<1>14. Equal(bzz3, BZ) /\ Equal(dbzz3, -BZ)
  <2>1. Equal(b * zz, b * ZZ)
    BY <1>11, <1>13, EqualFacts
  <2>2. Equal(xz - b * zz, XZ - b * ZZ) /\ Equal(b * zz - xz2, b * ZZ - XZ)
    BY <2>1, <1>11, <1>12, EqualFacts
  <2>3. Equal(bzz3, 3 * (XZ - b * ZZ)) /\ Equal(dbzz3, 3 * (b * ZZ - XZ))
    BY <2>2, <1>13, EqualFacts
  <2>. QED BY <2>3, <1>6
<1>15. Equal(bxz3, BX) /\ Equal(bxz6, BX)
  <2>1. Equal(b * xz, b * XZ) /\ Equal(b * xz2, b * XZ) /\ Equal(3 * zz, 3 * ZZ)
    BY <1>11, <1>12, <1>13, EqualFacts
  <2>2. Equal(3 * zz + xx, 3 * ZZ + XX)
    BY <2>1, <1>11, EqualFacts
  <2>3. Equal(b * xz - (3 * zz + xx), b * XZ - (3 * ZZ + XX))
        /\ Equal(b * xz2 - (3 * zz + xx), b * XZ - (3 * ZZ + XX))
    BY <2>1, <2>2, EqualFacts
  <2>4. Equal(3 * (b * xz - (3 * zz + xx)), BX) /\ Equal(3 * (b * xz2 - (3 * zz + xx)), BX)
    BY <2>3, <1>13, EqualFacts
  <2>5. Equal(Fp(3 * (b * xz - (3 * zz + xx))), BX) /\ Equal(Fp(3 * (b * xz2 - (3 * zz + xx))), BX)
    BY <2>4, EqualFp, Zenon
  <2>. QED BY <2>5
<1>16. Equal(xx3, X3)
  <2>1. Equal(3 * zz, 3 * ZZ) /\ Equal(3 * xx, 3 * XX)
    BY <1>11, <1>13, EqualFacts
  <2>2. Equal(3 * xx - 3 * zz, 3 * XX - 3 * ZZ)
    BY <2>1, EqualFacts
  <2>3. Equal(Fp(3 * xx - 3 * zz), 3 * XX - 3 * ZZ)
    BY <2>2, EqualFp, Zenon
  <2>. QED BY <2>3
<1>. HIDE DEF BZ, BX, X3, bzz3, dbzz3, bxz3, bxz6, xx3
<1>17. Equal(minus, YY - BZ) /\ Equal(plus, YY + BZ)
  BY <1>11, <1>14, EqualFacts
<1>18. Equal(dminus, YY + BZ) /\ Equal(dplus, YY - BZ)
  <2>1. YY - (-BZ) = YY + BZ /\ YY + (-BZ) = YY - BZ
    BY <1>3
  <2>2. Equal(dminus, YY - (-BZ)) /\ Equal(dplus, YY + (-BZ))
    BY <1>11, <1>14, EqualFacts
  <2>. QED BY <2>1, <2>2
<1>. DEFINE P == YY + BZ  M == YY - BZ  fxy == Fp(xy)  fyz == Fp(yz)
<1>19. /\ Equal(minus, M) /\ Equal(plus, P) /\ Equal(dminus, P) /\ Equal(dplus, M)
       /\ Equal(fxy, XY) /\ Equal(fyz, YZ)
  BY <1>12, <1>17, <1>18, EqualFacts
<1>20. M * YZ + XY * X3 = 4 * YZ * YY + (6 * y) * C /\ P \in Int /\ M \in Int
  BY <1>3, <1>5
<1>21. Add(q, q) = Point(plus * fxy - fyz * bxz3, plus * minus + xx3 * bxz3, minus * fyz + fxy * xx3)
  BY <1>9
<1>. HIDE DEF P, M, fxy, fyz, minus, plus, dminus, dplus
<1>22. Equal(plus * fxy - fyz * bxz3, dminus * xy2 - bxz6 * yz2)
  <2>1. Equal(plus * fxy, P * XY) /\ Equal(fyz * bxz3, YZ * BX)
    BY <1>19, <1>15, EqualFacts
  <2>2. Equal(plus * fxy - fyz * bxz3, P * XY - YZ * BX)
    BY <2>1, EqualFacts
  <2>3. Equal(dminus * xy2, P * XY) /\ Equal(bxz6 * yz2, BX * YZ)
    BY <1>11, <1>19, <1>15, EqualFacts
  <2>4. Equal(dminus * xy2 - bxz6 * yz2, P * XY - BX * YZ) /\ BX * YZ = YZ * BX
    BY <1>3, <2>3, EqualFacts
  <2>. QED BY <2>2, <2>4 DEF Equal
<1>23. Equal(plus * minus + xx3 * bxz3, dplus * dminus + xx3 * bxz6)
  <2>1. Equal(plus * minus, P * M) /\ Equal(xx3 * bxz3, X3 * BX)
    BY <1>19, <1>15, <1>16, EqualFacts
  <2>2. Equal(plus * minus + xx3 * bxz3, P * M + X3 * BX)
    BY <2>1, EqualFacts
  <2>3. Equal(dplus * dminus, M * P) /\ Equal(xx3 * bxz6, X3 * BX)
    BY <1>19, <1>15, <1>16, EqualFacts
  <2>4. Equal(dplus * dminus + xx3 * bxz6, M * P + X3 * BX) /\ M * P = P * M
    BY <1>20, <2>3, EqualFacts
  <2>. QED BY <2>2, <2>4 DEF Equal
<1>24. Equal(minus * fyz + fxy * xx3, 4 * yz2 * yy)
  <2>1. Equal(minus * fyz, M * YZ) /\ Equal(fxy * xx3, XY * X3)
    BY <1>19, <1>16, EqualFacts
  <2>2. Equal(minus * fyz + fxy * xx3, M * YZ + XY * X3)
    BY <2>1, EqualFacts
  <2>3. Equal(4 * yz2, 4 * YZ)
    BY <1>11, <1>13, EqualFacts
  <2>4. Equal(4 * yz2 * yy, 4 * YZ * YY)
    BY <1>11, <2>3, EqualFacts
  <2>5. Equal((6 * y) * C, (6 * y) * 0)
    <3>1. Equal(6 * y, 6 * y)
      BY <1>7
    <3>. QED BY <1>4, <3>1, EqualFacts
  <2>6. Equal(4 * YZ * YY + (6 * y) * C, 4 * yz2 * yy + (6 * y) * 0)
    BY <2>4, <2>5, EqualFacts
  <2>7. 4 * yz2 * yy + (6 * y) * 0 = 4 * yz2 * yy
    BY <2>4 DEF Equal
  <2>. QED BY <2>2, <2>6, <2>7, <1>20 DEF Equal
<1>. QED BY <1>10, <1>21, <1>22, <1>23, <1>24 DEF Equal, Point

(***************************************************************************)
(* The elements of the field, and the points.                              *)
(***************************************************************************)
(* Elements other than zero have an inverse (GroupAssumption).             *)
LEMMA Inverses ==
    ASSUME NEW a \in Elements, a # 0
    PROVE  FpInverse[a] \in Int /\ Fp(a * FpInverse[a]) = 1
<1>1. a \in 1..(FieldP - 1)
  BY FpFacts DEF Elements
<1>2. \E i \in 1..(FieldP - 1) : Fp(a * i) = 1
  BY <1>1, GroupAssumption
<1>3. FpInverse[a] = CHOOSE i \in 1..(FieldP - 1) : Fp(a * i) = 1
  BY <1>1 DEF FpInverse
<1>. QED BY <1>2, <1>3

(* No two non-zero values have the product zero in the field.              *)
LEMMA NonZeroProduct ==
    ASSUME NEW a \in Int, NEW b \in Int, Fp(a) # 0, Fp(b) # 0
    PROVE  Fp(a * b) # 0
<1>. SUFFICES ASSUME Fp(a * b) = 0 PROVE FALSE
  OBVIOUS
<1>1. PICK i \in Int : Fp(Fp(a) * i) = 1
  BY FpFacts, Inverses
<1>2. Equal(a, Fp(a)) /\ Equal(i, i) /\ Equal(b, b)
  BY FpFacts DEF Equal
<1>3. Equal(a * i, Fp(a) * i)
  BY <1>2, EqualFacts
<1>4. Equal((a * i) * b, (Fp(a) * i) * b)
  BY <1>2, <1>3, EqualFacts
<1>5. Equal(Fp(a) * i, 1)
  <2>1. Fp(1) = 1 /\ Fp(a) * i \in Int
    <3>1. Fp(a) \in Int /\ Fp(a) * i \in Int
      BY FpFacts
    <3>. QED BY <1>1, <3>1, FpFacts
  <2>. QED BY <1>1, <2>1 DEF Equal
<1>6. Equal((Fp(a) * i) * b, 1 * b)
  BY <1>2, <1>5, EqualFacts
<1>7. Equal(a * b, 0)
  BY FpFacts DEF Equal, Elements
<1>8. Equal((a * b) * i, 0 * i)
  BY <1>2, <1>7, EqualFacts
<1>9. (a * b) * i = (a * i) * b /\ 0 * i = 0 /\ 1 * b = b
  OBVIOUS
<1>10. Equal(b, 0)
  BY <1>4, <1>6, <1>8, <1>9 DEF Equal
<1>. QED BY <1>10, FpFacts DEF Equal, Elements

(* A point made of integers is one of the Points.                          *)
LEMMA PointFacts ==
    ASSUME NEW u \in Int, NEW v \in Int, NEW w \in Int
    PROVE  Point(u, v, w) \in Points
BY FpFacts DEF Point, Points

(* What is in an affine point.                                             *)
LEMMA AffineFacts ==
    /\ NoAffine \in AllPoints /\ AffinePoints \subseteq AllPoints
    /\ \A c \in AffinePoints : /\ c # NoAffine /\ c = <<c[1], c[2]>>
                              /\ c[1] \in Elements /\ c[2] \in Elements
                              /\ c[1] \in Int /\ c[2] \in Int
                              /\ OnCurve(c[1], c[2])
    /\ \A c \in AllPoints : c # NoAffine => c \in AffinePoints
<1>1. \A x, y : <<x, y>> # <<>>
  OBVIOUS
<1>2. ASSUME NEW c \in AffinePoints
      PROVE  /\ c # NoAffine /\ c = <<c[1], c[2]>>
             /\ c[1] \in Elements /\ c[2] \in Elements
             /\ OnCurve(c[1], c[2])
  BY <1>1 DEF AffinePoints, NoAffine, Elements
<1>. QED BY <1>2, FpFacts DEF AllPoints

(***************************************************************************)
(* The code's addition and the line through two points.  With affine       *)
(* operands the sum is a multiple of the reflected third point of the line.*)
(***************************************************************************)
(* The coordinates of a sum by the complete formulas, from the products    *)
(* and mixed sums of the operands' coordinates.                            *)
SumBZ(w, k, b) == 3 * (k - b * w)
SumBX(p, w, k, b) == 3 * (b * k - (3 * w + p))
SumXX(p, w) == 3 * p - 3 * w
SumX(p, v, w, f, g, k, b) == (v + SumBZ(w, k, b)) * f - g * SumBX(p, w, k, b)
SumY(p, v, w, f, g, k, b) ==
    (v + SumBZ(w, k, b)) * (v - SumBZ(w, k, b)) + SumXX(p, w) * SumBX(p, w, k, b)
SumZ(p, v, w, f, g, k, b) == (v - SumBZ(w, k, b)) * g + f * SumXX(p, w)

(* Equality in the field is an equivalence that reduction respects.        *)
LEMMA EqualSelf ==
    /\ \A a \in Int : Equal(a, a) /\ Equal(Fp(a), a) /\ Equal(a, Fp(a))
    /\ \A a, b, c : Equal(a, b) /\ Equal(b, c) => Equal(a, c)
    /\ \A a, b : Equal(a, b) => Equal(b, a) /\ Equal(Fp(a), b) /\ a \in Int /\ b \in Int
BY FpFacts DEF Equal

(* What the code's addition computes, with any values equal in the field   *)
(* for those it works from.                                                *)
LEMMA AddAt ==
    ASSUME NEW q \in Points, NEW r \in Points, NEW p, NEW v, NEW w, NEW f, NEW g, NEW k, NEW b,
           Equal(q.x * r.x, p), Equal(q.y * r.y, v), Equal(q.z * r.z, w),
           Equal(q.x * r.y + q.y * r.x, f), Equal(q.y * r.z + q.z * r.y, g),
           Equal(q.x * r.z + q.z * r.x, k), Equal(CurveB, b)
    PROVE  /\ Add(q, r) = Point(SumX(p, v, w, f, g, k, b), SumY(p, v, w, f, g, k, b),
                                SumZ(p, v, w, f, g, k, b))
           /\ SumX(p, v, w, f, g, k, b) \in Int /\ SumY(p, v, w, f, g, k, b) \in Int
           /\ SumZ(p, v, w, f, g, k, b) \in Int
<1>1. /\ q.x \in Int /\ q.y \in Int /\ q.z \in Int /\ r.x \in Int /\ r.y \in Int /\ r.z \in Int
  BY FpFacts DEF Points
<1>. DEFINE mx == q.x * r.x  my == q.y * r.y  mz == q.z * r.z
            cf == q.x * r.y + q.y * r.x  cg == q.y * r.z + q.z * r.y  ck == q.x * r.z + q.z * r.x
<1>2. /\ Equal(mx, p) /\ Equal(my, v) /\ Equal(mz, w) /\ Equal(cf, f) /\ Equal(cg, g) /\ Equal(ck, k)
  OBVIOUS
<1>. DEFINE xx == Fp(mx)  yy == Fp(my)  zz == Fp(mz)
            sxy == (q.x + q.y) * (r.x + r.y)  syz == (q.y + q.z) * (r.y + r.z)
            sxz == (q.x + q.z) * (r.x + r.z)
<1>3. /\ sxy = (mx + my) + cf /\ syz = (my + mz) + cg /\ sxz = (mx + mz) + ck
  BY <1>1
<1>. DEFINE xy == Fp(sxy - (xx + yy))  yz == Fp(syz - (yy + zz))  xz == Fp(sxz - (xx + zz))
            bzz3 == 3 * (xz - CurveB * zz)
            minus == Fp(yy - bzz3)
            plus == Fp(yy + bzz3)
            bxz3 == Fp(3 * (CurveB * xz - (3 * zz + xx)))
            xx3 == Fp(3 * xx - 3 * zz)
<1>4. Add(q, r) = Point(plus * xy - yz * bxz3, plus * minus + xx3 * bxz3, minus * yz + xy * xx3)
  BY DEF Add
<1>. HIDE DEF mx, my, mz, cf, cg, ck
<1>5. Equal(xx, p) /\ Equal(yy, v) /\ Equal(zz, w) /\ Equal(xx, mx) /\ Equal(yy, my) /\ Equal(zz, mz)
  BY <1>2, EqualSelf
<1>. HIDE DEF xx, yy, zz, sxy, syz, sxz
<1>6. Equal(xy, f) /\ Equal(yz, g) /\ Equal(xz, k)
  <2>1. /\ mx \in Int /\ my \in Int /\ mz \in Int /\ cf \in Int /\ cg \in Int /\ ck \in Int
    BY <1>2, EqualSelf
  <2>2. /\ Equal(sxy, (mx + my) + cf) /\ Equal(syz, (my + mz) + cg) /\ Equal(sxz, (mx + mz) + ck)
    <3>1. (mx + my) + cf \in Int /\ (my + mz) + cg \in Int /\ (mx + mz) + ck \in Int
      BY <2>1
    <3>. QED BY <3>1, <1>3, EqualSelf
  <2>3. Equal(xx + yy, mx + my) /\ Equal(yy + zz, my + mz) /\ Equal(xx + zz, mx + mz)
    BY <1>5, EqualFacts
  <2>4. /\ Equal(sxy - (xx + yy), ((mx + my) + cf) - (mx + my))
        /\ Equal(syz - (yy + zz), ((my + mz) + cg) - (my + mz))
        /\ Equal(sxz - (xx + zz), ((mx + mz) + ck) - (mx + mz))
    BY <2>2, <2>3, EqualFacts
  <2>5. /\ ((mx + my) + cf) - (mx + my) = cf /\ ((my + mz) + cg) - (my + mz) = cg
        /\ ((mx + mz) + ck) - (mx + mz) = ck
    BY <2>1
  <2>. QED BY <2>4, <2>5, <1>2, EqualSelf
<1>. HIDE DEF xy, yz, xz
<1>7. Equal(3, 3) /\ Equal(CurveB, b)
  BY EqualSelf
<1>8. Equal(bzz3, SumBZ(w, k, b))
  <2>1. Equal(CurveB * zz, b * w)
    BY <1>5, <1>7, EqualFacts
  <2>2. Equal(xz - CurveB * zz, k - b * w)
    BY <2>1, <1>6, EqualFacts
  <2>. QED BY <2>2, <1>7, EqualFacts DEF SumBZ
<1>9. Equal(bxz3, SumBX(p, w, k, b))
  <2>1. Equal(CurveB * xz, b * k) /\ Equal(3 * zz, 3 * w)
    BY <1>5, <1>6, <1>7, EqualFacts
  <2>2. Equal(3 * zz + xx, 3 * w + p)
    BY <2>1, <1>5, EqualFacts
  <2>3. Equal(CurveB * xz - (3 * zz + xx), b * k - (3 * w + p))
    BY <2>1, <2>2, EqualFacts
  <2>4. Equal(3 * (CurveB * xz - (3 * zz + xx)), 3 * (b * k - (3 * w + p)))
    BY <2>3, <1>7, EqualFacts
  <2>. QED BY <2>4, EqualFp, Zenon DEF SumBX
<1>10. Equal(xx3, SumXX(p, w))
  <2>1. Equal(3 * xx, 3 * p) /\ Equal(3 * zz, 3 * w)
    BY <1>5, <1>7, EqualFacts
  <2>2. Equal(3 * xx - 3 * zz, 3 * p - 3 * w)
    BY <2>1, EqualFacts
  <2>. QED BY <2>2, EqualFp, Zenon DEF SumXX
<1>. DEFINE BZ == SumBZ(w, k, b)  BX == SumBX(p, w, k, b)  XX == SumXX(p, w)
<1>11. Equal(bzz3, BZ) /\ Equal(bxz3, BX) /\ Equal(xx3, XX)
  BY <1>8, <1>9, <1>10
<1>12. /\ SumX(p, v, w, f, g, k, b) = (v + BZ) * f - g * BX
       /\ SumY(p, v, w, f, g, k, b) = (v + BZ) * (v - BZ) + XX * BX
       /\ SumZ(p, v, w, f, g, k, b) = (v - BZ) * g + f * XX
  BY DEF SumX, SumY, SumZ
<1>. HIDE DEF BZ, BX, XX, bzz3, bxz3, xx3
<1>13. Equal(plus, v + BZ) /\ Equal(minus, v - BZ)
  BY <1>5, <1>11, EqualFacts
<1>. HIDE DEF plus, minus
<1>14. Equal(plus * xy - yz * bxz3, (v + BZ) * f - g * BX)
  <2>1. Equal(plus * xy, (v + BZ) * f) /\ Equal(yz * bxz3, g * BX)
    BY <1>6, <1>11, <1>13, EqualFacts
  <2>. QED BY <2>1, EqualFacts
<1>15. Equal(plus * minus + xx3 * bxz3, (v + BZ) * (v - BZ) + XX * BX)
  <2>1. Equal(plus * minus, (v + BZ) * (v - BZ)) /\ Equal(xx3 * bxz3, XX * BX)
    BY <1>11, <1>13, EqualFacts
  <2>. QED BY <2>1, EqualFacts
<1>16. Equal(minus * yz + xy * xx3, (v - BZ) * g + f * XX)
  <2>1. Equal(minus * yz, (v - BZ) * g) /\ Equal(xy * xx3, f * XX)
    BY <1>6, <1>11, <1>13, EqualFacts
  <2>. QED BY <2>1, EqualFacts
<1>. QED BY <1>4, <1>12, <1>14, <1>15, <1>16 DEF Equal, Point

(* A line of slope s that meets the cubic in (x, -y) and in two more       *)
(* points, whose coordinates have the sum k and the product p; v, f and g  *)
(* are the other symmetric combinations of these, and b the constant of    *)
(* the cubic.                                                              *)
OnLine(s, x, y, k, t, p, b, v, f, g) ==
    /\ k = s * s - x /\ t = -y - s * x /\ p = -3 - 2 * s * t - x * k
    /\ b = y * y - x * x * x + 3 * x
    /\ v = s * s * p + s * t * k + t * t /\ f = 2 * s * p + t * k /\ g = s * k + 2 * t

(* The polynomial identities behind the complete formulas.                 *)
LEMMA FactorIdentities ==
    ASSUME NEW s \in Int, NEW x \in Int, NEW y \in Int, NEW k, NEW t, NEW p, NEW b, NEW v, NEW f, NEW g,
           OnLine(s, x, y, k, t, p, b, v, f, g)
    PROVE  /\ SumX(p, v, 1, f, g, k, b) = SumZ(p, v, 1, f, g, k, b) * x
           /\ SumZ(p, v, 1, f, g, k, b) = g * g * g - (k * k - 4 * p) * (g * k + f)
<1>1. k \in Int /\ t \in Int
  BY DEF OnLine
<1>. DEFINE X == s * s - k
            P == k * k - s * s * k - 2 * s * t - 3
            B == t * t - P * X
            V == s * s * P + s * t * k + t * t
            F == 2 * s * P + t * k
            G == s * k + 2 * t
            BZ == 3 * (k - B * 1)
            BX == 3 * (B * k - (3 * 1 + P))
            XX == 3 * P - 3 * 1
            Z == (V - BZ) * G + F * XX
<1>2. (V + BZ) * F - G * BX = Z * X
  BY <1>1
<1>3. Z = G * G * G - (k * k - 4 * P) * (G * k + F)
  BY <1>1
<1>4. x = X
  BY DEF OnLine
<1>5. p = P
  <2>1. -3 - 2 * s * t - X * k = P
    BY <1>1
  <2>. HIDE DEF X, P
  <2>. QED BY <2>1, <1>4 DEF OnLine
<1>6. b = B
  <2>1. -t - s * X \in Int
    BY <1>1
  <2>. DEFINE Y == -t - s * X
  <2>2. Y * Y - X * X * X + 3 * X = B
    BY <1>1
  <2>3. y = Y
    <3>1. t = -y - s * x /\ s * x \in Int
      BY DEF OnLine
    <3>2. y = -t - s * x
      BY <1>1, <3>1
    <3>. QED BY <3>2, <1>4
  <2>4. b = y * y - x * x * x + 3 * x
    BY DEF OnLine
  <2>. HIDE DEF X, Y, B
  <2>. QED BY <2>2, <2>3, <2>4, <1>4
<1>7. v = V /\ f = F /\ g = G
  <2>. HIDE DEF P
  <2>. QED BY <1>5 DEF OnLine
<1>. HIDE DEF X, P, B, V, F, G
<1>8. /\ SumX(p, v, 1, f, g, k, b) = (V + BZ) * F - G * BX
      /\ SumZ(p, v, 1, f, g, k, b) = Z
  BY <1>5, <1>6, <1>7 DEF SumX, SumZ, SumBZ, SumBX, SumXX
<1>. HIDE DEF Z, BX, BZ
<1>. QED BY <1>2, <1>3, <1>4, <1>5, <1>7, <1>8

(* The third of them, by its terms.                                        *)
LEMMA HeightIdentity ==
    ASSUME NEW s \in Int, NEW x \in Int, NEW y \in Int, NEW k, NEW t, NEW p, NEW b, NEW v, NEW f, NEW g,
           OnLine(s, x, y, k, t, p, b, v, f, g)
    PROVE  SumY(p, v, 1, f, g, k, b) = SumZ(p, v, 1, f, g, k, b) * y
<1>. DEFINE K == s * s - x
            T == -y - s * x
            P == -3 - 2 * s * T - x * K
            B == y * y - x * x * x + 3 * x
            V == s * s * P + s * T * K + T * T
            F == 2 * s * P + T * K
            G == s * K + 2 * T
            BZ == 3 * (K - B * 1)
            BX == 3 * (B * K - (3 * 1 + P))
            XX == 3 * P - 3 * 1
            Z == (V - BZ) * G + F * XX
<1>1. (V + BZ) * (V - BZ) + XX * BX = Z * y
  <2>. DEFINE
            plus == s * s * s * y + 3 * s * s * x * x + 3 * s * x * y + 3 * x * x * x - 12 * x
                    - 2 * y * y
            minus == s * s * s * y + 3 * s * s * x * x - 6 * s * s + 3 * s * x * y - 3 * x * x * x
                     + 12 * x + 4 * y * y
            bx == -3 * s * s * x * x * x + 6 * s * s * x + 3 * s * s * y * y - 6 * s * y
                  + 3 * x * x * x * x - 12 * x * x - 3 * x * y * y
            xx == 3 * s * s * x + 6 * s * y + 3 * x * x - 12
            z == s * s * s * s * s * s * y + 6 * s * s * s * s * s * x * x - 6 * s * s * s * s * s
                 + 15 * s * s * s * s * x * y + 20 * s * s * s * y * y + 15 * s * s * x * x * y
                 - 60 * s * s * y + 18 * s * x * x * x * x - 90 * s * x * x - 12 * s * x * y * y
                 + 72 * s + 9 * x * x * x * y - 36 * x * y - 8 * y * y * y
            one == s * s * s * s * s * s * y * y + 6 * s * s * s * s * s * x * x * y
                   - 6 * s * s * s * s * s * y + 9 * s * s * s * s * x * x * x * x
                   - 18 * s * s * s * s * x * x + 6 * s * s * s * s * x * y * y
                   + 18 * s * s * s * x * x * x * y - 18 * s * s * s * x * y
                   + 2 * s * s * s * y * y * y - 18 * s * s * x * x * x
                   + 15 * s * s * x * x * y * y + 72 * s * s * x + 12 * s * s * y * y
                   + 6 * s * x * y * y * y - 9 * x * x * x * x * x * x + 72 * x * x * x * x
                   + 18 * x * x * x * y * y - 144 * x * x - 72 * x * y * y - 8 * y * y * y * y
            two == -9 * s * s * s * s * x * x * x * x + 18 * s * s * s * s * x * x
                   + 9 * s * s * s * s * x * y * y - 18 * s * s * s * x * x * x * y
                   + 18 * s * s * s * x * y + 18 * s * s * s * y * y * y + 18 * s * s * x * x * x
                   - 72 * s * s * x - 72 * s * s * y * y + 18 * s * x * x * x * x * y
                   - 90 * s * x * x * y - 18 * s * x * y * y * y + 72 * s * y
                   + 9 * x * x * x * x * x * x - 72 * x * x * x * x - 9 * x * x * x * y * y
                   + 144 * x * x + 36 * x * y * y
            u == 3 * s * s * x + 6 * s * y
            w == 3 * x * x - 12
            m == -9 * s * s * s * s * x * x * x * x + 18 * s * s * s * s * x * x
                 + 9 * s * s * s * s * x * y * y - 18 * s * s * s * x * x * x * y
                 + 18 * s * s * s * x * y + 18 * s * s * s * y * y * y
                 + 9 * s * s * x * x * x * x * x - 36 * s * s * x * x * x
                 - 9 * s * s * x * x * y * y - 36 * s * s * y * y + 18 * s * x * x * x * x * y
                 - 72 * s * x * x * y - 18 * s * x * y * y * y
            l == -9 * s * s * x * x * x * x * x + 54 * s * s * x * x * x
                 + 9 * s * s * x * x * y * y - 72 * s * s * x - 36 * s * s * y * y
                 - 18 * s * x * x * y + 72 * s * y + 9 * x * x * x * x * x * x - 72 * x * x * x * x
                 - 9 * x * x * x * y * y + 144 * x * x + 36 * x * y * y
  <2>1. V + BZ = plus /\ V - BZ = minus
    OBVIOUS
  <2>2. BX = bx /\ XX = xx
    OBVIOUS
  <2>3. Z = z
    OBVIOUS
  <2>4. plus * minus = one
    OBVIOUS
  <2>5. xx * bx = two
    <3>1. u * bx = m
      OBVIOUS
    <3>2. w * bx = l
      OBVIOUS
    <3>3. xx = u + w /\ u \in Int /\ w \in Int /\ bx \in Int
      OBVIOUS
    <3>4. m + l = two
      OBVIOUS
    <3>. HIDE DEF xx, u, w, bx, m, l, two
    <3>5. xx * bx = u * bx + w * bx
      BY <3>3
    <3>. QED BY <3>1, <3>2, <3>4, <3>5
  <2>6. one + two = z * y
    OBVIOUS
  <2>. QED BY <2>1, <2>2, <2>3, <2>4, <2>5, <2>6
<1>2. k = K /\ t = T /\ b = B
  BY DEF OnLine
<1>3. p = P
  BY <1>2 DEF OnLine
<1>4. v = V /\ f = F /\ g = G
  BY <1>2, <1>3 DEF OnLine
<1>. HIDE DEF K, T, P, B, V, F, G
<1>5. /\ SumY(p, v, 1, f, g, k, b) = (V + BZ) * (V - BZ) + XX * BX
      /\ SumZ(p, v, 1, f, g, k, b) = Z
  BY <1>2, <1>3, <1>4 DEF SumY, SumZ, SumBZ, SumBX, SumXX
<1>. HIDE DEF Z, BX, BZ, XX
<1>. QED BY <1>1, <1>5

(* The same for a vertical line, of two opposite points: T / (2 y) is the  *)
(* slope of the tangent there.                                             *)
LEMMA VerticalIdentity ==
    ASSUME NEW x \in Int, NEW y \in Int, NEW b, b = y * y - x * x * x + 3 * x
    PROVE  LET T == 3 * x * x - 3
           IN  SumY(x * x, -(y * y), 1, 0, 0, 2 * x, b)
                 = T * (12 * x * y * y - T * T) - 8 * y * y * y * y
<1>. DEFINE B == y * y - x * x * x + 3 * x
            BZ == 3 * (2 * x - B * 1)
            BX == 3 * (B * (2 * x) - (3 * 1 + x * x))
            T == 3 * x * x - 3
<1>1. (-(y * y) + BZ) * (-(y * y) - BZ) + (3 * (x * x) - 3 * 1) * BX
        = T * (12 * x * y * y - T * T) - 8 * y * y * y * y
  OBVIOUS
<1>2. b = B
  OBVIOUS
<1>. HIDE DEF B
<1>. QED BY <1>1, <1>2 DEF SumY, SumBZ, SumBX, SumXX

(* y is on the curve above x.                                              *)
Above(x, y) == Equal(y * y, x * x * x - 3 * x + CurveB)

(* The line of slope s through (x1, y1) meets the curve in (x2, y2) next,  *)
(* or touches it when x2 is x1.                                            *)
Meets(s, x1, y1, x2, y2) ==
    /\ Equal(y2, y1 + s * (x2 - x1))
    /\ Equal(s * (2 * y1 + s * (x2 - x1)), x1 * x1 + x1 * x2 + x2 * x2 - 3)

(* The reflected third point of the line is on the curve, and the code's   *)
(* addition gives a multiple of it, by a factor that is written out.       *)
LEMMA LineSum ==
    ASSUME NEW s \in Int, NEW x1 \in Elements, NEW y1 \in Elements, NEW x2 \in Elements, NEW y2 \in Elements,
           Above(x1, y1), Meets(s, x1, y1, x2, y2),
           NEW x, NEW y, x = s * s - x1 - x2, y = s * (x1 - x) - y1
    PROVE  /\ x \in Int /\ y \in Int /\ Above(x, y)
           /\ \E z \in Int :
                 /\ Add(Point(x1, y1, 1), Point(x2, y2, 1)) = Point(z * x, z * y, z)
                 /\ Equal(z, (y1 + y2) * (y1 + y2) * (y1 + y2)
                              - (x2 - x1) * (x2 - x1) * ((y1 + y2) * (x1 + x2) + (x1 * y2 + x2 * y1)))
<1>1. x1 \in Int /\ y1 \in Int /\ x2 \in Int /\ y2 \in Int
  BY FpFacts
<1>2. x \in Int /\ y \in Int
  BY <1>1
<1>. DEFINE k == s * s - x  t == -y - s * x  p == -3 - 2 * s * t - x * k  b == y * y - x * x * x + 3 * x
            v == s * s * p + s * t * k + t * t  f == 2 * s * p + t * k  g == s * k + 2 * t
            d == (s * (2 * y1 + s * (x2 - x1))) - (x1 * x1 + x1 * x2 + x2 * x2 - 3)
            l == y1 + s * (x2 - x1)
            m == x1 * x2
<1>3. k = x1 + x2 /\ t = y1 - s * x1 /\ l = s * x2 + t
  BY <1>1
<1>4. k \in Int /\ t \in Int /\ p \in Int /\ b \in Int /\ v \in Int /\ f \in Int /\ g \in Int /\ d \in Int
      /\ l \in Int /\ m \in Int
  BY <1>1, <1>2
<1>5. p = m - d
  <2>1. -3 - 2 * s * (y1 - s * x1) - (s * s - x1 - x2) * (x1 + x2) = m - d
    BY <1>1
  <2>. QED BY <1>3, <2>1
<1>6. /\ SumX(p, v, 1, f, g, k, b) = SumZ(p, v, 1, f, g, k, b) * x
      /\ SumY(p, v, 1, f, g, k, b) = SumZ(p, v, 1, f, g, k, b) * y
      /\ SumZ(p, v, 1, f, g, k, b) = g * g * g - (k * k - 4 * p) * (g * k + f)
  <2>1. OnLine(s, x, y, k, t, p, b, v, f, g)
    BY Zenon DEF OnLine
  <2>. HIDE DEF k, t, p, b, v, f, g
  <2>. QED BY <1>2, <2>1, FactorIdentities, HeightIdentity
(* The defect d of the line is nought, so that its values are the points'. *)
<1>7. Equal(d, 0)
  <2>. DEFINE h == s * (2 * y1 + s * (x2 - x1))  j == x1 * x1 + x1 * x2 + x2 * x2 - 3
  <2>1. Equal(h, j)
    BY DEF Meets
  <2>2. h \in Int /\ j \in Int /\ j - j = 0 /\ d = h - j
    BY <1>1
  <2>. HIDE DEF h, j, d
  <2>3. Equal(j, j)
    BY <2>2, EqualSelf
  <2>4. Equal(h - j, j - j)
    BY <2>1, <2>3, EqualFacts
  <2>. QED BY <2>2, <2>4
<1>8. Equal(y2, l)
  BY DEF Meets
<1>19. Equal(x1, x1) /\ Equal(y1, y1) /\ Equal(x2, x2)
  BY <1>1, EqualSelf
<1>9. Equal(m, p)
  <2>1. Equal(m, m)
    BY <1>4, EqualSelf
  <2>. HIDE DEF m, d, p
  <2>2. Equal(m - d, m - 0)
    BY <1>7, <2>1, EqualFacts
  <2>3. m - 0 = m
    BY <1>4
  <2>. QED BY <1>5, <2>2, <2>3, EqualSelf
<1>10. Equal(y1 * y2, v)
  <2>1. Equal(y1 * y2, y1 * l)
    BY <1>8, <1>19, EqualFacts
  <2>2. y1 * l = (s * s) * m + (s * t * k + t * t)
    <3>1. (s * x1 + t) * (s * x2 + t) = (s * s) * (x1 * x2) + (s * t * (x1 + x2) + t * t)
      <4>. HIDE DEF t
      <4>. QED BY <1>1, <1>4
    <3>2. y1 = s * x1 + t
      BY <1>1, <1>3
    <3>. HIDE DEF t, k, l
    <3>. QED BY <1>3, <3>1, <3>2
  <2>3. Equal((s * s) * m + (s * t * k + t * t), (s * s) * p + (s * t * k + t * t))
    <3>. DEFINE e == s * t * k + t * t  o == s * s
    <3>1. e \in Int /\ o \in Int
      <4>. HIDE DEF t, k
      <4>. QED BY <1>4
    <3>. HIDE DEF e, o, m, p
    <3>2. Equal(o * m, o * p) /\ Equal(e, e)
      BY <3>1, <1>9, EqualSelf, EqualFacts
    <3>3. Equal(o * m + e, o * p + e)
      BY <3>2, EqualFacts
    <3>. QED BY <3>3 DEF e, o
  <2>4. (s * s) * p + (s * t * k + t * t) = v
    <3>. HIDE DEF t, k, p
    <3>. QED BY <1>4
  <2>. HIDE DEF v, l, m, k, t, p
  <2>. QED BY <2>1, <2>2, <2>3, <2>4, EqualSelf
<1>11. Equal(x1 * y2 + y1 * x2, f)
  <2>1. Equal(x1 * y2 + y1 * x2, x1 * l + y1 * x2)
    <3>2. Equal(x1 * y2, x1 * l) /\ Equal(y1 * x2, y1 * x2)
      BY <1>8, <1>19, EqualFacts
    <3>. QED BY <3>2, EqualFacts
  <2>2. x1 * l + y1 * x2 = (2 * s) * m + t * k
    <3>1. x1 * (s * x2 + t) + (s * x1 + t) * x2 = (2 * s) * (x1 * x2) + t * (x1 + x2)
      <4>. HIDE DEF t
      <4>. QED BY <1>1, <1>4
    <3>2. y1 = s * x1 + t
      BY <1>1, <1>3
    <3>. HIDE DEF t, k, l
    <3>. QED BY <1>3, <3>1, <3>2
  <2>3. Equal((2 * s) * m + t * k, (2 * s) * p + t * k)
    <3>. DEFINE e == t * k  o == 2 * s
    <3>1. e \in Int /\ o \in Int
      <4>. HIDE DEF t, k
      <4>. QED BY <1>4
    <3>. HIDE DEF e, o, m, p
    <3>2. Equal(o * m, o * p) /\ Equal(e, e)
      BY <3>1, <1>9, EqualSelf, EqualFacts
    <3>3. Equal(o * m + e, o * p + e)
      BY <3>2, EqualFacts
    <3>. QED BY <3>3 DEF e, o
  <2>4. (2 * s) * p + t * k = f
    OBVIOUS
  <2>. HIDE DEF f, l, m, k, t, p
  <2>. QED BY <2>1, <2>2, <2>3, <2>4, EqualSelf
<1>12. Equal(y1 + y2, g)
  <2>1. Equal(y1 + y2, y1 + l)
    BY <1>8, <1>19, EqualFacts
  <2>2. y1 + l = g
    <3>1. y1 + (y1 + s * (x2 - x1)) = s * (x1 + x2) + 2 * (y1 - s * x1)
      BY <1>1
    <3>. HIDE DEF k, t
    <3>. QED BY <1>3, <3>1
  <2>. QED BY <2>1, <2>2
<1>13. Equal(CurveB, b)
  <2>. DEFINE a == x1 * x1 * x1 - 3 * x1
  <2>1. y1 * y1 - a = b - d * (x - x1)
    <3>. DEFINE X == s * s - x1 - x2  Y == s * (x1 - X) - y1
    <3>1. y1 * y1 - a = (Y * Y - X * X * X + 3 * X) - d * (X - x1)
      BY <1>1
    <3>2. X = x /\ Y = y
      OBVIOUS
    <3>. HIDE DEF X, Y, d
    <3>. QED BY <3>1, <3>2
  <2>2. a \in Int /\ y1 * y1 \in Int /\ x - x1 \in Int /\ CurveB \in Int
    BY <1>1, <1>2, CurveAssumption
  <2>. HIDE DEF a, b, d
  <2>3. Equal(y1 * y1, a + CurveB)
    BY DEF Above, a
  <2>4. Equal(y1 * y1 - a, (a + CurveB) - a) /\ (a + CurveB) - a = CurveB
    <3>1. Equal(a, a)
      BY <2>2, EqualSelf
    <3>2. Equal(y1 * y1 - a, (a + CurveB) - a)
      BY <2>3, <3>1, EqualFacts
    <3>. QED BY <2>2, <3>2
  <2>5. Equal(d * (x - x1), 0 * (x - x1)) /\ 0 * (x - x1) = 0
    <3>1. Equal(x - x1, x - x1)
      BY <2>2, EqualSelf
    <3>2. Equal(d * (x - x1), 0 * (x - x1))
      BY <1>7, <3>1, EqualFacts
    <3>. QED BY <2>2, <3>2
  <2>6. Equal(b - d * (x - x1), b)
    <3>1. Equal(b, b) /\ b \in Int
      BY <1>4, EqualSelf
    <3>2. Equal(b - d * (x - x1), b - 0)
      BY <3>1, <2>5, EqualFacts
    <3>. QED BY <3>1, <3>2
  <2>7. Equal(b - d * (x - x1), CurveB)
    BY <2>1, <2>4
  <2>. QED BY <2>6, <2>7, EqualSelf
<1>14. Above(x, y)
  <2>. DEFINE a == x * x * x - 3 * x
  <2>1. a \in Int /\ a + b = y * y
    BY <1>2
  <2>. HIDE DEF a, b
  <2>2. Equal(a, a)
    BY <2>1, EqualSelf
  <2>3. Equal(a + CurveB, a + b)
    BY <1>13, <2>2, EqualFacts
  <2>4. Equal(y * y, a + CurveB)
    BY <2>1, <2>3, EqualSelf
  <2>. QED BY <2>4 DEF Above, a
<1>. DEFINE q == Point(x1, y1, 1)  r == Point(x2, y2, 1)  z == SumZ(p, v, 1, f, g, k, b)
<1>15. /\ q \in Points /\ r \in Points
       /\ q.x = x1 /\ q.y = y1 /\ q.z = 1 /\ r.x = x2 /\ r.y = y2 /\ r.z = 1
  <2>1. 1 \in Elements
    <3>1. FieldP \in Nat
      BY FpFacts
    <3>2. CurveB \in 1..(FieldP - 1)
      BY CurveAssumption
    <3>3. 1 <= FieldP - 1
      BY <3>1, <3>2
    <3>. QED BY <3>1, <3>3 DEF Elements
  <2>. QED BY <1>1, <2>1, FpFacts, PointFacts DEF Point
<1>16. /\ Equal(q.x * r.x, p) /\ Equal(q.y * r.y, v) /\ Equal(q.z * r.z, 1)
       /\ Equal(q.x * r.y + q.y * r.x, f) /\ Equal(q.y * r.z + q.z * r.y, g)
       /\ Equal(q.x * r.z + q.z * r.x, k)
  <2>. HIDE DEF q, r, p, v, f, g, k
  <2>1. y1 * 1 + 1 * y2 = y1 + y2 /\ x1 * 1 + 1 * x2 = k /\ 1 * 1 = 1
    BY <1>1, <1>3
  <2>2. Equal(k, k) /\ Equal(1, 1)
    BY <1>4, EqualSelf
  <2>. QED BY <1>9, <1>10, <1>11, <1>12, <1>15, <2>1, <2>2 DEF m
<1>17. Add(q, r) = Point(z * x, z * y, z) /\ z \in Int
  <2>. HIDE DEF q, r, p, v, f, g, k, b
  <2>1. /\ Add(q, r) = Point(SumX(p, v, 1, f, g, k, b), SumY(p, v, 1, f, g, k, b),
                             SumZ(p, v, 1, f, g, k, b))
        /\ SumZ(p, v, 1, f, g, k, b) \in Int
    BY <1>13, <1>15, <1>16, AddAt
  <2>. QED BY <1>6, <2>1
<1>18. Equal(z, (y1 + y2) * (y1 + y2) * (y1 + y2)
                 - (x2 - x1) * (x2 - x1) * ((y1 + y2) * (x1 + x2) + (x1 * y2 + x2 * y1)))
  <2>. DEFINE G == y1 + y2  F == x1 * y2 + x2 * y1  K == x1 + x2  e == k * k
  <2>1. z = g * g * g - (e - 4 * p) * (g * k + f)
    BY <1>6
  <2>2. Equal(G, g) /\ Equal(F, f) /\ Equal(K, k)
    <3>1. F = x1 * y2 + y1 * x2
      BY <1>1
    <3>2. Equal(k, k) /\ K = k
      BY <1>3, <1>4, EqualSelf
    <3>. HIDE DEF f, g, k, F
    <3>. QED BY <3>1, <3>2, <1>11, <1>12
  <2>3. e - 4 * m = (x2 - x1) * (x2 - x1) /\ e \in Int
    <3>1. (x1 + x2) * (x1 + x2) - 4 * (x1 * x2) = (x2 - x1) * (x2 - x1)
      BY <1>1
    <3>. HIDE DEF k
    <3>. QED BY <1>3, <1>4, <3>1
  <2>. HIDE DEF G, F, K, g, f, k, p, m, z, e
  <2>4. Equal(G * G, g * g) /\ Equal(G * K, g * k)
    BY <2>2, EqualFacts
  <2>5. Equal(G * G * G, g * g * g) /\ Equal(G * K + F, g * k + f)
    BY <2>2, <2>4, EqualFacts
  <2>6. Equal(e - 4 * m, e - 4 * p)
    <3>1. Equal(4 * m, 4 * p)
      BY <1>9, EqualSelf, EqualFacts
    <3>. QED BY <3>1, <2>3, EqualSelf, EqualFacts
  <2>7. Equal((e - 4 * m) * (G * K + F), (e - 4 * p) * (g * k + f))
    BY <2>5, <2>6, EqualFacts
  <2>8. Equal(G * G * G - (e - 4 * m) * (G * K + F), g * g * g - (e - 4 * p) * (g * k + f))
    BY <2>5, <2>7, EqualFacts
  <2>. QED BY <2>1, <2>3, <2>8, EqualSelf DEF G, K, F
<1>. HIDE DEF z
<1>. QED BY <1>2, <1>14, <1>17, <1>18

(* Zero and one are elements of the field.                                 *)
LEMMA ZeroIs == Fp(0) = 0 /\ 0 \in Elements /\ 1 \in Elements
<1>1. FieldP \in Nat
  BY FpFacts
<1>2. CurveB \in 1..(FieldP - 1)
  BY CurveAssumption
<1>3. 1 <= FieldP - 1
  BY <1>1, <1>2
<1>4. 0 \in Elements /\ 1 \in Elements
  BY <1>1, <1>3 DEF Elements
<1>. QED BY <1>4, FpFacts

(* The points of the curve are those above their first coordinate.         *)
LEMMA AboveIs ==
    ASSUME NEW x \in Elements, NEW y \in Elements
    PROVE  <<x, y>> \in AffinePoints <=> Above(x, y)
<1>1. x \in Int /\ y \in Int /\ CurveB \in Int
  BY FpFacts, CurveAssumption
<1>2. y * y \in Int /\ x * x * x - 3 * x + CurveB \in Int
  BY <1>1
<1>3. OnCurve(x, y) <=> Above(x, y)
  BY <1>2 DEF OnCurve, Above, Equal
<1>. QED BY <1>3 DEF AffinePoints, Elements

(* A quotient in the field, times the divisor.                             *)
LEMMA QuotientIs ==
    ASSUME NEW n \in Int, NEW d \in Int, Fp(d) # 0
    PROVE  /\ Fp(Fp(n) * FpInverse[Fp(d)]) \in Int
           /\ Equal(Fp(Fp(n) * FpInverse[Fp(d)]) * d, n)
<1>1. PICK i \in Int : i = FpInverse[Fp(d)] /\ Fp(Fp(d) * i) = 1
  BY FpFacts, Inverses
<1>2. PICK m \in Int, c \in Int : m = Fp(n) /\ c = Fp(d)
  BY FpFacts
<1>3. Equal(m, n) /\ Equal(c, d) /\ Equal(i, i) /\ Equal(d, c) /\ m * i \in Int /\ c * i \in Int
  BY <1>2, EqualSelf
<1>4. Equal(Fp(m * i), m * i)
  BY <1>3, EqualSelf
<1>5. Equal(Fp(m * i) * d, (m * i) * c)
  BY <1>3, <1>4, EqualFacts
<1>6. Equal(c * i, 1)
  <2>1. Fp(1) = 1
    BY ZeroIs, FpFacts
  <2>. QED BY <1>1, <1>2, <1>3, <2>1 DEF Equal
<1>7. Equal(m * (c * i), n * 1)
  BY <1>3, <1>6, EqualFacts
<1>8. (m * i) * c = m * (c * i) /\ n * 1 = n
  OBVIOUS
<1>9. Fp(m * i) \in Int
  BY <1>3, FpFacts
<1>. QED BY <1>1, <1>2, <1>5, <1>7, <1>8, <1>9, EqualSelf

(* A factor that is not zero cancels.                                      *)
LEMMA Cancels ==
    ASSUME NEW a \in Int, NEW u \in Int, NEW v \in Int, Fp(a) # 0, Equal(a * u, a * v)
    PROVE  Equal(u, v)
<1>1. PICK w \in Int : w = u - v
  OBVIOUS
<1>2. Equal(a * u - a * v, a * v - a * v)
  <2>1. a * v \in Int
    OBVIOUS
  <2>2. Equal(a * v, a * v)
    BY <2>1, EqualSelf
  <2>. QED BY <2>2, EqualFacts
<1>3. a * u - a * v = a * w /\ a * v - a * v = 0
  BY <1>1
<1>4. Fp(a * w) = 0
  BY <1>2, <1>3, ZeroIs DEF Equal
<1>5. Fp(w) = 0
  BY <1>4, NonZeroProduct
<1>6. Equal(w, 0) /\ Equal(v, v)
  BY <1>5, EqualSelf, ZeroIs DEF Equal
<1>7. Equal(w + v, 0 + v)
  BY <1>6, EqualFacts
<1>8. w + v = u /\ 0 + v = v
  BY <1>1
<1>. QED BY <1>7, <1>8

(* The slope of the line through two points that are not opposite, and the *)
(* sum of chord and tangent by it.                                         *)
LEMMA SlopeOf ==
    ASSUME NEW a \in AffinePoints, NEW c \in AffinePoints,
           ~(a[1] = c[1] /\ Fp(a[2] + c[2]) = 0)
    PROVE  \E s \in Int : \E x, y \in Int :
              /\ Meets(s, a[1], a[2], c[1], c[2])
              /\ x = s * s - a[1] - c[1] /\ y = s * (a[1] - x) - a[2]
              /\ RefAdd(a, c) = <<Fp(x), Fp(y)>>
              /\ a = c => Equal(s * (2 * a[2]), 3 * a[1] * a[1] - 3)
              /\ a # c => Fp(c[1] - a[1]) # 0 /\ Equal(s * (c[1] - a[1]), c[2] - a[2])
<1>1. PICK x1 \in Elements, y1 \in Elements, x2 \in Elements, y2 \in Elements :
        a = <<x1, y1>> /\ c = <<x2, y2>>
  BY AffineFacts
<1>2. /\ a[1] = x1 /\ a[2] = y1 /\ c[1] = x2 /\ c[2] = y2 /\ a # NoAffine /\ c # NoAffine
      /\ x1 \in Int /\ y1 \in Int /\ x2 \in Int /\ y2 \in Int
      /\ x1 = x2 => Fp(y1 + y2) # 0
  BY <1>1, AffineFacts
<1>3. Above(x1, y1) /\ Above(x2, y2)
  BY <1>1, <1>2, AboveIs
<1>4. PICK n \in Int, d \in Int, s \in Int :
        /\ Fp(d) # 0 /\ Equal(s * d, n)
        /\ a = c => d = 2 * y1 /\ n = 3 * x1 * x1 - 3
        /\ a # c => d = x2 - x1 /\ n = y2 - y1
        /\ RefAdd(a, c) = <<Fp(s * s - x1 - x2), Fp(s * (x1 - Fp(s * s - x1 - x2)) - y1)>>
  <2>1. ~(a[1] = c[1] /\ Fp(a[2] + c[2]) = 0) /\ a # NoAffine /\ c # NoAffine
    BY <1>2
  <2>2. CASE a = c
    <3>1. PICK n \in Int, d \in Int : n = 3 * x1 * x1 - 3 /\ d = 2 * y1
      BY <1>2
    <3>2. d = y1 + y2 /\ Fp(d) # 0
      BY <1>1, <1>2, <2>2, <3>1
    <3>3. PICK s \in Int : s = Fp(Fp(n) * FpInverse[Fp(d)]) /\ Equal(s * d, n)
      BY <3>2, QuotientIs
    <3>4. RefAdd(a, c) = <<Fp(s * s - x1 - x2), Fp(s * (x1 - Fp(s * s - x1 - x2)) - y1)>>
      BY <1>2, <2>1, <2>2, <3>1, <3>3 DEF RefAdd
    <3>. QED BY <2>2, <3>1, <3>2, <3>3, <3>4
  <2>3. CASE a # c
    <3>1. PICK n \in Int, d \in Int : n = y2 - y1 /\ d = x2 - x1
      BY <1>2
    <3>2. Fp(d) # 0
      <4>. SUFFICES ASSUME Fp(d) = 0 PROVE FALSE
        OBVIOUS
      <4>1. x1 = x2
        <5>1. Equal(d, 0) /\ Equal(x1, x1)
          BY <1>2, EqualSelf, ZeroIs DEF Equal
        <5>2. Equal(d + x1, 0 + x1) /\ d + x1 = x2 /\ 0 + x1 = x1
          BY <1>2, <3>1, <5>1, EqualFacts
        <5>3. Fp(x2) = Fp(x1)
          BY <5>2 DEF Equal
        <5>. QED BY <5>3, FpFacts
      <4>2. Equal((y1 + y2) * (y2 - y1), (y1 + y2) * 0)
        <5>1. y1 * y1 \in Int /\ Equal(y2 * y2, y1 * y1) /\ Equal(y1 * y1, y1 * y1)
          BY <1>2, <1>3, <4>1, EqualSelf DEF Above
        <5>2. Equal(y2 * y2 - y1 * y1, y1 * y1 - y1 * y1)
          BY <5>1, EqualFacts
        <5>3. y2 * y2 - y1 * y1 = (y1 + y2) * (y2 - y1) /\ y1 * y1 - y1 * y1 = (y1 + y2) * 0
          BY <1>2
        <5>. QED BY <5>2, <5>3
      <4>3. Fp(y1 + y2) # 0 /\ y1 + y2 \in Int /\ y2 - y1 \in Int
        BY <1>2, <4>1
      <4>4. Equal(y2 - y1, 0) /\ Equal(y1, y1)
        BY <1>2, <4>2, <4>3, Cancels, EqualSelf
      <4>5. Equal(y2, y1)
        <5>1. Equal((y2 - y1) + y1, 0 + y1)
          BY <4>4, EqualFacts
        <5>. QED BY <1>2, <5>1
      <4>6. Fp(y2) = Fp(y1)
        BY <4>5 DEF Equal
      <4>7. y2 = y1
        BY <4>6, FpFacts
      <4>. QED BY <1>1, <2>3, <4>1, <4>7
    <3>3. PICK s \in Int : s = Fp(Fp(n) * FpInverse[Fp(d)]) /\ Equal(s * d, n)
      BY <3>2, QuotientIs
    <3>4. RefAdd(a, c) = <<Fp(s * s - x1 - x2), Fp(s * (x1 - Fp(s * s - x1 - x2)) - y1)>>
      BY <1>2, <2>1, <2>3, <3>1, <3>3 DEF RefAdd
    <3>. QED BY <2>3, <3>1, <3>2, <3>3, <3>4
  <2>. QED BY <2>2, <2>3
<1>5. PICK x \in Int, y \in Int : x = s * s - x1 - x2 /\ y = s * (x1 - x) - y1
  BY <1>2
<1>6. RefAdd(a, c) = <<Fp(x), Fp(y)>>
  <2>1. Equal(Fp(x), x) /\ Equal(x1, x1) /\ Equal(s, s) /\ Equal(y1, y1)
    BY <1>2, EqualSelf
  <2>2. Equal(x1 - Fp(x), x1 - x)
    BY <2>1, EqualFacts
  <2>3. Equal(s * (x1 - Fp(x)), s * (x1 - x))
    BY <2>1, <2>2, EqualFacts
  <2>4. Equal(s * (x1 - Fp(x)) - y1, s * (x1 - x) - y1)
    BY <2>1, <2>3, EqualFacts
  <2>. QED BY <1>4, <1>5, <2>4 DEF Equal
<1>7. Meets(s, x1, y1, x2, y2)
  <2>1. CASE a = c
    <3>1. x1 = x2 /\ y1 = y2
      BY <1>2, <2>1
    <3>2. x2 - x1 = 0 /\ y1 + s * (x2 - x1) = y2 /\ 2 * y1 + s * (x2 - x1) = 2 * y1
          /\ x1 * x1 + x1 * x2 + x2 * x2 - 3 = 3 * x1 * x1 - 3
      BY <1>2, <3>1
    <3>. QED BY <1>2, <1>4, <2>1, <3>2, EqualSelf DEF Meets
  <2>2. CASE a # c
    <3>1. PICK o \in Int : o = x2 - x1 /\ Fp(o) # 0 /\ Equal(s * o, y2 - y1)
      BY <1>4, <2>2
    <3>2. Equal(y2, y1 + s * o)
      <4>1. Equal(y1 + s * o, y1 + (y2 - y1)) /\ y1 + (y2 - y1) = y2
        <5>1. Equal(y1, y1)
          BY <1>2, EqualSelf
        <5>2. Equal(y1 + s * o, y1 + (y2 - y1))
          BY <3>1, <5>1, EqualFacts
        <5>. QED BY <1>2, <5>2
      <4>. QED BY <4>1, EqualSelf
    <3>. DEFINE u == s * (2 * y1 + s * o)  v == x1 * x1 + x1 * x2 + x2 * x2 - 3
    <3>3. u \in Int /\ v \in Int /\ o * u = (s * o) * (2 * y1 + s * o)
      BY <1>2
    <3>4. Equal(o * u, (y2 - y1) * (2 * y1 + (y2 - y1)))
      <4>1. Equal(2 * y1, 2 * y1)
        BY <1>2, EqualSelf
      <4>2. Equal(2 * y1 + s * o, 2 * y1 + (y2 - y1))
        BY <3>1, <4>1, EqualFacts
      <4>3. Equal((s * o) * (2 * y1 + s * o), (y2 - y1) * (2 * y1 + (y2 - y1)))
        BY <3>1, <4>2, EqualFacts
      <4>. QED BY <3>3, <4>3
    <3>5. Equal(y2 * y2 - y1 * y1, o * v)
      <4>. DEFINE e == x1 * x1 * x1 - 3 * x1  f == x2 * x2 * x2 - 3 * x2
      <4>1. e \in Int /\ f \in Int /\ CurveB \in Int
        BY <1>2, CurveAssumption
      <4>2. Equal(y2 * y2, f + CurveB) /\ Equal(y1 * y1, e + CurveB)
        BY <1>3 DEF Above
      <4>. HIDE DEF e, f
      <4>3. Equal(y2 * y2 - y1 * y1, (f + CurveB) - (e + CurveB))
        BY <4>2, EqualFacts
      <4>4. (f + CurveB) - (e + CurveB) = f - e
        BY <4>1
      <4>5. f - e = o * v
        BY <1>2, <3>1 DEF e, f
      <4>. QED BY <4>3, <4>4, <4>5
    <3>6. (y2 - y1) * (2 * y1 + (y2 - y1)) = y2 * y2 - y1 * y1
      BY <1>2
    <3>. HIDE DEF u, v
    <3>7. Equal(o * u, o * v)
      BY <3>4, <3>5, <3>6, EqualSelf
    <3>8. Equal(u, v)
      BY <3>1, <3>3, <3>7, Cancels
    <3>. QED BY <3>1, <3>2, <3>8 DEF Meets, u, v
  <2>. QED BY <2>1, <2>2
<1>8. a = c => Equal(s * (2 * y1), 3 * x1 * x1 - 3)
  BY <1>4
<1>9. a # c => Fp(x2 - x1) # 0 /\ Equal(s * (x2 - x1), y2 - y1)
  BY <1>4
<1>10. /\ Meets(s, a[1], a[2], c[1], c[2])
       /\ x = s * s - a[1] - c[1] /\ y = s * (a[1] - x) - a[2]
       /\ RefAdd(a, c) = <<Fp(x), Fp(y)>>
       /\ a = c => Equal(s * (2 * a[2]), 3 * a[1] * a[1] - 3)
       /\ a # c => Fp(c[1] - a[1]) # 0 /\ Equal(s * (c[1] - a[1]), c[2] - a[2])
  BY <1>2, <1>5, <1>6, <1>7, <1>8, <1>9, Zenon
<1>. QED BY <1>10, Zenon

(* A point above its first coordinate reduces to a point of the curve.     *)
LEMMA ReducesToCurve ==
    ASSUME NEW x \in Int, NEW y \in Int, Above(x, y)
    PROVE  <<Fp(x), Fp(y)>> \in AffinePoints
<1>1. PICK u \in Elements, v \in Elements : u = Fp(x) /\ v = Fp(y)
  BY FpFacts
<1>2. Equal(u, x) /\ Equal(v, y) /\ Equal(3, 3) /\ Equal(CurveB, CurveB)
  BY <1>1, EqualSelf, CurveAssumption
<1>3. Equal(u * u, x * x) /\ Equal(v * v, y * y) /\ Equal(3 * u, 3 * x)
  BY <1>2, EqualFacts
<1>4. Equal(u * u * u, x * x * x)
  BY <1>2, <1>3, EqualFacts
<1>5. Equal(u * u * u - 3 * u, x * x * x - 3 * x)
  BY <1>3, <1>4, EqualFacts
<1>6. Equal(u * u * u - 3 * u + CurveB, x * x * x - 3 * x + CurveB)
  BY <1>2, <1>5, EqualFacts
<1>7. Equal(v * v, u * u * u - 3 * u + CurveB)
  BY <1>3, <1>6, EqualSelf DEF Above
<1>. QED BY <1>1, <1>7, AboveIs DEF Above

(* The line through two points of the curve that are not opposite: its     *)
(* reflected third point is their sum by chord and tangent.                *)
LEMMA LineOf ==
    ASSUME NEW a \in AffinePoints, NEW c \in AffinePoints,
           ~(a[1] = c[1] /\ Fp(a[2] + c[2]) = 0)
    PROVE  \E s, x, y, z \in Int :
              /\ x = s * s - a[1] - c[1] /\ y = s * (a[1] - x) - a[2]
              /\ RefAdd(a, c) = <<Fp(x), Fp(y)>> /\ RefAdd(a, c) \in AffinePoints
              /\ a = c => Equal(s * (2 * a[2]), 3 * a[1] * a[1] - 3)
              /\ a # c => Fp(c[1] - a[1]) # 0 /\ Equal(s * (c[1] - a[1]), c[2] - a[2])
              /\ Add(Point(a[1], a[2], 1), Point(c[1], c[2], 1)) = Point(z * x, z * y, z)
              /\ Equal(z, (a[2] + c[2]) * (a[2] + c[2]) * (a[2] + c[2])
                           - (c[1] - a[1]) * (c[1] - a[1])
                               * ((a[2] + c[2]) * (a[1] + c[1]) + (a[1] * c[2] + c[1] * a[2])))
<1>1. PICK s \in Int, x \in Int, y \in Int :
              /\ Meets(s, a[1], a[2], c[1], c[2])
              /\ x = s * s - a[1] - c[1] /\ y = s * (a[1] - x) - a[2]
              /\ RefAdd(a, c) = <<Fp(x), Fp(y)>>
              /\ a = c => Equal(s * (2 * a[2]), 3 * a[1] * a[1] - 3)
              /\ a # c => Fp(c[1] - a[1]) # 0 /\ Equal(s * (c[1] - a[1]), c[2] - a[2])
  <2>1. \E s \in Int : \E x, y \in Int :
              /\ Meets(s, a[1], a[2], c[1], c[2])
              /\ x = s * s - a[1] - c[1] /\ y = s * (a[1] - x) - a[2]
              /\ RefAdd(a, c) = <<Fp(x), Fp(y)>>
              /\ a = c => Equal(s * (2 * a[2]), 3 * a[1] * a[1] - 3)
              /\ a # c => Fp(c[1] - a[1]) # 0 /\ Equal(s * (c[1] - a[1]), c[2] - a[2])
    BY SlopeOf, Zenon
  <2>. QED BY <2>1, Zenon
<1>2. PICK x1 \in Elements, y1 \in Elements, x2 \in Elements, y2 \in Elements :
        x1 = a[1] /\ y1 = a[2] /\ x2 = c[1] /\ y2 = c[2] /\ a = <<x1, y1>>
  BY AffineFacts
<1>3. Above(x1, y1)
  BY <1>2, AboveIs
<1>4. PICK z \in Int :
        /\ Add(Point(x1, y1, 1), Point(x2, y2, 1)) = Point(z * x, z * y, z)
        /\ Equal(z, (y1 + y2) * (y1 + y2) * (y1 + y2)
                      - (x2 - x1) * (x2 - x1) * ((y1 + y2) * (x1 + x2) + (x1 * y2 + x2 * y1)))
  <2>1. Meets(s, x1, y1, x2, y2) /\ x = s * s - x1 - x2 /\ y = s * (x1 - x) - y1
    BY <1>1, <1>2, Zenon
  <2>. QED BY <1>3, <2>1, LineSum
<1>5. Above(x, y)
  <2>1. Meets(s, x1, y1, x2, y2) /\ x = s * s - x1 - x2 /\ y = s * (x1 - x) - y1
    BY <1>1, <1>2, Zenon
  <2>. QED BY <1>3, <2>1, LineSum, Zenon
<1>6. RefAdd(a, c) \in AffinePoints
  BY <1>1, <1>5, ReducesToCurve
<1>7. /\ Add(Point(a[1], a[2], 1), Point(c[1], c[2], 1)) = Point(z * x, z * y, z)
      /\ Equal(z, (a[2] + c[2]) * (a[2] + c[2]) * (a[2] + c[2])
                   - (c[1] - a[1]) * (c[1] - a[1])
                       * ((a[2] + c[2]) * (a[1] + c[1]) + (a[1] * c[2] + c[1] * a[2])))
  BY <1>2, <1>4, Zenon
<1>. QED BY <1>1, <1>6, <1>7, Zenon

(* Chord and tangent stay on the curve.                                    *)
LEMMA RefAddCloses == \A a, c \in AllPoints : RefAdd(a, c) \in AllPoints
<1>1. ASSUME NEW a \in AllPoints, NEW c \in AllPoints PROVE RefAdd(a, c) \in AllPoints
  <2>1. CASE a = NoAffine \/ c = NoAffine
    BY <2>1 DEF RefAdd
  <2>2. CASE a # NoAffine /\ c # NoAffine
    <3>1. a \in AffinePoints /\ c \in AffinePoints
      BY <2>2, AffineFacts
    <3>2. CASE a[1] = c[1] /\ Fp(a[2] + c[2]) = 0
      BY <2>2, <3>2, AffineFacts DEF RefAdd
    <3>3. CASE ~(a[1] = c[1] /\ Fp(a[2] + c[2]) = 0)
      <4>1. RefAdd(a, c) \in AffinePoints
        BY <3>1, <3>3, LineOf, Zenon
      <4>. QED BY <4>1, AffineFacts
    <3>. QED BY <3>2, <3>3
  <2>. QED BY <2>1, <2>2
<1>. QED BY <1>1

(***************************************************************************)
(* The group, and the scalars.                                             *)
(***************************************************************************)
(* The multiples of a point, one addition after another.                   *)
LEMMA MultiplesOf ==
    ASSUME NEW q \in AllPoints
    PROVE  /\ RefMultiples[q][0] = NoAffine
           /\ \A k \in 0..OrderN : RefMultiples[q][k] \in AllPoints
           /\ \A k \in 0..(OrderN - 1) : RefMultiples[q][k + 1] = RefAdd(RefMultiples[q][k], q)
<1>. DEFINE s == [a \in Nat \X AllPoints |-> RefAdd(a[2], q)]
            P(f) == f = [k \in 0..OrderN |-> IF k = 0 THEN NoAffine ELSE RefAdd(f[k - 1], q)]
            sum == CHOOSE f : P(f)
            S == {k \in Nat : k \in 0..OrderN => sum[k] \in AllPoints}
<1>1. OrderN \in Nat /\ NoAffine \in AllPoints
  BY CurveAssumption, AffineFacts
<1>2. \A a, b \in AllPoints : RefAdd(a, b) \in AllPoints
  BY RefAddCloses
<1>3. s \in [Nat \X AllPoints -> AllPoints] /\ \A i \in Nat : \A a \in AllPoints : s[<<i, a>>] = RefAdd(a, q)
  BY <1>2
<1>. HIDE DEF s
<1>4. PICK f \in [0..OrderN -> AllPoints] : f = [k \in 0..OrderN |-> IF k = 0 THEN NoAffine ELSE s[<<k, f[k - 1]>>]]
  <2>1. \E f \in [0..OrderN -> AllPoints] : Stepwise(f, NoAffine, s, OrderN)
    BY <1>1, <1>3, Recursion
  <2>. QED BY <2>1 DEF Stepwise
<1>5. P(f)
  <2>1. \A k \in 0..OrderN : f[k] = IF k = 0 THEN NoAffine ELSE RefAdd(f[k - 1], q)
    BY <1>1, <1>3, <1>4
  <2>. QED BY <2>1, <1>4
<1>6. RefMultiples[q] = [k \in 0..OrderN |-> sum[k]]
  BY DEF RefMultiples
<1>. HIDE DEF P
<1>7. P(sum)
  BY <1>5
<1>. HIDE DEF sum
<1>8. \A k \in 0..OrderN : sum[k] = IF k = 0 THEN NoAffine ELSE RefAdd(sum[k - 1], q)
  BY <1>7 DEF P
<1>9. \A k \in 0..OrderN : RefMultiples[q][k] = sum[k]
  BY <1>6
<1>10. ASSUME NEW k \in 0..(OrderN - 1) PROVE sum[k + 1] = RefAdd(sum[k], q) /\ k + 1 \in 0..OrderN
  <2>1. k + 1 \in 0..OrderN /\ k + 1 # 0 /\ (k + 1) - 1 = k
    BY <1>1
  <2>. QED BY <2>1, <1>8
<1>11. 0 \in S /\ 0 \in 0..OrderN /\ sum[0] = NoAffine
  BY <1>1, <1>8
<1>12. ASSUME NEW k \in Nat, k \in S PROVE k + 1 \in S
  BY <1>1, <1>2, <1>10, <1>12
<1>. HIDE DEF S
<1>13. Nat \subseteq S
  BY <1>11, <1>12, NatClosure
<1>14. \A k \in 0..OrderN : sum[k] \in AllPoints
  BY <1>1, <1>13 DEF S
<1>. QED BY <1>1, <1>9, <1>10, <1>11, <1>14

(* The k-th multiple of the generator.                                     *)
Pt(k) == RefMul(k, RefG)

(* Reduction modulo the order (Fn of curve.rs).                            *)
LEMMA FnFacts ==
    /\ OrderN \in Nat \ {0}
    /\ \A a \in Int : Fn(a) \in 0..(OrderN - 1) /\ Fn(a) \in Nat /\ Fn(Fn(a)) = Fn(a)
    /\ \A a \in 0..(OrderN - 1) : Fn(a) = a
    /\ Fn(OrderN) = 0
<1>1. OrderN \in Nat \ {0}
  BY CurveAssumption
<1>2. ASSUME NEW a \in Int PROVE Fn(a) \in 0..(OrderN - 1) /\ Fn(a) \in Nat /\ Fn(Fn(a)) = Fn(a)
  <2>1. a % OrderN \in 0..(OrderN - 1) /\ (a % OrderN) % OrderN = a % OrderN
    BY <1>1, RemInt, RemRem
  <2>2. a % OrderN \in Nat
    BY <1>1, <2>1
  <2>. QED BY <2>1, <2>2 DEF Fn
<1>3. ASSUME NEW a \in 0..(OrderN - 1) PROVE Fn(a) = a
  <2>1. a \in 0..(OrderN - 1) /\ a \in Int
    BY <1>1
  <2>2. a % OrderN \in 0..(OrderN - 1) /\ a \div OrderN \in Int
        /\ a = (a % OrderN) + (a \div OrderN) * OrderN
    BY <1>1, <2>1, RemInt
  <2>3. a = a % OrderN
    BY <1>1, <2>1, <2>2, NoMultiple
  <2>. QED BY <2>1, <2>3 DEF Fn
<1>4. Fn(OrderN) = 0
  <2>1. Alike(OrderN, OrderN, 0)
    <3>1. OrderN = 0 + 1 * OrderN
      BY <1>1
    <3>. QED BY <3>1 DEF Alike
  <2>2. OrderN % OrderN = 0 % OrderN
    BY <1>1, <2>1, RemAlike
  <2>3. 0 \in 0..(OrderN - 1)
    BY <1>1
  <2>. QED BY <2>2, <2>3, <1>3 DEF Fn
<1>. QED BY <1>1, <1>2, <1>3, <1>4

(* Equality modulo the order.                                              *)
EqualN(u, v) == u \in Int /\ v \in Int /\ Fn(u) = Fn(v)

(* Equality modulo the order is a congruence.                              *)
LEMMA EqualNFacts ==
    ASSUME NEW u, NEW v, NEW w, NEW x, EqualN(u, v), EqualN(w, x)
    PROVE  /\ EqualN(u + w, v + x) /\ EqualN(u - w, v - x) /\ EqualN(u * w, v * x)
           /\ EqualN(Fn(u), v) /\ EqualN(v, u) /\ EqualN(u, u)
<1>1. u \in Int /\ v \in Int /\ w \in Int /\ x \in Int /\ Fn(u) = Fn(v) /\ Fn(w) = Fn(x)
  BY DEF EqualN
<1>2. OrderN \in Nat \ {0} /\ Rem(u, OrderN) = Rem(v, OrderN) /\ Rem(w, OrderN) = Rem(x, OrderN)
  BY <1>1, FnFacts DEF Fn, Rem
<1>3. /\ Rem(u + w, OrderN) = Rem(v + x, OrderN) /\ Rem(u - w, OrderN) = Rem(v - x, OrderN)
      /\ Rem(Mul(u, w), OrderN) = Rem(Mul(v, x), OrderN)
  BY <1>1, <1>2, RemOps
<1>4. Fn(u + w) = Fn(v + x) /\ Fn(u - w) = Fn(v - x) /\ Fn(u * w) = Fn(v * x)
  BY <1>3 DEF Fn, Rem, Mul
<1>5. u * w \in Int /\ v * x \in Int /\ u + w \in Int /\ v + x \in Int /\ u - w \in Int /\ v - x \in Int
  BY <1>1
<1>. QED BY <1>1, <1>4, <1>5, FnFacts DEF EqualN

(* Equality modulo the order is an equivalence that reduction respects.    *)
LEMMA EqualNSelf ==
    /\ \A a \in Int : EqualN(a, a) /\ EqualN(Fn(a), a) /\ EqualN(a, Fn(a)) /\ EqualN(a + OrderN, a)
    /\ \A a, b, c : EqualN(a, b) /\ EqualN(b, c) => EqualN(a, c)
    /\ \A a, b : EqualN(a, b) => EqualN(b, a)
<1>1. ASSUME NEW a \in Int PROVE EqualN(a, a) /\ EqualN(Fn(a), a) /\ EqualN(a, Fn(a)) /\ EqualN(a + OrderN, a)
  <2>1. EqualN(a, a) /\ EqualN(Fn(a), a) /\ EqualN(a, Fn(a))
    BY FnFacts DEF EqualN
  <2>2. EqualN(OrderN, 0)
    <3>1. Fn(0) = 0
      BY FnFacts
    <3>. QED BY <3>1, FnFacts DEF EqualN
  <2>3. PICK n \in Int, o \in Int : n = OrderN /\ o = 0
    BY FnFacts
  <2>4. EqualN(n, o) /\ EqualN(a, a)
    BY <2>1, <2>2, <2>3
  <2>5. EqualN(a + n, a + o)
    BY <2>4, EqualNFacts
  <2>6. a + o = a
    BY <2>3
  <2>. QED BY <2>1, <2>3, <2>5, <2>6
<1>. QED BY <1>1 DEF EqualN

(* Sums of multiples are multiples of sums.                                *)
LEMMA PtAdd ==
    /\ \A k \in Int : Pt(k) \in AllPoints
    /\ \A j, k \in Int : RefAdd(Pt(j), Pt(k)) = Pt(j + k)
    /\ \A j, k : EqualN(j, k) => Pt(j) = Pt(k)
    /\ \A j, k \in Int : Pt(j) = Pt(k) => EqualN(j, k)
    /\ \A c \in AllPoints : \E k \in 0..(OrderN - 1) : c = Pt(k)
    /\ Pt(0) = NoAffine /\ Pt(1) = RefG
<1>. DEFINE R(k) == RefMultiples[RefG][k]
<1>1. RefG \in AllPoints /\ OrderN \in Nat \ {0} /\ NoAffine \in AllPoints
  BY GroupAssumption, FnFacts, AffineFacts
<1>2. /\ R(0) = NoAffine /\ R(OrderN) = NoAffine
      /\ \A k \in 0..OrderN : R(k) \in AllPoints
      /\ \A k \in 0..(OrderN - 1) : R(k + 1) = RefAdd(R(k), RefG)
  BY <1>1, MultiplesOf, GroupAssumption
<1>3. \A k \in Int : Pt(k) = R(Fn(k))
  BY DEF Pt, RefMul, Fn
<1>4. \A a, b, c \in AllPoints : RefAdd(RefAdd(a, b), c) = RefAdd(a, RefAdd(b, c))
  BY GroupAssumption
<1>5. \A a \in AllPoints : RefAdd(NoAffine, a) = a /\ RefAdd(a, NoAffine) = a
  BY DEF RefAdd
<1>. HIDE DEF R
<1>6. ASSUME NEW a \in Nat
      PROVE  \A b \in Nat : a + b \in 0..OrderN => RefAdd(R(a), R(b)) = R(a + b)
  <2>. DEFINE S == {b \in Nat : a + b \in 0..OrderN => RefAdd(R(a), R(b)) = R(a + b)}
  <2>1. 0 \in S
    BY <1>2, <1>5
  <2>2. ASSUME NEW b \in Nat, b \in S PROVE b + 1 \in S
    <3>. SUFFICES ASSUME a + (b + 1) \in 0..OrderN PROVE RefAdd(R(a), R(b + 1)) = R(a + (b + 1))
      OBVIOUS
    <3>1. /\ b \in 0..(OrderN - 1) /\ a + b \in 0..(OrderN - 1) /\ a + (b + 1) = (a + b) + 1
          /\ a \in 0..OrderN /\ b \in 0..OrderN /\ a + b \in 0..OrderN
      BY <1>1
    <3>2. RefAdd(R(a), R(b)) = R(a + b)
      BY <2>2, <3>1
    <3>3. R(b + 1) = RefAdd(R(b), RefG) /\ R((a + b) + 1) = RefAdd(R(a + b), RefG)
      BY <1>2, <3>1
    <3>4. RefAdd(RefAdd(R(a), R(b)), RefG) = RefAdd(R(a), RefAdd(R(b), RefG))
      BY <1>1, <1>2, <1>4, <3>1
    <3>. QED BY <3>1, <3>2, <3>3, <3>4
  <2>. HIDE DEF S
  <2>3. Nat \subseteq S
    BY <2>1, <2>2, NatClosure
  <2>. QED BY <2>3 DEF S
<1>7. ASSUME NEW a \in 0..(OrderN - 1), NEW b \in 0..(OrderN - 1)
      PROVE  RefAdd(R(a), R(b)) = R(Fn(a + b))
  <2>1. CASE a + b < OrderN
    <3>1. a + b \in 0..(OrderN - 1) /\ a + b \in 0..OrderN /\ a \in Nat /\ b \in Nat
      BY <1>1, <2>1
    <3>. QED BY <3>1, <1>6, FnFacts
  <2>2. CASE a + b >= OrderN
    <3>1. PICK c \in Nat, d \in Nat : c = OrderN - a /\ d = a + b - OrderN
      BY <1>1, <2>2
    <3>2. /\ a \in Nat /\ b \in Nat /\ a + c = OrderN /\ c + d = b /\ d \in 0..(OrderN - 1)
          /\ a + c \in 0..OrderN /\ c + d \in 0..OrderN /\ a \in 0..OrderN /\ c \in 0..OrderN /\ d \in 0..OrderN
          /\ a + b = d + OrderN
      BY <1>1, <3>1
    <3>3. RefAdd(R(a), R(c)) = NoAffine /\ RefAdd(R(c), R(d)) = R(b)
      BY <1>2, <1>6, <3>2
    <3>4. RefAdd(RefAdd(R(a), R(c)), R(d)) = RefAdd(R(a), RefAdd(R(c), R(d)))
      BY <1>2, <1>4, <3>2
    <3>5. RefAdd(NoAffine, R(d)) = R(d)
      BY <1>2, <1>5, <3>2
    <3>6. Fn(a + b) = d
      <4>1. Fn(d + OrderN) = Fn(d)
        BY EqualNSelf DEF EqualN
      <4>. QED BY <4>1, <3>2, FnFacts
    <3>. QED BY <3>3, <3>4, <3>5, <3>6
  <2>. QED BY <1>1, <2>1, <2>2
<1>8. ASSUME NEW j \in Int, NEW k \in Int PROVE RefAdd(Pt(j), Pt(k)) = Pt(j + k)
  <2>1. Fn(j) \in 0..(OrderN - 1) /\ Fn(k) \in 0..(OrderN - 1)
    BY FnFacts
  <2>2. Fn(Fn(j) + Fn(k)) = Fn(j + k)
    <3>1. EqualN(Fn(j), j) /\ EqualN(Fn(k), k)
      BY EqualNSelf
    <3>2. EqualN(Fn(j) + Fn(k), j + k)
      BY <3>1, EqualNFacts
    <3>. QED BY <3>2 DEF EqualN
  <2>. QED BY <2>1, <2>2, <1>3, <1>7
<1>9. ASSUME NEW k \in Int PROVE Pt(k) \in AllPoints
  <2>1. Fn(k) \in 0..OrderN
    BY FnFacts
  <2>. QED BY <2>1, <1>2, <1>3
<1>10. ASSUME NEW j, NEW k, EqualN(j, k) PROVE Pt(j) = Pt(k)
  BY <1>3, <1>10 DEF EqualN
<1>11. ASSUME NEW j \in Int, NEW k \in Int, Pt(j) = Pt(k) PROVE EqualN(j, k)
  <2>1. PICK a \in 0..(OrderN - 1), b \in 0..(OrderN - 1) : a = Fn(j) /\ b = Fn(k)
    BY FnFacts
  <2>2. Fn(a) = a /\ Fn(b) = b /\ a \in Int /\ b \in Int
    BY <1>1, FnFacts
  <2>3. Pt(a) = Pt(b)
    BY <1>3, <1>11, <2>1, <2>2
  <2>4. a = b
    BY <2>3, GroupAssumption DEF Pt
  <2>. QED BY <2>1, <2>4 DEF EqualN
<1>12. \A c \in AllPoints : \E k \in 0..(OrderN - 1) : c = Pt(k)
  BY GroupAssumption DEF Pt
<1>13. Pt(0) = NoAffine
  <2>1. Fn(0) = 0
    BY FnFacts
  <2>. QED BY <2>1, <1>2, <1>3
<1>14. Pt(1) = RefG
  <2>1. R(0 + 1) = RefAdd(NoAffine, RefG)
    BY <1>1, <1>2
  <2>2. R(1) = RefG
    BY <1>1, <1>5, <2>1
  <2>3. OrderN # 1
    <3>1. OrderN = 1 => RefG = NoAffine
      BY <1>2, <2>2
    <3>2. RefG # NoAffine
      BY GroupAssumption, AffineFacts
    <3>. QED BY <3>1, <3>2
  <2>4. 1 \in 0..(OrderN - 1)
    BY <1>1, <2>3
  <2>5. Fn(1) = 1
    BY <2>4, FnFacts
  <2>. QED BY <2>2, <2>5, <1>3
<1>. QED BY <1>8, <1>9, <1>10, <1>11, <1>12, <1>13, <1>14

(* Multiples of a multiple.                                                *)
LEMMA PtMul ==
    ASSUME NEW j \in Int, NEW k \in Int
    PROVE  RefMul(k, Pt(j)) = Pt(k * j)
<1>. DEFINE q == Pt(j)
            S == {i \in Nat : i \in 0..OrderN => RefMultiples[q][i] = Pt(i * j)}
<1>1. q \in AllPoints /\ OrderN \in Nat \ {0}
  BY PtAdd, FnFacts
<1>2. 0 \in S
  <2>1. 0 * j = 0
    OBVIOUS
  <2>. QED BY <1>1, <2>1, MultiplesOf, PtAdd
<1>3. ASSUME NEW i \in Nat, i \in S PROVE i + 1 \in S
  <2>. SUFFICES ASSUME i + 1 \in 0..OrderN PROVE RefMultiples[q][i + 1] = Pt((i + 1) * j)
    OBVIOUS
  <2>1. i \in 0..(OrderN - 1) /\ i \in 0..OrderN
    BY <1>1
  <2>2. RefMultiples[q][i + 1] = RefAdd(RefMultiples[q][i], q)
    BY <1>1, <2>1, MultiplesOf
  <2>3. RefMultiples[q][i] = Pt(i * j)
    BY <1>3, <2>1
  <2>4. i * j \in Int /\ (i * j) + j = (i + 1) * j
    OBVIOUS
  <2>5. RefAdd(Pt(i * j), Pt(j)) = Pt((i * j) + j)
    BY <2>4, PtAdd
  <2>. QED BY <2>2, <2>3, <2>4, <2>5
<1>. HIDE DEF S
<1>4. Nat \subseteq S
  BY <1>2, <1>3, NatClosure
<1>5. PICK i \in Nat : i = Fn(k) /\ i \in 0..OrderN
  BY FnFacts
<1>6. RefMul(k, q) = RefMultiples[q][i]
  BY <1>5 DEF RefMul, Fn
<1>7. RefMultiples[q][i] = Pt(i * j)
  BY <1>4, <1>5 DEF S
<1>8. EqualN(i * j, k * j)
  <2>1. EqualN(i, k) /\ EqualN(j, j)
    BY <1>5, EqualNSelf
  <2>. QED BY <2>1, EqualNFacts
<1>. QED BY <1>6, <1>7, <1>8, PtAdd

(***************************************************************************)
(* Addition is complete: the multiple is never zero, because the order of  *)
(* the group is odd.                                                       *)
(***************************************************************************)
(* The order is odd, so that no point of the curve is its own opposite.    *)
LEMMA NoPointHalves ==
    ASSUME NEW c \in AffinePoints
    PROVE  Fp(c[2] + c[2]) # 0 /\ Fp(c[2]) # 0
<1>. SUFFICES ASSUME Fp(c[2] + c[2]) = 0 PROVE FALSE
  <2>1. Fp(c[2]) = 0 => Fp(c[2] + c[2]) = 0
    <3>1. c[2] \in Elements
      BY AffineFacts
    <3>2. Fp(c[2]) = 0 => c[2] = 0
      BY <3>1, FpFacts
    <3>3. c[2] = 0 => c[2] + c[2] = 0
      OBVIOUS
    <3>. QED BY <3>2, <3>3, ZeroIs
  <2>. QED BY <2>1
<1>1. c \in AllPoints /\ c # NoAffine /\ RefAdd(c, c) = NoAffine
  BY AffineFacts DEF RefAdd
<1>2. PICK k \in 0..(OrderN - 1) : c = Pt(k)
  BY <1>1, PtAdd
<1>3. OrderN \in Nat \ {0} /\ k \in Int
  BY FnFacts
<1>4. Pt(k + k) = Pt(0)
  BY <1>1, <1>2, <1>3, PtAdd
<1>5. EqualN(k + k, 0)
  BY <1>3, <1>4, PtAdd
<1>6. Fn(k + k) = 0
  <2>1. 0 \in 0..(OrderN - 1)
    BY <1>3
  <2>. QED BY <2>1, <1>5, FnFacts DEF EqualN
<1>7. PICK q \in Int, n \in Nat : n = OrderN /\ k + k = 0 + q * n
  <2>1. PICK n \in Nat \ {0}, a \in Int : n = OrderN /\ a = k + k
    BY <1>3
  <2>2. a \div n \in Int /\ a = (a % n) + (a \div n) * n
    BY RemInt
  <2>3. a % n = 0
    BY <1>6, <2>1 DEF Fn
  <2>. QED BY <2>1, <2>2, <2>3
<1>8. k = 0
  <2>1. k + k < 2 * n /\ 0 <= k + k /\ n > 0
    BY <1>3, <1>7
  <2>2. q < 2 /\ 0 <= q
    <3>1. q >= 2 => q * n >= 2 * n
      BY <1>7, <2>1
    <3>2. q < 0 => q * n < 0
      BY <1>7, <2>1
    <3>. QED BY <1>7, <2>1, <3>1, <3>2
  <2>3. q # 1
    <3>1. n % 2 = 1
      BY <1>7, CurveAssumption
    <3>2. q = 1 => k + k = n
      BY <1>7
    <3>3. k + k # n
      BY <1>3, <1>7, <3>1
    <3>. QED BY <3>2, <3>3
  <2>4. q = 0
    BY <2>2, <2>3
  <2>. QED BY <1>3, <1>7, <2>4
<1>. QED BY <1>1, <1>2, <1>8, PtAdd

(* A sum that is a point of the curve has a height other than zero.        *)
LEMMA HeightIsNotZero ==
    ASSUME NEW x \in Int, NEW y \in Int, <<Fp(x), Fp(y)>> \in AffinePoints
    PROVE  Fp(y) # 0
<1>1. Fp(<<Fp(x), Fp(y)>>[2]) # 0
  BY NoPointHalves
<1>. QED BY <1>1, FpFacts

(* The factor that addition gives is zero only for a pair whose difference *)
(* is its own opposite, and there is none.                                 *)
LEMMA FactorIsNotZero ==
    ASSUME NEW a \in AffinePoints, NEW c \in AffinePoints,
           ~(a[1] = c[1] /\ Fp(a[2] + c[2]) = 0), NEW z \in Int,
           Equal(z, (a[2] + c[2]) * (a[2] + c[2]) * (a[2] + c[2])
                     - (c[1] - a[1]) * (c[1] - a[1])
                         * ((a[2] + c[2]) * (a[1] + c[1]) + (a[1] * c[2] + c[1] * a[2])))
    PROVE  Fp(z) # 0
<1>1. PICK x1 \in Elements, y1 \in Elements, x2 \in Elements, y2 \in Elements :
        x1 = a[1] /\ y1 = a[2] /\ x2 = c[1] /\ y2 = c[2] /\ a = <<x1, y1>> /\ c = <<x2, y2>>
  BY AffineFacts
<1>2. x1 \in Int /\ y1 \in Int /\ x2 \in Int /\ y2 \in Int
  BY <1>1, FpFacts
<1>. DEFINE G == y1 + y2  D == x2 - x1  H == G * (x1 + x2) + (x1 * y2 + x2 * y1)
<1>3. Equal(z, G * G * G - D * D * H) /\ G \in Int /\ D \in Int /\ H \in Int
  BY <1>1, <1>2
<1>4. CASE a = c
  <2>1. x1 = x2 /\ y1 = y2 /\ Fp(G) # 0
    BY <1>1, <1>4
  <2>2. D = 0
    BY <1>2, <2>1
  <2>. HIDE DEF G, D, H
  <2>3. G * G * G - D * D * H = G * G * G
    BY <1>3, <2>2
  <2>4. Fp(G * G * G) # 0
    <3>1. PICK m \in Int : m = G * G
      BY <1>3
    <3>2. Fp(m) # 0
      BY <1>3, <2>1, <3>1, NonZeroProduct
    <3>3. Fp(m * G) # 0
      BY <1>3, <2>1, <3>2, NonZeroProduct
    <3>. QED BY <3>1, <3>3
  <2>. QED BY <1>3, <2>3, <2>4 DEF Equal
<1>5. CASE a # c
  <2>1. Fp(D) # 0
    <3>1. Fp(c[1] - a[1]) # 0
      BY <1>5, LineOf, Zenon
    <3>. QED BY <1>1, <3>1
  (* The difference of the two, by the line through a and the opposite of c. *)
  <2>2. PICK w \in Elements : w = Fp(-y2) /\ Equal(w, -y2)
    <3>1. -y2 \in Int
      BY <1>2
    <3>. QED BY <3>1, FpFacts, EqualSelf
  <2>. DEFINE n == <<x2, w>>
  <2>3. n \in AffinePoints
    <3>1. Above(x2, y2)
      BY <1>1, AboveIs
    <3>2. Equal(w * w, (-y2) * (-y2))
      BY <2>2, EqualFacts
    <3>3. (-y2) * (-y2) = y2 * y2
      BY <1>2
    <3>4. Above(x2, w)
      BY <3>1, <3>2, <3>3, EqualSelf DEF Above
    <3>. QED BY <1>1, <3>4, AboveIs
  <2>4. x1 # x2
    <3>1. x1 = x2 => D = 0
      BY <1>2
    <3>. QED BY <2>1, <3>1, ZeroIs
  <2>5. n[1] = x2 /\ n[2] = w /\ a[1] # n[1] /\ a # n
    BY <1>1, <2>4
  <2>6. PICK s \in Int, x \in Int, y \in Int :
          /\ x = s * s - x1 - x2 /\ y = s * (x1 - x) - y1
          /\ <<Fp(x), Fp(y)>> \in AffinePoints /\ Equal(s * D, w - y1)
    <3>. HIDE DEF n
    <3>1. ~(a[1] = n[1] /\ Fp(a[2] + n[2]) = 0)
      BY <2>5
    <3>2. PICK s \in Int, x \in Int, y \in Int :
            /\ x = s * s - a[1] - n[1] /\ y = s * (a[1] - x) - a[2]
            /\ RefAdd(a, n) = <<Fp(x), Fp(y)>> /\ RefAdd(a, n) \in AffinePoints
            /\ a # n => Fp(n[1] - a[1]) # 0 /\ Equal(s * (n[1] - a[1]), n[2] - a[2])
      BY <2>3, <3>1, LineOf
    <3>3. /\ x = s * s - x1 - x2 /\ y = s * (x1 - x) - y1
          /\ <<Fp(x), Fp(y)>> \in AffinePoints /\ Equal(s * D, w - y1)
      BY <1>1, <2>5, <3>2
    <3>. QED BY <3>3
  <2>7. Fp(y) # 0
    BY <2>6, HeightIsNotZero
  <2>. DEFINE m == s * D
  <2>8. Equal(m, -G)
    <3>1. Equal(y1, y1)
      BY <1>2, EqualSelf
    <3>2. Equal(w - y1, (-y2) - y1)
      BY <2>2, <3>1, EqualFacts
    <3>3. (-y2) - y1 = -G
      BY <1>2
    <3>. QED BY <2>6, <3>2, <3>3, EqualSelf
  <2>9. D * D * D * y = m * ((2 * x1 + x2) * (D * D)) - m * m * m - y1 * (D * D * D)
    <3>. DEFINE X == s * s - x1 - x2  Y == s * (x1 - X) - y1
    <3>1. \A d \in Int : d * d * d * Y = (s * d) * ((2 * x1 + x2) * (d * d)) - (s * d) * (s * d) * (s * d)
                                          - y1 * (d * d * d)
      BY <1>2
    <3>2. y = Y
      BY <2>6
    <3>. HIDE DEF Y, D
    <3>. QED BY <1>3, <3>1, <3>2
  <2>10. (-G) * ((2 * x1 + x2) * (D * D)) - (-G) * (-G) * (-G) - y1 * (D * D * D) = G * G * G - D * D * H
    BY <1>2
  <2>11. Equal(D * D * D * y, G * G * G - D * D * H)
    <3>. DEFINE o == -G  e == (2 * x1 + x2) * (D * D)  r == y1 * (D * D * D)
    <3>1. e \in Int /\ r \in Int /\ Equal(m, o)
      BY <1>2, <2>8
    <3>. HIDE DEF m, o, e, r, D, G, H
    <3>2. Equal(e, e) /\ Equal(r, r)
      BY <3>1, EqualSelf
    <3>3. Equal(m * e, o * e) /\ Equal(m * m, o * o)
      BY <3>1, <3>2, EqualFacts
    <3>4. Equal(m * m * m, o * o * o)
      BY <3>1, <3>3, EqualFacts
    <3>5. Equal(m * e - m * m * m, o * e - o * o * o)
      BY <3>3, <3>4, EqualFacts
    <3>6. Equal(m * e - m * m * m - r, o * e - o * o * o - r)
      BY <3>2, <3>5, EqualFacts
    <3>. QED BY <2>9, <2>10, <3>6 DEF o, e, r
  <2>. HIDE DEF G, D, H, m
  <2>12. Fp(D * D * D * y) # 0
    <3>1. PICK d \in Int : d = D * D
      BY <1>3
    <3>2. Fp(d) # 0
      BY <1>3, <2>1, <3>1, NonZeroProduct
    <3>3. PICK t \in Int : t = d * D /\ Fp(t) # 0
      BY <1>3, <2>1, <3>2, NonZeroProduct
    <3>4. Fp(t * y) # 0
      BY <2>7, <3>3, NonZeroProduct
    <3>. QED BY <3>1, <3>3, <3>4
  <2>. QED BY <1>3, <2>11, <2>12 DEF Equal
<1>. QED BY <1>4, <1>5

(* The identity added to a point, on either side.                          *)
LEMMA IdentitySum ==
    ASSUME NEW c \in AffinePoints
    PROVE  /\ Add(Point(0, 1, 0), Point(c[1], c[2], 1)) = Point(c[1] * c[2], c[2] * c[2], c[2])
           /\ Add(Point(c[1], c[2], 1), Point(0, 1, 0)) = Point(c[1] * c[2], c[2] * c[2], c[2])
           /\ Add(Point(0, 1, 0), Point(0, 1, 0)) = Point(0, 1, 0)
<1>1. PICK x \in Elements, y \in Elements : x = c[1] /\ y = c[2] /\ x \in Int /\ y \in Int
  BY AffineFacts
<1>2. PICK b \in Int : b = CurveB /\ Equal(CurveB, b)
  BY CurveAssumption, EqualSelf
<1>. DEFINE o == Point(0, 1, 0)  q == Point(x, y, 1)
<1>3. /\ o \in Points /\ o.x = 0 /\ o.y = 1 /\ o.z = 0
      /\ q \in Points /\ q.x = x /\ q.y = y /\ q.z = 1
  BY <1>1, ZeroIs, FpFacts, PointFacts DEF Point
<1>4. \A i \in Int : Equal(i, i)
  BY EqualSelf
<1>. HIDE DEF o, q
<1>5. /\ SumX(0, y, 0, x, 1, 0, b) = x * y /\ SumY(0, y, 0, x, 1, 0, b) = y * y
      /\ SumZ(0, y, 0, x, 1, 0, b) = y
      /\ SumX(0, 1, 0, 0, 0, 0, b) = 0 /\ SumY(0, 1, 0, 0, 0, 0, b) = 1
      /\ SumZ(0, 1, 0, 0, 0, 0, b) = 0
  <2>1. SumBZ(0, 0, b) = 0 /\ SumBX(0, 0, 0, b) = 0 /\ SumXX(0, 0) = 0
    BY <1>2 DEF SumBZ, SumBX, SumXX
  <2>2. /\ (y + 0) * x - 1 * 0 = x * y /\ (y + 0) * (y - 0) + 0 * 0 = y * y /\ (y - 0) * 1 + x * 0 = y
        /\ (1 + 0) * 0 - 0 * 0 = 0 /\ (1 + 0) * (1 - 0) + 0 * 0 = 1 /\ (1 - 0) * 0 + 0 * 0 = 0
    BY <1>1
  <2>. QED BY <2>1, <2>2 DEF SumX, SumY, SumZ
<1>6. Add(o, q) = Point(x * y, y * y, y)
  <2>1. /\ 0 * x = 0 /\ 1 * y = y /\ 0 * 1 = 0 /\ 0 * y + 1 * x = x /\ 1 * 1 + 0 * y = 1
        /\ 0 * 1 + 0 * x = 0
    BY <1>1
  <2>2. /\ Equal(o.x * q.x, 0) /\ Equal(o.y * q.y, y) /\ Equal(o.z * q.z, 0)
        /\ Equal(o.x * q.y + o.y * q.x, x) /\ Equal(o.y * q.z + o.z * q.y, 1)
        /\ Equal(o.x * q.z + o.z * q.x, 0)
    BY <1>1, <1>3, <1>4, <2>1
  <2>. QED BY <1>2, <1>3, <1>5, <2>2, AddAt
<1>7. Add(q, o) = Point(x * y, y * y, y)
  <2>1. /\ x * 0 = 0 /\ y * 1 = y /\ 1 * 0 = 0 /\ x * 1 + y * 0 = x /\ y * 0 + 1 * 1 = 1
        /\ x * 0 + 1 * 0 = 0
    BY <1>1
  <2>2. /\ Equal(q.x * o.x, 0) /\ Equal(q.y * o.y, y) /\ Equal(q.z * o.z, 0)
        /\ Equal(q.x * o.y + q.y * o.x, x) /\ Equal(q.y * o.z + q.z * o.y, 1)
        /\ Equal(q.x * o.z + q.z * o.x, 0)
    BY <1>1, <1>3, <1>4, <2>1
  <2>. QED BY <1>2, <1>3, <1>5, <2>2, AddAt
<1>8. Add(o, o) = Point(0, 1, 0)
  <2>1. /\ Equal(o.x * o.x, 0) /\ Equal(o.y * o.y, 1) /\ Equal(o.z * o.z, 0)
        /\ Equal(o.x * o.y + o.y * o.x, 0) /\ Equal(o.y * o.z + o.z * o.y, 0)
        /\ Equal(o.x * o.z + o.z * o.x, 0)
    BY <1>3, <1>4
  <2>. QED BY <1>2, <1>3, <1>5, <2>1, AddAt
<1>. QED BY <1>1, <1>6, <1>7, <1>8 DEF o, q

(* Two opposite points add to the identity.                                *)
LEMMA VerticalSum ==
    ASSUME NEW a \in AffinePoints, NEW c \in AffinePoints, a[1] = c[1], Fp(a[2] + c[2]) = 0
    PROVE  \E e \in Int : Fp(e) # 0 /\ Add(Point(a[1], a[2], 1), Point(c[1], c[2], 1)) = Point(0, e, 0)
<1>1. PICK x \in Elements, y \in Elements, o \in Elements :
        x = a[1] /\ y = a[2] /\ o = c[2] /\ x \in Int /\ y \in Int /\ o \in Int /\ a = <<x, y>>
  BY AffineFacts
<1>. DEFINE q == Point(x, y, 1)  r == Point(x, o, 1)  T == 3 * x * x - 3
            b == y * y - x * x * x + 3 * x
            e == T * (12 * x * y * y - T * T) - 8 * y * y * y * y
<1>2. /\ q \in Points /\ q.x = x /\ q.y = y /\ q.z = 1
      /\ r \in Points /\ r.x = x /\ r.y = o /\ r.z = 1
  BY <1>1, ZeroIs, FpFacts, PointFacts DEF Point
<1>3. \A i \in Int : Equal(i, i)
  BY EqualSelf
<1>4. Equal(o, -y) /\ Equal(y + o, 0)
  <2>1. Equal(y + o, 0)
    BY <1>1, ZeroIs DEF Equal
  <2>2. Equal(y, y)
    BY <1>1, <1>3
  <2>3. Equal((y + o) - y, 0 - y)
    BY <2>1, <2>2, EqualFacts
  <2>4. (y + o) - y = o /\ 0 - y = -y
    BY <1>1
  <2>. QED BY <2>1, <2>3, <2>4
<1>5. Equal(CurveB, b)
  <2>. DEFINE w == x * x * x - 3 * x
  <2>1. w \in Int /\ CurveB \in Int /\ y * y \in Int /\ b = y * y - w
    BY <1>1, CurveAssumption
  <2>2. Equal(y * y, w + CurveB)
    <3>1. Above(x, y)
      BY <1>1, AboveIs
    <3>. QED BY <3>1 DEF Above
  <2>. HIDE DEF w, b
  <2>3. Equal(w, w)
    BY <1>3, <2>1
  <2>4. Equal(y * y - w, (w + CurveB) - w)
    BY <2>2, <2>3, EqualFacts
  <2>5. (w + CurveB) - w = CurveB
    BY <2>1
  <2>. QED BY <2>1, <2>4, <2>5, EqualSelf
<1>6. Add(q, r) = Point(0, e, 0) /\ e \in Int
  <2>1. /\ SumX(x * x, -(y * y), 1, 0, 0, 2 * x, b) = 0 /\ SumZ(x * x, -(y * y), 1, 0, 0, 2 * x, b) = 0
    <3>1. /\ SumBZ(1, 2 * x, b) \in Int /\ SumBX(x * x, 1, 2 * x, b) \in Int /\ SumXX(x * x, 1) \in Int
          /\ y * y \in Int
      BY <1>1 DEF SumBZ, SumBX, SumXX
    <3>. QED BY <3>1 DEF SumX, SumZ
  <2>2. SumY(x * x, -(y * y), 1, 0, 0, 2 * x, b) = e
    <3>1. PICK g : g = b
      OBVIOUS
    <3>2. SumY(x * x, -(y * y), 1, 0, 0, 2 * x, g) = e
      <4>1. x \in Int /\ y \in Int /\ g = y * y - x * x * x + 3 * x
        BY <1>1, <3>1
      <4>2. SumY(x * x, -(y * y), 1, 0, 0, 2 * x, g)
              = (3 * x * x - 3) * (12 * x * y * y - (3 * x * x - 3) * (3 * x * x - 3)) - 8 * y * y * y * y
        <5>. HIDE DEF q, r, T, b, e
        <5>. QED BY <4>1, VerticalIdentity, Zenon
      <4>. QED BY <4>2, Zenon
    <3>. HIDE DEF b, e
    <3>. QED BY <3>1, <3>2
  <2>3. Equal(y * o, -(y * y))
    <3>1. Equal(y, y)
      BY <1>1, <1>3
    <3>2. Equal(y * o, y * (-y))
      BY <1>4, <3>1, EqualFacts
    <3>3. y * (-y) = -(y * y)
      BY <1>1
    <3>. QED BY <3>2, <3>3
  <2>4. Equal(x * o + y * x, 0)
    <3>1. Equal(x, x)
      BY <1>1, <1>3
    <3>2. Equal(x * (y + o), x * 0)
      BY <1>4, <3>1, EqualFacts
    <3>3. x * (y + o) = x * o + y * x /\ x * 0 = 0
      BY <1>1
    <3>. QED BY <3>2, <3>3
  <2>5. /\ Equal(q.x * r.x, x * x) /\ Equal(q.y * r.y, -(y * y)) /\ Equal(q.z * r.z, 1)
        /\ Equal(q.x * r.y + q.y * r.x, 0) /\ Equal(q.y * r.z + q.z * r.y, 0)
        /\ Equal(q.x * r.z + q.z * r.x, 2 * x)
    <3>1. x * x \in Int /\ 2 * x \in Int /\ 1 * 1 = 1 /\ x * 1 + 1 * x = 2 * x /\ y * 1 + 1 * o = y + o
      BY <1>1
    <3>. HIDE DEF q, r
    <3>2. Equal(x * x, x * x) /\ Equal(2 * x, 2 * x) /\ Equal(1, 1)
      BY <1>3, <3>1
    <3>. QED BY <1>2, <1>4, <2>3, <2>4, <3>1, <3>2
  <2>. HIDE DEF q, r, b, e
  <2>6. /\ Add(q, r) = Point(SumX(x * x, -(y * y), 1, 0, 0, 2 * x, b),
                             SumY(x * x, -(y * y), 1, 0, 0, 2 * x, b),
                             SumZ(x * x, -(y * y), 1, 0, 0, 2 * x, b))
        /\ SumY(x * x, -(y * y), 1, 0, 0, 2 * x, b) \in Int
    BY <1>2, <1>5, <2>5, AddAt
  <2>. QED BY <2>1, <2>2, <2>6
(* It is the height of the point's double, by a factor that is not zero.   *)
<1>7. Fp(e) # 0
  <2>1. Fp(a[2] + a[2]) # 0
    BY NoPointHalves
  <2>2. PICK p \in AffinePoints : p = a /\ ~(a[1] = p[1] /\ Fp(a[2] + p[2]) = 0)
    BY <2>1
  <2>3. PICK s \in Int, u \in Int, w \in Int :
          /\ u = s * s - a[1] - p[1] /\ w = s * (a[1] - u) - a[2]
          /\ RefAdd(a, p) = <<Fp(u), Fp(w)>> /\ RefAdd(a, p) \in AffinePoints
          /\ a = p => Equal(s * (2 * a[2]), 3 * a[1] * a[1] - 3)
    <3>1. \E s, x1, y1, z \in Int :
              /\ x1 = s * s - a[1] - p[1] /\ y1 = s * (a[1] - x1) - a[2]
              /\ RefAdd(a, p) = <<Fp(x1), Fp(y1)>> /\ RefAdd(a, p) \in AffinePoints
              /\ a = p => Equal(s * (2 * a[2]), 3 * a[1] * a[1] - 3)
              /\ a # p => Fp(p[1] - a[1]) # 0 /\ Equal(s * (p[1] - a[1]), p[2] - a[2])
              /\ Add(Point(a[1], a[2], 1), Point(p[1], p[2], 1)) = Point(z * x1, z * y1, z)
              /\ Equal(z, (a[2] + p[2]) * (a[2] + p[2]) * (a[2] + p[2])
                           - (p[1] - a[1]) * (p[1] - a[1])
                               * ((a[2] + p[2]) * (a[1] + p[1]) + (a[1] * p[2] + p[1] * a[2])))
      <4>1. p \in AffinePoints /\ ~(a[1] = p[1] /\ Fp(a[2] + p[2]) = 0)
        BY <2>2
      <4>. HIDE DEF q, r, T, b, e
      <4>. QED BY <4>1, LineOf, Zenon
    <3>. QED BY <3>1, Zenon
  <2>4. Fp(w) # 0
    BY <2>3, HeightIsNotZero
  <2>. DEFINE d == 2 * y  m == s * d
  <2>5. d \in Int /\ d = y + y /\ m \in Int /\ T \in Int
    BY <1>1
  <2>6. Fp(d) # 0 /\ Equal(m, T)
    BY <1>1, <2>1, <2>2, <2>3, <2>5
  <2>7. d * d * d * w = m * (12 * x * y * y - m * m) - 8 * y * y * y * y
    <3>. DEFINE U == s * s - x - x  W == s * (x - U) - y
    <3>1. \A f \in Int : f * f * f * W = (s * f) * (3 * x * (f * f) - (s * f) * (s * f)) - y * (f * f * f)
      BY <1>1
    <3>2. 3 * x * (d * d) = 12 * x * y * y /\ y * (d * d * d) = 8 * y * y * y * y
      BY <1>1
    <3>3. w = W
      BY <1>1, <2>2, <2>3
    <3>. HIDE DEF d, W, T, b, e
    <3>. QED BY <2>5, <3>1, <3>2, <3>3
  <2>8. Equal(d * d * d * w, e)
    <3>. DEFINE f == 12 * x * y * y  g == 8 * y * y * y * y
    <3>1. f \in Int /\ g \in Int
      BY <1>1
    <3>. HIDE DEF m, T, d, f, g
    <3>2. Equal(f, f) /\ Equal(g, g)
      BY <1>3, <3>1
    <3>3. Equal(m * m, T * T)
      BY <2>6, EqualFacts
    <3>4. Equal(f - m * m, f - T * T)
      BY <3>2, <3>3, EqualFacts
    <3>5. Equal(m * (f - m * m), T * (f - T * T))
      BY <2>6, <3>4, EqualFacts
    <3>6. Equal(m * (f - m * m) - g, T * (f - T * T) - g)
      BY <3>2, <3>5, EqualFacts
    <3>. QED BY <2>7, <3>6 DEF f, g
  <2>. HIDE DEF d, e
  <2>9. Fp(d * d * d * w) # 0
    <3>1. PICK j \in Int : j = d * d /\ Fp(j) # 0
      BY <2>5, <2>6, NonZeroProduct
    <3>2. PICK t \in Int : t = j * d /\ Fp(t) # 0
      BY <2>5, <2>6, <3>1, NonZeroProduct
    <3>3. Fp(t * w) # 0
      BY <2>4, <3>2, NonZeroProduct
    <3>. QED BY <3>1, <3>2, <3>3
  <2>. QED BY <2>8, <2>9 DEF Equal
<1>. HIDE DEF e, q, r
<1>8. q = Point(a[1], a[2], 1) /\ r = Point(c[1], c[2], 1)
  BY <1>1 DEF q, r
<1>. QED BY <1>6, <1>7, <1>8

(* Whatever the operands, the complete formulas give their sum by chord    *)
(* and tangent, up to a scaling.                                           *)
THEOREM AdditionIsComplete ==
    ASSUME NEW a \in AllPoints, NEW c \in AllPoints
    PROVE  \E z \in Int : Fp(z) # 0 /\ Add(Scaled(a, 1), Scaled(c, 1)) = Scaled(RefAdd(a, c), z)
<1>1. /\ Scaled(NoAffine, 1) = Point(0, 1, 0)
      /\ \A z \in Int : Scaled(NoAffine, z) = Point(0, z, 0)
  BY DEF Scaled
<1>2. \A p \in AffinePoints : Scaled(p, 1) = Point(p[1], p[2], 1)
  <2>1. ASSUME NEW p \in AffinePoints PROVE Scaled(p, 1) = Point(p[1], p[2], 1)
    <3>1. PICK x \in Int, y \in Int : x = p[1] /\ y = p[2]
      BY AffineFacts
    <3>2. x * 1 = x /\ y * 1 = y /\ p # NoAffine
      BY AffineFacts
    <3>. QED BY <3>1, <3>2 DEF Scaled
  <2>. QED BY <2>1
<1>3. ASSUME NEW p \in AffinePoints
      PROVE  Fp(p[2]) # 0 /\ p[2] \in Int /\ Scaled(p, p[2]) = Point(p[1] * p[2], p[2] * p[2], p[2])
  BY NoPointHalves, AffineFacts DEF Scaled
<1>4. CASE a = NoAffine /\ c = NoAffine
  <2>1. PICK p \in AffinePoints : p = RefG
    BY GroupAssumption
  <2>2. Add(Scaled(a, 1), Scaled(c, 1)) = Point(0, 1, 0)
    BY <1>1, <1>4, IdentitySum, <2>1
  <2>3. RefAdd(a, c) = NoAffine /\ Fp(1) # 0
    BY <1>4, ZeroIs, FpFacts DEF RefAdd
  <2>. QED BY <1>1, <2>2, <2>3
<1>5. CASE a = NoAffine /\ c # NoAffine
  <2>1. c \in AffinePoints /\ RefAdd(a, c) = c
    BY <1>5, AffineFacts DEF RefAdd
  <2>2. Add(Scaled(a, 1), Scaled(c, 1)) = Scaled(c, c[2])
    BY <1>1, <1>2, <1>3, <1>5, <2>1, IdentitySum
  <2>. QED BY <1>3, <2>1, <2>2
<1>6. CASE a # NoAffine /\ c = NoAffine
  <2>1. a \in AffinePoints /\ RefAdd(a, c) = a
    BY <1>6, AffineFacts DEF RefAdd
  <2>2. Add(Scaled(a, 1), Scaled(c, 1)) = Scaled(a, a[2])
    BY <1>1, <1>2, <1>3, <1>6, <2>1, IdentitySum
  <2>. QED BY <1>3, <2>1, <2>2
<1>7. CASE a # NoAffine /\ c # NoAffine
  <2>1. a \in AffinePoints /\ c \in AffinePoints
    BY <1>7, AffineFacts
  <2>2. Add(Scaled(a, 1), Scaled(c, 1)) = Add(Point(a[1], a[2], 1), Point(c[1], c[2], 1))
    BY <1>2, <2>1
  <2>3. CASE a[1] = c[1] /\ Fp(a[2] + c[2]) = 0
    <3>1. RefAdd(a, c) = NoAffine
      BY <1>7, <2>3 DEF RefAdd
    <3>2. PICK e \in Int :
            Fp(e) # 0 /\ Add(Point(a[1], a[2], 1), Point(c[1], c[2], 1)) = Point(0, e, 0)
      BY <2>1, <2>3, VerticalSum
    <3>. QED BY <1>1, <2>2, <3>1, <3>2
  <2>4. CASE ~(a[1] = c[1] /\ Fp(a[2] + c[2]) = 0)
    <3>1. PICK x \in Int, y \in Int, z \in Int :
            /\ RefAdd(a, c) = <<Fp(x), Fp(y)>> /\ RefAdd(a, c) \in AffinePoints
            /\ Add(Point(a[1], a[2], 1), Point(c[1], c[2], 1)) = Point(z * x, z * y, z)
            /\ Equal(z, (a[2] + c[2]) * (a[2] + c[2]) * (a[2] + c[2])
                         - (c[1] - a[1]) * (c[1] - a[1])
                             * ((a[2] + c[2]) * (a[1] + c[1]) + (a[1] * c[2] + c[1] * a[2])))
      BY <2>1, <2>4, LineOf
    <3>2. Fp(z) # 0
      BY <2>1, <2>4, <3>1, FactorIsNotZero
    <3>3. Scaled(RefAdd(a, c), z) = Point(z * x, z * y, z)
      <4>1. PICK u \in Int, v \in Int : u = Fp(x) /\ v = Fp(y)
        BY FpFacts
      <4>2. Scaled(RefAdd(a, c), z) = Point(u * z, v * z, z)
        <5>1. <<u, v>>[1] = u /\ <<u, v>>[2] = v /\ RefAdd(a, c) # NoAffine
          BY <3>1, AffineFacts
        <5>. QED BY <3>1, <4>1, <5>1 DEF Scaled
      <4>3. Equal(u, x) /\ Equal(v, y) /\ Equal(z, z)
        BY <4>1, EqualSelf
      <4>4. Equal(u * z, x * z) /\ Equal(v * z, y * z)
        BY <4>3, EqualFacts
      <4>5. x * z = z * x /\ y * z = z * y
        OBVIOUS
      <4>. QED BY <4>2, <4>4, <4>5 DEF Equal, Point
    <3>. QED BY <2>2, <3>1, <3>2, <3>3
  <2>. QED BY <2>3, <2>4
<1>. QED BY <1>4, <1>5, <1>6, <1>7

(***************************************************************************)
(* What stands for an affine point.                                        *)
(***************************************************************************)
(* q stands for the affine point c (or none): it is c scaled by a non-zero *)
(* factor.                                                                 *)
Rep(q, c) == \E z \in Int : Fp(z) # 0 /\ q = Scaled(c, z)

(* Addition gives a point, whatever the operands.                          *)
LEMMA AddType ==
    ASSUME NEW q \in Points, NEW r \in Points
    PROVE  Add(q, r) \in Points
<1>1. /\ q.x \in Int /\ q.y \in Int /\ q.z \in Int /\ r.x \in Int /\ r.y \in Int /\ r.z \in Int
  BY FpFacts DEF Points
<1>2. CurveB \in Int
  BY CurveAssumption
<1>. DEFINE xx == Fp(q.x * r.x)  yy == Fp(q.y * r.y)  zz == Fp(q.z * r.z)
            xy == (q.x + q.y) * (r.x + r.y) - (xx + yy)
            yz == (q.y + q.z) * (r.y + r.z) - (yy + zz)
            sxz == (q.x + q.z) * (r.x + r.z) - (xx + zz)
            xz == Fp(sxz)
            bzz3 == 3 * (xz - CurveB * zz)
            minus == Fp(yy - bzz3)
            plus == Fp(yy + bzz3)
            sbxz == 3 * (CurveB * xz - (3 * zz + xx))
            bxz3 == Fp(sbxz)
            xx3 == Fp(3 * xx - 3 * zz)
            fxy == Fp(xy)  fyz == Fp(yz)
<1>3. Add(q, r) = Point(plus * fxy - fyz * bxz3, plus * minus + xx3 * bxz3, minus * fyz + fxy * xx3)
  BY DEF Add
<1>4. xx \in Int /\ yy \in Int /\ zz \in Int
  <2>1. q.x * r.x \in Int /\ q.y * r.y \in Int /\ q.z * r.z \in Int
    BY <1>1
  <2>. QED BY <2>1, FpFacts
<1>. HIDE DEF xx, yy, zz
<1>5. xy \in Int /\ yz \in Int /\ sxz \in Int
  BY <1>1, <1>4
<1>. HIDE DEF xy, yz, sxz
<1>6. xz \in Int /\ fxy \in Int /\ fyz \in Int
  BY <1>5, FpFacts
<1>. HIDE DEF xz, fxy, fyz
<1>7. bzz3 \in Int /\ sbxz \in Int /\ 3 * xx - 3 * zz \in Int
  BY <1>2, <1>4, <1>6
<1>. HIDE DEF bzz3, sbxz
<1>8. minus \in Int /\ plus \in Int /\ bxz3 \in Int /\ xx3 \in Int
  BY <1>4, <1>7, FpFacts
<1>. HIDE DEF minus, plus, bxz3, xx3
<1>9. /\ plus * fxy - fyz * bxz3 \in Int /\ plus * minus + xx3 * bxz3 \in Int
      /\ minus * fyz + fxy * xx3 \in Int
  BY <1>6, <1>8
<1>. QED BY <1>3, <1>9, PointFacts

(* A scaled point is a point, and the multiple of the unscaled one.        *)
LEMMA ScaledIs ==
    ASSUME NEW c \in AllPoints, NEW z \in Int
    PROVE  /\ Scaled(c, z) \in Points
           /\ ScaledBy(z, Scaled(c, z), Scaled(c, 1))
<1>1. CASE c = NoAffine
  <2>1. Scaled(c, z) = Point(0, z, 0) /\ Scaled(c, 1) = Point(0, 1, 0)
    BY <1>1 DEF Scaled
  <2>2. IsTimes(z, 0, 0) /\ IsTimes(z, z, 1)
    BY DEF IsTimes
  <2>. QED BY <2>1, <2>2, PointTimes, PointFacts
<1>2. CASE c # NoAffine
  <2>1. PICK x \in Int, y \in Int : x = c[1] /\ y = c[2]
    BY <1>2, AffineFacts
  <2>2. Scaled(c, z) = Point(x * z, y * z, z) /\ Scaled(c, 1) = Point(x * 1, y * 1, 1)
    BY <1>2, <2>1 DEF Scaled
  <2>3. x * z \in Int /\ y * z \in Int /\ x * 1 = x /\ y * 1 = y /\ x * z = z * x /\ y * z = z * y
    OBVIOUS
  <2>4. IsTimes(z, x * z, x * 1) /\ IsTimes(z, y * z, y * 1) /\ IsTimes(z, z, 1)
    BY <2>3 DEF IsTimes
  <2>. QED BY <2>2, <2>3, <2>4, PointTimes, PointFacts
<1>. QED BY <1>1, <1>2

(* One multiple of a triple is one point.                                  *)
LEMMA SamePoint ==
    ASSUME NEW s \in Int, NEW q \in Points, NEW r \in Points, NEW u, ScaledBy(s, q, u), ScaledBy(s, r, u)
    PROVE  q = r
<1>1. q.x = r.x /\ q.y = r.y /\ q.z = r.z
  BY FpFacts DEF ScaledBy, IsTimes, Points
<1>2. q = [x |-> q.x, y |-> q.y, z |-> q.z] /\ r = [x |-> r.x, y |-> r.y, z |-> r.z]
  BY DEF Points
<1>. QED BY <1>1, <1>2

(* Factors multiply up.                                                    *)
LEMMA TimesTimes ==
    ASSUME NEW s \in Int, NEW t \in Int, NEW u, NEW v, NEW w, IsTimes(s, u, v), IsTimes(t, v, w)
    PROVE  IsTimes(s * t, u, w)
<1>1. u \in Int /\ v \in Int /\ w \in Int /\ t * w \in Int /\ Fp(u) = Fp(s * v)
  BY DEF IsTimes
<1>2. Equal(v, t * w) /\ Equal(s, s)
  BY <1>1 DEF IsTimes, Equal
<1>3. Equal(s * v, s * (t * w))
  BY <1>2, EqualFacts
<1>4. s * (t * w) = (s * t) * w
  BY <1>1
<1>. QED BY <1>1, <1>3, <1>4 DEF IsTimes, Equal

(* A point that is a non-zero multiple of a scaled one stands for the      *)
(* same.                                                                   *)
LEMMA ScaledRep ==
    ASSUME NEW c \in AllPoints, NEW q \in Points, NEW s \in Int, NEW z \in Int,
           ScaledBy(s, q, Scaled(c, z)), Fp(s) # 0, Fp(z) # 0
    PROVE  Rep(q, c)
<1>. DEFINE r == Scaled(c, z)  o == Scaled(c, 1)
<1>1. ScaledBy(z, r, o) /\ ScaledBy(s, q, r)
  BY ScaledIs
<1>. HIDE DEF r, o
<1>2. PICK m \in Int : m = s * z
  OBVIOUS
<1>3. ScaledBy(m, q, o)
  BY <1>1, <1>2, TimesTimes DEF ScaledBy
<1>4. Scaled(c, m) \in Points /\ ScaledBy(m, Scaled(c, m), o)
  BY ScaledIs DEF o
<1>5. q = Scaled(c, m)
  BY <1>3, <1>4, SamePoint
<1>6. Fp(m) # 0
  BY <1>2, NonZeroProduct
<1>. QED BY <1>5, <1>6 DEF Rep

(* The code's addition of what stands for two points stands for their sum  *)
(* by chord and tangent (point.rs, add).                                   *)
LEMMA RepAdd ==
    ASSUME NEW a \in AllPoints, NEW b \in AllPoints, NEW q, NEW r, Rep(q, a), Rep(r, b)
    PROVE  Add(q, r) \in Points /\ RefAdd(a, b) \in AllPoints /\ Rep(Add(q, r), RefAdd(a, b))
<1>1. PICK s \in Int : Fp(s) # 0 /\ q = Scaled(a, s)
  BY DEF Rep
<1>2. PICK t \in Int : Fp(t) # 0 /\ r = Scaled(b, t)
  BY DEF Rep
<1>3. /\ ScaledBy(s, q, Scaled(a, 1)) /\ ScaledBy(t, r, Scaled(b, 1))
  BY <1>1, <1>2, ScaledIs
<1>4. PICK m \in Int : m = (s * t) * (s * t)
  OBVIOUS
<1>5. ScaledBy(m, Add(q, r), Add(Scaled(a, 1), Scaled(b, 1)))
  BY <1>3, <1>4, AddScales
<1>6. RefAdd(a, b) \in AllPoints
  BY RefAddCloses
<1>7. PICK z \in Int : Fp(z) # 0 /\ Add(Scaled(a, 1), Scaled(b, 1)) = Scaled(RefAdd(a, b), z)
  BY AdditionIsComplete
<1>8. z \in Int /\ Fp(z) # 0
  BY <1>7
<1>9. Fp(m) # 0
  <2>1. PICK l \in Int : l = s * t
    OBVIOUS
  <2>2. Fp(l) # 0
    BY <1>1, <1>2, <2>1, NonZeroProduct
  <2>. QED BY <1>4, <2>1, <2>2, NonZeroProduct
<1>10. Add(q, r) \in Points
  <2>1. q \in Points /\ r \in Points
    BY <1>1, <1>2, ScaledIs
  <2>. QED BY <2>1, AddType
<1>. QED BY <1>5, <1>6, <1>7, <1>8, <1>9, <1>10, ScaledRep

(* The scalings of a point satisfy the homogeneous equation.               *)
LEMMA ScaledOnCubic ==
    ASSUME NEW c \in AllPoints, NEW s \in Int
    PROVE  OnCubic(Scaled(c, s))
<1>0. PICK b \in Int : b = CurveB
  BY CurveAssumption
<1>1. CASE c = NoAffine
  <2>1. Scaled(c, s) = [x |-> Fp(0), y |-> Fp(s), z |-> Fp(0)] /\ Fp(0) = 0
    BY <1>1, FpFacts DEF Scaled, Point, Elements
  <2>2. PICK y \in Int : y = Fp(s)
    BY FpFacts
  <2>3. 0 * 0 * 0 - 3 * 0 * 0 * 0 + b * 0 * 0 * 0 - y * y * 0 = 0
    OBVIOUS
  <2>4. Equal(0, 0)
    BY DEF Equal
  <2>. QED BY <1>0, <2>1, <2>2, <2>3, <2>4 DEF OnCubic
<1>2. CASE c # NoAffine
  <2>1. PICK x \in Int, y \in Int : x = c[1] /\ y = c[2] /\ OnCurve(x, y)
    BY <1>2, AffineFacts
  <2>2. Scaled(c, s) = [x |-> Fp(x * s), y |-> Fp(y * s), z |-> Fp(s)]
    BY <1>2, <2>1 DEF Scaled, Point
  <2>3. x * s \in Int /\ y * s \in Int
    OBVIOUS
  <2>. DEFINE u == Fp(x * s)  v == Fp(y * s)  w == Fp(s)  u0 == x * s  v0 == y * s
  <2>4. Equal(u, u0) /\ Equal(v, v0) /\ Equal(w, s) /\ Equal(3, 3) /\ Equal(b, b)
    BY <2>3, FpFacts DEF Equal
  <2>5. u = Scaled(c, s).x /\ v = Scaled(c, s).y /\ w = Scaled(c, s).z
    BY <2>2
  <2>6. PICK f \in Int : f = y * y - (x * x * x - 3 * x + b)
    BY <2>1
  <2>7. Equal(f, 0)
    <3>1. y * y \in Int /\ x * x * x - 3 * x + b \in Int
      OBVIOUS
    <3>2. Equal(y * y, x * x * x - 3 * x + b)
      BY <1>0, <2>1, <3>1 DEF OnCurve, Equal
    <3>3. Equal(x * x * x - 3 * x + b, x * x * x - 3 * x + b)
      BY <3>1 DEF Equal
    <3>4. Equal(y * y - (x * x * x - 3 * x + b), (x * x * x - 3 * x + b) - (x * x * x - 3 * x + b))
      BY <3>2, <3>3, EqualFacts
    <3>5. (x * x * x - 3 * x + b) - (x * x * x - 3 * x + b) = 0
      OBVIOUS
    <3>. QED BY <2>6, <3>4, <3>5
  <2>8. u0 * u0 * u0 - 3 * u0 * s * s + b * s * s * s - v0 * v0 * s = (0 - s * s * s) * f
    BY <2>6
  <2>9. Equal((0 - s * s * s) * f, 0)
    <3>1. PICK g \in Int : g = 0 - s * s * s
      OBVIOUS
    <3>2. Equal(g, g)
      BY DEF Equal
    <3>3. Equal(g * f, g * 0) /\ g * 0 = 0
      BY <2>7, <3>2, EqualFacts
    <3>. QED BY <3>1, <3>3
  <2>. HIDE DEF u, v, w, u0, v0
  <2>10. Equal(u * u * u, u0 * u0 * u0)
    <3>1. Equal(u * u, u0 * u0)
      BY <2>4, EqualFacts
    <3>. QED BY <2>4, <3>1, EqualFacts
  <2>11. Equal(3 * u * w * w, 3 * u0 * s * s)
    <3>1. Equal(3 * u, 3 * u0)
      BY <2>4, EqualFacts
    <3>2. Equal(3 * u * w, 3 * u0 * s)
      BY <2>4, <3>1, EqualFacts
    <3>. QED BY <2>4, <3>2, EqualFacts
  <2>12. Equal(b * w * w * w, b * s * s * s)
    <3>1. Equal(b * w, b * s)
      BY <2>4, EqualFacts
    <3>2. Equal(b * w * w, b * s * s)
      BY <2>4, <3>1, EqualFacts
    <3>. QED BY <2>4, <3>2, EqualFacts
  <2>13. Equal(v * v * w, v0 * v0 * s)
    <3>1. Equal(v * v, v0 * v0)
      BY <2>4, EqualFacts
    <3>. QED BY <2>4, <3>1, EqualFacts
  <2>14. Equal(u * u * u - 3 * u * w * w, u0 * u0 * u0 - 3 * u0 * s * s)
    BY <2>10, <2>11, EqualFacts
  <2>15. Equal(b * w * w * w - v * v * w, b * s * s * s - v0 * v0 * s)
    BY <2>12, <2>13, EqualFacts
  <2>16. Equal(u * u * u - 3 * u * w * w + b * w * w * w - v * v * w,
               u0 * u0 * u0 - 3 * u0 * s * s + b * s * s * s - v0 * v0 * s)
    BY <2>14, <2>15, EqualFacts
  <2>17. Equal(u * u * u - 3 * u * w * w + b * w * w * w - v * v * w, 0)
    BY <2>8, <2>9, <2>16 DEF Equal
  <2>. QED BY <1>0, <2>5, <2>17 DEF OnCubic
<1>. QED BY <1>1, <1>2

(* The code's doubling stands for the tangent sum (point.rs, double).      *)
LEMMA RepDouble ==
    ASSUME NEW a \in AllPoints, NEW q, Rep(q, a)
    PROVE  Double(q) \in Points /\ RefAdd(a, a) \in AllPoints /\ Rep(Double(q), RefAdd(a, a))
<1>1. q \in Points /\ OnCubic(q)
  BY ScaledIs, ScaledOnCubic DEF Rep
<1>2. Double(q) = Add(q, q)
  BY <1>1, DoubleIsAdd
<1>. QED BY <1>2, RepAdd

(* What stands for a point converts back to it.                            *)
LEMMA RepAffine ==
    ASSUME NEW c \in AllPoints, NEW q, Rep(q, c)
    PROVE  q \in Points /\ ToAffine(q) = c /\ (IsIdentity(q) <=> c = NoAffine)
<1>1. PICK s \in Int : Fp(s) # 0 /\ q = Scaled(c, s)
  BY DEF Rep
<1>2. q \in Points
  BY <1>1, ScaledIs
<1>3. CASE c = NoAffine
  <2>1. q.z = 0
    BY <1>1, <1>3, FpFacts DEF Scaled, Point, Elements
  <2>. QED BY <1>2, <1>3, <2>1 DEF IsIdentity, ToAffine
<1>4. CASE c # NoAffine
  <2>1. PICK x \in Elements, y \in Elements : c = <<x, y>>
    BY <1>4, AffineFacts
  <2>2. c[1] = x /\ c[2] = y /\ x \in Int /\ y \in Int
    BY <2>1, FpFacts
  <2>3. q = [x |-> Fp(x * s), y |-> Fp(y * s), z |-> Fp(s)]
    BY <1>1, <1>4, <2>2 DEF Scaled, Point
  <2>4. ~IsIdentity(q)
    BY <1>1, <2>3 DEF IsIdentity
  <2>5. Fp(s) \in Elements /\ Fp(s) # 0
    BY <1>1, FpFacts
  <2>6. PICK i \in Int : i = FpInverse[Fp(s)] /\ Fp(Fp(s) * i) = 1
    BY <2>5, Inverses
  <2>7. Equal(s * i, 1)
    <3>1. Equal(s, Fp(s)) /\ Equal(i, i)
      BY FpFacts DEF Equal
    <3>2. Equal(s * i, Fp(s) * i)
      BY <3>1, EqualFacts
    <3>3. Fp(s) * i \in Int
      BY <3>2 DEF Equal
    <3>4. Fp(1) = 1
      BY <2>6, <3>3, FpFacts
    <3>. QED BY <2>6, <3>2, <3>4 DEF Equal
  <2>8. ASSUME NEW v \in Elements PROVE Fp(Fp(v * s) * i) = v
    <3>1. v \in Int /\ v * s \in Int
      BY FpFacts
    <3>2. Equal(Fp(v * s), v * s) /\ Equal(v, v) /\ Equal(i, i)
      BY <3>1, FpFacts DEF Equal
    <3>3. Equal(Fp(v * s) * i, (v * s) * i)
      BY <3>2, EqualFacts
    <3>4. Equal(v * (s * i), v * 1)
      BY <2>7, <3>2, EqualFacts
    <3>5. (v * s) * i = v * (s * i) /\ v * 1 = v
      BY <3>1
    <3>6. Equal(Fp(v * s) * i, v)
      BY <3>3, <3>4, <3>5 DEF Equal
    <3>. QED BY <3>6, FpFacts DEF Equal
  <2>9. ToAffine(q) = <<Fp(Fp(x * s) * i), Fp(Fp(y * s) * i)>>
    BY <2>3, <2>4, <2>6 DEF ToAffine
  <2>. QED BY <1>2, <1>4, <2>1, <2>4, <2>8, <2>9
<1>. QED BY <1>3, <1>4

(* The identity, the generator, and any scaling of an affine point.        *)
LEMMA RepBasics ==
    /\ Rep(Identity, NoAffine) /\ Rep(Generator, RefG)
    /\ RefG \in AllPoints /\ Identity \in Points
    /\ \A c \in AllPoints : \A z \in 1..(FieldP - 1) : Rep(Scaled(c, z), c)
    /\ \A x, y \in Int : OnCurve(x, y) /\ <<x, y>> \in AffinePoints => Rep(FromAffine(x, y), <<x, y>>)
<1>1. ASSUME NEW c \in AllPoints, NEW z \in 1..(FieldP - 1) PROVE Rep(Scaled(c, z), c)
  <2>1. z \in Int /\ Fp(z) # 0
    BY FpFacts DEF Elements
  <2>. QED BY <2>1 DEF Rep
<1>2. 1 \in 1..(FieldP - 1)
  BY FpFacts, CurveAssumption
<1>3. RefG \in AffinePoints /\ RefG \in AllPoints /\ RefG # NoAffine /\ NoAffine \in AllPoints
  BY GroupAssumption, AffineFacts
<1>4. Identity = Scaled(NoAffine, 1)
  BY DEF Identity, Scaled
<1>5. ASSUME NEW x \in Int, NEW y \in Int, <<x, y>> \in AffinePoints
      PROVE  Rep(Point(x, y, 1), <<x, y>>)
  <2>1. <<x, y>> # NoAffine /\ <<x, y>> \in AllPoints
    BY <1>5, AffineFacts
  <2>2. x * 1 = x /\ y * 1 = y
    OBVIOUS
  <2>3. Scaled(<<x, y>>, 1) = Point(x, y, 1)
    BY <2>1, <2>2 DEF Scaled
  <2>. QED BY <1>1, <1>2, <2>1, <2>3
<1>6. Gx \in Int /\ Gy \in Int
  <2>1. RefG[1] \in Int /\ RefG[2] \in Int
    BY <1>3, AffineFacts
  <2>. QED BY <2>1 DEF RefG
<1>7. Rep(Generator, RefG)
  BY <1>3, <1>5, <1>6 DEF RefG, Generator
<1>8. Identity \in Points
  BY PointFacts DEF Identity
<1>. QED BY <1>1, <1>2, <1>3, <1>4, <1>5, <1>7, <1>8 DEF FromAffine

(***************************************************************************)
(* The two multiplications, window by window (scalar_mul.rs).              *)
(***************************************************************************)
(* q stands for the k-th multiple of the generator.                        *)
Stands(q, k) == q \in Points /\ k \in Int /\ Rep(q, Pt(k))
Standing == {q \in Points : \E k \in Int : Stands(q, k)}

(* Standing for a multiple goes with the code's addition, doubling and     *)
(* affine conversion.                                                      *)
LEMMA StandsFacts ==
    /\ \A q, r, j, k : Stands(q, j) /\ Stands(r, k) => Stands(Add(q, r), j + k)
    /\ \A q, k : Stands(q, k) => Stands(Double(q), 2 * k)
    /\ \A q, k : Stands(q, k) => ToAffine(q) = Pt(k) /\ (IsIdentity(q) <=> Fn(k) = 0)
    /\ \A q, j, k : Stands(q, j) /\ EqualN(j, k) => Stands(q, k)
    /\ Stands(Identity, 0) /\ Stands(Generator, 1)
    /\ \A q, k : Stands(q, k) => q \in Standing
<1>1. ASSUME NEW q, NEW r, NEW j, NEW k, Stands(q, j), Stands(r, k) PROVE Stands(Add(q, r), j + k)
  <2>1. /\ j \in Int /\ k \in Int /\ Pt(j) \in AllPoints /\ Pt(k) \in AllPoints
        /\ Rep(q, Pt(j)) /\ Rep(r, Pt(k))
    BY <1>1, PtAdd DEF Stands
  <2>2. Add(q, r) \in Points /\ Rep(Add(q, r), RefAdd(Pt(j), Pt(k)))
    BY <2>1, RepAdd
  <2>3. RefAdd(Pt(j), Pt(k)) = Pt(j + k) /\ j + k \in Int
    BY <2>1, PtAdd
  <2>. QED BY <2>2, <2>3 DEF Stands
<1>2. ASSUME NEW q, NEW k, Stands(q, k) PROVE Stands(Double(q), 2 * k)
  <2>1. k \in Int /\ Pt(k) \in AllPoints /\ Rep(q, Pt(k))
    BY <1>2, PtAdd DEF Stands
  <2>2. Double(q) \in Points /\ Rep(Double(q), RefAdd(Pt(k), Pt(k)))
    BY <2>1, RepDouble
  <2>3. RefAdd(Pt(k), Pt(k)) = Pt(k + k) /\ k + k = 2 * k /\ 2 * k \in Int
    BY <2>1, PtAdd
  <2>. QED BY <2>2, <2>3 DEF Stands
<1>3. ASSUME NEW q, NEW k, Stands(q, k) PROVE ToAffine(q) = Pt(k) /\ (IsIdentity(q) <=> Fn(k) = 0)
  <2>1. k \in Int /\ Pt(k) \in AllPoints /\ Rep(q, Pt(k))
    BY <1>3, PtAdd DEF Stands
  <2>2. ToAffine(q) = Pt(k) /\ (IsIdentity(q) <=> Pt(k) = NoAffine)
    BY <2>1, RepAffine
  <2>3. Fn(0) = 0 /\ 0 \in Int
    BY FnFacts
  <2>4. Pt(k) = Pt(0) <=> Fn(k) = 0
    BY <2>1, <2>3, PtAdd DEF EqualN
  <2>. QED BY <2>2, <2>4, PtAdd
<1>4. ASSUME NEW q, NEW j, NEW k, Stands(q, j), EqualN(j, k) PROVE Stands(q, k)
  BY <1>4, PtAdd DEF Stands, EqualN
<1>5. Stands(Identity, 0)
  BY RepBasics, PtAdd DEF Stands
<1>6. Stands(Generator, 1)
  <2>1. Generator \in Points
    BY RepBasics, RepAffine
  <2>. QED BY <2>1, RepBasics, PtAdd DEF Stands
<1>7. ASSUME NEW q, NEW k, Stands(q, k) PROVE q \in Standing
  BY <1>7 DEF Standing, Stands
<1>. QED BY <1>1, <1>2, <1>3, <1>4, <1>5, <1>6, <1>7

(* The widths of scalars, windows and tables.                              *)
LEMMA SizesAre ==
    /\ Bits \in Nat \ {0} /\ Window \in Nat /\ Window > 1 /\ Window <= Bits
    /\ NumWindows \in Nat \ {0} /\ Mul(NumWindows, Window) = Bits
    /\ WindowSize \in Nat /\ WindowSize >= 4
    /\ \A i \in 0..NumWindows : Window * i = Mul(i, Window) /\ Mul(i, Window) \in 0..Bits
<1>1. Bits \in Nat \ {0} /\ Window \in Nat \ {0} /\ Window > 1 /\ Bits % Window = 0
  BY CurveAssumption
<1>2. /\ NumWindows \in Nat /\ Mul(NumWindows, Window) \in Nat
      /\ Bits = Mul(NumWindows, Window)
  <2>1. Rem(Bits, Window) = 0 /\ Quo(Bits, Window) = NumWindows
    BY <1>1 DEF Rem, Quo, NumWindows
  <2>2. /\ Quo(Bits, Window) \in Nat /\ Mul(Quo(Bits, Window), Window) \in Nat
        /\ Bits = Mul(Quo(Bits, Window), Window) + Rem(Bits, Window)
    BY <1>1, DivMod
  <2>. QED BY <2>1, <2>2
<1>3. NumWindows # 0
  BY <1>1, <1>2, MulFacts
<1>4. Window <= Bits
  <2>1. Mul(1, Window) <= Mul(NumWindows, Window) /\ Mul(1, Window) = Window
    <3>1. 1 <= NumWindows
      BY <1>2, <1>3
    <3>. QED BY <1>1, <1>2, <3>1, MulFacts
  <2>. QED BY <1>2, <2>1
<1>5. WindowSize \in Nat /\ WindowSize >= 4
  <2>1. PICK w \in Nat : w = Window - 2
    BY <1>1
  <2>2. w \in 0..(Bits - 1) /\ w + 1 \in 0..(Bits - 1) /\ (w + 1) + 1 = Window /\ w \in 0..Bits
    BY <1>1, <1>4, <2>1
  <2>3. TwoTo[w] \in Nat \ {0} /\ TwoTo[w + 1] = 2 * TwoTo[w] /\ TwoTo[(w + 1) + 1] = 2 * TwoTo[w + 1]
    BY <2>2, PowersFacts
  <2>. QED BY <2>2, <2>3 DEF WindowSize
<1>6. ASSUME NEW i \in 0..NumWindows PROVE Window * i = Mul(i, Window) /\ Mul(i, Window) \in 0..Bits
  <2>1. i \in Nat /\ i <= NumWindows
    BY <1>2
  <2>2. Mul(i, Window) \in Nat /\ Mul(i, Window) <= Mul(NumWindows, Window)
    BY <1>1, <1>2, <2>1, MulFacts
  <2>3. Window * i = i * Window
    BY <1>1, <2>1
  <2>. QED BY <1>2, <2>2, <2>3 DEF Mul
<1>. QED BY <1>1, <1>2, <1>3, <1>4, <1>5, <1>6

(* Some doublings of a point.                                              *)
LEMMA DoublingsAre ==
    ASSUME NEW q, NEW k, Stands(q, k)
    PROVE  \A i \in 0..Window : Stands(Doublings(q)[i], TwoTo[i] * k)
<1>. DEFINE s == [a \in Nat \X Standing |-> Double(a[2])]
            P(f) == f = [i \in 0..Window |-> IF i = 0 THEN q ELSE Double(f[i - 1])]
            d == CHOOSE f : P(f)
            S == {i \in Nat : i \in 0..Window => Stands(d[i], TwoTo[i] * k)}
<1>1. Window \in Nat /\ q \in Standing /\ k \in Int /\ Bits \in Nat /\ Window <= Bits
  BY SizesAre, StandsFacts DEF Stands
<1>2. \A a \in Standing : Double(a) \in Standing
  BY StandsFacts DEF Standing
<1>3. s \in [Nat \X Standing -> Standing] /\ \A i \in Nat : \A a \in Standing : s[<<i, a>>] = Double(a)
  BY <1>2
<1>. HIDE DEF s
<1>4. PICK f \in [0..Window -> Standing] : f = [i \in 0..Window |-> IF i = 0 THEN q ELSE s[<<i, f[i - 1]>>]]
  <2>1. \E f \in [0..Window -> Standing] : Stepwise(f, q, s, Window)
    BY <1>1, <1>3, Recursion
  <2>. QED BY <2>1 DEF Stepwise
<1>5. P(f)
  <2>1. \A i \in 0..Window : f[i] = IF i = 0 THEN q ELSE Double(f[i - 1])
    BY <1>1, <1>3, <1>4
  <2>. QED BY <2>1, <1>4
<1>6. Doublings(q) = d
  BY DEF Doublings
<1>. HIDE DEF P
<1>7. P(d)
  BY <1>5
<1>. HIDE DEF d
<1>8. \A i \in 0..Window : d[i] = IF i = 0 THEN q ELSE Double(d[i - 1])
  BY <1>7 DEF P
<1>9. 0 \in S
  <2>1. TwoTo[0] * k = k
    BY <1>1, PowersFacts
  <2>. QED BY <1>1, <1>8, <2>1
<1>10. ASSUME NEW i \in Nat, i \in S PROVE i + 1 \in S
  <2>. SUFFICES ASSUME i + 1 \in 0..Window PROVE Stands(d[i + 1], TwoTo[i + 1] * k)
    OBVIOUS
  <2>1. i \in 0..(Bits - 1) /\ i \in 0..Bits /\ i \in 0..Window /\ (i + 1) - 1 = i /\ i + 1 # 0
    BY <1>1
  <2>2. d[i + 1] = Double(d[i])
    BY <1>8, <2>1
  <2>3. PICK p \in Nat : p = TwoTo[i]
    BY <2>1, PowersFacts
  <2>4. TwoTo[i + 1] * k = 2 * (p * k)
    <3>1. TwoTo[i + 1] = 2 * p
      BY <2>1, <2>3, PowersFacts
    <3>2. (2 * p) * k = 2 * (p * k)
      BY <1>1
    <3>. QED BY <3>1, <3>2
  <2>5. Stands(d[i], p * k)
    BY <1>10, <2>1, <2>3
  <2>. QED BY <2>2, <2>4, <2>5, StandsFacts
<1>. HIDE DEF S
<1>11. Nat \subseteq S
  BY <1>9, <1>10, NatClosure
<1>. QED BY <1>1, <1>6, <1>11 DEF S

(* The table of small multiples.                                           *)
LEMMA MultiplesAre ==
    ASSUME NEW q, NEW k, Stands(q, k)
    PROVE  \A j \in 0..(WindowSize - 1) : Stands(Multiples(q)[j], j * k)
<1>. DEFINE n == WindowSize - 1
            s == [a \in Nat \X Standing |-> IF a[1] = 1 THEN q ELSE Add(a[2], q)]
            P(f) == f = [j \in 0..(WindowSize - 1) |->
                          CASE j = 0 -> Identity [] j = 1 -> q [] OTHER -> Add(f[j - 1], q)]
            t == CHOOSE f : P(f)
            S == {j \in Nat : j \in 0..n => Stands(t[j], j * k)}
<1>1. n \in Nat /\ q \in Standing /\ k \in Int /\ Identity \in Standing
  BY SizesAre, StandsFacts DEF Stands
<1>2. \A a \in Standing : Add(a, q) \in Standing
  BY StandsFacts DEF Standing
<1>3. /\ s \in [Nat \X Standing -> Standing]
      /\ \A j \in Nat : \A a \in Standing : s[<<j, a>>] = IF j = 1 THEN q ELSE Add(a, q)
  BY <1>1, <1>2
<1>. HIDE DEF s
<1>4. PICK f \in [0..n -> Standing] : f = [j \in 0..n |-> IF j = 0 THEN Identity ELSE s[<<j, f[j - 1]>>]]
  <2>1. \E f \in [0..n -> Standing] : Stepwise(f, Identity, s, n)
    BY <1>1, <1>3, Recursion
  <2>. QED BY <2>1 DEF Stepwise
<1>5. P(f)
  <2>1. ASSUME NEW j \in 0..n
        PROVE  f[j] = CASE j = 0 -> Identity [] j = 1 -> q [] OTHER -> Add(f[j - 1], q)
    <3>1. f[j] = IF j = 0 THEN Identity ELSE s[<<j, f[j - 1]>>]
      BY <1>4
    <3>2. j # 0 => j \in Nat /\ j - 1 \in 0..n
      BY <1>1
    <3>3. j # 0 => f[j - 1] \in Standing
      BY <3>2, <1>4
    <3>. QED BY <1>3, <3>1, <3>2, <3>3
  <2>. QED BY <2>1, <1>4
<1>6. Multiples(q) = t
  BY DEF Multiples
<1>. HIDE DEF P
<1>7. P(t)
  BY <1>5
<1>. HIDE DEF t
<1>8. \A j \in 0..n : t[j] = CASE j = 0 -> Identity [] j = 1 -> q [] OTHER -> Add(t[j - 1], q)
  BY <1>7 DEF P
<1>9. 0 \in S
  <2>1. 0 * k = 0
    BY <1>1
  <2>. QED BY <1>1, <1>8, <2>1, StandsFacts
<1>10. ASSUME NEW j \in Nat, j \in S PROVE j + 1 \in S
  <2>. SUFFICES ASSUME j + 1 \in 0..n PROVE Stands(t[j + 1], (j + 1) * k)
    OBVIOUS
  <2>1. j \in 0..n /\ (j + 1) - 1 = j /\ j + 1 # 0
    BY <1>1
  <2>2. CASE j = 0
    <3>1. t[j + 1] = q /\ (j + 1) * k = k
      BY <1>1, <1>8, <2>1, <2>2
    <3>. QED BY <3>1
  <2>3. CASE j # 0
    <3>1. t[j + 1] = Add(t[j], q)
      BY <1>1, <1>8, <2>1, <2>3
    <3>2. Stands(t[j], j * k)
      BY <1>10, <2>1
    <3>3. Stands(Add(t[j], q), j * k + k)
      BY <3>2, StandsFacts
    <3>4. j * k + k = (j + 1) * k
      BY <1>1
    <3>. QED BY <3>1, <3>3, <3>4
  <2>. QED BY <2>2, <2>3
<1>. HIDE DEF S
<1>11. Nat \subseteq S
  BY <1>9, <1>10, NatClosure
<1>. QED BY <1>1, <1>6, <1>11 DEF S

(* A smaller power of two divides a larger one.                            *)
LEMMA PowersGrow ==
    ASSUME NEW i \in Nat, NEW j \in 0..Bits, i <= j
    PROVE  TwoTo[i] <= TwoTo[j] /\ TwoTo[i] \in Nat \ {0} /\ TwoTo[j] = TwoTo[i] * TwoTo[j - i]
<1>1. Bits \in Nat
  BY SizesAre
<1>2. j - i \in Nat /\ i + (j - i) = j /\ i \in 0..Bits /\ j - i \in 0..Bits
  BY <1>1
<1>3. PICK a \in Nat \ {0}, b \in Nat \ {0} : a = TwoTo[i] /\ b = TwoTo[j - i]
  BY <1>2, PowersFacts
<1>4. TwoTo[j] = a * b
  BY <1>2, <1>3, PowersAdd
<1>5. a <= a * b
  <2>1. PICK c \in Nat : b = c + 1
    <3>1. b - 1 \in Nat /\ b = (b - 1) + 1
      OBVIOUS
    <3>. QED BY <3>1
  <2>2. a * (c + 1) = a * c + a /\ a * c \in Nat
    OBVIOUS
  <2>. QED BY <2>1, <2>2
<1>. QED BY <1>3, <1>4, <1>5

(* Dividing in two steps: quotient and remainder by a product.             *)
LEMMA DivDiv ==
    ASSUME NEW a \in Nat \ {0}, NEW w \in Nat \ {0}, NEW l \in Nat, NEW n, n = Mul(w, a)
    PROVE  /\ Quo(l, n) = Quo(Quo(l, a), w)
           /\ Rem(l, n) = Rem(l, a) + Rem(Quo(l, a), w) * a
<1>1. PICK x \in Nat, r \in 0..(a - 1) : x = Quo(l, a) /\ r = Rem(l, a)
  BY DivMod
<1>2. PICK y \in Nat, s \in 0..(w - 1) : y = Quo(x, w) /\ s = Rem(x, w)
  BY DivMod
<1>3. l = x * a + r /\ x = y * w + s
  BY <1>1, <1>2, DivMod DEF Mul
<1>4. l = y * (w * a) + (r + s * a)
  <2>1. (y * w + s) * a = y * (w * a) + s * a
    OBVIOUS
  <2>2. y * (w * a) \in Nat /\ s * a \in Nat /\ r \in Nat
    OBVIOUS
  <2>. QED BY <1>3, <2>1, <2>2
<1>5. r + s * a \in 0..(w * a - 1)
  <2>1. PICK v \in Nat : v = w - 1 - s
    OBVIOUS
  <2>2. w = v + s + 1
    BY <2>1
  <2>3. (v + s + 1) * a = v * a + s * a + a /\ v * a \in Nat /\ s * a \in Nat /\ r \in Nat /\ r <= a - 1
    OBVIOUS
  <2>. QED BY <2>2, <2>3
<1>6. PICK m \in Nat \ {0} : m = w * a
  <2>1. w * a \in Nat /\ w * a # 0
    BY <1>5
  <2>. QED BY <2>1
<1>7. PICK q \in 0..(m - 1) : q = r + s * a
  BY <1>5, <1>6
<1>8. l = Mul(y, m) + q
  BY <1>4, <1>6, <1>7 DEF Mul
<1>9. Quo(l, m) = y /\ Rem(l, m) = q
  BY <1>8, Euclid
<1>10. n = m
  BY <1>6 DEF Mul
<1>. QED BY <1>1, <1>2, <1>6, <1>7, <1>9, <1>10

(* What the accumulator of mul_var has taken in when some windows are left *)
(* of a lifted scalar.                                                     *)
Taken(l, left) == TwoTo[Bits - Window * left] + (l \div TwoTo[Window * left])

(* The accumulator's scalar, window by window; no doubling of it meets a   *)
(* multiple of the order.                                                  *)
LEMMA TakenFacts ==
    ASSUME NEW l \in 0..(TwoTo[Bits] - 1)
    PROVE  /\ Taken(l, NumWindows) = 1
           /\ Taken(l, 0) = TwoTo[Bits] + l
           /\ \A left \in 1..NumWindows :
                /\ Taken(l, left) \in Nat \ {0}
                /\ Nibble(l, left - 1) \in 0..(WindowSize - 1)
                /\ Taken(l, left - 1) = WindowSize * Taken(l, left) + Nibble(l, left - 1)
                /\ \A i \in 0..(Window - 1) : Fn(TwoTo[i] * Taken(l, left)) # 0
<1>1. /\ Bits \in Nat \ {0} /\ Window \in Nat /\ Window > 1 /\ Window <= Bits
      /\ NumWindows \in Nat \ {0} /\ WindowSize \in Nat /\ WindowSize >= 4
      /\ TwoTo[0] = 1 /\ TwoTo[Bits] \in Nat \ {0}
  BY SizesAre, PowersFacts
<1>2. l \in Nat
  BY <1>1
<1>3. Taken(l, NumWindows) = 1
  <2>1. Window * NumWindows = Bits
    BY SizesAre DEF Mul
  <2>2. l \div TwoTo[Bits] = 0
    <3>1. Quo(l, TwoTo[Bits]) = 0
      BY <1>1, RemSmall
    <3>. QED BY <3>1 DEF Quo
  <2>3. Bits - Bits = 0
    BY <1>1
  <2>. QED BY <1>1, <2>1, <2>2, <2>3 DEF Taken
<1>4. Taken(l, 0) = TwoTo[Bits] + l
  <2>1. Window * 0 = 0 /\ Bits - 0 = Bits /\ l \div 1 = l
    BY <1>1, <1>2
  <2>. QED BY <1>1, <2>1 DEF Taken
<1>5. ASSUME NEW left \in 1..NumWindows
      PROVE  /\ Taken(l, left) \in Nat \ {0}
             /\ Nibble(l, left - 1) \in 0..(WindowSize - 1)
             /\ Taken(l, left - 1) = WindowSize * Taken(l, left) + Nibble(l, left - 1)
             /\ \A i \in 0..(Window - 1) : Fn(TwoTo[i] * Taken(l, left)) # 0
  <2>1. left \in 0..NumWindows /\ left - 1 \in 0..NumWindows
    BY <1>1
  <2>2. PICK b \in 0..Bits : b = Window * left
    BY <2>1, SizesAre
  <2>3. PICK a \in 0..Bits : a = Window * (left - 1)
    BY <2>1, SizesAre
  <2>4. b = a + Window /\ Bits - a = (Bits - b) + Window /\ Bits - b \in Nat /\ Bits - a \in Nat
        /\ Bits - a \in 0..Bits /\ Bits - b \in 0..Bits
    <3>1. Window * left = Window * (left - 1) + Window
      BY <1>1
    <3>. QED BY <1>1, <2>2, <2>3, <3>1
  <2>5. PICK pa \in Nat \ {0}, pb \in Nat \ {0}, ta \in Nat \ {0}, tb \in Nat \ {0} :
            pa = TwoTo[a] /\ pb = TwoTo[b] /\ ta = TwoTo[Bits - a] /\ tb = TwoTo[Bits - b]
    BY <2>4, PowersFacts
  <2>6. PICK w \in Nat : w = WindowSize /\ w >= 4
    BY <1>1
  <2>7. pb = pa * w /\ ta = tb * w
    BY <1>1, <2>4, <2>5, <2>6, PowersAdd DEF WindowSize
  <2>8. PICK x \in Nat, y \in Nat, s \in 0..(w - 1) :
            x = l \div pa /\ y = l \div pb /\ s = x % w /\ x = y * w + s
    <3>1. w \in Nat \ {0} /\ pb = Mul(w, pa)
      <4>1. pa * w = w * pa
        OBVIOUS
      <4>. QED BY <2>6, <2>7, <4>1 DEF Mul
    <3>2. Quo(l, pb) = Quo(Quo(l, pa), w)
      BY <1>2, <3>1, DivDiv
    <3>3. PICK x \in Nat : x = Quo(l, pa)
      BY <1>2, DivMod
    <3>4. PICK y \in Nat : y = Quo(x, w)
      BY <3>1, DivMod
    <3>5. PICK s \in 0..(w - 1) : s = Rem(x, w)
      BY <3>1, DivMod
    <3>6. x = Mul(y, w) + s
      BY <3>1, <3>4, <3>5, DivMod
    <3>. QED BY <3>2, <3>3, <3>4, <3>5, <3>6 DEF Quo, Rem, Mul
  <2>9. Taken(l, left) = tb + y /\ Taken(l, left - 1) = ta + x
    BY <2>2, <2>3, <2>5, <2>8 DEF Taken
  <2>10. Nibble(l, left - 1) = s
    BY <2>3, <2>5, <2>6, <2>8 DEF Nibble
  <2>11. ta + x = w * (tb + y) + s
    <3>1. w * (tb + y) = tb * w + y * w
      OBVIOUS
    <3>. QED BY <2>7, <2>8, <3>1
  <2>12. ASSUME NEW i \in 0..(Window - 1) PROVE Fn(TwoTo[i] * (tb + y)) # 0
    <3>1. PICK t \in Nat : t = tb + y /\ t # 0
      OBVIOUS
    <3>2. PICK bb \in Nat : bb = TwoTo[Bits]
      BY <1>1
    <3>3. pb * t < 2 * bb
      <4>1. bb = pb * tb
        <5>1. b \in Nat /\ Bits \in 0..Bits /\ b <= Bits
          BY <1>1
        <5>2. TwoTo[Bits] = TwoTo[b] * TwoTo[Bits - b]
          BY <5>1, PowersGrow
        <5>. QED BY <2>5, <3>2, <5>2
      <4>2. pb * y <= l
        <5>1. l = Mul(Quo(l, pb), pb) + Rem(l, pb) /\ Rem(l, pb) \in 0..(pb - 1)
          BY <1>2, DivMod
        <5>2. Quo(l, pb) = y
          BY <2>8 DEF Quo
        <5>3. PICK r \in Nat : l = y * pb + r
          BY <5>1, <5>2 DEF Mul
        <5>. QED BY <5>3
      <4>3. pb * t = pb * tb + pb * y
        BY <3>1
      <4>4. l < bb
        BY <1>1, <3>2
      <4>. QED BY <4>1, <4>2, <4>3, <4>4, <1>2
    <3>4. bb < 2 * OrderN /\ OrderN \in Nat \ {0} /\ OrderN % 2 = 1
      BY <3>2, CurveAssumption, FnFacts
    <3>5. i + 1 \in Nat /\ i + 1 <= b /\ i \in 0..(Bits - 1)
      <4>1. b >= Window
        BY <1>1, <2>3, <2>4
      <4>. QED BY <1>1, <4>1
    <3>6. PICK p \in Nat \ {0} : p = TwoTo[i] /\ TwoTo[i + 1] = 2 * p /\ 2 * p <= pb
      <4>1. TwoTo[i] \in Nat \ {0} /\ TwoTo[i + 1] = 2 * TwoTo[i]
        <5>1. i \in 0..Bits
          BY <3>5, <1>1
        <5>. QED BY <5>1, <3>5, PowersFacts
      <4>2. TwoTo[i + 1] <= TwoTo[b]
        BY <3>5, PowersGrow
      <4>. QED BY <2>5, <4>1, <4>2
    <3>7. (2 * p) * t <= pb * t
      <4>1. PICK e \in Nat : pb = 2 * p + e
        <5>1. pb - 2 * p \in Nat /\ pb = 2 * p + (pb - 2 * p)
          BY <3>6
        <5>. QED BY <5>1
      <4>2. (2 * p + e) * t = (2 * p) * t + e * t /\ e * t \in Nat /\ (2 * p) * t \in Nat
        OBVIOUS
      <4>. QED BY <4>1, <4>2
    <3>8. PICK m \in Nat : m = p * t
      OBVIOUS
    <3>9. 2 * m < 2 * bb /\ m # 0
      <4>1. (2 * p) * t = 2 * m
        BY <3>8
      <4>2. pb * t \in Nat
        OBVIOUS
      <4>3. m # 0
        BY <3>1, <3>6, <3>8
      <4>. QED BY <3>3, <3>7, <4>1, <4>2, <4>3, <3>2
    <3>10. m # OrderN
      <4>1. CASE i = 0
        <5>1. p = 1
          BY <3>6, <4>1, <1>1
        <5>2. m = t
          BY <5>1, <3>8
        <5>3. pb >= 4
          <6>1. PICK c \in Nat \ {0} : c = pa
            OBVIOUS
          <6>2. pa * w >= w
            <7>1. PICK e \in Nat : pa = e + 1
              <8>1. pa - 1 \in Nat /\ pa = (pa - 1) + 1
                OBVIOUS
              <8>. QED BY <8>1
            <7>2. (e + 1) * w = e * w + w /\ e * w \in Nat
              OBVIOUS
            <7>. QED BY <7>1, <7>2
          <6>. QED BY <2>6, <2>7, <6>2
        <5>4. 4 * t <= pb * t
          <6>1. PICK e \in Nat : pb = 4 + e
            <7>1. pb - 4 \in Nat /\ pb = 4 + (pb - 4)
              BY <5>3
            <7>. QED BY <7>1
          <6>2. (4 + e) * t = 4 * t + e * t /\ e * t \in Nat
            OBVIOUS
          <6>. QED BY <6>1, <6>2
        <5>5. 4 * t < 2 * bb
          <6>1. pb * t \in Nat
            OBVIOUS
          <6>. QED BY <5>4, <3>3, <6>1, <3>2
        <5>. QED BY <5>2, <5>5, <3>4
      <4>2. CASE i # 0
        <5>1. PICK h \in Nat : h + 1 = i /\ h \in 0..(Bits - 1)
          <6>1. i - 1 \in Nat /\ (i - 1) + 1 = i /\ i - 1 \in 0..(Bits - 1)
            BY <4>2, <1>1, <3>5
          <6>. QED BY <6>1
        <5>2. PICK g \in Nat : p = 2 * g
          <6>1. h \in 0..Bits
            BY <5>1, <1>1
          <6>2. TwoTo[h] \in Nat /\ TwoTo[h + 1] = 2 * TwoTo[h]
            BY <5>1, <6>1, PowersFacts
          <6>. QED BY <5>1, <3>6, <6>2
        <5>3. m = 2 * (g * t)
          BY <5>2, <3>8
        <5>4. PICK u \in Nat : u = g * t
          OBVIOUS
        <5>5. m = 2 * u
          BY <5>3, <5>4
        <5>. QED BY <5>5, <3>4
      <4>. QED BY <4>1, <4>2
    <3>11. Fn(m) # 0
      <4>. SUFFICES ASSUME Fn(m) = 0 PROVE FALSE
        OBVIOUS
      <4>1. CASE m < OrderN
        <5>1. m \in 0..(OrderN - 1)
          BY <4>1, <3>4
        <5>. QED BY <5>1, <3>9, FnFacts
      <4>2. CASE m >= OrderN
        <5>1. PICK v \in 0..(OrderN - 1) : m = v + OrderN
          <6>1. m - OrderN \in 0..(OrderN - 1) /\ m = (m - OrderN) + OrderN
            BY <4>2, <3>4, <3>9, <3>2
          <6>. QED BY <6>1
        <5>2. Fn(v + OrderN) = Fn(v) /\ Fn(v) = v
          <6>1. v \in Int
            BY <3>4
          <6>. QED BY <6>1, EqualNSelf, FnFacts DEF EqualN
        <5>3. v # 0
          BY <5>1, <3>10, <3>4
        <5>. QED BY <5>1, <5>2, <5>3
      <4>. QED BY <4>1, <4>2, <3>4
    <3>. QED BY <3>1, <3>6, <3>8, <3>11
  <2>. QED BY <2>6, <2>8, <2>9, <2>10, <2>11, <2>12
<1>. QED BY <1>3, <1>4, <1>5

(* Lifting adds the order once or twice, whichever sets the top bit.       *)
LEMMA LiftIs ==
    ASSUME NEW k \in 0..(OrderN - 1)
    PROVE  /\ LiftScalar(k) \in 0..(TwoTo[Bits] - 1)
           /\ EqualN(TwoTo[Bits] + LiftScalar(k), k)
<1>1. PICK b \in Nat \ {0}, n \in Nat \ {0} : b = TwoTo[Bits] /\ n = OrderN /\ n < b /\ b < 2 * n
  BY PowersFacts, SizesAre, CurveAssumption
<1>2. \A x \in 0..(b - 1) : x % b = x
  <2>. SUFFICES ASSUME NEW x \in 0..(b - 1) PROVE x % b = x
    OBVIOUS
  <2>1. Rem(x, b) = x
    BY RemSmall
  <2>. QED BY <2>1 DEF Rem
<1>3. \A x \in 0..(b - 1) : (x + b) % b = x
  <2>. SUFFICES ASSUME NEW x \in 0..(b - 1) PROVE (x + b) % b = x
    OBVIOUS
  <2>1. PICK y \in Nat : y = x + b
    OBVIOUS
  <2>2. y = Mul(1, b) + x
    BY <2>1, MulFacts
  <2>3. Rem(y, b) = x
    BY <2>2, Euclid
  <2>. QED BY <2>1, <2>3 DEF Rem
<1>4. EqualN(k + n, k) /\ EqualN((k + n) + n, k)
  <2>1. k \in Int /\ k + n \in Int
    BY <1>1
  <2>2. EqualN(k + n, k) /\ EqualN((k + n) + n, k + n)
    BY <1>1, <2>1, EqualNSelf
  <2>. QED BY <2>2, EqualNSelf
<1>5. CASE k + n >= b
  <2>1. PICK x \in 0..(b - 1) : x + b = k + n
    <3>1. (k + n) - b \in 0..(b - 1) /\ ((k + n) - b) + b = k + n
      BY <1>1, <1>5
    <3>. QED BY <3>1
  <2>2. LiftScalar(k) = (k + n) % b
    BY <1>1, <1>5 DEF LiftScalar, LiftOnce
  <2>3. (k + n) % b = x
    BY <1>3, <2>1
  <2>4. b + x = k + n
    BY <2>1
  <2>. QED BY <1>1, <1>4, <2>2, <2>3, <2>4
<1>6. CASE ~(k + n >= b)
  <2>1. k + n \in 0..(b - 1)
    BY <1>1, <1>6
  <2>2. PICK x \in 0..(b - 1) : x + b = (k + n) + n
    <3>1. ((k + n) + n) - b \in 0..(b - 1) /\ (((k + n) + n) - b) + b = (k + n) + n
      BY <1>1, <1>6
    <3>. QED BY <3>1
  <2>3. LiftOnce(k) = k + n
    BY <1>1, <1>2, <2>1 DEF LiftOnce
  <2>4. LiftOnce(k + n) = x
    <3>1. LiftOnce(k + n) = ((k + n) + n) % b
      BY <1>1 DEF LiftOnce
    <3>2. ((k + n) + n) % b = x
      BY <1>3, <2>2
    <3>. QED BY <3>1, <3>2
  <2>5. LiftScalar(k) = x
    BY <1>1, <1>6, <2>3, <2>4 DEF LiftScalar
  <2>6. b + x = (k + n) + n
    BY <2>2
  <2>. QED BY <1>1, <1>4, <2>5, <2>6
<1>. QED BY <1>5, <1>6

(* One window of mul_var.                                                  *)
LEMMA MulVarStep ==
    ASSUME NEW q, NEW j, Stands(q, j), NEW l \in 0..(TwoTo[Bits] - 1), NEW left \in 1..NumWindows,
           NEW acc, Stands(acc, Taken(l, left) * j)
    PROVE  Stands(MulVarWindow(acc, Multiples(q), Nibble(l, left - 1)), Taken(l, left - 1) * j)
<1>1. PICK t \in Nat : t = Taken(l, left)
  BY TakenFacts
<1>2. PICK v \in 0..(WindowSize - 1) : v = Nibble(l, left - 1)
  BY TakenFacts
<1>3. Window \in 0..Window /\ WindowSize \in Nat /\ j \in Int
  BY SizesAre DEF Stands
<1>4. Stands(Doublings(acc)[Window], WindowSize * (t * j))
  <2>1. Stands(acc, t * j)
    BY <1>1
  <2>2. Stands(Doublings(acc)[Window], TwoTo[Window] * (t * j))
    BY <1>3, <2>1, DoublingsAre
  <2>. QED BY <2>2 DEF WindowSize
<1>5. Stands(Multiples(q)[v], v * j)
  BY MultiplesAre
<1>6. Stands(Add(Doublings(acc)[Window], Multiples(q)[v]), WindowSize * (t * j) + v * j)
  BY <1>4, <1>5, StandsFacts
<1>7. Taken(l, left - 1) = WindowSize * t + v
  BY <1>1, <1>2, TakenFacts
<1>8. WindowSize * (t * j) + v * j = (WindowSize * t + v) * j
  <2>1. v \in Int
    BY <1>3
  <2>. QED BY <1>3, <2>1
<1>. QED BY <1>2, <1>6, <1>7, <1>8 DEF MulVarWindow

(* mul_var gives the k-th multiple, whatever stands for the point.         *)
LEMMA MulVarIs ==
    ASSUME NEW k \in 0..(OrderN - 1), NEW q, NEW j, Stands(q, j)
    PROVE  Stands(MulVar(k, q), k * j)
<1>. DEFINE n == NumWindows
            l == LiftScalar(k)
            s == [a \in Nat \X Standing |->
                    IF a[1] \in 1..n THEN MulVarWindow(a[2], Multiples(q), Nibble(l, n - a[1])) ELSE q]
            P(f) == f = [i \in 0..NumWindows |->
                          IF i = 0 THEN MulVarStart(q)
                          ELSE MulVarWindow(f[i - 1], Multiples(q), Nibble(LiftScalar(k), NumWindows - i))]
            acc == CHOOSE f : P(f)
            S == {i \in Nat : i \in 0..n => Stands(acc[i], Taken(l, n - i) * j)}
<1>1. n \in Nat \ {0} /\ q \in Standing /\ j \in Int /\ MulVarStart(q) = q /\ k \in Int
  BY SizesAre, StandsFacts DEF Stands, MulVarStart
<1>2. l \in 0..(TwoTo[Bits] - 1) /\ EqualN(TwoTo[Bits] + l, k)
  BY LiftIs
<1>3. ASSUME NEW i \in 1..n
      PROVE  n - i \in 0..(n - 1) /\ (n - i) + 1 \in 1..n /\ ((n - i) + 1) - 1 = n - i
             /\ n - (i - 1) = (n - i) + 1 /\ i - 1 \in 0..n
  BY <1>1
<1>4. MulVar(k, q) = acc[n]
  BY DEF MulVar
<1>. HIDE DEF l, n
<1>5. ASSUME NEW a \in Standing, NEW i \in 1..n
      PROVE  MulVarWindow(a, Multiples(q), Nibble(l, n - i)) \in Standing
  <2>1. Nibble(l, n - i) \in 0..(WindowSize - 1)
    <3>1. (n - i) + 1 \in 1..NumWindows /\ ((n - i) + 1) - 1 = n - i
      BY <1>3 DEF n
    <3>. QED BY <1>2, <3>1, TakenFacts
  <2>2. PICK m \in Int : Stands(a, m)
    BY DEF Standing
  <2>3. Stands(Doublings(a)[Window], TwoTo[Window] * m)
    BY <2>2, SizesAre, DoublingsAre
  <2>4. Stands(Multiples(q)[Nibble(l, n - i)], Nibble(l, n - i) * j)
    BY <2>1, MultiplesAre
  <2>5. Stands(Add(Doublings(a)[Window], Multiples(q)[Nibble(l, n - i)]),
               TwoTo[Window] * m + Nibble(l, n - i) * j)
    BY <2>3, <2>4, StandsFacts
  <2>6. Add(Doublings(a)[Window], Multiples(q)[Nibble(l, n - i)]) \in Standing
    BY <2>5, StandsFacts
  <2>. QED BY <2>6 DEF MulVarWindow
<1>6. /\ s \in [Nat \X Standing -> Standing]
      /\ \A i \in 1..n : \A a \in Standing :
            s[<<i, a>>] = MulVarWindow(a, Multiples(q), Nibble(l, n - i))
  <2>1. \A i \in 1..n : i \in Nat
    BY <1>1
  <2>. QED BY <1>1, <1>5, <2>1
<1>. HIDE DEF s
<1>7. PICK f \in [0..n -> Standing] : f = [i \in 0..n |-> IF i = 0 THEN q ELSE s[<<i, f[i - 1]>>]]
  <2>1. \E f \in [0..n -> Standing] : Stepwise(f, q, s, n)
    BY <1>1, <1>6, Recursion
  <2>. QED BY <2>1 DEF Stepwise
<1>8. P(f)
  <2>1. ASSUME NEW i \in 0..n
        PROVE  f[i] = IF i = 0 THEN MulVarStart(q)
                      ELSE MulVarWindow(f[i - 1], Multiples(q), Nibble(l, n - i))
    <3>1. CASE i = 0
      BY <1>1, <1>7, <3>1
    <3>2. CASE i # 0
      <4>1. i \in 1..n
        BY <1>1, <3>2
      <4>2. f[i - 1] \in Standing
        BY <1>3, <1>7, <4>1
      <4>3. f[i] = s[<<i, f[i - 1]>>]
        BY <1>7, <3>2
      <4>. QED BY <1>6, <3>2, <4>1, <4>2, <4>3
    <3>. QED BY <3>1, <3>2
  <2>. QED BY <2>1, <1>7 DEF n, l
<1>. HIDE DEF P
<1>9. P(acc)
  BY <1>8
<1>. HIDE DEF acc
<1>10. \A i \in 0..n : acc[i] = IF i = 0 THEN q ELSE MulVarWindow(acc[i - 1], Multiples(q), Nibble(l, n - i))
  BY <1>1, <1>9 DEF P, n, l
<1>11. 0 \in S
  <2>1. n - 0 = n /\ Taken(l, n) = 1 /\ 1 * j = j /\ 0 \in 0..n
    BY <1>1, <1>2, TakenFacts DEF n
  <2>2. acc[0] = q
    BY <1>10, <2>1
  <2>. QED BY <2>1, <2>2
<1>12. ASSUME NEW i \in Nat, i \in S PROVE i + 1 \in S
  <2>. SUFFICES ASSUME i + 1 \in 0..n PROVE Stands(acc[i + 1], Taken(l, n - (i + 1)) * j)
    OBVIOUS
  <2>1. /\ i \in 0..n /\ n - i \in 1..n /\ (n - i) - 1 = n - (i + 1) /\ (i + 1) - 1 = i /\ i + 1 # 0
    BY <1>1
  <2>2. Stands(acc[i], Taken(l, n - i) * j)
    BY <1>12, <2>1
  <2>3. n - i \in 1..NumWindows
    BY <2>1 DEF n
  <2>4. Stands(MulVarWindow(acc[i], Multiples(q), Nibble(l, (n - i) - 1)), Taken(l, (n - i) - 1) * j)
    BY <1>2, <2>2, <2>3, MulVarStep
  <2>5. acc[i + 1] = MulVarWindow(acc[i], Multiples(q), Nibble(l, n - (i + 1)))
    BY <1>10, <2>1
  <2>. QED BY <2>1, <2>4, <2>5
<1>. HIDE DEF S
<1>13. Nat \subseteq S
  BY <1>11, <1>12, NatClosure
<1>14. Stands(acc[n], Taken(l, 0) * j)
  <2>1. n \in 0..n /\ n - n = 0
    BY <1>1
  <2>. QED BY <1>1, <1>13, <2>1 DEF S
<1>15. EqualN(Taken(l, 0) * j, k * j)
  <2>1. Taken(l, 0) = TwoTo[Bits] + l /\ EqualN(j, j)
    BY <1>1, <1>2, TakenFacts, EqualNSelf
  <2>. QED BY <1>2, <2>1, EqualNFacts
<1>. QED BY <1>4, <1>14, <1>15, StandsFacts

(* Sub-table i of the comb has the multiples of 2^(Window i) G.            *)
LEMMA CombIs ==
    \A i \in 0..(NumWindows - 1) : \A j \in 0..(WindowSize - 1) :
        Stands(CombTable[i][j], TwoTo[Window * i] * j)
<1>. DEFINE n == NumWindows - 1
            J == 0..(WindowSize - 1)
            T == {Multiples(Generator)} \cup [J -> Standing]
            s == [a \in Nat \X T |-> [j \in J |-> Doublings(a[2][j])[Window]]]
            P(f) == f = [i \in 0..(NumWindows - 1) |->
                          IF i = 0 THEN Multiples(Generator)
                          ELSE [j \in 0..(WindowSize - 1) |-> Doublings(f[i - 1][j])[Window]]]
            row == CHOOSE f : P(f)
            S == {i \in Nat : i \in 0..n => \A j \in J : Stands(row[i][j], TwoTo[Window * i] * j)}
<1>1. n \in Nat /\ Multiples(Generator) \in T /\ Window \in 0..Window
  BY SizesAre
<1>2. \A j \in J : Stands(Multiples(Generator)[j], j)
  <2>. SUFFICES ASSUME NEW j \in J PROVE Stands(Multiples(Generator)[j], j)
    OBVIOUS
  <2>1. j * 1 = j
    BY SizesAre
  <2>2. Stands(Multiples(Generator)[j], j * 1)
    BY StandsFacts, MultiplesAre
  <2>. QED BY <2>1, <2>2
<1>3. \A r \in T : \A j \in J : r[j] \in Standing
  BY <1>2, StandsFacts
<1>4. \A a \in Standing : Doublings(a)[Window] \in Standing
  BY <1>1, DoublingsAre, StandsFacts DEF Standing
<1>5. /\ s \in [Nat \X T -> T]
      /\ \A i \in Nat : \A r \in T : s[<<i, r>>] = [j \in J |-> Doublings(r[j])[Window]]
  <2>1. \A r \in T : [j \in J |-> Doublings(r[j])[Window]] \in T
    <3>. SUFFICES ASSUME NEW r \in T PROVE [j \in J |-> Doublings(r[j])[Window]] \in [J -> Standing]
      OBVIOUS
    <3>. HIDE DEF T, J
    <3>. QED BY <1>3, <1>4
  <2>. HIDE DEF T, J
  <2>. QED BY <2>1
<1>6. CombTable = [i \in 0..(NumWindows - 1) |-> [j \in 0..(WindowSize - 1) |-> row[i][j]]]
  BY DEF CombTable
<1>. HIDE DEF s, T
<1>7. PICK f \in [0..n -> T] : f = [i \in 0..n |-> IF i = 0 THEN Multiples(Generator) ELSE s[<<i, f[i - 1]>>]]
  <2>1. \E f \in [0..n -> T] : Stepwise(f, Multiples(Generator), s, n)
    BY <1>1, <1>5, Recursion
  <2>. QED BY <2>1 DEF Stepwise
<1>8. P(f)
  <2>1. ASSUME NEW i \in 0..n
        PROVE  f[i] = IF i = 0 THEN Multiples(Generator)
                      ELSE [j \in J |-> Doublings(f[i - 1][j])[Window]]
    <3>1. f[i] = IF i = 0 THEN Multiples(Generator) ELSE s[<<i, f[i - 1]>>]
      BY <1>7
    <3>2. i # 0 => i \in Nat /\ i - 1 \in 0..n
      BY SizesAre
    <3>3. i # 0 => f[i - 1] \in T
      BY <3>2, <1>7
    <3>. QED BY <1>5, <3>1, <3>2, <3>3
  <2>. QED BY <2>1, <1>7
<1>. HIDE DEF P
<1>9. P(row)
  BY <1>8
<1>. HIDE DEF row
<1>10. \A i \in 0..n : row[i] = IF i = 0 THEN Multiples(Generator)
                                ELSE [j \in J |-> Doublings(row[i - 1][j])[Window]]
  BY <1>9 DEF P
<1>. HIDE DEF n
<1>11. 0 \in S
  <2>1. Window * 0 = 0 /\ TwoTo[0] = 1 /\ 0 \in 0..n
    BY <1>1, SizesAre, PowersFacts
  <2>2. row[0] = Multiples(Generator)
    BY <1>10, <2>1
  <2>3. ASSUME NEW j \in J PROVE Stands(row[0][j], TwoTo[Window * 0] * j)
    <3>1. 1 * j = j
      BY SizesAre
    <3>. QED BY <1>2, <2>1, <2>2, <3>1
  <2>. QED BY <2>3
<1>12. ASSUME NEW i \in Nat, i \in S PROVE i + 1 \in S
  <2>. SUFFICES ASSUME i + 1 \in 0..n, NEW j \in J
                PROVE  Stands(row[i + 1][j], TwoTo[Window * (i + 1)] * j)
    OBVIOUS
  <2>1. i \in 0..n /\ i + 1 # 0 /\ (i + 1) - 1 = i
    BY <1>1
  <2>2. row[i + 1][j] = Doublings(row[i][j])[Window]
    <3>1. row[i + 1] = [jj \in J |-> Doublings(row[i][jj])[Window]]
      BY <1>10, <2>1
    <3>. HIDE DEF J
    <3>. QED BY <3>1
  <2>3. Stands(row[i][j], TwoTo[Window * i] * j)
    BY <1>12, <2>1
  <2>4. Stands(Doublings(row[i][j])[Window], TwoTo[Window] * (TwoTo[Window * i] * j))
    BY <1>1, <2>3, DoublingsAre
  <2>5. TwoTo[Window * (i + 1)] = TwoTo[Window] * TwoTo[Window * i]
        /\ TwoTo[Window] \in Nat /\ TwoTo[Window * i] \in Nat
    <3>1. i \in 0..NumWindows /\ i + 1 \in 0..NumWindows
      BY <2>1, SizesAre DEF n
    <3>2. PICK a \in 0..Bits : a = Window * i
      BY <3>1, SizesAre
    <3>3. Window + a = Window * (i + 1) /\ Window * (i + 1) \in 0..Bits
      <4>1. Window * (i + 1) = Window + Window * i
        BY SizesAre
      <4>. QED BY <3>1, <3>2, <4>1, SizesAre
    <3>4. TwoTo[Window + a] = TwoTo[Window] * TwoTo[a]
      <4>1. Window \in Nat /\ a \in Nat /\ Window + a \in 0..Bits
        BY <3>2, <3>3, SizesAre
      <4>. QED BY <4>1, PowersAdd
    <3>5. Window \in 0..Bits
      BY SizesAre
    <3>. QED BY <3>2, <3>3, <3>4, <3>5, PowersFacts
  <2>6. PICK p \in Nat, w \in Nat : p = TwoTo[Window * i] /\ w = TwoTo[Window]
    BY <2>5
  <2>7. w * (p * j) = (w * p) * j
    <3>1. j \in Int
      BY SizesAre
    <3>. QED BY <3>1
  <2>. QED BY <2>2, <2>4, <2>5, <2>6, <2>7
<1>. HIDE DEF S
<1>13. Nat \subseteq S
  BY <1>11, <1>12, NatClosure
<1>. QED
  <2>. SUFFICES ASSUME NEW i \in 0..(NumWindows - 1), NEW j \in 0..(WindowSize - 1)
                PROVE  Stands(CombTable[i][j], TwoTo[Window * i] * j)
    OBVIOUS
  <2>1. i \in Nat /\ i \in 0..n
    BY SizesAre DEF n
  <2>2. Stands(row[i][j], TwoTo[Window * i] * j)
    BY <1>13, <2>1 DEF S
  <2>3. CombTable[i][j] = row[i][j]
    BY <1>6
  <2>. QED BY <2>2, <2>3

(* One window of mul_g.                                                    *)
LEMMA MulGStep ==
    ASSUME NEW k \in Nat, NEW i \in 0..(NumWindows - 1), NEW acc, Stands(acc, k % TwoTo[Window * i])
    PROVE  Stands(MulGWindow(acc, k, i), k % TwoTo[Window * (i + 1)])
<1>1. i \in 0..NumWindows /\ i + 1 \in 0..NumWindows /\ Window \in Nat /\ Bits \in Nat /\ Window \in 0..Bits
  BY SizesAre
<1>2. PICK a \in 0..Bits : a = Window * i
  BY <1>1, SizesAre
<1>3. PICK A \in Nat \ {0} : A = TwoTo[a]
  BY PowersFacts
<1>4. PICK w \in Nat \ {0} : w = WindowSize
  BY SizesAre
<1>5. TwoTo[Window * (i + 1)] = Mul(w, A)
  <2>1. Window + a = Window * (i + 1) /\ Window * (i + 1) \in 0..Bits
    <3>1. Window * (i + 1) = Window + Window * i
      BY <1>1, SizesAre
    <3>. QED BY <1>1, <1>2, <3>1, SizesAre
  <2>2. Window \in Nat /\ a \in Nat /\ Window + a \in 0..Bits
    BY <1>1, <2>1
  <2>3. TwoTo[Window + a] = TwoTo[Window] * TwoTo[a]
    BY <2>2, PowersAdd
  <2>. QED BY <1>3, <1>4, <2>1, <2>3 DEF Mul, WindowSize
<1>6. PICK x \in Nat : x = Quo(k, A)
  BY DivMod
<1>7. PICK v \in 0..(w - 1) : v = Rem(x, w)
  BY DivMod
<1>8. PICK r \in Nat : r = Rem(k, A)
  <2>1. Rem(k, A) \in 0..(A - 1)
    BY DivMod
  <2>. QED BY <2>1
<1>9. Nibble(k, i) = v
  BY <1>2, <1>3, <1>4, <1>6, <1>7 DEF Nibble, Quo, Rem
<1>10. Stands(CombTable[i][v], A * v)
  BY <1>2, <1>3, <1>4, CombIs
<1>11. Stands(acc, r)
  BY <1>2, <1>3, <1>8 DEF Rem
<1>12. Stands(Add(acc, CombTable[i][v]), r + A * v)
  BY <1>10, <1>11, StandsFacts
<1>13. k % TwoTo[Window * (i + 1)] = r + A * v
  <2>1. PICK n : n = Mul(w, A)
    OBVIOUS
  <2>2. Rem(k, n) = Rem(k, A) + Rem(Quo(k, A), w) * A
    BY <2>1, DivDiv
  <2>3. v * A = A * v
    BY <1>4
  <2>4. Rem(k, n) = r + v * A
    BY <2>2, <1>6, <1>7, <1>8
  <2>. QED BY <1>5, <2>1, <2>3, <2>4 DEF Rem
<1>. QED BY <1>9, <1>12, <1>13 DEF MulGWindow

(* mul_g gives the k-th multiple of the generator.                         *)
LEMMA MulGIs ==
    ASSUME NEW k \in 0..(OrderN - 1)
    PROVE  Stands(MulG(k), k)
<1>. DEFINE n == NumWindows
            s == [a \in Nat \X Standing |-> IF a[1] \in 1..n THEN MulGWindow(a[2], k, a[1] - 1) ELSE Identity]
            P(f) == f = [i \in 0..NumWindows |-> IF i = 0 THEN Identity ELSE MulGWindow(f[i - 1], k, i - 1)]
            acc == CHOOSE f : P(f)
            S == {i \in Nat : i \in 0..n => Stands(acc[i], k % TwoTo[Window * i])}
<1>1. n \in Nat \ {0} /\ Identity \in Standing /\ k \in Nat
  BY SizesAre, StandsFacts, FnFacts
<1>2. MulG(k) = acc[n]
  BY DEF MulG
<1>. HIDE DEF n
<1>3. ASSUME NEW a \in Standing, NEW i \in 1..n PROVE MulGWindow(a, k, i - 1) \in Standing
  <2>1. i - 1 \in 0..(NumWindows - 1)
    BY <1>1 DEF n
  <2>2. Nibble(k, i - 1) \in 0..(WindowSize - 1)
    <3>1. PICK e \in 0..Bits : e = Window * (i - 1)
      <4>1. i - 1 \in 0..NumWindows
        BY <2>1, SizesAre
      <4>. QED BY <4>1, SizesAre
    <3>2. PICK A \in Nat \ {0} : A = TwoTo[e]
      BY PowersFacts
    <3>3. PICK w \in Nat \ {0} : w = WindowSize
      BY SizesAre
    <3>4. Rem(Quo(k, A), w) \in 0..(w - 1)
      BY <1>1, DivMod
    <3>. QED BY <3>1, <3>2, <3>3, <3>4 DEF Nibble, Quo, Rem
  <2>3. PICK m \in Int : Stands(a, m)
    BY DEF Standing
  <2>4. Stands(CombTable[i - 1][Nibble(k, i - 1)], TwoTo[Window * (i - 1)] * Nibble(k, i - 1))
    BY <2>1, <2>2, CombIs
  <2>5. Stands(Add(a, CombTable[i - 1][Nibble(k, i - 1)]),
               m + TwoTo[Window * (i - 1)] * Nibble(k, i - 1))
    BY <2>3, <2>4, StandsFacts
  <2>6. Add(a, CombTable[i - 1][Nibble(k, i - 1)]) \in Standing
    BY <2>5, StandsFacts
  <2>. QED BY <2>6 DEF MulGWindow
<1>4. /\ s \in [Nat \X Standing -> Standing]
      /\ \A i \in 1..n : \A a \in Standing : s[<<i, a>>] = MulGWindow(a, k, i - 1)
  <2>1. \A i \in 1..n : i \in Nat
    BY <1>1
  <2>. QED BY <1>1, <1>3, <2>1
<1>. HIDE DEF s
<1>5. PICK f \in [0..n -> Standing] : f = [i \in 0..n |-> IF i = 0 THEN Identity ELSE s[<<i, f[i - 1]>>]]
  <2>1. \E f \in [0..n -> Standing] : Stepwise(f, Identity, s, n)
    BY <1>1, <1>4, Recursion
  <2>. QED BY <2>1 DEF Stepwise
<1>6. P(f)
  <2>1. ASSUME NEW i \in 0..n
        PROVE  f[i] = IF i = 0 THEN Identity ELSE MulGWindow(f[i - 1], k, i - 1)
    <3>1. CASE i = 0
      BY <1>5, <3>1
    <3>2. CASE i # 0
      <4>1. i \in 1..n /\ i - 1 \in 0..n
        BY <1>1, <3>2
      <4>2. f[i - 1] \in Standing
        BY <1>5, <4>1
      <4>3. f[i] = s[<<i, f[i - 1]>>]
        BY <1>5, <3>2
      <4>. QED BY <1>4, <3>2, <4>1, <4>2, <4>3
    <3>. QED BY <3>1, <3>2
  <2>. QED BY <2>1, <1>5 DEF n
<1>. HIDE DEF P
<1>7. P(acc)
  BY <1>6
<1>. HIDE DEF acc
<1>8. \A i \in 0..n : acc[i] = IF i = 0 THEN Identity ELSE MulGWindow(acc[i - 1], k, i - 1)
  BY <1>7 DEF P, n
<1>9. 0 \in S
  <2>1. Window * 0 = 0 /\ TwoTo[0] = 1 /\ 0 \in 0..n /\ k % 1 = 0
    BY <1>1, SizesAre, PowersFacts
  <2>. QED BY <1>8, <2>1, StandsFacts
<1>10. ASSUME NEW i \in Nat, i \in S PROVE i + 1 \in S
  <2>. SUFFICES ASSUME i + 1 \in 0..n PROVE Stands(acc[i + 1], k % TwoTo[Window * (i + 1)])
    OBVIOUS
  <2>1. i \in 0..n /\ i \in 0..(NumWindows - 1) /\ (i + 1) - 1 = i /\ i + 1 # 0
    BY <1>1 DEF n
  <2>2. Stands(acc[i], k % TwoTo[Window * i])
    BY <1>10, <2>1
  <2>3. Stands(MulGWindow(acc[i], k, i), k % TwoTo[Window * (i + 1)])
    BY <1>1, <2>1, <2>2, MulGStep
  <2>. QED BY <1>8, <2>1, <2>3
<1>. HIDE DEF S
<1>11. Nat \subseteq S
  BY <1>9, <1>10, NatClosure
<1>12. Stands(acc[n], k % TwoTo[Bits])
  <2>1. n \in 0..n /\ Window * n = Bits
    BY <1>1, SizesAre DEF Mul, n
  <2>. QED BY <1>1, <1>11, <2>1 DEF S
<1>13. k % TwoTo[Bits] = k
  <2>1. PICK b \in Nat \ {0} : b = TwoTo[Bits] /\ OrderN < b
    <3>1. Bits \in 0..Bits /\ OrderN < TwoTo[Bits]
      BY SizesAre, CurveAssumption
    <3>2. TwoTo[Bits] \in Nat \ {0}
      BY <3>1, PowersFacts
    <3>. QED BY <3>1, <3>2
  <2>2. k \in 0..(b - 1)
    BY <2>1, FnFacts
  <2>3. Rem(k, b) = k
    BY <2>2, RemSmall
  <2>. QED BY <2>1, <2>3 DEF Rem
<1>. QED BY <1>2, <1>12, <1>13

(***************************************************************************)
(* The point calls.                                                        *)
(***************************************************************************)
AddedRight(c) ==
    /\ ToAffine(c.out) = RefAdd(c.a, c.b)
    /\ ToAffine(c.double) = RefAdd(c.a, c.a)
    /\ RefAdd(ToAffine(c.neg), c.a) = NoAffine
    /\ c.eq <=> c.a = c.b

(* Equality by cross-multiplication is equality of what is stood for.      *)
LEMMA CtEqIs ==
    ASSUME NEW a \in AllPoints, NEW b \in AllPoints, NEW q, NEW r, Rep(q, a), Rep(r, b)
    PROVE  CtEq(q, r) <=> a = b
<1>1. PICK s \in Int : Fp(s) # 0 /\ q = Scaled(a, s)
  BY DEF Rep
<1>2. PICK t \in Int : Fp(t) # 0 /\ r = Scaled(b, t)
  BY DEF Rep
<1>3. Fp(0) = 0 /\ \A u \in Int : Equal(Fp(u), u) /\ Equal(u, u)
  BY FpFacts DEF Equal, Elements
<1>4. Fp(s * t) # 0 /\ s * t \in Int
  BY <1>1, <1>2, NonZeroProduct
<1>5. CASE a = NoAffine /\ b = NoAffine
  <2>1. q = Point(0, s, 0) /\ r = Point(0, t, 0)
    BY <1>1, <1>2, <1>5 DEF Scaled
  <2>2. q.x = 0 /\ q.z = 0 /\ r.x = 0 /\ r.z = 0 /\ q.y \in Int /\ r.y \in Int
    BY <1>3, <2>1, FpFacts DEF Point
  <2>. QED BY <1>5, <2>2 DEF CtEq
<1>6. CASE a = NoAffine /\ b # NoAffine
  <2>1. q = Point(0, s, 0) /\ r = Point(b[1] * t, b[2] * t, t)
    BY <1>1, <1>2, <1>6 DEF Scaled
  <2>2. q.z = 0 /\ q.y = Fp(s) /\ r.z = Fp(t) /\ r.y \in Int /\ Fp(s) \in Int /\ Fp(t) \in Int
    <3>1. b[2] * t \in Int
      BY <1>6, AffineFacts
    <3>. QED BY <1>3, <2>1, <3>1, FpFacts DEF Point
  <2>3. Fp(q.y * r.z) # 0
    <3>1. Fp(Fp(s)) # 0 /\ Fp(Fp(t)) # 0
      BY <1>1, <1>2, FpFacts
    <3>. QED BY <2>2, <3>1, NonZeroProduct
  <2>4. Fp(r.y * q.z) = 0
    BY <1>3, <2>2
  <2>. QED BY <1>6, <2>3, <2>4 DEF CtEq
<1>7. CASE a # NoAffine /\ b = NoAffine
  <2>1. r = Point(0, t, 0) /\ q = Point(a[1] * s, a[2] * s, s)
    BY <1>1, <1>2, <1>7 DEF Scaled
  <2>2. r.z = 0 /\ r.y = Fp(t) /\ q.z = Fp(s) /\ q.y \in Int /\ Fp(s) \in Int /\ Fp(t) \in Int
    <3>1. a[2] * s \in Int
      BY <1>7, AffineFacts
    <3>. QED BY <1>3, <2>1, <3>1, FpFacts DEF Point
  <2>3. Fp(r.y * q.z) # 0
    <3>1. Fp(Fp(s)) # 0 /\ Fp(Fp(t)) # 0
      BY <1>1, <1>2, FpFacts
    <3>. QED BY <2>2, <3>1, NonZeroProduct
  <2>4. Fp(q.y * r.z) = 0
    BY <1>3, <2>2
  <2>. QED BY <1>7, <2>3, <2>4 DEF CtEq
<1>8. CASE a # NoAffine /\ b # NoAffine
  <2>1. /\ a = <<a[1], a[2]>> /\ b = <<b[1], b[2]>>
        /\ a[1] \in Elements /\ a[2] \in Elements /\ b[1] \in Elements /\ b[2] \in Elements
    BY <1>8, AffineFacts
  <2>2. q = Point(a[1] * s, a[2] * s, s) /\ r = Point(b[1] * t, b[2] * t, t)
    BY <1>1, <1>2, <1>8 DEF Scaled
  <2>3. ASSUME NEW u \in Elements, NEW v \in Elements
        PROVE  Fp(Fp(u * s) * Fp(t)) = Fp(Fp(v * t) * Fp(s)) <=> u = v
    <3>1. u \in Int /\ v \in Int /\ Fp(u) = u /\ Fp(v) = v /\ u * s \in Int /\ v * t \in Int
      BY FpFacts
    <3>2. PICK m \in Int : m = s * t /\ Fp(m) # 0
      BY <1>4
    <3>3. Fp(Fp(u * s) * Fp(t)) = Fp(u * m)
      <4>1. Equal(Fp(u * s), u * s) /\ Equal(Fp(t), t)
        BY <1>3, <3>1
      <4>2. Equal(Fp(u * s) * Fp(t), (u * s) * t)
        BY <4>1, EqualFacts
      <4>3. (u * s) * t = u * m
        BY <3>1, <3>2
      <4>. QED BY <4>2, <4>3 DEF Equal
    <3>4. Fp(Fp(v * t) * Fp(s)) = Fp(v * m)
      <4>1. Equal(Fp(v * t), v * t) /\ Equal(Fp(s), s)
        BY <1>3, <3>1
      <4>2. Equal(Fp(v * t) * Fp(s), (v * t) * s)
        BY <4>1, EqualFacts
      <4>3. (v * t) * s = v * m
        BY <3>1, <3>2
      <4>. QED BY <4>2, <4>3 DEF Equal
    <3>5. ASSUME Fp(u * m) = Fp(v * m) PROVE u = v
      <4>1. PICK i \in Int : Fp(Fp(m) * i) = 1
        BY <3>2, FpFacts, Inverses
      <4>2. Equal(m * i, 1)
        <5>1. Equal(Fp(m), m) /\ Equal(i, i)
          BY <1>3
        <5>2. Equal(Fp(m) * i, m * i)
          BY <5>1, EqualFacts
        <5>3. 1 \in Elements /\ Fp(1) = 1
          BY <4>1, FpFacts
        <5>. QED BY <4>1, <5>2, <5>3 DEF Equal
      <4>3. \A w \in Int : Equal((w * m) * i, w)
        <5>. SUFFICES ASSUME NEW w \in Int PROVE Equal((w * m) * i, w)
          OBVIOUS
        <5>1. Equal(w, w)
          BY <1>3
        <5>2. Equal(w * (m * i), w * 1)
          BY <4>2, <5>1, EqualFacts
        <5>3. w * (m * i) = (w * m) * i /\ w * 1 = w
          OBVIOUS
        <5>. QED BY <5>2, <5>3
      <4>4. Equal((u * m) * i, (v * m) * i)
        <5>1. Equal(u * m, v * m) /\ Equal(i, i)
          BY <1>3, <3>1, <3>5 DEF Equal
        <5>. QED BY <5>1, EqualFacts
      <4>5. Equal((u * m) * i, u) /\ Equal((v * m) * i, v)
        BY <3>1, <4>3
      <4>6. Fp(u) = Fp(v)
        BY <4>4, <4>5 DEF Equal
      <4>. QED BY <3>1, <4>6
    <3>. QED BY <3>3, <3>4, <3>5
  <2>4. CtEq(q, r) <=> a[1] = b[1] /\ a[2] = b[2]
    BY <2>1, <2>2, <2>3 DEF CtEq, Point
  <2>. QED BY <2>1, <2>4
<1>. QED BY <1>5, <1>6, <1>7, <1>8

(* The negation stands for the opposite point.                             *)
LEMMA NegIs ==
    ASSUME NEW a \in AllPoints, NEW z \in 1..(FieldP - 1), NEW q, q = Scaled(a, z)
    PROVE  RefAdd(ToAffine([q EXCEPT !.y = Fp(-q.y)]), a) = NoAffine
<1>. DEFINE p == [q EXCEPT !.y = Fp(-q.y)]
<1>0. z \in Int /\ Fp(z) = z /\ z # 0 /\ Fp(0) = 0
      /\ \A u \in Int : Equal(Fp(u), u) /\ Equal(u, u)
  BY FpFacts DEF Equal, Elements
<1>1. CASE a = NoAffine
  <2>1. q = Point(0, z, 0)
    BY <1>1 DEF Scaled
  <2>2. p.z = 0
    BY <1>0, <2>1 DEF Point
  <2>3. ToAffine(p) = NoAffine
    BY <2>2 DEF ToAffine, IsIdentity
  <2>. QED BY <1>1, <2>3 DEF RefAdd
<1>2. CASE a # NoAffine
  <2>1. /\ a = <<a[1], a[2]>> /\ a[1] \in Elements /\ a[2] \in Elements /\ a[1] \in Int /\ a[2] \in Int
        /\ Fp(a[1]) = a[1] /\ Fp(a[2]) = a[2]
    BY <1>2, AffineFacts, FpFacts
  <2>2. PICK x \in Int, y \in Int : x = a[1] /\ y = a[2] /\ Fp(x) = x /\ Fp(y) = y
    BY <2>1
  <2>3. q = [x |-> Fp(x * z), y |-> Fp(y * z), z |-> z]
    BY <1>0, <1>2, <2>2 DEF Scaled, Point
  <2>4. p = [x |-> Fp(x * z), y |-> Fp(-Fp(y * z)), z |-> z]
    BY <2>3
  <2>5. PICK i \in Int : i = FpInverse[z] /\ Equal(z * i, 1)
    <3>1. FpInverse[z] \in Int /\ Fp(z * FpInverse[z]) = 1
      <4>1. z \in Elements
        BY FpFacts DEF Elements
      <4>. QED BY <1>0, <4>1, Inverses
    <3>2. 1 \in Elements
      BY <1>0, <3>1, FpFacts
    <3>. QED BY <1>0, <3>1, <3>2, FpFacts DEF Equal
  <2>6. \A w \in Int : Equal((w * z) * i, w)
    <3>. SUFFICES ASSUME NEW w \in Int PROVE Equal((w * z) * i, w)
      OBVIOUS
    <3>1. Equal(w, w)
      BY <1>0
    <3>2. Equal(w * (z * i), w * 1)
      BY <2>5, <3>1, EqualFacts
    <3>3. w * (z * i) = (w * z) * i /\ w * 1 = w
      BY <1>0
    <3>. QED BY <3>2, <3>3
  <2>7. Fp(p.x * i) = x
    <3>1. Equal(Fp(x * z), x * z) /\ Equal(i, i)
      BY <1>0
    <3>2. Equal(Fp(x * z) * i, (x * z) * i) /\ Equal((x * z) * i, x)
      BY <2>6, <3>1, EqualFacts
    <3>3. p.x = Fp(x * z)
      BY <2>4
    <3>. QED BY <2>2, <3>2, <3>3 DEF Equal
  <2>8. Fp(p.y * i) = Fp(-y)
    <3>1. PICK f \in Int : f = Fp(y * z) /\ Equal(f, y * z) /\ Equal(i, i) /\ Equal(0, 0)
      BY <1>0, FpFacts
    <3>2. Equal(f * i, (y * z) * i) /\ Equal((y * z) * i, y)
      BY <2>6, <3>1, EqualFacts
    <3>3. Equal(f * i, y)
      BY <3>2 DEF Equal
    <3>4. Equal(0 - f * i, 0 - y)
      BY <3>1, <3>3, EqualFacts
    <3>5. Equal(Fp(-f) * i, (-f) * i)
      <4>1. Equal(Fp(-f), -f)
        BY <1>0
      <4>. QED BY <3>1, <4>1, EqualFacts
    <3>6. (-f) * i = 0 - f * i /\ 0 - y = -y
      OBVIOUS
    <3>7. p.y = Fp(-f)
      BY <2>4, <3>1
    <3>. QED BY <3>4, <3>5, <3>6, <3>7 DEF Equal
  <2>9. ToAffine(p) = <<x, Fp(-y)>>
    <3>1. p.z = z /\ ~IsIdentity(p)
      BY <1>0, <2>4 DEF IsIdentity
    <3>. QED BY <2>5, <2>7, <2>8, <3>1 DEF ToAffine
  <2>10. Fp(Fp(-y) + y) = 0
    <3>1. Equal(Fp(-y), -y) /\ Equal(y, y)
      BY <1>0
    <3>2. Equal(Fp(-y) + y, (-y) + y) /\ (-y) + y = 0
      BY <3>1, EqualFacts
    <3>. QED BY <1>0, <3>2 DEF Equal
  <2>11. <<x, Fp(-y)>> # NoAffine
    BY DEF NoAffine
  <2>. QED BY <1>2, <2>2, <2>9, <2>10, <2>11 DEF RefAdd
<1>. QED BY <1>1, <1>2

(* A single addition, doubling, negation and comparison is right.          *)
LEMMA AddIs ==
    ASSUME AddPoints
    PROVE  call'.op = "add" /\ AddedRight(call')
<1>1. PICK a \in AllPoints, b \in AllPoints, z \in Zs :
        call' = [op |-> "add", a |-> a, b |-> b, eq |-> CtEq(Scaled(a, z), Scaled(b, 1)),
                 double |-> Double(Scaled(a, z)), neg |-> [Scaled(a, z) EXCEPT !.y = Fp(-@)],
                 out |-> Add(Scaled(a, z), Scaled(b, 1))]
  BY DEF AddPoints
<1>2. z \in 1..(FieldP - 1) /\ 1 \in 1..(FieldP - 1)
  BY CallsAssumption, FpFacts
<1>3. Rep(Scaled(a, z), a) /\ Rep(Scaled(b, 1), b)
  BY <1>2, RepBasics
<1>4. ToAffine(Add(Scaled(a, z), Scaled(b, 1))) = RefAdd(a, b)
  <2>1. /\ RefAdd(a, b) \in AllPoints
        /\ Rep(Add(Scaled(a, z), Scaled(b, 1)), RefAdd(a, b))
    BY <1>3, RepAdd
  <2>. QED BY <2>1, RepAffine
<1>5. ToAffine(Double(Scaled(a, z))) = RefAdd(a, a)
  <2>1. /\ RefAdd(a, a) \in AllPoints
        /\ Rep(Double(Scaled(a, z)), RefAdd(a, a))
    BY <1>3, RepDouble
  <2>. QED BY <2>1, RepAffine
<1>6. RefAdd(ToAffine([Scaled(a, z) EXCEPT !.y = Fp(-@)]), a) = NoAffine
  BY <1>2, NegIs
<1>7. CtEq(Scaled(a, z), Scaled(b, 1)) <=> a = b
  BY <1>3, CtEqIs
<1>. QED BY <1>1, <1>4, <1>5, <1>6, <1>7 DEF AddedRight

(* No two non-zero residues of the order have the product zero.            *)
LEMMA NonZeroProductN ==
    ASSUME NEW a \in Int, NEW b \in Int, Fn(a) # 0, Fn(b) # 0
    PROVE  Fn(a * b) # 0
<1>. SUFFICES ASSUME Fn(a * b) = 0 PROVE FALSE
  OBVIOUS
<1>1. PICK r \in 1..(OrderN - 1) : r = Fn(a)
  BY FnFacts
<1>2. PICK i \in 1..(OrderN - 1) : Fn(r * i) = 1
  BY GroupAssumption
<1>3. r \in Int /\ i \in Int
  BY FnFacts
<1>4. EqualN(r, a) /\ EqualN(i, i) /\ EqualN(b, b)
  BY <1>1, <1>3, EqualNSelf
<1>5. EqualN(a * b, 0)
  BY FnFacts DEF EqualN
<1>6. EqualN(r * i, 1)
  <2>1. 1 \in 0..(OrderN - 1)
    BY <1>1, FnFacts
  <2>2. r * i \in Int /\ Fn(1) = 1
    BY <1>3, <2>1, FnFacts
  <2>. QED BY <1>2, <2>2 DEF EqualN
<1>7. EqualN((a * b) * i, 0 * i)
  BY <1>4, <1>5, EqualNFacts
<1>8. EqualN((r * i) * b, 1 * b)
  BY <1>4, <1>6, EqualNFacts
<1>9. EqualN((r * i) * b, (a * i) * b)
  <2>1. EqualN(r * i, a * i)
    BY <1>4, EqualNFacts
  <2>. QED BY <1>4, <2>1, EqualNFacts
<1>10. (a * b) * i = (a * i) * b /\ 0 * i = 0 /\ 1 * b = b
  BY <1>3
<1>11. Fn(b) = Fn(0)
  BY <1>7, <1>8, <1>9, <1>10 DEF EqualN
<1>. QED BY <1>11, FnFacts

(* What a running multiplication has in its accumulator: the multiple by   *)
(* the windows taken in.                                                   *)
MulVarCall(c, k, a, j, q, left, acc, out) ==
    /\ c = [op |-> "mul_var", k |-> k, a |-> a, left |-> left, acc |-> acc,
            table |-> Multiples(q), lifted |-> LiftScalar(k), out |-> out]
    /\ k \in 0..(OrderN - 1) /\ left \in 0..NumWindows /\ j \in Int
    /\ a = Pt(j) /\ Stands(q, j) /\ Stands(acc, Taken(LiftScalar(k), left) * j)
    /\ out = Pending \/ (left = 0 /\ out = acc)
MulVarInv(c) == \E k, a, j, q, left, acc, out : MulVarCall(c, k, a, j, q, left, acc, out)
MulGCall(c, k, left, acc, out) ==
    /\ c = [op |-> "mul_g", k |-> k, a |-> RefG, left |-> left, acc |-> acc, out |-> out]
    /\ k \in 0..(OrderN - 1) /\ left \in 0..NumWindows
    /\ Stands(acc, k % TwoTo[Window * (NumWindows - left)])
    /\ out = Pending \/ (left = 0 /\ out = acc)
MulGInv(c) == \E k, left, acc, out : MulGCall(c, k, left, acc, out)

(* StartMulVar establishes its invariant.                                  *)
LEMMA MulVarStarts == ASSUME StartMulVar PROVE MulVarInv(call')
<1>1. PICK k \in 0..(OrderN - 1), a \in AllPoints, z \in Zs :
        call' = [op |-> "mul_var", k |-> k, a |-> a, left |-> NumWindows,
                 acc |-> Scaled(a, z), table |-> Multiples(Scaled(a, z)),
                 lifted |-> LiftScalar(k), out |-> Pending]
  BY DEF StartMulVar, MulVarStart
<1>2. PICK j \in Int : a = Pt(j)
  <2>1. \E i \in 0..(OrderN - 1) : a = Pt(i)
    BY PtAdd
  <2>. QED BY <2>1, FnFacts
<1>3. Stands(Scaled(a, z), j)
  <2>1. z \in 1..(FieldP - 1)
    BY CallsAssumption
  <2>2. Rep(Scaled(a, z), a)
    BY <2>1, RepBasics
  <2>3. Scaled(a, z) \in Points
    BY <2>2, RepAffine
  <2>. QED BY <1>2, <2>2, <2>3 DEF Stands
<1>4. Taken(LiftScalar(k), NumWindows) = 1 /\ 1 * j = j
  BY LiftIs, TakenFacts
<1>5. NumWindows \in 0..NumWindows
  BY SizesAre
<1>6. MulVarCall(call', k, a, j, Scaled(a, z), NumWindows, Scaled(a, z), Pending)
  BY <1>1, <1>2, <1>3, <1>4, <1>5 DEF MulVarCall
<1>. QED BY <1>6 DEF MulVarInv

(* A window of mul_var keeps it.                                           *)
LEMMA MulVarGoes == ASSUME MulVarInv(call), StepMulVar PROVE MulVarInv(call')
<1>1. PICK k, a, j, q, left, acc, out : MulVarCall(call, k, a, j, q, left, acc, out)
  BY DEF MulVarInv
<1>2. call = [op |-> "mul_var", k |-> k, a |-> a, left |-> left, acc |-> acc,
              table |-> Multiples(q), lifted |-> LiftScalar(k), out |-> out]
  BY <1>1 DEF MulVarCall
<1>. DEFINE next == MulVarWindow(acc, Multiples(q), Nibble(LiftScalar(k), left - 1))
<1>3. left > 0 /\ out = Pending
  BY <1>2 DEF StepMulVar, Running
<1>4. call' = [op |-> "mul_var", k |-> k, a |-> a, left |-> left - 1, acc |-> next,
               table |-> Multiples(q), lifted |-> LiftScalar(k), out |-> out]
  BY <1>2 DEF StepMulVar
<1>5. left \in 1..NumWindows /\ left - 1 \in 0..NumWindows
  BY <1>1, <1>3, SizesAre DEF MulVarCall
<1>6. Stands(next, Taken(LiftScalar(k), left - 1) * j)
  <2>1. LiftScalar(k) \in 0..(TwoTo[Bits] - 1)
    BY <1>1, LiftIs DEF MulVarCall
  <2>. QED BY <1>1, <1>5, <2>1, MulVarStep DEF MulVarCall
<1>. HIDE DEF next
<1>7. MulVarCall(call', k, a, j, q, left - 1, next, out)
  BY <1>1, <1>3, <1>4, <1>5, <1>6 DEF MulVarCall
<1>. QED BY <1>7 DEF MulVarInv

(* StartMulG establishes its invariant.                                    *)
LEMMA MulGStarts == ASSUME StartMulG PROVE MulGInv(call')
<1>1. PICK k \in 0..(OrderN - 1) :
        call' = [op |-> "mul_g", k |-> k, a |-> RefG, left |-> NumWindows,
                 acc |-> Identity, out |-> Pending]
  BY DEF StartMulG
<1>2. NumWindows \in 0..NumWindows /\ NumWindows - NumWindows = 0 /\ Window * 0 = 0 /\ TwoTo[0] = 1
  BY SizesAre, PowersFacts
<1>3. k % 1 = 0
  BY FnFacts
<1>4. Stands(Identity, k % TwoTo[Window * (NumWindows - NumWindows)])
  BY <1>2, <1>3, StandsFacts
<1>5. MulGCall(call', k, NumWindows, Identity, Pending)
  BY <1>1, <1>2, <1>4 DEF MulGCall
<1>. QED BY <1>5 DEF MulGInv

(* A window of mul_g keeps it.                                             *)
LEMMA MulGGoes == ASSUME MulGInv(call), StepMulG PROVE MulGInv(call')
<1>1. PICK k, left, acc, out : MulGCall(call, k, left, acc, out)
  BY DEF MulGInv
<1>2. call = [op |-> "mul_g", k |-> k, a |-> RefG, left |-> left, acc |-> acc, out |-> out]
  BY <1>1 DEF MulGCall
<1>. DEFINE next == MulGWindow(acc, k, NumWindows - left)
<1>3. left > 0 /\ out = Pending
  BY <1>2 DEF StepMulG, Running
<1>4. call' = [op |-> "mul_g", k |-> k, a |-> RefG, left |-> left - 1, acc |-> next, out |-> out]
  BY <1>2 DEF StepMulG
<1>5. /\ left - 1 \in 0..NumWindows /\ NumWindows - left \in 0..(NumWindows - 1)
      /\ (NumWindows - left) + 1 = NumWindows - (left - 1) /\ k \in Nat
  BY <1>1, <1>3, SizesAre, FnFacts DEF MulGCall
<1>6. Stands(next, k % TwoTo[Window * ((NumWindows - left) + 1)])
  BY <1>1, <1>5, MulGStep DEF MulGCall
<1>. HIDE DEF next
<1>7. MulGCall(call', k, left - 1, next, out)
  BY <1>1, <1>3, <1>4, <1>5, <1>6 DEF MulGCall
<1>. QED BY <1>7 DEF MulGInv

(* Handing over the accumulator keeps both.                                *)
LEMMA MulEnds ==
    ASSUME EndMul
    PROVE  (MulVarInv(call) => MulVarInv(call')) /\ (MulGInv(call) => MulGInv(call'))
<1>1. ASSUME MulVarInv(call) PROVE MulVarInv(call')
  <2>1. PICK k, a, j, q, left, acc, out : MulVarCall(call, k, a, j, q, left, acc, out)
    BY <1>1 DEF MulVarInv
  <2>2. call = [op |-> "mul_var", k |-> k, a |-> a, left |-> left, acc |-> acc,
                table |-> Multiples(q), lifted |-> LiftScalar(k), out |-> out]
    BY <2>1 DEF MulVarCall
  <2>3. left = 0
    BY <2>2 DEF EndMul
  <2>4. call' = [op |-> "mul_var", k |-> k, a |-> a, left |-> left, acc |-> acc,
                 table |-> Multiples(q), lifted |-> LiftScalar(k), out |-> acc]
    BY <2>2 DEF EndMul
  <2>5. MulVarCall(call', k, a, j, q, left, acc, acc)
    BY <2>1, <2>3, <2>4 DEF MulVarCall
  <2>. QED BY <2>5 DEF MulVarInv
<1>2. ASSUME MulGInv(call) PROVE MulGInv(call')
  <2>1. PICK k, left, acc, out : MulGCall(call, k, left, acc, out)
    BY <1>2 DEF MulGInv
  <2>2. call = [op |-> "mul_g", k |-> k, a |-> RefG, left |-> left, acc |-> acc, out |-> out]
    BY <2>1 DEF MulGCall
  <2>3. left = 0
    BY <2>2 DEF EndMul
  <2>4. call' = [op |-> "mul_g", k |-> k, a |-> RefG, left |-> left, acc |-> acc, out |-> acc]
    BY <2>2 DEF EndMul
  <2>5. MulGCall(call', k, left, acc, acc)
    BY <2>1, <2>3, <2>4 DEF MulGCall
  <2>. QED BY <2>5 DEF MulGInv
<1>. QED BY <1>1, <1>2

(* What a multiplication shows.                                            *)
LEMMA MulVarShows ==
    ASSUME MulVarInv(call)
    PROVE  /\ call.op = "mul_var"
           /\ call.out # Pending => ToAffine(call.out) = RefMul(call.k, call.a)
           /\ call.out = Pending /\ call.left > 0 /\ call.a # NoAffine =>
                \A i \in 0..(Window - 1) : ~IsIdentity(Doublings(call.acc)[i])
<1>1. PICK k, a, j, q, left, acc, out : MulVarCall(call, k, a, j, q, left, acc, out)
  BY DEF MulVarInv
<1>2. call = [op |-> "mul_var", k |-> k, a |-> a, left |-> left, acc |-> acc,
              table |-> Multiples(q), lifted |-> LiftScalar(k), out |-> out]
  BY <1>1 DEF MulVarCall
<1>3. /\ k \in 0..(OrderN - 1) /\ left \in 0..NumWindows /\ j \in Int /\ k \in Int
      /\ a = Pt(j) /\ Stands(acc, Taken(LiftScalar(k), left) * j)
      /\ out = Pending \/ (left = 0 /\ out = acc)
  BY <1>1, FnFacts DEF MulVarCall
<1>4. LiftScalar(k) \in 0..(TwoTo[Bits] - 1) /\ EqualN(TwoTo[Bits] + LiftScalar(k), k)
  BY <1>3, LiftIs
<1>5. ASSUME out # Pending PROVE ToAffine(out) = RefMul(k, a)
  <2>1. left = 0 /\ out = acc
    BY <1>3, <1>5
  <2>2. Taken(LiftScalar(k), 0) = TwoTo[Bits] + LiftScalar(k)
    BY <1>4, TakenFacts
  <2>3. EqualN(Taken(LiftScalar(k), 0) * j, k * j)
    <3>1. EqualN(j, j)
      BY <1>3, EqualNSelf
    <3>. QED BY <1>4, <2>2, <3>1, EqualNFacts
  <2>4. Stands(acc, k * j)
    BY <1>3, <2>1, <2>3, StandsFacts
  <2>5. ToAffine(acc) = Pt(k * j)
    BY <2>4, StandsFacts
  <2>. QED BY <1>3, <2>1, <2>5, PtMul
<1>6. ASSUME left > 0, a # NoAffine, NEW i \in 0..(Window - 1) PROVE ~IsIdentity(Doublings(acc)[i])
  <2>1. left \in 1..NumWindows /\ i \in 0..Window /\ i \in 0..Bits
    BY <1>3, <1>6, SizesAre
  <2>2. PICK t \in Nat : t = Taken(LiftScalar(k), left)
    BY <1>4, <2>1, TakenFacts
  <2>3. PICK p \in Nat : p = TwoTo[i]
    BY <2>1, PowersFacts
  <2>4. Fn(p * t) # 0
    BY <1>4, <2>1, <2>2, <2>3, TakenFacts
  <2>5. Stands(Doublings(acc)[i], p * (t * j))
    BY <1>3, <2>1, <2>2, <2>3, DoublingsAre
  <2>6. Fn(j) # 0
    <3>1. Fn(0) = 0
      BY FnFacts
    <3>2. Fn(j) = 0 => EqualN(j, 0)
      BY <1>3, <3>1 DEF EqualN
    <3>. QED BY <1>3, <1>6, <3>2, PtAdd
  <2>7. Fn(p * (t * j)) # 0
    <3>1. Fn((p * t) * j) # 0
      <4>1. p * t \in Int
        OBVIOUS
      <4>. QED BY <1>3, <2>4, <2>6, <4>1, NonZeroProductN
    <3>2. (p * t) * j = p * (t * j)
      BY <1>3
    <3>. QED BY <3>1, <3>2
  <2>. QED BY <2>5, <2>7, StandsFacts
<1>. QED BY <1>2, <1>5, <1>6

(* What a multiplication of the generator shows.                           *)
LEMMA MulGShows ==
    ASSUME MulGInv(call)
    PROVE  /\ call.op = "mul_g"
           /\ call.out # Pending => ToAffine(call.out) = RefMul(call.k, call.a)
<1>1. PICK k, left, acc, out : MulGCall(call, k, left, acc, out)
  BY DEF MulGInv
<1>2. call = [op |-> "mul_g", k |-> k, a |-> RefG, left |-> left, acc |-> acc, out |-> out]
  BY <1>1 DEF MulGCall
<1>3. /\ k \in 0..(OrderN - 1) /\ left \in 0..NumWindows /\ k \in Nat
      /\ Stands(acc, k % TwoTo[Window * (NumWindows - left)])
      /\ out = Pending \/ (left = 0 /\ out = acc)
  BY <1>1, FnFacts DEF MulGCall
<1>4. ASSUME out # Pending PROVE ToAffine(out) = RefMul(k, RefG)
  <2>1. left = 0 /\ out = acc /\ NumWindows - 0 = NumWindows /\ Window * NumWindows = Bits
    BY <1>3, <1>4, SizesAre DEF Mul
  <2>2. k % TwoTo[Bits] = k
    <3>1. Bits \in 0..Bits /\ OrderN < TwoTo[Bits]
      BY SizesAre, CurveAssumption
    <3>2. PICK b \in Nat \ {0} : b = TwoTo[Bits] /\ OrderN < b
      BY <3>1, PowersFacts
    <3>3. k \in 0..(b - 1)
      BY <1>3, <3>2, FnFacts
    <3>4. Rem(k, b) = k
      BY <3>3, RemSmall
    <3>. QED BY <3>2, <3>4 DEF Rem
  <2>3. Stands(acc, k)
    BY <1>3, <2>1, <2>2
  <2>. QED BY <2>1, <2>3, StandsFacts DEF Pt
<1>. QED BY <1>2, <1>4

(***************************************************************************)
(* Signatures.                                                             *)
(***************************************************************************)

(* A private scalar, its public point and the inverse signing needs.       *)
LEMMA KeyFacts ==
    ASSUME NEW d \in PrivateKeys
    PROVE  /\ d \in 1..(OrderN - 2) /\ d \in Nat /\ d \in 0..(OrderN - 1)
           /\ Fn(d) # 0 /\ Fn(1 + d) = 1 + d /\ 1 + d \in 1..(OrderN - 1)
           /\ FnInverse[1 + d] \in Int /\ EqualN((1 + d) * FnInverse[1 + d], 1)
           /\ Stands(PublicKey(d), d) /\ ~IsIdentity(PublicKey(d))
<1>1. d \in Nat /\ d # 0 /\ d < OrderN - 1
  BY CallsAssumption DEF PrivateKeys, FromScalar
<1>2. d \in 1..(OrderN - 2) /\ d \in 0..(OrderN - 1) /\ 1 + d \in 1..(OrderN - 1) /\ 1 + d \in 0..(OrderN - 1)
  BY <1>1, FnFacts
<1>3. Fn(d) = d /\ Fn(1 + d) = 1 + d
  BY <1>2, FnFacts
<1>4. PICK c \in 1..(OrderN - 1) : c = 1 + d
  BY <1>2
<1>5. FnInverse[c] \in 1..(OrderN - 1) /\ Fn(c * FnInverse[c]) = 1
  <2>1. \E i \in 1..(OrderN - 1) : Fn(c * i) = 1
    BY GroupAssumption
  <2>. QED BY <2>1 DEF FnInverse
<1>6. EqualN(c * FnInverse[c], 1)
  <2>1. 1 \in 0..(OrderN - 1) /\ c * FnInverse[c] \in Int
    BY <1>5, FnFacts
  <2>2. Fn(1) = 1
    BY <2>1, FnFacts
  <2>. QED BY <1>5, <2>1, <2>2 DEF EqualN
<1>7. FnInverse[c] \in Int
  BY <1>5, FnFacts
<1>8. Stands(PublicKey(d), d)
  BY <1>2, MulGIs DEF PublicKey
<1>9. ~IsIdentity(PublicKey(d))
  BY <1>1, <1>3, <1>8, StandsFacts
<1>. QED BY <1>1, <1>2, <1>3, <1>4, <1>6, <1>7, <1>8, <1>9

(* Multiplying by an inverse undoes a multiplication.                      *)
LEMMA Undone ==
    ASSUME NEW c \in Int, NEW i \in Int, EqualN(c * i, 1), NEW s \in Int, NEW w \in Int
    PROVE  EqualN(s * c, w) <=> EqualN(s, i * w)
<1>1. EqualN(s, s) /\ EqualN(i, i) /\ EqualN(c, c) /\ EqualN(w, w)
  BY EqualNSelf
<1>2. EqualN(s * (c * i), s * 1) /\ EqualN((c * i) * w, 1 * w)
  BY <1>1, EqualNFacts
<1>3. ASSUME EqualN(s * c, w) PROVE EqualN(s, i * w)
  <2>1. EqualN((s * c) * i, w * i)
    BY <1>1, <1>3, EqualNFacts
  <2>2. (s * c) * i = s * (c * i) /\ s * 1 = s /\ w * i = i * w
    OBVIOUS
  <2>. QED BY <1>2, <2>1, <2>2 DEF EqualN
<1>4. ASSUME EqualN(s, i * w) PROVE EqualN(s * c, w)
  <2>1. EqualN(s * c, (i * w) * c)
    BY <1>1, <1>4, EqualNFacts
  <2>2. (i * w) * c = (c * i) * w /\ 1 * w = w
    OBVIOUS
  <2>. QED BY <1>2, <2>1, <2>2 DEF EqualN
<1>. QED BY <1>3, <1>4

(* A pair that satisfies the equations of the standard for a nonce.        *)
Signs(d, e, k, r, s) ==
    /\ r \in 1..(OrderN - 1) /\ s \in 1..(OrderN - 1)
    /\ r = Fn(e + Pt(k)[1]) /\ Fn(r + k) # 0
    /\ EqualN(s * (1 + d), k - r * d)

(* A multiple that is not one of the order has coordinates.                *)
LEMMA PtAffine ==
    ASSUME NEW k \in Int, Fn(k) # 0
    PROVE  /\ Pt(k) # NoAffine /\ Pt(k) \in AffinePoints /\ Pt(k) = <<Pt(k)[1], Pt(k)[2]>>
           /\ Pt(k)[1] \in Elements /\ Pt(k)[2] \in Elements
           /\ Pt(k)[1] \in Nat /\ Pt(k)[2] \in Nat
           /\ OnCurve(Pt(k)[1], Pt(k)[2])
<1>1. Pt(k) # NoAffine
  <2>1. Fn(0) = 0 /\ 0 \in Int
    BY FnFacts
  <2>2. Pt(k) = Pt(0) => EqualN(k, 0)
    BY <2>1, PtAdd
  <2>. QED BY <2>1, <2>2, PtAdd DEF EqualN
<1>2. Pt(k) \in AllPoints
  BY PtAdd
<1>3. Pt(k) \in AffinePoints
  BY <1>1, <1>2, AffineFacts
<1>4. \A c \in Elements : c \in Nat
  BY FpFacts DEF Elements
<1>. QED BY <1>1, <1>3, <1>4, AffineFacts

(* What an attempt computes from a genuine nonce is what the standard      *)
(* gives for it.                                                           *)
LEMMA SignedIs ==
    ASSUME NEW d \in PrivateKeys, NEW e \in Nat, NEW k \in 1..(OrderN - 1)
    PROVE  /\ SignedPair(d, e, k) = RefSign(d, e, k)
           /\ RefSign(d, e, k) # NoPair =>
                \E r, s : RefSign(d, e, k) = <<r, s>> /\ Signs(d, e, k, r, s)
<1>1. k \in Int /\ k # 0 /\ Fn(k) # 0 /\ k \in 0..(OrderN - 1)
  BY FnFacts
<1>2. ToAffine(MulG(k)) = Pt(k)
  BY <1>1, MulGIs, StandsFacts
<1>3. PICK x \in Nat : x = Pt(k)[1]
  BY <1>1, PtAffine
<1>4. PICK r \in Nat : r = Fn(e + x) /\ r \in 0..(OrderN - 1)
  BY FnFacts
<1>5. PICK c \in Int, i \in Int : c = 1 + d /\ i = FnInverse[1 + d] /\ EqualN(c * i, 1) /\ Fn(c) = c /\ c # 0
  BY KeyFacts
<1>6. d \in Nat
  BY KeyFacts
<1>7. PICK w \in Int : w = k - r * d
  BY <1>1, <1>6
<1>8. PICK s \in 0..(OrderN - 1) : s = Fn(i * Fn(w)) /\ EqualN(s, i * w) /\ s \in Int
  <2>1. EqualN(i, i) /\ EqualN(Fn(w), w)
    BY EqualNSelf
  <2>2. EqualN(Fn(i * Fn(w)), i * w)
    <3>1. EqualN(i * Fn(w), i * w)
      BY <2>1, EqualNFacts
    <3>. QED BY <3>1, EqualNFacts
  <2>3. Fn(i * Fn(w)) \in 0..(OrderN - 1) /\ Fn(i * Fn(w)) \in Int
    <3>1. i * Fn(w) \in Int
      BY FnFacts
    <3>. QED BY <3>1, FnFacts
  <2>. QED BY <2>2, <2>3
<1>. DEFINE ss == {t \in 1..(OrderN - 1) : Fn(t * c) = Fn(w)}
<1>9. ss = IF s = 0 THEN {} ELSE {s}
  <2>1. ASSUME NEW t \in 1..(OrderN - 1) PROVE Fn(t * c) = Fn(w) <=> t = s
    <3>1. t \in Int /\ t \in 0..(OrderN - 1) /\ t * c \in Int
      BY FnFacts
    <3>2. Fn(t * c) = Fn(w) <=> EqualN(t * c, w)
      BY <3>1 DEF EqualN
    <3>3. EqualN(t * c, w) <=> EqualN(t, i * w)
      <4>1. EqualN(c * i, 1) /\ t \in Int
        BY <1>5, <3>1
      <4>. QED BY <4>1, Undone, Zenon
    <3>4. EqualN(t, i * w) <=> EqualN(t, s)
      BY <1>8, EqualNSelf
    <3>5. EqualN(t, s) <=> t = s
      <4>1. Fn(t) = t /\ Fn(s) = s
        BY <3>1, FnFacts
      <4>. QED BY <1>8, <3>1, <4>1 DEF EqualN
    <3>. QED BY <3>2, <3>3, <3>4, <3>5
  <2>2. 0 \notin 1..(OrderN - 1) /\ (s # 0 => s \in 1..(OrderN - 1))
    BY FnFacts
  <2>. QED BY <2>1, <2>2
<1>10. RefSign(d, e, k) = IF r = 0 \/ Fn(r + k) = 0 \/ s = 0 THEN NoPair ELSE <<r, s>>
  <2>1. RefSign(d, e, k) = IF r = 0 \/ Fn(r + k) = 0 \/ ss = {} THEN NoPair ELSE <<r, CHOOSE t \in ss : TRUE>>
    BY <1>1, <1>3, <1>4, <1>5, <1>7 DEF RefSign, Pt
  <2>. HIDE DEF ss
  <2>2. CASE s = 0
    BY <1>9, <2>1, <2>2
  <2>3. CASE s # 0
    <3>1. ss = {s} /\ ss # {} /\ (CHOOSE t \in ss : TRUE) = s
      BY <1>9, <2>3
    <3>. QED BY <2>1, <2>3, <3>1
  <2>. QED BY <2>2, <2>3
<1>11. SignedPair(d, e, k) = IF r = 0 \/ Fn(r + k) = 0 \/ s = 0 THEN NoPair ELSE <<r, s>>
  <2>1. Fn(1 + d) = c /\ Fn(1 + d) # 0
    BY <1>5
  <2>2. ToAffine(MulG(k))[1] = x
    BY <1>2, <1>3
  <2>. QED BY <1>4, <1>5, <1>7, <1>8, <2>1, <2>2 DEF SignedPair
<1>12. ASSUME ~(r = 0 \/ Fn(r + k) = 0 \/ s = 0) PROVE Signs(d, e, k, r, s)
  <2>1. EqualN(s * c, w)
    BY <1>5, <1>8, Undone
  <2>2. r \in 1..(OrderN - 1) /\ s \in 1..(OrderN - 1)
    BY <1>4, <1>12, FnFacts
  <2>. QED BY <1>3, <1>4, <1>5, <1>7, <1>12, <2>1, <2>2 DEF Signs
<1>. QED BY <1>10, <1>11, <1>12

(* An identifier's length in bits fits its field.                          *)
LEMMA EntlIs ==
    ASSUME NEW len \in Nat
    PROVE  Entl(len) = 8 * len <=> len <= MaxIdLen
<1>1. CASE len <= 8191
  <2>1. (len * 8) % 65536 = len * 8
    <3>1. len * 8 < 65536 /\ 0 <= len * 8
      BY <1>1
    <3>. QED BY <3>1
  <2>2. 8 * len = len * 8
    OBVIOUS
  <2>. QED BY <1>1, <2>1, <2>2 DEF Entl, MaxIdLen
<1>2. CASE len > 8191
  <2>1. (len * 8) % 65536 < 65536 /\ 8 * len >= 65536
    BY <1>2
  <2>. QED BY <1>2, <2>1 DEF Entl, MaxIdLen
<1>. QED BY <1>1, <1>2

(* What verification adds up is s + (r + s) d times the generator.         *)
LEMMA SumIs ==
    ASSUME NEW public, NEW j, Stands(public, j), NEW r \in Nat, NEW s \in 0..(OrderN - 1)
    PROVE  Stands(Add(MulG(s), MulVar(Fn(r + s), public)), s + (r + s) * j)
<1>1. s \in Nat /\ j \in Int
  BY FnFacts DEF Stands
<1>2. PICK t \in 0..(OrderN - 1) : t = Fn(r + s) /\ EqualN(t, r + s)
  <2>1. r + s \in Int
    BY <1>1
  <2>. QED BY <2>1, FnFacts, EqualNSelf
<1>3. Stands(MulG(s), s) /\ Stands(MulVar(t, public), t * j)
  BY MulGIs, MulVarIs
<1>4. Stands(Add(MulG(s), MulVar(t, public)), s + t * j)
  BY <1>3, StandsFacts
<1>5. EqualN(s + t * j, s + (r + s) * j)
  <2>1. EqualN(s, s) /\ EqualN(j, j)
    BY <1>1, EqualNSelf
  <2>2. EqualN(t * j, (r + s) * j)
    BY <1>2, <2>1, EqualNFacts
  <2>. QED BY <2>1, <2>2, EqualNFacts
<1>. QED BY <1>2, <1>4, <1>5, StandsFacts

(* A pair that signs verifies.                                             *)
LEMMA SignatureVerifies ==
    ASSUME NEW d \in PrivateKeys, NEW e \in Nat, NEW k \in 1..(OrderN - 1), NEW r, NEW s,
           Signs(d, e, k, r, s), NEW len \in Nat, len <= MaxIdLen
    PROVE  VerifyWithId(PublicKey(d), len, e, r, s)
<1>1. /\ r \in 1..(OrderN - 1) /\ s \in 1..(OrderN - 1) /\ r = Fn(e + Pt(k)[1]) /\ Fn(r + k) # 0
      /\ EqualN(s * (1 + d), k - r * d)
  BY DEF Signs
<1>2. r \in Nat /\ s \in Nat /\ s \in 0..(OrderN - 1) /\ r # 0 /\ s # 0 /\ r < OrderN /\ s < OrderN
      /\ k \in Int /\ k \in 0..(OrderN - 1) /\ Fn(k) # 0
  BY <1>1, FnFacts
<1>3. d \in Nat /\ Stands(PublicKey(d), d) /\ ~IsIdentity(PublicKey(d))
  BY KeyFacts
<1>4. EqualN(s + (r + s) * d, k)
  <2>1. PICK rd \in Int : rd = r * d
    BY <1>2, <1>3
  <2>2. EqualN(rd, rd)
    BY EqualNSelf
  <2>3. EqualN(s * (1 + d) + rd, (k - rd) + rd)
    BY <1>1, <2>1, <2>2, EqualNFacts
  <2>4. s * (1 + d) + rd = s + (r + s) * d /\ (k - rd) + rd = k
    BY <1>2, <1>3, <2>1
  <2>. QED BY <2>3, <2>4
<1>. DEFINE sum == Add(MulG(s), MulVar(Fn(r + s), PublicKey(d)))
<1>5. Stands(sum, k)
  BY <1>2, <1>3, <1>4, SumIs, StandsFacts
<1>6. Fn(r + s) # 0
  <2>. SUFFICES ASSUME Fn(r + s) = 0 PROVE FALSE
    OBVIOUS
  <2>1. EqualN(r + s, 0)
    <3>1. Fn(0) = 0
      BY FnFacts
    <3>. QED BY <1>2, <3>1 DEF EqualN
  <2>2. EqualN(d, d) /\ EqualN(s, s) /\ EqualN(r, r)
    BY <1>2, <1>3, EqualNSelf
  <2>3. EqualN((r + s) * d, 0 * d)
    BY <2>1, <2>2, EqualNFacts
  <2>4. EqualN(s + (r + s) * d, s + 0 * d)
    BY <2>2, <2>3, EqualNFacts
  <2>5. 0 * d = 0 /\ s + 0 = s
    BY <1>2, <1>3
  <2>6. EqualN(k, s)
    BY <1>4, <2>4, <2>5 DEF EqualN
  <2>7. EqualN(r + k, r + s)
    BY <2>2, <2>6, EqualNFacts
  <2>. QED BY <1>1, <2>1, <2>7, FnFacts DEF EqualN
<1>7. ~IsIdentity(sum) /\ ToAffine(sum) = Pt(k)
  BY <1>2, <1>5, StandsFacts
<1>. HIDE DEF sum
<1>8. Fn(e + ToAffine(sum)[1]) = r
  BY <1>1, <1>7
<1>. QED BY <1>2, <1>3, <1>6, <1>7, <1>8 DEF VerifyWithId, sum

(* Verification is the equation of the standard with its bounds.           *)
VerifiedRight(c) ==
    LET p == ToAffine(c.public)
        sum == RefAdd(RefMul(c.s, RefG), RefMul(c.r + c.s, p))
    IN  c.out <=>
          /\ p # NoAffine /\ Entl(c.len) = 8 * c.len
          /\ c.r \in 1..(OrderN - 1) /\ c.s \in 1..(OrderN - 1)
          /\ Fn(c.r + c.s) # 0 /\ sum # NoAffine
          /\ Fn(c.e + sum[1]) = c.r

(* Every public point that calls are made with stands for a multiple.      *)
LEMMA PublicFacts ==
    ASSUME NEW public \in Publics
    PROVE  \E j \in Int : Stands(public, j)
<1>1. CASE public = Identity
  BY <1>1, StandsFacts
<1>2. ASSUME NEW d \in PrivateKeys, public = PublicKey(d) PROVE \E j \in Int : Stands(public, j)
  <2>1. d \in Int /\ Stands(public, d)
    BY <1>2, KeyFacts
  <2>. QED BY <2>1
<1>. QED BY <1>1, <1>2 DEF Publics

(* A verification answers as the standard does.                            *)
LEMMA VerifyIs ==
    ASSUME Verify
    PROVE  call'.op = "verify" /\ VerifiedRight(call')
<1>1. PICK public \in Publics, e \in VerifyEs, len \in IdLens, r \in Rs, s \in Scalars :
        call' = [op |-> "verify", public |-> public, len |-> len, e |-> e, r |-> r, s |-> s,
                 out |-> VerifyWithId(public, len, e, r, s)]
  BY DEF Verify
<1>2. e \in Nat /\ len \in Nat /\ r \in Nat /\ s \in Nat
  <2>1. Bits \in 0..Bits
    BY SizesAre
  <2>2. TwoTo[Bits] \in Nat
    BY <2>1, PowersFacts
  <2>. QED BY <2>2, CallsAssumption DEF Scalars
<1>3. PICK j \in Int : Stands(public, j)
  BY PublicFacts
<1>4. ToAffine(public) = Pt(j) /\ (IsIdentity(public) <=> Fn(j) = 0) /\ (Pt(j) = NoAffine <=> Fn(j) = 0)
  <2>1. ToAffine(public) = Pt(j) /\ (IsIdentity(public) <=> Fn(j) = 0)
    BY <1>3, StandsFacts
  <2>2. IsIdentity(public) <=> Pt(j) = NoAffine
    BY <1>3, PtAdd, RepAffine DEF Stands
  <2>. QED BY <2>1, <2>2
<1>. DEFINE sum == Add(MulG(s), MulVar(Fn(r + s), public))
            ref == RefAdd(RefMul(s, RefG), RefMul(r + s, Pt(j)))
            Bounds == /\ Pt(j) # NoAffine /\ Entl(len) = 8 * len
                      /\ r \in 1..(OrderN - 1) /\ s \in 1..(OrderN - 1)
<1>5. ref = Pt(s + (r + s) * j) /\ s + (r + s) * j \in Int
  <2>1. PICK m \in Int : m = (r + s) * j
    BY <1>2
  <2>2. RefMul(r + s, Pt(j)) = Pt(m)
    <3>1. r + s \in Int
      BY <1>2
    <3>. QED BY <2>1, <3>1, PtMul
  <2>3. RefMul(s, RefG) = Pt(s) /\ s \in Int
    BY <1>2 DEF Pt
  <2>4. RefAdd(Pt(s), Pt(m)) = Pt(s + m)
    BY <2>3, PtAdd
  <2>. QED BY <2>1, <2>2, <2>3, <2>4
<1>6. ASSUME Bounds PROVE ToAffine(sum) = ref /\ (IsIdentity(sum) <=> ref = NoAffine)
  <2>1. s \in 0..(OrderN - 1)
    BY <1>2, <1>6
  <2>2. Stands(sum, s + (r + s) * j)
    BY <1>2, <1>3, <2>1, SumIs
  <2>3. Rep(sum, Pt(s + (r + s) * j)) /\ Pt(s + (r + s) * j) \in AllPoints
    BY <1>5, <2>2, PtAdd DEF Stands
  <2>. QED BY <1>5, <2>3, RepAffine
<1>7. VerifyWithId(public, len, e, r, s) <=>
        /\ Bounds /\ Fn(r + s) # 0 /\ ~IsIdentity(sum) /\ Fn(e + ToAffine(sum)[1]) = r
  <2>1. len <= MaxIdLen <=> Entl(len) = 8 * len
    BY <1>2, EntlIs
  <2>2. (r # 0 /\ s # 0 /\ r < OrderN /\ s < OrderN) <=> (r \in 1..(OrderN - 1) /\ s \in 1..(OrderN - 1))
    BY <1>2, FnFacts
  <2>3. ~IsIdentity(public) <=> Pt(j) # NoAffine
    BY <1>4
  <2>. QED BY <2>1, <2>2, <2>3 DEF VerifyWithId
<1>. HIDE DEF sum
<1>8. VerifyWithId(public, len, e, r, s) <=>
        /\ Bounds /\ Fn(r + s) # 0 /\ ref # NoAffine /\ Fn(e + ref[1]) = r
  BY <1>6, <1>7
<1>. QED BY <1>1, <1>4, <1>8 DEF VerifiedRight

(* The genuine nonces, and 0 for an attempt that found none.               *)
Nonces == 0..(OrderN - 1)

(* The sample of an attempt follows the first value drawn in range.        *)
Follows(sample, first) ==
    /\ sample.found \in BOOLEAN /\ first \in Nonces
    /\ sample.found <=> first # 0
    /\ sample.chosen = IF first = 0 THEN 1 ELSE first

(* A draw keeps the sample in step with the first value in range.          *)
LEMMA DrawnIs ==
    ASSUME NEW sample, NEW first, Follows(sample, first), NEW v \in Draws
    PROVE  Follows(Drawn(sample, v), IF first = 0 /\ v \in 1..(OrderN - 1) THEN v ELSE first)
<1>1. v \in Nat /\ OrderN \in Nat
  BY CallsAssumption, FnFacts
<1>2. (v # 0 /\ v < OrderN) <=> v \in 1..(OrderN - 1)
  BY <1>1
<1>3. \A x \in 1..(OrderN - 1) : x # 0 /\ x \in Nonces
  BY <1>1 DEF Nonces
<1>. QED BY <1>2, <1>3 DEF Follows, Drawn

(* So does a fresh sample.                                                 *)
LEMMA NoSampleIs == Follows(NoSample, 0)
<1>1. 0 \in Nonces
  BY FnFacts DEF Nonces
<1>. QED BY <1>1 DEF Follows, NoSample

(* The pair that signing has kept: the first good one so far.              *)
Kept(d, e, nonces) ==
    IF Len(nonces) = 0 THEN NoPair
    ELSE IF Len(nonces) = 1 THEN RefSign(d, e, nonces[1])
    ELSE OrElse(RefSign(d, e, nonces[1]), RefSign(d, e, nonces[2]))

(* A signing call: the kept pair is that of the nonces used, and the       *)
(* outcome has its reason.                                                 *)
SignCall(c, d, e, len, sample, first, nonces, pair, rngFailed, out) ==
    /\ c = [op |-> "sign", d |-> d, e |-> e, len |-> len, sample |-> sample,
            first |-> first, nonces |-> nonces, pair |-> pair, rngFailed |-> rngFailed, out |-> out]
    /\ d \in PrivateKeys /\ e \in Nat /\ len \in Nat
    /\ nonces \in Seq(Nonces) /\ Len(nonces) \in 0..2 /\ pair = Kept(d, e, nonces)
    /\ Len(nonces) < 2 => Follows(sample, first)
    /\ out = Pending => len <= MaxIdLen
    /\ out = Failed => rngFailed = TRUE \/ len > MaxIdLen \/ (Len(nonces) = 2 /\ pair = NoPair)
    /\ out # Pending /\ out # Failed =>
         Len(nonces) = 2 /\ pair # NoPair /\ out = pair /\ len <= MaxIdLen
SignInv(c) == \E d, e, len, sample, first, nonces, pair, rngFailed, out :
                  SignCall(c, d, e, len, sample, first, nonces, pair, rngFailed, out)

(* No pair is the error or the mark of a running call.                     *)
LEMMA PairsApart ==
    ASSUME NEW d \in PrivateKeys, NEW e \in Nat, NEW k \in Nonces
    PROVE  RefSign(d, e, k) # Failed /\ RefSign(d, e, k) # Pending
<1>1. NoPair # Failed /\ NoPair # Pending
  BY CallsAssumption DEF NoPair
<1>2. CASE k = 0
  BY <1>1, <1>2 DEF RefSign
<1>3. CASE k # 0
  <2>1. k \in 1..(OrderN - 1)
    BY <1>3, FnFacts DEF Nonces
  <2>2. RefSign(d, e, k) # NoPair => \E r, s : RefSign(d, e, k) = <<r, s>> /\ Signs(d, e, k, r, s)
    BY <2>1, SignedIs
  <2>3. ASSUME NEW r, NEW s, Signs(d, e, k, r, s) PROVE <<r, s>> # Failed /\ <<r, s>> # Pending
    <3>1. r \in Nat /\ s \in Nat
      BY <2>3, FnFacts DEF Signs
    <3>2. <<r, s>> \in Nat \X Nat
      BY <3>1
    <3>. QED BY <3>2, CallsAssumption
  <2>. QED BY <1>1, <2>2, <2>3
<1>. QED BY <1>2, <1>3

(* StartSign establishes the invariant of signing.                         *)
LEMMA SignStarts == ASSUME StartSign PROVE SignInv(call')
<1>1. PICK d \in PrivateKeys, e \in ESet, len \in IdLens :
        call' = [op |-> "sign", d |-> d, e |-> e, len |-> len, sample |-> NoSample,
                 first |-> 0, nonces |-> <<>>, pair |-> NoPair, rngFailed |-> FALSE,
                 out |-> IF len > MaxIdLen THEN Failed ELSE Pending]
  BY DEF StartSign
<1>2. e \in Nat /\ len \in Nat /\ Failed # Pending
  BY CallsAssumption
<1>3. <<>> \in Seq(Nonces) /\ Len(<<>>) = 0 /\ NoPair = Kept(d, e, <<>>)
  BY DEF Kept
<1>4. PICK out : out = IF len > MaxIdLen THEN Failed ELSE Pending
  OBVIOUS
<1>5. (out = Pending => len <= MaxIdLen) /\ (out = Failed => len > MaxIdLen) /\ (out = Pending \/ out = Failed)
  BY <1>2, <1>4 DEF MaxIdLen
<1>6. SignCall(call', d, e, len, NoSample, 0, <<>>, NoPair, FALSE, out)
  BY <1>1, <1>2, <1>3, <1>4, <1>5, NoSampleIs DEF SignCall
<1>. QED BY <1>6 DEF SignInv

(* A draw keeps it.                                                        *)
LEMMA SignDraws == ASSUME SignInv(call), Draw PROVE SignInv(call')
<1>1. PICK d, e, len, sample, first, nonces, pair, rngFailed, out :
        SignCall(call, d, e, len, sample, first, nonces, pair, rngFailed, out)
  BY DEF SignInv
<1>2. call = [op |-> "sign", d |-> d, e |-> e, len |-> len, sample |-> sample,
              first |-> first, nonces |-> nonces, pair |-> pair, rngFailed |-> rngFailed, out |-> out]
  BY <1>1 DEF SignCall
<1>3. PICK v \in Draws :
        call' = [call EXCEPT !.sample = Drawn(@, v),
                      !.first = IF @ = 0 /\ v \in 1..(OrderN - 1) THEN v ELSE @]
  BY DEF Draw
<1>4. PICK s, f : s = Drawn(sample, v) /\ f = IF first = 0 /\ v \in 1..(OrderN - 1) THEN v ELSE first
  OBVIOUS
<1>5. call' = [op |-> "sign", d |-> d, e |-> e, len |-> len, sample |-> s,
               first |-> f, nonces |-> nonces, pair |-> pair, rngFailed |-> rngFailed, out |-> out]
  BY <1>2, <1>3, <1>4
<1>6. Len(nonces) < 2 => Follows(s, f)
  BY <1>1, <1>4, DrawnIs DEF SignCall
<1>7. SignCall(call', d, e, len, s, f, nonces, pair, rngFailed, out)
  BY <1>1, <1>5, <1>6 DEF SignCall
<1>. QED BY <1>7 DEF SignInv

(* A failing source keeps it.                                              *)
LEMMA SignFails == ASSUME SignInv(call), DrawFails PROVE SignInv(call')
<1>1. PICK d, e, len, sample, first, nonces, pair, rngFailed, out :
        SignCall(call, d, e, len, sample, first, nonces, pair, rngFailed, out)
  BY DEF SignInv
<1>2. call = [op |-> "sign", d |-> d, e |-> e, len |-> len, sample |-> sample,
              first |-> first, nonces |-> nonces, pair |-> pair, rngFailed |-> rngFailed, out |-> out]
  BY <1>1 DEF SignCall
<1>3. call' = [op |-> "sign", d |-> d, e |-> e, len |-> len, sample |-> sample,
               first |-> first, nonces |-> nonces, pair |-> pair, rngFailed |-> TRUE, out |-> Failed]
  BY <1>2 DEF DrawFails
<1>4. SignCall(call', d, e, len, sample, first, nonces, pair, TRUE, Failed)
  BY <1>1, <1>3, CallsAssumption DEF SignCall
<1>. QED BY <1>4 DEF SignInv

(* An attempt adds its genuine nonce and keeps the first good pair.        *)
LEMMA AttemptIs ==
    ASSUME NEW d \in PrivateKeys, NEW e \in Nat, NEW sample, NEW first, Follows(sample, first)
    PROVE  TrySignOnce(d, e, sample) = RefSign(d, e, first)
<1>1. CASE first = 0
  BY <1>1 DEF TrySignOnce, RefSign, Follows
<1>2. CASE first # 0
  <2>1. first \in 1..(OrderN - 1)
    BY <1>2, FnFacts DEF Nonces, Follows
  <2>. QED BY <1>2, <2>1, SignedIs DEF TrySignOnce, Follows
<1>. QED BY <1>1, <1>2

(* An attempt keeps it.                                                    *)
LEMMA SignAttempts == ASSUME SignInv(call), SignAttempt PROVE SignInv(call')
<1>1. PICK d, e, len, sample, first, nonces, pair, rngFailed, out :
        SignCall(call, d, e, len, sample, first, nonces, pair, rngFailed, out)
  BY DEF SignInv
<1>2. call = [op |-> "sign", d |-> d, e |-> e, len |-> len, sample |-> sample,
              first |-> first, nonces |-> nonces, pair |-> pair, rngFailed |-> rngFailed, out |-> out]
  BY <1>1 DEF SignCall
<1>3. out = Pending /\ Len(nonces) < 2 /\ Len(nonces) \in 0..2
  BY <1>1, <1>2 DEF SignCall, SignAttempt, Running, SignRetryBudget
<1>4. /\ d \in PrivateKeys /\ e \in Nat /\ nonces \in Seq(Nonces) /\ pair = Kept(d, e, nonces)
      /\ Follows(sample, first) /\ first \in Nonces
  BY <1>1, <1>3 DEF SignCall, Follows
<1>5. PICK ns, p, s : /\ ns = Append(nonces, first) /\ p = OrElse(pair, TrySignOnce(d, e, sample))
                      /\ s = IF Len(nonces) + 1 < SignRetryBudget THEN NoSample ELSE sample
  OBVIOUS
<1>6. call' = [op |-> "sign", d |-> d, e |-> e, len |-> len, sample |-> s,
               first |-> 0, nonces |-> ns, pair |-> p, rngFailed |-> rngFailed, out |-> out]
  BY <1>2, <1>5 DEF SignAttempt
<1>7. /\ ns \in Seq(Nonces) /\ Len(ns) = Len(nonces) + 1 /\ ns[Len(nonces) + 1] = first
      /\ \A i \in 1..Len(nonces) : ns[i] = nonces[i]
  BY <1>4, <1>5, AppendFacts
<1>8. TrySignOnce(d, e, sample) = RefSign(d, e, first)
  BY <1>4, AttemptIs
<1>9. p = Kept(d, e, ns)
  <2>1. CASE Len(nonces) = 0
    <3>1. Len(ns) = 1 /\ ns[1] = first /\ pair = NoPair
      BY <1>4, <1>7, <2>1 DEF Kept
    <3>. QED BY <1>5, <1>8, <3>1 DEF Kept, OrElse
  <2>2. CASE Len(nonces) = 1
    <3>1. Len(ns) = 2 /\ ns[2] = first /\ ns[1] = nonces[1] /\ pair = RefSign(d, e, nonces[1])
      BY <1>4, <1>7, <2>2 DEF Kept
    <3>. QED BY <1>5, <1>8, <3>1 DEF Kept
  <2>. QED BY <1>3, <2>1, <2>2
<1>10. Len(ns) \in 0..2 /\ (Len(ns) < 2 => Follows(s, 0))
  <2>1. Len(ns) < 2 => s = NoSample
    BY <1>3, <1>5, <1>7 DEF SignRetryBudget
  <2>. QED BY <1>3, <1>7, <2>1, NoSampleIs
<1>11. out # Failed
  BY <1>3, CallsAssumption
<1>12. SignCall(call', d, e, len, s, 0, ns, p, rngFailed, out)
  BY <1>1, <1>3, <1>6, <1>7, <1>9, <1>10, <1>11 DEF SignCall
<1>. QED BY <1>12 DEF SignInv

(* The return of the kept pair keeps it.                                   *)
LEMMA SignEnds == ASSUME SignInv(call), SignReturns PROVE SignInv(call')
<1>1. PICK d, e, len, sample, first, nonces, pair, rngFailed, out :
        SignCall(call, d, e, len, sample, first, nonces, pair, rngFailed, out)
  BY DEF SignInv
<1>2. call = [op |-> "sign", d |-> d, e |-> e, len |-> len, sample |-> sample,
              first |-> first, nonces |-> nonces, pair |-> pair, rngFailed |-> rngFailed, out |-> out]
  BY <1>1 DEF SignCall
<1>3. out = Pending /\ Len(nonces) = 2
  BY <1>1, <1>2 DEF SignCall, SignReturns, Running, SignRetryBudget
<1>4. PICK o : o = IF pair = NoPair THEN Failed ELSE pair
  OBVIOUS
<1>5. call' = [op |-> "sign", d |-> d, e |-> e, len |-> len, sample |-> sample,
               first |-> first, nonces |-> nonces, pair |-> pair, rngFailed |-> rngFailed, out |-> o]
  BY <1>2, <1>4 DEF SignReturns
<1>6. pair # Failed
  <2>1. nonces[1] \in Nonces /\ nonces[2] \in Nonces
    <3>1. nonces \in Seq(Nonces) /\ 1 \in 1..Len(nonces) /\ 2 \in 1..Len(nonces)
      BY <1>1, <1>3 DEF SignCall
    <3>. QED BY <3>1
  <2>. QED BY <1>1, <1>3, <2>1, PairsApart DEF SignCall, Kept, OrElse
<1>7. SignCall(call', d, e, len, sample, first, nonces, pair, rngFailed, o)
  BY <1>1, <1>3, <1>4, <1>5, <1>6, CallsAssumption DEF SignCall
<1>. QED BY <1>7 DEF SignInv

(* What a finished signature shows.                                        *)
SignedRight(c) ==
    LET tries == [i \in DOMAIN c.nonces |-> RefSign(c.d, c.e, c.nonces[i])]
        good == {i \in DOMAIN tries : tries[i] # NoPair}
    IN  IF c.out = Failed THEN c.rngFailed \/ Entl(c.len) # 8 * c.len \/ good = {}
        ELSE /\ Len(c.nonces) = SignRetryBudget /\ good # {}
             /\ \E i \in good : c.out = tries[i] /\ \A j \in good : i <= j
             /\ VerifyWithId(PublicKey(c.d), c.len, c.e, c.out[1], c.out[2])
             /\ Entl(c.len) = 8 * c.len

(* The invariant of signing has what a finished signature shows.           *)
LEMMA SignShows ==
    ASSUME NEW c, SignInv(c)
    PROVE  c.op = "sign" /\ (c.out # Pending => SignedRight(c))
<1>1. PICK d, e, len, sample, first, nonces, pair, rngFailed, out :
        SignCall(c, d, e, len, sample, first, nonces, pair, rngFailed, out)
  BY DEF SignInv
<1>2. c = [op |-> "sign", d |-> d, e |-> e, len |-> len, sample |-> sample,
           first |-> first, nonces |-> nonces, pair |-> pair, rngFailed |-> rngFailed, out |-> out]
  BY <1>1 DEF SignCall
<1>3. /\ d \in PrivateKeys /\ e \in Nat /\ len \in Nat /\ nonces \in Seq(Nonces) /\ pair = Kept(d, e, nonces)
  BY <1>1 DEF SignCall
<1>4. Entl(len) = 8 * len <=> len <= MaxIdLen
  BY <1>3, EntlIs
<1>. DEFINE tries == [i \in DOMAIN nonces |-> RefSign(d, e, nonces[i])]
            good == {i \in DOMAIN tries : tries[i] # NoPair}
<1>5. DOMAIN nonces = 1..Len(nonces)
  BY <1>3
<1>6. ASSUME Len(nonces) = 2
      PROVE  /\ pair = NoPair => good = {}
             /\ pair # NoPair => \E i \in good : pair = tries[i] /\ \A j \in good : i <= j
  <2>1. good = {i \in 1..2 : RefSign(d, e, nonces[i]) # NoPair} /\ DOMAIN tries = 1..2
        /\ \A i \in 1..2 : tries[i] = RefSign(d, e, nonces[i])
    BY <1>5, <1>6
  <2>2. pair = OrElse(RefSign(d, e, nonces[1]), RefSign(d, e, nonces[2]))
    BY <1>3, <1>6 DEF Kept
  <2>3. \A i : i \in 1..2 <=> i = 1 \/ i = 2
    OBVIOUS
  <2>. HIDE DEF good, tries
  <2>4. CASE RefSign(d, e, nonces[1]) # NoPair
    <3>1. 1 \in good /\ pair = tries[1] /\ pair # NoPair /\ \A j \in good : 1 <= j
      BY <2>1, <2>2, <2>4 DEF OrElse
    <3>. QED BY <3>1
  <2>5. CASE RefSign(d, e, nonces[1]) = NoPair /\ RefSign(d, e, nonces[2]) # NoPair
    <3>1. good = {2}
      BY <2>1, <2>3, <2>5
    <3>2. pair = tries[2] /\ pair # NoPair
      BY <2>1, <2>2, <2>5 DEF OrElse
    <3>. QED BY <3>1, <3>2
  <2>6. CASE RefSign(d, e, nonces[1]) = NoPair /\ RefSign(d, e, nonces[2]) = NoPair
    <3>1. good = {} /\ pair = NoPair
      BY <2>1, <2>2, <2>3, <2>6 DEF OrElse
    <3>. QED BY <3>1
  <2>. QED BY <2>4, <2>5, <2>6
<1>7. ASSUME out = Failed PROVE rngFailed = TRUE \/ Entl(len) # 8 * len \/ good = {}
  <2>1. rngFailed = TRUE \/ len > MaxIdLen \/ (Len(nonces) = 2 /\ pair = NoPair)
    BY <1>1, <1>7 DEF SignCall
  <2>2. len > MaxIdLen => ~(len <= MaxIdLen)
    BY <1>3 DEF MaxIdLen
  <2>. HIDE DEF good
  <2>. QED BY <1>4, <1>6, <2>1, <2>2
<1>8. ASSUME out # Failed, out # Pending
      PROVE  /\ Len(nonces) = 2 /\ good # {}
             /\ \E i \in good : out = tries[i] /\ \A j \in good : i <= j
             /\ VerifyWithId(PublicKey(d), len, e, out[1], out[2])
             /\ Entl(len) = 8 * len
  <2>1. Len(nonces) = 2 /\ pair # NoPair /\ out = pair /\ len <= MaxIdLen
    BY <1>1, <1>8 DEF SignCall
  <2>2. PICK i \in good : out = tries[i] /\ \A j \in good : i <= j
    BY <1>6, <2>1
  <2>3. i \in 1..2 /\ nonces[i] \in Nonces /\ out = RefSign(d, e, nonces[i]) /\ out # NoPair
    <3>1. i \in DOMAIN nonces /\ tries[i] = RefSign(d, e, nonces[i]) /\ tries[i] # NoPair
      OBVIOUS
    <3>2. i \in 1..2 /\ i \in 1..Len(nonces)
      BY <1>5, <2>1, <3>1
    <3>3. nonces[i] \in Nonces
      BY <1>3, <3>2
    <3>. HIDE DEF tries, good
    <3>. QED BY <2>2, <3>1, <3>2, <3>3
  <2>4. nonces[i] \in 1..(OrderN - 1)
    <3>1. nonces[i] # 0
      BY <2>3 DEF RefSign
    <3>. QED BY <2>3, <3>1, FnFacts DEF Nonces
  <2>5. PICK r, s : out = <<r, s>> /\ Signs(d, e, nonces[i], r, s)
    BY <1>3, <2>3, <2>4, SignedIs
  <2>6. VerifyWithId(PublicKey(d), len, e, r, s)
    BY <1>3, <2>1, <2>4, <2>5, SignatureVerifies
  <2>7. out[1] = r /\ out[2] = s
    BY <2>5
  <2>. HIDE DEF good, tries
  <2>. QED BY <1>4, <2>1, <2>2, <2>6, <2>7
<1>. HIDE DEF good, tries
<1>9. c.out # Pending => SignedRight(c)
  BY <1>2, <1>7, <1>8 DEF SignedRight, good, tries, SignRetryBudget
<1>. QED BY <1>2, <1>9

(***************************************************************************)
(* Ciphertexts.                                                            *)
(***************************************************************************)
Units == {0, 1}

(* A key stream is a run of units.                                         *)
LEMMA KdfIs ==
    ASSUME NEW z, z[1] \in Int, z[2] \in Int, NEW n \in Nat
    PROVE  Kdf(z, n) \in [1..n -> Units]
<1>1. BlockUnits \in Nat \ {0} /\ CounterMax \in Nat
  BY CallsAssumption
<1>2. ASSUME NEW counter \in Int, NEW j \in Int PROVE KdfBlock(z, counter, j) \in Units
  <2>1. PICK a \in Int, b \in Int : a = z[1] /\ b = z[2]
    OBVIOUS
  <2>2. PICK v \in Int : v = a + 3 * b + counter + 2 * j + a \div 7
    OBVIOUS
  <2>3. KdfBlock(z, counter, j) = v % 2
    BY <2>1, <2>2 DEF KdfBlock
  <2>. QED BY <2>3 DEF Units
<1>3. ASSUME NEW i \in 1..n
      PROVE  /\ (1 + (i - 1) \div BlockUnits) % (CounterMax + 1) \in Int
             /\ (i - 1) % BlockUnits \in Int
  <2>1. PICK m \in Nat : m = i - 1
    OBVIOUS
  <2>2. PICK u \in Nat \ {0}, c \in Nat \ {0} : u = BlockUnits /\ c = CounterMax + 1
    BY <1>1
  <2>3. m \div u \in Int /\ m % u \in Int
    BY RemInt
  <2>4. PICK q \in Int : q = m \div u
    BY <2>3
  <2>5. (1 + q) % c \in Int
    <3>1. 1 + q \in Int
      OBVIOUS
    <3>. QED BY <3>1, RemInt
  <2>. QED BY <2>1, <2>2, <2>3, <2>4, <2>5
<1>. QED BY <1>2, <1>3 DEF Kdf

(* Masking twice is not masking.                                           *)
LEMMA XorIs ==
    ASSUME NEW m \in Seq(Units), NEW t \in [1..Len(m) -> Units]
    PROVE  /\ Xor(m, t) \in Seq(Units) /\ Len(Xor(m, t)) = Len(m)
           /\ Xor(Xor(m, t), t) = m
<1>1. PICK n \in Nat : n = Len(m)
  OBVIOUS
<1>2. DOMAIN m = 1..n /\ (\A i \in 1..n : m[i] \in Units /\ t[i] \in Units) /\ m = [i \in 1..n |-> m[i]]
  BY <1>1
<1>. DEFINE x == Xor(m, t)
<1>3. x = [i \in 1..n |-> (m[i] + t[i]) % 2]
  BY <1>2 DEF Xor
<1>4. \A a, b \in Units : (a + b) % 2 \in Units /\ (((a + b) % 2) + b) % 2 = a
  BY DEF Units
<1>5. x \in [1..n -> Units]
  <2>1. \A i \in 1..n : (m[i] + t[i]) % 2 \in Units
    BY <1>2, <1>4
  <2>. HIDE DEF x
  <2>. QED BY <1>3, <2>1
<1>6. x \in Seq(Units) /\ Len(x) = n /\ DOMAIN x = 1..n
  BY <1>5
<1>7. Xor(x, t) = [i \in 1..n |-> (x[i] + t[i]) % 2]
  BY <1>6 DEF Xor
<1>8. \A i \in 1..n : (x[i] + t[i]) % 2 = m[i]
  BY <1>2, <1>3, <1>4
<1>. HIDE DEF x
<1>9. Xor(x, t) = m
  BY <1>2, <1>7, <1>8
<1>. QED BY <1>1, <1>6, <1>9 DEF x

(* The key stream and the ciphertext of a nonce k, by multiples of the     *)
(* generator.                                                              *)
Stream(k, d, n) == Kdf(Pt(k * d), n)
Masks(k, d, m) == ~(m # <<>> /\ AllZero(Stream(k, d, Len(m))))
Ciphertext(k, d, m) ==
    [x |-> Pt(k)[1], y |-> Pt(k)[2], hash |-> C3(Pt(k * d), m), c2 |-> Xor(m, Stream(k, d, Len(m)))]

(* The point that both sides share is a proper one, and so is its key      *)
(* stream.                                                                 *)
LEMMA SharedPoint ==
    ASSUME NEW d \in PrivateKeys, NEW k \in 1..(OrderN - 1)
    PROVE  /\ k \in Int /\ d \in Int /\ k * d \in Int /\ k * d = d * k /\ Fn(k) # 0 /\ Fn(k * d) # 0
           /\ k \in 0..(OrderN - 1)
           /\ Pt(k * d) # NoAffine /\ Pt(k * d)[1] \in Nat /\ Pt(k * d)[2] \in Nat
           /\ \A n \in Nat : Stream(k, d, n) \in [1..n -> Units]
<1>1. k \in Int /\ Fn(k) # 0 /\ k \in 0..(OrderN - 1)
  <2>1. Fn(k) = k /\ k \in Int /\ k # 0 /\ k \in 0..(OrderN - 1)
    BY FnFacts
  <2>. QED BY <2>1
<1>2. d \in Int /\ Fn(d) # 0
  BY KeyFacts
<1>3. PICK kd \in Int : kd = k * d /\ Fn(kd) # 0 /\ kd = d * k
  BY <1>1, <1>2, NonZeroProductN
<1>4. Pt(kd) # NoAffine /\ Pt(kd)[1] \in Nat /\ Pt(kd)[2] \in Nat
  BY <1>3, PtAffine
<1>5. ASSUME NEW n \in Nat PROVE Kdf(Pt(kd), n) \in [1..n -> Units]
  <2>1. Pt(kd)[1] \in Int /\ Pt(kd)[2] \in Int
    BY <1>4
  <2>. QED BY <2>1, KdfIs
<1>. QED BY <1>1, <1>2, <1>3, <1>4, <1>5 DEF Stream

(* Plaintexts are sequences of units.                                      *)
LEMMA PlaintextIs == \A m \in Plaintexts : m \in Seq(Units) /\ Len(m) \in Nat
  BY CallsAssumption DEF Units

(* What an attempt computes is what the standard gives for the nonce.      *)
LEMMA EncryptIs ==
    ASSUME NEW d \in PrivateKeys, NEW m \in Plaintexts, NEW k \in 1..(OrderN - 1)
    PROVE  /\ RefEncrypt(Pt(d), m, k) =
                IF Len(m) <= KdfMaxOutput /\ Masks(k, d, m) THEN {Ciphertext(k, d, m)} ELSE {}
           /\ TryEncryptOnce(PublicKey(d), m, k) = IF Masks(k, d, m) THEN Ciphertext(k, d, m) ELSE Failed
           /\ Ciphertext(k, d, m) # Failed /\ Ciphertext(k, d, m) # Pending
<1>1. /\ k \in Int /\ d \in Int /\ k * d \in Int /\ k \in 0..(OrderN - 1) /\ Fn(k) # 0
      /\ Pt(k * d) # NoAffine /\ Pt(k * d)[1] \in Nat /\ Pt(k * d)[2] \in Nat
  BY SharedPoint
<1>2. m \in Seq(Units) /\ Len(m) \in Nat
  BY PlaintextIs
<1>3. RefMul(k, Pt(d)) = Pt(k * d) /\ RefMul(k, RefG) = Pt(k)
  BY <1>1, PtMul DEF Pt
<1>4. ToAffine(MulG(k)) = Pt(k)
  BY <1>1, MulGIs, StandsFacts
<1>5. ToAffine(MulVar(k, PublicKey(d))) = Pt(k * d)
  <2>1. Stands(MulVar(k, PublicKey(d)), k * d)
    BY <1>1, KeyFacts, MulVarIs
  <2>. QED BY <2>1, StandsFacts
<1>6. TryEncryptOnce(PublicKey(d), m, k) = IF Masks(k, d, m) THEN Ciphertext(k, d, m) ELSE Failed
  BY <1>4, <1>5 DEF TryEncryptOnce, Masks, Ciphertext, Stream
<1>7. KdfMaxOutput \in Nat
  <2>1. BlockUnits \in Nat /\ CounterMax \in Nat
    BY CallsAssumption
  <2>. QED BY <2>1 DEF KdfMaxOutput
<1>8. RefEncrypt(Pt(d), m, k) =
                IF Len(m) <= KdfMaxOutput /\ Masks(k, d, m) THEN {Ciphertext(k, d, m)} ELSE {}
  <2>1. Len(m) > KdfMaxOutput <=> ~(Len(m) <= KdfMaxOutput)
    BY <1>2, <1>7
  <2>. QED BY <1>3, <2>1 DEF RefEncrypt, Masks, Ciphertext, Stream
<1>9. Ciphertext(k, d, m) \in [x : Nat, y : Nat, hash : Nat \X Seq({0, 1}) \X Nat, c2 : Seq({0, 1})]
  <2>1. Pt(k)[1] \in Nat /\ Pt(k)[2] \in Nat
    BY <1>1, PtAffine
  <2>2. Xor(m, Stream(k, d, Len(m))) \in Seq(Units)
    <3>1. Stream(k, d, Len(m)) \in [1..Len(m) -> Units]
      BY <1>2, SharedPoint
    <3>. QED BY <1>2, <3>1, XorIs
  <2>3. C3(Pt(k * d), m) \in Nat \X Seq(Units) \X Nat
    <3>1. PICK x \in Nat, y \in Nat : x = Pt(k * d)[1] /\ y = Pt(k * d)[2]
      BY <1>1
    <3>. QED BY <1>2, <3>1 DEF C3
  <2>4. Units = {0, 1}
    BY DEF Units
  <2>. HIDE DEF Units
  <2>5. Ciphertext(k, d, m) \in [x : Nat, y : Nat, hash : Nat \X Seq(Units) \X Nat, c2 : Seq(Units)]
    BY <2>1, <2>2, <2>3 DEF Ciphertext
  <2>. QED BY <2>4, <2>5
<1>10. Ciphertext(k, d, m) # Failed /\ Ciphertext(k, d, m) # Pending
  <2>. DEFINE ct == Ciphertext(k, d, m)
              C == [x : Nat, y : Nat, hash : Nat \X Seq({0, 1}) \X Nat, c2 : Seq({0, 1})]
  <2>1. Failed \notin C /\ Pending \notin C
    BY CallsAssumption
  <2>2. ct \in C
    BY <1>9
  <2>. HIDE DEF ct, C
  <2>. QED BY <2>1, <2>2 DEF ct
<1>. QED BY <1>6, <1>8, <1>10

(* What decryption makes of a point that stands for the k-th multiple.     *)
LEMMA DecryptIs ==
    ASSUME NEW d \in PrivateKeys, NEW k \in 1..(OrderN - 1), NEW h, NEW b \in Seq(Units),
           NEW ct, ct = [x |-> Pt(k)[1], y |-> Pt(k)[2], hash |-> h, c2 |-> b]
    PROVE  DecryptResult(d, ct) =
             IF /\ Len(b) <= KdfMaxOutput
                /\ h = C3(Pt(k * d), Xor(b, Stream(k, d, Len(b))))
                /\ ~(b # <<>> /\ AllZero(Stream(k, d, Len(b))))
             THEN Xor(b, Stream(k, d, Len(b))) ELSE Failed
<1>1. /\ k \in Int /\ d \in Int /\ k * d \in Int /\ k * d = d * k /\ k \in 0..(OrderN - 1) /\ Fn(k) # 0
      /\ Pt(k * d) # NoAffine
  BY SharedPoint
<1>2. /\ Pt(k) \in AffinePoints /\ Pt(k) = <<Pt(k)[1], Pt(k)[2]>>
      /\ Pt(k)[1] \in Nat /\ Pt(k)[2] \in Nat /\ OnCurve(Pt(k)[1], Pt(k)[2])
  BY <1>1, PtAffine
<1>3. PICK x \in Int, y \in Int : x = Pt(k)[1] /\ y = Pt(k)[2] /\ Pt(k) = <<x, y>>
  BY <1>2
<1>4. Stands(FromAffine(x, y), k)
  <2>1. Rep(FromAffine(x, y), Pt(k))
    BY <1>2, <1>3, RepBasics
  <2>2. FromAffine(x, y) \in Points
    BY PointFacts DEF FromAffine
  <2>. QED BY <1>1, <2>1, <2>2 DEF Stands
<1>5. ToAffine(MulVar(d, FromAffine(x, y))) = Pt(k * d)
  <2>1. Stands(MulVar(d, FromAffine(x, y)), d * k)
    BY <1>4, KeyFacts, MulVarIs
  <2>. QED BY <1>1, <2>1, StandsFacts
<1>6. Len(b) > KdfMaxOutput <=> ~(Len(b) <= KdfMaxOutput)
  <2>1. BlockUnits \in Nat /\ CounterMax \in Nat
    BY CallsAssumption
  <2>2. KdfMaxOutput \in Nat /\ Len(b) \in Nat
    BY <2>1 DEF KdfMaxOutput
  <2>. QED BY <2>2
<1>7. OnCurve(x, y)
  BY <1>2, <1>3
<1>8. ct.x = x /\ ct.y = y /\ ct.hash = h /\ ct.c2 = b
  BY <1>3
<1>. QED BY <1>1, <1>5, <1>6, <1>7, <1>8 DEF DecryptResult, Authentic, Stream

(* Decrypting what was encrypted gives the plaintext.                      *)
LEMMA DecryptsBack ==
    ASSUME NEW d \in PrivateKeys, NEW m \in Plaintexts, NEW k \in 1..(OrderN - 1),
           Len(m) <= KdfMaxOutput, Masks(k, d, m)
    PROVE  DecryptResult(d, Ciphertext(k, d, m)) = m
<1>1. m \in Seq(Units) /\ Len(m) \in Nat
  BY PlaintextIs
<1>2. PICK t \in [1..Len(m) -> Units] : t = Stream(k, d, Len(m))
  BY <1>1, SharedPoint
<1>3. PICK b \in Seq(Units) : b = Xor(m, t) /\ Len(b) = Len(m) /\ Xor(b, t) = m
  BY <1>1, <1>2, XorIs
<1>4. b # <<>> <=> m # <<>>
  <2>1. b # <<>> <=> Len(b) # 0
    OBVIOUS
  <2>2. m # <<>> <=> Len(m) # 0
    BY <1>1
  <2>. QED BY <1>3, <2>1, <2>2
<1>5. Ciphertext(k, d, m) = [x |-> Pt(k)[1], y |-> Pt(k)[2], hash |-> C3(Pt(k * d), m), c2 |-> b]
  BY <1>2, <1>3 DEF Ciphertext
<1>6. Stream(k, d, Len(b)) = t
  BY <1>2, <1>3
<1>7. ~(b # <<>> /\ AllZero(t))
  BY <1>2, <1>4 DEF Masks
<1>8. DecryptResult(d, Ciphertext(k, d, m)) =
        IF /\ Len(b) <= KdfMaxOutput
           /\ C3(Pt(k * d), m) = C3(Pt(k * d), Xor(b, Stream(k, d, Len(b))))
           /\ ~(b # <<>> /\ AllZero(Stream(k, d, Len(b))))
        THEN Xor(b, Stream(k, d, Len(b))) ELSE Failed
  BY <1>5, DecryptIs
<1>. QED BY <1>3, <1>6, <1>7, <1>8

(* No two private scalars share a public point.                            *)
LEMMA KeysApart ==
    ASSUME NEW d \in PrivateKeys, NEW e \in PrivateKeys, PublicKey(d) = PublicKey(e)
    PROVE  d = e
<1>1. /\ Stands(PublicKey(d), d) /\ Stands(PublicKey(e), e)
      /\ d \in Int /\ e \in Int /\ d \in 0..(OrderN - 1) /\ e \in 0..(OrderN - 1)
  BY KeyFacts
<1>2. Pt(d) = Pt(e)
  BY <1>1, StandsFacts
<1>3. EqualN(d, e)
  BY <1>1, <1>2, PtAdd
<1>. QED BY <1>1, <1>3, FnFacts DEF EqualN

(* Decryption returns just the plaintexts the ciphertext is one of.        *)
DecryptedRight(c) ==
    {m \in Plaintexts : c.ct \in RefCiphertexts[c.d][m]} = {c.out} \ {Failed}

(* The ciphertexts of a plaintext, one for each nonce that masks it.       *)
LEMMA RefCiphertextsAre ==
    ASSUME NEW d \in PrivateKeys, NEW m \in Plaintexts, NEW ct
    PROVE  ct \in RefCiphertexts[d][m] <=>
             \E k \in 1..(OrderN - 1) :
                Len(m) <= KdfMaxOutput /\ Masks(k, d, m) /\ ct = Ciphertext(k, d, m)
<1>1. RefCiphertexts[d][m] = UNION {RefEncrypt(Pt(d), m, k) : k \in 1..(OrderN - 1)}
  BY DEF RefCiphertexts, Pt
<1>2. ct \in RefCiphertexts[d][m] <=> \E k \in 1..(OrderN - 1) : ct \in RefEncrypt(Pt(d), m, k)
  BY <1>1
<1>3. ASSUME NEW k \in 1..(OrderN - 1)
      PROVE  ct \in RefEncrypt(Pt(d), m, k) <=>
                Len(m) <= KdfMaxOutput /\ Masks(k, d, m) /\ ct = Ciphertext(k, d, m)
  BY EncryptIs
<1>. QED BY <1>2, <1>3

(* A decryption returns the plaintext that the ciphertext is one of, and   *)
(* refuses when there is none.                                             *)
LEMMA DecryptExact ==
    ASSUME Decrypt
    PROVE  call'.op = "decrypt" /\ DecryptedRight(call')
<1>1. PICK d \in PrivateKeys : \E ct \in Ciphertexts(d) :
        call' = [op |-> "decrypt", d |-> d, ct |-> ct, out |-> DecryptResult(d, ct)]
  BY DEF Decrypt
<1>2. PICK ct \in Ciphertexts(d) :
        call' = [op |-> "decrypt", d |-> d, ct |-> ct, out |-> DecryptResult(d, ct)]
  BY <1>1
<1>3. PICK a \in AffinePoints :
        \E c \in {a, <<a[1], Fp(a[2] + 1)>>}, b \in Plaintexts,
           h \in {C3(RefMul(d, a), m) : m \in Plaintexts}
                 \cup {C3(<<RefMul(d, a)[2], RefMul(d, a)[1]>>, <<>>)} :
           ct = [x |-> c[1], y |-> c[2], hash |-> h, c2 |-> b]
  <2>. DEFINE Hashes(a) == {C3(RefMul(d, a), m) : m \in Plaintexts}
                           \cup {C3(<<RefMul(d, a)[2], RefMul(d, a)[1]>>, <<>>)}
              From(a) == {[x |-> c[1], y |-> c[2], hash |-> h, c2 |-> b] :
                            c \in {a, <<a[1], Fp(a[2] + 1)>>}, b \in Plaintexts, h \in Hashes(a)}
  <2>1. Ciphertexts(d) = UNION {From(a) : a \in AffinePoints}
    BY DEF Ciphertexts
  <2>2. PICK a \in AffinePoints : ct \in From(a)
    <3>. HIDE DEF From
    <3>. QED BY <1>2, <2>1
  <2>3. \E c \in {a, <<a[1], Fp(a[2] + 1)>>}, b \in Plaintexts, h \in Hashes(a) :
          ct = [x |-> c[1], y |-> c[2], hash |-> h, c2 |-> b]
    BY <2>2
  <2>. QED BY <2>3
<1>4. PICK c \in {a, <<a[1], Fp(a[2] + 1)>>}, b \in Plaintexts,
           h \in {C3(RefMul(d, a), m) : m \in Plaintexts}
                 \cup {C3(<<RefMul(d, a)[2], RefMul(d, a)[1]>>, <<>>)} :
        ct = [x |-> c[1], y |-> c[2], hash |-> h, c2 |-> b]
  BY <1>3
<1>5. PICK x \in Elements, y \in Elements : c = <<x, y>> /\ x = c[1] /\ y = c[2]
  <2>1. a = <<a[1], a[2]>> /\ a[1] \in Elements /\ a[2] \in Elements /\ a[2] \in Int
    BY AffineFacts
  <2>2. Fp(a[2] + 1) \in Elements
    BY <2>1, FpFacts
  <2>. QED BY <1>4, <2>1, <2>2
<1>6. ct = [x |-> x, y |-> y, hash |-> h, c2 |-> b]
  BY <1>4, <1>5
<1>7. \E p, m, q : h = <<p, m, q>> /\ (m \in Plaintexts \/ m = <<>>)
  <2>1. CASE h \in {C3(RefMul(d, a), m) : m \in Plaintexts}
    BY <2>1 DEF C3
  <2>2. CASE h = C3(<<RefMul(d, a)[2], RefMul(d, a)[1]>>, <<>>)
    BY <2>2 DEF C3
  <2>. QED BY <1>4, <2>1, <2>2
<1>8. b \in Seq(Units) /\ Len(b) \in Nat
  BY PlaintextIs
<1>. DEFINE fits == {m \in Plaintexts : ct \in RefCiphertexts[d][m]}
<1>9. CASE ~OnCurve(x, y)
  <2>1. DecryptResult(d, ct) = Failed
    BY <1>6, <1>9 DEF DecryptResult
  <2>2. ASSUME NEW m \in Plaintexts, ct \in RefCiphertexts[d][m] PROVE FALSE
    <3>1. PICK k \in 1..(OrderN - 1) : ct = Ciphertext(k, d, m)
      BY <2>2, RefCiphertextsAre
    <3>2. ct.x = Pt(k)[1] /\ ct.y = Pt(k)[2]
      BY <3>1 DEF Ciphertext
    <3>3. ct.x = x /\ ct.y = y
      BY <1>6
    <3>4. k \in Int /\ Fn(k) # 0
      BY SharedPoint
    <3>5. OnCurve(Pt(k)[1], Pt(k)[2])
      BY <3>4, PtAffine
    <3>. QED BY <1>9, <3>2, <3>3, <3>5
  <2>3. fits = {}
    BY <2>2
  <2>. QED BY <1>2, <2>1, <2>3 DEF DecryptedRight
<1>10. CASE OnCurve(x, y)
  <2>1. c \in AffinePoints
    BY <1>5, <1>10 DEF AffinePoints, Elements
  <2>2. PICK k \in 1..(OrderN - 1) : c = Pt(k)
    <3>1. c \in AllPoints /\ c # NoAffine
      BY <2>1, AffineFacts
    <3>2. PICK k \in 0..(OrderN - 1) : c = Pt(k)
      BY <3>1, PtAdd
    <3>3. k # 0
      BY <3>1, <3>2, PtAdd
    <3>. QED BY <3>2, <3>3, FnFacts
  <2>3. ct = [x |-> Pt(k)[1], y |-> Pt(k)[2], hash |-> h, c2 |-> b]
    BY <1>4, <2>2
  <2>4. PICK t \in [1..Len(b) -> Units] : t = Stream(k, d, Len(b))
    BY <1>8, SharedPoint
  <2>5. PICK v \in Seq(Units) : v = Xor(b, t) /\ Len(v) = Len(b) /\ Xor(v, t) = b
    BY <1>8, <2>4, XorIs
  <2>. DEFINE Good == /\ Len(b) <= KdfMaxOutput /\ h = C3(Pt(k * d), v)
                      /\ ~(b # <<>> /\ AllZero(t))
  <2>6. DecryptResult(d, ct) = IF Good THEN v ELSE Failed
    <3>1. DecryptResult(d, ct) =
            IF /\ Len(b) <= KdfMaxOutput
               /\ h = C3(Pt(k * d), Xor(b, Stream(k, d, Len(b))))
               /\ ~(b # <<>> /\ AllZero(Stream(k, d, Len(b))))
            THEN Xor(b, Stream(k, d, Len(b))) ELSE Failed
      BY <1>8, <2>3, DecryptIs
    <3>. QED BY <2>4, <2>5, <3>1
  <2>7. ASSUME NEW m \in Plaintexts PROVE m \in fits <=> Good /\ m = v
    <3>1. m \in Seq(Units) /\ Len(m) \in Nat
      BY PlaintextIs
    <3>2. ASSUME NEW i \in 1..(OrderN - 1), ct = Ciphertext(i, d, m) PROVE i = k
      <4>1. Pt(i)[1] = Pt(k)[1] /\ Pt(i)[2] = Pt(k)[2]
        BY <2>3, <3>2 DEF Ciphertext
      <4>2. i \in Int /\ Fn(i) # 0 /\ k \in Int /\ Fn(k) # 0 /\ i \in 0..(OrderN - 1) /\ k \in 0..(OrderN - 1)
        BY SharedPoint
      <4>3. Pt(i) = Pt(k)
        <5>1. Pt(i) = <<Pt(i)[1], Pt(i)[2]>> /\ Pt(k) = <<Pt(k)[1], Pt(k)[2]>>
          BY <4>2, PtAffine
        <5>. QED BY <4>1, <5>1
      <4>4. EqualN(i, k)
        BY <4>2, <4>3, PtAdd
      <4>. QED BY <4>2, <4>4, FnFacts DEF EqualN
    <3>3. m \in fits <=> Len(m) <= KdfMaxOutput /\ Masks(k, d, m) /\ ct = Ciphertext(k, d, m)
      BY <3>2, RefCiphertextsAre
    <3>4. ct = Ciphertext(k, d, m) <=> h = C3(Pt(k * d), m) /\ b = Xor(m, Stream(k, d, Len(m)))
      BY <2>3 DEF Ciphertext
    <3>5. ASSUME b = Xor(m, Stream(k, d, Len(m))) PROVE m = v
      <4>1. PICK u \in [1..Len(m) -> Units] : u = Stream(k, d, Len(m))
        BY <3>1, SharedPoint
      <4>2. Len(b) = Len(m) /\ Xor(b, u) = m
        BY <3>1, <3>5, <4>1, XorIs
      <4>. QED BY <2>4, <2>5, <4>1, <4>2
    <3>6. ASSUME m = v
          PROVE  /\ b = Xor(m, Stream(k, d, Len(m))) /\ Len(m) = Len(b)
                 /\ Masks(k, d, m) <=> ~(b # <<>> /\ AllZero(t))
      <4>1. Len(m) = Len(b) /\ Stream(k, d, Len(m)) = t
        BY <2>4, <2>5, <3>6
      <4>2. b # <<>> <=> m # <<>>
        <5>1. b # <<>> <=> Len(b) # 0
          BY <1>8
        <5>2. m # <<>> <=> Len(m) # 0
          BY <3>1
        <5>. QED BY <4>1, <5>1, <5>2
      <4>. QED BY <2>5, <3>6, <4>1, <4>2 DEF Masks
    <3>. HIDE DEF fits
    <3>. QED BY <3>3, <3>4, <3>5, <3>6
  <2>8. ASSUME Good PROVE v \in Plaintexts /\ v # Failed
    <3>1. PICK p, m, q : h = <<p, m, q>> /\ (m \in Plaintexts \/ m = <<>>)
      BY <1>7
    <3>2. m = v
      BY <2>8, <3>1 DEF C3
    <3>3. CASE m = <<>>
      <4>1. Len(b) = 0
        BY <2>5, <3>2, <3>3
      <4>2. b = <<>>
        BY <1>8, <4>1
      <4>. QED BY <3>2, <3>3, <4>2, CallsAssumption
    <3>4. CASE m \in Plaintexts
      BY <3>2, <3>4, CallsAssumption
    <3>. QED BY <3>1, <3>3, <3>4
  <2>9. fits = {DecryptResult(d, ct)} \ {Failed}
    <3>. HIDE DEF Good
    <3>1. \A m : m \in fits => m \in Plaintexts
      OBVIOUS
    <3>. HIDE DEF fits
    <3>2. CASE Good
      <4>1. DecryptResult(d, ct) = v /\ v # Failed /\ v \in Plaintexts
        BY <2>6, <2>8, <3>2
      <4>2. \A m : m \in fits <=> m = v
        BY <2>7, <3>1, <3>2, <4>1
      <4>. QED BY <4>1, <4>2
    <3>3. CASE ~Good
      <4>1. DecryptResult(d, ct) = Failed
        BY <2>6, <3>3
      <4>2. \A m : m \notin fits
        BY <2>7, <3>1, <3>3
      <4>. QED BY <4>1, <4>2
    <3>. QED BY <3>2, <3>3
  <2>. QED BY <1>2, <2>9 DEF DecryptedRight
<1>. QED BY <1>2, <1>9, <1>10

(***************************************************************************)
(* Encryption.                                                             *)
(***************************************************************************)
EncryptCall(c, public, m, sample, first, nonces, rngFailed, out) ==
    /\ c = [op |-> "encrypt", public |-> public, m |-> m, sample |-> sample,
            first |-> first, nonces |-> nonces, rngFailed |-> rngFailed, out |-> out]
    /\ public \in Publics /\ m \in Plaintexts /\ nonces \in Seq(Nonces)
    /\ out = Pending =>
         /\ ~IsIdentity(public) /\ Len(m) <= KdfMaxOutput
         /\ Follows(sample, first) /\ Len(nonces) < EncryptRetryBudget
         /\ \A i \in 1..Len(nonces) : nonces[i] # 0 /\ RefEncrypt(ToAffine(public), m, nonces[i]) = {}
    /\ out = Failed =>
         \/ rngFailed = TRUE \/ ToAffine(public) = NoAffine \/ Len(m) > KdfMaxOutput
         \/ \E i \in 1..Len(nonces) : nonces[i] = 0
         \/ /\ Len(nonces) = EncryptRetryBudget
            /\ \A i \in 1..Len(nonces) : RefEncrypt(ToAffine(public), m, nonces[i]) = {}
    /\ out # Pending /\ out # Failed =>
         /\ ~IsIdentity(public) /\ Len(nonces) # 0 /\ nonces[Len(nonces)] # 0
         /\ out \in RefEncrypt(ToAffine(public), m, nonces[Len(nonces)])
EncryptInv(c) == \E public, m, sample, first, nonces, rngFailed, out :
                    EncryptCall(c, public, m, sample, first, nonces, rngFailed, out)

(* A public point that is not the identity is that of a key.               *)
LEMMA PublicIs ==
    ASSUME NEW public \in Publics
    PROVE  /\ ~IsIdentity(public) => \E d \in PrivateKeys : public = PublicKey(d) /\ ToAffine(public) = Pt(d)
           /\ IsIdentity(public) => ToAffine(public) = NoAffine
<1>1. CASE public = Identity
  <2>1. IsIdentity(public)
    <3>1. Fn(0) = 0
      BY FnFacts
    <3>. QED BY <1>1, <3>1, StandsFacts
  <2>. QED BY <2>1 DEF ToAffine
<1>2. ASSUME NEW d \in PrivateKeys, public = PublicKey(d)
      PROVE  ToAffine(public) = Pt(d) /\ ~IsIdentity(public)
  BY <1>2, KeyFacts, StandsFacts
<1>. QED BY <1>1, <1>2 DEF Publics

(* StartEncrypt establishes the invariant of encryption.                   *)
LEMMA EncryptStarts == ASSUME StartEncrypt PROVE EncryptInv(call')
<1>1. PICK public \in Publics, m \in Plaintexts :
        call' = [op |-> "encrypt", public |-> public, m |-> m, sample |-> NoSample,
                 first |-> 0, nonces |-> <<>>, rngFailed |-> FALSE,
                 out |-> IF IsIdentity(public) \/ Len(m) > KdfMaxOutput THEN Failed ELSE Pending]
  BY DEF StartEncrypt
<1>2. Failed # Pending /\ EncryptRetryBudget \in Nat \ {0}
  BY CallsAssumption
<1>3. <<>> \in Seq(Nonces) /\ Len(<<>>) = 0 /\ Len(<<>>) < EncryptRetryBudget
  BY <1>2
<1>4. PICK out : out = IF IsIdentity(public) \/ Len(m) > KdfMaxOutput THEN Failed ELSE Pending
  OBVIOUS
<1>5. Len(m) > KdfMaxOutput <=> ~(Len(m) <= KdfMaxOutput)
  <2>1. BlockUnits \in Nat /\ CounterMax \in Nat /\ Len(m) \in Nat
    BY CallsAssumption, PlaintextIs
  <2>2. KdfMaxOutput \in Nat
    BY <2>1 DEF KdfMaxOutput
  <2>. QED BY <2>1, <2>2
<1>6. /\ out = Pending => ~IsIdentity(public) /\ Len(m) <= KdfMaxOutput
      /\ out = Failed => ToAffine(public) = NoAffine \/ Len(m) > KdfMaxOutput
      /\ out = Pending \/ out = Failed
  BY <1>2, <1>4, <1>5, PublicIs
<1>7. EncryptCall(call', public, m, NoSample, 0, <<>>, FALSE, out)
  BY <1>1, <1>3, <1>4, <1>6, NoSampleIs DEF EncryptCall
<1>. QED BY <1>7 DEF EncryptInv

(* A draw keeps it.                                                        *)
LEMMA EncryptDraws == ASSUME EncryptInv(call), Draw PROVE EncryptInv(call')
<1>1. PICK public, m, sample, first, nonces, rngFailed, out :
        EncryptCall(call, public, m, sample, first, nonces, rngFailed, out)
  BY DEF EncryptInv
<1>2. call = [op |-> "encrypt", public |-> public, m |-> m, sample |-> sample,
              first |-> first, nonces |-> nonces, rngFailed |-> rngFailed, out |-> out]
  BY <1>1 DEF EncryptCall
<1>3. PICK v \in Draws :
        call' = [call EXCEPT !.sample = Drawn(@, v),
                      !.first = IF @ = 0 /\ v \in 1..(OrderN - 1) THEN v ELSE @]
  BY DEF Draw
<1>4. PICK s, f : s = Drawn(sample, v) /\ f = IF first = 0 /\ v \in 1..(OrderN - 1) THEN v ELSE first
  OBVIOUS
<1>5. call' = [op |-> "encrypt", public |-> public, m |-> m, sample |-> s,
               first |-> f, nonces |-> nonces, rngFailed |-> rngFailed, out |-> out]
  BY <1>2, <1>3, <1>4
<1>6. out = Pending => Follows(s, f)
  BY <1>1, <1>4, DrawnIs DEF EncryptCall
<1>7. EncryptCall(call', public, m, s, f, nonces, rngFailed, out)
  BY <1>1, <1>5, <1>6 DEF EncryptCall
<1>. QED BY <1>7 DEF EncryptInv

(* A failing source keeps it.                                              *)
LEMMA EncryptFails == ASSUME EncryptInv(call), DrawFails PROVE EncryptInv(call')
<1>1. PICK public, m, sample, first, nonces, rngFailed, out :
        EncryptCall(call, public, m, sample, first, nonces, rngFailed, out)
  BY DEF EncryptInv
<1>2. call = [op |-> "encrypt", public |-> public, m |-> m, sample |-> sample,
              first |-> first, nonces |-> nonces, rngFailed |-> rngFailed, out |-> out]
  BY <1>1 DEF EncryptCall
<1>3. call' = [op |-> "encrypt", public |-> public, m |-> m, sample |-> sample,
               first |-> first, nonces |-> nonces, rngFailed |-> TRUE, out |-> Failed]
  BY <1>2 DEF DrawFails
<1>4. EncryptCall(call', public, m, sample, first, nonces, TRUE, Failed)
  BY <1>1, <1>3, CallsAssumption DEF EncryptCall
<1>. QED BY <1>4 DEF EncryptInv

(* An attempt keeps it.                                                    *)
LEMMA EncryptAttempts == ASSUME EncryptInv(call), EncryptAttempt PROVE EncryptInv(call')
<1>1. PICK public, m, sample, first, nonces, rngFailed, out :
        EncryptCall(call, public, m, sample, first, nonces, rngFailed, out)
  BY DEF EncryptInv
<1>2. call = [op |-> "encrypt", public |-> public, m |-> m, sample |-> sample,
              first |-> first, nonces |-> nonces, rngFailed |-> rngFailed, out |-> out]
  BY <1>1 DEF EncryptCall
<1>3. out = Pending
  BY <1>2 DEF EncryptAttempt, Running
<1>4. /\ public \in Publics /\ m \in Plaintexts /\ nonces \in Seq(Nonces)
      /\ ~IsIdentity(public) /\ Len(m) <= KdfMaxOutput
      /\ Follows(sample, first) /\ first \in Nonces /\ Len(nonces) < EncryptRetryBudget
      /\ \A i \in 1..Len(nonces) : nonces[i] # 0 /\ RefEncrypt(ToAffine(public), m, nonces[i]) = {}
      /\ Len(nonces) \in Nat
  <2>1. /\ public \in Publics /\ m \in Plaintexts /\ nonces \in Seq(Nonces)
        /\ ~IsIdentity(public) /\ Len(m) <= KdfMaxOutput
        /\ Follows(sample, first) /\ Len(nonces) < EncryptRetryBudget
        /\ \A i \in 1..Len(nonces) : nonces[i] # 0 /\ RefEncrypt(ToAffine(public), m, nonces[i]) = {}
    BY <1>1, <1>3 DEF EncryptCall
  <2>2. first \in Nonces
    BY <2>1 DEF Follows
  <2>3. Len(nonces) \in Nat
    BY <2>1
  <2>. QED BY <2>1, <2>2, <2>3
<1>5. PICK d \in PrivateKeys : public = PublicKey(d) /\ ToAffine(public) = Pt(d)
  BY <1>4, PublicIs
<1>6. PICK ct : ct = TryEncryptOnce(public, m, sample.chosen)
  OBVIOUS
<1>7. PICK ns, s, o :
        /\ ns = Append(nonces, first)
        /\ s = IF ct = Failed THEN NoSample ELSE sample
        /\ o = IF ~sample.found THEN Failed
               ELSE IF ct # Failed THEN ct
               ELSE IF Len(nonces) + 1 = EncryptRetryBudget THEN Failed ELSE out
  OBVIOUS
<1>8. call' = [op |-> "encrypt", public |-> public, m |-> m, sample |-> s,
               first |-> 0, nonces |-> ns, rngFailed |-> rngFailed, out |-> o]
  BY <1>2, <1>6, <1>7 DEF EncryptAttempt
<1>9. /\ ns \in Seq(Nonces) /\ Len(ns) = Len(nonces) + 1 /\ ns[Len(ns)] = first
      /\ \A i \in 1..Len(nonces) : ns[i] = nonces[i]
      /\ \A i \in 1..Len(ns) : i \in 1..Len(nonces) \/ i = Len(ns)
      /\ Len(ns) \in 1..Len(ns) /\ Len(ns) # 0
  <2>1. /\ ns \in Seq(Nonces) /\ Len(ns) = Len(nonces) + 1 /\ ns[Len(nonces) + 1] = first
        /\ \A i \in 1..Len(nonces) : ns[i] = nonces[i]
    BY <1>4, <1>7, AppendFacts
  <2>2. Len(ns) \in Nat /\ Len(ns) # 0
    BY <1>4, <2>1
  <2>. QED BY <1>4, <2>1, <2>2
<1>10. CASE first = 0
  <2>1. o = Failed
    BY <1>4, <1>7, <1>10 DEF Follows
  <2>2. \E i \in 1..Len(ns) : ns[i] = 0
    BY <1>9, <1>10
  <2>3. EncryptCall(call', public, m, s, 0, ns, rngFailed, o)
    BY <1>4, <1>8, <1>9, <2>1, <2>2, CallsAssumption DEF EncryptCall
  <2>. QED BY <2>3 DEF EncryptInv
<1>11. CASE first # 0
  <2>1. first \in 1..(OrderN - 1) /\ sample.found /\ sample.chosen = first
    BY <1>4, <1>11, FnFacts DEF Follows, Nonces
  <2>2. ct = IF Masks(first, d, m) THEN Ciphertext(first, d, m) ELSE Failed
    <3>1. ct = TryEncryptOnce(PublicKey(d), m, first)
      BY <1>5, <1>6, <2>1
    <3>. QED BY <1>4, <2>1, <3>1, EncryptIs
  <2>3. /\ RefEncrypt(ToAffine(public), m, first) =
                IF Masks(first, d, m) THEN {Ciphertext(first, d, m)} ELSE {}
        /\ Ciphertext(first, d, m) # Failed /\ Ciphertext(first, d, m) # Pending
    BY <1>4, <1>5, <2>1, EncryptIs
  <2>4. CASE Masks(first, d, m)
    <3>1. o = ct /\ ct \in RefEncrypt(ToAffine(public), m, first) /\ o # Failed /\ o # Pending
      BY <1>7, <2>1, <2>2, <2>3, <2>4
    <3>2. EncryptCall(call', public, m, s, 0, ns, rngFailed, o)
      BY <1>4, <1>8, <1>9, <1>11, <3>1 DEF EncryptCall
    <3>. QED BY <3>2 DEF EncryptInv
  <2>5. CASE ~Masks(first, d, m)
    <3>1. s = NoSample /\ ct = Failed /\ RefEncrypt(ToAffine(public), m, first) = {}
      BY <1>7, <2>2, <2>3, <2>5
    <3>2. \A i \in 1..Len(ns) : ns[i] # 0 /\ RefEncrypt(ToAffine(public), m, ns[i]) = {}
      BY <1>4, <1>9, <1>11, <3>1
    <3>3. /\ o = Failed \/ o = Pending
          /\ o = Failed => Len(ns) = EncryptRetryBudget
          /\ o = Pending => Len(ns) < EncryptRetryBudget
      <4>1. EncryptRetryBudget \in Nat /\ Failed # Pending
        BY CallsAssumption
      <4>. QED BY <1>3, <1>4, <1>7, <1>9, <2>1, <3>1, <4>1
    <3>4. Follows(s, 0)
      BY <3>1, NoSampleIs
    <3>5. EncryptCall(call', public, m, s, 0, ns, rngFailed, o)
      BY <1>4, <1>8, <1>9, <3>2, <3>3, <3>4 DEF EncryptCall
    <3>. QED BY <3>5 DEF EncryptInv
  <2>. QED BY <2>4, <2>5
<1>. QED BY <1>10, <1>11

(* What a finished encryption shows.                                       *)
EncryptedRight(c) ==
    LET p == ToAffine(c.public)
        Gives(i) == IF c.nonces[i] = 0 THEN {} ELSE RefEncrypt(p, c.m, c.nonces[i])
    IN  IF c.out = Failed
        THEN \/ c.rngFailed \/ p = NoAffine \/ Len(c.m) > KdfMaxOutput
             \/ \E i \in DOMAIN c.nonces : c.nonces[i] = 0
             \/ /\ Len(c.nonces) = EncryptRetryBudget
                /\ \A i \in DOMAIN c.nonces : Gives(i) = {}
        ELSE /\ c.out \in Gives(Len(c.nonces))
             /\ \A d \in PrivateKeys : PublicKey(d) = c.public => DecryptResult(d, c.out) = c.m

(* The invariant of encryption has what a finished encryption shows.       *)
LEMMA EncryptShows ==
    ASSUME NEW c, EncryptInv(c)
    PROVE  c.op = "encrypt" /\ (c.out # Pending => EncryptedRight(c))
<1>1. PICK public, m, sample, first, nonces, rngFailed, out :
        EncryptCall(c, public, m, sample, first, nonces, rngFailed, out)
  BY DEF EncryptInv
<1>2. c = [op |-> "encrypt", public |-> public, m |-> m, sample |-> sample,
           first |-> first, nonces |-> nonces, rngFailed |-> rngFailed, out |-> out]
  BY <1>1 DEF EncryptCall
<1>3. /\ public \in Publics /\ m \in Plaintexts /\ nonces \in Seq(Nonces)
      /\ DOMAIN nonces = 1..Len(nonces) /\ Len(nonces) \in Nat
  BY <1>1 DEF EncryptCall
<1>. DEFINE p == ToAffine(public)
            Gives(i) == IF nonces[i] = 0 THEN {} ELSE RefEncrypt(p, m, nonces[i])
<1>4. ASSUME out = Failed
      PROVE  \/ rngFailed = TRUE \/ p = NoAffine \/ Len(m) > KdfMaxOutput
             \/ \E i \in DOMAIN nonces : nonces[i] = 0
             \/ /\ Len(nonces) = EncryptRetryBudget
                /\ \A i \in DOMAIN nonces : Gives(i) = {}
  BY <1>1, <1>3, <1>4 DEF EncryptCall
<1>5. ASSUME out # Failed, out # Pending
      PROVE  /\ out \in Gives(Len(nonces))
             /\ \A d \in PrivateKeys : PublicKey(d) = public => DecryptResult(d, out) = m
  <2>1. /\ ~IsIdentity(public) /\ Len(nonces) # 0 /\ nonces[Len(nonces)] # 0
        /\ out \in RefEncrypt(p, m, nonces[Len(nonces)])
    BY <1>1, <1>5 DEF EncryptCall
  <2>2. PICK k \in 1..(OrderN - 1) : k = nonces[Len(nonces)]
    <3>1. Len(nonces) \in 1..Len(nonces)
      BY <1>3, <2>1
    <3>2. nonces[Len(nonces)] \in Nonces
      BY <1>3, <3>1
    <3>. QED BY <2>1, <3>2, FnFacts DEF Nonces
  <2>3. ASSUME NEW d \in PrivateKeys, PublicKey(d) = public PROVE DecryptResult(d, out) = m
    <3>1. p = Pt(d)
      BY <2>3, KeyFacts, StandsFacts
    <3>2. out \in IF Len(m) <= KdfMaxOutput /\ Masks(k, d, m) THEN {Ciphertext(k, d, m)} ELSE {}
      BY <1>3, <2>1, <2>2, <3>1, EncryptIs
    <3>3. Len(m) <= KdfMaxOutput /\ Masks(k, d, m) /\ out = Ciphertext(k, d, m)
      BY <3>2
    <3>. QED BY <1>3, <3>3, DecryptsBack
  <2>. QED BY <2>1, <2>3
<1>6. c.out # Pending => EncryptedRight(c)
  <2>. HIDE DEF p
  <2>. QED BY <1>2, <1>4, <1>5 DEF EncryptedRight, p
<1>. QED BY <1>2, <1>6

(***************************************************************************)
(* The call, whatever it is.                                               *)
(***************************************************************************)
CallsInv ==
    \/ call = Idle
    \/ call.op = "add" /\ AddedRight(call)
    \/ MulVarInv(call)
    \/ MulGInv(call)
    \/ SignInv(call)
    \/ call.op = "verify" /\ VerifiedRight(call)
    \/ EncryptInv(call)
    \/ call.op = "decrypt" /\ DecryptedRight(call)

(* The kind of call is read off its invariant.                             *)
LEMMA OpsAre ==
    /\ call = Idle => call.op = "idle"
    /\ MulVarInv(call) => call.op = "mul_var"
    /\ MulGInv(call) => call.op = "mul_g"
    /\ SignInv(call) => call.op = "sign"
    /\ EncryptInv(call) => call.op = "encrypt"
<1>1. call = Idle => call.op = "idle"
  BY DEF Idle
<1>. QED BY <1>1, MulVarShows, MulGShows, SignShows, EncryptShows

(* Every step of every call keeps the invariant.                           *)
LEMMA CallsStep == CallsInv /\ [SNext]_call => CallsInv'
<1>. SUFFICES ASSUME CallsInv, [SNext]_call PROVE CallsInv'
  OBVIOUS
<1>1. CASE AddPoints
  BY <1>1, AddIs DEF CallsInv
<1>2. CASE StartMulVar
  BY <1>2, MulVarStarts DEF CallsInv
<1>3. CASE StepMulVar
  <2>1. call.op = "mul_var"
    BY <1>3 DEF StepMulVar, Running
  <2>2. MulVarInv(call)
    BY <2>1, OpsAre DEF CallsInv
  <2>. QED BY <1>3, <2>2, MulVarGoes DEF CallsInv
<1>4. CASE StartMulG
  BY <1>4, MulGStarts DEF CallsInv
<1>5. CASE StepMulG
  <2>1. call.op = "mul_g"
    BY <1>5 DEF StepMulG, Running
  <2>2. MulGInv(call)
    BY <2>1, OpsAre DEF CallsInv
  <2>. QED BY <1>5, <2>2, MulGGoes DEF CallsInv
<1>6. CASE EndMul
  <2>1. call.op = "mul_var" \/ call.op = "mul_g"
    BY <1>6 DEF EndMul
  <2>2. MulVarInv(call) \/ MulGInv(call)
    BY <2>1, OpsAre DEF CallsInv
  <2>. QED BY <1>6, <2>2, MulEnds DEF CallsInv
<1>7. CASE Draw
  <2>1. call.op = "sign" \/ call.op = "encrypt"
    BY <1>7 DEF Draw, Sampling, Running
  <2>2. SignInv(call) \/ EncryptInv(call)
    BY <2>1, OpsAre DEF CallsInv
  <2>. QED BY <1>7, <2>2, SignDraws, EncryptDraws DEF CallsInv
<1>8. CASE DrawFails
  <2>1. call.op = "sign" \/ call.op = "encrypt"
    BY <1>8 DEF DrawFails, Sampling, Running
  <2>2. SignInv(call) \/ EncryptInv(call)
    BY <2>1, OpsAre DEF CallsInv
  <2>. QED BY <1>8, <2>2, SignFails, EncryptFails DEF CallsInv
<1>9. CASE StartSign
  BY <1>9, SignStarts DEF CallsInv
<1>10. CASE SignAttempt
  <2>1. call.op = "sign"
    BY <1>10 DEF SignAttempt, Running
  <2>2. SignInv(call)
    BY <2>1, OpsAre DEF CallsInv
  <2>. QED BY <1>10, <2>2, SignAttempts DEF CallsInv
<1>11. CASE SignReturns
  <2>1. call.op = "sign"
    BY <1>11 DEF SignReturns, Running
  <2>2. SignInv(call)
    BY <2>1, OpsAre DEF CallsInv
  <2>. QED BY <1>11, <2>2, SignEnds DEF CallsInv
<1>12. CASE Verify
  BY <1>12, VerifyIs DEF CallsInv
<1>13. CASE StartEncrypt
  BY <1>13, EncryptStarts DEF CallsInv
<1>14. CASE EncryptAttempt
  <2>1. call.op = "encrypt"
    BY <1>14 DEF EncryptAttempt, Running
  <2>2. EncryptInv(call)
    BY <2>1, OpsAre DEF CallsInv
  <2>. QED BY <1>14, <2>2, EncryptAttempts DEF CallsInv
<1>15. CASE Decrypt
  BY <1>15, DecryptExact DEF CallsInv
<1>16. CASE UNCHANGED call
  BY <1>16 DEF CallsInv
<1>. QED BY <1>1, <1>2, <1>3, <1>4, <1>5, <1>6, <1>7, <1>8, <1>9, <1>10, <1>11, <1>12, <1>13,
         <1>14, <1>15, <1>16 DEF SNext

(* Every call of the SM2 library is at every step what CallsInv says.      *)
THEOREM SmCallsInvariant == SSpec => []CallsInv
<1>1. SInit => CallsInv
  BY DEF SInit, CallsInv
<1>. QED BY <1>1, CallsStep, PTL DEF SSpec

(* Addition, doubling, negation, comparison and both multiplications are   *)
(* those of the group, for every curve, scalar, point and scaling          *)
(* (point.rs, scalar_mul.rs).                                              *)
THEOREM PointsAreExact == SSpec => []PointsExact
<1>1. CallsInv => PointsExact
  <2>. SUFFICES ASSUME CallsInv PROVE PointsExact
    OBVIOUS
  <2>1. call.op = "add" => AddedRight(call)
    BY OpsAre DEF CallsInv
  <2>2. call.op = "mul_var" => MulVarInv(call)
    BY OpsAre DEF CallsInv
  <2>3. call.op = "mul_g" => MulGInv(call)
    BY OpsAre DEF CallsInv
  <2>. QED BY <2>1, <2>2, <2>3, MulVarShows, MulGShows DEF PointsExact, AddedRight, Running
<1>. QED BY <1>1, SmCallsInvariant, PTL

(* Signing returns the pair of the first good genuine nonce, which         *)
(* verifies, or fails for a reason; verification is the equation of the    *)
(* standard (sign.rs, verify.rs).                                          *)
THEOREM SignaturesAreExact == SSpec => []SignExact
<1>1. CallsInv => SignExact
  <2>. SUFFICES ASSUME CallsInv PROVE SignExact
    OBVIOUS
  <2>1. call.op = "sign" => SignInv(call)
    BY OpsAre DEF CallsInv
  <2>2. call.op = "verify" => VerifiedRight(call)
    BY OpsAre DEF CallsInv
  <2>3. call.op = "sign" /\ call.out # Pending => SignedRight(call)
    BY <2>1, SignShows
  <2>. QED BY <2>2, <2>3 DEF SignExact, SignedRight, VerifiedRight
<1>. QED BY <1>1, SmCallsInvariant, PTL

(* Encryption and decryption are those of the standard, inverse to each    *)
(* other, and refuse what they must (encrypt.rs, decrypt.rs).              *)
THEOREM CiphersAreExact == SSpec => []CipherExact
<1>1. CallsInv => CipherExact
  <2>. SUFFICES ASSUME CallsInv PROVE CipherExact
    OBVIOUS
  <2>1. call.op = "encrypt" => EncryptInv(call)
    BY OpsAre DEF CallsInv
  <2>2. call.op = "decrypt" => DecryptedRight(call)
    BY OpsAre DEF CallsInv
  <2>3. call.op = "encrypt" /\ call.out # Pending => EncryptedRight(call)
    BY <2>1, EncryptShows
  <2>. QED BY <2>2, <2>3 DEF CipherExact, EncryptedRight, DecryptedRight
<1>. QED BY <1>1, SmCallsInvariant, PTL

(***************************************************************************)
(* Certificate chains: what verify_chain and verify_pair promise, for      *)
(* every population of authorities, forgers and certificates, any number   *)
(* of certificates, and chains of up to the eight that MAX_CHAIN_DEPTH     *)
(* allows.                                                                 *)
(***************************************************************************)
(* The inductive invariant: what an authority's key has signed, the        *)
(* authority had registered, and if it can issue in turn it is for an      *)
(* authority.                                                              *)
Vouched(c) ==
    c.signer \in Authorities =>
        /\ <<c.subject, c.key>> \in Registered[c.signer]
        /\ c.issuer = Authority[c.signer]
        /\ IsCaIssuer(c) => c.key \in Authorities
AuthoritiesVouch == \A c \in certs : Vouched(c)

(* No certificate an authority's key has signed is unregistered (Issue and *)
(* Forge are the only ways a certificate comes to be).                     *)
THEOREM VouchInvariant == CSpec => []AuthoritiesVouch
<1>1. CInit => AuthoritiesVouch
  BY DEF CInit, AuthoritiesVouch
<1>2. AuthoritiesVouch /\ [CNext]_cvars => AuthoritiesVouch'
  <2> SUFFICES ASSUME AuthoritiesVouch, [CNext]_cvars
               PROVE  AuthoritiesVouch'
    OBVIOUS
  <2>1. CASE UNCHANGED cvars
    BY <2>1 DEF cvars, AuthoritiesVouch
  <2>2. ASSUME NEW k \in Authorities, NEW subject, NEW key, NEW shape,
               Issue(k, subject, key, shape)
        PROVE  AuthoritiesVouch'
    <3> DEFINE c == Cert(subject, key, Authority[k], k, shape)
    <3>1. Vouched(c)
      BY <2>2 DEF Vouched, Cert, Issue, IsCaIssuer
    <3>2. certs' = certs \cup {c}
      BY <2>2 DEF Issue, Publish
    <3> QED
      BY <3>1, <3>2 DEF AuthoritiesVouch
  <2>3. ASSUME NEW k \in Rogues, NEW subject, NEW issuer, NEW shape,
               Forge(k, subject, issuer, shape)
        PROVE  AuthoritiesVouch'
    <3> DEFINE c == Cert(subject, k, issuer, k, shape)
    <3>1. Vouched(c)
      BY TrustAssumption DEF Vouched, Cert, Authorities
    <3>2. certs' = certs \cup {c}
      BY <2>3 DEF Forge, Publish
    <3> QED
      BY <3>1, <3>2 DEF AuthoritiesVouch
  <2> QED
    BY <2>1, <2>2, <2>3 DEF CNext
<1> QED
  BY <1>1, <1>2, PTL DEF CSpec

(* A presented chain is a sequence of certificates.                        *)
LEMMA ChainsAreSequences ==
    ASSUME NEW chain \in Chains
    PROVE  /\ Len(chain) \in 1..MaxChainDepth
           /\ \A i \in 1..Len(chain) : chain[i] \in certs
<1>1. PICK n \in 1..MaxChainDepth : chain \in [1..n -> certs]
  BY DEF Chains
<1>2. n \in Nat
  BY <1>1, DepthAssumption
<1>3. chain \in Seq(certs) /\ Len(chain) = n
  BY <1>1, <1>2
<1> QED
  BY <1>1, <1>3

(* In an accepted chain whose certificates are vouched for, the authority  *)
(* passes from the anchor down to the leaf: one edge of verify_chain.      *)
LEMMA Edge ==
    ASSUME AuthoritiesVouch, NEW chain \in Chains, NEW at,
           VerifyChain(chain, Anchors, at),
           NEW i \in 1..(Len(chain) - 1),
           chain[i + 1].signer \in Authorities
    PROVE  chain[i].signer \in Authorities
<1>1. Len(chain) \in Nat /\ i + 1 \in 1..Len(chain)
  BY ChainsAreSequences, DepthAssumption
<1>2. Vouched(chain[i + 1])
  BY <1>1, ChainsAreSequences DEF AuthoritiesVouch
<1>3. chain[i].signer = chain[i + 1].key /\ IsCaIssuer(chain[i + 1])
  BY DEF VerifyChain, VerifySignature
<1> QED
  BY <1>2, <1>3 DEF Vouched

(* The top certificate of an accepted chain was signed by an anchor's key. *)
LEMMA Top ==
    ASSUME NEW chain \in Chains, NEW at, VerifyChain(chain, Anchors, at)
    PROVE  chain[Len(chain)].signer \in Authorities
BY TrustAssumption DEF VerifyChain, Anchored, VerifySignature, Authorities

(* Every certificate of an accepted chain was signed by an authority: at   *)
(* most seven edges below the top.                                         *)
LEMMA SignedByAuthorities ==
    ASSUME AuthoritiesVouch, NEW chain \in Chains, NEW at,
           VerifyChain(chain, Anchors, at),
           NEW i \in 1..Len(chain)
    PROVE  chain[i].signer \in Authorities
<1> DEFINE n == Len(chain)
           Signed(j) == j \in 1..n => chain[j].signer \in Authorities
<1>1. n \in 1..8
  <2>1. Len(chain) \in 1..MaxChainDepth
    BY ChainsAreSequences
  <2>2. \A m \in 1..MaxChainDepth : m \in 1..8
    BY DepthAssumption
  <2> QED
    BY <2>1, <2>2
<1>2. Signed(n)
  BY Top
<1>3. ASSUME NEW j \in Int, Signed(j + 1), j < n
      PROVE  Signed(j)
  <2>1. CASE j \in 1..(n - 1)
    <3>1. j + 1 \in 1..n
      BY <2>1, <1>1
    <3>2. chain[j + 1].signer \in Authorities
      BY <3>1, <1>3
    <3> QED
      BY <2>1, <3>2, Edge
  <2>2. CASE j \notin 1..n
    BY <2>2
  <2> QED
    BY <2>1, <2>2, <1>1, <1>3
<1> HIDE DEF Signed
<1>4. n \in Int /\ \A j \in Int : j < n /\ Signed(j + 1) => Signed(j)
  BY <1>1, <1>3
<1>5. Signed(n - 1)
  BY <1>2, <1>4
<1>6. Signed(n - 2)
  BY <1>5, <1>4
<1>7. Signed(n - 3)
  BY <1>6, <1>4
<1>8. Signed(n - 4)
  BY <1>7, <1>4
<1>9. Signed(n - 5)
  BY <1>8, <1>4
<1>10. Signed(n - 6)
  BY <1>9, <1>4
<1>11. Signed(n - 7)
  BY <1>10, <1>4
<1>12. Signed(i)
  <2>1. i \in 1..n
    OBVIOUS
  <2> HIDE DEF n
  <2>2. \/ i = n \/ i = n - 1 \/ i = n - 2 \/ i = n - 3
        \/ i = n - 4 \/ i = n - 5 \/ i = n - 6 \/ i = n - 7
    BY <1>1, <2>1
  <2> QED
    BY <2>2, <1>2, <1>5, <1>6, <1>7, <1>8, <1>9, <1>10, <1>11
<1> QED
  BY <1>12 DEF Signed

(* verify_chain accepts only what authorities issued: for each certificate *)
(* of the chain its subject was registered under its key, it is in its     *)
(* window and free of unknown critical extensions.                         *)
THEOREM ChainsVouched == CSpec => []AcceptedIsVouched
<1>1. AuthoritiesVouch => AcceptedIsVouched
  <2> SUFFICES ASSUME AuthoritiesVouch, NEW chain \in Chains, NEW at \in AllTimes,
                      VerifyChain(chain, Anchors, at),
                      NEW i \in 1..Len(chain)
               PROVE  /\ chain[i].signer \in Authorities
                      /\ <<chain[i].subject, chain[i].key>> \in Registered[chain[i].signer]
                      /\ chain[i].issuer = Authority[chain[i].signer]
                      /\ ~chain[i].shape.odd
                      /\ at # NoTime => chain[i].shape.from <= at /\ at <= chain[i].shape.until
    BY DEF AcceptedIsVouched
  <2>1. chain[i].signer \in Authorities
    BY SignedByAuthorities
  <2>2. Vouched(chain[i])
    BY ChainsAreSequences DEF AuthoritiesVouch
  <2>3. ~chain[i].shape.odd /\ WithinWindow(chain[i], at)
    BY DEF VerifyChain
  <2> QED
    BY <2>1, <2>2, <2>3 DEF Vouched, WithinWindow
<1> QED
  BY <1>1, VouchInvariant, PTL

(* Neither the order of the anchors nor another anchor of the same Name    *)
(* changes what verify_chain accepts.                                      *)
THEOREM AnchorsAlone == CSpec => []AnchorsIndependent
<1>1. AnchorsIndependent
  <2> SUFFICES ASSUME NEW chain \in Chains, NEW at \in AllTimes
               PROVE  VerifyChain(chain, Anchors, at) <=>
                        \E a \in 1..Len(Anchors) : VerifyChain(chain, <<Anchors[a]>>, at)
    BY DEF AnchorsIndependent
  <2> DEFINE top == chain[Len(chain)]
             Names(anchor) == /\ anchor.subject = top.issuer
                              /\ WithinWindow(anchor, at)
                              /\ VerifySignature(top, anchor.key)
  <2>1. Anchored(top, Anchors, at) <=> \E a \in 1..Len(Anchors) : Names(Anchors[a])
    BY DEF Anchored
  <2>2. \A a \in 1..Len(Anchors) : Anchored(top, <<Anchors[a]>>, at) <=> Names(Anchors[a])
    BY DEF Anchored
  <2> QED
    BY <2>1, <2>2 DEF VerifyChain
<1> QED
  BY <1>1, PTL

(* An accepted pair's leaves were registered, under one subject, by one    *)
(* and the same authority.                                                 *)
THEOREM PairsHaveOneIssuer == CSpec => []PairHasOneIssuer
<1>1. AuthoritiesVouch => PairHasOneIssuer
  <2> SUFFICES ASSUME AuthoritiesVouch, NEW s \in Chains, NEW e \in Chains,
                      VerifyPair(s, e, Anchors, NoTime),
                      \/ Len(s) > 1
                      \/ \A a, b \in 1..Len(Anchors) :
                           Anchors[a].subject = s[1].issuer /\ Anchors[b].subject = s[1].issuer
                               => Anchors[a].key = Anchors[b].key
               PROVE  /\ s[1].signer = e[1].signer
                      /\ {<<s[1].subject, s[1].key>>, <<e[1].subject, e[1].key>>}
                            \subseteq Registered[s[1].signer]
    BY DEF PairHasOneIssuer
  <2>1. /\ VerifyChain(s, Anchors, NoTime) /\ VerifyChain(e, Anchors, NoTime)
        /\ s[1].issuer = e[1].issuer
        /\ Len(s) = Len(e) /\ \A i \in 2..Len(s) : Tbs(s[i]) = Tbs(e[i])
    BY DEF VerifyPair, SameIssuers
  <2>2. Len(s) \in Nat /\ 1 \in 1..Len(s) /\ 1 \in 1..Len(e)
    BY ChainsAreSequences, DepthAssumption
  <2>3. s[1].signer = e[1].signer
    <3>1. CASE Len(s) > 1
      <4>1. 1 \in 1..(Len(s) - 1) /\ 1 \in 1..(Len(e) - 1) /\ 2 \in 2..Len(s)
        BY <3>1, <2>1, <2>2
      <4>2. s[1].signer = s[1 + 1].key /\ e[1].signer = e[1 + 1].key
        BY <4>1, <2>1 DEF VerifyChain, VerifySignature
      <4>3. s[2].key = e[2].key
        BY <4>1, <2>1 DEF Tbs
      <4> QED
        BY <4>2, <4>3
    <3>2. CASE ~(Len(s) > 1)
      <4>1. Len(s) = 1 /\ Len(e) = 1
        BY <3>2, <2>1, <2>2
      <4>2. PICK a \in 1..Len(Anchors) : Anchors[a].subject = s[1].issuer /\ s[1].signer = Anchors[a].key
        BY <4>1, <2>1 DEF VerifyChain, Anchored, VerifySignature
      <4>3. PICK b \in 1..Len(Anchors) : Anchors[b].subject = e[1].issuer /\ e[1].signer = Anchors[b].key
        BY <4>1, <2>1 DEF VerifyChain, Anchored, VerifySignature
      <4> QED
        BY <4>2, <4>3, <3>2, <2>1
    <3> QED
      BY <3>1, <3>2
  <2>4. s[1].signer \in Authorities /\ e[1].signer \in Authorities
    BY <2>1, <2>2, SignedByAuthorities
  <2>5. Vouched(s[1]) /\ Vouched(e[1])
    BY <2>2, ChainsAreSequences DEF AuthoritiesVouch
  <2> QED
    BY <2>3, <2>4, <2>5 DEF Vouched
<1> QED
  BY <1>1, VouchInvariant, PTL
=============================================================================
