------------------------------ MODULE Sm2Curve ------------------------------
(***************************************************************************)
(* Points of y^2 = x^3 - 3x + CurveB over the integers modulo FieldP, as   *)
(* the code holds them: projective, with complete addition formulas, a     *)
(* windowed multiplication of any point and a comb for the generator.  The *)
(* program's 256-bit scalars and four-bit windows are Bits and Window.     *)
(***************************************************************************)
EXTENDS Integers, Sequences

CONSTANTS FieldP, CurveB, OrderN, Gx, Gy, Bits, Window

TwoTo[n \in 0..Bits] == IF n = 0 THEN 1 ELSE 2 * TwoTo[n - 1]

ASSUME CurveAssumption ==
    /\ \A c \in {FieldP, OrderN, Bits, Window} : c \in Nat \ {0}
    /\ CurveB \in 1..(FieldP - 1)
    /\ Bits % Window = 0 /\ Window > 1
    /\ OrderN < TwoTo[Bits] /\ TwoTo[Bits] < 2 * OrderN /\ OrderN % 2 = 1

Scalars == 0..(TwoTo[Bits] - 1)
NumWindows == Bits \div Window
WindowSize == TwoTo[Window]

Fp(a) == a % FieldP
Fn(a) == a % OrderN
FpInverse == [a \in 1..(FieldP - 1) |-> CHOOSE i \in 1..(FieldP - 1) : Fp(a * i) = 1]
FnInverse == [a \in 1..(OrderN - 1) |-> CHOOSE i \in 1..(OrderN - 1) : Fn(a * i) = 1]

Point(x, y, z) == [x |-> Fp(x), y |-> Fp(y), z |-> Fp(z)]
Identity == Point(0, 1, 0)
Generator == Point(Gx, Gy, 1)
IsIdentity(q) == q.z = 0
CtEq(q, r) == Fp(q.x * r.z) = Fp(r.x * q.z) /\ Fp(q.y * r.z) = Fp(r.y * q.z)

(* The affine coordinates, or none for the identity.                       *)
NoAffine == <<>>
ToAffine(q) == IF IsIdentity(q) THEN NoAffine
               ELSE <<Fp(q.x * FpInverse[q.z]), Fp(q.y * FpInverse[q.z])>>
FromAffine(x, y) == Point(x, y, 1)
OnCurve(x, y) == Fp(y * y) = Fp(x * x * x - 3 * x + CurveB)

Add(q, r) ==
    LET xx == Fp(q.x * r.x)
        yy == Fp(q.y * r.y)
        zz == Fp(q.z * r.z)
        xy == (q.x + q.y) * (r.x + r.y) - (xx + yy)
        yz == (q.y + q.z) * (r.y + r.z) - (yy + zz)
        xz == Fp((q.x + q.z) * (r.x + r.z) - (xx + zz))
        bzz3 == 3 * (xz - CurveB * zz)
        minus == Fp(yy - bzz3)
        plus == Fp(yy + bzz3)
        bxz3 == Fp(3 * (CurveB * xz - (3 * zz + xx)))
        xx3 == Fp(3 * xx - 3 * zz)
    IN  Point(plus * Fp(xy) - Fp(yz) * bxz3,
              plus * minus + xx3 * bxz3,
              minus * Fp(yz) + Fp(xy) * xx3)

Double(q) ==
    LET xx == Fp(q.x * q.x)
        yy == Fp(q.y * q.y)
        zz == Fp(q.z * q.z)
        xy2 == Fp(2 * q.x * q.y)
        xz2 == Fp(2 * q.x * q.z)
        yz2 == Fp(2 * q.y * q.z)
        bzz3 == 3 * (CurveB * zz - xz2)
        minus == Fp(yy - bzz3)
        plus == Fp(yy + bzz3)
        bxz6 == Fp(3 * (CurveB * xz2 - (3 * zz + xx)))
        xx3 == Fp(3 * xx - 3 * zz)
    IN  Point(minus * xy2 - bxz6 * yz2,
              plus * minus + xx3 * bxz6,
              4 * yz2 * yy)

(* q doubled i times.                                                      *)
Doublings(q) ==
    LET d[i \in 0..Window] == IF i = 0 THEN q ELSE Double(d[i - 1]) IN d

(* The first multiples of a point by running addition.                     *)
Multiples(q) ==
    LET t[j \in 0..(WindowSize - 1)] ==
            CASE j = 0 -> Identity [] j = 1 -> q [] OTHER -> Add(t[j - 1], q)
    IN  t

(* Window i of a scalar, the least significant first.                      *)
Nibble(k, i) == (k \div TwoTo[Window * i]) % WindowSize

(***************************************************************************)
(* mul_var.  The scalar is lifted into the range whose top bit is set, so  *)
(* that the accumulator starts at the point itself.                        *)
(***************************************************************************)
LiftOnce(k) == (k + OrderN) % TwoTo[Bits]
LiftScalar(k) ==
    LET once == LiftOnce(k)
        twice == LiftOnce(once)
    IN  IF k + OrderN >= TwoTo[Bits] THEN once ELSE twice

MulVarStart(q) == q
MulVarWindow(acc, table, nibble) == Add(Doublings(acc)[Window], table[nibble])
MulVar(k, q) ==
    LET lifted == LiftScalar(k)
        table == Multiples(q)
        acc[i \in 0..NumWindows] ==
            IF i = 0 THEN MulVarStart(q)
            ELSE MulVarWindow(acc[i - 1], table, Nibble(lifted, NumWindows - i))
    IN  acc[NumWindows]

(***************************************************************************)
(* mul_g.  Sub-table i of the comb holds the multiples of 2^(Window i) G.  *)
(***************************************************************************)
CombTable ==
    LET row[i \in 0..(NumWindows - 1)] ==
            IF i = 0 THEN Multiples(Generator)
            ELSE [j \in 0..(WindowSize - 1) |-> Doublings(row[i - 1][j])[Window]]
    IN  [i \in 0..(NumWindows - 1) |-> [j \in 0..(WindowSize - 1) |-> row[i][j]]]

MulGWindow(acc, k, i) == Add(acc, CombTable[i][Nibble(k, i)])
MulG(k) ==
    LET acc[i \in 0..NumWindows] ==
            IF i = 0 THEN Identity ELSE MulGWindow(acc[i - 1], k, i - 1)
    IN  acc[NumWindows]

(***************************************************************************)
(* The group by chord and tangent, the definition the code is held to.     *)
(***************************************************************************)
RefAdd(q, r) ==
    IF q = NoAffine THEN r
    ELSE IF r = NoAffine THEN q
    ELSE IF q[1] = r[1] /\ Fp(q[2] + r[2]) = 0 THEN NoAffine
    ELSE LET slope == IF q = r THEN Fp(Fp(3 * q[1] * q[1] - 3) * FpInverse[Fp(2 * q[2])])
                      ELSE Fp(Fp(r[2] - q[2]) * FpInverse[Fp(r[1] - q[1])])
             x == Fp(slope * slope - q[1] - r[1])
         IN  <<x, Fp(slope * (q[1] - x) - q[2])>>

(* The k-th multiple of every point, by repeated addition.                 *)
AffinePoints == {c \in (0..(FieldP - 1)) \X (0..(FieldP - 1)) : OnCurve(c[1], c[2])}
AllPoints == AffinePoints \cup {NoAffine}
RefMultiples ==
    [q \in AllPoints |->
        LET sum[k \in 0..OrderN] == IF k = 0 THEN NoAffine ELSE RefAdd(sum[k - 1], q)
        IN  [k \in 0..OrderN |-> sum[k]]]
RefMul(k, q) == RefMultiples[q][k % OrderN]
RefG == <<Gx, Gy>>

(* The projective triple with factor z of an affine point, or of none.     *)
Scaled(c, z) == IF c = NoAffine THEN Point(0, z, 0) ELSE Point(c[1] * z, c[2] * z, z)

(***************************************************************************)
(* What makes these constants a curve to compute on.  Non-zero residues    *)
(* have inverses (both moduli are prime).  Chord and tangent associate,    *)
(* the first OrderN multiples of the generator are all the points, one     *)
(* each, and the next is none.                                             *)
(***************************************************************************)
ASSUME GroupAssumption ==
    /\ \A a \in 1..(FieldP - 1) : \E i \in 1..(FieldP - 1) : Fp(a * i) = 1
    /\ \A a \in 1..(OrderN - 1) : \E i \in 1..(OrderN - 1) : Fn(a * i) = 1
    /\ RefG \in AffinePoints
    /\ \A a, b, c \in AllPoints : RefAdd(RefAdd(a, b), c) = RefAdd(a, RefAdd(b, c))
    /\ \A a \in AllPoints : \E k \in 0..(OrderN - 1) : a = RefMul(k, RefG)
    /\ \A j, k \in 0..(OrderN - 1) : RefMul(j, RefG) = RefMul(k, RefG) => j = k
    /\ RefMultiples[RefG][OrderN] = NoAffine
=============================================================================
