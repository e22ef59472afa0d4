----------------------------- MODULE DataLemmas -----------------------------
(***************************************************************************)
(* Facts about numbers and sequences that the proofs about streams share:  *)
(* division by a block size that is a parameter, and what concatenating,   *)
(* cutting and appending do to each element.  Products and quotients have  *)
(* names here, so that a proof sees them as opaque terms and what is left  *)
(* of its arithmetic is linear.                                            *)
(***************************************************************************)
EXTENDS Integers, SequencesExt, WellFoundedInduction, TLAPS

Mul(n, b) == n * b
Quo(a, b) == a \div b
Rem(a, b) == a % b

(* Multiples of b: additive, monotone, and b apart. *)
LEMMA MulFacts ==
    ASSUME NEW b \in Nat
    PROVE  /\ Mul(0, b) = 0 /\ Mul(1, b) = b
           /\ \A n \in Nat : Mul(n, b) \in Nat
           /\ \A n, m \in Nat : Mul(n + m, b) = Mul(n, b) + Mul(m, b)
           /\ \A n \in Nat : Mul(n + 1, b) = Mul(n, b) + b
           /\ \A n \in Nat \ {0} : Mul(n, b) = Mul(n - 1, b) + b
           /\ \A n, m \in Nat : n <= m => Mul(n, b) <= Mul(m, b)
           /\ \A n, m \in Nat : n < m => Mul(n, b) + b <= Mul(m, b)
<1>1. Mul(0, b) = 0 /\ Mul(1, b) = b
  BY DEF Mul
<1>2. ASSUME NEW n \in Nat PROVE Mul(n, b) \in Nat
  BY DEF Mul
<1>3. ASSUME NEW n \in Nat, NEW m \in Nat PROVE Mul(n + m, b) = Mul(n, b) + Mul(m, b)
  BY DEF Mul
<1>4. ASSUME NEW n \in Nat, NEW m \in Nat, n <= m PROVE Mul(n, b) <= Mul(m, b)
  <2>1. m - n \in Nat /\ m = n + (m - n)
    BY <1>4
  <2>2. Mul(n + (m - n), b) = Mul(n, b) + Mul(m - n, b) /\ Mul(m - n, b) \in Nat
    BY <2>1, <1>2, <1>3
  <2>. QED BY <2>1, <2>2, <1>2
<1>5. ASSUME NEW n \in Nat PROVE Mul(n + 1, b) = Mul(n, b) + b
  BY <1>1, <1>3
<1>6. ASSUME NEW n \in Nat \ {0} PROVE Mul(n, b) = Mul(n - 1, b) + b
  <2>1. n - 1 \in Nat /\ n = (n - 1) + 1
    OBVIOUS
  <2>. QED BY <2>1, <1>5
<1>7. ASSUME NEW n \in Nat, NEW m \in Nat, n < m PROVE Mul(n, b) + b <= Mul(m, b)
  <2>1. n + 1 <= m
    BY <1>7
  <2>. QED BY <2>1, <1>4, <1>5
<1>. QED BY <1>1, <1>2, <1>3, <1>4, <1>5, <1>6, <1>7

(* Division with remainder. *)
LEMMA DivMod ==
    ASSUME NEW b \in Nat \ {0}, NEW a \in Nat
    PROVE  /\ Quo(a, b) \in Nat /\ Rem(a, b) \in 0..(b - 1)
           /\ Mul(Quo(a, b), b) \in Nat
           /\ a = Mul(Quo(a, b), b) + Rem(a, b)
<1>1. a \div b \in Nat /\ a % b \in 0..(b - 1) /\ a = (a \div b) * b + (a % b)
  OBVIOUS
<1>. QED BY <1>1, MulFacts DEF Mul, Quo, Rem

(* Quotient and remainder are unique. *)
LEMMA QuotientUnique ==
    ASSUME NEW b \in Nat \ {0}, NEW q \in Nat, NEW p \in Nat,
           NEW r \in 0..(b - 1), NEW s \in 0..(b - 1),
           Mul(q, b) + r = Mul(p, b) + s
    PROVE  q = p /\ r = s
<1>1. /\ Mul(q, b) \in Nat /\ Mul(p, b) \in Nat
      /\ q < p => Mul(q, b) + b <= Mul(p, b)
      /\ p < q => Mul(p, b) + b <= Mul(q, b)
  BY MulFacts
<1>. QED BY <1>1

(* So a quotient and a remainder can be read off a sum. *)
LEMMA Euclid ==
    ASSUME NEW b \in Nat \ {0}, NEW q \in Nat, NEW r \in 0..(b - 1),
           NEW a, a = Mul(q, b) + r
    PROVE  a \in Nat /\ Quo(a, b) = q /\ Rem(a, b) = r
<1>1. Mul(q, b) \in Nat
  BY MulFacts
<1>2. a \in Nat
  BY <1>1
<1>3. /\ Quo(a, b) \in Nat /\ Rem(a, b) \in 0..(b - 1)
      /\ a = Mul(Quo(a, b), b) + Rem(a, b)
  BY <1>2, DivMod
<1>. QED BY <1>2, <1>3, QuotientUnique

(* Nothing is no block and no byte over. *)
LEMMA ZeroQuotient ==
    ASSUME NEW b \in Nat \ {0}
    PROVE  Quo(0, b) = 0 /\ Rem(0, b) = 0
<1>1. 0 = Mul(0, b) + 0 /\ 0 \in 0..(b - 1)
  BY MulFacts
<1>. QED BY <1>1, Euclid

(* Whole multiples in front shift the quotient and leave the remainder. *)
LEMMA QuotientShift ==
    ASSUME NEW b \in Nat \ {0}, NEW p \in Nat, NEW n \in Nat, NEW a, a = Mul(p, b) + n
    PROVE  a \in Nat /\ Quo(a, b) = p + Quo(n, b) /\ Rem(a, b) = Rem(n, b)
<1>1. PICK q \in Nat : q = Quo(n, b)
  BY DivMod
<1>2. PICK r \in 0..(b - 1) : r = Rem(n, b)
  BY DivMod
<1>3. n = Mul(q, b) + r /\ Mul(q, b) \in Nat /\ Mul(p, b) \in Nat
  BY <1>1, <1>2, DivMod, MulFacts
<1>4. Mul(p + q, b) = Mul(p, b) + Mul(q, b)
  BY MulFacts
<1>5. a = Mul(p + q, b) + r /\ p + q \in Nat
  BY <1>3, <1>4
<1>. QED BY <1>1, <1>2, <1>5, Euclid

(* Sequences of the same length with the same elements are the same. *)
LEMMA SameSeq ==
    ASSUME NEW S, NEW T, NEW s \in Seq(S), NEW t \in Seq(T),
           Len(s) = Len(t), \A i \in 1..Len(s) : s[i] = t[i]
    PROVE  s = t
  OBVIOUS

(* Append, element by element. *)
LEMMA AppendFacts ==
    ASSUME NEW S, NEW s \in Seq(S), NEW x \in S
    PROVE  /\ Append(s, x) \in Seq(S) /\ Len(Append(s, x)) = Len(s) + 1
           /\ \A n \in 1..Len(s) : Append(s, x)[n] = s[n]
           /\ Append(s, x)[Len(s) + 1] = x
  OBVIOUS

(* Concatenation, element by element. *)
LEMMA ConcatFacts ==
    ASSUME NEW S, NEW u \in Seq(S), NEW v \in Seq(S)
    PROVE  /\ u \o v \in Seq(S) /\ Len(u) \in Nat /\ Len(v) \in Nat
           /\ Len(u \o v) = Len(u) + Len(v)
           /\ \A i \in 1..(Len(u) + Len(v)) :
                (u \o v)[i] = IF i <= Len(u) THEN u[i] ELSE v[i - Len(u)]
  OBVIOUS

(* The same with the lengths named. *)
LEMMA ConcatAt ==
    ASSUME NEW S, NEW u \in Seq(S), NEW v \in Seq(S), NEW a, NEW b, Len(u) = a, Len(v) = b
    PROVE  /\ u \o v \in Seq(S) /\ a \in Nat /\ b \in Nat
           /\ Len(u \o v) = a + b
           /\ \A i \in 1..(a + b) : (u \o v)[i] = IF i <= a THEN u[i] ELSE v[i - a]
  OBVIOUS

(* Concatenation is associative. *)
LEMMA ConcatAssoc ==
    ASSUME NEW S, NEW u \in Seq(S), NEW v \in Seq(S), NEW w \in Seq(S)
    PROVE  (u \o v) \o w = u \o (v \o w)
<1>. DEFINE a == (u \o v) \o w  b == u \o (v \o w)  n == Len(u) + Len(v) + Len(w)
<1>1. a \in Seq(S) /\ Len(a) = n /\ b \in Seq(S) /\ Len(b) = n
  OBVIOUS
<1>2. ASSUME NEW i \in 1..n PROVE a[i] = b[i]
  OBVIOUS
<1>. HIDE DEF a, b, n
<1>3. a = b
  BY <1>1, <1>2
<1>. QED BY <1>3 DEF a, b

(* A sequence cut after its first n elements. *)
Upto(s, n) == SubSeq(s, 1, n)
Beyond(s, n) == SubSeq(s, n + 1, Len(s))

(* A cut gives back the sequence. *)
LEMMA CutFacts ==
    ASSUME NEW S, NEW s \in Seq(S), NEW n \in 0..Len(s)
    PROVE  /\ Upto(s, n) \in Seq(S) /\ Len(Upto(s, n)) = n
           /\ Beyond(s, n) \in Seq(S) /\ Len(Beyond(s, n)) = Len(s) - n
           /\ s = Upto(s, n) \o Beyond(s, n)
<1>. DEFINE u == Upto(s, n)  v == Beyond(s, n)
<1>1. Len(s) \in Nat /\ n \in Nat /\ n <= Len(s)
  OBVIOUS
<1>2. u \in Seq(S) /\ Len(u) = n /\ \A i \in 1..n : u[i] = s[i]
  BY <1>1 DEF Upto
<1>3. v \in Seq(S) /\ Len(v) = Len(s) - n
  BY <1>1 DEF Beyond
<1>4. ASSUME NEW i \in 1..(Len(s) - n) PROVE v[i] = s[n + i]
  BY <1>1 DEF Beyond
<1>. HIDE DEF u, v
<1>5. u \o v \in Seq(S) /\ Len(u \o v) = Len(s)
  BY <1>1, <1>2, <1>3
<1>6. ASSUME NEW i \in 1..Len(s) PROVE (u \o v)[i] = s[i]
  <2>1. (u \o v)[i] = IF i <= n THEN u[i] ELSE v[i - n]
    BY <1>1, <1>2, <1>3
  <2>2. CASE i <= n
    BY <1>1, <2>1, <2>2, <1>2
  <2>3. CASE ~(i <= n)
    <3>1. i - n \in 1..(Len(s) - n) /\ n + (i - n) = i
      BY <1>1, <2>3
    <3>. QED BY <2>1, <2>3, <3>1, <1>4
  <2>. QED BY <2>2, <2>3
<1>7. u \o v = s
  BY <1>5, <1>6, SameSeq
<1>. QED BY <1>2, <1>3, <1>7 DEF u, v

(* A remainder may be taken before or after an addition. *)
LEMMA RemAdd ==
    ASSUME NEW b \in Nat \ {0}, NEW x \in Nat, NEW y \in Nat
    PROVE  Rem(Rem(x, b) + y, b) = Rem(x + y, b)
<1>1. PICK q \in Nat : q = Quo(x, b)
  BY DivMod
<1>2. PICK r \in 0..(b - 1) : r = Rem(x, b)
  BY DivMod
<1>3. x = Mul(q, b) + r /\ Mul(q, b) \in Nat /\ r \in Nat
  BY <1>1, <1>2, DivMod
<1>4. PICK n \in Nat : n = r + y
  BY <1>3
<1>5. x + y = Mul(q, b) + n
  BY <1>3, <1>4
<1>6. Rem(x + y, b) = Rem(n, b)
  BY <1>5, QuotientShift
<1>. QED BY <1>2, <1>4, <1>6

(* Numbers less than b apart have different remainders. *)
LEMMA RemApart ==
    ASSUME NEW b \in Nat \ {0}, NEW x \in Nat, NEW y \in Nat,
           x <= y, y < x + b, Rem(x, b) = Rem(y, b)
    PROVE  x = y
<1>1. PICK q \in Nat, p \in Nat : q = Quo(x, b) /\ p = Quo(y, b)
  BY DivMod
<1>2. PICK r \in 0..(b - 1) : r = Rem(x, b)
  BY DivMod
<1>3. x = Mul(q, b) + r /\ y = Mul(p, b) + r /\ Mul(q, b) \in Nat /\ Mul(p, b) \in Nat
  BY <1>1, <1>2, DivMod
<1>4. q < p => Mul(q, b) + b <= Mul(p, b)
  BY MulFacts
<1>5. p < q => Mul(p, b) + b <= Mul(q, b)
  BY MulFacts
<1>. QED BY <1>3, <1>4, <1>5

(* A small number is its own remainder. *)
LEMMA RemSmall ==
    ASSUME NEW b \in Nat \ {0}, NEW x \in 0..(b - 1)
    PROVE  Quo(x, b) = 0 /\ Rem(x, b) = x
<1>1. x = Mul(0, b) + x
  BY MulFacts
<1>. QED BY <1>1, Euclid

(* Rounding up: enough blocks to cover x, and none to cover nothing. *)
LEMMA RoundUp ==
    ASSUME NEW b \in Nat \ {0}, NEW x \in Nat, NEW f, f = Quo(x + b - 1, b)
    PROVE  /\ f \in Nat /\ x <= Mul(f, b) /\ Mul(f, b) \in Nat
           /\ f = 0 <=> x = 0
<1>1. PICK n \in Nat : n = x + b - 1
  OBVIOUS
<1>2. PICK r \in 0..(b - 1) : r = Rem(n, b)
  BY DivMod
<1>3. f \in Nat /\ n = Mul(f, b) + r /\ Mul(f, b) \in Nat
  BY <1>1, <1>2, DivMod
<1>4. x <= Mul(f, b)
  BY <1>1, <1>3
<1>5. CASE x = 0
  <2>1. b - 1 \in 0..(b - 1) /\ n = b - 1
    BY <1>1, <1>5
  <2>2. f = 0
    BY <2>1, RemSmall, <1>1
  <2>. QED BY <1>3, <1>4, <1>5, <2>2
<1>6. CASE x # 0
  <2>1. f # 0
    BY <1>4, <1>6, MulFacts
  <2>. QED BY <1>3, <1>4, <1>6, <2>1
<1>. QED BY <1>5, <1>6

IsRun(f, n) == f = [j \in 1..n |-> f[j]]

(* A function on an initial segment of the positions is a sequence. *)
LEMMA FcnIsSeq ==
    ASSUME NEW n \in Nat, NEW f, IsRun(f, n), NEW T, \A j \in 1..n : f[j] \in T
    PROVE  f \in Seq(T) /\ Len(f) = n
<1>1. f \in [1..n -> T]
  BY DEF IsRun
<1>. QED BY <1>1

(* A sequence that starts as u and goes on as v is their concatenation. *)
LEMMA JoinIs ==
    ASSUME NEW a \in Nat, NEW b \in Nat, NEW u, NEW v, NEW w,
           IsRun(u, a), IsRun(v, b), IsRun(w, a + b),
           \A j \in 1..a : w[j] = u[j],
           \A j \in 1..b : w[a + j] = v[j]
    PROVE  w = u \o v
<1>. DEFINE T == {u[j] : j \in 1..a} \cup {v[j] : j \in 1..b}
<1>0. (\A j \in 1..a : u[j] \in T) /\ (\A j \in 1..b : v[j] \in T)
  OBVIOUS
<1>. HIDE DEF T
<1>1. u \in Seq(T) /\ Len(u) = a
  BY <1>0, FcnIsSeq
<1>2. v \in Seq(T) /\ Len(v) = b
  BY <1>0, FcnIsSeq
<1>3. u \o v \in Seq(T) /\ Len(u \o v) = a + b
  BY <1>1, <1>2
<1>4. ASSUME NEW i \in 1..(a + b) PROVE (u \o v)[i] = IF i <= a THEN u[i] ELSE v[i - a]
  BY <1>1, <1>2
<1>5. ASSUME NEW j \in 1..(a + b) PROVE w[j] = (u \o v)[j]
  <2>1. CASE j <= a
    <3>1. j \in 1..a
      BY <2>1
    <3>2. (u \o v)[j] = u[j]
      BY <1>4, <2>1
    <3>. QED BY <3>1, <3>2
  <2>2. CASE ~(j <= a)
    <3>1. PICK k \in 1..b : k = j - a /\ j = a + k
      BY <2>2
    <3>2. w[j] = v[k]
      BY <3>1
    <3>3. (u \o v)[j] = v[k]
      BY <1>4, <2>2, <3>1
    <3>. QED BY <3>2, <3>3
  <2>. QED BY <2>1, <2>2
<1>6. IsRun(u \o v, a + b)
  <2>1. \A s \in Seq(T) : \A n \in Nat : Len(s) = n => s = [j \in 1..n |-> s[j]]
    OBVIOUS
  <2>2. u \o v = [j \in 1..(a + b) |-> (u \o v)[j]]
    <3>1. PICK n \in Nat : n = a + b
      OBVIOUS
    <3>. QED BY <1>3, <2>1, <3>1
  <2>. QED BY <2>2 DEF IsRun
<1>. QED BY <1>5, <1>6 DEF IsRun

(* What Len and the elements of a sequence say of it as a run. *)
LEMMA SeqIsRun ==
    ASSUME NEW T, NEW s \in Seq(T), NEW n, Len(s) = n
    PROVE  IsRun(s, n) /\ n \in Nat
<1>1. Len(s) \in Nat /\ s = [j \in 1..Len(s) |-> s[j]]
  OBVIOUS
<1>. QED BY <1>1 DEF IsRun

(* Runs of one length with the same elements are the same. *)
LEMMA SameRun ==
    ASSUME NEW n \in Nat, NEW s, NEW t, IsRun(s, n), IsRun(t, n), \A j \in 1..n : s[j] = t[j]
    PROVE  s = t
  BY DEF IsRun

(* A sequence that is u and one element more. *)
LEMMA AppendIs ==
    ASSUME NEW n \in Nat, NEW u, NEW x, NEW w, IsRun(u, n), IsRun(w, n + 1),
           \A j \in 1..n : w[j] = u[j], w[n + 1] = x
    PROVE  w = Append(u, x)
<1>. DEFINE T == {u[j] : j \in 1..n} \cup {x}  z == Append(u, x)
<1>1. u \in Seq(T) /\ Len(u) = n /\ x \in T
  <2>1. (\A j \in 1..n : u[j] \in T) /\ x \in T
    OBVIOUS
  <2>. HIDE DEF T
  <2>. QED BY <2>1, FcnIsSeq
<1>. HIDE DEF T
<1>2. z \in Seq(T) /\ Len(z) = n + 1 /\ (\A j \in 1..n : z[j] = u[j]) /\ z[n + 1] = x
  BY <1>1, AppendFacts
<1>. HIDE DEF z
<1>3. IsRun(z, n + 1)
  BY <1>2, SeqIsRun
<1>4. \A j \in 1..(n + 1) : w[j] = z[j]
  BY <1>2
<1>5. w = z
  BY <1>3, <1>4 DEF IsRun
<1>. QED BY <1>5 DEF z

(* Appending to a concatenation appends to its second part. *)
LEMMA ConcatAppend ==
    ASSUME NEW S, NEW u \in Seq(S), NEW v \in Seq(S), NEW x \in S
    PROVE  Append(u \o v, x) = u \o Append(v, x)
<1>1. u \o v \in Seq(S) /\ Append(v, x) \in Seq(S) /\ <<x>> \in Seq(S)
  OBVIOUS
<1>. DEFINE a == Len(u)  b == Len(v)  l == Append(u \o v, x)  z == Append(v, x)
<1>2. a \in Nat /\ b \in Nat /\ Len(u \o v) = a + b /\ Len(z) = b + 1
  OBVIOUS
<1>3. /\ Len(l) = (a + b) + 1 /\ l[(a + b) + 1] = x
      /\ \A j \in 1..(a + b) : l[j] = (u \o v)[j]
  BY <1>1, <1>2
<1>4. \A j \in 1..(a + b) : (u \o v)[j] = IF j <= a THEN u[j] ELSE v[j - a]
  BY ConcatFacts
<1>5. z[b + 1] = x /\ \A j \in 1..b : z[j] = v[j]
  BY AppendFacts
<1>6. IsRun(u, a) /\ IsRun(z, b + 1) /\ IsRun(l, a + (b + 1))
  <2>1. l \in Seq(S) /\ Len(l) = a + (b + 1)
    BY <1>1, <1>2, <1>3
  <2>2. IsRun(u, a)
    BY SeqIsRun
  <2>3. IsRun(z, b + 1)
    <3>. HIDE DEF z
    <3>. QED BY <1>1, <1>2, SeqIsRun DEF z
  <2>4. IsRun(l, a + (b + 1))
    <3>. HIDE DEF l
    <3>. QED BY <2>1, SeqIsRun
  <2>. QED BY <2>2, <2>3, <2>4
<1>. HIDE DEF a, b, l, z
<1>7. \A j \in 1..a : l[j] = u[j]
  BY <1>2, <1>3, <1>4
<1>8. ASSUME NEW j \in 1..(b + 1) PROVE l[a + j] = z[j]
  <2>1. CASE j = b + 1
    BY <1>2, <1>3, <1>5, <2>1
  <2>2. CASE j # b + 1
    <3>1. PICK i \in 1..(a + b) : i = a + j /\ i - a = j /\ ~(i <= a)
      BY <1>2, <2>2
    <3>2. j \in 1..b
      BY <1>2, <2>2
    <3>. QED BY <1>3, <1>4, <1>5, <3>1, <3>2
  <2>. QED BY <2>1, <2>2
<1>9. l = u \o z
  <2>1. PICK c \in Nat : c = b + 1
    BY <1>2
  <2>. QED BY <1>2, <1>6, <1>7, <1>8, <2>1, JoinIs
<1>. QED BY <1>9 DEF l, z

(* Induction over the natural numbers, as closure of a set. *)
LEMMA NatClosure ==
    ASSUME NEW S, 0 \in S, \A n \in Nat : n \in S => n + 1 \in S
    PROVE  Nat \subseteq S
<1>. DEFINE R == {ss \in Nat \X Nat : ss[1] < ss[2]}
<1>1. IsWellFoundedOn(R, Nat)
  BY NatLessThanWellFounded DEF OpToRel
<1>. DEFINE T == Nat \ S
<1>. SUFFICES ASSUME T # {} PROVE FALSE
  OBVIOUS
<1>2. T \subseteq Nat
  OBVIOUS
<1>3. \E x \in T : \A y \in T : ~ (<<y, x>> \in R)
  <2>. HIDE DEF R, T
  <2>. QED BY <1>1, <1>2, WFMin
<1>4. PICK x \in T : \A y \in T : ~ (<<y, x>> \in R)
  BY <1>3
<1>5. x \in Nat \ {0} /\ x - 1 \in Nat /\ (x - 1) + 1 = x
  BY <1>4
<1>6. x - 1 \in T
  BY <1>5, <1>4
<1>7. <<x - 1, x>> \in R
  BY <1>5
<1>. QED BY <1>4, <1>6, <1>7

(* An element appended is a sequence of one put behind. *)
LEMMA AppendByConcat ==
    ASSUME NEW S, NEW s \in Seq(S), NEW x \in S
    PROVE  Append(s, x) = s \o <<x>>
<1>1. PICK n \in Nat : n = Len(s) /\ IsRun(s, n)
  BY SeqIsRun
<1>2. PICK one \in Seq(S) : one = <<x>> /\ Len(one) = 1 /\ one[1] = x
  <2>1. <<x>> \in Seq(S) /\ Len(<<x>>) = 1 /\ <<x>>[1] = x
    OBVIOUS
  <2>. QED BY <2>1
<1>3. PICK w \in Seq(S) : w = s \o one /\ Len(w) = n + 1
                         /\ (\A j \in 1..n : w[j] = s[j]) /\ w[n + 1] = x
  <2>1. s \o one \in Seq(S) /\ Len(s \o one) = n + 1
        /\ \A j \in 1..(n + 1) : (s \o one)[j] = IF j <= n THEN s[j] ELSE one[j - n]
    BY <1>1, <1>2, ConcatAt
  <2>2. (s \o one)[n + 1] = x
    <3>1. n + 1 \in 1..(n + 1) /\ ~(n + 1 <= n) /\ (n + 1) - n = 1
      OBVIOUS
    <3>. QED BY <2>1, <3>1, <1>2
  <2>3. \A j \in 1..n : (s \o one)[j] = s[j]
    <3>1. \A j \in 1..n : j \in 1..(n + 1) /\ j <= n
      OBVIOUS
    <3>. QED BY <2>1, <3>1
  <2>. QED BY <2>1, <2>2, <2>3
<1>4. IsRun(w, n + 1)
  BY <1>3, SeqIsRun
<1>5. w = Append(s, x)
  BY <1>1, <1>3, <1>4, AppendIs
<1>. QED BY <1>2, <1>3, <1>5

(* Sequences that join to the same, cut at the same place, are the same. *)
LEMMA ConcatInjective ==
    ASSUME NEW Z, NEW a \in Seq(Z), NEW b \in Seq(Z), NEW c \in Seq(Z), NEW d \in Seq(Z),
           Len(a) = Len(c), a \o b = c \o d
    PROVE  a = c /\ b = d
<1>1. PICK n \in Nat : n = Len(a) /\ n = Len(c)
  OBVIOUS
<1>2. PICK l \in Nat, m \in Nat : l = Len(b) /\ m = Len(d)
  OBVIOUS
<1>3. PICK w : w = a \o b /\ w = c \o d
  OBVIOUS
<1>4. Len(w) = n + l /\ \A i \in 1..(n + l) : w[i] = IF i <= n THEN a[i] ELSE b[i - n]
  <2>1. Len(a \o b) = n + l /\ \A i \in 1..(n + l) : (a \o b)[i] = IF i <= n THEN a[i] ELSE b[i - n]
    BY <1>1, <1>2, ConcatAt
  <2>. QED BY <1>3, <2>1
<1>5. Len(w) = n + m /\ \A i \in 1..(n + m) : w[i] = IF i <= n THEN c[i] ELSE d[i - n]
  <2>1. Len(c \o d) = n + m /\ \A i \in 1..(n + m) : (c \o d)[i] = IF i <= n THEN c[i] ELSE d[i - n]
    BY <1>1, <1>2, ConcatAt
  <2>. QED BY <1>3, <2>1
<1>6. l = m
  BY <1>4, <1>5
<1>7. ASSUME NEW i \in 1..n PROVE a[i] = c[i]
  <2>1. i \in 1..(n + l) /\ i <= n
    OBVIOUS
  <2>. QED BY <2>1, <1>4, <1>5, <1>6
<1>8. ASSUME NEW i \in 1..l PROVE b[i] = d[i]
  <2>1. PICK k \in 1..(n + l) : k = n + i /\ ~(k <= n) /\ k - n = i
    OBVIOUS
  <2>. QED BY <2>1, <1>4, <1>5, <1>6
<1>. QED BY <1>1, <1>2, <1>6, <1>7, <1>8, SameSeq

(* r is u with v behind it, as a term of its own: several concatenations   *)
(* at once are more than the provers can rearrange.                        *)
IsJoin(r, u, v) == r = u \o v

(* A sequence parts in one way, once the first part's length is fixed. *)
LEMMA JoinInjective ==
    ASSUME NEW Z, NEW a \in Seq(Z), NEW b \in Seq(Z), NEW c \in Seq(Z), NEW d \in Seq(Z),
           Len(a) = Len(c), NEW r, IsJoin(r, a, b), IsJoin(r, c, d)
    PROVE  a = c /\ b = d
  BY ConcatInjective DEF IsJoin

(* The first of three parts may be taken off first. *)
LEMMA Regroup ==
    ASSUME NEW Z, NEW e \in Seq(Z), NEW a \in Seq(Z), NEW p \in Seq(Z),
           NEW s, NEW r, IsJoin(s, e, a), IsJoin(r, s, p)
    PROVE  \E v \in Seq(Z) : IsJoin(v, a, p) /\ IsJoin(r, e, v)
<1>1. r = e \o (a \o p)
  BY ConcatAssoc DEF IsJoin
<1>2. a \o p \in Seq(Z)
  OBVIOUS
<1>. QED BY <1>1, <1>2 DEF IsJoin

(* r is three sequences over Z, one behind the other. *)
IsParts(r, e, a, p, Z) == e \in Seq(Z) /\ a \in Seq(Z) /\ p \in Seq(Z) /\ r = (e \o a) \o p

(* They are fixed by the lengths of the first and the last. *)
LEMMA PartsInjective ==
    ASSUME NEW Z, NEW e, NEW a, NEW p, NEW f, NEW b, NEW q, NEW r,
           IsParts(r, e, a, p, Z), IsParts(r, f, b, q, Z), Len(e) = Len(f)
    PROVE  e = f /\ (Len(p) = Len(q) => a = b /\ p = q)
<1>0. e \in Seq(Z) /\ a \in Seq(Z) /\ p \in Seq(Z) /\ f \in Seq(Z) /\ b \in Seq(Z) /\ q \in Seq(Z)
  BY DEF IsParts
<1>1. PICK v \in Seq(Z) : IsJoin(v, a, p) /\ IsJoin(r, e, v)
  <2>1. PICK s : IsJoin(s, e, a) /\ IsJoin(r, s, p)
    BY DEF IsParts, IsJoin
  <2>. QED BY <1>0, <2>1, Regroup
<1>2. PICK w \in Seq(Z) : IsJoin(w, b, q) /\ IsJoin(r, f, w)
  <2>1. PICK t : IsJoin(t, f, b) /\ IsJoin(r, t, q)
    BY DEF IsParts, IsJoin
  <2>. QED BY <1>0, <2>1, Regroup
<1>3. e = f /\ v = w
  BY <1>0, <1>1, <1>2, JoinInjective
<1>4. ASSUME Len(p) = Len(q) PROVE a = b /\ p = q
  <2>1. Len(v) = Len(a) + Len(p) /\ Len(a) \in Nat /\ Len(p) \in Nat
    BY <1>0, <1>1 DEF IsJoin
  <2>2. Len(w) = Len(b) + Len(q) /\ Len(b) \in Nat /\ Len(q) \in Nat
    BY <1>0, <1>2 DEF IsJoin
  <2>3. Len(a) = Len(b)
    BY <1>3, <1>4, <2>1, <2>2
  <2>. QED BY <1>0, <1>1, <1>2, <1>3, <2>3, JoinInjective
<1>. QED BY <1>3, <1>4

(* The greatest of 1..(n + 1) and some of the numbers before it. *)
LEMMA MaxIs ==
    ASSUME NEW n \in Nat, NEW s \in SUBSET (1..(n + 1)), n + 1 \in s
    PROVE  Max(s) = n + 1
<1>1. \A y \in s : n + 1 >= y /\ y \in Int
  OBVIOUS
<1>2. \A x \in s : (\A y \in s : x >= y) => x = n + 1
  BY <1>1
<1>. QED BY <1>1, <1>2 DEF Max

(* g[i] joins the first i of the sequences ss. *)
IsFlat(g, ss, n) == g = [i \in 1..n |-> IF i = 1 THEN ss[i] ELSE g[i - 1] \o ss[i]]

(* FlattenSeq joins its sequences one after the other. *)
LEMMA FlattenBySeq ==
    ASSUME NEW n \in Nat \ {0}, NEW ss, Len(ss) = n, NEW G, IsFlat(G, ss, n)
    PROVE  FlattenSeq(ss) = G[n]
<1>0. G = [i \in 1..n |-> IF i = 1 THEN ss[i] ELSE G[i - 1] \o ss[i]]
  BY DEF IsFlat
<1>. DEFINE Join(f) == f = [i \in 1..n |-> IF i = 1 THEN ss[i] ELSE f[i - 1] \o ss[i]]
            fl == CHOOSE f : Join(f)
<1>1. FlattenSeq(ss) = fl[n]
  BY DEF FlattenSeq
<1>2. Join(fl)
  <2>1. Join(G)
    BY <1>0
  <2>. HIDE DEF Join
  <2>. QED BY <2>1
<1>. HIDE DEF fl
<1>. DEFINE S == {k \in Nat : k + 1 <= n => fl[k + 1] = G[k + 1]}
<1>3. 0 \in S
  BY <1>0, <1>2
<1>4. ASSUME NEW k \in Nat, k \in S PROVE k + 1 \in S
  <2>. SUFFICES ASSUME (k + 1) + 1 <= n PROVE fl[(k + 1) + 1] = G[(k + 1) + 1]
    OBVIOUS
  <2>. DEFINE i == (k + 1) + 1
  <2>1. i \in 1..n /\ i # 1 /\ i - 1 = k + 1 /\ k + 1 <= n
    OBVIOUS
  <2>2. fl[k + 1] = G[k + 1]
    BY <1>4, <2>1
  <2>. HIDE DEF i, S
  <2>3. fl[i] = fl[i - 1] \o ss[i]
    BY <1>2, <2>1
  <2>4. G[i] = G[i - 1] \o ss[i]
    BY <1>0, <2>1
  <2>. QED BY <2>1, <2>2, <2>3, <2>4 DEF i
<1>5. Nat \subseteq S
  <2>. HIDE DEF S
  <2>. QED BY <1>3, <1>4, NatClosure
<1>6. PICK k \in Nat : k + 1 = n
  <2>1. n - 1 \in Nat /\ (n - 1) + 1 = n
    OBVIOUS
  <2>. QED BY <2>1
<1>7. k \in S
  BY <1>5
<1>8. fl[k + 1] = G[k + 1]
  BY <1>6, <1>7
<1>. QED BY <1>1, <1>6, <1>8

(* One element more of a prefix. *)
LEMMA UptoNext ==
    ASSUME NEW S, NEW s \in Seq(S), NEW k \in 1..Len(s)
    PROVE  Upto(s, k) = Append(Upto(s, k - 1), s[k])
<1>. DEFINE u == Upto(s, k - 1)  w == Upto(s, k)
<1>1. PICK l \in Nat : l = k - 1 /\ k = l + 1 /\ l \in 0..Len(s)
  OBVIOUS
<1>2. u \in Seq(S) /\ Len(u) = l /\ w \in Seq(S) /\ Len(w) = l + 1
  <2>1. Upto(s, l) \in Seq(S) /\ Len(Upto(s, l)) = l
    BY <1>1, CutFacts
  <2>2. k \in 0..Len(s)
    OBVIOUS
  <2>3. Upto(s, k) \in Seq(S) /\ Len(Upto(s, k)) = k
    BY <2>2, CutFacts
  <2>. QED BY <1>1, <2>1, <2>3
<1>3. (\A j \in 1..l : w[j] = u[j]) /\ w[l + 1] = s[k]
  BY <1>1 DEF Upto
<1>. HIDE DEF u, w
<1>4. IsRun(u, l) /\ IsRun(w, l + 1)
  BY <1>2, SeqIsRun, <1>1
<1>5. PICK x : x = s[k]
  OBVIOUS
<1>6. w = Append(u, x)
  BY <1>1, <1>3, <1>4, <1>5, AppendIs
<1>. QED BY <1>5, <1>6 DEF u, w

(* All of a prefix, and none. *)
LEMMA UptoEnds ==
    ASSUME NEW S, NEW s \in Seq(S)
    PROVE  Upto(s, 0) = <<>> /\ Upto(s, Len(s)) = s
<1>1. PICK n \in Nat : n = Len(s) /\ 0 \in 0..Len(s) /\ n \in 0..Len(s)
  OBVIOUS
<1>2. Upto(s, 0) \in Seq(S) /\ Len(Upto(s, 0)) = 0
  BY <1>1, CutFacts
<1>3. Upto(s, n) \in Seq(S) /\ Len(Upto(s, n)) = n
  BY <1>1, CutFacts
<1>4. \A i \in 1..n : Upto(s, n)[i] = s[i]
  BY <1>1 DEF Upto
<1>. QED BY <1>1, <1>2, <1>3, <1>4, SameSeq

(* A stretch of a sequence, element by element. *)
LEMMA SubSeqIs ==
    ASSUME NEW S, NEW s \in Seq(S), NEW a \in Nat, NEW c \in Nat,
           NEW x, NEW y, x = a + 1, y = a + c, y <= Len(s),
           NEW u, IsRun(u, c), \A l \in 1..c : u[l] = s[a + l]
    PROVE  SubSeq(s, x, y) = u /\ u \in Seq(S) /\ Len(u) = c
<1>. DEFINE w == SubSeq(s, x, y)
<1>1. w \in Seq(S) /\ Len(w) = c
  OBVIOUS
<1>2. ASSUME NEW l \in 1..c PROVE w[l] = s[a + l]
  OBVIOUS
<1>. HIDE DEF w
<1>3. IsRun(w, c)
  BY <1>1, SeqIsRun
<1>4. w = u
  BY <1>2, <1>3, SameRun
<1>. QED BY <1>1, <1>4 DEF w

(* u is what s has from place x to place y, which are c places behind a. *)
Copies(u, s, a, c, x, y) ==
    /\ x = a + 1 /\ y = a + c /\ y <= Len(s)
    /\ IsRun(u, c) /\ \A l \in 1..c : u[l] = s[a + l]

(* The same, as one fact. *)
LEMMA CopiesIs ==
    ASSUME NEW S, NEW s \in Seq(S), NEW a \in Nat, NEW c \in Nat,
           NEW x, NEW y, NEW u, Copies(u, s, a, c, x, y)
    PROVE  SubSeq(s, x, y) = u /\ u \in Seq(S) /\ Len(u) = c
  BY SubSeqIs DEF Copies

(* A prefix of a sequence, element by element. *)
LEMMA PrefixIs ==
    ASSUME NEW S, NEW s \in Seq(S), NEW c \in Nat, c <= Len(s),
           NEW u, IsRun(u, c), \A l \in 1..c : s[l] = u[l]
    PROVE  SubSeq(s, 1, c) = u
<1>. DEFINE w == SubSeq(s, 1, c)
<1>1. w \in Seq(S) /\ Len(w) = c /\ \A l \in 1..c : w[l] = s[l]
  OBVIOUS
<1>. HIDE DEF w
<1>2. IsRun(w, c)
  BY <1>1, SeqIsRun
<1>3. w = u
  BY <1>1, <1>2, SameRun
<1>. QED BY <1>3 DEF w

(* What a concatenation has at a place in its first and in its second part. *)
LEMMA ConcatParts ==
    ASSUME NEW S, NEW u \in Seq(S), NEW v \in Seq(S),
           NEW a \in Nat, NEW b \in Nat, Len(u) = a, Len(v) = b, NEW w, IsJoin(w, u, v)
    PROVE  /\ w \in Seq(S) /\ Len(w) = a + b
           /\ \A i \in 1..a : w[i] = u[i]
           /\ \A i \in 1..b : w[a + i] = v[i]
<1>1. /\ w \in Seq(S) /\ Len(w) = a + b
      /\ \A i \in 1..(a + b) : w[i] = IF i <= a THEN u[i] ELSE v[i - a]
  <2>1. /\ u \o v \in Seq(S) /\ Len(u \o v) = a + b
        /\ \A i \in 1..(a + b) : (u \o v)[i] = IF i <= a THEN u[i] ELSE v[i - a]
    BY ConcatFacts
  <2>. QED BY <2>1 DEF IsJoin
<1>2. ASSUME NEW i \in 1..a PROVE w[i] = u[i]
  <2>1. i \in 1..(a + b) /\ i <= a
    BY <1>1
  <2>. QED BY <1>1, <2>1
<1>3. ASSUME NEW i \in 1..b PROVE w[a + i] = v[i]
  <2>1. PICK j \in 1..(a + b) : j = a + i /\ ~(j <= a) /\ j - a = i
    BY <1>1
  <2>. QED BY <1>1, <2>1
<1>. QED BY <1>1, <1>2, <1>3

(* t is s and x behind it, as a term of its own, and what that gives. *)
IsAppend(t, s, x) == t = Append(s, x)

(* The elements of a sequence with one more behind. *)
LEMMA AppendAt ==
    ASSUME NEW S, NEW s \in Seq(S), NEW x \in S, NEW n \in Nat, n = Len(s),
           NEW t, IsAppend(t, s, x)
    PROVE  /\ t \in Seq(S) /\ Len(t) = n + 1 /\ t[n + 1] = x
           /\ \A k \in 1..n : t[k] = s[k]
  BY AppendFacts DEF IsAppend

(* The last of a sequence with one element more, and what is before it. *)
LEMMA LastFront ==
    ASSUME NEW S, NEW s \in Seq(S), NEW x \in S
    PROVE  Last(Append(s, x)) = x /\ Front(Append(s, x)) = s
<1>1. PICK n \in Nat : n = Len(s)
  OBVIOUS
<1>2. PICK t : t = Append(s, x) /\ IsAppend(t, s, x)
  BY DEF IsAppend
<1>3. t \in Seq(S) /\ Len(t) = n + 1 /\ t[n + 1] = x /\ \A k \in 1..n : t[k] = s[k]
  BY <1>1, <1>2, AppendAt
<1>4. Last(t) = x
  BY <1>3 DEF Last
<1>5. Front(t) = s
  <2>1. IsRun(s, n) /\ n <= Len(t)
    BY <1>1, <1>3, SeqIsRun
  <2>2. SubSeq(t, 1, n) = s
    BY <1>3, <2>1, PrefixIs
  <2>3. Len(t) - 1 = n
    BY <1>3
  <2>. QED BY <2>2, <2>3 DEF Front
<1>. QED BY <1>2, <1>4, <1>5

(* A sequence that is not empty has a last element. *)
LEMMA SplitLast ==
    ASSUME NEW S, NEW s \in Seq(S), NEW n \in Nat \ {0}, Len(s) = n
    PROVE  /\ SubSeq(s, 1, n - 1) \in Seq(S) /\ s[n] \in S
           /\ s = Append(SubSeq(s, 1, n - 1), s[n])
<1>1. PICK x \in S : x = s[n]
  <2>1. n \in 1..Len(s)
    OBVIOUS
  <2>. QED BY <2>1
<1>2. n \in 1..Len(s) /\ n - 1 \in 0..Len(s)
  OBVIOUS
<1>3. Upto(s, n) = Append(Upto(s, n - 1), s[n]) /\ Upto(s, n) = s
  BY <1>2, UptoNext, UptoEnds
<1>4. Upto(s, n - 1) \in Seq(S)
  BY <1>2, CutFacts
<1>. QED BY <1>1, <1>3, <1>4 DEF Upto

(* Joining is associative. *)
LEMMA JoinAssoc ==
    ASSUME NEW S, NEW a \in Seq(S), NEW b \in Seq(S), NEW c \in Seq(S),
           NEW ab, IsJoin(ab, a, b), NEW bc, IsJoin(bc, b, c), NEW r, IsJoin(r, ab, c)
    PROVE  IsJoin(r, a, bc)
  BY ConcatAssoc DEF IsJoin

(* An element behind a join goes with its second part. *)
LEMMA JoinAppends ==
    ASSUME NEW S, NEW a \in Seq(S), NEW b \in Seq(S), NEW x \in S,
           NEW ab, IsJoin(ab, a, b), NEW bx, IsAppend(bx, b, x), NEW r, IsAppend(r, ab, x)
    PROVE  IsJoin(r, a, bx)
<1>1. PICK n \in Nat, m \in Nat : n = Len(a) /\ m = Len(b)
  OBVIOUS
<1>2. PICK k \in Nat : k = n + m
  OBVIOUS
<1>3. /\ ab \in Seq(S) /\ Len(ab) = n + m
      /\ (\A i \in 1..n : ab[i] = a[i]) /\ (\A i \in 1..m : ab[n + i] = b[i])
  <2>1. PICK u \in Seq(S), v \in Seq(S) : u = a /\ v = b /\ Len(u) = n /\ Len(v) = m /\ IsJoin(ab, u, v)
    BY <1>1
  <2>2. /\ ab \in Seq(S) /\ Len(ab) = n + m
        /\ (\A i \in 1..n : ab[i] = u[i]) /\ (\A i \in 1..m : ab[n + i] = v[i])
    BY <2>1, ConcatParts
  <2>. QED BY <2>1, <2>2
<1>4. bx \in Seq(S) /\ Len(bx) = m + 1 /\ bx[m + 1] = x /\ \A i \in 1..m : bx[i] = b[i]
  BY <1>1, AppendAt
<1>5. r \in Seq(S) /\ Len(r) = k + 1 /\ r[k + 1] = x /\ \A i \in 1..k : r[i] = ab[i]
  <2>1. k = Len(ab)
    BY <1>2, <1>3
  <2>2. r = Append(ab, x) /\ ab \in Seq(S) /\ Len(ab) \in Nat
    BY <1>3 DEF IsAppend
  <2>3. r \in Seq(S) /\ Len(r) = Len(ab) + 1
    BY <2>2
  <2>4. r[Len(ab) + 1] = x
    BY <2>2
  <2>5. ASSUME NEW i \in 1..Len(ab) PROVE r[i] = ab[i]
    BY <2>2
  <2>. QED BY <2>1, <2>3, <2>4, <2>5
<1>6. ASSUME NEW i \in 1..n PROVE r[i] = a[i]
  <2>1. i \in 1..k
    BY <1>2
  <2>. QED BY <1>3, <1>5, <2>1
<1>7. ASSUME NEW i \in 1..(m + 1) PROVE r[n + i] = bx[i]
  <2>1. CASE i = m + 1
    <3>1. n + i = k + 1
      BY <1>2, <2>1
    <3>. QED BY <1>4, <1>5, <2>1, <3>1
  <2>2. CASE i # m + 1
    <3>1. i \in 1..m
      BY <2>2
    <3>2. PICK j \in 1..k : j = n + i
      BY <1>2, <3>1
    <3>. QED BY <1>3, <1>4, <1>5, <3>1, <3>2
  <2>. QED BY <2>1, <2>2
<1>8. PICK l \in Nat : l = m + 1
  OBVIOUS
<1>9. IsRun(a, n) /\ IsRun(bx, l) /\ IsRun(r, n + l)
  <2>1. IsRun(a, n)
    BY <1>1, SeqIsRun
  <2>2. IsRun(bx, l)
    BY <1>4, <1>8, SeqIsRun
  <2>3. Len(r) = n + l
    BY <1>2, <1>5, <1>8
  <2>4. IsRun(r, n + l)
    BY <1>5, <2>3, SeqIsRun
  <2>. QED BY <2>1, <2>2, <2>4
<1>10. r = a \o bx
  BY <1>6, <1>7, <1>8, <1>9, JoinIs
<1>. QED BY <1>10 DEF IsJoin

(* The stretch of s from x to y: c elements behind the first a.              *)
IsStretch(s, a, c, x, y) == a \in Nat /\ c \in Nat /\ x = a + 1 /\ y = a + c /\ y <= Len(s)

(* A longer prefix is a prefix and the stretch behind it. *)
LEMMA UptoFurther ==
    ASSUME NEW S, NEW s \in Seq(S), NEW a, NEW c, NEW x, NEW y, IsStretch(s, a, c, x, y)
    PROVE  /\ Upto(s, a) \in Seq(S) /\ IsJoin(Upto(s, y), Upto(s, a), SubSeq(s, x, y))
           /\ SubSeq(s, x, y) \in Seq(S) /\ Len(SubSeq(s, x, y)) = c
<1>0. a \in Nat /\ c \in Nat /\ x = a + 1 /\ y = a + c /\ y <= Len(s)
  BY DEF IsStretch
<1>4. PICK v \in Seq(S) : v = SubSeq(s, x, y) /\ Len(v) = c /\ \A i \in 1..c : v[i] = s[a + i]
  <2>1. PICK v : v = [i \in 1..c |-> s[a + i]]
    OBVIOUS
  <2>2. IsRun(v, c) /\ \A i \in 1..c : v[i] = s[a + i]
    BY <2>1 DEF IsRun
  <2>3. SubSeq(s, x, y) = v /\ v \in Seq(S) /\ Len(v) = c
    BY <1>0, <2>2, SubSeqIs
  <2>. QED BY <2>2, <2>3
<1>1. a \in 0..Len(s) /\ y \in 0..Len(s)
  BY <1>0
<1>2. PICK u \in Seq(S) : u = Upto(s, a) /\ Len(u) = a
  BY <1>1, CutFacts
<1>3. PICK w \in Seq(S) : w = Upto(s, y) /\ Len(w) = y
  BY <1>1, CutFacts
<1>5. ASSUME NEW i \in 1..a PROVE w[i] = u[i]
  <2>1. i \in 1..y
    BY <1>0
  <2>. QED BY <1>0, <1>1, <1>2, <1>3, <2>1 DEF Upto
<1>6. ASSUME NEW i \in 1..c PROVE w[a + i] = v[i]
  <2>1. a + i \in 1..y
    BY <1>0
  <2>. QED BY <1>0, <1>1, <1>3, <1>4, <2>1 DEF Upto
<1>7. IsRun(u, a) /\ IsRun(v, c) /\ IsRun(w, a + c)
  <2>1. IsRun(u, a)
    BY <1>2, SeqIsRun
  <2>2. IsRun(v, c)
    BY <1>4, SeqIsRun
  <2>3. IsRun(w, a + c)
    BY <1>0, <1>3, SeqIsRun
  <2>. QED BY <2>1, <2>2, <2>3
<1>8. w = u \o v
  BY <1>0, <1>5, <1>6, <1>7, JoinIs
<1>. QED BY <1>2, <1>3, <1>4, <1>8 DEF IsJoin

(* f starts at b and goes on by s.                                         *)
Stepwise(f, b, s, n) == f = [i \in 0..n |-> IF i = 0 THEN b ELSE s[<<i, f[i - 1]>>]]

(* A recursive function of a natural number exists when its step is total. *)
LEMMA Recursion ==
    ASSUME NEW T, NEW b \in T, NEW s \in [Nat \X T -> T], NEW n \in Nat
    PROVE  \E f \in [0..n -> T] : Stepwise(f, b, s, n)
<1>. DEFINE Is(f, m) == f = [i \in 0..m |-> IF i = 0 THEN b ELSE s[<<i, f[i - 1]>>]]
            S == {m \in Nat : \E f \in [0..m -> T] : Is(f, m)}
<1>1. 0 \in S
  <2>. DEFINE g == [i \in 0..0 |-> b]
  <2>1. g \in [0..0 -> T] /\ Is(g, 0)
    OBVIOUS
  <2>. QED BY <2>1
<1>2. ASSUME NEW m \in Nat, m \in S PROVE m + 1 \in S
  <2>1. PICK f \in [0..m -> T] : Is(f, m)
    BY <1>2
  <2>. DEFINE g == [i \in 0..(m + 1) |-> IF i = m + 1 THEN s[<<i, f[i - 1]>>] ELSE f[i]]
  <2>2. \A i \in 0..m : i \in 0..(m + 1) /\ g[i] = f[i]
    OBVIOUS
  <2>3. ASSUME NEW i \in 0..(m + 1)
        PROVE  g[i] = (IF i = 0 THEN b ELSE s[<<i, g[i - 1]>>]) /\ g[i] \in T
    <3>1. i # 0 => i - 1 \in 0..m /\ g[i - 1] = f[i - 1]
      BY <2>2
    <3>2. CASE i = m + 1
      <4>1. g[i] = s[<<i, f[i - 1]>>] /\ i # 0 /\ f[i - 1] \in T
        BY <3>2
      <4>. HIDE DEF g
      <4>. QED BY <3>1, <4>1
    <3>3. CASE i # m + 1
      <4>1. i \in 0..m
        BY <3>3
      <4>2. g[i] = f[i] /\ f[i] = (IF i = 0 THEN b ELSE s[<<i, f[i - 1]>>]) /\ f[i] \in T
        BY <4>1, <2>1, <2>2
      <4>. HIDE DEF g
      <4>. QED BY <3>1, <4>2
    <3>. QED BY <3>2, <3>3
  <2>4. g = [i \in 0..(m + 1) |-> IF i = 0 THEN b ELSE s[<<i, g[i - 1]>>]]
    <3>1. DOMAIN g = 0..(m + 1) /\ g = [i \in 0..(m + 1) |-> g[i]]
      OBVIOUS
    <3>. HIDE DEF g
    <3>. QED BY <3>1, <2>3
  <2>5. Is(g, m + 1) /\ g \in [0..(m + 1) -> T]
    <3>1. g = [i \in 0..(m + 1) |-> g[i]]
      OBVIOUS
    <3>. HIDE DEF g
    <3>. QED BY <3>1, <2>3, <2>4
  <2>. HIDE DEF g, Is
  <2>. QED BY <2>5
<1>. HIDE DEF S
<1>3. Nat \subseteq S
  BY <1>1, <1>2, NatClosure
<1>. QED BY <1>3 DEF S, Stepwise
=============================================================================
