------------------------- MODULE AeadStreamsProofs -------------------------
(***************************************************************************)
(* Proofs about AeadStreams, for every block size, counter width, ceiling, *)
(* keystream and set of texts: a stream fed in chunks is the single-shot   *)
(* function, no keystream is used twice, and a decryptor gives out what    *)
(* was sealed and nothing else.                                            *)
(*                                                                         *)
(* The i-th byte of a stream is masked by the keystream byte Pos(m, i),    *)
(* whatever chunk it came in; an accumulator that has absorbed s behind    *)
(* the blocks y is Folded(y, s).  The update calls keep both.  What a tag  *)
(* runs over is injective in what was sealed (GhashInjective,              *)
(* CcmInjective), so a tag that matches opens nothing else.                *)
(***************************************************************************)
EXTENDS AeadStreams, DataLemmas

(* What the fold over a set of positions is, one position at a time. *)
FoldStep(f, s, a, data) ==
    IF s = {} THEN a ELSE AbsorbByte(f[s \ {Max(s)}], data[Max(s)])

IsFold(f, n, a, data) == f = [s \in SUBSET (1..n) |-> FoldStep(f, s, a, data)]

(* The recursive function behind FoldLeft exists. *)
LEMMA FoldExists ==
    ASSUME NEW a, NEW data, NEW n \in Nat
    PROVE  \E f : IsFold(f, n, a, data)
<1>. DEFINE P(m) == \E f : f = [s \in SUBSET (1..m) |-> FoldStep(f, s, a, data)]
            S == {m \in Nat : P(m)}
<1>1. P(0)
  <2>. DEFINE f == [s \in SUBSET (1..0) |-> a]
  <2>1. SUBSET (1..0) = {{}}
    OBVIOUS
  <2>2. \A s \in SUBSET (1..0) : FoldStep(f, s, a, data) = a
    BY <2>1 DEF FoldStep
  <2>3. f = [s \in SUBSET (1..0) |-> FoldStep(f, s, a, data)]
    BY <2>2
  <2>. HIDE DEF f
  <2>. QED BY <2>3
<1>2. ASSUME NEW m \in Nat, P(m) PROVE P(m + 1)
  <2>1. PICK f : f = [s \in SUBSET (1..m) |-> FoldStep(f, s, a, data)]
    BY <1>2
  <2>. DEFINE g == [s \in SUBSET (1..(m + 1)) |->
                      IF m + 1 \in s THEN AbsorbByte(f[s \ {m + 1}], data[m + 1]) ELSE f[s]]
  <2>2. ASSUME NEW s \in SUBSET (1..m) PROVE s \in SUBSET (1..(m + 1)) /\ g[s] = f[s]
    OBVIOUS
  <2>3. ASSUME NEW s \in SUBSET (1..(m + 1)) PROVE g[s] = FoldStep(g, s, a, data)
    <3>1. CASE m + 1 \in s
      <4>1. Max(s) = m + 1 /\ s # {}
        BY <3>1, MaxIs
      <4>2. s \ {m + 1} \in SUBSET (1..m)
        OBVIOUS
      <4>3. g[s \ {m + 1}] = f[s \ {m + 1}]
        BY <4>2, <2>2
      <4>. QED BY <3>1, <4>1, <4>3 DEF FoldStep
    <3>2. CASE m + 1 \notin s
      <4>1. s \in SUBSET (1..m)
        BY <3>2
      <4>2. s \ {Max(s)} \in SUBSET (1..m)
        BY <4>1
      <4>3. g[s] = f[s] /\ g[s \ {Max(s)}] = f[s \ {Max(s)}]
        BY <4>1, <4>2, <2>2
      <4>4. f[s] = FoldStep(f, s, a, data)
        BY <4>1, <2>1
      <4>. HIDE DEF g
      <4>. QED BY <4>3, <4>4 DEF FoldStep
    <3>. QED BY <3>1, <3>2
  <2>4. g = [s \in SUBSET (1..(m + 1)) |-> FoldStep(g, s, a, data)]
    <3>1. g = [s \in SUBSET (1..(m + 1)) |-> g[s]]
      OBVIOUS
    <3>. HIDE DEF g
    <3>. QED BY <3>1, <2>3
  <2>. HIDE DEF g
  <2>. QED BY <2>4
<1>. HIDE DEF P
<1>3. 0 \in S /\ \A m \in Nat : m \in S => m + 1 \in S
  BY <1>1, <1>2
<1>4. Nat \subseteq S
  <2>. HIDE DEF S
  <2>. QED BY <1>3, NatClosure
<1>. QED BY <1>4 DEF P, IsFold

(* AbsorbAll is AbsorbByte on each byte in turn. *)
LEMMA FoldByByte ==
    ASSUME NEW a, NEW T, NEW data \in Seq(T), NEW G, G[0] = a,
           \A k \in 1..Len(data) : G[k] = AbsorbByte(G[k - 1], data[k])
    PROVE  AbsorbAll(a, data) = G[Len(data)]
<1>. DEFINE D == 1..Len(data)
            it == CHOOSE f : f = [s \in SUBSET D |-> FoldStep(f, s, a, data)]
<1>1. AbsorbAll(a, data) = it[D]
  <2>1. DOMAIN data = D
    OBVIOUS
  <2>2. AbsorbAll(a, data)
          = (CHOOSE f : f = [s \in SUBSET (DOMAIN data) |->
               IF s = {} THEN a ELSE AbsorbByte(f[s \ {Max(s)}], data[Max(s)])])[DOMAIN data]
    BY DEF AbsorbAll, FoldLeft, MapThenFoldSet
  <2>. QED BY <2>1, <2>2 DEF FoldStep
<1>2. it = [s \in SUBSET D |-> FoldStep(it, s, a, data)]
  <2>1. PICK n \in Nat : n = Len(data)
    OBVIOUS
  <2>2. \E f : IsFold(f, n, a, data)
    BY FoldExists
  <2>. QED BY <2>1, <2>2 DEF IsFold
<1>. HIDE DEF it
<1>3. it[1..0] = G[0]
  BY <1>2 DEF FoldStep
<1>4. ASSUME NEW k \in Nat, k < Len(data), it[1..k] = G[k] PROVE it[1..(k + 1)] = G[k + 1]
  <2>1. 1..(k + 1) \in SUBSET D /\ k + 1 \in 1..(k + 1) /\ k + 1 \in 1..Len(data)
    BY <1>4
  <2>2. Max(1..(k + 1)) = k + 1 /\ (1..(k + 1)) \ {k + 1} = 1..k
    BY <2>1, MaxIs
  <2>3. it[1..(k + 1)] = AbsorbByte(it[1..k], data[k + 1])
    <3>1. it[1..(k + 1)] = FoldStep(it, 1..(k + 1), a, data)
      BY <1>2, <2>1
    <3>2. 1..(k + 1) # {}
      BY <2>1
    <3>. QED BY <3>1, <3>2, <2>2 DEF FoldStep
  <2>4. G[k + 1] = AbsorbByte(G[k], data[k + 1])
    BY <2>1
  <2>. QED BY <1>4, <2>3, <2>4
<1>. DEFINE S == {k \in Nat : k <= Len(data) => it[1..k] = G[k]}
<1>5. 0 \in S /\ \A k \in Nat : k \in S => k + 1 \in S
  BY <1>3, <1>4
<1>6. Nat \subseteq S
  <2>. HIDE DEF S
  <2>. QED BY <1>5, NatClosure
<1>7. Len(data) \in Nat
  OBVIOUS
<1>. QED BY <1>1, <1>6, <1>7

-----------------------------------------------------------------------------
(* The modes of operation. *)
Modes == {"gcm", "ccm", "ctr"}

(* The sizes, in the form the proofs use. *)
LEMMA Sizes ==
    /\ BS \in Nat \ {0} /\ BS \in Nat
    /\ \A m \in Modes : Modulus[m] \in Nat \ {0} /\ First[m] \in 0..(Modulus[m] - 1)
<1>1. BS \in Nat \ {0} /\ W \in Nat \ {0, 1} /\ QW \in Nat \ {0, 1} /\ J0 \in 0..(W - 1)
  BY AeadAssumption
<1>2. PICK n \in Nat : n = J0 + 1
  BY <1>1
<1>3. Rem(n, W) \in 0..(W - 1)
  BY <1>1, DivMod
<1>4. (J0 + 1) % W \in 0..(W - 1)
  BY <1>2, <1>3 DEF Rem
<1>5. Modulus = [gcm |-> W, ccm |-> QW, ctr |-> W]
      /\ First = [gcm |-> (J0 + 1) % W, ccm |-> 1, ctr |-> J0]
  BY DEF Modulus, First
<1>. QED BY <1>1, <1>4, <1>5 DEF Modes

(* The keystream byte of the i-th byte of a stream: counter and lane. *)
Counter(m, q) == Rem(First[m] + q, Modulus[m])
Pos(m, i) == <<Counter(m, Quo(i - 1, BS)), Rem(i - 1, BS) + 1>>
PosFrom(m, n, len) == [j \in 1..len |-> Pos(m, n + j)]

(* Counters start at First and are taken modulo the width. *)
LEMMA CounterFacts ==
    ASSUME NEW m \in Modes, NEW q \in Nat
    PROVE  /\ Counter(m, q) \in 0..(Modulus[m] - 1) /\ Counter(m, q) \in Nat
           /\ \A k \in Nat : (Counter(m, q) + k) % Modulus[m] = Counter(m, q + k)
<1>1. PICK M \in Nat \ {0} : M = Modulus[m]
  BY Sizes
<1>2. PICK x \in Nat : x = First[m] + q
  BY Sizes
<1>3. Counter(m, q) = Rem(x, M) /\ Rem(x, M) \in 0..(M - 1)
  BY <1>1, <1>2, DivMod DEF Counter
<1>4. ASSUME NEW k \in Nat PROVE (Counter(m, q) + k) % Modulus[m] = Counter(m, q + k)
  <2>1. Rem(Rem(x, M) + k, M) = Rem(x + k, M)
    BY RemAdd
  <2>2. x + k = First[m] + (q + k)
    BY <1>2, Sizes
  <2>. QED BY <1>1, <1>3, <2>1, <2>2 DEF Counter, Rem
<1>. QED BY <1>1, <1>3, <1>4

(* A run of whole blocks, from counter c on. *)
RunFrom(m, B, len) ==
    [j \in 1..len |-> <<Counter(m, B + Quo(j - 1, BS)), Rem(j - 1, BS) + 1>>]
Blocks(m, c, n) == [k \in 1..n |-> KsBlock((c + k - 1) % Modulus[m])]

(* Keystream blocks, flattened, are lanes in the order of their positions. *)
LEMMA BlockRun ==
    ASSUME NEW m \in Modes, NEW B \in Nat, NEW n \in Nat
    PROVE  FlattenSeq(Blocks(m, Counter(m, B), n)) = RunFrom(m, B, Mul(n, BS))
<1>. DEFINE c == Counter(m, B)
<1>1. CASE n = 0
  <2>1. Blocks(m, c, 0) = <<>> /\ Len(<<>>) = 0
    BY DEF Blocks
  <2>2. FlattenSeq(Blocks(m, c, 0)) = <<>>
    BY <2>1 DEF FlattenSeq
  <2>3. RunFrom(m, B, 0) = <<>>
    BY DEF RunFrom
  <2>. QED BY <1>1, <2>2, <2>3, MulFacts, Sizes
<1>2. CASE n # 0
  <2>. DEFINE G == [i \in 1..n |-> RunFrom(m, B, Mul(i, BS))]
              ss == Blocks(m, c, n)
  <2>1. n \in Nat \ {0} /\ Len(ss) = n
    BY <1>2 DEF Blocks
  <2>2. ASSUME NEW i \in 1..n PROVE ss[i] = [l \in 1..BS |-> <<Counter(m, B + (i - 1)), l>>]
    <3>1. PICK k \in Nat : k = i - 1
      OBVIOUS
    <3>2. (c + k) % Modulus[m] = Counter(m, B + k)
      BY CounterFacts
    <3>3. c \in Nat /\ c + i - 1 = c + k
      BY <3>1, CounterFacts
    <3>. QED BY <3>1, <3>2, <3>3 DEF Blocks, KsBlock
  <2>3. ASSUME NEW i \in 1..n PROVE RunFrom(m, B, Mul(i, BS)) =
                  IF i = 1 THEN ss[i] ELSE RunFrom(m, B, Mul(i - 1, BS)) \o ss[i]
    <3>1. PICK k \in Nat : k = i - 1 /\ i = k + 1
      OBVIOUS
    <3>2. PICK a \in Nat : a = Mul(k, BS)
      BY MulFacts, Sizes
    <3>3. Mul(i, BS) = a + BS
      <4>1. BS \in Nat
        BY Sizes
      <4>2. Mul(k + 1, BS) = Mul(k, BS) + BS
        BY <4>1, MulFacts
      <4>. QED BY <3>1, <3>2, <4>2
    <3>4. ASSUME NEW j \in 1..BS
          PROVE  RunFrom(m, B, a + BS)[a + j] = <<Counter(m, B + k), j>>
      <4>1. PICK l \in 0..(BS - 1) : l = j - 1
        BY Sizes
      <4>2. PICK x \in Nat : x = a + l
        BY <3>2
      <4>3. Quo(x, BS) = k /\ Rem(x, BS) = l
        BY <4>2, <3>2, Euclid, Sizes
      <4>4. (a + j) - 1 = x /\ a + j \in 1..(a + BS) /\ l + 1 = j
        BY <4>1, <4>2, <3>2, Sizes
      <4>. QED BY <4>3, <4>4 DEF RunFrom
    <3>7. ss[i] = [l \in 1..BS |-> <<Counter(m, B + k), l>>]
      BY <2>2, <3>1
    <3>5. CASE i = 1
      <4>1. a = 0 /\ k = 0
        BY <3>1, <3>2, <3>5, MulFacts, Sizes
      <4>2. RunFrom(m, B, BS) = [l \in 1..BS |-> RunFrom(m, B, BS)[l]]
        BY DEF RunFrom
      <4>3. \A j \in 1..BS : RunFrom(m, B, BS)[j] = <<Counter(m, B + k), j>>
        BY <3>4, <4>1, Sizes
      <4>4. Mul(i, BS) = BS
        BY <3>3, <4>1, Sizes
      <4>5. RunFrom(m, B, BS) = [l \in 1..BS |-> <<Counter(m, B + k), l>>]
        BY <4>2, <4>3
      <4>. QED BY <3>5, <3>7, <4>4, <4>5
    <3>6. CASE i # 1
      <4>. DEFINE u == RunFrom(m, B, a)  v == ss[i]  w == RunFrom(m, B, a + BS)
      <4>1. IsRun(u, a) /\ IsRun(w, a + BS)
        BY DEF RunFrom, IsRun
      <4>2. IsRun(v, BS) /\ \A j \in 1..BS : v[j] = <<Counter(m, B + k), j>>
        BY <3>7 DEF IsRun
      <4>3. \A j \in 1..a : w[j] = u[j]
        BY <3>2, Sizes DEF RunFrom
      <4>4. \A j \in 1..BS : w[a + j] = v[j]
        BY <3>4, <4>2
      <4>. HIDE DEF u, v, w
      <4>5. w = u \o v
        BY <4>1, <4>2, <4>3, <4>4, Sizes, JoinIs
      <4>. QED BY <4>5, <3>1, <3>2, <3>3, <3>6 DEF u, v, w
    <3>. QED BY <3>5, <3>6
  <2>4. G = [i \in 1..n |-> IF i = 1 THEN ss[i] ELSE G[i - 1] \o ss[i]]
    <3>1. ASSUME NEW i \in 1..n PROVE G[i] = IF i = 1 THEN ss[i] ELSE G[i - 1] \o ss[i]
      <4>1. CASE i = 1
        BY <4>1, <2>3
      <4>2. CASE i # 1
        <5>1. i - 1 \in 1..n
          BY <4>2
        <5>2. G[i - 1] = RunFrom(m, B, Mul(i - 1, BS))
          BY <5>1
        <5>. QED BY <4>2, <5>2, <2>3
      <4>. QED BY <4>1, <4>2
    <3>. QED BY <3>1
  <2>5. G[n] = RunFrom(m, B, Mul(n, BS))
    BY <2>1
  <2>6. IsFlat(G, ss, n)
    BY <2>4 DEF IsFlat
  <2>. HIDE DEF G, ss
  <2>7. FlattenSeq(ss) = G[n]
    BY <2>1, <2>6, FlattenBySeq
  <2>. QED BY <2>5, <2>7 DEF ss
<1>. QED BY <1>1, <1>2

(* What is left over of a block continues the run of positions: e has been *)
(* asked for n bytes so far.                                               *)
Continues(m, e, n) ==
    \E B \in Nat : /\ e.ctr = Counter(m, B)
                   /\ n <= Mul(B, BS)
                   /\ e.left = PosFrom(m, n, Mul(B, BS) - n)

(* PosFrom is a sequence of positions. *)
LEMMA PosFromFacts ==
    ASSUME NEW m, NEW n \in Nat, NEW len \in Nat
    PROVE  /\ IsRun(PosFrom(m, n, len), len)
           /\ Len(PosFrom(m, n, len)) = len
           /\ \A j \in 1..len : PosFrom(m, n, len)[j] = Pos(m, n + j)
<1>1. IsRun(PosFrom(m, n, len), len) /\ \A j \in 1..len : PosFrom(m, n, len)[j] = Pos(m, n + j)
  BY DEF IsRun, PosFrom
<1>2. Len(PosFrom(m, n, len)) = len
  BY DEF PosFrom
<1>. QED BY <1>1, <1>2

(* s, cut after c of its len elements, is u and v. *)
IsCut(s, c, len, u, v) == SubSeq(s, 1, c) = u /\ SubSeq(s, c + 1, len) = v

(* A run of positions, cut after c of them. *)
LEMMA PosFromCut ==
    ASSUME NEW m, NEW n \in Nat, NEW len \in Nat, NEW c \in 0..len,
           NEW s, s = PosFrom(m, n, len), NEW d \in Nat, c + d = len
    PROVE  IsCut(s, c, len, PosFrom(m, n, c), PosFrom(m, n + c, d))
<1>1. s = [j \in 1..len |-> s[j]] /\ \A j \in 1..len : s[j] = Pos(m, n + j)
  BY DEF PosFrom
<1>. DEFINE T == {s[j] : j \in 1..len}
<1>2. s \in Seq(T) /\ Len(s) = len
  BY <1>1
<1>. HIDE DEF T
<1>3. SubSeq(s, 1, c) = [j \in 1..c |-> s[j]]
  BY <1>2
<1>4. SubSeq(s, c + 1, len) = [j \in 1..d |-> s[c + j]]
  BY <1>2
<1>5. ASSUME NEW j \in 1..d PROVE s[c + j] = Pos(m, (n + c) + j)
  <2>1. c + j \in 1..len /\ n + (c + j) = (n + c) + j
    OBVIOUS
  <2>. QED BY <1>1, <2>1
<1>6. SubSeq(s, 1, c) = PosFrom(m, n, c)
  BY <1>1, <1>3 DEF PosFrom
<1>7. SubSeq(s, c + 1, len) = PosFrom(m, n + c, d)
  BY <1>4, <1>5 DEF PosFrom
<1>. QED BY <1>6, <1>7 DEF IsCut

(* Draw hands out the next c positions, in order, whatever was left over   *)
(* before it, and keeps what it generated beyond them.                     *)
LEMMA DrawContinues ==
    ASSUME NEW m \in Modes, NEW e, NEW n \in Nat, NEW c \in Nat, Continues(m, e, n)
    PROVE  /\ Draw(m, e, c).take = PosFrom(m, n, c)
           /\ Continues(m, Draw(m, e, c), n + c)
<1>1. PICK B \in Nat : /\ e.ctr = Counter(m, B) /\ n <= Mul(B, BS)
                       /\ e.left = PosFrom(m, n, Mul(B, BS) - n)
  BY DEF Continues
<1>2. PICK M \in Nat : M = Mul(B, BS)
  BY MulFacts, Sizes
<1>3. PICK l \in Nat : l = M - n /\ M = n + l
  BY <1>1, <1>2
<1>4. e.left = PosFrom(m, n, l) /\ Len(e.left) = l
  BY <1>1, <1>2, <1>3, PosFromFacts
<1>5. PICK d \in Nat : d = (IF l < c THEN l ELSE c) /\ d <= c /\ d <= l
  OBVIOUS
<1>6. PICK x \in Nat : x = c - d
  <2>1. c - d \in Nat
    BY <1>5
  <2>. QED BY <2>1
<1>7. PICK f \in Nat : f = Quo(x + BS - 1, BS) /\ x <= Mul(f, BS)
  <2>1. DEFINE f == Quo(x + BS - 1, BS)
  <2>2. f \in Nat /\ x <= Mul(f, BS)
    BY RoundUp, Sizes
  <2>. HIDE DEF f
  <2>. QED BY <2>2 DEF f
<1>8. PICK F \in Nat : F = Mul(f, BS) /\ x <= F
  BY <1>7, MulFacts, Sizes
<1>9. PICK C \in Nat : C = B + f /\ Mul(C, BS) = M + F
  BY <1>2, <1>8, MulFacts, Sizes
<1>10. c <= l + F
  BY <1>5, <1>6, <1>8
<1>. DEFINE flat == FlattenSeq(Blocks(m, e.ctr, f))
            all == e.left \o flat
<1>11. all = PosFrom(m, n, l + F)
  <2>. DEFINE w == PosFrom(m, n, l + F)
  <2>1. flat = RunFrom(m, B, F)
    BY <1>1, <1>8, BlockRun
  <2>2. IsRun(flat, F)
    BY <2>1 DEF IsRun, RunFrom
  <2>3. IsRun(e.left, l) /\ \A j \in 1..l : e.left[j] = Pos(m, n + j)
    BY <1>4, PosFromFacts
  <2>4. IsRun(w, l + F) /\ \A j \in 1..(l + F) : w[j] = Pos(m, n + j)
    <3>1. PICK len \in Nat : len = l + F
      OBVIOUS
    <3>. QED BY <3>1, PosFromFacts
  <2>5. ASSUME NEW j \in 1..F PROVE w[l + j] = flat[j]
    <3>1. PICK y \in Nat : y = j - 1
      OBVIOUS
    <3>2. PICK q \in Nat, r \in Nat : q = Quo(y, BS) /\ r = Rem(y, BS)
      BY DivMod, Sizes
    <3>3. PICK z \in Nat : z = M + y
      OBVIOUS
    <3>4. Quo(z, BS) = B + q /\ Rem(z, BS) = r
      BY <3>2, <3>3, <1>2, QuotientShift, Sizes
    <3>5. l + j \in 1..(l + F) /\ (n + (l + j)) - 1 = z
      BY <3>1, <3>3, <1>3
    <3>6. w[l + j] = <<Counter(m, B + q), r + 1>>
      BY <2>4, <3>4, <3>5 DEF Pos
    <3>7. flat[j] = <<Counter(m, B + q), r + 1>>
      BY <2>1, <3>1, <3>2 DEF RunFrom
    <3>. QED BY <3>6, <3>7
  <2>6. \A j \in 1..l : w[j] = e.left[j]
    BY <2>3, <2>4
  <2>. HIDE DEF w, flat
  <2>7. w = e.left \o flat
    BY <2>2, <2>3, <2>4, <2>5, <2>6, JoinIs
  <2>. QED BY <2>7 DEF w
<1>12. Len(all) = l + F
  <2>1. PICK len \in Nat : len = l + F
    OBVIOUS
  <2>. QED BY <1>11, <2>1, PosFromFacts
<1>13. /\ Draw(m, e, c).take = SubSeq(all, 1, c)
       /\ Draw(m, e, c).left = SubSeq(all, c + 1, Len(all))
       /\ Draw(m, e, c).ctr = (e.ctr + f) % Modulus[m]
  <2>1. (c - (IF l < c THEN l ELSE c) + BS - 1) \div BS = f
    BY <1>5, <1>6, <1>7 DEF Quo
  <2>. QED BY <1>4, <2>1 DEF Draw, Blocks
<1>. HIDE DEF all
<1>14. /\ SubSeq(all, 1, c) = PosFrom(m, n, c)
       /\ SubSeq(all, c + 1, Len(all)) = PosFrom(m, n + c, (l + F) - c)
  <2>1. PICK len \in Nat : len = l + F
    OBVIOUS
  <2>2. c \in 0..len
    BY <1>10, <2>1
  <2>3. PICK g \in Nat : g = len - c /\ c + g = len
    BY <2>2
  <2>4. PICK z : z = all /\ z = PosFrom(m, n, len) /\ Len(all) = len
    BY <1>11, <1>12, <2>1
  <2>5. IsCut(z, c, len, PosFrom(m, n, c), PosFrom(m, n + c, g))
    BY <2>2, <2>3, <2>4, PosFromCut
  <2>. QED BY <2>1, <2>3, <2>4, <2>5 DEF IsCut
<1>15. (e.ctr + f) % Modulus[m] = Counter(m, C)
  BY <1>1, <1>9, CounterFacts
<1>16. n + c <= Mul(C, BS) /\ (l + F) - c = Mul(C, BS) - (n + c)
  BY <1>3, <1>9, <1>10
<1>. QED BY <1>13, <1>14, <1>15, <1>16 DEF Continues

-----------------------------------------------------------------------------
(* The size of a block, alone. *)
LEMMA BlockSize == BS \in Nat \ {0} /\ BS \in Nat
  BY Sizes

(* The whole blocks of s, without SubSeq, and the bytes over. *)
QuoB(s) == Quo(Len(s), BS)
RemB(s) == Rem(Len(s), BS)
Blk(s, n) == [k \in 1..BS |-> s[Mul(n - 1, BS) + k]]
Over(s) == [k \in 1..RemB(s) |-> s[Mul(QuoB(s), BS) + k]]

(* A sequence is its whole blocks and less than a block more. *)
LEMMA LenFacts ==
    ASSUME NEW S, NEW s \in Seq(S)
    PROVE  /\ Len(s) \in Nat /\ QuoB(s) \in Nat /\ RemB(s) \in 0..(BS - 1)
           /\ Mul(QuoB(s), BS) \in Nat
           /\ Len(s) = Mul(QuoB(s), BS) + RemB(s)
<1>1. Len(s) \in Nat
  OBVIOUS
<1>. QED BY <1>1, DivMod, BlockSize DEF QuoB, RemB

(* Every whole block lies within the sequence. *)
LEMMA BlockRange ==
    ASSUME NEW S, NEW s \in Seq(S), NEW n \in 1..QuoB(s)
    PROVE  /\ n \in Nat /\ n - 1 \in Nat
           /\ Mul(n - 1, BS) \in Nat /\ Mul(n, BS) = Mul(n - 1, BS) + BS
           /\ Mul(n - 1, BS) + BS <= Len(s)
<1>1. n \in Nat \ {0} /\ n - 1 \in Nat /\ n <= QuoB(s) /\ QuoB(s) \in Nat
  BY LenFacts
<1>2. Mul(n, BS) = Mul(n - 1, BS) + BS /\ Mul(n, BS) \in Nat /\ Mul(n - 1, BS) \in Nat
      /\ Mul(n, BS) <= Mul(QuoB(s), BS)
  BY <1>1, MulFacts, BlockSize
<1>3. Mul(QuoB(s), BS) <= Len(s)
  BY LenFacts, BlockSize
<1>. QED BY <1>1, <1>2, <1>3, LenFacts

(* Whole, without SubSeq. *)
LEMMA WholeFacts ==
    ASSUME NEW S, NEW s \in Seq(S)
    PROVE  /\ Whole(s) = [n \in 1..QuoB(s) |-> Blk(s, n)]
           /\ IsRun(Whole(s), QuoB(s))
           /\ Whole(s) \in Seq(Seq(S)) /\ Len(Whole(s)) = QuoB(s)
<1>1. ASSUME NEW n \in 1..QuoB(s)
      PROVE  /\ SubSeq(s, (n - 1) * BS + 1, n * BS) = Blk(s, n)
             /\ Blk(s, n) \in Seq(S)
  <2>. DEFINE a == Mul(n - 1, BS)  b == Mul(n, BS)
  <2>1. a \in Nat /\ b \in Nat /\ b = a + BS /\ b <= Len(s) /\ Len(s) \in Nat
    BY BlockRange, LenFacts, BlockSize
  <2>2. (n - 1) * BS = a /\ n * BS = b
    BY DEF Mul
  <2>. HIDE DEF a, b
  <2>3. SubSeq(s, a + 1, b) = [k \in 1..BS |-> s[a + k]]
    <3>. DEFINE w == SubSeq(s, a + 1, b)  f == [k \in 1..BS |-> s[a + k]]
    <3>1. w \in Seq(S) /\ Len(w) = BS /\ \A k \in 1..BS : w[k] = s[a + k]
      BY <2>1, BlockSize
    <3>2. f \in Seq(S) /\ Len(f) = BS /\ \A k \in 1..BS : f[k] = s[a + k]
      BY <2>1, BlockSize
    <3>. HIDE DEF w, f
    <3>3. w = f
      BY <3>1, <3>2, SameSeq
    <3>. QED BY <3>3 DEF w, f
  <2>4. [k \in 1..BS |-> s[a + k]] \in Seq(S)
    BY <2>1, BlockSize
  <2>. QED BY <2>1, <2>2, <2>3, <2>4 DEF Blk, a
<1>2. Whole(s) = [n \in 1..QuoB(s) |-> Blk(s, n)]
  BY <1>1 DEF Whole, QuoB, Quo
<1>3. QuoB(s) \in Nat
  BY LenFacts
<1>4. IsRun(Whole(s), QuoB(s))
  BY <1>2 DEF IsRun
<1>. QED BY <1>1, <1>2, <1>3, <1>4

(* What is over is less than a block. *)
LEMMA OverFacts ==
    ASSUME NEW S, NEW s \in Seq(S)
    PROVE  /\ Over(s) \in Seq(S) /\ Len(Over(s)) = RemB(s) /\ IsRun(Over(s), RemB(s))
           /\ \A k \in 1..RemB(s) : Over(s)[k] = s[Mul(QuoB(s), BS) + k]
<1>. DEFINE a == Mul(QuoB(s), BS)
<1>1. a \in Nat /\ RemB(s) \in Nat /\ Len(s) = a + RemB(s)
  BY LenFacts, BlockSize
<1>2. Over(s) = [k \in 1..RemB(s) |-> s[a + k]]
  BY DEF Over
<1>. HIDE DEF a
<1>3. Over(s) \in Seq(S)
  BY <1>1, <1>2
<1>4. Len(Over(s)) = RemB(s)
  BY <1>1, <1>2
<1>5. IsRun(Over(s), RemB(s))
  BY <1>2 DEF IsRun
<1>. QED BY <1>2, <1>3, <1>4, <1>5 DEF a

(* An accumulator that has folded y and absorbed the bytes s after that. *)
Folded(y, s) == [y |-> y \o Whole(s), block |-> Over(s)]

(* One byte more: it stays over, or completes a block. *)
LEMMA OneMore ==
    ASSUME NEW S, NEW s \in Seq(S), NEW b \in S
    PROVE  /\ RemB(s) + 1 # BS => /\ Whole(Append(s, b)) = Whole(s)
                                  /\ Over(Append(s, b)) = Append(Over(s), b)
           /\ RemB(s) + 1 = BS => /\ Whole(Append(s, b)) = Append(Whole(s), Append(Over(s), b))
                                  /\ Over(Append(s, b)) = <<>>
<1>. DEFINE t == Append(s, b)
<1>1. t \in Seq(S) /\ Len(t) = Len(s) + 1 /\ (\A j \in 1..Len(s) : t[j] = s[j]) /\ t[Len(s) + 1] = b
  BY AppendFacts
<1>. HIDE DEF t
<1>2. PICK q \in Nat : q = QuoB(s)
  BY LenFacts
<1>3. PICK r \in Nat : r = RemB(s) /\ r < BS
  BY LenFacts, BlockSize
<1>4. PICK a \in Nat : a = Mul(q, BS)
  BY MulFacts, BlockSize
<1>5. Len(s) = a + r
  BY <1>2, <1>3, <1>4, LenFacts
<1>6. ASSUME NEW n \in 1..q PROVE Blk(t, n) = Blk(s, n)
  <2>1. PICK c \in Nat : c = Mul(n - 1, BS) /\ c + BS <= Len(s)
    BY <1>2, BlockRange
  <2>2. [k \in 1..BS |-> t[c + k]] = [k \in 1..BS |-> s[c + k]]
    <3>1. \A k \in 1..BS : c + k \in 1..Len(s)
      BY <2>1, <1>5, BlockSize
    <3>. QED BY <3>1, <1>1
  <2>. QED BY <2>1, <2>2 DEF Blk
<1>7. ASSUME NEW k \in 1..r PROVE t[a + k] = Over(s)[k]
  <2>1. a + k \in 1..Len(s)
    BY <1>5
  <2>. QED BY <2>1, <1>1, <1>2, <1>3, <1>4, OverFacts
<1>8. t[a + (r + 1)] = b
  BY <1>1, <1>5
<1>9. IsRun(Over(s), r)
  BY <1>3, OverFacts
<1>10. CASE r + 1 # BS
  <2>1. r + 1 \in 0..(BS - 1) /\ Len(t) = a + (r + 1)
    BY <1>1, <1>3, <1>5, <1>10, BlockSize
  <2>2. QuoB(t) = q /\ RemB(t) = r + 1
    BY <2>1, <1>4, Euclid, BlockSize DEF QuoB, RemB
  <2>3. Whole(t) = Whole(s)
    BY <1>1, <1>2, <1>6, <2>2, WholeFacts
  <2>4. Over(t) = [k \in 1..(r + 1) |-> t[a + k]]
    BY <2>2, <1>4 DEF Over
  <2>5. IsRun(Over(t), r + 1)
    BY <2>4 DEF IsRun
  <2>6. (\A k \in 1..r : Over(t)[k] = Over(s)[k]) /\ Over(t)[r + 1] = b
    BY <2>4, <1>7, <1>8
  <2>7. Over(t) = Append(Over(s), b)
    BY <1>9, <2>5, <2>6, AppendIs
  <2>. QED BY <1>3, <1>10, <2>3, <2>7 DEF t
<1>11. CASE r + 1 = BS
  <2>1. Mul(q + 1, BS) = a + BS
    BY <1>4, MulFacts, BlockSize
  <2>2. PICK p \in Nat : p = q + 1
    OBVIOUS
  <2>3. Len(t) = Mul(p, BS) + 0 /\ 0 \in 0..(BS - 1)
    BY <1>1, <1>5, <1>11, <2>1, <2>2, BlockSize
  <2>4. QuoB(t) = p /\ RemB(t) = 0
    BY <2>3, Euclid, BlockSize DEF QuoB, RemB
  <2>5. Over(t) = <<>>
    BY <2>4 DEF Over
  <2>6. Blk(t, p) = Append(Over(s), b)
    <3>1. Blk(t, p) = [k \in 1..(r + 1) |-> t[a + k]]
      BY <1>4, <1>11, <2>2 DEF Blk
    <3>2. IsRun(Blk(t, p), r + 1)
      BY <3>1 DEF IsRun
    <3>3. (\A k \in 1..r : Blk(t, p)[k] = Over(s)[k]) /\ Blk(t, p)[r + 1] = b
      BY <3>1, <1>7, <1>8
    <3>. QED BY <1>9, <3>2, <3>3, AppendIs
  <2>7. Whole(t) = Append(Whole(s), Blk(t, p))
    <3>1. Whole(t) = [n \in 1..(q + 1) |-> Blk(t, n)] /\ Whole(s) = [n \in 1..q |-> Blk(s, n)]
      BY <1>1, <1>2, <2>2, <2>4, WholeFacts
    <3>2. IsRun(Whole(t), q + 1) /\ IsRun(Whole(s), q)
      BY <3>1 DEF IsRun
    <3>3. (\A n \in 1..q : Whole(t)[n] = Whole(s)[n]) /\ Whole(t)[q + 1] = Blk(t, p)
      BY <3>1, <1>6, <2>2
    <3>. QED BY <3>2, <3>3, AppendIs
  <2>. QED BY <1>3, <1>11, <2>5, <2>6, <2>7 DEF t
<1>. QED BY <1>3, <1>10, <1>11 DEF t

(* AbsorbByte absorbs it. *)
LEMMA AbsorbStep ==
    ASSUME NEW S, NEW s \in Seq(S), NEW b \in S, NEW Y, NEW y \in Seq(Y)
    PROVE  AbsorbByte(Folded(y, s), b) = Folded(y, Append(s, b))
<1>. DEFINE a == Folded(y, s)
<1>1. a.y = y \o Whole(s) /\ a.block = Over(s) /\ a = [y |-> a.y, block |-> a.block]
  BY DEF Folded
<1>2. Len(Over(s)) = RemB(s) /\ Over(s) \in Seq(S)
  BY OverFacts
<1>3. CASE RemB(s) + 1 # BS
  <2>1. AbsorbByte(a, b) = [y |-> y \o Whole(s), block |-> Append(Over(s), b)]
    <3>. HIDE DEF a
    <3>. QED BY <1>1, <1>2, <1>3 DEF AbsorbByte
  <2>. QED BY <2>1, <1>3, OneMore DEF Folded
<1>4. CASE RemB(s) + 1 = BS
  <2>1. AbsorbByte(a, b) = [y |-> Append(y \o Whole(s), Append(Over(s), b)), block |-> <<>>]
    <3>. HIDE DEF a
    <3>. QED BY <1>1, <1>2, <1>4 DEF AbsorbByte
  <2>2. Append(y \o Whole(s), Append(Over(s), b)) = y \o Append(Whole(s), Append(Over(s), b))
    <3>1. PICK Z : Z = Y \cup Seq(S)
      OBVIOUS
    <3>2. PICK x \in Z : x = Append(Over(s), b)
      <4>1. Append(Over(s), b) \in Seq(S)
        BY <1>2
      <4>. QED BY <4>1, <3>1
    <3>3. PICK v \in Seq(Z) : v = Whole(s)
      <4>1. Whole(s) \in Seq(Seq(S))
        BY WholeFacts
      <4>. QED BY <4>1, <3>1
    <3>4. PICK u \in Seq(Z) : u = y
      BY <3>1
    <3>5. PICK w : w = Append(v, x)
      OBVIOUS
    <3>6. u \o w = Append(u \o v, x)
      BY <3>5, ConcatAppend
    <3>. QED BY <3>2, <3>3, <3>4, <3>5, <3>6
  <2>. QED BY <2>1, <2>2, <1>4, OneMore DEF Folded
<1>. QED BY <1>3, <1>4

(* AbsorbAll absorbs any chunk. *)
LEMMA AbsorbsAll ==
    ASSUME NEW S, NEW s \in Seq(S), NEW data \in Seq(S), NEW Y, NEW y \in Seq(Y)
    PROVE  AbsorbAll(Folded(y, s), data) = Folded(y, s \o data)
<1>1. PICK n \in Nat : n = Len(data)
  OBVIOUS
<1>. DEFINE F(k) == Folded(y, s \o Upto(data, k))  G == [k \in 0..n |-> F(k)]
<1>2. ASSUME NEW k \in 0..n PROVE Upto(data, k) \in Seq(S) /\ Len(Upto(data, k)) = k
  BY <1>1, CutFacts
<1>3. s \o Upto(data, 0) = s /\ s \o Upto(data, n) = s \o data
  <2>1. Upto(data, 0) = <<>>
    BY <1>2
  <2>2. Upto(data, n) = data
    BY <1>1 DEF Upto
  <2>3. s \o <<>> = s
    OBVIOUS
  <2>. QED BY <2>1, <2>2, <2>3
<1>4. ASSUME NEW k \in 1..n
      PROVE Folded(y, s \o Upto(data, k)) = AbsorbByte(Folded(y, s \o Upto(data, k - 1)), data[k])
  <2>. DEFINE u == Upto(data, k - 1)  w == Upto(data, k)
  <2>1. PICK l \in Nat : l = k - 1 /\ k = l + 1 /\ l \in 0..n
    OBVIOUS
  <2>2. IsRun(u, l) /\ IsRun(w, l + 1) /\ u \in Seq(S)
    <3>1. u \in Seq(S) /\ Len(u) = l /\ w \in Seq(S) /\ Len(w) = l + 1
      BY <1>2, <2>1
    <3>. HIDE DEF u, w
    <3>. QED BY <3>1, <2>1, SeqIsRun
  <2>3. (\A j \in 1..l : w[j] = u[j]) /\ w[l + 1] = data[k]
    BY <1>1, <2>1 DEF Upto
  <2>4. data[k] \in S
    BY <1>1
  <2>. HIDE DEF u, w
  <2>5. w = Append(u, data[k])
    <3>1. PICK x : x = data[k]
      OBVIOUS
    <3>. QED BY <2>2, <2>3, <3>1, AppendIs
  <2>6. s \o w = Append(s \o u, data[k])
    <3>1. PICK x \in S : x = data[k]
      BY <2>4
    <3>2. PICK v \in Seq(S) : v = u
      BY <2>2
    <3>3. PICK z : z = w /\ z = Append(v, x)
      BY <2>5, <3>1, <3>2
    <3>4. s \o z = Append(s \o v, x)
      BY <3>3, ConcatAppend
    <3>. QED BY <3>1, <3>2, <3>3, <3>4
  <2>7. s \o u \in Seq(S)
    BY <2>2
  <2>8. AbsorbByte(Folded(y, s \o u), data[k]) = Folded(y, Append(s \o u, data[k]))
    BY <2>4, <2>7, AbsorbStep
  <2>. QED BY <2>6, <2>8 DEF u, w
<1>5. F(0) = Folded(y, s) /\ F(n) = Folded(y, s \o data)
  BY <1>3
<1>6. \A k \in 1..n : F(k) = AbsorbByte(F(k - 1), data[k])
  BY <1>4
<1>. HIDE DEF F
<1>7. G[0] = Folded(y, s) /\ G[n] = Folded(y, s \o data)
  BY <1>5
<1>8. ASSUME NEW k \in 1..n PROVE G[k] = AbsorbByte(G[k - 1], data[k])
  BY <1>6
<1>. HIDE DEF G
<1>9. AbsorbAll(Folded(y, s), data) = G[Len(data)]
  BY <1>1, <1>7, <1>8, FoldByByte
<1>. QED BY <1>1, <1>7, <1>9

-----------------------------------------------------------------------------
(* The length of a sequence padded to whole blocks. *)
Padded(n) == IF Rem(n, BS) = 0 THEN Quo(n, BS) ELSE Quo(n, BS) + 1

(* PadZero puts zeros behind a sequence until it is whole blocks. *)
LEMMA PadFacts ==
    ASSUME NEW s \in Seq(Nat)
    PROVE  /\ PadZero(s) \in Seq(Nat)
           /\ Padded(Len(s)) \in Nat /\ Len(PadZero(s)) = Mul(Padded(Len(s)), BS)
           /\ Len(s) <= Len(PadZero(s))
           /\ \A j \in 1..Len(PadZero(s)) : PadZero(s)[j] = IF j <= Len(s) THEN s[j] ELSE 0
           /\ RemB(s) = 0 => PadZero(s) = s
<1>1. PICK q \in Nat, r \in Nat : q = QuoB(s) /\ r = RemB(s) /\ r < BS
  BY LenFacts, BlockSize
<1>2. PICK a \in Nat : a = Mul(q, BS) /\ Mul(q + 1, BS) = a + BS
  <2>1. Mul(q, BS) \in Nat /\ Mul(q + 1, BS) = Mul(q, BS) + BS
    BY MulFacts, BlockSize
  <2>. QED BY <2>1
<1>3. Len(s) = a + r
  BY <1>1, <1>2, LenFacts
<1>4. PICK z \in Nat : z = (BS - (Len(s) % BS)) % BS /\ z = (IF r = 0 THEN 0 ELSE BS - r)
  <2>1. PICK x \in Nat : x = BS - r
    BY <1>1, BlockSize
  <2>2. Len(s) % BS = r
    BY <1>1 DEF RemB, Rem
  <2>3. Rem(x, BS) = IF r = 0 THEN 0 ELSE x
    <3>1. CASE r = 0
      <4>1. x = Mul(1, BS) + 0 /\ 0 \in 0..(BS - 1)
        BY <2>1, <3>1, MulFacts, BlockSize
      <4>. QED BY <3>1, <4>1, Euclid, BlockSize
    <3>2. CASE r # 0
      <4>1. x \in 0..(BS - 1)
        BY <2>1, <3>2, <1>1, BlockSize
      <4>. QED BY <3>2, <4>1, RemSmall, BlockSize
    <3>. QED BY <3>1, <3>2
  <2>4. x % BS = IF r = 0 THEN 0 ELSE x
    BY <2>3 DEF Rem
  <2>. QED BY <2>1, <2>2, <2>4
<1>. DEFINE zs == [k \in 1..z |-> 0]
<1>5. zs \in Seq(Nat) /\ Len(zs) = z /\ \A k \in 1..z : zs[k] = 0
  OBVIOUS
<1>6. PadZero(s) = s \o zs
  BY <1>4 DEF PadZero
<1>. HIDE DEF zs
<1>7. PadZero(s) \in Seq(Nat) /\ Len(PadZero(s)) = (a + r) + z
  <2>1. s \o zs \in Seq(Nat) /\ Len(s \o zs) = Len(s) + Len(zs)
    BY <1>5, ConcatFacts
  <2>. QED BY <2>1, <1>3, <1>5, <1>6
<1>8. \A j \in 1..((a + r) + z) : PadZero(s)[j] = IF j <= Len(s) THEN s[j] ELSE 0
  <2>1. ASSUME NEW j \in 1..((a + r) + z) PROVE PadZero(s)[j] = IF j <= Len(s) THEN s[j] ELSE 0
    <3>1. (s \o zs)[j] = IF j <= a + r THEN s[j] ELSE zs[j - (a + r)]
      BY <1>3, <1>5
    <3>2. CASE j <= a + r
      BY <3>1, <3>2, <1>3, <1>6
    <3>3. CASE ~(j <= a + r)
      <4>1. j - (a + r) \in 1..z
        BY <3>3
      <4>. QED BY <3>1, <3>3, <4>1, <1>3, <1>5, <1>6
    <3>. QED BY <3>2, <3>3
  <2>. QED BY <2>1
<1>9. Padded(Len(s)) \in Nat /\ (a + r) + z = Mul(Padded(Len(s)), BS)
  <2>1. Padded(Len(s)) = IF r = 0 THEN q ELSE q + 1
    BY <1>1 DEF Padded, QuoB, RemB
  <2>2. CASE r = 0
    BY <2>1, <2>2, <1>2, <1>4
  <2>3. CASE r # 0
    <3>1. (a + r) + z = a + BS
      BY <2>3, <1>1, <1>4, BlockSize
    <3>. QED BY <2>1, <2>3, <3>1, <1>2
  <2>. QED BY <2>2, <2>3
<1>10. ASSUME RemB(s) = 0 PROVE PadZero(s) = s
  <2>1. z = 0
    BY <1>1, <1>4, <1>10
  <2>2. PadZero(s) \in Seq(Nat) /\ s \in Seq(Nat) /\ Len(PadZero(s)) = Len(s)
    BY <2>1, <1>3, <1>7
  <2>3. \A j \in 1..Len(PadZero(s)) : PadZero(s)[j] = s[j]
    BY <2>1, <1>3, <1>7, <1>8
  <2>. QED BY <2>2, <2>3, SameSeq
<1>. QED BY <1>3, <1>7, <1>8, <1>9, <1>10

(* Padding completes the last block. *)
LEMMA PadCompletes ==
    ASSUME NEW s \in Seq(Nat), RemB(s) # 0
    PROVE  Whole(PadZero(s)) = Append(Whole(s), PadZero(Over(s)))
<1>1. PICK q \in Nat, r \in Nat : q = QuoB(s) /\ r = RemB(s) /\ r < BS /\ r # 0
  BY LenFacts, BlockSize
<1>2. PICK a \in Nat : a = Mul(q, BS) /\ Mul(q + 1, BS) = a + BS
  <2>1. Mul(q, BS) \in Nat /\ Mul(q + 1, BS) = Mul(q, BS) + BS
    BY MulFacts, BlockSize
  <2>. QED BY <2>1
<1>3. Len(s) = a + r
  BY <1>1, <1>2, LenFacts
<1>4. PICK p \in Seq(Nat) : p = PadZero(s)
  BY PadFacts
<1>5. Padded(Len(s)) = q + 1
  BY <1>1 DEF Padded, QuoB, RemB
<1>6. /\ Len(p) = a + BS
      /\ \A j \in 1..(a + BS) : p[j] = IF j <= a + r THEN s[j] ELSE 0
  <2>1. Len(PadZero(s)) = a + BS
    BY <1>2, <1>5, PadFacts
  <2>2. \A j \in 1..Len(PadZero(s)) : PadZero(s)[j] = IF j <= Len(s) THEN s[j] ELSE 0
    BY PadFacts
  <2>. QED BY <2>1, <2>2, <1>3, <1>4
<1>7. QuoB(p) = q + 1
  <2>1. PICK c \in Nat : c = q + 1
    OBVIOUS
  <2>2. Len(p) = Mul(c, BS) + 0 /\ 0 \in 0..(BS - 1)
    BY <2>1, <1>2, <1>6, BlockSize
  <2>. QED BY <2>1, <2>2, Euclid, BlockSize DEF QuoB
<1>8. ASSUME NEW n \in 1..q PROVE Blk(p, n) = Blk(s, n)
  <2>1. PICK c \in Nat : c = Mul(n - 1, BS) /\ c + BS <= Len(s)
    BY <1>1, BlockRange
  <2>2. Mul(q, BS) = a /\ n - 1 \in Nat /\ n <= q
    BY <1>2
  <2>3. \A k \in 1..BS : p[c + k] = s[c + k]
    <3>1. ASSUME NEW k \in 1..BS PROVE p[c + k] = s[c + k]
      <4>1. PICK j \in Nat : j = c + k
        BY BlockSize
      <4>2. j <= a + r
        BY <4>1, <2>1, <1>3, BlockSize
      <4>3. j \in 1..(a + BS)
        BY <4>1, <4>2, <1>1, BlockSize
      <4>. QED BY <4>1, <4>2, <4>3, <1>6
    <3>. QED BY <3>1
  <2>4. [k \in 1..BS |-> p[c + k]] = [k \in 1..BS |-> s[c + k]]
    BY <2>3
  <2>. QED BY <2>1, <2>4 DEF Blk
<1>9. Blk(p, q + 1) = PadZero(Over(s))
  <2>1. PICK o \in Seq(Nat) : o = Over(s) /\ Len(o) = r /\ \A k \in 1..r : o[k] = s[a + k]
    BY <1>1, <1>2, OverFacts
  <2>2. r \in 0..(BS - 1)
    BY <1>1, BlockSize
  <2>3. QuoB(o) = 0 /\ RemB(o) = r
    BY <2>1, <2>2, RemSmall, BlockSize DEF QuoB, RemB
  <2>4. Padded(Len(o)) = 1
    BY <2>3, <1>1 DEF Padded, QuoB, RemB
  <2>5. PICK w \in Seq(Nat) : w = PadZero(o)
    BY PadFacts
  <2>6. Len(w) = BS /\ \A k \in 1..BS : w[k] = IF k <= r THEN o[k] ELSE 0
    <3>1. Len(PadZero(o)) = Mul(1, BS)
      BY <2>4, PadFacts
    <3>2. Len(PadZero(o)) = BS
      BY <3>1, MulFacts, BlockSize
    <3>3. \A j \in 1..Len(PadZero(o)) : PadZero(o)[j] = IF j <= Len(o) THEN o[j] ELSE 0
      BY PadFacts
    <3>. QED BY <2>1, <2>5, <3>2, <3>3
  <2>7. IsRun(w, BS)
    BY <2>6, SeqIsRun
  <2>8. Blk(p, q + 1) = [k \in 1..BS |-> p[a + k]]
    BY <1>2 DEF Blk
  <2>9. ASSUME NEW k \in 1..BS PROVE p[a + k] = w[k]
    <3>1. PICK j \in Nat : j = a + k /\ j \in 1..(a + BS)
      BY BlockSize
    <3>2. j <= a + r <=> k <= r
      BY <3>1
    <3>3. p[j] = IF k <= r THEN s[j] ELSE 0
      BY <1>6, <3>1, <3>2
    <3>4. k <= r => o[k] = s[j]
      BY <2>1, <3>1
    <3>. QED BY <2>6, <3>1, <3>3, <3>4
  <2>10. w = [k \in 1..BS |-> p[a + k]]
    BY <2>7, <2>9 DEF IsRun
  <2>. QED BY <2>1, <2>5, <2>8, <2>10
<1>10. Whole(p) = [n \in 1..(q + 1) |-> Blk(p, n)] /\ Whole(s) = [n \in 1..q |-> Blk(s, n)]
  BY <1>1, <1>7, WholeFacts
<1>11. IsRun(Whole(p), q + 1) /\ IsRun(Whole(s), q)
  BY <1>10 DEF IsRun
<1>12. (\A n \in 1..q : Whole(p)[n] = Whole(s)[n]) /\ Whole(p)[q + 1] = Blk(p, q + 1)
  BY <1>8, <1>10
<1>13. PICK x : x = PadZero(Over(s))
  OBVIOUS
<1>14. Whole(p) = Append(Whole(s), x)
  BY <1>9, <1>11, <1>12, <1>13, AppendIs
<1>. QED BY <1>4, <1>13, <1>14

(* CloseDomain pads what is over, so that what follows starts a block. *)
LEMMA CloseFacts ==
    ASSUME NEW s \in Seq(Nat), NEW Y, NEW y \in Seq(Y)
    PROVE  CloseDomain(Folded(y, s)) = Acc(y \o Whole(PadZero(s)))
<1>1. Len(Over(s)) = RemB(s) /\ Over(s) \in Seq(Nat)
  BY OverFacts
<1>2. CASE RemB(s) = 0
  <2>1. Over(s) = <<>>
    BY <1>1, <1>2
  <2>2. PadZero(s) = s
    BY <1>2, PadFacts
  <2>. QED BY <2>1, <2>2 DEF CloseDomain, Folded, Acc
<1>3. CASE RemB(s) # 0
  <2>1. Over(s) # <<>>
    BY <1>1, <1>3
  <2>2. PICK Z : Z = Y \cup Seq(Nat)
    OBVIOUS
  <2>3. PICK x \in Z : x = PadZero(Over(s))
    BY <1>1, <2>2, PadFacts
  <2>4. PICK v \in Seq(Z) : v = Whole(s)
    <3>1. Whole(s) \in Seq(Seq(Nat))
      BY WholeFacts
    <3>. QED BY <3>1, <2>2
  <2>5. PICK u \in Seq(Z) : u = y
    BY <2>2
  <2>6. PICK w : w = Append(v, x)
    OBVIOUS
  <2>7. u \o w = Append(u \o v, x)
    BY <2>6, ConcatAppend
  <2>8. w = Whole(PadZero(s))
    BY <1>3, <2>3, <2>4, <2>6, PadCompletes
  <2>9. CloseDomain(Folded(y, s)) = Acc(Append(y \o Whole(s), PadZero(Over(s))))
    BY <2>1 DEF CloseDomain, Folded
  <2>. QED BY <2>3, <2>4, <2>5, <2>7, <2>8, <2>9
<1>. QED BY <1>2, <1>3

(* A fresh accumulator has absorbed nothing. *)
LEMMA AccIsFolded ==
    ASSUME NEW Y, NEW y \in Seq(Y)
    PROVE  Acc(y) = Folded(y, <<>>)
<1>1. Len(<<>>) = 0 /\ <<>> \in Seq(Nat)
  OBVIOUS
<1>2. QuoB(<<>>) = 0 /\ RemB(<<>>) = 0
  BY <1>1, ZeroQuotient, BlockSize DEF QuoB, RemB
<1>3. Whole(<<>>) = <<>> /\ Over(<<>>) = <<>>
  <2>1. Whole(<<>>) = [n \in 1..0 |-> Blk(<<>>, n)]
    BY <1>1, <1>2, WholeFacts
  <2>. QED BY <2>1, <1>2 DEF Over
<1>4. y \o <<>> = y
  OBVIOUS
<1>. QED BY <1>3, <1>4 DEF Acc, Folded

(* GcmStart: the associated data, padded, fills whole blocks. *)
LEMMA GcmStartFacts ==
    ASSUME NEW aad \in Seq(Nat)
    PROVE  GcmStart(aad) = Acc(Whole(PadZero(aad))) /\ Whole(PadZero(aad)) \in Seq(Seq(Nat))
<1>1. <<>> \in Seq(Nat) /\ <<>> \in Seq({}) /\ <<>> \o aad = aad
  OBVIOUS
<1>2. AbsorbAll(Acc(<<>>), aad) = Folded(<<>>, aad)
  BY <1>1, AccIsFolded, AbsorbsAll
<1>3. PICK w \in Seq(Seq(Nat)) : w = Whole(PadZero(aad))
  BY PadFacts, WholeFacts
<1>4. CloseDomain(Folded(<<>>, aad)) = Acc(<<>> \o w)
  BY <1>1, <1>3, CloseFacts
<1>5. <<>> \o w = w
  OBVIOUS
<1>. QED BY <1>2, <1>3, <1>4, <1>5 DEF GcmStart

(* Sequences of whole blocks with the same blocks are the same. *)
LEMMA WholeInjective ==
    ASSUME NEW s \in Seq(Nat), NEW t \in Seq(Nat), NEW n \in Nat,
           Len(s) = Mul(n, BS), Len(t) = Mul(n, BS), Whole(s) = Whole(t)
    PROVE  s = t
<1>1. PICK a \in Nat : a = Mul(n, BS)
  BY MulFacts, BlockSize
<1>2. QuoB(s) = n /\ QuoB(t) = n
  <2>1. 0 \in 0..(BS - 1) /\ Len(s) = Mul(n, BS) + 0 /\ Len(t) = Mul(n, BS) + 0
    BY <1>1, BlockSize
  <2>. QED BY <2>1, Euclid, BlockSize DEF QuoB
<1>3. ASSUME NEW j \in 1..a PROVE s[j] = t[j]
  <2>1. PICK x \in Nat : x = j - 1 /\ j = x + 1
    OBVIOUS
  <2>2. PICK q \in Nat, r \in 0..(BS - 1) : q = Quo(x, BS) /\ r = Rem(x, BS)
    BY DivMod, BlockSize
  <2>3. PICK m \in Nat : m = Mul(q, BS) /\ x = m + r
    BY <2>2, DivMod, BlockSize
  <2>4. q < n
    <3>1. n <= q => a <= m
      BY <1>1, <2>3, MulFacts, BlockSize
    <3>. QED BY <3>1, <2>1, <2>3, BlockSize
  <2>5. PICK i \in 1..n : i = q + 1 /\ i - 1 = q
    BY <2>4
  <2>6. PICK k \in 1..BS : k = r + 1 /\ m + k = j
    BY <2>1, <2>3, BlockSize
  <2>7. Blk(s, i)[k] = s[j] /\ Blk(t, i)[k] = t[j]
    BY <2>3, <2>5, <2>6 DEF Blk
  <2>8. Whole(s)[i] = Blk(s, i) /\ Whole(t)[i] = Blk(t, i)
    BY <1>2, <2>5, WholeFacts
  <2>. QED BY <2>7, <2>8
<1>. QED BY <1>1, <1>3, SameSeq

(* Padding hides nothing but the length. *)
LEMMA PadInjective ==
    ASSUME NEW s \in Seq(Nat), NEW t \in Seq(Nat), Len(s) = Len(t),
           Whole(PadZero(s)) = Whole(PadZero(t))
    PROVE  s = t
<1>1. PICK n \in Nat : n = Padded(Len(s))
  BY PadFacts
<1>2. PadZero(s) = PadZero(t)
  <2>1. PadZero(s) \in Seq(Nat) /\ Len(PadZero(s)) = Mul(n, BS)
    BY <1>1, PadFacts
  <2>2. PadZero(t) \in Seq(Nat) /\ Len(PadZero(t)) = Mul(n, BS)
    BY <1>1, PadFacts
  <2>. QED BY <2>1, <2>2, WholeInjective
<1>3. ASSUME NEW j \in 1..Len(s) PROVE s[j] = t[j]
  <2>1. Len(s) \in Nat /\ j \in 1..Len(PadZero(s)) /\ j \in 1..Len(PadZero(t))
    <3>1. Len(s) <= Len(PadZero(s)) /\ Len(PadZero(s)) \in Nat
      BY PadFacts
    <3>. QED BY <3>1, <1>2
  <2>2. PadZero(s)[j] = s[j]
    BY <2>1, PadFacts
  <2>3. PadZero(t)[j] = t[j]
    BY <2>1, PadFacts
  <2>. QED BY <1>2, <2>2, <2>3
<1>. QED BY <1>3, SameSeq

-----------------------------------------------------------------------------
(* A stream that can still change, and one that cannot. *)
Live == {"none", "live"}
Ended == {"done", "refused", "freed"}

(* The sender: the next keystream byte is the one after the last it used,  *)
(* its accumulator has absorbed exactly what it was fed (CCM) or has made  *)
(* (GCM), and a tag is the single-shot one.                                *)
SenderInv ==
    /\ mode \in Modes
    /\ fed \in Seq(Bits)
    /\ made = Keystreamed(mode, fed)
    /\ sphase = "none" => fed = <<>>
    /\ sphase # "live" => enc = None
    /\ sphase \in Live => tag = None
    /\ mode # "ctr" => Len(fed) <= DecryptorCeiling
    /\ sphase = "live" =>
         /\ enc = [ctr |-> enc.ctr, left |-> enc.left, poisoned |-> enc.poisoned,
                   used |-> enc.used, acc |-> enc.acc]
         /\ Continues(mode, enc, Len(fed))
         /\ enc.used = PosFrom(mode, 0, Len(fed))
         /\ mode = "gcm" => enc.acc = Folded(Whole(PadZero(SenderAad)), made)
         /\ mode = "ccm" =>
              /\ declared \in Nat /\ declared <= PayloadCeiling /\ tlen \in TagLens
              /\ enc.acc = Folded(CcmPrefix(SenderAad, declared, tlen), fed)
    /\ tag # None =>
         /\ mode # "ctr"
         /\ tag = SingleShotTag(mode, SenderAad, fed, tag.len)
         /\ tag.len \in TagLens
         /\ mode = "ccm" => tag.len = tlen

(* The receiver: its buffer is all it was offered, and its accumulator has *)
(* absorbed that, unless it was offered more than the ceiling.             *)
ReceiverInv ==
    /\ received \in Seq(Bits)
    /\ rphase \in Live \cup Ended
    /\ rphase = "none" => received = <<>>
    /\ rphase # "none" => mode # "ctr" /\ sphase \in Ended /\ raad \in Seq(Bits)
    /\ rphase \in Live => released = None
    /\ rphase = "live" =>
         /\ dec = [acc |-> dec.acc, buf |-> dec.buf, overflowed |-> dec.overflowed]
         /\ dec.buf \in Seq(Bits)
         /\ dec.acc = Folded(Whole(PadZero(raad)), dec.buf)
         /\ ~dec.overflowed => dec.buf = received
         /\ dec.overflowed => Len(received) > DecryptorCeiling

(* The inductive invariant. *)
AInv == SenderInv /\ ReceiverInv /\ CommitOnVerify /\ GenuineAccepted

-----------------------------------------------------------------------------
(* The keystream byte that masks the i-th byte. *)
KByte(m, i) == Ks[Pos(m, i)[1]][Pos(m, i)[2]]

(* It is a byte. *)
LEMMA KByteIsBit ==
    ASSUME NEW m \in Modes, NEW i \in Nat \ {0}
    PROVE  KByte(m, i) \in Bits
<1>1. PICK x \in Nat : x = i - 1
  OBVIOUS
<1>2. PICK q \in Nat, r \in 0..(BS - 1) : q = Quo(x, BS) /\ r = Rem(x, BS)
  BY DivMod, BlockSize
<1>3. PICK c \in 0..(Modulus[m] - 1) : c = Counter(m, q)
  BY CounterFacts
<1>4. PICK l \in 1..BS : l = r + 1
  BY BlockSize
<1>5. Ks[c] \in [1..BS -> Bits]
  <2>1. Modulus = [gcm |-> W, ccm |-> QW, ctr |-> W]
    BY DEF Modulus
  <2>2. Modulus[m] = W \/ Modulus[m] = QW
    BY <2>1 DEF Modes
  <2>. QED BY <1>3, <2>2, AeadAssumption
<1>6. KByte(m, i) = Ks[c][l]
  BY <1>1, <1>2, <1>3, <1>4 DEF KByte, Pos
<1>. QED BY <1>5, <1>6

(* Bytes are numbers here. *)
LEMMA BitsAreNumbers == \A s : s \in Seq(Bits) => s \in Seq(Nat)
<1>. SUFFICES ASSUME NEW s \in Seq(Bits) PROVE s \in Seq(Nat)
  OBVIOUS
<1>. QED BY DEF Bits

(* Xor of bytes is a byte, and undoes itself. *)
LEMMA XorFacts ==
    ASSUME NEW a \in Bits, NEW b \in Bits
    PROVE  Xor(a, b) \in Bits /\ Xor(Xor(a, b), b) = a
<1>1. \A x \in {0, 1}, y \in {0, 1} : (x + y) % 2 \in {0, 1} /\ (((x + y) % 2) + y) % 2 = x
  OBVIOUS
<1>. QED BY <1>1 DEF Xor, Bits

(* Keystreamed, byte by byte. *)
LEMMA KeystreamedFacts ==
    ASSUME NEW m \in Modes, NEW s \in Seq(Bits)
    PROVE  /\ Keystreamed(m, s) \in Seq(Bits)
           /\ Len(Keystreamed(m, s)) = Len(s)
           /\ \A i \in 1..Len(s) : Keystreamed(m, s)[i] = Xor(s[i], KByte(m, i))
<1>1. PICK n \in Nat : n = Len(s)
  OBVIOUS
<1>2. Keystreamed(m, s) = [i \in 1..n |-> Xor(s[i], KByte(m, i))]
  BY <1>1 DEF Keystreamed, KByte, Pos, Counter, Quo, Rem
<1>3. ASSUME NEW i \in 1..n PROVE Xor(s[i], KByte(m, i)) \in Bits
  <2>1. s[i] \in Bits /\ i \in Nat \ {0}
    BY <1>1
  <2>. QED BY <2>1, KByteIsBit, XorFacts
<1>. DEFINE k == Keystreamed(m, s)
<1>4. IsRun(k, n) /\ \A i \in 1..n : k[i] = Xor(s[i], KByte(m, i))
  BY <1>2 DEF IsRun
<1>. HIDE DEF k
<1>5. k \in Seq(Bits) /\ Len(k) = n
  BY <1>3, <1>4, FcnIsSeq
<1>. QED BY <1>1, <1>4, <1>5 DEF k

(* Applying the keystream twice gives the text back. *)
LEMMA KeystreamUndoes ==
    ASSUME NEW m \in Modes, NEW s \in Seq(Bits)
    PROVE  Keystreamed(m, Keystreamed(m, s)) = s
<1>1. PICK k \in Seq(Bits) : k = Keystreamed(m, s)
  BY KeystreamedFacts
<1>2. PICK t \in Seq(Bits) : t = Keystreamed(m, k)
  BY KeystreamedFacts
<1>3. Len(k) = Len(s) /\ Len(t) = Len(s)
  BY <1>1, <1>2, KeystreamedFacts
<1>4. ASSUME NEW i \in 1..Len(s) PROVE t[i] = s[i]
  <2>1. k[i] = Xor(s[i], KByte(m, i))
    BY <1>1, KeystreamedFacts
  <2>2. t[i] = Xor(k[i], KByte(m, i))
    BY <1>2, <1>3, KeystreamedFacts
  <2>3. s[i] \in Bits /\ KByte(m, i) \in Bits
    <3>1. i \in Nat \ {0}
      OBVIOUS
    <3>. QED BY <3>1, KByteIsBit
  <2>. QED BY <2>1, <2>2, <2>3, XorFacts
<1>5. t = s
  BY <1>3, <1>4, SameSeq
<1>. QED BY <1>1, <1>2, <1>5

(* A chunk, masked from position n on. *)
Masked(m, n, c) == [i \in 1..Len(c) |-> Xor(c[i], KByte(m, n + i))]

(* A chunk is masked with the keystream that follows. *)
LEMMA KeystreamedExtends ==
    ASSUME NEW m \in Modes, NEW s \in Seq(Bits), NEW c \in Seq(Bits), NEW n \in Nat, n = Len(s)
    PROVE  /\ Keystreamed(m, s \o c) = Keystreamed(m, s) \o Masked(m, n, c)
           /\ Masked(m, n, c) \in Seq(Bits)
<1>. DEFINE ct == Masked(m, n, c)
<1>0. PICK l \in Nat : l = Len(c)
  OBVIOUS
<1>1. IsRun(ct, l) /\ \A i \in 1..l : ct[i] = Xor(c[i], KByte(m, n + i))
  BY <1>0 DEF IsRun, Masked
<1>. HIDE DEF ct
<1>2. \A i \in 1..l : ct[i] \in Bits
  <2>1. ASSUME NEW i \in 1..l PROVE ct[i] \in Bits
    <3>1. PICK j \in Nat \ {0} : j = n + i
      OBVIOUS
    <3>2. c[i] \in Bits
      BY <1>0
    <3>. QED BY <1>1, <3>1, <3>2, KByteIsBit, XorFacts
  <2>. QED BY <2>1
<1>3. ct \in Seq(Bits) /\ Len(ct) = l
  BY <1>1, <1>2, FcnIsSeq
<1>4. PICK t \in Seq(Bits) : t = s \o c /\ Len(t) = n + l
                             /\ \A i \in 1..(n + l) : t[i] = IF i <= n THEN s[i] ELSE c[i - n]
  <2>1. s \o c \in Seq(Bits) /\ Len(s \o c) = n + l
        /\ \A i \in 1..(n + l) : (s \o c)[i] = IF i <= n THEN s[i] ELSE c[i - n]
    BY <1>0, ConcatAt
  <2>. QED BY <2>1
<1>5. PICK w \in Seq(Bits) : w = Keystreamed(m, t)
  BY KeystreamedFacts
<1>6. PICK u \in Seq(Bits) : u = Keystreamed(m, s)
  BY KeystreamedFacts
<1>7. Len(w) = n + l /\ Len(u) = n
  BY <1>4, <1>5, <1>6, KeystreamedFacts
<1>8. IsRun(w, n + l) /\ IsRun(u, n)
  BY <1>7, SeqIsRun
<1>9. ASSUME NEW i \in 1..n PROVE w[i] = u[i]
  <2>1. w[i] = Xor(t[i], KByte(m, i)) /\ u[i] = Xor(s[i], KByte(m, i))
    <3>1. i \in 1..Len(t) /\ i \in 1..Len(s)
      BY <1>4
    <3>. QED BY <3>1, <1>5, <1>6, KeystreamedFacts
  <2>2. t[i] = s[i]
    BY <1>4
  <2>. QED BY <2>1, <2>2
<1>10. ASSUME NEW i \in 1..l PROVE w[n + i] = ct[i]
  <2>1. PICK j \in 1..(n + l) : j = n + i
    OBVIOUS
  <2>2. j \in 1..Len(t)
    BY <1>4
  <2>3. w[j] = Xor(t[j], KByte(m, j))
    BY <2>2, <1>5, KeystreamedFacts
  <2>4. t[j] = c[i]
    <3>1. ~(j <= n) /\ j - n = i
      BY <2>1
    <3>. QED BY <3>1, <1>4
  <2>. QED BY <2>1, <2>3, <2>4, <1>1
<1>11. w = u \o ct
  BY <1>1, <1>8, <1>9, <1>10, JoinIs
<1>. QED BY <1>3, <1>4, <1>5, <1>6, <1>11 DEF ct

(* Blocks below Modulus - 1 are far from the wrap: their counters differ,  *)
(* and none is the one that masks the tag.                                 *)
LEMMA CountersDiffer ==
    ASSUME NEW m \in {"gcm", "ccm"}, NEW p \in 0..(Modulus[m] - 2), NEW q \in 0..(Modulus[m] - 2)
    PROVE  /\ Counter(m, p) = Counter(m, q) => p = q
           /\ Counter(m, p) # Mask[m]
<1>1. PICK M \in Nat \ {0} : M = Modulus[m]
  BY Sizes DEF Modes
<1>2. PICK f \in 0..(M - 1) : f = First[m]
  BY <1>1, Sizes DEF Modes
<1>3. p \in 0..(M - 2) /\ q \in 0..(M - 2) /\ p \in Nat /\ q \in Nat /\ f \in Nat
  BY <1>1
<1>4. PICK x \in Nat, y \in Nat : x = f + p /\ y = f + q
  BY <1>2, <1>3
<1>5. Counter(m, p) = Rem(x, M) /\ Counter(m, q) = Rem(y, M)
  BY <1>1, <1>2, <1>4 DEF Counter
<1>6. ASSUME Rem(x, M) = Rem(y, M) PROVE p = q
  <2>1. PICK g \in Nat, h \in Nat : g = p /\ h = q /\ g <= M - 2 /\ h <= M - 2
    BY <1>3
  <2>2. x = f + g /\ y = f + h /\ f \in Nat /\ x < y + M /\ y < x + M
    BY <1>2, <1>4, <2>1
  <2>3. x = y
    <3>1. CASE x <= y
      BY <2>2, <3>1, <1>6, RemApart
    <3>2. CASE y <= x
      BY <2>2, <3>2, <1>6, RemApart
    <3>. QED BY <3>1, <3>2
  <2>4. g = h
    BY <2>2, <2>3
  <2>. QED BY <2>1, <2>4
<1>7. Modulus = [gcm |-> W, ccm |-> QW, ctr |-> W]
      /\ First = [gcm |-> (J0 + 1) % W, ccm |-> 1, ctr |-> J0]
      /\ Mask = [gcm |-> J0, ccm |-> 0, ctr |-> None]
  BY DEF Modulus, First, Mask
<1>8. CASE m = "ccm"
  <2>1. f = 1 /\ Mask[m] = 0
    BY <1>2, <1>7, <1>8
  <2>2. x \in 0..(M - 1) /\ x # 0
    BY <2>1, <1>3, <1>4
  <2>3. Rem(x, M) = x
    BY <2>2, RemSmall
  <2>. QED BY <1>5, <1>6, <2>1, <2>2, <2>3
<1>9. CASE m = "gcm"
  <2>1. f = (J0 + 1) % W /\ Mask[m] = J0 /\ M = W
    BY <1>1, <1>2, <1>7, <1>9
  <2>2. J0 \in 0..(M - 1)
    BY <2>1, AeadAssumption
  <2>3. PICK z \in Nat, o \in Nat : z = J0 + 1 /\ o = z + p
    BY <2>2, <1>3
  <2>4. f = Rem(z, M)
    BY <2>1, <2>3 DEF Rem
  <2>5. Rem(x, M) = Rem(o, M)
    <3>1. p \in Nat
      BY <1>3
    <3>. QED BY <2>3, <2>4, <1>4, <3>1, RemAdd
  <2>6. Rem(J0, M) = J0
    BY <2>2, RemSmall
  <2>7. J0 <= o /\ o < J0 + M /\ J0 # o /\ J0 \in Nat
    BY <2>2, <2>3, <1>3
  <2>8. Rem(o, M) # J0
    BY <2>6, <2>7, RemApart
  <2>. QED BY <1>5, <1>6, <2>1, <2>5, <2>8
<1>. QED BY <1>8, <1>9

(* The bytes a stream may have, by its mode's ceiling. *)
CeilingOf(m) == IF m = "gcm" THEN Ceiling ELSE PayloadCeiling

(* Under the ceiling a byte's block is far from the wrap. *)
LEMMA CeilingKeepsOff ==
    ASSUME NEW m \in {"gcm", "ccm"}, NEW i \in Nat \ {0}, i <= CeilingOf(m)
    PROVE  Quo(i - 1, BS) \in 0..(Modulus[m] - 2)
<1>1. PICK x \in Nat : x = i - 1
  OBVIOUS
<1>2. PICK q \in Nat : q = Quo(x, BS)
  BY DivMod, BlockSize
<1>3. PICK a \in Nat : a = Mul(q, BS) /\ a <= x
  <2>1. Mul(q, BS) \in Nat /\ Mul(q, BS) <= x
    BY <1>2, DivMod, BlockSize
  <2>. QED BY <2>1
<1>4. W \in Nat \ {0, 1} /\ QW \in Nat \ {0, 1} /\ Ceiling = BS * (W - 2)
  BY AeadAssumption
<1>5. Modulus = [gcm |-> W, ccm |-> QW, ctr |-> W]
  BY DEF Modulus
<1>6. CASE m = "gcm"
  <2>1. PICK n \in Nat : n = W - 2
    BY <1>4
  <2>2. Ceiling = Mul(n, BS)
    BY <1>4, <2>1, BlockSize DEF Mul
  <2>3. PICK c \in Nat : c = Mul(n, BS)
    BY MulFacts, BlockSize
  <2>4. x < c
    BY <1>1, <1>6, <2>2, <2>3 DEF CeilingOf
  <2>5. n <= q => c <= a
    BY <1>3, <2>3, MulFacts, BlockSize
  <2>6. q < n
    BY <1>3, <2>4, <2>5
  <2>. QED BY <1>1, <1>2, <1>4, <1>5, <1>6, <2>1, <2>6
<1>7. CASE m = "ccm"
  <2>1. x <= QW - 2
    BY <1>1, <1>4, <1>7 DEF CeilingOf, PayloadCeiling
  <2>2. q <= a
    <3>1. PICK d \in Nat : BS = d + 1
      BY BlockSize
    <3>2. Mul(q, BS) = q * d + q /\ q * d \in Nat
      BY <3>1 DEF Mul
    <3>. QED BY <3>2, <1>3
  <2>. QED BY <1>1, <1>2, <1>3, <1>4, <1>5, <1>7, <2>1, <2>2
<1>. QED BY <1>6, <1>7

(* So no two bytes under the ceiling share a keystream byte, and none is   *)
(* masked by the tag's block.                                              *)
LEMMA PositionsDiffer ==
    ASSUME NEW m \in {"gcm", "ccm"}, NEW n \in Nat, n <= CeilingOf(m),
           NEW i \in 1..n, NEW j \in 1..n
    PROVE  /\ Pos(m, i) = Pos(m, j) => i = j
           /\ Pos(m, i)[1] # Mask[m]
<1>1. CeilingOf(m) \in Int
  BY AeadAssumption DEF CeilingOf, PayloadCeiling
<1>2. i \in Nat \ {0} /\ i <= CeilingOf(m) /\ j \in Nat \ {0} /\ j <= CeilingOf(m)
  BY <1>1
<1>3. PICK x \in Nat, y \in Nat : x = i - 1 /\ y = j - 1
  OBVIOUS
<1>4. Quo(x, BS) \in 0..(Modulus[m] - 2) /\ Quo(y, BS) \in 0..(Modulus[m] - 2)
  BY <1>2, <1>3, CeilingKeepsOff
<1>5. PICK p \in 0..(Modulus[m] - 2), q \in 0..(Modulus[m] - 2) : p = Quo(x, BS) /\ q = Quo(y, BS)
  BY <1>4
<1>6. Pos(m, i)[1] = Counter(m, p) /\ Pos(m, j)[1] = Counter(m, q)
      /\ Pos(m, i)[2] = Rem(x, BS) + 1 /\ Pos(m, j)[2] = Rem(y, BS) + 1
  BY <1>3, <1>5 DEF Pos
<1>7. ASSUME Pos(m, i) = Pos(m, j) PROVE i = j
  <2>1. Counter(m, p) = Counter(m, q) /\ Rem(x, BS) + 1 = Rem(y, BS) + 1
    BY <1>6, <1>7
  <2>2. p = q
    BY <2>1, CountersDiffer
  <2>3. Rem(x, BS) = Rem(y, BS)
    <3>1. PICK r \in Nat : r = Rem(x, BS)
      BY DivMod, BlockSize
    <3>2. PICK t \in Nat : t = Rem(y, BS)
      BY DivMod, BlockSize
    <3>. QED BY <2>1, <3>1, <3>2
  <2>4. x = Mul(p, BS) + Rem(x, BS) /\ y = Mul(q, BS) + Rem(y, BS)
    BY <1>5, DivMod, BlockSize
  <2>. QED BY <1>3, <2>2, <2>3, <2>4
<1>8. Pos(m, i)[1] # Mask[m]
  BY <1>6, CountersDiffer
<1>. QED BY <1>7, <1>8

-----------------------------------------------------------------------------
(* CCM's first blocks are a sequence. *)
LEMMA CcmPrefixIsSeq ==
    ASSUME NEW aad \in Seq(Nat), NEW len, NEW t
    PROVE  \E Y : /\ CcmPrefix(aad, len, t) \in Seq(Y)
                  /\ Len(CcmPrefix(aad, len, t)) >= 1
                  /\ CcmPrefix(aad, len, t)[1] = [adata |-> aad # <<>>, len |-> len, t |-> t]
<1>1. PICK first : first = [adata |-> aad # <<>>, len |-> len, t |-> t]
  OBVIOUS
<1>2. PICK Y : Y = {first} \cup Seq(Nat)
  OBVIOUS
<1>3. PICK rest \in Seq(Y) : rest = IF aad = <<>> THEN <<>> ELSE Whole(PadZero(<<Len(aad)>> \o aad))
  <2>1. <<Len(aad)>> \o aad \in Seq(Nat)
    OBVIOUS
  <2>2. Whole(PadZero(<<Len(aad)>> \o aad)) \in Seq(Seq(Nat))
    BY <2>1, PadFacts, WholeFacts
  <2>. QED BY <2>2, <1>2
<1>4. PICK one \in Seq(Y) : one = <<first>> /\ Len(one) = 1 /\ one[1] = first
  <2>1. <<first>> \in Seq(Y) /\ Len(<<first>>) = 1 /\ <<first>>[1] = first
    BY <1>2
  <2>. QED BY <2>1
<1>5. one \o rest \in Seq(Y) /\ Len(one \o rest) >= 1 /\ (one \o rest)[1] = first
  BY <1>4
<1>. QED BY <1>1, <1>3, <1>4, <1>5 DEF CcmPrefix

(* What can be cut from texts of bytes is bytes. *)
LEMMA ChunkIsBytes ==
    ASSUME NEW seen \in Seq(Bits), NEW texts,
           \A p \in texts : p \in Seq(Bits) /\ MaxLen <= Len(p),
           NEW c \in Chunks(seen, texts)
    PROVE  c \in Seq(Bits)
<1>1. PICK p \in texts, n \in Len(seen)..MaxLen : c = SubSeq(p, Len(seen) + 1, n)
  BY DEF Chunks
<1>2. p \in Seq(Bits) /\ MaxLen <= Len(p) /\ MaxLen \in Nat /\ Len(seen) \in Nat
  BY AeadAssumption
<1>. QED BY <1>1, <1>2

(* The ceilings are numbers. *)
LEMMA CeilingsAreNumbers == Ceiling \in Nat /\ PayloadCeiling \in Nat /\ DecryptorCeiling \in Nat
<1>1. W - 2 \in Nat /\ BS \in Nat /\ Ceiling = BS * (W - 2) /\ QW - 1 \in Nat
  BY AeadAssumption
<1>2. PICK n \in Nat : n = W - 2
  BY <1>1
<1>3. BS * n \in Nat
  BY <1>1
<1>. QED BY <1>1, <1>2, <1>3 DEF PayloadCeiling, DecryptorCeiling

(* A receiver has not started while its sender is at work. *)
LEMMA ReceiverKept ==
    ASSUME ReceiverInv, sphase \in Live, UNCHANGED rvars
    PROVE  ReceiverInv' /\ CommitOnVerify' /\ GenuineAccepted'
<1>1. rphase = "none" /\ released = None /\ received = <<>>
  BY DEF ReceiverInv, Live, Ended
<1>2. rphase' = "none" /\ released' = None /\ received' = <<>>
  BY <1>1 DEF rvars
<1>3. <<>> \in Seq(Bits)
  OBVIOUS
<1>. QED BY <1>2, <1>3 DEF ReceiverInv, CommitOnVerify, GenuineAccepted, Live, Ended

(* The receiver's steps leave the sender's part alone. *)
LEMMA SenderKept ==
    ASSUME SenderInv, UNCHANGED <<mode, svars>>
    PROVE  SenderInv'
<1>1. /\ mode' = mode /\ sphase' = sphase /\ enc' = enc /\ declared' = declared /\ tlen' = tlen
      /\ fed' = fed /\ made' = made /\ balked' = balked /\ tag' = tag
  BY DEF svars
<1>2. DecryptorCeiling' = DecryptorCeiling
  BY <1>1 DEF DecryptorCeiling
<1>. QED BY <1>1, <1>2 DEF SenderInv

(* A stream that has not started has used nothing. *)
LEMMA InitHolds == AInit => AInv
<1>. SUFFICES ASSUME AInit PROVE AInv
  OBVIOUS
<1>1. mode \in Modes /\ fed = <<>> /\ made = <<>> /\ <<>> \in Seq(Bits) /\ Len(<<>>) = 0
  BY DEF AInit, Modes
<1>2. Keystreamed(mode, <<>>) = <<>>
  <2>1. PICK k \in Seq(Bits) : k = Keystreamed(mode, <<>>)
    BY <1>1, KeystreamedFacts
  <2>2. Len(k) = 0
    BY <1>1, <2>1, KeystreamedFacts
  <2>. QED BY <2>1, <2>2
<1>3. Len(fed) <= DecryptorCeiling
  BY <1>1, CeilingsAreNumbers
<1>4. SenderInv
  BY <1>1, <1>2, <1>3 DEF AInit, SenderInv, Live
<1>5. ReceiverInv /\ CommitOnVerify /\ GenuineAccepted
  BY <1>1 DEF AInit, ReceiverInv, CommitOnVerify, GenuineAccepted, Live, Ended
<1>. QED BY <1>4, <1>5 DEF AInv

(* new: a fresh stream is at position 0, its accumulator at a block's edge. *)
LEMMA NewKeeps ==
    ASSUME AInv, NEW len \in Declared \cup {None}, NEW t \in TagLens \cup {BadTagLen, None},
           EncryptorNew(len, t)
    PROVE  AInv'
<1>1. sphase = "none" /\ mode \in Modes /\ fed = <<>> /\ made = Keystreamed(mode, fed) /\ tag = None
      /\ Len(fed) <= DecryptorCeiling
  <2>1. Len(<<>>) = 0
    OBVIOUS
  <2>. QED BY <2>1, CeilingsAreNumbers DEF AInv, SenderInv, EncryptorNew, Live
<1>2. UNCHANGED <<mode, fed, made, tag>> /\ UNCHANGED rvars
  BY DEF EncryptorNew
<1>3. ReceiverInv' /\ CommitOnVerify' /\ GenuineAccepted'
  BY <1>1, <1>2, ReceiverKept DEF AInv, Live
<1>4. DecryptorCeiling' = DecryptorCeiling
  BY <1>2 DEF DecryptorCeiling
<1>5. fed' \in Seq(Bits) /\ Len(fed') = 0
  BY <1>1, <1>2
<1>6. CASE sphase' # "live"
  <2>1. sphase' = "refused" /\ enc' = enc
    BY <1>6 DEF EncryptorNew
  <2>2. enc' = None
    BY <1>1, <2>1 DEF AInv, SenderInv
  <2>. QED BY <1>1, <1>2, <1>3, <1>4, <1>5, <2>1, <2>2 DEF AInv, SenderInv, Live
<1>7. CASE sphase' = "live"
  <2>1. enc' = NewEncryptor(mode, len, t) /\ declared' = len /\ tlen' = t
        /\ (mode = "ccm" => len # None /\ t \in TagLens /\ ~(len > PayloadCeiling))
    BY <1>7 DEF EncryptorNew
  <2>2. mode = "ccm" => len \in Nat /\ len <= PayloadCeiling
    BY <2>1, AeadAssumption, CeilingsAreNumbers
  <2>3. Continues(mode, enc', 0) /\ PosFrom(mode, 0, 0) = <<>>
    <3>1. PosFrom(mode, 0, 0) = <<>>
      BY DEF PosFrom
    <3>2. First[mode] = Counter(mode, 0)
      <4>1. PICK f \in 0..(Modulus[mode] - 1) : f = First[mode]
        BY <1>1, Sizes
      <4>2. Rem(f, Modulus[mode]) = f /\ f + 0 = f
        BY <1>1, RemSmall, Sizes
      <4>. QED BY <4>1, <4>2 DEF Counter
    <3>3. enc'.ctr = First[mode] /\ enc'.left = <<>>
      BY <2>1 DEF NewEncryptor
    <3>4. Mul(0, BS) = 0
      BY MulFacts, BlockSize
    <3>. QED BY <3>1, <3>2, <3>3, <3>4 DEF Continues
  <2>4. made = <<>>
    <3>1. PICK k \in Seq(Bits) : k = Keystreamed(mode, fed)
      BY <1>1, <1>2, <1>5, KeystreamedFacts
    <3>2. Len(k) = 0
      BY <1>1, <1>2, <1>5, <3>1, KeystreamedFacts
    <3>. QED BY <1>1, <3>1, <3>2
  <2>5. enc' = [ctr |-> enc'.ctr, left |-> enc'.left, poisoned |-> enc'.poisoned,
                used |-> enc'.used, acc |-> enc'.acc] /\ enc'.used = <<>>
    BY <2>1 DEF NewEncryptor
  <2>6. SenderAad \in Seq(Nat)
    BY BitsAreNumbers, AeadAssumption
  <2>7. mode = "gcm" => enc'.acc = Folded(Whole(PadZero(SenderAad)), <<>>)
    BY <2>1, <2>6, GcmStartFacts, AccIsFolded DEF NewEncryptor
  <2>8. mode = "ccm" => enc'.acc = Folded(CcmPrefix(SenderAad, len, t), <<>>)
    <3>1. PICK Y : CcmPrefix(SenderAad, len, t) \in Seq(Y)
      BY <2>6, CcmPrefixIsSeq
    <3>2. Acc(CcmPrefix(SenderAad, len, t)) = Folded(CcmPrefix(SenderAad, len, t), <<>>)
      BY <3>1, AccIsFolded
    <3>. QED BY <2>1, <3>2 DEF NewEncryptor
  <2>9. SenderInv'
    BY <1>1, <1>2, <1>4, <1>5, <1>7, <2>1, <2>2, <2>3, <2>4, <2>5, <2>7, <2>8 DEF SenderInv, Live
  <2>. QED BY <1>3, <2>9 DEF AInv
<1>. QED BY <1>6, <1>7

(* update: the keystream goes on where it was, and so does the MAC. *)
LEMMA UpdateKeeps ==
    ASSUME AInv, NEW chunk \in Chunks(fed, Payloads), EncryptorUpdate(chunk)
    PROVE  AInv'
<1>1. sphase = "live" /\ mode \in Modes /\ fed \in Seq(Bits) /\ made = Keystreamed(mode, fed)
      /\ tag = None /\ (mode # "ctr" => Len(fed) <= DecryptorCeiling)
  BY DEF AInv, SenderInv, EncryptorUpdate, Live
<1>2. UNCHANGED <<mode, sphase, declared, tlen, tag>> /\ UNCHANGED rvars
  BY DEF EncryptorUpdate
<1>3. ReceiverInv' /\ CommitOnVerify' /\ GenuineAccepted'
  BY <1>1, <1>2, ReceiverKept DEF AInv, Live
<1>4. DecryptorCeiling' = DecryptorCeiling
  BY <1>2 DEF DecryptorCeiling
<1>5. /\ enc = [ctr |-> enc.ctr, left |-> enc.left, poisoned |-> enc.poisoned,
                used |-> enc.used, acc |-> enc.acc]
      /\ Continues(mode, enc, Len(fed))
      /\ enc.used = PosFrom(mode, 0, Len(fed))
      /\ mode = "gcm" => enc.acc = Folded(Whole(PadZero(SenderAad)), made)
      /\ mode = "ccm" => /\ declared \in Nat /\ declared <= PayloadCeiling /\ tlen \in TagLens
                         /\ enc.acc = Folded(CcmPrefix(SenderAad, declared, tlen), fed)
  BY <1>1 DEF AInv, SenderInv
<1>6. CASE enc.poisoned \/ ~Fits(mode, Len(chunk))
  <2>1. enc' = [enc EXCEPT !.poisoned = TRUE] /\ fed' = fed /\ made' = made
    BY <1>6 DEF EncryptorUpdate
  <2>2. /\ enc' = [ctr |-> enc'.ctr, left |-> enc'.left, poisoned |-> enc'.poisoned,
                   used |-> enc'.used, acc |-> enc'.acc]
        /\ enc'.ctr = enc.ctr /\ enc'.left = enc.left /\ enc'.used = enc.used /\ enc'.acc = enc.acc
    BY <2>1, <1>5
  <2>3. Continues(mode, enc', Len(fed))
    BY <1>5, <2>2 DEF Continues
  <2>4. SenderInv'
    BY <1>1, <1>2, <1>4, <1>5, <2>1, <2>2, <2>3 DEF SenderInv, Live
  <2>. QED BY <1>3, <2>4 DEF AInv
<1>7. CASE ~(enc.poisoned \/ ~Fits(mode, Len(chunk)))
  <2>1. chunk \in Seq(Bits)
    <3>1. \A p \in Payloads : p \in Seq(Bits) /\ MaxLen <= Len(p)
      BY AeadAssumption
    <3>. QED BY <1>1, <3>1, ChunkIsBytes
  <2>2. PICK n \in Nat, l \in Nat : n = Len(fed) /\ l = Len(chunk)
    BY <1>1, <2>1
  <2>3. PICK draw : draw = Draw(mode, enc, l)
    OBVIOUS
  <2>4. draw.take = PosFrom(mode, n, l) /\ Continues(mode, draw, n + l)
    BY <1>1, <1>5, <2>2, <2>3, DrawContinues
  <2>5. PICK ct : ct = Masked(mode, n, chunk)
    OBVIOUS
  <2>6. [i \in 1..l |-> Xor(chunk[i], Ks[draw.take[i][1]][draw.take[i][2]])] = ct
    <3>1. \A i \in 1..l : draw.take[i] = Pos(mode, n + i)
      BY <2>4, PosFromFacts
    <3>. QED BY <2>2, <2>5, <3>1 DEF KByte, Masked
  <2>7. /\ enc' = [enc EXCEPT !.ctr = draw.ctr, !.left = draw.left, !.used = @ \o draw.take,
                              !.acc = CASE mode = "gcm" -> AbsorbAll(@, ct)
                                        [] mode = "ccm" -> AbsorbAll(@, chunk)
                                        [] mode = "ctr" -> @]
        /\ fed' = fed \o chunk /\ made' = made \o ct
    BY <1>7, <2>2, <2>3, <2>6 DEF EncryptorUpdate
  <2>8. /\ enc' = [ctr |-> enc'.ctr, left |-> enc'.left, poisoned |-> enc'.poisoned,
                   used |-> enc'.used, acc |-> enc'.acc]
        /\ enc'.ctr = draw.ctr /\ enc'.left = draw.left /\ enc'.used = enc.used \o draw.take
        /\ mode = "gcm" => enc'.acc = AbsorbAll(enc.acc, ct)
        /\ mode = "ccm" => enc'.acc = AbsorbAll(enc.acc, chunk)
    BY <1>5, <2>7
  <2>9. Keystreamed(mode, fed \o chunk) = Keystreamed(mode, fed) \o ct /\ ct \in Seq(Bits)
    BY <1>1, <2>1, <2>2, <2>5, KeystreamedExtends
  <2>10. fed' \in Seq(Bits) /\ Len(fed') = n + l /\ made' = Keystreamed(mode, fed')
    BY <1>1, <2>1, <2>2, <2>7, <2>9
  <2>11. Continues(mode, enc', n + l)
    BY <2>4, <2>8 DEF Continues
  <2>12. enc'.used = PosFrom(mode, 0, n + l)
    <3>1. PICK u : u = PosFrom(mode, 0, n) /\ IsRun(u, n) /\ \A j \in 1..n : u[j] = Pos(mode, j)
      <4>1. IsRun(PosFrom(mode, 0, n), n) /\ \A j \in 1..n : PosFrom(mode, 0, n)[j] = Pos(mode, j)
        BY PosFromFacts
      <4>. QED BY <4>1
    <3>2. PICK v : v = PosFrom(mode, n, l) /\ IsRun(v, l) /\ \A j \in 1..l : v[j] = Pos(mode, n + j)
      <4>1. IsRun(PosFrom(mode, n, l), l)
            /\ \A j \in 1..l : PosFrom(mode, n, l)[j] = Pos(mode, n + j)
        BY PosFromFacts
      <4>. QED BY <4>1
    <3>3. PICK w : w = PosFrom(mode, 0, n + l) /\ IsRun(w, n + l)
                   /\ \A j \in 1..(n + l) : w[j] = Pos(mode, j)
      <4>1. PICK k \in Nat : k = n + l
        OBVIOUS
      <4>2. IsRun(PosFrom(mode, 0, k), k) /\ \A j \in 1..k : PosFrom(mode, 0, k)[j] = Pos(mode, j)
        BY PosFromFacts
      <4>. QED BY <4>1, <4>2
    <3>4. \A j \in 1..n : w[j] = u[j]
      BY <3>1, <3>3
    <3>5. \A j \in 1..l : w[n + j] = v[j]
      BY <3>2, <3>3
    <3>6. w = u \o v
      BY <3>1, <3>2, <3>3, <3>4, <3>5, JoinIs
    <3>. QED BY <1>5, <2>2, <2>4, <2>8, <3>1, <3>2, <3>3, <3>6
  <2>13. mode = "gcm" => enc'.acc = Folded(Whole(PadZero(SenderAad)), made')
    <3>. SUFFICES ASSUME mode = "gcm" PROVE enc'.acc = Folded(Whole(PadZero(SenderAad)), made')
      OBVIOUS
    <3>1. PICK y \in Seq(Seq(Nat)) : y = Whole(PadZero(SenderAad))
      BY GcmStartFacts, BitsAreNumbers, AeadAssumption
    <3>2. made \in Seq(Bits)
      BY <1>1, KeystreamedFacts
    <3>3. AbsorbAll(Folded(y, made), ct) = Folded(y, made \o ct)
      BY <3>2, <2>9, AbsorbsAll
    <3>. QED BY <1>5, <2>7, <2>8, <3>1, <3>3
  <2>14. mode = "ccm" => enc'.acc = Folded(CcmPrefix(SenderAad, declared, tlen), fed')
    <3>. SUFFICES ASSUME mode = "ccm"
                  PROVE  enc'.acc = Folded(CcmPrefix(SenderAad, declared, tlen), fed')
      OBVIOUS
    <3>1. PICK Y : CcmPrefix(SenderAad, declared, tlen) \in Seq(Y)
      BY CcmPrefixIsSeq, BitsAreNumbers, AeadAssumption
    <3>2. PICK y \in Seq(Y) : y = CcmPrefix(SenderAad, declared, tlen)
      BY <3>1
    <3>3. AbsorbAll(Folded(y, fed), chunk) = Folded(y, fed \o chunk)
      BY <1>1, <2>1, AbsorbsAll
    <3>. QED BY <1>5, <2>7, <2>8, <3>2, <3>3
  <2>15. mode # "ctr" => n + l <= DecryptorCeiling
    <3>1. CASE mode = "gcm"
      BY <1>7, <2>2, <3>1 DEF Fits, DecryptorCeiling
    <3>2. CASE mode = "ccm"
      <4>1. n + l <= declared /\ declared \in Nat /\ declared <= PayloadCeiling
        BY <1>5, <1>7, <2>2, <3>2 DEF Fits
      <4>. QED BY <3>2, <4>1, CeilingsAreNumbers DEF DecryptorCeiling
    <3>. QED BY <1>1, <3>1, <3>2 DEF Modes
  <2>16. SenderInv'
    BY <1>1, <1>2, <1>4, <1>5, <2>8, <2>10, <2>11, <2>12, <2>13, <2>14, <2>15 DEF SenderInv, Live
  <2>. QED BY <1>3, <2>16 DEF AInv
<1>. QED BY <1>6, <1>7

(* The incremental GHASH runs over what the single-shot one does. *)
LEMMA GcmBlocksAre ==
    ASSUME NEW aad \in Seq(Nat), NEW ct \in Seq(Nat)
    PROVE  GcmBlocks(Folded(Whole(PadZero(aad)), ct), Len(aad), Len(ct)) = GhashInput(aad, ct)
<1>1. PICK A \in Seq(Seq(Nat)) : A = Whole(PadZero(aad))
  BY PadFacts, WholeFacts
<1>2. PICK P \in Seq(Seq(Nat)) : P = Whole(PadZero(ct))
  BY PadFacts, WholeFacts
<1>3. CloseDomain(Folded(A, ct)) = Acc(A \o P)
  BY <1>2, CloseFacts
<1>4. PICK x : x = [aad |-> Len(aad), ct |-> Len(ct)]
  OBVIOUS
<1>5. PICK Z : Z = Seq(Nat) \cup {x}
  OBVIOUS
<1>6. PICK s \in Seq(Z) : s = A \o P
  <2>1. PICK u \in Seq(Z) : u = A
    BY <1>5
  <2>2. PICK v \in Seq(Z) : v = P
    BY <1>5
  <2>3. u \o v \in Seq(Z)
    OBVIOUS
  <2>. QED BY <2>1, <2>2, <2>3
<1>7. PICK w : w = Append(s, x)
  OBVIOUS
<1>8. w = s \o <<x>>
  BY <1>5, <1>7, AppendByConcat
<1>9. GcmBlocks(Folded(A, ct), Len(aad), Len(ct)) = w
  BY <1>3, <1>4, <1>6, <1>7 DEF GcmBlocks, Acc
<1>10. GhashInput(aad, ct) = s \o <<x>>
  BY <1>1, <1>2, <1>4, <1>6 DEF GhashInput
<1>. QED BY <1>1, <1>8, <1>9, <1>10

(* And so does the incremental CBC-MAC. *)
LEMMA CcmBlocksAre ==
    ASSUME NEW aad \in Seq(Nat), NEW pt \in Seq(Nat), NEW t
    PROVE  CloseDomain(Folded(CcmPrefix(aad, Len(pt), t), pt)).y = CcmInput(aad, pt, t)
<1>1. PICK Y : CcmPrefix(aad, Len(pt), t) \in Seq(Y)
  BY CcmPrefixIsSeq
<1>2. CloseDomain(Folded(CcmPrefix(aad, Len(pt), t), pt))
        = Acc(CcmPrefix(aad, Len(pt), t) \o Whole(PadZero(pt)))
  BY <1>1, CloseFacts
<1>. QED BY <1>2 DEF Acc, CcmInput

(* finalize: a tag is the single-shot function's, of what was fed. *)
LEMMA FinalizeKeeps ==
    ASSUME AInv, NEW t \in TagLens \cup {BadTagLen}, EncryptorFinalize(t)
    PROVE  AInv'
<1>1. sphase = "live" /\ mode \in Modes /\ fed \in Seq(Bits) /\ made = Keystreamed(mode, fed)
      /\ tag = None /\ (mode # "ctr" => Len(fed) <= DecryptorCeiling)
  BY DEF AInv, SenderInv, EncryptorFinalize, Live
<1>2. UNCHANGED <<mode, declared, tlen, fed, made, balked>> /\ UNCHANGED rvars /\ enc' = None
  BY DEF EncryptorFinalize
<1>3. ReceiverInv' /\ CommitOnVerify' /\ GenuineAccepted'
  BY <1>1, <1>2, ReceiverKept DEF AInv, Live
<1>4. DecryptorCeiling' = DecryptorCeiling
  BY <1>2 DEF DecryptorCeiling
<1>5. /\ mode = "gcm" => enc.acc = Folded(Whole(PadZero(SenderAad)), made)
      /\ mode = "ccm" => /\ declared \in Nat /\ declared <= PayloadCeiling /\ tlen \in TagLens
                         /\ enc.acc = Folded(CcmPrefix(SenderAad, declared, tlen), fed)
  BY <1>1 DEF AInv, SenderInv
<1>6. CASE sphase' = "refused" /\ tag' = tag
  <2>1. SenderInv'
    BY <1>1, <1>2, <1>4, <1>6 DEF SenderInv, Live
  <2>. QED BY <1>3, <2>1 DEF AInv
<1>7. CASE ~(sphase' = "refused" /\ tag' = tag)
  <2>1. /\ sphase' = "done"
        /\ mode = "gcm" => t \in TagLens
        /\ mode = "ccm" => Len(fed) = declared
        /\ tag' = CASE mode = "gcm" ->
                         Tag("gcm", GcmBlocks(enc.acc, Len(SenderAad), Len(fed)), t)
                    [] mode = "ccm" -> Tag("ccm", CloseDomain(enc.acc).y, tlen)
                    [] mode = "ctr" -> None
    BY <1>7 DEF EncryptorFinalize
  <2>2. SenderAad \in Seq(Nat) /\ fed \in Seq(Nat)
    BY <1>1, BitsAreNumbers, AeadAssumption
  <2>3. CASE mode = "gcm"
    <3>1. tag' = Tag("gcm", GcmBlocks(enc.acc, Len(SenderAad), Len(fed)), t)
      BY <2>1, <2>3
    <3>2. made \in Seq(Nat) /\ Len(made) = Len(fed)
      BY <1>1, KeystreamedFacts, BitsAreNumbers
    <3>3. GcmBlocks(enc.acc, Len(SenderAad), Len(fed)) = GhashInput(SenderAad, made)
      BY <1>5, <2>2, <2>3, <3>2, GcmBlocksAre
    <3>4. tag' = SingleShotTag(mode, SenderAad, fed, t)
      BY <1>1, <2>3, <3>1, <3>3 DEF SingleShotTag
    <3>5. tag'.len = t
      BY <3>1 DEF Tag
    <3>6. SenderInv'
      BY <1>1, <1>2, <1>4, <2>1, <2>3, <3>4, <3>5 DEF SenderInv, Live
    <3>. QED BY <1>3, <3>6 DEF AInv
  <2>4. CASE mode = "ccm"
    <3>1. tag' = Tag("ccm", CloseDomain(enc.acc).y, tlen)
      BY <2>1, <2>4
    <3>2. CloseDomain(enc.acc).y = CcmInput(SenderAad, fed, tlen)
      BY <1>5, <2>1, <2>2, <2>4, CcmBlocksAre
    <3>3. tag' = SingleShotTag(mode, SenderAad, fed, tlen)
      BY <2>4, <3>1, <3>2 DEF SingleShotTag
    <3>4. tag'.len = tlen
      BY <3>1 DEF Tag
    <3>5. SenderInv'
      BY <1>1, <1>2, <1>4, <1>5, <2>1, <2>4, <3>3, <3>4 DEF SenderInv, Live
    <3>. QED BY <1>3, <3>5 DEF AInv
  <2>5. CASE mode = "ctr"
    <3>1. tag' = None
      BY <2>1, <2>5
    <3>2. SenderInv'
      BY <1>1, <1>2, <1>4, <2>1, <2>5, <3>1 DEF SenderInv, Live
    <3>. QED BY <1>3, <3>2 DEF AInv
  <2>. QED BY <1>1, <2>3, <2>4, <2>5 DEF Modes
<1>. QED BY <1>6, <1>7

(* free: what was fed stays as it was sealed, without a tag. *)
LEMMA FreeKeeps ==
    ASSUME AInv, EncryptorFree
    PROVE  AInv'
<1>1. sphase = "live" /\ sphase' = "freed" /\ enc' = None
      /\ UNCHANGED <<mode, declared, tlen, fed, made, balked, tag>> /\ UNCHANGED rvars
  BY DEF EncryptorFree
<1>2. ReceiverInv' /\ CommitOnVerify' /\ GenuineAccepted'
  BY <1>1, ReceiverKept DEF AInv, Live
<1>3. DecryptorCeiling' = DecryptorCeiling
  BY <1>1 DEF DecryptorCeiling
<1>4. SenderInv'
  BY <1>1, <1>3 DEF AInv, SenderInv, Live
<1>. QED BY <1>2, <1>4 DEF AInv

(* The transport's texts are bytes, and long enough. *)
LEMMA WiresAreBytes ==
    ASSUME SenderInv, NEW p \in Wires
    PROVE  p \in Seq(Bits) /\ MaxLen <= Len(p)
<1>1. made \in Seq(Bits) /\ MaxLen \in Nat
  BY KeystreamedFacts, AeadAssumption DEF SenderInv
<1>2. PICK z \in Seq(Bits) : z = [k \in 1..(MaxLen - Len(made)) |-> 0]
                         /\ MaxLen <= Len(made) + Len(z)
  <2>1. PICK l \in Nat : l = Len(made)
    BY <1>1
  <2>2. CASE l <= MaxLen
    <3>1. PICK d \in Nat : d = MaxLen - l /\ MaxLen = l + d
      BY <1>1, <2>2
    <3>2. [k \in 1..d |-> 0] \in Seq(Bits) /\ Len([k \in 1..d |-> 0]) = d
      BY DEF Bits
    <3>3. PICK z \in Seq(Bits) : z = [k \in 1..d |-> 0] /\ Len(z) = d
      BY <3>2
    <3>4. MaxLen - Len(made) = d
      BY <2>1, <3>1
    <3>5. z = [k \in 1..(MaxLen - Len(made)) |-> 0]
      BY <3>3, <3>4
    <3>6. MaxLen <= Len(made) + Len(z)
      BY <2>1, <3>1, <3>3
    <3>. QED BY <3>5, <3>6
  <2>3. CASE ~(l <= MaxLen)
    <3>1. 1..(MaxLen - l) = {}
      BY <1>1, <2>3
    <3>2. [k \in 1..(MaxLen - l) |-> 0] = <<>>
      BY <3>1
    <3>3. <<>> \in Seq(Bits) /\ Len(<<>>) = 0
      OBVIOUS
    <3>4. [k \in 1..(MaxLen - Len(made)) |-> 0] = <<>>
      BY <2>1, <3>2
    <3>5. MaxLen <= Len(made) + Len(<<>>)
      BY <1>1, <2>1, <2>3, <3>3
    <3>. QED BY <3>3, <3>4, <3>5
  <2>. QED BY <2>2, <2>3
<1>3. PICK run \in Seq(Bits) : run = made \o z /\ MaxLen <= Len(run)
  <2>1. made \o z \in Seq(Bits) /\ Len(made \o z) = Len(made) + Len(z)
    BY <1>1
  <2>. QED BY <1>2, <2>1
<1>4. p = run \/ \E i \in 1..MaxLen : p = [run EXCEPT ![i] = 1 - @]
  BY <1>2, <1>3 DEF Wires
<1>5. ASSUME NEW i \in 1..MaxLen, p = [run EXCEPT ![i] = 1 - @]
      PROVE  p \in Seq(Bits) /\ Len(p) = Len(run)
  <2>1. i \in 1..Len(run)
    BY <1>1, <1>3
  <2>2. run[i] \in Bits
    BY <2>1
  <2>3. 1 - run[i] \in Bits
    BY <2>2 DEF Bits
  <2>4. PICK b \in Bits : b = 1 - run[i]
    BY <2>3
  <2>5. p = [run EXCEPT ![i] = b]
    BY <1>5, <2>4
  <2>. QED BY <2>1, <2>5
<1>. QED BY <1>3, <1>4, <1>5

-----------------------------------------------------------------------------
(* The blocks of a padded sequence: as many as its length calls for. *)
LEMMA PaddedBlocks ==
    ASSUME NEW s \in Seq(Nat)
    PROVE  /\ Whole(PadZero(s)) \in Seq(Seq(Nat))
           /\ Len(Whole(PadZero(s))) = Padded(Len(s)) /\ Padded(Len(s)) \in Nat
<1>1. PICK n \in Nat : n = Padded(Len(s))
  BY PadFacts
<1>2. PICK p \in Seq(Nat) : p = PadZero(s) /\ Len(p) = Mul(n, BS)
  BY <1>1, PadFacts
<1>3. QuoB(p) = n
  <2>1. Mul(n, BS) \in Nat
    BY MulFacts, BlockSize
  <2>2. 0 \in 0..(BS - 1) /\ Len(p) = Mul(n, BS) + 0
    BY <1>2, <2>1, BlockSize
  <2>. QED BY <2>2, Euclid, BlockSize DEF QuoB
<1>. QED BY <1>1, <1>2, <1>3, WholeFacts

(* GHASH's input says what was hashed: the lengths come last, and tell     *)
(* where the associated data ends.                                         *)
LEMMA GhashInjective ==
    ASSUME NEW a \in Seq(Nat), NEW p \in Seq(Nat), NEW b \in Seq(Nat), NEW q \in Seq(Nat),
           GhashInput(a, p) = GhashInput(b, q)
    PROVE  a = b /\ p = q
<1>1. PICK x, y : x = [aad |-> Len(a), ct |-> Len(p)] /\ y = [aad |-> Len(b), ct |-> Len(q)]
  OBVIOUS
<1>2. PICK Z : Z = Seq(Nat) \cup {x, y}
  OBVIOUS
<1>3. ASSUME NEW s \in Seq(Nat)
      PROVE  \E u \in Seq(Z) : u = Whole(PadZero(s)) /\ Len(u) = Padded(Len(s))
  BY <1>2, PaddedBlocks
<1>4. PICK A \in Seq(Z) : A = Whole(PadZero(a)) /\ Len(A) = Padded(Len(a))
  BY <1>3
<1>5. PICK P \in Seq(Z) : P = Whole(PadZero(p)) /\ Len(P) = Padded(Len(p))
  BY <1>3
<1>6. PICK B \in Seq(Z) : B = Whole(PadZero(b)) /\ Len(B) = Padded(Len(b))
  BY <1>3
<1>7. PICK Q \in Seq(Z) : Q = Whole(PadZero(q)) /\ Len(Q) = Padded(Len(q))
  BY <1>3
<1>8. PICK s \in Seq(Z) : s = A \o P
  <2>1. A \o P \in Seq(Z)
    OBVIOUS
  <2>. QED BY <2>1
<1>9. PICK t \in Seq(Z) : t = B \o Q
  <2>1. B \o Q \in Seq(Z)
    OBVIOUS
  <2>. QED BY <2>1
<1>10. PICK e \in Seq(Z) : e = <<x>> /\ Len(e) = 1 /\ e[1] = x
  <2>1. <<x>> \in Seq(Z) /\ Len(<<x>>) = 1 /\ <<x>>[1] = x
    BY <1>2
  <2>. QED BY <2>1
<1>11. PICK f \in Seq(Z) : f = <<y>> /\ Len(f) = 1 /\ f[1] = y
  <2>1. <<y>> \in Seq(Z) /\ Len(<<y>>) = 1 /\ <<y>>[1] = y
    BY <1>2
  <2>. QED BY <2>1
<1>12. s \o e = t \o f
  BY <1>1, <1>4, <1>5, <1>6, <1>7, <1>8, <1>9, <1>10, <1>11 DEF GhashInput
<1>13. Len(s) = Len(t)
  <2>1. PICK k \in Nat, l \in Nat : k = Len(s) /\ l = Len(t)
    OBVIOUS
  <2>2. Len(s \o e) = k + 1
    BY <1>10, <2>1, ConcatAt
  <2>3. Len(t \o f) = l + 1
    BY <1>11, <2>1, ConcatAt
  <2>. QED BY <1>12, <2>1, <2>2, <2>3
<1>14. s = t /\ e = f
  BY <1>12, <1>13, ConcatInjective
<1>15. Len(a) = Len(b) /\ Len(p) = Len(q)
  <2>1. x = y
    BY <1>10, <1>11, <1>14
  <2>2. x.aad = Len(a) /\ x.ct = Len(p) /\ y.aad = Len(b) /\ y.ct = Len(q)
    BY <1>1
  <2>. QED BY <2>1, <2>2
<1>16. A = B /\ P = Q
  <2>1. Len(A) = Len(B)
    BY <1>4, <1>6, <1>15
  <2>2. A \o P = B \o Q
    BY <1>8, <1>9, <1>14
  <2>. QED BY <2>1, <2>2, ConcatInjective
<1>. QED BY <1>4, <1>5, <1>6, <1>7, <1>15, <1>16, PadInjective

(* A length and the text it counts, padded, say what the text is. *)
LEMMA PrefixedInjective ==
    ASSUME NEW a \in Seq(Nat), NEW b \in Seq(Nat),
           Whole(PadZero(<<Len(a)>> \o a)) = Whole(PadZero(<<Len(b)>> \o b))
    PROVE  a = b
<1>. DEFINE s == <<Len(a)>> \o a  t == <<Len(b)>> \o b
<1>1. s \in Seq(Nat) /\ Len(s) = Len(a) + 1 /\ s[1] = Len(a) /\ Len(a) \in Nat
  OBVIOUS
<1>2. t \in Seq(Nat) /\ Len(t) = Len(b) + 1 /\ t[1] = Len(b) /\ Len(b) \in Nat
  OBVIOUS
<1>3. Whole(PadZero(s)) = Whole(PadZero(t))
  OBVIOUS
<1>4. <<Len(a)>> \in Seq(Nat) /\ <<Len(b)>> \in Seq(Nat) /\ Len(<<Len(a)>>) = Len(<<Len(b)>>)
  OBVIOUS
<1>5. s = t => a = b
  BY <1>4, ConcatInjective
<1>. HIDE DEF s, t
<1>6. PICK n \in Nat : n = Padded(Len(s)) /\ n = Padded(Len(t))
  <2>1. Len(Whole(PadZero(s))) = Padded(Len(s)) /\ Padded(Len(s)) \in Nat
    BY <1>1, PaddedBlocks
  <2>2. Len(Whole(PadZero(t))) = Padded(Len(t))
    BY <1>2, PaddedBlocks
  <2>. QED BY <1>3, <2>1, <2>2
<1>7. PadZero(s) \in Seq(Nat) /\ Len(PadZero(s)) = Mul(n, BS) /\ Len(s) <= Len(PadZero(s))
      /\ \A j \in 1..Len(PadZero(s)) : PadZero(s)[j] = IF j <= Len(s) THEN s[j] ELSE 0
  BY <1>1, <1>6, PadFacts
<1>8. PadZero(t) \in Seq(Nat) /\ Len(PadZero(t)) = Mul(n, BS) /\ Len(t) <= Len(PadZero(t))
      /\ \A j \in 1..Len(PadZero(t)) : PadZero(t)[j] = IF j <= Len(t) THEN t[j] ELSE 0
  BY <1>2, <1>6, PadFacts
<1>9. PadZero(s) = PadZero(t)
  BY <1>3, <1>7, <1>8, WholeInjective
<1>10. PadZero(s)[1] = s[1]
  <2>1. 1 \in 1..Len(PadZero(s)) /\ 1 <= Len(s)
    BY <1>1, <1>7
  <2>. QED BY <2>1, <1>7
<1>11. PadZero(t)[1] = t[1]
  <2>1. 1 \in 1..Len(PadZero(t)) /\ 1 <= Len(t)
    BY <1>2, <1>8
  <2>. QED BY <2>1, <1>8
<1>12. Len(s) = Len(t)
  BY <1>1, <1>2, <1>9, <1>10, <1>11
<1>. QED BY <1>1, <1>2, <1>3, <1>5, <1>12, PadInjective

(* What CBC-MAC runs over says what was sealed: B0 holds the lengths and   *)
(* whether there is associated data, which carries its own length.         *)
LEMMA CcmInjective ==
    ASSUME NEW a \in Seq(Nat), NEW p \in Seq(Nat), NEW k,
           NEW b \in Seq(Nat), NEW q \in Seq(Nat), NEW l,
           CcmInput(a, p, k) = CcmInput(b, q, l)
    PROVE  a = b /\ p = q /\ k = l
<1>. DEFINE Rest(s) == IF s = <<>> THEN <<>> ELSE Whole(PadZero(<<Len(s)>> \o s))
<1>1. PICK x : x = [adata |-> a # <<>>, len |-> Len(p), t |-> k]
  OBVIOUS
<1>2. PICK y : y = [adata |-> b # <<>>, len |-> Len(q), t |-> l]
  OBVIOUS
<1>3. PICK Z : Z = Seq(Nat) \cup {x, y}
  OBVIOUS
<1>4. ASSUME NEW s \in Seq(Nat) PROVE \E u \in Seq(Z) : u = Rest(s)
  <2>1. <<Len(s)>> \o s \in Seq(Nat)
    OBVIOUS
  <2>2. Whole(PadZero(<<Len(s)>> \o s)) \in Seq(Seq(Nat))
    BY <2>1, PaddedBlocks
  <2>. QED BY <1>3, <2>2
<1>5. ASSUME NEW s \in Seq(Nat)
      PROVE  \E u \in Seq(Z) : u = Whole(PadZero(s)) /\ Len(u) = Padded(Len(s))
  BY <1>3, PaddedBlocks
<1>6. PICK A \in Seq(Z) : A = Rest(a)
  BY <1>4
<1>7. PICK B \in Seq(Z) : B = Rest(b)
  BY <1>4
<1>8. PICK P \in Seq(Z) : P = Whole(PadZero(p)) /\ Len(P) = Padded(Len(p))
  BY <1>5
<1>9. PICK Q \in Seq(Z) : Q = Whole(PadZero(q)) /\ Len(Q) = Padded(Len(q))
  BY <1>5
<1>10. PICK e \in Seq(Z) : e = <<x>> /\ Len(e) = 1 /\ e[1] = x
  <2>1. <<x>> \in Seq(Z) /\ Len(<<x>>) = 1 /\ <<x>>[1] = x
    BY <1>3
  <2>. QED BY <2>1
<1>11. PICK f \in Seq(Z) : f = <<y>> /\ Len(f) = 1 /\ f[1] = y
  <2>1. <<y>> \in Seq(Z) /\ Len(<<y>>) = 1 /\ <<y>>[1] = y
    BY <1>3
  <2>. QED BY <2>1
<1>12. PICK r : r = CcmInput(a, p, k) /\ r = CcmInput(b, q, l)
  OBVIOUS
<1>13. IsParts(r, e, A, P, Z)
  BY <1>1, <1>6, <1>8, <1>10, <1>12 DEF CcmInput, CcmPrefix, IsParts
<1>14. IsParts(r, f, B, Q, Z)
  BY <1>2, <1>7, <1>9, <1>11, <1>12 DEF CcmInput, CcmPrefix, IsParts
<1>15. e = f /\ (Len(P) = Len(Q) => A = B /\ P = Q)
  <2>1. Len(e) = Len(f)
    BY <1>10, <1>11
  <2>. QED BY <2>1, <1>13, <1>14, PartsInjective
<1>16. (a # <<>>) = (b # <<>>) /\ Len(p) = Len(q) /\ k = l
  <2>1. x = y
    BY <1>10, <1>11, <1>15
  <2>2. x.adata = (a # <<>>) /\ x.len = Len(p) /\ x.t = k
    BY <1>1
  <2>3. y.adata = (b # <<>>) /\ y.len = Len(q) /\ y.t = l
    BY <1>2
  <2>. QED BY <2>1, <2>2, <2>3
<1>17. A = B /\ P = Q
  BY <1>8, <1>9, <1>15, <1>16
<1>18. p = q
  BY <1>8, <1>9, <1>16, <1>17, PadInjective
<1>19. a = b
  BY <1>6, <1>7, <1>16, <1>17, PrefixedInjective
<1>. QED BY <1>16, <1>18, <1>19

(* A tag's blocks are never none. *)
LEMMA SealedNotEmpty ==
    ASSUME NEW m \in {"gcm", "ccm"}, NEW a \in Seq(Bits), NEW p \in Seq(Bits), NEW t
    PROVE  SingleShotTag(m, a, p, t).blocks # <<>>
<1>1. a \in Seq(Nat) /\ p \in Seq(Nat) /\ Keystreamed(m, p) \in Seq(Nat)
  BY BitsAreNumbers, KeystreamedFacts DEF Modes
<1>2. CASE m = "gcm"
  <2>1. PICK c \in Seq(Nat) : c = Keystreamed(m, p)
    BY <1>1
  <2>2. PICK x : x = [aad |-> Len(a), ct |-> Len(c)]
    OBVIOUS
  <2>3. PICK Z : Z = Seq(Nat) \cup {x}
    OBVIOUS
  <2>4. PICK A \in Seq(Z) : A = Whole(PadZero(a))
    BY <1>1, <2>3, PaddedBlocks
  <2>5. PICK C \in Seq(Z) : C = Whole(PadZero(c))
    BY <2>3, PaddedBlocks
  <2>6. <<x>> \in Seq(Z) /\ Len(<<x>>) = 1
    BY <2>3
  <2>7. Len((A \o C) \o <<x>>) = Len(A) + Len(C) + 1
    BY <2>6
  <2>8. (A \o C) \o <<x>> # <<>>
    BY <2>7
  <2>9. SingleShotTag(m, a, p, t).blocks = (A \o C) \o <<x>>
    BY <1>2, <2>1, <2>2, <2>4, <2>5 DEF SingleShotTag, Tag, GhashInput
  <2>. QED BY <2>8, <2>9
<1>3. CASE m = "ccm"
  <2>1. PICK Y : /\ CcmPrefix(a, Len(p), t) \in Seq(Y)
                 /\ Len(CcmPrefix(a, Len(p), t)) >= 1
    BY <1>1, CcmPrefixIsSeq
  <2>2. PICK Z : Z = Seq(Nat) \cup Y
    OBVIOUS
  <2>3. PICK A \in Seq(Z) : A = CcmPrefix(a, Len(p), t) /\ Len(A) >= 1
    BY <2>1, <2>2
  <2>4. PICK P \in Seq(Z) : P = Whole(PadZero(p))
    BY <1>1, <2>2, PaddedBlocks
  <2>5. Len(A \o P) = Len(A) + Len(P)
    OBVIOUS
  <2>6. A \o P # <<>>
    BY <2>3, <2>5
  <2>7. SingleShotTag(m, a, p, t).blocks = A \o P
    BY <1>3, <2>3, <2>4 DEF SingleShotTag, Tag, CcmInput
  <2>. QED BY <2>6, <2>7
<1>. QED BY <1>2, <1>3

(* What a tag is over says what was sealed. *)
LEMMA SealInjective ==
    ASSUME NEW m \in {"gcm", "ccm"},
           NEW a \in Seq(Bits), NEW p \in Seq(Bits), NEW t,
           NEW b \in Seq(Bits), NEW q \in Seq(Bits), NEW u,
           SingleShotTag(m, a, p, t).blocks = SingleShotTag(m, b, q, u).blocks
    PROVE  a = b /\ p = q /\ (m = "ccm" => t = u)
<1>1. a \in Seq(Nat) /\ p \in Seq(Nat) /\ b \in Seq(Nat) /\ q \in Seq(Nat) /\ m \in Modes
  BY BitsAreNumbers DEF Modes
<1>2. CASE m = "gcm"
  <2>1. PICK c \in Seq(Nat) : c = Keystreamed(m, p) /\ Keystreamed(m, c) = p
    BY <1>1, KeystreamedFacts, KeystreamUndoes, BitsAreNumbers
  <2>2. PICK d \in Seq(Nat) : d = Keystreamed(m, q) /\ Keystreamed(m, d) = q
    BY <1>1, KeystreamedFacts, KeystreamUndoes, BitsAreNumbers
  <2>3. GhashInput(a, c) = GhashInput(b, d)
    BY <1>2, <2>1, <2>2 DEF SingleShotTag, Tag
  <2>4. a = b /\ c = d
    BY <1>1, <2>3, GhashInjective
  <2>. QED BY <1>2, <2>1, <2>2, <2>4
<1>3. CASE m = "ccm"
  <2>1. CcmInput(a, p, t) = CcmInput(b, q, u)
    BY <1>3 DEF SingleShotTag, Tag
  <2>. QED BY <1>1, <2>1, CcmInjective
<1>. QED BY <1>2, <1>3

(* The tag a decryptor computes is the single-shot one of what it opens. *)
LEMMA ExpectedIs ==
    ASSUME SenderInv, ReceiverInv, rphase = "live", ~dec.overflowed, NEW t
    PROVE  /\ mode \in {"gcm", "ccm"} /\ dec.buf = received
           /\ Expected(t) = SingleShotTag(mode, raad, Keystreamed(mode, received), t)
<1>1. /\ mode \in Modes /\ mode # "ctr" /\ raad \in Seq(Bits) /\ received \in Seq(Bits)
      /\ dec.buf = received /\ dec.acc = Folded(Whole(PadZero(raad)), received)
  BY DEF SenderInv, ReceiverInv
<1>2. raad \in Seq(Nat) /\ received \in Seq(Nat)
  BY <1>1, BitsAreNumbers
<1>3. CASE mode = "gcm"
  <2>1. GcmBlocks(dec.acc, Len(raad), Len(dec.buf)) = GhashInput(raad, received)
    BY <1>1, <1>2, GcmBlocksAre
  <2>2. Keystreamed("gcm", Keystreamed("gcm", received)) = received
    BY <1>1, KeystreamUndoes DEF Modes
  <2>3. Expected(t) = Tag("gcm", GhashInput(raad, received), t)
    BY <1>3, <2>1 DEF Expected
  <2>. QED BY <1>1, <1>3, <2>2, <2>3 DEF SingleShotTag
<1>4. CASE mode = "ccm"
  BY <1>1, <1>4 DEF Expected, SingleShotTag
<1>. QED BY <1>1, <1>3, <1>4 DEF Modes

-----------------------------------------------------------------------------
(* new: the decryptor's GHASH starts behind its own associated data. *)
LEMMA StartKeeps ==
    ASSUME AInv, NEW aad \in ReceiverAads, DecryptorNew(aad)
    PROVE  AInv'
<1>1. /\ rphase = "none" /\ mode # "ctr" /\ sphase \in Ended
      /\ rphase' = "live" /\ raad' = aad /\ mode' = mode
      /\ dec' = [acc |-> GcmStart(aad), buf |-> <<>>, overflowed |-> FALSE]
      /\ received' = received /\ released' = released /\ UNCHANGED <<mode, svars>>
  BY DEF DecryptorNew, Ended
<1>2. SenderInv' /\ sphase' = sphase
  BY <1>1, SenderKept DEF AInv, svars
<1>3. received = <<>> /\ released = None
  BY <1>1 DEF AInv, ReceiverInv, Live
<1>4. aad \in Seq(Bits) /\ aad \in Seq(Nat) /\ <<>> \in Seq(Bits)
  BY AeadAssumption, BitsAreNumbers
<1>5. GcmStart(aad) = Folded(Whole(PadZero(aad)), <<>>)
  BY <1>4, GcmStartFacts, AccIsFolded
<1>6. ReceiverInv'
  BY <1>1, <1>2, <1>3, <1>4, <1>5 DEF ReceiverInv, Live, Ended
<1>7. CommitOnVerify' /\ GenuineAccepted'
  BY <1>1, <1>3 DEF CommitOnVerify, GenuineAccepted
<1>. QED BY <1>2, <1>6, <1>7 DEF AInv

(* update: what was offered is kept, or the stream is over the ceiling for *)
(* good.                                                                   *)
LEMMA OfferKeeps ==
    ASSUME AInv, NEW chunk \in Chunks(received, Wires), DecryptorUpdate(chunk)
    PROVE  AInv'
<1>1. /\ rphase = "live" /\ rphase' = "live" /\ raad' = raad /\ mode' = mode
      /\ received' = received \o chunk /\ released' = released /\ UNCHANGED <<mode, svars>>
  BY DEF DecryptorUpdate
<1>2. SenderInv' /\ sphase' = sphase /\ DecryptorCeiling' = DecryptorCeiling
  BY <1>1, SenderKept DEF AInv, svars, DecryptorCeiling
<1>3. /\ mode # "ctr" /\ sphase \in Ended /\ raad \in Seq(Bits) /\ released = None
      /\ dec = [acc |-> dec.acc, buf |-> dec.buf, overflowed |-> dec.overflowed]
      /\ dec.buf \in Seq(Bits) /\ received \in Seq(Bits)
      /\ dec.acc = Folded(Whole(PadZero(raad)), dec.buf)
      /\ ~dec.overflowed => dec.buf = received
      /\ dec.overflowed => Len(received) > DecryptorCeiling
  BY <1>1 DEF AInv, ReceiverInv, Live
<1>4. chunk \in Seq(Bits)
  <2>1. \A p \in Wires : p \in Seq(Bits) /\ MaxLen <= Len(p)
    BY WiresAreBytes DEF AInv
  <2>. QED BY <1>3, <2>1, ChunkIsBytes
<1>5. PICK l \in Nat, c \in Nat : l = Len(received) /\ c = Len(chunk)
  BY <1>3, <1>4, SMTT(30)
<1>6. received \o chunk \in Seq(Bits) /\ Len(received \o chunk) = l + c
  BY <1>3, <1>4, <1>5
<1>7. CommitOnVerify' /\ GenuineAccepted'
  BY <1>1, <1>3 DEF CommitOnVerify, GenuineAccepted
<1>8. CASE dec.overflowed
  <2>1. dec' = dec /\ l > DecryptorCeiling
    BY <1>3, <1>5, <1>8 DEF DecryptorUpdate
  <2>2. l + c > DecryptorCeiling
    BY <2>1, CeilingsAreNumbers
  <2>3. ReceiverInv'
    BY <1>1, <1>2, <1>3, <1>6, <1>8, <2>1, <2>2 DEF ReceiverInv, Live, Ended
  <2>. QED BY <1>2, <1>7, <2>3 DEF AInv
<1>9. CASE ~dec.overflowed /\ Len(dec.buf) + Len(chunk) > DecryptorCeiling
  <2>1. dec' = [dec EXCEPT !.overflowed = TRUE] /\ l + c > DecryptorCeiling
    BY <1>3, <1>5, <1>9 DEF DecryptorUpdate
  <2>2. /\ dec' = [acc |-> dec'.acc, buf |-> dec'.buf, overflowed |-> dec'.overflowed]
        /\ dec'.acc = dec.acc /\ dec'.buf = dec.buf /\ dec'.overflowed = TRUE
    BY <1>3, <2>1
  <2>3. ReceiverInv'
    BY <1>1, <1>2, <1>3, <1>6, <2>1, <2>2 DEF ReceiverInv, Live, Ended
  <2>. QED BY <1>2, <1>7, <2>3 DEF AInv
<1>10. CASE ~dec.overflowed /\ ~(Len(dec.buf) + Len(chunk) > DecryptorCeiling)
  <2>1. dec' = [dec EXCEPT !.buf = @ \o chunk, !.acc = AbsorbAll(@, chunk)]
    BY <1>10 DEF DecryptorUpdate
  <2>2. /\ dec' = [acc |-> dec'.acc, buf |-> dec'.buf, overflowed |-> dec'.overflowed]
        /\ dec'.acc = AbsorbAll(dec.acc, chunk) /\ dec'.buf = received \o chunk /\ ~dec'.overflowed
    BY <1>3, <1>10, <2>1
  <2>3. PICK y \in Seq(Seq(Nat)) : y = Whole(PadZero(raad))
    BY <1>3, BitsAreNumbers, PaddedBlocks
  <2>4. AbsorbAll(Folded(y, received), chunk) = Folded(y, received \o chunk)
    BY <1>3, <1>4, AbsorbsAll
  <2>5. dec'.acc = Folded(Whole(PadZero(raad)), dec'.buf)
    BY <1>3, <1>10, <2>2, <2>3, <2>4
  <2>6. ReceiverInv'
    BY <1>1, <1>2, <1>3, <1>6, <2>2, <2>5 DEF ReceiverInv, Live, Ended
  <2>. QED BY <1>2, <1>7, <2>6 DEF AInv
<1>. QED BY <1>8, <1>9, <1>10

(* finalize_verify: the tag opens what was sealed, and nothing else.       *)
LEMMA VerifyKeeps ==
    ASSUME AInv, NEW g \in Delivered, NEW fits \in BOOLEAN, DecryptorFinalizeVerify(g, fits)
    PROVE  AInv'
<1>1. /\ rphase = "live" /\ given' = g /\ mode' = mode /\ raad' = raad /\ received' = received
      /\ fed' = fed /\ made' = made /\ tag' = tag /\ tlen' = tlen /\ sphase' = sphase
      /\ UNCHANGED <<mode, svars>>
  BY DEF DecryptorFinalizeVerify, svars
<1>2. SenderInv'
  BY <1>1, SenderKept DEF AInv
<1>3. /\ mode # "ctr" /\ sphase \in Ended /\ raad \in Seq(Bits) /\ released = None
      /\ received \in Seq(Bits)
      /\ dec.overflowed => Len(received) > DecryptorCeiling
  BY <1>1 DEF AInv, ReceiverInv, Live
<1>4. /\ mode \in Modes /\ fed \in Seq(Bits) /\ made = Keystreamed(mode, fed)
      /\ Len(fed) <= DecryptorCeiling
      /\ tag # None => /\ tag = SingleShotTag(mode, SenderAad, fed, tag.len)
                       /\ tag.len \in TagLens
                       /\ mode = "ccm" => tag.len = tlen
  BY <1>3 DEF AInv, SenderInv
<1>5. mode \in {"gcm", "ccm"} /\ SenderAad \in Seq(Bits)
  BY <1>3, <1>4, AeadAssumption DEF Modes
<1>6. PICK opened \in Seq(Bits) : opened = Keystreamed(mode, received)
                              /\ Keystreamed(mode, opened) = received
  BY <1>3, <1>4, KeystreamedFacts, KeystreamUndoes
<1>7. ASSUME ~dec.overflowed
      PROVE  dec.buf = received /\ Expected(g.len) = SingleShotTag(mode, raad, opened, g.len)
  BY <1>1, <1>6, <1>7, ExpectedIs DEF AInv
<1>8. rphase' \in Ended
  BY DEF DecryptorFinalizeVerify, Ended
<1>9. ReceiverInv'
  <2>1. rphase' # "none" /\ rphase' # "live" /\ rphase' \notin Live /\ rphase' \in Live \cup Ended
    BY <1>8 DEF Ended, Live
  <2>. QED BY <1>1, <1>3, <2>1 DEF ReceiverInv
<1>10. CASE ~dec.overflowed /\ g.len \in TagLens /\ g = Expected(g.len)
  <2>1. released' = (IF fits THEN Keystreamed(mode, dec.buf) ELSE None) /\ rphase' # "refused"
    BY <1>10 DEF DecryptorFinalizeVerify
  <2>2. g = SingleShotTag(mode, raad, opened, g.len) /\ released' \in {None, opened}
    BY <1>6, <1>7, <1>10, <2>1
  <2>3. g.blocks # <<>>
    BY <1>3, <1>5, <2>2, SealedNotEmpty
  <2>4. \A t : g # OtherTag(t)
    BY <2>3 DEF OtherTag, Tag
  <2>5. tag # None /\ \E t : g = [tag EXCEPT !.len = t]
    BY <2>4 DEF Delivered
  <2>6. g.blocks = tag.blocks
    <3>1. \A t : [tag EXCEPT !.len = t].blocks = tag.blocks
      BY <1>4, <2>5 DEF SingleShotTag, Tag
    <3>. QED BY <2>5, <3>1
  <2>7. SingleShotTag(mode, raad, opened, g.len).blocks
          = SingleShotTag(mode, SenderAad, fed, tag.len).blocks
    BY <1>4, <2>2, <2>5, <2>6
  <2>8. raad = SenderAad /\ opened = fed /\ (mode = "ccm" => g.len = tag.len)
    BY <1>3, <1>4, <1>5, <2>7, SealInjective
  <2>9. received = made /\ (mode = "ccm" => g.len = tlen)
    BY <1>4, <1>6, <2>5, <2>8
  <2>10. CommitOnVerify'
    BY <1>1, <2>2, <2>5, <2>8, <2>9 DEF CommitOnVerify
  <2>11. GenuineAccepted'
    BY <2>1 DEF GenuineAccepted
  <2>. QED BY <1>2, <1>9, <2>10, <2>11 DEF AInv
<1>11. CASE ~(~dec.overflowed /\ g.len \in TagLens /\ g = Expected(g.len))
  <2>1. released' = None
    BY <1>3, <1>11 DEF DecryptorFinalizeVerify
  <2>2. ASSUME tag # None, received = made, raad = SenderAad, g = tag PROVE FALSE
    <3>1. Len(made) = Len(fed) /\ Len(fed) \in Nat
      BY <1>4, KeystreamedFacts
    <3>2. ~dec.overflowed
      BY <1>3, <1>4, <2>2, <3>1, CeilingsAreNumbers
    <3>3. opened = fed
      BY <1>4, <1>6, <2>2, KeystreamUndoes
    <3>. QED BY <1>4, <1>7, <1>11, <2>2, <3>2, <3>3
  <2>3. CommitOnVerify'
    BY <2>1 DEF CommitOnVerify
  <2>4. GenuineAccepted'
    BY <1>1, <2>2 DEF GenuineAccepted
  <2>. QED BY <1>2, <1>9, <2>3, <2>4 DEF AInv
<1>. QED BY <1>10, <1>11

(* free: nothing is released. *)
LEMMA DropKeeps ==
    ASSUME AInv, DecryptorFree
    PROVE  AInv'
<1>1. /\ rphase = "live" /\ rphase' = "freed" /\ UNCHANGED <<mode, svars>>
      /\ UNCHANGED <<dec, raad, received, given, released>> /\ sphase' = sphase /\ mode' = mode
  BY DEF DecryptorFree, svars
<1>2. SenderInv'
  BY <1>1, SenderKept DEF AInv
<1>3. released = None
  BY <1>1 DEF AInv, ReceiverInv, Live
<1>4. ReceiverInv'
  BY <1>1 DEF AInv, ReceiverInv, Live, Ended
<1>5. CommitOnVerify' /\ GenuineAccepted'
  BY <1>1, <1>3 DEF CommitOnVerify, GenuineAccepted
<1>. QED BY <1>2, <1>4, <1>5 DEF AInv

-----------------------------------------------------------------------------
(* Every step keeps the invariant. *)
LEMMA StepKeeps == AInv /\ [ANext]_avars => AInv'
<1>. SUFFICES ASSUME AInv, [ANext]_avars PROVE AInv'
  OBVIOUS
<1>1. CASE \E len \in Declared \cup {None}, t \in TagLens \cup {BadTagLen, None} :
            EncryptorNew(len, t)
  BY <1>1, NewKeeps
<1>2. CASE \E chunk \in Chunks(fed, Payloads) : EncryptorUpdate(chunk)
  BY <1>2, UpdateKeeps
<1>3. CASE \E t \in TagLens \cup {BadTagLen} : EncryptorFinalize(t)
  BY <1>3, FinalizeKeeps
<1>4. CASE EncryptorFree
  BY <1>4, FreeKeeps
<1>5. CASE \E aad \in ReceiverAads : DecryptorNew(aad)
  BY <1>5, StartKeeps
<1>6. CASE \E chunk \in Chunks(received, Wires) : DecryptorUpdate(chunk)
  BY <1>6, OfferKeeps
<1>7. CASE \E g \in Delivered, fits \in BOOLEAN : DecryptorFinalizeVerify(g, fits)
  BY <1>7, VerifyKeeps
<1>8. CASE DecryptorFree
  BY <1>8, DropKeeps
<1>9. CASE UNCHANGED avars
  <2>1. /\ UNCHANGED <<mode, svars>> /\ sphase' = sphase /\ mode' = mode /\ tag' = tag
        /\ made' = made /\ fed' = fed /\ tlen' = tlen
        /\ UNCHANGED <<rphase, dec, raad, received, given, released>>
    BY <1>9 DEF avars, svars, rvars
  <2>2. SenderInv' /\ DecryptorCeiling' = DecryptorCeiling
    BY <2>1, SenderKept DEF AInv, DecryptorCeiling
  <2>3. ReceiverInv'
    BY <2>1, <2>2 DEF AInv, ReceiverInv
  <2>4. CommitOnVerify' /\ GenuineAccepted'
    BY <2>1 DEF AInv, CommitOnVerify, GenuineAccepted
  <2>. QED BY <2>2, <2>3, <2>4 DEF AInv
<1>. QED BY <1>1, <1>2, <1>3, <1>4, <1>5, <1>6, <1>7, <1>8, <1>9 DEF ANext

(* The invariant holds in every state of the streams. *)
LEMMA AlwaysAInv == ASpec => []AInv
  BY InitHolds, StepKeeps, PTL DEF ASpec

(* On any chunking a stream has produced what the single-shot function     *)
(* makes of what it accepted, and its tag is that function's: the counter, *)
(* the keystream left over and the partial block of the MAC carry across   *)
(* update calls exactly.                                                   *)
THEOREM StreamsAreSingleShot == ASpec => []StreamEqualsSingleShot
<1>1. AInv => StreamEqualsSingleShot
  BY DEF AInv, SenderInv, StreamEqualsSingleShot
<1>. QED BY <1>1, AlwaysAInv, PTL

(* No byte of keystream is used twice in a GCM or CCM stream, and none     *)
(* comes from the block that masks the tag: the ceilings are right for     *)
(* every counter width.                                                    *)
THEOREM KeystreamIsFresh == ASpec => []KeystreamNeverRepeats
<1>1. AInv => KeystreamNeverRepeats
  <2>. SUFFICES ASSUME AInv, enc # None, mode # "ctr" PROVE KeystreamNeverRepeats
    BY DEF KeystreamNeverRepeats
  <2>1. mode \in {"gcm", "ccm"} /\ fed \in Seq(Bits) /\ Len(fed) <= DecryptorCeiling
        /\ enc.used = PosFrom(mode, 0, Len(fed))
    BY DEF AInv, SenderInv, Modes
  <2>2. PICK n \in Nat : n = Len(fed) /\ n <= CeilingOf(mode)
    <3>1. Len(fed) \in Nat /\ CeilingOf(mode) = DecryptorCeiling
      BY <2>1 DEF CeilingOf, DecryptorCeiling
    <3>. QED BY <2>1, <3>1
  <2>3. PICK u : u = PosFrom(mode, 0, n)
    OBVIOUS
  <2>4. DOMAIN u = 1..n /\ \A j \in 1..n : u[j] = Pos(mode, j)
    BY <2>3 DEF PosFrom
  <2>5. ASSUME NEW i \in 1..n, NEW j \in 1..n PROVE (u[i] = u[j] => i = j) /\ u[i][1] # Mask[mode]
    BY <2>1, <2>2, <2>4, PositionsDiffer
  <2>. QED BY <2>1, <2>2, <2>3, <2>4, <2>5 DEF KeystreamNeverRepeats
<1>. QED BY <1>1, AlwaysAInv, PTL

(* finalize_verify gives out plaintext only when all that was offered is   *)
(* what the sender's encryptor produced, under its associated data.        *)
THEOREM OnlyWhatWasSealed == ASpec => []CommitOnVerify
<1>1. AInv => CommitOnVerify
  BY DEF AInv
<1>. QED BY <1>1, AlwaysAInv, PTL

(* What arrives as it was sent is never refused: the receiver's ceiling    *)
(* does not latch on a stream the sender could make.                       *)
THEOREM GenuineOpens == ASpec => []GenuineAccepted
<1>1. AInv => GenuineAccepted
  BY DEF AInv
<1>. QED BY <1>1, AlwaysAInv, PTL
=============================================================================
