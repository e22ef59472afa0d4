----------------------------- MODULE Sm3Proofs -----------------------------
(***************************************************************************)
(* Proofs about Sm3, for every block size, length field and digest size: a *)
(* stream that buffers a partial block, and never clears it, computes the  *)
(* hash of the bytes it was fed, and HMAC on top of it RFC 2104's code.    *)
(*                                                                         *)
(* The bytes of a block are compared one by one, with block boundaries     *)
(* kept as opaque products (At): the provers are good at linear arithmetic *)
(* and poor at any other.                                                  *)
(***************************************************************************)
EXTENDS Sm3, DataLemmas

(* What the assumption on the sizes says, in the form the proofs use. *)
LEMMA Sizes == BlockSize \in Nat \ {0} /\ BlockSize \in Nat /\ LengthSize \in 1..(BlockSize - 1)
               /\ DigestSize \in 1..BlockSize
  BY SizesAssumption

(* n blocks' worth of bytes; the whole blocks of s, and the bytes over. *)
At(n) == Mul(n, BlockSize)
QuoB(s) == Quo(Len(s), BlockSize)
RemB(s) == Rem(Len(s), BlockSize)
Blk(s, n) == [k \in 1..BlockSize |-> s[At(n - 1) + k]]

(* Arithmetic of block boundaries. *)
LEMMA AtFacts ==
    /\ At(0) = 0
    /\ \A n \in Nat : At(n) \in Nat
    /\ \A n, m \in Nat : At(n + m) = At(n) + At(m)
    /\ \A n \in Nat : At(n + 1) = At(n) + BlockSize
    /\ \A n \in Nat \ {0} : At(n) = At(n - 1) + BlockSize
    /\ \A n, m \in Nat : n <= m => At(n) <= At(m)
    /\ \A n \in Nat : At(n + 2) = At(n) + BlockSize + BlockSize
<1>1. ASSUME NEW n \in Nat PROVE At(n + 2) = At(n) + BlockSize + BlockSize
  <2>1. Mul(n + 2, BlockSize) = Mul(n, BlockSize) + Mul(2, BlockSize) /\ Mul(n, BlockSize) \in Nat
    BY MulFacts, Sizes
  <2>2. Mul(2, BlockSize) = BlockSize + BlockSize
    BY Sizes DEF Mul
  <2>. QED BY <2>1, <2>2, Sizes DEF At
<1>. QED BY <1>1, MulFacts, Sizes DEF At

(* A sequence is its whole blocks and less than a block more. *)
LEMMA LenFacts ==
    ASSUME NEW S, NEW s \in Seq(S)
    PROVE  /\ Len(s) \in Nat /\ QuoB(s) \in Nat /\ RemB(s) \in 0..(BlockSize - 1)
           /\ At(QuoB(s)) \in Nat
           /\ Len(s) = At(QuoB(s)) + RemB(s)
<1>1. Len(s) \in Nat
  OBVIOUS
<1>. QED BY <1>1, DivMod, Sizes DEF At, QuoB, RemB

(* Every whole block lies within the sequence. *)
LEMMA BlockRange ==
    ASSUME NEW S, NEW s \in Seq(S), NEW n \in 1..QuoB(s)
    PROVE  /\ n \in Nat /\ n - 1 \in Nat
           /\ At(n - 1) \in Nat /\ At(n) \in Nat /\ At(n) = At(n - 1) + BlockSize
           /\ At(n) <= At(QuoB(s)) /\ At(n) <= Len(s)
<1>1. n \in Nat \ {0} /\ n - 1 \in Nat /\ n <= QuoB(s) /\ QuoB(s) \in Nat
  BY LenFacts
<1>2. At(n) = At(n - 1) + BlockSize /\ At(n) \in Nat /\ At(n - 1) \in Nat /\ At(n) <= At(QuoB(s))
  BY <1>1, AtFacts
<1>3. At(QuoB(s)) <= Len(s)
  BY LenFacts, Sizes
<1>. QED BY <1>1, <1>2, <1>3, LenFacts

(* Blocks, without SubSeq. *)
LEMMA BlocksFacts ==
    ASSUME NEW S, NEW s \in Seq(S)
    PROVE  /\ Blocks(s) = [n \in 1..QuoB(s) |-> Blk(s, n)]
           /\ Blocks(s) \in Seq(Seq(S)) /\ Len(Blocks(s)) = QuoB(s)
<1>1. ASSUME NEW n \in 1..QuoB(s)
      PROVE  /\ SubSeq(s, (n - 1) * BlockSize + 1, n * BlockSize) = Blk(s, n)
             /\ Blk(s, n) \in Seq(S)
  <2>. DEFINE a == At(n - 1)  b == At(n)
  <2>1. a \in Nat /\ b \in Nat /\ b = a + BlockSize /\ b <= Len(s) /\ Len(s) \in Nat
    BY BlockRange, LenFacts
  <2>2. (n - 1) * BlockSize = a /\ n * BlockSize = b
    BY DEF At, Mul
  <2>. HIDE DEF a, b
  <2>3. SubSeq(s, a + 1, b) = [k \in 1..BlockSize |-> s[a + k]]
    <3>. DEFINE w == SubSeq(s, a + 1, b)  f == [k \in 1..BlockSize |-> s[a + k]]
    <3>1. w \in Seq(S) /\ Len(w) = BlockSize /\ \A k \in 1..BlockSize : w[k] = s[a + k]
      BY <2>1, Sizes
    <3>2. f \in Seq(S) /\ Len(f) = BlockSize /\ \A k \in 1..BlockSize : f[k] = s[a + k]
      BY <2>1, Sizes
    <3>. HIDE DEF w, f
    <3>3. w = f
      BY <3>1, <3>2
    <3>. QED BY <3>3 DEF w, f
  <2>4. [k \in 1..BlockSize |-> s[a + k]] \in Seq(S)
    BY <2>1, Sizes
  <2>. QED BY <2>1, <2>2, <2>3, <2>4 DEF Blk, a
<1>2. Blocks(s) = [n \in 1..QuoB(s) |-> Blk(s, n)]
  BY <1>1 DEF Blocks, QuoB, Quo
<1>3. QuoB(s) \in Nat
  BY LenFacts
<1>. QED BY <1>1, <1>2, <1>3

(* Tail0, without SubSeq. *)
LEMMA TailFacts ==
    ASSUME NEW S, NEW s \in Seq(S)
    PROVE  /\ Tail0(s) \in Seq(S) /\ Len(Tail0(s)) = RemB(s)
           /\ \A k \in 1..RemB(s) : Tail0(s)[k] = s[At(QuoB(s)) + k]
<1>. DEFINE a == At(QuoB(s))
<1>1. a \in Nat /\ Len(s) = a + RemB(s) /\ RemB(s) \in Nat /\ Len(s) \in Nat
  BY LenFacts, Sizes
<1>2. Tail0(s) = SubSeq(s, a + 1, Len(s))
  BY DEF Tail0, At, Mul, QuoB, Quo
<1>. HIDE DEF a
<1>3. Tail0(s) = [k \in 1..RemB(s) |-> s[a + k]]
  BY <1>1, <1>2
<1>4. Tail0(s) \in Seq(S)
  BY <1>1, <1>2
<1>. HIDE DEF Tail0
<1>5. Len(Tail0(s)) = RemB(s)
  BY <1>1, <1>3
<1>. QED BY <1>3, <1>4, <1>5 DEF a

(* Whole blocks in front shift the block count and leave the rest alone. *)
LEMMA LenSplit ==
    ASSUME NEW S, NEW u \in Seq(S), NEW v \in Seq(S), NEW p \in Nat, Len(u) = At(p)
    PROVE  /\ QuoB(u \o v) = p + QuoB(v) /\ RemB(u \o v) = RemB(v)
           /\ QuoB(u) = p /\ RemB(u) = 0
<1>1. /\ Len(u \o v) = At(p) + Len(v)
      /\ Len(v) \in Nat /\ At(p) \in Nat
  OBVIOUS
<1>2. Quo(Len(u \o v), BlockSize) = p + Quo(Len(v), BlockSize) /\ Rem(Len(u \o v), BlockSize) = Rem(Len(v), BlockSize)
  BY <1>1, QuotientShift, Sizes DEF At
<1>3. Quo(Len(u), BlockSize) = p /\ Rem(Len(u), BlockSize) = 0
  BY Euclid, Sizes, <1>1 DEF At
<1>. QED BY <1>2, <1>3 DEF QuoB, RemB

(* Whole blocks in front: the blocks of the two parts, one after the other. *)
LEMMA BlocksSplit ==
    ASSUME NEW S, NEW u \in Seq(S), NEW v \in Seq(S), NEW p \in Nat, Len(u) = At(p)
    PROVE  Blocks(u \o v) = Blocks(u) \o Blocks(v)
<1>. DEFINE Q == QuoB(v)
<1>1. /\ u \o v \in Seq(S) /\ Len(u \o v) = At(p) + Len(v)
      /\ Len(u) \in Nat /\ Len(v) \in Nat /\ At(p) \in Nat
  OBVIOUS
<1>2. QuoB(u \o v) = p + Q /\ QuoB(u) = p
  BY LenSplit
<1>3. Q \in Nat
  BY LenFacts
<1>4. ASSUME NEW n \in 1..p PROVE Blk(u \o v, n) = Blk(u, n)
  <2>. DEFINE a == At(n - 1)
  <2>1. a \in Nat /\ a + BlockSize <= Len(u)
    BY <1>2, BlockRange, Sizes
  <2>. HIDE DEF a
  <2>2. [k \in 1..BlockSize |-> (u \o v)[a + k]] = [k \in 1..BlockSize |-> u[a + k]]
    BY <2>1, <1>1, Sizes
  <2>. QED BY <2>2 DEF Blk, a
<1>5. ASSUME NEW n \in (p + 1)..(p + Q) PROVE Blk(u \o v, n) = Blk(v, n - p)
  <2>. DEFINE a == At(n - p - 1)  b == At(n - 1)
  <2>1. n - p \in 1..QuoB(v) /\ n - 1 = p + (n - p - 1) /\ n - p - 1 \in Nat
    BY <1>3
  <2>2. a \in Nat /\ a + BlockSize <= Len(v)
    BY <2>1, BlockRange, Sizes
  <2>3. b = Len(u) + a
    BY <2>1, AtFacts
  <2>. HIDE DEF a, b
  <2>4. [k \in 1..BlockSize |-> (u \o v)[b + k]] = [k \in 1..BlockSize |-> v[a + k]]
    <3>1. ASSUME NEW k \in 1..BlockSize PROVE (u \o v)[b + k] = v[a + k]
      <4>1. PICK i \in Nat : i = b + k
        BY <2>2, <2>3, <1>1
      <4>2. i \in 1..(Len(u) + Len(v)) /\ ~(i <= Len(u)) /\ i - Len(u) = a + k
        <5>1. k \in Nat \ {0} /\ a + k <= Len(v) /\ b + k = Len(u) + (a + k)
          BY <2>2, <2>3, <1>1, Sizes
        <5>. QED BY <5>1, <2>2, <1>1, <4>1
      <4>. QED BY <4>1, <4>2, ConcatFacts
    <3>. QED BY <3>1
  <2>. QED BY <2>4 DEF Blk, a, b
<1>6. /\ Blocks(u \o v) = [n \in 1..(p + Q) |-> Blk(u \o v, n)]
      /\ Blocks(u) = [n \in 1..p |-> Blk(u, n)]
      /\ Blocks(v) = [n \in 1..Q |-> Blk(v, n)]
      /\ Blocks(u) \in Seq(Seq(S)) /\ Blocks(v) \in Seq(Seq(S)) /\ Len(Blocks(u)) = p /\ Len(Blocks(v)) = Q
  BY <1>1, <1>2, BlocksFacts
<1>. HIDE DEF Q
<1>7. Blocks(u) \o Blocks(v) = [n \in 1..(p + Q) |-> IF n <= p THEN Blocks(u)[n] ELSE Blocks(v)[n - p]]
  BY <1>3, <1>6
<1>. QED BY <1>3, <1>4, <1>5, <1>6, <1>7

(* What follows a block does not change it. *)
LEMMA BlkLeft ==
    ASSUME NEW S, NEW m \in Seq(S), NEW t \in Seq(S), NEW n \in 1..QuoB(m)
    PROVE  Blk(m \o t, n) = Blk(m, n)
<1>. DEFINE a == At(n - 1)
<1>1. a \in Nat /\ a + BlockSize <= Len(m) /\ Len(m) \in Nat
  BY BlockRange, LenFacts, Sizes
<1>. HIDE DEF a
<1>2. [k \in 1..BlockSize |-> (m \o t)[a + k]] = [k \in 1..BlockSize |-> m[a + k]]
  BY <1>1, Sizes
<1>. QED BY <1>2 DEF Blk, a

(* What follows a message completes no block, one, or two. *)
LEMMA BlocksExtend ==
    ASSUME NEW S, NEW m \in Seq(S), NEW t \in Seq(S)
    PROVE  /\ QuoB(m \o t) = QuoB(m) => Blocks(m \o t) = Blocks(m)
           /\ QuoB(m \o t) = QuoB(m) + 1 =>
                Blocks(m \o t) = Append(Blocks(m), Blk(m \o t, QuoB(m) + 1))
           /\ QuoB(m \o t) = QuoB(m) + 2 =>
                Blocks(m \o t) = Append(Append(Blocks(m), Blk(m \o t, QuoB(m) + 1)),
                                        Blk(m \o t, QuoB(m) + 2))
<1>. DEFINE q == QuoB(m)  w == m \o t  bm == Blocks(m)
<1>1. w \in Seq(S) /\ q \in Nat
  BY LenFacts
<1>2. \A n \in 1..q : Blk(w, n) = bm[n]
  BY BlkLeft, BlocksFacts
<1>3. bm \in Seq(Seq(S)) /\ Len(bm) = q /\ bm = [n \in 1..q |-> bm[n]]
  BY BlocksFacts
<1>4. Blocks(w) = [n \in 1..QuoB(w) |-> Blk(w, n)]
  BY <1>1, BlocksFacts
<1>. HIDE DEF q, w, bm
<1>5. ASSUME QuoB(w) = q PROVE Blocks(w) = bm
  BY <1>2, <1>3, <1>4, <1>5
<1>6. ASSUME QuoB(w) = q + 1 PROVE Blocks(w) = Append(bm, Blk(w, q + 1))
  <2>. DEFINE x == Blk(w, q + 1)  T == Seq(S) \cup {x}  z == Append(bm, x)
  <2>1. bm \in Seq(T) /\ x \in T /\ Len(bm) = q
    BY <1>3
  <2>. HIDE DEF T
  <2>2. z \in Seq(T) /\ Len(z) = q + 1 /\ (\A n \in 1..q : z[n] = bm[n]) /\ z[q + 1] = x
    BY <2>1, AppendFacts
  <2>3. \A n \in 1..(q + 1) : Blocks(w)[n] = z[n]
    BY <1>1, <1>2, <1>4, <1>6, <2>2
  <2>. HIDE DEF z
  <2>4. Blocks(w) = [n \in 1..(q + 1) |-> Blocks(w)[n]] /\ z = [n \in 1..(q + 1) |-> z[n]]
    BY <1>4, <1>6, <2>2
  <2>. QED BY <2>3, <2>4 DEF z
<1>7. ASSUME QuoB(w) = q + 2 PROVE Blocks(w) = Append(Append(bm, Blk(w, q + 1)), Blk(w, q + 2))
  <2>. DEFINE x == Blk(w, q + 1)  y == Blk(w, q + 2)  T == Seq(S) \cup {x, y}
              z == Append(bm, x)  zz == Append(z, y)
  <2>1. bm \in Seq(T) /\ x \in T /\ y \in T /\ Len(bm) = q
    BY <1>3
  <2>. HIDE DEF T
  <2>2. z \in Seq(T) /\ Len(z) = q + 1 /\ (\A n \in 1..q : z[n] = bm[n]) /\ z[q + 1] = x
    BY <2>1, AppendFacts
  <2>. HIDE DEF z
  <2>3. zz \in Seq(T) /\ Len(zz) = q + 2 /\ (\A n \in 1..(q + 1) : zz[n] = z[n]) /\ zz[q + 2] = y
    BY <1>1, <2>1, <2>2, AppendFacts
  <2>4. \A n \in 1..(q + 2) : Blocks(w)[n] = zz[n]
    BY <1>1, <1>2, <1>4, <1>7, <2>2, <2>3, SMTT(30)
  <2>. HIDE DEF zz
  <2>5. Blocks(w) = [n \in 1..(q + 2) |-> Blocks(w)[n]] /\ zz = [n \in 1..(q + 2) |-> zz[n]]
    BY <1>4, <1>7, <2>3
  <2>. QED BY <2>4, <2>5 DEF z, zz
<1>. QED BY <1>5, <1>6, <1>7 DEF q, w, bm

(***************************************************************************)
(* The stream's invariant: after the bytes m, in whatever chunks, the      *)
(* blocks compressed are m's whole blocks, and the first buffer_len bytes  *)
(* of the buffer are the bytes over.  Nothing is said of the bytes behind  *)
(* them: they are stale, and finalize must not let them out.               *)
(***************************************************************************)
Holds(h, m) ==
    /\ h.state = Blocks(m)
    /\ h.buffer_len = RemB(m)
    /\ \A k \in 1..RemB(m) : h.buffer[k] = m[At(QuoB(m)) + k]
    /\ h.total_len = Len(m)

(* Sm3::new. *)
LEMMA NewHolds == Holds(NewSm3, <<>>)
<1>1. Quo(0, BlockSize) = 0 /\ Rem(0, BlockSize) = 0
  BY ZeroQuotient, Sizes
<1>2. QuoB(<<>>) = 0 /\ RemB(<<>>) = 0 /\ <<>> \in Seq({})
  BY <1>1 DEF QuoB, RemB
<1>3. Blocks(<<>>) = [n \in 1..0 |-> Blk(<<>>, n)]
  BY <1>2, BlocksFacts
<1>4. [n \in 1..0 |-> Blk(<<>>, n)] = <<>>
  OBVIOUS
<1>. QED BY <1>2, <1>3, <1>4 DEF Holds, NewSm3

(* update keeps the invariant, whatever the chunk: it may stay within the  *)
(* buffer, fill it exactly, or run over it by any number of blocks.        *)
LEMMA UpdateHolds ==
    ASSUME NEW S, NEW m \in Seq(S), NEW data \in Seq(S), NEW h, Holds(h, m)
    PROVE  Holds(Update(h, data), m \o data)
<1>1. PICK q \in Nat : q = QuoB(m)
  BY LenFacts
<1>2. PICK B \in Nat : B = BlockSize /\ B > 0
  BY Sizes
<1>3. PICK r \in Nat : r = RemB(m) /\ r < B
  BY <1>2, LenFacts
<1>4. PICK a \in Nat : a = At(q)
  BY AtFacts
<1>5. PICK d \in Nat : d = Len(data)
  OBVIOUS
<1>6. Len(m) = a + r
  BY <1>1, <1>3, <1>4, LenFacts
<1>7. PICK take \in Nat :
        /\ take = IF r = 0 THEN 0 ELSE IF B - r < d THEN B - r ELSE d
        /\ take <= d
  <2>. DEFINE x == IF r = 0 THEN 0 ELSE IF B - r < d THEN B - r ELSE d
  <2>1. x \in Nat /\ x <= d
    BY <1>3
  <2>. HIDE DEF x
  <2>2. \E y \in Nat : y = x /\ y <= d
    BY <2>1
  <2>. QED BY <2>2 DEF x
<1>8. /\ h.state = Blocks(m) /\ h.buffer_len = r /\ h.total_len = Len(m)
      /\ \A k \in 1..r : h.buffer[k] = m[a + k]
  BY <1>1, <1>3, <1>4 DEF Holds
<1>. DEFINE u == SubSeq(data, 1, take)
            rest == SubSeq(data, take + 1, Len(data))
            buffer == Overwrite(h.buffer, r, u)
            full == r > 0 /\ take = B - r
            new == Update(h, data)
<1>9. /\ new.state = (IF full THEN Append(Blocks(m), buffer) ELSE Blocks(m)) \o Blocks(rest)
      /\ new.buffer = Overwrite(buffer, 0, Tail0(rest))
      /\ new.buffer_len = IF Tail0(rest) # <<>> THEN Len(Tail0(rest)) ELSE Refilled(h, take)
      /\ new.total_len = Len(m) + Len(data)
  BY <1>2, <1>5, <1>7, <1>8 DEF Update
<1>. HIDE DEF new
<1>10. /\ u \in Seq(S) /\ Len(u) = take /\ rest \in Seq(S) /\ Len(rest) = d - take
       /\ data = u \o rest
  <2>1. take \in 0..Len(data)
    BY <1>5, <1>7
  <2>2. /\ Upto(data, take) \in Seq(S) /\ Len(Upto(data, take)) = take
        /\ Beyond(data, take) \in Seq(S) /\ Len(Beyond(data, take)) = Len(data) - take
        /\ data = Upto(data, take) \o Beyond(data, take)
    BY <2>1, CutFacts
  <2>. QED BY <2>2, <1>5 DEF Upto, Beyond
<1>11. buffer = [k \in 1..B |-> IF k > r /\ k <= r + take THEN u[k - r] ELSE h.buffer[k]]
  BY <1>2, <1>10 DEF Overwrite
<1>. HIDE DEF u, rest, buffer
<1>12. PICK t \in Nat : t = RemB(rest) /\ t < B
  <2>1. RemB(rest) \in 0..(BlockSize - 1)
    BY <1>10, LenFacts
  <2>. QED BY <2>1, <1>2
<1>13. PICK p \in Nat : p = QuoB(rest)
  BY <1>10, LenFacts
<1>14. PICK b \in Nat : b = At(p)
  BY AtFacts
<1>15. Len(rest) = b + t
  BY <1>10, <1>12, <1>13, <1>14, LenFacts
<1>16. /\ Tail0(rest) \in Seq(S) /\ Len(Tail0(rest)) = t
       /\ \A k \in 1..t : Tail0(rest)[k] = rest[b + k]
  BY <1>10, <1>12, <1>13, <1>14, TailFacts
<1>17. new.buffer = [k \in 1..B |-> IF k <= t THEN rest[b + k] ELSE buffer[k]]
  <2>1. new.buffer = [k \in 1..B |-> IF k > 0 /\ k <= 0 + t THEN Tail0(rest)[k - 0] ELSE buffer[k]]
    BY <1>2, <1>9, <1>16 DEF Overwrite
  <2>2. ASSUME NEW k \in 1..B
        PROVE (IF k > 0 /\ k <= 0 + t THEN Tail0(rest)[k - 0] ELSE buffer[k])
               = IF k <= t THEN rest[b + k] ELSE buffer[k]
    BY <1>16
  <2>. QED BY <2>1, <2>2
<1>. DEFINE w == m \o u
<1>18. /\ w \in Seq(S) /\ Len(w) = a + (r + take)
       /\ \A i \in 1..(a + (r + take)) : w[i] = IF i <= a + r THEN m[i] ELSE u[i - (a + r)]
  <2>1. /\ w \in Seq(S) /\ Len(w) = Len(m) + Len(u)
        /\ \A i \in 1..(Len(m) + Len(u)) : w[i] = IF i <= Len(m) THEN m[i] ELSE u[i - Len(m)]
    BY <1>10, ConcatFacts
  <2>2. Len(m) + Len(u) = a + (r + take)
    BY <1>6, <1>10
  <2>. HIDE DEF w
  <2>. QED BY <1>6, <2>1, <2>2
<1>19. m \o data = w \o rest
  <2>1. m \in Seq(S) /\ u \in Seq(S) /\ rest \in Seq(S)
    BY <1>10
  <2>2. (m \o u) \o rest = m \o (u \o rest)
    BY <2>1, ConcatAssoc
  <2>. QED BY <2>2, <1>10
<1>20. m \o data \in Seq(S) /\ Len(m \o data) = Len(m) + Len(data)
  BY ConcatFacts
<1>21. /\ Blocks(m) \in Seq(Seq(S)) /\ Blocks(rest) \in Seq(Seq(S)) /\ Len(Blocks(rest)) = p
  BY <1>10, <1>13, BlocksFacts
<1>22. CASE r = 0 \/ r + take = B
  <2>. HIDE DEF w
  <2>1. PICK e \in Nat : e = IF r = 0 THEN q ELSE q + 1
    OBVIOUS
  <2>2. At(e) = a + (r + take) /\ (r = 0 => take = 0)
    <3>1. CASE r = 0
      BY <3>1, <1>4, <1>7, <2>1
    <3>2. CASE r # 0
      <4>1. At(q + 1) = a + B
        BY <1>2, <1>4, AtFacts
      <4>. QED BY <4>1, <3>2, <1>22, <2>1
    <3>. QED BY <3>1, <3>2
  <2>3. /\ QuoB(w \o rest) = e + p /\ RemB(w \o rest) = t /\ QuoB(w) = e
        /\ Blocks(w \o rest) = Blocks(w) \o Blocks(rest)
    <3>1. w \in Seq(S) /\ rest \in Seq(S) /\ Len(w) = At(e)
      BY <1>10, <1>18, <2>2
    <3>2. QuoB(w \o rest) = e + QuoB(rest) /\ RemB(w \o rest) = RemB(rest) /\ QuoB(w) = e
      BY <3>1, LenSplit
    <3>3. Blocks(w \o rest) = Blocks(w) \o Blocks(rest)
      BY <3>1, BlocksSplit
    <3>. QED BY <3>2, <3>3, <1>12, <1>13
  <2>4. new.state = Blocks(m \o data)
    <3>1. CASE r = 0
      <4>1. u = <<>> /\ ~full
        BY <3>1, <2>2, <1>10
      <4>2. w = m
        BY <4>1 DEF w
      <4>. HIDE DEF full
      <4>. QED BY <4>1, <4>2, <1>9, <1>19, <2>3
    <3>2. CASE r # 0
      <4>1. full
        BY <3>2, <1>22
      <4>2. Blocks(w) = Append(Blocks(m), Blk(w, q + 1))
        <5>1. QuoB(m \o u) = QuoB(m) + 1
          BY <3>2, <1>1, <2>1, <2>3 DEF w
        <5>. QED BY <5>1, <1>1, <1>10, BlocksExtend DEF w
      <4>3. ASSUME NEW k \in 1..B PROVE buffer[k] = w[a + k]
        <5>1. PICK i \in Nat : i = a + k
          OBVIOUS
        <5>2. i \in 1..(a + (r + take)) /\ (i <= a + r <=> ~(k > r)) /\ i - (a + r) = k - r /\ k <= r + take
          BY <5>1, <3>2, <1>22
        <5>3. w[i] = IF k > r THEN u[k - r] ELSE m[i]
          BY <5>2, <1>18
        <5>4. buffer[k] = IF k > r THEN u[k - r] ELSE m[a + k]
          BY <5>2, <1>8, <1>11
        <5>. QED BY <5>1, <5>3, <5>4
      <4>4. Blk(w, q + 1) = [k \in 1..B |-> w[a + k]]
        <5>1. (q + 1) - 1 = q
          OBVIOUS
        <5>. QED BY <5>1, <1>2, <1>4 DEF Blk
      <4>5. buffer = [k \in 1..B |-> w[a + k]]
        BY <4>3, <1>11
      <4>. HIDE DEF full
      <4>. QED BY <4>1, <4>2, <4>4, <4>5, <1>9, <1>19, <2>3
    <3>. QED BY <3>1, <3>2
  <2>5. new.buffer_len = t
    <3>1. CASE Tail0(rest) # <<>>
      BY <3>1, <1>9, <1>16
    <3>2. CASE Tail0(rest) = <<>>
      <4>1. t = 0
        BY <3>2, <1>16
      <4>2. Refilled(h, take) = 0
        BY <1>2, <1>3, <1>8, <1>22, <2>2 DEF Refilled
      <4>. QED BY <3>2, <4>1, <4>2, <1>9
    <3>. QED BY <3>1, <3>2
  <2>6. ASSUME NEW k \in 1..t PROVE new.buffer[k] = (w \o rest)[At(e + p) + k]
    <3>1. At(e + p) = a + (r + take) + b
      BY <1>4, <1>14, <2>2, AtFacts
    <3>2. PICK c \in Nat : c = a + (r + take)
      OBVIOUS
    <3>3. PICK i \in Nat : i = At(e + p) + k /\ i = c + b + k
      BY <3>1, <3>2
    <3>4. i \in 1..(c + (b + t)) /\ ~(i <= c) /\ i - c = b + k
      BY <3>3
    <3>. DEFINE x == w \o rest
    <3>5. \A j \in 1..(Len(w) + Len(rest)) : x[j] = IF j <= Len(w) THEN w[j] ELSE rest[j - Len(w)]
      BY <1>10, <1>18, ConcatFacts
    <3>. HIDE DEF x
    <3>6. x[i] = rest[b + k]
      BY <3>2, <3>4, <3>5, <1>15, <1>18
    <3>7. new.buffer[k] = rest[b + k]
      BY <1>12, <1>17
    <3>. QED BY <3>3, <3>6, <3>7 DEF x
  <2>. QED BY <2>3, <2>4, <2>5, <2>6, <1>9, <1>19, <1>20 DEF Holds, new
<1>23. CASE ~(r = 0 \/ r + take = B)
  <2>1. take = d /\ r + d < B /\ ~full
    BY <1>3, <1>7, <1>23
  <2>. HIDE DEF full
  <2>2. Len(rest) = 0 /\ rest = <<>> /\ u = data
    BY <1>5, <1>10, <2>1
  <2>3. p = 0 /\ t = 0
    <3>1. Quo(0, BlockSize) = 0 /\ Rem(0, BlockSize) = 0
      BY ZeroQuotient, Sizes
    <3>. QED BY <3>1, <2>2, <1>12, <1>13 DEF QuoB, RemB
  <2>4. QuoB(w) = q /\ RemB(w) = r + d
    <3>1. Len(w) = Mul(q, BlockSize) + (r + d)
      BY <1>4, <1>18, <2>1 DEF At
    <3>2. r + d \in 0..(BlockSize - 1)
      BY <1>2, <2>1
    <3>3. Quo(Len(w), BlockSize) = q /\ Rem(Len(w), BlockSize) = r + d
      BY <3>1, <3>2, Euclid, Sizes
    <3>. QED BY <3>3 DEF QuoB, RemB
  <2>5. m \o data = w
    BY <2>2
  <2>6. Blocks(w) = Blocks(m)
    BY <1>1, <1>10, <2>4, BlocksExtend
  <2>7. Blocks(m) \o Blocks(rest) = Blocks(m)
    <3>1. Blocks(rest) = <<>>
      BY <1>21, <2>3
    <3>. QED BY <3>1, <1>21
  <2>8. new.state = Blocks(w)
    BY <1>9, <2>1, <2>6, <2>7
  <2>9. new.buffer_len = r + d
    <3>1. Tail0(rest) = <<>>
      BY <1>16, <2>3
    <3>2. Refilled(h, take) = r + d
      BY <1>2, <1>8, <2>1 DEF Refilled
    <3>. QED BY <3>1, <3>2, <1>9
  <2>. HIDE DEF w
  <2>10. ASSUME NEW k \in 1..(r + d) PROVE new.buffer[k] = w[At(q) + k]
    <3>1. k \in 1..B
      BY <2>1
    <3>2. new.buffer[k] = buffer[k]
      BY <3>1, <1>17, <2>3
    <3>3. buffer[k] = IF k > r THEN u[k - r] ELSE m[a + k]
      BY <3>1, <1>8, <1>11, <2>1
    <3>4. PICK i \in Nat : i = a + k
      OBVIOUS
    <3>5. i \in 1..(a + (r + take)) /\ (i <= a + r <=> ~(k > r)) /\ i - (a + r) = k - r
      BY <3>4, <2>1
    <3>6. w[i] = IF k > r THEN u[k - r] ELSE m[i]
      BY <3>5, <1>18
    <3>. QED BY <3>2, <3>3, <3>4, <3>6, <1>4
  <2>. QED BY <2>4, <2>5, <2>8, <2>9, <2>10, <1>9, <1>20 DEF Holds, new
<1>. QED BY <1>22, <1>23

(* The padding's CHOOSE: there is one gap that fills the last block. *)
LEMMA GapUnique ==
    ASSUME NEW n \in Nat, NEW z \in 0..(BlockSize - 1), NEW q \in Nat,
           n + 1 + z + LengthSize = At(q)
    PROVE  (CHOOSE y \in 0..(BlockSize - 1) : (n + 1 + y + LengthSize) % BlockSize = 0) = z
<1>1. (n + 1 + z + LengthSize) % BlockSize = 0
  <2>. DEFINE a == n + 1 + z + LengthSize
  <2>1. a = Mul(q, BlockSize) + 0
    BY Sizes, AtFacts DEF At
  <2>. HIDE DEF a
  <2>2. Rem(a, BlockSize) = 0
    BY <2>1, Euclid, Sizes
  <2>. QED BY <2>2 DEF Rem, a
<1>2. ASSUME NEW y \in 0..(BlockSize - 1), (n + 1 + y + LengthSize) % BlockSize = 0
      PROVE  y = z
  <2>. DEFINE a == n + 1 + y + LengthSize
  <2>1. a \in Nat /\ Rem(a, BlockSize) = 0
    BY <1>2, Sizes DEF Rem
  <2>. HIDE DEF a
  <2>. DEFINE p == Quo(a, BlockSize)
  <2>2. p \in Nat /\ a = At(p)
    BY <2>1, DivMod, Sizes DEF At
  <2>. HIDE DEF p
  <2>3. /\ p < q => At(p) + BlockSize <= At(q)
        /\ q < p => At(q) + BlockSize <= At(p)
        /\ At(p) \in Nat /\ At(q) \in Nat
    BY <2>2, MulFacts, Sizes DEF At
  <2>4. a - At(q) = y - z
    BY Sizes DEF a
  <2>5. p = q
    BY <2>2, <2>3, <2>4, Sizes
  <2>. QED BY <2>2, <2>3, <2>4, <2>5, Sizes
<1>. QED BY <1>1, <1>2

(* What SM3's padding puts behind a message, once the gap is known. *)
PaddedTail(n, gap) == (<<Mark>> \o Zeros(gap)) \o LengthBytes(n)
PadSyms(n) == {Zero, Mark} \cup {<<"length", n, k>> : k \in 1..LengthSize}

(* A message m of n bytes takes gap zeros to fill p blocks. *)
IsGap(S, m, n, gap, p) ==
    /\ m \in Seq(S) /\ n \in Nat /\ n = Len(m)
    /\ gap \in 0..(BlockSize - 1) /\ p \in Nat /\ n + 1 + gap + LengthSize = At(p)

(* w is m with the standard's padding, byte by byte: it ends with a block. *)
IsPadded(w, S, m, n, gap, p) ==
    /\ w = m \o PaddedTail(n, gap)
    /\ m \in Seq(S \cup PadSyms(n)) /\ PaddedTail(n, gap) \in Seq(S \cup PadSyms(n))
    /\ w \in Seq(S \cup PadSyms(n)) /\ Len(w) = At(p)
    /\ QuoB(w) = p
    /\ \A i \in 1..(n + 1 + gap + LengthSize) :
         w[i] = IF i <= n THEN m[i] ELSE IF i = n + 1 THEN Mark
                ELSE IF i <= n + 1 + gap THEN Zero ELSE LengthBytes(n)[i - n - 1 - gap]

(* Padded is that padding. *)
LEMMA PaddedBytes ==
    ASSUME NEW S, NEW m \in Seq(S), NEW n \in Nat, n = Len(m),
           NEW gap \in 0..(BlockSize - 1), NEW p \in Nat, n + 1 + gap + LengthSize = At(p)
    PROVE  IsPadded(Padded(m), S, m, n, gap, p)
<1>6. PICK L \in Nat : L = LengthSize
  BY Sizes
<1>. DEFINE T == S \cup PadSyms(n)
            one == <<Mark>>
            zs == Zeros(gap)
            lb == LengthBytes(n)
            tail == (one \o zs) \o lb
            w == m \o tail
<1>12. (CHOOSE z \in 0..(BlockSize - 1) : (n + 1 + z + LengthSize) % BlockSize = 0) = gap
  BY GapUnique
<1>13. /\ m \in Seq(T) /\ one \in Seq(T) /\ zs \in Seq(T) /\ lb \in Seq(T)
      /\ Len(m) = n /\ Len(one) = 1 /\ Len(zs) = gap /\ Len(lb) = L
      /\ one[1] = Mark
      /\ \A k \in 1..gap : zs[k] = Zero
  BY <1>6 DEF Zeros, LengthBytes, PadSyms
<1>. HIDE DEF T, one, zs, lb
<1>14. /\ tail \in Seq(T) /\ Len(tail) = 1 + gap + L
      /\ \A k \in 1..(1 + gap + L) :
           tail[k] = IF k = 1 THEN Mark ELSE IF k <= 1 + gap THEN Zero ELSE lb[k - 1 - gap]
  <2>. DEFINE oz == one \o zs
  <2>1. /\ oz \in Seq(T) /\ Len(oz) = Len(one) + Len(zs)
        /\ \A k \in 1..(Len(one) + Len(zs)) : oz[k] = IF k <= Len(one) THEN one[k] ELSE zs[k - Len(one)]
    BY <1>13, ConcatFacts
  <2>. HIDE DEF oz
  <2>2. \A k \in 1..(1 + gap) : oz[k] = IF k <= 1 THEN one[k] ELSE zs[k - 1]
    BY <1>13, <2>1
  <2>3. \A k \in 1..(1 + gap) : oz[k] = IF k = 1 THEN Mark ELSE Zero
    BY <1>13, <2>2
  <2>4. Len(oz) = 1 + gap
    BY <1>13, <2>1
  <2>. DEFINE x == oz \o lb
  <2>5. /\ x \in Seq(T) /\ Len(x) = Len(oz) + Len(lb)
        /\ \A k \in 1..(Len(oz) + Len(lb)) : x[k] = IF k <= Len(oz) THEN oz[k] ELSE lb[k - Len(oz)]
    <3>1. oz \in Seq(T) /\ lb \in Seq(T)
      BY <1>13, <2>1
    <3>. QED BY <3>1, ConcatFacts
  <2>. HIDE DEF x
  <2>6. ASSUME NEW k \in 1..(1 + gap + L)
        PROVE x[k] = IF k = 1 THEN Mark ELSE IF k <= 1 + gap THEN Zero ELSE lb[k - 1 - gap]
    <3>1. x[k] = IF k <= 1 + gap THEN oz[k] ELSE lb[k - (1 + gap)]
      BY <1>13, <2>4, <2>5
    <3>2. k - (1 + gap) = k - 1 - gap
      OBVIOUS
    <3>. QED BY <2>3, <3>1, <3>2
  <2>. QED BY <1>13, <2>4, <2>5, <2>6 DEF oz, x
<1>. HIDE DEF tail
<1>15. Padded(m) = w
  <2>1. Padded(m) = ((m \o one) \o zs) \o lb
    BY <1>12 DEF Padded, one, zs, lb
  <2>2. m \in Seq(T) /\ one \in Seq(T) /\ zs \in Seq(T) /\ lb \in Seq(T)
    BY <1>13
  <2>3. (m \o one) \o zs = m \o (one \o zs)
    <3>1. m \in Seq(T) /\ one \in Seq(T) /\ zs \in Seq(T)
      BY <2>2
    <3>. QED BY <3>1, ConcatAssoc, SMTT(30)
  <2>4. one \o zs \in Seq(T)
    BY <2>2, ConcatFacts
  <2>. DEFINE oz == one \o zs
  <2>. HIDE DEF oz
  <2>5. oz \in Seq(T)
    BY <2>4 DEF oz
  <2>6. (m \o oz) \o lb = m \o (oz \o lb)
    <3>1. m \in Seq(T) /\ oz \in Seq(T) /\ lb \in Seq(T)
      BY <2>5, <2>2
    <3>. QED BY <3>1, ConcatAssoc, SMTT(30)
  <2>. QED BY <2>1, <2>3, <2>6 DEF tail, oz
<1>16. /\ w \in Seq(T) /\ Len(w) = At(p)
      /\ \A i \in 1..(n + 1 + gap + L) : w[i] = IF i <= n THEN m[i] ELSE tail[i - n]
  <2>1. /\ w \in Seq(T) /\ Len(w) = Len(m) + Len(tail)
        /\ \A i \in 1..(Len(m) + Len(tail)) : w[i] = IF i <= Len(m) THEN m[i] ELSE tail[i - Len(m)]
    <3>1. m \in Seq(T) /\ tail \in Seq(T)
      BY <1>13, <1>14
    <3>. QED BY <3>1, ConcatFacts
  <2>2. Len(m) + Len(tail) = n + 1 + gap + L
    BY <1>13, <1>14
  <2>. HIDE DEF w
  <2>. QED BY <1>6, <1>13, <2>1, <2>2
<1>17. ASSUME NEW i \in 1..(n + 1 + gap + L)
      PROVE  w[i] = IF i <= n THEN m[i] ELSE IF i = n + 1 THEN Mark
                    ELSE IF i <= n + 1 + gap THEN Zero ELSE lb[i - n - 1 - gap]
  <2>. HIDE DEF w
  <2>1. CASE i <= n
    BY <2>1, <1>16
  <2>2. CASE ~(i <= n)
    <3>1. PICK k \in 1..(1 + gap + L) : i = n + k /\ k = i - n
      <4>1. n \in Nat /\ gap \in Nat
        BY Sizes
      <4>2. i - n \in 1..(1 + gap + L) /\ i = n + (i - n)
        BY <2>2, <4>1
      <4>. QED BY <4>2
    <3>2. w[i] = tail[k]
      BY <2>2, <3>1, <1>16
    <3>3. tail[k] = IF k = 1 THEN Mark ELSE IF k <= 1 + gap THEN Zero ELSE lb[k - 1 - gap]
      BY <1>14
    <3>. QED BY <2>2, <3>1, <3>2, <3>3
  <2>. QED BY <2>1, <2>2
<1>. HIDE DEF w
<1>18. QuoB(w) = p
  <2>2. Len(w) = Mul(p, BlockSize) + 0
    <3>1. Mul(p, BlockSize) \in Nat
      BY MulFacts, Sizes
    <3>. QED BY <1>16, <3>1 DEF At
  <2>3. Quo(Len(w), BlockSize) = p
    BY <2>2, Euclid, Sizes
  <2>. QED BY <2>3 DEF QuoB
<1>19. tail = PaddedTail(n, gap)
  BY DEF tail, one, zs, lb, PaddedTail
<1>20. \A i \in 1..(n + 1 + gap + LengthSize) :
          w[i] = IF i <= n THEN m[i] ELSE IF i = n + 1 THEN Mark
                 ELSE IF i <= n + 1 + gap THEN Zero ELSE lb[i - n - 1 - gap]
  BY <1>17, <1>6
<1>21. w = m \o tail
  BY DEF w
<1>. QED BY <1>13, <1>14, <1>15, <1>16, <1>18, <1>19, <1>20, <1>21 DEF T, lb, IsPadded

(* The same, with its hypotheses named. *)
LEMMA PaddedFacts ==
    ASSUME NEW S, NEW m, NEW n, NEW gap, NEW p, IsGap(S, m, n, gap, p)
    PROVE  IsPadded(Padded(m), S, m, n, gap, p)
  BY PaddedBytes DEF IsGap

(* finalize: one closing block or two, and every byte of them is the       *)
(* standard's, so that none of the buffer's stale bytes is left.           *)
LEMMA FinalizeIsHash ==
    ASSUME NEW S, NEW m \in Seq(S), NEW h, Holds(h, m)
    PROVE  Finalize(h) = RefHash(m)
<1>1. PICK q \in Nat : q = QuoB(m)
  BY LenFacts
<1>2. PICK r \in 0..(BlockSize - 1) : r = RemB(m)
  BY LenFacts
<1>3. PICK n \in Nat : n = Len(m)
  BY LenFacts
<1>4. PICK a \in Nat : a = At(q)
  BY AtFacts
<1>5. PICK B \in Nat : B = BlockSize /\ LengthSize \in 1..(B - 1)
  BY Sizes
<1>6. PICK L \in Nat : L = LengthSize
  BY Sizes
<1>. DEFINE used == r + 1
<1>7. n = a + r /\ r \in 0..(B - 1) /\ L \in 1..(B - 1)
  BY <1>1, <1>2, <1>3, <1>4, <1>5, <1>6, LenFacts
<1>8. Spills(used) <=> used > B - L
  BY <1>5, <1>6 DEF Spills
<1>9. PICK gap \in 0..(B - 1) :
        gap = IF Spills(used) THEN (B - used) + (B - L) ELSE B - L - used
  <2>1. used \in 1..B /\ L \in 1..(B - 1)
    BY <1>7
  <2>2. CASE Spills(used)
    <3>1. (B - used) + (B - L) \in 0..(B - 1)
      BY <1>8, <2>1, <2>2
    <3>. QED BY <2>2, <3>1
  <2>3. CASE ~Spills(used)
    <3>1. B - L - used \in 0..(B - 1)
      BY <1>8, <2>1, <2>3
    <3>. QED BY <2>3, <3>1
  <2>. QED BY <2>2, <2>3
<1>10. PICK e \in Nat : e = IF Spills(used) THEN 2 ELSE 1
  OBVIOUS
<1>11. n + 1 + gap + L = At(q + e)
  <2>1. At(q + 1) = a + B /\ At(q + 2) = a + B + B
    BY <1>4, <1>5, AtFacts
  <2>2. CASE Spills(used)
    <3>1. At(q + e) = a + B + B
      BY <1>10, <2>1, <2>2
    <3>. QED BY <1>7, <1>9, <2>2, <3>1
  <2>3. CASE ~Spills(used)
    <3>1. At(q + e) = a + B
      BY <1>10, <2>1, <2>3
    <3>. QED BY <1>7, <1>9, <2>3, <3>1
  <2>. QED BY <2>2, <2>3
<1>. DEFINE T == S \cup PadSyms(n)
            one == <<Mark>>
            lb == LengthBytes(n)
            tail == PaddedTail(n, gap)
            w == Padded(m)
<1>12. /\ w = m \o tail /\ m \in Seq(T) /\ tail \in Seq(T) /\ QuoB(w) = q + e
       /\ \A i \in 1..(n + 1 + gap + L) :
            w[i] = IF i <= n THEN m[i] ELSE IF i = n + 1 THEN Mark
                   ELSE IF i <= n + 1 + gap THEN Zero ELSE lb[i - n - 1 - gap]
  <2>1. PICK p \in Nat : p = q + e
    OBVIOUS
  <2>2. n + 1 + gap + LengthSize = At(p) /\ gap \in 0..(BlockSize - 1) /\ n = Len(m)
    BY <1>3, <1>5, <1>6, <1>11, <2>1
  <2>. HIDE DEF T, tail, w, lb
  <2>3. IsGap(S, m, n, gap, p)
    BY <2>1, <2>2 DEF IsGap
  <2>4. IsPadded(Padded(m), S, m, n, gap, p)
    BY <2>3, PaddedFacts
  <2>. QED BY <2>1, <2>4, <1>6 DEF IsPadded, T, tail, w, lb
<1>13. Len(one) = 1 /\ Len(lb) = L /\ one[1] = Mark
  BY <1>6 DEF LengthBytes
<1>. HIDE DEF T, one, lb, tail, w
<1>16. \A i \in 1..(n + 1 + gap + L) : i <= n => w[i] = m[i]
  BY <1>12
<1>17. \A i \in 1..(n + 1 + gap + L) :
          w[i] = IF i <= n THEN m[i] ELSE IF i = n + 1 THEN Mark
                 ELSE IF i <= n + 1 + gap THEN Zero ELSE lb[i - n - 1 - gap]
  BY <1>12
<1>19. /\ e = 1 => Blocks(w) = Append(Blocks(m), Blk(w, q + 1))
       /\ e = 2 => Blocks(w) = Append(Append(Blocks(m), Blk(w, q + 1)), Blk(w, q + 2))
  <2>1. m \in Seq(T) /\ tail \in Seq(T) /\ QuoB(m \o tail) = QuoB(m) + e
    BY <1>12, <1>1
  <2>. QED BY <2>1, <1>1, <1>12, BlocksExtend
<1>20. /\ h.state = Blocks(m) /\ h.buffer_len = r /\ h.total_len = n
       /\ \A k \in 1..r : h.buffer[k] = m[a + k]
  BY <1>1, <1>2, <1>3, <1>4 DEF Holds
<1>21. RefHash(m) = Digest(Blocks(w))
  BY DEF RefHash, w
<1>22. /\ Blk(w, q + 1) = [k \in 1..B |-> w[a + k]]
       /\ Blk(w, q + 2) = [k \in 1..B |-> w[a + B + k]]
  <2>1. (q + 1) - 1 = q /\ (q + 2) - 1 = q + 1 /\ At(q + 1) = a + B
    BY <1>4, <1>5, AtFacts
  <2>. QED BY <2>1, <1>4, <1>5 DEF Blk
<1>. DEFINE marked == Overwrite(h.buffer, r, one)
            filled == Overwrite(marked, used, Zeros(B - used))
            cleared == Overwrite(marked, used, Zeros(B - L - used))
            last == IF Spills(used) THEN Zeros(B) ELSE cleared
            final == Overwrite(last, B - L, lb)
<1>23. Finalize(h) = Digest(Append(IF Spills(used) THEN Append(Blocks(m), filled) ELSE Blocks(m), final))
  BY <1>20, <1>5, <1>6 DEF Finalize, one, lb
<1>24. /\ marked = [k \in 1..B |-> marked[k]]
       /\ \A k \in 1..B : k <= n + 1 - a => marked[k] = w[a + k]
  <2>1. marked = [k \in 1..B |-> IF k > r /\ k <= r + 1 THEN one[k - r] ELSE h.buffer[k]]
    BY <1>13, <1>5 DEF Overwrite
  <2>2. ASSUME NEW k \in 1..B, k <= r + 1 PROVE marked[k] = w[a + k]
    <3>1. CASE k <= r
      <4>1. marked[k] = m[a + k]
        BY <2>1, <3>1, <1>20
      <4>2. PICK i \in Nat : i = a + k
        OBVIOUS
      <4>3. i \in 1..(n + 1 + gap + L) /\ i <= n
        BY <1>7, <3>1, <4>2
      <4>4. w[i] = m[i]
        BY <4>3, <1>16
      <4>. QED BY <4>1, <4>2, <4>4
    <3>2. CASE ~(k <= r)
      <4>1. k = r + 1 /\ k - r = 1
        BY <2>2, <3>2
      <4>2. marked[k] = Mark
        BY <2>1, <4>1, <1>13
      <4>3. PICK i \in Nat : i = a + k
        OBVIOUS
      <4>4. i \in 1..(n + 1 + gap + L) /\ i = n + 1
        BY <1>7, <4>1, <4>3
      <4>5. w[i] = Mark
        BY <4>4, <1>17
      <4>. QED BY <4>2, <4>3, <4>5
    <3>. QED BY <3>1, <3>2
  <2>3. n + 1 - a = r + 1
    BY <1>7
  <2>. QED BY <2>1, <2>2, <2>3
<1>. HIDE DEF marked
<1>25. CASE Spills(used)
  <2>1. e = 2 /\ used > B - L /\ gap = (B - used) + (B - L)
    BY <1>25, <1>9, <1>8, <1>10
  <2>2. filled = Blk(w, q + 1)
    <3>1. filled = [k \in 1..B |-> IF k > used THEN Zero ELSE marked[k]]
      <4>1. \A k \in 1..(B - used) : Zeros(B - used)[k] = Zero
        BY DEF Zeros
      <4>2. Len(Zeros(B - used)) = B - used
        BY <1>7 DEF Zeros
      <4>3. filled = [k \in 1..B |-> IF k > used /\ k <= used + (B - used) THEN Zeros(B - used)[k - used] ELSE marked[k]]
        BY <4>2, <1>5 DEF Overwrite
      <4>4. ASSUME NEW k \in 1..B
            PROVE (IF k > used /\ k <= used + (B - used) THEN Zeros(B - used)[k - used] ELSE marked[k])
                   = IF k > used THEN Zero ELSE marked[k]
        <5>1. k <= used + (B - used) /\ (k > used => k - used \in 1..(B - used))
          BY <1>7
        <5>. QED BY <4>1, <5>1
      <4>. QED BY <4>3, <4>4
    <3>2. ASSUME NEW k \in 1..B
          PROVE (IF k > used THEN Zero ELSE marked[k]) = w[a + k]
      <4>1. CASE k > used
        <5>1. PICK i \in Nat : i = a + k
          OBVIOUS
        <5>2. i \in 1..(n + 1 + gap + L) /\ ~(i <= n + 1) /\ i <= n + 1 + gap
          BY <1>7, <2>1, <4>1, <5>1
        <5>3. w[i] = Zero
          BY <5>2, <1>17
        <5>. QED BY <4>1, <5>1, <5>3
      <4>2. CASE ~(k > used)
        BY <4>2, <1>7, <1>24
      <4>. QED BY <4>1, <4>2
    <3>. QED BY <3>1, <3>2, <1>22
  <2>3. final = Blk(w, q + 2)
    <3>1. final = [k \in 1..B |-> IF k > B - L THEN lb[k - (B - L)] ELSE Zero]
      <4>1. last = [k \in 1..B |-> Zero]
        BY <1>25 DEF Zeros
      <4>2. final = [k \in 1..B |-> IF k > B - L /\ k <= (B - L) + L THEN lb[k - (B - L)] ELSE last[k]]
        BY <1>13, <1>5 DEF Overwrite
      <4>3. ASSUME NEW k \in 1..B
            PROVE (IF k > B - L /\ k <= (B - L) + L THEN lb[k - (B - L)] ELSE last[k])
                  = IF k > B - L THEN lb[k - (B - L)] ELSE Zero
        BY <4>1, <1>7
      <4>. QED BY <4>2, <4>3
    <3>2. ASSUME NEW k \in 1..B
          PROVE (IF k > B - L THEN lb[k - (B - L)] ELSE Zero) = w[a + B + k]
      <4>1. PICK i \in Nat : i = a + B + k
        OBVIOUS
      <4>2. /\ i \in 1..(n + 1 + gap + L) /\ ~(i <= n + 1) /\ (i <= n + 1 + gap <=> ~(k > B - L))
            /\ i - n - 1 - gap = k - (B - L)
        BY <1>7, <2>1, <4>1
      <4>3. w[i] = IF i <= n + 1 + gap THEN Zero ELSE lb[i - n - 1 - gap]
        <5>1. ~(i <= n) /\ i # n + 1
          BY <4>2
        <5>. QED BY <4>2, <5>1, <1>17
      <4>. QED BY <4>1, <4>2, <4>3
    <3>. QED BY <3>1, <3>2, <1>22
  <2>. QED BY <1>19, <1>21, <1>23, <1>25, <2>1, <2>2, <2>3
<1>26. CASE ~Spills(used)
  <2>1. e = 1 /\ used <= B - L /\ gap = B - L - used
    BY <1>7, <1>26, <1>9, <1>8, <1>10
  <2>2. cleared = [k \in 1..B |-> IF k > used /\ k <= B - L THEN Zero ELSE marked[k]]
    <3>1. \A k \in 1..(B - L - used) : Zeros(B - L - used)[k] = Zero
      BY DEF Zeros
    <3>2. Len(Zeros(B - L - used)) = B - L - used
      BY <1>7, <2>1 DEF Zeros
    <3>3. cleared = [k \in 1..B |-> IF k > used /\ k <= used + (B - L - used)
                                  THEN Zeros(B - L - used)[k - used] ELSE marked[k]]
      BY <3>2, <1>5 DEF Overwrite
    <3>4. ASSUME NEW k \in 1..B
          PROVE (IF k > used /\ k <= used + (B - L - used) THEN Zeros(B - L - used)[k - used] ELSE marked[k])
                 = IF k > used /\ k <= B - L THEN Zero ELSE marked[k]
      <4>1. k <= used + (B - L - used) <=> k <= B - L
        BY <1>7, <2>1
      <4>2. k > used /\ k <= B - L => k - used \in 1..(B - L - used)
        BY <1>7, <2>1
      <4>. QED BY <3>1, <4>1, <4>2
    <3>. QED BY <3>3, <3>4
  <2>3. final = Blk(w, q + 1)
    <3>1. final = [k \in 1..B |-> IF k > B - L THEN lb[k - (B - L)] ELSE IF k > used THEN Zero ELSE marked[k]]
      <4>1. last = cleared
        BY <1>26
      <4>. HIDE DEF last
      <4>2. final = [k \in 1..B |-> IF k > B - L /\ k <= (B - L) + L THEN lb[k - (B - L)] ELSE last[k]]
        BY <1>13, <1>5 DEF Overwrite
      <4>. HIDE DEF cleared
      <4>3. ASSUME NEW k \in 1..B
            PROVE (IF k > B - L /\ k <= (B - L) + L THEN lb[k - (B - L)] ELSE last[k])
                  = IF k > B - L THEN lb[k - (B - L)] ELSE IF k > used THEN Zero ELSE marked[k]
        BY <4>1, <1>7, <2>2
      <4>. QED BY <4>2, <4>3
    <3>2. ASSUME NEW k \in 1..B
          PROVE (IF k > B - L THEN lb[k - (B - L)] ELSE IF k > used THEN Zero ELSE marked[k]) = w[a + k]
      <4>1. CASE k > used
        <5>1. PICK i \in Nat : i = a + k
          OBVIOUS
        <5>2. /\ i \in 1..(n + 1 + gap + L) /\ ~(i <= n + 1) /\ (i <= n + 1 + gap <=> ~(k > B - L))
              /\ i - n - 1 - gap = k - (B - L)
          BY <1>7, <2>1, <4>1, <5>1
        <5>3. w[i] = IF i <= n + 1 + gap THEN Zero ELSE lb[i - n - 1 - gap]
          <6>1. ~(i <= n) /\ i # n + 1
            BY <5>2
          <6>. QED BY <5>2, <6>1, <1>17
        <5>. QED BY <4>1, <5>1, <5>2, <5>3
      <4>2. CASE ~(k > used)
        <5>1. ~(k > B - L) /\ k <= n + 1 - a
          BY <4>2, <1>7, <2>1
        <5>. QED BY <4>2, <5>1, <1>24
      <4>. QED BY <4>1, <4>2
    <3>. QED BY <3>1, <3>2, <1>22
  <2>. QED BY <1>19, <1>21, <1>23, <1>26, <2>1, <2>3
<1>. QED BY <1>25, <1>26

(* hash. *)
LEMMA HashIsRefHash ==
    ASSUME NEW S, NEW m \in Seq(S)
    PROVE  Hash(m) = RefHash(m)
<1>1. <<>> \in Seq(S) /\ <<>> \o m = m
  OBVIOUS
<1>2. Holds(Update(NewSm3, m), m)
  BY <1>1, NewHolds, UpdateHolds
<1>. QED BY <1>2, FinalizeIsHash DEF Hash

(* Where a caller cuts its message does not show in the digest: update     *)
(* twice and finalize is hash over the two chunks together (sm3.rs).       *)
THEOREM ChunkingIrrelevant ==
    ASSUME NEW S, NEW a \in Seq(S), NEW b \in Seq(S)
    PROVE  Finalize(Update(Update(NewSm3, a), b)) = Hash(a \o b)
<1>1. <<>> \in Seq(S) /\ <<>> \o a = a
  OBVIOUS
<1>2. Holds(Update(NewSm3, a), a)
  BY <1>1, NewHolds, UpdateHolds
<1>3. a \o b \in Seq(S)
  BY ConcatFacts
<1>4. Holds(Update(Update(NewSm3, a), b), a \o b)
  BY <1>2, UpdateHolds
<1>. QED BY <1>3, <1>4, FinalizeIsHash, HashIsRefHash

(* RFC 2104's key block, as RefHmac has it. *)
PaddedKey(hkey) ==
    LET short == IF Len(hkey) > BlockSize THEN RefHash(hkey) ELSE hkey
    IN  short \o Zeros(BlockSize - Len(short))

(* A digest is a sequence of DigestSize bytes. *)
LEMMA DigestIsSeq ==
    ASSUME NEW x
    PROVE  /\ Digest(x) \in Seq({Digest(x)[k] : k \in 1..DigestSize})
           /\ Len(Digest(x)) = DigestSize
  BY Sizes DEF Digest

(* Copying a short key over a block of zeros pads it. *)
LEMMA OverwritePads ==
    ASSUME NEW T, NEW short \in Seq(T), Len(short) <= BlockSize
    PROVE  Overwrite(Zeros(BlockSize), 0, short) = short \o Zeros(BlockSize - Len(short))
<1>. DEFINE zs == Zeros(BlockSize - Len(short))  w == short \o zs
<1>1. Len(short) \in Nat /\ short \in Seq(T \cup {Zero})
  OBVIOUS
<1>2. zs \in Seq(T \cup {Zero}) /\ Len(zs) = BlockSize - Len(short) /\ \A k \in 1..(BlockSize - Len(short)) : zs[k] = Zero
  BY <1>1, Sizes DEF Zeros
<1>. HIDE DEF zs
<1>3. /\ w \in Seq(T \cup {Zero}) /\ Len(w) = Len(short) + Len(zs)
      /\ \A i \in 1..(Len(short) + Len(zs)) : w[i] = IF i <= Len(short) THEN short[i] ELSE zs[i - Len(short)]
  BY <1>1, <1>2, ConcatFacts
<1>. HIDE DEF w
<1>4. w = [k \in 1..BlockSize |-> IF k <= Len(short) THEN short[k] ELSE Zero]
  <2>1. Len(short) + Len(zs) = BlockSize
    BY <1>1, <1>2, Sizes
  <2>2. ASSUME NEW k \in 1..BlockSize PROVE w[k] = IF k <= Len(short) THEN short[k] ELSE Zero
    <3>1. w[k] = IF k <= Len(short) THEN short[k] ELSE zs[k - Len(short)]
      BY <2>1, <1>3
    <3>2. CASE k <= Len(short)
      BY <3>1, <3>2
    <3>3. CASE ~(k <= Len(short))
      <4>1. k - Len(short) \in 1..(BlockSize - Len(short))
        BY <3>3, <1>1, Sizes
      <4>. QED BY <3>1, <3>3, <4>1, <1>2
    <3>. QED BY <3>2, <3>3
  <2>3. w = [k \in 1..BlockSize |-> w[k]]
    BY <1>3, <2>1
  <2>. QED BY <2>2, <2>3
<1>5. Overwrite(Zeros(BlockSize), 0, short) = [k \in 1..BlockSize |-> IF k <= Len(short) THEN short[k] ELSE Zero]
  <2>1. ASSUME NEW k \in 1..BlockSize
        PROVE (IF k > 0 /\ k <= 0 + Len(short) THEN short[k - 0] ELSE Zeros(BlockSize)[k])
               = IF k <= Len(short) THEN short[k] ELSE Zero
    BY <1>1, Sizes DEF Zeros
  <2>. QED BY <2>1 DEF Overwrite
<1>. QED BY <1>4, <1>5 DEF w, zs

(* The code's key block is RFC 2104's: long keys are hashed. *)
LEMMA KPrimeIsPaddedKey ==
    ASSUME NEW S, NEW hkey \in Seq(S)
    PROVE  KPrime(hkey) = PaddedKey(hkey)
<1>1. CASE Len(hkey) > BlockSize
  <2>. DEFINE d == RefHash(hkey)  D == {d[k] : k \in 1..DigestSize}
  <2>1. d \in Seq(D) /\ Len(d) = DigestSize
    BY DigestIsSeq DEF RefHash
  <2>. HIDE DEF d, D
  <2>2. d \in Seq(D) /\ Len(d) <= BlockSize
    BY <2>1, Sizes
  <2>3. Overwrite(Zeros(BlockSize), 0, d) = d \o Zeros(BlockSize - Len(d))
    BY <2>2, OverwritePads
  <2>. QED BY <1>1, <2>3, HashIsRefHash DEF KPrime, PaddedKey, d
<1>2. CASE ~(Len(hkey) > BlockSize)
  <2>1. hkey \in Seq(S) /\ Len(hkey) <= BlockSize
    BY <1>2, Sizes
  <2>2. Overwrite(Zeros(BlockSize), 0, hkey) = hkey \o Zeros(BlockSize - Len(hkey))
    BY <2>1, OverwritePads
  <2>. QED BY <1>2, <2>2 DEF KPrime, PaddedKey
<1>. QED BY <1>1, <1>2

(* The invariant of an HMAC object: its inner stream has had the inner key *)
(* block and m, its outer stream the outer key block.                      *)
HmacHolds(h, hkey, m) ==
    /\ h = [inner |-> h.inner, outer |-> h.outer]
    /\ Holds(h.inner, Xored("ipad", PaddedKey(hkey)) \o m)
    /\ Holds(h.outer, Xored("opad", PaddedKey(hkey)))

(* A masked key block is a sequence. *)
LEMMA XoredIsSeq ==
    ASSUME NEW pad, NEW block
    PROVE  Xored(pad, block) \in Seq({Xored(pad, block)[k] : k \in 1..BlockSize})
  BY Sizes DEF Xored

(* HmacSm3::new. *)
LEMMA HmacNewHolds ==
    ASSUME NEW S, NEW hkey \in Seq(S)
    PROVE  HmacHolds(HmacNew(hkey), hkey, <<>>)
<1>1. ASSUME NEW pad PROVE Holds(Update(NewSm3, Xored(pad, KPrime(hkey))), Xored(pad, PaddedKey(hkey)))
  <2>. DEFINE x == Xored(pad, PaddedKey(hkey))  X == {x[k] : k \in 1..BlockSize}
  <2>1. x \in Seq(X)
    BY XoredIsSeq
  <2>. HIDE DEF X, x
  <2>2. <<>> \in Seq(X) /\ <<>> \o x = x
    BY <2>1
  <2>3. Holds(Update(NewSm3, x), x)
    BY <2>1, <2>2, NewHolds, UpdateHolds
  <2>. QED BY <2>3, KPrimeIsPaddedKey DEF x
<1>2. Xored("ipad", PaddedKey(hkey)) \o <<>> = Xored("ipad", PaddedKey(hkey))
  <2>. DEFINE x == Xored("ipad", PaddedKey(hkey))  X == {x[k] : k \in 1..BlockSize}
  <2>1. x \in Seq(X)
    BY XoredIsSeq
  <2>. HIDE DEF X, x
  <2>2. x \o <<>> = x
    BY <2>1
  <2>. QED BY <2>2 DEF x
<1>. QED BY <1>1, <1>2 DEF HmacHolds, HmacNew

(* HmacSm3::update. *)
LEMMA HmacUpdateHolds ==
    ASSUME NEW S, NEW m \in Seq(S), NEW data \in Seq(S), NEW hkey, NEW h, HmacHolds(h, hkey, m)
    PROVE  HmacHolds(HmacUpdate(h, data), hkey, m \o data)
<1>. DEFINE x == Xored("ipad", PaddedKey(hkey))  X == {x[k] : k \in 1..BlockSize}  T == S \cup X
<1>1. x \in Seq(X)
  BY XoredIsSeq
<1>2. Holds(h.inner, x \o m)
  BY DEF HmacHolds
<1>. HIDE DEF X, x
<1>3. x \in Seq(T) /\ m \in Seq(T) /\ data \in Seq(T)
  BY <1>1
<1>. HIDE DEF T
<1>4. x \o m \in Seq(T) /\ (x \o m) \o data = x \o (m \o data)
  BY <1>3, ConcatFacts, ConcatAssoc
<1>5. Holds(Update(h.inner, data), (x \o m) \o data)
  BY <1>2, <1>3, <1>4, UpdateHolds
<1>6. Holds(Update(h.inner, data), x \o (m \o data))
  BY <1>4, <1>5
<1>. QED BY <1>6 DEF HmacHolds, HmacUpdate, x

(* HmacSm3::finalize. *)
LEMMA HmacFinalizeIsRefHmac ==
    ASSUME NEW S, NEW m \in Seq(S), NEW hkey, NEW h, HmacHolds(h, hkey, m)
    PROVE  HmacFinalize(h) = RefHmac(hkey, m)
<1>. DEFINE x == Xored("ipad", PaddedKey(hkey))  X == {x[k] : k \in 1..BlockSize}
            y == Xored("opad", PaddedKey(hkey))  Y == {y[k] : k \in 1..BlockSize}
            d == RefHash(x \o m)  D == {d[k] : k \in 1..DigestSize}
            T == S \cup X  U == Y \cup D
<1>1. x \in Seq(X) /\ y \in Seq(Y)
  BY XoredIsSeq
<1>2. Holds(h.inner, x \o m) /\ Holds(h.outer, y)
  BY DEF HmacHolds
<1>3. RefHmac(hkey, m) = RefHash(y \o d)
  BY DEF RefHmac, PaddedKey
<1>4. d \in Seq(D)
  BY DigestIsSeq DEF RefHash
<1>. HIDE DEF X, Y, D, x, y
<1>5. x \in Seq(T) /\ m \in Seq(T)
  BY <1>1
<1>6. y \in Seq(U) /\ d \in Seq(U)
  BY <1>1, <1>4
<1>. HIDE DEF T, U
<1>7. Finalize(h.inner) = d
  BY <1>2, <1>5, ConcatFacts, FinalizeIsHash
<1>. HIDE DEF d
<1>8. Holds(Update(h.outer, d), y \o d)
  BY <1>2, <1>6, UpdateHolds
<1>9. Finalize(Update(h.outer, d)) = RefHash(y \o d)
  BY <1>6, <1>8, ConcatFacts, FinalizeIsHash
<1>. QED BY <1>3, <1>7, <1>9 DEF HmacFinalize

(***************************************************************************)
(* With a free compression function, equal codes come from equal messages. *)
(***************************************************************************)

(* Sequences of whole blocks with the same blocks are the same. *)
LEMMA BlocksDetermine ==
    ASSUME NEW S, NEW u \in Seq(S), NEW v \in Seq(S), NEW p \in Nat, NEW q \in Nat,
           Len(u) = At(p), Len(v) = At(q), Blocks(u) = Blocks(v)
    PROVE  u = v
<1>1. QuoB(u) = p /\ QuoB(v) = q
  BY LenSplit
<1>2. /\ Blocks(u) = [n \in 1..p |-> Blk(u, n)] /\ Blocks(v) = [n \in 1..q |-> Blk(v, n)]
      /\ Len(Blocks(u)) = p /\ Len(Blocks(v)) = q
  BY <1>1, BlocksFacts
<1>3. p = q
  BY <1>2
<1>4. ASSUME NEW i \in 1..At(p) PROVE u[i] = v[i]
  <2>1. PICK x \in Nat : i = x + 1
    <3>1. i - 1 \in Nat /\ i = (i - 1) + 1
      BY AtFacts
    <3>. QED BY <3>1
  <2>2. PICK b \in Nat : b = Quo(x, BlockSize)
    BY DivMod, Sizes
  <2>3. PICK r \in 0..(BlockSize - 1) : r = Rem(x, BlockSize)
    BY DivMod, Sizes
  <2>4. x = At(b) + r /\ At(b) \in Nat
    BY <2>2, <2>3, DivMod, AtFacts, Sizes DEF At
  <2>5. b + 1 \in 1..p
    <3>1. PICK c \in Nat, a \in Nat : c = At(p) /\ a = At(b)
      BY AtFacts
    <3>2. p <= b => c <= a
      BY <3>1, AtFacts
    <3>3. i <= c /\ i = a + r + 1 /\ r \in Nat
      BY <2>1, <2>4, <3>1, Sizes
    <3>. QED BY <3>2, <3>3
  <2>6. Blk(u, b + 1) = Blk(v, b + 1)
    BY <1>2, <1>3, <2>5
  <2>7. r + 1 \in 1..BlockSize /\ (b + 1) - 1 = b
    BY Sizes
  <2>8. u[At(b) + (r + 1)] = v[At(b) + (r + 1)]
    <3>1. Blk(u, b + 1)[r + 1] = Blk(v, b + 1)[r + 1]
      BY <2>6
    <3>. QED BY <3>1, <2>7 DEF Blk
  <2>9. i = At(b) + (r + 1)
    BY <2>1, <2>4, Sizes
  <2>. QED BY <2>8, <2>9
<1>. QED BY <1>3, <1>4, SameSeq

(* Some number of zeros, less than a block, fills the last block. *)
LEMMA GapExists ==
    ASSUME NEW S, NEW m \in Seq(S), NEW n, n = Len(m)
    PROVE  \E gap : IsGap(S, m, n, gap, Quo(n + LengthSize, BlockSize) + 1)
<1>1. n \in Nat
  OBVIOUS
<1>2. PICK x \in Nat : x = n + LengthSize
  BY <1>1, Sizes
<1>3. PICK f \in Nat : f = Quo(x, BlockSize)
  BY DivMod, Sizes
<1>4. PICK r \in 0..(BlockSize - 1) : r = Rem(x, BlockSize)
  BY DivMod, Sizes
<1>5. x = At(f) + r /\ At(f) \in Nat /\ At(f + 1) = At(f) + BlockSize
  BY <1>3, <1>4, DivMod, AtFacts, Sizes DEF At
<1>6. PICK gap \in 0..(BlockSize - 1) : gap = BlockSize - 1 - r
  <2>1. BlockSize - 1 - r \in 0..(BlockSize - 1)
    BY Sizes
  <2>. QED BY <2>1
<1>7. n + 1 + gap + LengthSize = At(f + 1)
  BY <1>1, <1>2, <1>5, <1>6, Sizes
<1>8. f + 1 = Quo(n + LengthSize, BlockSize) + 1 /\ f + 1 \in Nat
  BY <1>2, <1>3
<1>9. IsGap(S, m, n, gap, f + 1)
  BY <1>1, <1>7, <1>8 DEF IsGap
<1>. QED BY <1>8, <1>9

(* A digest names the blocks it was made of, in each of its bytes. *)
LEMMA DigestNames ==
    ASSUME NEW s, NEW t, NEW j \in 1..DigestSize, NEW k \in 1..DigestSize,
           Digest(s)[j] = Digest(t)[k]
    PROVE  s = t
  BY DEF Digest

(* Messages with the same hash are the same. *)
LEMMA HashInjective ==
    ASSUME NEW S, NEW u \in Seq(S), NEW v \in Seq(S), RefHash(u) = RefHash(v)
    PROVE  u = v
<1>1. PICK n \in Nat, l \in Nat : n = Len(u) /\ l = Len(v)
  OBVIOUS
<1>2. PICK gap, p : IsGap(S, u, n, gap, p)
  BY <1>1, GapExists
<1>3. PICK hole, q : IsGap(S, v, l, hole, q)
  BY <1>1, GapExists
<1>. DEFINE a == Padded(u)  b == Padded(v)
<1>4. IsPadded(a, S, u, n, gap, p) /\ IsPadded(b, S, v, l, hole, q)
  BY <1>2, <1>3, PaddedFacts
<1>5. Digest(Blocks(a)) = Digest(Blocks(b))
  BY DEF RefHash
<1>. HIDE DEF a, b
<1>6. Blocks(a) = Blocks(b)
  <2>1. 1 \in 1..DigestSize
    BY Sizes
  <2>2. Digest(Blocks(a))[1] = Digest(Blocks(b))[1]
    BY <1>5
  <2>. QED BY <2>1, <2>2, DigestNames
<1>7. p \in Nat /\ q \in Nat /\ Len(a) = At(p) /\ Len(b) = At(q)
  BY <1>2, <1>3, <1>4 DEF IsGap, IsPadded
<1>8. a = b
  <2>. DEFINE T == S \cup PadSyms(n) \cup PadSyms(l)
  <2>1. a \in Seq(S \cup PadSyms(n)) /\ b \in Seq(S \cup PadSyms(l))
    BY <1>4 DEF IsPadded
  <2>2. S \cup PadSyms(n) \subseteq T /\ S \cup PadSyms(l) \subseteq T
    OBVIOUS
  <2>. HIDE DEF T
  <2>3. a \in Seq(T) /\ b \in Seq(T)
    BY <2>1, <2>2
  <2>. QED BY <2>3, <1>6, <1>7, BlocksDetermine
<1>9. n = l
  <2>1. PICK x : x = At(p) /\ x = Len(a) /\ x = At(q)
    BY <1>7, <1>8
  <2>2. gap \in Nat /\ x = n + 1 + gap + LengthSize /\ hole \in Nat /\ x = l + 1 + hole + LengthSize
    BY <1>2, <1>3, <2>1, Sizes DEF IsGap
  <2>3. a[x] = LengthBytes(n)[LengthSize]
    <3>1. /\ x \in 1..(n + 1 + gap + LengthSize) /\ ~(x <= n) /\ x # n + 1 /\ ~(x <= n + 1 + gap)
          /\ x - n - 1 - gap = LengthSize
      BY <2>2, Sizes
    <3>. QED BY <3>1, <1>4 DEF IsPadded
  <2>4. b[x] = LengthBytes(l)[LengthSize]
    <3>1. /\ x \in 1..(l + 1 + hole + LengthSize) /\ ~(x <= l) /\ x # l + 1 /\ ~(x <= l + 1 + hole)
          /\ x - l - 1 - hole = LengthSize
      BY <2>2, Sizes
    <3>. QED BY <3>1, <1>4 DEF IsPadded
  <2>5. LengthSize \in 1..LengthSize
    BY Sizes
  <2>. QED BY <2>3, <2>4, <2>5, <1>8 DEF LengthBytes
<1>10. ASSUME NEW i \in 1..n PROVE u[i] = v[i]
  <2>1. i \in 1..(n + 1 + gap + LengthSize) /\ i \in 1..(l + 1 + hole + LengthSize) /\ i <= n /\ i <= l
    BY <1>2, <1>3, <1>9, Sizes DEF IsGap
  <2>. QED BY <2>1, <1>4, <1>8 DEF IsPadded
<1>. QED BY <1>1, <1>9, <1>10, SameSeq

(* What HMAC hashes first, and then. *)
Inner(hkey, m) == RefHash(Xored("ipad", PaddedKey(hkey)) \o m)
Outer(hkey, m) == Xored("opad", PaddedKey(hkey)) \o Inner(hkey, m)

(* RefHmac in those words, and as a digest. *)
LEMMA HmacParts ==
    ASSUME NEW hkey, NEW m
    PROVE  /\ RefHmac(hkey, m) = RefHash(Outer(hkey, m))
           /\ RefHmac(hkey, m) = Digest(Blocks(Padded(Outer(hkey, m))))
  BY DEF RefHmac, RefHash, Outer, Inner, PaddedKey

(* Messages with the same inner hash are the same. *)
LEMMA InnerInjective ==
    ASSUME NEW S, NEW u \in Seq(S), NEW v \in Seq(S), NEW hkey, Inner(hkey, u) = Inner(hkey, v)
    PROVE  u = v
<1>. DEFINE x == Xored("ipad", PaddedKey(hkey))  X == {x[k] : k \in 1..BlockSize}  T == S \cup X
<1>1. x \in Seq(X)
  BY XoredIsSeq
<1>2. RefHash(x \o u) = RefHash(x \o v)
  BY DEF Inner
<1>. HIDE DEF X, x
<1>3. x \in Seq(T) /\ u \in Seq(T) /\ v \in Seq(T)
  BY <1>1
<1>. HIDE DEF T
<1>4. x \o u \in Seq(T) /\ x \o v \in Seq(T)
  BY <1>3, ConcatFacts
<1>5. x \o u = x \o v
  BY <1>2, <1>4, HashInjective
<1>. QED BY <1>3, <1>5, ConcatInjective

(* Messages whose codes under a key share a byte are the same: a byte of a *)
(* code under a key authenticates the message.                             *)
LEMMA HmacNames ==
    ASSUME NEW S, NEW u \in Seq(S), NEW v \in Seq(S), NEW hkey,
           NEW j \in 1..DigestSize, NEW k \in 1..DigestSize,
           RefHmac(hkey, u)[j] = RefHmac(hkey, v)[k]
    PROVE  u = v
<1>. DEFINE y == Xored("opad", PaddedKey(hkey))  Y == {y[i] : i \in 1..BlockSize}
            d == Inner(hkey, u)  D == {d[i] : i \in 1..DigestSize}
            e == Inner(hkey, v)  E == {e[i] : i \in 1..DigestSize}
            U == Y \cup D \cup E
<1>1. Blocks(Padded(Outer(hkey, u))) = Blocks(Padded(Outer(hkey, v)))
  <2>. DEFINE s == Blocks(Padded(Outer(hkey, u)))  t == Blocks(Padded(Outer(hkey, v)))
  <2>1. RefHmac(hkey, u) = Digest(s) /\ RefHmac(hkey, v) = Digest(t)
    BY HmacParts
  <2>. HIDE DEF s, t
  <2>2. Digest(s)[j] = Digest(t)[k]
    BY <2>1
  <2>3. s = t
    BY <2>2, DigestNames
  <2>. QED BY <2>3 DEF s, t
<1>2. RefHash(y \o d) = RefHash(y \o e)
  BY <1>1 DEF RefHash, Outer
<1>3. y \in Seq(Y) /\ d \in Seq(D) /\ e \in Seq(E)
  <2>1. y \in Seq(Y)
    BY XoredIsSeq
  <2>2. d \in Seq(D)
    BY DigestIsSeq DEF RefHash, Inner
  <2>3. e \in Seq(E)
    BY DigestIsSeq DEF RefHash, Inner
  <2>. QED BY <2>1, <2>2, <2>3
<1>. HIDE DEF Y, D, E, y, d, e
<1>4. y \in Seq(U) /\ d \in Seq(U) /\ e \in Seq(U)
  BY <1>3
<1>. HIDE DEF U
<1>5. y \o d \in Seq(U) /\ y \o e \in Seq(U)
  BY <1>4, ConcatFacts
<1>6. y \o d = y \o e
  BY <1>2, <1>5, HashInjective
<1>7. d = e
  BY <1>4, <1>6, ConcatInjective
<1>. QED BY <1>7, InnerInjective DEF d, e
=============================================================================
