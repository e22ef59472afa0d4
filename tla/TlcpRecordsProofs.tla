------------------------- MODULE TlcpRecordsProofs -------------------------
(***************************************************************************)
(* TLCP record protection, for any number of records, any lengths, block   *)
(* sizes and content types.  The fixed-schedule MAC of the reader is the   *)
(* reference HMAC, the padding scan accepts exactly the legal paddings,    *)
(* and a CBC body opens exactly when it decodes.  Whatever the network     *)
(* makes of the records it has seen, the reader accepts, under either      *)
(* suite, a prefix of what was sent; the next record is always acceptable; *)
(* and no GCM nonce repeats under a key.                                   *)
(***************************************************************************)
EXTENDS TlcpRecords, Sm3Proofs, SequenceTheorems

(***************************************************************************)
(* mac_ct.  Its blocks, as operators of their own.                         *)
(***************************************************************************)
CtByte(header, data, len, q) ==
    IF q < Len(header) + len THEN (header \o data)[q + 1]
    ELSE IF q = Len(header) + len THEN Mark ELSE Zero
CtBlock(header, data, len, b) ==
    [i \in 1..BlockSize |->
        IF b = FinalBlock(Len(header) + len) /\ i > BlockSize - LengthSize
        THEN LengthBytes(BlockSize + (Len(header) + len))[i - (BlockSize - LengthSize)]
        ELSE CtByte(header, data, len, b * BlockSize + i - 1)]
CtSchedule(header, data, len) ==
    [b \in 1..CtInnerBlocks(Len(header) + Len(data)) |-> CtBlock(header, data, len, b - 1)]
CtState(hkey, header, data, len) ==
    IF FinalBlock(Len(header) + len) < Len(CtSchedule(header, data, len))
    THEN <<Xored("ipad", KPrime(hkey))>>
           \o SubSeq(CtSchedule(header, data, len), 1, FinalBlock(Len(header) + len) + 1)
    ELSE <<>>

(* MacCt in those words. *)
LEMMA MacCtParts ==
    ASSUME NEW hkey, NEW header, NEW data, NEW len
    PROVE  MacCt(hkey, header, data, len) =
             Finalize(Update(Update(NewSm3, Xored("opad", KPrime(hkey))),
                             Digest(CtState(hkey, header, data, len))))
  BY DEF MacCt, CtState, CtSchedule, CtBlock, CtByte

(* The schedule is fixed by the data alone, and long enough for any length. *)
LEMMA CtScheduleFacts ==
    ASSUME NEW S, NEW header \in Seq(S), NEW data \in Seq(S), NEW len \in 0..Len(data),
           NEW f, f = FinalBlock(Len(header) + len)
    PROVE  /\ f \in Nat /\ f = Quo(Len(header) + len + LengthSize, BlockSize)
           /\ CtInnerBlocks(Len(header) + Len(data)) \in Nat
           /\ f + 1 <= CtInnerBlocks(Len(header) + Len(data))
<1>1. PICK a \in Nat, b \in Nat, l \in Nat, L \in Nat :
        a = Len(header) /\ b = Len(data) /\ l = len /\ L = LengthSize /\ l <= b
  BY Sizes
<1>2. PICK x \in Nat, y \in Nat : x = a + l + L /\ y = a + b + L /\ x <= y
  BY <1>1
<1>3. PICK q \in Nat : q = Quo(x, BlockSize)
  BY DivMod, Sizes
<1>4. PICK r \in 0..(BlockSize - 1) : r = Rem(x, BlockSize)
  BY DivMod, Sizes
<1>5. PICK p \in Nat : p = Quo(y, BlockSize)
  BY DivMod, Sizes
<1>6. PICK s \in 0..(BlockSize - 1) : s = Rem(y, BlockSize)
  BY DivMod, Sizes
<1>7. x = Mul(q, BlockSize) + r /\ y = Mul(p, BlockSize) + s
      /\ Mul(q, BlockSize) \in Nat /\ Mul(p, BlockSize) \in Nat
  BY <1>3, <1>4, <1>5, <1>6, DivMod, MulFacts, Sizes
<1>8. q <= p
  <2>1. p < q => Mul(p, BlockSize) + BlockSize <= Mul(q, BlockSize)
    BY MulFacts, Sizes
  <2>. QED BY <1>2, <1>7, <2>1, Sizes
<1>9. CtInnerBlocks(a + b) = p + 1
  <2>1. y + BlockSize = Mul(1, BlockSize) + y
    BY MulFacts, Sizes
  <2>2. Quo(y + BlockSize, BlockSize) = 1 + p
    BY <2>1, <1>5, QuotientShift, Sizes
  <2>. QED BY <2>2, <1>1, <1>2 DEF CtInnerBlocks, Quo
<1>10. f = q
  BY <1>1, <1>2, <1>3 DEF FinalBlock, Quo
<1>. QED BY <1>1, <1>2, <1>3, <1>8, <1>9, <1>10

(* A place in a block, counted from the front of the hashed message, from  *)
(* the front of the MAC input and from the front of the length field.      *)
LEMMA CtPlace ==
    ASSUME NEW B \in Nat, NEW L \in Nat, L > 0, L < B, NEW f \in Nat, NEW j \in 1..(f + 1),
           NEW k \in 1..B, NEW n \in Nat, NEW N \in Nat, n = B + N, NEW gap \in Nat,
           NEW a \in Nat, NEW b \in Nat, NEW c \in Nat, b = B + a, n + 1 + gap + L = c + B,
           j = f + 1 => b = c, j # f + 1 => b + B <= c
    PROVE  /\ b + k \in 1..(n + 1 + gap + L)
           /\ a + k - 1 \in Nat /\ b + k = B + ((a + k - 1) + 1)
           /\ j - 1 = f /\ k > B - L =>
                /\ ~(b + k <= n) /\ b + k # n + 1 /\ ~(b + k <= n + 1 + gap)
                /\ (b + k) - n - 1 - gap = k - (B - L)
           /\ ~(j - 1 = f /\ k > B - L) => b + k <= n + 1 + gap
           /\ b + k <= n <=> a + k - 1 < N
           /\ b + k = n + 1 <=> a + k - 1 = N
<1>1. j = f + 1 \/ j # f + 1
  OBVIOUS
<1>2. j - 1 = f <=> j = f + 1
  OBVIOUS
<1>3. CASE j = f + 1
  BY <1>2, <1>3
<1>4. CASE j # f + 1
  BY <1>2, <1>4
<1>. QED BY <1>1, <1>3, <1>4

(* The hypotheses and the conclusion, each as one fact. *)
CtLayout(B, L, f, j, n, N, gap, a, b, c) ==
    /\ B \in Nat /\ L \in Nat /\ L > 0 /\ L < B /\ f \in Nat /\ j \in 1..(f + 1)
    /\ n \in Nat /\ N \in Nat /\ n = B + N /\ gap \in Nat
    /\ a \in Nat /\ b \in Nat /\ c \in Nat /\ b = B + a /\ n + 1 + gap + L = c + B
    /\ j = f + 1 => b = c
    /\ j # f + 1 => b + B <= c
CtPlaces(B, L, f, j, k, n, N, gap, a, b) ==
    /\ b + k \in 1..(n + 1 + gap + L)
    /\ a + k - 1 \in Nat /\ b + k = B + ((a + k - 1) + 1)
    /\ j - 1 = f /\ k > B - L =>
         /\ ~(b + k <= n) /\ b + k # n + 1 /\ ~(b + k <= n + 1 + gap)
         /\ (b + k) - n - 1 - gap = k - (B - L)
    /\ ~(j - 1 = f /\ k > B - L) => b + k <= n + 1 + gap
    /\ b + k <= n <=> a + k - 1 < N
    /\ b + k = n + 1 <=> a + k - 1 = N

(* The same in those words. *)
LEMMA CtPlaceIs ==
    ASSUME NEW B, NEW L, NEW f, NEW j, NEW n, NEW N, NEW gap, NEW a, NEW b, NEW c,
           CtLayout(B, L, f, j, n, N, gap, a, b, c), NEW k \in 1..B
    PROVE  CtPlaces(B, L, f, j, k, n, N, gap, a, b)
  BY CtPlace DEF CtLayout, CtPlaces

(* z is some block and the MAC input; w is z, the mark, zeros, the length. *)
CtSource(header, data, N, z) == \A i \in 1..N : z[BlockSize + i] = (header \o data)[i]
CtPadding(z, n, gap, w) ==
    \A i \in 1..(n + 1 + gap + LengthSize) :
        w[i] = IF i <= n THEN z[i] ELSE IF i = n + 1 THEN Mark
               ELSE IF i <= n + 1 + gap THEN Zero ELSE LengthBytes(n)[i - n - 1 - gap]

(* One block of the schedule, up to the last that counts, against the      *)
(* padded message w behind the first block.                                *)
LEMMA CtBlockIs ==
    ASSUME NEW header, NEW data, NEW len, NEW N \in Nat, N = Len(header) + len,
           NEW n \in Nat, n = BlockSize + N, NEW f \in Nat, f = FinalBlock(N),
           NEW gap \in Nat, n + 1 + gap + LengthSize = At(f + 2),
           NEW z, CtSource(header, data, N, z), NEW w, CtPadding(z, n, gap, w),
           NEW j \in 1..(f + 1)
    PROVE  Blk(w, j + 1) = CtBlock(header, data, len, j - 1)
<1>1. PICK B \in Nat, L \in Nat : B = BlockSize /\ L = LengthSize /\ L > 0 /\ L < B
  BY Sizes
<1>2. j \in Nat \ {0} /\ j - 1 \in Nat /\ f + 1 \in Nat /\ j + 1 \in Nat
  OBVIOUS
<1>3. PICK a \in Nat : a = At(j - 1)
  BY <1>2, AtFacts
<1>4. PICK b \in Nat : b = At(j) /\ b = B + a
  <2>1. At(j) = At(j - 1) + BlockSize /\ At(j) \in Nat
    BY <1>2, AtFacts
  <2>2. At(j) = B + a
    BY <2>1, <1>1, <1>3
  <2>. QED BY <2>1, <2>2
<1>5. PICK c \in Nat : c = At(f + 1)
  BY <1>2, AtFacts
<1>6. n + 1 + gap + L = c + B
  <2>1. (f + 1) + 1 = f + 2 /\ f + 1 \in Nat
    OBVIOUS
  <2>2. At((f + 1) + 1) = At(f + 1) + B
    BY <2>1, <1>1, AtFacts
  <2>. QED BY <2>1, <2>2, <1>1, <1>5
<1>7. j # f + 1 => b + B <= c
  <2>1. SUFFICES ASSUME j # f + 1 PROVE b + B <= c
    OBVIOUS
  <2>2. j + 1 <= f + 1
    BY <2>1, SMTT(30)
  <2>3. At(j + 1) = At(j) + B
    BY <1>2, <1>1, AtFacts
  <2>4. At(j + 1) <= At(f + 1)
    BY <1>2, <2>2, AtFacts
  <2>. QED BY <2>3, <2>4, <1>4, <1>5
<1>8. j = f + 1 => b = c
  BY <1>4, <1>5
<1>9. CtLayout(B, L, f, j, n, N, gap, a, b, c)
  BY <1>1, <1>4, <1>6, <1>7, <1>8 DEF CtLayout
<1>10. ASSUME NEW k \in 1..B
      PROVE  w[b + k] = IF j - 1 = f /\ k > B - L
                        THEN LengthBytes(n)[k - (B - L)]
                        ELSE CtByte(header, data, len, a + k - 1)
  <2>1. CtPlaces(B, L, f, j, k, n, N, gap, a, b)
    BY <1>9, CtPlaceIs
  <2>3. PICK i \in Nat, q \in Nat : i = b + k /\ q = a + k - 1
    BY <2>1 DEF CtPlaces
  <2>4. w[i] = IF i <= n THEN z[i] ELSE IF i = n + 1 THEN Mark
               ELSE IF i <= n + 1 + gap THEN Zero ELSE LengthBytes(n)[i - n - 1 - gap]
    BY <1>1, <2>1, <2>3 DEF CtPlaces, CtPadding
  <2>5. CASE j - 1 = f /\ k > B - L
    <3>1. ~(i <= n) /\ i # n + 1 /\ ~(i <= n + 1 + gap) /\ i - n - 1 - gap = k - (B - L)
      BY <2>1, <2>3, <2>5 DEF CtPlaces
    <3>. QED BY <2>3, <2>4, <2>5, <3>1
  <2>6. CASE ~(j - 1 = f /\ k > B - L)
    <3>1. i <= n + 1 + gap /\ (i <= n <=> q < N) /\ (i = n + 1 <=> q = N) /\ i = B + (q + 1)
      BY <2>1, <2>3, <2>6 DEF CtPlaces
    <3>2. w[i] = IF q < N THEN z[i] ELSE IF q = N THEN Mark ELSE Zero
      BY <2>4, <3>1
    <3>3. ASSUME q < N PROVE z[i] = (header \o data)[q + 1]
      <4>1. q + 1 \in 1..N
        BY <3>3
      <4>. QED BY <4>1, <3>1, <1>1 DEF CtSource
    <3>4. w[i] = CtByte(header, data, len, q)
      BY <3>2, <3>3 DEF CtByte
    <3>. QED BY <2>3, <2>6, <3>4
  <2>. QED BY <2>5, <2>6
<1>11. Blk(w, j + 1) = [k \in 1..B |-> w[b + k]]
  <2>1. (j + 1) - 1 = j
    OBVIOUS
  <2>. QED BY <2>1, <1>1, <1>4 DEF Blk
<1>12. CtBlock(header, data, len, j - 1) =
          [k \in 1..B |-> IF j - 1 = f /\ k > B - L THEN LengthBytes(n)[k - (B - L)]
                          ELSE CtByte(header, data, len, a + k - 1)]
  <2>1. (j - 1) * BlockSize = a /\ BlockSize + (Len(header) + len) = n
    BY <1>3 DEF At, Mul
  <2>. QED BY <2>1, <1>1 DEF CtBlock
<1>. QED BY <1>10, <1>11, <1>12

(* What is cut out of the schedule. *)
LEMMA CtScheduleStart ==
    ASSUME NEW header, NEW data, NEW len, NEW C \in Nat,
           C = CtInnerBlocks(Len(header) + Len(data)), NEW c \in Nat, c <= C
    PROVE  /\ SubSeq(CtSchedule(header, data, len), 1, c)
                = [j \in 1..c |-> CtBlock(header, data, len, j - 1)]
           /\ Len(CtSchedule(header, data, len)) = C
<1>. DEFINE sched == CtSchedule(header, data, len)
            v == [j \in 1..c |-> CtBlock(header, data, len, j - 1)]
            T == {CtBlock(header, data, len, j - 1) : j \in 1..C}
<1>1. sched = [j \in 1..C |-> CtBlock(header, data, len, j - 1)]
  BY DEF CtSchedule
<1>2. (\A j \in 1..C : sched[j] \in T) /\ IsRun(sched, C)
  BY <1>1 DEF IsRun
<1>3. IsRun(v, c) /\ \A l \in 1..c : sched[l] = v[l]
  BY <1>1 DEF IsRun
<1>. HIDE DEF T, sched, v
<1>4. sched \in Seq(T) /\ Len(sched) = C
  BY <1>2, FcnIsSeq
<1>5. SubSeq(sched, 1, c) = v
  BY <1>3, <1>4, PrefixIs
<1>. QED BY <1>4, <1>5 DEF sched, v

(* The MAC input m, and that it starts the header and data. *)
IsInput(m, header, data, len) == m = header \o Upto(data, len)
CtFrom(header, data, N, m) == \A i \in 1..N : m[i] = (header \o data)[i]

(* The first len bytes of the data end where the MAC input ends. *)
LEMMA CtInput ==
    ASSUME NEW S, NEW header \in Seq(S), NEW data \in Seq(S), NEW len \in 0..Len(data),
           NEW N, N = Len(header) + len, NEW m, IsInput(m, header, data, len)
    PROVE  m \in Seq(S) /\ N \in Nat /\ Len(m) = N /\ CtFrom(header, data, N, m)
<1>1. PICK u \in Seq(S) : u = Upto(data, len) /\ Len(u) = len /\ \A i \in 1..len : u[i] = data[i]
  <2>1. Upto(data, len) \in Seq(S) /\ Len(Upto(data, len)) = len
    BY CutFacts
  <2>2. \A i \in 1..len : Upto(data, len)[i] = data[i]
    BY DEF Upto
  <2>. QED BY <2>1, <2>2
<1>2. PICK h \in Nat : h = Len(header)
  OBVIOUS
<1>3. /\ header \o u \in Seq(S) /\ Len(header \o u) = h + len
      /\ \A i \in 1..(h + len) : (header \o u)[i] = IF i <= h THEN header[i] ELSE u[i - h]
  BY <1>1, <1>2, ConcatAt, SMTT(30)
<1>4. \A i \in 1..(h + Len(data)) : (header \o data)[i] = IF i <= h THEN header[i] ELSE data[i - h]
  BY <1>2, ConcatAt
<1>5. ASSUME NEW i \in 1..(h + len) PROVE (header \o u)[i] = (header \o data)[i]
  <2>1. i \in 1..(h + Len(data)) /\ (~(i <= h) => i - h \in 1..len)
    OBVIOUS
  <2>. QED BY <2>1, <1>1, <1>3, <1>4
<1>. QED BY <1>1, <1>2, <1>3, <1>5 DEF IsInput, CtFrom

(* The three facts above, each with its hypotheses as one. *)
CtAligned(header, data, len, N, n, f, gap, z, w) ==
    /\ N \in Nat /\ N = Len(header) + len /\ n \in Nat /\ n = BlockSize + N
    /\ f \in Nat /\ f = FinalBlock(N) /\ gap \in Nat /\ n + 1 + gap + LengthSize = At(f + 2)
    /\ CtSource(header, data, N, z) /\ CtPadding(z, n, gap, w)
CtHashed(x, header, data, len, f) == <<x>> \o SubSeq(CtSchedule(header, data, len), 1, f + 1)
CtWithin(header, data, c) ==
    /\ CtInnerBlocks(Len(header) + Len(data)) \in Nat
    /\ c \in Nat /\ c <= CtInnerBlocks(Len(header) + Len(data))

IsBlock(x) == Len(x) = BlockSize
CtFinal(header, data, N, f) ==
    f = FinalBlock(N) /\ f = Quo(N + LengthSize, BlockSize) /\ CtWithin(header, data, f + 1)

(* CtBlockIs. *)
LEMMA CtBlocksAre ==
    ASSUME NEW header, NEW data, NEW len, NEW N, NEW n, NEW f, NEW gap, NEW z, NEW w,
           CtAligned(header, data, len, N, n, f, gap, z, w)
    PROVE  \A j \in 1..(f + 1) : Blk(w, j + 1) = CtBlock(header, data, len, j - 1)
  BY CtBlockIs DEF CtAligned

(* CtScheduleStart. *)
LEMMA CtStartIs ==
    ASSUME NEW header, NEW data, NEW len, NEW c, CtWithin(header, data, c)
    PROVE  SubSeq(CtSchedule(header, data, len), 1, c)
             = [j \in 1..c |-> CtBlock(header, data, len, j - 1)]
  BY CtScheduleStart DEF CtWithin

(* The first block only shifts the count. *)
LEMMA CtCount ==
    ASSUME NEW N \in Nat, NEW n, n = BlockSize + N
    PROVE  Quo(n + LengthSize, BlockSize) + 1 = Quo(N + LengthSize, BlockSize) + 2
<1>1. PICK y \in Nat : y = N + LengthSize
  BY Sizes
<1>2. n + LengthSize = Mul(1, BlockSize) + y
  BY <1>1, MulFacts, Sizes
<1>3. Quo(n + LengthSize, BlockSize) = 1 + Quo(y, BlockSize)
  BY <1>2, QuotientShift, Sizes
<1>4. Quo(y, BlockSize) \in Nat
  BY DivMod, Sizes
<1>. QED BY <1>1, <1>3, <1>4

(* Block by block, what mac_ct hashes is the standard's padding of a first *)
(* block and the message, wherever in the schedule the message ends.       *)
LEMMA CtBlocks ==
    ASSUME NEW S, NEW x \in Seq(S), IsBlock(x),
           NEW header, NEW data, NEW len, NEW N \in Nat, N = Len(header) + len,
           NEW m \in Seq(S), Len(m) = N, CtFrom(header, data, N, m),
           NEW f \in Nat, CtFinal(header, data, N, f)
    PROVE  Blocks(Padded(x \o m)) = CtHashed(x, header, data, len, f)
<1>0. f = FinalBlock(N) /\ f = Quo(N + LengthSize, BlockSize) /\ CtWithin(header, data, f + 1)
  BY DEF CtFinal
<1>1. PICK B \in Nat, L \in Nat : B = BlockSize /\ L = LengthSize /\ L > 0 /\ L < B
  BY Sizes
<1>2. PICK n \in Nat : n = B + N
  OBVIOUS
<1>3. PICK z \in Seq(S) :
        /\ z = x \o m /\ Len(z) = n
        /\ \A i \in 1..n : z[i] = IF i <= B THEN x[i] ELSE m[i - B]
  <2>1. Len(x) = B /\ Len(m) = N
    BY <1>1 DEF IsBlock
  <2>2. /\ x \o m \in Seq(S) /\ Len(x \o m) = Len(x) + Len(m)
        /\ \A i \in 1..(Len(x) + Len(m)) : (x \o m)[i] = IF i <= Len(x) THEN x[i] ELSE m[i - Len(x)]
    BY ConcatFacts
  <2>. QED BY <2>1, <2>2, <1>2
<1>4. Quo(n + LengthSize, BlockSize) + 1 = f + 2
  <2>1. Quo(n + LengthSize, BlockSize) + 1 = Quo(N + LengthSize, BlockSize) + 2
    BY <1>1, <1>2, CtCount
  <2>. QED BY <2>1, <1>0
<1>5. PICK gap : IsGap(S, z, n, gap, f + 2)
  <2>1. PICK gap : IsGap(S, z, n, gap, Quo(n + LengthSize, BlockSize) + 1)
    BY <1>3, GapExists
  <2>. QED BY <2>1, <1>4
<1>6. gap \in Nat /\ n + 1 + gap + LengthSize = At(f + 2)
  <2>1. gap \in 0..(BlockSize - 1) /\ n + 1 + gap + LengthSize = At(f + 2)
    BY <1>5 DEF IsGap
  <2>. QED BY <2>1, Sizes
<1>7. PICK w : w = Padded(z) /\ IsPadded(w, S, z, n, gap, f + 2)
  BY <1>5, PaddedFacts
<1>8. /\ \A i \in 1..(n + 1 + gap + LengthSize) :
             w[i] = IF i <= n THEN z[i] ELSE IF i = n + 1 THEN Mark
                    ELSE IF i <= n + 1 + gap THEN Zero ELSE LengthBytes(n)[i - n - 1 - gap]
      /\ w \in Seq(S \cup PadSyms(n)) /\ QuoB(w) = f + 2
  BY <1>7 DEF IsPadded
<1>9. Blocks(w) = [j \in 1..(f + 2) |-> Blk(w, j)]
  BY <1>8, BlocksFacts
<1>10. Blk(w, 1) = x
  <2>1. IsRun(x, B)
    BY <1>1, SeqIsRun DEF IsBlock
  <2>2. ASSUME NEW k \in 1..B PROVE w[At(0) + k] = x[k]
    <3>1. At(0) + k = k
      BY AtFacts
    <3>2. k \in 1..n /\ k <= B
      BY <1>2
    <3>3. k \in 1..(n + 1 + gap + LengthSize) /\ k <= n
      BY <3>2, <1>6, Sizes
    <3>. QED BY <3>1, <3>2, <3>3, <1>8, <1>3
  <2>. QED BY <2>1, <2>2, <1>1 DEF Blk, IsRun
<1>11. \A j \in 1..(f + 1) : Blk(w, j + 1) = CtBlock(header, data, len, j - 1)
  <2>1. \A i \in 1..N : z[BlockSize + i] = (header \o data)[i]
    <3>1. SUFFICES ASSUME NEW i \in 1..N PROVE z[BlockSize + i] = (header \o data)[i]
      OBVIOUS
    <3>2. PICK l \in Nat : l = B + i /\ l \in 1..n /\ ~(l <= B) /\ l - B = i
      <4>1. B + i \in Nat /\ B + i \in 1..n /\ ~(B + i <= B) /\ (B + i) - B = i
        BY <1>1, <1>2
      <4>. QED BY <4>1
    <3>3. z[l] = m[i]
      BY <3>2, <1>3
    <3>. QED BY <3>2, <3>3, <1>1 DEF CtFrom
  <2>2. n = BlockSize + N
    BY <1>1, <1>2
  <2>3. CtAligned(header, data, len, N, n, f, gap, z, w)
    BY <2>1, <2>2, <1>0, <1>6, <1>8 DEF CtAligned, CtSource, CtPadding
  <2>. QED BY <2>3, CtBlocksAre
<1>12. PICK c \in Nat : c = f + 1 /\ 1 + c = f + 2
  <2>1. f + 1 \in Nat /\ 1 + (f + 1) = f + 2
    OBVIOUS
  <2>. QED BY <2>1
<1>13. PICK v : v = [j \in 1..c |-> CtBlock(header, data, len, j - 1)]
  OBVIOUS
<1>14. SubSeq(CtSchedule(header, data, len), 1, c) = v
  <2>1. CtWithin(header, data, c)
    BY <1>0, <1>12
  <2>2. SubSeq(CtSchedule(header, data, len), 1, c)
          = [j \in 1..c |-> CtBlock(header, data, len, j - 1)]
    BY <2>1, CtStartIs
  <2>. QED BY <2>2, <1>13
<1>15. Blocks(w) = <<x>> \o v
  <2>1. IsRun(<<x>>, 1) /\ <<x>>[1] = x
    BY DEF IsRun
  <2>2. IsRun(v, c)
    BY <1>13 DEF IsRun
  <2>3. IsRun(Blocks(w), 1 + c)
    BY <1>9, <1>12 DEF IsRun
  <2>4. \A j \in 1..1 : Blocks(w)[j] = <<x>>[j]
    BY <1>9, <1>10, <2>1
  <2>5. \A j \in 1..c : Blocks(w)[1 + j] = v[j]
    <3>1. SUFFICES ASSUME NEW j \in 1..c PROVE Blocks(w)[1 + j] = v[j]
      OBVIOUS
    <3>2. 1 + j \in 1..(f + 2) /\ 1 + j = j + 1 /\ j \in 1..(f + 1)
      BY <1>12
    <3>. QED BY <3>2, <1>9, <1>11, <1>12, <1>13
  <2>. QED BY <2>1, <2>2, <2>3, <2>4, <2>5, JoinIs
<1>. QED BY <1>3, <1>7, <1>12, <1>14, <1>15 DEF CtHashed

CtGiven(S, x, header, data, len, N, m, f) ==
    /\ x \in Seq(S) /\ IsBlock(x) /\ m \in Seq(S)
    /\ N \in Nat /\ N = Len(header) + len /\ Len(m) = N
    /\ CtFrom(header, data, N, m)
    /\ f \in Nat /\ CtFinal(header, data, N, f)

(* CtBlocks, with its hypotheses as one. *)
LEMMA CtBlocksGiven ==
    ASSUME NEW S, NEW x, NEW header, NEW data, NEW len, NEW N, NEW m, NEW f,
           CtGiven(S, x, header, data, len, N, m, f)
    PROVE  Blocks(Padded(x \o m)) = CtHashed(x, header, data, len, f)
<1>1. x \in Seq(S) /\ m \in Seq(S) /\ N \in Nat /\ f \in Nat
  BY DEF CtGiven
<1>2. IsBlock(x) /\ N = Len(header) + len /\ Len(m) = N /\ CtFrom(header, data, N, m)
  BY DEF CtGiven
<1>3. CtFinal(header, data, N, f)
  BY DEF CtGiven
<1>. QED BY <1>1, <1>2, <1>3, CtBlocks

(* What mac_ct hashes inside. *)
LEMMA CtStateIs ==
    ASSUME NEW S, NEW hkey, NEW x \in Seq(S), x = Xored("ipad", KPrime(hkey)), IsBlock(x),
           NEW header \in Seq(S), NEW data \in Seq(S), NEW len \in 0..Len(data),
           NEW m, IsInput(m, header, data, len)
    PROVE  CtState(hkey, header, data, len) = Blocks(Padded(x \o m))
<1>1. PICK N \in Nat : N = Len(header) + len
  OBVIOUS
<1>3. m \in Seq(S) /\ Len(m) = N /\ CtFrom(header, data, N, m)
  BY <1>1, CtInput
<1>4. PICK f : f = FinalBlock(Len(header) + len)
  OBVIOUS
<1>5. /\ f \in Nat /\ f = Quo(Len(header) + len + LengthSize, BlockSize)
      /\ CtInnerBlocks(Len(header) + Len(data)) \in Nat
      /\ f + 1 <= CtInnerBlocks(Len(header) + Len(data))
  BY <1>4, CtScheduleFacts
<1>6. CtWithin(header, data, f + 1)
  BY <1>5 DEF CtWithin
<1>7. CtGiven(S, x, header, data, len, N, m, f)
  BY <1>1, <1>3, <1>4, <1>5, <1>6 DEF CtGiven, CtFinal
<1>8. Blocks(Padded(x \o m)) = CtHashed(x, header, data, len, f)
  BY <1>7, CtBlocksGiven
<1>9. Len(CtSchedule(header, data, len)) = CtInnerBlocks(Len(header) + Len(data))
  <2>1. PICK C \in Nat : C = CtInnerBlocks(Len(header) + Len(data))
    BY <1>5
  <2>2. Len(CtSchedule(header, data, len)) = C
    <3>1. 0 \in Nat /\ 0 <= C
      OBVIOUS
    <3>. QED BY <3>1, <2>1, CtScheduleStart
  <2>. QED BY <2>1, <2>2
<1>10. f < Len(CtSchedule(header, data, len))
  BY <1>5, <1>9
<1>. QED BY <1>4, <1>8, <1>10 DEF CtState, CtHashed

(* mac_ct, by a schedule that does not depend on where the message ends,   *)
(* computes the reference HMAC of the header and the first len bytes.      *)
THEOREM MacCtIsRefHmac ==
    ASSUME NEW K, NEW hkey \in Seq(K),
           NEW S, NEW header \in Seq(S), NEW data \in Seq(S), NEW len \in 0..Len(data)
    PROVE  MacCt(hkey, header, data, len) = RefHmac(hkey, header \o Upto(data, len))
<1>. DEFINE x == Xored("ipad", PaddedKey(hkey))  X == {x[k] : k \in 1..BlockSize}
            y == Xored("opad", PaddedKey(hkey))  Y == {y[k] : k \in 1..BlockSize}
            m == header \o Upto(data, len)
            d == Inner(hkey, m)  D == {d[k] : k \in 1..DigestSize}
            T == S \cup X  U == Y \cup D
<1>1. KPrime(hkey) = PaddedKey(hkey)
  BY KPrimeIsPaddedKey
<1>2. x \in Seq(X) /\ y \in Seq(Y) /\ IsBlock(x)
  BY XoredIsSeq, Sizes DEF Xored, IsBlock
<1>3. d \in Seq(D)
  BY DigestIsSeq DEF Inner, RefHash
<1>4. d = RefHash(x \o m) /\ RefHmac(hkey, m) = RefHash(y \o d)
  BY HmacParts DEF Inner, Outer
<1>5. x = Xored("ipad", KPrime(hkey)) /\ y = Xored("opad", KPrime(hkey))
  BY <1>1
<1>. HIDE DEF x, X, y, Y, D, d
<1>6. x \in Seq(T) /\ header \in Seq(T) /\ data \in Seq(T)
  BY <1>2
<1>7. y \in Seq(U) /\ d \in Seq(U)
  BY <1>2, <1>3
<1>. HIDE DEF T, U
<1>8. CtState(hkey, header, data, len) = Blocks(Padded(x \o m))
  <2>1. IsInput(m, header, data, len)
    BY DEF IsInput
  <2>. HIDE DEF m
  <2>. QED BY <2>1, <1>2, <1>5, <1>6, CtStateIs
<1>9. Digest(CtState(hkey, header, data, len)) = d
  BY <1>4, <1>8 DEF RefHash
<1>10. Holds(Update(NewSm3, y), y)
  <2>1. <<>> \in Seq(U) /\ <<>> \o y = y
    BY <1>7
  <2>. QED BY <2>1, <1>7, NewHolds, UpdateHolds
<1>11. Holds(Update(Update(NewSm3, y), d), y \o d)
  BY <1>7, <1>10, UpdateHolds
<1>12. y \o d \in Seq(U)
  BY <1>7, ConcatFacts
<1>13. Finalize(Update(Update(NewSm3, y), d)) = RefHash(y \o d)
  BY <1>11, <1>12, FinalizeIsHash
<1>14. MacCt(hkey, header, data, len) =
         Finalize(Update(Update(NewSm3, y), Digest(CtState(hkey, header, data, len))))
  BY <1>5, MacCtParts
<1>. QED BY <1>4, <1>9, <1>13, <1>14

(***************************************************************************)
(* The padding and the decoding of a CBC body.                             *)
(***************************************************************************)

(* The body, of n symbols, ends with p + 1 pad bytes behind len bytes and  *)
(* a MAC.                                                                  *)
EndsPadded(body, n, len, p) ==
    /\ len \in Nat /\ p \in 0..PadMax /\ len + DigestSize + p + 1 = n
    /\ \A i \in 0..p : body[n - i] = Byte(p)

(* A pad byte is its value. *)
LEMMA ByteFacts ==
    /\ \A v : Value(Byte(v)) = v
    /\ \A v, w : Byte(v) = Byte(w) => v = w
    /\ \A v \in 0..PadMax : Byte(v) \in Octets
    /\ \A o \in Octets : \E v \in 0..PadMax : o = Byte(v)
  BY DEF Byte, Value, Octets

(* What the window of the scan covers: any region that can be legal. *)
LEMMA WindowCovers ==
    ASSUME NEW n \in Nat, NEW v \in 0..PadMax, v + 1 <= n
    PROVE  \A i \in 0..v : i \in 0..(PadWindow(n) - 1) /\ i < v + 1
<1>1. PadMax \in Nat
  BY RecordAssumption
<1>. QED BY <1>1 DEF PadWindow

(* check_tls_padding_ct accepts exactly a legal padding, and finds where   *)
(* the plaintext ends, however few trailing bytes its window covers.       *)
LEMMA CheckPaddingFinds ==
    ASSUME NEW body, NEW n \in Nat, n = Len(body), NEW v \in 0..PadMax, body[n] = Byte(v),
           CheckPadding(body) # None
    PROVE  EndsPadded(body, n, CheckPadding(body), v)
<1>1. Value(body[n]) + 1 = v + 1 /\ v \in Nat /\ DigestSize \in Nat
  BY ByteFacts, RecordAssumption, SizesAssumption
<1>2. /\ v + 1 <= n - DigestSize
      /\ \A i \in 0..(PadWindow(n) - 1) : i < v + 1 => body[n - i] = body[n]
      /\ CheckPadding(body) = n - DigestSize - (v + 1)
  BY <1>1 DEF CheckPadding
<1>3. \A i \in 0..v : body[n - i] = Byte(v)
  <2>1. v + 1 <= n
    BY <1>1, <1>2
  <2>. QED BY <1>2, <2>1, WindowCovers
<1>4. n - DigestSize - (v + 1) \in Nat /\ (n - DigestSize - (v + 1)) + DigestSize + v + 1 = n
  BY <1>1, <1>2
<1>. QED BY <1>2, <1>3, <1>4 DEF EndsPadded

(* And back: a legal padding is found. *)
LEMMA CheckPaddingAccepts ==
    ASSUME NEW body, NEW n \in Nat, n = Len(body), n >= DigestSize + CipherBlock,
           NEW len, NEW p, EndsPadded(body, n, len, p)
    PROVE  CheckPadding(body) = len
<1>1. /\ len \in Nat /\ p \in 0..PadMax /\ len + DigestSize + p + 1 = n
      /\ \A i \in 0..p : body[n - i] = Byte(p)
  BY DEF EndsPadded
<1>2. p \in Nat /\ DigestSize \in Nat /\ CipherBlock \in Nat
  BY <1>1, RecordAssumption, SizesAssumption
<1>3. body[n] = Byte(p)
  <2>1. 0 \in 0..p /\ n - 0 = n
    BY <1>2
  <2>. QED BY <1>1, <2>1
<1>4. Value(body[n]) + 1 = p + 1
  BY <1>3, ByteFacts
<1>5. \A i \in 0..(PadWindow(n) - 1) : i < p + 1 => body[n - i] = body[n]
  <2>1. SUFFICES ASSUME NEW i \in 0..(PadWindow(n) - 1), i < p + 1 PROVE body[n - i] = body[n]
    OBVIOUS
  <2>2. PadWindow(n) \in Int
    BY RecordAssumption DEF PadWindow
  <2>3. i \in 0..p
    BY <1>2, <2>1, <2>2
  <2>. QED BY <2>3, <1>1, <1>3
<1>6. p + 1 <= n - DigestSize /\ n - DigestSize - (p + 1) = len
  BY <1>1, <1>2
<1>. QED BY <1>4, <1>5, <1>6 DEF CheckPadding

(* A padding, as a sequence of bytes. *)
LEMMA PaddingIs ==
    ASSUME NEW p \in 0..PadMax
    PROVE  /\ IsRun(Padding(p), p + 1) /\ Padding(p) \in Seq(Octets) /\ Len(Padding(p)) = p + 1
           /\ \A k \in 1..(p + 1) : Padding(p)[k] = Byte(p)
<1>1. p + 1 \in Nat
  BY RecordAssumption
<1>2. IsRun(Padding(p), p + 1) /\ \A k \in 1..(p + 1) : Padding(p)[k] = Byte(p)
  BY DEF Padding, IsRun
<1>3. \A k \in 1..(p + 1) : Padding(p)[k] \in Octets
  BY <1>2, ByteFacts
<1>. QED BY <1>1, <1>2, <1>3, FcnIsSeq

(* The padding of Decodes, symbol by symbol. *)
LEMMA PaddedEnd ==
    ASSUME NEW T, NEW body \in Seq(T), NEW n, n = Len(body), NEW len \in 0..n, NEW p \in 0..PadMax
    PROVE  EndsPadded(body, n, len, p) <=>
             len + DigestSize < n /\ SubSeq(body, len + DigestSize + 1, n) = Padding(p)
<1>1. p \in Nat /\ DigestSize \in Nat /\ n \in Nat /\ len \in Nat
  BY RecordAssumption, SizesAssumption
<1>2. PICK a \in Nat : a = len + DigestSize
  BY <1>1
<1>3. PICK c \in Nat : c = p + 1
  BY <1>1
<1>4. IsRun(Padding(p), c) /\ Len(Padding(p)) = c /\ \A k \in 1..c : Padding(p)[k] = Byte(p)
  BY <1>3, PaddingIs
<1>5. ASSUME EndsPadded(body, n, len, p)
      PROVE  a < n /\ SubSeq(body, a + 1, n) = Padding(p)
  <2>1. n = a + c /\ \A i \in 0..p : body[n - i] = Byte(p)
    BY <1>1, <1>2, <1>3, <1>5 DEF EndsPadded
  <2>2. \A l \in 1..c : Padding(p)[l] = body[a + l]
    <3>1. SUFFICES ASSUME NEW l \in 1..c PROVE Padding(p)[l] = body[a + l]
      OBVIOUS
    <3>2. PICK i \in 0..p : i = c - l /\ n - i = a + l
      <4>1. c - l \in 0..p /\ n - (c - l) = a + l
        BY <1>1, <1>3, <2>1
      <4>. QED BY <4>1
    <3>. QED BY <3>2, <2>1, <1>4
  <2>3. n <= Len(body)
    BY <1>1
  <2>4. PICK b : b = a + 1
    OBVIOUS
  <2>5. Copies(Padding(p), body, a, c, b, n)
    BY <2>1, <2>2, <2>3, <2>4, <1>4 DEF Copies
  <2>6. SubSeq(body, b, n) = Padding(p)
    BY <2>5, CopiesIs
  <2>7. SubSeq(body, a + 1, n) = Padding(p)
    BY <2>4, <2>6
  <2>8. a < n
    BY <2>1, <1>3, <1>1
  <2>. QED BY <2>7, <2>8
<1>6. ASSUME a < n, SubSeq(body, a + 1, n) = Padding(p)
      PROVE  EndsPadded(body, n, len, p)
  <2>. DEFINE u == SubSeq(body, a + 1, n)
  <2>1. Len(u) = n - a /\ \A l \in 1..(n - a) : u[l] = body[a + l]
    BY <1>1, <1>6
  <2>2. n = a + c
    BY <2>1, <1>1, <1>4, <1>6
  <2>. HIDE DEF u
  <2>3. u = Padding(p)
    BY <1>6 DEF u
  <2>4. ASSUME NEW i \in 0..p PROVE body[n - i] = Byte(p)
    <3>1. PICK l \in 1..c : l = c - i /\ a + l = n - i
      <4>1. c - i \in 1..c /\ a + (c - i) = n - i
        BY <1>1, <1>3, <2>2
      <4>. QED BY <4>1
    <3>2. u[l] = body[a + l]
      <4>1. l \in 1..(n - a)
        BY <2>2, <1>1
      <4>. QED BY <4>1, <2>1
    <3>. QED BY <3>1, <3>2, <2>3, <1>4
  <2>. QED BY <2>2, <2>4, <1>1, <1>2, <1>3 DEF EndsPadded
<1>. QED BY <1>1, <1>2, <1>5, <1>6

(* Decodes, in the words above. *)
LEMMA DecodesIs ==
    ASSUME NEW T, NEW body \in Seq(T), NEW n, n = Len(body), NEW len \in 0..n,
           NEW keys, NEW seq, NEW type
    PROVE  Decodes(keys, seq, type, body, len) <=>
             /\ \E p \in 0..PadMax : EndsPadded(body, n, len, p)
             /\ ExtractMac(body, len) =
                  RefHmac(keys.mac, Header(seq, type, len) \o Upto(body, len))
<1>1. \A p \in 0..PadMax : EndsPadded(body, n, len, p) <=>
        len + DigestSize < n /\ SubSeq(body, len + DigestSize + 1, n) = Padding(p)
  BY PaddedEnd
<1>. QED BY <1>1 DEF Decodes, Upto

(* A body of whole blocks that ends in a byte. *)
IsBody(body, n) ==
    /\ n \in Nat /\ n > 0 /\ n % CipherBlock = 0 /\ Len(body) = n
    /\ IsRun(body, n) /\ body[n] \in Octets

(* A longer body than a MAC, in whole blocks, is longer by a block. *)
LEMMA WholeBlocks ==
    ASSUME NEW n \in Nat, n % CipherBlock = 0, DigestSize < n
    PROVE  n >= DigestSize + CipherBlock
<1>1. CipherBlock \in Nat \ {0} /\ DigestSize \in Nat /\ Rem(DigestSize, CipherBlock) = 0 /\ Rem(n, CipherBlock) = 0
  BY RecordAssumption, SizesAssumption DEF Rem
<1>2. PICK a \in Nat : a = Quo(n, CipherBlock)
  BY <1>1, DivMod
<1>3. PICK b \in Nat : b = Quo(DigestSize, CipherBlock)
  BY <1>1, DivMod
<1>4. /\ n = Mul(a, CipherBlock) /\ DigestSize = Mul(b, CipherBlock)
      /\ Mul(a, CipherBlock) \in Nat /\ Mul(b, CipherBlock) \in Nat
  <2>1. Mul(a, CipherBlock) \in Nat /\ Mul(b, CipherBlock) \in Nat
    BY <1>1, MulFacts
  <2>2. n = Mul(a, CipherBlock) + Rem(n, CipherBlock)
    BY <1>1, <1>2, DivMod
  <2>3. DigestSize = Mul(b, CipherBlock) + Rem(DigestSize, CipherBlock)
    BY <1>1, <1>3, DivMod
  <2>. QED BY <1>1, <2>1, <2>2, <2>3
<1>5. a <= b => Mul(a, CipherBlock) <= Mul(b, CipherBlock)
  BY <1>1, MulFacts
<1>6. b < a
  BY <1>4, <1>5
<1>7. Mul(b, CipherBlock) + CipherBlock <= Mul(a, CipherBlock)
  BY <1>1, <1>6, MulFacts
<1>. QED BY <1>4, <1>7

(* The MAC that deprotect_cbc computes, over a window of the body that     *)
(* holds the longest plaintext. *)
LEMMA WindowMac ==
    ASSUME NEW K, NEW hkey \in Seq(K), NEW T, NEW body \in Seq(T),
           NEW longest \in 0..Len(body), NEW len \in 0..longest, NEW seq, NEW type
    PROVE  MacCt(hkey, Header(seq, type, len), SubSeq(body, 1, longest), len)
             = RefHmac(hkey, Header(seq, type, len) \o Upto(body, len))
<1>. DEFINE data == SubSeq(body, 1, longest)
            header == Header(seq, type, len)
            H == {<<"seq", seq>>, <<"type", type>>, <<"len", len>>}
            S == T \cup H
<1>1. longest \in Nat /\ len \in Nat /\ longest <= Len(body) /\ len <= longest
  OBVIOUS
<1>2. data \in Seq(T) /\ Len(data) = longest /\ \A i \in 1..longest : data[i] = body[i]
  BY <1>1
<1>3. header \in Seq(H)
  BY DEF Header
<1>. HIDE DEF data, header, H
<1>4. header \in Seq(S) /\ data \in Seq(S)
  BY <1>2, <1>3
<1>. HIDE DEF S
<1>5. len \in 0..Len(data)
  BY <1>1, <1>2
<1>6. MacCt(hkey, header, data, len) = RefHmac(hkey, header \o Upto(data, len))
  BY <1>4, <1>5, MacCtIsRefHmac
<1>7. Upto(data, len) = Upto(body, len)
  <2>1. Upto(data, len) \in Seq(T) /\ Len(Upto(data, len)) = len
    BY <1>2, <1>5, CutFacts
  <2>2. \A i \in 1..len : Upto(data, len)[i] = body[i]
    BY <1>1, <1>2 DEF Upto
  <2>3. Upto(body, len) \in Seq(T) /\ Len(Upto(body, len)) = len
    BY <1>1, CutFacts
  <2>4. \A i \in 1..len : Upto(body, len)[i] = body[i]
    BY <1>1 DEF Upto
  <2>. QED BY <2>1, <2>2, <2>3, <2>4, SameSeq
<1>. QED BY <1>6, <1>7 DEF data, header

(* deprotect_cbc on what a record decrypts to. *)
CbcMacOk(keys, seq, type, body, eff) ==
    MacCt(keys.mac, Header(seq, type, eff),
          SubSeq(body, 1, Len(body) - DigestSize - 1), eff) = ExtractMac(body, eff)
Legal(n) ==
    /\ n >= DigestSize + CipherBlock /\ n % CipherBlock = 0
    /\ n <= MaxPlaintext + DigestSize + CipherBlock
Unfit(n) ==
    \/ n < DigestSize + CipherBlock \/ n % CipherBlock # 0
    \/ n > MaxPlaintext + DigestSize + CipherBlock
Opened(keys, seq, type, body) ==
    IF CheckPadding(body) # None /\ CbcMacOk(keys, seq, type, body, CheckPadding(body))
    THEN SubSeq(body, 1, CheckPadding(body)) ELSE None

(* DeprotectCbc in those words. *)
LEMMA DeprotectParts ==
    ASSUME NEW keys, NEW seq, NEW type, NEW record,
           NEW n \in Nat, n = Len(record.body), NEW body,
           body = IF record.key = keys.enc THEN record.body ELSE Noise(n), Len(body) = n
    PROVE  /\ Legal(n) => DeprotectCbc(keys, seq, type, record) = Opened(keys, seq, type, body)
           /\ ~Legal(n) => DeprotectCbc(keys, seq, type, record) = None
<1>1. CipherBlock \in Nat /\ DigestSize \in Nat /\ MaxPlaintext \in Nat
  BY RecordAssumption, SizesAssumption
<1>. DEFINE r == n % CipherBlock
<1>2. Legal(n) <=> /\ ~(n < DigestSize + CipherBlock) /\ r = 0
                   /\ ~(n > MaxPlaintext + DigestSize + CipherBlock)
  <2>1. Legal(n) <=> /\ n >= DigestSize + CipherBlock /\ r = 0
                     /\ n <= MaxPlaintext + DigestSize + CipherBlock
    BY DEF Legal
  <2>. HIDE DEF r
  <2>. QED BY <1>1, <2>1
<1>3. Legal(n) => /\ ~(n < DigestSize + CipherBlock) /\ ~(n % CipherBlock # 0)
                  /\ ~(n > MaxPlaintext + DigestSize + CipherBlock)
  BY <1>2 DEF r
<1>4. CASE Legal(n)
  <2>1. CASE CheckPadding(body) = None
    BY <1>3, <1>4, <2>1 DEF DeprotectCbc, Opened
  <2>2. CASE CheckPadding(body) # None
    BY <1>3, <1>4, <2>2 DEF DeprotectCbc, Opened, CbcMacOk
  <2>. QED BY <2>1, <2>2, <1>4
<1>5. CASE ~Legal(n)
  <2>1. \/ n < DigestSize + CipherBlock \/ n % CipherBlock # 0
        \/ n > MaxPlaintext + DigestSize + CipherBlock
    <3>1. \/ n < DigestSize + CipherBlock \/ r # 0
          \/ n > MaxPlaintext + DigestSize + CipherBlock
      <4>. HIDE DEF r
      <4>. QED BY <1>2, <1>5
    <3>2. r = n % CipherBlock
      OBVIOUS
    <3>. QED BY <3>1, <3>2
  <2>2. Unfit(n)
    BY <2>1 DEF Unfit
  <2>3. Unfit(Len(record.body))
    BY <2>2
  <2>4. DeprotectCbc(keys, seq, type, record) = None
    BY <2>3, Zenon DEF DeprotectCbc, Unfit
  <2>. QED BY <2>4, <1>5
<1>. QED BY <1>4, <1>5

(* Under the key it was written for: what decodes is opened. *)
LEMMA OpensDecoded ==
    ASSUME NEW keys, NEW K, keys.mac \in Seq(K), NEW seq, NEW type, NEW record,
           record.key = keys.enc, NEW n, IsBody(record.body, n),
           n <= MaxPlaintext + DigestSize + CipherBlock,
           NEW len \in 0..n, Decodes(keys, seq, type, record.body, len)
    PROVE  DeprotectCbc(keys, seq, type, record) = Upto(record.body, len)
<1>. DEFINE body == record.body  T == {body[k] : k \in 1..n}
<1>1. n \in Nat /\ n > 0 /\ n % CipherBlock = 0 /\ Len(body) = n /\ IsRun(body, n) /\ body[n] \in Octets
  BY DEF IsBody
<1>2. body \in Seq(T)
  <2>1. \A k \in 1..n : body[k] \in T
    OBVIOUS
  <2>. HIDE DEF T, body
  <2>. QED BY <2>1, <1>1, FcnIsSeq
<1>3. body = IF record.key = keys.enc THEN record.body ELSE Noise(n)
  OBVIOUS
<1>4. keys.mac \in Seq(K) /\ Decodes(keys, seq, type, body, len)
  OBVIOUS
<1>. HIDE DEF T, body
<1>5. PICK p \in 0..PadMax : EndsPadded(body, n, len, p)
  BY <1>1, <1>2, <1>4, DecodesIs
<1>6. ExtractMac(body, len) = RefHmac(keys.mac, Header(seq, type, len) \o Upto(body, len))
  BY <1>1, <1>2, <1>4, DecodesIs
<1>7. len \in Nat /\ p \in Nat /\ DigestSize \in Nat /\ len + DigestSize + p + 1 = n
  BY <1>5, RecordAssumption, SizesAssumption DEF EndsPadded
<1>8. n >= DigestSize + CipherBlock
  BY <1>1, <1>7, WholeBlocks
<1>9. CheckPadding(body) = len
  BY <1>1, <1>5, <1>8, CheckPaddingAccepts
<1>10. PICK longest \in 0..Len(body) : longest = Len(body) - DigestSize - 1 /\ len \in 0..longest
  <2>1. n - DigestSize - 1 \in 0..n /\ len \in 0..(n - DigestSize - 1)
    BY <1>1, <1>7
  <2>. QED BY <2>1, <1>1
<1>11. MacCt(keys.mac, Header(seq, type, len), SubSeq(body, 1, longest), len)
         = RefHmac(keys.mac, Header(seq, type, len) \o Upto(body, len))
  BY <1>2, <1>4, <1>10, WindowMac
<1>12. CbcMacOk(keys, seq, type, body, len)
  BY <1>6, <1>10, <1>11 DEF CbcMacOk
<1>13. len # None
  BY <1>7, PayloadAssumption
<1>14. Opened(keys, seq, type, body) = Upto(body, len)
  BY <1>9, <1>12, <1>13 DEF Opened, Upto
<1>15. Legal(n)
  BY <1>1, <1>8 DEF Legal
<1>16. DeprotectCbc(keys, seq, type, record) = Opened(keys, seq, type, body)
  <2>1. n = Len(record.body) /\ Len(body) = n
    BY <1>1 DEF body
  <2>. QED BY <2>1, <1>3, <1>15, DeprotectParts
<1>. QED BY <1>14, <1>16 DEF body

(* And what is opened decodes. *)
LEMMA OpenedDecodes ==
    ASSUME NEW keys, NEW K, keys.mac \in Seq(K), NEW seq, NEW type, NEW record,
           record.key = keys.enc, NEW n, IsBody(record.body, n),
           DeprotectCbc(keys, seq, type, record) # None
    PROVE  /\ n <= MaxPlaintext + DigestSize + CipherBlock
           /\ \E len \in 0..n : /\ Decodes(keys, seq, type, record.body, len)
                                /\ DeprotectCbc(keys, seq, type, record) = Upto(record.body, len)
<1>. DEFINE body == record.body  T == {body[k] : k \in 1..n}
<1>1. n \in Nat /\ n > 0 /\ n % CipherBlock = 0 /\ Len(body) = n /\ IsRun(body, n) /\ body[n] \in Octets
  BY DEF IsBody
<1>2. body \in Seq(T)
  <2>1. \A k \in 1..n : body[k] \in T
    OBVIOUS
  <2>. HIDE DEF T, body
  <2>. QED BY <2>1, <1>1, FcnIsSeq
<1>3. body = IF record.key = keys.enc THEN record.body ELSE Noise(n)
  OBVIOUS
<1>4. n = Len(record.body) /\ Len(body) = n /\ keys.mac \in Seq(K)
  BY <1>1
<1>. HIDE DEF T, body
<1>5. Legal(n)
  BY <1>1, <1>3, <1>4, DeprotectParts
<1>6. DeprotectCbc(keys, seq, type, record) = Opened(keys, seq, type, body)
  BY <1>3, <1>4, <1>5, DeprotectParts
<1>7. PICK len : len = CheckPadding(body)
  OBVIOUS
<1>8. /\ len # None /\ CbcMacOk(keys, seq, type, body, len)
      /\ Opened(keys, seq, type, body) = Upto(body, len)
  BY <1>6, <1>7 DEF Opened, Upto
<1>9. PICK v \in 0..PadMax : body[n] = Byte(v)
  BY <1>1, ByteFacts
<1>10. EndsPadded(body, n, len, v)
  BY <1>1, <1>4, <1>7, <1>8, <1>9, CheckPaddingFinds
<1>11. len \in Nat /\ v \in Nat /\ DigestSize \in Nat /\ len + DigestSize + v + 1 = n
  BY <1>10, RecordAssumption, SizesAssumption DEF EndsPadded
<1>12. PICK longest \in 0..Len(body) : longest = Len(body) - DigestSize - 1 /\ len \in 0..longest
  <2>1. n - DigestSize - 1 \in 0..n /\ len \in 0..(n - DigestSize - 1)
    BY <1>1, <1>11
  <2>. QED BY <2>1, <1>4
<1>13. MacCt(keys.mac, Header(seq, type, len), SubSeq(body, 1, longest), len)
         = RefHmac(keys.mac, Header(seq, type, len) \o Upto(body, len))
  BY <1>2, <1>4, <1>12, WindowMac
<1>14. ExtractMac(body, len) = RefHmac(keys.mac, Header(seq, type, len) \o Upto(body, len))
  BY <1>8, <1>12, <1>13 DEF CbcMacOk
<1>15. len \in 0..n
  BY <1>11
<1>16. Decodes(keys, seq, type, body, len)
  BY <1>2, <1>4, <1>10, <1>14, <1>15, <1>9, DecodesIs
<1>17. n <= MaxPlaintext + DigestSize + CipherBlock
  BY <1>5 DEF Legal
<1>. QED BY <1>6, <1>8, <1>15, <1>16, <1>17 DEF body

(* Under another key a record never opens: its MAC is noise. *)
LEMMA RefusesForeign ==
    ASSUME NEW keys, NEW seq, NEW type, NEW record,
           record.key # keys.enc, NEW n, IsBody(record.body, n)
    PROVE  DeprotectCbc(keys, seq, type, record) = None
<1>. DEFINE body == Noise(n)  T == {body[k] : k \in 1..n}
<1>1. n \in Nat /\ n > 0 /\ n = Len(record.body)
  BY DEF IsBody
<1>2. IsRun(body, n) /\ body[n] = Byte(0) /\ \A k \in 1..(n - 1) : body[k] = <<"noise", k>>
  BY <1>1 DEF Noise, IsRun
<1>3. Len(body) = n
  <2>1. \A k \in 1..n : body[k] \in T
    OBVIOUS
  <2>. HIDE DEF T, body
  <2>. QED BY <2>1, <1>1, <1>2, FcnIsSeq
<1>4. body = IF record.key = keys.enc THEN record.body ELSE Noise(n)
  OBVIOUS
<1>. HIDE DEF T, body
<1>5. SUFFICES ASSUME Legal(n) PROVE Opened(keys, seq, type, body) = None
  BY <1>1, <1>3, <1>4, DeprotectParts
<1>6. SUFFICES ASSUME CheckPadding(body) # None, CbcMacOk(keys, seq, type, body, CheckPadding(body))
               PROVE  FALSE
  BY DEF Opened
<1>7. PICK len : len = CheckPadding(body)
  OBVIOUS
<1>8. 0 \in 0..PadMax
  BY RecordAssumption
<1>9. EndsPadded(body, n, len, 0)
  BY <1>1, <1>2, <1>3, <1>6, <1>7, <1>8, CheckPaddingFinds
<1>10. len \in Nat /\ len + DigestSize + 1 = n /\ DigestSize \in Nat /\ DigestSize > 0
  BY <1>9, SizesAssumption DEF EndsPadded
<1>11. ExtractMac(body, len)[1] = <<"noise", len + 1>>
  <2>1. PICK a \in Nat, b \in Nat : a = len + 1 /\ b = len + DigestSize /\ a <= b /\ b <= n
    BY <1>10
  <2>2. body \in Seq(T)
    <3>1. \A k \in 1..n : body[k] \in T
      BY DEF T
    <3>. QED BY <3>1, <1>1, <1>2, FcnIsSeq
  <2>3. SubSeq(body, a, b)[1] = body[a]
    BY <2>1, <2>2, <1>3
  <2>4. a \in 1..(n - 1)
    BY <2>1, <1>10
  <2>. QED BY <2>1, <2>3, <2>4, <1>2 DEF ExtractMac
<1>12. PICK s : MacCt(keys.mac, Header(seq, type, len),
                      SubSeq(body, 1, Len(body) - DigestSize - 1), len) = Digest(s)
  BY DEF MacCt, Finalize
<1>13. Digest(s)[1] = <<"digest", s, 1>>
  BY <1>10 DEF Digest
<1>14. Digest(s)[1] = <<"noise", len + 1>>
  BY <1>6, <1>7, <1>11, <1>12 DEF CbcMacOk
<1>15. "digest" # "noise"
  OBVIOUS
<1>. QED BY <1>13, <1>14, <1>15

(***************************************************************************)
(* What is sent, and GCM records.                                          *)
(***************************************************************************)
Entries == [type : Types, data : {p \in Payloads : Len(p) <= MaxPlaintext}]

(* The record that protect_gcm makes of an entry, the n-th from zero. *)
Sealing(d, n, e) == ProtectGcm(GcmKeys(d), n, e.type, e.data)
(* The two directions share no key: the halves of the key block are cut    *)
(* from different places (GcmClientHalf, GcmServerHalf).                   *)
LEMMA KeysApart ==
    ASSUME NEW d \in Directions, NEW e \in Directions, GcmKeys(d).enc = GcmKeys(e).enc
    PROVE  d = e
<1>1. 1 \in 1..DigestSize
  BY SizesAssumption
<1>2. KeyBlock(0, 16)[1] # KeyBlock(16, 32)[1]
  BY <1>1 DEF KeyBlock
<1>3. KeyBlock(0, 16) # KeyBlock(16, 32)
  BY <1>2
<1> QED
  BY <1>3 DEF Directions, GcmKeys, GcmClientHalf, GcmServerHalf

(* A payload is a sequence, and sealing it keeps its length and is undone  *)
(* byte by byte.                                                           *)
LEMMA SealedPayload ==
    ASSUME NEW keys, NEW nonce, NEW data \in Payloads
    PROVE  /\ Len(data) \in Nat
           /\ Len(Sealed(keys, nonce, data)) = Len(data)
           /\ [k \in 1..Len(data) |-> Sealed(keys, nonce, data)[k][5]] = data
<1>1. data \in Seq(Octets)
  BY PayloadAssumption DEF Octets
<1>2. Len(data) \in Nat /\ data \in [1..Len(data) -> Octets]
  BY <1>1, LenProperties
<1>3. Len(Sealed(keys, nonce, data)) = Len(data)
  <2> DEFINE ct == Sealed(keys, nonce, data)
             S == {ct[k] : k \in 1..Len(data)}
  <2>1. ct \in [1..Len(data) -> S]
    BY DEF Sealed
  <2> HIDE DEF S, ct
  <2>2. ct \in Seq(S) /\ Len(ct) = Len(data)
    BY <1>2, <2>1
  <2> QED
    BY <2>2 DEF ct
<1>4. \A k \in 1..Len(data) : Sealed(keys, nonce, data)[k][5] = data[k]
  BY DEF Sealed
<1>5. data = [k \in 1..Len(data) |-> data[k]]
  BY <1>2
<1> QED
  BY <1>2, <1>3, <1>4, <1>5

(* The fields of a sealing. *)
LEMMA SealingFields ==
    ASSUME NEW d \in Directions, NEW n \in Nat, NEW e \in Entries
    PROVE  LET ct == Sealed(GcmKeys(d), Nonce(GcmKeys(d), n), e.data)
           IN  /\ Sealing(d, n, e).explicit = n
               /\ Sealing(d, n, e).ct = ct
               /\ Sealing(d, n, e).tag = GcmTag(GcmKeys(d), Nonce(GcmKeys(d), n),
                                                Header(n, e.type, Len(e.data)), ct)
               /\ e.data \in Payloads /\ Len(e.data) <= MaxPlaintext
               /\ Len(e.data) \in Nat
<1>1. e.data \in Payloads /\ Len(e.data) <= MaxPlaintext
  BY DEF Entries
<1>2. Len(e.data) \in Nat
  BY <1>1, SealedPayload
<1>3. ~(Len(e.data) > MaxPlaintext)
  BY <1>1, <1>2, RecordAssumption
<1> QED
  BY <1>1, <1>2, <1>3 DEF Sealing, ProtectGcm

(* deprotect_gcm opens a record that carries the tag of a sealing only in  *)
(* the direction, at the count and as the type it was sealed for, and      *)
(* opens it as what was sealed.                                            *)
LEMMA OpensOnlyItself ==
    ASSUME NEW d \in Directions, NEW seq \in Nat, NEW type, NEW record,
           NEW e \in Directions, NEW n \in Nat, NEW s \in Entries,
           record.tag = Sealing(e, n, s).tag,
           DeprotectGcm(GcmKeys(d), seq, type, record) # None
    PROVE  /\ d = e /\ seq = n /\ type = s.type
           /\ DeprotectGcm(GcmKeys(d), seq, type, record) = s.data
<1> DEFINE ct == Sealed(GcmKeys(e), Nonce(GcmKeys(e), n), s.data)
<1>1. record.tag = GcmTag(GcmKeys(d), Nonce(GcmKeys(d), record.explicit),
                          Header(seq, type, Len(record.ct)), record.ct)
  BY DEF DeprotectGcm
<1>2. DeprotectGcm(GcmKeys(d), seq, type, record)
        = [k \in 1..Len(record.ct) |-> record.ct[k][5]]
  BY DEF DeprotectGcm
<1>3. record.tag = GcmTag(GcmKeys(e), Nonce(GcmKeys(e), n),
                          Header(n, s.type, Len(s.data)), ct)
  BY SealingFields
<1>4. /\ GcmKeys(d).enc = GcmKeys(e).enc /\ record.ct = ct
      /\ Header(seq, type, Len(record.ct)) = Header(n, s.type, Len(s.data))
  BY <1>1, <1>3 DEF GcmTag
<1>5. seq = n /\ type = s.type
  BY <1>4 DEF Header
<1>6. s.data \in Payloads
  BY SealingFields
<1> HIDE DEF ct
<1>7. [k \in 1..Len(record.ct) |-> record.ct[k][5]] = s.data
  BY <1>4, <1>6, SealedPayload DEF ct
<1> QED
  BY <1>2, <1>4, <1>5, <1>7, KeysApart

(* A record as it was sealed opens. *)
LEMMA SealingOpens ==
    ASSUME NEW d \in Directions, NEW n \in Nat, NEW e \in Entries
    PROVE  DeprotectGcm(GcmKeys(d), n, e.type, Sealing(d, n, e)) = e.data
<1> DEFINE r == Sealing(d, n, e)
           ct == Sealed(GcmKeys(d), Nonce(GcmKeys(d), n), e.data)
<1>1. /\ r.explicit = n /\ r.ct = ct /\ e.data \in Payloads
      /\ r.tag = GcmTag(GcmKeys(d), Nonce(GcmKeys(d), n), Header(n, e.type, Len(e.data)), ct)
      /\ Len(e.data) <= MaxPlaintext /\ Len(e.data) \in Nat
  BY SealingFields
<1>2. Len(ct) = Len(e.data) /\ [k \in 1..Len(e.data) |-> ct[k][5]] = e.data
  BY <1>1, SealedPayload
<1> HIDE DEF r, ct
<1>3. DeprotectGcm(GcmKeys(d), n, e.type, r) = e.data
  BY <1>1, <1>2, RecordAssumption DEF DeprotectGcm
<1> QED
  BY <1>3 DEF r

(***************************************************************************)
(* CBC records.                                                            *)
(***************************************************************************)

(* What protect_cbc authenticates of the n-th entry from zero, its code,   *)
(* and the record.                                                         *)
Message(n, e) == Header(n, e.type, Len(e.data)) \o e.data
Code(d, n, e) == RefHmac(CbcKeys(d).mac, Message(n, e))
PadOf(e) == PadLen(Len(e.data) + DigestSize)
Framing(d, n, e) ==
    [key |-> CbcKeys(d).enc, body |-> e.data \o Code(d, n, e) \o Padding(PadOf(e))]

CodeSymbols(d, n, e) == {Code(d, n, e)[k] : k \in 1..DigestSize}
HeaderBytes(seq, type, len) == {<<"seq", seq>>, <<"type", type>>, <<"len", len>>}
KeyBytes == {<<"key block", from, to, k>> : from \in {0, 32}, to \in {32, 64}, k \in 1..DigestSize}

(* A MAC key is a sequence of bytes of the key block. *)
LEMMA MacKeyIsSeq ==
    ASSUME NEW d \in Directions
    PROVE  CbcKeys(d).mac \in Seq(KeyBytes)
<1>1. ASSUME NEW from \in {0, 32}, NEW to \in {32, 64} PROVE KeyBlock(from, to) \in Seq(KeyBytes)
  <2>1. IsRun(KeyBlock(from, to), DigestSize)
    BY DEF KeyBlock, IsRun
  <2>2. \A k \in 1..DigestSize : KeyBlock(from, to)[k] \in KeyBytes
    BY DEF KeyBlock, KeyBytes
  <2>3. DigestSize \in Nat
    BY SizesAssumption
  <2>. QED BY <2>1, <2>2, <2>3, FcnIsSeq
<1>2. KeyBlock(0, 32) \in Seq(KeyBytes) /\ KeyBlock(32, 64) \in Seq(KeyBytes)
  BY <1>1
<1>. QED BY <1>2 DEF CbcKeys, ClientHalf, ServerHalf, Directions

(* The two directions encrypt under different keys (ClientHalf,            *)
(* ServerHalf).                                                            *)
LEMMA CbcKeysApart ==
    ASSUME NEW d \in Directions, NEW e \in Directions, CbcKeys(d).enc = CbcKeys(e).enc
    PROVE  d = e
<1>1. 1 \in 1..DigestSize
  BY SizesAssumption
<1>2. KeyBlock(64, 80)[1] # KeyBlock(80, 96)[1]
  BY <1>1 DEF KeyBlock
<1>3. KeyBlock(64, 80) # KeyBlock(80, 96)
  BY <1>2
<1>. QED BY <1>3 DEF Directions, CbcKeys, ClientHalf, ServerHalf

(* A header is three symbols, and names what it binds. *)
LEMMA HeaderIs ==
    ASSUME NEW seq, NEW type, NEW len
    PROVE  /\ Header(seq, type, len) \in Seq(HeaderBytes(seq, type, len))
           /\ Len(Header(seq, type, len)) = 3
           /\ \A s, t, l : Header(seq, type, len) = Header(s, t, l) =>
                  seq = s /\ type = t /\ len = l
<1>1. Header(seq, type, len) \in Seq(HeaderBytes(seq, type, len))
  BY DEF Header, HeaderBytes
<1>2. Len(Header(seq, type, len)) = 3
  BY DEF Header
<1>3. \A s, t, l : Header(seq, type, len) = Header(s, t, l) => seq = s /\ type = t /\ len = l
  BY DEF Header
<1>. QED BY <1>1, <1>2, <1>3

(* A code is a digest. *)
LEMMA CodeIs ==
    ASSUME NEW d, NEW n, NEW e
    PROVE  /\ Code(d, n, e) \in Seq(CodeSymbols(d, n, e)) /\ Len(Code(d, n, e)) = DigestSize
           /\ \A x \in CodeSymbols(d, n, e) : x[1] = "digest"
<1>1. PICK s : Code(d, n, e) = Digest(s)
  BY DEF Code, RefHmac, RefHash
<1>2. \A k \in 1..DigestSize : Digest(s)[k][1] = "digest"
  BY DEF Digest
<1>. QED BY <1>1, <1>2, DigestIsSeq DEF CodeSymbols

(* Nothing that starts with "digest" is a byte. *)
LEMMA DigestNotOctet ==
    ASSUME NEW x, x[1] = "digest"
    PROVE  x \notin Octets
<1>1. \A v : Byte(v)[1] = "byte"
  BY DEF Byte
<1>. QED BY <1>1 DEF Octets

(* An entry's message, in any set that has its parts. *)
LEMMA MessageIsSeq ==
    ASSUME NEW n, NEW e \in Entries
    PROVE  /\ e.data \in Seq(Octets) /\ Len(e.data) \in 0..MaxPlaintext /\ e.data \in Payloads
           /\ Message(n, e) \in Seq(HeaderBytes(n, e.type, Len(e.data)) \cup Octets)
<1>1. e.data \in Payloads /\ e.data \in Seq(Octets) /\ Len(e.data) <= MaxPlaintext
  BY PayloadAssumption DEF Entries
<1>2. Len(e.data) \in 0..MaxPlaintext
  BY <1>1, RecordAssumption
<1>. DEFINE H == HeaderBytes(n, e.type, Len(e.data))  S == H \cup Octets
            header == Header(n, e.type, Len(e.data))  data == e.data
<1>3. header \in Seq(H)
  BY HeaderIs
<1>. HIDE DEF H, header, data
<1>4. header \in Seq(S) /\ data \in Seq(S)
  BY <1>1, <1>3 DEF data
<1>. HIDE DEF S
<1>5. header \o data \in Seq(S)
  BY <1>4, ConcatFacts
<1>. QED BY <1>1, <1>2, <1>5 DEF S, H, header, data, Message

(* protect_cbc frames: the streaming HMAC it runs is the reference.        *)
LEMMA ProtectIsFraming ==
    ASSUME NEW d \in Directions, NEW n, NEW e \in Entries
    PROVE  ProtectCbc(CbcKeys(d), n, e.type, e.data) = Framing(d, n, e)
<1>. DEFINE hkey == CbcKeys(d).mac  header == Header(n, e.type, Len(e.data))  data == e.data
            H == HeaderBytes(n, e.type, Len(e.data))  S == H \cup Octets
            h1 == HmacUpdate(HmacNew(hkey), header)  h2 == HmacUpdate(h1, data)
<1>1. hkey \in Seq(KeyBytes) /\ header \in Seq(H) /\ data \in Seq(Octets)
  BY MacKeyIsSeq, HeaderIs, MessageIsSeq
<1>. HIDE DEF hkey, header, data, H
<1>2. header \in Seq(S) /\ data \in Seq(S) /\ <<>> \in Seq(S)
  BY <1>1
<1>. HIDE DEF S
<1>3. HmacHolds(HmacNew(hkey), hkey, <<>>)
  BY <1>1, HmacNewHolds
<1>. HIDE DEF h2
<1>4. HmacHolds(h1, hkey, <<>> \o header)
  BY <1>2, <1>3, HmacUpdateHolds
<1>5. <<>> \o header = header
  BY <1>2
<1>. HIDE DEF h1
<1>6. HmacHolds(h2, hkey, header \o data)
  BY <1>2, <1>4, <1>5, HmacUpdateHolds DEF h2
<1>7. header \o data \in Seq(S)
  BY <1>2, ConcatFacts
<1>8. HmacFinalize(h2) = RefHmac(hkey, header \o data)
  BY <1>6, <1>7, HmacFinalizeIsRefHmac
<1>9. HmacFinalize(h2) = Code(d, n, e)
  BY <1>8 DEF Code, Message, hkey, header, data
<1>10. ~(Len(e.data) > MaxPlaintext)
  <2>1. Len(e.data) \in 0..MaxPlaintext
    BY MessageIsSeq
  <2>. QED BY <2>1, RecordAssumption
<1>. QED BY <1>9, <1>10 DEF ProtectCbc, Framing, PadOf, h1, h2, hkey, header, data

(* Data, a code and a padding, put together. *)
IsFramed(w, data, code, p, Z) ==
    /\ data \in Seq(Z) /\ code \in Seq(Z) /\ Len(code) = DigestSize
    /\ p \in 0..PadMax /\ Octets \subseteq Z
    /\ w = (data \o code) \o Padding(p)

(* Where each of them is. *)
LEMMA FramedIs ==
    ASSUME NEW Z, NEW data, NEW code, NEW p, NEW w, IsFramed(w, data, code, p, Z),
           NEW m, m = Len(data), NEW n, n = m + DigestSize + p + 1
    PROVE  /\ m \in Nat /\ n \in Nat /\ w \in Seq(Z) /\ Len(w) = n
           /\ Upto(w, m) = data /\ ExtractMac(w, m) = code
           /\ Upto(w, m + DigestSize) = data \o code
           /\ SubSeq(w, m + DigestSize + 1, n) = Padding(p)
           /\ \A i \in 1..(p + 1) : w[m + DigestSize + i] = Byte(p)
<1>1. /\ data \in Seq(Z) /\ code \in Seq(Z) /\ Len(code) = DigestSize /\ p \in 0..PadMax
      /\ Octets \subseteq Z
  BY DEF IsFramed
<1>2. m \in Nat /\ DigestSize \in Nat /\ p \in Nat /\ p + 1 \in Nat
  BY <1>1, SizesAssumption, RecordAssumption
<1>. DEFINE u == data \o code  pad == Padding(p)
<1>3. PICK a \in Nat, c \in Nat : a = m + DigestSize /\ c = p + 1 /\ n = a + c
  BY <1>2
<1>4. u \in Seq(Z) /\ Len(u) = a /\ \A i \in 1..a : u[i] = IF i <= m THEN data[i] ELSE code[i - m]
  <2>1. /\ data \o code \in Seq(Z) /\ Len(data \o code) = m + DigestSize
        /\ \A i \in 1..(m + DigestSize) :
              (data \o code)[i] = IF i <= m THEN data[i] ELSE code[i - m]
    BY <1>1, ConcatAt
  <2>. QED BY <2>1, <1>3
<1>5. pad \in Seq(Z) /\ Len(pad) = c /\ \A i \in 1..c : pad[i] = Byte(p)
  <2>1. pad \in Seq(Octets) /\ Len(pad) = p + 1 /\ \A i \in 1..(p + 1) : pad[i] = Byte(p)
    BY <1>1, PaddingIs
  <2>. HIDE DEF pad
  <2>. QED BY <1>1, <1>3, <2>1
<1>6. w = u \o pad
  BY DEF IsFramed
<1>. HIDE DEF u, pad
<1>7. w \in Seq(Z) /\ Len(w) = n /\ \A i \in 1..n : w[i] = IF i <= a THEN u[i] ELSE pad[i - a]
  BY <1>3, <1>4, <1>5, <1>6, ConcatAt
<1>8. \A i \in 1..a : w[i] = u[i]
  BY <1>3, <1>7
<1>9. \A i \in 1..c : w[a + i] = pad[i]
  BY <1>3, <1>7
<1>10. SubSeq(w, 1, a) = u
  <2>1. IsRun(u, a) /\ a <= Len(w)
    BY <1>3, <1>4, <1>7, SeqIsRun
  <2>. QED BY <2>1, <1>7, <1>8, PrefixIs
<1>11. \A i \in 1..m : w[i] = data[i]
  BY <1>2, <1>3, <1>4, <1>8
<1>12. SubSeq(w, 1, m) = data
  <2>1. IsRun(data, m) /\ m <= Len(w)
    BY <1>1, <1>2, <1>3, <1>7, SeqIsRun
  <2>. QED BY <2>1, <1>2, <1>7, <1>11, PrefixIs
<1>13. \A l \in 1..DigestSize : w[m + l] = code[l]
  <2>. TAKE l \in 1..DigestSize
  <2>1. PICK i \in 1..a : i = m + l /\ ~(i <= m) /\ i - m = l
    BY <1>2, <1>3
  <2>2. w[i] = code[i - m]
    BY <2>1, <1>4, <1>8
  <2>. QED BY <2>1, <2>2
<1>14. SubSeq(w, m + 1, m + DigestSize) = code
  <2>1. PICK x, y : x = m + 1 /\ y = m + DigestSize
    OBVIOUS
  <2>2. IsRun(code, DigestSize) /\ y <= Len(w)
    <3>1. IsRun(code, DigestSize)
      BY <1>1, SeqIsRun
    <3>2. y <= a /\ a <= Len(w)
      BY <2>1, <1>3, <1>7
    <3>. QED BY <3>1, <3>2, <2>1, <1>3, <1>7
  <2>3. Copies(code, w, m, DigestSize, x, y)
    BY <2>1, <2>2, <1>2, <1>7, <1>13 DEF Copies
  <2>4. SubSeq(w, x, y) = code
    BY <2>3, <1>2, <1>7, CopiesIs
  <2>. QED BY <2>1, <2>4
<1>15. SubSeq(w, m + DigestSize + 1, n) = pad
  <2>1. PICK x, y : x = a + 1 /\ y = n
    OBVIOUS
  <2>2. IsRun(pad, c) /\ y <= Len(w) /\ y = a + c
    BY <2>1, <1>3, <1>5, <1>7, SeqIsRun
  <2>3. \A l \in 1..c : pad[l] = w[a + l]
    BY <1>9
  <2>4. Copies(pad, w, a, c, x, y)
    BY <2>1, <2>2, <2>3, <1>3, <1>7 DEF Copies
  <2>5. SubSeq(w, x, y) = pad
    BY <2>4, <1>3, <1>7, CopiesIs
  <2>. QED BY <2>1, <2>5, <1>3
<1>16. \A i \in 1..(p + 1) : w[m + DigestSize + i] = Byte(p)
  BY <1>3, <1>5, <1>9
<1>17. n \in Nat
  BY <1>3
<1>. QED BY <1>2, <1>3, <1>7, <1>10, <1>12, <1>14, <1>15, <1>16, <1>17 DEF Upto, ExtractMac, u, pad

(* It is whole blocks or not, and it decodes when the code is the MAC.     *)
LEMMA FramedBody ==
    ASSUME NEW Z, NEW data, NEW code, NEW p, NEW w, IsFramed(w, data, code, p, Z),
           NEW m, m = Len(data), NEW n, n = m + DigestSize + p + 1
    PROVE  /\ n % CipherBlock = 0 => IsBody(w, n)
           /\ \A keys, seq, type : code = RefHmac(keys.mac, Header(seq, type, m) \o data)
                  => Decodes(keys, seq, type, w, m)
<1>1. /\ m \in Nat /\ n \in Nat /\ w \in Seq(Z) /\ Len(w) = n
      /\ Upto(w, m) = data /\ ExtractMac(w, m) = code
      /\ SubSeq(w, m + DigestSize + 1, n) = Padding(p)
      /\ \A i \in 1..(p + 1) : w[m + DigestSize + i] = Byte(p)
  BY FramedIs
<1>2. p \in 0..PadMax /\ p \in Nat /\ DigestSize \in Nat
  BY SizesAssumption, RecordAssumption DEF IsFramed
<1>3. n > 0 /\ m + DigestSize < n
  BY <1>1, <1>2
<1>4. w[n] \in Octets
  <2>1. p + 1 \in 1..(p + 1) /\ m + DigestSize + (p + 1) = n
    BY <1>1, <1>2
  <2>2. w[m + DigestSize + (p + 1)] = Byte(p)
    BY <2>1, <1>1
  <2>. QED BY <2>1, <2>2, <1>2, ByteFacts
<1>5. IsRun(w, n)
  BY <1>1, SeqIsRun
<1>6. n % CipherBlock = 0 => IsBody(w, n)
  BY <1>1, <1>3, <1>4, <1>5 DEF IsBody
<1>7. ASSUME NEW keys, NEW seq, NEW type, code = RefHmac(keys.mac, Header(seq, type, m) \o data)
      PROVE  Decodes(keys, seq, type, w, m)
  <2>1. SubSeq(w, 1, m) = data
    BY <1>1 DEF Upto
  <2>2. \E padlen \in 0..PadMax : SubSeq(w, m + DigestSize + 1, Len(w)) = Padding(padlen)
    BY <1>1, <1>2
  <2>. QED BY <2>1, <2>2, <1>1, <1>3, <1>7 DEF Decodes
<1>. QED BY <1>6, <1>7

(* protect_cbc's pad length completes a block, and fits a byte.            *)
LEMMA PadFits ==
    ASSUME NEW m \in Nat
    PROVE  /\ PadLen(m + DigestSize) \in 0..PadMax
           /\ PadLen(m + DigestSize) + 1 <= CipherBlock
           /\ Rem(m + DigestSize + PadLen(m + DigestSize) + 1, CipherBlock) = 0
<1>1. CipherBlock \in Nat \ {0} /\ DigestSize \in Nat /\ CipherBlock <= PadMax + 1 /\ PadMax \in Nat
  BY RecordAssumption, SizesAssumption
<1>2. PICK x \in Nat : x = m + DigestSize
  BY <1>1
<1>3. PICK r \in 0..(CipherBlock - 1), q \in Nat :
        r = Rem(x, CipherBlock) /\ q = Quo(x, CipherBlock)
  BY <1>1, <1>2, DivMod
<1>4. Mul(q, CipherBlock) \in Nat /\ x = Mul(q, CipherBlock) + r
  BY <1>1, <1>2, <1>3, DivMod
<1>5. PICK p \in 0..(CipherBlock - 1) : p = CipherBlock - 1 - r
  <2>1. CipherBlock - 1 - r \in 0..(CipherBlock - 1)
    BY <1>1, <1>3
  <2>. QED BY <2>1
<1>6. p = PadLen(x)
  BY <1>3, <1>5 DEF PadLen, Rem
<1>7. PICK t \in Nat : t = q + 1
  OBVIOUS
<1>8. Mul(t, CipherBlock) = Mul(q, CipherBlock) + CipherBlock
  BY <1>1, <1>3, <1>7, MulFacts
<1>9. PICK a \in Nat : a = x + p + 1 /\ a = Mul(q, CipherBlock) + CipherBlock
  <2>1. x + p + 1 \in Nat /\ x + p + 1 = Mul(q, CipherBlock) + CipherBlock
    BY <1>1, <1>2, <1>3, <1>4, <1>5
  <2>. QED BY <2>1
<1>10. Rem(a, CipherBlock) = 0
  <2>1. PICK z \in 0..(CipherBlock - 1) : z = 0
    <3>1. 0 \in 0..(CipherBlock - 1)
      BY <1>1
    <3>. QED BY <3>1
  <2>2. a = Mul(t, CipherBlock) + z
    BY <2>1, <1>4, <1>8, <1>9
  <2>3. Rem(a, CipherBlock) = z
    BY <2>2, <1>1, Euclid
  <2>. QED BY <2>1, <2>3
<1>11. p \in 0..PadMax /\ p + 1 <= CipherBlock
  BY <1>1, <1>5
<1>. QED BY <1>2, <1>6, <1>9, <1>10, <1>11

(* What the body of a record is made of, and its length.                   *)
Symbols(d, n, e) == Octets \cup CodeSymbols(d, n, e)
BodySize(e) == Len(e.data) + DigestSize + PadOf(e) + 1

(* A record that protect_cbc makes, taken apart. *)
LEMMA FramingIs ==
    ASSUME NEW d, NEW n, NEW e \in Entries
    PROVE  /\ IsFramed(Framing(d, n, e).body, e.data, Code(d, n, e), PadOf(e), Symbols(d, n, e))
           /\ Framing(d, n, e).key = CbcKeys(d).enc
           /\ Framing(d, n, e).body \in Seq(Symbols(d, n, e))
           /\ Len(Framing(d, n, e).body) = BodySize(e)
           /\ Rem(BodySize(e), CipherBlock) = 0
<1>1. e.data \in Seq(Octets) /\ Len(e.data) \in 0..MaxPlaintext /\ MaxPlaintext \in Nat
  BY MessageIsSeq, RecordAssumption
<1>2. Code(d, n, e) \in Seq(CodeSymbols(d, n, e)) /\ Len(Code(d, n, e)) = DigestSize
  BY CodeIs
<1>. DEFINE Z == Symbols(d, n, e)  C == CodeSymbols(d, n, e)  code == Code(d, n, e)
            body == Framing(d, n, e).body
<1>3. Z = Octets \cup C
  BY DEF Symbols
<1>4. body = (e.data \o code) \o Padding(PadOf(e)) /\ Framing(d, n, e).key = CbcKeys(d).enc
  BY DEF Framing
<1>. HIDE DEF Z, C, code, body
<1>5. e.data \in Seq(Z) /\ code \in Seq(Z) /\ Octets \subseteq Z
  <2>1. code \in Seq(C)
    BY <1>2 DEF code, C
  <2>. QED BY <2>1, <1>1, <1>3
<1>6. PICK m \in Nat : m = Len(e.data)
  BY <1>1
<1>7. PadOf(e) \in 0..PadMax /\ Rem(BodySize(e), CipherBlock) = 0
  BY <1>6, PadFits DEF PadOf, BodySize
<1>8. Len(code) = DigestSize
  BY <1>2 DEF code
<1>9. IsFramed(body, e.data, code, PadOf(e), Z)
  BY <1>4, <1>5, <1>7, <1>8 DEF IsFramed
<1>10. PICK p, k : p = PadOf(e) /\ k = BodySize(e) /\ k = m + DigestSize + p + 1
  BY <1>6 DEF BodySize
<1>11. body \in Seq(Z) /\ Len(body) = k
  BY <1>6, <1>9, <1>10, FramedIs
<1>. QED BY <1>4, <1>7, <1>9, <1>10, <1>11 DEF Z, code, body

(* What bodies are made of: bytes, and symbols of digests.                 *)
IsPieces(Z) == Octets \subseteq Z /\ \A x \in Z : x \in Octets \/ x[1] = "digest"

(* Whole blocks of a body. *)
LEMMA RunIs ==
    ASSUME NEW Z, NEW body \in Seq(Z), NEW from \in Nat, NEW to \in Nat,
           from <= to, to <= Quo(Len(body), CipherBlock)
    PROVE  /\ Run(body, from, to) \in Seq(Z)
           /\ Len(Run(body, from, to)) = Mul(to - from, CipherBlock)
<1>. DEFINE B == CipherBlock
<1>1. B \in Nat \ {0} /\ B \in Nat
  BY RecordAssumption
<1>. HIDE DEF B
<1>2. PICK n \in Nat, q \in Nat, r \in Nat : n = Len(body) /\ q = Quo(n, B) /\ r = Rem(n, B)
  <2>1. Len(body) \in Nat
    OBVIOUS
  <2>2. Quo(Len(body), B) \in Nat /\ Rem(Len(body), B) \in 0..(B - 1)
    BY <2>1, <1>1, DivMod
  <2>. QED BY <2>1, <2>2, <1>1
<1>3. n = Mul(q, B) + r /\ Mul(q, B) \in Nat
  BY <1>1, <1>2, DivMod
<1>4. PICK k \in Nat : k = to - from /\ to = from + k
  OBVIOUS
<1>5. /\ Mul(from, B) \in Nat /\ Mul(to, B) \in Nat /\ Mul(k, B) \in Nat
      /\ Mul(to, B) = Mul(from, B) + Mul(k, B)
  <2>1. Mul(from + k, B) = Mul(from, B) + Mul(k, B)
    BY <1>1, <1>4, MulFacts
  <2>2. Mul(from, B) \in Nat /\ Mul(to, B) \in Nat /\ Mul(k, B) \in Nat
    BY <1>1, <1>4, MulFacts
  <2>. QED BY <2>1, <2>2, <1>4
<1>6. Mul(to, B) <= Mul(q, B)
  BY <1>1, <1>2, MulFacts DEF B
<1>7. PICK a \in Nat, z \in Nat, c \in Nat : a = Mul(from, B) /\ z = Mul(to, B) /\ c = Mul(k, B)
  BY <1>5
<1>8. z = a + c /\ z <= n
  <2>1. z = a + c
    BY <1>5, <1>7
  <2>2. PICK v \in Nat : v = Mul(q, B)
    BY <1>3
  <2>3. z <= v /\ n = v + r
    BY <2>2, <1>3, <1>6, <1>7
  <2>4. z <= n
    BY <2>3
  <2>. QED BY <2>1, <2>4
<1>9. Run(body, from, to) = SubSeq(body, a + 1, z)
  BY <1>7 DEF Run, Mul, B
<1>10. SubSeq(body, a + 1, z) \in Seq(Z) /\ Len(SubSeq(body, a + 1, z)) = c
  BY <1>2, <1>8
<1>. QED BY <1>4, <1>7, <1>9, <1>10 DEF B

(* A body whose last symbol is read as a pad length. *)
LEMMA EndedIs ==
    ASSUME NEW Z, IsPieces(Z), NEW body \in Seq(Z), NEW n \in Nat \ {0}, n = Len(body),
           Rem(n, CipherBlock) = 0, NEW b \in Ended(body)
    PROVE  b \in Seq(Z) /\ IsBody(b, n) /\ Len(b) = n
<1>1. n \in 1..n /\ Octets \subseteq Z
  BY DEF IsPieces
<1>2. CASE body[n][1] = "byte"
  <2>1. b = body
    BY <1>2 DEF Ended
  <2>2. body[n] \in Z
    BY <1>1
  <2>3. body[n] \in Octets
    BY <1>2, <2>2 DEF IsPieces
  <2>4. IsRun(body, n)
    BY SeqIsRun
  <2>. QED BY <2>1, <2>3, <2>4 DEF IsBody, Rem
<1>3. CASE body[n][1] # "byte"
  <2>1. PICK v \in 0..PadMax : b = [body EXCEPT ![n] = Byte(v)]
    BY <1>3 DEF Ended
  <2>2. Byte(v) \in Octets /\ Byte(v) \in Z
    BY <1>1, ByteFacts
  <2>3. body \in [1..n -> Z]
    BY LenProperties
  <2>4. b \in [1..n -> Z] /\ b[n] = Byte(v)
    BY <2>1, <2>2, <2>3, <1>1
  <2>5. b \in Seq(Z) /\ Len(b) = n
    BY <2>4
  <2>6. IsRun(b, n)
    BY <2>5, SeqIsRun
  <2>. QED BY <2>2, <2>4, <2>5, <2>6 DEF IsBody, Rem
<1>. QED BY <1>2, <1>3

(* So many whole blocks. *)
LEMMA WholeMul ==
    ASSUME NEW k \in Nat
    PROVE  /\ Mul(k, CipherBlock) \in Nat /\ Rem(Mul(k, CipherBlock), CipherBlock) = 0
           /\ k > 0 => Mul(k, CipherBlock) > 0
<1>1. CipherBlock \in Nat \ {0}
  BY RecordAssumption
<1>2. Mul(k, CipherBlock) \in Nat /\ Mul(1, CipherBlock) = CipherBlock
  BY <1>1, MulFacts
<1>3. PICK z \in 0..(CipherBlock - 1), n \in Nat : z = 0 /\ n = Mul(k, CipherBlock)
  <2>1. 0 \in 0..(CipherBlock - 1)
    BY <1>1
  <2>. QED BY <2>1, <1>2
<1>4. n = Mul(k, CipherBlock) + z
  BY <1>3
<1>5. Rem(n, CipherBlock) = z
  BY <1>1, <1>3, <1>4, Euclid
<1>6. k > 0 => Mul(1, CipherBlock) <= Mul(k, CipherBlock)
  BY <1>1, MulFacts
<1>. QED BY <1>1, <1>2, <1>3, <1>5, <1>6

(* A record whose body may come before the reader. *)
Readable(q, k, Z) == q.key = k /\ q.body \in Seq(Z) /\ IsBody(q.body, Len(q.body))

(* A record with another body. *)
LEMMA Rebodied ==
    ASSUME NEW k, NEW w, NEW b
    PROVE  [[key |-> k, body |-> w] EXCEPT !.body = b] = [key |-> k, body |-> b]
  OBVIOUS

(* What a cut makes of a record. *)
LEMMA CutIs ==
    ASSUME NEW Z, IsPieces(Z), NEW k, NEW w \in Seq(Z), NEW q \in CutCbc([key |-> k, body |-> w])
    PROVE  Readable(q, k, Z)
<1>. DEFINE r == [key |-> k, body |-> w]
<1>1. PICK size \in Nat : size = Quo(Len(w), CipherBlock)
  BY RecordAssumption, DivMod
<1>2. NumBlocks(r) = size /\ r.body = w
  BY <1>1 DEF NumBlocks, Quo
<1>3. \E i \in 0..size : \E j \in (i + 1)..size : \E b \in Ended(Run(w, i, j)) :
          q = [r EXCEPT !.body = b]
  <2>. HIDE DEF r
  <2>1. q \in CutCbc(r)
    BY DEF r
  <2>. QED BY <2>1, <1>2 DEF CutCbc
<1>4. PICK i \in 0..size : \E j \in (i + 1)..size : \E b \in Ended(Run(w, i, j)) :
          q = [r EXCEPT !.body = b]
  BY <1>3
<1>5. PICK j \in (i + 1)..size : \E b \in Ended(Run(w, i, j)) : q = [r EXCEPT !.body = b]
  BY <1>4
<1>6. PICK b \in Ended(Run(w, i, j)) : q = [r EXCEPT !.body = b]
  BY <1>5
<1>7. /\ i \in Nat /\ j \in Nat /\ i <= j /\ j <= Quo(Len(w), CipherBlock)
      /\ j - i \in Nat /\ j - i > 0
  BY <1>1, <1>4, <1>5
<1>8. Run(w, i, j) \in Seq(Z) /\ Len(Run(w, i, j)) = Mul(j - i, CipherBlock)
  BY <1>7, RunIs
<1>9. PICK u : u = Run(w, i, j)
  OBVIOUS
<1>12. PICK n \in Nat \ {0} : n = Len(u) /\ Rem(n, CipherBlock) = 0
  <2>1. /\ Mul(j - i, CipherBlock) \in Nat /\ Mul(j - i, CipherBlock) > 0
        /\ Rem(Mul(j - i, CipherBlock), CipherBlock) = 0
    BY <1>7, WholeMul
  <2>. QED BY <2>1, <1>8, <1>9
<1>13. u \in Seq(Z)
  BY <1>8, <1>9
<1>10. b \in Seq(Z) /\ IsBody(b, n) /\ Len(b) = n
  <2>1. b \in Ended(u)
    BY <1>6, <1>9
  <2>. QED BY <2>1, <1>12, <1>13, EndedIs
<1>11. q = [key |-> k, body |-> b]
  BY <1>6, Rebodied
<1>. QED BY <1>10, <1>11 DEF Readable

(* What a splice makes of two. *)
LEMMA SpliceIs ==
    ASSUME NEW Z, IsPieces(Z), NEW k, NEW w \in Seq(Z), NEW v \in Seq(Z),
           NEW q \in SpliceCbc([key |-> k, body |-> w], [key |-> k, body |-> v])
    PROVE  Readable(q, k, Z)
<1>. DEFINE r == [key |-> k, body |-> w]  s == [key |-> k, body |-> v]
<1>1. PICK a \in Nat, c \in Nat : a = Quo(Len(w), CipherBlock) /\ c = Quo(Len(v), CipherBlock)
  <2>1. Quo(Len(w), CipherBlock) \in Nat /\ Quo(Len(v), CipherBlock) \in Nat
    BY RecordAssumption, DivMod
  <2>. QED BY <2>1
<1>2. NumBlocks(r) = a /\ r.body = w /\ NumBlocks(s) = c /\ s.body = v
  BY <1>1 DEF NumBlocks, Quo
<1>3. \E i \in 0..a : \E j \in 1..c : \E junk \in Junk :
        \E b \in Ended(Run(w, 0, i) \o junk \o Run(v, j, c)) : q = [r EXCEPT !.body = b]
  <2>. HIDE DEF r, s
  <2>1. q \in SpliceCbc(r, s)
    BY DEF r, s
  <2>. QED BY <2>1, <1>2 DEF SpliceCbc
<1>4. PICK i \in 0..a : \E j \in 1..c : \E junk \in Junk :
        \E b \in Ended(Run(w, 0, i) \o junk \o Run(v, j, c)) : q = [r EXCEPT !.body = b]
  BY <1>3
<1>5. PICK j \in 1..c : \E junk \in Junk :
        \E b \in Ended(Run(w, 0, i) \o junk \o Run(v, j, c)) : q = [r EXCEPT !.body = b]
  BY <1>4
<1>6. PICK junk \in Junk :
        \E b \in Ended(Run(w, 0, i) \o junk \o Run(v, j, c)) : q = [r EXCEPT !.body = b]
  BY <1>5
<1>7. PICK b \in Ended(Run(w, 0, i) \o junk \o Run(v, j, c)) : q = [r EXCEPT !.body = b]
  BY <1>6
<1>8. PICK x, y : x = Run(w, 0, i) /\ y = Run(v, j, c)
  OBVIOUS
<1>19. PICK l \in Nat : l = c - j
  <2>1. c - j \in Nat
    BY <1>1, <1>5
  <2>. QED BY <2>1
<1>9. x \in Seq(Z) /\ Len(x) = Mul(i, CipherBlock)
  <2>1. i \in Nat /\ 0 <= i /\ i <= Quo(Len(w), CipherBlock) /\ i - 0 = i /\ 0 \in Nat
    BY <1>1, <1>4
  <2>2. Run(w, 0, i) \in Seq(Z) /\ Len(Run(w, 0, i)) = Mul(i - 0, CipherBlock)
    BY <2>1, RunIs
  <2>. QED BY <2>1, <2>2, <1>8
<1>10. y \in Seq(Z) /\ Len(y) = Mul(l, CipherBlock)
  <2>1. j \in Nat /\ c \in Nat /\ j <= c /\ c <= Quo(Len(v), CipherBlock)
    BY <1>1, <1>5
  <2>2. Run(v, j, c) \in Seq(Z) /\ Len(Run(v, j, c)) = Mul(c - j, CipherBlock)
    BY <2>1, RunIs
  <2>. QED BY <2>2, <1>8, <1>19
<1>11. junk \in Seq(Z) /\ Len(junk) = CipherBlock
  <2>1. junk \in [1..CipherBlock -> Octets] /\ CipherBlock \in Nat /\ Octets \subseteq Z
    BY PayloadAssumption, RecordAssumption DEF IsPieces
  <2>. QED BY <2>1
<1>12. PICK t \in Nat : t = i + 1 + l
  BY <1>4, <1>19
<1>13. Mul(t, CipherBlock) = Mul(i, CipherBlock) + CipherBlock + Mul(l, CipherBlock)
  <2>1. i \in Nat /\ CipherBlock \in Nat
    BY <1>4, RecordAssumption
  <2>2. PICK g \in Nat : g = i + 1 /\ t = g + l
    BY <2>1, <1>12
  <2>3. Mul(g, CipherBlock) = Mul(i, CipherBlock) + CipherBlock
    BY <2>1, <2>2, MulFacts
  <2>4. Mul(g + l, CipherBlock) = Mul(g, CipherBlock) + Mul(l, CipherBlock)
    BY <2>1, <2>2, <1>19, MulFacts
  <2>. QED BY <2>2, <2>3, <2>4
<1>14. PICK u : u = (x \o junk) \o y
  OBVIOUS
<1>15. u \in Seq(Z) /\ Len(u) = Mul(t, CipherBlock)
  <2>1. x \o junk \in Seq(Z) /\ Len(x \o junk) = Mul(i, CipherBlock) + CipherBlock
    BY <1>9, <1>11, ConcatFacts
  <2>2. /\ (x \o junk) \o y \in Seq(Z)
        /\ Len((x \o junk) \o y) = Len(x \o junk) + Len(y)
    BY <2>1, <1>10, ConcatFacts
  <2>. QED BY <2>1, <2>2, <1>10, <1>13, <1>14
<1>16. PICK n \in Nat \ {0} : n = Len(u) /\ Rem(n, CipherBlock) = 0
  <2>1. t > 0
    BY <1>4, <1>12, <1>19
  <2>. QED BY <2>1, <1>15, WholeMul
<1>17. b \in Seq(Z) /\ IsBody(b, n) /\ Len(b) = n
  <2>1. b \in Ended(u)
    BY <1>7, <1>8, <1>14
  <2>. QED BY <2>1, <1>15, <1>16, EndedIs
<1>18. q = [key |-> k, body |-> b]
  BY <1>7, Rebodied
<1>. QED BY <1>17, <1>18 DEF Readable

(***************************************************************************)
(* The connection, under either suite.                                     *)
(***************************************************************************)
Made(s, d, n, e) == IF s = "cbc" THEN Framing(d, n, e) ELSE Sealing(d, n, e)
Records == {Made(s, d, n, e) : s \in {"cbc", "gcm"}, d \in Directions, n \in Nat, e \in Entries}

(* The inductive invariant: what counts a record, the header and, of GCM,  *)
(* the explicit nonce, is its place in what was sent, and what was         *)
(* accepted is what was sent.                                              *)
Counted(d) ==
    /\ Len(wire[d]) = Len(sent[d])
    /\ \A n \in 1..Len(sent[d]) : wire[d][n] = Made(suite, d, n - 1, sent[d][n])
Accepted(d) ==
    /\ Len(got[d]) <= Len(sent[d])
    /\ \A n \in 1..Len(got[d]) : got[d][n] = sent[d][n]
ConnectionInv ==
    /\ suite \in {"cbc", "gcm"}
    /\ sent \in [Directions -> Seq(Entries)]
    /\ got \in [Directions -> Seq(Entries)]
    /\ wire \in [Directions -> Seq(Records)]
    /\ \A d \in Directions : Counted(d) /\ Accepted(d)

(* What the invariant says of a direction. *)
LEMMA DirectionFacts ==
    ASSUME ConnectionInv, NEW d \in Directions
    PROVE  /\ sent[d] \in Seq(Entries) /\ got[d] \in Seq(Entries) /\ wire[d] \in Seq(Records)
           /\ Len(sent[d]) \in Nat /\ Len(got[d]) \in 0..Len(sent[d]) /\ Len(wire[d]) = Len(sent[d])
           /\ \A n \in 1..Len(sent[d]) : /\ n - 1 \in Nat /\ sent[d][n] \in Entries
                                         /\ wire[d][n] = Made(suite, d, n - 1, sent[d][n])
           /\ \A n \in 1..Len(got[d]) : got[d][n] = sent[d][n]
<1>1. sent[d] \in Seq(Entries) /\ got[d] \in Seq(Entries) /\ wire[d] \in Seq(Records)
      /\ Counted(d) /\ Accepted(d)
  BY DEF ConnectionInv
<1>2. Len(sent[d]) \in Nat /\ Len(got[d]) \in Nat
  BY <1>1
<1>3. \A n \in 1..Len(sent[d]) : n - 1 \in Nat /\ sent[d][n] \in Entries
  BY <1>1
<1>. QED BY <1>1, <1>2, <1>3 DEF Counted, Accepted

(* Protecting an entry makes its record. *)
LEMMA ProtectMakes ==
    ASSUME NEW d \in Directions, NEW n, NEW type \in Types, NEW data \in Payloads,
           Protect(d, n, type, data) # None
    PROVE  /\ [type |-> type, data |-> data] \in Entries
           /\ Protect(d, n, type, data) = Made(suite, d, n, [type |-> type, data |-> data])
<1>. DEFINE e == [type |-> type, data |-> data]
<1>1. ~(Len(data) > MaxPlaintext)
  BY DEF Protect, ProtectCbc, ProtectGcm
<1>2. Len(data) <= MaxPlaintext
  BY <1>1, SealedPayload, RecordAssumption
<1>3. e \in Entries /\ e.type = type /\ e.data = data
  BY <1>2 DEF Entries
<1>. HIDE DEF e
<1>4. ProtectCbc(CbcKeys(d), n, type, data) = Framing(d, n, e)
  BY <1>3, ProtectIsFraming
<1>5. ProtectGcm(GcmKeys(d), n, type, data) = Sealing(d, n, e)
  BY <1>3 DEF Sealing
<1>. QED BY <1>3, <1>4, <1>5 DEF Protect, Made, e

(* Every record the network has seen was made, by one end, of an entry. *)
LEMMA SeenAreMade ==
    ASSUME ConnectionInv, NEW t \in Seen
    PROVE  \E e \in Directions : \E n \in 1..Len(sent[e]) :
               t = Made(suite, e, n - 1, sent[e][n]) /\ n - 1 \in Nat /\ sent[e][n] \in Entries
<1>1. PICK e \in Directions : \E n \in 1..Len(wire[e]) : t = wire[e][n]
  BY DEF Seen
<1>2. PICK n \in 1..Len(wire[e]) : t = wire[e][n]
  BY <1>1
<1>. QED BY <1>2, DirectionFacts

(* What the reader accepts of GCM records is the next entry. *)
LEMMA GcmAcceptsNext ==
    ASSUME ConnectionInv, suite = "gcm", NEW d \in Directions, NEW seq \in Nat, NEW type,
           NEW record \in ForgedGcm, DeprotectGcm(GcmKeys(d), seq, type, record) # None
    PROVE  \E n \in 1..Len(sent[d]) :
               /\ seq = n - 1 /\ type = sent[d][n].type
               /\ DeprotectGcm(GcmKeys(d), seq, type, record) = sent[d][n].data
<1>1. PICK t \in Seen : record.tag = t.tag
  BY DEF ForgedGcm
<1>. DEFINE From(c, n) == t = Made(suite, c, n - 1, sent[c][n]) /\ n - 1 \in Nat
                          /\ sent[c][n] \in Entries
<1>2. PICK c \in Directions : \E n \in 1..Len(sent[c]) : From(c, n)
  BY SeenAreMade
<1>3. PICK n \in 1..Len(sent[c]) : From(c, n)
  BY <1>2
<1>4. t = Sealing(c, n - 1, sent[c][n])
  BY <1>3 DEF Made
<1>5. d = c /\ seq = n - 1 /\ type = sent[c][n].type
      /\ DeprotectGcm(GcmKeys(d), seq, type, record) = sent[c][n].data
  BY <1>1, <1>3, <1>4, OpensOnlyItself
<1>. QED BY <1>5

(* The symbols of the codes a direction has sent, and all it has sent.     *)
Written(d) == UNION {CodeSymbols(d, n - 1, sent[d][n]) : n \in 1..Len(sent[d])}
Pieces(d) == Octets \cup Written(d)

(* None of them but a byte could be taken for one. *)
LEMMA PiecesAre ==
    ASSUME NEW d
    PROVE  IsPieces(Pieces(d)) /\ \A x \in Written(d) : x[1] = "digest"
<1>1. \A x \in Written(d) : \E n \in 1..Len(sent[d]) : x \in CodeSymbols(d, n - 1, sent[d][n])
  BY DEF Written
<1>2. \A x \in Written(d) : x[1] = "digest"
  BY <1>1, CodeIs
<1>. QED BY <1>2 DEF IsPieces, Pieces

IsSeen(t, k, w, Z) == t = [key |-> k, body |-> w] /\ w \in Seq(Z)

(* A record seen under the CBC suite, as a key and a body. *)
LEMMA SeenAreFramed ==
    ASSUME ConnectionInv, suite = "cbc", NEW t \in Seen
    PROVE  \E d \in Directions : \E w : IsSeen(t, CbcKeys(d).enc, w, Pieces(d))
<1>. DEFINE From(c, n) == t = Made(suite, c, n - 1, sent[c][n]) /\ n - 1 \in Nat
                          /\ sent[c][n] \in Entries
<1>1. PICK d \in Directions : \E n \in 1..Len(sent[d]) : From(d, n)
  BY SeenAreMade
<1>2. PICK n \in 1..Len(sent[d]) : From(d, n)
  BY <1>1
<1>3. t = Framing(d, n - 1, sent[d][n])
  BY <1>2 DEF Made
<1>4. PICK e \in Entries, m \in Nat : e = sent[d][n] /\ m = n - 1
  BY <1>2
<1>5. t = Framing(d, m, e)
  BY <1>3, <1>4
<1>6. Framing(d, m, e).body \in Seq(Symbols(d, m, e))
  BY FramingIs
<1>7. Symbols(d, m, e) \subseteq Pieces(d)
  BY <1>4 DEF Symbols, Pieces, Written
<1>8. Framing(d, m, e).body \in Seq(Pieces(d))
  <2>. DEFINE w == Framing(d, m, e).body  Y == Symbols(d, m, e)  Z == Pieces(d)
  <2>1. w \in Seq(Y) /\ Y \subseteq Z
    BY <1>6, <1>7
  <2>. HIDE DEF w, Y, Z
  <2>2. w \in Seq(Z)
    BY <2>1
  <2>. QED BY <2>2 DEF w, Z
<1>9. t = [key |-> CbcKeys(d).enc, body |-> Framing(d, m, e).body]
  BY <1>5 DEF Framing
<1>. QED BY <1>8, <1>9 DEF IsSeen

(* So is what the network makes of them: whole blocks of one key, symbols  *)
(* that one direction sent, a byte last.                                   *)
LEMMA ForgedAreReadable ==
    ASSUME ConnectionInv, suite = "cbc", NEW f \in ForgedCbc
    PROVE  \E d \in Directions : Readable(f, CbcKeys(d).enc, Pieces(d))
<1>1. CASE \E r \in Seen : f \in CutCbc(r)
  <2>1. PICK r \in Seen : f \in CutCbc(r)
    BY <1>1
  <2>2. PICK d \in Directions : \E w : IsSeen(r, CbcKeys(d).enc, w, Pieces(d))
    BY SeenAreFramed
  <2>3. PICK w : IsSeen(r, CbcKeys(d).enc, w, Pieces(d))
    BY <2>2
  <2>4. PICK k, Z : k = CbcKeys(d).enc /\ Z = Pieces(d)
    OBVIOUS
  <2>5. IsPieces(Z) /\ w \in Seq(Z) /\ f \in CutCbc([key |-> k, body |-> w])
    BY <2>1, <2>3, <2>4, PiecesAre DEF IsSeen
  <2>6. Readable(f, k, Z)
    BY <2>5, CutIs
  <2>. QED BY <2>4, <2>6
<1>2. CASE \E r \in Seen : \E s \in Seen : s.key = r.key /\ f \in SpliceCbc(r, s)
  <2>1. PICK r \in Seen, s \in Seen : s.key = r.key /\ f \in SpliceCbc(r, s)
    BY <1>2
  <2>2. PICK d \in Directions : \E w : IsSeen(r, CbcKeys(d).enc, w, Pieces(d))
    BY SeenAreFramed
  <2>3. PICK w : IsSeen(r, CbcKeys(d).enc, w, Pieces(d))
    BY <2>2
  <2>4. PICK e \in Directions : \E v : IsSeen(s, CbcKeys(e).enc, v, Pieces(e))
    BY SeenAreFramed
  <2>5. PICK v : IsSeen(s, CbcKeys(e).enc, v, Pieces(e))
    BY <2>4
  <2>6. CbcKeys(d).enc = CbcKeys(e).enc
    BY <2>1, <2>3, <2>5 DEF IsSeen
  <2>7. d = e
    BY <2>6, CbcKeysApart
  <2>8. PICK k, Z : k = CbcKeys(d).enc /\ Z = Pieces(d)
    OBVIOUS
  <2>9. w \in Seq(Z) /\ v \in Seq(Z) /\ r = [key |-> k, body |-> w] /\ s = [key |-> k, body |-> v]
    BY <2>3, <2>5, <2>7, <2>8 DEF IsSeen
  <2>10. IsPieces(Z) /\ f \in SpliceCbc([key |-> k, body |-> w], [key |-> k, body |-> v])
    BY <2>1, <2>8, <2>9, PiecesAre
  <2>11. Readable(f, k, Z)
    BY <2>9, <2>10, SpliceIs
  <2>. QED BY <2>8, <2>11
<1>3. f \in Cuts \/ f \in Splices
  BY DEF ForgedCbc
<1>4. CASE f \in Cuts
  BY <1>1, <1>4 DEF Cuts
<1>5. CASE f \in Splices
  <2>1. PICK r \in Seen : f \in UNION {SpliceCbc(r, q) : q \in Alike(r)}
    BY <1>5 DEF Splices
  <2>2. PICK q \in Alike(r) : f \in SpliceCbc(r, q)
    BY <2>1
  <2>. QED BY <2>2, <1>2 DEF Alike
<1>. QED BY <1>3, <1>4, <1>5

(* A code of the direction's in a body that decodes says which entry the   *)
(* body holds: the header and the data are what the code was made of.      *)
LEMMA DecodesSent ==
    ASSUME ConnectionInv, NEW d \in Directions, NEW seq, NEW type,
           NEW body \in Seq(Pieces(d)), NEW n, n = Len(body), NEW len \in 0..n,
           Decodes(CbcKeys(d), seq, type, body, len)
    PROVE  \E m \in 1..Len(sent[d]) :
               /\ seq = m - 1 /\ type = sent[d][m].type /\ Upto(body, len) = sent[d][m].data
<1>. DEFINE hkey == CbcKeys(d).mac  header == Header(seq, type, len)  data == Upto(body, len)
            H == HeaderBytes(seq, type, len)  Z == Pieces(d)
<1>1. \E p \in 0..PadMax : EndsPadded(body, n, len, p)
  BY DecodesIs
<1>2. ExtractMac(body, len) = RefHmac(hkey, header \o data)
  BY DecodesIs
<1>3. PICK a \in Nat, b \in Nat : a = len + 1 /\ b = len + DigestSize /\ a <= b /\ b <= n
  <2>1. PICK p \in 0..PadMax : EndsPadded(body, n, len, p)
    BY <1>1
  <2>2. len \in Nat /\ p \in Nat /\ len + DigestSize + p + 1 = n /\ DigestSize \in Nat \ {0}
    BY <2>1, SizesAssumption, RecordAssumption DEF EndsPadded
  <2>3. len + 1 \in Nat /\ len + DigestSize \in Nat /\ len + 1 <= len + DigestSize
        /\ len + DigestSize <= n
    BY <2>2
  <2>. QED BY <2>3
<1>4. ExtractMac(body, len)[1] = body[a] /\ a \in 1..n
  <2>1. SubSeq(body, a, b)[1] = body[a] /\ a \in 1..n
    BY <1>3
  <2>. QED BY <2>1, <1>3 DEF ExtractMac
<1>5. body[a] = RefHmac(hkey, header \o data)[1]
  BY <1>2, <1>4
<1>6. body[a] \in Z
  BY <1>4
<1>7. RefHmac(hkey, header \o data)[1][1] = "digest"
  <2>1. PICK s : RefHmac(hkey, header \o data) = Digest(s)
    BY DEF RefHmac, RefHash
  <2>2. 1 \in 1..DigestSize
    BY SizesAssumption
  <2>. QED BY <2>1, <2>2 DEF Digest
<1>8. body[a] \notin Octets
  BY <1>5, <1>7, DigestNotOctet
<1>9. \E m \in 1..Len(sent[d]) : body[a] \in CodeSymbols(d, m - 1, sent[d][m])
  BY <1>6, <1>8 DEF Pieces, Written
<1>10. PICK m \in 1..Len(sent[d]) : body[a] \in CodeSymbols(d, m - 1, sent[d][m])
  BY <1>9
<1>11. PICK e \in Entries, g \in Nat : e = sent[d][m] /\ g = m - 1
  BY DirectionFacts
<1>12. PICK k \in 1..DigestSize : body[a] = Code(d, g, e)[k]
  BY <1>10, <1>11 DEF CodeSymbols
<1>. DEFINE h == Header(g, e.type, Len(e.data))  G == HeaderBytes(g, e.type, Len(e.data))
            S == (H \cup Z) \cup (G \cup Octets)  u == e.data
<1>13. header \in Seq(H) /\ Len(header) = 3 /\ h \in Seq(G) /\ Len(h) = 3
  BY HeaderIs
<1>14. data \in Seq(Z) /\ Len(data) = len
  BY CutFacts
<1>15. u \in Seq(Octets)
  BY MessageIsSeq
<1>16. RefHmac(hkey, header \o data)[1] = RefHmac(hkey, h \o u)[k]
  BY <1>5, <1>12 DEF Code, Message
<1>17. \A s, t, l : header = Header(s, t, l) => seq = s /\ type = t /\ len = l
  BY HeaderIs
<1>. HIDE DEF hkey, header, data, h, u, H, Z, G
<1>18. header \in Seq(S) /\ data \in Seq(S) /\ h \in Seq(S) /\ u \in Seq(S)
  BY <1>13, <1>14, <1>15
<1>. HIDE DEF S
<1>19. header \o data \in Seq(S) /\ h \o u \in Seq(S)
  BY <1>18, ConcatFacts
<1>20. 1 \in 1..DigestSize
  BY SizesAssumption
<1>21. header \o data = h \o u
  BY <1>16, <1>19, <1>20, HmacNames
<1>22. header = h /\ data = u
  BY <1>13, <1>18, <1>21, ConcatInjective
<1>23. seq = g /\ type = e.type
  BY <1>17, <1>22 DEF h
<1>. QED BY <1>11, <1>22, <1>23 DEF data, u

Fits(d, r) == r.key = CbcKeys(d).enc /\ Len(r.body) <= MaxPlaintext + DigestSize + CipherBlock

(* A body opens exactly when it decodes, and as what it decodes to. *)
LEMMA OpensWhatDecodes ==
    ASSUME ConnectionInv, NEW d \in Directions, NEW c \in Directions, NEW seq, NEW type,
           NEW r, Readable(r, CbcKeys(c).enc, Pieces(c))
    PROVE  /\ DeprotectCbc(CbcKeys(d), seq, type, r) # None =>
                \E len \in 0..Len(r.body) :
                    /\ d = c /\ Fits(d, r) /\ Decodes(CbcKeys(d), seq, type, r.body, len)
                    /\ DeprotectCbc(CbcKeys(d), seq, type, r) = Upto(r.body, len)
           /\ \A len \in 0..Len(r.body) :
                Fits(d, r) /\ Decodes(CbcKeys(d), seq, type, r.body, len) =>
                    /\ DeprotectCbc(CbcKeys(d), seq, type, r) = Upto(r.body, len)
                    /\ DeprotectCbc(CbcKeys(d), seq, type, r) # None
<1>. DEFINE keys == CbcKeys(d)
<1>1. keys.mac \in Seq(KeyBytes)
  BY MacKeyIsSeq
<1>2. PICK n \in Nat : n = Len(r.body) /\ IsBody(r.body, n)
  BY DEF Readable, IsBody
<1>3. r.key = CbcKeys(c).enc /\ r.body \in Seq(Pieces(c))
  BY DEF Readable
<1>4. r.key = keys.enc => d = c
  BY <1>3, CbcKeysApart
<1>5. ASSUME DeprotectCbc(keys, seq, type, r) # None
      PROVE  \E len \in 0..n :
                 /\ d = c /\ Fits(d, r) /\ Decodes(keys, seq, type, r.body, len)
                 /\ DeprotectCbc(keys, seq, type, r) = Upto(r.body, len)
  <2>. HIDE DEF keys
  <2>1. r.key = keys.enc
    BY <1>2, <1>5, RefusesForeign
  <2>2. /\ n <= MaxPlaintext + DigestSize + CipherBlock
        /\ \E len \in 0..n : /\ Decodes(keys, seq, type, r.body, len)
                             /\ DeprotectCbc(keys, seq, type, r) = Upto(r.body, len)
    BY <2>1, <1>1, <1>2, <1>5, OpenedDecodes
  <2>. QED BY <2>1, <2>2, <1>2, <1>4 DEF Fits, keys
<1>6. ASSUME NEW len \in 0..n, Fits(d, r), Decodes(keys, seq, type, r.body, len)
      PROVE  /\ DeprotectCbc(keys, seq, type, r) = Upto(r.body, len)
             /\ DeprotectCbc(keys, seq, type, r) # None
  <2>1. r.key = keys.enc /\ n <= MaxPlaintext + DigestSize + CipherBlock
    BY <1>2, <1>6 DEF Fits
  <2>2. r.body \in Seq(Pieces(d))
    BY <1>3, <1>4, <2>1
  <2>3. \E m \in 1..Len(sent[d]) :
           seq = m - 1 /\ type = sent[d][m].type /\ Upto(r.body, len) = sent[d][m].data
    BY <2>2, <1>2, <1>6, DecodesSent
  <2>4. \A m \in 1..Len(sent[d]) : sent[d][m] \in Entries
    BY DirectionFacts
  <2>5. Upto(r.body, len) # None
    BY <2>3, <2>4, MessageIsSeq, PayloadAssumption
  <2>. HIDE DEF keys
  <2>6. DeprotectCbc(keys, seq, type, r) = Upto(r.body, len)
    BY <2>1, <1>1, <1>2, <1>6, OpensDecoded
  <2>. QED BY <2>5, <2>6
<1>. QED BY <1>2, <1>5, <1>6

(* What the reader accepts of CBC records is the next entry. *)
LEMMA CbcAcceptsNext ==
    ASSUME ConnectionInv, NEW d \in Directions, NEW c \in Directions, NEW seq, NEW type,
           NEW r, Readable(r, CbcKeys(c).enc, Pieces(c)),
           DeprotectCbc(CbcKeys(d), seq, type, r) # None
    PROVE  \E n \in 1..Len(sent[d]) :
               /\ seq = n - 1 /\ type = sent[d][n].type
               /\ DeprotectCbc(CbcKeys(d), seq, type, r) = sent[d][n].data
<1>1. PICK len \in 0..Len(r.body) :
          /\ d = c /\ Decodes(CbcKeys(d), seq, type, r.body, len)
          /\ DeprotectCbc(CbcKeys(d), seq, type, r) = Upto(r.body, len)
  BY OpensWhatDecodes
<1>2. r.body \in Seq(Pieces(d))
  BY <1>1 DEF Readable
<1>. QED BY <1>1, <1>2, DecodesSent

(* Nothing is sent at first. *)
LEMMA ConnectionInit == RInit => ConnectionInv
  BY EmptySeq DEF RInit, ConnectionInv, Counted, Accepted

(* Send: a record that was made counts its entry, from zero. *)
LEMMA SendStep ==
    ASSUME ConnectionInv, NEW d \in Directions, NEW type \in Types, NEW data \in Payloads,
           NEW rng_ok, Send(d, type, data, rng_ok)
    PROVE  ConnectionInv'
<1>. DEFINE count == Len(sent[d])
            e == [type |-> type, data |-> data]
            record == Protect(d, count, type, data)
<1>1. /\ sent[d] \in Seq(Entries) /\ got[d] \in Seq(Entries) /\ wire[d] \in Seq(Records)
      /\ count \in Nat /\ Counted(d) /\ Accepted(d)
  BY DEF ConnectionInv
<1>2. /\ suite' = suite /\ got' = got
      /\ \/ UNCHANGED <<sent, wire>>
         \/ /\ record # None
            /\ sent' = [sent EXCEPT ![d] = Append(sent[d], e)]
            /\ wire' = [wire EXCEPT ![d] = Append(wire[d], record)]
  <2>. HIDE DEF record
  <2>. QED BY DEF Send, record
<1>3. CASE UNCHANGED <<sent, wire>>
  BY <1>2, <1>3 DEF ConnectionInv, Counted, Accepted
<1>4. CASE /\ record # None
           /\ sent' = [sent EXCEPT ![d] = Append(sent[d], e)]
           /\ wire' = [wire EXCEPT ![d] = Append(wire[d], record)]
  <2>1. e \in Entries /\ record = Made(suite, d, count, e)
    BY <1>4, ProtectMakes
  <2>. HIDE DEF e, record
  <2>2. record \in Records
    <3>1. suite \in {"cbc", "gcm"} /\ count \in Nat
      BY <1>1 DEF ConnectionInv
    <3>. HIDE DEF count
    <3>. QED BY <2>1, <3>1 DEF Records
  <2>3. /\ Append(sent[d], e) \in Seq(Entries) /\ Append(wire[d], record) \in Seq(Records)
        /\ sent'[d] = Append(sent[d], e) /\ wire'[d] = Append(wire[d], record)
    BY <1>1, <1>4, <2>1, <2>2 DEF ConnectionInv
  <2>4. /\ sent' \in [Directions -> Seq(Entries)] /\ wire' \in [Directions -> Seq(Records)]
        /\ \A c \in Directions \ {d} : sent'[c] = sent[c] /\ wire'[c] = wire[c]
    BY <1>4, <2>3 DEF ConnectionInv
  <2>5. /\ Len(sent'[d]) = count + 1 /\ Len(wire'[d]) = count + 1
        /\ sent'[d][count + 1] = e /\ wire'[d][count + 1] = record
        /\ \A n \in 1..count : sent'[d][n] = sent[d][n] /\ wire'[d][n] = wire[d][n]
    BY <1>1, <2>1, <2>2, <2>3 DEF Counted
  <2>6. Counted(d)'
    <3>. SUFFICES ASSUME NEW n \in 1..(count + 1)
                  PROVE  wire'[d][n] = Made(suite, d, n - 1, sent'[d][n])
      BY <1>2, <2>5 DEF Counted
    <3>1. CASE n \in 1..count
      BY <1>1, <2>5, <3>1 DEF Counted
    <3>2. CASE n = count + 1
      BY <1>1, <2>1, <2>5, <3>2
    <3>3. n \in 1..count \/ n = count + 1
      BY <1>1
    <3>. QED BY <3>1, <3>2, <3>3
  <2>7. Accepted(d)'
    <3>1. Len(got[d]) \in Nat /\ Len(got[d]) <= count /\ got'[d] = got[d]
      BY <1>1, <1>2 DEF Accepted
    <3>2. \A n \in 1..Len(got[d]) : n \in 1..count
      BY <1>1, <3>1
    <3>3. \A n \in 1..Len(got[d]) : got'[d][n] = sent'[d][n]
      BY <1>1, <2>5, <3>1, <3>2 DEF Accepted
    <3>. QED BY <1>1, <2>5, <3>1, <3>3 DEF Accepted
  <2>8. \A c \in Directions \ {d} : Counted(c)' /\ Accepted(c)'
    BY <1>2, <2>4 DEF ConnectionInv, Counted, Accepted
  <2>. QED BY <1>2, <2>4, <2>6, <2>7, <2>8 DEF ConnectionInv
<1>. QED BY <1>2, <1>3, <1>4

(* Under either suite the reader accepts only the next entry. *)
LEMMA AcceptsNext ==
    ASSUME ConnectionInv, NEW d \in Directions, NEW seq \in Nat, NEW type,
           NEW record \in Forged, Deprotect(d, seq, type, record) # None
    PROVE  \E n \in 1..Len(sent[d]) :
               /\ seq = n - 1 /\ type = sent[d][n].type
               /\ Deprotect(d, seq, type, record) = sent[d][n].data
<1>1. CASE suite = "cbc"
  <2>1. /\ Deprotect(d, seq, type, record) = DeprotectCbc(CbcKeys(d), seq, type, record)
        /\ record \in ForgedCbc
    BY <1>1 DEF Deprotect, Forged
  <2>2. PICK c \in Directions : Readable(record, CbcKeys(c).enc, Pieces(c))
    BY <1>1, <2>1, ForgedAreReadable
  <2>3. DeprotectCbc(CbcKeys(d), seq, type, record) # None
    BY <2>1
  <2>. QED BY <1>1, <2>1, <2>2, <2>3, CbcAcceptsNext
<1>2. CASE suite = "gcm"
  <2>1. /\ Deprotect(d, seq, type, record) = DeprotectGcm(GcmKeys(d), seq, type, record)
        /\ record \in ForgedGcm
    BY <1>2 DEF Deprotect, Forged
  <2>. QED BY <1>2, <2>1, GcmAcceptsNext
<1>. QED BY <1>1, <1>2 DEF ConnectionInv

(* Receive: what the reader accepts is the next record sent to it. *)
LEMMA ReceiveStep ==
    ASSUME ConnectionInv, NEW d \in Directions, NEW type \in Types, NEW record \in Forged,
           Receive(d, type, record)
    PROVE  ConnectionInv'
<1>. DEFINE seq == Len(got[d])
            data == Deprotect(d, seq, type, record)
            e == [type |-> type, data |-> data]
<1>1. /\ sent[d] \in Seq(Entries) /\ got[d] \in Seq(Entries) /\ seq \in Nat
      /\ Len(sent[d]) \in Nat /\ Accepted(d)
  BY DEF ConnectionInv
<1>2. /\ data # None /\ suite' = suite /\ sent' = sent /\ wire' = wire
      /\ got' = [got EXCEPT ![d] = Append(got[d], e)]
  BY DEF Receive
<1>3. PICK n \in 1..Len(sent[d]) : seq = n - 1 /\ type = sent[d][n].type /\ data = sent[d][n].data
  BY <1>1, <1>2, AcceptsNext
<1>. HIDE DEF data
<1>4. seq + 1 \in 1..Len(sent[d]) /\ e = sent[d][seq + 1] /\ e \in Entries
  <2>1. sent[d][n] \in Entries
    BY <1>1, <1>3
  <2>2. seq + 1 = n
    BY <1>1, <1>3
  <2>. QED BY <1>3, <2>1, <2>2 DEF Entries
<1>. HIDE DEF e
<1>5. /\ Append(got[d], e) \in Seq(Entries) /\ got'[d] = Append(got[d], e)
      /\ got' \in [Directions -> Seq(Entries)]
      /\ \A b \in Directions \ {d} : got'[b] = got[b]
  BY <1>1, <1>2, <1>4 DEF ConnectionInv
<1>6. /\ Len(got'[d]) = seq + 1 /\ got'[d][seq + 1] = e
      /\ \A m \in 1..seq : got'[d][m] = got[d][m]
  BY <1>1, <1>4, <1>5
<1>7. Accepted(d)'
  BY <1>1, <1>2, <1>4, <1>6 DEF Accepted
<1>8. \A b \in Directions : Counted(b)'
  BY <1>2 DEF ConnectionInv, Counted
<1>9. \A b \in Directions \ {d} : Accepted(b)'
  BY <1>2, <1>5 DEF ConnectionInv, Accepted
<1>. QED BY <1>2, <1>5, <1>7, <1>8, <1>9 DEF ConnectionInv

(* The invariant of a connection holds throughout. *)
THEOREM ConnectionInvariant == RSpec => []ConnectionInv
<1>1. ConnectionInv /\ [RNext]_rvars => ConnectionInv'
  <2>. SUFFICES ASSUME ConnectionInv, [RNext]_rvars
                PROVE  ConnectionInv'
    OBVIOUS
  <2>1. CASE UNCHANGED rvars
    BY <2>1 DEF rvars, ConnectionInv, Counted, Accepted
  <2>. QED BY <2>1, SendStep, ReceiveStep DEF RNext
<1>. QED BY <1>1, ConnectionInit, PTL DEF RSpec

(* Replayed, reordered, reflected, cut or spliced: what a connection       *)
(* accepts, under either suite, is a prefix of what was sent, types        *)
(* included.                                                               *)
THEOREM RecordsInOrder == RSpec => []InOrder
<1>1. ConnectionInv => InOrder
  <2>. SUFFICES ASSUME ConnectionInv, NEW d \in Directions
                PROVE  /\ Len(got[d]) <= Len(sent[d])
                       /\ got[d] = SubSeq(sent[d], 1, Len(got[d]))
    BY DEF InOrder
  <2>1. PICK n \in 0..Len(sent[d]) : n = Len(got[d])
    BY DirectionFacts
  <2>2. /\ sent[d] \in Seq(Entries) /\ got[d] \in Seq(Entries) /\ Len(sent[d]) \in Nat
        /\ \A k \in 1..n : sent[d][k] = got[d][k]
    BY <2>1, DirectionFacts
  <2>3. IsRun(got[d], n) /\ n \in Nat /\ n <= Len(sent[d])
    BY <2>1, <2>2, SeqIsRun
  <2>4. SubSeq(sent[d], 1, n) = got[d]
    BY <2>2, <2>3, PrefixIs
  <2>. QED BY <2>1, <2>3, <2>4
<1>. QED BY <1>1, ConnectionInvariant, PTL

(* A record padded further. *)
LEMMA RepaddedIs ==
    ASSUME NEW d, NEW n, NEW e \in Entries, NEW p \in LegalPads(Len(e.data)),
           NEW q, q = Repadded(Framing(d, n, e), Len(e.data), p),
           NEW size, size = Len(e.data) + DigestSize + p + 1
    PROVE  /\ q = [key |-> CbcKeys(d).enc, body |-> q.body]
           /\ IsFramed(q.body, e.data, Code(d, n, e), p, Symbols(d, n, e))
           /\ p \in 0..PadMax /\ size \in Nat /\ Rem(size, CipherBlock) = 0
           /\ size <= MaxPlaintext + DigestSize + CipherBlock
<1>. DEFINE w == Framing(d, n, e).body  data == e.data  code == Code(d, n, e)  Z == Symbols(d, n, e)
<1>1. IsFramed(w, data, code, PadOf(e), Z)
  BY FramingIs
<1>2. PICK k, len, old : k = CbcKeys(d).enc /\ len = Len(e.data) /\ old = PadOf(e)
  OBVIOUS
<1>3. Framing(d, n, e) = [key |-> k, body |-> w]
  BY <1>2 DEF Framing
<1>4. q = [[key |-> k, body |-> w] EXCEPT !.body = SubSeq(@, 1, len + DigestSize) \o Padding(p)]
  BY <1>2, <1>3 DEF Repadded
<1>. HIDE DEF w, data, code, Z
<1>5. q = [key |-> k, body |-> SubSeq(w, 1, len + DigestSize) \o Padding(p)]
  BY <1>4
<1>6. IsFramed(w, data, code, old, Z) /\ len = Len(data)
  BY <1>1, <1>2 DEF data
<1>7. SubSeq(w, 1, len + DigestSize) = data \o code
  <2>1. PICK z : z = len + DigestSize + old + 1
    OBVIOUS
  <2>2. Upto(w, len + DigestSize) = data \o code
    BY <1>6, <2>1, FramedIs
  <2>. QED BY <2>2 DEF Upto
<1>8. /\ p \in 0..PadMax /\ (len + DigestSize + p + 1) % CipherBlock = 0
      /\ len + p + 1 <= MaxPlaintext + CipherBlock
  BY <1>2 DEF LegalPads
<1>9. IsFramed(q.body, data, code, p, Z)
  <2>1. q.body = (data \o code) \o Padding(p)
    <3>1. PICK v : v = SubSeq(w, 1, len + DigestSize)
      OBVIOUS
    <3>2. q = [key |-> k, body |-> v \o Padding(p)]
      BY <3>1, <1>5
    <3>3. q.body = v \o Padding(p)
      BY <3>2
    <3>. QED BY <3>1, <3>3, <1>7
  <2>. QED BY <2>1, <1>6, <1>8 DEF IsFramed
<1>10. size = len + DigestSize + p + 1
  BY <1>2
<1>11. Rem(size, CipherBlock) = 0
  BY <1>8, <1>10 DEF Rem
<1>12. size \in Nat /\ size <= MaxPlaintext + DigestSize + CipherBlock
  <2>1. len \in Nat /\ p \in Nat
    BY <1>2, <1>8, MessageIsSeq, RecordAssumption
  <2>2. DigestSize \in Nat /\ MaxPlaintext \in Nat /\ CipherBlock \in Nat
    BY SizesAssumption, RecordAssumption
  <2>3. len + p + 1 <= MaxPlaintext + CipherBlock
    BY <1>8
  <2>. QED BY <2>1, <2>2, <2>3, <1>10
<1>. QED BY <1>2, <1>5, <1>8, <1>9, <1>11, <1>12 DEF data, code, Z

(* It opens as what it was made of. *)
LEMMA RepaddedOpens ==
    ASSUME ConnectionInv, NEW d \in Directions, NEW n \in 1..Len(sent[d]),
           NEW e \in Entries, e = sent[d][n], NEW p \in LegalPads(Len(e.data))
    PROVE  DeprotectCbc(CbcKeys(d), n - 1, e.type, Repadded(Framing(d, n - 1, e), Len(e.data), p))
             = e.data
<1>1. PICK q, m, k : q = Repadded(Framing(d, n - 1, e), Len(e.data), p) /\ m = n - 1
                     /\ k = CbcKeys(d).enc
  OBVIOUS
<1>2. PICK len \in Nat : len = Len(e.data)
  BY MessageIsSeq
<1>14. PICK size : size = Len(e.data) + DigestSize + p + 1
  OBVIOUS
<1>3. /\ q = [key |-> CbcKeys(d).enc, body |-> q.body]
      /\ IsFramed(q.body, e.data, Code(d, m, e), p, Symbols(d, m, e))
      /\ p \in 0..PadMax /\ size \in Nat /\ Rem(size, CipherBlock) = 0
      /\ size <= MaxPlaintext + DigestSize + CipherBlock
  BY <1>1, <1>2, <1>14, RepaddedIs
<1>. DEFINE w == q.body  data == e.data  code == Code(d, m, e)  Z == Symbols(d, m, e)
<1>4. IsFramed(w, data, code, p, Z) /\ len = Len(data) /\ size = len + DigestSize + p + 1
  BY <1>2, <1>3, <1>14
<1>5. code = RefHmac(CbcKeys(d).mac, Header(m, e.type, len) \o data)
  BY <1>2 DEF Code, Message
<1>. HIDE DEF w, data, code, Z
<1>6. Upto(w, len) = data /\ w \in Seq(Z) /\ Len(w) = size
  BY <1>4, FramedIs
<1>7. /\ size % CipherBlock = 0 => IsBody(w, size)
      /\ \A keys, seq, type : code = RefHmac(keys.mac, Header(seq, type, len) \o data)
             => Decodes(keys, seq, type, w, len)
  BY <1>4, FramedBody
<1>8. IsBody(w, size)
  BY <1>3, <1>7 DEF Rem
<1>9. Decodes(CbcKeys(d), m, e.type, w, len)
  BY <1>5, <1>7
<1>10. len \in 0..size
  <2>1. DigestSize \in Nat /\ p \in Nat
    BY <1>3, SizesAssumption, RecordAssumption
  <2>. QED BY <2>1, <1>2, <1>4
<1>11. CbcKeys(d).mac \in Seq(KeyBytes)
  BY MacKeyIsSeq
<1>12. q.key = CbcKeys(d).enc /\ q.body = w
  BY <1>3 DEF w
<1>13. DeprotectCbc(CbcKeys(d), m, e.type, q) = Upto(w, len)
  <2>. DEFINE keys == CbcKeys(d)
  <2>1. keys.mac \in Seq(KeyBytes) /\ q.key = keys.enc /\ IsBody(q.body, size)
        /\ size <= MaxPlaintext + DigestSize + CipherBlock
        /\ Decodes(keys, m, e.type, q.body, len)
    BY <1>3, <1>8, <1>9, <1>11, <1>12
  <2>. HIDE DEF keys
  <2>2. DeprotectCbc(keys, m, e.type, q) = Upto(q.body, len)
    BY <2>1, <1>10, OpensDecoded
  <2>. QED BY <2>2, <1>12 DEF keys
<1>. QED BY <1>1, <1>6, <1>13 DEF data

(* Under either suite the next record in order always opens as what was    *)
(* sent, with any legal padding: no run of refused records leaves the two  *)
(* counts apart.                                                           *)
THEOREM RecordsNextAccepted == RSpec => []NextAccepted
<1>1. ConnectionInv => NextAccepted
  <2>. SUFFICES ASSUME ConnectionInv, NEW d \in Directions, Len(got[d]) < Len(sent[d])
                PROVE  LET seq == Len(got[d])
                           s == sent[d][seq + 1]
                           r == wire[d][seq + 1]
                           reads(record) == Deprotect(d, seq, s.type, record) = s.data
                       IN  IF suite = "gcm" THEN reads(r)
                           ELSE \A p \in LegalPads(Len(s.data)) :
                                    reads(Repadded(r, Len(s.data), p))
    BY DEF NextAccepted
  <2>1. PICK n \in 1..Len(sent[d]) : n = Len(got[d]) + 1 /\ n - 1 = Len(got[d])
    <3>1. Len(got[d]) + 1 \in 1..Len(sent[d]) /\ (Len(got[d]) + 1) - 1 = Len(got[d])
      BY DirectionFacts
    <3>. QED BY <3>1
  <2>2. PICK e \in Entries : e = sent[d][n]
    BY DirectionFacts
  <2>3. wire[d][n] = Made(suite, d, n - 1, e) /\ n - 1 \in Nat
    BY <2>2, DirectionFacts
  <2>4. CASE suite = "gcm"
    <3>1. DeprotectGcm(GcmKeys(d), n - 1, e.type, Sealing(d, n - 1, e)) = e.data
      BY <2>3, SealingOpens
    <3>. QED BY <2>1, <2>2, <2>3, <2>4, <3>1 DEF Deprotect, Made
  <2>5. CASE suite = "cbc"
    <3>1. \A p \in LegalPads(Len(e.data)) :
            DeprotectCbc(CbcKeys(d), n - 1, e.type, Repadded(Framing(d, n - 1, e), Len(e.data), p))
              = e.data
      BY <2>2, RepaddedOpens
    <3>. QED BY <2>1, <2>2, <2>3, <2>5, <3>1 DEF Deprotect, Made
  <2>. QED BY <2>4, <2>5 DEF ConnectionInv
<1>. QED BY <1>1, ConnectionInvariant, PTL

(* A record whose padding is spoiled is still one that may come before the *)
(* reader.                                                                 *)
LEMMA MispaddedAreReadable ==
    ASSUME ConnectionInv, suite = "cbc", NEW f \in Mispadded
    PROVE  \E d \in Directions : Readable(f, CbcKeys(d).enc, Pieces(d))
<1>1. PICK d \in Directions : f \in UNION {Spoiled(d, n) : n \in 1..Len(wire[d])}
  BY DEF Mispadded
<1>2. PICK n \in 1..Len(wire[d]) : f \in Spoiled(d, n)
  BY <1>1
<1>3. \E p \in LegalPads(Len(sent[d][n].data)) \ {0} :
          f = [Repadded(wire[d][n], Len(sent[d][n].data), p)
                 EXCEPT !.body[Len(sent[d][n].data) + DigestSize + 1] = Byte(p - 1)]
  BY <1>2 DEF Spoiled
<1>4. n \in 1..Len(sent[d])
  BY DirectionFacts
<1>5. PICK e \in Entries, m \in Nat : e = sent[d][n] /\ m = n - 1
  BY <1>4, DirectionFacts
<1>6. wire[d][n] = Framing(d, m, e)
  BY <1>4, <1>5, DirectionFacts DEF Made
<1>7. PICK p \in LegalPads(Len(e.data)) \ {0} :
          f = [Repadded(Framing(d, m, e), Len(e.data), p)
                 EXCEPT !.body[Len(e.data) + DigestSize + 1] = Byte(p - 1)]
  BY <1>3, <1>5, <1>6
<1>8. PICK q, k, Z, size :
        /\ q = Repadded(Framing(d, m, e), Len(e.data), p) /\ k = CbcKeys(d).enc
        /\ Z = Pieces(d) /\ size = Len(e.data) + DigestSize + p + 1
  OBVIOUS
<1>9. /\ q = [key |-> CbcKeys(d).enc, body |-> q.body]
      /\ IsFramed(q.body, e.data, Code(d, m, e), p, Symbols(d, m, e))
      /\ p \in 0..PadMax /\ size \in Nat /\ Rem(size, CipherBlock) = 0
  BY <1>7, <1>8, RepaddedIs
<1>10. Symbols(d, m, e) \subseteq Z /\ Octets \subseteq Z
  BY <1>4, <1>5, <1>8 DEF Symbols, Pieces, Written
<1>11. PICK w : w = q.body
  OBVIOUS
<1>12. /\ w \in Seq(Symbols(d, m, e)) /\ Len(w) = size
       /\ \A i \in 1..(p + 1) : w[Len(e.data) + DigestSize + i] = Byte(p)
  BY <1>8, <1>9, <1>11, FramedIs
<1>13. PICK at \in Nat : at = Len(e.data) + DigestSize + 1
  <2>1. Len(e.data) \in Nat /\ DigestSize \in Nat
    BY MessageIsSeq, SizesAssumption
  <2>. QED BY <2>1
<1>14. p \in Nat /\ p > 0 /\ p - 1 \in 0..PadMax
  BY <1>7, <1>9, RecordAssumption
<1>15. at \in 1..size /\ at < size /\ size > 0
  <2>1. Len(e.data) \in Nat /\ DigestSize \in Nat
    BY MessageIsSeq, SizesAssumption
  <2>2. size = at + p /\ at > 0
    BY <2>1, <1>8, <1>13, <1>14
  <2>. QED BY <2>2, <1>9, <1>13, <1>14
<1>16. w[size] = Byte(p)
  <2>1. p + 1 \in 1..(p + 1) /\ Len(e.data) + DigestSize + (p + 1) = size
    <3>1. PICK l \in Nat, a \in Nat : l = Len(e.data) /\ a = p
      BY <1>14, MessageIsSeq
    <3>2. a + 1 \in 1..(a + 1) /\ size = l + DigestSize + a + 1
      BY <3>1, <1>8
    <3>3. l + DigestSize + (a + 1) = size
      BY <3>2, <1>9, SizesAssumption
    <3>. QED BY <3>1, <3>2, <3>3
  <2>2. w[Len(e.data) + DigestSize + (p + 1)] = Byte(p)
    BY <2>1, <1>12
  <2>. QED BY <2>1, <2>2
<1>17. PICK v : v = [w EXCEPT ![at] = Byte(p - 1)]
  OBVIOUS
<1>18. f = [key |-> k, body |-> v]
  <2>1. q = [key |-> k, body |-> w]
    BY <1>8, <1>9, <1>11
  <2>2. f = [q EXCEPT !.body[at] = Byte(p - 1)]
    BY <1>7, <1>8, <1>13
  <2>. QED BY <2>1, <2>2, <1>17
<1>19. v \in Seq(Z) /\ Len(v) = size /\ v[size] = Byte(p)
  <2>1. PICK Y : Y = Symbols(d, m, e)
    OBVIOUS
  <2>2. w \in Seq(Y) /\ Y \subseteq Z
    BY <2>1, <1>10, <1>12
  <2>3. w \in Seq(Z)
    BY <2>2
  <2>4. w \in [1..size -> Z]
    BY <2>3, <1>12, LenProperties
  <2>5. Byte(p - 1) \in Z
    BY <1>10, <1>14, ByteFacts
  <2>6. v \in [1..size -> Z] /\ v[size] = Byte(p)
    BY <2>4, <2>5, <1>9, <1>15, <1>16, <1>17
  <2>. QED BY <2>6, <1>9
<1>20. IsBody(v, size)
  <2>1. IsRun(v, size)
    BY <1>19, SeqIsRun
  <2>2. v[size] \in Octets
    BY <1>9, <1>19, ByteFacts
  <2>. QED BY <2>1, <2>2, <1>9, <1>15, <1>19 DEF IsBody, Rem
<1>. QED BY <1>8, <1>18, <1>19, <1>20 DEF Readable

(* deprotect_cbc opens exactly what decodes, at every sequence number and  *)
(* content type: its constant-time padding scan, MAC extraction and        *)
(* fixed-schedule MAC decide what the plain decoding decides, on every     *)
(* body that cutting, splicing and misplaced padding can make of the       *)
(* records of a connection.                                                *)
THEOREM CbcOpensExactly == RSpec => []OpensExactly
<1>1. ConnectionInv => OpensExactly
  <2>. SUFFICES ASSUME ConnectionInv, suite = "cbc",
                       NEW d \in Directions, NEW type \in Types, NEW r \in ForgedCbc \cup Mispadded
                PROVE  LET keys == CbcKeys(d)
                           seq == Len(got[d])
                           data == DeprotectCbc(keys, seq, type, r)
                           fits == /\ r.key = keys.enc
                                   /\ Len(r.body) <= MaxPlaintext + DigestSize + CipherBlock
                           decodings == {len \in 0..Len(r.body) :
                                            fits /\ Decodes(keys, seq, type, r.body, len)}
                       IN  IF data = None THEN decodings = {}
                           ELSE Len(data) \in decodings /\ data = SubSeq(r.body, 1, Len(data))
    BY DEF OpensExactly
  <2>1. PICK c \in Directions : Readable(r, CbcKeys(c).enc, Pieces(c))
    BY ForgedAreReadable, MispaddedAreReadable
  <2>. DEFINE keys == CbcKeys(d)  seq == Len(got[d])
              data == DeprotectCbc(keys, seq, type, r)
              decodings == {len \in 0..Len(r.body) :
                               Fits(d, r) /\ Decodes(keys, seq, type, r.body, len)}
  <2>2. data = None => decodings = {}
    BY <2>1, OpensWhatDecodes
  <2>3. ASSUME data # None
        PROVE  Len(data) \in decodings /\ data = SubSeq(r.body, 1, Len(data))
    <3>1. PICK len \in 0..Len(r.body) :
             Fits(d, r) /\ Decodes(keys, seq, type, r.body, len) /\ data = Upto(r.body, len)
      BY <2>1, <2>3, OpensWhatDecodes
    <3>2. r.body \in Seq(Pieces(c))
      BY <2>1 DEF Readable
    <3>3. Len(data) = len
      BY <3>1, <3>2, CutFacts
    <3>. QED BY <3>1, <3>3 DEF Upto
  <2>. QED BY <2>2, <2>3 DEF Fits
<1>. QED BY <1>1, ConnectionInvariant, PTL

(* No two GCM records of a connection share key and nonce: within a        *)
(* direction the explicit nonce is the count, between directions the keys  *)
(* differ.                                                                 *)
THEOREM GcmNoncesDiffer == RSpec => []NoncesDiffer
<1>1. ConnectionInv => NoncesDiffer
  <2> SUFFICES ASSUME ConnectionInv, suite = "gcm",
                      NEW d \in Directions, NEW e \in Directions,
                      NEW n \in 1..Len(wire[d]), NEW m \in 1..Len(wire[e]),
                      GcmKeys(d).enc = GcmKeys(e).enc,
                      Nonce(GcmKeys(d), wire[d][n].explicit)
                          = Nonce(GcmKeys(e), wire[e][m].explicit)
               PROVE  d = e /\ n = m
    BY DEF NoncesDiffer
  <2>1. \A c \in Directions : \A k \in 1..Len(wire[c]) : wire[c][k].explicit = k - 1
    <3> SUFFICES ASSUME NEW c \in Directions, NEW k \in 1..Len(wire[c])
                 PROVE  wire[c][k].explicit = k - 1
      OBVIOUS
    <3>1. /\ k - 1 \in Nat /\ sent[c][k] \in Entries
          /\ wire[c][k] = Made(suite, c, k - 1, sent[c][k])
      BY DirectionFacts
    <3>2. wire[c][k] = Sealing(c, k - 1, sent[c][k])
      BY <3>1 DEF Made
    <3> QED
      BY <3>1, <3>2, SealingFields
  <2>2. wire[d][n].explicit = wire[e][m].explicit
    BY DEF Nonce
  <2> QED
    BY <2>1, <2>2, KeysApart
<1> QED
  BY <1>1, ConnectionInvariant, PTL
=============================================================================
