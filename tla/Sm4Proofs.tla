----------------------------- MODULE Sm4Proofs -----------------------------
(***************************************************************************)
(* Proofs about SM4: CbcStreams, for every block size, cipher, batch size  *)
(* and chunking, and Sm4Xts, for every disk, sector size and host.         *)
(*                                                                         *)
(* CbcStreams: what a stream has produced when it ends is what the         *)
(* single-shot function makes of all it was fed, decryption undoes         *)
(* encryption, and the last decrypted block stays in the stream.  A byte   *)
(* sequence is whole blocks joined and less than a block more, in one way  *)
(* (SplitUnique).  What an encryptor holds is a function of the whole      *)
(* blocks it was fed (EncState), and likewise for a decryptor (DecState):  *)
(* one block more keeps both, hence so do the folds over blocks and        *)
(* batches, hence so does an update.                                       *)
(*                                                                         *)
(* Sm4Xts: every sector of the disk holds what encryption of that sector   *)
(* alone gives, or its plaintext, whatever runs of sectors were encrypted  *)
(* and decrypted, and a data unit comes back from any host.  Exclusive or  *)
(* of bytes is proved associative bit by bit (NibbleAssoc); a round on the *)
(* words in the opposite order takes back the round before (RoundUndone),  *)
(* so that decryption undoes encryption for every key and block            *)
(* (CryptUndone); a batch is its blocks one by one (CryptBlocksAre);       *)
(* stealing is undone by stealing with the tweaks exchanged                *)
(* (StolenUndone); and adding to a sector number is additive (LePlusAdds). *)
(***************************************************************************)
EXTENDS CbcStreams, Sm4Xts, DataLemmas

(* A block has at least one byte. *)
LEMMA BlockSize == BS \in Nat /\ BS \in Nat \ {0}
  BY CbcAssumption

(* A block is a sequence of BS bytes, and the reverse. *)
LEMMA BlockIsSeq ==
    ASSUME NEW b \in Blocks
    PROVE  b \in Seq(Bytes) /\ Len(b) = BS /\ IsRun(b, BS)
  BY BlockSize DEF Blocks, IsRun

(* A block is a sequence of BS bytes: one put together byte by byte is one. *)
LEMMA SeqIsBlock ==
    ASSUME NEW b \in Seq(Bytes), Len(b) = BS
    PROVE  b \in Blocks
<1>1. b \in [1..Len(b) -> Bytes]
  OBVIOUS
<1>. QED BY <1>1 DEF Blocks

(* A position in whole blocks is a block and a place in it. *)
LEMMA PositionIs ==
    ASSUME NEW k \in Nat, NEW l \in 1..BS, NEW j, j = Mul(k, BS) + l
    PROVE  /\ j \in Nat \ {0} /\ Quo(j - 1, BS) = k /\ Rem(j - 1, BS) + 1 = l
           /\ \A n \in Nat : k < n => j \in 1..Mul(n, BS)
<1>1. PICK a \in Nat : a = Mul(k, BS)
  BY MulFacts, BlockSize
<1>2. PICK r \in 0..(BS - 1) : r = l - 1 /\ l = r + 1
  BY BlockSize
<1>3. j \in Nat \ {0} /\ j - 1 = Mul(k, BS) + r
  BY <1>1, <1>2
<1>4. Quo(j - 1, BS) = k /\ Rem(j - 1, BS) = r
  BY <1>3, Euclid, BlockSize
<1>5. ASSUME NEW n \in Nat, k < n PROVE j \in 1..Mul(n, BS)
  <2>1. Mul(k, BS) + BS <= Mul(n, BS) /\ Mul(n, BS) \in Nat
    BY <1>5, MulFacts, BlockSize
  <2>. QED BY <2>1, <1>1, <1>3, BlockSize
<1>. QED BY <1>2, <1>3, <1>4, <1>5

(* Every byte of n blocks lies in one of them, at one of its places. *)
LEMMA Position ==
    ASSUME NEW n \in Nat, NEW j \in 1..Mul(n, BS)
    PROVE  \E k \in Nat : \E l \in 1..BS : k < n /\ j = Mul(k, BS) + l
<1>1. PICK m \in Nat : m = Mul(n, BS)
  BY MulFacts, BlockSize
<1>2. PICK i \in Nat : i = j - 1 /\ j = i + 1
  BY <1>1
<1>3. PICK k \in Nat : k = Quo(i, BS)
  BY DivMod, BlockSize
<1>4. PICK r \in 0..(BS - 1) : r = Rem(i, BS)
  BY DivMod, BlockSize
<1>5. PICK a \in Nat : a = Mul(k, BS)
  BY MulFacts, BlockSize
<1>6. i = a + r
  BY <1>3, <1>4, <1>5, DivMod, BlockSize
<1>7. k < n
  <2>1. n <= k => Mul(n, BS) <= Mul(k, BS)
    BY MulFacts, BlockSize
  <2>. QED BY <2>1, <1>1, <1>2, <1>5, <1>6, BlockSize
<1>8. r + 1 \in 1..BS /\ j = Mul(k, BS) + (r + 1)
  BY <1>2, <1>5, <1>6, BlockSize
<1>. QED BY <1>7, <1>8

-----------------------------------------------------------------------------
(* The bytes of a sequence of blocks. *)
Joined(ss) ==
    [j \in 1..Mul(Len(ss), BS) |-> ss[Quo(j - 1, BS) + 1][Rem(j - 1, BS) + 1]]

(* The joined bytes of n blocks: their number, and which block each is of. *)
LEMMA JoinedFacts ==
    ASSUME NEW ss \in Seq(Blocks), NEW n, n = Len(ss)
    PROVE  /\ n \in Nat /\ Mul(n, BS) \in Nat
           /\ Joined(ss) \in Seq(Bytes) /\ Len(Joined(ss)) = Mul(n, BS)
           /\ IsRun(Joined(ss), Mul(n, BS))
           /\ \A k \in Nat : \A l \in 1..BS :
                k < n => /\ Joined(ss)[Mul(k, BS) + l] = ss[k + 1][l]
                         /\ ss[k + 1] \in Blocks /\ ss[k + 1][l] \in Bytes
<1>1. n \in Nat
  OBVIOUS
<1>2. PICK m \in Nat : m = Mul(n, BS)
  BY <1>1, MulFacts, BlockSize
<1>3. IsRun(Joined(ss), m)
  BY <1>2 DEF Joined, IsRun
<1>4. ASSUME NEW k \in Nat, NEW l \in 1..BS, k < n
      PROVE  /\ Joined(ss)[Mul(k, BS) + l] = ss[k + 1][l]
             /\ ss[k + 1] \in Blocks /\ ss[k + 1][l] \in Bytes
  <2>1. PICK j : j = Mul(k, BS) + l
    OBVIOUS
  <2>2. Quo(j - 1, BS) = k /\ Rem(j - 1, BS) + 1 = l /\ j \in 1..Mul(n, BS)
    BY <1>1, <1>4, <2>1, PositionIs
  <2>3. Joined(ss)[j] = ss[k + 1][l]
    BY <2>2 DEF Joined
  <2>4. k + 1 \in 1..n
    BY <1>1, <1>4
  <2>5. ss[k + 1] \in Blocks
    BY <2>4
  <2>. QED BY <2>1, <2>3, <2>5 DEF Blocks
<1>5. ASSUME NEW j \in 1..m PROVE Joined(ss)[j] \in Bytes
  <2>1. PICK k \in Nat : \E l \in 1..BS : k < n /\ j = Mul(k, BS) + l
    BY <1>1, <1>2, Position
  <2>. QED BY <2>1, <1>4
<1>6. Joined(ss) \in Seq(Bytes) /\ Len(Joined(ss)) = m
  BY <1>3, <1>5, FcnIsSeq
<1>. QED BY <1>1, <1>2, <1>3, <1>4, <1>6

(* Place l of block k + 1, in the joined bytes. *)
JoinedPlace(ss, k, l) == Joined(ss)[Mul(k, BS) + l] = ss[k + 1][l]

(* JoinedFacts for one place. *)
LEMMA JoinedAt ==
    ASSUME NEW ss \in Seq(Blocks), NEW k \in Nat, NEW l \in 1..BS, k < Len(ss)
    PROVE  JoinedPlace(ss, k, l)
<1>1. PICK n \in Nat : n = Len(ss) /\ k < n
  OBVIOUS
<1>2. Quo((Mul(k, BS) + l) - 1, BS) = k /\ Rem((Mul(k, BS) + l) - 1, BS) + 1 = l
  BY PositionIs
<1>3. Mul(k, BS) + l \in 1..Mul(n, BS)
  BY <1>1, PositionIs
<1>. QED BY <1>1, <1>2, <1>3 DEF Joined, JoinedPlace

(* Joining goes over concatenation. *)
LEMMA JoinedConcat ==
    ASSUME NEW ss \in Seq(Blocks), NEW tt \in Seq(Blocks)
    PROVE  Joined(ss \o tt) = Joined(ss) \o Joined(tt)
<1>1. PICK n \in Nat, m \in Nat : n = Len(ss) /\ m = Len(tt)
  OBVIOUS
<1>2. PICK uu \in Seq(Blocks) : uu = ss \o tt /\ Len(uu) = n + m
        /\ \A i \in 1..(n + m) : uu[i] = IF i <= n THEN ss[i] ELSE tt[i - n]
  <2>1. ss \o tt \in Seq(Blocks) /\ Len(ss \o tt) = n + m
        /\ \A i \in 1..(n + m) : (ss \o tt)[i] = IF i <= n THEN ss[i] ELSE tt[i - n]
    BY <1>1, ConcatAt
  <2>. QED BY <2>1
<1>3. PICK a \in Nat, b \in Nat : a = Mul(n, BS) /\ b = Mul(m, BS)
  BY MulFacts, BlockSize
<1>4. PICK c \in Nat : c = n + m
  OBVIOUS
<1>5. Mul(c, BS) = a + b
  BY <1>3, <1>4, MulFacts, BlockSize
<1>. DEFINE u == Joined(ss)  v == Joined(tt)  w == Joined(uu)
<1>6. IsRun(u, a) /\ IsRun(v, b) /\ IsRun(w, a + b)
  <2>1. IsRun(u, Mul(n, BS))
    BY <1>1, JoinedFacts
  <2>2. IsRun(v, Mul(m, BS))
    BY <1>1, JoinedFacts
  <2>3. IsRun(w, Mul(c, BS))
    BY <1>2, <1>4, JoinedFacts
  <2>. QED BY <2>1, <2>2, <2>3, <1>3, <1>5
<1>7. ASSUME NEW j \in 1..a PROVE w[j] = u[j]
  <2>1. PICK k \in Nat : \E l \in 1..BS : k < n /\ j = Mul(k, BS) + l
    BY <1>3, Position
  <2>2. PICK l \in 1..BS : k < n /\ j = Mul(k, BS) + l
    BY <2>1
  <2>3. u[j] = ss[k + 1][l]
    <3>1. JoinedPlace(ss, k, l)
      BY <1>1, <2>2, JoinedAt
    <3>. QED BY <2>2, <3>1 DEF JoinedPlace
  <2>4. k < c
    BY <1>4, <2>2
  <2>5. w[j] = uu[k + 1][l]
    <3>1. JoinedPlace(uu, k, l)
      BY <1>2, <1>4, <2>2, <2>4, JoinedAt
    <3>. QED BY <2>2, <3>1 DEF JoinedPlace
  <2>6. k + 1 \in 1..(n + m) /\ k + 1 <= n
    BY <2>2
  <2>. QED BY <1>2, <2>3, <2>5, <2>6
<1>8. ASSUME NEW j \in 1..b PROVE w[a + j] = v[j]
  <2>1. PICK k \in Nat : \E l \in 1..BS : k < m /\ j = Mul(k, BS) + l
    BY <1>3, Position
  <2>2. PICK l \in 1..BS : k < m /\ j = Mul(k, BS) + l
    BY <2>1
  <2>3. v[j] = tt[k + 1][l]
    <3>1. JoinedPlace(tt, k, l)
      BY <1>1, <2>2, JoinedAt
    <3>. QED BY <2>2, <3>1 DEF JoinedPlace
  <2>4. PICK i \in Nat : i = n + k /\ i < c /\ i + 1 \in 1..(n + m)
                         /\ ~(i + 1 <= n) /\ (i + 1) - n = k + 1
    BY <1>4, <2>2
  <2>5. PICK d \in Nat, e \in Nat : d = Mul(k, BS) /\ e = Mul(i, BS)
    BY MulFacts, BlockSize
  <2>6. e = a + d
    BY <1>3, <2>4, <2>5, MulFacts, BlockSize, SMTT(30)
  <2>7. w[e + l] = uu[i + 1][l]
    <3>1. JoinedPlace(uu, i, l)
      BY <1>2, <1>4, <2>2, <2>4, JoinedAt
    <3>. QED BY <2>5, <3>1 DEF JoinedPlace
  <2>8. a + j = e + l
    BY <2>2, <2>5, <2>6, BlockSize
  <2>9. uu[i + 1] = tt[k + 1]
    BY <1>2, <2>4
  <2>. QED BY <2>3, <2>7, <2>8, <2>9
<1>. HIDE DEF u, v, w
<1>9. w = u \o v
  BY <1>6, <1>7, <1>8, JoinIs
<1>. QED BY <1>2, <1>9 DEF u, v, w

(* No blocks, one block, one block more. *)
LEMMA JoinedSmall ==
    ASSUME NEW b \in Blocks
    PROVE  Joined(<<>>) = <<>> /\ Joined(<<b>>) = b
<1>1. Joined(<<>>) = <<>>
  <2>1. Mul(0, BS) = 0
    BY MulFacts, BlockSize
  <2>. QED BY <2>1 DEF Joined
<1>2. PICK one \in Seq(Blocks) : one = <<b>> /\ Len(one) = 1 /\ one[1] = b
  <2>1. <<b>> \in Seq(Blocks) /\ Len(<<b>>) = 1 /\ <<b>>[1] = b
    OBVIOUS
  <2>. QED BY <2>1
<1>3. Mul(1, BS) = BS /\ Mul(0, BS) = 0
  BY MulFacts, BlockSize
<1>4. IsRun(Joined(one), BS) /\ \A l \in 1..BS : Joined(one)[l] = b[l]
  <2>1. IsRun(Joined(one), BS)
    BY <1>2, <1>3, JoinedFacts
  <2>2. ASSUME NEW l \in 1..BS PROVE Joined(one)[l] = b[l]
    <3>1. PICK k \in Nat : k = 0 /\ k < 1 /\ k + 1 = 1
      OBVIOUS
    <3>2. Joined(one)[Mul(k, BS) + l] = one[k + 1][l]
      BY <1>2, <3>1, JoinedFacts
    <3>3. Mul(k, BS) + l = l
      BY <1>3, <3>1, BlockSize
    <3>. QED BY <3>1, <3>2, <3>3, <1>2
  <2>. QED BY <2>1, <2>2
<1>5. IsRun(b, BS)
  BY BlockIsSeq
<1>6. Joined(one) = b
  BY <1>4, <1>5, SameRun, BlockSize
<1>. QED BY <1>1, <1>2, <1>6

(* A block more is its bytes more. *)
LEMMA JoinedAppend ==
    ASSUME NEW ss \in Seq(Blocks), NEW b \in Blocks
    PROVE  Joined(Append(ss, b)) = Joined(ss) \o b
<1>1. PICK one \in Seq(Blocks) : one = <<b>>
  <2>1. <<b>> \in Seq(Blocks)
    OBVIOUS
  <2>. QED BY <2>1
<1>2. Append(ss, b) = ss \o one
  BY <1>1, AppendByConcat
<1>3. Joined(ss \o one) = Joined(ss) \o Joined(one)
  BY JoinedConcat
<1>. QED BY <1>1, <1>2, <1>3, JoinedSmall

(* FlattenSeq joins blocks. *)
LEMMA FlatIsJoined ==
    ASSUME NEW ss \in Seq(Blocks)
    PROVE  FlattenSeq(ss) = Joined(ss)
<1>1. PICK n \in Nat : n = Len(ss)
  OBVIOUS
<1>2. CASE n = 0
  <2>1. ss = <<>>
    <3>1. Len(ss) = 0
      BY <1>1, <1>2
    <3>. QED BY <3>1
  <2>2. FlattenSeq(ss) = <<>>
    BY <2>1 DEF FlattenSeq
  <2>3. Mul(0, BS) = 0
    BY MulFacts, BlockSize
  <2>4. Joined(ss) = <<>>
    BY <1>1, <1>2, <2>3 DEF Joined
  <2>. QED BY <2>2, <2>4
<1>3. CASE n # 0
  <2>. DEFINE U(i) == Joined(Upto(ss, i))  G == [i \in 1..n |-> U(i)]
  <2>1. ASSUME NEW i \in 1..n PROVE U(i) = IF i = 1 THEN ss[i] ELSE U(i - 1) \o ss[i]
    <3>1. PICK b \in Blocks : b = ss[i]
      BY <1>1
    <3>2. PICK x \in Seq(Blocks) : x = Upto(ss, i - 1)
      <4>1. i - 1 \in 0..Len(ss)
        BY <1>1
      <4>. QED BY <4>1, CutFacts
    <3>3. Upto(ss, i) = Append(x, b)
      BY <1>1, <3>1, <3>2, UptoNext
    <3>4. U(i) = Joined(x) \o b
      BY <3>3, JoinedAppend
    <3>5. CASE i = 1
      <4>1. x = <<>>
        BY <3>2, <3>5, UptoEnds
      <4>2. Append(x, b) = <<b>>
        BY <4>1
      <4>. QED BY <3>1, <3>3, <3>5, <4>2, JoinedSmall
    <3>6. CASE i # 1
      BY <3>1, <3>2, <3>4, <3>6
    <3>. QED BY <3>5, <3>6
  <2>2. U(n) = Joined(ss)
    BY <1>1, UptoEnds
  <2>. HIDE DEF U
  <2>3. IsFlat(G, ss, n)
    <3>1. ASSUME NEW i \in 1..n PROVE G[i] = IF i = 1 THEN ss[i] ELSE G[i - 1] \o ss[i]
      <4>1. i # 1 => i - 1 \in 1..n
        OBVIOUS
      <4>2. G[i] = U(i) /\ (i # 1 => G[i - 1] = U(i - 1))
        BY <4>1
      <4>. HIDE DEF G
      <4>. QED BY <4>2, <2>1
    <3>2. G = [i \in 1..n |-> G[i]]
      OBVIOUS
    <3>. HIDE DEF G
    <3>. QED BY <3>1, <3>2 DEF IsFlat
  <2>4. G[n] = Joined(ss)
    BY <1>3, <2>2
  <2>. HIDE DEF G
  <2>5. FlattenSeq(ss) = G[n]
    BY <1>1, <1>3, <2>3, FlattenBySeq
  <2>. QED BY <2>4, <2>5
<1>. QED BY <1>2, <1>3

-----------------------------------------------------------------------------
(* m is the blocks ss and then the bytes p, less than a block. *)
Splits(m, ss, p) ==
    /\ ss \in Seq(Blocks) /\ p \in Seq(Bytes) /\ Len(p) \in 0..(BS - 1)
    /\ m = Joined(ss) \o p

(* Only the whole blocks and the partial one split a sequence. *)
LEMMA SplitUnique ==
    ASSUME NEW m, NEW ss, NEW p, Splits(m, ss, p)
    PROVE  /\ Whole(m) = ss /\ Partial(m) = p /\ m \in Seq(Bytes)
           /\ Len(ss) \in Nat /\ Len(m) = Mul(Len(ss), BS) + Len(p)
           /\ Len(m) % BS = Len(p)
<1>1. /\ ss \in Seq(Blocks) /\ p \in Seq(Bytes) /\ Len(p) \in 0..(BS - 1)
      /\ m = Joined(ss) \o p
  BY DEF Splits
<1>2. PICK n \in Nat : n = Len(ss)
  BY <1>1
<1>3. PICK r \in 0..(BS - 1) : r = Len(p)
  BY <1>1
<1>4. PICK a \in Nat : a = Mul(n, BS)
  BY MulFacts, BlockSize
<1>5. PICK u \in Seq(Bytes) : u = Joined(ss) /\ Len(u) = a
  BY <1>1, <1>2, <1>4, JoinedFacts
<1>6. /\ m \in Seq(Bytes) /\ Len(m) = a + r
      /\ (\A i \in 1..a : m[i] = u[i]) /\ (\A i \in 1..r : m[a + i] = p[i])
  <2>1. IsJoin(m, u, p)
    BY <1>1, <1>5 DEF IsJoin
  <2>2. p \in Seq(Bytes) /\ u \in Seq(Bytes)
    BY <1>1
  <2>3. PICK d \in Nat : d = r
    BY <1>3, BlockSize
  <2>4. /\ m \in Seq(Bytes) /\ Len(m) = a + d
        /\ (\A i \in 1..a : m[i] = u[i]) /\ (\A i \in 1..d : m[a + i] = p[i])
    BY <1>3, <1>5, <2>1, <2>2, <2>3, ConcatParts
  <2>. QED BY <2>3, <2>4
<1>7. Quo(Len(m), BS) = n /\ Rem(Len(m), BS) = r
  BY <1>4, <1>6, Euclid, BlockSize
<1>8. ASSUME NEW k \in 1..n PROVE SubSeq(m, (k - 1) * BS + 1, k * BS) = ss[k]
  <2>1. PICK i \in Nat : i = k - 1 /\ k = i + 1 /\ i < n
    OBVIOUS
  <2>2. PICK d \in Nat : d = Mul(i, BS)
    BY MulFacts, BlockSize
  <2>3. Mul(k, BS) = d + BS /\ d + BS <= a
    BY <1>4, <2>1, <2>2, MulFacts, BlockSize
  <2>4. PICK b \in Blocks : b = ss[k]
    BY <1>1, <1>2
  <2>5. ASSUME NEW l \in 1..BS PROVE b[l] = m[d + l]
    <3>1. u[d + l] = ss[i + 1][l]
      BY <1>1, <1>2, <1>5, <2>1, <2>2, JoinedFacts
    <3>2. d + l \in 1..a
      BY <2>3, BlockSize
    <3>. QED BY <3>1, <3>2, <1>6, <2>1, <2>4
  <2>6. d + BS <= Len(m)
    BY <1>3, <1>6, <2>3, BlockSize
  <2>7. IsRun(b, BS) /\ m \in Seq(Bytes)
    BY BlockIsSeq, <1>6
  <2>0. PICK x, y : x = d + 1 /\ y = d + BS
    OBVIOUS
  <2>8. SubSeq(m, x, y) = b
    <3>1. Copies(b, m, d, BS, x, y)
      BY <2>0, <2>5, <2>6, <2>7 DEF Copies
    <3>. QED BY <2>7, <3>1, CopiesIs, BlockSize
  <2>9. (k - 1) * BS + 1 = x /\ k * BS = y
    BY <2>0, <2>1, <2>2, <2>3 DEF Mul
  <2>. QED BY <2>4, <2>8, <2>9
<1>9. Whole(m) = ss
  <2>1. Len(m) \div BS = n
    BY <1>7 DEF Quo
  <2>2. Whole(m) = [k \in 1..n |-> ss[k]]
    BY <1>8, <2>1 DEF Whole
  <2>. QED BY <1>1, <1>2, <2>2
<1>10. Partial(m) = p
  <2>1. (Len(m) \div BS) * BS = a
    BY <1>4, <1>7 DEF Quo, Mul
  <2>2. IsRun(p, r)
    BY <1>1, <1>3, SeqIsRun
  <2>3. PICK c \in Nat : c = r /\ a + c <= Len(m)
    BY <1>6, BlockSize
  <2>4. PICK x, y : x = a + 1 /\ y = a + c
    OBVIOUS
  <2>5. SubSeq(m, x, y) = p
    <3>1. Copies(p, m, a, c, x, y)
      BY <1>6, <2>2, <2>3, <2>4 DEF Copies
    <3>. QED BY <1>6, <3>1, CopiesIs
  <2>. QED BY <1>6, <2>1, <2>3, <2>4, <2>5 DEF Partial
<1>11. Len(m) % BS = Len(p)
  BY <1>3, <1>7 DEF Rem
<1>. QED BY <1>2, <1>3, <1>4, <1>6, <1>9, <1>10, <1>11

(* And they do. *)
LEMMA SplitExists ==
    ASSUME NEW m \in Seq(Bytes)
    PROVE  Splits(m, Whole(m), Partial(m))
<1>0. Len(m) \in Nat
  OBVIOUS
<1>1. PICK n \in Nat : n = Quo(Len(m), BS)
  BY <1>0, DivMod, BlockSize
<1>2. PICK r \in 0..(BS - 1) : r = Rem(Len(m), BS)
  BY <1>0, DivMod, BlockSize
<1>3. PICK a \in Nat : a = Mul(n, BS)
  BY MulFacts, BlockSize
<1>4. Len(m) = a + r /\ r \in Nat
  <2>1. PICK len \in Nat : len = Len(m)
    BY <1>0
  <2>2. len = Mul(Quo(len, BS), BS) + Rem(len, BS)
    BY DivMod, BlockSize
  <2>. QED BY <1>1, <1>2, <1>3, <2>1, <2>2, BlockSize
<1>. DEFINE ss == Whole(m)  p == Partial(m)
<1>5. ASSUME NEW i \in Nat, i < n
      PROVE  ss[i + 1] \in Blocks /\ \A l \in 1..BS : ss[i + 1][l] = m[Mul(i, BS) + l]
  <2>1. PICK d \in Nat : d = Mul(i, BS)
    BY MulFacts, BlockSize
  <2>2. PICK k \in 1..n : k = i + 1 /\ k - 1 = i
    BY <1>5
  <2>3. Mul(k, BS) = d + BS /\ d + BS <= a
    BY <1>3, <2>1, <2>2, MulFacts, BlockSize
  <2>4. PICK b : b = [l \in 1..BS |-> m[d + l]]
    OBVIOUS
  <2>5. IsRun(b, BS) /\ \A l \in 1..BS : b[l] = m[d + l]
    BY <2>4 DEF IsRun
  <2>6. d + BS <= Len(m)
    BY <1>4, <2>3, BlockSize
  <2>0. PICK x, y : x = d + 1 /\ y = d + BS
    OBVIOUS
  <2>7. SubSeq(m, x, y) = b /\ b \in Seq(Bytes) /\ Len(b) = BS
    <3>1. Copies(b, m, d, BS, x, y)
      BY <2>0, <2>5, <2>6 DEF Copies
    <3>. QED BY <3>1, CopiesIs, BlockSize
  <2>8. (k - 1) * BS + 1 = x /\ k * BS = y
    BY <2>0, <2>1, <2>2, <2>3 DEF Mul
  <2>9. ss[k] = b
    BY <1>1, <2>7, <2>8 DEF Whole, Quo
  <2>. HIDE DEF ss
  <2>. QED BY <2>1, <2>2, <2>5, <2>7, <2>9, SeqIsBlock
<1>6. IsRun(ss, n)
  BY <1>1 DEF Whole, Quo, IsRun
<1>7. p \in Seq(Bytes) /\ Len(p) = r /\ \A i \in 1..r : p[i] = m[a + i]
  <2>1. PICK q : q = [i \in 1..r |-> m[a + i]]
    OBVIOUS
  <2>2. IsRun(q, r) /\ \A i \in 1..r : q[i] = m[a + i]
    BY <2>1 DEF IsRun
  <2>0. PICK x, y : x = a + 1 /\ y = a + r /\ y <= Len(m)
    BY <1>4
  <2>3. SubSeq(m, x, y) = q /\ q \in Seq(Bytes) /\ Len(q) = r
    <3>1. r \in Nat
      BY BlockSize
    <3>2. Copies(q, m, a, r, x, y)
      BY <1>4, <2>0, <2>2 DEF Copies
    <3>. QED BY <3>1, <3>2, CopiesIs
  <2>4. (Len(m) \div BS) * BS + 1 = x /\ Len(m) = y
    BY <1>1, <1>3, <1>4, <2>0 DEF Quo, Mul
  <2>5. p = q
    BY <2>3, <2>4 DEF Partial
  <2>. QED BY <2>2, <2>3, <2>5
<1>. HIDE DEF ss, p
<1>8. ss \in Seq(Blocks) /\ Len(ss) = n
  <2>1. ASSUME NEW k \in 1..n PROVE ss[k] \in Blocks
    <3>1. PICK i \in Nat : i = k - 1 /\ k = i + 1 /\ i < n
      OBVIOUS
    <3>. QED BY <3>1, <1>5
  <2>. QED BY <1>6, <2>1, FcnIsSeq
<1>9. PICK u \in Seq(Bytes) : u = Joined(ss) /\ IsRun(u, a)
        /\ \A k \in Nat : \A l \in 1..BS : k < n => u[Mul(k, BS) + l] = ss[k + 1][l]
  <2>1. Joined(ss) \in Seq(Bytes) /\ IsRun(Joined(ss), Mul(n, BS))
    BY <1>8, JoinedFacts
  <2>2. ASSUME NEW k \in Nat, NEW l \in 1..BS, k < n
        PROVE  Joined(ss)[Mul(k, BS) + l] = ss[k + 1][l]
    <3>1. JoinedPlace(ss, k, l)
      BY <1>8, <2>2, JoinedAt
    <3>. QED BY <3>1 DEF JoinedPlace
  <2>. QED BY <1>3, <2>1, <2>2
<1>10. m = u \o p
  <2>1. IsRun(p, r)
    BY <1>7, SeqIsRun
  <2>2. IsRun(m, a + r)
    BY <1>4, SeqIsRun
  <2>3. ASSUME NEW j \in 1..a PROVE m[j] = u[j]
    <3>1. PICK k \in Nat : \E l \in 1..BS : k < n /\ j = Mul(k, BS) + l
      BY <1>3, Position
    <3>2. PICK l \in 1..BS : k < n /\ j = Mul(k, BS) + l
      BY <3>1
    <3>. QED BY <3>2, <1>5, <1>9
  <2>. QED BY <1>4, <1>7, <1>9, <2>1, <2>2, <2>3, JoinIs
<1>11. m = Joined(ss) \o p
  BY <1>9, <1>10
<1>12. Splits(m, ss, p)
  BY <1>2, <1>7, <1>8, <1>11 DEF Splits
<1>. QED BY <1>12 DEF ss, p

-----------------------------------------------------------------------------
(* The cipher is a permutation, and an exclusive or undoes itself. *)
LEMMA XorFacts ==
    ASSUME NEW x \in Bytes, NEW y \in Bytes
    PROVE  Xor(x, y) \in Bytes /\ Xor(Xor(x, y), y) = x
  BY CbcAssumption

(* Masking a block twice with the same mask gives it back. *)
LEMMA XorBlockFacts ==
    ASSUME NEW a \in Blocks, NEW b \in Blocks
    PROVE  XorBlock(a, b) \in Blocks /\ XorBlock(XorBlock(a, b), b) = a
<1>1. ASSUME NEW k \in 1..BS
      PROVE  Xor(a[k], b[k]) \in Bytes /\ Xor(Xor(a[k], b[k]), b[k]) = a[k]
  <2>1. a[k] \in Bytes /\ b[k] \in Bytes
    BY DEF Blocks
  <2>. QED BY <2>1, XorFacts
<1>2. PICK c : c = XorBlock(a, b) /\ c \in Blocks /\ \A k \in 1..BS : c[k] = Xor(a[k], b[k])
  <2>1. PICK c : c = [k \in 1..BS |-> Xor(a[k], b[k])]
    OBVIOUS
  <2>2. ASSUME NEW k \in 1..BS PROVE c[k] = Xor(a[k], b[k]) /\ c[k] \in Bytes
    BY <1>1, <2>1
  <2>3. c = [k \in 1..BS |-> c[k]]
    BY <2>1
  <2>4. c \in Blocks
    BY <2>2, <2>3 DEF Blocks
  <2>5. c = XorBlock(a, b)
    BY <2>1 DEF XorBlock
  <2>. QED BY <2>2, <2>4, <2>5
<1>3. XorBlock(c, b) = [k \in 1..BS |-> a[k]]
  BY <1>1, <1>2 DEF XorBlock
<1>4. a = [k \in 1..BS |-> a[k]]
  BY DEF Blocks
<1>. QED BY <1>2, <1>3, <1>4

(* The cipher permutes the blocks: decryption undoes encryption, both ways. *)
LEMMA CipherFacts ==
    ASSUME NEW b \in Blocks
    PROVE  E[b] \in Blocks /\ D[b] \in Blocks /\ D[E[b]] = b /\ E[D[b]] = b
<1>1. E[b] \in Blocks
  BY CbcAssumption
<1>2. ASSUME NEW c \in Blocks PROVE D[c] \in Blocks /\ E[D[c]] = c
  <2>1. \E x \in Blocks : E[x] = c
    BY CbcAssumption
  <2>2. D[c] = CHOOSE x \in Blocks : E[x] = c
    BY DEF D
  <2>. QED BY <2>1, <2>2
<1>3. D[E[b]] \in Blocks /\ E[D[E[b]]] = E[b]
  BY <1>1, <1>2
<1>4. D[E[b]] = b
  BY <1>3, CbcAssumption
<1>. QED BY <1>1, <1>2, <1>4

-----------------------------------------------------------------------------
(* The block before the k-th, and the last, of the blocks of a ciphertext. *)
Behind(ct, k) == IF k = 1 THEN IV ELSE ct[k - 1]
Prev(ct) == IF ct = <<>> THEN IV ELSE ct[Len(ct)]

(* The block a block is chained to is a block, the IV for the first. *)
LEMMA BehindFacts ==
    ASSUME NEW ct \in Seq(Blocks), NEW n, n = Len(ct)
    PROVE  /\ n \in Nat /\ Prev(ct) \in Blocks /\ Behind(ct, n + 1) = Prev(ct)
           /\ \A k \in 1..(n + 1) : Behind(ct, k) \in Blocks
<1>1. n \in Nat /\ IV \in Blocks /\ (n = 0 <=> ct = <<>>)
  <2>1. IV \in Blocks
    BY CbcAssumption
  <2>2. Len(ct) \in Nat /\ (Len(ct) = 0 <=> ct = <<>>)
    OBVIOUS
  <2>. QED BY <2>1, <2>2
<1>2. ASSUME NEW k \in 1..(n + 1) PROVE Behind(ct, k) \in Blocks
  <2>1. k # 1 => k - 1 \in 1..n
    BY <1>1
  <2>. QED BY <1>1, <2>1 DEF Behind
<1>3. Behind(ct, n + 1) = Prev(ct)
  <2>1. PICK k \in Nat : k = n + 1 /\ k - 1 = n /\ k \in 1..(n + 1)
    BY <1>1
  <2>. QED BY <1>1, <2>1 DEF Behind, Prev
<1>4. Prev(ct) \in Blocks
  <2>1. n # 0 => n \in 1..n
    BY <1>1
  <2>. QED BY <1>1, <2>1 DEF Prev
<1>. QED BY <1>1, <1>2, <1>3, <1>4

(* A block more is behind none of those before it. *)
LEMMA BehindAppend ==
    ASSUME NEW ct \in Seq(Blocks), NEW x \in Blocks, NEW n \in Nat, n = Len(ct),
           NEW ext, IsAppend(ext, ct, x)
    PROVE  /\ ext \in Seq(Blocks) /\ Len(ext) = n + 1 /\ ext[n + 1] = x /\ Prev(ext) = x
           /\ \A k \in 1..n : ext[k] = ct[k] /\ Behind(ext, k) = Behind(ct, k)
           /\ Behind(ext, n + 1) = Prev(ct)
<1>1. /\ n \in Nat /\ ext \in Seq(Blocks) /\ Len(ext) = n + 1 /\ ext[n + 1] = x
      /\ \A k \in 1..n : ext[k] = ct[k]
  BY AppendAt
<1>2. ASSUME NEW k \in 1..(n + 1) PROVE Behind(ext, k) = Behind(ct, k)
  <2>1. k # 1 => k - 1 \in 1..n
    BY <1>1
  <2>. QED BY <1>1, <2>1 DEF Behind
<1>3. Behind(ct, n + 1) = Prev(ct)
  BY BehindFacts
<1>4. Prev(ext) = x
  <2>1. ext # <<>>
    BY <1>1
  <2>. QED BY <1>1, <2>1 DEF Prev
<1>5. n + 1 \in 1..(n + 1) /\ \A k \in 1..n : k \in 1..(n + 1)
  BY <1>1
<1>. QED BY <1>1, <1>2, <1>3, <1>4, <1>5

(* ct is the chained encryption of the blocks cs. *)
Chained(ct, cs) ==
    /\ ct \in Seq(Blocks) /\ cs \in Seq(Blocks) /\ Len(ct) = Len(cs)
    /\ \A k \in 1..Len(cs) : ct[k] = E[XorBlock(cs[k], Behind(ct, k))]

(* Encrypting a block more extends the chain by one. *)
LEMMA ChainedAppend ==
    ASSUME NEW ct, NEW cs, Chained(ct, cs), NEW b \in Blocks
    PROVE  LET x == E[XorBlock(b, Prev(ct))]
           IN  x \in Blocks /\ Chained(Append(ct, x), Append(cs, b))
<1>1. ct \in Seq(Blocks) /\ cs \in Seq(Blocks)
  BY DEF Chained
<1>2. PICK n \in Nat : n = Len(cs) /\ n = Len(ct)
  BY <1>1 DEF Chained
<1>3. PICK x \in Blocks : x = E[XorBlock(b, Prev(ct))]
  <2>1. Prev(ct) \in Blocks
    BY <1>1, BehindFacts
  <2>. QED BY <2>1, XorBlockFacts, CipherFacts
<1>4. PICK ext : ext = Append(ct, x) /\ IsAppend(ext, ct, x)
  BY DEF IsAppend
<1>5. /\ ext \in Seq(Blocks) /\ Len(ext) = n + 1 /\ ext[n + 1] = x
      /\ \A k \in 1..n : ext[k] = ct[k] /\ Behind(ext, k) = Behind(ct, k)
      /\ Behind(ext, n + 1) = Prev(ct)
  BY <1>1, <1>2, <1>4, BehindAppend
<1>6. PICK all : all = Append(cs, b) /\ IsAppend(all, cs, b)
  BY DEF IsAppend
<1>9. /\ all \in Seq(Blocks) /\ Len(all) = n + 1 /\ all[n + 1] = b
      /\ \A k \in 1..n : all[k] = cs[k]
  <2>1. PICK ds \in Seq(Blocks) : ds = cs /\ n = Len(ds) /\ IsAppend(all, ds, b)
    BY <1>1, <1>2, <1>6
  <2>2. /\ all \in Seq(Blocks) /\ Len(all) = n + 1 /\ all[n + 1] = b
        /\ \A k \in 1..n : all[k] = ds[k]
    BY <2>1, AppendAt
  <2>. QED BY <2>1, <2>2
<1>7. ASSUME NEW k \in 1..(n + 1) PROVE ext[k] = E[XorBlock(all[k], Behind(ext, k))]
  <2>1. CASE k = n + 1
    BY <1>3, <1>5, <1>9, <2>1
  <2>2. CASE k # n + 1
    <3>1. k \in 1..n
      BY <2>2
    <3>2. ct[k] = E[XorBlock(cs[k], Behind(ct, k))]
      BY <1>2, <3>1 DEF Chained
    <3>. QED BY <1>5, <1>9, <3>1, <3>2
  <2>. QED BY <2>1, <2>2
<1>8. Chained(ext, all)
  BY <1>5, <1>7, <1>9 DEF Chained
<1>. QED BY <1>3, <1>4, <1>6, <1>8

(* Every sequence of blocks has one. *)
LEMMA ChainExists ==
    ASSUME NEW cs \in Seq(Blocks)
    PROVE  \E ct : Chained(ct, cs)
<1>. DEFINE P(k) == \E ct : Chained(ct, Upto(cs, k))
            S == {k \in Nat : k <= Len(cs) => P(k)}
<1>1. Upto(cs, 0) = <<>> /\ Upto(cs, Len(cs)) = cs
  BY UptoEnds
<1>2. Chained(<<>>, <<>>)
  <2>1. <<>> \in Seq(Blocks) /\ Len(<<>>) = 0
    OBVIOUS
  <2>. QED BY <2>1 DEF Chained
<1>3. ASSUME NEW k \in Nat, k + 1 <= Len(cs), P(k) PROVE P(k + 1)
  <2>1. PICK ct : Chained(ct, Upto(cs, k))
    BY <1>3
  <2>2. PICK j \in 1..Len(cs) : j = k + 1 /\ j - 1 = k
    BY <1>3
  <2>3. PICK b \in Blocks : b = cs[j]
    OBVIOUS
  <2>4. Upto(cs, j) = Append(Upto(cs, k), b)
    BY <2>2, <2>3, UptoNext
  <2>5. \E ext : Chained(ext, Append(Upto(cs, k), b))
    BY <2>1, ChainedAppend
  <2>. QED BY <2>2, <2>4, <2>5
<1>. HIDE DEF P
<1>4. 0 \in S
  <2>1. P(0)
    BY <1>1, <1>2 DEF P
  <2>. QED BY <2>1
<1>5. ASSUME NEW k \in Nat, k \in S PROVE k + 1 \in S
  <2>1. k + 1 <= Len(cs) => k <= Len(cs)
    OBVIOUS
  <2>. QED BY <1>3, <1>5, <2>1
<1>6. Nat \subseteq S
  <2>. HIDE DEF S
  <2>. QED BY <1>4, <1>5, NatClosure
<1>7. P(Len(cs))
  <2>1. PICK n \in Nat : n = Len(cs)
    OBVIOUS
  <2>2. n \in S
    BY <1>6
  <2>. QED BY <2>1, <2>2
<1>. QED BY <1>1, <1>7 DEF P

(* The blocks that a ciphertext decrypts to. *)
Plain(ct) == [k \in 1..Len(ct) |-> XorBlock(D[ct[k]], Behind(ct, k))]

(* Unchaining gives a block of plaintext for each block of ciphertext. *)
LEMMA PlainFacts ==
    ASSUME NEW ct \in Seq(Blocks), NEW n, n = Len(ct)
    PROVE  /\ Plain(ct) \in Seq(Blocks) /\ Len(Plain(ct)) = n /\ IsRun(Plain(ct), n)
           /\ \A k \in 1..n : Plain(ct)[k] = XorBlock(D[ct[k]], Behind(ct, k))
<1>1. n \in Nat /\ \A k \in 1..n : k \in 1..(n + 1)
  OBVIOUS
<1>2. \A k \in 1..n : Plain(ct)[k] = XorBlock(D[ct[k]], Behind(ct, k))
  BY DEF Plain
<1>3. ASSUME NEW k \in 1..n PROVE Plain(ct)[k] \in Blocks
  <2>1. ct[k] \in Blocks /\ Behind(ct, k) \in Blocks
    BY <1>1, BehindFacts
  <2>. QED BY <2>1, <1>2, XorBlockFacts, CipherFacts
<1>4. IsRun(Plain(ct), n)
  BY DEF Plain, IsRun
<1>5. Plain(ct) \in Seq(Blocks) /\ Len(Plain(ct)) = n
  BY <1>1, <1>3, <1>4, FcnIsSeq
<1>. QED BY <1>2, <1>4, <1>5

(* A block of ciphertext more unchains to a block of plaintext more. *)
LEMMA PlainAppend ==
    ASSUME NEW ct \in Seq(Blocks), NEW x \in Blocks
    PROVE  /\ XorBlock(D[x], Prev(ct)) \in Blocks
           /\ Plain(Append(ct, x)) = Append(Plain(ct), XorBlock(D[x], Prev(ct)))
<1>1. PICK n \in Nat : n = Len(ct)
  OBVIOUS
<1>2. PICK ext : ext = Append(ct, x) /\ IsAppend(ext, ct, x)
  BY DEF IsAppend
<1>3. /\ ext \in Seq(Blocks) /\ Len(ext) = n + 1 /\ ext[n + 1] = x
      /\ \A k \in 1..n : ext[k] = ct[k] /\ Behind(ext, k) = Behind(ct, k)
      /\ Behind(ext, n + 1) = Prev(ct)
  BY <1>1, <1>2, BehindAppend
<1>4. PICK y \in Blocks : y = XorBlock(D[x], Prev(ct))
  <2>1. Prev(ct) \in Blocks
    BY BehindFacts
  <2>. QED BY <2>1, XorBlockFacts, CipherFacts
<1>5. PICK m \in Nat : m = n + 1
  OBVIOUS
<1>6. IsRun(Plain(ext), m) /\ \A k \in 1..m : Plain(ext)[k] = XorBlock(D[ext[k]], Behind(ext, k))
  BY <1>3, <1>5, PlainFacts
<1>7. IsRun(Plain(ct), n) /\ \A k \in 1..n : Plain(ct)[k] = XorBlock(D[ct[k]], Behind(ct, k))
  BY <1>1, PlainFacts
<1>8. (\A k \in 1..n : Plain(ext)[k] = Plain(ct)[k]) /\ Plain(ext)[n + 1] = y
  <2>1. (\A k \in 1..n : k \in 1..m) /\ n + 1 \in 1..m
    BY <1>5
  <2>. QED BY <1>3, <1>4, <1>6, <1>7, <2>1
<1>9. Plain(ext) = Append(Plain(ct), y)
  BY <1>5, <1>6, <1>7, <1>8, AppendIs
<1>. QED BY <1>2, <1>4, <1>9

(* Decryption undoes the chain, and what it gives chains back. *)
LEMMA PlainOfChained ==
    ASSUME NEW ct, NEW cs, Chained(ct, cs)
    PROVE  Plain(ct) = cs
<1>1. ct \in Seq(Blocks) /\ cs \in Seq(Blocks)
  BY DEF Chained
<1>2. PICK n \in Nat : n = Len(cs) /\ n = Len(ct)
  BY <1>1 DEF Chained
<1>3. ASSUME NEW k \in 1..n PROVE Plain(ct)[k] = cs[k]
  <2>1. PICK v \in Blocks : v = Behind(ct, k)
    <3>1. k \in 1..(n + 1)
      OBVIOUS
    <3>. QED BY <1>1, <1>2, <3>1, BehindFacts
  <2>2. PICK b \in Blocks : b = cs[k]
    <3>1. \A s \in Seq(Blocks) : Len(s) = n => s[k] \in Blocks
      OBVIOUS
    <3>. QED BY <1>1, <1>2, <3>1
  <2>3. ct[k] = E[XorBlock(b, v)]
    BY <1>2, <2>1, <2>2 DEF Chained
  <2>4. Plain(ct)[k] = XorBlock(D[ct[k]], v)
    BY <1>1, <1>2, <2>1, PlainFacts
  <2>5. XorBlock(b, v) \in Blocks /\ XorBlock(XorBlock(b, v), v) = b
    BY XorBlockFacts
  <2>6. D[ct[k]] = XorBlock(b, v)
    BY <2>3, <2>5, CipherFacts
  <2>. QED BY <2>2, <2>4, <2>5, <2>6
<1>4. IsRun(Plain(ct), n) /\ IsRun(cs, n)
  BY <1>1, <1>2, PlainFacts, SeqIsRun
<1>. QED BY <1>3, <1>4, SameRun

(* Unchained blocks, encrypted again, give the ciphertext they came from. *)
LEMMA PlainChains ==
    ASSUME NEW ct \in Seq(Blocks)
    PROVE  Chained(ct, Plain(ct))
<1>1. PICK n \in Nat : n = Len(ct)
  OBVIOUS
<1>2. /\ Plain(ct) \in Seq(Blocks) /\ Len(Plain(ct)) = n
      /\ \A k \in 1..n : Plain(ct)[k] = XorBlock(D[ct[k]], Behind(ct, k))
  BY <1>1, PlainFacts
<1>3. ASSUME NEW k \in 1..n PROVE ct[k] = E[XorBlock(Plain(ct)[k], Behind(ct, k))]
  <2>1. PICK v \in Blocks : v = Behind(ct, k)
    <3>1. k \in 1..(n + 1)
      OBVIOUS
    <3>. QED BY <1>1, <3>1, BehindFacts
  <2>2. PICK x \in Blocks : x = ct[k]
    BY <1>1
  <2>3. D[x] \in Blocks /\ E[D[x]] = x
    BY CipherFacts
  <2>4. XorBlock(XorBlock(D[x], v), v) = D[x]
    BY <2>3, XorBlockFacts
  <2>. QED BY <1>2, <2>1, <2>2, <2>3, <2>4
<1>. QED BY <1>1, <1>2, <1>3 DEF Chained

-----------------------------------------------------------------------------
(* The single-shot encryption joins the chained blocks of the padded        *)
(* message.                                                                 *)
LEMMA EncryptIs ==
    ASSUME NEW m, NEW cs, cs = Whole(Pad(m)), NEW ct, Chained(ct, cs)
    PROVE  Encrypt(m) = Joined(ct)
<1>. DEFINE Rec(f) == f = [k \in 0..Len(cs) |->
                            IF k = 0 THEN IV ELSE E[XorBlock(cs[k], f[k - 1])]]
            c == CHOOSE f : Rec(f)
            w == [k \in 0..Len(cs) |-> IF k = 0 THEN IV ELSE ct[k]]
<1>1. Encrypt(m) = FlattenSeq([k \in 1..Len(cs) |-> c[k]])
  BY DEF Encrypt
<1>2. ct \in Seq(Blocks) /\ cs \in Seq(Blocks)
  BY DEF Chained
<1>3. PICK n \in Nat : n = Len(cs) /\ n = Len(ct)
  BY <1>2 DEF Chained
<1>4. Rec(w)
  <2>1. ASSUME NEW k \in 0..n, k # 0 PROVE ct[k] = E[XorBlock(cs[k], w[k - 1])]
    <3>1. k \in 1..n /\ k - 1 \in 0..n /\ (k = 1 <=> k - 1 = 0)
      BY <2>1
    <3>2. w[k - 1] = Behind(ct, k)
      BY <3>1, <1>3 DEF Behind
    <3>. QED BY <3>1, <3>2, <1>3 DEF Chained
  <2>2. w = [k \in 0..n |-> IF k = 0 THEN IV ELSE E[XorBlock(cs[k], w[k - 1])]]
    <3>1. \A k \in 0..n : (IF k = 0 THEN IV ELSE ct[k]) = IF k = 0 THEN IV ELSE E[XorBlock(cs[k], w[k - 1])]
      <4>. HIDE DEF w
      <4>. QED BY <2>1
    <3>2. w = [k \in 0..n |-> IF k = 0 THEN IV ELSE ct[k]]
      BY <1>3
    <3>. HIDE DEF w
    <3>. QED BY <3>1, <3>2
  <2>. HIDE DEF w
  <2>. QED BY <2>2, <1>3
<1>5. Rec(c)
  <2>. HIDE DEF Rec, w
  <2>. QED BY <1>4
<1>. HIDE DEF c
<1>6. c[0] = IV /\ \A k \in 1..n : c[k] = E[XorBlock(cs[k], c[k - 1])]
  <2>1. c = [k \in 0..n |-> IF k = 0 THEN IV ELSE E[XorBlock(cs[k], c[k - 1])]]
    BY <1>5, <1>3
  <2>2. \A k \in 1..n : k \in 0..n /\ k # 0
    OBVIOUS
  <2>3. 0 \in 0..n
    OBVIOUS
  <2>. QED BY <2>1, <2>2, <2>3
<1>. DEFINE S == {k \in Nat : k + 1 <= n => c[k + 1] = ct[k + 1]}
<1>7. 0 \in S
  <2>. SUFFICES ASSUME 1 <= n PROVE c[1] = ct[1]
    OBVIOUS
  <2>1. 1 \in 1..n /\ 1 - 1 = 0
    OBVIOUS
  <2>2. Behind(ct, 1) = IV
    BY DEF Behind
  <2>. QED BY <1>3, <1>6, <2>1, <2>2 DEF Chained
<1>8. ASSUME NEW k \in Nat, k \in S PROVE k + 1 \in S
  <2>. SUFFICES ASSUME (k + 1) + 1 <= n PROVE c[(k + 1) + 1] = ct[(k + 1) + 1]
    OBVIOUS
  <2>1. PICK j \in 1..n : j = (k + 1) + 1 /\ j # 1 /\ j - 1 = k + 1 /\ k + 1 <= n
    OBVIOUS
  <2>2. c[k + 1] = ct[k + 1]
    BY <1>8, <2>1
  <2>. HIDE DEF S
  <2>3. Behind(ct, j) = ct[k + 1]
    BY <2>1 DEF Behind
  <2>4. ct[j] = E[XorBlock(cs[j], ct[k + 1])]
    BY <1>3, <2>3 DEF Chained
  <2>5. c[j] = E[XorBlock(cs[j], c[k + 1])]
    BY <1>6, <2>1
  <2>. QED BY <2>1, <2>2, <2>4, <2>5
<1>9. Nat \subseteq S
  <2>. HIDE DEF S
  <2>. QED BY <1>7, <1>8, NatClosure
<1>10. ASSUME NEW k \in 1..n PROVE c[k] = ct[k]
  <2>1. PICK i \in Nat : i + 1 = k
    <3>1. k - 1 \in Nat /\ (k - 1) + 1 = k
      OBVIOUS
    <3>. QED BY <3>1
  <2>2. i \in S
    BY <1>9
  <2>. QED BY <2>1, <2>2
<1>11. [k \in 1..Len(cs) |-> c[k]] = ct
  <2>1. ct = [k \in 1..n |-> ct[k]]
    BY <1>2, <1>3
  <2>. QED BY <1>3, <1>10, <2>1
<1>. QED BY <1>1, <1>2, <1>11, FlatIsJoined

(* The padded final block of a message that ends in the bytes p. *)
PadBlock(p) == p \o [k \in 1..(BS - Len(p)) |-> BS - Len(p)]

(* It is a block, and the strip finds p in it. *)
LEMMA PadBlockFacts ==
    ASSUME NEW p \in Seq(Bytes), Len(p) \in 0..(BS - 1)
    PROVE  /\ PadBlock(p) \in Blocks /\ Strip(PadBlock(p)) = Len(p)
           /\ SubSeq(PadBlock(p), 1, Len(p)) = p
<1>1. PICK a \in Nat : a = Len(p) /\ a < BS
  BY BlockSize
<1>2. PICK n \in Nat : n = BS - a /\ n = BS - Len(p) /\ n \in 1..BS /\ a + n = BS
  BY <1>1, BlockSize
<1>3. PICK q : q = [k \in 1..n |-> n]
  OBVIOUS
<1>4. q \in Seq(Bytes) /\ Len(q) = n /\ \A k \in 1..n : q[k] = n
  <2>1. n \in Bytes
    BY <1>2, CbcAssumption
  <2>2. IsRun(q, n) /\ \A k \in 1..n : q[k] = n
    BY <1>3 DEF IsRun
  <2>3. \A k \in 1..n : q[k] \in Bytes
    BY <2>1, <2>2
  <2>4. q \in Seq(Bytes) /\ Len(q) = n
    BY <2>2, <2>3, FcnIsSeq
  <2>. QED BY <2>2, <2>4
<1>5. PICK w : w = PadBlock(p) /\ IsJoin(w, p, q)
  BY <1>2, <1>3 DEF PadBlock, IsJoin
<1>6. /\ w \in Seq(Bytes) /\ Len(w) = a + n
      /\ (\A i \in 1..a : w[i] = p[i]) /\ (\A i \in 1..n : w[a + i] = q[i])
  BY <1>1, <1>4, <1>5, ConcatParts, SMTT(30)
<1>7. w \in Blocks
  BY <1>2, <1>6, SeqIsBlock
<1>8. ASSUME NEW k \in (a + 1)..BS PROVE w[k] = n
  <2>1. PICK i \in 1..n : i = k - a /\ k = a + i
    BY <1>2, BlockSize
  <2>. QED BY <2>1, <1>4, <1>6
<1>9. Strip(w) = a
  <2>1. BS \in (a + 1)..BS
    BY <1>1, BlockSize
  <2>2. w[BS] = n
    BY <2>1, <1>8
  <2>3. (BS - n) + 1 = a + 1 /\ BS - n = a
    BY <1>2, BlockSize
  <2>4. \A k \in (BS - n) + 1 .. BS : w[k] = n
    BY <2>3, <1>8
  <2>. QED BY <1>2, <2>2, <2>3, <2>4 DEF Strip
<1>10. SubSeq(w, 1, a) = p
  <2>1. IsRun(p, a)
    BY <1>1, SeqIsRun
  <2>2. w \in Seq(Bytes) /\ a <= Len(w) /\ \A l \in 1..a : w[l] = p[l]
    <3>1. a <= a + n
      BY <1>2, BlockSize
    <3>. QED BY <3>1, <1>6
  <2>. QED BY <2>1, <2>2, <1>1, PrefixIs
<1>. QED BY <1>1, <1>5, <1>7, <1>9, <1>10

(* The padded message is the message's whole blocks and that block. *)
LEMMA PadSplits ==
    ASSUME NEW m, NEW ss, NEW p, Splits(m, ss, p)
    PROVE  /\ PadBlock(p) \in Blocks
           /\ Whole(Pad(m)) = Append(ss, PadBlock(p))
<1>1. /\ ss \in Seq(Blocks) /\ p \in Seq(Bytes) /\ Len(p) \in 0..(BS - 1)
      /\ m = Joined(ss) \o p
  BY DEF Splits
<1>2. Len(m) % BS = Len(p)
  BY SplitUnique
<1>3. PICK n \in Nat : n = BS - Len(p) /\ n \in 1..BS
  <2>1. PICK a \in 0..(BS - 1) : a = Len(p)
    BY <1>1
  <2>2. BS - a \in Nat /\ BS - a \in 1..BS
    BY BlockSize
  <2>. QED BY <2>1, <2>2
<1>4. PICK q \in Seq(Bytes) : q = [k \in 1..n |-> n]
  <2>1. n \in Bytes
    BY <1>3, CbcAssumption
  <2>2. [k \in 1..n |-> n] \in Seq(Bytes)
    BY <2>1
  <2>. QED BY <2>2
<1>5. PICK b \in Blocks : b = PadBlock(p) /\ b = p \o q
  <2>1. PadBlock(p) \in Blocks
    BY <1>1, PadBlockFacts
  <2>2. PadBlock(p) = p \o q
    BY <1>3, <1>4 DEF PadBlock
  <2>. QED BY <2>1, <2>2
<1>6. Pad(m) = m \o q
  BY <1>2, <1>3, <1>4 DEF Pad
<1>7. PICK u \in Seq(Bytes) : u = Joined(ss)
  BY <1>1, JoinedFacts
<1>8. Pad(m) = u \o b
  <2>1. (u \o p) \o q = u \o (p \o q)
    BY <1>1, ConcatAssoc
  <2>. QED BY <1>1, <1>5, <1>6, <1>7, <2>1
<1>9. u \o b = Joined(Append(ss, b))
  BY <1>1, <1>7, JoinedAppend
<1>10. PICK all \in Seq(Blocks) : all = Append(ss, b)
  <2>1. Append(ss, b) \in Seq(Blocks)
    BY <1>1
  <2>. QED BY <2>1
<1>11. Splits(Pad(m), all, <<>>)
  <2>1. Joined(all) \in Seq(Bytes)
    BY JoinedFacts
  <2>2. Joined(all) = Joined(all) \o <<>>
    BY <2>1
  <2>3. <<>> \in Seq(Bytes) /\ Len(<<>>) \in 0..(BS - 1)
    BY BlockSize
  <2>4. Pad(m) = Joined(all) \o <<>>
    BY <1>8, <1>9, <1>10, <2>2
  <2>. QED BY <2>3, <2>4 DEF Splits
<1>12. Whole(Pad(m)) = all
  BY <1>11, SplitUnique
<1>. QED BY <1>5, <1>10, <1>12

(* What encryption makes of a message's whole blocks and the bytes after.   *)
LEMMA EncryptSplit ==
    ASSUME NEW m, NEW ss, NEW p, Splits(m, ss, p), NEW ct, Chained(ct, ss),
           NEW x, x = E[XorBlock(PadBlock(p), Prev(ct))]
    PROVE  /\ x \in Blocks /\ ct \in Seq(Blocks)
           /\ Encrypt(m) = Joined(ct) \o x /\ Encrypt(m) = Joined(Append(ct, x))
<1>1. PICK b \in Blocks : b = PadBlock(p) /\ Whole(Pad(m)) = Append(ss, b)
  BY PadSplits
<1>2. x \in Blocks /\ Chained(Append(ct, x), Append(ss, b))
  BY <1>1, ChainedAppend
<1>3. Encrypt(m) = Joined(Append(ct, x))
  <2>1. PICK cs : cs = Whole(Pad(m))
    OBVIOUS
  <2>2. PICK ext : ext = Append(ct, x)
    OBVIOUS
  <2>3. Chained(ext, cs)
    BY <1>1, <1>2, <2>1, <2>2
  <2>. QED BY <2>1, <2>2, <2>3, EncryptIs
<1>4. ct \in Seq(Blocks)
  BY DEF Chained
<1>. QED BY <1>2, <1>3, <1>4, JoinedAppend

(* The blocks of a ciphertext before the strip. *)
LEMMA UnchainedIs ==
    ASSUME NEW m, NEW cs, NEW p, Splits(m, cs, p)
    PROVE  Unchained(m) = Plain(cs)
<1>1. Whole(m) = cs
  BY SplitUnique
<1>. QED BY <1>1 DEF Unchained, Plain, Behind

(* Blocks joined have no bytes over. *)
LEMMA JoinedSplits ==
    ASSUME NEW ss \in Seq(Blocks)
    PROVE  Splits(Joined(ss), ss, <<>>)
<1>1. Joined(ss) \in Seq(Bytes)
  BY JoinedFacts
<1>2. Joined(ss) = Joined(ss) \o <<>>
  BY <1>1
<1>3. <<>> \in Seq(Bytes) /\ Len(<<>>) \in 0..(BS - 1)
  BY BlockSize
<1>. QED BY <1>2, <1>3 DEF Splits

(* m decrypts to the plaintext of cs and what strips from h. *)
DecryptsTo(m, cs, h) ==
    Decrypt(m) = IF Strip(h) = None THEN None ELSE Joined(Plain(cs)) \o SubSeq(h, 1, Strip(h))

(* What decryption makes of whole blocks: it strips the last. *)
LEMMA DecryptIs ==
    ASSUME NEW cs \in Seq(Blocks), NEW x \in Blocks, NEW h, h = XorBlock(D[x], Prev(cs)),
           NEW m, m = Joined(Append(cs, x))
    PROVE  DecryptsTo(m, cs, h)
<1>1. PICK all \in Seq(Blocks) : all = Append(cs, x)
  <2>1. Append(cs, x) \in Seq(Blocks)
    OBVIOUS
  <2>. QED BY <2>1
<1>2. Splits(m, all, <<>>)
  BY <1>1, JoinedSplits
<1>3. h \in Blocks /\ Unchained(m) = Append(Plain(cs), h)
  BY <1>1, <1>2, UnchainedIs, PlainAppend
<1>4. Plain(cs) \in Seq(Blocks)
  BY PlainFacts
<1>5. Last(Unchained(m)) = h /\ Front(Unchained(m)) = Plain(cs)
  BY <1>3, <1>4, LastFront
<1>6. Len(m) % BS = 0
  <2>1. Len(<<>>) = 0
    OBVIOUS
  <2>. QED BY <1>2, <2>1, SplitUnique
<1>7. m # <<>>
  <2>1. Whole(m) = all
    BY <1>2, SplitUnique
  <2>2. all # <<>>
    BY <1>1
  <2>3. Splits(<<>>, <<>>, <<>>)
    <3>1. <<>> \in Seq(Blocks)
      OBVIOUS
    <3>2. Joined(<<>>) = <<>>
      BY JoinedSmall, CbcAssumption
    <3>. QED BY <3>1, <3>2, JoinedSplits
  <2>4. Whole(<<>>) = <<>>
    BY <2>3, SplitUnique
  <2>. QED BY <2>1, <2>2, <2>4
<1>8. FlattenSeq(Plain(cs)) = Joined(Plain(cs))
  BY <1>4, FlatIsJoined
<1>. QED BY <1>5, <1>6, <1>7, <1>8 DEF Decrypt, DecryptsTo

(* Bytes over, or no bytes, decrypt to nothing. *)
LEMMA DecryptRefuses ==
    ASSUME NEW m, NEW cs, NEW p, Splits(m, cs, p), p # <<>> \/ cs = <<>>
    PROVE  Decrypt(m) = None
<1>1. p \in Seq(Bytes) /\ m = Joined(cs) \o p
  BY DEF Splits
<1>2. CASE p # <<>>
  <2>1. Len(p) # 0
    BY <1>1, <1>2
  <2>2. Len(m) % BS # 0
    BY <2>1, SplitUnique
  <2>. QED BY <2>2 DEF Decrypt
<1>3. CASE p = <<>> /\ cs = <<>>
  <2>1. Joined(<<>>) = <<>>
    BY JoinedSmall, CbcAssumption
  <2>2. m = <<>>
    BY <1>1, <1>3, <2>1
  <2>. QED BY <2>2 DEF Decrypt
<1>. QED BY <1>2, <1>3

(* mode_cbc.rs: decrypting what was encrypted gives it back, whatever its   *)
(* length, its bytes and the cipher's permutation.                          *)
THEOREM DecryptUndoesEncrypt ==
    ASSUME NEW m \in Seq(Bytes)
    PROVE  Decrypt(Encrypt(m)) = m
<1>1. PICK ss, p : Splits(m, ss, p)
  BY SplitExists
<1>2. /\ ss \in Seq(Blocks) /\ p \in Seq(Bytes) /\ Len(p) \in 0..(BS - 1)
      /\ m = Joined(ss) \o p
  BY <1>1 DEF Splits
<1>3. PICK ct \in Seq(Blocks) : Chained(ct, ss)
  <2>1. PICK ct : Chained(ct, ss)
    BY <1>2, ChainExists
  <2>. QED BY <2>1 DEF Chained
<1>4. PICK b \in Blocks : b = PadBlock(p) /\ Strip(b) = Len(p) /\ SubSeq(b, 1, Len(p)) = p
  BY <1>2, PadBlockFacts
<1>5. PICK v \in Blocks : v = Prev(ct)
  BY BehindFacts
<1>6. PICK x \in Blocks : x = E[XorBlock(b, v)] /\ Encrypt(m) = Joined(Append(ct, x))
  BY <1>1, <1>3, <1>4, <1>5, EncryptSplit
<1>7. XorBlock(D[x], v) = b
  <2>1. XorBlock(b, v) \in Blocks /\ XorBlock(XorBlock(b, v), v) = b
    BY XorBlockFacts
  <2>. QED BY <2>1, <1>6, CipherFacts
<1>8. Plain(ct) = ss
  BY <1>3, PlainOfChained
<1>9. Strip(b) # None
  <2>1. Len(p) \in Nat
    BY <1>2
  <2>. QED BY <2>1, <1>4, CbcAssumption
<1>10. Decrypt(Encrypt(m)) = Joined(Plain(ct)) \o SubSeq(b, 1, Strip(b))
  <2>1. b = XorBlock(D[x], Prev(ct))
    BY <1>5, <1>7
  <2>2. DecryptsTo(Encrypt(m), ct, b)
    BY <1>6, <2>1, DecryptIs
  <2>. QED BY <1>9, <2>2 DEF DecryptsTo
<1>. QED BY <1>2, <1>4, <1>8, <1>10

(* A block that strips is the padded block of what is left of it.           *)
LEMMA StripIs ==
    ASSUME NEW b \in Blocks, Strip(b) # None
    PROVE  /\ Strip(b) \in 0..(BS - 1)
           /\ SubSeq(b, 1, Strip(b)) \in Seq(Bytes) /\ Len(SubSeq(b, 1, Strip(b))) = Strip(b)
           /\ PadBlock(SubSeq(b, 1, Strip(b))) = b
<1>1. PICK n \in 1..BS : n = b[BS] /\ Strip(b) = BS - n /\ \A k \in (BS - n) + 1 .. BS : b[k] = n
  BY DEF Strip
<1>2. PICK a \in Nat : a = BS - n /\ a \in 0..(BS - 1) /\ a + n = BS /\ n = BS - a
  BY <1>1, BlockSize
<1>3. PICK p : p = SubSeq(b, 1, a)
  OBVIOUS
<1>4. b \in Seq(Bytes) /\ Len(b) = BS /\ IsRun(b, BS)
  BY BlockIsSeq
<1>5. p \in Seq(Bytes) /\ Len(p) = a /\ \A l \in 1..a : p[l] = b[l]
  <2>1. a \in 0..Len(b)
    BY <1>2, <1>4
  <2>2. Upto(b, a) \in Seq(Bytes) /\ Len(Upto(b, a)) = a
    BY <2>1, <1>4, CutFacts
  <2>3. \A l \in 1..a : SubSeq(b, 1, a)[l] = b[l]
    BY <2>1, <1>4
  <2>. QED BY <2>2, <2>3, <1>3 DEF Upto
<1>6. PICK q : q = [k \in 1..n |-> n]
  OBVIOUS
<1>7. b = p \o q
  <2>1. IsRun(p, a)
    BY <1>5, SeqIsRun
  <2>2. IsRun(q, n) /\ \A k \in 1..n : q[k] = n
    BY <1>6 DEF IsRun
  <2>3. ASSUME NEW k \in 1..n PROVE b[a + k] = q[k]
    <3>1. a + k \in (BS - n) + 1 .. BS
      BY <1>2, BlockSize
    <3>. QED BY <3>1, <1>1, <2>2
  <2>4. PICK c \in Nat : c = n
    OBVIOUS
  <2>5. IsRun(b, a + c) /\ IsRun(q, c) /\ \A k \in 1..c : b[a + k] = q[k]
    BY <1>2, <1>4, <2>2, <2>3, <2>4
  <2>6. \A j \in 1..a : b[j] = p[j]
    BY <1>5
  <2>. QED BY <2>1, <2>5, <2>6, JoinIs
<1>8. PadBlock(p) = p \o q
  BY <1>2, <1>5, <1>6 DEF PadBlock
<1>. QED BY <1>1, <1>2, <1>3, <1>5, <1>7, <1>8

(* And what decryption accepts is an encryption: the strict padding check   *)
(* lets one ciphertext through for each message, and no other.              *)
THEOREM AcceptedIsEncryption ==
    ASSUME NEW c \in Seq(Bytes), Decrypt(c) # None
    PROVE  Decrypt(c) \in Seq(Bytes) /\ Encrypt(Decrypt(c)) = c
<1>1. PICK cs, r : Splits(c, cs, r)
  BY SplitExists
<1>2. cs \in Seq(Blocks) /\ c = Joined(cs) \o r
  BY <1>1 DEF Splits
<1>3. r = <<>> /\ cs # <<>>
  BY <1>1, DecryptRefuses
<1>4. PICK c0 \in Seq(Blocks) : \E x \in Blocks : cs = Append(c0, x)
  <2>1. PICK n \in Nat : n = Len(cs)
    BY <1>2
  <2>2. n # 0
    <3>1. Len(cs) # 0
      BY <1>2, <1>3
    <3>. QED BY <2>1, <3>1
  <2>3. PICK x \in Blocks : x = cs[n]
    <3>1. n \in 1..Len(cs)
      BY <2>1, <2>2
    <3>. QED BY <1>2, <3>1
  <2>4. n \in 1..Len(cs)
    BY <2>1, <2>2
  <2>5. Upto(cs, n) = Append(Upto(cs, n - 1), x) /\ Upto(cs, n) = cs
    BY <1>2, <2>1, <2>3, <2>4, UptoNext, UptoEnds
  <2>6. n - 1 \in 0..Len(cs)
    BY <2>4
  <2>7. Upto(cs, n - 1) \in Seq(Blocks)
    BY <1>2, <2>6, CutFacts
  <2>. QED BY <2>5, <2>7
<1>5. PICK x \in Blocks : cs = Append(c0, x)
  BY <1>4
<1>6. c = Joined(Append(c0, x))
  <2>1. Joined(cs) \in Seq(Bytes)
    BY <1>2, JoinedFacts
  <2>2. Joined(cs) \o <<>> = Joined(cs)
    BY <2>1
  <2>. QED BY <1>2, <1>3, <1>5, <2>2
<1>7. PICK v \in Blocks : v = Prev(c0)
  BY BehindFacts
<1>8. PICK h \in Blocks : h = XorBlock(D[x], Prev(c0))
  BY PlainAppend
<1>9. Decrypt(c) = IF Strip(h) = None THEN None ELSE Joined(Plain(c0)) \o SubSeq(h, 1, Strip(h))
  BY <1>6, <1>8, DecryptIs DEF DecryptsTo
<1>10. PICK p \in Seq(Bytes) : Len(p) \in 0..(BS - 1) /\ PadBlock(p) = h
                               /\ Decrypt(c) = Joined(Plain(c0)) \o p
  <2>1. Strip(h) # None
    BY <1>9
  <2>. QED BY <2>1, <1>9, StripIs
<1>11. PICK m : m = Decrypt(c)
  OBVIOUS
<1>12. Splits(m, Plain(c0), p)
  <2>1. Plain(c0) \in Seq(Blocks)
    BY PlainFacts
  <2>. QED BY <2>1, <1>10, <1>11 DEF Splits
<1>13. Chained(c0, Plain(c0))
  BY PlainChains
<1>14. E[XorBlock(h, v)] = x
  <2>1. D[x] \in Blocks
    BY CipherFacts
  <2>2. XorBlock(XorBlock(D[x], v), v) = D[x]
    BY <2>1, XorBlockFacts
  <2>. QED BY <2>2, <1>7, <1>8, CipherFacts
<1>15. Encrypt(m) = Joined(Append(c0, x))
  <2>1. x = E[XorBlock(PadBlock(p), Prev(c0))]
    BY <1>7, <1>10, <1>14
  <2>. QED BY <2>1, <1>12, <1>13, EncryptSplit
<1>16. m \in Seq(Bytes)
  BY <1>12, SplitUnique
<1>. QED BY <1>6, <1>11, <1>15, <1>16

-----------------------------------------------------------------------------
(* The operators that the streams fold over blocks and batches, by name.    *)
OpOf(which, s, b) ==
    IF which = "one" THEN EncryptOne(s, b)
    ELSE IF which = "block" THEN DecryptOne(s, b) ELSE DecryptBatch(s, b)

(* What FoldLeft gives for a set of positions, from a smaller set.          *)
FoldStep(which, f, s, a, data) ==
    IF s = {} THEN a ELSE OpOf(which, f[s \ {Max(s)}], data[Max(s)])

IsFold(which, f, n, a, data) == f = [s \in SUBSET (1..n) |-> FoldStep(which, f, s, a, data)]

(* The recursive function behind FoldLeft exists. *)
LEMMA FoldExists ==
    ASSUME NEW which, NEW a, NEW data, NEW n \in Nat
    PROVE  \E f : IsFold(which, f, n, a, data)
<1>. DEFINE P(m) == \E f : f = [s \in SUBSET (1..m) |-> FoldStep(which, f, s, a, data)]
            S == {m \in Nat : P(m)}
<1>1. P(0)
  <2>. DEFINE f == [s \in SUBSET (1..0) |-> a]
  <2>1. SUBSET (1..0) = {{}}
    OBVIOUS
  <2>2. \A s \in SUBSET (1..0) : FoldStep(which, f, s, a, data) = a
    BY <2>1 DEF FoldStep
  <2>3. f = [s \in SUBSET (1..0) |-> FoldStep(which, f, s, a, data)]
    BY <2>2
  <2>. HIDE DEF f
  <2>. QED BY <2>3
<1>2. ASSUME NEW m \in Nat, P(m) PROVE P(m + 1)
  <2>1. PICK f : f = [s \in SUBSET (1..m) |-> FoldStep(which, f, s, a, data)]
    BY <1>2
  <2>. DEFINE g == [s \in SUBSET (1..(m + 1)) |->
                      IF m + 1 \in s THEN OpOf(which, f[s \ {m + 1}], data[m + 1]) ELSE f[s]]
  <2>2. ASSUME NEW s \in SUBSET (1..m) PROVE s \in SUBSET (1..(m + 1)) /\ g[s] = f[s]
    OBVIOUS
  <2>3. ASSUME NEW s \in SUBSET (1..(m + 1)) PROVE g[s] = FoldStep(which, g, s, a, data)
    <3>1. CASE m + 1 \in s
      <4>1. Max(s) = m + 1 /\ s # {}
        BY <3>1, MaxIs
      <4>2. s \ {m + 1} \in SUBSET (1..m)
        OBVIOUS
      <4>3. g[s \ {m + 1}] = f[s \ {m + 1}]
        BY <4>2, <2>2
      <4>. QED BY <3>1, <4>1, <4>3 DEF FoldStep
    <3>2. CASE m + 1 \notin s
      <4>1. s \in SUBSET (1..m)
        BY <3>2
      <4>2. s \ {Max(s)} \in SUBSET (1..m)
        BY <4>1
      <4>3. g[s] = f[s] /\ g[s \ {Max(s)}] = f[s \ {Max(s)}]
        BY <4>1, <4>2, <2>2
      <4>4. f[s] = FoldStep(which, f, s, a, data)
        BY <4>1, <2>1
      <4>. HIDE DEF g
      <4>. QED BY <4>3, <4>4 DEF FoldStep
    <3>. QED BY <3>1, <3>2
  <2>4. g = [s \in SUBSET (1..(m + 1)) |-> FoldStep(which, g, s, a, data)]
    <3>1. g = [s \in SUBSET (1..(m + 1)) |-> g[s]]
      OBVIOUS
    <3>. HIDE DEF g
    <3>. QED BY <3>1, <2>3
  <2>. HIDE DEF g
  <2>. QED BY <2>4
<1>. HIDE DEF P
<1>3. 0 \in S /\ \A m \in Nat : m \in S => m + 1 \in S
  BY <1>1, <1>2
<1>4. Nat \subseteq S
  <2>. HIDE DEF S
  <2>. QED BY <1>3, NatClosure
<1>. QED BY <1>4 DEF P, IsFold

(* r is the last of a run of applications of the operator to the data.      *)
Traced(which, a, data, r) ==
    \E G : /\ G[0] = a /\ G[Len(data)] = r
           /\ \A k \in Nat : k < Len(data) => G[k + 1] = OpOf(which, G[k], data[k + 1])

(* That function is such a run. *)
LEMMA FoldTrace ==
    ASSUME NEW which, NEW a, NEW T, NEW data \in Seq(T), NEW it,
           IsFold(which, it, Len(data), a, data)
    PROVE  Traced(which, a, data, it[1..Len(data)])
<1>. DEFINE R == 1..Len(data)  G == [k \in 0..Len(data) |-> it[1..k]]
<1>0. Len(data) \in Nat
  OBVIOUS
<1>1. it = [s \in SUBSET R |-> FoldStep(which, it, s, a, data)]
  BY DEF IsFold
<1>2. it[1..0] = a
  BY <1>1 DEF FoldStep
<1>3. ASSUME NEW k \in Nat, k < Len(data)
      PROVE  it[1..(k + 1)] = OpOf(which, it[1..k], data[k + 1])
  <2>1. 1..(k + 1) \in SUBSET R /\ k + 1 \in 1..(k + 1) /\ k + 1 \in R
    BY <1>3
  <2>2. Max(1..(k + 1)) = k + 1 /\ (1..(k + 1)) \ {k + 1} = 1..k
    BY <2>1, MaxIs
  <2>3. it[1..(k + 1)] = FoldStep(which, it, 1..(k + 1), a, data)
    BY <1>1, <2>1
  <2>4. 1..(k + 1) # {}
    BY <2>1
  <2>. QED BY <2>2, <2>3, <2>4 DEF FoldStep
<1>4. \A k \in Nat : k <= Len(data) => G[k] = it[1..k]
  OBVIOUS
<1>5. \A k \in Nat : k < Len(data) => k <= Len(data) /\ k + 1 \in Nat /\ k + 1 <= Len(data)
  BY <1>0
<1>. HIDE DEF G
<1>6. G[0] = a /\ G[Len(data)] = it[1..Len(data)]
  BY <1>0, <1>2, <1>4
<1>7. \A k \in Nat : k < Len(data) => G[k + 1] = OpOf(which, G[k], data[k + 1])
  BY <1>3, <1>4, <1>5
<1>. QED BY <1>6, <1>7 DEF Traced

(* And FoldLeft is its last value, for each of the three.                   *)
LEMMA FoldsTraced ==
    ASSUME NEW a, NEW T, NEW data \in Seq(T)
    PROVE  /\ Traced("one", a, data, FoldLeft(EncryptOne, a, data))
           /\ Traced("block", a, data, FoldLeft(DecryptOne, a, data))
           /\ Traced("batch", a, data, FoldLeft(DecryptBatch, a, data))
<1>. DEFINE R == 1..Len(data)
<1>0. DOMAIN data = R /\ Len(data) \in Nat
  OBVIOUS
<1>1. Traced("one", a, data, FoldLeft(EncryptOne, a, data))
  <2>. DEFINE P(f) == f = [s \in SUBSET R |->
                IF s = {} THEN a ELSE EncryptOne(f[s \ {Max(s)}], data[Max(s)])]
              it == CHOOSE f : P(f)
  <2>1. FoldLeft(EncryptOne, a, data) = it[R]
    <3>1. FoldLeft(EncryptOne, a, data)
            = (CHOOSE f : f = [s \in SUBSET (DOMAIN data) |->
                 IF s = {} THEN a ELSE EncryptOne(f[s \ {Max(s)}], data[Max(s)])])[DOMAIN data]
      BY DEF FoldLeft, MapThenFoldSet
    <3>. QED BY <3>1, <1>0
  <2>2. \A f : P(f) <=> IsFold("one", f, Len(data), a, data)
    BY DEF IsFold, FoldStep, OpOf
  <2>. HIDE DEF P
  <2>3. P(it)
    BY <1>0, <2>2, FoldExists
  <2>. HIDE DEF it
  <2>. QED BY <2>1, <2>2, <2>3, FoldTrace
<1>2. Traced("block", a, data, FoldLeft(DecryptOne, a, data))
  <2>. DEFINE P(f) == f = [s \in SUBSET R |->
                IF s = {} THEN a ELSE DecryptOne(f[s \ {Max(s)}], data[Max(s)])]
              it == CHOOSE f : P(f)
  <2>1. FoldLeft(DecryptOne, a, data) = it[R]
    <3>1. FoldLeft(DecryptOne, a, data)
            = (CHOOSE f : f = [s \in SUBSET (DOMAIN data) |->
                 IF s = {} THEN a ELSE DecryptOne(f[s \ {Max(s)}], data[Max(s)])])[DOMAIN data]
      BY DEF FoldLeft, MapThenFoldSet
    <3>. QED BY <3>1, <1>0
  <2>2. \A f : P(f) <=> IsFold("block", f, Len(data), a, data)
    BY DEF IsFold, FoldStep, OpOf
  <2>. HIDE DEF P
  <2>3. P(it)
    BY <1>0, <2>2, FoldExists
  <2>. HIDE DEF it
  <2>. QED BY <2>1, <2>2, <2>3, FoldTrace
<1>3. Traced("batch", a, data, FoldLeft(DecryptBatch, a, data))
  <2>. DEFINE P(f) == f = [s \in SUBSET R |->
                IF s = {} THEN a ELSE DecryptBatch(f[s \ {Max(s)}], data[Max(s)])]
              it == CHOOSE f : P(f)
  <2>1. FoldLeft(DecryptBatch, a, data) = it[R]
    <3>1. FoldLeft(DecryptBatch, a, data)
            = (CHOOSE f : f = [s \in SUBSET (DOMAIN data) |->
                 IF s = {} THEN a ELSE DecryptBatch(f[s \ {Max(s)}], data[Max(s)])])[DOMAIN data]
      BY DEF FoldLeft, MapThenFoldSet
    <3>. QED BY <3>1, <1>0
  <2>2. \A f : P(f) <=> IsFold("batch", f, Len(data), a, data)
    BY DEF IsFold, FoldStep, OpOf
  <2>. HIDE DEF P
  <2>3. P(it)
    BY <1>0, <2>2, FoldExists
  <2>. HIDE DEF it
  <2>. QED BY <2>1, <2>2, <2>3, FoldTrace
<1>. QED BY <1>1, <1>2, <1>3

-----------------------------------------------------------------------------
(* The records that are streams. *)
Streams == [prev : Blocks, buffer : Seq(Bytes), output : Seq(Bytes),
            held : Blocks \cup {None}]

(* An encryptor that was fed the blocks cs and has already handed over the  *)
(* bytes o: o and what waits in output are the chained blocks.              *)
EncState(o, s, cs) ==
    /\ s \in Streams /\ s.held = None /\ o \in Seq(Bytes) /\ cs \in Seq(Blocks)
    /\ \E ct : Chained(ct, cs) /\ s.prev = Prev(ct) /\ o \o s.output = Joined(ct)

(* A decryptor that was fed the blocks cs: the last is held back, decrypted,*)
(* and o and output are what the others decrypt to.                         *)
DecState(o, s, cs) ==
    /\ s \in Streams /\ o \in Seq(Bytes) /\ cs \in Seq(Blocks)
    /\ \/ cs = <<>> /\ s.prev = IV /\ s.held = None /\ s.output = <<>> /\ o = <<>>
       \/ \E c \in Seq(Blocks) : \E x \in Blocks :
            /\ cs = Append(c, x) /\ s.prev = x
            /\ s.held = XorBlock(D[x], Prev(c))
            /\ o \o s.output = Joined(Plain(c))

(* None is neither a block nor a sequence of bytes. *)
LEMMA NoneApart == None \notin Blocks /\ None \notin Seq(Bytes) /\ None \notin Nat
<1>1. None \notin Seq(Bytes) /\ None \notin Nat
  BY CbcAssumption
<1>2. None \notin Blocks
  BY <1>1, BlockIsSeq
<1>. QED BY <1>1, <1>2

(* A new stream was fed nothing. *)
LEMMA NewStates ==
    /\ EncState(<<>>, NewStream, <<>>) /\ DecState(<<>>, NewStream, <<>>)
    /\ NewStream.buffer = <<>> /\ NewStream.output = <<>>
<1>1. <<>> \in Seq(Bytes) /\ <<>> \in Seq(Blocks) /\ <<>> \o <<>> = <<>>
  OBVIOUS
<1>2. IV \in Blocks
  BY CbcAssumption
<1>3. NewStream \in Streams
  BY <1>1, <1>2 DEF NewStream, Streams
<1>4. /\ NewStream.prev = IV /\ NewStream.buffer = <<>>
      /\ NewStream.output = <<>> /\ NewStream.held = None
  BY DEF NewStream
<1>5. Chained(<<>>, <<>>) /\ Prev(<<>>) = IV /\ Joined(<<>>) = <<>>
  <2>1. Len(<<>>) = 0
    OBVIOUS
  <2>2. Chained(<<>>, <<>>)
    BY <1>1, <2>1 DEF Chained
  <2>. QED BY <1>2, <2>2, JoinedSmall DEF Prev
<1>6. EncState(<<>>, NewStream, <<>>)
  BY <1>1, <1>3, <1>4, <1>5 DEF EncState
<1>7. DecState(<<>>, NewStream, <<>>)
  BY <1>1, <1>3, <1>4 DEF DecState
<1>. QED BY <1>4, <1>6, <1>7

(* One block more, encrypted. *)
LEMMA EncStep ==
    ASSUME NEW o, NEW s, NEW cs, EncState(o, s, cs), NEW b \in Blocks
    PROVE  EncState(o, EncryptOne(s, b), Append(cs, b)) /\ EncryptOne(s, b).buffer = s.buffer
<1>1. s \in Streams /\ s.held = None /\ o \in Seq(Bytes) /\ cs \in Seq(Blocks)
  BY DEF EncState
<1>2. PICK ct : Chained(ct, cs) /\ s.prev = Prev(ct) /\ o \o s.output = Joined(ct)
  BY DEF EncState
<1>3. PICK x \in Blocks : x = E[XorBlock(b, s.prev)] /\ Chained(Append(ct, x), Append(cs, b))
  BY <1>2, ChainedAppend
<1>4. PICK t : t = EncryptOne(s, b)
  OBVIOUS
<1>5. /\ s.prev \in Blocks /\ s.buffer \in Seq(Bytes) /\ s.output \in Seq(Bytes)
      /\ x \in Seq(Bytes) /\ ct \in Seq(Blocks)
  BY <1>1, <1>2, BlockIsSeq DEF Streams, Chained
<1>6. PICK z \in Seq(Bytes) : z = s.output \o x
  <2>1. s.output \o x \in Seq(Bytes)
    BY <1>5
  <2>. QED BY <2>1
<1>7. t = [s EXCEPT !.prev = x, !.output = z]
  BY <1>3, <1>4, <1>6 DEF EncryptOne
<1>8. t \in Streams /\ t.prev = x /\ t.output = z /\ t.held = None /\ t.buffer = s.buffer
  BY <1>1, <1>7 DEF Streams
<1>9. PICK ext : ext = Append(ct, x) /\ IsAppend(ext, ct, x)
  BY DEF IsAppend
<1>10. Prev(ext) = x
  <2>1. PICK n \in Nat : n = Len(ct)
    BY <1>5
  <2>. QED BY <1>5, <1>9, <2>1, BehindAppend
<1>11. o \o z = Joined(ext)
  <2>1. (o \o s.output) \o x = o \o (s.output \o x)
    <3>1. PICK u \in Seq(Bytes) : u = s.output
      BY <1>5
    <3>2. (o \o u) \o x = o \o (u \o x)
      BY <1>1, <1>5, ConcatAssoc, SMTT(30)
    <3>. QED BY <3>1, <3>2
  <2>2. Joined(ext) = Joined(ct) \o x
    BY <1>5, <1>9, JoinedAppend
  <2>. QED BY <1>2, <1>6, <2>1, <2>2
<1>12. PICK all \in Seq(Blocks) : all = Append(cs, b)
  <2>1. Append(cs, b) \in Seq(Blocks)
    BY <1>1
  <2>. QED BY <2>1
<1>13. EncState(o, t, all)
  BY <1>1, <1>3, <1>8, <1>9, <1>10, <1>11, <1>12 DEF EncState
<1>. QED BY <1>4, <1>8, <1>12, <1>13

(* A decryptor's last block, and all it decrypted so far. *)
LEMMA DecFacts ==
    ASSUME NEW o, NEW s, NEW cs, DecState(o, s, cs)
    PROVE  /\ s.prev = Prev(cs) /\ s.prev \in Blocks /\ s.buffer \in Seq(Bytes)
           /\ (s.held = None <=> cs = <<>>)
           /\ Flushed(s) \in Seq(Bytes) /\ o \o Flushed(s) = Joined(Plain(cs))
<1>1. s \in Streams /\ o \in Seq(Bytes) /\ cs \in Seq(Blocks)
  BY DEF DecState
<1>2. s.prev \in Blocks /\ s.buffer \in Seq(Bytes) /\ s.output \in Seq(Bytes)
  BY <1>1 DEF Streams
<1>3. CASE cs = <<>> /\ s.prev = IV /\ s.held = None /\ s.output = <<>> /\ o = <<>>
  <2>1. Prev(cs) = IV
    BY <1>3 DEF Prev
  <2>2. Plain(cs) = <<>>
    BY <1>3 DEF Plain
  <2>3. Joined(<<>>) = <<>>
    BY <1>2, JoinedSmall
  <2>4. Flushed(s) = <<>> /\ <<>> \o <<>> = <<>> /\ <<>> \in Seq(Bytes)
    BY <1>3 DEF Flushed
  <2>. QED BY <1>2, <1>3, <2>1, <2>2, <2>3, <2>4
<1>4. CASE \E c \in Seq(Blocks) : \E x \in Blocks :
             /\ cs = Append(c, x) /\ s.prev = x
             /\ s.held = XorBlock(D[x], Prev(c))
             /\ o \o s.output = Joined(Plain(c))
  <2>1. PICK c \in Seq(Blocks) : \E x \in Blocks :
             /\ cs = Append(c, x) /\ s.prev = x
             /\ s.held = XorBlock(D[x], Prev(c))
             /\ o \o s.output = Joined(Plain(c))
    BY <1>4
  <2>2. PICK x \in Blocks : /\ cs = Append(c, x) /\ s.prev = x
                            /\ s.held = XorBlock(D[x], Prev(c))
                            /\ o \o s.output = Joined(Plain(c))
    BY <2>1
  <2>3. PICK h \in Blocks : h = s.held /\ Plain(cs) = Append(Plain(c), h)
    BY <2>2, PlainAppend
  <2>4. Prev(cs) = x
    <3>1. PICK n \in Nat : n = Len(c)
      OBVIOUS
    <3>2. IsAppend(cs, c, x)
      BY <2>2 DEF IsAppend
    <3>. QED BY <3>1, <3>2, BehindAppend
  <2>5. Flushed(s) = s.output \o h /\ h \in Seq(Bytes) /\ s.held # None
    BY <2>3, NoneApart, BlockIsSeq DEF Flushed
  <2>6. (o \o s.output) \o h = o \o (s.output \o h)
    <3>1. PICK u \in Seq(Bytes) : u = s.output
      BY <1>2
    <3>2. (o \o u) \o h = o \o (u \o h)
      BY <1>1, <2>5, ConcatAssoc
    <3>. QED BY <3>1, <3>2
  <2>7. Joined(Append(Plain(c), h)) = Joined(Plain(c)) \o h
    <3>1. Plain(c) \in Seq(Blocks)
      BY PlainFacts
    <3>. QED BY <3>1, JoinedAppend
  <2>8. o \o Flushed(s) = Joined(Plain(cs))
    BY <2>2, <2>3, <2>5, <2>6, <2>7
  <2>9. cs # <<>>
    BY <2>2
  <2>10. Flushed(s) \in Seq(Bytes)
    BY <1>2, <2>5
  <2>. QED BY <1>2, <2>2, <2>4, <2>5, <2>8, <2>9, <2>10
<1>. QED BY <1>3, <1>4 DEF DecState

(* One block more, decrypted. *)
LEMMA DecStep ==
    ASSUME NEW o, NEW s, NEW cs, DecState(o, s, cs), NEW x \in Blocks
    PROVE  DecState(o, DecryptOne(s, x), Append(cs, x)) /\ DecryptOne(s, x).buffer = s.buffer
<1>1. s \in Streams /\ o \in Seq(Bytes) /\ cs \in Seq(Blocks)
  BY DEF DecState
<1>2. PICK z \in Seq(Bytes) : z = Flushed(s) /\ o \o z = Joined(Plain(cs))
  BY DecFacts
<1>3. PICK h \in Blocks : h = XorBlock(D[x], s.prev) /\ h = XorBlock(D[x], Prev(cs))
  BY <1>1, DecFacts, PlainAppend
<1>4. PICK t : t = DecryptOne(s, x)
  OBVIOUS
<1>5. t = [s EXCEPT !.prev = x, !.output = z, !.held = h]
  BY <1>2, <1>3, <1>4 DEF DecryptOne
<1>6. t \in Streams /\ t.prev = x /\ t.output = z /\ t.held = h /\ t.buffer = s.buffer
  BY <1>1, <1>5 DEF Streams
<1>7. PICK all \in Seq(Blocks) : all = Append(cs, x)
  <2>1. Append(cs, x) \in Seq(Blocks)
    BY <1>1
  <2>. QED BY <2>1
<1>8. DecState(o, t, all)
  BY <1>1, <1>2, <1>3, <1>6, <1>7 DEF DecState
<1>. QED BY <1>4, <1>6, <1>7, <1>8

(* The blocks bs decrypt to this, chained to the block v. *)
After(v, bs) == [k \in 1..Len(bs) |-> XorBlock(D[bs[k]], IF k = 1 THEN v ELSE bs[k - 1])]

(* More blocks at once. *)
LEMMA PlainConcat ==
    ASSUME NEW cs \in Seq(Blocks), NEW bs \in Seq(Blocks)
    PROVE  Plain(cs \o bs) = Plain(cs) \o After(Prev(cs), bs)
<1>1. PICK n \in Nat, m \in Nat : n = Len(cs) /\ m = Len(bs)
  OBVIOUS
<1>2. PICK w : w = cs \o bs /\ IsJoin(w, cs, bs)
  BY DEF IsJoin
<1>3. /\ w \in Seq(Blocks) /\ Len(w) = n + m
      /\ (\A i \in 1..n : w[i] = cs[i]) /\ (\A i \in 1..m : w[n + i] = bs[i])
  BY <1>1, <1>2, ConcatParts
<1>4. PICK v \in Blocks : v = Prev(cs) /\ v = Behind(cs, n + 1)
  BY <1>1, BehindFacts
<1>5. IsRun(Plain(cs), n) /\ \A k \in 1..n : Plain(cs)[k] = XorBlock(D[cs[k]], Behind(cs, k))
  BY <1>1, PlainFacts
<1>6. PICK l \in Nat : l = n + m
  OBVIOUS
<1>7. IsRun(Plain(w), l) /\ \A k \in 1..l : Plain(w)[k] = XorBlock(D[w[k]], Behind(w, k))
  BY <1>3, <1>6, PlainFacts
<1>8. /\ IsRun(After(v, bs), m)
      /\ \A k \in 1..m : After(v, bs)[k] = XorBlock(D[bs[k]], IF k = 1 THEN v ELSE bs[k - 1])
  BY <1>1 DEF After, IsRun
<1>9. ASSUME NEW k \in 1..n PROVE Plain(w)[k] = Plain(cs)[k]
  <2>1. k \in 1..l /\ (k # 1 => k - 1 \in 1..n)
    BY <1>6
  <2>2. Behind(w, k) = Behind(cs, k)
    BY <1>3, <2>1 DEF Behind
  <2>. QED BY <1>3, <1>5, <1>7, <2>1, <2>2
<1>10. ASSUME NEW k \in 1..m PROVE Plain(w)[n + k] = After(v, bs)[k]
  <2>1. PICK j \in 1..l : j = n + k
    BY <1>6
  <2>2. Behind(w, j) = IF k = 1 THEN v ELSE bs[k - 1]
    <3>1. CASE k = 1
      <4>1. j = n + 1 /\ j - 1 = n /\ (n # 0 => n \in 1..n)
        BY <2>1, <3>1
      <4>2. Behind(w, j) = Behind(cs, n + 1)
        <5>1. j = 1 <=> n + 1 = 1
          BY <4>1
        <5>2. n # 0 => w[n] = cs[n]
          BY <4>1, <1>3
        <5>3. (n + 1) - 1 = n
          OBVIOUS
        <5>. QED BY <4>1, <5>1, <5>2, <5>3 DEF Behind
      <4>. QED BY <1>4, <3>1, <4>2
    <3>2. CASE k # 1
      <4>1. PICK i \in 1..m : i = k - 1 /\ j - 1 = n + i /\ j # 1
        BY <2>1, <3>2
      <4>2. w[n + i] = bs[i]
        BY <1>3
      <4>. QED BY <3>2, <4>1, <4>2 DEF Behind
    <3>. QED BY <3>1, <3>2
  <2>3. w[j] = bs[k]
    BY <1>3, <2>1
  <2>4. Plain(w)[j] = XorBlock(D[w[j]], Behind(w, j))
    BY <1>7
  <2>. QED BY <1>8, <2>1, <2>2, <2>3, <2>4
<1>11. PICK x, y : x = Plain(cs) /\ y = After(v, bs)
  OBVIOUS
<1>12. Plain(w) = x \o y
  BY <1>5, <1>6, <1>7, <1>8, <1>9, <1>10, <1>11, JoinIs
<1>. QED BY <1>2, <1>4, <1>11, <1>12

(* A batch, decrypted in parallel, is its blocks one by one. *)
LEMMA BatchStep ==
    ASSUME NEW o, NEW s, NEW cs, DecState(o, s, cs),
           Batch # 0, NEW bs \in Seq(Blocks), Len(bs) = Batch
    PROVE  DecState(o, DecryptBatch(s, bs), cs \o bs) /\ DecryptBatch(s, bs).buffer = s.buffer
<1>0. s \in Streams
  BY DEF DecState
<1>1. o \in Seq(Bytes) /\ cs \in Seq(Blocks)
  BY DEF DecState
<1>2. PICK n \in Nat \ {0} : n = Batch
  BY CbcAssumption
<1>3. PICK v \in Blocks : v = s.prev /\ v = Prev(cs)
  BY DecFacts
<1>4. PICK z \in Seq(Bytes) : z = Flushed(s) /\ o \o z = Joined(Plain(cs))
  BY DecFacts
<1>5. PICK q \in Seq(Blocks), y \in Blocks : y = bs[n] /\ bs = Append(q, y)
  <2>1. Len(bs) = n
    BY <1>2
  <2>2. /\ SubSeq(bs, 1, n - 1) \in Seq(Blocks) /\ bs[n] \in Blocks
        /\ bs = Append(SubSeq(bs, 1, n - 1), bs[n])
    BY <2>1, SplitLast
  <2>. QED BY <2>2
<1>6. PICK p : p = After(v, bs)
  OBVIOUS
<1>7. p \in Seq(Blocks) /\ Len(p) = n
  <2>1. IsRun(p, n) /\ \A k \in 1..n : p[k] = XorBlock(D[bs[k]], IF k = 1 THEN v ELSE bs[k - 1])
    BY <1>2, <1>6 DEF After, IsRun
  <2>2. ASSUME NEW k \in 1..n PROVE p[k] \in Blocks
    <3>1. bs[k] \in Blocks /\ (k # 1 => bs[k - 1] \in Blocks)
      BY <1>2
    <3>2. PICK b \in Blocks, u \in Blocks : b = bs[k] /\ u = IF k = 1 THEN v ELSE bs[k - 1]
      BY <3>1
    <3>. QED BY <2>1, <3>2, XorBlockFacts, CipherFacts
  <2>. QED BY <2>1, <2>2, FcnIsSeq
<1>8. PICK f \in Seq(Blocks), h \in Blocks : f = SubSeq(p, 1, n - 1) /\ h = p[n] /\ p = Append(f, h)
  <2>1. /\ SubSeq(p, 1, n - 1) \in Seq(Blocks) /\ p[n] \in Blocks
        /\ p = Append(SubSeq(p, 1, n - 1), p[n])
    BY <1>7, SplitLast
  <2>. QED BY <2>1
<1>9. PICK c \in Seq(Blocks) : c = cs \o q
  <2>1. cs \o q \in Seq(Blocks)
    BY <1>1
  <2>. QED BY <2>1
<1>10. PICK all \in Seq(Blocks) : all = cs \o bs /\ all = Append(c, y)
  <2>1. Append(c, y) \in Seq(Blocks)
    OBVIOUS
  <2>2. Append(cs \o q, y) = cs \o Append(q, y)
    <3>1. PICK cq, qy, r : IsJoin(cq, cs, q) /\ IsAppend(qy, q, y) /\ IsAppend(r, cq, y)
      BY DEF IsJoin, IsAppend
    <3>2. IsJoin(r, cs, qy)
      BY <1>1, <3>1, JoinAppends
    <3>. QED BY <3>1, <3>2 DEF IsJoin, IsAppend
  <2>. QED BY <1>5, <1>9, <2>1, <2>2
<1>11. PICK g \in Seq(Blocks) : g = Plain(cs) \o f
  <2>1. Plain(cs) \in Seq(Blocks)
    BY <1>1, PlainFacts
  <2>2. Plain(cs) \o f \in Seq(Blocks)
    BY <2>1
  <2>. QED BY <2>2
<1>12. Append(Plain(c), XorBlock(D[y], Prev(c))) = Append(g, h)
  <2>1. Plain(all) = Append(Plain(c), XorBlock(D[y], Prev(c)))
    BY <1>10, PlainAppend
  <2>2. Plain(all) = Plain(cs) \o p
    <3>1. Plain(cs \o bs) = Plain(cs) \o After(Prev(cs), bs)
      BY <1>1, PlainConcat
    <3>2. all = cs \o bs /\ p = After(Prev(cs), bs)
      BY <1>3, <1>6, <1>10
    <3>. QED BY <3>1, <3>2, Zenon
  <2>3. PICK d \in Seq(Blocks) : d = Plain(cs)
    BY <1>1, PlainFacts
  <2>4. Append(d \o f, h) = d \o Append(f, h)
    <3>1. PICK df, fh, r : IsJoin(df, d, f) /\ IsAppend(fh, f, h) /\ IsAppend(r, df, h)
      BY DEF IsJoin, IsAppend
    <3>2. IsJoin(r, d, fh)
      BY <3>1, JoinAppends
    <3>. QED BY <3>1, <3>2 DEF IsJoin, IsAppend
  <2>. QED BY <1>8, <1>11, <2>1, <2>2, <2>3, <2>4
<1>13. h = XorBlock(D[y], Prev(c)) /\ Plain(c) = g
  <2>1. PICK d \in Seq(Blocks), i \in Blocks : d = Plain(c) /\ i = XorBlock(D[y], Prev(c))
    BY PlainFacts, PlainAppend
  <2>2. PICK w : w = Append(d, i) /\ w = Append(g, h)
    BY <1>12, <2>1
  <2>3. Last(w) = i /\ Front(w) = d
    BY <2>2, LastFront
  <2>4. Last(w) = h /\ Front(w) = g
    BY <2>2, LastFront
  <2>. QED BY <2>1, <2>3, <2>4
<1>14. PICK u \in Seq(Bytes) : u = z \o FlattenSeq(f) /\ o \o u = Joined(Plain(c))
  <2>1. PICK j \in Seq(Bytes) : j = Joined(f) /\ j = FlattenSeq(f)
    BY JoinedFacts, FlatIsJoined
  <2>2. (o \o z) \o j = o \o (z \o j)
    <3>1. PICK oz, zj, r : IsJoin(oz, o, z) /\ IsJoin(zj, z, j) /\ IsJoin(r, oz, j)
      BY DEF IsJoin
    <3>2. IsJoin(r, o, zj)
      BY <1>1, <3>1, JoinAssoc
    <3>. QED BY <3>1, <3>2 DEF IsJoin
  <2>3. Joined(Plain(cs) \o f) = Joined(Plain(cs)) \o Joined(f)
    <3>1. Plain(cs) \in Seq(Blocks)
      BY <1>1, PlainFacts
    <3>. QED BY <3>1, JoinedConcat
  <2>4. z \o j \in Seq(Bytes)
    OBVIOUS
  <2>. QED BY <1>4, <1>11, <1>13, <2>1, <2>2, <2>3, <2>4
<1>15. PICK t : t = DecryptBatch(s, bs)
  OBVIOUS
<1>16. t = [s EXCEPT !.prev = y, !.held = h, !.output = u]
  <2>1. p = [k \in 1..Batch |-> XorBlock(D[bs[k]], IF k = 1 THEN s.prev ELSE bs[k - 1])]
    BY <1>2, <1>3, <1>6 DEF After
  <2>. QED BY <1>2, <1>4, <1>5, <1>8, <1>14, <1>15, <2>1 DEF DecryptBatch
<1>17. t \in Streams /\ t.prev = y /\ t.output = u /\ t.held = h /\ t.buffer = s.buffer
  BY <1>0, <1>16 DEF Streams
<1>18. DecState(o, t, all)
  BY <1>1, <1>10, <1>13, <1>14, <1>17 DEF DecState
<1>. QED BY <1>10, <1>15, <1>17, <1>18

-----------------------------------------------------------------------------
(* Both kinds of stream at once. *)
State(op, o, s, cs) == IF op = "enc" THEN EncState(o, s, cs) ELSE DecState(o, s, cs)

(* What either direction's state is made of. *)
LEMMA StateFacts ==
    ASSUME NEW op, NEW o, NEW s, NEW cs, State(op, o, s, cs)
    PROVE  s \in Streams /\ o \in Seq(Bytes) /\ cs \in Seq(Blocks)
  BY DEF State, EncState, DecState

(* The same with another buffer. *)
LEMMA StateBuffer ==
    ASSUME NEW op, NEW o, NEW s, NEW cs, State(op, o, s, cs), NEW p \in Seq(Bytes),
           NEW t, t = [s EXCEPT !.buffer = p]
    PROVE  State(op, o, t, cs) /\ t.buffer = p
<1>1. s \in Streams
  BY StateFacts
<1>2. /\ t \in Streams /\ t.buffer = p /\ t.prev = s.prev
      /\ t.output = s.output /\ t.held = s.held
  BY <1>1 DEF Streams
<1>. QED BY <1>2 DEF State, EncState, DecState

(* The operator of a run takes a stream on by what each item of the data is *)
(* worth, and leaves its buffer.                                            *)
Advances(op, which, worth, data) ==
    \A o, s, cs : \A k \in Nat : k < Len(data) /\ State(op, o, s, cs) =>
        LET t == OpOf(which, s, data[k + 1])
        IN  State(op, o, t, cs \o worth[k + 1]) /\ t.buffer = s.buffer

(* behind[k] is cs and what the first k items are worth behind it, the last *)
(* of them all.                                                             *)
Reaches(cs, behind, worth, n, all) ==
    /\ behind[0] = cs /\ behind[n] = all
    /\ \A k \in Nat : k < n => behind[k + 1] = behind[k] \o worth[k + 1]

(* Then a run of it takes the stream on by all of them.                     *)
LEMMA RunState ==
    ASSUME NEW op, NEW which, NEW o, NEW s, NEW cs, State(op, o, s, cs),
           NEW T, NEW data \in Seq(T), NEW r, Traced(which, s, data, r),
           NEW worth, Advances(op, which, worth, data),
           NEW behind, NEW all, Reaches(cs, behind, worth, Len(data), all)
    PROVE  State(op, o, r, all) /\ r.buffer = s.buffer
<1>0. /\ behind[0] = cs /\ behind[Len(data)] = all
      /\ \A k \in Nat : k < Len(data) => behind[k + 1] = behind[k] \o worth[k + 1]
  BY DEF Reaches
<1>1. PICK G : /\ G[0] = s /\ G[Len(data)] = r
               /\ \A k \in Nat : k < Len(data) => G[k + 1] = OpOf(which, G[k], data[k + 1])
  BY DEF Traced
<1>. DEFINE P(k) == State(op, o, G[k], behind[k]) /\ G[k].buffer = s.buffer
            S == {k \in Nat : k <= Len(data) => P(k)}
<1>2. Len(data) \in Nat
  OBVIOUS
<1>3. P(0)
  BY <1>0, <1>1
<1>4. ASSUME NEW k \in Nat, k < Len(data), P(k) PROVE P(k + 1)
  <2>1. PICK c, g : c = behind[k] /\ g = G[k]
    OBVIOUS
  <2>2. State(op, o, g, c) /\ g.buffer = s.buffer
    BY <1>4, <2>1
  <2>3. PICK t : t = OpOf(which, g, data[k + 1])
    OBVIOUS
  <2>4. State(op, o, t, c \o worth[k + 1]) /\ t.buffer = g.buffer
    BY <1>4, <2>2, <2>3 DEF Advances
  <2>5. G[k + 1] = t
    BY <1>1, <1>4, <2>1, <2>3
  <2>6. c \o worth[k + 1] = behind[k + 1]
    BY <1>0, <1>4, <2>1
  <2>. QED BY <2>2, <2>4, <2>5, <2>6
<1>. HIDE DEF P
<1>5. 0 \in S
  BY <1>3
<1>6. ASSUME NEW k \in Nat, k \in S PROVE k + 1 \in S
  <2>1. k + 1 <= Len(data) => k <= Len(data) /\ k < Len(data)
    BY <1>2
  <2>. QED BY <1>4, <1>6, <2>1
<1>7. Nat \subseteq S
  <2>. HIDE DEF S
  <2>. QED BY <1>5, <1>6, NatClosure
<1>8. P(Len(data))
  BY <1>2, <1>7
<1>. QED BY <1>0, <1>1, <1>8 DEF P

(* More of a sequence: the part up to a cut, and the rest of it.            *)
LEMMA NextBlock ==
    ASSUME NEW cs \in Seq(Blocks), NEW bs \in Seq(Blocks), NEW k \in Nat, k < Len(bs)
    PROVE  Append(cs \o Upto(bs, k), bs[k + 1]) = cs \o Upto(bs, k + 1)
<1>1. PICK j \in 1..Len(bs) : j = k + 1 /\ k = j - 1
  OBVIOUS
<1>2. PICK x \in Blocks : x = bs[j]
  OBVIOUS
<1>3. PICK u \in Seq(Blocks) : u = Upto(bs, k)
  <2>1. k \in 0..Len(bs)
    BY <1>1
  <2>. QED BY <2>1, CutFacts
<1>4. Upto(bs, j) = Append(u, x)
  BY <1>1, <1>2, <1>3, UptoNext
<1>5. PICK cu, ux, r : IsJoin(cu, cs, u) /\ IsAppend(ux, u, x) /\ IsAppend(r, cu, x)
  BY DEF IsJoin, IsAppend
<1>6. IsJoin(r, cs, ux)
  BY <1>5, JoinAppends
<1>7. Append(cs \o u, x) = cs \o Append(u, x)
  BY <1>5, <1>6 DEF IsJoin, IsAppend
<1>. QED BY <1>1, <1>2, <1>3, <1>4, <1>7

(* The blocks one by one. *)
LEMMA BlocksRun ==
    ASSUME NEW op, NEW o, NEW s, NEW cs, State(op, o, s, cs), NEW bs \in Seq(Blocks),
           NEW which, which = (IF op = "enc" THEN "one" ELSE "block"),
           NEW r, Traced(which, s, bs, r)
    PROVE  State(op, o, r, cs \o bs) /\ r.buffer = s.buffer
<1>1. cs \in Seq(Blocks)
  BY StateFacts
<1>. DEFINE worth == [k \in 1..Len(bs) |-> <<bs[k]>>]
            behind == [k \in 0..Len(bs) |-> cs \o Upto(bs, k)]
<1>2. \A k \in Nat : k < Len(bs) => k \in 0..Len(bs) /\ k + 1 \in 0..Len(bs) /\ k + 1 \in 1..Len(bs)
  OBVIOUS
<1>3. \A k \in Nat : k < Len(bs) => /\ worth[k + 1] = <<bs[k + 1]>>
                                    /\ behind[k] = cs \o Upto(bs, k)
                                    /\ behind[k + 1] = cs \o Upto(bs, k + 1)
  BY <1>2
<1>4. behind[0] = cs /\ behind[Len(bs)] = cs \o bs
  <2>1. 0 \in 0..Len(bs) /\ Len(bs) \in 0..Len(bs)
    OBVIOUS
  <2>2. Upto(bs, 0) = <<>> /\ Upto(bs, Len(bs)) = bs
    BY UptoEnds
  <2>3. cs \o <<>> = cs
    BY <1>1
  <2>. QED BY <2>1, <2>2, <2>3
<1>. HIDE DEF worth, behind
<1>6. ASSUME NEW k \in Nat, k < Len(bs)
      PROVE  behind[k + 1] = behind[k] \o worth[k + 1]
  <2>1. PICK c \in Seq(Blocks) : c = cs \o Upto(bs, k)
    <3>1. k \in 0..Len(bs)
      BY <1>2, <1>6
    <3>2. PICK u \in Seq(Blocks) : u = Upto(bs, k)
      BY <3>1, CutFacts
    <3>3. cs \o u \in Seq(Blocks)
      BY <1>1
    <3>. QED BY <3>2, <3>3
  <2>2. PICK x \in Blocks : x = bs[k + 1]
    BY <1>2, <1>6
  <2>3. Append(c, x) = c \o <<x>>
    BY AppendByConcat
  <2>4. Append(cs \o Upto(bs, k), bs[k + 1]) = cs \o Upto(bs, k + 1)
    BY <1>1, <1>6, NextBlock
  <2>. QED BY <1>3, <1>6, <2>1, <2>2, <2>3, <2>4
<1>7. Advances(op, which, worth, bs)
  <2>. SUFFICES ASSUME NEW p, NEW t, NEW c, NEW k \in Nat, k < Len(bs), State(op, p, t, c)
                PROVE  LET u == OpOf(which, t, bs[k + 1])
                       IN  State(op, p, u, c \o worth[k + 1]) /\ u.buffer = t.buffer
    BY DEF Advances
  <2>1. PICK x \in Blocks : x = bs[k + 1]
    BY <1>2
  <2>2. c \in Seq(Blocks)
    BY StateFacts
  <2>3. c \o worth[k + 1] = Append(c, x)
    <3>1. PICK d \in Seq(Blocks) : d = c
      BY <2>2
    <3>2. Append(d, x) = d \o <<x>>
      BY AppendByConcat
    <3>. QED BY <1>3, <2>1, <3>1, <3>2
  <2>4. CASE op = "enc"
    <3>1. State(op, p, EncryptOne(t, x), Append(c, x)) /\ EncryptOne(t, x).buffer = t.buffer
      BY <2>4, EncStep DEF State
    <3>. QED BY <2>1, <2>3, <2>4, <3>1 DEF OpOf
  <2>5. CASE op # "enc"
    <3>1. State(op, p, DecryptOne(t, x), Append(c, x)) /\ DecryptOne(t, x).buffer = t.buffer
      BY <2>5, DecStep DEF State
    <3>. QED BY <2>1, <2>3, <2>5, <3>1 DEF OpOf
  <2>. QED BY <2>4, <2>5
<1>8. PICK all : all = cs \o bs /\ Reaches(cs, behind, worth, Len(bs), all)
  BY <1>4, <1>6 DEF Reaches
<1>9. State(op, o, r, all) /\ r.buffer = s.buffer
  BY <1>7, <1>8, RunState
<1>. QED BY <1>8, <1>9

(* What a stream does with whole blocks of its input. *)
Wholes(op, s, bs) == IF op = "enc" THEN FoldLeft(EncryptOne, s, bs) ELSE DecryptWhole(s, bs)

(* Batches while they last and then single blocks: all of the blocks.       *)
LEMMA DecryptWholeState ==
    ASSUME NEW o, NEW s, NEW cs, State("dec", o, s, cs), NEW bs \in Seq(Blocks)
    PROVE  State("dec", o, DecryptWhole(s, bs), cs \o bs) /\ DecryptWhole(s, bs).buffer = s.buffer
<1>. DEFINE n == IF Batch = 0 THEN 0 ELSE Len(bs) \div Batch
            batches == [k \in 1..n |-> SubSeq(bs, (k - 1) * Batch + 1, k * Batch)]
            s1 == FoldLeft(DecryptBatch, s, batches)
            rest == SubSeq(bs, n * Batch + 1, Len(bs))
<1>0. DecryptWhole(s, bs) = FoldLeft(DecryptOne, s1, rest)
  BY DEF DecryptWhole
<1>1. PICK len \in Nat : len = Len(bs)
  OBVIOUS
<1>2. PICK w \in Nat : w = Batch
  BY CbcAssumption
<1>3. PICK m \in Nat : m = n /\ (w = 0 => m = 0) /\ Mul(m, w) <= len
  <2>1. CASE w = 0
    <3>1. Mul(0, w) = 0
      BY MulFacts
    <3>. QED BY <1>2, <2>1, <3>1
  <2>2. CASE w # 0
    <3>1. PICK q \in Nat : q = Quo(len, w) /\ Mul(q, w) \in Nat
      BY <2>2, DivMod
    <3>2. PICK r \in 0..(w - 1) : r = Rem(len, w)
      BY <2>2, DivMod
    <3>3. len = Mul(q, w) + r
      BY <2>2, <3>1, <3>2, DivMod
    <3>4. q = n
      BY <1>1, <1>2, <2>2, <3>1 DEF Quo
    <3>. QED BY <2>2, <3>1, <3>3, <3>4
  <2>. QED BY <2>1, <2>2
<1>4. PICK a \in Nat : a = Mul(m, w) /\ a <= len
  BY <1>3, MulFacts
<1>5. cs \in Seq(Blocks)
  BY StateFacts
<1>6. ASSUME NEW k \in Nat, k < m
      PROVE  /\ w # 0 /\ Mul(k, w) \in 0..len
             /\ batches[k + 1] \in Seq(Blocks) /\ Len(batches[k + 1]) = w
             /\ Upto(bs, Mul(k + 1, w)) = Upto(bs, Mul(k, w)) \o batches[k + 1]
             /\ Upto(bs, Mul(k, w)) \in Seq(Blocks)
  <2>1. w # 0
    BY <1>3, <1>6
  <2>2. PICK d \in Nat : d = Mul(k, w)
    BY MulFacts
  <2>3. Mul(k + 1, w) = d + w /\ d + w <= len
    <3>1. d + w <= a
      BY <1>4, <1>6, <2>2, MulFacts
    <3>. QED BY <1>4, <2>2, <3>1, MulFacts, SMTT(30)
  <2>4. PICK x, y : x = d + 1 /\ y = d + w /\ IsStretch(bs, d, w, x, y)
    BY <1>1, <2>3 DEF IsStretch
  <2>5. /\ Upto(bs, d) \in Seq(Blocks) /\ Upto(bs, y) = Upto(bs, d) \o SubSeq(bs, x, y)
        /\ SubSeq(bs, x, y) \in Seq(Blocks) /\ Len(SubSeq(bs, x, y)) = w
    <3>1. /\ Upto(bs, d) \in Seq(Blocks) /\ IsJoin(Upto(bs, y), Upto(bs, d), SubSeq(bs, x, y))
          /\ SubSeq(bs, x, y) \in Seq(Blocks) /\ Len(SubSeq(bs, x, y)) = w
      <4>1. IsStretch(bs, d, w, x, y)
        BY <2>4
      <4>. QED BY <4>1, UptoFurther
    <3>. QED BY <3>1 DEF IsJoin
  <2>6. batches[k + 1] = SubSeq(bs, x, y)
    <3>1. PICK j \in 1..m : j = k + 1 /\ j - 1 = k
      BY <1>6
    <3>2. (j - 1) * Batch + 1 = x /\ j * Batch = y
      BY <1>2, <2>2, <2>3, <2>4, <3>1 DEF Mul
    <3>3. batches[j] = SubSeq(bs, (j - 1) * Batch + 1, j * Batch)
      BY <1>3
    <3>. HIDE DEF batches
    <3>. QED BY <3>1, <3>2, <3>3
  <2>7. d \in 0..len
    BY <2>3
  <2>. QED BY <2>1, <2>2, <2>3, <2>4, <2>5, <2>6, <2>7
<1>7. batches \in Seq(Seq(Blocks)) /\ Len(batches) = m
  <2>1. ASSUME NEW k \in 1..m PROVE batches[k] \in Seq(Blocks)
    <3>1. PICK i \in Nat : i = k - 1 /\ k = i + 1 /\ i < m
      OBVIOUS
    <3>. HIDE DEF batches
    <3>. QED BY <3>1, <1>6
  <2>2. IsRun(batches, m)
    BY <1>3 DEF IsRun
  <2>. HIDE DEF batches
  <2>. QED BY <2>1, <2>2, FcnIsSeq
<1>8. n * Batch = a
  BY <1>2, <1>3, <1>4 DEF Mul
<1>. HIDE DEF n, batches
<1>9. State("dec", o, s1, cs \o Upto(bs, a)) /\ s1.buffer = s.buffer
  <2>. DEFINE behind == [k \in 0..m |-> cs \o Upto(bs, Mul(k, w))]
  <2>1. \A k \in Nat : k <= m => behind[k] = cs \o Upto(bs, Mul(k, w))
    OBVIOUS
  <2>. HIDE DEF behind
  <2>2. behind[0] = cs
    <3>1. Mul(0, w) = 0 /\ 0 <= m
      BY MulFacts
    <3>2. Upto(bs, 0) = <<>>
      BY UptoEnds
    <3>3. cs \o <<>> = cs
      BY <1>5
    <3>. QED BY <2>1, <3>1, <3>2, <3>3
  <2>3. behind[m] = cs \o Upto(bs, a)
    <3>1. m <= m
      OBVIOUS
    <3>. QED BY <1>4, <2>1, <3>1
  <2>4. ASSUME NEW k \in Nat, k < m PROVE behind[k + 1] = behind[k] \o batches[k + 1]
    <3>1. PICK u \in Seq(Blocks) : u = Upto(bs, Mul(k, w))
      BY <1>6, <2>4
    <3>2. PICK b \in Seq(Blocks) : b = batches[k + 1]
      BY <1>6, <2>4
    <3>3. PICK cu, ub, r : IsJoin(cu, cs, u) /\ IsJoin(ub, u, b) /\ IsJoin(r, cu, b)
      BY DEF IsJoin
    <3>4. IsJoin(r, cs, ub)
      BY <1>5, <3>3, JoinAssoc
    <3>5. (cs \o u) \o b = cs \o (u \o b)
      BY <3>3, <3>4 DEF IsJoin
    <3>6. Upto(bs, Mul(k + 1, w)) = u \o b
      BY <1>6, <2>4, <3>1, <3>2
    <3>7. k <= m /\ k + 1 \in Nat /\ k + 1 <= m
      BY <2>4
    <3>. QED BY <2>1, <3>1, <3>2, <3>5, <3>6, <3>7
  <2>5. PICK all : all = cs \o Upto(bs, a) /\ Reaches(cs, behind, batches, Len(batches), all)
    BY <1>7, <2>2, <2>3, <2>4 DEF Reaches
  <2>6. Advances("dec", "batch", batches, batches)
    <3>. SUFFICES ASSUME NEW p, NEW t, NEW c, NEW k \in Nat, k < m, State("dec", p, t, c)
                  PROVE  LET u == OpOf("batch", t, batches[k + 1])
                         IN  State("dec", p, u, c \o batches[k + 1]) /\ u.buffer = t.buffer
      BY <1>7 DEF Advances
    <3>1. PICK b \in Seq(Blocks) : b = batches[k + 1] /\ Len(b) = Batch /\ Batch # 0
      BY <1>2, <1>6
    <3>2. DecState(p, t, c)
      BY DEF State
    <3>3. DecState(p, DecryptBatch(t, b), c \o b) /\ DecryptBatch(t, b).buffer = t.buffer
      BY <3>1, <3>2, BatchStep
    <3>. QED BY <3>1, <3>3 DEF State, OpOf
  <2>7. Traced("batch", s, batches, s1)
    BY <1>7, FoldsTraced
  <2>. HIDE DEF s1
  <2>8. State("dec", o, s1, all) /\ s1.buffer = s.buffer
    BY <1>7, <2>5, <2>6, <2>7, RunState
  <2>. QED BY <2>5, <2>8
<1>. HIDE DEF s1
<1>10. PICK u \in Seq(Blocks), v \in Seq(Blocks) : u = Upto(bs, a) /\ v = rest /\ bs = u \o v
  <2>1. a \in 0..Len(bs)
    BY <1>1, <1>4
  <2>2. Upto(bs, a) \in Seq(Blocks) /\ Beyond(bs, a) \in Seq(Blocks) /\ bs = Upto(bs, a) \o Beyond(bs, a)
    BY <2>1, CutFacts
  <2>3. Beyond(bs, a) = rest
    BY <1>8 DEF Beyond
  <2>. QED BY <2>2, <2>3
<1>. HIDE DEF rest
<1>11. PICK c : c = cs \o u /\ State("dec", o, s1, c)
  BY <1>9, <1>10
<1>12. PICK t : t = FoldLeft(DecryptOne, s1, v) /\ Traced("block", s1, v, t)
  BY FoldsTraced
<1>13. State("dec", o, t, c \o v) /\ t.buffer = s1.buffer
  <2>1. PICK which : which = "block" /\ which = (IF "dec" = "enc" THEN "one" ELSE "block")
    OBVIOUS
  <2>. QED BY <1>11, <1>12, <2>1, BlocksRun
<1>14. c \o v = cs \o bs
  <2>1. PICK cu, uv, r : IsJoin(cu, cs, u) /\ IsJoin(uv, u, v) /\ IsJoin(r, cu, v)
    BY DEF IsJoin
  <2>2. IsJoin(r, cs, uv)
    BY <1>5, <2>1, JoinAssoc
  <2>. QED BY <1>10, <1>11, <2>1, <2>2 DEF IsJoin
<1>. QED BY <1>0, <1>9, <1>10, <1>12, <1>13, <1>14

(* So for both kinds of stream. *)
LEMMA WholesState ==
    ASSUME NEW op \in {"enc", "dec"}, NEW o, NEW s, NEW cs, State(op, o, s, cs), NEW bs \in Seq(Blocks)
    PROVE  State(op, o, Wholes(op, s, bs), cs \o bs) /\ Wholes(op, s, bs).buffer = s.buffer
<1>1. CASE op = "enc"
  <2>1. PICK r : r = FoldLeft(EncryptOne, s, bs) /\ Traced("one", s, bs, r)
    BY FoldsTraced
  <2>2. PICK which : which = "one" /\ which = (IF op = "enc" THEN "one" ELSE "block")
    BY <1>1
  <2>3. State(op, o, r, cs \o bs) /\ r.buffer = s.buffer
    BY <2>1, <2>2, BlocksRun
  <2>. QED BY <1>1, <2>1, <2>3 DEF Wholes
<1>2. CASE op = "dec"
  BY <1>2, DecryptWholeState DEF Wholes
<1>. QED BY <1>1, <1>2

-----------------------------------------------------------------------------
(* Both updates at once. *)
One(op, s, b) == IF op = "enc" THEN EncryptOne(s, b) ELSE DecryptOne(s, b)

Filled(op, s, full) ==
    IF Len(full) = BS THEN [One(op, s, full) EXCEPT !.buffer = <<>>]
                      ELSE [s EXCEPT !.buffer = full]

UpdateOf(op, s, data) ==
    LET full == s.buffer \o SubSeq(data, 1, Take(s, data))
        rest == SubSeq(data, Take(s, data) + 1, Len(data))
        s2   == Wholes(op, Filled(op, s, full), Whole(rest))
    IN  IF Partial(rest) = <<>> THEN s2 ELSE [s2 EXCEPT !.buffer = Partial(rest)]

(* The two directions' updates are one: they differ in what they do to a block. *)
LEMMA UpdatesAre ==
    ASSUME NEW s, NEW data
    PROVE  /\ EncryptorUpdate(s, data) = UpdateOf("enc", s, data)
           /\ DecryptorUpdate(s, data) = UpdateOf("dec", s, data)
<1>1. EncryptorUpdate(s, data) = UpdateOf("enc", s, data)
  BY DEF EncryptorUpdate, UpdateOf, Filled, One, Wholes
<1>2. DecryptorUpdate(s, data) = UpdateOf("dec", s, data)
  BY DEF DecryptorUpdate, UpdateOf, Filled, One, Wholes
<1>. QED BY <1>1, <1>2

(* The stream s was fed the bytes m: their whole blocks ss went through it, *)
(* and the rest p is in its buffer.                                         *)
Holds(op, o, s, m, ss, p) == Splits(m, ss, p) /\ State(op, o, s, ss) /\ s.buffer = p

Fed(op, o, s, m) == \E ss, p : Holds(op, o, s, m, ss, p)

(* What an update takes to fill the buffer. *)
LEMMA TakeFacts ==
    ASSUME NEW s, NEW data \in Seq(Bytes), s.buffer \in Seq(Bytes), Len(s.buffer) \in 0..(BS - 1),
           NEW k, k = Take(s, data)
    PROVE  /\ k \in 0..Len(data) /\ Len(s.buffer) + k <= BS
           /\ (s.buffer = <<>> => k = 0)
           /\ (s.buffer # <<>> /\ k < Len(data) => Len(s.buffer) + k = BS)
<1>1. PICK a \in 0..(BS - 1) : a = Len(s.buffer)
  OBVIOUS
<1>2. PICK l \in Nat : l = Len(data)
  OBVIOUS
<1>3. s.buffer = <<>> => a = 0
  BY <1>1
<1>4. k = IF s.buffer = <<>> THEN 0 ELSE IF BS - a < l THEN BS - a ELSE l
  BY <1>1, <1>2 DEF Take
<1>5. CASE s.buffer = <<>>
  <2>1. k = 0 /\ a = 0
    BY <1>3, <1>4, <1>5
  <2>. QED BY <1>1, <1>2, <1>5, <2>1, BlockSize
<1>6. CASE s.buffer # <<>>
  <2>1. k = IF BS - a < l THEN BS - a ELSE l
    BY <1>4, <1>6
  <2>2. k \in 0..l /\ a + k <= BS /\ (k < l => a + k = BS)
    BY <2>1, BlockSize
  <2>. QED BY <1>1, <1>2, <1>6, <2>2
<1>. QED BY <1>5, <1>6

(* Filling the buffer: a block more, or more bytes that are not yet one.    *)
LEMMA FillState ==
    ASSUME NEW op \in {"enc", "dec"}, NEW o, NEW s, NEW m, NEW ss, NEW p,
           Holds(op, o, s, m, ss, p), NEW d \in Seq(Bytes), NEW full, IsJoin(full, p, d), Len(full) <= BS,
           NEW m1, IsJoin(m1, m, d)
    PROVE  \E ss1, p1 : /\ Holds(op, o, Filled(op, s, full), m1, ss1, p1)
                        /\ p1 = IF Len(full) = BS THEN <<>> ELSE full
<1>0. Splits(m, ss, p) /\ State(op, o, s, ss) /\ s.buffer = p
  BY DEF Holds
<1>1. ss \in Seq(Blocks) /\ p \in Seq(Bytes) /\ m = Joined(ss) \o p
  BY <1>0 DEF Splits
<1>2. PICK u \in Seq(Bytes) : u = Joined(ss) /\ IsJoin(m, u, p)
  BY <1>1, JoinedFacts DEF IsJoin
<1>3. full \in Seq(Bytes) /\ IsJoin(m1, u, full)
  <2>1. IsJoin(m1, u, full)
    BY <1>1, <1>2, JoinAssoc
  <2>2. full \in Seq(Bytes)
    BY <1>1 DEF IsJoin
  <2>. QED BY <2>1, <2>2
<1>4. PICK l \in Nat : l = Len(full) /\ l <= BS
  BY <1>3
<1>5. CASE l = BS
  <2>1. full \in Blocks
    BY <1>3, <1>4, <1>5, SeqIsBlock
  <2>2. PICK t : t = One(op, s, full) /\ State(op, o, t, Append(ss, full))
    <3>1. CASE op = "enc"
      <4>1. EncState(o, s, ss)
        BY <1>0, <3>1 DEF State
      <4>2. EncState(o, EncryptOne(s, full), Append(ss, full))
        BY <2>1, <4>1, EncStep
      <4>. QED BY <3>1, <4>2 DEF One, State
    <3>2. CASE op # "enc"
      <4>1. DecState(o, s, ss)
        BY <1>0, <3>2 DEF State
      <4>2. DecState(o, DecryptOne(s, full), Append(ss, full))
        BY <2>1, <4>1, DecStep
      <4>. QED BY <3>2, <4>2 DEF One, State
    <3>. QED BY <3>1, <3>2
  <2>3. PICK all \in Seq(Blocks) : all = Append(ss, full)
    <3>1. Append(ss, full) \in Seq(Blocks)
      BY <1>1, <2>1
    <3>. QED BY <3>1
  <2>4. PICK w : w = [t EXCEPT !.buffer = <<>>] /\ w = Filled(op, s, full)
    BY <1>4, <1>5, <2>2 DEF Filled
  <2>5. State(op, o, w, all) /\ w.buffer = <<>>
    <3>1. PICK e \in Seq(Bytes) : e = <<>>
      <4>1. <<>> \in Seq(Bytes)
        OBVIOUS
      <4>. QED BY <4>1
    <3>2. State(op, o, t, all)
      BY <2>2, <2>3
    <3>3. w = [t EXCEPT !.buffer = e]
      BY <2>4, <3>1
    <3>4. State(op, o, w, all) /\ w.buffer = e
      BY <3>2, <3>3, StateBuffer
    <3>. QED BY <3>1, <3>4
  <2>6. Splits(m1, all, <<>>)
    <3>1. m1 = Joined(all)
      BY <1>1, <1>2, <1>3, <2>1, <2>3, JoinedAppend DEF IsJoin
    <3>. QED BY <3>1, JoinedSplits
  <2>. QED BY <1>4, <1>5, <2>4, <2>5, <2>6 DEF Holds
<1>6. CASE l # BS
  <2>1. Splits(m1, ss, full)
    <3>1. Len(full) \in 0..(BS - 1)
      BY <1>4, <1>6, BlockSize
    <3>. QED BY <1>1, <1>2, <1>3, <3>1 DEF Splits, IsJoin
  <2>2. PICK w : w = [s EXCEPT !.buffer = full] /\ w = Filled(op, s, full)
    BY <1>4, <1>6 DEF Filled
  <2>3. State(op, o, w, ss) /\ w.buffer = full
    BY <1>0, <1>3, <2>2, StateBuffer
  <2>. QED BY <1>4, <1>6, <2>1, <2>2, <2>3 DEF Holds
<1>. QED BY <1>5, <1>6

(* More whole blocks and bytes, when none were over.                        *)
LEMMA SplitsConcat ==
    ASSUME NEW m, NEW ss, Splits(m, ss, <<>>), NEW r, NEW bs, NEW q, Splits(r, bs, q)
    PROVE  Splits(m \o r, ss \o bs, q)
<1>1. /\ ss \in Seq(Blocks) /\ bs \in Seq(Blocks) /\ q \in Seq(Bytes)
      /\ Len(q) \in 0..(BS - 1) /\ m = Joined(ss) \o <<>> /\ r = Joined(bs) \o q
  BY DEF Splits
<1>2. PICK u \in Seq(Bytes) : u = Joined(ss)
  BY <1>1, JoinedFacts
<1>3. PICK v \in Seq(Bytes) : v = Joined(bs)
  BY <1>1, JoinedFacts
<1>4. m = u
  BY <1>1, <1>2
<1>5. (u \o v) \o q = u \o (v \o q)
  <2>1. PICK uv, vq, w : IsJoin(uv, u, v) /\ IsJoin(vq, v, q) /\ IsJoin(w, uv, q)
    BY DEF IsJoin
  <2>2. IsJoin(w, u, vq)
    BY <1>1, <2>1, JoinAssoc
  <2>. QED BY <2>1, <2>2 DEF IsJoin
<1>6. PICK all \in Seq(Blocks) : all = ss \o bs /\ Joined(all) = u \o v
  <2>1. ss \o bs \in Seq(Blocks)
    BY <1>1
  <2>. QED BY <1>1, <1>2, <1>3, <2>1, JoinedConcat
<1>7. m \o r = Joined(all) \o q
  BY <1>1, <1>3, <1>4, <1>5, <1>6
<1>8. Splits(m \o r, all, q)
  BY <1>1, <1>7 DEF Splits
<1>. QED BY <1>6, <1>8

(* An update feeds its data. *)
LEMMA UpdateState ==
    ASSUME NEW op \in {"enc", "dec"}, NEW o, NEW s, NEW m, Fed(op, o, s, m),
           NEW data \in Seq(Bytes)
    PROVE  Fed(op, o, UpdateOf(op, s, data), m \o data)
<1>0. PICK ss, p : Holds(op, o, s, m, ss, p)
  BY DEF Fed
<1>1. Splits(m, ss, p) /\ State(op, o, s, ss) /\ s.buffer = p
  BY <1>0 DEF Holds
<1>2. p \in Seq(Bytes) /\ Len(p) \in 0..(BS - 1)
  BY <1>1 DEF Splits
<1>3. m \in Seq(Bytes)
  BY <1>1, SplitUnique
<1>4. PICK k : /\ k = Take(s, data) /\ k \in 0..Len(data) /\ Len(p) + k <= BS
               /\ (p = <<>> => k = 0)
               /\ (p # <<>> /\ k < Len(data) => Len(p) + k = BS)
  <2>1. s.buffer \in Seq(Bytes) /\ Len(s.buffer) \in 0..(BS - 1)
    BY <1>1, <1>2
  <2>. QED BY <1>1, <2>1, TakeFacts
<1>5. PICK d \in Seq(Bytes), rest \in Seq(Bytes) :
        /\ d = SubSeq(data, 1, k) /\ rest = SubSeq(data, k + 1, Len(data))
        /\ Len(d) = k /\ Len(rest) = Len(data) - k /\ IsJoin(data, d, rest)
  <2>1. k \in 0..Len(data)
    BY <1>4
  <2>2. /\ Upto(data, k) \in Seq(Bytes) /\ Len(Upto(data, k)) = k
        /\ Beyond(data, k) \in Seq(Bytes) /\ Len(Beyond(data, k)) = Len(data) - k
        /\ data = Upto(data, k) \o Beyond(data, k)
    BY <2>1, CutFacts
  <2>. QED BY <2>2 DEF Upto, Beyond, IsJoin
<1>6. PICK full \in Seq(Bytes) : IsJoin(full, p, d) /\ Len(full) = Len(p) + k
  <2>1. p \o d \in Seq(Bytes) /\ Len(p \o d) = Len(p) + k
    BY <1>2, <1>5
  <2>. QED BY <2>1 DEF IsJoin
<1>7. PICK m1 : IsJoin(m1, m, d)
  BY DEF IsJoin
<1>8. PICK s1 : s1 = Filled(op, s, full)
  OBVIOUS
<1>9. PICK ss1, p1 : /\ Splits(m1, ss1, p1) /\ State(op, o, s1, ss1) /\ s1.buffer = p1
                     /\ p1 = IF Len(full) = BS THEN <<>> ELSE full
  <2>2. Len(full) <= BS
    BY <1>4, <1>6
  <2>3. IsJoin(full, p, d)
    BY <1>6
  <2>4. \E ss1, p1 : /\ Holds(op, o, Filled(op, s, full), m1, ss1, p1)
                     /\ p1 = IF Len(full) = BS THEN <<>> ELSE full
    BY <1>0, <1>7, <2>2, <2>3, FillState
  <2>. QED BY <1>8, <2>4 DEF Holds
<1>10. p1 = <<>> \/ rest = <<>>
  <2>. SUFFICES ASSUME p1 # <<>> PROVE rest = <<>>
    OBVIOUS
  <2>1. Len(full) # BS /\ full # <<>>
    BY <1>9
  <2>2. p # <<>>
    <3>. SUFFICES ASSUME p = <<>> PROVE FALSE
      OBVIOUS
    <3>1. k = 0 /\ Len(p) = 0
      BY <1>4
    <3>2. Len(full) = 0
      BY <1>6, <3>1
    <3>. QED BY <2>1, <3>2
  <2>3. k = Len(data)
    <3>1. Len(data) \in Nat
      OBVIOUS
    <3>. QED BY <1>4, <1>6, <2>1, <2>2, <3>1
  <2>4. Len(rest) = 0
    BY <1>5, <2>3
  <2>. QED BY <2>4
<1>11. PICK bs, q : bs = Whole(rest) /\ q = Partial(rest) /\ Splits(rest, bs, q)
  BY SplitExists
<1>12. bs \in Seq(Blocks) /\ q \in Seq(Bytes)
  BY <1>11 DEF Splits
<1>13. PICK s2 : s2 = Wholes(op, s1, bs) /\ State(op, o, s2, ss1 \o bs) /\ s2.buffer = p1
  BY <1>9, <1>12, WholesState
<1>14. PICK t : t = UpdateOf(op, s, data) /\ t = IF q = <<>> THEN s2 ELSE [s2 EXCEPT !.buffer = q]
  BY <1>1, <1>4, <1>5, <1>6, <1>8, <1>11, <1>13 DEF UpdateOf, IsJoin
<1>15. m \o data = m1 \o rest
  <2>1. PICK r : IsJoin(r, m1, rest)
    BY DEF IsJoin
  <2>2. IsJoin(r, m, data)
    <3>1. IsJoin(data, d, rest)
      BY <1>5
    <3>. QED BY <1>3, <1>7, <2>1, <3>1, JoinAssoc
  <2>. QED BY <2>1, <2>2 DEF IsJoin
<1>16. CASE p1 = <<>>
  <2>1. Splits(m \o data, ss1 \o bs, q)
    BY <1>9, <1>11, <1>15, <1>16, SplitsConcat
  <2>2. CASE q = <<>>
    BY <1>13, <1>14, <1>16, <2>1, <2>2 DEF Fed, Holds
  <2>3. CASE q # <<>>
    <3>1. t = [s2 EXCEPT !.buffer = q]
      BY <1>14, <2>3
    <3>2. State(op, o, t, ss1 \o bs) /\ t.buffer = q
      BY <1>12, <1>13, <3>1, StateBuffer
    <3>. QED BY <1>14, <2>1, <3>2 DEF Fed, Holds
  <2>. QED BY <2>2, <2>3
<1>17. CASE rest = <<>>
  <2>1. Splits(rest, <<>>, <<>>)
    <3>1. <<>> \in Seq(Blocks) /\ IV \in Blocks
      BY CbcAssumption
    <3>2. Joined(<<>>) = <<>>
      BY <3>1, JoinedSmall
    <3>. QED BY <1>17, <3>1, <3>2, JoinedSplits
  <2>2. bs = <<>> /\ q = <<>>
    BY <1>11, <2>1, SplitUnique
  <2>3. ss1 \in Seq(Blocks) /\ m1 \in Seq(Bytes)
    BY <1>9, SplitUnique DEF Splits
  <2>4. ss1 \o bs = ss1 /\ m \o data = m1
    BY <1>15, <1>17, <2>2, <2>3
  <2>. QED BY <1>9, <1>13, <1>14, <2>2, <2>4 DEF Fed, Holds
<1>. QED BY <1>10, <1>16, <1>17

(* A new stream was fed nothing, and has nothing to hand over. *)
LEMMA NewFed ==
    ASSUME NEW op
    PROVE  Fed(op, <<>>, NewStream, <<>>) /\ NewStream.output = <<>>
<1>1. Splits(<<>>, <<>>, <<>>)
  <2>1. <<>> \in Seq(Blocks) /\ IV \in Blocks
    BY CbcAssumption
  <2>2. Joined(<<>>) = <<>>
    BY <2>1, JoinedSmall
  <2>. QED BY <2>1, <2>2, JoinedSplits
<1>2. State(op, <<>>, NewStream, <<>>)
  BY NewStates DEF State
<1>. QED BY <1>1, <1>2, NewStates DEF Fed, Holds

(* Handing over what waits in output changes nothing else. *)
LEMMA DrainState ==
    ASSUME NEW op, NEW o, NEW s, NEW m, Fed(op, o, s, m),
           NEW t, t = [s EXCEPT !.output = <<>>]
    PROVE  /\ Fed(op, o \o s.output, t, m) /\ t.output = <<>>
           /\ s.output \in Seq(Bytes) /\ o \in Seq(Bytes)
<1>1. PICK ss, p : Splits(m, ss, p) /\ State(op, o, s, ss) /\ s.buffer = p
  BY DEF Fed, Holds
<1>2. s \in Streams /\ o \in Seq(Bytes)
  BY <1>1, StateFacts
<1>3. PICK z \in Seq(Bytes) : z = s.output
  BY <1>2 DEF Streams
<1>4. PICK oz \in Seq(Bytes) : oz = o \o z
  <2>1. o \o z \in Seq(Bytes)
    BY <1>2
  <2>. QED BY <2>1
<1>5. PICK e \in Seq(Bytes) : e = <<>>
  <2>1. <<>> \in Seq(Bytes)
    OBVIOUS
  <2>. QED BY <2>1
<1>6. /\ t \in Streams /\ t.output = e /\ t.prev = s.prev /\ t.held = s.held
      /\ t.buffer = s.buffer
  <2>1. t = [s EXCEPT !.output = e]
    BY <1>5
  <2>. QED BY <1>2, <2>1 DEF Streams
<1>7. oz \o t.output = oz
  <2>1. oz \o <<>> = oz
    OBVIOUS
  <2>. QED BY <1>5, <1>6, <2>1
<1>8. State(op, oz, t, ss)
  <2>1. CASE op = "enc"
    <3>1. EncState(o, s, ss)
      BY <1>1, <2>1 DEF State
    <3>2. PICK ct : Chained(ct, ss) /\ s.prev = Prev(ct) /\ oz = Joined(ct)
      BY <1>3, <1>4, <3>1 DEF EncState
    <3>3. s.held = None /\ ss \in Seq(Blocks)
      BY <3>1 DEF EncState
    <3>. QED BY <1>6, <1>7, <2>1, <3>2, <3>3 DEF State, EncState
  <2>2. CASE op # "enc"
    <3>1. DecState(o, s, ss)
      BY <1>1, <2>2 DEF State
    <3>2. ss \in Seq(Blocks)
      BY <3>1 DEF DecState
    <3>3. CASE ss = <<>> /\ s.prev = IV /\ s.held = None /\ s.output = <<>> /\ o = <<>>
      <4>1. oz = <<>>
        <5>1. <<>> \o <<>> = <<>>
          OBVIOUS
        <5>. QED BY <1>3, <1>4, <3>3, <5>1
      <4>2. DecState(oz, t, ss)
        BY <1>5, <1>6, <3>2, <3>3, <4>1 DEF DecState
      <4>. QED BY <2>2, <4>2 DEF State
    <3>4. CASE \E c \in Seq(Blocks) : \E x \in Blocks :
                 /\ ss = Append(c, x) /\ s.prev = x /\ s.held = XorBlock(D[x], Prev(c))
                 /\ o \o s.output = Joined(Plain(c))
      <4>1. \E c \in Seq(Blocks) : \E x \in Blocks :
                 /\ ss = Append(c, x) /\ t.prev = x /\ t.held = XorBlock(D[x], Prev(c))
                 /\ oz \o t.output = Joined(Plain(c))
        BY <1>3, <1>4, <1>6, <1>7, <3>4
      <4>2. DecState(oz, t, ss)
        BY <1>6, <3>2, <4>1 DEF DecState
      <4>. QED BY <2>2, <4>2 DEF State
    <3>. QED BY <3>1, <3>3, <3>4 DEF DecState
  <2>. QED BY <2>1, <2>2
<1>9. Fed(op, oz, t, m)
  BY <1>1, <1>6, <1>8 DEF Fed, Holds
<1>. QED BY <1>2, <1>3, <1>4, <1>5, <1>6, <1>9

(* An encryptor's last block pads what is in its buffer: o and it are the   *)
(* encryption of all it was fed.                                            *)
LEMMA EncryptorFinal ==
    ASSUME NEW o, NEW s, NEW m, Fed("enc", o, s, m)
    PROVE  /\ EncryptorFinalize(s) \in Seq(Bytes) /\ o \in Seq(Bytes)
           /\ o \o EncryptorFinalize(s) = Encrypt(m)
           /\ Len(EncryptorFinalize(s)) = Len(s.output) + BS
<1>1. PICK ss, p : Splits(m, ss, p) /\ State("enc", o, s, ss) /\ s.buffer = p
  BY DEF Fed, Holds
<1>2. EncState(o, s, ss)
  BY <1>1 DEF State
<1>3. PICK ct : Chained(ct, ss) /\ s.prev = Prev(ct) /\ o \o s.output = Joined(ct)
  BY <1>2 DEF EncState
<1>4. PICK b : b = PadBlock(p)
  OBVIOUS
<1>5. PICK x \in Blocks : x = E[XorBlock(b, s.prev)] /\ Encrypt(m) = Joined(ct) \o x
  <2>1. PICK y : y = E[XorBlock(PadBlock(p), Prev(ct))]
    OBVIOUS
  <2>2. y \in Blocks /\ Encrypt(m) = Joined(ct) \o y
    <3>1. Splits(m, ss, p)
      BY <1>1
    <3>2. Chained(ct, ss)
      BY <1>3
    <3>3. /\ y \in Blocks /\ ct \in Seq(Blocks)
          /\ Encrypt(m) = Joined(ct) \o y /\ Encrypt(m) = Joined(Append(ct, y))
      BY <2>1, <3>1, <3>2, EncryptSplit
    <3>. QED BY <3>3
  <2>. QED BY <1>3, <1>4, <2>1, <2>2
<1>6. PICK z \in Seq(Bytes) : z = s.output
  <2>1. s \in Streams
    BY <1>2 DEF EncState
  <2>. QED BY <2>1 DEF Streams
<1>7. o \in Seq(Bytes) /\ x \in Seq(Bytes) /\ Len(x) = BS
  BY <1>2, BlockIsSeq DEF EncState
<1>8. EncryptorFinalize(s) = z \o x
  <2>1. EncryptorFinalize(s) = EncryptOne(s, b).output
    BY <1>1, <1>4 DEF EncryptorFinalize, PadBlock
  <2>2. s \in Streams
    BY <1>2 DEF EncState
  <2>3. EncryptOne(s, b) = [s EXCEPT !.prev = x, !.output = z \o x]
    BY <1>5, <1>6 DEF EncryptOne
  <2>. QED BY <2>1, <2>2, <2>3 DEF Streams
<1>9. z \o x \in Seq(Bytes) /\ Len(z \o x) = Len(z) + BS
  BY <1>7
<1>10. o \o (z \o x) = (o \o z) \o x
  <2>1. PICK oz, zx, r : IsJoin(oz, o, z) /\ IsJoin(zx, z, x) /\ IsJoin(r, oz, x)
    BY DEF IsJoin
  <2>2. IsJoin(r, o, zx)
    BY <1>7, <2>1, JoinAssoc
  <2>. QED BY <2>1, <2>2 DEF IsJoin
<1>. QED BY <1>3, <1>5, <1>6, <1>7, <1>8, <1>9, <1>10

(* A decryptor refuses what single-shot decryption refuses, and else gives  *)
(* the rest of it.                                                          *)
LEMMA DecryptorFinal ==
    ASSUME NEW o, NEW s, NEW m, Fed("dec", o, s, m)
    PROVE  /\ DecryptorFinalize(s) = None <=> Decrypt(m) = None
           /\ DecryptorFinalize(s) # None =>
                /\ DecryptorFinalize(s) \in Seq(Bytes) /\ o \in Seq(Bytes)
                /\ o \o DecryptorFinalize(s) = Decrypt(m)
                /\ Len(DecryptorFinalize(s)) < Len(s.output) + BS
<1>1. PICK ss, p : Splits(m, ss, p) /\ State("dec", o, s, ss) /\ s.buffer = p
  BY DEF Fed, Holds
<1>2. DecState(o, s, ss)
  BY <1>1 DEF State
<1>3. s.held = None <=> ss = <<>>
  BY <1>2, DecFacts
<1>4. CASE p # <<>> \/ ss = <<>>
  <2>1. Decrypt(m) = None
    BY <1>1, <1>4, DecryptRefuses
  <2>2. DecryptorFinalize(s) = None
    BY <1>1, <1>3, <1>4 DEF DecryptorFinalize
  <2>. QED BY <2>1, <2>2
<1>5. CASE p = <<>> /\ ss # <<>>
  <2>1. PICK c \in Seq(Blocks) : \E x \in Blocks :
          /\ ss = Append(c, x) /\ s.held = XorBlock(D[x], Prev(c))
          /\ o \o s.output = Joined(Plain(c))
    BY <1>2, <1>5 DEF DecState
  <2>2. PICK x \in Blocks : /\ ss = Append(c, x) /\ s.held = XorBlock(D[x], Prev(c))
                            /\ o \o s.output = Joined(Plain(c))
    BY <2>1
  <2>3. PICK h \in Blocks : h = s.held /\ h = XorBlock(D[x], Prev(c))
    BY <2>2, PlainAppend
  <2>4. m = Joined(Append(c, x))
    <3>1. Joined(ss) \in Seq(Bytes) /\ m = Joined(ss) \o p
      BY <1>1, JoinedFacts DEF Splits
    <3>2. Joined(ss) \o <<>> = Joined(ss)
      BY <3>1
    <3>. QED BY <1>5, <2>2, <3>1, <3>2
  <2>5. Decrypt(m) = IF Strip(h) = None THEN None
                     ELSE Joined(Plain(c)) \o SubSeq(h, 1, Strip(h))
    BY <2>3, <2>4, DecryptIs DEF DecryptsTo
  <2>6. DecryptorFinalize(s) = IF Strip(h) = None THEN None
                               ELSE s.output \o SubSeq(h, 1, Strip(h))
    BY <1>1, <1>3, <1>5, <2>3 DEF DecryptorFinalize
  <2>7. CASE Strip(h) = None
    BY <2>5, <2>6, <2>7
  <2>8. CASE Strip(h) # None
    <3>1. PICK k \in 0..(BS - 1) : k = Strip(h)
      BY <2>8, StripIs
    <3>2. PICK q \in Seq(Bytes) : q = SubSeq(h, 1, Strip(h)) /\ Len(q) = k
      BY <2>8, <3>1, StripIs
    <3>3. PICK z \in Seq(Bytes) : z = s.output
      <4>1. s \in Streams
        BY <1>2 DEF DecState
      <4>. QED BY <4>1 DEF Streams
    <3>4. o \in Seq(Bytes)
      BY <1>2 DEF DecState
    <3>5. z \o q \in Seq(Bytes) /\ Len(z \o q) = Len(z) + k /\ Len(z) \in Nat
      BY <3>2
    <3>6. o \o (z \o q) = (o \o z) \o q /\ (o \o z) \o q \in Seq(Bytes)
      <4>1. PICK oz, zq, r : IsJoin(oz, o, z) /\ IsJoin(zq, z, q) /\ IsJoin(r, oz, q)
        BY DEF IsJoin
      <4>2. IsJoin(r, o, zq)
        BY <3>4, <4>1, JoinAssoc
      <4>3. (o \o z) \o q \in Seq(Bytes)
        BY <3>4
      <4>. QED BY <4>1, <4>2, <4>3 DEF IsJoin
    <3>7. DecryptorFinalize(s) = z \o q
      BY <2>6, <2>8, <3>2, <3>3
    <3>8. Decrypt(m) = (o \o z) \o q
      BY <2>2, <2>5, <2>8, <3>2, <3>3
    <3>9. Decrypt(m) # None /\ DecryptorFinalize(s) # None
      BY <3>5, <3>6, <3>7, <3>8, NoneApart
    <3>10. Len(DecryptorFinalize(s)) < Len(s.output) + BS
      BY <3>1, <3>3, <3>5, <3>7, BlockSize
    <3>. QED BY <3>3, <3>4, <3>5, <3>6, <3>7, <3>8, <3>9, <3>10
  <2>. QED BY <2>7, <2>8
<1>. QED BY <1>4, <1>5

(* How many whole blocks a stream fed n blocks has let out. *)
Emitted(op, n) == IF op = "enc" THEN n ELSE IF n = 0 THEN 0 ELSE n - 1

(* What a stream gave out so far, and holds to give, is so many whole blocks. *)
LEMMA EmittedIs ==
    ASSUME NEW op, NEW o, NEW s, NEW m, Fed(op, o, s, m)
    PROVE  \E n \in Nat : \E r \in 0..(BS - 1) :
             /\ Len(m) = Mul(n, BS) + r
             /\ Len(o) + Len(s.output) = Mul(Emitted(op, n), BS)
<1>1. PICK ss, p : Splits(m, ss, p) /\ State(op, o, s, ss)
  BY DEF Fed, Holds
<1>2. PICK n \in Nat : n = Len(ss)
  BY <1>1 DEF Splits
<1>3. PICK r \in 0..(BS - 1) : r = Len(p)
  BY <1>1 DEF Splits
<1>4. Len(m) = Mul(n, BS) + r
  BY <1>1, <1>2, <1>3, SplitUnique
<1>5. o \in Seq(Bytes) /\ s.output \in Seq(Bytes)
  <2>1. s \in Streams /\ o \in Seq(Bytes)
    BY <1>1, StateFacts
  <2>. QED BY <2>1 DEF Streams
<1>6. Len(o \o s.output) = Len(o) + Len(s.output)
  BY <1>5
<1>7. Len(o \o s.output) = Mul(Emitted(op, n), BS)
  <2>1. CASE op = "enc"
    <3>1. PICK ct : Chained(ct, ss) /\ o \o s.output = Joined(ct)
      BY <1>1, <2>1 DEF State, EncState
    <3>2. ct \in Seq(Blocks) /\ Len(ct) = n
      BY <1>2, <3>1 DEF Chained
    <3>. QED BY <2>1, <3>1, <3>2, JoinedFacts DEF Emitted
  <2>2. CASE op # "enc"
    <3>1. DecState(o, s, ss)
      BY <1>1, <2>2 DEF State
    <3>2. CASE ss = <<>> /\ s.output = <<>> /\ o = <<>>
      <4>1. <<>> \o <<>> = <<>> /\ Len(<<>>) = 0
        OBVIOUS
      <4>2. Mul(0, BS) = 0
        BY MulFacts, BlockSize
      <4>. QED BY <1>2, <2>2, <3>2, <4>1, <4>2 DEF Emitted
    <3>3. CASE \E c \in Seq(Blocks) : \E x \in Blocks :
                 ss = Append(c, x) /\ o \o s.output = Joined(Plain(c))
      <4>1. PICK c \in Seq(Blocks) : \E x \in Blocks :
                 ss = Append(c, x) /\ o \o s.output = Joined(Plain(c))
        BY <3>3
      <4>2. PICK l \in Nat : l = Len(c) /\ n = l + 1
        BY <1>2, <4>1
      <4>3. Plain(c) \in Seq(Blocks) /\ Len(Plain(c)) = l
        BY <4>2, PlainFacts
      <4>4. Len(Joined(Plain(c))) = Mul(l, BS)
        BY <4>3, JoinedFacts
      <4>5. Emitted(op, n) = l
        BY <2>2, <4>2 DEF Emitted
      <4>. QED BY <4>1, <4>4, <4>5
    <3>. QED BY <3>1, <3>2, <3>3 DEF DecState
  <2>. QED BY <2>1, <2>2
<1>. QED BY <1>4, <1>6, <1>7

(* One update lets out less than a block more than it takes in. *)
LEMMA UpdateRoom ==
    ASSUME NEW op, NEW o \in Seq(Bytes), NEW s, NEW m, Fed(op, o, s, m), s.output = <<>>,
           NEW t, NEW w, Fed(op, o, t, w), NEW x \in Nat, Len(w) = Len(m) + x
    PROVE  Len(t.output) < x + BS
<1>1. PICK n \in Nat : \E r \in 0..(BS - 1) :
        Len(m) = Mul(n, BS) + r /\ Len(o) + Len(s.output) = Mul(Emitted(op, n), BS)
  BY EmittedIs
<1>2. PICK r \in 0..(BS - 1) :
        Len(m) = Mul(n, BS) + r /\ Len(o) + Len(s.output) = Mul(Emitted(op, n), BS)
  BY <1>1
<1>3. PICK k \in Nat : \E q \in 0..(BS - 1) :
        Len(w) = Mul(k, BS) + q /\ Len(o) + Len(t.output) = Mul(Emitted(op, k), BS)
  BY EmittedIs
<1>4. PICK q \in 0..(BS - 1) :
        Len(w) = Mul(k, BS) + q /\ Len(o) + Len(t.output) = Mul(Emitted(op, k), BS)
  BY <1>3
<1>5. PICK l \in Nat : l = Len(o)
  OBVIOUS
<1>6. PICK v \in Nat : v = Len(t.output)
  <2>1. t.output \in Seq(Bytes)
    BY DrainState
  <2>. QED BY <2>1
<1>7. Len(s.output) = 0
  <2>1. Len(<<>>) = 0
    OBVIOUS
  <2>. QED BY <2>1
<1>8. PICK a \in Nat : a = Mul(n, BS)
  BY MulFacts, BlockSize
<1>9. PICK b \in Nat : b = Mul(k, BS)
  BY MulFacts, BlockSize
<1>10. b + q = a + r + x
  BY <1>2, <1>4, <1>8, <1>9
<1>11. l = Mul(Emitted(op, n), BS) /\ l + v = Mul(Emitted(op, k), BS)
  BY <1>2, <1>4, <1>5, <1>6, <1>7
<1>12. CASE op = "enc"
  <2>1. l = a /\ l + v = b
    BY <1>8, <1>9, <1>11, <1>12 DEF Emitted
  <2>. QED BY <1>6, <1>10, <2>1, BlockSize
<1>13. CASE op # "enc"
  <2>1. (n = 0 => l = 0 /\ a = 0) /\ (n # 0 => l = a - BS /\ a >= BS)
    <3>1. CASE n = 0
      BY <1>8, <1>11, <1>13, <3>1, MulFacts, BlockSize DEF Emitted
    <3>2. CASE n # 0
      <4>1. a = Mul(n - 1, BS) + BS /\ Mul(n - 1, BS) \in Nat
        BY <1>8, <3>2, MulFacts, BlockSize
      <4>2. l = Mul(n - 1, BS)
        BY <1>11, <1>13, <3>2 DEF Emitted
      <4>. QED BY <3>2, <4>1, <4>2, BlockSize
    <3>. QED BY <3>1, <3>2
  <2>2. (k = 0 => l + v = 0 /\ b = 0) /\ (k # 0 => l + v = b - BS /\ b >= BS)
    <3>1. CASE k = 0
      BY <1>9, <1>11, <1>13, <3>1, MulFacts, BlockSize DEF Emitted
    <3>2. CASE k # 0
      <4>1. b = Mul(k - 1, BS) + BS /\ Mul(k - 1, BS) \in Nat
        BY <1>9, <3>2, MulFacts, BlockSize
      <4>2. l + v = Mul(k - 1, BS)
        BY <1>11, <1>13, <3>2 DEF Emitted
      <4>. QED BY <3>2, <4>1, <4>2, BlockSize
    <3>. QED BY <3>1, <3>2
  <2>. QED BY <1>6, <1>10, <2>1, <2>2, BlockSize
<1>. QED BY <1>12, <1>13

-----------------------------------------------------------------------------
(* What every state of a stream satisfies: while it lives it holds what it  *)
(* was fed (to a Rust caller nothing was handed over yet, for a C caller    *)
(* nothing is left to hand over), and when it ends it has made what the     *)
(* single-shot function makes.                                              *)
CInv ==
    /\ kind \in Kinds /\ phase \in {"live", "done", "refused", "freed"}
    /\ fed \in Seq(Bytes)
    /\ phase = "live" =>
         /\ Fed(kind.op, made, st, fed)
         /\ kind.api = "c" => st.output = <<>>
         /\ kind.api = "rust" => made = <<>>
    /\ StreamEqualsSingleShot

(* What a caller may feed is a sequence of bytes. *)
LEMMA ChunkIsSeq ==
    ASSUME NEW data \in Chunks
    PROVE  data \in Seq(Bytes)
<1>1. PICK n \in 0..(MaxLen - Len(fed)) : data \in [1..n -> Inputs]
  BY DEF Chunks
<1>2. data \in [1..n -> Bytes]
  BY <1>1, FeedAssumption
<1>. QED BY <1>2

(* An absorbing stream was fed more. *)
LEMMA AbsorbState ==
    ASSUME CInv, phase = "live", NEW data \in Seq(Bytes)
    PROVE  Fed(kind.op, made, Absorb(st, data), fed \o data)
<1>1. kind.op \in {"enc", "dec"} /\ Fed(kind.op, made, st, fed)
  BY DEF CInv, Kinds
<1>2. Absorb(st, data) = UpdateOf(kind.op, st, data)
  BY <1>1, UpdatesAre DEF Absorb
<1>. QED BY <1>1, <1>2, UpdateState

(* An ending stream gives what is still missing of the single-shot result. *)
LEMMA FinishedIs ==
    ASSUME CInv, phase = "live"
    PROVE  /\ Finished(st) = None <=> SingleShot = None
           /\ Finished(st) # None =>
                /\ Finished(st) \in Seq(Bytes) /\ made \in Seq(Bytes)
                /\ made \o Finished(st) = SingleShot
                /\ kind.op = "enc" => Len(Finished(st)) = Len(st.output) + BS
                /\ kind.op = "dec" => Len(Finished(st)) < Len(st.output) + BS
           /\ kind.op = "enc" => Finished(st) # None
<1>1. kind.op \in {"enc", "dec"} /\ Fed(kind.op, made, st, fed)
  BY DEF CInv, Kinds
<1>2. CASE kind.op = "enc"
  <2>1. /\ EncryptorFinalize(st) \in Seq(Bytes) /\ made \in Seq(Bytes)
        /\ made \o EncryptorFinalize(st) = Encrypt(fed)
        /\ Len(EncryptorFinalize(st)) = Len(st.output) + BS
    BY <1>1, <1>2, EncryptorFinal
  <2>2. Finished(st) = EncryptorFinalize(st) /\ SingleShot = Encrypt(fed)
    BY <1>2 DEF Finished, SingleShot
  <2>3. Encrypt(fed) \in Seq(Bytes)
    <3>1. PICK z \in Seq(Bytes) : z = EncryptorFinalize(st)
      BY <2>1
    <3>2. PICK u \in Seq(Bytes) : u = made
      BY <2>1
    <3>3. u \o z \in Seq(Bytes)
      OBVIOUS
    <3>. QED BY <2>1, <3>1, <3>2, <3>3
  <2>. QED BY <1>2, <2>1, <2>2, <2>3, NoneApart
<1>3. CASE kind.op = "dec"
  <2>1. /\ DecryptorFinalize(st) = None <=> Decrypt(fed) = None
        /\ DecryptorFinalize(st) # None =>
             /\ DecryptorFinalize(st) \in Seq(Bytes) /\ made \in Seq(Bytes)
             /\ made \o DecryptorFinalize(st) = Decrypt(fed)
             /\ Len(DecryptorFinalize(st)) < Len(st.output) + BS
    BY <1>1, <1>3, DecryptorFinal
  <2>2. Finished(st) = DecryptorFinalize(st) /\ SingleShot = Decrypt(fed)
    BY <1>3 DEF Finished, SingleShot
  <2>. QED BY <1>3, <2>1, <2>2
<1>. QED BY <1>1, <1>2, <1>3

(* A new stream satisfies the invariant. *)
LEMMA CInitInv == SInit => CInv
<1>. SUFFICES ASSUME SInit PROVE CInv
  OBVIOUS
<1>1. <<>> \in Seq(Bytes)
  OBVIOUS
<1>2. /\ kind \in Kinds /\ phase = "live" /\ st = NewStream /\ fed = <<>> /\ made = <<>>
  BY DEF SInit
<1>. QED BY <1>1, <1>2, NewFed DEF CInv, StreamEqualsSingleShot

(* Every step keeps the invariant: an update feeds, and a C caller's drains *)
(* what it produced; either finalize ends in the single-shot result or in   *)
(* its refusal, or with a buffer too short for it.                          *)
LEMMA CStepInv == CInv /\ [SNext]_svars => CInv'
<1>. SUFFICES ASSUME CInv, [SNext]_svars PROVE CInv'
  OBVIOUS
<1>0. kind \in Kinds /\ fed \in Seq(Bytes) /\ kind.api \in {"rust", "c"}
  BY DEF CInv, Kinds
<1>1. ASSUME NEW data \in Chunks, Update(data) PROVE CInv'
  <2>1. /\ phase = "live" /\ kind.api = "rust" /\ st' = Absorb(st, data)
        /\ fed' = fed \o data /\ kind' = kind /\ phase' = phase /\ made' = made
    BY <1>1 DEF Update
  <2>2. data \in Seq(Bytes)
    BY ChunkIsSeq
  <2>3. Fed(kind.op, made, Absorb(st, data), fed \o data)
    BY <2>1, <2>2, AbsorbState
  <2>4. made = <<>>
    BY <2>1 DEF CInv
  <2>5. fed' \in Seq(Bytes)
    BY <1>0, <2>1, <2>2
  <2>. QED BY <1>0, <2>1, <2>3, <2>4, <2>5 DEF CInv, StreamEqualsSingleShot
<1>2. ASSUME NEW data \in Chunks, NEW w, CUpdate(data, w) PROVE CInv'
  <2>1. phase = "live" /\ kind.api = "c" /\ kind' = kind /\ phase' = phase
    BY <1>2 DEF CUpdate
  <2>2. CASE w[2] = "null_input" /\ data # <<>>
    <3>1. st' = st /\ fed' = fed /\ made' = made
      BY <1>2, <2>2 DEF CUpdate
    <3>. QED BY <2>1, <3>1 DEF CInv, StreamEqualsSingleShot
  <2>3. CASE ~(w[2] = "null_input" /\ data # <<>>)
    <3>1. PICK s : s = Absorb(st, data)
      OBVIOUS
    <3>2. st' = [s EXCEPT !.output = <<>>] /\ fed' = fed \o data /\ made' = made \o s.output
      BY <1>2, <2>3, <3>1 DEF CUpdate, Produce
    <3>3. data \in Seq(Bytes)
      BY ChunkIsSeq
    <3>4. Fed(kind.op, made, s, fed \o data)
      BY <2>1, <3>1, <3>3, AbsorbState
    <3>5. Fed(kind.op, made \o s.output, st', fed \o data) /\ st'.output = <<>>
      BY <3>2, <3>4, DrainState
    <3>6. fed' \in Seq(Bytes)
      BY <1>0, <3>2, <3>3
    <3>. QED BY <1>0, <2>1, <3>2, <3>5, <3>6 DEF CInv, StreamEqualsSingleShot
  <2>. QED BY <2>2, <2>3
<1>3. CASE Finalize
  <2>1. phase = "live" /\ kind.api = "rust" /\ kind' = kind /\ fed' = fed
    BY <1>3 DEF Finalize
  <2>2. CASE Finished(st) = None
    <3>1. phase' = "refused" /\ made' = made
      BY <1>3, <2>2 DEF Finalize
    <3>2. SingleShot = None
      BY <2>1, <2>2, FinishedIs
    <3>3. SingleShot' = SingleShot
      BY <2>1 DEF SingleShot
    <3>. QED BY <1>0, <2>1, <3>1, <3>2, <3>3 DEF CInv, StreamEqualsSingleShot
  <2>3. CASE Finished(st) # None
    <3>1. phase' = "done" /\ made' = Finished(st)
      BY <1>3, <2>3 DEF Finalize
    <3>2. Finished(st) \in Seq(Bytes) /\ made \o Finished(st) = SingleShot
      BY <2>1, <2>3, FinishedIs
    <3>3. made = <<>>
      BY <2>1 DEF CInv
    <3>4. made' = SingleShot
      <4>1. <<>> \o Finished(st) = Finished(st)
        BY <3>2
      <4>. QED BY <3>1, <3>2, <3>3, <4>1
    <3>5. SingleShot' = SingleShot
      BY <2>1 DEF SingleShot
    <3>. QED BY <1>0, <2>1, <3>1, <3>4, <3>5 DEF CInv, StreamEqualsSingleShot
  <2>. QED BY <2>2, <2>3
<1>4. ASSUME NEW w, CFinalize(w) PROVE CInv'
  <2>1. phase = "live" /\ kind.api = "c" /\ kind' = kind /\ fed' = fed
    BY <1>4 DEF CFinalize
  <2>0. SingleShot' = SingleShot
    BY <2>1 DEF SingleShot
  <2>2. CASE Finished(st) = None
    <3>1. phase' = "refused" /\ made' = made
      BY <1>4, <2>2 DEF CFinalize
    <3>2. SingleShot = None
      BY <2>1, <2>2, FinishedIs
    <3>. QED BY <1>0, <2>0, <2>1, <3>1, <3>2 DEF CInv, StreamEqualsSingleShot
  <2>3. CASE Finished(st) # None
    <3>1. phase' \in {"done", "refused"} /\ made' = made \o Finished(st)
      BY <1>4, <2>3 DEF CFinalize, Produce
    <3>2. made \o Finished(st) = SingleShot
      BY <2>1, <2>3, FinishedIs
    <3>. QED BY <1>0, <2>0, <2>1, <3>1, <3>2 DEF CInv, StreamEqualsSingleShot
  <2>. QED BY <2>2, <2>3
<1>5. CASE Free
  <2>1. phase' = "freed" /\ kind' = kind /\ fed' = fed
    BY <1>5 DEF Free
  <2>. QED BY <1>0, <2>1 DEF CInv, StreamEqualsSingleShot
<1>6. CASE UNCHANGED svars
  BY <1>6 DEF CInv, StreamEqualsSingleShot, SingleShot, svars
<1>. QED BY <1>1, <1>2, <1>3, <1>4, <1>5, <1>6 DEF SNext

(* And keeps it: the invariant holds in every reachable state. *)
LEMMA CInvariant == SSpec => []CInv
<1>1. SInit => CInv
  BY CInitInv
<1>2. CInv /\ [SNext]_svars => CInv'
  BY CStepInv
<1>. QED BY <1>1, <1>2, PTL DEF SSpec

(* "For any plaintext M partitioned into chunks the streaming encryptor's   *)
(* concatenated output equals mode_cbc::encrypt(key, iv, M) ... Same goes   *)
(* for the decryptor", to a Rust and to a C caller.                         *)
THEOREM StreamIsSingleShot == SSpec => []StreamEqualsSingleShot
<1>1. CInv => StreamEqualsSingleShot
  BY DEF CInv
<1>. QED BY <1>1, CInvariant, PTL

(* What an encryptor produced, single-shot decryption gives back. *)
THEOREM StreamRoundTrip == SSpec => []RoundTrip
<1>1. CInv => RoundTrip
  <2>. SUFFICES ASSUME CInv, phase = "done", kind.op = "enc" PROVE Decrypt(made) = fed
    BY DEF RoundTrip
  <2>1. made = Encrypt(fed) /\ fed \in Seq(Bytes)
    BY DEF CInv, StreamEqualsSingleShot, SingleShot
  <2>. QED BY <2>1, DecryptUndoesEncrypt
<1>. QED BY <1>1, CInvariant, PTL

(* The last block decrypted so far never leaves the stream before finalize  *)
(* has looked at its padding.                                               *)
THEOREM LastBlockHeldBack == SSpec => []HoldsBackOne
<1>1. CInv => HoldsBackOne
  <2>. SUFFICES ASSUME CInv, kind.op = "dec", phase = "live", NEW q, q = Unchained(fed)
                PROVE  IF q = <<>> THEN st.held = None /\ st.output = <<>> /\ made = <<>>
                       ELSE st.held = Last(q) /\ made \o st.output = FlattenSeq(Front(q))
    BY DEF HoldsBackOne
  <2>1. PICK ss, p : Splits(fed, ss, p) /\ State("dec", made, st, ss)
    BY DEF CInv, Fed, Holds
  <2>2. DecState(made, st, ss)
    BY <2>1 DEF State
  <2>3. q = Plain(ss)
    BY <2>1, UnchainedIs
  <2>4. CASE ss = <<>> /\ st.held = None /\ st.output = <<>> /\ made = <<>>
    <3>1. q = <<>>
      BY <2>3, <2>4 DEF Plain
    <3>. QED BY <2>4, <3>1
  <2>5. CASE \E c \in Seq(Blocks) : \E x \in Blocks :
               /\ ss = Append(c, x) /\ st.held = XorBlock(D[x], Prev(c))
               /\ made \o st.output = Joined(Plain(c))
    <3>1. PICK c \in Seq(Blocks) : \E x \in Blocks :
               /\ ss = Append(c, x) /\ st.held = XorBlock(D[x], Prev(c))
               /\ made \o st.output = Joined(Plain(c))
      BY <2>5
    <3>2. PICK x \in Blocks : /\ ss = Append(c, x) /\ st.held = XorBlock(D[x], Prev(c))
                              /\ made \o st.output = Joined(Plain(c))
      BY <3>1
    <3>3. PICK h \in Blocks : h = st.held /\ q = Append(Plain(c), h)
      BY <2>3, <3>2, PlainAppend
    <3>4. PICK a \in Seq(Blocks) : a = Plain(c)
      BY PlainFacts
    <3>5. q # <<>> /\ Last(q) = h /\ Front(q) = a
      BY <3>3, <3>4, LastFront
    <3>6. FlattenSeq(a) = Joined(a)
      BY FlatIsJoined
    <3>. QED BY <3>2, <3>3, <3>4, <3>5, <3>6
  <2>. QED BY <2>2, <2>4, <2>5 DEF DecState
<1>. QED BY <1>1, CInvariant, PTL

(* The room that the headers ask for is always enough: no call hands over   *)
(* as much as a block more than it took in, and an encryptor's finalize     *)
(* exactly one block.                                                       *)
THEOREM RoomSuffices == SSpec => DocumentedRoomSuffices
<1>. DEFINE Room ==
       kind.api = "c" =>
         IF phase' = "live"
         THEN Len(made') - Len(made) < Len(fed') - Len(fed) + BS
         ELSE IF kind.op = "enc" /\ phase' # "freed"
         THEN Len(made') - Len(made) = BS
         ELSE Len(made') - Len(made) < BS
<1>1. CInv /\ SNext => Room
  <2>. SUFFICES ASSUME CInv, SNext, kind.api = "c" PROVE Room
    OBVIOUS
  <2>0. /\ phase = "live" /\ Fed(kind.op, made, st, fed) /\ st.output = <<>>
        /\ fed \in Seq(Bytes) /\ kind.op \in {"enc", "dec"}
    BY DEF SNext, Update, CUpdate, Finalize, CFinalize, Free, CInv, Kinds
  <2>1. made \in Seq(Bytes)
    BY <2>0, DrainState
  <2>2. PICK f \in Nat, n \in Nat : f = Len(fed) /\ n = Len(made)
    BY <2>0, <2>1
  <2>3. Len(st.output) = 0
    <3>1. Len(<<>>) = 0
      OBVIOUS
    <3>. QED BY <2>0, <3>1
  <2>4. ASSUME NEW data \in Chunks, NEW w, CUpdate(data, w) PROVE Room
    <3>1. phase' = "live"
      BY <2>0, <2>4 DEF CUpdate
    <3>2. CASE w[2] = "null_input" /\ data # <<>>
      <4>1. fed' = fed /\ made' = made
        BY <2>4, <3>2 DEF CUpdate
      <4>. QED BY <2>2, <3>1, <4>1, BlockSize
    <3>3. CASE ~(w[2] = "null_input" /\ data # <<>>)
      <4>1. PICK s : s = Absorb(st, data)
        OBVIOUS
      <4>2. fed' = fed \o data /\ made' = made \o s.output
        BY <2>4, <3>3, <4>1 DEF CUpdate, Produce
      <4>3. data \in Seq(Bytes)
        BY ChunkIsSeq
      <4>4. Fed(kind.op, made, s, fed \o data)
        BY <2>0, <4>1, <4>3, AbsorbState
      <4>5. PICK x \in Nat : x = Len(data)
        BY <4>3
      <4>6. Len(fed') = f + x
        BY <2>0, <2>2, <4>2, <4>3, <4>5
      <4>7. PICK z \in Seq(Bytes) : z = s.output
        BY <4>4, DrainState
      <4>8. Len(z) < x + BS
        <5>1. PICK m : m = fed \o data /\ Len(m) = Len(fed) + x
          BY <2>2, <4>2, <4>6
        <5>2. Fed(kind.op, made, s, m)
          BY <4>4, <5>1
        <5>3. Len(s.output) < x + BS
          BY <2>0, <2>1, <5>1, <5>2, UpdateRoom
        <5>. QED BY <4>7, <5>3
      <4>9. PICK l \in Nat : l = Len(z) /\ Len(made') = n + l
        BY <2>1, <2>2, <4>2, <4>7
      <4>. QED BY <2>2, <3>1, <4>6, <4>8, <4>9, BlockSize
    <3>. QED BY <3>2, <3>3
  <2>5. ASSUME NEW w, CFinalize(w) PROVE Room
    <3>1. CASE Finished(st) = None
      <4>1. phase' = "refused" /\ made' = made
        BY <2>5, <3>1 DEF CFinalize
      <4>2. kind.op # "enc"
        BY <2>0, <3>1, FinishedIs
      <4>. QED BY <2>2, <4>1, <4>2, BlockSize
    <3>2. CASE Finished(st) # None
      <4>1. phase' \in {"done", "refused"} /\ made' = made \o Finished(st)
        BY <2>5, <3>2 DEF CFinalize, Produce
      <4>2. /\ Finished(st) \in Seq(Bytes)
            /\ kind.op = "enc" => Len(Finished(st)) = Len(st.output) + BS
            /\ kind.op = "dec" => Len(Finished(st)) < Len(st.output) + BS
        BY <2>0, <3>2, FinishedIs
      <4>3. PICK z \in Seq(Bytes) : z = Finished(st)
        BY <4>2
      <4>4. PICK l \in Nat : l = Len(z) /\ Len(made') = n + l
        BY <2>1, <2>2, <4>1, <4>3
      <4>5. (kind.op = "enc" => l = BS) /\ (kind.op = "dec" => l < BS)
        BY <2>3, <4>2, <4>3, <4>4, BlockSize
      <4>. QED BY <2>0, <2>2, <4>1, <4>4, <4>5, BlockSize
    <3>. QED BY <3>1, <3>2
  <2>6. CASE Free
    <3>1. phase' = "freed" /\ made' = made
      BY <2>6 DEF Free
    <3>. QED BY <2>2, <3>1, BlockSize
  <2>7. ~(\E data \in Chunks : Update(data)) /\ ~Finalize
    BY DEF Update, Finalize
  <2>. HIDE DEF Room
  <2>. QED BY <2>4, <2>5, <2>6, <2>7 DEF SNext
<1>2. CInv /\ [SNext]_svars => [Room]_svars
  <2>. HIDE DEF Room
  <2>. QED BY <1>1
<1>3. SSpec => [][Room]_svars
  <2>. HIDE DEF Room
  <2>. QED BY <1>2, CInvariant, PTL DEF SSpec
<1>. QED BY <1>3 DEF DocumentedRoomSuffices

(***************************************************************************)
(* The SM4 block cipher and XTS.                                           *)
(***************************************************************************)

(* The bits of a nibble. *)
LEMMA NibbleBits ==
    ASSUME NEW x \in 0..15
    PROVE  \E a \in 0..1 : \E b \in 0..1 : \E c \in 0..1 : \E d \in 0..1 :
              x = a + 2 * b + 4 * c + 8 * d
<1>. DEFINE b == (x \div 2) % 2  c == (x \div 4) % 2
<1>1. x % 2 \in 0..1 /\ b \in 0..1 /\ c \in 0..1 /\ x \div 8 \in 0..1
  OBVIOUS
<1>2. x = (x % 2) + 2 * b + 4 * c + 8 * (x \div 8)
  OBVIOUS
<1>. QED BY <1>1, <1>2

(* The exclusive or of two nibbles by their bits. *)
LEMMA NibbleXorBits ==
    ASSUME NEW a \in 0..1, NEW b \in 0..1, NEW c \in 0..1, NEW d \in 0..1,
           NEW e \in 0..1, NEW f \in 0..1, NEW g \in 0..1, NEW h \in 0..1,
           NEW x, NEW y, x = a + 2 * b + 4 * c + 8 * d, y = e + 2 * f + 4 * g + 8 * h
    PROVE  NibbleXor[x][y] =
              ((a + e) % 2) + 2 * ((b + f) % 2) + 4 * ((c + g) % 2) + 8 * ((d + h) % 2)
<1>1. x \in 0..15 /\ y \in 0..15
  OBVIOUS
<1>2. NibbleXor[x][y] = ((x + y) % 2) + 2 * ((x \div 2 + y \div 2) % 2)
                          + 4 * ((x \div 4 + y \div 4) % 2) + 8 * ((x \div 8 + y \div 8) % 2)
  BY <1>1 DEF NibbleXor
<1>3. x \div 2 = b + 2 * c + 4 * d /\ x \div 4 = c + 2 * d /\ x \div 8 = d
  OBVIOUS
<1>4. y \div 2 = f + 2 * g + 4 * h /\ y \div 4 = g + 2 * h /\ y \div 8 = h
  OBVIOUS
<1>5. (x + y) % 2 = (a + e) % 2
  OBVIOUS
<1>6. (x \div 2 + y \div 2) % 2 = (b + f) % 2
  BY <1>3, <1>4
<1>7. (x \div 4 + y \div 4) % 2 = (c + g) % 2
  BY <1>3, <1>4
<1>. QED BY <1>2, <1>3, <1>4, <1>5, <1>6, <1>7

(* Exclusive or of nibbles: closed, commutative, undone by itself.          *)
LEMMA NibbleFacts ==
    ASSUME NEW x \in 0..15, NEW y \in 0..15
    PROVE  /\ NibbleXor[x][y] \in 0..15 /\ NibbleXor[x][y] = NibbleXor[y][x]
           /\ NibbleXor[NibbleXor[x][y]][y] = x
<1>1. PICK a \in 0..1 : \E b \in 0..1 : \E c \in 0..1 : \E d \in 0..1 :
              x = a + 2 * b + 4 * c + 8 * d
  BY NibbleBits
<1>2. PICK b \in 0..1 : \E c \in 0..1 : \E d \in 0..1 : x = a + 2 * b + 4 * c + 8 * d
  BY <1>1
<1>3. PICK c \in 0..1 : \E d \in 0..1 : x = a + 2 * b + 4 * c + 8 * d
  BY <1>2
<1>4. PICK d \in 0..1 : x = a + 2 * b + 4 * c + 8 * d
  BY <1>3
<1>5. PICK e \in 0..1 : \E f \in 0..1 : \E g \in 0..1 : \E h \in 0..1 :
              y = e + 2 * f + 4 * g + 8 * h
  BY NibbleBits
<1>6. PICK f \in 0..1 : \E g \in 0..1 : \E h \in 0..1 : y = e + 2 * f + 4 * g + 8 * h
  BY <1>5
<1>7. PICK g \in 0..1 : \E h \in 0..1 : y = e + 2 * f + 4 * g + 8 * h
  BY <1>6
<1>8. PICK h \in 0..1 : y = e + 2 * f + 4 * g + 8 * h
  BY <1>7
<1>. DEFINE p == (a + e) % 2  q == (b + f) % 2  r == (c + g) % 2  s == (d + h) % 2
<1>13. p \in 0..1 /\ q \in 0..1 /\ r \in 0..1 /\ s \in 0..1
  OBVIOUS
<1>14. NibbleXor[x][y] = p + 2 * q + 4 * r + 8 * s
  BY <1>4, <1>8, NibbleXorBits
<1>15. NibbleXor[y][x] = ((e + a) % 2) + 2 * ((f + b) % 2) + 4 * ((g + c) % 2) + 8 * ((h + d) % 2)
  BY <1>4, <1>8, NibbleXorBits
<1>17. \A m \in 0..1, n \in 0..1 : (m + n) % 2 = (n + m) % 2 /\ (((m + n) % 2) + n) % 2 = m
  OBVIOUS
<1>19. /\ (p + e) % 2 = a /\ (q + f) % 2 = b /\ (r + g) % 2 = c /\ (s + h) % 2 = d
  BY <1>17
<1>20. NibbleXor[x][y] \in 0..15 /\ NibbleXor[x][y] = NibbleXor[y][x]
  BY <1>13, <1>14, <1>15, <1>17
<1>. HIDE DEF p, q, r, s
<1>21. PICK z : z = NibbleXor[x][y]
  OBVIOUS
<1>22. z = p + 2 * q + 4 * r + 8 * s
  BY <1>14, <1>21
<1>24. NibbleXor[z][y] = ((p + e) % 2) + 2 * ((q + f) % 2) + 4 * ((r + g) % 2) + 8 * ((s + h) % 2)
  BY <1>8, <1>13, <1>22, NibbleXorBits
<1>23. NibbleXor[NibbleXor[x][y]][y] =
          ((p + e) % 2) + 2 * ((q + f) % 2) + 4 * ((r + g) % 2) + 8 * ((s + h) % 2)
  BY <1>21, <1>24
<1>. QED BY <1>4, <1>19, <1>20, <1>23

(* Nibbles, and one instance of the associative law. *)
Nibble == 0..15
Associates(x, y, z) == NibbleXor[NibbleXor[x][y]][z] = NibbleXor[x][NibbleXor[y][z]]

(* Exclusive or of nibbles is associative. *)
LEMMA NibbleAssoc ==
    ASSUME NEW x \in Nibble, NEW y \in Nibble, NEW z \in Nibble
    PROVE  Associates(x, y, z)
<1>1. PICK a \in 0..1 : \E b \in 0..1 : \E c \in 0..1 : \E d \in 0..1 :
              x = a + 2 * b + 4 * c + 8 * d
  BY NibbleBits DEF Nibble
<1>2. PICK b \in 0..1 : \E c \in 0..1 : \E d \in 0..1 : x = a + 2 * b + 4 * c + 8 * d
  BY <1>1
<1>3. PICK c \in 0..1 : \E d \in 0..1 : x = a + 2 * b + 4 * c + 8 * d
  BY <1>2
<1>4. PICK d \in 0..1 : x = a + 2 * b + 4 * c + 8 * d
  BY <1>3
<1>5. PICK e \in 0..1 : \E f \in 0..1 : \E g \in 0..1 : \E h \in 0..1 :
              y = e + 2 * f + 4 * g + 8 * h
  BY NibbleBits DEF Nibble
<1>6. PICK f \in 0..1 : \E g \in 0..1 : \E h \in 0..1 : y = e + 2 * f + 4 * g + 8 * h
  BY <1>5
<1>7. PICK g \in 0..1 : \E h \in 0..1 : y = e + 2 * f + 4 * g + 8 * h
  BY <1>6
<1>8. PICK h \in 0..1 : y = e + 2 * f + 4 * g + 8 * h
  BY <1>7
<1>9. PICK i \in 0..1 : \E j \in 0..1 : \E k \in 0..1 : \E l \in 0..1 :
              z = i + 2 * j + 4 * k + 8 * l
  BY NibbleBits DEF Nibble
<1>10. PICK j \in 0..1 : \E k \in 0..1 : \E l \in 0..1 : z = i + 2 * j + 4 * k + 8 * l
  BY <1>9
<1>11. PICK k \in 0..1 : \E l \in 0..1 : z = i + 2 * j + 4 * k + 8 * l
  BY <1>10
<1>12. PICK l \in 0..1 : z = i + 2 * j + 4 * k + 8 * l
  BY <1>11
<1>. DEFINE p == (a + e) % 2  q == (b + f) % 2  r == (c + g) % 2  s == (d + h) % 2
            t == (e + i) % 2  u == (f + j) % 2  v == (g + k) % 2  w == (h + l) % 2
<1>13. /\ p \in 0..1 /\ q \in 0..1 /\ r \in 0..1 /\ s \in 0..1
       /\ t \in 0..1 /\ u \in 0..1 /\ v \in 0..1 /\ w \in 0..1
  OBVIOUS
<1>14. NibbleXor[x][y] = p + 2 * q + 4 * r + 8 * s
  BY <1>4, <1>8, NibbleXorBits
<1>16. NibbleXor[y][z] = t + 2 * u + 4 * v + 8 * w
  BY <1>8, <1>12, NibbleXorBits
<1>18. \A m \in 0..1, n \in 0..1, o \in 0..1 :
          (((m + n) % 2) + o) % 2 = (m + ((n + o) % 2)) % 2
  OBVIOUS
<1>19. /\ (p + i) % 2 = (a + t) % 2 /\ (q + j) % 2 = (b + u) % 2
       /\ (r + k) % 2 = (c + v) % 2 /\ (s + l) % 2 = (d + w) % 2
  BY <1>18
<1>. HIDE DEF p, q, r, s, t, u, v, w
<1>21. NibbleXor[NibbleXor[x][y]][z] =
          ((p + i) % 2) + 2 * ((q + j) % 2) + 4 * ((r + k) % 2) + 8 * ((s + l) % 2)
  BY <1>12, <1>13, <1>14, NibbleXorBits
<1>22. NibbleXor[x][NibbleXor[y][z]] =
          ((a + t) % 2) + 2 * ((b + u) % 2) + 4 * ((c + v) % 2) + 8 * ((d + w) % 2)
  BY <1>4, <1>13, <1>16, NibbleXorBits
<1>. QED BY <1>4, <1>19, <1>21, <1>22 DEF Associates

(* A byte by its two nibbles.                                              *)
Byte16(h, l) == 16 * h + l

(* A byte is sixteen times one nibble plus another. *)
LEMMA OctetNibbles ==
    ASSUME NEW x \in Octet
    PROVE  \E h \in 0..15 : \E l \in 0..15 : x = Byte16(h, l)
<1>1. x \div 16 \in 0..15 /\ x % 16 \in 0..15 /\ x = Byte16(x \div 16, x % 16)
  BY DEF Octet, Byte16
<1>. QED BY <1>1

(* Two nibbles make a byte, and the byte has these nibbles. *)
LEMMA ByteOctet ==
    ASSUME NEW h \in 0..15, NEW l \in 0..15
    PROVE  Byte16(h, l) \in Octet /\ Byte16(h, l) \div 16 = h /\ Byte16(h, l) % 16 = l
  BY DEF Octet, Byte16

(* x is the byte of two nibbles; x and y add to the byte of the sums of    *)
(* theirs.                                                                 *)
ByteOf(x, h, l) == x = Byte16(h, l)
XorsTo(x, y, h, l, k, m) == x ^^ y = Byte16(NibbleXor[h][k], NibbleXor[l][m])

(* The exclusive or of two bytes is that of their nibbles. *)
LEMMA ByteXor ==
    ASSUME NEW h \in Nibble, NEW l \in Nibble, NEW k \in Nibble, NEW m \in Nibble,
           NEW x, NEW y, ByteOf(x, h, l), ByteOf(y, k, m)
    PROVE  XorsTo(x, y, h, l, k, m)
<1>1. x \div 16 = h /\ x % 16 = l
  BY ByteOctet DEF ByteOf, Nibble
<1>2. y \div 16 = k /\ y % 16 = m
  BY ByteOctet DEF ByteOf, Nibble
<1>3. x ^^ y = 16 * NibbleXor[x \div 16][y \div 16] + NibbleXor[x % 16][y % 16]
  BY DEF ^^
<1>4. x ^^ y = 16 * NibbleXor[h][k] + NibbleXor[l][m]
  BY <1>1, <1>2, <1>3
<1>. QED BY <1>4 DEF Byte16, XorsTo

(* A byte and its nibbles. *)
LEMMA NibblesOf ==
    ASSUME NEW x \in Octet
    PROVE  \E h \in Nibble, l \in Nibble : ByteOf(x, h, l)
  BY OctetNibbles DEF Nibble, ByteOf

(* What NibbleFacts says of two nibbles. *)
Closed(x, y) == x \in Nibble /\ NibbleXor[x][y] \in Nibble /\ NibbleXor[x][y] = NibbleXor[y][x]
                /\ NibbleXor[NibbleXor[x][y]][y] = x

(* NibbleFacts, for use where only the name Closed is wanted. *)
LEMMA NibbleClosed ==
    ASSUME NEW x \in Nibble, NEW y \in Nibble
    PROVE  Closed(x, y)
  BY NibbleFacts DEF Nibble, Closed

(* Exclusive or of bytes: closed, commutative, undone by itself.           *)
LEMMA XorOctets ==
    ASSUME NEW x \in Octet, NEW y \in Octet
    PROVE  x ^^ y \in Octet /\ x ^^ y = y ^^ x /\ (x ^^ y) ^^ y = x
<1>1. PICK a \in Nibble, b \in Nibble : ByteOf(x, a, b)
  BY NibblesOf
<1>2. PICK c \in Nibble, d \in Nibble : ByteOf(y, c, d)
  BY NibblesOf
<1>3. PICK p \in Nibble : p = NibbleXor[a][c] /\ p = NibbleXor[c][a] /\ NibbleXor[p][c] = a
  BY NibbleClosed DEF Closed
<1>4. PICK q \in Nibble : q = NibbleXor[b][d] /\ q = NibbleXor[d][b] /\ NibbleXor[q][d] = b
  BY NibbleClosed DEF Closed
<1>5. XorsTo(x, y, a, b, c, d)
  BY <1>1, <1>2, ByteXor
<1>6. XorsTo(y, x, c, d, a, b)
  BY <1>1, <1>2, ByteXor
<1>7. PICK z : z = x ^^ y
  OBVIOUS
<1>8. ByteOf(z, p, q) /\ y ^^ x = z
  BY <1>3, <1>4, <1>5, <1>6, <1>7 DEF XorsTo, ByteOf
<1>9. XorsTo(z, y, p, q, c, d)
  BY <1>2, <1>8, ByteXor
<1>10. z ^^ y = x
  BY <1>1, <1>3, <1>4, <1>9 DEF XorsTo, ByteOf
<1>11. z \in Octet
  BY <1>8, ByteOctet DEF ByteOf, Nibble
<1>. QED BY <1>7, <1>8, <1>10, <1>11

(* It is associative.                                                      *)
LEMMA XorAssoc ==
    ASSUME NEW x \in Octet, NEW y \in Octet, NEW z \in Octet
    PROVE  (x ^^ y) ^^ z = x ^^ (y ^^ z)
<1>1. PICK a \in Nibble, b \in Nibble : ByteOf(x, a, b)
  BY NibblesOf
<1>2. PICK c \in Nibble, d \in Nibble : ByteOf(y, c, d)
  BY NibblesOf
<1>3. PICK e \in Nibble, f \in Nibble : ByteOf(z, e, f)
  BY NibblesOf
<1>4. PICK p \in Nibble, q \in Nibble : p = NibbleXor[a][c] /\ q = NibbleXor[b][d]
  BY NibbleClosed DEF Closed
<1>5. PICK r \in Nibble, s \in Nibble : r = NibbleXor[c][e] /\ s = NibbleXor[d][f]
  BY NibbleClosed DEF Closed
<1>6. PICK u, v : u = x ^^ y /\ v = y ^^ z
  OBVIOUS
<1>7. XorsTo(x, y, a, b, c, d)
  BY <1>1, <1>2, ByteXor
<1>8. XorsTo(y, z, c, d, e, f)
  BY <1>2, <1>3, ByteXor
<1>9. ByteOf(u, p, q) /\ ByteOf(v, r, s)
  BY <1>4, <1>5, <1>6, <1>7, <1>8 DEF XorsTo, ByteOf
<1>10. XorsTo(u, z, p, q, e, f)
  BY <1>3, <1>9, ByteXor
<1>11. XorsTo(x, v, a, b, r, s)
  BY <1>1, <1>9, ByteXor
<1>12. Associates(a, c, e) /\ Associates(b, d, f)
  BY NibbleAssoc
<1>13. NibbleXor[p][e] = NibbleXor[a][r] /\ NibbleXor[q][f] = NibbleXor[b][s]
  BY <1>4, <1>5, <1>12 DEF Associates
<1>14. u ^^ z = x ^^ v
  BY <1>10, <1>11, <1>13 DEF XorsTo
<1>. QED BY <1>6, <1>14

(* The substitution box holds bytes.                                       *)
LEMMA SboxOctets ==
    ASSUME NEW v \in Octet
    PROVE  S_BOX[v + 1] \in Octet
<1>1. S_BOX \in Seq(Octet)
  BY DEF S_BOX, Octet
<1>5. Len(S_BOX) = 256
  BY DEF S_BOX
<1>2. S_BOX \in [1..Len(S_BOX) -> Octet]
  BY <1>1
<1>3. S_BOX \in [1..256 -> Octet]
  BY <1>2, <1>5
<1>4. v + 1 \in 1..256
  BY DEF Octet
<1>. QED BY <1>3, <1>4

(* A word, four words, a block.                                            *)
Word == [1..4 -> Octet]
Window == [1..4 -> Word]

(* Four bytes are a word. *)
LEMMA WordIs ==
    ASSUME NEW a \in Octet, NEW b \in Octet, NEW c \in Octet, NEW d \in Octet
    PROVE  <<a, b, c, d>> \in Word
  BY DEF Word

(* Words that agree in their four places are the same. *)
LEMMA SameWord ==
    ASSUME NEW S, NEW u \in [1..4 -> S], NEW w \in [1..4 -> S],
           u[1] = w[1], u[2] = w[2], u[3] = w[3], u[4] = w[4]
    PROVE  u = w
<1>1. \A i \in 1..4 : i = 1 \/ i = 2 \/ i = 3 \/ i = 4
  OBVIOUS
<1>2. \A i \in 1..4 : u[i] = w[i]
  BY <1>1
<1>. QED BY <1>2

(* A word has bytes in its four places. *)
LEMMA WordParts ==
    ASSUME NEW u \in Word
    PROVE  u[1] \in Octet /\ u[2] \in Octet /\ u[3] \in Octet /\ u[4] \in Octet
  BY DEF Word

(* Exclusive or of words: closed, undone by itself, and the order in which *)
(* three words are added does not matter.                                  *)
LEMMA WordXorTyped ==
    ASSUME NEW u \in Word, NEW w \in Word
    PROVE  WordXor(u, w) \in Word
  BY WordParts, XorOctets, WordIs DEF WordXor

(* The exclusive or of words, place by place. *)
LEMMA WordXorAt ==
    ASSUME NEW u, NEW w
    PROVE  /\ WordXor(u, w)[1] = u[1] ^^ w[1] /\ WordXor(u, w)[2] = u[2] ^^ w[2]
           /\ WordXor(u, w)[3] = u[3] ^^ w[3] /\ WordXor(u, w)[4] = u[4] ^^ w[4]
  BY DEF WordXor

(* Adding the same word twice changes nothing. *)
LEMMA WordXorUndone ==
    ASSUME NEW u \in Word, NEW w \in Word
    PROVE  WordXor(WordXor(u, w), w) = u
<1>1. WordXor(u, w) \in Word /\ WordXor(WordXor(u, w), w) \in Word
  BY WordXorTyped
<1>2. /\ WordXor(WordXor(u, w), w)[1] = (u[1] ^^ w[1]) ^^ w[1]
      /\ WordXor(WordXor(u, w), w)[2] = (u[2] ^^ w[2]) ^^ w[2]
      /\ WordXor(WordXor(u, w), w)[3] = (u[3] ^^ w[3]) ^^ w[3]
      /\ WordXor(WordXor(u, w), w)[4] = (u[4] ^^ w[4]) ^^ w[4]
  BY WordXorAt
<1>3. /\ (u[1] ^^ w[1]) ^^ w[1] = u[1] /\ (u[2] ^^ w[2]) ^^ w[2] = u[2]
      /\ (u[3] ^^ w[3]) ^^ w[3] = u[3] /\ (u[4] ^^ w[4]) ^^ w[4] = u[4]
  BY WordParts, XorOctets
<1>. QED BY <1>1, <1>2, <1>3, SameWord DEF Word

(* The first and the third of four bytes may change places in a sum. *)
LEMMA XorSwap ==
    ASSUME NEW a \in Octet, NEW b \in Octet, NEW c \in Octet, NEW d \in Octet
    PROVE  (a ^^ b) ^^ (c ^^ d) = (c ^^ b) ^^ (a ^^ d)
<1>1. /\ a ^^ b \in Octet /\ c ^^ b \in Octet /\ b ^^ c \in Octet /\ b ^^ c = c ^^ b
      /\ (c ^^ b) ^^ a = a ^^ (c ^^ b)
  BY XorOctets
<1>2. (a ^^ b) ^^ (c ^^ d) = ((a ^^ b) ^^ c) ^^ d
  BY <1>1, XorAssoc
<1>3. (a ^^ b) ^^ c = a ^^ (b ^^ c)
  BY XorAssoc
<1>4. (c ^^ b) ^^ (a ^^ d) = ((c ^^ b) ^^ a) ^^ d
  BY <1>1, XorAssoc
<1>. QED BY <1>1, <1>2, <1>3, <1>4, Zenon

(* The same for words: why a round takes the same input when the words of  *)
(* the window are in the opposite order.                                   *)
LEMMA WordXorReversed ==
    ASSUME NEW u \in Word, NEW v \in Word, NEW w \in Word, NEW k \in Word
    PROVE  WordXor(WordXor(u, v), WordXor(w, k)) = WordXor(WordXor(w, v), WordXor(u, k))
<1>1. /\ WordXor(u, v) \in Word /\ WordXor(w, k) \in Word
      /\ WordXor(w, v) \in Word /\ WordXor(u, k) \in Word
  BY WordXorTyped
<1>. DEFINE l == WordXor(WordXor(u, v), WordXor(w, k))
            r == WordXor(WordXor(w, v), WordXor(u, k))
<1>2. l \in Word /\ r \in Word
  BY <1>1, WordXorTyped
<1>4. /\ l[1] = (u[1] ^^ v[1]) ^^ (w[1] ^^ k[1]) /\ l[2] = (u[2] ^^ v[2]) ^^ (w[2] ^^ k[2])
      /\ l[3] = (u[3] ^^ v[3]) ^^ (w[3] ^^ k[3]) /\ l[4] = (u[4] ^^ v[4]) ^^ (w[4] ^^ k[4])
  BY WordXorAt
<1>5. /\ r[1] = (w[1] ^^ v[1]) ^^ (u[1] ^^ k[1]) /\ r[2] = (w[2] ^^ v[2]) ^^ (u[2] ^^ k[2])
      /\ r[3] = (w[3] ^^ v[3]) ^^ (u[3] ^^ k[3]) /\ r[4] = (w[4] ^^ v[4]) ^^ (u[4] ^^ k[4])
  BY WordXorAt
<1>. HIDE DEF l, r
<1>6. l[1] = r[1] /\ l[2] = r[2] /\ l[3] = r[3] /\ l[4] = r[4]
  <2>1. /\ l[1] = (u[1] ^^ v[1]) ^^ (w[1] ^^ k[1]) /\ r[1] = (w[1] ^^ v[1]) ^^ (u[1] ^^ k[1])
        /\ u[1] \in Octet /\ v[1] \in Octet /\ w[1] \in Octet /\ k[1] \in Octet
    BY <1>4, <1>5, WordParts
  <2>2. /\ l[2] = (u[2] ^^ v[2]) ^^ (w[2] ^^ k[2]) /\ r[2] = (w[2] ^^ v[2]) ^^ (u[2] ^^ k[2])
        /\ u[2] \in Octet /\ v[2] \in Octet /\ w[2] \in Octet /\ k[2] \in Octet
    BY <1>4, <1>5, WordParts
  <2>3. /\ l[3] = (u[3] ^^ v[3]) ^^ (w[3] ^^ k[3]) /\ r[3] = (w[3] ^^ v[3]) ^^ (u[3] ^^ k[3])
        /\ u[3] \in Octet /\ v[3] \in Octet /\ w[3] \in Octet /\ k[3] \in Octet
    BY <1>4, <1>5, WordParts
  <2>4. /\ l[4] = (u[4] ^^ v[4]) ^^ (w[4] ^^ k[4]) /\ r[4] = (w[4] ^^ v[4]) ^^ (u[4] ^^ k[4])
        /\ u[4] \in Octet /\ v[4] \in Octet /\ w[4] \in Octet /\ k[4] \in Octet
    BY <1>4, <1>5, WordParts
  <2>5. l[1] = r[1]
    BY <2>1, XorSwap
  <2>6. l[2] = r[2]
    BY <2>2, XorSwap
  <2>7. l[3] = r[3]
    BY <2>3, XorSwap
  <2>8. l[4] = r[4]
    BY <2>4, XorSwap
  <2>. QED BY <2>5, <2>6, <2>7, <2>8
<1>7. l = r
  BY <1>2, <1>6, SameWord DEF Word
<1>. QED BY <1>7 DEF l, r

(***************************************************************************)
(* One round.                                                              *)
(***************************************************************************)
(* The rotations of a word have bytes.                                     *)
Turns == {0, 2, 5, 7}

(* A byte of a rotated word is a byte, for each rotation that l_round and  *)
(* l_prime use.                                                            *)
LEMMA ShiftedOctet ==
    ASSUME NEW a \in Octet, NEW b \in Octet, NEW n \in Turns,
           NEW r, r = ((a * Powers[n + 1]) % 256) + (b \div Powers[9 - n])
    PROVE  r \in Octet
<1>1. CASE n = 0
  BY <1>1 DEF Octet, Powers
<1>2. CASE n = 2
  BY <1>2 DEF Octet, Powers
<1>3. CASE n = 5
  BY <1>3 DEF Octet, Powers
<1>4. CASE n = 7
  BY <1>4 DEF Octet, Powers
<1>. QED BY <1>1, <1>2, <1>3, <1>4 DEF Turns

(* Rotated returns a byte wherever the rounds use it. *)
LEMMA RotatedOctet ==
    ASSUME NEW w \in Word, NEW m \in 0..3, NEW n \in Turns, NEW i \in 1..4
    PROVE  Rotated(w, m, n, i) \in Octet
<1>1. \A k \in 0..4 : ((k + m) % 4) + 1 \in 1..4
  OBVIOUS
<1>2. \A k \in 0..4 : w[((k + m) % 4) + 1] \in Octet
  BY <1>1 DEF Word
<1>3. i - 1 \in 0..4 /\ i \in 0..4
  OBVIOUS
<1>4. w[(((i - 1) + m) % 4) + 1] \in Octet /\ w[((i + m) % 4) + 1] \in Octet
  BY <1>2, <1>3
<1>5. PICK a \in Octet : a = w[(((i - 1) + m) % 4) + 1]
  BY <1>4
<1>6. PICK b \in Octet : b = w[((i + m) % 4) + 1]
  BY <1>4
<1>7. Rotated(w, m, n, i) = ((a * Powers[n + 1]) % 256) + (b \div Powers[9 - n])
  BY <1>5, <1>6 DEF Rotated
<1>8. PICK r : r = ((a * Powers[n + 1]) % 256) + (b \div Powers[9 - n])
  OBVIOUS
<1>9. r \in Octet
  BY <1>8, ShiftedOctet, Zenon
<1>. QED BY <1>7, <1>8, <1>9

(* The linear layers of a round and of the key schedule return words. *)
LEMMA SpreadTyped ==
    ASSUME NEW b \in Word
    PROVE  Spread(b) \in Word /\ SpreadKey(b) \in Word
<1>1. ASSUME NEW i \in 1..4
      PROVE  l_round(b, i) \in Octet /\ l_prime(b, i) \in Octet
  <2>1. b[i] \in Octet
    BY DEF Word
  <2>2. /\ Rotated(b, 0, 2, i) \in Octet /\ Rotated(b, 1, 2, i) \in Octet
        /\ Rotated(b, 2, 2, i) \in Octet /\ Rotated(b, 3, 0, i) \in Octet
        /\ Rotated(b, 1, 5, i) \in Octet /\ Rotated(b, 2, 7, i) \in Octet
    BY RotatedOctet DEF Turns
  <2>. QED BY <2>1, <2>2, XorOctets DEF l_round, l_prime
<1>. QED BY <1>1 DEF Spread, SpreadKey, Word

(* The substitution of the four bytes of a word returns a word. *)
LEMMA TauTyped ==
    ASSUME NEW w \in Word
    PROVE  tau(w) \in Word
  BY SboxOctets DEF tau, Word

(* What a round substitutes is a word. *)
LEMMA RoundInputTyped ==
    ASSUME NEW x \in Window, NEW k \in Word
    PROVE  RoundInput(x, k) \in Word
<1>1. x[2] \in Word /\ x[3] \in Word /\ x[4] \in Word
  BY DEF Window
<1>2. WordXor(x[2], x[3]) \in Word /\ WordXor(x[4], k) \in Word
  BY <1>1, WordXorTyped
<1>. QED BY <1>2, WordXorTyped DEF RoundInput

(* What a round adds to the oldest word.                                   *)
Mixed(x, k) == Spread(tau(RoundInput(x, k)))

(* What a round adds is a word. *)
LEMMA MixedTyped ==
    ASSUME NEW x \in Window, NEW k \in Word
    PROVE  Mixed(x, k) \in Word
  BY RoundInputTyped, TauTyped, SpreadTyped DEF Mixed

(* A round drops the oldest word and adds one at the end. *)
LEMMA RoundIs ==
    ASSUME NEW x, NEW k
    PROVE  t_round(x, k) = <<x[2], x[3], x[4], WordXor(x[1], Mixed(x, k))>>
  BY DEF t_round, With, NextWindow, Mixed

(* Four words are a window. *)
LEMMA WindowIs ==
    ASSUME NEW a \in Word, NEW b \in Word, NEW c \in Word, NEW d \in Word
    PROVE  <<a, b, c, d>> \in Window
  BY DEF Window

(* A round makes a window of a window. *)
LEMMA RoundTyped ==
    ASSUME NEW x \in Window, NEW k \in Word
    PROVE  t_round(x, k) \in Window
<1>1. x[1] \in Word /\ x[2] \in Word /\ x[3] \in Word /\ x[4] \in Word
  BY DEF Window
<1>2. WordXor(x[1], Mixed(x, k)) \in Word
  BY <1>1, MixedTyped, WordXorTyped
<1>. QED BY <1>1, <1>2, WindowIs, RoundIs

(* A round of the key schedule makes a window of a window. *)
LEMMA KeyRoundTyped ==
    ASSUME NEW x \in Window, NEW k \in Word
    PROVE  t_prime(x, k) \in Window
<1>1. x[1] \in Word /\ x[2] \in Word /\ x[3] \in Word /\ x[4] \in Word
  BY DEF Window
<1>. DEFINE m == SpreadKey(tau(RoundInput(x, k)))
<1>2. m \in Word
  BY RoundInputTyped, TauTyped, SpreadTyped
<1>3. t_prime(x, k) = <<x[2], x[3], x[4], WordXor(x[1], m)>>
  BY DEF t_prime, With, NextWindow
<1>. HIDE DEF m
<1>4. WordXor(x[1], m) \in Word
  BY <1>1, <1>2, WordXorTyped
<1>. QED BY <1>1, <1>3, <1>4, WindowIs

(* A round on the words in the opposite order takes back the round before. *)
Backwards(x) == <<x[4], x[3], x[2], x[1]>>

(* A round on the words in the opposite order takes back the round before. *)
LEMMA RoundUndone ==
    ASSUME NEW x \in Window, NEW k \in Word
    PROVE  t_round(Backwards(t_round(x, k)), k) = Backwards(x)
<1>1. x[1] \in Word /\ x[2] \in Word /\ x[3] \in Word /\ x[4] \in Word
  BY DEF Window
<1>2. PICK m \in Word : m = Mixed(x, k)
  BY MixedTyped
<1>3. PICK y \in Word : y = WordXor(x[1], m)
  BY <1>1, WordXorTyped
<1>4. t_round(x, k) = <<x[2], x[3], x[4], y>>
  BY <1>2, <1>3, RoundIs
<1>5. Backwards(t_round(x, k)) = <<y, x[4], x[3], x[2]>>
  BY <1>4 DEF Backwards
<1>6. RoundInput(Backwards(t_round(x, k)), k) = RoundInput(x, k)
  <2>1. RoundInput(Backwards(t_round(x, k)), k) = WordXor(WordXor(x[4], x[3]), WordXor(x[2], k))
    BY <1>5 DEF RoundInput
  <2>. QED BY <1>1, <2>1, WordXorReversed DEF RoundInput
<1>7. Mixed(Backwards(t_round(x, k)), k) = m
  BY <1>2, <1>6 DEF Mixed
<1>8. WordXor(y, m) = x[1]
  BY <1>1, <1>3, WordXorUndone
<1>9. t_round(Backwards(t_round(x, k)), k) = <<x[4], x[3], x[2], WordXor(y, m)>>
  BY <1>5, <1>7, RoundIs
<1>. QED BY <1>8, <1>9 DEF Backwards

(***************************************************************************)
(* Blocks and their words.                                                 *)
(***************************************************************************)
Block == [1..BlockLen -> Octet]

(* A function on 1..n with values in S is a sequence of length n.          *)
LEMMA RunTyped ==
    ASSUME NEW S, NEW n \in Nat, NEW f \in [1..n -> S]
    PROVE  f \in Seq(S) /\ Len(f) = n /\ IsRun(f, n)
<1>1. IsRun(f, n) /\ \A j \in 1..n : f[j] \in S
  BY DEF IsRun
<1>2. f \in Seq(S) /\ Len(f) = n
  BY <1>1, FcnIsSeq
<1>. QED BY <1>1, <1>2

(* A sequence of n elements of S is a function from 1..n to S. *)
LEMMA SeqTyped ==
    ASSUME NEW S, NEW s \in Seq(S), NEW n, Len(s) = n
    PROVE  s \in [1..n -> S]
  OBVIOUS

(* A block is four words.                                                  *)
LEMMA WordAt ==
    ASSUME NEW b \in Block, NEW a \in 0..12
    PROVE  SubSeq(b, a + 1, a + 4) = <<b[a + 1], b[a + 2], b[a + 3], b[a + 4]>>
<1>. DEFINE u == <<b[a + 1], b[a + 2], b[a + 3], b[a + 4]>>
<1>1. BlockLen \in Nat /\ a + 4 <= BlockLen /\ a \in Nat
  BY DEF BlockLen
<1>2. b \in Seq(Octet) /\ Len(b) = BlockLen
  BY <1>1, RunTyped DEF Block
<1>3. IsRun(u, 4) /\ u[1] = b[a + 1] /\ u[2] = b[a + 2] /\ u[3] = b[a + 3] /\ u[4] = b[a + 4]
  BY DEF IsRun
<1>. HIDE DEF u
<1>4. \A l \in 1..4 : l = 1 \/ l = 2 \/ l = 3 \/ l = 4
  OBVIOUS
<1>5. \A l \in 1..4 : u[l] = b[a + l]
  BY <1>3, <1>4
<1>6. PICK x \in Nat, y \in Nat, c \in Nat : x = a + 1 /\ y = a + c /\ c = 4 /\ y <= Len(b)
  BY <1>1, <1>2
<1>7. Copies(u, b, a, c, x, y) /\ b \in Seq(Octet) /\ a \in Nat
  BY <1>1, <1>2, <1>3, <1>5, <1>6 DEF Copies
<1>8. SubSeq(b, x, y) = u
  BY <1>7, CopiesIs
<1>. QED BY <1>6, <1>8 DEF u

(* The words of a block are its bytes, four by four. *)
LEMMA WordsAre ==
    ASSUME NEW b \in Block
    PROVE  /\ Words(b) \in Window
           /\ Words(b)[1] = <<b[1], b[2], b[3], b[4]>> /\ Words(b)[2] = <<b[5], b[6], b[7], b[8]>>
           /\ Words(b)[3] = <<b[9], b[10], b[11], b[12]>> /\ Words(b)[4] = <<b[13], b[14], b[15], b[16]>>
<1>1. Len(b) \div 4 = 4
  <2>1. Len(b) = BlockLen
    BY RunTyped DEF Block, BlockLen
  <2>. QED BY <2>1 DEF BlockLen
<1>2. Words(b) = [w \in 1..4 |-> SubSeq(b, 4 * w - 3, 4 * w)]
  BY <1>1 DEF Words
<1>3. /\ Words(b)[1] = SubSeq(b, 0 + 1, 0 + 4) /\ Words(b)[2] = SubSeq(b, 4 + 1, 4 + 4)
      /\ Words(b)[3] = SubSeq(b, 8 + 1, 8 + 4) /\ Words(b)[4] = SubSeq(b, 12 + 1, 12 + 4)
  BY <1>2
<1>4. Words(b)[1] = <<b[1], b[2], b[3], b[4]>>
  BY <1>3, WordAt
<1>5. Words(b)[2] = <<b[5], b[6], b[7], b[8]>>
  BY <1>3, WordAt
<1>6. Words(b)[3] = <<b[9], b[10], b[11], b[12]>>
  BY <1>3, WordAt
<1>7. Words(b)[4] = <<b[13], b[14], b[15], b[16]>>
  BY <1>3, WordAt
<1>8. \A k \in 1..16 : b[k] \in Octet
  BY DEF Block, BlockLen
<1>9. Words(b)[1] \in Word /\ Words(b)[2] \in Word /\ Words(b)[3] \in Word /\ Words(b)[4] \in Word
  <2>1. <<b[1], b[2], b[3], b[4]>> \in Word
    BY <1>8, WordIs
  <2>2. <<b[5], b[6], b[7], b[8]>> \in Word
    BY <1>8, WordIs
  <2>3. <<b[9], b[10], b[11], b[12]>> \in Word
    BY <1>8, WordIs
  <2>4. <<b[13], b[14], b[15], b[16]>> \in Word
    BY <1>8, WordIs
  <2>. QED BY <1>4, <1>5, <1>6, <1>7, <2>1, <2>2, <2>3, <2>4, Zenon
<1>10. \A w \in 1..4 : w = 1 \/ w = 2 \/ w = 3 \/ w = 4
  OBVIOUS
<1>11. \A w \in 1..4 : Words(b)[w] \in Word
  BY <1>9, <1>10
<1>12. Words(b) \in Window
  BY <1>2, <1>11 DEF Window
<1>. QED BY <1>4, <1>5, <1>6, <1>7, <1>12

(* Four words are a block.                                                 *)
LEMMA WordBehindWord ==
    ASSUME NEW a, IsRun(a, 4), NEW b \in Word
    PROVE  a \o b = <<a[1], a[2], a[3], a[4], b[1], b[2], b[3], b[4]>>
<1>. DEFINE w == <<a[1], a[2], a[3], a[4], b[1], b[2], b[3], b[4]>>
<1>1. PICK n \in Nat, m \in Nat : n = 4 /\ m = 4
  OBVIOUS
<1>2. IsRun(a, m) /\ IsRun(b, n)
  <2>1. IsRun(b, 4)
    BY RunTyped DEF Word
  <2>. QED BY <1>1, <2>1
<1>3. IsRun(w, m + n)
  BY <1>1 DEF IsRun
<1>4. \A j \in 1..n : (j = 1 \/ j = 2) \/ (j = 3 \/ j = 4)
  BY <1>1
<1>5. /\ w[1] = a[1] /\ w[2] = a[2] /\ w[3] = a[3] /\ w[4] = a[4]
      /\ w[5] = b[1] /\ w[6] = b[2] /\ w[7] = b[3] /\ w[8] = b[4]
  OBVIOUS
<1>. HIDE DEF w
<1>6. \A j \in 1..n : w[m + j] = b[j]
  BY <1>1, <1>4, <1>5
<1>7. \A j \in 1..m : w[j] = a[j]
  <2>1. \A j \in 1..m : (j = 1 \/ j = 2 \/ j = 3 \/ j = 4)
    BY <1>1
  <2>. QED BY <1>5, <2>1
<1>8. w = a \o b
  BY <1>2, <1>3, <1>6, <1>7, JoinIs
<1>. QED BY <1>8 DEF w

(* A word behind eight bytes. *)
LEMMA WordBehindTwo ==
    ASSUME NEW a, IsRun(a, 8), NEW b \in Word
    PROVE  a \o b = <<a[1], a[2], a[3], a[4], a[5], a[6], a[7], a[8], b[1], b[2], b[3], b[4]>>
<1>. DEFINE w == <<a[1], a[2], a[3], a[4], a[5], a[6], a[7], a[8], b[1], b[2], b[3], b[4]>>
<1>1. PICK n \in Nat, m \in Nat : n = 4 /\ m = 8
  OBVIOUS
<1>2. IsRun(a, m) /\ IsRun(b, n)
  <2>1. IsRun(b, 4)
    BY RunTyped DEF Word
  <2>. QED BY <1>1, <2>1
<1>3. IsRun(w, m + n)
  BY <1>1 DEF IsRun
<1>4. \A j \in 1..n : (j = 1 \/ j = 2) \/ (j = 3 \/ j = 4)
  BY <1>1
<1>5. /\ w[1] = a[1] /\ w[2] = a[2] /\ w[3] = a[3] /\ w[4] = a[4]
      /\ w[5] = a[5] /\ w[6] = a[6] /\ w[7] = a[7] /\ w[8] = a[8]
      /\ w[9] = b[1] /\ w[10] = b[2] /\ w[11] = b[3] /\ w[12] = b[4]
  OBVIOUS
<1>. HIDE DEF w
<1>6. \A j \in 1..n : w[m + j] = b[j]
  BY <1>1, <1>4, <1>5
<1>7. \A j \in 1..m : w[j] = a[j]
  <2>1. \A j \in 1..m : (j = 1 \/ j = 2 \/ j = 3 \/ j = 4) \/ (j = 5 \/ j = 6 \/ j = 7 \/ j = 8)
    BY <1>1
  <2>. QED BY <1>5, <2>1
<1>8. w = a \o b
  BY <1>2, <1>3, <1>6, <1>7, JoinIs
<1>. QED BY <1>8 DEF w

(* A word behind twelve bytes. *)
LEMMA WordBehindThree ==
    ASSUME NEW a, IsRun(a, 12), NEW b \in Word
    PROVE  a \o b = <<a[1], a[2], a[3], a[4], a[5], a[6], a[7], a[8], a[9], a[10], a[11], a[12], b[1], b[2], b[3], b[4]>>
<1>. DEFINE w == <<a[1], a[2], a[3], a[4], a[5], a[6], a[7], a[8], a[9], a[10], a[11], a[12], b[1], b[2], b[3], b[4]>>
<1>1. PICK n \in Nat, m \in Nat : n = 4 /\ m = 12
  OBVIOUS
<1>2. IsRun(a, m) /\ IsRun(b, n)
  <2>1. IsRun(b, 4)
    BY RunTyped DEF Word
  <2>. QED BY <1>1, <2>1
<1>3. IsRun(w, m + n)
  BY <1>1 DEF IsRun
<1>4. \A j \in 1..n : (j = 1 \/ j = 2) \/ (j = 3 \/ j = 4)
  BY <1>1
<1>5. /\ w[1] = a[1] /\ w[2] = a[2] /\ w[3] = a[3] /\ w[4] = a[4]
      /\ w[5] = a[5] /\ w[6] = a[6] /\ w[7] = a[7] /\ w[8] = a[8]
      /\ w[9] = a[9] /\ w[10] = a[10] /\ w[11] = a[11] /\ w[12] = a[12]
      /\ w[13] = b[1] /\ w[14] = b[2] /\ w[15] = b[3] /\ w[16] = b[4]
  OBVIOUS
<1>. HIDE DEF w
<1>6. \A j \in 1..n : w[m + j] = b[j]
  BY <1>1, <1>4, <1>5
<1>7. \A j \in 1..m : w[j] = a[j]
  <2>1. \A j \in 1..m : (j = 1 \/ j = 2 \/ j = 3 \/ j = 4) \/ (j = 5 \/ j = 6 \/ j = 7 \/ j = 8) \/ (j = 9 \/ j = 10 \/ j = 11 \/ j = 12)
    BY <1>1
  <2>. QED BY <1>5, <2>1
<1>8. w = a \o b
  BY <1>2, <1>3, <1>6, <1>7, JoinIs
<1>. QED BY <1>8 DEF w

(* Four words written one behind the other are a block. *)
LEMMA FourWords ==
    ASSUME NEW a \in Word, NEW b \in Word, NEW c \in Word, NEW d \in Word
    PROVE  /\ ((a \o b) \o c) \o d = <<a[1], a[2], a[3], a[4], b[1], b[2], b[3], b[4],
                                     c[1], c[2], c[3], c[4], d[1], d[2], d[3], d[4]>>
           /\ ((a \o b) \o c) \o d \in Block
<1>1. PICK p : p = a \o b /\ p = <<a[1], a[2], a[3], a[4], b[1], b[2], b[3], b[4]>>
  <2>1. IsRun(a, 4)
    BY RunTyped DEF Word
  <2>. QED BY <2>1, WordBehindWord
<1>2. PICK q : q = p \o c /\ q = <<a[1], a[2], a[3], a[4], b[1], b[2], b[3], b[4], c[1], c[2], c[3], c[4]>>
  <2>1. IsRun(p, 8)
    BY <1>1 DEF IsRun
  <2>2. p \o c = <<p[1], p[2], p[3], p[4], p[5], p[6], p[7], p[8], c[1], c[2], c[3], c[4]>>
    BY <2>1, WordBehindTwo
  <2>3. /\ p[1] = a[1] /\ p[2] = a[2] /\ p[3] = a[3] /\ p[4] = a[4]
        /\ p[5] = b[1] /\ p[6] = b[2] /\ p[7] = b[3] /\ p[8] = b[4]
    BY <1>1
  <2>4. p \o c = <<a[1], a[2], a[3], a[4], b[1], b[2], b[3], b[4], c[1], c[2], c[3], c[4]>>
    BY <2>2, <2>3
  <2>5. PICK q : q = p \o c
    OBVIOUS
  <2>. QED BY <2>4, <2>5
<1>3. q \o d = <<a[1], a[2], a[3], a[4], b[1], b[2], b[3], b[4], c[1], c[2], c[3], c[4], d[1], d[2], d[3], d[4]>>
  <2>1. IsRun(q, 12)
    BY <1>2 DEF IsRun
  <2>2. q \o d = <<q[1], q[2], q[3], q[4], q[5], q[6], q[7], q[8], q[9], q[10], q[11], q[12], d[1], d[2], d[3], d[4]>>
    BY <2>1, WordBehindThree
  <2>. QED BY <1>2, <2>2
<1>4. <<a[1], a[2], a[3], a[4], b[1], b[2], b[3], b[4], c[1], c[2], c[3], c[4], d[1], d[2], d[3], d[4]>> \in Block
  BY WordParts DEF Block, BlockLen
<1>. QED BY <1>1, <1>2, <1>3, <1>4

(* The parts of a window are words. *)
LEMMA WindowParts ==
    ASSUME NEW x \in Window
    PROVE  x[1] \in Word /\ x[2] \in Word /\ x[3] \in Word /\ x[4] \in Word
  BY DEF Window

(* The opposite order of a window is a window, and its opposite order is   *)
(* the window.                                                             *)
LEMMA BackwardsTyped ==
    ASSUME NEW x \in Window
    PROVE  Backwards(x) \in Window /\ Backwards(Backwards(x)) = x
<1>1. Backwards(x) \in Window
  BY WindowParts, WindowIs DEF Backwards
<1>2. Backwards(Backwards(x)) = <<x[1], x[2], x[3], x[4]>>
  BY DEF Backwards
<1>3. Backwards(Backwards(x)) \in Window
  BY <1>2, WindowParts, WindowIs
<1>4. Backwards(Backwards(x)) = x
  BY <1>2, <1>3, SameWord DEF Window
<1>. QED BY <1>1, <1>4

(* A word is the tuple of its parts. *)
LEMMA WordByParts ==
    ASSUME NEW w \in Word
    PROVE  <<w[1], w[2], w[3], w[4]>> = w
<1>1. <<w[1], w[2], w[3], w[4]>> \in Word
  BY WordParts, WordIs
<1>. QED BY <1>1, SameWord DEF Word

(* A window is written out with its last word first. *)
LEMMA UnwoundIs ==
    ASSUME NEW x \in Window
    PROVE  /\ Unwound(x) = <<x[4][1], x[4][2], x[4][3], x[4][4], x[3][1], x[3][2], x[3][3], x[3][4],
                             x[2][1], x[2][2], x[2][3], x[2][4], x[1][1], x[1][2], x[1][3], x[1][4]>>
           /\ Unwound(x) \in Block
<1>1. PICK a \in Word, b \in Word, c \in Word, d \in Word :
         a = x[4] /\ b = x[3] /\ c = x[2] /\ d = x[1]
  BY WindowParts
<1>2. Unwound(x) = ((a \o b) \o c) \o d
  BY <1>1 DEF Unwound
<1>3. /\ Unwound(x) = <<a[1], a[2], a[3], a[4], b[1], b[2], b[3], b[4],
                        c[1], c[2], c[3], c[4], d[1], d[2], d[3], d[4]>>
      /\ Unwound(x) \in Block
  BY <1>2, FourWords
<1>. QED BY <1>1, <1>3

(* The words of what a window is written out as, and back.                 *)
LEMMA WordsOfUnwound ==
    ASSUME NEW x \in Window
    PROVE  Unwound(x) \in Block /\ Words(Unwound(x)) = Backwards(x)
<1>1. x[1] \in Word /\ x[2] \in Word /\ x[3] \in Word /\ x[4] \in Word
  BY WindowParts
<1>2. PICK r \in Block : r = Unwound(x)
  BY UnwoundIs
<1>3. /\ r[1] = x[4][1] /\ r[2] = x[4][2] /\ r[3] = x[4][3] /\ r[4] = x[4][4]
      /\ r[5] = x[3][1] /\ r[6] = x[3][2] /\ r[7] = x[3][3] /\ r[8] = x[3][4]
      /\ r[9] = x[2][1] /\ r[10] = x[2][2] /\ r[11] = x[2][3] /\ r[12] = x[2][4]
      /\ r[13] = x[1][1] /\ r[14] = x[1][2] /\ r[15] = x[1][3] /\ r[16] = x[1][4]
  BY <1>2, UnwoundIs
<1>4. PICK y : y = Words(r)
  OBVIOUS
<1>5. /\ y \in Window
      /\ y[1] = <<r[1], r[2], r[3], r[4]>> /\ y[2] = <<r[5], r[6], r[7], r[8]>>
      /\ y[3] = <<r[9], r[10], r[11], r[12]>> /\ y[4] = <<r[13], r[14], r[15], r[16]>>
  BY <1>4, WordsAre
<1>6. /\ y[1] = <<x[4][1], x[4][2], x[4][3], x[4][4]>> /\ y[2] = <<x[3][1], x[3][2], x[3][3], x[3][4]>>
      /\ y[3] = <<x[2][1], x[2][2], x[2][3], x[2][4]>> /\ y[4] = <<x[1][1], x[1][2], x[1][3], x[1][4]>>
  BY <1>3, <1>5
<1>7. y[1] = x[4] /\ y[2] = x[3] /\ y[3] = x[2] /\ y[4] = x[1]
  BY <1>1, <1>6, WordByParts
<1>8. Backwards(x) \in Window
  BY BackwardsTyped
<1>9. Backwards(x)[1] = x[4] /\ Backwards(x)[2] = x[3] /\ Backwards(x)[3] = x[2] /\ Backwards(x)[4] = x[1]
  BY DEF Backwards
<1>10. y = Backwards(x)
  BY <1>5, <1>7, <1>8, <1>9, SameWord DEF Window
<1>. QED BY <1>2, <1>4, <1>10

(* Writing out the words of a block in the opposite order gives the block. *)
LEMMA UnwoundOfWords ==
    ASSUME NEW b \in Block
    PROVE  Unwound(Backwards(Words(b))) = b
<1>1. PICK x \in Window : /\ x = Words(b)
      /\ x[1] = <<b[1], b[2], b[3], b[4]>> /\ x[2] = <<b[5], b[6], b[7], b[8]>>
      /\ x[3] = <<b[9], b[10], b[11], b[12]>> /\ x[4] = <<b[13], b[14], b[15], b[16]>>
  BY WordsAre
<1>2. PICK z \in Window : z = Backwards(x)
  BY BackwardsTyped
<1>3. z[1] = x[4] /\ z[2] = x[3] /\ z[3] = x[2] /\ z[4] = x[1]
  BY <1>2 DEF Backwards
<1>4. PICK r \in Block : r = Unwound(z)
  BY UnwoundIs
<1>5. /\ r[1] = z[4][1] /\ r[2] = z[4][2] /\ r[3] = z[4][3] /\ r[4] = z[4][4]
      /\ r[5] = z[3][1] /\ r[6] = z[3][2] /\ r[7] = z[3][3] /\ r[8] = z[3][4]
      /\ r[9] = z[2][1] /\ r[10] = z[2][2] /\ r[11] = z[2][3] /\ r[12] = z[2][4]
      /\ r[13] = z[1][1] /\ r[14] = z[1][2] /\ r[15] = z[1][3] /\ r[16] = z[1][4]
  BY <1>4, UnwoundIs
<1>6. /\ r[1] = b[1] /\ r[2] = b[2] /\ r[3] = b[3] /\ r[4] = b[4]
      /\ r[5] = b[5] /\ r[6] = b[6] /\ r[7] = b[7] /\ r[8] = b[8]
      /\ r[9] = b[9] /\ r[10] = b[10] /\ r[11] = b[11] /\ r[12] = b[12]
      /\ r[13] = b[13] /\ r[14] = b[14] /\ r[15] = b[15] /\ r[16] = b[16]
  BY <1>1, <1>3, <1>5
<1>7. \A k \in 1..16 : ((k = 1 \/ k = 2 \/ k = 3 \/ k = 4) \/ (k = 5 \/ k = 6 \/ k = 7 \/ k = 8))
         \/ ((k = 9 \/ k = 10 \/ k = 11 \/ k = 12) \/ (k = 13 \/ k = 14 \/ k = 15 \/ k = 16))
  OBVIOUS
<1>8. \A k \in 1..16 : r[k] = b[k]
  BY <1>6, <1>7
<1>9. r = b
  BY <1>8 DEF Block, BlockLen
<1>. QED BY <1>1, <1>2, <1>4, <1>9

(***************************************************************************)
(* The rounds.                                                             *)
(***************************************************************************)
(* f goes from the window x on by rounds with the keys of k.               *)
Rolls(f, x, k) ==
    /\ f \in [0..Rounds -> Window] /\ f[0] = x
    /\ \A i \in 1..Rounds : f[i] = t_round(f[i - 1], k[i])

(* There are windows that go on from x by rounds. *)
LEMMA WindowsOf ==
    ASSUME NEW x \in Window, NEW k \in [1..Rounds -> Word]
    PROVE  \E f \in [0..Rounds -> Window] :
              /\ f = [i \in 0..Rounds |-> IF i = 0 THEN x ELSE t_round(f[i - 1], k[i])]
<1>. DEFINE s == [a \in Nat \X Window |-> IF a[1] \in 1..Rounds THEN t_round(a[2], k[a[1]]) ELSE x]
<1>1. ASSUME NEW i \in Nat, NEW y \in Window
      PROVE  (IF i \in 1..Rounds THEN t_round(y, k[i]) ELSE x) \in Window
  BY RoundTyped
<1>2. s \in [Nat \X Window -> Window]
  BY <1>1
<1>3. \A i \in 1..Rounds : \A y \in Window : s[<<i, y>>] = t_round(y, k[i])
  OBVIOUS
<1>4. Rounds \in Nat
  BY DEF Rounds
<1>. HIDE DEF s
<1>5. PICK f \in [0..Rounds -> Window] : Stepwise(f, x, s, Rounds)
  BY <1>2, <1>4, Recursion
<1>6. f = [i \in 0..Rounds |-> IF i = 0 THEN x ELSE s[<<i, f[i - 1]>>]]
  BY <1>5 DEF Stepwise
<1>7. ASSUME NEW i \in 0..Rounds
      PROVE  f[i] = IF i = 0 THEN x ELSE t_round(f[i - 1], k[i])
  <2>1. i # 0 => i \in 1..Rounds /\ f[i - 1] \in Window
    BY <1>4
  <2>. QED BY <1>3, <1>6, <2>1
<1>8. f = [i \in 0..Rounds |-> IF i = 0 THEN x ELSE t_round(f[i - 1], k[i])]
  BY <1>7
<1>. QED BY <1>8

(* The keys in the order in which a direction uses them.                   *)
KeysOf(rk, reverse) == [i \in 1..Rounds |-> KeyAt(rk, reverse, i)]

(* The keys in the order of use are words. *)
LEMMA KeysTyped ==
    ASSUME NEW rk \in [1..Rounds -> Word], NEW reverse \in BOOLEAN
    PROVE  KeysOf(rk, reverse) \in [1..Rounds -> Word]
  BY DEF KeysOf, KeyAt, Rounds

(* The cipher is the last of the windows, written out.                     *)
LEMMA CryptIs ==
    ASSUME NEW b \in Block, NEW rk \in [1..Rounds -> Word], NEW reverse \in BOOLEAN
    PROVE  \E f : Rolls(f, Words(b), KeysOf(rk, reverse)) /\ crypt(b, rk, reverse) = Unwound(f[Rounds])
<1>. DEFINE k == KeysOf(rk, reverse)
            P(f) == f = [i \in 0..Rounds |-> IF i = 0 THEN Words(b) ELSE t_round(f[i - 1], KeyAt(rk, reverse, i))]
            g == CHOOSE f : P(f)
<1>1. crypt(b, rk, reverse) = Unwound(g[Rounds])
  BY DEF crypt, With
<1>2. Words(b) \in Window /\ k \in [1..Rounds -> Word] /\ Rounds \in Nat
  BY WordsAre, KeysTyped DEF Rounds
<1>3. \A i \in 1..Rounds : k[i] = KeyAt(rk, reverse, i)
  BY DEF KeysOf
<1>. HIDE DEF k
<1>4. PICK f \in [0..Rounds -> Window] :
         f = [i \in 0..Rounds |-> IF i = 0 THEN Words(b) ELSE t_round(f[i - 1], k[i])]
  BY <1>2, WindowsOf
<1>5. P(f)
  <2>1. ASSUME NEW i \in 0..Rounds
        PROVE  f[i] = IF i = 0 THEN Words(b) ELSE t_round(f[i - 1], KeyAt(rk, reverse, i))
    <3>1. i # 0 => i \in 1..Rounds
      BY <1>2
    <3>. QED BY <1>3, <1>4, <3>1
  <2>. QED BY <1>4, <2>1
<1>. HIDE DEF P
<1>6. P(g)
  BY <1>5
<1>. HIDE DEF g
<1>7. /\ g = [i \in 0..Rounds |-> g[i]] /\ g[0] = Words(b)
      /\ \A i \in 1..Rounds : g[i] = t_round(g[i - 1], k[i])
  <2>1. g = [i \in 0..Rounds |-> IF i = 0 THEN Words(b) ELSE t_round(g[i - 1], KeyAt(rk, reverse, i))]
    BY <1>6 DEF P
  <2>2. 0 \in 0..Rounds /\ \A i \in 1..Rounds : i \in 0..Rounds /\ i # 0
    BY <1>2
  <2>. QED BY <1>3, <2>1, <2>2
<1>. DEFINE S == {i \in Nat : i \in 0..Rounds => g[i] \in Window}
<1>8. 0 \in S
  BY <1>2, <1>7
<1>9. ASSUME NEW i \in Nat, i \in S PROVE i + 1 \in S
  <2>. SUFFICES ASSUME i + 1 \in 0..Rounds PROVE g[i + 1] \in Window
    OBVIOUS
  <2>1. i \in 0..Rounds /\ i + 1 \in 1..Rounds /\ (i + 1) - 1 = i
    BY <1>2
  <2>2. g[i + 1] = t_round(g[i], k[i + 1])
    BY <1>7, <2>1
  <2>. QED BY <1>2, <1>9, <2>1, <2>2, RoundTyped
<1>. HIDE DEF S
<1>10. Nat \subseteq S
  BY <1>8, <1>9, NatClosure
<1>11. g \in [0..Rounds -> Window]
  <2>1. \A i \in 0..Rounds : g[i] \in Window
    BY <1>2, <1>10 DEF S
  <2>. QED BY <1>7, <2>1
<1>12. Rolls(g, Words(b), k)
  BY <1>7, <1>11 DEF Rolls
<1>. QED BY <1>1, <1>12 DEF k

(* A block encrypts to a block.                                            *)
LEMMA CryptTyped ==
    ASSUME NEW b \in Block, NEW rk \in [1..Rounds -> Word], NEW reverse \in BOOLEAN
    PROVE  crypt(b, rk, reverse) \in Block
<1>1. PICK f : Rolls(f, Words(b), KeysOf(rk, reverse)) /\ crypt(b, rk, reverse) = Unwound(f[Rounds])
  BY CryptIs
<1>2. f[Rounds] \in Window
  BY <1>1 DEF Rolls, Rounds
<1>. QED BY <1>1, <1>2, UnwoundIs

(* Decryption goes through the windows of encryption from the last to the  *)
(* first, each with its words in the opposite order.                       *)
THEOREM CryptUndone ==
    ASSUME NEW b \in Block, NEW rk \in [1..Rounds -> Word], NEW reverse \in BOOLEAN
    PROVE  crypt(crypt(b, rk, reverse), rk, ~reverse) = b
<1>0. Rounds \in Nat
  BY DEF Rounds
<1>1. PICK f : Rolls(f, Words(b), KeysOf(rk, reverse)) /\ crypt(b, rk, reverse) = Unwound(f[Rounds])
  BY CryptIs
<1>2. PICK c \in Block : c = crypt(b, rk, reverse)
  BY CryptTyped
<1>3. PICK q \in BOOLEAN : q = ~reverse
  OBVIOUS
<1>4. PICK g : Rolls(g, Words(c), KeysOf(rk, q)) /\ crypt(c, rk, q) = Unwound(g[Rounds])
  BY CryptIs
<1>5. f \in [0..Rounds -> Window] /\ f[Rounds] \in Window /\ f[0] = Words(b)
  BY <1>0, <1>1 DEF Rolls
<1>6. g[0] = Backwards(f[Rounds])
  BY <1>1, <1>2, <1>4, <1>5, WordsOfUnwound DEF Rolls
<1>7. ASSUME NEW i \in 1..Rounds
      PROVE  /\ Rounds - i \in 0..Rounds /\ Rounds + 1 - i \in 1..Rounds
             /\ KeysOf(rk, reverse)[Rounds + 1 - i] = KeysOf(rk, q)[i]
             /\ KeysOf(rk, q)[i] \in Word
             /\ f[Rounds + 1 - i] = t_round(f[Rounds - i], KeysOf(rk, q)[i])
             /\ g[i] = t_round(g[i - 1], KeysOf(rk, q)[i])
  <2>1. PICK j \in 1..Rounds : j = Rounds + 1 - i /\ i = Rounds + 1 - j /\ j - 1 = Rounds - i /\ j - 1 \in 0..Rounds
    BY <1>0
  <2>2. KeysOf(rk, reverse)[j] = KeysOf(rk, q)[i]
    BY <1>3, <2>1 DEF KeysOf, KeyAt
  <2>3. f[j] = t_round(f[j - 1], KeysOf(rk, reverse)[j])
    BY <1>1 DEF Rolls
  <2>4. g[i] = t_round(g[i - 1], KeysOf(rk, q)[i])
    BY <1>4 DEF Rolls
  <2>5. KeysOf(rk, q)[i] \in Word
    BY KeysTyped
  <2>. QED BY <2>1, <2>2, <2>3, <2>4, <2>5
<1>. DEFINE S == {i \in Nat : i \in 0..Rounds => g[i] = Backwards(f[Rounds - i])}
<1>8. 0 \in S
  BY <1>0, <1>6
<1>9. ASSUME NEW i \in Nat, i \in S PROVE i + 1 \in S
  <2>. SUFFICES ASSUME i + 1 \in 0..Rounds PROVE g[i + 1] = Backwards(f[Rounds - (i + 1)])
    OBVIOUS
  <2>1. PICK j \in 1..Rounds : j = i + 1 /\ j - 1 = i /\ Rounds + 1 - j = Rounds - i /\ i \in 0..Rounds
    BY <1>0
  <2>2. PICK k \in Word : k = KeysOf(rk, q)[j]
    BY <1>7
  <2>3. PICK x \in Window : x = f[Rounds - j]
    BY <1>5, <1>7
  <2>4. f[Rounds - i] = t_round(x, k) /\ g[j] = t_round(g[i], k)
    BY <1>7, <2>1, <2>2, <2>3
  <2>5. g[i] = Backwards(f[Rounds - i])
    BY <1>9, <2>1
  <2>6. g[j] = Backwards(x)
    BY <2>4, <2>5, RoundUndone
  <2>. QED BY <2>1, <2>3, <2>6
<1>. HIDE DEF S
<1>10. Nat \subseteq S
  BY <1>8, <1>9, NatClosure
<1>11. g[Rounds] = Backwards(f[0])
  <2>1. Rounds \in 0..Rounds /\ Rounds - Rounds = 0
    BY <1>0
  <2>. QED BY <1>0, <1>10, <2>1 DEF S
<1>. QED BY <1>2, <1>3, <1>4, <1>5, <1>11, UnwoundOfWords

(***************************************************************************)
(* Pieces of one length.                                                   *)
(***************************************************************************)
(* Place l of piece k + 1 of pieces of c elements.                         *)
LEMMA PieceAt ==
    ASSUME NEW c \in Nat \ {0}, NEW k \in Nat, NEW l \in 1..c, NEW j, j = Mul(k, c) + l
    PROVE  j \in Nat \ {0} /\ Quo(j - 1, c) = k /\ Rem(j - 1, c) + 1 = l
<1>1. PICK a \in Nat : a = Mul(k, c)
  BY MulFacts
<1>2. PICK r \in 0..(c - 1) : r = l - 1 /\ l = r + 1
  OBVIOUS
<1>3. j \in Nat \ {0} /\ j - 1 = Mul(k, c) + r
  BY <1>1, <1>2
<1>4. Quo(j - 1, c) = k /\ Rem(j - 1, c) = r
  BY <1>3, Euclid
<1>. QED BY <1>2, <1>3, <1>4

(* A place in one of n pieces lies among the places of all. *)
LEMMA PieceInside ==
    ASSUME NEW c \in Nat \ {0}, NEW k \in Nat, NEW l \in 1..c, NEW j, j = Mul(k, c) + l,
           NEW n \in Nat, k < n
    PROVE  j \in 1..Mul(n, c)
<1>1. PICK a \in Nat : a = Mul(k, c)
  BY MulFacts
<1>2. Mul(k, c) + c <= Mul(n, c) /\ Mul(n, c) \in Nat
  BY MulFacts
<1>. QED BY <1>1, <1>2

(* Every place of n pieces lies in one of them.                            *)
LEMMA PieceOf ==
    ASSUME NEW c \in Nat \ {0}, NEW n \in Nat, NEW j \in 1..Mul(n, c)
    PROVE  /\ Quo(j - 1, c) + 1 \in 1..n /\ Rem(j - 1, c) + 1 \in 1..c /\ j \in Nat
           /\ j = Mul(Quo(j - 1, c), c) + (Rem(j - 1, c) + 1)
<1>1. PICK m \in Nat : m = Mul(n, c)
  BY MulFacts
<1>2. PICK i \in Nat : i = j - 1 /\ j = i + 1
  BY <1>1
<1>3. PICK k \in Nat : k = Quo(i, c)
  BY DivMod
<1>4. PICK r \in 0..(c - 1) : r = Rem(i, c)
  BY DivMod
<1>5. PICK a \in Nat : a = Mul(k, c)
  BY MulFacts
<1>6. i = a + r
  BY <1>3, <1>4, <1>5, DivMod
<1>7. k < n
  <2>1. n <= k => Mul(n, c) <= Mul(k, c)
    BY MulFacts
  <2>. QED BY <2>1, <1>1, <1>2, <1>5, <1>6
<1>8. r + 1 \in 1..c /\ j = Mul(k, c) + (r + 1) /\ k + 1 \in 1..n /\ j \in Nat
  BY <1>2, <1>5, <1>6, <1>7
<1>. QED BY <1>2, <1>3, <1>4, <1>8

(* n pieces of c elements of T.                                            *)
Pieces(ss, T, c, n) == ss \in [1..n -> [1..c -> T]]

(* The elements of pieces, one behind the other.                           *)
Elements(ss, c, i) == [j \in 1..Mul(i, c) |-> ss[Quo(j - 1, c) + 1][Rem(j - 1, c) + 1]]

(* The elements of n pieces of c elements are a sequence of n * c          *)
(* elements.                                                               *)
LEMMA ElementsTyped ==
    ASSUME NEW T, NEW c \in Nat \ {0}, NEW n \in Nat, NEW ss, Pieces(ss, T, c, n)
    PROVE  Mul(n, c) \in Nat /\ Elements(ss, c, n) \in [1..Mul(n, c) -> T]
<1>1. PICK m \in Nat : m = Mul(n, c)
  BY MulFacts
<1>2. ASSUME NEW j \in 1..m PROVE ss[Quo(j - 1, c) + 1][Rem(j - 1, c) + 1] \in T
  BY <1>1, PieceOf DEF Pieces
<1>3. Elements(ss, c, n) \in [1..m -> T]
  BY <1>1, <1>2 DEF Elements
<1>. QED BY <1>1, <1>3

(* The element at place l of piece k + 1. *)
LEMMA ElementsAt ==
    ASSUME NEW c \in Nat \ {0}, NEW n \in Nat, NEW ss,
           NEW k \in Nat, NEW l \in 1..c, k < n, NEW j, j = Mul(k, c) + l
    PROVE  Elements(ss, c, n)[j] = ss[k + 1][l]
<1>1. Quo(j - 1, c) = k /\ Rem(j - 1, c) + 1 = l
  BY PieceAt
<1>2. j \in 1..Mul(n, c)
  BY PieceInside
<1>. QED BY <1>1, <1>2 DEF Elements

(* The elements of one piece are that piece. *)
LEMMA OnePiece ==
    ASSUME NEW T, NEW c \in Nat \ {0}, NEW n \in Nat, NEW ss, Pieces(ss, T, c, n), 1 <= n
    PROVE  Elements(ss, c, 1) = ss[1]
<1>1. ss[1] \in [1..c -> T]
  BY DEF Pieces
<1>2. IsRun(ss[1], c)
  BY <1>1, RunTyped
<1>3. Mul(1, c) = c /\ Mul(0, c) = 0
  BY MulFacts
<1>4. IsRun(Elements(ss, c, 1), c)
  BY <1>3 DEF Elements, IsRun
<1>5. ASSUME NEW l \in 1..c PROVE Elements(ss, c, 1)[l] = ss[1][l]
  <2>1. PICK k \in Nat, m \in Nat : k = 0 /\ m = 1 /\ k < m /\ k + 1 = 1
    OBVIOUS
  <2>2. l = Mul(k, c) + l
    BY <1>3, <2>1
  <2>3. Elements(ss, c, m)[l] = ss[k + 1][l]
    BY <2>1, <2>2, ElementsAt
  <2>. QED BY <2>1, <2>3
<1>. QED BY <1>2, <1>4, <1>5, SameRun

(* One piece more. *)
Grown(ss, c, k) == Elements(ss, c, k + 1) = Elements(ss, c, k) \o ss[k + 1]

(* The elements of one piece more are those of the pieces before it, with  *)
(* the piece behind them.                                                  *)
LEMMA OneMorePiece ==
    ASSUME NEW T, NEW c \in Nat \ {0}, NEW n \in Nat, NEW ss, Pieces(ss, T, c, n),
           NEW k \in 0..(n - 1)
    PROVE  Grown(ss, c, k)
<1>i. PICK i \in 1..n : i = k + 1
  OBVIOUS
<1>0. k \in Nat /\ i \in 1..n /\ i = k + 1
  BY <1>i
<1>. DEFINE u == Elements(ss, c, k)  w == Elements(ss, c, i)  v == ss[i]
<1>2. PICK a \in Nat : a = Mul(k, c)
  BY <1>0, MulFacts
<1>3. Mul(i, c) = a + c
  BY <1>0, <1>2, MulFacts
<1>4. IsRun(w, a + c) /\ IsRun(u, a)
  BY <1>2, <1>3 DEF Elements, IsRun
<1>5. IsRun(v, c)
  <2>1. v \in [1..c -> T]
    BY DEF Pieces
  <2>. QED BY <2>1, RunTyped
<1>6. \A j \in 1..a : w[j] = u[j]
  BY <1>2, <1>3 DEF Elements
<1>7. ASSUME NEW l \in 1..c PROVE w[a + l] = v[l]
  <2>1. PICK j : j = Mul(k, c) + l
    OBVIOUS
  <2>2. PICK e \in Nat : e = i /\ k < e
    BY <1>0
  <2>3. Elements(ss, c, e)[j] = ss[k + 1][l]
    BY <1>0, <2>1, <2>2, ElementsAt
  <2>. QED BY <1>0, <1>2, <2>1, <2>2, <2>3
<1>. HIDE DEF u, v, w
<1>8. w = u \o v
  BY <1>2, <1>4, <1>5, <1>6, <1>7, JoinIs
<1>. QED BY <1>0, <1>8 DEF Grown, u, v, w

(* FlattenSeq joins them.                                                  *)
LEMMA FlattenPieces ==
    ASSUME NEW T, NEW c \in Nat \ {0}, NEW n \in Nat, NEW ss, Pieces(ss, T, c, n)
    PROVE  FlattenSeq(ss) = Elements(ss, c, n)
<1>0. Len(ss) = n /\ (n = 0 => ss = <<>>)
  <2>1. PICK S : S = [1..c -> T]
    OBVIOUS
  <2>2. ss \in Seq(S) /\ Len(ss) = n
    BY <2>1, RunTyped DEF Pieces
  <2>. QED BY <2>2
<1>1. CASE n = 0
  <2>1. ss = <<>>
    BY <1>0, <1>1
  <2>2. FlattenSeq(ss) = <<>>
    BY <2>1 DEF FlattenSeq
  <2>3. Mul(0, c) = 0
    BY MulFacts
  <2>4. Elements(ss, c, n) = <<>>
    BY <1>1, <2>3 DEF Elements
  <2>. QED BY <2>2, <2>4
<1>3. ASSUME NEW k \in 0..(n - 1) PROVE Grown(ss, c, k)
  BY OneMorePiece
<1>2. CASE n # 0
  <2>. DEFINE G == [i \in 1..n |-> Elements(ss, c, i)]
  <2>1. ASSUME NEW i \in 1..n PROVE G[i] = IF i = 1 THEN ss[i] ELSE G[i - 1] \o ss[i]
    <3>1. PICK k \in 0..(n - 1) : k = i - 1 /\ i = k + 1 /\ (i # 1 => k \in 1..n)
      OBVIOUS
    <3>2. G[i] = Elements(ss, c, i) /\ (i # 1 => G[k] = Elements(ss, c, k))
      BY <3>1
    <3>. HIDE DEF G
    <3>3. CASE i = 1
      <4>0. 1 <= n
        BY <1>2
      <4>1. Elements(ss, c, 1) = ss[1]
        BY <4>0, OnePiece, Zenon
      <4>. QED BY <3>2, <3>3, <4>1
    <3>4. CASE i # 1
      <4>0. i = k + 1
        BY <3>1
      <4>1. Elements(ss, c, k + 1) = Elements(ss, c, k) \o ss[k + 1]
        BY <1>3 DEF Grown
      <4>. QED BY <3>1, <3>2, <3>4, <4>0, <4>1
    <3>. QED BY <3>3, <3>4
  <2>2. G = [i \in 1..n |-> G[i]] /\ G[n] = Elements(ss, c, n)
    BY <1>2
  <2>. HIDE DEF G
  <2>3. IsFlat(G, ss, n)
    BY <2>1, <2>2 DEF IsFlat
  <2>4. FlattenSeq(ss) = G[n]
    BY <1>0, <1>2, <2>3, FlattenBySeq
  <2>. QED BY <2>2, <2>4
<1>. QED BY <1>1, <1>2

(* s has m elements, all in T.                                             *)
Long(s, T, m) == s \in Seq(T) /\ Len(s) = m

(* What they are, and each of them cut out again.                          *)
LEMMA FlatTyped ==
    ASSUME NEW T, NEW c \in Nat \ {0}, NEW n \in Nat, NEW ss, Pieces(ss, T, c, n)
    PROVE  /\ Mul(n, c) \in Nat /\ FlattenSeq(ss) \in [1..Mul(n, c) -> T]
           /\ Long(FlattenSeq(ss), T, Mul(n, c))
<1>1. FlattenSeq(ss) = Elements(ss, c, n)
  BY FlattenPieces, Zenon
<1>2. PICK m \in Nat : m = Mul(n, c)
  BY MulFacts
<1>3. PICK f \in [1..m -> T] : f = Elements(ss, c, n)
  BY <1>2, ElementsTyped, Zenon
<1>4. f \in Seq(T) /\ Len(f) = m
  BY RunTyped
<1>. QED BY <1>1, <1>2, <1>3, <1>4 DEF Long

(* What the join has at place l of piece k + 1. *)
FlatHere(ss, c, k, l) == FlattenSeq(ss)[Mul(k, c) + l] = ss[k + 1][l]

(* It is what the piece has there. *)
LEMMA FlatAt ==
    ASSUME NEW T, NEW c \in Nat \ {0}, NEW n \in Nat, NEW ss, Pieces(ss, T, c, n),
           NEW k \in 0..(n - 1), NEW l \in 1..c
    PROVE  FlatHere(ss, c, k, l)
<1>1. PICK j : j = Mul(k, c) + l
  OBVIOUS
<1>2. k \in Nat /\ k < n
  OBVIOUS
<1>3. FlattenSeq(ss) = Elements(ss, c, n)
  BY FlattenPieces, Zenon
<1>4. Elements(ss, c, n)[j] = ss[k + 1][l]
  BY <1>1, <1>2, ElementsAt
<1>. QED BY <1>1, <1>3, <1>4 DEF FlatHere

(* Piece k + 1 of s, pieces having c elements.                             *)
Piece(s, c, k) == SubSeq(s, Mul(k, c) + 1, Mul(k, c) + c)

(* c elements of s, from a + 1 on.                                         *)
LEMMA StretchIs ==
    ASSUME NEW T, NEW s \in Seq(T), NEW a \in Nat, NEW c \in Nat, a + c <= Len(s)
    PROVE  /\ SubSeq(s, a + 1, a + c) \in [1..c -> T]
           /\ SubSeq(s, a + 1, a + c) = [l \in 1..c |-> s[a + l]]
<1>1. PICK x \in Nat, y \in Nat : x = a + 1 /\ y = a + c
  OBVIOUS
<1>2. PICK u : u = [l \in 1..c |-> s[a + l]]
  OBVIOUS
<1>3. Copies(u, s, a, c, x, y)
  BY <1>1, <1>2 DEF Copies, IsRun
<1>4. SubSeq(s, x, y) = u /\ u \in Seq(T) /\ Len(u) = c
  BY <1>3, CopiesIs
<1>5. u \in [1..c -> T]
  BY <1>4, SeqTyped
<1>. QED BY <1>1, <1>2, <1>4, <1>5

(* c elements cut out of a sequence over T are c elements of T. *)
LEMMA StretchTyped ==
    ASSUME NEW T, NEW s \in Seq(T), NEW a \in Nat, NEW c \in Nat, a + c <= Len(s)
    PROVE  SubSeq(s, a + 1, a + c) \in [1..c -> T]
  BY StretchIs

(* Place l of a stretch is place a + l of the sequence. *)
LEMMA PlaceInStretch ==
    ASSUME NEW T, NEW s \in Seq(T), NEW a \in Nat, NEW c \in Nat, a + c <= Len(s), NEW l \in 1..c
    PROVE  SubSeq(s, a + 1, a + c)[l] = s[a + l]
<1>1. SubSeq(s, a + 1, a + c) = [o \in 1..c |-> s[a + o]]
  BY StretchIs
<1>. QED BY <1>1

(* A piece of c elements of T is a function from 1..c to T. *)
LEMMA PieceTyped ==
    ASSUME NEW T, NEW c \in Nat \ {0}, NEW n \in Nat, NEW s, Long(s, T, Mul(n, c)),
           NEW k \in 0..(n - 1)
    PROVE  Piece(s, c, k) \in [1..c -> T]
<1>0. k \in Nat /\ k < n
  OBVIOUS
<1>1. PICK a \in Nat : a = Mul(k, c)
  BY <1>0, MulFacts
<1>2. a + c <= Len(s) /\ s \in Seq(T) /\ c \in Nat
  BY <1>0, <1>1, MulFacts DEF Long
<1>3. SubSeq(s, a + 1, a + c) \in [1..c -> T]
  BY <1>2, StretchTyped
<1>. QED BY <1>1, <1>3 DEF Piece

(* Place l of piece k + 1 is that place of the sequence. *)
PieceHere(s, c, k, l) == Piece(s, c, k)[l] = s[Mul(k, c) + l]

(* It is so for pieces of a sequence of the right length. *)
LEMMA PlaceInPiece ==
    ASSUME NEW T, NEW c \in Nat \ {0}, NEW n \in Nat, NEW s, Long(s, T, Mul(n, c)),
           NEW k \in 0..(n - 1), NEW l \in 1..c
    PROVE  PieceHere(s, c, k, l)
<1>0. k \in Nat /\ k < n
  OBVIOUS
<1>1. PICK a \in Nat : a = Mul(k, c)
  BY <1>0, MulFacts
<1>2. a + c <= Len(s) /\ s \in Seq(T) /\ c \in Nat
  BY <1>0, <1>1, MulFacts DEF Long
<1>3. SubSeq(s, a + 1, a + c)[l] = s[a + l]
  BY <1>2, PlaceInStretch
<1>. QED BY <1>1, <1>3 DEF Piece, PieceHere

(* Piece k + 1 of the join is what was joined there. *)
LEMMA FlatPiece ==
    ASSUME NEW T, NEW c \in Nat \ {0}, NEW n \in Nat, NEW ss, Pieces(ss, T, c, n),
           NEW k \in 0..(n - 1)
    PROVE  Piece(FlattenSeq(ss), c, k) = ss[k + 1]
<1>0. Long(FlattenSeq(ss), T, Mul(n, c))
  BY FlatTyped, Zenon
<1>2. Piece(FlattenSeq(ss), c, k) \in [1..c -> T]
  BY <1>0, PieceTyped
<1>3. ss[k + 1] \in [1..c -> T]
  <2>1. k + 1 \in 1..n
    OBVIOUS
  <2>. QED BY <2>1 DEF Pieces
<1>4. ASSUME NEW l \in 1..c PROVE Piece(FlattenSeq(ss), c, k)[l] = ss[k + 1][l]
  <2>1. FlatHere(ss, c, k, l)
    BY FlatAt
  <2>2. PieceHere(FlattenSeq(ss), c, k, l)
    BY <1>0, PlaceInPiece
  <2>. QED BY <2>1, <2>2 DEF FlatHere, PieceHere
<1>. QED BY <1>2, <1>3, <1>4

(* ss are the pieces of s, in order.                                       *)
IsCut(ss, s, c, n) == \A k \in 1..n : ss[k] = Piece(s, c, k - 1)

(* A sequence of the right length is the join of its pieces.               *)
LEMMA FlatOfPieces ==
    ASSUME NEW T, NEW c \in Nat \ {0}, NEW n \in Nat, NEW s, Long(s, T, Mul(n, c)),
           NEW ss, Pieces(ss, T, c, n), IsCut(ss, s, c, n)
    PROVE  FlattenSeq(ss) = s
<1>1. PICK m \in Nat : m = Mul(n, c)
  BY MulFacts
<1>2. PICK f \in [1..m -> T] : f = FlattenSeq(ss)
  BY <1>1, FlatTyped, Zenon
<1>3. s \in [1..m -> T]
  BY <1>1, SeqTyped DEF Long
<1>4. ASSUME NEW j \in 1..m PROVE f[j] = s[j]
  <2>1. PICK k \in 0..(n - 1), l \in 1..c : j = Mul(k, c) + l
    <3>1. PICK q : q = Quo(j - 1, c)
      OBVIOUS
    <3>2. PICK r : r = Rem(j - 1, c) + 1
      OBVIOUS
    <3>3. q + 1 \in 1..n /\ r \in 1..c /\ j = Mul(q, c) + r
      BY <1>1, <3>1, <3>2, PieceOf
    <3>4. q \in Nat /\ q < n
      <4>1. j - 1 \in Nat
        BY <1>1
      <4>2. q \in Nat
        BY <3>1, <4>1, DivMod
      <4>. QED BY <3>3, <4>2
    <3>. QED BY <3>3, <3>4
  <2>2. FlatHere(ss, c, k, l)
    BY FlatAt
  <2>3. ss[k + 1] = Piece(s, c, k)
    <3>1. k + 1 \in 1..n /\ (k + 1) - 1 = k
      OBVIOUS
    <3>. QED BY <3>1 DEF IsCut
  <2>4. PieceHere(s, c, k, l)
    BY PlaceInPiece
  <2>. QED BY <1>2, <2>1, <2>2, <2>3, <2>4 DEF FlatHere, PieceHere
<1>5. f = s
  BY <1>3, <1>4
<1>. QED BY <1>2, <1>5

(* The same for use in a larger context, where each statement is a name.   *)
IsPieces(ss, T, c, n) == c \in Nat \ {0} /\ n \in Nat /\ Pieces(ss, T, c, n)
IsLong(s, T, c, n) == c \in Nat \ {0} /\ n \in Nat /\ Long(s, T, Mul(n, c))
Inside(k, l, n, c) == k \in 0..(n - 1) /\ l \in 1..c
Th(k, n) == k \in 0..(n - 1)
CutAgain(ss, c, k) == Piece(FlattenSeq(ss), c, k) = ss[k + 1]
(* p has c elements of T. *)
IsPiece(p, T, c) == p \in [1..c -> T]

(* FlatAt by names. *)
LEMMA FlatPlace ==
    ASSUME NEW T, NEW c, NEW n, NEW ss, IsPieces(ss, T, c, n), NEW k, NEW l, Inside(k, l, n, c)
    PROVE  FlatHere(ss, c, k, l)
<1>1. c \in Nat \ {0} /\ n \in Nat /\ Pieces(ss, T, c, n) /\ k \in 0..(n - 1) /\ l \in 1..c
  BY DEF IsPieces, Inside
<1>. QED BY <1>1, FlatAt

(* PlaceInPiece by names. *)
LEMMA PiecePlace ==
    ASSUME NEW T, NEW c, NEW n, NEW s, IsLong(s, T, c, n), NEW k, NEW l, Inside(k, l, n, c)
    PROVE  PieceHere(s, c, k, l)
<1>1. c \in Nat \ {0} /\ n \in Nat /\ Long(s, T, Mul(n, c)) /\ k \in 0..(n - 1) /\ l \in 1..c
  BY DEF IsLong, Inside
<1>. QED BY <1>1, PlaceInPiece

(* The join of n pieces of c elements has n * c elements. *)
LEMMA FlatLong ==
    ASSUME NEW T, NEW c, NEW n, NEW ss, IsPieces(ss, T, c, n)
    PROVE  IsLong(FlattenSeq(ss), T, c, n)
<1>1. c \in Nat \ {0} /\ n \in Nat /\ Pieces(ss, T, c, n)
  BY DEF IsPieces
<1>2. Long(FlattenSeq(ss), T, Mul(n, c))
  BY <1>1, FlatTyped, Zenon
<1>. QED BY <1>1, <1>2 DEF IsLong

(* FlatPiece by names. *)
LEMMA FlatCut ==
    ASSUME NEW T, NEW c, NEW n, NEW ss, IsPieces(ss, T, c, n), NEW k, Th(k, n)
    PROVE  CutAgain(ss, c, k)
  BY FlatPiece DEF IsPieces, Th, CutAgain

(* PieceTyped by names. *)
LEMMA PieceHas ==
    ASSUME NEW T, NEW c, NEW n, NEW s, IsLong(s, T, c, n), NEW k, Th(k, n)
    PROVE  IsPiece(Piece(s, c, k), T, c)
  BY PieceTyped DEF IsLong, Th, IsPiece

(* The join of the pieces cut out of a sequence is the sequence. *)
LEMMA FlatCuts ==
    ASSUME NEW T, NEW c, NEW n, NEW s, IsLong(s, T, c, n), NEW ss, IsPieces(ss, T, c, n), IsCut(ss, s, c, n)
    PROVE  FlattenSeq(ss) = s
  BY FlatOfPieces DEF IsLong, IsPieces

(***************************************************************************)
(* The key schedule.                                                       *)
(***************************************************************************)
LEMMA ScheduleConstants ==
    /\ FK[1] \in Word /\ FK[2] \in Word /\ FK[3] \in Word /\ FK[4] \in Word
    /\ \A i \in 1..Rounds : CK[i] \in Word
<1>1. ASSUME NEW i \in 1..Rounds, NEW j \in 1..4 PROVE CK[i][j] \in Octet
  <2>1. CK[i][j] = ((4 * (i - 1) + (j - 1)) * 7) % 256
    BY DEF CK
  <2>2. (4 * (i - 1) + (j - 1)) * 7 \in Nat
    BY DEF Rounds
  <2>. QED BY <2>1, <2>2 DEF Octet
<1>2. ASSUME NEW i \in 1..Rounds PROVE CK[i] \in Word
  <2>1. CK[i] = [j \in 1..4 |-> CK[i][j]]
    BY DEF CK
  <2>. QED BY <2>1, <1>1 DEF Word
<1>3. FK[1] \in Word /\ FK[2] \in Word /\ FK[3] \in Word /\ FK[4] \in Word
  <2>1. /\ FK[1] = <<\ha3, \hb1, \hba, \hc6>> /\ FK[2] = <<\h56, \haa, \h33, \h50>>
        /\ FK[3] = <<\h67, \h7d, \h91, \h97>> /\ FK[4] = <<\hb2, \h70, \h22, \hdc>>
    BY DEF FK
  <2>2. FK[1] \in Word
    <3>1. \ha3 \in Octet /\ \hb1 \in Octet /\ \hba \in Octet /\ \hc6 \in Octet
      BY DEF Octet
    <3>2. <<\ha3, \hb1, \hba, \hc6>> \in Word
      BY <3>1, WordIs
    <3>. QED BY <2>1, <3>2
  <2>3. FK[2] \in Word
    <3>1. \h56 \in Octet /\ \haa \in Octet /\ \h33 \in Octet /\ \h50 \in Octet
      BY DEF Octet
    <3>2. <<\h56, \haa, \h33, \h50>> \in Word
      BY <3>1, WordIs
    <3>. QED BY <2>1, <3>2
  <2>4. FK[3] \in Word
    <3>1. \h67 \in Octet /\ \h7d \in Octet /\ \h91 \in Octet /\ \h97 \in Octet
      BY DEF Octet
    <3>2. <<\h67, \h7d, \h91, \h97>> \in Word
      BY <3>1, WordIs
    <3>. QED BY <2>1, <3>2
  <2>5. FK[4] \in Word
    <3>1. \hb2 \in Octet /\ \h70 \in Octet /\ \h22 \in Octet /\ \hdc \in Octet
      BY DEF Octet
    <3>2. <<\hb2, \h70, \h22, \hdc>> \in Word
      BY <3>1, WordIs
    <3>. QED BY <2>1, <3>2
  <2>. QED BY <2>2, <2>3, <2>4, <2>5
<1>. QED BY <1>2, <1>3

(* The first window, and the windows up to one more.                       *)
FirstWindow(key) == [w \in 1..4 |-> WordXor(Words(key)[w], FK[w])]
Longer(ws, i) == Append(ws, t_prime(ws[i], CK[i]))

(* The window that the key schedule begins with is a window. *)
LEMMA FirstWindowTyped ==
    ASSUME NEW key \in Block
    PROVE  FirstWindow(key) \in Window
<1>1. /\ Words(key)[1] \in Word /\ Words(key)[2] \in Word
      /\ Words(key)[3] \in Word /\ Words(key)[4] \in Word
  BY WordsAre, WindowParts
<1>2. /\ WordXor(Words(key)[1], FK[1]) \in Word /\ WordXor(Words(key)[2], FK[2]) \in Word
      /\ WordXor(Words(key)[3], FK[3]) \in Word /\ WordXor(Words(key)[4], FK[4]) \in Word
  BY <1>1, ScheduleConstants, WordXorTyped
<1>3. \A w \in 1..4 : w = 1 \/ w = 2 \/ w = 3 \/ w = 4
  OBVIOUS
<1>4. \A w \in 1..4 : WordXor(Words(key)[w], FK[w]) \in Word
  BY <1>2, <1>3
<1>. QED BY <1>4 DEF FirstWindow, Window

(* i + 1 windows.                                                          *)
Grows(ws, i) == ws \in Seq(Window) /\ Len(ws) = i + 1

(* One step of the key schedule adds one window. *)
LEMMA LongerGrows ==
    ASSUME NEW i \in 1..Rounds, NEW ws, Grows(ws, i - 1)
    PROVE  Grows(Longer(ws, i), i)
<1>1. ws \in Seq(Window) /\ Len(ws) = i /\ i \in Nat
  BY DEF Grows
<1>2. ws[i] \in Window
  BY <1>1
<1>3. t_prime(ws[i], CK[i]) \in Window
  BY <1>2, ScheduleConstants, KeyRoundTyped
<1>. QED BY <1>1, <1>3, AppendFacts DEF Grows, Longer

(* f is a run of the key schedule.                                         *)
Schedules(f, key) ==
    f = [i \in 0..Rounds |-> IF i = 0 THEN <<FirstWindow(key)>> ELSE Longer(f[i - 1], i)]

(* After i steps the key schedule has i + 1 windows. *)
LEMMA ScheduleGrows ==
    ASSUME NEW key \in Block, NEW f, Schedules(f, key), NEW i \in 0..Rounds
    PROVE  Grows(f[i], i)
<1>0. Rounds \in Nat
  BY DEF Rounds
<1>. DEFINE S == {n \in Nat : n \in 0..Rounds => Grows(f[n], n)}
<1>1. 0 \in S
  <2>1. f[0] = <<FirstWindow(key)>>
    BY <1>0 DEF Schedules
  <2>2. <<FirstWindow(key)>> \in Seq(Window) /\ Len(<<FirstWindow(key)>>) = 1
    BY FirstWindowTyped
  <2>3. PICK b : b = <<FirstWindow(key)>>
    OBVIOUS
  <2>4. f[0] \in Seq(Window) /\ Len(f[0]) = 0 + 1
    BY <2>1, <2>2, <2>3
  <2>. QED BY <2>4 DEF Grows
<1>2. ASSUME NEW n \in Nat, n \in S PROVE n + 1 \in S
  <2>. SUFFICES ASSUME n + 1 \in 0..Rounds PROVE Grows(f[n + 1], n + 1)
    OBVIOUS
  <2>1. n \in 0..Rounds /\ n + 1 \in 1..Rounds /\ (n + 1) - 1 = n /\ n + 1 # 0
    BY <1>0
  <2>2. f[n + 1] = Longer(f[n], n + 1)
    BY <2>1 DEF Schedules
  <2>3. Grows(f[n], (n + 1) - 1)
    BY <1>2, <2>1
  <2>. HIDE DEF S
  <2>. QED BY <2>1, <2>2, <2>3, LongerGrows
<1>. HIDE DEF S
<1>3. Nat \subseteq S
  BY <1>1, <1>2, NatClosure
<1>. QED BY <1>0, <1>3 DEF S

(* The key schedule of a key has a run. *)
LEMMA ScheduleExists ==
    ASSUME NEW key \in Block
    PROVE  \E f : Schedules(f, key)
<1>. DEFINE T == Seq(Window)
            b == <<FirstWindow(key)>>
            s == [a \in Nat \X T |-> IF a[1] \in 1..Rounds /\ Len(a[2]) = a[1] THEN Longer(a[2], a[1]) ELSE b]
<1>0. Rounds \in Nat
  BY DEF Rounds
<1>1. b \in T /\ Len(b) = 1
  BY FirstWindowTyped
<1>2. ASSUME NEW i \in Nat, NEW y \in T
      PROVE  (IF i \in 1..Rounds /\ Len(y) = i THEN Longer(y, i) ELSE b) \in T
  <2>1. i \in 1..Rounds /\ Len(y) = i => Grows(y, i - 1)
    BY DEF Grows
  <2>. HIDE DEF b
  <2>. QED BY <1>1, <2>1, LongerGrows DEF Grows
<1>3. s \in [Nat \X T -> T]
  <2>. HIDE DEF b, T
  <2>. QED BY <1>2
<1>4. \A i \in 1..Rounds : \A y \in T : Len(y) = i => s[<<i, y>>] = Longer(y, i)
  <2>. HIDE DEF b, T
  <2>. QED OBVIOUS
<1>. HIDE DEF s
<1>5. PICK f \in [0..Rounds -> T] : Stepwise(f, b, s, Rounds)
  <2>. HIDE DEF b, T
  <2>. QED BY <1>0, <1>1, <1>3, Recursion
<1>6. f = [i \in 0..Rounds |-> IF i = 0 THEN b ELSE s[<<i, f[i - 1]>>]]
  BY <1>5 DEF Stepwise
<1>. DEFINE S == {n \in Nat : n \in 0..Rounds => Grows(f[n], n)}
<1>. HIDE DEF b
<1>7. 0 \in S
  BY <1>0, <1>1, <1>6 DEF Grows
<1>8. ASSUME NEW n \in Nat, n \in S PROVE n + 1 \in S
  <2>. SUFFICES ASSUME n + 1 \in 0..Rounds PROVE Grows(f[n + 1], n + 1)
    OBVIOUS
  <2>1. n \in 0..Rounds /\ n + 1 \in 1..Rounds /\ (n + 1) - 1 = n /\ n + 1 # 0
    BY <1>0
  <2>2. Grows(f[n], (n + 1) - 1) /\ Grows(f[n], n)
    BY <1>8, <2>1
  <2>3. f[n + 1] = s[<<n + 1, f[n]>>]
    BY <1>6, <2>1
  <2>4. f[n] \in T /\ Len(f[n]) = n + 1
    BY <2>2 DEF Grows
  <2>5. f[n + 1] = Longer(f[n], n + 1)
    BY <1>4, <2>1, <2>3, <2>4
  <2>. HIDE DEF S
  <2>. QED BY <2>1, <2>2, <2>5, LongerGrows
<1>. HIDE DEF S
<1>9. Nat \subseteq S
  BY <1>7, <1>8, NatClosure
<1>10. ASSUME NEW i \in 0..Rounds
       PROVE  f[i] = IF i = 0 THEN b ELSE Longer(f[i - 1], i)
  <2>1. CASE i = 0
    BY <1>6, <2>1
  <2>2. CASE i # 0
    <3>1. i \in 1..Rounds /\ i - 1 \in 0..Rounds /\ i - 1 \in Nat
      BY <1>0, <2>2
    <3>2. Grows(f[i - 1], i - 1)
      BY <1>9, <3>1 DEF S
    <3>3. f[i - 1] \in T /\ Len(f[i - 1]) = i
      BY <3>2 DEF Grows
    <3>4. f[i] = s[<<i, f[i - 1]>>]
      BY <1>6, <2>2
    <3>. QED BY <1>4, <2>2, <3>1, <3>3, <3>4
  <2>. QED BY <2>1, <2>2
<1>11. f = [i \in 0..Rounds |-> IF i = 0 THEN b ELSE Longer(f[i - 1], i)]
  BY <1>5, <1>10
<1>. QED BY <1>11 DEF Schedules, b

(* A key has a round key, a word, for every round.                         *)
RoundKeyRows == [1..Rounds -> Word]

(* A key has a round key, a word, for every round: key_schedule leaves no  *)
(* place of the row unset.                                                 *)
THEOREM RoundKeysTyped ==
    ASSUME NEW key \in Block
    PROVE  RoundKeys(key) \in RoundKeyRows
<1>. DEFINE P(f) == f = [i \in 0..Rounds |->
                         IF i = 0 THEN << [w \in 1..4 |-> WordXor(Words(key)[w], FK[w])] >>
                         ELSE With(f[i - 1], LAMBDA ws : Append(ws, t_prime(ws[i], CK[i])))]
            g == CHOOSE f : P(f)
<1>1. RoundKeys(key) = [i \in 1..Rounds |-> g[Rounds][i + 1][4]]
  <2>1. RoundKeys(key) = With(g[Rounds], LAMBDA ws : [i \in 1..Rounds |-> ws[i + 1][4]])
    BY DEF RoundKeys
  <2>. QED BY <2>1 DEF With
<1>2. \A f : P(f) <=> Schedules(f, key)
  BY DEF Schedules, FirstWindow, Longer, With
<1>. HIDE DEF P
<1>3. P(g)
  BY <1>2, ScheduleExists
<1>. HIDE DEF g
<1>4. Grows(g[Rounds], Rounds)
  <2>1. Rounds \in 0..Rounds
    BY DEF Rounds
  <2>. QED BY <1>2, <1>3, <2>1, ScheduleGrows
<1>5. ASSUME NEW i \in 1..Rounds PROVE g[Rounds][i + 1][4] \in Word
  <2>1. g[Rounds] \in Seq(Window) /\ i + 1 \in 1..Len(g[Rounds])
    BY <1>4 DEF Grows, Rounds
  <2>2. g[Rounds][i + 1] \in Window
    BY <2>1
  <2>. QED BY <2>2, WindowParts
<1>. QED BY <1>1, <1>5 DEF RoundKeyRows

(***************************************************************************)
(* Several blocks in lockstep.                                             *)
(***************************************************************************)
(* The words of a batch, one behind the other, are substituted in one pass *)
(* and cut apart again.                                                    *)
LEMMA WordPieces ==
    ASSUME NEW n \in Nat, NEW ws \in [1..n -> Word], NEW b \in 1..n
    PROVE  SubSeq(Substituted(FlattenSeq(ws)), 4 * b - 3, 4 * b) = tau(ws[b])
<1>1. PICK c \in Nat \ {0} : c = 4
  OBVIOUS
<1>2. Pieces(ws, Octet, c, n)
  BY <1>1 DEF Pieces, Word
<1>3. PICK m \in Nat : m = Mul(n, c)
  BY <1>1, MulFacts
<1>4. PICK t \in [1..m -> Octet] : t = FlattenSeq(ws)
  <2>1. FlattenSeq(ws) \in [1..Mul(n, c) -> Octet]
    BY <1>2, FlatTyped, Zenon
  <2>. QED BY <1>3, <2>1
<1>5. PICK s : s = Substituted(t)
  OBVIOUS
<1>6. s = [l \in 1..m |-> S_BOX[t[l] + 1]]
  BY <1>4, <1>5 DEF Substituted
<1>7. s \in [1..m -> Octet]
  BY <1>4, <1>6, SboxOctets
<1>8. Long(s, Octet, Mul(n, c))
  BY <1>3, <1>7, RunTyped DEF Long
<1>9. PICK k \in 0..(n - 1) : k = b - 1 /\ b = k + 1
  OBVIOUS
<1>10. SubSeq(s, 4 * b - 3, 4 * b) = Piece(s, c, k)
  <2>1. Mul(k, c) + 1 = 4 * b - 3 /\ Mul(k, c) + c = 4 * b
    BY <1>1, <1>9 DEF Mul
  <2>. QED BY <2>1 DEF Piece
<1>11. Piece(s, c, k) \in [1..c -> Octet]
  BY <1>8, PieceTyped
<1>12. ASSUME NEW l \in 1..c PROVE Piece(s, c, k)[l] = S_BOX[ws[b][l] + 1]
  <2>0. IsPieces(ws, Octet, c, n) /\ IsLong(s, Octet, c, n) /\ Inside(k, l, n, c)
    BY <1>2, <1>8 DEF IsPieces, IsLong, Inside
  <2>1. Piece(s, c, k)[l] = s[Mul(k, c) + l]
    <3>1. PieceHere(s, c, k, l)
      BY <2>0, PiecePlace, Zenon
    <3>. QED BY <3>1 DEF PieceHere
  <2>2. FlattenSeq(ws)[Mul(k, c) + l] = ws[k + 1][l]
    <3>1. FlatHere(ws, c, k, l)
      BY <2>0, FlatPlace, Zenon
    <3>. QED BY <3>1 DEF FlatHere
  <2>3. Mul(k, c) + l \in 1..m
    <3>1. k \in Nat /\ k < n
      OBVIOUS
    <3>2. PICK j : j = Mul(k, c) + l
      OBVIOUS
    <3>3. j \in 1..Mul(n, c)
      BY <3>1, <3>2, PieceInside
    <3>. QED BY <1>3, <3>2, <3>3
  <2>. QED BY <1>4, <1>6, <1>9, <2>1, <2>2, <2>3
<1>13. Piece(s, c, k) = [l \in 1..4 |-> S_BOX[ws[b][l] + 1]]
  BY <1>1, <1>11, <1>12
<1>. QED BY <1>4, <1>5, <1>10, <1>13 DEF tau

(* A round of a batch is a round of each block.                            *)
LEMMA BatchRoundIs ==
    ASSUME NEW n \in Nat, NEW xs \in [1..n -> Window], NEW k \in Word
    PROVE  BatchRound(xs, k) = [b \in 1..n |-> t_round(xs[b], k)]
<1>. DEFINE ws == [b \in 1..n |-> RoundInput(xs[b], k)]
            s == Substituted(FlattenSeq(ws))
<1>1. DOMAIN xs = 1..n
  OBVIOUS
<1>2. Packed(xs, k) = FlattenSeq(ws)
  BY <1>1 DEF Packed
<1>3. BatchRound(xs, k) = [b \in 1..n |-> NextWindow(xs[b], Spread(SubSeq(s, 4 * b - 3, 4 * b)))]
  BY <1>1, <1>2 DEF BatchRound, With
<1>4. ws \in [1..n -> Word] /\ \A b \in 1..n : ws[b] = RoundInput(xs[b], k)
  BY RoundInputTyped
<1>. HIDE DEF ws
<1>5. \A b \in 1..n : SubSeq(s, 4 * b - 3, 4 * b) = tau(ws[b])
  BY <1>4, WordPieces
<1>. HIDE DEF s
<1>6. ASSUME NEW b \in 1..n
      PROVE  NextWindow(xs[b], Spread(SubSeq(s, 4 * b - 3, 4 * b))) = t_round(xs[b], k)
  <2>1. SubSeq(s, 4 * b - 3, 4 * b) = tau(RoundInput(xs[b], k))
    BY <1>4, <1>5
  <2>2. NextWindow(xs[b], Spread(tau(RoundInput(xs[b], k)))) = t_round(xs[b], k)
    BY DEF t_round, With
  <2>. QED BY <2>1, <2>2
<1>. QED BY <1>3, <1>6

(* f is a run of the rounds of a batch.                                    *)
BatchRolls(f, xs, rk, reverse) ==
    f = [i \in 0..Rounds |-> IF i = 0 THEN xs ELSE BatchRound(f[i - 1], KeyAt(rk, reverse, i))]

(* The windows of each block of a batch.                                   *)
Lanes(F, blocks, rk, reverse, n) ==
    \A b \in 1..n : /\ Rolls(F[b], Words(blocks[b]), KeysOf(rk, reverse))
                    /\ crypt(blocks[b], rk, reverse) = Unwound(F[b][Rounds])

(* There are windows of each block of a batch. *)
LEMMA LanesExist ==
    ASSUME NEW n \in Nat, NEW blocks \in [1..n -> Block], NEW rk \in [1..Rounds -> Word],
           NEW reverse \in BOOLEAN
    PROVE  \E F : Lanes(F, blocks, rk, reverse, n)
<1>. DEFINE P(b, f) == /\ Rolls(f, Words(blocks[b]), KeysOf(rk, reverse))
                       /\ crypt(blocks[b], rk, reverse) = Unwound(f[Rounds])
            F == [b \in 1..n |-> CHOOSE f : P(b, f)]
<1>1. ASSUME NEW b \in 1..n PROVE \E f : P(b, f)
  <2>1. blocks[b] \in Block
    OBVIOUS
  <2>. QED BY <2>1, CryptIs
<1>2. ASSUME NEW b \in 1..n PROVE P(b, F[b])
  <2>1. F[b] = CHOOSE f : P(b, f)
    OBVIOUS
  <2>. HIDE DEF P, F
  <2>. QED BY <1>1, <2>1
<1>. HIDE DEF F
<1>. QED BY <1>2 DEF Lanes

(* The windows of all blocks before round i + 1.                           *)
Side(F, n, i) == [b \in 1..n |-> F[b][i]]

(* A round of a batch takes the windows of all blocks one round on. *)
LEMMA SideRolls ==
    ASSUME NEW n \in Nat, NEW blocks \in [1..n -> Block], NEW rk \in [1..Rounds -> Word],
           NEW reverse \in BOOLEAN, NEW F, Lanes(F, blocks, rk, reverse, n), NEW i \in 1..Rounds
    PROVE  BatchRound(Side(F, n, i - 1), KeyAt(rk, reverse, i)) = Side(F, n, i)
<1>1. i - 1 \in 0..Rounds
  BY DEF Rounds
<1>2. PICK k \in Word : k = KeyAt(rk, reverse, i) /\ k = KeysOf(rk, reverse)[i]
  <2>1. KeysOf(rk, reverse)[i] = KeyAt(rk, reverse, i)
    BY DEF KeysOf
  <2>2. KeysOf(rk, reverse)[i] \in Word
    BY KeysTyped
  <2>. QED BY <2>1, <2>2
<1>3. \A b \in 1..n : F[b][i - 1] \in Window /\ F[b][i] = t_round(F[b][i - 1], k)
  BY <1>1, <1>2 DEF Lanes, Rolls
<1>4. PICK xs \in [1..n -> Window] : xs = Side(F, n, i - 1)
  BY <1>3 DEF Side
<1>5. BatchRound(xs, k) = [b \in 1..n |-> t_round(xs[b], k)]
  BY BatchRoundIs
<1>6. \A b \in 1..n : xs[b] = F[b][i - 1]
  BY <1>4 DEF Side
<1>. QED BY <1>2, <1>3, <1>4, <1>5, <1>6 DEF Side

(* After all rounds a batch holds the last window of each block. *)
LEMMA BatchIsSides ==
    ASSUME NEW n \in Nat, NEW blocks \in [1..n -> Block], NEW rk \in [1..Rounds -> Word],
           NEW reverse \in BOOLEAN, NEW F, Lanes(F, blocks, rk, reverse, n),
           NEW g, BatchRolls(g, Side(F, n, 0), rk, reverse)
    PROVE  g[Rounds] = Side(F, n, Rounds)
<1>0. Rounds \in Nat
  BY DEF Rounds
<1>. DEFINE S == {i \in Nat : i \in 0..Rounds => g[i] = Side(F, n, i)}
<1>1. 0 \in S
  BY <1>0 DEF BatchRolls
<1>2. ASSUME NEW i \in Nat, i \in S PROVE i + 1 \in S
  <2>. SUFFICES ASSUME i + 1 \in 0..Rounds PROVE g[i + 1] = Side(F, n, i + 1)
    OBVIOUS
  <2>1. PICK j \in 1..Rounds : j = i + 1 /\ j - 1 = i /\ i \in 0..Rounds /\ j \in 0..Rounds /\ j # 0
    BY <1>0
  <2>2. g[j] = BatchRound(g[j - 1], KeyAt(rk, reverse, j))
    BY <2>1 DEF BatchRolls
  <2>3. g[j - 1] = Side(F, n, j - 1)
    BY <1>2, <2>1
  <2>4. BatchRound(Side(F, n, j - 1), KeyAt(rk, reverse, j)) = Side(F, n, j)
    BY SideRolls
  <2>. QED BY <2>1, <2>2, <2>3, <2>4
<1>. HIDE DEF S
<1>3. Nat \subseteq S
  BY <1>1, <1>2, NatClosure
<1>4. Rounds \in 0..Rounds
  BY <1>0
<1>. QED BY <1>0, <1>3, <1>4 DEF S

(* The rounds of a batch have a run. *)
LEMMA SidesAreBatch ==
    ASSUME NEW n \in Nat, NEW blocks \in [1..n -> Block], NEW rk \in [1..Rounds -> Word],
           NEW reverse \in BOOLEAN, NEW F, Lanes(F, blocks, rk, reverse, n)
    PROVE  \E g : BatchRolls(g, Side(F, n, 0), rk, reverse)
<1>0. Rounds \in Nat
  BY DEF Rounds
<1>. DEFINE g == [i \in 0..Rounds |-> Side(F, n, i)]
<1>1. ASSUME NEW i \in 0..Rounds
      PROVE  Side(F, n, i) = IF i = 0 THEN Side(F, n, 0) ELSE BatchRound(g[i - 1], KeyAt(rk, reverse, i))
  <2>1. CASE i = 0
    BY <2>1
  <2>2. CASE i # 0
    <3>1. i \in 1..Rounds /\ i - 1 \in 0..Rounds
      BY <1>0, <2>2
    <3>2. g[i - 1] = Side(F, n, i - 1)
      BY <3>1
    <3>. HIDE DEF g
    <3>. QED BY <2>2, <3>1, <3>2, SideRolls
  <2>. QED BY <2>1, <2>2
<1>2. \A i \in 0..Rounds : g[i] = Side(F, n, i)
  OBVIOUS
<1>3. g = [i \in 0..Rounds |-> g[i]]
  OBVIOUS
<1>. HIDE DEF g
<1>4. BatchRolls(g, Side(F, n, 0), rk, reverse)
  BY <1>1, <1>2, <1>3 DEF BatchRolls
<1>. QED BY <1>4

(* A batch is encrypted block by block.                                    *)
LEMMA BatchIs ==
    ASSUME NEW n \in Nat, NEW blocks \in [1..n -> Block], NEW rk \in [1..Rounds -> Word],
           NEW reverse \in BOOLEAN
    PROVE  crypt_batch(blocks, rk, reverse) = [b \in 1..n |-> crypt(blocks[b], rk, reverse)]
<1>0. Rounds \in Nat
  BY DEF Rounds
<1>. DEFINE xs == [b \in DOMAIN blocks |-> Words(blocks[b])]
            P(f) == f = [i \in 0..Rounds |-> IF i = 0 THEN xs
                         ELSE With(f[i - 1], LAMBDA ys : BatchRound(ys, KeyAt(rk, reverse, i)))]
            g == CHOOSE f : P(f)
<1>1. crypt_batch(blocks, rk, reverse) = [b \in DOMAIN g[Rounds] |-> Unwound(g[Rounds][b])]
  <2>1. crypt_batch(blocks, rk, reverse) = With(g[Rounds], LAMBDA ys : [b \in DOMAIN ys |-> Unwound(ys[b])])
    BY DEF crypt_batch
  <2>. QED BY <2>1 DEF With
<1>2. PICK F : Lanes(F, blocks, rk, reverse, n)
  BY LanesExist
<1>3. \A b \in 1..n : F[b][0] = Words(blocks[b])
  BY <1>2 DEF Lanes, Rolls
<1>4. xs = Side(F, n, 0)
  <2>1. DOMAIN blocks = 1..n
    OBVIOUS
  <2>. QED BY <1>3, <2>1 DEF Side
<1>. HIDE DEF xs
<1>5. \A f : P(f) <=> BatchRolls(f, xs, rk, reverse)
  BY DEF BatchRolls, With
<1>. HIDE DEF P
<1>6. P(g)
  BY <1>2, <1>4, <1>5, SidesAreBatch
<1>. HIDE DEF g
<1>7. g[Rounds] = Side(F, n, Rounds)
  BY <1>2, <1>4, <1>5, <1>6, BatchIsSides
<1>8. DOMAIN g[Rounds] = 1..n /\ \A b \in 1..n : g[Rounds][b] = F[b][Rounds]
  BY <1>7 DEF Side
<1>9. \A b \in 1..n : crypt(blocks[b], rk, reverse) = Unwound(F[b][Rounds])
  BY <1>2 DEF Lanes
<1>. QED BY <1>1, <1>8, <1>9

(***************************************************************************)
(* Whole batches, then block by block.                                     *)
(***************************************************************************)
(* Block by block.                                                         *)
Crypted(blocks, rk, reverse, n) == [b \in 1..n |-> crypt(blocks[b], rk, reverse)]

(* crypt_batch is crypt on each block, for a batch of any size. *)
LEMMA CryptedTyped ==
    ASSUME NEW n \in Nat, NEW blocks \in [1..n -> Block], NEW rk \in RoundKeyRows, NEW reverse \in BOOLEAN
    PROVE  /\ Crypted(blocks, rk, reverse, n) \in [1..n -> Block]
           /\ crypt_batch(blocks, rk, reverse) = Crypted(blocks, rk, reverse, n)
<1>1. rk \in [1..Rounds -> Word]
  BY DEF RoundKeyRows
<1>2. \A b \in 1..n : crypt(blocks[b], rk, reverse) \in Block
  BY <1>1, CryptTyped
<1>3. crypt_batch(blocks, rk, reverse) = Crypted(blocks, rk, reverse, n)
  BY <1>1, BatchIs DEF Crypted
<1>. QED BY <1>2, <1>3 DEF Crypted

(* The places of n pieces, by piece and place in it.                       *)
LEMMA InsideOf ==
    ASSUME NEW c \in Nat \ {0}, NEW n \in Nat, NEW j \in 1..Mul(n, c)
    PROVE  \E k \in 0..(n - 1), l \in 1..c : j = Mul(k, c) + l
<1>1. PICK q : q = Quo(j - 1, c)
  OBVIOUS
<1>2. PICK r : r = Rem(j - 1, c) + 1
  OBVIOUS
<1>3. q + 1 \in 1..n /\ r \in 1..c /\ j = Mul(q, c) + r /\ j \in Nat
  BY <1>1, <1>2, PieceOf
<1>4. PICK m \in Nat : m = Mul(n, c)
  BY MulFacts
<1>5. q \in 0..(n - 1)
  <2>1. j - 1 \in Nat
    BY <1>4
  <2>2. q \in Nat
    BY <1>1, <2>1, DivMod
  <2>. QED BY <1>3, <2>2
<1>. QED BY <1>3, <1>5

(* Batch k + 1 of m batches of c blocks.                                   *)
BatchAt(blocks, rk, reverse, c, k) ==
    crypt_batch(SubSeq(blocks, Mul(k, c) + 1, Mul(k, c) + c), rk, reverse)

(* It is as many blocks encrypted one by one. *)
IsBatch(blocks, rk, reverse, c, k) ==
    /\ BatchAt(blocks, rk, reverse, c, k) \in [1..c -> Block]
    /\ \A l \in 1..c : BatchAt(blocks, rk, reverse, c, k)[l] = crypt(blocks[Mul(k, c) + l], rk, reverse)

(* Batch k + 1 is encrypted block by block. *)
LEMMA BatchAtIs ==
    ASSUME NEW n \in Nat, NEW blocks \in [1..n -> Block], NEW rk \in RoundKeyRows, NEW reverse \in BOOLEAN,
           NEW c \in Nat \ {0}, NEW k \in Nat, Mul(k, c) + c <= n
    PROVE  IsBatch(blocks, rk, reverse, c, k)
<1>1. PICK a \in Nat : a = Mul(k, c)
  BY MulFacts
<1>2. blocks \in Seq(Block) /\ Len(blocks) = n /\ c \in Nat /\ a + c <= Len(blocks)
  BY <1>1, RunTyped
<1>3. PICK s \in [1..c -> Block] : s = SubSeq(blocks, a + 1, a + c)
  BY <1>2, StretchTyped
<1>4. ASSUME NEW l \in 1..c PROVE s[l] = blocks[a + l]
  BY <1>2, <1>3, PlaceInStretch
<1>5. BatchAt(blocks, rk, reverse, c, k) = Crypted(s, rk, reverse, c)
  BY <1>1, <1>2, <1>3, CryptedTyped DEF BatchAt
<1>6. Crypted(s, rk, reverse, c) \in [1..c -> Block]
  BY <1>2, CryptedTyped
<1>7. \A l \in 1..c : Crypted(s, rk, reverse, c)[l] = crypt(blocks[a + l], rk, reverse)
  BY <1>4 DEF Crypted
<1>. QED BY <1>1, <1>5, <1>6, <1>7 DEF IsBatch

(* A piece of m pieces ends within them. *)
LEMMA PieceFits ==
    ASSUME NEW c \in Nat \ {0}, NEW m \in Nat, NEW k \in 0..(m - 1)
    PROVE  Mul(k, c) \in Nat /\ Mul(m, c) \in Nat /\ Mul(k, c) + c <= Mul(m, c)
<1>1. k \in Nat /\ k < m
  OBVIOUS
<1>. QED BY <1>1, MulFacts

(* The first w places of f are blocks encrypted.                           *)
AreCrypted(f, blocks, rk, reverse, w) ==
    IsRun(f, w) /\ \A j \in 1..w : f[j] = crypt(blocks[j], rk, reverse)

(* Whole batches one behind the other are blocks encrypted one by one. *)
LEMMA BatchesAre ==
    ASSUME NEW n \in Nat, NEW blocks \in [1..n -> Block], NEW rk \in RoundKeyRows, NEW reverse \in BOOLEAN,
           NEW c \in Nat \ {0}, NEW m \in Nat, Mul(m, c) <= n, NEW ss,
           ss = [k \in 1..m |-> BatchAt(blocks, rk, reverse, c, k - 1)]
    PROVE  AreCrypted(FlattenSeq(ss), blocks, rk, reverse, Mul(m, c))
<1>1. PICK w \in Nat : w = Mul(m, c)
  BY MulFacts
<1>2. ASSUME NEW k \in 0..(m - 1)
      PROVE  IsBatch(blocks, rk, reverse, c, k)
  <2>0. k \in Nat /\ k < m
    OBVIOUS
  <2>1. Mul(k, c) \in Nat /\ Mul(k, c) + c <= n
    <3>1. Mul(k, c) \in Nat /\ Mul(m, c) \in Nat /\ Mul(k, c) + c <= Mul(m, c)
      BY PieceFits
    <3>. QED BY <1>1, <3>1
  <2>. QED BY <2>0, <2>1, BatchAtIs
<1>3. \A k \in 0..(m - 1) : ss[k + 1] = BatchAt(blocks, rk, reverse, c, k)
  OBVIOUS
<1>4. IsPieces(ss, Block, c, m)
  <2>1. ASSUME NEW i \in 1..m PROVE ss[i] \in [1..c -> Block]
    <3>1. i - 1 \in 0..(m - 1)
      OBVIOUS
    <3>2. BatchAt(blocks, rk, reverse, c, i - 1) \in [1..c -> Block]
      BY <1>2, <3>1 DEF IsBatch
    <3>. QED BY <3>2
  <2>2. ss \in [1..m -> [1..c -> Block]]
    BY <2>1
  <2>. QED BY <2>2 DEF IsPieces, Pieces
<1>5. IsLong(FlattenSeq(ss), Block, c, m)
  BY <1>4, FlatLong, Zenon
<1>6. IsRun(FlattenSeq(ss), w)
  <2>1. FlattenSeq(ss) \in Seq(Block) /\ Len(FlattenSeq(ss)) = w
    BY <1>1, <1>5 DEF IsLong, Long
  <2>. QED BY <2>1, SeqIsRun
<1>7. ASSUME NEW j \in 1..w PROVE FlattenSeq(ss)[j] = crypt(blocks[j], rk, reverse)
  <2>1. PICK k \in 0..(m - 1), l \in 1..c : j = Mul(k, c) + l
    BY <1>1, InsideOf
  <2>2. Inside(k, l, m, c)
    BY DEF Inside
  <2>3. FlatHere(ss, c, k, l)
    BY <1>4, <2>2, FlatPlace, Zenon
  <2>4. FlattenSeq(ss)[j] = ss[k + 1][l]
    BY <2>1, <2>3 DEF FlatHere
  <2>5. ss[k + 1] = BatchAt(blocks, rk, reverse, c, k)
    BY <1>3
  <2>6. BatchAt(blocks, rk, reverse, c, k)[l] = crypt(blocks[Mul(k, c) + l], rk, reverse)
    BY <1>2 DEF IsBatch
  <2>. QED BY <2>1, <2>4, <2>5, <2>6
<1>. QED BY <1>1, <1>6, <1>7 DEF AreCrypted

(* Whatever the size of the batches.                                       *)
THEOREM CryptBlocksAre ==
    ASSUME NEW size \in Nat \ {0}, NEW n \in Nat, NEW blocks \in [1..n -> Block],
           NEW rk \in RoundKeyRows, NEW reverse \in BOOLEAN
    PROVE  CryptBlocks(size, blocks, rk, reverse) = Crypted(blocks, rk, reverse, n)
<1>. DEFINE w == IF size = 1 THEN 0 ELSE size * (Len(blocks) \div size)
            m == w \div size
            ss == [c \in 1..m |-> crypt_batch(SubSeq(blocks, size * (c - 1) + 1, size * c), rk, reverse)]
            v == [b \in 1..(Len(blocks) - w) |-> crypt(blocks[w + b], rk, reverse)]
            r == Crypted(blocks, rk, reverse, n)
<1>1. CryptBlocks(size, blocks, rk, reverse) = FlattenSeq(ss) \o v
  BY DEF CryptBlocks, With
<1>2. Len(blocks) = n
  BY RunTyped
<1>3. w \in Nat /\ m \in Nat /\ w = Mul(m, size) /\ w <= n
  <2>1. Quo(n, size) \in Nat /\ Mul(Quo(n, size), size) \in Nat /\ Mul(Quo(n, size), size) <= n
    <3>1. PICK q \in Nat : q = Quo(n, size)
      BY DivMod
    <3>2. PICK e \in 0..(size - 1) : e = Rem(n, size)
      BY DivMod
    <3>3. n = Mul(q, size) + e /\ Mul(q, size) \in Nat
      BY <3>1, <3>2, DivMod
    <3>. QED BY <3>1, <3>3
  <2>2. CASE size = 1
    BY <2>2 DEF Mul
  <2>3. CASE size # 1
    <3>1. w = Mul(Quo(n, size), size)
      BY <1>2, <2>3 DEF Mul, Quo
    <3>2. PICK q \in Nat : q = Quo(n, size)
      BY <2>1
    <3>3. w = Mul(q, size) + 0 /\ 0 \in 0..(size - 1)
      BY <2>1, <3>1, <3>2
    <3>4. Quo(w, size) = q
      <4>. HIDE DEF w
      <4>. QED BY <3>3, Euclid
    <3>5. m = q
      <4>. HIDE DEF w
      <4>. QED BY <3>4 DEF Quo
    <3>. HIDE DEF w, m
    <3>. QED BY <2>1, <3>1, <3>2, <3>5
  <2>. QED BY <2>2, <2>3
<1>4. ss = [k \in 1..m |-> BatchAt(blocks, rk, reverse, size, k - 1)]
  <2>. HIDE DEF m
  <2>1. ASSUME NEW c \in 1..m
        PROVE  Mul(c - 1, size) + 1 = size * (c - 1) + 1 /\ Mul(c - 1, size) + size = size * c
    BY <1>3 DEF Mul
  <2>. QED BY <2>1 DEF BatchAt
<1>. HIDE DEF ss, m
<1>u. PICK u : u = FlattenSeq(ss)
  OBVIOUS
<1>5. IsRun(u, w) /\ \A j \in 1..w : u[j] = crypt(blocks[j], rk, reverse)
  <2>. HIDE DEF w
  <2>1. Mul(m, size) <= n /\ m \in Nat
    BY <1>3
  <2>2. AreCrypted(FlattenSeq(ss), blocks, rk, reverse, Mul(m, size))
    BY <1>4, <2>1, BatchesAre
  <2>. QED BY <1>u, <1>3, <2>2 DEF AreCrypted
<1>6. v = [b \in 1..(n - w) |-> crypt(blocks[w + b], rk, reverse)]
  BY <1>2
<1>. HIDE DEF w, v
<1>7. PICK d \in Nat : d = n - w /\ n = w + d
  BY <1>3
<1>8. IsRun(v, d) /\ \A b \in 1..d : v[b] = crypt(blocks[w + b], rk, reverse)
  BY <1>6, <1>7 DEF IsRun
<1>9. IsRun(r, w + d) /\ \A j \in 1..(w + d) : r[j] = crypt(blocks[j], rk, reverse)
  BY <1>7 DEF IsRun, Crypted
<1>. HIDE DEF r
<1>10. ASSUME NEW j \in 1..w PROVE r[j] = u[j]
  <2>1. j \in 1..(w + d)
    BY <1>3, <1>7
  <2>. QED BY <1>5, <1>9, <2>1
<1>11. ASSUME NEW b \in 1..d PROVE r[w + b] = v[b]
  <2>0. w \in Nat
    BY <1>3
  <2>1. PICK j \in 1..(w + d) : j = w + b
    BY <2>0
  <2>. QED BY <1>8, <1>9, <2>1
<1>12. w \in Nat /\ IsRun(u, w) /\ IsRun(v, d) /\ IsRun(r, w + d)
  BY <1>3, <1>5, <1>8, <1>9
<1>13. r = u \o v
  BY <1>10, <1>11, <1>12, JoinIs
<1>. QED BY <1>u, <1>1, <1>13 DEF r

(***************************************************************************)
(* A block and its tweak.                                                  *)
(***************************************************************************)
LEMMA XorsBlocks ==
    ASSUME NEW v \in Block, NEW w \in Block
    PROVE  Xors(v, w) \in Block /\ Xors(Xors(v, w), w) = v
<1>1. ASSUME NEW k \in 1..BlockLen
      PROVE  v[k] ^^ w[k] \in Octet /\ (v[k] ^^ w[k]) ^^ w[k] = v[k]
  <2>1. v[k] \in Octet /\ w[k] \in Octet
    BY DEF Block
  <2>. QED BY <2>1, XorOctets
<1>2. PICK x : x = Xors(v, w)
  OBVIOUS
<1>3. x = [k \in 1..BlockLen |-> v[k] ^^ w[k]]
  BY <1>2 DEF Xors, Block
<1>4. x \in Block
  BY <1>1, <1>3 DEF Block
<1>5. Xors(x, w) = [k \in 1..BlockLen |-> x[k] ^^ w[k]]
  BY <1>4 DEF Xors, Block
<1>6. \A k \in 1..BlockLen : x[k] ^^ w[k] = v[k]
  BY <1>1, <1>3
<1>7. Xors(x, w) = v
  BY <1>5, <1>6 DEF Block
<1>. QED BY <1>2, <1>4, <1>7

(* What XTS does with a block: the tweak is added, the block goes through  *)
(* the cipher, the tweak is added.                                         *)
LEMMA OneBlockIs ==
    ASSUME NEW c1, NEW t, NEW b, NEW d
    PROVE  OneBlock(c1, t, b, d) = Xors(crypt(Xors(b, t), c1, d), t)
  BY DEF OneBlock, With

(* It makes a block of a block. *)
LEMMA OneBlockTyped ==
    ASSUME NEW c1 \in RoundKeyRows, NEW t \in Block, NEW b \in Block, NEW d \in BOOLEAN
    PROVE  OneBlock(c1, t, b, d) \in Block
<1>1. Xors(b, t) \in Block
  BY XorsBlocks
<1>2. crypt(Xors(b, t), c1, d) \in Block
  BY <1>1, CryptTyped DEF RoundKeyRows
<1>. QED BY <1>2, OneBlockIs, XorsBlocks

(* The other direction with the same tweak takes it back. *)
LEMMA OneBlockUndone ==
    ASSUME NEW c1 \in RoundKeyRows, NEW t \in Block, NEW b \in Block, NEW d \in BOOLEAN
    PROVE  OneBlock(c1, t, OneBlock(c1, t, b, d), ~d) = b
<1>1. PICK x \in Block : x = Xors(b, t)
  BY XorsBlocks
<1>2. PICK y \in Block : y = crypt(x, c1, d)
  BY CryptTyped DEF RoundKeyRows
<1>3. PICK z \in Block : z = Xors(y, t)
  BY XorsBlocks
<1>4. OneBlock(c1, t, b, d) = z
  BY <1>1, <1>2, <1>3, OneBlockIs
<1>5. Xors(z, t) = y
  BY <1>3, XorsBlocks
<1>6. crypt(y, c1, ~d) = x
  BY <1>2, CryptUndone DEF RoundKeyRows
<1>7. OneBlock(c1, t, z, ~d) = Xors(crypt(Xors(z, t), c1, ~d), t)
  BY OneBlockIs
<1>8. Xors(x, t) = b
  BY <1>1, XorsBlocks
<1>. QED BY <1>4, <1>5, <1>6, <1>7, <1>8

(* Whole blocks: each with its own tweak, on every host.                   *)
EachBlock(c1, ts, blocks, d, m) == [j \in 1..m |-> OneBlock(c1, ts[j], blocks[j], d)]

(* Blocks each with its own tweak make as many blocks. *)
LEMMA EachTyped ==
    ASSUME NEW m \in Nat, NEW c1 \in RoundKeyRows, NEW ts, \A j \in 1..m : ts[j] \in Block,
           NEW blocks \in [1..m -> Block], NEW d \in BOOLEAN
    PROVE  EachBlock(c1, ts, blocks, d, m) \in [1..m -> Block]
<1>1. \A j \in 1..m : OneBlock(c1, ts[j], blocks[j], d) \in Block
  BY OneBlockTyped
<1>. QED BY <1>1 DEF EachBlock

(* Every host has a batch of at least one block. *)
LEMMA BatchSizes ==
    ASSUME NEW h
    PROVE  SIMD_BATCH(h) \in Nat \ {0}
  BY DEF SIMD_BATCH

(* The whole blocks of a unit, added to their tweaks and sent through the  *)
(* cipher in batches, are the blocks done one by one.                      *)
LEMMA WholeIs ==
    ASSUME NEW m \in Nat, NEW c1 \in RoundKeyRows, NEW ts, \A j \in 1..m : ts[j] \in Block,
           NEW blocks \in [1..m -> Block], NEW d \in BOOLEAN, NEW h
    PROVE  WholeBlocks(h, c1, ts, blocks, d) = FlattenSeq(EachBlock(c1, ts, blocks, d, m))
<1>. DEFINE xs == [j \in DOMAIN blocks |-> Xors(blocks[j], ts[j])]
            out == CryptBlocks(SIMD_BATCH(h), xs, c1, d)
            ys == [j \in DOMAIN out |-> Xors(out[j], ts[j])]
<1>1. WholeBlocks(h, c1, ts, blocks, d) = FlattenSeq(ys)
  BY DEF WholeBlocks, With
<1>2. xs = [j \in 1..m |-> Xors(blocks[j], ts[j])]
  OBVIOUS
<1>3. xs \in [1..m -> Block]
  <2>1. \A j \in 1..m : Xors(blocks[j], ts[j]) \in Block
    BY XorsBlocks
  <2>. HIDE DEF xs
  <2>. QED BY <1>2, <2>1
<1>4. PICK size \in Nat \ {0} : size = SIMD_BATCH(h)
  BY BatchSizes
<1>5. out = Crypted(xs, c1, d, m)
  <2>. HIDE DEF xs
  <2>1. CryptBlocks(size, xs, c1, d) = Crypted(xs, c1, d, m)
    BY <1>3, CryptBlocksAre
  <2>. QED BY <1>4, <2>1
<1>6. out = [j \in 1..m |-> crypt(xs[j], c1, d)]
  <2>. HIDE DEF xs, out
  <2>. QED BY <1>5 DEF Crypted
<1>7. ys = [j \in 1..m |-> Xors(out[j], ts[j])]
  <2>. HIDE DEF xs, out
  <2>1. DOMAIN out = 1..m
    BY <1>6
  <2>. QED BY <2>1
<1>. HIDE DEF ys, out, xs
<1>8. ASSUME NEW j \in 1..m PROVE Xors(out[j], ts[j]) = OneBlock(c1, ts[j], blocks[j], d)
  BY <1>2, <1>6, OneBlockIs
<1>9. ys = EachBlock(c1, ts, blocks, d, m)
  BY <1>7, <1>8 DEF EachBlock
<1>. QED BY <1>1, <1>9

(***************************************************************************)
(* Tweaks.                                                                 *)
(***************************************************************************)
LEMMA AlphaTyped ==
    ASSUME NEW t \in Block
    PROVE  mul_alpha(t) \in Block
<1>1. ASSUME NEW k \in 1..BlockLen
      PROVE  (IF k = 1 THEN (t[1] \div 2) ^^ (IF t[BlockLen] % 2 = 1 THEN \he1 ELSE 0)
              ELSE (t[k] \div 2) + 128 * (t[k - 1] % 2)) \in Octet
  <2>1. CASE k = 1
    <3>1. t[1] \div 2 \in Octet
      <4>1. t[1] \in Octet
        BY DEF Block, BlockLen
      <4>. QED BY <4>1 DEF Octet
    <3>2. (IF t[BlockLen] % 2 = 1 THEN \he1 ELSE 0) \in Octet
      BY DEF Octet
    <3>. QED BY <2>1, <3>1, <3>2, XorOctets
  <2>2. CASE k # 1
    <3>1. t[k] \in Octet /\ t[k - 1] \in Octet
      BY <2>2 DEF Block, BlockLen
    <3>2. (t[k] \div 2) + 128 * (t[k - 1] % 2) \in Octet
      BY <3>1 DEF Octet
    <3>. QED BY <2>2, <3>2
  <2>. QED BY <2>1, <2>2
<1>. QED BY <1>1 DEF mul_alpha, Block

(* One tweak more, and i + 1 tweaks.                                       *)
OneMoreTweak(ts, i) == Append(ts, mul_alpha(ts[i]))
AreTweaks(ts, i) == ts \in Seq(Block) /\ Len(ts) = i + 1

(* One tweak more is a block, whichever bit the doubling carries out. *)
LEMMA OneMoreTweakTyped ==
    ASSUME NEW i \in Nat \ {0}, NEW ts, AreTweaks(ts, i - 1)
    PROVE  AreTweaks(OneMoreTweak(ts, i), i)
<1>1. ts \in Seq(Block) /\ Len(ts) = i /\ i \in Nat
  BY DEF AreTweaks
<1>2. ts[i] \in Block
  BY <1>1
<1>3. mul_alpha(ts[i]) \in Block
  BY <1>2, AlphaTyped
<1>. QED BY <1>1, <1>3, AppendFacts DEF AreTweaks, OneMoreTweak

(* f doubles the tweak b from block to block.                              *)
Doubles(f, b, m) == f = [i \in 0..m |-> IF i = 0 THEN <<b>> ELSE OneMoreTweak(f[i - 1], i)]

(* After i doublings there are i + 1 tweaks. *)
LEMMA DoublesTyped ==
    ASSUME NEW b \in Block, NEW m \in Nat, NEW f, Doubles(f, b, m), NEW i \in 0..m
    PROVE  AreTweaks(f[i], i)
<1>. DEFINE S == {n \in Nat : n \in 0..m => AreTweaks(f[n], n)}
<1>1. 0 \in S
  <2>1. f[0] = <<b>>
    BY DEF Doubles
  <2>2. <<b>> \in Seq(Block) /\ Len(<<b>>) = 1
    OBVIOUS
  <2>3. f[0] \in Seq(Block) /\ Len(f[0]) = 0 + 1
    BY <2>1, <2>2
  <2>. QED BY <2>3 DEF AreTweaks
<1>2. ASSUME NEW n \in Nat, n \in S PROVE n + 1 \in S
  <2>. SUFFICES ASSUME n + 1 \in 0..m PROVE AreTweaks(f[n + 1], n + 1)
    OBVIOUS
  <2>1. n \in 0..m /\ n + 1 \in Nat \ {0} /\ (n + 1) - 1 = n /\ n + 1 # 0
    OBVIOUS
  <2>2. f[n + 1] = OneMoreTweak(f[n], n + 1)
    BY <2>1 DEF Doubles
  <2>3. AreTweaks(f[n], (n + 1) - 1)
    BY <1>2, <2>1
  <2>. HIDE DEF S
  <2>. QED BY <2>1, <2>2, <2>3, OneMoreTweakTyped
<1>. HIDE DEF S
<1>3. Nat \subseteq S
  BY <1>1, <1>2, NatClosure
<1>. QED BY <1>3 DEF S

(* A tweak can be doubled as often as wanted. *)
LEMMA DoublesExists ==
    ASSUME NEW b \in Block, NEW m \in Nat
    PROVE  \E f : Doubles(f, b, m)
<1>. DEFINE T == Seq(Block)
            s == [a \in Nat \X T |-> IF a[1] # 0 /\ Len(a[2]) = a[1] THEN OneMoreTweak(a[2], a[1]) ELSE <<b>>]
<1>1. <<b>> \in T /\ Len(<<b>>) = 1
  OBVIOUS
<1>2. ASSUME NEW i \in Nat, NEW y \in T
      PROVE  (IF i # 0 /\ Len(y) = i THEN OneMoreTweak(y, i) ELSE <<b>>) \in T
  <2>1. i # 0 /\ Len(y) = i => AreTweaks(y, i - 1) /\ i \in Nat \ {0}
    BY DEF AreTweaks
  <2>2. i # 0 /\ Len(y) = i => OneMoreTweak(y, i) \in T
    BY <2>1, OneMoreTweakTyped DEF AreTweaks
  <2>. QED BY <1>1, <2>2
<1>3. s \in [Nat \X T -> T]
  <2>. HIDE DEF T
  <2>. QED BY <1>2
<1>4. \A i \in Nat \ {0} : \A y \in T : Len(y) = i => s[<<i, y>>] = OneMoreTweak(y, i)
  <2>. HIDE DEF T
  <2>. QED OBVIOUS
<1>. HIDE DEF s
<1>5. PICK f \in [0..m -> T] : Stepwise(f, <<b>>, s, m)
  <2>. HIDE DEF T
  <2>. QED BY <1>1, <1>3, Recursion
<1>6. f = [i \in 0..m |-> IF i = 0 THEN <<b>> ELSE s[<<i, f[i - 1]>>]]
  BY <1>5 DEF Stepwise
<1>. DEFINE S == {n \in Nat : n \in 0..m => AreTweaks(f[n], n)}
<1>7. 0 \in S
  <2>1. f[0] = <<b>>
    BY <1>6
  <2>2. f[0] \in Seq(Block) /\ Len(f[0]) = 0 + 1
    BY <1>1, <2>1
  <2>. QED BY <2>2 DEF AreTweaks
<1>8. ASSUME NEW n \in Nat, n \in S PROVE n + 1 \in S
  <2>. SUFFICES ASSUME n + 1 \in 0..m PROVE AreTweaks(f[n + 1], n + 1)
    OBVIOUS
  <2>1. n \in 0..m /\ n + 1 \in Nat \ {0} /\ (n + 1) - 1 = n /\ n + 1 # 0
    OBVIOUS
  <2>2. AreTweaks(f[n], (n + 1) - 1) /\ AreTweaks(f[n], n)
    BY <1>8, <2>1
  <2>3. f[n + 1] = s[<<n + 1, f[n]>>]
    BY <1>6, <2>1
  <2>4. f[n] \in T /\ Len(f[n]) = n + 1
    BY <2>2 DEF AreTweaks
  <2>5. f[n + 1] = OneMoreTweak(f[n], n + 1)
    BY <1>4, <2>1, <2>3, <2>4
  <2>. HIDE DEF S
  <2>. QED BY <2>1, <2>2, <2>5, OneMoreTweakTyped
<1>. HIDE DEF S
<1>9. Nat \subseteq S
  BY <1>7, <1>8, NatClosure
<1>10. ASSUME NEW i \in 0..m
       PROVE  f[i] = IF i = 0 THEN <<b>> ELSE OneMoreTweak(f[i - 1], i)
  <2>1. CASE i = 0
    BY <1>6, <2>1
  <2>2. CASE i # 0
    <3>1. i \in Nat \ {0} /\ i - 1 \in 0..m /\ i - 1 \in Nat
      BY <2>2
    <3>2. AreTweaks(f[i - 1], i - 1)
      BY <1>9, <3>1 DEF S
    <3>3. f[i - 1] \in T /\ Len(f[i - 1]) = i
      BY <3>1, <3>2 DEF AreTweaks
    <3>4. f[i] = s[<<i, f[i - 1]>>]
      BY <1>6, <2>2
    <3>. QED BY <1>4, <2>2, <3>1, <3>3, <3>4
  <2>. QED BY <2>1, <2>2
<1>11. f = [i \in 0..m |-> IF i = 0 THEN <<b>> ELSE OneMoreTweak(f[i - 1], i)]
  BY <1>5, <1>10
<1>. QED BY <1>11 DEF Doubles

(* A unit of n blocks has n tweaks. *)
LEMMA TweaksTyped ==
    ASSUME NEW c2 \in RoundKeyRows, NEW tweak \in Block, NEW n \in Nat \ {0}
    PROVE  TweaksOf(c2, tweak, n) \in [1..n -> Block]
<1>. DEFINE P(f) == f = [i \in 0..(n - 1) |-> IF i = 0 THEN <<crypt(tweak, c2, FALSE)>>
                             ELSE With(f[i - 1], LAMBDA t : Append(t, mul_alpha(t[i])))]
            g == CHOOSE f : P(f)
<1>1. TweaksOf(c2, tweak, n) = g[n - 1]
  BY DEF TweaksOf
<1>2. PICK b \in Block : b = crypt(tweak, c2, FALSE)
  BY CryptTyped DEF RoundKeyRows
<1>3. PICK m \in Nat : m = n - 1 /\ n = m + 1
  OBVIOUS
<1>4. \A f : P(f) <=> Doubles(f, b, m)
  BY <1>2, <1>3 DEF Doubles, OneMoreTweak, With
<1>. HIDE DEF P
<1>5. P(g)
  BY <1>4, DoublesExists
<1>. HIDE DEF g
<1>6. AreTweaks(g[m], m)
  <2>1. m \in 0..m
    OBVIOUS
  <2>. QED BY <1>4, <1>5, <2>1, DoublesTyped
<1>7. g[m] \in Seq(Block) /\ Len(g[m]) = n
  BY <1>3, <1>6 DEF AreTweaks
<1>8. g[m] \in [1..n -> Block]
  BY <1>7, SeqTyped
<1>. QED BY <1>1, <1>3, <1>8

(***************************************************************************)
(* A data unit and its parts.                                              *)
(***************************************************************************)
(* The two parts of a join are cut out of it again, and joined again.      *)
HasParts(w, u, v, a, b, S) ==
    /\ w \in Seq(S) /\ Len(w) = a + b
    /\ \A i \in 1..a : w[i] = u[i]
    /\ \A i \in 1..b : w[a + i] = v[i]

(* The two parts of a join are cut out of it again. *)
LEMMA JoinHasParts ==
    ASSUME NEW S, NEW u \in Seq(S), NEW v \in Seq(S),
           NEW a \in Nat, NEW b \in Nat, Len(u) = a, Len(v) = b, NEW w, IsJoin(w, u, v)
    PROVE  HasParts(w, u, v, a, b, S)
  BY ConcatParts DEF HasParts

(* Both parts are cut out of the join. *)
JoinCut(w, u, v, a, b, T) ==
    /\ w \in Seq(T) /\ Len(w) = a + b /\ w \in [1..(a + b) -> T]
    /\ SubSeq(w, 1, a) = u /\ SubSeq(w, a + 1, a + b) = v

(* The same for parts of known length. *)
LEMMA JoinCuts ==
    ASSUME NEW T, NEW a \in Nat, NEW b \in Nat, NEW u \in [1..a -> T], NEW v \in [1..b -> T],
           NEW w, IsJoin(w, u, v)
    PROVE  JoinCut(w, u, v, a, b, T)
<1>1. u \in Seq(T) /\ Len(u) = a /\ v \in Seq(T) /\ Len(v) = b /\ IsRun(u, a) /\ IsRun(v, b)
  BY RunTyped
<1>2. /\ w \in Seq(T) /\ Len(w) = a + b
      /\ \A i \in 1..a : w[i] = u[i]
      /\ \A i \in 1..b : w[a + i] = v[i]
  <2>1. u \in Seq(T) /\ Len(u) = a /\ v \in Seq(T) /\ Len(v) = b
    BY <1>1
  <2>2. HasParts(w, u, v, a, b, T)
    BY <2>1, JoinHasParts
  <2>. QED BY <2>2 DEF HasParts
<1>3. PICK n \in Nat : n = a + b
  OBVIOUS
<1>4. w \in [1..n -> T]
  BY <1>2, <1>3, SeqTyped
<1>5. a <= Len(w) /\ a + b <= Len(w)
  BY <1>2
<1>6. SubSeq(w, 1, a) = u
  BY <1>1, <1>2, <1>5, PrefixIs
<1>7. SubSeq(w, a + 1, a + b) = [l \in 1..b |-> w[a + l]]
  <2>1. w \in Seq(T)
    BY <1>2
  <2>. QED BY <1>5, <2>1, StretchIs
<1>8. SubSeq(w, a + 1, a + b) = v
  BY <1>2, <1>7
<1>. QED BY <1>2, <1>3, <1>4, <1>6, <1>8 DEF JoinCut

(* A sequence cut in two is the join of what was cut. *)
LEMMA CutJoins ==
    ASSUME NEW T, NEW a \in Nat, NEW b \in Nat, NEW w \in [1..(a + b) -> T]
    PROVE  /\ SubSeq(w, 1, a) \in [1..a -> T] /\ SubSeq(w, a + 1, a + b) \in [1..b -> T]
           /\ IsJoin(w, SubSeq(w, 1, a), SubSeq(w, a + 1, a + b))
<1>0. PICK n \in Nat : n = a + b
  OBVIOUS
<1>1. w \in Seq(T) /\ Len(w) = n /\ IsRun(w, n)
  BY <1>0, RunTyped
<1>2. a + b <= Len(w) /\ 0 + a <= Len(w)
  BY <1>0, <1>1
<1>3. PICK v \in [1..b -> T] : v = SubSeq(w, a + 1, a + b)
  BY <1>1, <1>2, StretchTyped
<1>4. ASSUME NEW l \in 1..b PROVE w[a + l] = v[l]
  BY <1>1, <1>2, <1>3, PlaceInStretch
<1>z. 0 + 1 = 1 /\ 0 + a = a
  OBVIOUS
<1>5. PICK u \in [1..a -> T] : u = SubSeq(w, 1, a)
  <2>1. SubSeq(w, 0 + 1, 0 + a) \in [1..a -> T]
    BY <1>1, <1>2, StretchTyped
  <2>2. SubSeq(w, 1, a) \in [1..a -> T]
    BY <1>z, <2>1, Zenon
  <2>. QED BY <2>2
<1>6. ASSUME NEW l \in 1..a PROVE w[l] = u[l]
  <2>1. SubSeq(w, 0 + 1, 0 + a)[l] = w[0 + l]
    BY <1>1, <1>2, PlaceInStretch
  <2>. QED BY <1>5, <2>1
<1>7. IsRun(u, a) /\ IsRun(v, b) /\ IsRun(w, a + b)
  BY <1>0, <1>1, RunTyped
<1>8. w = u \o v
  BY <1>4, <1>6, <1>7, JoinIs
<1>. QED BY <1>3, <1>5, <1>8 DEF IsJoin

(* A sequence of a + b elements of T is a join. *)
InTwo(w, a, b, T) == \E u \in [1..a -> T], v \in [1..b -> T] : IsJoin(w, u, v)

(* CutJoins by names. *)
LEMMA TwoParts ==
    ASSUME NEW T, NEW a \in Nat, NEW b \in Nat, NEW n, n = a + b, NEW w \in [1..n -> T]
    PROVE  InTwo(w, a, b, T)
<1>1. w \in [1..(a + b) -> T]
  BY Zenon
<1>. QED BY <1>1, CutJoins DEF InTwo

(* Whole blocks, and the bytes of them.                                    *)
LEMMA BlockLenIs ==
    BlockLen \in Nat \ {0}
  BY DEF BlockLen

(* The blocks of m * 16 bytes are their pieces of 16. *)
LEMMA BlocksAre ==
    ASSUME NEW m \in Nat, NEW s, IsLong(s, Octet, BlockLen, m)
    PROVE  BlocksOf(s) = [b \in 1..m |-> Piece(s, BlockLen, b - 1)]
<1>0. BlockLen \in Nat \ {0}
  BY BlockLenIs
<1>1. s \in Seq(Octet) /\ Len(s) = Mul(m, BlockLen) /\ Mul(m, BlockLen) \in Nat
  BY <1>0, MulFacts DEF IsLong, Long
<1>2. Len(s) \div BlockLen = m
  <2>1. PICK a \in Nat : a = Len(s)
    BY <1>1
  <2>2. a = Mul(m, BlockLen) + 0 /\ 0 \in 0..(BlockLen - 1)
    BY <1>0, <1>1, <2>1
  <2>3. Quo(a, BlockLen) = m
    BY <1>0, <2>2, Euclid
  <2>. QED BY <2>1, <2>3 DEF Quo
<1>3. ASSUME NEW b \in 1..m
      PROVE  Piece(s, BlockLen, b - 1) = SubSeq(s, BlockLen * (b - 1) + 1, BlockLen * b)
  <2>1. Mul(b - 1, BlockLen) + 1 = BlockLen * (b - 1) + 1 /\ Mul(b - 1, BlockLen) + BlockLen = BlockLen * b
    BY <1>0 DEF Mul
  <2>. QED BY <2>1 DEF Piece
<1>. QED BY <1>2, <1>3 DEF BlocksOf

(* Blocks are pieces, and their join has m * 16 bytes. *)
LEMMA BlockPieces ==
    ASSUME NEW m \in Nat, NEW blocks \in [1..m -> Block]
    PROVE  IsPieces(blocks, Octet, BlockLen, m) /\ IsLong(FlattenSeq(blocks), Octet, BlockLen, m)
<1>1. IsPieces(blocks, Octet, BlockLen, m)
  BY BlockLenIs DEF IsPieces, Pieces, Block
<1>. QED BY <1>1, FlatLong

(* The blocks of the join of blocks are these blocks. *)
LEMMA BlocksOfFlat ==
    ASSUME NEW m \in Nat, NEW blocks \in [1..m -> Block]
    PROVE  BlocksOf(FlattenSeq(blocks)) = blocks
<1>1. IsPieces(blocks, Octet, BlockLen, m) /\ IsLong(FlattenSeq(blocks), Octet, BlockLen, m)
  BY BlockPieces
<1>2. BlocksOf(FlattenSeq(blocks)) = [b \in 1..m |-> Piece(FlattenSeq(blocks), BlockLen, b - 1)]
  BY <1>1, BlocksAre
<1>3. ASSUME NEW b \in 1..m PROVE Piece(FlattenSeq(blocks), BlockLen, b - 1) = blocks[b]
  <2>1. PICK k : k = b - 1 /\ Th(k, m) /\ k + 1 = b
    BY DEF Th
  <2>2. CutAgain(blocks, BlockLen, k)
    BY <1>1, <2>1, FlatCut, Zenon
  <2>. QED BY <2>1, <2>2 DEF CutAgain
<1>. QED BY <1>2, <1>3

(* The join of the blocks of a run of bytes is that run. *)
LEMMA FlatOfBlocks ==
    ASSUME NEW m \in Nat, NEW s, IsLong(s, Octet, BlockLen, m)
    PROVE  BlocksOf(s) \in [1..m -> Block] /\ FlattenSeq(BlocksOf(s)) = s
<1>1. PICK bs : bs = BlocksOf(s)
  OBVIOUS
<1>2. bs = [b \in 1..m |-> Piece(s, BlockLen, b - 1)]
  BY <1>1, BlocksAre
<1>3. ASSUME NEW b \in 1..m PROVE Piece(s, BlockLen, b - 1) \in Block
  <2>1. PICK k : k = b - 1 /\ Th(k, m)
    BY DEF Th
  <2>2. IsPiece(Piece(s, BlockLen, k), Octet, BlockLen)
    BY <2>1, PieceHas, Zenon
  <2>. QED BY <2>1, <2>2 DEF IsPiece, Block
<1>4. bs \in [1..m -> Block]
  BY <1>2, <1>3
<1>5. IsPieces(bs, Octet, BlockLen, m)
  BY <1>4, BlockPieces
<1>6. IsCut(bs, s, BlockLen, m)
  BY <1>2 DEF IsCut
<1>7. FlattenSeq(bs) = s
  BY <1>5, <1>6, FlatCuts, Zenon
<1>. QED BY <1>1, <1>4, <1>7

(* Three parts.                                                            *)
HasThree(w, u, v, p, a, b, c, T) ==
    /\ w \in Seq(T) /\ Len(w) = (a + b) + c
    /\ SubSeq(w, 1, a) = u /\ SubSeq(w, a + 1, a + b) = v /\ SubSeq(w, (a + b) + 1, (a + b) + c) = p

(* The three parts of a join are cut out of it again. *)
LEMMA ThreeCuts ==
    ASSUME NEW T, NEW a \in Nat, NEW b \in Nat, NEW c \in Nat,
           NEW u \in [1..a -> T], NEW v \in [1..b -> T], NEW p \in [1..c -> T],
           NEW w, w = u \o (v \o p)
    PROVE  HasThree(w, u, v, p, a, b, c, T)
<1>1. PICK t : t = v \o p
  OBVIOUS
<1>2. PICK d \in Nat : d = b + c
  OBVIOUS
<1>4. HasParts(t, v, p, b, c, T)
  <2>1. v \in Seq(T) /\ Len(v) = b /\ p \in Seq(T) /\ Len(p) = c /\ IsJoin(t, v, p)
    BY <1>1, RunTyped DEF IsJoin
  <2>. QED BY <2>1, JoinHasParts
<1>3. t \in Seq(T) /\ Len(t) = d /\ t \in [1..d -> T]
  <2>1. t \in Seq(T) /\ Len(t) = d
    BY <1>2, <1>4 DEF HasParts
  <2>. QED BY <2>1, SeqTyped
<1>5. HasParts(w, u, t, a, d, T) /\ SubSeq(w, 1, a) = u
  <2>1. u \in Seq(T) /\ Len(u) = a /\ IsJoin(w, u, t)
    BY <1>1, RunTyped DEF IsJoin
  <2>2. HasParts(w, u, t, a, d, T)
    BY <1>3, <2>1, JoinHasParts
  <2>3. SubSeq(w, 1, a) = u
    <3>1. JoinCut(w, u, t, a, d, T)
      BY <1>3, <2>1, JoinCuts
    <3>. QED BY <3>1 DEF JoinCut
  <2>. QED BY <2>2, <2>3
<1>6. w \in Seq(T) /\ Len(w) = a + d
  BY <1>5 DEF HasParts
<1>7. \A i \in 1..d : w[a + i] = t[i]
  BY <1>5 DEF HasParts
<1>8. (\A i \in 1..b : t[i] = v[i]) /\ (\A i \in 1..c : t[b + i] = p[i])
  BY <1>4 DEF HasParts
<1>9. SubSeq(w, a + 1, a + b) = v
  <2>1. a + b <= Len(w)
    BY <1>2, <1>6
  <2>2. SubSeq(w, a + 1, a + b) = [l \in 1..b |-> w[a + l]]
    BY <1>6, <2>1, StretchIs
  <2>3. ASSUME NEW l \in 1..b PROVE w[a + l] = v[l]
    <3>1. l \in 1..d
      BY <1>2
    <3>. QED BY <1>7, <1>8, <3>1
  <2>. QED BY <2>2, <2>3
<1>10. SubSeq(w, (a + b) + 1, (a + b) + c) = p
  <2>1. PICK e \in Nat : e = a + b
    OBVIOUS
  <2>2. e + c <= Len(w)
    BY <1>2, <1>6, <2>1
  <2>3. SubSeq(w, e + 1, e + c) = [l \in 1..c |-> w[e + l]]
    BY <1>6, <2>2, StretchIs
  <2>4. ASSUME NEW l \in 1..c PROVE w[e + l] = p[l]
    <3>1. PICK i \in 1..d : i = b + l
      BY <1>2
    <3>2. e + l = a + i
      BY <2>1, <3>1
    <3>. QED BY <1>7, <1>8, <3>1, <3>2
  <2>. QED BY <2>1, <2>3, <2>4
<1>. QED BY <1>2, <1>5, <1>6, <1>9, <1>10 DEF HasThree

(* A sequence cut in three. *)
PartsInThree(w, a, b, c, T) ==
    \E u \in [1..a -> T], v \in [1..b -> T], p \in [1..c -> T] : w = u \o (v \o p)

(* A sequence cut in three is the join of what was cut. *)
LEMMA ThreeParts ==
    ASSUME NEW T, NEW a \in Nat, NEW b \in Nat, NEW c \in Nat, NEW w \in [1..((a + b) + c) -> T]
    PROVE  PartsInThree(w, a, b, c, T)
<1>1. PICK d \in Nat : d = b + c
  OBVIOUS
<1>2. PICK n \in Nat : n = a + d /\ w \in [1..n -> T]
  BY <1>1
<1>3. PICK u \in [1..a -> T], t \in [1..d -> T] : IsJoin(w, u, t)
  <2>1. InTwo(w, a, d, T)
    BY <1>2, TwoParts
  <2>. QED BY <2>1 DEF InTwo
<1>5. PICK v \in [1..b -> T], p \in [1..c -> T] : IsJoin(t, v, p)
  <2>1. InTwo(t, b, c, T)
    BY <1>1, TwoParts
  <2>. QED BY <2>1 DEF InTwo
<1>. QED BY <1>3, <1>5 DEF IsJoin, PartsInThree

(* A data unit with a partial block at its end: whole blocks, the block    *)
(* stolen from, and the partial block.                                     *)
IsUnit(data, blocks, last, partial, m, r) ==
    /\ m \in Nat /\ r \in 1..(BlockLen - 1)
    /\ blocks \in [1..m -> Block] /\ last \in Block /\ partial \in [1..r -> Octet]
    /\ data = FlattenSeq(blocks) \o (last \o partial)

(* What the code cuts out of it.                                           *)
LEMMA UnitCuts ==
    ASSUME NEW data, NEW blocks, NEW last, NEW partial, NEW m, NEW r,
           IsUnit(data, blocks, last, partial, m, r)
    PROVE  /\ data \in Seq(Octet) /\ Len(data) \div BlockLen = m + 1 /\ Len(data) % BlockLen = r
           /\ Len(data) = (Mul(m, BlockLen) + BlockLen) + r
           /\ BlocksOf(SubSeq(data, 1, m * BlockLen)) = blocks
           /\ SubSeq(data, m * BlockLen + 1, (m + 1) * BlockLen) = last
           /\ SubSeq(data, (m + 1) * BlockLen + 1, Len(data)) = partial
<1>0. BlockLen \in Nat \ {0} /\ BlockLen \in Nat
  BY BlockLenIs
<1>1. /\ m \in Nat /\ r \in 1..(BlockLen - 1) /\ r \in Nat
      /\ blocks \in [1..m -> Block] /\ last \in [1..BlockLen -> Octet] /\ partial \in [1..r -> Octet]
      /\ data = FlattenSeq(blocks) \o (last \o partial)
  BY <1>0 DEF IsUnit, Block
<1>2. PICK a \in Nat : a = Mul(m, BlockLen)
  BY <1>0, <1>1, MulFacts
<1>3. PICK f \in [1..a -> Octet] : f = FlattenSeq(blocks)
  <2>1. IsLong(FlattenSeq(blocks), Octet, BlockLen, m)
    BY <1>1, BlockPieces
  <2>2. FlattenSeq(blocks) \in Seq(Octet) /\ Len(FlattenSeq(blocks)) = a
    BY <1>2, <2>1 DEF IsLong, Long
  <2>3. FlattenSeq(blocks) \in [1..a -> Octet]
    BY <2>2, SeqTyped
  <2>. QED BY <2>3
<1>4. data = f \o (last \o partial)
  BY <1>1, <1>3
<1>5. HasThree(data, f, last, partial, a, BlockLen, r, Octet)
  BY <1>0, <1>1, <1>4, ThreeCuts
<1>6. /\ data \in Seq(Octet) /\ Len(data) = (a + BlockLen) + r
      /\ SubSeq(data, 1, a) = f /\ SubSeq(data, a + 1, a + BlockLen) = last
      /\ SubSeq(data, (a + BlockLen) + 1, (a + BlockLen) + r) = partial
  BY <1>5 DEF HasThree
<1>7. m * BlockLen = a /\ (m + 1) * BlockLen = a + BlockLen
  BY <1>0, <1>1, <1>2 DEF Mul
<1>8. Len(data) \div BlockLen = m + 1 /\ Len(data) % BlockLen = r
  <2>1. PICK l \in Nat : l = Len(data) /\ l = (a + BlockLen) + r
    BY <1>0, <1>1, <1>6
  <2>2. Mul(m + 1, BlockLen) = a + BlockLen /\ m + 1 \in Nat
    BY <1>0, <1>1, <1>2, MulFacts
  <2>3. l = Mul(m + 1, BlockLen) + r /\ r \in 0..(BlockLen - 1)
    BY <1>0, <1>1, <2>1, <2>2
  <2>4. Quo(l, BlockLen) = m + 1 /\ Rem(l, BlockLen) = r
    BY <1>0, <2>2, <2>3, Euclid
  <2>. QED BY <2>1, <2>4 DEF Quo, Rem
<1>9. BlocksOf(SubSeq(data, 1, m * BlockLen)) = blocks
  BY <1>1, <1>3, <1>6, <1>7, BlocksOfFlat
<1>10. SubSeq(data, m * BlockLen + 1, (m + 1) * BlockLen) = last
  BY <1>6, <1>7
<1>11. SubSeq(data, (m + 1) * BlockLen + 1, Len(data)) = partial
  BY <1>6, <1>7
<1>. QED BY <1>2, <1>6, <1>8, <1>9, <1>10, <1>11

(* Every unit of at least a block that does not end with a whole one.      *)
LEMMA UnitExists ==
    ASSUME NEW data \in Seq(Octet), Len(data) >= BlockLen, Len(data) % BlockLen # 0
    PROVE  \E blocks, last, partial, m, r : IsUnit(data, blocks, last, partial, m, r)
<1>0. BlockLen \in Nat \ {0} /\ BlockLen \in Nat
  BY BlockLenIs
<1>1. PICK l \in Nat : l = Len(data) /\ l >= BlockLen
  OBVIOUS
<1>2. PICK q \in Nat : q = Quo(l, BlockLen)
  BY <1>0, DivMod
<1>3. PICK r \in 0..(BlockLen - 1) : r = Rem(l, BlockLen) /\ r # 0
  <2>1. Rem(l, BlockLen) \in 0..(BlockLen - 1)
    BY <1>0, DivMod
  <2>2. Rem(l, BlockLen) # 0
    BY <1>1 DEF Rem
  <2>. QED BY <2>1, <2>2
<1>4. l = Mul(q, BlockLen) + r
  BY <1>0, <1>2, <1>3, DivMod
<1>5. q # 0
  <2>1. Mul(0, BlockLen) = 0
    BY <1>0, MulFacts
  <2>. QED BY <1>0, <1>1, <1>3, <1>4, <2>1
<1>6. PICK m \in Nat : m = q - 1 /\ q = m + 1
  BY <1>5
<1>7. PICK a \in Nat : a = Mul(m, BlockLen)
  BY <1>0, MulFacts
<1>8. l = (a + BlockLen) + r /\ r \in Nat /\ r \in 1..(BlockLen - 1)
  <2>1. Mul(m + 1, BlockLen) = a + BlockLen
    BY <1>0, <1>7, MulFacts
  <2>. QED BY <1>0, <1>3, <1>4, <1>6, <2>1
<1>9. data \in [1..l -> Octet]
  BY <1>1, SeqTyped
<1>10. data \in [1..((a + BlockLen) + r) -> Octet]
  BY <1>8, <1>9
<1>11. PICK f \in [1..a -> Octet], last \in [1..BlockLen -> Octet], partial \in [1..r -> Octet] :
          data = f \o (last \o partial)
  <2>1. PartsInThree(data, a, BlockLen, r, Octet)
    BY <1>0, <1>8, <1>10, ThreeParts
  <2>. QED BY <2>1 DEF PartsInThree
<1>12. IsLong(f, Octet, BlockLen, m)
  BY <1>0, <1>7, RunTyped DEF IsLong, Long
<1>13. PICK blocks \in [1..m -> Block] : blocks = BlocksOf(f) /\ FlattenSeq(blocks) = f
  BY <1>12, FlatOfBlocks
<1>14. IsUnit(data, blocks, last, partial, m, r)
  BY <1>8, <1>11, <1>13 DEF IsUnit, Block
<1>. QED BY <1>14

(***************************************************************************)
(* Ciphertext stealing.                                                    *)
(***************************************************************************)
(* A block, cut after r bytes; and r bytes completed to a block.           *)
LEMMA BlockParts ==
    ASSUME NEW b \in Block, NEW r \in 1..(BlockLen - 1)
    PROVE  /\ SubSeq(b, 1, r) \in [1..r -> Octet] /\ SubSeq(b, r + 1, BlockLen) \in [1..(BlockLen - r) -> Octet]
           /\ SubSeq(b, 1, r) \o SubSeq(b, r + 1, BlockLen) = b
<1>1. PICK c \in Nat : c = BlockLen - r /\ r + c = BlockLen /\ r \in Nat
  BY BlockLenIs
<1>2. b \in [1..(r + c) -> Octet]
  BY <1>1 DEF Block
<1>3. /\ SubSeq(b, 1, r) \in [1..r -> Octet] /\ SubSeq(b, r + 1, r + c) \in [1..c -> Octet]
      /\ IsJoin(b, SubSeq(b, 1, r), SubSeq(b, r + 1, r + c))
  BY <1>1, <1>2, CutJoins
<1>. QED BY <1>1, <1>3 DEF IsJoin

(* b begins with u and goes on with v. *)
Completes(b, u, v, r) == b \in Block /\ SubSeq(b, 1, r) = u /\ SubSeq(b, r + 1, BlockLen) = v

(* r bytes completed to a block are the first r bytes of it. *)
LEMMA BlockCompleted ==
    ASSUME NEW r \in 1..(BlockLen - 1), NEW u \in [1..r -> Octet], NEW v \in [1..(BlockLen - r) -> Octet],
           NEW b, b = u \o v
    PROVE  Completes(b, u, v, r)
<1>1. PICK c \in Nat : c = BlockLen - r /\ r + c = BlockLen /\ r \in Nat
  BY BlockLenIs
<1>2. v \in [1..c -> Octet] /\ IsJoin(b, u, v)
  BY <1>1 DEF IsJoin
<1>3. b \in [1..(r + c) -> Octet] /\ SubSeq(b, 1, r) = u /\ SubSeq(b, r + 1, r + c) = v
  <2>1. JoinCut(b, u, v, r, c, Octet)
    BY <1>1, <1>2, JoinCuts
  <2>. QED BY <2>1 DEF JoinCut
<1>. QED BY <1>1, <1>3 DEF Block, Completes

(* The tweak of the block stolen from, and that of the block completed.    *)
TakenTweak(ts, m, d) == ts[IF d THEN m + 2 ELSE m + 1]
MadeTweak(ts, m, d) == ts[IF d THEN m + 1 ELSE m + 2]

(* The block stolen from, encrypted; the partial block completed with its  *)
(* end; the completed block encrypted; the part of the first that is given *)
(* back.                                                                   *)
Taken(c1, ts, last, m, d) == OneBlock(c1, TakenTweak(ts, m, d), last, d)
Completed(c1, ts, last, partial, m, r, d) == partial \o SubSeq(Taken(c1, ts, last, m, d), r + 1, BlockLen)
Made(c1, ts, last, partial, m, r, d) ==
    OneBlock(c1, MadeTweak(ts, m, d), Completed(c1, ts, last, partial, m, r, d), d)
Given(c1, ts, last, m, r, d) == SubSeq(Taken(c1, ts, last, m, d), 1, r)

(* The tweaks of a unit with a partial block. *)
TweakRows(m) == [1..(m + 2) -> Block]
(* What stealing makes are a block and r bytes. *)
StealTyped(c1, ts, last, partial, m, r, d) ==
    /\ TakenTweak(ts, m, d) \in Block /\ MadeTweak(ts, m, d) \in Block
    /\ Taken(c1, ts, last, m, d) \in Block
    /\ Completed(c1, ts, last, partial, m, r, d) \in Block
    /\ SubSeq(Completed(c1, ts, last, partial, m, r, d), 1, r) = partial
    /\ SubSeq(Completed(c1, ts, last, partial, m, r, d), r + 1, BlockLen)
          = SubSeq(Taken(c1, ts, last, m, d), r + 1, BlockLen)
    /\ Made(c1, ts, last, partial, m, r, d) \in Block
    /\ Given(c1, ts, last, m, r, d) \in [1..r -> Octet]

(* What stealing makes are a block and r bytes. *)
LEMMA StolenTyped ==
    ASSUME NEW c1 \in RoundKeyRows, NEW m \in Nat, NEW ts \in TweakRows(m), NEW last \in Block,
           NEW r \in 1..(BlockLen - 1), NEW partial \in [1..r -> Octet], NEW d \in BOOLEAN
    PROVE  StealTyped(c1, ts, last, partial, m, r, d)
<1>1. TakenTweak(ts, m, d) \in Block /\ MadeTweak(ts, m, d) \in Block
  <2>1. m + 1 \in 1..(m + 2) /\ m + 2 \in 1..(m + 2)
    OBVIOUS
  <2>. QED BY <2>1 DEF TakenTweak, MadeTweak, TweakRows
<1>2. PICK cc \in Block : cc = Taken(c1, ts, last, m, d)
  BY <1>1, OneBlockTyped DEF Taken
<1>3. PICK v \in [1..(BlockLen - r) -> Octet] : v = SubSeq(cc, r + 1, BlockLen)
  BY BlockParts
<1>4. PICK x : x = partial \o v
  OBVIOUS
<1>5. x \in Block /\ SubSeq(x, 1, r) = partial /\ SubSeq(x, r + 1, BlockLen) = v
  <2>1. Completes(x, partial, v, r)
    BY <1>4, BlockCompleted
  <2>. QED BY <2>1 DEF Completes
<1>6. x = Completed(c1, ts, last, partial, m, r, d)
  BY <1>2, <1>3, <1>4 DEF Completed
<1>7. Made(c1, ts, last, partial, m, r, d) \in Block
  BY <1>1, <1>5, <1>6, OneBlockTyped DEF Made
<1>8. SubSeq(cc, 1, r) \in [1..r -> Octet]
  BY BlockParts
<1>. QED BY <1>1, <1>2, <1>3, <1>5, <1>6, <1>7, <1>8 DEF Given, StealTyped

(* The parts of a unit after xts_encrypt or xts_decrypt.                   *)
StolenAs(h, cs, tweak, ts, data, blocks, last, partial, m, r, d) ==
    xts_crypt(h, cs, tweak, data, d) =
        FlattenSeq(EachBlock(cs[1], ts, blocks, d, m))
        \o (Made(cs[1], ts, last, partial, m, r, d) \o Given(cs[1], ts, last, m, r, d))
(* ts are the tweaks of a unit under the second of two schedules. *)
TweaksFor(cs, tweak, m, ts) == ts = TweaksOf(cs[2], tweak, m + 2)
TwoSchedules(cs) == cs[1] \in RoundKeyRows /\ cs[2] \in RoundKeyRows

(* The unit after xts_encrypt or xts_decrypt: the whole blocks but the     *)
(* last, the completed block, the bytes given back.                        *)
LEMMA StolenIs ==
    ASSUME NEW cs, TwoSchedules(cs), NEW tweak \in Block,
           NEW data, NEW blocks, NEW last, NEW partial, NEW m, NEW r,
           IsUnit(data, blocks, last, partial, m, r), NEW d \in BOOLEAN, NEW h,
           NEW ts, TweaksFor(cs, tweak, m, ts)
    PROVE  StolenAs(h, cs, tweak, ts, data, blocks, last, partial, m, r, d)
<1>0. /\ cs[1] \in RoundKeyRows /\ cs[2] \in RoundKeyRows
      /\ ts = TweaksOf(cs[2], tweak, m + 2)
  BY DEF TwoSchedules, TweaksFor
<1>1. /\ m \in Nat /\ r \in 1..(BlockLen - 1) /\ r # 0
      /\ blocks \in [1..m -> Block] /\ last \in Block
  BY BlockLenIs DEF IsUnit
<1>2. /\ Len(data) \div BlockLen = m + 1 /\ Len(data) % BlockLen = r
      /\ BlocksOf(SubSeq(data, 1, m * BlockLen)) = blocks
      /\ SubSeq(data, m * BlockLen + 1, (m + 1) * BlockLen) = last
      /\ SubSeq(data, (m + 1) * BlockLen + 1, Len(data)) = partial
  BY UnitCuts
<1>3. ts \in [1..(m + 2) -> Block]
  <2>1. PICK n \in Nat \ {0} : n = m + 2
    BY <1>1
  <2>2. TweaksOf(cs[2], tweak, n) \in [1..n -> Block]
    BY <1>0, TweaksTyped
  <2>. QED BY <1>0, <2>1, <2>2
<1>4. (m + 1) - 1 = m
  BY <1>1
<1>. DEFINE full == Len(data) \div BlockLen
            rem == Len(data) % BlockLen
            normal == IF rem = 0 THEN full ELSE full - 1
            l == SubSeq(data, normal * BlockLen + 1, (normal + 1) * BlockLen)
            p == SubSeq(data, (normal + 1) * BlockLen + 1, Len(data))
            t == TweaksOf(cs[2], tweak, normal + 2)
            cc == OneBlock(cs[1], t[IF d THEN normal + 2 ELSE normal + 1], l, d)
<1>5. xts_crypt(h, cs, tweak, data, d) =
        WholeBlocks(h, cs[1], t, BlocksOf(SubSeq(data, 1, normal * BlockLen)), d)
        \o IF rem = 0 THEN <<>>
           ELSE OneBlock(cs[1], t[IF d THEN normal + 1 ELSE normal + 2], p \o SubSeq(cc, rem + 1, BlockLen), d)
                \o SubSeq(cc, 1, rem)
  <2>1. xts_crypt(h, cs, tweak, data, d) =
          With(t, LAMBDA u :
              WholeBlocks(h, cs[1], u, BlocksOf(SubSeq(data, 1, normal * BlockLen)), d)
              \o IF rem = 0 THEN <<>>
                 ELSE With(OneBlock(cs[1], u[IF d THEN normal + 2 ELSE normal + 1], l, d),
                           LAMBDA c : OneBlock(cs[1], u[IF d THEN normal + 1 ELSE normal + 2],
                                               p \o SubSeq(c, rem + 1, BlockLen), d)
                                      \o SubSeq(c, 1, rem)))
    BY DEF xts_crypt
  <2>. HIDE DEF normal, rem, l, p, t
  <2>. QED BY <2>1 DEF With
<1>6. normal = m /\ rem = r
  BY <1>1, <1>2, <1>4
<1>7. l = last /\ p = partial /\ t = ts
  <2>. HIDE DEF normal, rem
  <2>. QED BY <1>0, <1>2, <1>6
<1>8. cc = Taken(cs[1], ts, last, m, d)
  <2>. HIDE DEF normal, rem, l, p, t
  <2>. QED BY <1>6, <1>7 DEF Taken, TakenTweak
<1>. HIDE DEF normal, rem, l, p, t, cc
<1>9. WholeBlocks(h, cs[1], t, BlocksOf(SubSeq(data, 1, normal * BlockLen)), d)
         = FlattenSeq(EachBlock(cs[1], ts, blocks, d, m))
  <2>1. BlocksOf(SubSeq(data, 1, normal * BlockLen)) = blocks
    BY <1>2, <1>6
  <2>2. \A j \in 1..m : ts[j] \in Block
    BY <1>1, <1>3
  <2>3. WholeBlocks(h, cs[1], ts, blocks, d) = FlattenSeq(EachBlock(cs[1], ts, blocks, d, m))
    BY <1>0, <1>1, <2>2, WholeIs
  <2>. QED BY <1>7, <2>1, <2>3
<1>10. OneBlock(cs[1], t[IF d THEN normal + 1 ELSE normal + 2], p \o SubSeq(cc, rem + 1, BlockLen), d)
          = Made(cs[1], ts, last, partial, m, r, d)
  BY <1>6, <1>7, <1>8 DEF Made, MadeTweak, Completed
<1>11. SubSeq(cc, 1, rem) = Given(cs[1], ts, last, m, r, d)
  BY <1>6, <1>8 DEF Given
<1>. QED BY <1>1, <1>5, <1>6, <1>9, <1>10, <1>11 DEF StolenAs

(* The other direction gives the blocks again. *)
EachBack(c1, ts, blocks, d, m) == EachBlock(c1, ts, EachBlock(c1, ts, blocks, d, m), ~d, m) = blocks
(* Every tweak is a block. *)
EachTweak(ts, m) == \A j \in 1..m : ts[j] \in Block

(* Whole blocks are taken back by the other direction. *)
LEMMA EachUndone ==
    ASSUME NEW m \in Nat, NEW c1 \in RoundKeyRows, NEW ts, EachTweak(ts, m),
           NEW blocks \in [1..m -> Block], NEW d \in BOOLEAN
    PROVE  EachBack(c1, ts, blocks, d, m)
<1>1. PICK x : x = EachBlock(c1, ts, blocks, d, m)
  OBVIOUS
<1>2. \A j \in 1..m : x[j] = OneBlock(c1, ts[j], blocks[j], d)
  BY <1>1 DEF EachBlock
<1>3. ASSUME NEW j \in 1..m PROVE OneBlock(c1, ts[j], x[j], ~d) = blocks[j]
  <2>1. ts[j] \in Block /\ blocks[j] \in Block
    BY DEF EachTweak
  <2>. QED BY <1>2, <2>1, OneBlockUndone
<1>4. EachBlock(c1, ts, x, ~d, m) = blocks
  BY <1>3 DEF EachBlock
<1>. QED BY <1>1, <1>4 DEF EachBack

(* What is decrypted is put back where it was taken.                       *)
IsMade(c1, ts, last, partial, m, r, d, x, y) ==
    x = Made(c1, ts, last, partial, m, r, d) /\ y = Given(c1, ts, last, m, r, d)

(* Stealing is taken back by the other direction, which uses the last two  *)
(* tweaks in the other order.                                              *)
LEMMA StolenUndone ==
    ASSUME NEW c1 \in RoundKeyRows, NEW m \in Nat, NEW ts \in TweakRows(m), NEW last \in Block,
           NEW r \in 1..(BlockLen - 1), NEW partial \in [1..r -> Octet], NEW d \in BOOLEAN,
           NEW x, NEW y, IsMade(c1, ts, last, partial, m, r, d, x, y)
    PROVE  IsMade(c1, ts, x, y, m, r, ~d, last, partial)
<1>0. x = Made(c1, ts, last, partial, m, r, d) /\ y = Given(c1, ts, last, m, r, d)
  BY DEF IsMade
<1>1. PICK e \in BOOLEAN : e = ~d
  OBVIOUS
<1>2. TakenTweak(ts, m, e) = MadeTweak(ts, m, d) /\ MadeTweak(ts, m, e) = TakenTweak(ts, m, d)
  BY <1>1 DEF TakenTweak, MadeTweak
<1>s. StealTyped(c1, ts, last, partial, m, r, d)
  BY StolenTyped
<1>3. PICK t \in Block, u \in Block : t = TakenTweak(ts, m, d) /\ u = MadeTweak(ts, m, d)
  BY <1>s DEF StealTyped
<1>4. PICK cc \in Block : cc = Taken(c1, ts, last, m, d)
  BY <1>s DEF StealTyped
<1>5. PICK f \in Block : /\ f = Completed(c1, ts, last, partial, m, r, d)
                         /\ SubSeq(f, 1, r) = partial /\ SubSeq(f, r + 1, BlockLen) = SubSeq(cc, r + 1, BlockLen)
  BY <1>4, <1>s DEF StealTyped
<1>6. x = OneBlock(c1, u, f, d)
  BY <1>0, <1>3, <1>5 DEF Made
<1>7. Taken(c1, ts, x, m, e) = f
  <2>1. Taken(c1, ts, x, m, e) = OneBlock(c1, u, x, e)
    BY <1>2, <1>3 DEF Taken
  <2>. QED BY <1>1, <1>6, <2>1, OneBlockUndone
<1>8. Given(c1, ts, x, m, r, e) = partial
  BY <1>5, <1>7 DEF Given
<1>9. y \o SubSeq(cc, r + 1, BlockLen) = cc
  <2>1. SubSeq(cc, 1, r) \o SubSeq(cc, r + 1, BlockLen) = cc
    BY BlockParts
  <2>. QED BY <1>0, <1>4, <2>1 DEF Given
<1>10. Completed(c1, ts, x, y, m, r, e) = cc
  BY <1>5, <1>7, <1>9 DEF Completed
<1>11. cc = OneBlock(c1, t, last, d)
  BY <1>3, <1>4 DEF Taken
<1>12. Made(c1, ts, x, y, m, r, e) = OneBlock(c1, t, cc, e)
  BY <1>2, <1>3, <1>10 DEF Made
<1>13. OneBlock(c1, t, cc, e) = last
  BY <1>1, <1>11, OneBlockUndone
<1>. QED BY <1>1, <1>8, <1>12, <1>13 DEF IsMade

(* out is what encryption or decryption makes of data, on any host, and    *)
(* the other direction makes data of it again.                             *)
Mirrors(cs, tweak, data, d, out) ==
    /\ out \in Seq(Octet) /\ Len(out) = Len(data)
    /\ \A h : xts_crypt(h, cs, tweak, data, d) = out
    /\ \A h : xts_crypt(h, cs, tweak, out, ~d) = data

(* Two schedules give the tweaks of a unit, all of them blocks. *)
LEMMA TweaksAre ==
    ASSUME NEW cs, TwoSchedules(cs), NEW tweak \in Block, NEW m \in Nat
    PROVE  \E ts \in TweakRows(m) : TweaksFor(cs, tweak, m, ts) /\ EachTweak(ts, m)
<1>1. PICK n \in Nat \ {0} : n = m + 2
  OBVIOUS
<1>2. TweaksOf(cs[2], tweak, n) \in [1..n -> Block]
  BY TweaksTyped DEF TwoSchedules
<1>3. PICK ts : ts = TweaksOf(cs[2], tweak, n)
  OBVIOUS
<1>4. ts \in TweakRows(m)
  BY <1>1, <1>2, <1>3 DEF TweakRows
<1>5. EachTweak(ts, m)
  BY <1>4 DEF TweakRows, EachTweak
<1>. QED BY <1>1, <1>3, <1>4, <1>5 DEF TweaksFor

(* bs are the blocks encrypted. *)
IsEach(c1, ts, blocks, d, m, bs) == bs = EachBlock(c1, ts, blocks, d, m)

(* Whole blocks have an image, of which they are the image in the other    *)
(* direction.                                                              *)
LEMMA EachIs ==
    ASSUME NEW m \in Nat, NEW c1 \in RoundKeyRows, NEW ts, EachTweak(ts, m),
           NEW blocks \in [1..m -> Block], NEW d \in BOOLEAN
    PROVE  \E bs \in [1..m -> Block] : IsEach(c1, ts, blocks, d, m, bs) /\ IsEach(c1, ts, bs, ~d, m, blocks)
<1>1. PICK bs \in [1..m -> Block] : bs = EachBlock(c1, ts, blocks, d, m)
  BY EachTyped DEF EachTweak
<1>2. EachBack(c1, ts, blocks, d, m)
  BY EachUndone
<1>. QED BY <1>1, <1>2 DEF EachBack, IsEach

(* So have the block stolen from and the partial block. *)
LEMMA StolenPair ==
    ASSUME NEW c1 \in RoundKeyRows, NEW m \in Nat, NEW ts \in TweakRows(m), NEW last \in Block,
           NEW r \in 1..(BlockLen - 1), NEW partial \in [1..r -> Octet], NEW d \in BOOLEAN
    PROVE  \E x \in Block, y \in [1..r -> Octet] :
              IsMade(c1, ts, last, partial, m, r, d, x, y) /\ IsMade(c1, ts, x, y, m, r, ~d, last, partial)
<1>s. StealTyped(c1, ts, last, partial, m, r, d)
  BY StolenTyped
<1>1. PICK x \in Block : x = Made(c1, ts, last, partial, m, r, d)
  BY <1>s DEF StealTyped
<1>2. PICK y \in [1..r -> Octet] : y = Given(c1, ts, last, m, r, d)
  BY <1>s DEF StealTyped
<1>3. IsMade(c1, ts, last, partial, m, r, d, x, y)
  BY <1>1, <1>2 DEF IsMade
<1>4. IsMade(c1, ts, x, y, m, r, ~d, last, partial)
  BY <1>3, StolenUndone
<1>. QED BY <1>3, <1>4

(* The unit is encrypted to bs, x and y. *)
StolenTo(h, cs, tweak, data, d, bs, x, y) == xts_crypt(h, cs, tweak, data, d) = FlattenSeq(bs) \o (x \o y)

(* One direction, put together from its parts.                             *)
LEMMA StolenOnce ==
    ASSUME NEW cs, TwoSchedules(cs), NEW tweak \in Block,
           NEW data, NEW blocks, NEW last, NEW partial, NEW m, NEW r,
           IsUnit(data, blocks, last, partial, m, r), NEW d \in BOOLEAN, NEW h,
           NEW ts, TweaksFor(cs, tweak, m, ts),
           NEW bs, IsEach(cs[1], ts, blocks, d, m, bs),
           NEW x, NEW y, IsMade(cs[1], ts, last, partial, m, r, d, x, y)
    PROVE  StolenTo(h, cs, tweak, data, d, bs, x, y)
<1>1. StolenAs(h, cs, tweak, ts, data, blocks, last, partial, m, r, d)
  BY StolenIs
<1>. QED BY <1>1 DEF StolenAs, StolenTo, IsEach, IsMade

(* A unit that ends with a partial block is taken back by the other        *)
(* direction on any host, and keeps its length.                            *)
LEMMA StolenMirrors ==
    ASSUME NEW cs, TwoSchedules(cs), NEW tweak \in Block,
           NEW data, NEW blocks, NEW last, NEW partial, NEW m, NEW r,
           IsUnit(data, blocks, last, partial, m, r), NEW d \in BOOLEAN
    PROVE  \E out : Mirrors(cs, tweak, data, d, out)
<1>1. /\ m \in Nat /\ r \in 1..(BlockLen - 1) /\ blocks \in [1..m -> Block] /\ last \in Block
      /\ partial \in [1..r -> Octet] /\ data = FlattenSeq(blocks) \o (last \o partial)
  BY DEF IsUnit
<1>2. PICK ts \in TweakRows(m) : TweaksFor(cs, tweak, m, ts) /\ EachTweak(ts, m)
  BY <1>1, TweaksAre
<1>3. cs[1] \in RoundKeyRows
  BY DEF TwoSchedules
<1>4. PICK e \in BOOLEAN : e = ~d
  OBVIOUS
<1>5. PICK bs \in [1..m -> Block] : IsEach(cs[1], ts, blocks, d, m, bs) /\ IsEach(cs[1], ts, bs, e, m, blocks)
  BY <1>1, <1>2, <1>3, <1>4, EachIs
<1>6. PICK x \in Block, y \in [1..r -> Octet] :
         IsMade(cs[1], ts, last, partial, m, r, d, x, y) /\ IsMade(cs[1], ts, x, y, m, r, e, last, partial)
  BY <1>1, <1>2, <1>3, <1>4, StolenPair
<1>8. PICK out : out = FlattenSeq(bs) \o (x \o y)
  OBVIOUS
<1>9. IsUnit(out, bs, x, y, m, r)
  BY <1>1, <1>8 DEF IsUnit
<1>11. ASSUME NEW h PROVE xts_crypt(h, cs, tweak, data, d) = out
  <2>1. StolenTo(h, cs, tweak, data, d, bs, x, y)
    BY <1>2, <1>5, <1>6, StolenOnce
  <2>. QED BY <1>8, <2>1 DEF StolenTo
<1>12. ASSUME NEW h PROVE xts_crypt(h, cs, tweak, out, e) = data
  <2>1. StolenTo(h, cs, tweak, out, e, blocks, last, partial)
    BY <1>2, <1>5, <1>6, <1>9, StolenOnce
  <2>. QED BY <1>1, <2>1 DEF StolenTo
<1>13. out \in Seq(Octet) /\ Len(out) = Len(data)
  <2>1. out \in Seq(Octet) /\ Len(out) = (Mul(m, BlockLen) + BlockLen) + r
    BY <1>9, UnitCuts
  <2>2. Len(data) = (Mul(m, BlockLen) + BlockLen) + r
    BY UnitCuts
  <2>. QED BY <2>1, <2>2
<1>14. Mirrors(cs, tweak, data, d, out)
  BY <1>4, <1>11, <1>12, <1>13 DEF Mirrors
<1>. QED BY <1>14

(* The same when the unit is whole blocks.                                 *)
LEMMA WholeUnitIs ==
    ASSUME NEW cs, TwoSchedules(cs), NEW tweak \in Block,
           NEW m \in Nat, NEW blocks \in [1..m -> Block], NEW d \in BOOLEAN, NEW h,
           NEW ts, TweaksFor(cs, tweak, m, ts),
           NEW es, IsEach(cs[1], ts, blocks, d, m, es)
    PROVE  xts_crypt(h, cs, tweak, FlattenSeq(blocks), d) = FlattenSeq(es)
<1>c. /\ cs[1] \in RoundKeyRows /\ cs[2] \in RoundKeyRows
      /\ ts = TweaksOf(cs[2], tweak, m + 2) /\ es = EachBlock(cs[1], ts, blocks, d, m)
  BY DEF TwoSchedules, TweaksFor, IsEach
<1>0. BlockLen \in Nat \ {0}
  BY BlockLenIs
<1>1. PICK a \in Nat : a = Mul(m, BlockLen)
  BY <1>0, MulFacts
<1>2. PICK data \in Seq(Octet) : data = FlattenSeq(blocks) /\ Len(data) = a
  BY <1>1, BlockPieces DEF IsLong, Long
<1>3. Len(data) \div BlockLen = m /\ Len(data) % BlockLen = 0
  <2>1. a = Mul(m, BlockLen) + 0 /\ 0 \in 0..(BlockLen - 1)
    BY <1>0, <1>1
  <2>2. Quo(a, BlockLen) = m /\ Rem(a, BlockLen) = 0
    BY <1>0, <2>1, Euclid
  <2>. QED BY <1>2, <2>2 DEF Quo, Rem
<1>4. ts \in [1..(m + 2) -> Block]
  <2>1. PICK n \in Nat \ {0} : n = m + 2
    OBVIOUS
  <2>2. TweaksOf(cs[2], tweak, n) \in [1..n -> Block]
    BY <1>c, TweaksTyped
  <2>. QED BY <1>c, <2>1, <2>2
<1>5. SubSeq(data, 1, m * BlockLen) = data
  <2>1. m * BlockLen = a
    BY <1>1 DEF Mul
  <2>2. SubSeq(data, 1, a) = data
    BY <1>2, UptoEnds DEF Upto
  <2>. QED BY <2>1, <2>2
<1>. DEFINE full == Len(data) \div BlockLen
            rem == Len(data) % BlockLen
            normal == IF rem = 0 THEN full ELSE full - 1
            l == SubSeq(data, normal * BlockLen + 1, (normal + 1) * BlockLen)
            p == SubSeq(data, (normal + 1) * BlockLen + 1, Len(data))
            t == TweaksOf(cs[2], tweak, normal + 2)
<1>6. rem = 0 /\ normal = m
  BY <1>3
<1>7. xts_crypt(h, cs, tweak, data, d) = WholeBlocks(h, cs[1], ts, BlocksOf(data), d) \o <<>>
  <2>1. xts_crypt(h, cs, tweak, data, d) =
          With(t, LAMBDA u :
              WholeBlocks(h, cs[1], u, BlocksOf(SubSeq(data, 1, normal * BlockLen)), d)
              \o IF rem = 0 THEN <<>>
                 ELSE With(OneBlock(cs[1], u[IF d THEN normal + 2 ELSE normal + 1], l, d),
                           LAMBDA c : OneBlock(cs[1], u[IF d THEN normal + 1 ELSE normal + 2],
                                               p \o SubSeq(c, rem + 1, BlockLen), d)
                                      \o SubSeq(c, 1, rem)))
    BY DEF xts_crypt
  <2>2. t = ts
    <3>. HIDE DEF normal
    <3>. QED BY <1>c, <1>6
  <2>. HIDE DEF normal, rem, l, p, t
  <2>. QED BY <1>5, <1>6, <2>1, <2>2 DEF With
<1>8. BlocksOf(data) = blocks
  BY <1>2, BlocksOfFlat
<1>9. \A j \in 1..m : ts[j] \in Block
  BY <1>4
<1>10. PICK bs \in [1..m -> Block] : bs = EachBlock(cs[1], ts, blocks, d, m)
  BY <1>c, <1>9, EachTyped
<1>11. WholeBlocks(h, cs[1], ts, blocks, d) = FlattenSeq(bs)
  BY <1>c, <1>9, <1>10, WholeIs
<1>12. FlattenSeq(bs) \in Seq(Octet)
  BY BlockPieces DEF IsLong, Long
<1>13. FlattenSeq(bs) \o <<>> = FlattenSeq(bs)
  BY <1>12
<1>. QED BY <1>c, <1>2, <1>7, <1>8, <1>10, <1>11, <1>12, <1>13

(* A unit of whole blocks is taken back by the other direction on any      *)
(* host, and keeps its length.                                             *)
LEMMA WholeMirrors ==
    ASSUME NEW cs, TwoSchedules(cs), NEW tweak \in Block,
           NEW m \in Nat, NEW blocks \in [1..m -> Block], NEW data, data = FlattenSeq(blocks),
           NEW d \in BOOLEAN
    PROVE  \E out : Mirrors(cs, tweak, data, d, out)
<1>2. PICK ts \in TweakRows(m) : TweaksFor(cs, tweak, m, ts) /\ EachTweak(ts, m)
  BY TweaksAre
<1>3. cs[1] \in RoundKeyRows
  BY DEF TwoSchedules
<1>4. PICK e \in BOOLEAN : e = ~d
  OBVIOUS
<1>5. PICK bs \in [1..m -> Block] : IsEach(cs[1], ts, blocks, d, m, bs) /\ IsEach(cs[1], ts, bs, e, m, blocks)
  BY <1>2, <1>3, <1>4, EachIs
<1>6. PICK out : out = FlattenSeq(bs)
  OBVIOUS
<1>8. ASSUME NEW h PROVE xts_crypt(h, cs, tweak, data, d) = out
  <2>1. xts_crypt(h, cs, tweak, FlattenSeq(blocks), d) = FlattenSeq(bs)
    BY <1>2, <1>5, WholeUnitIs
  <2>. QED BY <1>6, <2>1
<1>9. ASSUME NEW h PROVE xts_crypt(h, cs, tweak, out, e) = data
  <2>1. xts_crypt(h, cs, tweak, FlattenSeq(bs), e) = FlattenSeq(blocks)
    BY <1>2, <1>5, WholeUnitIs
  <2>. QED BY <1>6, <2>1
<1>10. out \in Seq(Octet) /\ Len(out) = Len(data)
  <2>1. IsLong(FlattenSeq(bs), Octet, BlockLen, m)
    BY BlockPieces
  <2>2. IsLong(FlattenSeq(blocks), Octet, BlockLen, m)
    BY BlockPieces
  <2>. QED BY <1>6, <2>1, <2>2 DEF IsLong, Long
<1>11. Mirrors(cs, tweak, data, d, out)
  BY <1>4, <1>8, <1>9, <1>10 DEF Mirrors
<1>. QED BY <1>11

(* Every data unit of at least a block.                                    *)
LEMMA UnitMirrors ==
    ASSUME NEW cs, TwoSchedules(cs), NEW tweak \in Block,
           NEW data \in Seq(Octet), Len(data) >= BlockLen, NEW d \in BOOLEAN
    PROVE  \E out : Mirrors(cs, tweak, data, d, out)
<1>1. CASE Len(data) % BlockLen # 0
  <2>1. PICK blocks, last, partial, m, r : IsUnit(data, blocks, last, partial, m, r)
    BY <1>1, UnitExists
  <2>. QED BY <2>1, StolenMirrors
<1>2. CASE Len(data) % BlockLen = 0
  <2>0. BlockLen \in Nat \ {0}
    BY BlockLenIs
  <2>1. PICK l \in Nat : l = Len(data)
    OBVIOUS
  <2>2. PICK m \in Nat : m = Quo(l, BlockLen)
    BY <2>0, DivMod
  <2>3. l = Mul(m, BlockLen)
    <3>1. Rem(l, BlockLen) = 0
      BY <1>2, <2>1 DEF Rem
    <3>2. l = Mul(m, BlockLen) + Rem(l, BlockLen) /\ Mul(m, BlockLen) \in Nat
      BY <2>0, <2>2, DivMod
    <3>. QED BY <3>1, <3>2
  <2>4. IsLong(data, Octet, BlockLen, m)
    BY <2>0, <2>1, <2>3 DEF IsLong, Long
  <2>5. PICK blocks \in [1..m -> Block] : data = FlattenSeq(blocks)
    BY <2>4, FlatOfBlocks
  <2>. QED BY <2>5, WholeMirrors
<1>. QED BY <1>1, <1>2

(***************************************************************************)
(* Keys, and single data units.                                            *)
(***************************************************************************)
KeyBytes(key) == key \in [1..(BlockLen + BlockLen) -> Octet]
FirstHalf(key) == SubSeq(key, 1, BlockLen)
SecondHalf(key) == SubSeq(key, BlockLen + 1, BlockLen + BlockLen)

(* The halves of a key of two halves.                                      *)
LEMMA HalvesOf ==
    ASSUME NEW key, KeyBytes(key)
    PROVE  /\ FirstHalf(key) \in Block /\ SecondHalf(key) \in Block
           /\ IsJoin(key, FirstHalf(key), SecondHalf(key))
<1>1. PICK a \in Nat : a = BlockLen
  BY BlockLenIs
<1>2. key \in [1..(a + a) -> Octet]
  BY <1>1 DEF KeyBytes
<1>3. /\ SubSeq(key, 1, a) \in [1..a -> Octet] /\ SubSeq(key, a + 1, a + a) \in [1..a -> Octet]
      /\ IsJoin(key, SubSeq(key, 1, a), SubSeq(key, a + 1, a + a))
  BY <1>2, CutJoins
<1>. QED BY <1>1, <1>3 DEF FirstHalf, SecondHalf, Block

(* The halves of the key are u and v. *)
HalvesAre(key, u, v) == KeyBytes(key) /\ FirstHalf(key) = u /\ SecondHalf(key) = v

(* A key joined of two blocks has these halves. *)
LEMMA KeyOf ==
    ASSUME NEW u \in Block, NEW v \in Block, NEW key, key = u \o v
    PROVE  HalvesAre(key, u, v)
<1>1. PICK a \in Nat : a = BlockLen
  BY BlockLenIs
<1>2. u \in [1..a -> Octet] /\ v \in [1..a -> Octet] /\ IsJoin(key, u, v)
  BY <1>1 DEF Block, IsJoin
<1>3. JoinCut(key, u, v, a, a, Octet)
  BY <1>2, JoinCuts
<1>4. key \in [1..(a + a) -> Octet] /\ SubSeq(key, 1, a) = u /\ SubSeq(key, a + 1, a + a) = v
  BY <1>3 DEF JoinCut
<1>. QED BY <1>1, <1>4 DEF HalvesAre, KeyBytes, FirstHalf, SecondHalf

(* What split_keys makes of it.                                            *)
LEMMA SplitIs ==
    ASSUME NEW key, NEW len
    PROVE  split_keys(key, len) =
             IF len \notin BlockLen..MAX_LEN \/ FirstHalf(key) = SecondHalf(key) THEN Refused
             ELSE Some(<<RoundKeys(FirstHalf(key)), RoundKeys(SecondHalf(key))>>)
<1>1. KeyLen = BlockLen /\ 2 * KeyLen = BlockLen + BlockLen
  BY DEF KeyLen, BlockLen
<1>2. SubSeq(key, 1, KeyLen) = FirstHalf(key) /\ SubSeq(key, KeyLen + 1, 2 * KeyLen) = SecondHalf(key)
  BY <1>1 DEF FirstHalf, SecondHalf
<1>. QED BY <1>2 DEF split_keys

(* split_keys accepts, with these two schedules. *)
SplitsInto(key, len, cs) == split_keys(key, len) = Some(cs) /\ TwoSchedules(cs)

(* split_keys accepts a key of different halves and a unit of a permitted  *)
(* length.                                                                 *)
LEMMA SplitsIn ==
    ASSUME NEW key, KeyBytes(key), FirstHalf(key) # SecondHalf(key), NEW len, len \in BlockLen..MAX_LEN
    PROVE  \E cs : SplitsInto(key, len, cs)
<1>1. FirstHalf(key) \in Block /\ SecondHalf(key) \in Block
  BY HalvesOf
<1>2. PICK a \in RoundKeyRows : a = RoundKeys(FirstHalf(key))
  BY <1>1, RoundKeysTyped
<1>3. PICK b \in RoundKeyRows : b = RoundKeys(SecondHalf(key))
  BY <1>1, RoundKeysTyped
<1>4. split_keys(key, len) = Some(<<a, b>>)
  BY <1>2, <1>3, SplitIs
<1>5. TwoSchedules(<<a, b>>)
  BY DEF TwoSchedules
<1>. QED BY <1>4, <1>5 DEF SplitsInto

(* split_keys refuses equal halves and every other length. *)
LEMMA SplitsNot ==
    ASSUME NEW key, NEW len, len \notin BlockLen..MAX_LEN \/ FirstHalf(key) = SecondHalf(key)
    PROVE  split_keys(key, len) = Refused
  BY SplitIs

(* The two keys of the runs.                                               *)
LEMMA KeyTyped ==
    KeyBytes(Key) /\ Key[1] = 1 /\ Key[BlockLen + 1] = 0
<1>1. \A i \in 1..32 : Key[i] \in 0..255
  BY DEF Key
<1>2. DOMAIN Key = 1..32
  BY DEF Key
<1>3. Key = [i \in 1..32 |-> Key[i]]
  BY <1>2 DEF Key
<1>4. Key \in [1..32 -> Octet]
  <2>. HIDE DEF Key
  <2>. QED BY <1>1, <1>3 DEF Octet
<1>5. BlockLen + BlockLen = 32 /\ BlockLen + 1 = 17
  BY DEF BlockLen
<1>6. Key[1] = 1 /\ Key[17] = 0
  BY DEF Key
<1>. QED BY <1>4, <1>5, <1>6 DEF KeyBytes

(* The halves of Key are different. *)
LEMMA KeyApart == FirstHalf(Key) # SecondHalf(Key)
<1>1. PICK a \in Nat \ {0} : a = BlockLen
  BY BlockLenIs
<1>2. Key \in Seq(Octet) /\ Len(Key) = a + a
  <2>1. Key \in [1..(a + a) -> Octet]
    BY <1>1, KeyTyped DEF KeyBytes
  <2>2. PICK n \in Nat : n = a + a
    OBVIOUS
  <2>. QED BY <2>1, <2>2, RunTyped
<1>3. SubSeq(Key, 0 + 1, 0 + a)[1] = Key[0 + 1]
  <2>1. 1 \in 1..a /\ 0 \in Nat /\ 0 + a <= Len(Key)
    BY <1>2
  <2>. QED BY <1>2, <2>1, PlaceInStretch
<1>4. SubSeq(Key, a + 1, a + a)[1] = Key[a + 1]
  <2>1. 1 \in 1..a /\ a + a <= Len(Key)
    BY <1>2
  <2>. QED BY <1>2, <2>1, PlaceInStretch
<1>5. SubSeq(Key, 1, a)[1] = Key[1]
  BY <1>3
<1>6. SubSeq(Key, 1, a)[1] = 1 /\ SubSeq(Key, a + 1, a + a)[1] = 0
  BY <1>1, <1>4, <1>5, KeyTyped
<1>. QED BY <1>1, <1>6 DEF FirstHalf, SecondHalf

(* Those of WeakKey are the same. *)
LEMMA WeakKeyIs == FirstHalf(WeakKey) = SecondHalf(WeakKey) /\ WeakKey # Key
<1>1. FirstHalf(Key) \in Block
  BY KeyTyped, HalvesOf
<1>2. WeakKey = FirstHalf(Key) \o FirstHalf(Key)
  BY DEF WeakKey, FirstHalf, KeyLen, BlockLen
<1>3. HalvesAre(WeakKey, FirstHalf(Key), FirstHalf(Key))
  BY <1>1, <1>2, KeyOf
<1>. QED BY <1>3, KeyApart DEF HalvesAre

(***************************************************************************)
(* encrypt and decrypt of one data unit.                                   *)
(***************************************************************************)
UnitLen(len) == len \in BlockLen..MAX_LEN

(* What split_keys refuses is refused. *)
LEMMA XtsRefused ==
    ASSUME NEW h, NEW key, NEW tweak, NEW data, NEW d, split_keys(key, Len(data)) = Refused
    PROVE  XtsUnit(h, key, tweak, data, d) = Refused
<1>1. XtsUnit(h, key, tweak, data, d) =
        With(split_keys(key, Len(data)), LAMBDA ciphers :
            IF ciphers = Refused THEN Refused ELSE Some(xts_crypt(h, ciphers[1], tweak, data, d)))
  BY DEF XtsUnit
<1>. QED BY <1>1 DEF With

(* What split_keys accepts is encrypted or decrypted. *)
LEMMA XtsDone ==
    ASSUME NEW h, NEW key, NEW tweak, NEW data, NEW d, NEW cs, SplitsInto(key, Len(data), cs)
    PROVE  XtsUnit(h, key, tweak, data, d) = Some(xts_crypt(h, cs, tweak, data, d))
<1>1. XtsUnit(h, key, tweak, data, d) =
        With(split_keys(key, Len(data)), LAMBDA ciphers :
            IF ciphers = Refused THEN Refused ELSE Some(xts_crypt(h, ciphers[1], tweak, data, d)))
  BY DEF XtsUnit
<1>2. PICK s : s = Some(cs)
  OBVIOUS
<1>3. s # Refused /\ s[1] = cs
  BY <1>2 DEF Some, Refused
<1>4. split_keys(key, Len(data)) = s
  BY <1>2 DEF SplitsInto
<1>5. XtsUnit(h, key, tweak, data, d) = Some(xts_crypt(h, s[1], tweak, data, d))
  <2>. HIDE DEF Some
  <2>. QED BY <1>1, <1>3, <1>4 DEF With
<1>. QED BY <1>3, <1>5

(* out is what encryption or decryption under key makes of data on any     *)
(* host, and the other direction makes data of it again.                   *)
XtsMirrors(key, tweak, data, d, out) ==
    /\ out \in Seq(Octet) /\ Len(out) = Len(data)
    /\ \A h : XtsUnit(h, key, tweak, data, d) = Some(out)
    /\ \A h : XtsUnit(h, key, tweak, out, ~d) = Some(data)

(* Under a key of different halves every unit from one block to the        *)
(* longest is encrypted and decrypted on every host, to a unit of its      *)
(* length, and the other direction on any host gives the unit again.       *)
THEOREM XtsUnits ==
    ASSUME NEW key, KeyBytes(key), FirstHalf(key) # SecondHalf(key), NEW tweak \in Block,
           NEW data \in Seq(Octet), UnitLen(Len(data)), NEW d \in BOOLEAN
    PROVE  \E out : XtsMirrors(key, tweak, data, d, out)
<1>1. PICK cs : SplitsInto(key, Len(data), cs)
  BY SplitsIn DEF UnitLen
<1>2. TwoSchedules(cs)
  BY <1>1 DEF SplitsInto
<1>3. Len(data) >= BlockLen
  BY BlockLenIs DEF UnitLen
<1>4. PICK out : Mirrors(cs, tweak, data, d, out)
  BY <1>2, <1>3, UnitMirrors
<1>5. /\ out \in Seq(Octet) /\ Len(out) = Len(data)
      /\ \A h : xts_crypt(h, cs, tweak, data, d) = out
      /\ \A h : xts_crypt(h, cs, tweak, out, ~d) = data
  BY <1>4 DEF Mirrors
<1>6. SplitsInto(key, Len(out), cs)
  BY <1>1, <1>5
<1>7. ASSUME NEW h PROVE XtsUnit(h, key, tweak, data, d) = Some(out)
  <2>1. XtsUnit(h, key, tweak, data, d) = Some(xts_crypt(h, cs, tweak, data, d))
    BY <1>1, XtsDone
  <2>. QED BY <1>5, <2>1
<1>8. ASSUME NEW h PROVE XtsUnit(h, key, tweak, out, ~d) = Some(data)
  <2>1. PICK e : e = ~d
    OBVIOUS
  <2>2. XtsUnit(h, key, tweak, out, e) = Some(xts_crypt(h, cs, tweak, out, e))
    BY <1>6, XtsDone
  <2>. QED BY <1>5, <2>1, <2>2
<1>. QED BY <1>5, <1>7, <1>8 DEF XtsMirrors

(***************************************************************************)
(* Sector numbers.                                                         *)
(***************************************************************************)
(* c are the carries when k is added to n.                                 *)
Carries(c, n, k) ==
    /\ c \in [0..BlockLen -> Nat] /\ c[0] = k
    /\ \A i \in 1..BlockLen : c[i] = (n[i] + c[i - 1]) \div 256

(* A byte of a sum and its carry. *)
LEMMA CarryTyped ==
    ASSUME NEW x \in Octet, NEW c \in Nat
    PROVE  (x + c) \div 256 \in Nat /\ (x + c) % 256 \in Octet
  BY DEF Octet

(* There are carries when k is added to n. *)
LEMMA CarriesExist ==
    ASSUME NEW n \in Block, NEW k \in Nat
    PROVE  \E f \in [0..BlockLen -> Nat] :
              f = [i \in 0..BlockLen |-> IF i = 0 THEN k ELSE (n[i] + f[i - 1]) \div 256]
<1>0. BlockLen \in Nat
  BY BlockLenIs
<1>. DEFINE s == [a \in Nat \X Nat |-> IF a[1] \in 1..BlockLen THEN (n[a[1]] + a[2]) \div 256 ELSE k]
<1>1. ASSUME NEW i \in Nat, NEW y \in Nat
      PROVE  (IF i \in 1..BlockLen THEN (n[i] + y) \div 256 ELSE k) \in Nat
  <2>1. i \in 1..BlockLen => n[i] \in Octet
    BY DEF Block
  <2>. QED BY <2>1, CarryTyped
<1>2. s \in [Nat \X Nat -> Nat]
  BY <1>1
<1>3. \A i \in 1..BlockLen : \A y \in Nat : s[<<i, y>>] = (n[i] + y) \div 256
  OBVIOUS
<1>. HIDE DEF s
<1>5. PICK f \in [0..BlockLen -> Nat] : Stepwise(f, k, s, BlockLen)
  BY <1>0, <1>2, Recursion
<1>6. f = [i \in 0..BlockLen |-> IF i = 0 THEN k ELSE s[<<i, f[i - 1]>>]]
  BY <1>5 DEF Stepwise
<1>7. ASSUME NEW i \in 0..BlockLen
      PROVE  f[i] = IF i = 0 THEN k ELSE (n[i] + f[i - 1]) \div 256
  <2>1. CASE i = 0
    BY <1>6, <2>1
  <2>2. CASE i # 0
    <3>1. i \in 1..BlockLen
      BY <1>0, <2>2
    <3>2. PICK j \in 0..BlockLen : j = i - 1
      BY <1>0, <3>1
    <3>3. PICK y \in Nat : y = f[j]
      BY <3>2
    <3>4. f[i] = s[<<i, y>>]
      BY <1>6, <2>2, <3>2, <3>3
    <3>5. f[i] = (n[i] + y) \div 256
      BY <1>3, <3>1, <3>4
    <3>. QED BY <2>2, <3>2, <3>3, <3>5
  <2>. QED BY <2>1, <2>2
<1>8. f = [i \in 0..BlockLen |-> IF i = 0 THEN k ELSE (n[i] + f[i - 1]) \div 256]
  BY <1>7
<1>. QED BY <1>8

(* LeCarry is them. *)
LEMMA LeCarryIs ==
    ASSUME NEW n \in Block, NEW k \in Nat
    PROVE  Carries(LeCarry(n, k), n, k)
<1>. DEFINE P(f) == f = [i \in 0..BlockLen |-> IF i = 0 THEN k ELSE (n[i] + f[i - 1]) \div 256]
            g == CHOOSE f : P(f)
<1>0. BlockLen \in Nat
  BY BlockLenIs
<1>1. LeCarry(n, k) = g
  BY DEF LeCarry
<1>2. PICK f \in [0..BlockLen -> Nat] : P(f)
  BY CarriesExist
<1>3. P(g)
  <2>. HIDE DEF P
  <2>. QED BY <1>2
<1>4. DOMAIN g = 0..BlockLen /\ g[0] = k /\ \A i \in 1..BlockLen : g[i] = (n[i] + g[i - 1]) \div 256
  <2>. HIDE DEF g
  <2>. QED BY <1>0, <1>3
<1>. HIDE DEF g, P
<1>. DEFINE S == {i \in Nat : i \in 0..BlockLen => g[i] \in Nat}
<1>5. 0 \in S
  BY <1>4
<1>6. ASSUME NEW i \in Nat, i \in S PROVE i + 1 \in S
  <2>. SUFFICES ASSUME i + 1 \in 0..BlockLen PROVE g[i + 1] \in Nat
    OBVIOUS
  <2>1. i \in 0..BlockLen /\ i + 1 \in 1..BlockLen /\ (i + 1) - 1 = i
    BY <1>0
  <2>2. g[i] \in Nat /\ n[i + 1] \in Octet
    BY <1>6, <2>1 DEF Block
  <2>3. g[i + 1] = (n[i + 1] + g[i]) \div 256
    BY <1>4, <2>1
  <2>. HIDE DEF S
  <2>4. PICK x \in Octet, y \in Nat : x = n[i + 1] /\ y = g[i]
    BY <2>2
  <2>5. (x + y) \div 256 \in Nat
    BY CarryTyped
  <2>. QED BY <2>3, <2>4, <2>5
<1>. HIDE DEF S
<1>7. Nat \subseteq S
  BY <1>5, <1>6, NatClosure
<1>8. ASSUME NEW i \in 0..BlockLen PROVE g[i] \in Nat
  <2>1. i \in S
    BY <1>7
  <2>. QED BY <2>1 DEF S
<1>9. g = [i \in 0..BlockLen |-> g[i]]
  BY <1>3 DEF P
<1>10. g \in [0..BlockLen -> Nat]
  BY <1>8, <1>9
<1>. QED BY <1>1, <1>4, <1>10 DEF Carries

(* The sum with these carries. *)
Sums(n, k, c) == LePlus(n, k) = [i \in 1..BlockLen |-> (n[i] + c[i - 1]) % 256] /\ LePlus(n, k) \in Block

(* A sum is taken byte by byte with these carries. *)
LEMMA LePlusIs ==
    ASSUME NEW n \in Block, NEW k \in Nat
    PROVE  Sums(n, k, LeCarry(n, k))
<1>1. PICK c : c = LeCarry(n, k)
  OBVIOUS
<1>2. Carries(c, n, k)
  BY <1>1, LeCarryIs
<1>3. ASSUME NEW i \in 1..BlockLen PROVE (n[i] + c[i - 1]) % 256 \in Octet
  <2>1. i - 1 \in 0..BlockLen
    BY BlockLenIs
  <2>2. n[i] \in Octet /\ c[i - 1] \in Nat
    BY <1>2, <2>1 DEF Carries, Block
  <2>. QED BY <2>2, CarryTyped
<1>4. LePlus(n, k) = [i \in 1..BlockLen |-> (n[i] + c[i - 1]) % 256]
  BY <1>1 DEF LePlus
<1>. QED BY <1>1, <1>3, <1>4 DEF Sums, Block

(* A sum is sixteen bytes. *)
LEMMA LePlusTyped ==
    ASSUME NEW n \in Block, NEW k \in Nat
    PROVE  LePlus(n, k) \in Block
  BY LePlusIs DEF Sums

(* One byte of a sum of three.                                             *)
LEMMA CarrySplit ==
    ASSUME NEW x \in Octet, NEW p \in Nat, NEW q \in Nat
    PROVE  /\ (x + (p + q)) \div 256 = ((x + p) \div 256) + ((((x + p) % 256) + q) \div 256)
           /\ (x + (p + q)) % 256 = (((x + p) % 256) + q) % 256
<1>1. PICK y \in Nat : y = x + p
  BY DEF Octet
<1>2. PICK a \in Nat, r \in 0..255 : a = y \div 256 /\ r = y % 256 /\ y = 256 * a + r
  OBVIOUS
<1>3. x + (p + q) = 256 * a + (r + q)
  BY <1>1, <1>2 DEF Octet
<1>4. (256 * a + (r + q)) \div 256 = a + ((r + q) \div 256)
  OBVIOUS
<1>5. (256 * a + (r + q)) % 256 = (r + q) % 256
  OBVIOUS
<1>. QED BY <1>1, <1>2, <1>3, <1>4, <1>5

(* The carries of a and of b are those of a + b. *)
CarriesAdd(n, a, b) ==
    \A i \in 0..BlockLen : LeCarry(n, a + b)[i] = LeCarry(n, a)[i] + LeCarry(LePlus(n, a), b)[i]

(* The carries of two sums add up to those of the sum of both, at every    *)
(* byte.                                                                   *)
LEMMA CarryAdds ==
    ASSUME NEW n \in Block, NEW a \in Nat, NEW b \in Nat
    PROVE  CarriesAdd(n, a, b)
<1>0. BlockLen \in Nat
  BY BlockLenIs
<1>1. PICK s \in Nat : s = a + b
  OBVIOUS
<1>2. PICK m \in Block : m = LePlus(n, a)
  BY LePlusTyped
<1>3. PICK c : c = LeCarry(n, s)
  OBVIOUS
<1>4. PICK p : p = LeCarry(n, a)
  OBVIOUS
<1>5. PICK q : q = LeCarry(m, b)
  OBVIOUS
<1>6. Carries(c, n, s)
  BY <1>3, LeCarryIs
<1>7. Carries(p, n, a)
  BY <1>4, LeCarryIs
<1>8. Carries(q, m, b)
  BY <1>5, LeCarryIs
<1>9. m = [i \in 1..BlockLen |-> (n[i] + p[i - 1]) % 256]
  <2>1. Sums(n, a, p)
    BY <1>4, LePlusIs
  <2>. QED BY <1>2, <2>1 DEF Sums
<1>. DEFINE S == {i \in Nat : i \in 0..BlockLen => c[i] = p[i] + q[i]}
<1>10. 0 \in S
  BY <1>1, <1>6, <1>7, <1>8 DEF Carries
<1>11. ASSUME NEW i \in Nat, i \in S PROVE i + 1 \in S
  <2>. SUFFICES ASSUME i + 1 \in 0..BlockLen PROVE c[i + 1] = p[i + 1] + q[i + 1]
    OBVIOUS
  <2>1. i \in 0..BlockLen /\ i + 1 \in 1..BlockLen /\ (i + 1) - 1 = i
    BY <1>0
  <2>2. c[i] = p[i] + q[i]
    BY <1>11, <2>1
  <2>. HIDE DEF S
  <2>3. c[i + 1] = (n[i + 1] + c[i]) \div 256
    BY <1>6, <2>1 DEF Carries
  <2>4. p[i + 1] = (n[i + 1] + p[i]) \div 256 /\ p[i] \in Nat
    BY <1>7, <2>1 DEF Carries
  <2>5. q[i + 1] = (m[i + 1] + q[i]) \div 256 /\ q[i] \in Nat
    BY <1>8, <2>1 DEF Carries
  <2>6. m[i + 1] = (n[i + 1] + p[i]) % 256
    BY <1>9, <2>1
  <2>7. PICK x \in Octet : x = n[i + 1]
    BY <2>1 DEF Block
  <2>8. PICK u \in Nat, v \in Nat : u = p[i] /\ v = q[i]
    BY <2>4, <2>5
  <2>9. (x + (u + v)) \div 256 = ((x + u) \div 256) + ((((x + u) % 256) + v) \div 256)
    BY CarrySplit
  <2>. QED BY <2>2, <2>3, <2>4, <2>5, <2>6, <2>7, <2>8, <2>9
<1>. HIDE DEF S
<1>12. Nat \subseteq S
  BY <1>10, <1>11, NatClosure
<1>13. ASSUME NEW i \in 0..BlockLen PROVE c[i] = p[i] + q[i]
  <2>1. i \in S
    BY <1>12
  <2>. QED BY <2>1 DEF S
<1>. QED BY <1>1, <1>2, <1>3, <1>4, <1>5, <1>13 DEF CarriesAdd

(* Adding a and then b is adding a + b: the number of sector i does not    *)
(* depend on where the run began.                                          *)
THEOREM LePlusAdds ==
    ASSUME NEW n \in Block, NEW a \in Nat, NEW b \in Nat
    PROVE  LePlus(LePlus(n, a), b) = LePlus(n, a + b)
<1>0. BlockLen \in Nat
  BY BlockLenIs
<1>1. PICK s \in Nat : s = a + b
  OBVIOUS
<1>2. PICK m \in Block : m = LePlus(n, a)
  BY LePlusTyped
<1>3. PICK c : c = LeCarry(n, s)
  OBVIOUS
<1>4. PICK p : p = LeCarry(n, a)
  OBVIOUS
<1>5. PICK q : q = LeCarry(m, b)
  OBVIOUS
<1>6. Sums(n, s, c)
  BY <1>3, LePlusIs
<1>7. Sums(n, a, p)
  BY <1>4, LePlusIs
<1>8. Sums(m, b, q)
  BY <1>5, LePlusIs
<1>9. \A i \in 0..BlockLen : c[i] = p[i] + q[i]
  <2>1. CarriesAdd(n, a, b)
    BY CarryAdds
  <2>. QED BY <1>1, <1>2, <1>3, <1>4, <1>5, <2>1 DEF CarriesAdd
<1>10. \A i \in 0..BlockLen : p[i] \in Nat /\ q[i] \in Nat
  <2>1. Carries(p, n, a) /\ Carries(q, m, b)
    BY <1>4, <1>5, LeCarryIs
  <2>. QED BY <2>1 DEF Carries
<1>11. ASSUME NEW i \in 1..BlockLen PROVE (m[i] + q[i - 1]) % 256 = (n[i] + c[i - 1]) % 256
  <2>1. i - 1 \in 0..BlockLen
    BY <1>0
  <2>2. PICK u \in Nat, v \in Nat : u = p[i - 1] /\ v = q[i - 1] /\ c[i - 1] = u + v
    BY <1>9, <1>10, <2>1
  <2>3. PICK x \in Octet : x = n[i]
    BY DEF Block
  <2>4. m[i] = (x + u) % 256
    BY <1>2, <1>7, <2>2, <2>3 DEF Sums
  <2>5. (x + (u + v)) % 256 = (((x + u) % 256) + v) % 256
    BY CarrySplit
  <2>. QED BY <2>2, <2>3, <2>4, <2>5
<1>12. LePlus(m, b) = [i \in 1..BlockLen |-> (m[i] + q[i - 1]) % 256]
  BY <1>8 DEF Sums
<1>13. LePlus(n, s) = [i \in 1..BlockLen |-> (n[i] + c[i - 1]) % 256]
  BY <1>6 DEF Sums
<1>14. LePlus(m, b) = LePlus(n, s)
  BY <1>11, <1>12, <1>13
<1>. QED BY <1>1, <1>2, <1>14

(***************************************************************************)
(* Runs of sectors.                                                        *)
(***************************************************************************)
Sector == [1..SectorSize -> Octet]

(* A sector is a permitted unit of whole blocks. *)
LEMMA SectorFacts ==
    /\ SectorSize \in Nat \ {0} /\ UnitLen(SectorSize) /\ SectorSize > 1
    /\ ~(SectorSize \notin BlockLen..MAX_LEN \/ SectorSize % BlockLen # 0)
<1>1. SectorSize % BlockLen = 0 /\ SectorSize \in BlockLen..(MaxBlocks * BlockLen)
  BY XtsAssumption
<1>2. SectorSize \in BlockLen..MAX_LEN
  BY <1>1 DEF MAX_LEN
<1>3. SectorSize \in Nat \ {0} /\ SectorSize > 1
  BY <1>1 DEF BlockLen
<1>. QED BY <1>1, <1>2, <1>3 DEF UnitLen

(* process_sectors refuses.                                                *)
BadSize(size) == size \notin BlockLen..MAX_LEN \/ size % BlockLen # 0
Uneven(size, buf) == Len(buf) % size # 0
TooHigh(size, start, buf) == Len(buf) \div size > 0 /\ ~FitsU128(start, Len(buf) \div size - 1)
(* Every sector done under its number. *)
SectorsDone(h, cs, size, start, buf, d) ==
    FlattenSeq([i \in 1..(Len(buf) \div size) |->
        xts_crypt(h, cs, LePlus(start, i - 1), SubSeq(buf, (i - 1) * size + 1, ((i - 1) + 1) * size), d)])

(* The checks of process_sectors, in their order. *)
LEMMA ProcessIs ==
    ASSUME NEW h, NEW key, NEW size, NEW start, NEW buf, NEW d
    PROVE  process_sectors(h, key, size, start, buf, d) =
             IF BadSize(size) THEN Refused
             ELSE IF Uneven(size, buf) THEN Refused
             ELSE IF TooHigh(size, start, buf) THEN Refused
             ELSE With(split_keys(key, size), LAMBDA ciphers :
                IF ciphers = Refused THEN Refused
                ELSE Some(SectorsDone(h, ciphers[1], size, start, buf, d)))
<1>1. process_sectors(h, key, size, start, buf, d) =
             IF BadSize(size) THEN Refused
             ELSE IF Uneven(size, buf) THEN Refused
             ELSE IF TooHigh(size, start, buf) THEN Refused
             ELSE With(split_keys(key, size), LAMBDA ciphers :
                IF ciphers = Refused THEN Refused
                ELSE With([i \in 1..(Len(buf) \div size) |->
                             xts_crypt(h, ciphers[1], LePlus(start, i - 1),
                                       SubSeq(buf, (i - 1) * size + 1, ((i - 1) + 1) * size), d)],
                      LAMBDA out : Some(FlattenSeq(out))))
  BY DEF process_sectors, BadSize, Uneven, TooHigh
<1>. QED BY <1>1 DEF With, SectorsDone

(* What one of them refuses is refused. *)
LEMMA ProcessRefused ==
    ASSUME NEW h, NEW key, NEW size, NEW start, NEW buf, NEW d,
           \/ BadSize(size) \/ Uneven(size, buf) \/ TooHigh(size, start, buf)
           \/ split_keys(key, size) = Refused
    PROVE  process_sectors(h, key, size, start, buf, d) = Refused
  BY ProcessIs DEF With

(* What none refuses is encrypted or decrypted sector by sector. *)
LEMMA ProcessDone ==
    ASSUME NEW h, NEW key, NEW size, NEW start, NEW buf, NEW d,
           ~BadSize(size), ~Uneven(size, buf), ~TooHigh(size, start, buf),
           NEW cs, SplitsInto(key, size, cs)
    PROVE  process_sectors(h, key, size, start, buf, d) = Some(SectorsDone(h, cs, size, start, buf, d))
<1>2. PICK s : s = Some(cs)
  OBVIOUS
<1>3. s # Refused /\ s[1] = cs
  BY <1>2 DEF Some, Refused
<1>4. split_keys(key, size) = s
  BY <1>2 DEF SplitsInto
<1>5. process_sectors(h, key, size, start, buf, d) =
        With(split_keys(key, size), LAMBDA ciphers :
                IF ciphers = Refused THEN Refused
                ELSE Some(SectorsDone(h, ciphers[1], size, start, buf, d)))
  BY ProcessIs
<1>. QED BY <1>3, <1>4, <1>5 DEF With

(* n sectors, one behind the other.                                        *)
LEMMA Run ==
    ASSUME NEW n \in Nat, NEW secs \in [1..n -> Sector]
    PROVE  /\ IsPieces(secs, Octet, SectorSize, n)
           /\ IsLong(FlattenSeq(secs), Octet, SectorSize, n)
<1>1. IsPieces(secs, Octet, SectorSize, n)
  BY SectorFacts DEF IsPieces, Pieces, Sector
<1>2. IsLong(FlattenSeq(secs), Octet, SectorSize, n)
  BY <1>1, FlatLong
<1>. QED BY <1>1, <1>2

(* buf is n whole sectors. *)
RunLen(buf, n) == Len(buf) \div SectorSize = n /\ Len(buf) % SectorSize = 0

(* n sectors have n times the length of one. *)
LEMMA RunLens ==
    ASSUME NEW n \in Nat, NEW buf, IsLong(buf, Octet, SectorSize, n)
    PROVE  RunLen(buf, n)
<1>1. Len(buf) = Mul(n, SectorSize) + 0 /\ 0 \in 0..(SectorSize - 1)
  <2>1. Len(buf) = Mul(n, SectorSize)
    BY DEF IsLong, Long
  <2>2. PICK a \in Nat : a = Mul(n, SectorSize)
    BY SectorFacts, MulFacts
  <2>. QED BY <2>1, <2>2, SectorFacts
<1>2. PICK l : l = Len(buf)
  OBVIOUS
<1>3. Quo(l, SectorSize) = n /\ Rem(l, SectorSize) = 0
  BY <1>1, <1>2, SectorFacts, Euclid
<1>. QED BY <1>2, <1>3 DEF Quo, Rem, RunLen

(* A byte less is not whole sectors any more.                              *)
LEMMA ShortRun ==
    ASSUME NEW n \in Nat, NEW buf, IsLong(buf, Octet, SectorSize, n), 1 <= Len(buf)
    PROVE  Uneven(SectorSize, SubSeq(buf, 1, Len(buf) - 1))
<1>1. PICK c \in Nat \ {0} : c = SectorSize /\ c > 1
  BY SectorFacts
<1>2. PICK l \in Nat : l = Len(buf) /\ l = Mul(n, c)
  BY <1>1 DEF IsLong, Long
<1>3. n # 0
  <2>1. Mul(0, c) = 0
    BY MulFacts
  <2>. QED BY <1>2, <2>1
<1>4. PICK m \in Nat : n = m + 1
  <2>1. n - 1 \in Nat /\ n = (n - 1) + 1
    BY <1>3
  <2>. QED BY <2>1
<1>5. PICK e \in Nat : e = l - 1
  BY <1>2
<1>6. Len(SubSeq(buf, 1, e)) = e
  <2>1. buf \in Seq(Octet) /\ e \in 0..Len(buf)
    BY <1>2, <1>5 DEF IsLong, Long
  <2>2. Len(Upto(buf, e)) = e
    BY <2>1, CutFacts
  <2>. QED BY <2>2 DEF Upto
<1>7. e = Mul(m, c) + (c - 1) /\ c - 1 \in 0..(c - 1)
  <2>1. Mul(m + 1, c) = Mul(m, c) + c
    BY MulFacts
  <2>2. Mul(m, c) \in Nat
    BY MulFacts
  <2>. QED BY <1>2, <1>4, <1>5, <2>1, <2>2
<1>8. Rem(e, c) = c - 1
  BY <1>7, Euclid
<1>9. e % c # 0
  BY <1>1, <1>8 DEF Rem
<1>. QED BY <1>1, <1>2, <1>5, <1>6, <1>9 DEF Uneven

(* outs are what encryption or decryption makes of the sectors secs, the   *)
(* first of which has the number start.                                    *)
Sealings(key, start, secs, outs, d, n) ==
    \A i \in 1..n : XtsMirrors(key, LePlus(start, i - 1), secs[i], d, outs[i])

(* Sector i is cut out of the run at its place. *)
LEMMA SectorHere ==
    ASSUME NEW n \in Nat, NEW secs \in [1..n -> Sector], NEW i \in 1..n
    PROVE  SubSeq(FlattenSeq(secs), (i - 1) * SectorSize + 1, ((i - 1) + 1) * SectorSize) = secs[i]
<1>1. PICK k : k = i - 1 /\ Th(k, n) /\ k + 1 = i /\ k \in Nat
  BY DEF Th
<1>2. CutAgain(secs, SectorSize, k)
  BY <1>1, Run, FlatCut
<1>3. Piece(FlattenSeq(secs), SectorSize, k) = secs[i]
  BY <1>1, <1>2 DEF CutAgain
<1>4. k * SectorSize = Mul(k, SectorSize) /\ (k + 1) * SectorSize = Mul(k, SectorSize) + SectorSize
  BY <1>1, SectorFacts DEF Mul
<1>. QED BY <1>1, <1>3, <1>4 DEF Piece

(* A run of sectors comes out as the sectors that encryption or decryption *)
(* of each alone would give.                                               *)
THEOREM SectorsOut ==
    ASSUME NEW h, NEW key, KeyBytes(key), FirstHalf(key) # SecondHalf(key),
           NEW start, NEW n \in Nat, NEW secs \in [1..n -> Sector], NEW outs \in [1..n -> Sector],
           NEW d, Sealings(key, start, secs, outs, d, n),
           NEW buf, buf = FlattenSeq(secs), ~TooHigh(SectorSize, start, buf)
    PROVE  process_sectors(h, key, SectorSize, start, buf, d) = Some(FlattenSeq(outs))
<1>1. RunLen(buf, n)
  BY Run, RunLens
<1>2. ~BadSize(SectorSize) /\ ~Uneven(SectorSize, buf)
  BY <1>1, SectorFacts DEF BadSize, Uneven, RunLen
<1>3. PICK cs : SplitsInto(key, SectorSize, cs)
  BY SectorFacts, SplitsIn DEF UnitLen
<1>4. process_sectors(h, key, SectorSize, start, buf, d) = Some(SectorsDone(h, cs, SectorSize, start, buf, d))
  BY <1>2, <1>3, ProcessDone
<1>5. ASSUME NEW i \in 1..n
      PROVE  xts_crypt(h, cs, LePlus(start, i - 1),
                       SubSeq(buf, (i - 1) * SectorSize + 1, ((i - 1) + 1) * SectorSize), d) = outs[i]
  <2>1. SubSeq(buf, (i - 1) * SectorSize + 1, ((i - 1) + 1) * SectorSize) = secs[i]
    BY SectorHere
  <2>2. PICK t : t = LePlus(start, i - 1)
    OBVIOUS
  <2>3. XtsUnit(h, key, t, secs[i], d) = Some(outs[i])
    BY <2>2 DEF Sealings, XtsMirrors
  <2>4. Len(secs[i]) = SectorSize
    <3>1. secs[i] \in [1..SectorSize -> Octet] /\ SectorSize \in Nat
      BY SectorFacts DEF Sector
    <3>. QED BY <3>1, RunTyped
  <2>5. XtsUnit(h, key, t, secs[i], d) = Some(xts_crypt(h, cs, t, secs[i], d))
    BY <1>3, <2>4, XtsDone
  <2>6. xts_crypt(h, cs, t, secs[i], d) = outs[i]
    BY <2>3, <2>5 DEF Some
  <2>. QED BY <2>1, <2>2, <2>6
<1>6. SectorsDone(h, cs, SectorSize, start, buf, d) = FlattenSeq(outs)
  <2>1. PICK xs : xs = [i \in 1..(Len(buf) \div SectorSize) |->
           xts_crypt(h, cs, LePlus(start, i - 1),
                     SubSeq(buf, (i - 1) * SectorSize + 1, ((i - 1) + 1) * SectorSize), d)]
    OBVIOUS
  <2>2. xs = [i \in 1..n |->
           xts_crypt(h, cs, LePlus(start, i - 1),
                     SubSeq(buf, (i - 1) * SectorSize + 1, ((i - 1) + 1) * SectorSize), d)]
    BY <1>1, <2>1 DEF RunLen
  <2>3. xs = outs
    BY <1>5, <2>2
  <2>. QED BY <2>1, <2>3 DEF SectorsDone
<1>. QED BY <1>4, <1>6

(***************************************************************************)
(* The sectors of a disk.                                                  *)
(***************************************************************************)
LEMMA BaseFacts ==
    ASSUME NEW b \in Bases
    PROVE  b.le \in Block /\ b.room \in Nat \ {0}
  BY XtsAssumption DEF Block

(* The sectors of the runs have natural numbers. *)
LEMMA IndexFacts ==
    SectorCount \in Nat /\ Indices \subseteq Nat
  BY XtsAssumption DEF Indices

(* A plain sector is a sector. *)
LEMMA PlainTyped ==
    ASSUME NEW i \in Nat
    PROVE  PlainSector(i) \in Sector /\ PlainSector(i) \in Seq(Octet) /\ Len(PlainSector(i)) = SectorSize
<1>1. PICK c \in Nat : c = SectorSize
  BY SectorFacts
<1>2. PICK a \in Nat : a = Mul(i, c)
  BY MulFacts
<1>3. SectorSize * i = a
  BY <1>1, <1>2 DEF Mul
<1>4. PlainSector(i) = [k \in 1..c |-> (31 * (k + a)) % 256]
  BY <1>1, <1>3 DEF PlainSector
<1>5. ASSUME NEW k \in 1..c PROVE (31 * (k + a)) % 256 \in Octet
  BY DEF Octet
<1>6. PlainSector(i) \in [1..c -> Octet]
  BY <1>4, <1>5
<1>. QED BY <1>1, <1>6, RunTyped DEF Sector

(* alone[i] is what encryption makes of sector i, and decryption makes     *)
(* the sector of it.                                                       *)
SealedSector(b, i) ==
    XtsMirrors(Key, LePlus(b.le, i), PlainSector(i), FALSE, SealedSectors(b)[i]) /\ SealedSectors(b)[i] \in Sector

(* Every sector that has a number has a sealed form. *)
LEMMA SealedIs ==
    ASSUME NEW b \in Bases, NEW i \in Indices, i < b.room
    PROVE  SealedSector(b, i)
<1>1. i \in Nat
  BY IndexFacts
<1>2. PICK t \in Block : t = LePlus(b.le, i)
  BY <1>1, BaseFacts, LePlusTyped
<1>3. PICK p \in Seq(Octet) : p = PlainSector(i) /\ Len(p) = SectorSize
  BY <1>1, PlainTyped
<1>4. UnitLen(Len(p))
  BY <1>3, SectorFacts
<1>5. PICK out : XtsMirrors(Key, t, p, FALSE, out)
  <2>1. KeyBytes(Key)
    BY KeyTyped
  <2>. QED BY <1>4, <2>1, KeyApart, XtsUnits
<1>6. XtsUnit(Portable, Key, t, p, FALSE) = Some(out)
  BY <1>5 DEF XtsMirrors
<1>7. SealedSectors(b)[i] = With(XtsUnit(Portable, Key, t, p, FALSE), LAMBDA o : o[1])
  BY <1>2, <1>3 DEF SealedSectors
<1>8. SealedSectors(b)[i] = out
  <2>1. PICK s : s = XtsUnit(Portable, Key, t, p, FALSE)
    OBVIOUS
  <2>2. SealedSectors(b)[i] = s[1]
    BY <1>7, <2>1 DEF With
  <2>3. s = <<out>>
    BY <1>6, <2>1 DEF Some
  <2>4. s[1] = out
    BY <2>3
  <2>. QED BY <2>2, <2>4
<1>9. out \in Sector
  <2>1. out \in Seq(Octet) /\ Len(out) = SectorSize /\ SectorSize \in Nat
    BY <1>3, <1>5, SectorFacts DEF XtsMirrors
  <2>. QED BY <2>1, SeqTyped DEF Sector
<1>. QED BY <1>2, <1>3, <1>5, <1>8, <1>9 DEF SealedSector

(* What encryption makes of p, decryption makes p of. *)
LEMMA MirrorsBack ==
    ASSUME NEW key, NEW t, NEW p \in Seq(Octet), NEW q, XtsMirrors(key, t, p, FALSE, q)
    PROVE  XtsMirrors(key, t, q, TRUE, p)
  BY DEF XtsMirrors

(* The disk when the sectors of enc are encrypted.                         *)
DiskOf(b, enc) == [n \in Indices |-> IF n \in enc THEN SealedSectors(b)[n] ELSE PlainSector(n)]
(* The sectors that have a number, and those of a run. *)
Numbered(b) == {n \in Indices : n < b.room}
RunOf(first, count) == first..(first + count - 1)
(* What is in the run, with the sectors encrypted or not, ...              *)
InRun(b, sealed, first, count) ==
    [i \in 1..count |-> IF sealed THEN SealedSectors(b)[first + i - 1] ELSE PlainSector(first + i - 1)]
(* ... and a run all of whose sectors have a number.                       *)
RunFits(b, first, count) ==
    /\ first \in Nat /\ count \in Nat /\ RunOf(first, count) \subseteq Indices
    /\ first + count <= b.room

(* A run of plain or sealed sectors is a run of sectors. *)
LEMMA InRunTyped ==
    ASSUME NEW b \in Bases, NEW first, NEW count, RunFits(b, first, count), NEW sealed \in BOOLEAN
    PROVE  InRun(b, sealed, first, count) \in [1..count -> Sector]
<1>1. b.room \in Nat
  BY BaseFacts
<1>2. ASSUME NEW i \in 1..count
      PROVE  (IF sealed THEN SealedSectors(b)[first + i - 1] ELSE PlainSector(first + i - 1)) \in Sector
  <2>1. PICK k \in Indices : k = first + i - 1 /\ k < b.room /\ k \in Nat
    BY <1>1 DEF RunFits, RunOf
  <2>2. SealedSectors(b)[k] \in Sector
    BY <2>1, SealedIs DEF SealedSector
  <2>3. PlainSector(k) \in Sector
    BY <2>1, PlainTyped
  <2>. QED BY <2>1, <2>2, <2>3
<1>. QED BY <1>2 DEF InRun

(* The sealed sectors are what encryption makes of the plain ones under    *)
(* the numbers of the run, and the other way round.                        *)
LEMMA RunSealed ==
    ASSUME NEW b \in Bases, NEW first, NEW count, RunFits(b, first, count), NEW d \in BOOLEAN
    PROVE  Sealings(Key, LePlus(b.le, first), InRun(b, d, first, count), InRun(b, ~d, first, count), d, count)
<1>1. b.room \in Nat /\ b.le \in Block
  BY BaseFacts
<1>2. first \in Nat /\ count \in Nat
  BY DEF RunFits
<1>3. ASSUME NEW i \in 1..count
      PROVE  XtsMirrors(Key, LePlus(LePlus(b.le, first), i - 1),
                        InRun(b, d, first, count)[i], d, InRun(b, ~d, first, count)[i])
  <2>1. PICK k \in Indices : k = first + i - 1 /\ k < b.room /\ k \in Nat
    BY <1>1 DEF RunFits, RunOf
  <2>2. PICK j \in Nat : j = i - 1 /\ first + j = k
    BY <1>2, <2>1
  <2>3. LePlus(LePlus(b.le, first), j) = LePlus(b.le, k)
    BY <1>1, <1>2, <2>2, LePlusAdds
  <2>4. PICK t : t = LePlus(b.le, k)
    OBVIOUS
  <2>5. PICK p \in Seq(Octet) : p = PlainSector(k)
    BY <2>1, PlainTyped
  <2>6. PICK q : q = SealedSectors(b)[k] /\ XtsMirrors(Key, t, p, FALSE, q)
    BY <2>1, <2>4, <2>5, SealedIs DEF SealedSector
  <2>7. InRun(b, d, first, count)[i] = (IF d THEN q ELSE p)
    BY <2>1, <2>5, <2>6 DEF InRun
  <2>8. InRun(b, ~d, first, count)[i] = (IF d THEN p ELSE q)
    BY <2>1, <2>5, <2>6 DEF InRun
  <2>9. LePlus(LePlus(b.le, first), i - 1) = t
    BY <2>2, <2>3, <2>4
  <2>10. CASE d = TRUE
    <3>1. XtsMirrors(Key, t, q, TRUE, p)
      BY <2>6, MirrorsBack
    <3>. QED BY <2>7, <2>8, <2>9, <2>10, <3>1
  <2>11. CASE d = FALSE
    BY <2>6, <2>7, <2>8, <2>9, <2>11
  <2>. QED BY <2>10, <2>11
<1>. QED BY <1>3 DEF Sealings

(* The last sector number fits exactly when the run has room.              *)
LEMMA RoomIs ==
    ASSUME NEW b \in Bases, NEW first \in Nat, first < b.room, NEW m \in Nat, first + m \in Indices
    PROVE  FitsU128(LePlus(b.le, first), m) <=> first + m < b.room
<1>1. b.room \in Nat /\ b.le \in Block
  BY BaseFacts
<1>2. PICK s \in Nat : s = first + m /\ s \in 0..SectorCount /\ first \in 0..SectorCount
  BY IndexFacts DEF Indices
<1>3. PICK c : c = LeCarry(b.le, s)
  OBVIOUS
<1>4. PICK p : p = LeCarry(b.le, first)
  OBVIOUS
<1>5. PICK q : q = LeCarry(LePlus(b.le, first), m)
  OBVIOUS
<1>6. BlockLen \in 0..BlockLen
  BY BlockLenIs
<1>7. c[BlockLen] = p[BlockLen] + q[BlockLen]
  <2>1. CarriesAdd(b.le, first, m)
    BY <1>1, CarryAdds
  <2>. QED BY <1>2, <1>3, <1>4, <1>5, <1>6, <2>1 DEF CarriesAdd
<1>8. (c[BlockLen] = 0) <=> s < b.room
  BY <1>2, <1>3, RoomAssumption
<1>9. p[BlockLen] = 0
  BY <1>2, <1>4, RoomAssumption
<1>10. q[BlockLen] \in Nat
  <2>1. LePlus(b.le, first) \in Block
    BY <1>1, LePlusTyped
  <2>2. Carries(q, LePlus(b.le, first), m)
    BY <1>5, <2>1, LeCarryIs
  <2>. QED BY <1>6, <2>2 DEF Carries
<1>11. FitsU128(LePlus(b.le, first), m) <=> q[BlockLen] = 0
  BY <1>5 DEF FitsU128
<1>. QED BY <1>2, <1>7, <1>8, <1>9, <1>10, <1>11

(* process_sectors finds the last number too high exactly when the run     *)
(* goes beyond the room of its base.                                       *)
LEMMA TooHighIs ==
    ASSUME NEW b \in Bases, NEW first \in Nat, first < b.room, NEW count \in Nat, RunOf(first, count) \subseteq Indices,
           NEW buf, IsLong(buf, Octet, SectorSize, count)
    PROVE  TooHigh(SectorSize, LePlus(b.le, first), buf) <=> first + count > b.room
<1>1. b.room \in Nat
  BY BaseFacts
<1>2. Len(buf) \div SectorSize = count
  BY RunLens DEF RunLen
<1>3. TooHigh(SectorSize, LePlus(b.le, first), buf) <=> count > 0 /\ ~FitsU128(LePlus(b.le, first), count - 1)
  BY <1>2 DEF TooHigh
<1>4. CASE count = 0
  BY <1>1, <1>3, <1>4
<1>5. CASE count # 0
  <2>1. PICK m \in Nat : m = count - 1 /\ first + m \in Indices
    BY <1>5 DEF RunOf
  <2>2. FitsU128(LePlus(b.le, first), m) <=> first + m < b.room
    BY <2>1, RoomIs
  <2>. QED BY <1>1, <1>3, <1>5, <2>1, <2>2
<1>. QED BY <1>4, <1>5

(* What process_sectors answers to a run; the run begins within the room   *)
(* of its base.                                                            *)
RunAnswer(h, b, first, count, d, buf) ==
    process_sectors(h, Key, SectorSize, LePlus(b.le, first), buf, d) = Some(FlattenSeq(InRun(b, ~d, first, count)))
Begins(b, first) == first < b.room

(* The answer to a run of sectors that are all in one condition.           *)
LEMMA RunDone ==
    ASSUME NEW h, NEW b \in Bases, NEW first, NEW count, RunFits(b, first, count), Begins(b, first),
           NEW d \in BOOLEAN, NEW buf, buf = FlattenSeq(InRun(b, d, first, count))
    PROVE  RunAnswer(h, b, first, count, d, buf)
<1>0. first < b.room
  BY DEF Begins
<1>1. first \in Nat /\ count \in Nat /\ RunOf(first, count) \subseteq Indices /\ first + count <= b.room
  BY DEF RunFits
<1>2. PICK secs \in [1..count -> Sector] : secs = InRun(b, d, first, count)
  BY InRunTyped
<1>3. PICK e \in BOOLEAN : e = ~d
  OBVIOUS
<1>4. PICK outs \in [1..count -> Sector] : outs = InRun(b, e, first, count)
  BY InRunTyped
<1>5. IsLong(buf, Octet, SectorSize, count)
  BY <1>1, <1>2, Run
<1>6. ~TooHigh(SectorSize, LePlus(b.le, first), buf)
  <2>1. TooHigh(SectorSize, LePlus(b.le, first), buf) <=> first + count > b.room
    BY <1>0, <1>1, <1>5, TooHighIs
  <2>2. b.room \in Nat
    BY BaseFacts
  <2>. QED BY <1>1, <2>1, <2>2
<1>7. Sealings(Key, LePlus(b.le, first), secs, outs, d, count)
  BY <1>2, <1>3, <1>4, RunSealed
<1>8. KeyBytes(Key)
  BY KeyTyped
<1>9. buf = FlattenSeq(secs)
  BY <1>2
<1>10. process_sectors(h, Key, SectorSize, LePlus(b.le, first), buf, d) = Some(FlattenSeq(outs))
  BY <1>1, <1>6, <1>7, <1>8, <1>9, KeyApart, SectorsOut
<1>. QED BY <1>3, <1>4, <1>10 DEF RunAnswer

(* A call on sectors that promises nothing is refused.                     *)
Permitted(b, key, size, first, count, cut) ==
    key # WeakKey /\ size = SectorSize /\ cut = 0 /\ first + count <= b.room

(* The bytes of a call: a run of sectors, or a byte less; what is refused. *)
RunOfBytes(b, first, count, buf, cut) ==
    /\ RunOf(first, count) \subseteq Indices /\ Begins(b, first)
    /\ IsLong(buf, Octet, SectorSize, count) /\ cut <= Len(buf)
Refuses(h, b, key, size, first, buf, cut, d) ==
    process_sectors(h, key, size, LePlus(b.le, first), SubSeq(buf, 1, Len(buf) - cut), d) = Refused

(* A call that is not permitted is refused, whatever it would have done. *)
LEMMA RunRefused ==
    ASSUME NEW h, NEW b \in Bases, NEW first \in Nat, NEW count \in Nat,
           NEW key, NEW size \in BadSizes \cup {SectorSize}, NEW cut \in 0..1,
           NEW buf, RunOfBytes(b, first, count, buf, cut),
           ~Permitted(b, key, size, first, count, cut), NEW d
    PROVE  Refuses(h, b, key, size, first, buf, cut, d)
<1>0. /\ RunOf(first, count) \subseteq Indices /\ first < b.room
      /\ IsLong(buf, Octet, SectorSize, count) /\ cut <= Len(buf)
  BY DEF RunOfBytes, Begins
<1>1. CASE key = WeakKey
  <2>1. split_keys(key, size) = Refused
    BY <1>1, WeakKeyIs, SplitsNot
  <2>. QED BY <2>1, ProcessRefused DEF Refuses
<1>2. CASE size # SectorSize
  <2>1. BadSize(size)
    BY <1>2, XtsAssumption DEF BadSize, MAX_LEN
  <2>. QED BY <2>1, ProcessRefused DEF Refuses
<1>3. CASE size = SectorSize /\ cut # 0
  <2>1. cut = 1 /\ 1 <= Len(buf)
    BY <1>0, <1>3
  <2>2. Uneven(SectorSize, SubSeq(buf, 1, Len(buf) - 1))
    BY <1>0, <2>1, ShortRun
  <2>3. Uneven(size, SubSeq(buf, 1, Len(buf) - cut))
    BY <1>3, <2>1, <2>2
  <2>. QED BY <2>3, ProcessRefused DEF Refuses
<1>4. CASE size = SectorSize /\ cut = 0 /\ key # WeakKey
  <2>1. SubSeq(buf, 1, Len(buf) - cut) = buf
    <3>1. buf \in Seq(Octet) /\ Len(buf) \in Nat
      BY <1>0 DEF IsLong, Long
    <3>2. SubSeq(buf, 1, Len(buf)) = buf
      BY <3>1, UptoEnds DEF Upto
    <3>3. Len(buf) - cut = Len(buf)
      BY <1>4, <3>1
    <3>. QED BY <3>2, <3>3
  <2>2. first + count > b.room
    BY <1>4, BaseFacts DEF Permitted
  <2>3. TooHigh(SectorSize, LePlus(b.le, first), buf)
    BY <1>0, <2>2, TooHighIs
  <2>. QED BY <1>4, <2>1, <2>3, ProcessRefused DEF Refuses
<1>. QED BY <1>1, <1>2, <1>3, <1>4

(***************************************************************************)
(* The invariant.                                                          *)
(***************************************************************************)
Mounted ==
    /\ origin \in Bases /\ alone = SealedSectors(origin)
    /\ encrypted \subseteq Numbered(origin)
    /\ disk = DiskOf(origin, encrypted)
Away == origin = Unmounted /\ disk = <<>> /\ encrypted = {}
EngineFits ==
    /\ engine.kind \in {"rest", "unit", "opened", "lanes", "product", "alpha"}
    /\ engine.kind = "unit" =>
        \E h \in UnitHosts, len \in UnitLens :
            /\ engine.key \in {Key, WeakKey} /\ engine.data = UnitData(len)
            /\ engine.out = XtsUnit(h, engine.key, UnitTweak, UnitData(len), FALSE)
    /\ engine.kind = "opened" => engine.out = Some(engine.data)
XInv == (Mounted \/ Away) /\ answer.given = answer.promised /\ EngineFits

(* The data of a unit of the runs has bytes and the length asked for. *)
LEMMA UnitDataTyped ==
    ASSUME NEW len \in Nat
    PROVE  UnitData(len) \in Seq(Octet) /\ Len(UnitData(len)) = len
<1>1. ASSUME NEW k \in 1..len PROVE 17 * ((k - 1) % 16) \in Octet
  <2>1. (k - 1) % 16 \in 0..15
    OBVIOUS
  <2>. QED BY <2>1 DEF Octet
<1>2. UnitData(len) \in [1..len -> Octet]
  BY <1>1 DEF UnitData
<1>. QED BY <1>2, RunTyped

(* The tweak of the runs is a block. *)
LEMMA TweakTyped == UnitTweak \in Block
<1>1. \h11 \in Octet
  BY DEF Octet
<1>. QED BY <1>1 DEF UnitTweak, Block

(* What encrypt of a data unit under either key returns.                   *)
UnitAnswer(key, len, out) ==
    \/ /\ key = WeakKey \/ ~UnitLen(len)
       /\ out = Refused
    \/ /\ key = Key /\ UnitLen(len)
       /\ \E o : out = Some(o) /\ XtsMirrors(Key, UnitTweak, UnitData(len), FALSE, o)

(* A unit is refused for the weak key and for a length that is not         *)
(* permitted, and otherwise encrypted to the known answer of its length.   *)
LEMMA UnitAnswers ==
    ASSUME NEW h, NEW key \in {Key, WeakKey}, NEW len \in Nat
    PROVE  UnitAnswer(key, len, XtsUnit(h, key, UnitTweak, UnitData(len), FALSE))
<1>1. PICK p \in Seq(Octet) : p = UnitData(len) /\ Len(p) = len
  BY UnitDataTyped
<1>2. CASE key = WeakKey \/ ~UnitLen(len)
  <2>1. split_keys(key, len) = Refused
    BY <1>2, WeakKeyIs, SplitsNot DEF UnitLen
  <2>2. XtsUnit(h, key, UnitTweak, p, FALSE) = Refused
    BY <1>1, <2>1, XtsRefused
  <2>. QED BY <1>1, <1>2, <2>2 DEF UnitAnswer
<1>3. CASE key # WeakKey /\ UnitLen(len)
  <2>1. PICK o : XtsMirrors(Key, UnitTweak, p, FALSE, o)
    <3>1. KeyBytes(Key)
      BY KeyTyped
    <3>. QED BY <1>1, <1>3, <3>1, KeyApart, TweakTyped, XtsUnits
  <2>2. XtsUnit(h, Key, UnitTweak, p, FALSE) = Some(o)
    BY <2>1 DEF XtsMirrors
  <2>. QED BY <1>1, <1>3, <2>1, <2>2 DEF UnitAnswer
<1>. QED BY <1>2, <1>3

(* An answer is not a refusal. *)
LEMMA SomeIs ==
    ASSUME NEW v
    PROVE  Some(v) # Refused /\ Some(v)[1] = v
  BY DEF Some, Refused

(* The initial states satisfy the invariant. *)
LEMMA InvInit == XInit => XInv
  BY DEF XInit, Unused, Resting, XInv, Away, EngineFits

(* One run of sectors.                                                     *)
LEMMA SectorsStep ==
    ASSUME XInv, NEW h, NEW key \in {Key, WeakKey}, NEW size \in BadSizes \cup {SectorSize},
           NEW first \in Indices, NEW count \in Nat, NEW cut \in 0..1,
           Sectors(h, key, size, first, count, cut)
    PROVE  XInv'
<1>. DEFINE run == first..(first + count - 1)
            buf == FlattenSeq([i \in 1..count |-> disk[first + i - 1]])
            decrypting == run # {} /\ run \subseteq encrypted
            promised == key # WeakKey /\ size = SectorSize /\ cut = 0 /\ first + count <= origin.room
            res == process_sectors(h, key, size, LePlus(origin.le, first), SubSeq(buf, 1, Len(buf) - cut), decrypting)
            after(out) == IF out = Refused THEN disk
                          ELSE [i \in Indices |-> IF i \in run THEN SubSeq(out[1], (i - first) * size + 1, (i - first + 1) * size)
                                                  ELSE disk[i]]
<1>1. /\ run \subseteq Indices /\ first < origin.room
      /\ run \subseteq encrypted \/ run \cap encrypted = {}
      /\ cut <= Len(buf)
      /\ disk' = after(res)
      /\ answer' = [given |-> IF res = Refused THEN "refused" ELSE "done",
                    promised |-> IF promised THEN "done" ELSE "refused"]
      /\ encrypted' = IF ~promised THEN encrypted
                      ELSE IF decrypting THEN encrypted \ run ELSE encrypted \cup run
      /\ UNCHANGED <<origin, alone, engine>>
  BY DEF Sectors
<1>. HIDE DEF res, after, buf, promised, decrypting, run
<1>2. first \in Nat
  BY IndexFacts
<1>3. Mounted
  <2>1. Away => origin.room = 0
    BY DEF Away, Unmounted
  <2>. QED BY <1>1, <1>2, <2>1 DEF XInv
<1>4. PICK b \in Bases : b = origin
  BY <1>3 DEF Mounted
<1>5. first < b.room /\ b.room \in Nat /\ run = RunOf(first, count)
  BY <1>1, <1>4, BaseFacts DEF run, RunOf
<1>6. encrypted \subseteq Numbered(b) /\ disk = DiskOf(b, encrypted) /\ alone = SealedSectors(b)
  BY <1>3, <1>4 DEF Mounted
<1>7. EngineFits'
  BY <1>1 DEF XInv, EngineFits
<1>8. PICK d \in BOOLEAN : d = decrypting
  BY DEF decrypting
<1>9. CASE promised
  <2>1. key = Key /\ size = SectorSize /\ cut = 0 /\ first + count <= b.room
    BY <1>4, <1>9 DEF promised
  <2>2. RunFits(b, first, count)
    BY <1>1, <1>2, <1>5, <2>1 DEF RunFits
  <2>3. [i \in 1..count |-> disk[first + i - 1]] = InRun(b, d, first, count)
    <3>1. ASSUME NEW i \in 1..count
          PROVE  disk[first + i - 1] = IF d THEN SealedSectors(b)[first + i - 1] ELSE PlainSector(first + i - 1)
      <4>1. PICK k : k = first + i - 1 /\ k \in run /\ k \in Indices
        BY <1>1, <1>2 DEF run
      <4>2. disk[k] = IF k \in encrypted THEN SealedSectors(b)[k] ELSE PlainSector(k)
        BY <1>6, <4>1 DEF DiskOf
      <4>3. d <=> k \in encrypted
        BY <1>1, <1>8, <4>1 DEF decrypting
      <4>. QED BY <4>1, <4>2, <4>3
    <3>. QED BY <3>1 DEF InRun
  <2>4. buf = FlattenSeq(InRun(b, d, first, count))
    BY <2>3 DEF buf
  <2>5. PICK e \in BOOLEAN : e = ~d
    OBVIOUS
  <2>6. PICK outs \in [1..count -> Sector] : outs = InRun(b, e, first, count)
    BY <2>2, InRunTyped
  <2>7. process_sectors(h, Key, SectorSize, LePlus(b.le, first), buf, d) = Some(FlattenSeq(outs))
    <3>1. process_sectors(h, Key, SectorSize, LePlus(b.le, first), buf, d) = Some(FlattenSeq(InRun(b, ~d, first, count)))
      <4>1. Begins(b, first)
        BY <1>5 DEF Begins
      <4>2. RunAnswer(h, b, first, count, d, buf)
        BY <2>2, <2>4, <4>1, RunDone
      <4>. QED BY <4>2 DEF RunAnswer
    <3>. QED BY <2>5, <2>6, <3>1
  <2>8. SubSeq(buf, 1, Len(buf) - cut) = buf
    <3>1. PICK secs \in [1..count -> Sector] : secs = InRun(b, d, first, count)
      BY <2>2, InRunTyped
    <3>2. IsLong(buf, Octet, SectorSize, count)
      BY <2>4, <3>1, Run
    <3>3. buf \in Seq(Octet) /\ Len(buf) \in Nat
      BY <3>2 DEF IsLong, Long
    <3>4. SubSeq(buf, 1, Len(buf)) = buf
      BY <3>3, UptoEnds DEF Upto
    <3>5. Len(buf) - cut = Len(buf)
      BY <2>1, <3>3
    <3>. QED BY <3>4, <3>5
  <2>9. res = Some(FlattenSeq(outs))
    BY <1>4, <1>8, <2>1, <2>7, <2>8 DEF res
  <2>10. res # Refused /\ res[1] = FlattenSeq(outs)
    BY <2>9, SomeIs
  <2>11. answer'.given = answer'.promised
    BY <1>1, <1>9, <2>10
  <2>12. encrypted' = (IF d THEN encrypted \ run ELSE encrypted \cup run)
    BY <1>1, <1>8, <1>9
  <2>13. encrypted' \subseteq Numbered(b)
    <3>1. run \subseteq Numbered(b)
      BY <1>1, <1>2, <1>5, <2>1 DEF Numbered, run
    <3>. QED BY <1>6, <2>12, <3>1
  <2>14. ASSUME NEW n \in Indices
         PROVE  disk'[n] = IF n \in encrypted' THEN SealedSectors(b)[n] ELSE PlainSector(n)
    <3>1. disk' = [i \in Indices |-> IF i \in run THEN SubSeq(res[1], (i - first) * size + 1, (i - first + 1) * size)
                                     ELSE disk[i]]
      BY <1>1, <2>10 DEF after
    <3>2. CASE n \in run
      <4>1. PICK i \in 1..count : i = n - first + 1 /\ i - 1 = n - first /\ n = first + i - 1 /\ (i - 1) + 1 = n - first + 1
        BY <1>2, <3>2 DEF run
      <4>2. SubSeq(FlattenSeq(outs), (i - 1) * SectorSize + 1, ((i - 1) + 1) * SectorSize) = outs[i]
        BY SectorHere
      <4>3. disk'[n] = SubSeq(FlattenSeq(outs), (n - first) * SectorSize + 1, (n - first + 1) * SectorSize)
        BY <2>1, <2>10, <3>1, <3>2
      <4>4. disk'[n] = outs[i]
        BY <4>1, <4>2, <4>3
      <4>5. outs[i] = (IF e THEN SealedSectors(b)[n] ELSE PlainSector(n))
        BY <2>6, <4>1 DEF InRun
      <4>6. n \in encrypted' <=> ~d
        BY <2>12, <3>2
      <4>. QED BY <2>5, <4>4, <4>5, <4>6
    <3>3. CASE n \notin run
      <4>1. disk'[n] = disk[n]
        BY <3>1, <3>3
      <4>2. disk[n] = IF n \in encrypted THEN SealedSectors(b)[n] ELSE PlainSector(n)
        BY <1>6 DEF DiskOf
      <4>3. n \in encrypted' <=> n \in encrypted
        BY <2>12, <3>3
      <4>. QED BY <4>1, <4>2, <4>3
    <3>. QED BY <3>2, <3>3
  <2>15. disk' = DiskOf(b, encrypted')
    <3>1. disk' = [i \in Indices |-> IF i \in run THEN SubSeq(res[1], (i - first) * size + 1, (i - first + 1) * size)
                                     ELSE disk[i]]
      BY <1>1, <2>10 DEF after
    <3>2. disk' = [n \in Indices |-> disk'[n]]
      BY <3>1
    <3>. QED BY <2>14, <3>2 DEF DiskOf
  <2>16. Mounted'
    BY <1>1, <1>4, <1>6, <2>13, <2>15 DEF Mounted
  <2>. QED BY <1>7, <2>11, <2>16 DEF XInv
<1>10. CASE ~promised
  <2>1. ~Permitted(b, key, size, first, count, cut)
    BY <1>4, <1>10 DEF promised, Permitted
  <2>2. IsLong(buf, Octet, SectorSize, count)
    <3>1. ASSUME NEW i \in 1..count PROVE disk[first + i - 1] \in Sector
      <4>1. PICK k : k = first + i - 1 /\ k \in Indices /\ k \in Nat
        BY <1>1, <1>2 DEF run
      <4>2. disk[k] = IF k \in encrypted THEN SealedSectors(b)[k] ELSE PlainSector(k)
        BY <1>6, <4>1 DEF DiskOf
      <4>3. k \in encrypted => k < b.room
        BY <1>6 DEF Numbered
      <4>4. k \in encrypted => SealedSectors(b)[k] \in Sector
        BY <4>1, <4>3, SealedIs DEF SealedSector
      <4>5. PlainSector(k) \in Sector
        BY <4>1, PlainTyped
      <4>. QED BY <4>1, <4>2, <4>4, <4>5
    <3>2. PICK secs : secs = [i \in 1..count |-> disk[first + i - 1]]
      OBVIOUS
    <3>3. secs \in [1..count -> Sector]
      BY <3>1, <3>2
    <3>. QED BY <3>2, <3>3, Run DEF buf
  <2>3. process_sectors(h, key, size, LePlus(b.le, first), SubSeq(buf, 1, Len(buf) - cut), d) = Refused
    <3>1. RunOfBytes(b, first, count, buf, cut)
      BY <1>1, <1>5, <2>2 DEF RunOfBytes, Begins
    <3>2. Refuses(h, b, key, size, first, buf, cut, d)
      BY <1>2, <2>1, <3>1, RunRefused
    <3>. QED BY <3>2 DEF Refuses
  <2>4. res = Refused
    BY <1>4, <1>8, <2>3 DEF res
  <2>5. disk' = disk /\ encrypted' = encrypted /\ answer'.given = answer'.promised
    BY <1>1, <1>10, <2>4 DEF after
  <2>6. Mounted'
    BY <1>1, <1>3, <2>5 DEF Mounted
  <2>. QED BY <1>7, <2>5, <2>6 DEF XInv
<1>. QED BY <1>9, <1>10

(* A disk that is mounted holds plain sectors. *)
LEMMA MountStep ==
    ASSUME XInv, NEW b \in Bases, Mount(b)
    PROVE  XInv'
<1>1. origin = Unmounted /\ engine = Resting
  BY DEF Mount, Unused
<1>2. Away
  <2>1. Mounted => b \in Bases /\ origin.room \in Nat \ {0}
    BY BaseFacts DEF Mounted
  <2>2. origin.room = 0
    BY <1>1 DEF Unmounted
  <2>. QED BY <2>1, <2>2 DEF XInv
<1>3. /\ origin' = b /\ disk' = [i \in Indices |-> PlainSector(i)] /\ alone' = SealedSectors(b)
      /\ encrypted' = {} /\ UNCHANGED <<answer, engine>>
  BY <1>2 DEF Mount, Away
<1>4. disk' = DiskOf(b, {})
  BY <1>3 DEF DiskOf
<1>5. Mounted'
  BY <1>3, <1>4 DEF Mounted
<1>6. EngineFits'
  BY <1>3 DEF XInv, EngineFits
<1>. QED BY <1>3, <1>5, <1>6 DEF XInv

(* A unit encrypted is the engine's only state. *)
LEMMA EncryptUnitStep ==
    ASSUME XInv, NEW h \in UnitHosts, NEW key \in {Key, WeakKey}, NEW len \in UnitLens, EncryptUnit(h, key, len)
    PROVE  XInv'
<1>1. PICK u : u = XtsUnit(h, key, UnitTweak, UnitData(len), FALSE)
  OBVIOUS
<1>2. engine' = [kind |-> "unit", key |-> key, data |-> UnitData(len), out |-> u]
  BY <1>1 DEF EncryptUnit
<1>3. UNCHANGED <<origin, disk, alone, encrypted, answer>>
  BY DEF EncryptUnit
<1>4. engine'.kind = "unit" /\ engine'.key = key /\ engine'.data = UnitData(len) /\ engine'.out = u
  BY <1>2
<1>5. EngineFits'
  BY <1>1, <1>4 DEF EngineFits
<1>. QED BY <1>3, <1>5 DEF XInv, Mounted, Away

(* An engine of a unit holds what encryption of it returned. *)
LEMMA UnitIs ==
    ASSUME EngineFits, engine.kind = "unit"
    PROVE  \E len \in UnitLens : /\ len \in Nat /\ engine.key \in {Key, WeakKey} /\ engine.data = UnitData(len)
                                 /\ UnitAnswer(engine.key, len, engine.out)
<1>1. PICK h \in UnitHosts, len \in UnitLens :
            /\ engine.key \in {Key, WeakKey} /\ engine.data = UnitData(len)
            /\ engine.out = XtsUnit(h, engine.key, UnitTweak, UnitData(len), FALSE)
  BY DEF EngineFits
<1>2. len \in Nat
  BY XtsAssumption
<1>3. UnitAnswer(engine.key, len, XtsUnit(h, engine.key, UnitTweak, UnitData(len), FALSE))
  BY <1>1, <1>2, UnitAnswers
<1>. QED BY <1>1, <1>2, <1>3

(* Decryption of the unit, on any host, gives the data that was encrypted. *)
LEMMA DecryptUnitStep ==
    ASSUME XInv, NEW h \in UnitHosts, DecryptUnit(h)
    PROVE  XInv'
<1>1. engine.kind = "unit" /\ engine.out # Refused
  BY DEF DecryptUnit
<1>2. PICK len \in UnitLens : /\ len \in Nat /\ engine.key \in {Key, WeakKey} /\ engine.data = UnitData(len)
                              /\ UnitAnswer(engine.key, len, engine.out)
  BY <1>1, UnitIs DEF XInv
<1>3. PICK o : engine.key = Key /\ engine.out = Some(o) /\ XtsMirrors(Key, UnitTweak, UnitData(len), FALSE, o)
  BY <1>1, <1>2 DEF UnitAnswer
<1>4. engine.out[1] = o
  BY <1>3, SomeIs
<1>5. PICK u : u = XtsUnit(h, engine.key, UnitTweak, engine.out[1], TRUE)
  OBVIOUS
<1>6. u = Some(UnitData(len))
  <2>1. XtsMirrors(Key, UnitTweak, o, TRUE, UnitData(len))
    BY <1>2, <1>3, UnitDataTyped, MirrorsBack
  <2>2. XtsUnit(h, Key, UnitTweak, o, TRUE) = Some(UnitData(len))
    BY <2>1 DEF XtsMirrors
  <2>. QED BY <1>3, <1>4, <1>5, <2>2
<1>7. engine' = [kind |-> "opened", key |-> engine.key, data |-> engine.data, sealed |-> engine.out[1], out |-> u]
  BY <1>5 DEF DecryptUnit
<1>8. UNCHANGED <<origin, disk, alone, encrypted, answer>>
  BY DEF DecryptUnit
<1>9. engine'.kind = "opened" /\ engine'.data = engine.data /\ engine'.out = u
  BY <1>7
<1>10. EngineFits'
  BY <1>2, <1>6, <1>9 DEF EngineFits
<1>. QED BY <1>8, <1>10 DEF XInv, Mounted, Away

(* The other engines leave the sectors alone.                              *)
LEMMA EngineStep ==
    ASSUME XInv, UNCHANGED <<origin, disk, alone, encrypted, answer>>,
           engine'.kind \in {"lanes", "product", "alpha"}
    PROVE  XInv'
<1>1. EngineFits'
  BY DEF EngineFits
<1>. QED BY <1>1 DEF XInv, Mounted, Away

(* Every step keeps the invariant. *)
LEMMA InvStep == XInv /\ [XNext]_xvars => XInv'
<1>. SUFFICES ASSUME XInv, [XNext]_xvars PROVE XInv'
  OBVIOUS
<1>1. CASE \E b \in Bases : Mount(b)
  BY <1>1, MountStep
<1>2. ASSUME NEW h \in DiskHosts, NEW first \in Indices, NEW count \in 0..SectorCount,
             Sectors(h, Key, SectorSize, first, count, 0)
      PROVE  XInv'
  <2>1. count \in Nat /\ 0 \in 0..1 /\ Key \in {Key, WeakKey} /\ SectorSize \in BadSizes \cup {SectorSize}
    BY IndexFacts
  <2>. QED BY <1>2, <2>1, SectorsStep
<1>3. ASSUME NEW h \in DiskHosts, NEW first \in Indices, NEW count \in 0..SectorCount,
             NEW size \in BadSizes \cup {SectorSize}, NEW cut \in 0..1, NEW key \in {Key, WeakKey},
             Sectors(h, key, size, first, count, cut)
      PROVE  XInv'
  <2>1. count \in Nat
    BY IndexFacts
  <2>. QED BY <1>3, <2>1, SectorsStep
<1>4. CASE \E h \in UnitHosts, key \in {Key, WeakKey}, len \in UnitLens : EncryptUnit(h, key, len)
  BY <1>4, EncryptUnitStep
<1>5. CASE \E h \in UnitHosts : DecryptUnit(h)
  BY <1>5, DecryptUnitStep
<1>6. ASSUME NEW h \in LaneHosts, NEW width \in {1, 4, 8, 16, 32}, NEW first \in LaneFirsts,
             Substitute(h, width, first)
      PROVE  XInv'
  <2>1. engine'.kind = "lanes" /\ UNCHANGED <<origin, disk, alone, encrypted, answer>>
    BY <1>6 DEF Substitute
  <2>. QED BY <2>1, EngineStep
<1>7. ASSUME NEW h \in ProductHosts, NEW a \in Blocks128, NEW b \in Blocks128, Multiply(h, a, b)
      PROVE  XInv'
  <2>1. engine'.kind = "product" /\ UNCHANGED <<origin, disk, alone, encrypted, answer>>
    BY <1>7 DEF Multiply
  <2>. QED BY <2>1, EngineStep
<1>8. ASSUME NEW t \in Blocks128, DoubleTweak(t)
      PROVE  XInv'
  <2>1. engine'.kind = "alpha" /\ UNCHANGED <<origin, disk, alone, encrypted, answer>>
    BY <1>8 DEF DoubleTweak
  <2>. QED BY <2>1, EngineStep
<1>9. CASE UNCHANGED xvars
  BY <1>9 DEF xvars, XInv, Mounted, Away, EngineFits
<1>. QED BY <1>1, <1>2, <1>3, <1>4, <1>5, <1>6, <1>7, <1>8, <1>9 DEF XNext

(* What the invariant says of the sectors. *)
LEMMA DiskExact ==
    ASSUME XInv
    PROVE  \A i \in DOMAIN disk : disk[i] = IF i \in encrypted THEN alone[i] ELSE PlainSector(i)
<1>1. CASE Mounted
  BY <1>1 DEF Mounted, DiskOf
<1>2. CASE Away
  BY <1>2 DEF Away
<1>. QED BY <1>1, <1>2 DEF XInv

(* What the invariant says of a unit. *)
LEMMA UnitExact ==
    ASSUME XInv, engine.kind = "unit"
    PROVE  /\ (engine.out = Refused) = (engine.key = WeakKey \/ Len(engine.data) \notin BlockLen..MAX_LEN)
           /\ engine.out # Refused =>
                /\ Len(engine.out[1]) = Len(engine.data)
                /\ Len(engine.data) \in DOMAIN KnownUnits => engine.out[1] = KnownUnits[Len(engine.data)]
<1>1. PICK len \in UnitLens : /\ len \in Nat /\ engine.key \in {Key, WeakKey} /\ engine.data = UnitData(len)
                              /\ UnitAnswer(engine.key, len, engine.out)
  BY UnitIs DEF XInv
<1>2. Len(engine.data) = len
  BY <1>1, UnitDataTyped
<1>3. CASE (engine.key = WeakKey \/ ~UnitLen(len)) /\ engine.out = Refused
  BY <1>2, <1>3 DEF UnitLen
<1>4. CASE /\ engine.key = Key /\ UnitLen(len)
           /\ \E o : engine.out = Some(o) /\ XtsMirrors(Key, UnitTweak, UnitData(len), FALSE, o)
  <2>1. PICK o : engine.out = Some(o) /\ XtsMirrors(Key, UnitTweak, UnitData(len), FALSE, o)
    BY <1>4
  <2>2. engine.out # Refused /\ engine.out[1] = o
    BY <2>1, SomeIs
  <2>3. engine.key # WeakKey /\ len \in BlockLen..MAX_LEN
    BY <1>4, WeakKeyIs DEF UnitLen
  <2>4. Len(o) = len
    BY <1>1, <2>1, UnitDataTyped DEF XtsMirrors
  <2>5. ASSUME len \in DOMAIN KnownUnits PROVE o = KnownUnits[len]
    <3>1. len <= MAX_LEN
      BY <1>1, <2>3, XtsAssumption DEF MAX_LEN, BlockLen
    <3>2. XtsUnit(Portable, Key, UnitTweak, UnitData(len), FALSE) = Some(KnownUnits[len])
      BY <2>5, <3>1, KnownAnswers
    <3>3. XtsUnit(Portable, Key, UnitTweak, UnitData(len), FALSE) = Some(o)
      BY <2>1 DEF XtsMirrors
    <3>4. Some(o) = Some(KnownUnits[len])
      BY <3>2, <3>3
    <3>5. PICK v : v = KnownUnits[len]
      OBVIOUS
    <3>6. Some(o)[1] = o /\ Some(v)[1] = v
      BY SomeIs
    <3>. QED BY <3>4, <3>5, <3>6
  <2>. QED BY <1>2, <2>2, <2>3, <2>4, <2>5
<1>. QED BY <1>1, <1>3, <1>4 DEF UnitAnswer

(* The invariant is strong enough. *)
LEMMA InvExact == XInv => XtsExact
<1>. SUFFICES ASSUME XInv PROVE XtsExact
  OBVIOUS
<1>1. engine.kind = "opened" => engine.out = Some(engine.data)
  BY DEF XInv, EngineFits
<1>2. answer.given = answer.promised
  BY DEF XInv
<1>. QED BY <1>1, <1>2, DiskExact, UnitExact DEF XtsExact

(* Every state of every behaviour is exact: a sector of the disk holds     *)
(* what encryption of that sector alone under its own number gives, or its *)
(* plaintext; every answer is the one promised; a unit is refused exactly  *)
(* for a weak key or a length that is not permitted, and else keeps its    *)
(* length and equals the known answer of its length.                       *)
THEOREM XtsIsExact == XSpec => []XtsExact
<1>. QED BY InvInit, InvStep, InvExact, PTL DEF XSpec
=============================================================================
