------------------------------- MODULE Sm4Cbc -------------------------------
(***************************************************************************)
(* SM4-CBC with PKCS#7 padding: the single-shot functions of mode_cbc.rs   *)
(* and the streaming encryptor and decryptor of cbc_streaming.rs.  The     *)
(* cipher under the key is any permutation of the blocks.                  *)
(***************************************************************************)
EXTENDS Naturals, SequencesExt

CONSTANTS
    BS,      \* BLOCK_SIZE
    Bytes,   \* byte values
    Xor(_, _), \* the exclusive or of two of them
    E,       \* encrypt_block under the stream's key
    IV,
    Batch,   \* SIMD_BATCH; 0 without the sm4-bitsliced-simd feature
    None

Blocks == [1..BS -> Bytes]

ASSUME CbcAssumption ==
    /\ BS \in Nat \ {0}
    /\ 1..BS \subseteq Bytes
    /\ Batch \in Nat
    /\ IV \in Blocks
    /\ \A a, b \in Bytes : Xor(a, b) \in Bytes /\ Xor(Xor(a, b), b) = a
    /\ E \in [Blocks -> Blocks]
    /\ \A a, b \in Blocks : E[a] = E[b] => a = b
    /\ \A c \in Blocks : \E b \in Blocks : E[b] = c
    /\ None \notin Seq(Bytes) \cup Nat

(* decrypt_block. *)
D == [c \in Blocks |-> CHOOSE b \in Blocks : E[b] = c]

XorBlock(a, b) == [k \in 1..BS |-> Xor(a[k], b[k])]

(* The whole blocks of a byte sequence, and the bytes after them. *)
Whole(s) == [k \in 1..(Len(s) \div BS) |-> SubSeq(s, (k - 1) * BS + 1, k * BS)]
Partial(s) == SubSeq(s, (Len(s) \div BS) * BS + 1, Len(s))

-----------------------------------------------------------------------------
(* Single shot. *)

Pad(m) == LET n == BS - (Len(m) % BS) IN m \o [k \in 1..n |-> n]

Encrypt(m) ==
    LET p == Whole(Pad(m))
        c[k \in 0..Len(p)] == IF k = 0 THEN IV ELSE E[XorBlock(p[k], c[k - 1])]
    IN  FlattenSeq([k \in 1..Len(p) |-> c[k]])

(* The blocks of decrypt before the strip. *)
Unchained(ct) ==
    LET c == Whole(ct)
    IN  [k \in 1..Len(c) |-> XorBlock(D[c[k]], IF k = 1 THEN IV ELSE c[k - 1])]

(* strip_pkcs7_block: the number of message bytes in a final block. *)
Strip(b) ==
    IF b[BS] \in 1..BS /\ \A k \in BS - b[BS] + 1 .. BS : b[k] = b[BS]
    THEN BS - b[BS] ELSE None

Decrypt(ct) ==
    LET p == Unchained(ct)
    IN  IF ct = <<>> \/ Len(ct) % BS # 0 THEN None
        ELSE IF Strip(Last(p)) = None THEN None
        ELSE FlattenSeq(Front(p)) \o SubSeq(Last(p), 1, Strip(Last(p)))

-----------------------------------------------------------------------------
(* Streaming.  One record for both: an encryptor holds nothing back. *)

NewStream == [prev |-> IV, buffer |-> <<>>, output |-> <<>>, held |-> None]

(* What an update takes from its data to fill a partly filled buffer. *)
Take(s, data) ==
    IF s.buffer = <<>> THEN 0
    ELSE IF BS - Len(s.buffer) < Len(data) THEN BS - Len(s.buffer) ELSE Len(data)

EncryptOne(s, b) ==
    LET c == E[XorBlock(b, s.prev)]
    IN  [s EXCEPT !.prev = c, !.output = @ \o c]

(* Mutant: a full buffer is encrypted and not emptied. *)
StaleBufferUpdate(s, data) ==
    LET full == s.buffer \o SubSeq(data, 1, Take(s, data))
        rest == SubSeq(data, Take(s, data) + 1, Len(data))
        s1   == IF Len(full) = BS THEN [EncryptOne(s, full) EXCEPT !.buffer = full]
                                  ELSE [s EXCEPT !.buffer = full]
        s2   == FoldLeft(EncryptOne, s1, Whole(rest))
    IN  IF Partial(rest) = <<>> THEN s2 ELSE [s2 EXCEPT !.buffer = Partial(rest)]

(* Fill the buffer, drain whole blocks from the input, buffer the rest. *)
EncryptorUpdate(s, data) ==
    LET full == s.buffer \o SubSeq(data, 1, Take(s, data))
        rest == SubSeq(data, Take(s, data) + 1, Len(data))
        s1   == IF Len(full) = BS THEN [EncryptOne(s, full) EXCEPT !.buffer = <<>>]
                                  ELSE [s EXCEPT !.buffer = full]
        s2   == FoldLeft(EncryptOne, s1, Whole(rest))
    IN  IF Partial(rest) = <<>> THEN s2 ELSE [s2 EXCEPT !.buffer = Partial(rest)]

EncryptorFinalize(s) ==
    LET n == BS - Len(s.buffer)
    IN  EncryptOne(s, s.buffer \o [k \in 1..n |-> n]).output

Flushed(s) == IF s.held = None THEN s.output ELSE s.output \o s.held

(* The block held back before this one is now known not to be the last. *)
DecryptOne(s, c) ==
    [s EXCEPT !.prev = c, !.output = Flushed(s), !.held = XorBlock(D[c], s.prev)]

(* Mutant: the first block of a batch is chained to the last of the batch. *)
SelfChainedBatch(s, cs) ==
    LET p == [k \in 1..Batch |->
                XorBlock(D[cs[k]], IF k = 1 THEN cs[Batch] ELSE cs[k - 1])]
    IN  [s EXCEPT !.prev = cs[Batch], !.held = p[Batch],
                  !.output = Flushed(s) \o FlattenSeq(SubSeq(p, 1, Batch - 1))]

(* decrypt_batch: decrypt in parallel, chain, flush, hold the last back. *)
DecryptBatch(s, cs) ==
    LET p == [k \in 1..Batch |->
                XorBlock(D[cs[k]], IF k = 1 THEN s.prev ELSE cs[k - 1])]
    IN  [s EXCEPT !.prev = cs[Batch], !.held = p[Batch],
                  !.output = Flushed(s) \o FlattenSeq(SubSeq(p, 1, Batch - 1))]

(* Batches while the input lasts, then the other whole blocks one by one. *)
DecryptWhole(s, cs) ==
    LET n == IF Batch = 0 THEN 0 ELSE Len(cs) \div Batch
        batches == [k \in 1..n |-> SubSeq(cs, (k - 1) * Batch + 1, k * Batch)]
    IN  FoldLeft(DecryptOne, FoldLeft(DecryptBatch, s, batches),
                 SubSeq(cs, n * Batch + 1, Len(cs)))

DecryptorUpdate(s, data) ==
    LET full == s.buffer \o SubSeq(data, 1, Take(s, data))
        rest == SubSeq(data, Take(s, data) + 1, Len(data))
        s1   == IF Len(full) = BS THEN [DecryptOne(s, full) EXCEPT !.buffer = <<>>]
                                  ELSE [s EXCEPT !.buffer = full]
        s2   == DecryptWhole(s1, Whole(rest))
    IN  IF Partial(rest) = <<>> THEN s2 ELSE [s2 EXCEPT !.buffer = Partial(rest)]

(* Mutant: a trailing partial block is dropped, not refused. *)
LaxDecryptorFinalize(s) ==
    IF s.held = None THEN None
    ELSE IF Strip(s.held) = None THEN None
    ELSE s.output \o SubSeq(s.held, 1, Strip(s.held))

DecryptorFinalize(s) ==
    IF s.buffer # <<>> \/ s.held = None THEN None
    ELSE IF Strip(s.held) = None THEN None
    ELSE s.output \o SubSeq(s.held, 1, Strip(s.held))
=============================================================================
