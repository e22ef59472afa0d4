----------------------------- MODULE SboxLanes -----------------------------
(***************************************************************************)
(* The SM4 S-box without a table: the scalar gate circuit, the same        *)
(* circuit on the byte lanes of an AVX2 or NEON register, and the two GFNI *)
(* instructions (gmcrypto-core sm4/sbox_bitsliced.rs, gmcrypto-simd sm4/). *)
(* A register is the sequence of its bytes.  AVX2 has no shift of bytes,   *)
(* only of 16-bit lanes, so that a shift carries bits of a byte into its   *)
(* neighbour.                                                              *)
(***************************************************************************)
EXTENDS Sm4

(* s = first; for i in 0..n { s = step(s, i) }, sixteen turns at a time.   *)
Loop(n, step(_, _), first) ==
    LET turns(s, c) ==
            LET at[i \in 0..16] == IF i = 0 THEN s
                                   ELSE IF 16 * c + i > n THEN at[i - 1]
                                   ELSE With(at[i - 1], LAMBDA t : step(t, 16 * c + i - 1))
            IN  at[16]
        after[c \in 0..((n + 15) \div 16)] ==
            IF c = 0 THEN first ELSE With(after[c - 1], LAMBDA s : turns(s, c - 1))
    IN  after[(n + 15) \div 16]

SM4_GF_POLY == \hf5
AES_GF_POLY == \h1b
AFFINE_B == \hd3
A_FIRST_ROW == \hd3
(* A_FIRST_ROW rotated right by i. *)
A_ROWS == [i \in 0..7 |-> (A_FIRST_ROW \div 2^i) + ((A_FIRST_ROW * 2^(8 - i)) % 256)]

(* The linear scan: every entry is looked at, the matching one is kept. *)
sbox_ct(x) ==
    Loop(256, LAMBDA result, i : IF i = x THEN S_BOX[i + 1] ELSE result, 0)

-----------------------------------------------------------------------------
(* The scalar circuit. *)
OnesOdd(x) == (Bit(x, 0) + Bit(x, 1) + Bit(x, 2) + Bit(x, 3)
                + Bit(x, 4) + Bit(x, 5) + Bit(x, 6) + Bit(x, 7)) % 2
Doubled(a, poly) == ((2 * a) % 256) ^^ (IF a >= 128 THEN poly ELSE 0)

gf_mul(poly, x, y) ==
    LET step(s, i) == [r |-> IF s.b % 2 = 1 THEN s.r ^^ s.a ELSE s.r,
                       a |-> Doubled(s.a, poly), b |-> s.b \div 2]
    IN  Loop(8, step, [r |-> 0, a |-> x, b |-> y]).r

affine_a(x) ==
    LET out(i) == 2^(7 - i) * OnesOdd(And(A_ROWS[i], x))
    IN  out(0) + out(1) + out(2) + out(3) + out(4) + out(5) + out(6) + out(7)
-----------------------------------------------------------------------------
(* The circuit on registers, over the shifts of an engine. *)
Splat(v, c) == [k \in DOMAIN v |-> c]
Xors(v, w) == [k \in DOMAIN v |-> v[k] ^^ w[k]]
Ands(v, w) == [k \in DOMAIN v |-> And(v[k], w[k])]

(* _mm256_srli_epi16, _mm256_slli_epi16: byte 2j is above byte 2j - 1. *)
Srl16(v, n) == [k \in DOMAIN v |-> (v[k] \div 2^n)
                    + (IF k % 2 = 1 THEN (v[k + 1] * 2^(8 - n)) % 256 ELSE 0)]
Sll16(v, n) == [k \in DOMAIN v |-> ((v[k] * 2^n) % 256)
                    + (IF k % 2 = 0 THEN v[k - 1] \div 2^(8 - n) ELSE 0)]
(* vshrq_n_u8, vshlq_n_u8. *)
Shr8(v, n) == [k \in DOMAIN v |-> v[k] \div 2^n]
Shl8(v, n) == [k \in DOMAIN v |-> (v[k] * 2^n) % 256]

Shr(engine, v, n) == IF engine = "avx2" THEN Srl16(v, n) ELSE Shr8(v, n)
Shl(engine, v, n) == IF engine = "avx2" THEN Sll16(v, n) ELSE Shl8(v, n)
(* gf_mul's b >> 1: with AVX2, bit 7 of every byte is masked off after it. *)
Halved(engine, v) == IF engine = "avx2" THEN With(Srl16(v, 1), LAMBDA s : Ands(s, Splat(v, \h7f)))
                     ELSE Shr8(v, 1)

LanesMul(engine, x, y) ==
    LET mask(b) == [k \in DOMAIN b |-> IF b[k] % 2 = 1 THEN 255 ELSE 0]
        step(s, i) == [r |-> Xors(s.r, Ands(s.a, mask(s.b))),
                       a |-> [k \in DOMAIN s.a |-> Doubled(s.a[k], SM4_GF_POLY)],
                       b |-> Halved(engine, s.b)]
    IN  Loop(8, step, [r |-> Splat(x, 0), a |-> x, b |-> y]).r

(* Mutant: what the tree leaves above bit 0 stays. *)
EveryBit(v) == v
LowestBit(v) == Ands(v, Splat(v, 1))

(* parity: an exclusive-or tree, of which bit 0 is the result. *)
LanesParity(engine, x) ==
    LET fold(v, n) == Xors(v, Shr(engine, v, n))
    IN  With(fold(x, 4), LAMBDA p : With(fold(p, 2), LAMBDA q :
            With(fold(q, 1), LowestBit)))

LanesAffine(engine, x) ==
    LET row(i) == With(LanesParity(engine, Ands(Splat(x, A_ROWS[i]), x)),
                       LAMBDA p : Shl(engine, p, 7 - i))
        ored(out, i) == With(row(i), LAMBDA r : [k \in DOMAIN x |-> out[k] + r[k] - And(out[k], r[k])])
    IN  Loop(8, ored, Splat(x, 0))

-----------------------------------------------------------------------------
(* Both circuits invert as x^254, by the multiplication of the engine: the *)
(* squares x^2, ..., x^128, multiplied from the largest down.              *)
FieldMul(engine, x, y) == CASE engine = "scalar" -> gf_mul(SM4_GF_POLY, x, y)
                       [] engine = "aes" -> gf_mul(AES_GF_POLY, x, y)
                       [] OTHER -> LanesMul(engine, x, y)
gf_inv(engine, x) ==
    LET squares == Loop(7, LAMBDA sq, i : Append(sq, FieldMul(engine, sq[i + 1], sq[i + 1])), <<x>>)
    IN  With(squares, LAMBDA sq : Loop(6, LAMBDA acc, i : FieldMul(engine, acc, sq[7 - i]), sq[8]))

sbox_byte(x) ==
    With(affine_a(x) ^^ AFFINE_B, LAMBDA pre :
        With(gf_inv("scalar", pre), LAMBDA inv : affine_a(inv) ^^ AFFINE_B))
sbox_round(engine, x) ==
    LET b_const == Splat(x, AFFINE_B)
    IN  With(Xors(LanesAffine(engine, x), b_const), LAMBDA pre :
            With(gf_inv(engine, pre), LAMBDA inv : Xors(LanesAffine(engine, inv), b_const)))
Avx2Round(x) == sbox_round("avx2", x)
NeonRound(x) == sbox_round("neon", x)

-----------------------------------------------------------------------------
(* GFNI: rows of the matrices, the row of output bit 0 first. *)
PRE_MATRIX == <<\h4c, \h28, \h7d, \hb9, \h1a, \h22, \h50, \h5d>>
PRE_CONST == \h3e
POST_MATRIX == <<\hf3, \hab, \h34, \ha9, \h74, \ha6, \hb5, \h89>>
POST_CONST == \hd3

(* GF2P8AFFINEQB on one byte, and GF2P8AFFINEINVQB, which inverts in the   *)
(* field of AES first.                                                     *)
Gf2p8Affine(x, rows, c) ==
    LET out(i) == 2^i * OnesOdd(And(rows[i + 1], x))
    IN  (out(0) + out(1) + out(2) + out(3) + out(4) + out(5) + out(6) + out(7)) ^^ c
Gf2p8AffineInv(x, rows, c) == With(gf_inv("aes", x), LAMBDA inv : Gf2p8Affine(inv, rows, c))
GfniRound(x) ==
    [k \in DOMAIN x |-> With(Gf2p8Affine(x[k], PRE_MATRIX, PRE_CONST), LAMBDA y :
                            Gf2p8AffineInv(y, POST_MATRIX, POST_CONST))]

-----------------------------------------------------------------------------
(* What a build finds on its host (detect.rs), and what it makes of it. *)
HostKinds == [arch : {"x86_64", "aarch64", "other"}, avx2 : BOOLEAN, gfni : BOOLEAN,
              pclmulqdq : BOOLEAN, aes : BOOLEAN]
has_avx2(h) == h.arch = "x86_64" /\ h.avx2
has_gfni_avx2(h) == h.arch = "x86_64" /\ h.gfni /\ h.avx2
has_pclmulqdq(h) == h.arch = "x86_64" /\ h.pclmulqdq
has_pmull(h) == h.arch = "aarch64" /\ h.aes

ScalarLanes(v) == [k \in DOMAIN v |-> sbox_byte(v[k])]
Staged(v, width) == [k \in 1..width |-> IF k \in DOMAIN v THEN v[k] ELSE 0]
FirstLanes(v, n) == SubSeq(v, 1, n)

sbox_x32(h, v) == CASE has_gfni_avx2(h) -> GfniRound(v)
                    [] has_avx2(h) /\ ~has_gfni_avx2(h) -> Avx2Round(v)
                    [] OTHER -> ScalarLanes(v)
sbox_x16(h, v) == IF h.arch = "aarch64" THEN NeonRound(v) ELSE ScalarLanes(v)
sbox_x8(h, v) == IF has_avx2(h) THEN With(Avx2Round(Staged(v, 32)), LAMBDA out : FirstLanes(out, 8))
                 ELSE ScalarLanes(v)
sbox_x4(h, v) == CASE h.arch = "aarch64" -> With(NeonRound(Staged(v, 16)), LAMBDA out : FirstLanes(out, 4))
                   [] has_gfni_avx2(h) -> With(GfniRound(Staged(v, 16)), LAMBDA out : FirstLanes(out, 4))
                   [] OTHER -> ScalarLanes(v)
(* The S-box of one register, by its width in bytes. *)
SboxLanesOf(h, v) == CASE Len(v) = 1 -> <<sbox_ct(v[1])>>
                       [] Len(v) = 4 -> sbox_x4(h, v)
                       [] Len(v) = 8 -> sbox_x8(h, v)
                       [] Len(v) = 16 -> sbox_x16(h, v)
                       [] Len(v) = 32 -> sbox_x32(h, v)
=============================================================================
