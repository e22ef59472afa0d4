-------------------------------- MODULE Sm4 --------------------------------
(***************************************************************************)
(* The SM4 block cipher (sm4/cipher.rs): key schedule, rounds, and the     *)
(* batched calls that run the rounds of several blocks in lockstep.  A     *)
(* byte is a number, a 32-bit word its four bytes in big-endian order, so  *)
(* that to_be_bytes and from_be_bytes regroup and nothing more.  The byte  *)
(* substitution is looked up here; how each build computes it is modelled  *)
(* in SboxLanes.                                                           *)
(***************************************************************************)
EXTENDS Naturals, Sequences, SequencesExt

BlockLen == 16
KeyLen == 16
Rounds == 32
Octet == 0..255

(* Bit n of x, and x ^ y and x & y of two bytes, by nibbles. *)
Powers == <<1, 2, 4, 8, 16, 32, 64, 128, 256>>
Bit(x, n) == (x \div 2^n) % 2
NibbleXor == [x \in 0..15 |-> [y \in 0..15 |->
    ((x + y) % 2) + 2 * ((x \div 2 + y \div 2) % 2) + 4 * ((x \div 4 + y \div 4) % 2)
                  + 8 * ((x \div 8 + y \div 8) % 2)]]
x ^^ y == 16 * NibbleXor[x \div 16][y \div 16] + NibbleXor[x % 16][y % 16]
And(x, y) == (x + y - (x ^^ y)) \div 2

(* f(v), where v is evaluated once. *)
With(v, f(_)) == CHOOSE r \in {f(u) : u \in {v}} : TRUE

S_BOX == <<
    \hd6, \h90, \he9, \hfe, \hcc, \he1, \h3d, \hb7, \h16, \hb6, \h14, \hc2, \h28, \hfb, \h2c, \h05,
    \h2b, \h67, \h9a, \h76, \h2a, \hbe, \h04, \hc3, \haa, \h44, \h13, \h26, \h49, \h86, \h06, \h99,
    \h9c, \h42, \h50, \hf4, \h91, \hef, \h98, \h7a, \h33, \h54, \h0b, \h43, \hed, \hcf, \hac, \h62,
    \he4, \hb3, \h1c, \ha9, \hc9, \h08, \he8, \h95, \h80, \hdf, \h94, \hfa, \h75, \h8f, \h3f, \ha6,
    \h47, \h07, \ha7, \hfc, \hf3, \h73, \h17, \hba, \h83, \h59, \h3c, \h19, \he6, \h85, \h4f, \ha8,
    \h68, \h6b, \h81, \hb2, \h71, \h64, \hda, \h8b, \hf8, \heb, \h0f, \h4b, \h70, \h56, \h9d, \h35,
    \h1e, \h24, \h0e, \h5e, \h63, \h58, \hd1, \ha2, \h25, \h22, \h7c, \h3b, \h01, \h21, \h78, \h87,
    \hd4, \h00, \h46, \h57, \h9f, \hd3, \h27, \h52, \h4c, \h36, \h02, \he7, \ha0, \hc4, \hc8, \h9e,
    \hea, \hbf, \h8a, \hd2, \h40, \hc7, \h38, \hb5, \ha3, \hf7, \hf2, \hce, \hf9, \h61, \h15, \ha1,
    \he0, \hae, \h5d, \ha4, \h9b, \h34, \h1a, \h55, \had, \h93, \h32, \h30, \hf5, \h8c, \hb1, \he3,
    \h1d, \hf6, \he2, \h2e, \h82, \h66, \hca, \h60, \hc0, \h29, \h23, \hab, \h0d, \h53, \h4e, \h6f,
    \hd5, \hdb, \h37, \h45, \hde, \hfd, \h8e, \h2f, \h03, \hff, \h6a, \h72, \h6d, \h6c, \h5b, \h51,
    \h8d, \h1b, \haf, \h92, \hbb, \hdd, \hbc, \h7f, \h11, \hd9, \h5c, \h41, \h1f, \h10, \h5a, \hd8,
    \h0a, \hc1, \h31, \h88, \ha5, \hcd, \h7b, \hbd, \h2d, \h74, \hd0, \h12, \hb8, \he5, \hb4, \hb0,
    \h89, \h69, \h97, \h4a, \h0c, \h96, \h77, \h7e, \h65, \hb9, \hf1, \h09, \hc5, \h6e, \hc6, \h84,
    \h18, \hf0, \h7d, \hec, \h3a, \hdc, \h4d, \h20, \h79, \hee, \h5f, \h3e, \hd7, \hcb, \h39, \h48 >>

FK == << <<\ha3, \hb1, \hba, \hc6>>, <<\h56, \haa, \h33, \h50>>,
         <<\h67, \h7d, \h91, \h97>>, <<\hb2, \h70, \h22, \hdc>> >>
CK == [i \in 1..Rounds |-> [j \in 1..4 |-> ((4 * (i - 1) + (j - 1)) * 7) % 256]]

(* Byte i of rotate_left of a word by 8 * bytes + bits. *)
Rotated(w, bytes, bits, i) ==
    LET byte(k) == w[((k + bytes) % 4) + 1]
    IN  ((byte(i - 1) * Powers[bits + 1]) % 256) + (byte(i) \div Powers[9 - bits])

tau(w) == [i \in 1..4 |-> S_BOX[w[i] + 1]]
(* Byte i of the two linear transforms. *)
l_round(b, i) == ((b[i] ^^ Rotated(b, 0, 2, i)) ^^ Rotated(b, 1, 2, i))
                 ^^ (Rotated(b, 2, 2, i) ^^ Rotated(b, 3, 0, i))
l_prime(b, i) == b[i] ^^ (Rotated(b, 1, 5, i) ^^ Rotated(b, 2, 7, i))

WordXor(u, w) == <<u[1] ^^ w[1], u[2] ^^ w[2], u[3] ^^ w[3], u[4] ^^ w[4]>>
Words(bytes) == [w \in 1..(Len(bytes) \div 4) |-> SubSeq(bytes, 4 * w - 3, 4 * w)]
RoundInput(x, rki) == WordXor(WordXor(x[2], x[3]), WordXor(x[4], rki))
(* The window moves on by one word. *)
NextWindow(x, word) == <<x[2], x[3], x[4], WordXor(x[1], word)>>
Spread(b) == [i \in 1..4 |-> l_round(b, i)]
SpreadKey(b) == [i \in 1..4 |-> l_prime(b, i)]
t_round(x, rki) == With(tau(RoundInput(x, rki)), LAMBDA s : NextWindow(x, Spread(s)))
t_prime(x, rki) == With(tau(RoundInput(x, rki)), LAMBDA s : NextWindow(x, SpreadKey(s)))

(* Sm4Cipher::new: each round key is the newest word of the window. *)
RoundKeys(key) ==
    LET mk == Words(key)
        windows[i \in 0..Rounds] ==
            IF i = 0 THEN << [w \in 1..4 |-> WordXor(mk[w], FK[w])] >>
            ELSE With(windows[i - 1], LAMBDA ws : Append(ws, t_prime(ws[i], CK[i])))
    IN  With(windows[Rounds], LAMBDA ws : [i \in 1..Rounds |-> ws[i + 1][4]])

KeyAt(rk, reverse, i) == IF reverse THEN rk[Rounds + 1 - i] ELSE rk[i]
Unwound(x) == x[4] \o x[3] \o x[2] \o x[1]

crypt(block, rk, reverse) ==
    LET window[i \in 0..Rounds] ==
            IF i = 0 THEN With(block, Words)
            ELSE With(window[i - 1], LAMBDA x : t_round(x, KeyAt(rk, reverse, i)))
    IN  With(window[Rounds], Unwound)

(* crypt_batch_x8, crypt_batch_x4: the round inputs of all blocks are one  *)
(* register, substituted in one pass.                                      *)
Packed(xs, rki) == FlattenSeq([b \in DOMAIN xs |-> RoundInput(xs[b], rki)])
Substituted(t_bytes) == [l \in DOMAIN t_bytes |-> S_BOX[t_bytes[l] + 1]]
BatchRound(xs, rki) ==
    With(With(Packed(xs, rki), Substituted), LAMBDA s_bytes :
        [b \in DOMAIN xs |-> NextWindow(xs[b], Spread(SubSeq(s_bytes, 4 * b - 3, 4 * b)))])
crypt_batch(blocks, rk, reverse) ==
    LET windows[i \in 0..Rounds] ==
            IF i = 0 THEN [b \in DOMAIN blocks |-> Words(blocks[b])]
            ELSE With(windows[i - 1], LAMBDA xs : BatchRound(xs, KeyAt(rk, reverse, i)))
    IN  With(windows[Rounds], LAMBDA xs : [b \in DOMAIN xs |-> Unwound(xs[b])])

(* encrypt_blocks and decrypt_blocks: whole batches, then block by block.  *)
CryptBlocks(size, blocks, rk, reverse) ==
    LET whole(all) == IF size = 1 THEN 0 ELSE size * (Len(all) \div size)
        batch(all, c) == crypt_batch(SubSeq(all, size * (c - 1) + 1, size * c),
                                     rk, reverse)
        batched(all) == With([c \in 1..(whole(all) \div size) |-> batch(all, c)], FlattenSeq)
        one_by_one(all) == [b \in 1..(Len(all) - whole(all)) |->
                               crypt(all[whole(all) + b], rk, reverse)]
    IN  With(blocks, LAMBDA all : batched(all) \o one_by_one(all))
=============================================================================
