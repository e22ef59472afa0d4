---------------------------- MODULE AeadStreams ----------------------------
(***************************************************************************)
(* The incremental CTR, GCM and CCM objects of sm4/: an encryptor that     *)
(* hands out ciphertext as it is fed, and a decryptor that keeps all it is *)
(* fed until a tag verifies.  Chunks, what the transport does to the       *)
(* ciphertext and the tag, and the receiver's associated data vary.        *)
(*                                                                         *)
(* A byte is a bit.  GHASH and the CBC-MAC are injective on the blocks     *)
(* they fold, a tag is those blocks under the mask block, and a truncated  *)
(* tag is the same with a smaller length.  A C caller's short buffer costs *)
(* it bytes and changes nothing in the stream; a NULL input is refused     *)
(* before the stream is touched.                                           *)
(***************************************************************************)
EXTENDS Naturals, SequencesExt

CONSTANTS
    BS,          \* BLOCK_SIZE
    W,           \* values of inc32's counter, and of a CTR stream's
    QW,          \* values of CCM's q-byte counter and length fields
    Ks,          \* keystream block of each counter
    J0,          \* GCM's pre-counter block; a CTR stream's first counter
    Ceiling,     \* GCM_MAX_PT_BYTES
    TagLens,     \* valid tag lengths
    BadTagLen,
    Declared,    \* values of plaintext_len passed to Sm4CcmEncryptor::new
    SenderAad, ReceiverAads,
    Payloads,    \* the plaintexts fed to an encryptor are their prefixes
    MaxLen,      \* their length, a bound on the bytes offered to a stream
    None

Bits == {0, 1}

ASSUME AeadAssumption ==
    /\ BS \in Nat \ {0} /\ W \in Nat \ {0, 1} /\ QW \in Nat \ {0, 1}
    /\ J0 \in 0..W - 1
    /\ Ceiling = BS * (W - 2)
    /\ \A c \in 0..W - 1 : Ks[c] \in [1..BS -> Bits]
    /\ \A c \in 0..QW - 1 : Ks[c] \in [1..BS -> Bits]
    /\ BadTagLen \notin TagLens
    /\ Declared \subseteq Nat /\ MaxLen \in Nat
    /\ SenderAad \in Seq(Bits) /\ ReceiverAads \subseteq Seq(Bits)
    /\ \A p \in Payloads : p \in Seq(Bits) /\ Len(p) = MaxLen

VARIABLES
    mode,      \* "gcm", "ccm" or "ctr"
    sphase,    \* sender: "none", "live", "done", "refused" or "freed"
    enc,       \* the encryptor's state
    declared,  \* CCM: the committed plaintext length
    tlen,      \* CCM: the committed tag length
    fed,       \* history: plaintext the encryptor accepted
    made,      \* history: ciphertext it produced
    balked,    \* history: an update returned None
    tag,       \* the tag finalize returned, or None
    rphase,    \* receiver: "none", "live", "done", "refused" or "freed"
    dec,       \* the decryptor's state
    raad,      \* the receiver's associated data
    received,  \* history: ciphertext offered to the decryptor
    given,     \* history: the tag it was asked to verify
    released   \* plaintext it gave out, or None

svars == <<sphase, enc, declared, tlen, fed, made, balked, tag>>
rvars == <<rphase, dec, raad, received, given, released>>
avars == <<mode, svars, rvars>>

-----------------------------------------------------------------------------
Xor(a, b) == (a + b) % 2

Modulus == [gcm |-> W, ccm |-> QW, ctr |-> W]
Mask    == [gcm |-> J0, ccm |-> 0, ctr |-> None]
First   == [gcm |-> (J0 + 1) % W, ccm |-> 1, ctr |-> J0]

(* payload_ceiling. *)
PayloadCeiling == QW - 1

PadZero(s) == s \o [k \in 1..((BS - (Len(s) % BS)) % BS) |-> 0]
Whole(s) == [k \in 1..(Len(s) \div BS) |-> SubSeq(s, (k - 1) * BS + 1, k * BS)]

(* The single-shot keystream application: gctr, ccm_ctr_xor and            *)
(* apply_keystream.                                                        *)
Keystreamed(m, s) ==
    [i \in 1..Len(s) |->
       Xor(s[i], Ks[(First[m] + ((i - 1) \div BS)) % Modulus[m]][((i - 1) % BS) + 1])]

(* ghash_a_c_lens: what GHASH runs over. *)
GhashInput(aad, ct) ==
    Whole(PadZero(aad)) \o Whole(PadZero(ct)) \o <<[aad |-> Len(aad), ct |-> Len(ct)]>>

(* build_b0 and format_aad_into; the length prefix is one byte here. *)
CcmPrefix(aad, len, t) ==
    <<[adata |-> aad # <<>>, len |-> len, t |-> t]>>
      \o IF aad = <<>> THEN <<>> ELSE Whole(PadZero(<<Len(aad)>> \o aad))

CcmInput(aad, pt, t) == CcmPrefix(aad, Len(pt), t) \o Whole(PadZero(pt))

Tag(m, blocks, t) == [mask |-> <<m, Mask[m]>>, blocks |-> blocks, len |-> t]

(* The tag of mode_gcm::encrypt_with_tag_len and mode_ccm::encrypt. *)
SingleShotTag(m, aad, pt, t) ==
    Tag(m, IF m = "gcm" THEN GhashInput(aad, Keystreamed(m, pt))
                        ELSE CcmInput(aad, pt, t), t)

-----------------------------------------------------------------------------
(* GhashAcc, and the CBC-MAC state of Sm4CcmEncryptor: the blocks folded,  *)
(* and a partial block.                                                    *)
Acc(y) == [y |-> y, block |-> <<>>]

AbsorbByte(a, b) ==
    IF Len(a.block) + 1 = BS
    THEN [y |-> Append(a.y, Append(a.block, b)), block |-> <<>>]
    ELSE [a EXCEPT !.block = Append(@, b)]

AbsorbAll(a, data) == FoldLeft(AbsorbByte, a, data)

(* Mutant: a partial block runs on into what follows. *)
KeepOpen(a) == a

(* pad_to_block; mac_fold at the end of a CCM stream. *)
CloseDomain(a) ==
    IF a.block = <<>> THEN a ELSE Acc(Append(a.y, PadZero(a.block)))

GcmStart(aad) == CloseDomain(AbsorbAll(Acc(<<>>), aad))

GcmBlocks(a, alen, clen) == Append(CloseDomain(a).y, [aad |-> alen, ct |-> clen])

(* An encryptor: the next counter, the keystream left over from a partial  *)
(* block as <<counter, lane>>, and as history all keystream it has used.   *)
NewEncryptor(m, len, t) ==
    [ctr |-> First[m], left |-> <<>>, poisoned |-> FALSE, used |-> <<>>,
     acc |-> CASE m = "gcm" -> GcmStart(SenderAad)
               [] m = "ccm" -> Acc(CcmPrefix(SenderAad, len, t))
               [] m = "ctr" -> Acc(<<>>)]

KsBlock(c) == [l \in 1..BS |-> <<c, l>>]

(* The keystream an update of n bytes uses: what was left over, whole      *)
(* blocks, and the head of one more block, whose tail is left over.        *)
Draw(m, e, n) ==
    LET d     == IF Len(e.left) < n THEN Len(e.left) ELSE n
        fresh == (n - d + BS - 1) \div BS
        all   == e.left \o
                   FlattenSeq([k \in 1..fresh |-> KsBlock((e.ctr + k - 1) % Modulus[m])])
    IN  [take |-> SubSeq(all, 1, n), left |-> SubSeq(all, n + 1, Len(all)),
         ctr |-> (e.ctr + fresh) % Modulus[m]]

(* Mutant: the check is on what was fed before this chunk. *)
LateFits(m, n) ==
    CASE m = "gcm" -> Len(fed) <= Ceiling
      [] m = "ccm" -> Len(fed) <= declared
      [] m = "ctr" -> TRUE

(* Whether n more bytes stay under the ceiling, or within the commitment. *)
Fits(m, n) ==
    CASE m = "gcm" -> Len(fed) + n <= Ceiling
      [] m = "ccm" -> Len(fed) + n <= declared
      [] m = "ctr" -> TRUE

(* What can follow the bytes seen on the way through one of the texts. *)
Chunks(seen, texts) ==
    {SubSeq(p, Len(seen) + 1, n) : p \in {q \in texts : IsPrefix(seen, q)},
                                   n \in Len(seen)..MaxLen}

AInit ==
    /\ mode \in {"gcm", "ccm", "ctr"}
    /\ sphase = "none" /\ enc = None /\ declared = None /\ tlen = None
    /\ fed = <<>> /\ made = <<>> /\ balked = FALSE /\ tag = None
    /\ rphase = "none" /\ raad = None /\ dec = None
    /\ received = <<>> /\ given = None /\ released = None

(* new; Sm4CcmEncryptor::new validates its two lengths. *)
EncryptorNew(len, t) ==
    /\ sphase = "none"
    /\ IF mode = "ccm" THEN len # None /\ t # None ELSE len = None /\ t = None
    /\ IF mode = "ccm" /\ (t \notin TagLens \/ len > PayloadCeiling)
       THEN sphase' = "refused" /\ UNCHANGED <<enc, declared, tlen>>
       ELSE /\ sphase' = "live"
            /\ enc' = NewEncryptor(mode, len, t)
            /\ declared' = len /\ tlen' = t
    /\ UNCHANGED <<mode, fed, made, balked, tag, rvars>>

EncryptorUpdate(chunk) ==
    LET draw == Draw(mode, enc, Len(chunk))
        ct   == [i \in 1..Len(chunk) |->
                   Xor(chunk[i], Ks[draw.take[i][1]][draw.take[i][2]])]
    IN  /\ sphase = "live"
        /\ IF enc.poisoned \/ ~Fits(mode, Len(chunk))
           THEN /\ enc' = [enc EXCEPT !.poisoned = TRUE]
                /\ balked' = TRUE
                /\ UNCHANGED <<fed, made>>
           ELSE /\ enc' = [enc EXCEPT
                     !.ctr = draw.ctr, !.left = draw.left, !.used = @ \o draw.take,
                     !.acc = CASE mode = "gcm" -> AbsorbAll(@, ct)
                               [] mode = "ccm" -> AbsorbAll(@, chunk)
                               [] mode = "ctr" -> @]
                /\ fed' = fed \o chunk
                /\ made' = made \o ct
                /\ UNCHANGED balked
        /\ UNCHANGED <<mode, sphase, declared, tlen, tag, rvars>>

(* Mutant: a CCM stream fed less than it committed to gets its tag. *)
UnderfedFinalize(t) ==
    /\ sphase = "live"
    /\ enc' = None
    /\ IF \/ mode = "gcm" /\ t \notin TagLens
          \/ mode = "ccm" /\ enc.poisoned
       THEN sphase' = "refused" /\ UNCHANGED tag
       ELSE /\ sphase' = "done"
            /\ tag' = CASE mode = "gcm" ->
                             Tag("gcm", GcmBlocks(enc.acc, Len(SenderAad), Len(fed)), t)
                        [] mode = "ccm" -> Tag("ccm", CloseDomain(enc.acc).y, tlen)
                        [] mode = "ctr" -> None
    /\ UNCHANGED <<mode, declared, tlen, fed, made, balked, rvars>>

(* finalize, and GCM's finalize_with_tag_len(t): only CCM looks at the     *)
(* poison, and only CCM has a commitment to check.  The C calls free the   *)
(* handle either way.                                                      *)
EncryptorFinalize(t) ==
    /\ sphase = "live"
    /\ enc' = None
    /\ IF \/ mode = "gcm" /\ t \notin TagLens
          \/ mode = "ccm" /\ (enc.poisoned \/ Len(fed) # declared)
       THEN sphase' = "refused" /\ UNCHANGED tag
       ELSE /\ sphase' = "done"
            /\ tag' = CASE mode = "gcm" ->
                             Tag("gcm", GcmBlocks(enc.acc, Len(SenderAad), Len(fed)), t)
                        [] mode = "ccm" -> Tag("ccm", CloseDomain(enc.acc).y, tlen)
                        [] mode = "ctr" -> None
    /\ UNCHANGED <<mode, declared, tlen, fed, made, balked, rvars>>

EncryptorFree ==
    /\ sphase = "live"
    /\ sphase' = "freed" /\ enc' = None
    /\ UNCHANGED <<mode, declared, tlen, fed, made, balked, tag, rvars>>

-----------------------------------------------------------------------------
DecryptorCeiling == IF mode = "gcm" THEN Ceiling ELSE PayloadCeiling

(* The two objects share no state, so the receiver starts once the sender  *)
(* is through.  CTR has no authenticated receiver.                         *)
DecryptorNew(aad) ==
    /\ rphase = "none" /\ mode # "ctr" /\ sphase \in {"done", "refused", "freed"}
    /\ rphase' = "live" /\ raad' = aad
    /\ dec' = [acc |-> GcmStart(aad), buf |-> <<>>, overflowed |-> FALSE]
    /\ UNCHANGED <<mode, svars, received, given, released>>

(* Mutant: a chunk over the ceiling is dropped and forgotten. *)
ForgivingUpdate(chunk) ==
    /\ rphase = "live"
    /\ received' = received \o chunk
    /\ dec' = IF Len(dec.buf) + Len(chunk) > DecryptorCeiling THEN dec
              ELSE [dec EXCEPT !.buf = @ \o chunk, !.acc = AbsorbAll(@, chunk)]
    /\ UNCHANGED <<mode, svars, rphase, raad, given, released>>

(* Buffer the chunk; a chunk over the ceiling is dropped and latched.  The *)
(* accumulator is GCM's: CCM's decryptor only buffers.                     *)
DecryptorUpdate(chunk) ==
    /\ rphase = "live"
    /\ received' = received \o chunk
    /\ dec' = IF dec.overflowed THEN dec
              ELSE IF Len(dec.buf) + Len(chunk) > DecryptorCeiling
              THEN [dec EXCEPT !.overflowed = TRUE]
              ELSE [dec EXCEPT !.buf = @ \o chunk, !.acc = AbsorbAll(@, chunk)]
    /\ UNCHANGED <<mode, svars, rphase, raad, given, released>>

(* The tag this ciphertext should have, for a tag of t bytes. *)
Expected(t) ==
    IF mode = "gcm" THEN Tag("gcm", GcmBlocks(dec.acc, Len(raad), Len(dec.buf)), t)
    ELSE Tag("ccm", CcmInput(raad, Keystreamed("ccm", dec.buf), t), t)

(* finalize_verify: the latch, the tag's length, the tag, and only then    *)
(* the plaintext.  A C caller whose buffer is short has lost it (fits).    *)
DecryptorFinalizeVerify(g, fits) ==
    /\ rphase = "live"
    /\ given' = g
    /\ IF ~dec.overflowed /\ g.len \in TagLens /\ g = Expected(g.len)
       THEN /\ released' = IF fits THEN Keystreamed(mode, dec.buf) ELSE None
            /\ rphase' = IF fits THEN "done" ELSE "freed"
       ELSE rphase' = "refused" /\ UNCHANGED released
    /\ UNCHANGED <<mode, svars, dec, raad, received>>

DecryptorFree ==
    /\ rphase = "live"
    /\ rphase' = "freed"
    /\ UNCHANGED <<mode, svars, dec, raad, received, given, released>>

(* The transport's ciphertext, delivered as far as it likes: the sender's, *)
(* run on past its end, with at most one byte changed.                     *)
Wires ==
    LET run == made \o [k \in 1..(MaxLen - Len(made)) |-> 0]
    IN  {run} \cup {[run EXCEPT ![i] = 1 - @] : i \in 1..MaxLen}

(* The transport's tag: the sender's, cut to any length, or another. *)
OtherTag(t) == Tag(mode, <<>>, t)
Delivered ==
    {OtherTag(t) : t \in TagLens}
      \cup IF tag = None THEN {} ELSE {[tag EXCEPT !.len = t] : t \in TagLens \cup {BadTagLen}}

ANext ==
    \/ \E len \in Declared \cup {None}, t \in TagLens \cup {BadTagLen, None} :
         EncryptorNew(len, t)
    \/ \E chunk \in Chunks(fed, Payloads) : EncryptorUpdate(chunk)
    \/ \E t \in TagLens \cup {BadTagLen} : EncryptorFinalize(t)
    \/ EncryptorFree
    \/ \E aad \in ReceiverAads : DecryptorNew(aad)
    \/ \E chunk \in Chunks(received, Wires) : DecryptorUpdate(chunk)
    \/ \E g \in Delivered, fits \in BOOLEAN : DecryptorFinalizeVerify(g, fits)
    \/ DecryptorFree

ASpec == AInit /\ [][ANext]_avars

-----------------------------------------------------------------------------
(* On any chunking a stream has produced what the single-shot function     *)
(* makes of what it accepted, byte for byte, at every moment; and its tag  *)
(* is that function's, so that a CCM stream that ends short of the length  *)
(* it committed to has none ("a partial stream is never                    *)
(* tag-authenticated").                                                    *)
StreamEqualsSingleShot ==
    /\ made = Keystreamed(mode, fed)
    /\ tag # None => tag = SingleShotTag(mode, SenderAad, fed, tag.len)

(* No byte of keystream masks two bytes of a stream, and none comes from   *)
(* the block that masks the tag: the ceilings stop a stream before its     *)
(* counter comes round to the block that masks the tag.                    *)
KeystreamNeverRepeats ==
    enc # None /\ mode # "ctr" =>
        /\ \A i, j \in DOMAIN enc.used : enc.used[i] = enc.used[j] => i = j
        /\ \A i \in DOMAIN enc.used : enc.used[i][1] # Mask[mode]

(* Plaintext leaves a decryptor only if all the ciphertext it was offered, *)
(* chunks dropped at the ceiling included, is what the sender's encryptor  *)
(* produced, under the sender's associated data; CCM's tag also fixes its  *)
(* own length.                                                             *)
CommitOnVerify ==
    released # None =>
        /\ tag # None
        /\ received = made /\ raad = SenderAad
        /\ released = fed
        /\ mode = "ccm" => given.len = tlen

(* What arrives as it was sent is released, or a short buffer's fault.     *)
GenuineAccepted ==
    /\ rphase = "refused" /\ tag # None
    /\ received = made /\ raad = SenderAad
    => given # tag

(* gmcrypto_sm4_gcm_encryptor_update's header: over the ceiling "the       *)
(* encryptor is poisoned and all later calls also return GMCRYPTO_ERR".    *)
PoisonedStaysError == mode = "gcm" /\ balked => tag = None
=============================================================================
