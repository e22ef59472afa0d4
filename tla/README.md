# A TLA+ development of gmcrypto

gmcrypto is a Rust implementation of the Chinese national cryptographic
standards: SM2 (signature, encryption, key exchange), SM3, SM4 in its modes,
X.509 and the TLCP record and chain layers, with a C ABI on top.  This
directory holds TLA+ models of it, TLC configurations that check them, and proofs
that TLAPS checks, about the key exchange and its C handles, the rest of the C interface, the
records, the certificate chains, the streaming digests and ciphers, SM4 with its batches and XTS, the
key derivations and the SM2 calls down to the curve's formulas.

    tlc -workers 2 -config KxFaulty.cfg MCSm2KeyExchange.tla
    tlapm KxProofs.tla
    tlapm Sm2Proofs.tla
    tlapm DataLemmas.tla
    tlapm Sm3Proofs.tla
    tlapm CallsProofs.tla
    tlapm TlcpRecordsProofs.tla
    tlapm AeadStreamsProofs.tla
    tlapm Sm4Proofs.tla

PROJECT.json lists the runs, the definitions with the source lines they model,
the hazards with the properties that look for them, the findings and the
theorems.

## 1. Inventory

| component (under `src/crates/`) | state it keeps | operations | what is hard | correct when |
|---|---|---|---|---|
| SM2 key exchange, `gmcrypto-core/src/sm2/key_exchange.rs` | typestates `Sm2KxInitiator`, `..Waiting`, `Sm2KxResponder`, `..Waiting`: static key, peer point, Z_A, Z_B, ephemeral, key, expected S_A | `new`, `produce_ephemeral`, `confirm`, `derive_without_key_confirmation`, `respond`, `respond_without_key_confirmation`, `finish` | messages lost, replayed, swapped between sessions; the order of check and release; failure after the key exists | a key is released only on the peer's own transcript; pairing is one to one; no ephemeral is used twice |
| its C handles, `gmcrypto-c/src/lib.rs` | an allocation and, for a responder, `Fresh / Waiting / Spent` | `gmcrypto_sm2_kx_*` | calls out of order, NULL arguments, who owns the handle after an error | a caller that follows the headers never leaks, double-frees or disturbs a waiting session |
| SM4-CBC, `sm4/mode_cbc.rs`, `sm4/cbc_streaming.rs` | previous block, partial block, pending output, held-back block | `encrypt`, `decrypt`; `new`, `update`, `take_output`, `finalize` | chunk boundaries against blocks and SIMD batches; output drained early | any chunking gives the single-shot bytes; the last block waits for its padding check |
| its C handles | the above, drained on every call | `gmcrypto_sm4_cbc_{en,de}cryptor_*` | short buffers and retries | the documented room suffices |
| CTR, GCM, CCM, `sm4/{ctr,gcm,ccm}_streaming.rs`, `mode_*.rs` | counter, leftover keystream, running GHASH or CBC-MAC, lengths, poison and overflow latches, buffered ciphertext | `new`, `update`, `finalize`, `finalize_with_tag_len`, `finalize_verify` | ceilings, under- and over-feeding, truncated tags, tampering | no keystream reuse; nothing released before the tag; no tag for a partial CCM stream |
| SM3 and HMAC, `sm3.rs`, `hmac.rs`, and their C handles | chaining state, partial block, length | `update`, `finalize`, `verify` | one or two padding blocks; C `finalize` with NULL output | streaming equals one-shot; handles are freed as documented |
| TLCP records, `tlcp/record.rs` | none (the caller keeps the sequence number) | `protect_*`, `deprotect_*` | constant-time padding and MAC selection at the extremes of length | accepted iff a declarative decoder accepts |
| X.509 and TLCP chains, `x509.rs`, `tlcp/chain.rs` | none | `verify_chain`, `verify_pair` | separate loops over edges, windows, criticality; the two legs of a pair | true iff a valid path exists |
| SM2 sign, verify, encrypt, decrypt, `sm2/{sign,encrypt,decrypt}.rs` | none (an RNG) | bounded, branch-free retry loops; point and key-stream checks | exhaustion, an RNG failure on a late attempt, an all-zero key stream | a signature or ciphertext is that of the first good nonce, never of a dummy; decryption opens exactly what encryption makes |
| SM2 curve, `sm2/{point,scalar_mul,comb_table}.rs` | the comb table | complete formulas, windowed and comb multiplication | the identity and equal operands inside a ladder, lifted scalars | equal to chord and tangent |
| PBKDF2 and TLCP key schedule, `kdf.rs`, `tlcp/key_schedule.rs` | none | `pbkdf2_hmac_sm3`, `p_sm3` and three derivations | the shared scratch message, the cut last block | byte k is byte k of the definition |
| SM4-XTS, `sm4/mode_xts.rs` | none | `encrypt`, `decrypt`, `encrypt_sectors`, `decrypt_sectors` | ciphertext stealing, overflow of the sector number, all or nothing | a sector in place is the single unit; the buffer is untouched on refusal |
| SM4 block cipher and SIMD, `sm4/cipher.rs`, `sbox_bitsliced*.rs`, `gmcrypto-simd` | none | key schedule, rounds, batches of 4 and 8, five S-boxes, three GHASH multipliers | dispatch by host, bits that cross byte lanes | every back end computes the table |
| ASN.1, PEM, SEC1, SPKI, PKCS#8, certificate parsing | none | readers and writers, encrypted keys | nested readers that hand on a rest; optional elements; two forms of the same value | what decodes is canonical and re-encodes to the input, but for BOOLEANs in certificate extensions |
| the rest of the C ABI, `gmcrypto-c/src/lib.rs` | allocations | 90 functions: argument checks, the core call, `write_output`, handles | each of a dozen refusals at a different point of the call | outputs are all or nothing; a short buffer is told apart; nothing leaks |
| CI, fuzz targets, documentation | none | - | - | see section 8 |

Nothing in the library is concurrent or persistent.  What interleaves is the
callers: sessions of a protocol over a network, and calls on handles.  Components
interact by plain calls: the C layer owns Rust objects through boxes; the key
exchange uses SM3 (Z values, tags), the KDF and the bounded scalar sampler; the
streaming modes must agree with the single-shot ones; TLCP records use CBC, GCM
and HMAC.

## 2. Plan

1. Key exchange: core, abstract promise, honest liveness, C handles - **done**,
   core safety proved.
2. CBC streams and the C buffer convention - **done**, all four properties proved.
3. CTR, GCM, CCM streams - **done**, all four properties proved.
4. SM3 and HMAC streams with their C handles - **done**, both properties proved.
5. TLCP records: both suites, the constant-time surfaces, two ends and a network
   between them - **done**, all four properties proved, for both suites.
6. `verify_chain` and `verify_pair` - **done**, all three properties proved.
7. PBKDF2 and the TLCP key schedule against their definitions - **done**, proved.
8. Sampling, signing, encryption and decryption over arbitrary RNG outcomes, on a
   small curve with the code's own formulas - **done**, all three properties proved, for
   every curve.
9. XTS sectors, the SM4 cores and their back ends, the codecs on real bytes, and
   the C interface as a whole - **done**, the three properties of the C interface and that of XTS
   proved.
10. Proofs about the key exchange's C handles - **done**.

The calls that run to completion on state of their own share one run (`primitives`), as do
the C functions (`c_interface`): the modules share no variable, and one stays idle while
another works.

Theorems still worth proving: that the readers of `Der` accept exactly what its writers
write, for byte strings of any length; that the multiplication from carry-less products is that of
GHASH bit by bit.

## 3. Modules

**`Sm2KeyExchange`** is the core.  `ini` and `res` map each caller session to a
record of its typestate: phase, parameters, ephemeral, key, transcript.  One
action per method, each the whole method: `respond`, for instance, samples,
derives, computes S_B and the expected S_A and moves on, or fails at any of those
steps and leaves the session consumed with no key.  `drawn`
holds the scalars sampled so far, `tags` every confirmation tag some session has
emitted, `used` the history of `<<own ephemeral, peer point>>` that entered a
derivation.  The transport is the choice of arguments: any point, good or
malformed, to anyone at any time, and as a tag any that was emitted or a
corrupted one.  That covers loss (never delivered), duplication, reordering,
delivery to another session, and reflection.

The algebra is symbolic.  With `t = d + avf(R) r`, both sides compute the point
given by the unordered pair of halves `<<static, ephemeral>>`; this is the one
fact about the curve that is assumed.  `SM3` and the KDF are injective on what
they hash.  S_B and S_A hash the same fields under prefixes 2 and 3 and in the order of
the *roles*, as `s_tag` does.  Degenerate pairs stand for U = O and an all-zero K.

**`ConfirmedAgreement`** is the abstract promise: responders offer transcripts,
each with an ephemeral of its own; an initiator accepts only an offered one and
one per ephemeral; only an accepted one is closed.  `Sm2KeyExchange`
instantiates it with the sets of transcripts of its sessions
(`AgreementPromise`).

**`Sm2KxHonest`** adds fair, honest pairs beside the wild sessions.

**`KxHandles`** puts the C calls around the core actions: `ibox`, `rbox` are the
allocations, `state` the responder's enum, `iowns`, `rowns` what a caller that
reads the headers believes it owns.  `kx_respond` looks at the pointers, then at
the enum, and only then takes the state; `finish`, `confirm` and
`derive_unconfirmed` reclaim the box before they read any argument;
`respond_unconfirmed_with_rng` returns on a NULL callback *before* reclaiming.
Each of these orders is in the action.

**`CAbi`** is every other function of the C interface.  A function is the row of its
steps in the code's order (the pointer checks, the core call, `Box::from_raw`,
`write_output`, `Box::into_raw`), a call runs them up to one that refuses, and
what is kept of it is what the caller sees: the return code, the outputs, `*out_actual_len` and the
boxes.  `live` counts boxes by type and `held` what the headers say the caller owns.  A
panic that `ffi_guard` catches is a refusal of the core step.

**`Sm4Cbc`** holds the single-shot functions and the two `update` functions as
operators over byte sequences, for any block permutation `E`.  `Take`, `Whole`,
`Partial` follow `update`'s three parts; `DecryptBatch` is the SIMD path, with
batch size `Batch` (0 is the build without it).  **`CbcStreams`** is a stream in a
caller's hands: `made` is all the bytes the stream has produced, `missed` the
positions of those that a refused C call threw away.  **`CbcRetry`** is a caller
that retries as the section comment says.

**`AeadStreams`** is one CTR, GCM or CCM encryptor and then a decryptor.  `Draw`
is the drain / whole blocks / tail loop that all three share, giving each byte
its `<<counter, lane>>`; `AbsorbByte` and `CloseDomain` are `GhashAcc` and CCM's
MAC buffer.  GHASH and the CBC-MAC are injective on the blocks they fold, so
what the model checks is *which blocks* are folded: padding, domain boundaries,
lengths.  The counters wrap at `W` and `QW`.

**`Sm3`** is the hash as operators.  A hasher is the sequence of blocks it has
compressed, so that the compression function is free (two states are equal only for
equal blocks), the one assumption made of it; the buffer keeps the bytes of earlier blocks behind
`buffer_len`, as the array in the code does, and `Finalize` overwrites only what
the code overwrites.  `Update` has the code's three paths: top up, whole blocks, tail.
`RefHash` and `RefHmac` are the standards' definitions, padding the message as a whole.
**`DigestHandles`** is a C caller of the SM3 and HMAC handles, with NULL
pointers, which passes a handle only while the headers say it owns one (`owns`);
`box` is the allocation.

**`TlcpRecords`** has `protect_*` and `deprotect_*` of both suites as
operators, and a connection: `sent[d]` is what the caller of direction `d`
protected, `wire[d]` the records made of it, `got[d]` what the other end has
accepted.  The lengths of `sent[d]` and `got[d]` are the sequence numbers,
which the library leaves to its callers.  `MacCt` is the fixed-schedule HMAC block by block, `PadWindow` and
`CheckPadding` the constant-time padding scan, `ExtractMac` the selection, and
`DeprotectCbc` runs the MAC even over bad padding, with the fallback length of
the code.  A byte is one of `Octets`, 0 to `PadMax`.  A CBC record is the body it decrypts to and the
key for it; the network may take any run of whole blocks of any record (`Cuts`), or put the tail of
one behind the head of another under the same key (`Splices`), in which case one block decrypts to
`Junk`, any bytes at all.  The
network also chooses the type in the header.  In GCM it chooses the explicit nonce,
the ciphertext (cut anywhere) and the tag among those seen.  The key block is a
row of distinct positions, so that the carving into halves, at the code's
offsets, is part of what is checked.

**`Sm2Curve`** has the code's projective formulas, `mul_var` with its lift of the scalar and its
windows, and `mul_g` with its comb, over a small prime field; `RefAdd` and `RefMul`
are the group by chord and tangent, `Scaled` the triples that stand for an affine point.
`GroupAssumption` says what makes the constants a curve; TLC evaluates it on the small one.  **`Sm2Ops`** runs one call at a time over them: a
multiplication window by window, signing and encryption draw by draw with a source
that yields any value or fails, so that both attempts of `sign`, the four draws
of a sample and the 64 of `encrypt` (three here) are steps; verification and decryption are one step.

**`KeyDerivation`** writes PBKDF2 and P_SM3 output block by block.  HMAC is a term, and
the sum of terms is the set of those that occur an odd number of times.

**`Der`**, **`KeyCodecs`** and **`CertDer`** are the readers and writers on real bytes: lengths,
integers, OIDs encoded from their arcs, signatures, the three ciphertext forms, points,
SPKI, SEC1, PKCS #8 with and without a password, PEM, and certificates up to the
extension readers.  `Then`, `Only` and `Optional` are the code's `?`, its tests that no byte
is left, and its optional elements.  **`CodecWire`** encodes a value (certificates and
optional forms by writers of its own, since the program has none), spoils one byte on the
way or none, and decodes.

**`Sm4`** is the cipher at full width, with its table and constants, the key schedule, single
blocks and the batches of four and eight.  **`SboxLanes`** has the S-box without a table: the
linear scan, the scalar circuit, the same circuit on AVX2 registers (whose shifts carry bits
from byte to byte) and on NEON registers, the two GFNI instructions, and the dispatch by host.
**`Ghash`** is the multiplication bit by bit and from carry-less products.  **`Sm4Xts`**
puts them to work: single units with ciphertext stealing, and a disk that is encrypted and
decrypted in overlapping runs of sectors.  The instructions themselves are external.

**`CertChains`** states `verify_chain` and `verify_pair` as predicates on parsed
certificates, in a world where certificates come to be: authorities issue to those they have
`Registered`, in any shape (a careless CA bit without keyCertSign or the
reverse, an unknown critical extension, an expired window), and `Rogues` sign
what they like under anybody's Name.  `certs` is what exists, and the verifier is
shown every sequence of it.  A signature verifies under exactly one key.

`MC...` modules give constants their values; `MCCInterface` and `MCPrimitives` also put
modules side by side.  The proofs are in `KxProofs` (the exchange and its handles), `Sm2Proofs` (the
curve, the SM2 calls, the chains), `CallsProofs` (the digest handles, key derivation, the rest of
the C interface), `TlcpRecordsProofs`, `AeadStreamsProofs` and `Sm4Proofs` (CBC streams, the block cipher, XTS); `Sm3Proofs`
holds the facts about SM3 and HMAC that handles and records share, `DataLemmas` those about
division, sequences and induction.

## 4. Runs

| run | shows |
|---|---|
| `kx_faulty` | with two sessions a side, four ephemerals and parameters that agree, disagree on an identity or on the key length: both authentication properties, agreement, one-to-one pairing, single use, agreement without confirmation, the abstract promise |
| `kx_honest` | an honest pair completes with one key beside two sessions that are fed anything |
| `c_interface` | key exchange handles: ownership, the enum, and undisturbed waiting sessions under calls in any order with any pointer NULL, and still the abstract promise; every other C function with every refusal and every buffer: outputs all or nothing, a short buffer told apart from other failures and a repetition with the room asked for, boxes as the headers say |
| `cbc_streams` | both directions and both APIs, all chunkings of all inputs up to three blocks |
| `aead_streams` | the three modes up to and over their ceilings; a transport that cuts, extends or changes the ciphertext, truncates or replaces the tag, and a receiver whose associated data zero-padding would confuse |
| `primitives` | calls that run to completion, nine properties: SM3 and HMAC over every chunking of up to nine bytes; the curve formulas; signing; encryption; key derivation; codecs over a wire that alters bytes; XTS; back ends |
| `tlcp_records` | what an end accepts is a prefix of what was sent, in order and with its type; everything sent can be accepted, with any legal padding; `deprotect_cbc` opens exactly the bodies a declarative decoder opens; GCM nonces differ |
| `cert_chains` | an accepted chain is vouched for throughout; anchors are independent of one another; the leaves of an accepted pair come from one authority |
| `kx_klen`, `cbc_retry`, `aead_poison`, `digest_leak` | the findings of section 7 |

Each property has a mutant of the code in PROJECT.json that breaks it, such as one
prefix for both tags, a batch chained to itself, or a ceiling checked before the
chunk is counted.

**Bounds.**  Key exchange: two sessions a role is what replay, misdelivery and
reflection need (one victim, one other), and four ephemerals give each a draw of
its own; the proofs remove the bound.  CBC: blocks of three bytes let a buffer be topped up without
filling, batches of two blocks and nine bytes give a batch with a block before or
after it, and padding values 1 to 3 are among the bytes fed, so that ciphertext
decrypts to valid and invalid padding; the proofs remove these bounds.  AEAD: blocks of three bits, both ceilings two
blocks (six bytes), ten bytes offered, so that a stream may end under, on, one past
and far past the ceiling, where the fourth GCM block would be the tag's mask.  Two
plaintexts suffice there because keystream positions, and not only sums, are
compared.  The transport changes at most one byte of what it delivers;
the tag is injective, so more changes would be refused for the same reason, and the proofs hold
for whatever such a transport makes of streams of any length under ceilings of any size.

C interface: two boxes at a time, outputs and buffers of up to two bytes, so that a
buffer can be too short by one, exact, too long, empty or NULL, and the length cell NULL, zero or
stale.  Handles of one family at a time, since functions of two families share nothing.  The proofs
remove the bounds on boxes and lengths.

Curve: 43 elements and the prime order 37, below the field, with 6-bit scalars
and 2-bit windows, so that, as in the program, the order's double exceeds the scalars and the
lift of a scalar may need one or two additions; every point, every pair of points and every scalar
below the order is tried.  Draws 0, 1, 2 and 37 are out of range at both ends and in it.
Two plaintexts are longer than the key stream can be, so that the length check decides.  The
proofs are for every curve, order, scalar width and window.
The key stream is a few bits, so that all-zero ones and retries happen.  PBKDF2: digests of four
bytes, up to 13 bytes out and three blocks, so that a request may be empty, cut, exact or
refused; the proofs remove these bounds.  Codecs: coordinates of two bytes on that curve, and iteration counts around the code's
limit of ten million; lengths on both sides of each form's border up to 2^24 - 1; every
byte of every encoding is changed in six ways, dropped, or has one of three put before it.

SM4, its back ends and GHASH have the code's own width and constants.  The proofs remove the bounds
of XTS that follow.  XTS units are
of 0 to 145 bytes with at most nine blocks, over which a batch of eight is followed by a single block and by
a stolen one; a disk has three sectors of 64 bytes and starts at a number whose
successor carries into the next byte, or with only two numbers left.  Eight registers of
32 lanes put every byte value through the AVX2, GFNI and scalar circuits; the narrower ones carry
a spread of values, enough to see the staging and the lanes that are kept.

Digests: blocks of four bytes with a length field of two, so that a tail of up to
one byte closes in one block and one of two or three needs a second (the code's border
lies between 55 and 56 bytes of 64), nine bytes for two whole blocks and a tail, and
keys of 0, 3, 4 and 5 bytes, around the block size.  TLCP: cipher blocks of two bytes, a MAC of
two blocks as in the code, plaintexts of 0, 1 and 4 bytes (the ceiling) and one
over it, whose bytes look like padding, pad lengths up to 3 so that padding may fill a
second block, two records from the client and one from the server: enough for a replay, a swap and
a reflection.  Chains: any four certificates and chains of up to three, two root
keys of one Name (a key rollover, one of the anchors expired at time 2), an
intermediate "ca" and a foreign "ca" that is itself an anchor; four are enough
for two legs that share an intermediate or have one each.  The proofs remove these bounds for
digests, records and chains (depth up to the code's eight).

With these back ends a mutant showed that the mask after the 16-bit shift in
`avx2.rs`'s `gf_mul` does not change the result, since only the lowest bit of each byte is looked at and what
crosses over never reaches it within eight steps; the mask in `parity` does, and without it the lanes are wrong.

**Symmetry** is used only in safety runs, over sessions and over ephemerals that the
constants do not tell apart.  `CHECK_DEADLOCK FALSE` is set everywhere: sessions
and streams end.

## 5. Fairness

The library has no threads and promises nothing about time, so fairness is only
that of the callers: in `kx_honest`, weak fairness of the step of an honest pair
(both callers make their next call when they can, and their own messages arrive).
The wild sessions have none.  The assumption that the sampler does not fail or
degenerate for the honest pair stands for events of probability about 2^-128.

## 6. What is proved

`KxProofs` proves, for any sets of sessions, parameters, identities
and ephemerals, under the single assumption `KxAssumption` on the constants:

- `TypeCorrect`: `Spec => []TypeOK`.  `TypeOK` is inductive: it says in which
  phases a session has parameters, an ephemeral, a key and a transcript.
- `InitiatorAuthenticated`, `ResponderAuthenticated`, `SingleUse`, `Agreement`,
  `Injective`, `UnconfirmedKeysAgree`: the safety properties of `kx_faulty`.
- `KeepsPromise`: the exchange implements `ConfirmedAgreement`.

The argument.  Authentication is not inductive by itself: it needs to know where a
genuine tag can come from.  `TagOrigins` adds that every tag in circulation is
S_B of a transcript that a responder holds, as waiting, finished or failed, or
S_A of one that an initiator confirmed.  Prefixes 2 and 3 keep the two kinds apart
(`GenuineTag`), which is where reflection dies.  Single use and uniqueness
need `FreshInv` (what a session holds was drawn, no two sessions of a role hold the
same ephemeral, and a waiting initiator's has entered no derivation), so that a
transcript names its two sessions (`PeerOf`); agreement of keys needs `ShapeInv`, that
a session's transcript and key are those its own parameters and ephemeral determine.  Each part has an init lemma, a step lemma with one
case per action, and frame lemmas for the actions of the other role; the theorems
combine them with PTL.  `KeepsPromise` maps `Respond` to `Offer`, `Confirm` to
`Accept`, `Finish` to `Close`, and all else to a stutter.

It then proves of the C handles, for any sets of handles, parameters and ephemerals and
calls in any order with any pointer NULL:

- `CallersOwnWhatLives` (`OwnershipAgrees`), `EnumNamesTypestate` (`StateMatches`),
  `WaitingIsUndisturbed` (`InFlightUndisturbed`): the properties of the handles in `c_interface`.

The invariant `HandleInv` adds to the two that sessions are functions of the handles and that the enum
of a handle without a live box says Spent; a call moves one handle, so two lemmas
(`InitiatorMoves`, `ResponderMoves`) say what a move must keep and each call is shown to be one.

Last it joins these to the proofs of the exchange and shows, under `KxAssumption`:

- `HandlesKeepThePromise` (`HandlesKeepPromise`): the exchange behind the C handles implements
  `ConfirmedAgreement`;
- `HandlesAuthenticate`: authentication and single use hold for C callers too.

Not every call is a step of `Sm2KeyExchange`: `initiator_new` constructs and draws at once, and a
free, a NULL or a call out of order drops a session.  `InitiatorOpens`, `InitiatorDrops` and
`ResponderDrops` show that the invariants of the exchange survive these and that the
promise stutters.  `HandleInv` is what makes the drops harmless: a handle the caller owns boxes no
session that has released a key, so none that `accepted` or `closed` counts is lost.

`Sm2Proofs` proves of the curve and of the SM2 calls, for any curve, scalar width, window, budgets, keys,
digests, plaintexts and outcomes of the random source, under `CurveAssumption`, `GroupAssumption`
and `CallsAssumption`:

- `AdditionIsComplete`: the complete formulas of `Add` give the sum by chord and tangent of any two
  points, equal, opposite or the identity, and never three zeros;
- `PointsAreExact` (`PointsExact`): so do `double`, `neg`, the comparison, `mul_var` and `mul_g`, for
  any projective scaling of what they are given;
- `SignaturesAreExact` (`SignExact`): a signature is that of the first good genuine nonce and verifies,
  and `verify` is the equation of the standard;
- `CiphersAreExact` (`CipherExact`): a ciphertext is that of the first genuine nonce whose key stream is
  not all zero, and decryption returns exactly the plaintexts it is a ciphertext of;
- `SmCallsInvariant`: the invariant these rest on.

What is assumed of the constants.  The program takes its curve from the standard, which chose it so that field and order
are prime, chord and tangent form a group, and the generator's multiples are all of it.
`GroupAssumption` says these (inverses modulo both, associativity, the multiples), and
TLC checks them on the curve of `primitives`; that the program's constants satisfy them is the standard's
claim, not proved here.  Nothing is assumed of the formulas: that chord and tangent stay on the
curve and that the code computes them is proved.

The argument.  For two points that are not opposite there is a line with some slope, and its third
intersection, reflected, is on the curve and is their sum (`LineOf`, `RefAddCloses`).  The three coordinates that
the code's formulas compute are that point's, each multiplied by one and the same factor.  These are
polynomial identities, proved by expanding (`FactorIdentities`, `HeightIdentity`, and
`VerticalIdentity` for opposite points, whose line is vertical).  The factor must not be zero.  If it
were, some point of the curve that the operands determine would have height zero and be its own
opposite, which none is, because the order is odd (`NoPointHalves`, `FactorIsNotZero`).  The formulas are homogeneous (`AddScales`), so a triple may be any multiple of the
point it stands for (`Rep`), and on the curve `Double` is `Add` of a point to itself (`DoubleIsAdd`).
Both ladders then go window by window: the accumulator stands for the multiple by the windows
taken in so far, the lifted scalar has its top bit set and is the scalar modulo the order (`LiftIs`), and no doubling
meets the identity (`TakenFacts`); row i of the comb has the multiples of 2^(Window i) G (`CombIs`).  `CallsInv`
says of a signature or encryption what the attempts so far have yielded, draw by draw: the first value in range is
kept, and the stand-in for a nonce that was not found is never used.  That a signature
verifies is arithmetic modulo the order.

A proof attempt found an error of the model's, not of the code's: `RefEncrypt` gave a ciphertext for a
plaintext longer than the key stream can be, so that decryption, which refuses it, seemed to refuse
too much.  No plaintext in the run had been that long; two are now.

The end of `Sm2Proofs` proves, for any authorities, registrations, forgers, shapes, anchors
and times, and any number of certificates, under `TrustAssumption` (an anchor's
key is an authority's, and forgers do not hold authorities' keys) and
`DepthAssumption` (the depth limit is at most the code's eight):

- `ChainsVouched`, `AnchorsAlone`, `PairsHaveOneIssuer`: the three properties of
  `cert_chains`.

The argument.  `AuthoritiesVouch` is the inductive invariant: whatever carries an
authority's signature was registered with it, and a full CA certificate among these is for
an authority's key.  The top of an accepted chain is signed by an anchor's key,
and each edge passes the authority down, because the code asks of an issuer both the CA
bit and keyCertSign (`Edge`); seven edges are the most there are, and the descent is written
out.  `AnchorsAlone` needs no invariant; `PairsHaveOneIssuer` rests on the
equality of the certificates above the leaves, or, at length one, on the side
condition that anchors of one Name share a key, which is the residual that
`chain.rs` documents.

`Sm3Proofs` proves, for any block size, any width of the length field that leaves room for the 0x80
byte, any digest of at most a block, and bytes of any kind (the assumption on the sizes in `Sm3`):

- `ChunkingIrrelevant`: update, update, finalize is `hash` of the two chunks joined, for any two
  sequences.

`CallsProofs` adds, for any keys that are sequences and messages of any length
(`DigestAssumption`):

- `DigestsAreReference` (`DigestIsReference`) and `VerifyIsExact` (`VerifyExact`): what `finalize`
  writes and what `verify` answers is by the standard's digest, or RFC 2104's code, of all the bytes
  fed, whatever the chunks and whichever calls are refused in between.

The argument.  `Holds(h, m)` says what a hasher that was fed m looks like: the compressed blocks are the
whole blocks of m, the first `buffer_len` bytes of the buffer are what is over, and the total is the
length of m.  It says nothing of the stale bytes behind `buffer_len`, so `FinalizeIsHash` has to
show that `finalize` overwrites each of them, in the one block or the two that it closes with
(the case is decided where the 0x80 byte and the length field no longer fit).  `UpdateHolds` follows
`update` through its three parts: the buffer topped up, the whole blocks taken from
the input, the rest kept.  The padding of the standard is a CHOOSE over gaps, and `GapUnique` shows
that only one gap fills the last block.  `DInv` adds to the two properties that a live handle
holds the message fed so far (`HmacHolds` for HMAC: behind the masked key block, whose long-key case is
`KPrimeIsPaddedKey`).  Block arithmetic is by a parameter, so `DataLemmas` treats products as opaque.

`CallsProofs` goes on with the key derivations, for any digest length, iteration counts, last block
number and output lengths (`KdfAssumption`):

- `KeysAreExact` (`KeysExact`): PBKDF2, the master secret, the key block and the verify data write
  byte k of their definition at byte k, and a refused call writes none.

The argument.  The definitions are recursive functions, shown to exist and to be what their
equations say.  A sum modulo 2 holds a term iff the term occurs an odd number of times, so the code's
running sum is RFC 8018's (`Chain` against `RefT`).  `KInv` says what is written so far: all bytes
before the block that comes next, each by its own definition; that the scratch is the salt with some
number behind it, which the next block overwrites; and that `a` is the A value of the block that
comes next.  That block is cut at the output's end, and is the last iff it reaches it.

And with the C interface, for any number of boxes and any lengths (`BoundsAssumption`):

- `CallInvariant`: a call ends at a step that may refuse or behind its last, and no
  sequence of calls frees a box that is not there;
- `OutputsAllOrNothing` (`AllOrNothing`), `ShortBufferIsTold` (`RoomTold`), `NothingLeaks`
  (`HandlesAgree`).

The argument.  The theorems are about the rows as they stand in `Calls`, so each row is read, once, into
one of two shapes: a function that keeps its handles, or one that consumes its handle.  In both nothing
visible (an output, a box) comes before a step that may still refuse; in the second the box is
taken behind the NULL check of the handle, with nothing but the zeroing of the length cell in
between, as the headers' "even on error" needs.  `write_output` is the last step that may refuse, and what it refuses for is what a
caller can see.  From the shapes the invariant follows for every call.

`TlcpRecordsProofs` proves of both suites, for any payloads, content types, record counts, MAC, hash and
cipher block sizes and largest pad byte, under `RecordAssumption`, `SizesAssumption` and
`PayloadAssumption` (of `PadMax`, only that a padding's length fits a byte, as 15 does in the code):

- `MacCtIsRefHmac`: `mac_ct`, which always compresses as many blocks as the longest message would
  need and keeps one state by mask, is RFC 2104's HMAC of the header and the first `len` bytes;
- `RecordsInOrder` (`InOrder`) and `RecordsNextAccepted` (`NextAccepted`), the latter with every
  padding the standard allows;
- `CbcOpensExactly` (`OpensExactly`): the constant-time reader opens what the plain decoder opens;
- `GcmNoncesDiffer` (`NoncesDiffer`), which speaks of GCM only.

The argument.  The invariant `ConnectionInv` says that record n on the wire is the protection of
entry n under its count, and that what an end accepted is a prefix of what the other sent.
In GCM a record that opens carries the tag of a seal (`OpensOnlyItself`); the tag covers the header,
hence the count and the type, and keys of the two directions come from different places of the
key block (`KeysApart`), so it is the next one of its own direction.

In CBC, `CheckPaddingFinds` and `CheckPaddingAccepts` show that the scan over a window of the
longest padding, which counts bytes before the padding as matching, yields a length exactly for the
bodies that end in a legal padding.  With `ExtractMac` (the copy chosen by mask) and
`MacCtIsRefHmac`, `DeprotectCbc` opens what decodes (`OpensDecoded`) and only that (`OpenedDecodes`), even
where bad padding sends it through the fallback length; `CbcOpensExactly` is this with
`CutIs`, `SpliceIs` and `ForgedAreReadable`, which describe what a network can make of records,
and `MispaddedAreReadable` for padding that is wrong in one byte.
For the order it remains to say what a body that decodes can be.  Its MAC is a row of code bytes, and
`HmacNames` says that two messages whose codes under a key share a byte are the same message.  So one code byte,
wherever a cut or a splice has put it, names the entry whose MAC it came from, and with it the header
and the count (`DecodesSent`, `OpensWhatDecodes`).  A body under another direction's key decrypts to noise,
which may end in a padding but holds no MAC (`RefusesForeign`).  `AcceptsNext` goes the other way, from a
legal padding to acceptance.  That codes are injective in the message is the model's assumption about the
compression function; that a MAC byte is no data byte is section 8's.

`AeadStreamsProofs` proves of CTR, GCM and CCM streams, for any block size, counter widths, start of
the counter, keystream, payloads, associated data and ceilings that follow from them as in the code,
under `AeadAssumption`:

- `StreamsAreSingleShot` (`StreamEqualsSingleShot`): ciphertext and tag are the single-shot
  function's of all the bytes fed, however they were cut;
- `KeystreamIsFresh` (`KeystreamNeverRepeats`): no two bytes of a GCM or CCM stream are
  masked with one keystream byte, and none with the block that masks the tag;
- `OnlyWhatWasSealed` (`CommitOnVerify`): `finalize_verify` gives out plaintext only for what the
  sender's encryptor made, with its tag and under its associated data;
- `GenuineOpens` (`GenuineAccepted`): what arrives as it was sent is never refused.

The argument.  Byte i of a stream is masked by `Pos(m, i)`, a counter and a lane, whatever the
chunks: `Continues` says of a stream's counter and leftover keystream that they are the next positions,
and `DrawContinues` takes it through the drain, the whole blocks and the tail of `Draw`.  Blocks
under the ceiling stay off the wrap (`CeilingKeepsOff`), there counters differ from one another
and from the tag's (`CountersDiffer`), so positions do (`PositionsDiffer`).  An accumulator that was
fed s is `Folded(y, s)`: the whole blocks of s behind y, and what is over; `AbsorbsAll` and
`CloseFacts` show it for any chunk and for the end of a domain.  Commitment needs the converse:
what a tag is over tells what was sealed (`GhashInjective`, `CcmInjective`, `SealInjective`),
because padding hides only a length and the lengths are hashed too.  `AInv` joins the
sender's part (what was fed, made and absorbed) with the receiver's (what was offered is buffered, or
the overflow latch is set and it was over the ceiling).  That GHASH and CBC-MAC
are injective on blocks is the model's assumption, not a result.

`Sm4Proofs` proves of SM4-CBC, for any block size, set of byte values that holds the padding
values, permutation of the blocks, exclusive or that undoes itself, IV and batch size (or none), and inputs
of any length, under `CbcAssumption` and `FeedAssumption`:

- `DecryptUndoesEncrypt` and `AcceptedIsEncryption`, of the single-shot functions: every message comes
  back, and the strict padding check accepts nothing but encryptions, so one ciphertext a message;
- `StreamIsSingleShot` (`StreamEqualsSingleShot`), `StreamRoundTrip` (`RoundTrip`): streams agree
  with them under any chunking, in Rust and in C;
- `LastBlockHeldBack` (`HoldsBackOne`) and `RoomSuffices` (`DocumentedRoomSuffices`, an action
  property).

The argument.  A sequence splits into whole blocks and less than a block in one way (`SplitUnique`).
`Chained(ct, cs)` relates blocks to their encryption and `Plain(ct)` undoes it; both extend by a
block at a time (`ChainedAppend`, `PlainAppend`).  `EncState` and `DecState` say what a stream is after
the blocks cs: its previous block is the last of the ciphertext, what it gave out and holds is
the encryption of cs, or the plaintext of all but the last, which is held.  One block keeps these
(`EncStep`, `DecStep`), and so does a batch, whose blocks are decrypted from the ciphertext before them
and not from one another (`BatchStep`); `RunState` carries them along a fold of either
(`FoldTrace`).  `UpdateState` follows an update through filling the buffer, the whole blocks
and the rest, `EncryptorFinal` and `DecryptorFinal` close it, and `EmittedIs` counts what is out, which gives
the room.  `CInv`, the invariant, is that a live stream is in the state of what it was fed, and,
behind the C interface, has nothing waiting.

Of the block cipher and of XTS it proves, for every key, block, tweak, unit and run of sectors, under
`XtsAssumption`, `RoomAssumption` and `KnownAnswers`:

- `CryptUndone`: decryption undoes encryption, for any round keys; `RoundKeysTyped`: every key has them;
- `CryptBlocksAre`: batches in lockstep, of any size, are the blocks one by one;
- `XtsUnits`: a unit of any permitted length keeps its length and comes back, also from another host;
- `LePlusAdds` and `SectorsOut`: the sectors of a run are single units under their own numbers;
- `XtsIsExact` (`XtsExact`), for any disk, sector size, bases, hosts and sizes that no call may accept,
  under the module's two keys, one good and one of equal halves (the others are for all keys).

`RoomAssumption` says of the constants that the room given with a base is what is left of the 128 bits.
`KnownAnswers` says that the three vectors of `tests/sm4_xts_kat.rs` come out of the model on a host
without extensions; it is one evaluation of closed terms, which TLC does on every run of `primitives`
and the provers cannot.  The proof takes it from there to every other host.

The argument.  Exclusive or of bytes is that of nibbles, which is associative bit by bit (`NibbleAssoc`,
`XorAssoc`); so a round adds the same word to a window and to the next window backwards
(`WordXorReversed`), and a round backwards takes back the round before (`RoundUndone`).  `Lanes` and
`Side` are the windows of each block of a batch and of all blocks at a round: the words of a batch are
substituted in one row and cut apart again, and `SideRolls` shows that a row is one round of each.  A unit is
whole blocks, the block stolen from and the partial block (`UnitExists`, `UnitCuts`); what encryption does to the last two,
decryption undoes because it exchanges their tweaks (`StolenUndone`), and `UnitMirrors` puts the parts together.
The carries of two sums add up byte by byte (`CarryAdds`), so a sector's number does not depend on the run.
`XtsExact` is not inductive: it does not say that the sectors alone are sealed, nor of what an engine was
made.  The invariant `XInv` says that what is mounted is one of the bases with its sealed sectors, that only
sectors with a number are encrypted, and that an engine holds what encryption of its data returned.  A sealed
sector opens on every host (`SealedIs`), so a run in either direction leaves such a disk (`SectorsStep`).

Folds and recursive functions.  The induction theorems of the library take the induction hypothesis as an
operator, which these provers cannot instantiate.  `NatClosure` in `DataLemmas` states induction
of a *set* of naturals instead: one that has 0 and each successor has them all.  With it `FoldExists` shows
that the recursive function behind `FoldLeft` exists, and what a fold computes follows
(`FoldByByte`, `FoldsTraced`).

Only model-checked:

- `HonestCompletes`: fairness and ENABLED are out of the prover's reach;
- `CodecsStrict`: the encoders and readers go over real bytes, base 128 and base 256, by folds
  nested in one another, each of which would need an induction of its own, and the property goes over every
  form at once;
- `BackEndsAgree`, which speaks of one table and one polynomial, and so is an evaluation rather than an
  argument.

No module of the project declares a RECURSIVE operator.

## 7. Findings

- **klen is not confirmed.**  The responder's C header says a differing `klen`
  makes the tags fail; `s_tag` does not hash it (`kx_klen`).  Both sides then hold
  keys of different lengths, one a prefix of the other.
- **A refused CBC update must not be retried.**  The section comment of the C
  streaming CBC calls describes a caller-retry pattern; the update has already consumed
  its input (`cbc_retry`).  The per-function comment says the bytes are lost.
- **A poisoned GCM encryptor still gives a tag.**  The header says all later calls
  fail; `finalize` ignores the latch (`aead_poison`).
- **`finalize` does not always free.**  The headers say that SM3 and HMAC `finalize` and
  `verify` free the handle; with a NULL output or tag they return before they
  reclaim it, and a caller that believes the header leaks it (`digest_leak`).

Also met, and harmless: a comment at `tlcp/record.rs:586` says that the fallback length is
at most 2^14, while the guard above it admits bodies that leave up to 2^14 + 15; this still
fits the two length bytes, and is what the model computes.

## 8. Not modelled, and why

- A party that owns a static key and computes tags of its own at will: tags come
  from sessions that follow the code.  A forged tag is one equal to no tag computed.
- The 256-bit field: `crypto-bigint` does it, and the model computes modulo a small prime.
  The SIMD intrinsics: external, modelled from the vendors' definitions as far as they are used.
- SM3's compression function: free, as said above; the S-box and GHASH are the only such
  functions modelled bit by bit.
- Constant-time behaviour and zeroization: not properties of states here, except that a failed step
  keeps no key.
- Panics caught by `ffi_guard`: a caught panic looks like any other error.
- In TLCP, MAC bytes equal no other byte: a splice that hits on the right MAC by
  chance is left out, and a MAC byte that comes to stand where the pad length is read
  takes every value.  Types and versions are one header symbol.
- In the codecs, HMAC and CBC under a password are a shift of bytes that depends on all
  parameters.  The refusals of CBC (a partial block, bad PKCS#7 padding) are left out,
  which only widens what a password decryption accepts.  PEM characters are one value
  each, and a boundary line is a character.  Only one byte is altered on the wire.
- In `CAbi`, the bytes of outputs, and the digest, CBC and key-exchange handles' own state, which
  have modules of their own.
- Benchmarks, build scripts, CI tooling, fuzz targets, documentation: no state of the program.
