----------------------------- MODULE KeyCodecs -----------------------------
(***************************************************************************)
(* The encodings of signatures, ciphertexts, points and keys: what one     *)
(* party writes crosses a wire that may spoil it and another party reads   *)
(* it.  Byte strings are real bytes; a coordinate or scalar has FieldBytes *)
(* of them and lies on the small curve of Sm2Curve.                        *)
(***************************************************************************)
EXTENDS Der, Sm2Curve

LOCAL INSTANCE SequencesExt

CONSTANTS
    FieldBytes,         \* 32 in the program
    HashBytes,          \* 32
    KeyBytes,           \* bytes of an SM4 key and of an IV, 16
    MaxIterations,      \* PBKDF2_MAX_ITERATIONS, 10 000 000
    Pem64               \* characters of a PEM line, 64

(* A 32-bit number; from 2^30 on only its excess over any bound matters.   *)
U32(bytes) == IF Len(bytes) = 4 /\ bytes[1] >= 64 THEN 2^30 ELSE BigEndian(bytes)
InField(bytes) == BigEndian(bytes) < FieldP
PointBytes(c) == <<4>> \o Bytes(c[1], FieldBytes) \o Bytes(c[2], FieldBytes)
Coordinate(s, i) == SubSeq(s, 2 + i * FieldBytes, 1 + (i + 1) * FieldBytes)

(* decode_uncompressed_point: the affine point, which has coordinates in   *)
(* the field and is on the curve.                                          *)
DecodePoint(s) ==
    LET x == Coordinate(s, 0)
        y == Coordinate(s, 1)
    IN  IF /\ Len(s) = 1 + 2 * FieldBytes /\ s[1] = 4
           /\ InField(x) /\ InField(y)
           /\ OnCurve(BigEndian(x), BigEndian(y))
        THEN Got(<<BigEndian(x), BigEndian(y)>>, <<>>) ELSE No

(***************************************************************************)
(* Signatures.                                                             *)
(***************************************************************************)
Fixed(bytes, n) == [i \in 1..n |-> IF i <= n - Len(bytes) THEN 0 ELSE bytes[i - (n - Len(bytes))]]
EncodeSig(r, s) == WriteSequence(WriteInteger(r) \o WriteInteger(s))
ReadScalar(s) ==
    Then(ReadInteger(s), LAMBDA v, rest :
        When(v # <<0>> /\ Len(v) <= FieldBytes, Got(Fixed(v, FieldBytes), rest)))
DecodeSig(input) ==
    Only(ReadSequence(input), LAMBDA body :
    Then(ReadScalar(body), LAMBDA r, s1 :
    Only(ReadScalar(s1), LAMBDA s : Done(<<r, s>>))))

(***************************************************************************)
(* Ciphertexts, in DER and as raw concatenations in two orders.            *)
(***************************************************************************)
EncodeCt(ct) ==
    WriteSequence(WriteInteger(ct.x) \o WriteInteger(ct.y)
                  \o WriteOctetString(ct.hash) \o WriteOctetString(ct.c2))
ReadFieldElement(s) ==
    Then(ReadInteger(s), LAMBDA v, rest :
        When(Len(v) <= FieldBytes /\ InField(v), Got(Fixed(v, FieldBytes), rest)))
DecodeCt(input) ==
    Only(ReadSequence(input), LAMBDA body :
    Then(ReadFieldElement(body), LAMBDA x, s1 :
    Then(ReadFieldElement(s1), LAMBDA y, s2 :
    Then(ReadOctetString(s2), LAMBDA hash, s3 :
    Only(ReadOctetString(s3), LAMBDA c2 :
        When(Len(hash) = HashBytes, Done([x |-> x, y |-> y, hash |-> hash, c2 |-> c2])))))))

C1Bytes == 1 + 2 * FieldBytes
EncodeC1C3C2(ct) == <<4>> \o ct.x \o ct.y \o ct.hash \o ct.c2
DecodeRaw(input, hashAt, c2At) ==
    IF /\ Len(input) >= C1Bytes + HashBytes
       /\ DecodePoint(SubSeq(input, 1, C1Bytes)).ok
    THEN Got([x |-> Coordinate(input, 0), y |-> Coordinate(input, 1),
              hash |-> SubSeq(input, hashAt + 1, hashAt + HashBytes),
              c2 |-> SubSeq(input, c2At + 1, c2At + Len(input) - C1Bytes - HashBytes)], <<>>)
    ELSE No
DecodeC1C3C2(input) == DecodeRaw(input, C1Bytes, C1Bytes + HashBytes)
DecodeC1C2C3(input) == DecodeRaw(input, Len(input) - HashBytes, C1Bytes)

(***************************************************************************)
(* Public keys (SPKI).                                                     *)
(***************************************************************************)
CurveAlgorithm == WriteSequence(WriteOid(IdEcPublicKey) \o WriteOid(Sm2P256V1))
ReadAlgorithm(s, id) ==
    Then(ReadSequence(s), LAMBDA alg, rest :
    Then(ReadOid(alg), LAMBDA oid, params : When(oid = id, Got(params, rest))))
ReadCurve(s) == Only(ReadOid(s), LAMBDA id : When(id = Sm2P256V1, Done(id)))
ReadCurveAlgorithm(s) ==
    Then(ReadAlgorithm(s, IdEcPublicKey), LAMBDA params, rest :
    Then(ReadCurve(params), LAMBDA curve, none : Got(curve, rest)))
ReadPoint(s) == Only(ReadBitString(s), LAMBDA bits : When(bits[1] = 0, DecodePoint(bits[2])))
EncodeSpki(c) == WriteSequence(CurveAlgorithm \o WriteBitString(0, PointBytes(c)))
DecodeSpki(input) ==
    Only(ReadSequence(input), LAMBDA body :
    Then(ReadCurveAlgorithm(body), LAMBDA curve, bits : ReadPoint(bits)))

(***************************************************************************)
(* Private keys (SEC1).  The curve and the public point are optional.      *)
(***************************************************************************)
SomePoint(c) == Tlv(Explicit(1), WriteBitString(0, PointBytes(c)))
SomeCurve == Tlv(Explicit(0), WriteOid(Sm2P256V1))
Sec1Body(scalar, curve, point) ==
    WriteSequence(WriteInteger(<<1>>) \o WriteOctetString(scalar) \o curve \o point)
EncodeSec1(scalar, c) == Sec1Body(scalar, SomeCurve, IF c = NoAffine THEN <<>> ELSE SomePoint(c))

ReadPublic(s) == IF s = <<>> THEN Done(NoAffine) ELSE ReadPoint(s[1])
DecodeSec1(input) ==
    Only(ReadSequence(input), LAMBDA body :
    Then(ReadInteger(body), LAMBDA version, s1 :
    Then(ReadOctetString(s1), LAMBDA scalar, s2 :
    Then(Optional(s2, Explicit(0)), LAMBDA params, s3 :
    Only(Optional(s3, Explicit(1)), LAMBDA public :
    Then(ReadPublic(public), LAMBDA point, none :
        When(/\ version = <<1>> /\ Len(scalar) = FieldBytes
             /\ params = <<>> \/ ReadCurve(params[1]).ok,
             Done([scalar |-> scalar, public |-> point]))))))))

(***************************************************************************)
(* Private keys (PKCS #8): SEC1 in a wrapper whose trailing [0] and [1]    *)
(* elements are skipped; a public point must be that of the scalar.        *)
(***************************************************************************)
Pkcs8Body(version, sec1, tail) ==
    WriteSequence(WriteInteger(<<version>>) \o CurveAlgorithm \o WriteOctetString(sec1) \o tail)
EncodePkcs8(d) == Pkcs8Body(0, EncodeSec1(Bytes(d, FieldBytes), RefMul(d, RefG)), <<>>)

Skipping(s, tag) == Optional(s, tag).rest
SkipTail(s) ==
    LET cut[t \in {From(s, i) : i \in 1..(Len(s) + 1)}] ==
            LET next == Skipping(Skipping(t, Explicit(0)), Explicit(1))
            IN  IF next = t THEN t ELSE cut[next]
    IN  cut[s]
PointFits(inner, d) ==
    inner.public = NoAffine \/ CtEq(FromAffine(inner.public[1], inner.public[2]), MulG(d))
DecodePkcs8(input) ==
    Only(ReadSequence(input), LAMBDA body :
    Then(ReadInteger(body), LAMBDA version, s1 :
    Then(ReadCurveAlgorithm(s1), LAMBDA curve, s2 :
    Then(ReadOctetString(s2), LAMBDA key, s3 :
    Then(DecodeSec1(key), LAMBDA inner, none :
        LET d == BigEndian(inner.scalar)
        IN  When(/\ version \in {<<0>>, <<1>>}
                 /\ SkipTail(s3) = <<>>
                 /\ d # 0 /\ d < OrderN - 1
                 /\ PointFits(inner, d), Done(d)))))))

(***************************************************************************)
(* Private keys under a password (PBES2).  Derivation and cipher are a     *)
(* shift of the bytes that depends on every input.  The shift never fails, *)
(* where CBC also refuses a partial block or bad PKCS#7 padding: what is   *)
(* accepted here includes whatever is accepted there.                      *)
(***************************************************************************)
Shift(password, salt, iterations, iv) ==
    (password + BigEndian(salt) + 3 * (iterations % 251) + 5 * BigEndian(iv)) % 256
Shifted(m, by) == [i \in DOMAIN m |-> (m[i] + by) % 256]

Algorithm(id, params) == WriteSequence(WriteOid(id) \o params)
Pbes2Params(salt, iterations, keyLength, prf, iv) ==
    WriteSequence(
        Algorithm(IdPbkdf2, WriteSequence(WriteOctetString(salt)
                            \o WriteInteger(Bytes(iterations, 4)) \o keyLength \o prf))
        \o Algorithm(Sm4CbcOid, WriteOctetString(iv)))
WriteBlob(params, ciphertext) ==
    WriteSequence(Algorithm(Pbes2, params) \o WriteOctetString(ciphertext))
EncryptKey(d, password, salt, iterations, iv) ==
    IF iterations = 0 THEN No
    ELSE Got(WriteBlob(Pbes2Params(salt, iterations, <<>>, Algorithm(IdHmacWithSm3, WriteNull), iv),
                       Shifted(EncodePkcs8(d), Shift(password, salt, iterations, iv))), <<>>)

(* Key length and parameters of the PRF may be left out.                   *)
ReadPbkdf2(s) ==
    Only(ReadSequence(s), LAMBDA inner :
    Then(ReadOctetString(inner), LAMBDA salt, s1 :
    Then(ReadInteger(s1), LAMBDA iter, s2 :
    Then(Maybe(ReadInteger(s2), s2), LAMBDA keyLength, s3 :
    Only(ReadAlgorithm(s3, IdHmacWithSm3), LAMBDA prf :
        When(/\ Len(iter) <= 4 /\ U32(iter) # 0 /\ U32(iter) <= MaxIterations
             /\ keyLength = <<>> \/ (Len(keyLength[1]) <= 4 /\ U32(keyLength[1]) = KeyBytes)
             /\ prf = <<>> \/ ReadNull(prf) = Done(<<>>),
             Done([salt |-> salt, iterations |-> U32(iter)])))))))
ReadIv(s) ==
    Only(ReadAlgorithm(s, Sm4CbcOid), LAMBDA cipher :
    Only(ReadOctetString(cipher), LAMBDA iv : When(Len(iv) = KeyBytes, Done(iv))))
ParseBlob(input) ==
    Only(ReadSequence(input), LAMBDA body :
    Then(ReadAlgorithm(body, Pbes2), LAMBDA params, s1 :
    Only(ReadOctetString(s1), LAMBDA data :
    Only(ReadSequence(params), LAMBDA schemes :
    Then(ReadAlgorithm(schemes, IdPbkdf2), LAMBDA kdf, s2 :
    Then(ReadPbkdf2(kdf), LAMBDA p, none :
    Then(ReadIv(s2), LAMBDA iv, nothing :
        Done([salt |-> p.salt, iterations |-> p.iterations, iv |-> iv, ciphertext |-> data]))))))))
DecryptKey(input, password) ==
    Then(ParseBlob(input), LAMBDA p, none :
        DecodePkcs8(Shifted(p.ciphertext, 256 - Shift(password, p.salt, p.iterations, p.iv))))

(***************************************************************************)
(* PEM.  A character is a value of the base-64 alphabet, the padding sign, *)
(* white space, anything else, or a whole boundary line.                   *)
(***************************************************************************)
PadChar == 64
White == 65
OtherChar == 66
BeginLine == 67
EndLine == 68

Base64(bytes) ==
    LET group(i) ==
            LET b == SubSeq(bytes, 3 * i - 2, Len(bytes))
                n == IF Len(b) < 3 THEN Len(b) ELSE 3
                at(k) == IF k <= n THEN b[k] ELSE 0
                all == <<at(1) \div 4, (at(1) % 4) * 16 + at(2) \div 16,
                         (at(2) % 16) * 4 + at(3) \div 64, at(3) % 64>>
            IN  [k \in 1..4 |-> IF k <= n + 1 THEN all[k] ELSE PadChar]
    IN  FlattenSeq([i \in 1..((Len(bytes) + 2) \div 3) |-> group(i)])

Wrap(chars) ==
    FlattenSeq([i \in 1..((Len(chars) + Pem64 - 1) \div Pem64) |->
        SubSeq(chars, (i - 1) * Pem64 + 1, IF i * Pem64 < Len(chars) THEN i * Pem64 ELSE Len(chars))
        \o <<White>>])
EncodePem(der) == <<BeginLine, White>> \o Wrap(Base64(der)) \o <<EndLine, White>>

(* The bits that the padding drops must be zero.                           *)
Unbase64(chars) ==
    LET n == Len(chars)
        pad == CASE n >= 2 /\ chars[n] = PadChar /\ chars[n - 1] = PadChar -> 2
                 [] n >= 1 /\ chars[n] = PadChar /\ (n = 1 \/ chars[n - 1] # PadChar) -> 1
                 [] OTHER -> 0
        v(k) == IF k > n - pad THEN 0 ELSE chars[k]
        triple(i) == <<v(4*i - 3) * 4 + v(4*i - 2) \div 16,
                       (v(4*i - 2) % 16) * 16 + v(4*i - 1) \div 4,
                       (v(4*i - 1) % 4) * 64 + v(4*i)>>
    IN  IF n % 4 # 0 \/ \E k \in 1..(n - pad) : chars[k] > 63 THEN No
        ELSE IF (pad = 2 /\ v(n - 2) % 16 # 0) \/ (pad = 1 /\ v(n - 1) % 4 # 0) THEN No
        ELSE Got(SubSeq(FlattenSeq([i \in 1..(n \div 4) |-> triple(i)]), 1, 3 * (n \div 4) - pad), <<>>)

DecodePem(text) ==
    LET begins == {i \in DOMAIN text : text[i] = BeginLine}
        first == CHOOSE i \in begins : \A j \in begins : i <= j
        ends == {i \in DOMAIN text : i > first /\ text[i] = EndLine}
        last == CHOOSE i \in ends : \A j \in ends : i <= j
    IN  IF begins = {} THEN No
        ELSE IF ends = {} THEN No
        ELSE Unbase64(SelectSeq(SubSeq(text, first + 1, last - 1), LAMBDA c : c # White))
=============================================================================
