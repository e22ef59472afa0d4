----------------------------- MODULE CodecWire -----------------------------
(***************************************************************************)
(* A value is encoded, its bytes cross a wire that may change, drop or add *)
(* one of them, and a decoder reads what arrives.                          *)
(***************************************************************************)
EXTENDS CertDer, FiniteSets

LOCAL INSTANCE SequencesExt

VARIABLE wire       \* what is on its way and what the decoder made of it

IdleWire == [phase |-> "idle", codec |-> "", value |-> <<>>, bytes |-> <<>>, got |-> No]

(***************************************************************************)
(* Certificates to encode; the program has no writer of them.              *)
(***************************************************************************)
Ascii(n) == <<48 + (n \div 10), 48 + (n % 10)>>
TimeTail(t) == FlattenSeq([i \in 2..6 |-> Ascii(t[i])]) \o <<Zulu>>
UtcTime(t) == Tlv(TagUtcTime, Ascii(t[1] % 100) \o FlattenSeq([i \in 1..5 |-> Ascii(t[i + 1])]) \o <<Zulu>>)
GeneralizedTime(t) ==
    Tlv(TagGeneralizedTime, FlattenSeq(<<Ascii(t[1] \div 100), Ascii(t[1] % 100)>>
                            \o [i \in 1..5 |-> Ascii(t[i + 1])]) \o <<Zulu>>)
TimeForms(t) == {GeneralizedTime(t)} \cup (IF t[1] \in 1950..2049 THEN {UtcTime(t)} ELSE {})

SigAlgForms == {Algorithm(Sm2SignWithSm3, <<>>), Algorithm(Sm2SignWithSm3, WriteNull)}
ExtensionForms(e) ==
    {WriteSequence(WriteOid(e.oid) \o flag \o WriteOctetString(e.value)) :
        flag \in IF e.critical THEN {Tlv(TagBoolean, <<b>>) : b \in 1..255}
                 ELSE {<<>>, Tlv(TagBoolean, <<0>>)}}
KeyUsageExt(critical, bytes) ==
    [oid |-> KeyUsageOid, critical |-> critical, value |-> WriteBitString(0, bytes)]
ConstraintsExt(body) ==
    [oid |-> BasicConstraintsOid, critical |-> TRUE, value |-> WriteSequence(body)]
OtherExt == [oid |-> IdPbkdf2, critical |-> TRUE, value |-> <<7>>]
ExtensionsContent(exts, flag) ==
    WriteSequence(FlattenSeq([i \in DOMAIN exts |->
        WriteSequence(WriteOid(exts[i].oid)
            \o (IF exts[i].critical THEN Tlv(TagBoolean, <<flag>>) ELSE <<>>)
            \o WriteOctetString(exts[i].value))]))

CertHead(c, times) ==
    Tlv(Explicit(0), WriteInteger(<<2>>)) \o WriteInteger(c.serial) \o c.alg
    \o c.issuer \o WriteSequence(times) \o c.subject \o EncodeSpki(c.key)
CertTail(c) == IF c.extensions = <<>> THEN <<>> ELSE Tlv(Explicit(3), c.extensions)
CertBody(c, times, ids) == WriteSequence(CertHead(c, times) \o ids \o CertTail(c))
CertOf(tbs, alg, sig) == WriteSequence(tbs \o alg \o WriteBitString(0, sig))

Name(n) == WriteSequence(n)
CertItem(serial, alg, subject, after, key, exts, flag, ids, usage, constraints, critical) ==
    LET c == [serial |-> serial, alg |-> alg, issuer |-> Name(<<5, 0>>), subject |-> Name(subject),
              notBefore |-> <<1950, 1, 1, 0, 0, 0>>, notAfter |-> after, key |-> key,
              extensions |-> IF exts = <<>> THEN <<>> ELSE ExtensionsContent(exts, flag)]
        tbs == CertBody(c, UtcTime(c.notBefore) \o (IF after[1] < 2050 THEN UtcTime(after)
                                                    ELSE GeneralizedTime(after)), ids)
    IN  [value |-> [cert |-> [tbs |-> tbs, sig |-> <<1, 2>>] @@ c, usage |-> usage,
                    constraints |-> constraints, critical |-> critical],
         bytes |-> CertOf(tbs, alg, <<1, 2>>)]

PlainAlg == Algorithm(Sm2SignWithSm3, <<>>)
NullAlg == Algorithm(Sm2SignWithSm3, WriteNull)
CertItems == {
    CertItem(<<128>>, PlainAlg, <<>>, <<2049, 12, 31, 23, 59, 59>>, RefG, <<>>, 0, <<>>,
             {}, {}, FALSE),
    CertItem(<<1, 0>>, NullAlg, <<5, 0>>, <<2050, 2, 3, 4, 5, 6>>, RefMul(2, RefG),
             <<KeyUsageExt(TRUE, <<6, 128>>), KeyUsageExt(FALSE, <<128>>), OtherExt>>, 255,
             Tlv(Implicit(1), <<3>>) \o Tlv(Implicit(2), <<3>>), {{5, 6, 8}}, {}, TRUE),
    CertItem(<<127>>, PlainAlg, <<5, 0>>, <<2049, 1, 1, 0, 0, 0>>, RefG,
             <<ConstraintsExt(Tlv(TagBoolean, <<1>>) \o WriteInteger(<<1, 0>>))>>, 1, <<>>,
             {}, {[isCa |-> TRUE, pathLen |-> {256}]}, FALSE)}

(* The older order of a raw ciphertext, which the program only reads.      *)
EncodeC1C2C3(ct) == <<4>> \o ct.x \o ct.y \o ct.c2 \o ct.hash

(***************************************************************************)
(* What is sent: a value and one of its encodings.                         *)
(***************************************************************************)
Item(value, bytes) == [value |-> value, bytes |-> bytes]
Ints == {<<0>>, <<1>>, <<127>>, <<128>>, <<1, 0>>, <<128, 0>>}
Scalars16 == {<<0, 1>>, <<0, 128>>, <<200, 3>>}
SampleHash == [i \in 1..HashBytes |-> 7]
Ct(c, c2) == [x |-> Bytes(c[1], FieldBytes), y |-> Bytes(c[2], FieldBytes), hash |-> SampleHash, c2 |-> c2]
Cts == {Ct(RefG, c2) : c2 \in {<<>>, <<4>>}} \cup {Ct(RefMul(2, RefG), <<1, 2>>)}
Salt == <<1, 2>>
Iv == [i \in 1..KeyBytes |-> i]
BlobValue(iterations, c) == [salt |-> Salt, iterations |-> iterations, iv |-> Iv, ciphertext |-> c]

Password == 11

KeyLengths == {<<>>, WriteInteger(<<KeyBytes>>)}
Prfs == {Algorithm(IdHmacWithSm3, <<>>), Algorithm(IdHmacWithSm3, WriteNull)}
BlobForms(b) ==
    {WriteBlob(Pbes2Params(b.salt, b.iterations, keyLength, prf, b.iv), b.ciphertext) :
        keyLength \in KeyLengths, prf \in Prfs}
Sec1Forms(v) ==
    {Sec1Body(v.scalar, curve, IF v.public = NoAffine THEN <<>> ELSE SomePoint(v.public)) :
        curve \in {<<>>, SomeCurve}}
Tails == {<<>>, Tlv(Explicit(0), <<5, 0>>), Tlv(Explicit(1), <<>>) \o Tlv(Explicit(0), <<9>>)}

Oids == {<<1, 2, 840, 10045, 2, 1>>, <<1, 2, 156, 10197, 1, 301>>, <<1, 2, 156, 10197, 1, 501>>,
         <<1, 2, 840, 113549, 1, 5, 12>>, <<1, 2, 840, 113549, 1, 5, 13>>,
         <<1, 2, 156, 10197, 1, 401, 2>>, <<1, 2, 156, 10197, 1, 104, 2>>, <<2, 5, 29, 15>>,
         <<2, 5, 29, 19>>}

Items == [
    length |-> {Item(n, WriteLength(n)) :
                   n \in {0, 127, 128, 255, 256, 65535, 65536, MaxDerLen - 1}},
    integer |-> {Item(v, WriteInteger(z \o v)) : v \in Ints, z \in {<<>>, <<0>>}},
    bits |-> {Item(<<u, v>>, WriteBitString(u, v)) : u \in {0, 7}, v \in {<<>>, <<1, 128>>}},
    null |-> {Item(<<>>, WriteNull)},
    oid |-> {Item(arcs, WriteOid(OidOf(arcs))) : arcs \in Oids},
    sig |-> {Item(<<r, s>>, EncodeSig(r, s)) : r, s \in Scalars16},
    ct |-> {Item(c, EncodeCt(c)) : c \in Cts},
    c1c3c2 |-> {Item(c, EncodeC1C3C2(c)) : c \in Cts},
    c1c2c3 |-> {Item(c, EncodeC1C2C3(c)) : c \in Cts},
    spki |-> {Item(c, EncodeSpki(c)) : c \in {RefG, RefMul(2, RefG)}},
    sec1 |-> UNION {{Item(v, form) : form \in Sec1Forms(v)} :
                v \in [scalar : {<<0, 5>>, <<0, 0>>}, public : {NoAffine, RefG}]}
             \cup {Item([scalar |-> <<0, 5>>, public |-> c], EncodeSec1(<<0, 5>>, c)) :
                      c \in {NoAffine, RefG}},
    pkcs8 |-> {Item(d, EncodePkcs8(d)) : d \in {1, OrderN - 2}}
              \cup {Item(5, Pkcs8Body(version, Sec1Body(<<0, 5>>, <<>>, <<>>), tail)) :
                       version \in {0, 1}, tail \in Tails},
    blob |-> UNION {{Item(b, form) : form \in BlobForms(b)} : b \in {BlobValue(256, <<3>>)}}
             \cup {Item(b, CHOOSE form \in BlobForms(b) : TRUE) :
                      b \in {BlobValue(n, <<>>) : n \in {1, 128, MaxIterations}}},
    pem |-> {Item(v, EncodePem(v)) : v \in {[i \in 1..n |-> 100 + i] : n \in {0, 1, 2, 3, 49}}},
    cert |-> CertItems,
    sealed |-> {Item(d, EncryptKey(d, Password, Salt, n, Iv).v) :
                   d \in {1, OrderN - 2}, n \in {1, MaxIterations}},
    mixedAlgs |-> {Item(<<>>, CertOf(item.value.cert.tbs, NullAlg, <<1>>)) :
                      item \in {i \in CertItems : i.value.cert.alg = PlainAlg}},
    lockout |-> {Item(5, EncryptKey(5, Password, Salt, MaxIterations + 1, Iv).v)},
    wrongPassword |-> {Item(5, EncryptKey(5, Password + 1, Salt, 2, Iv).v)}]
CodecNames == DOMAIN Items

(***************************************************************************)
(* What is read.                                                           *)
(***************************************************************************)
Decode(codec, s) ==
    CASE codec = "length" -> ReadLength(s)
      [] codec = "integer" -> ReadInteger(s)
      [] codec = "bits" -> ReadBitString(s)
      [] codec = "null" -> ReadNull(s)
      [] codec = "oid" -> ReadOid(s)
      [] codec = "sig" -> DecodeSig(s)
      [] codec = "ct" -> DecodeCt(s)
      [] codec = "c1c3c2" -> DecodeC1C3C2(s)
      [] codec = "c1c2c3" -> DecodeC1C2C3(s)
      [] codec = "spki" -> DecodeSpki(s)
      [] codec = "sec1" -> DecodeSec1(s)
      [] codec = "pkcs8" -> DecodePkcs8(s)
      [] codec = "blob" -> ParseBlob(s)
      [] codec = "pem" -> DecodePem(s)
      [] codec \in {"cert", "mixedAlgs"} -> FromDer(s)
      [] codec \in {"sealed", "lockout", "wrongPassword"} -> DecryptKey(s, Password)

Bytewise(s, i) == {(s[i] + 1) % 256, (s[i] + 255) % 256, 0, 128, 129, 255} \ {s[i]}
Spare(codec) == IF codec = "pem" THEN {0, 1, 48, PadChar, White, OtherChar, BeginLine, EndLine}
                ELSE {0, 5, 128}
Spoilt(codec, s) ==
    UNION {{[s EXCEPT ![i] = b] :
               b \in IF codec = "pem" THEN Spare(codec) ELSE Bytewise(s, i)} : i \in DOMAIN s}
    \cup {RemoveAt(s, i) : i \in DOMAIN s}
    \cup {InsertAt(s, i, b) : i \in 1..(Len(s) + 1), b \in Spare(codec)}

(***************************************************************************)
(* The steps.                                                              *)
(***************************************************************************)
WInit == wire = IdleWire
Encode ==
    /\ wire.phase = "idle"
    /\ \E codec \in CodecNames : \E item \in Items[codec] :
          wire' = [phase |-> "sent", codec |-> codec, value |-> item.value,
                   bytes |-> item.bytes, got |-> No]
Spoil ==
    /\ wire.phase = "sent"
    /\ \E s \in Spoilt(wire.codec, wire.bytes) :
          wire' = [wire EXCEPT !.phase = "spoilt", !.bytes = s]
Receive ==
    /\ wire.phase \in {"sent", "spoilt"}
    /\ wire' = [wire EXCEPT !.phase = IF wire.phase = "sent" THEN "intact" ELSE "read",
                            !.got = Decode(wire.codec, wire.bytes)]
WNext == Encode \/ Spoil \/ Receive

(***************************************************************************)
(* The properties.                                                         *)
(***************************************************************************)
ArcsOf(bytes) ==
    LET ends == {0} \cup {i \in DOMAIN bytes : bytes[i] < 128}
        starts == {i \in ends : i < Len(bytes)}
        stop(i) == CHOOSE j \in ends : i < j /\ \A k \in ends : i < k => j <= k
        arc(i) == FoldLeft(LAMBDA v, b : 128 * v + (b % 128), 0, SubSeq(bytes, i + 1, stop(i)))
        arcs == [k \in 1..Cardinality(starts) |->
                    arc(CHOOSE i \in starts : Cardinality({j \in starts : j < i}) = k - 1)]
    IN  <<arcs[1] \div 40, arcs[1] % 40>> \o Tail(arcs)

AsSet(r) == IF r.ok THEN {r.v} ELSE {}
Same(codec, got, value) ==
    CASE codec = "oid" -> ArcsOf(got) = value
      [] codec = "cert" ->
            /\ got = value.cert
            /\ AsSet(KeyUsage(got)) = value.usage
            /\ AsSet(BasicConstraints(got)) = value.constraints
            /\ HasUnknownCritical(got) = value.critical
            /\ SubjectIsEmpty(got) = (got.subject = Name(<<>>))
      [] OTHER -> got = value

TailFits(t) ==
    LET fits[s \in {From(t, i) : i \in 1..(Len(t) + 1)}] ==
            \/ s = <<>>
            \/ \E n \in DOMAIN s, k \in {0, 1} :
                  /\ SubSeq(s, 1, n) = Tlv(Explicit(k), SubSeq(s, 3, n))
                  /\ fits[From(s, n + 1)]
    IN  fits[t]
Pkcs8Fits(bytes, d) ==
    \E version \in {0, 1}, i \in 1..(Len(bytes) + 1), public \in {NoAffine, RefMul(d, RefG)} :
        \E sec1 \in Sec1Forms([scalar |-> Bytes(d, FieldBytes), public |-> public]) :
            bytes = Pkcs8Body(version, sec1, From(bytes, i)) /\ TailFits(From(bytes, i))

PemFits(text, v) ==
    \E i, j \in DOMAIN text :
        LET body == SubSeq(text, i + 1, j - 1)
        IN  /\ text[i] = BeginLine /\ ~Contains(SubSeq(text, 1, i - 1), BeginLine)
            /\ text[j] = EndLine /\ i < j /\ ~Contains(body, EndLine)
            /\ SelectSeq(body, LAMBDA c : c # White) = Base64(v)

IdsFit(ids) ==
    \E n \in 0..Len(ids) :
        /\ SubSeq(ids, 1, n) \in {<<>>, Tlv(Implicit(1), SubSeq(ids, 3, n))}
        /\ From(ids, n + 1) \in {<<>>, Tlv(Implicit(2), From(ids, n + 3))}
ExtensionsFit(content) ==
    LET seq == From(content, 3)
        exts == Extensions(seq).v
        left[i \in 0..Len(exts)] ==
            IF i = 0 THEN seq
            ELSE LET before == left[i - 1]
                     forms == {f \in ExtensionForms(exts[i]) : IsPrefix(f, before)}
                     form == CHOOSE f \in forms : TRUE
                 IN  IF forms = {} THEN <<0>> ELSE From(before, Len(form) + 1)
    IN  content = WriteSequence(seq) /\ exts # <<>> /\ left[Len(exts)] = <<>>
NameFits(name) == name = WriteSequence(From(name, 3))
CertFits(bytes, c) ==
    /\ bytes = CertOf(c.tbs, c.alg, c.sig) /\ c.alg \in SigAlgForms
    /\ NameFits(c.issuer) /\ NameFits(c.subject)
    /\ c.extensions = <<>> \/ ExtensionsFit(c.extensions)
    /\ \E nb \in TimeForms(c.notBefore), na \in TimeForms(c.notAfter) :
          LET body == ReadSequence(c.tbs).v
              head == CertHead(c, nb \o na)
              ids == SubSeq(body, Len(head) + 1, Len(body) - Len(CertTail(c)))
          IN  c.tbs = CertBody(c, nb \o na, ids) /\ IdsFit(ids)

RefPoints == {RefMul(k, RefG) : k \in 1..(OrderN - 1)}
IsPoint(x, y) == InField(x) /\ InField(y) /\ <<BigEndian(x), BigEndian(y)>> \in RefPoints
Fits(codec, bytes, v, rest) ==
    CASE codec = "length" -> bytes = WriteLength(v) \o rest
      [] codec = "integer" -> bytes = WriteInteger(v) \o rest
      [] codec = "bits" -> bytes = WriteBitString(v[1], v[2]) \o rest
      [] codec = "null" -> bytes = WriteNull \o rest
      [] codec = "oid" -> bytes = WriteOid(v) \o rest
      [] codec = "sig" -> bytes = EncodeSig(v[1], v[2]) /\ \A i \in 1..2 : BigEndian(v[i]) # 0
      [] codec = "ct" -> bytes = EncodeCt(v) /\ InField(v.x) /\ InField(v.y)
      [] codec = "c1c3c2" -> bytes = EncodeC1C3C2(v) /\ IsPoint(v.x, v.y)
      [] codec = "c1c2c3" -> bytes = EncodeC1C2C3(v) /\ IsPoint(v.x, v.y)
      [] codec = "spki" -> bytes = EncodeSpki(v) /\ v \in RefPoints
      [] codec = "sec1" -> bytes \in Sec1Forms(v) /\ v.public \in RefPoints \cup {NoAffine}
      [] codec = "pkcs8" -> Pkcs8Fits(bytes, v) /\ v \in 1..(OrderN - 2)
      [] codec = "blob" -> bytes \in BlobForms(v) /\ v.iterations \in 1..MaxIterations
      [] codec = "pem" -> PemFits(bytes, v)
      [] codec \in {"cert", "mixedAlgs"} -> CertFits(bytes, v)
      [] OTHER -> TRUE

(* An encoding that arrives intact decodes to the value it was made from,  *)
(* but for a key sealed with more iterations than decrypt accepts or under *)
(* another password, and for a certificate that names its algorithm in two *)
(* forms; and whatever bytes a decoder accepts are an encoding  *)
(* of the value it returns: canonical DER, points on the curve, a scalar   *)
(* with its own public key, an unaltered sealed key.  A BOOLEAN in an      *)
(* extension of a certificate is not held to DER: as in the source, any    *)
(* octet but zero is TRUE, and FALSE may be written out.                   *)
CodecsStrict ==
    /\ wire.phase = "intact" =>
          IF wire.codec \in {"lockout", "wrongPassword", "mixedAlgs"} THEN ~wire.got.ok
          ELSE wire.got.ok /\ wire.got.rest = <<>> /\ Same(wire.codec, wire.got.v, wire.value)
    /\ wire.phase \in {"intact", "read"} /\ wire.got.ok =>
          /\ Fits(wire.codec, wire.bytes, wire.got.v, wire.got.rest)
          /\ wire.codec = "sealed" => wire.got.v = wire.value
=============================================================================
