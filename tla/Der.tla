-------------------------------- MODULE Der --------------------------------
(***************************************************************************)
(* The strict DER reader and writer.  A reader returns whether it          *)
(* succeeded, the value and the rest of the input.                         *)
(***************************************************************************)
EXTENDS Naturals, Sequences

LOCAL INSTANCE SequencesExt

MaxDerLen == 16777216

No == [ok |-> FALSE]
Got(v, rest) == [ok |-> TRUE, v |-> v, rest |-> rest]
Done(v) == Got(v, <<>>)
When(condition, r) == IF condition THEN r ELSE No
(* Go on with the value and the rest of a reading, or with the value of    *)
(* one that must have left no rest.                                        *)
Then(r, next(_, _)) == IF r.ok THEN next(r.v, r.rest) ELSE No
Only(r, next(_)) == IF r.ok /\ r.rest = <<>> THEN next(r.v) ELSE No
From(s, i) == SubSeq(s, i, Len(s))
BigEndian(bytes) == FoldLeft(LAMBDA v, b : 256 * v + b, 0, bytes)
Bytes(v, n) == [i \in 1..n |-> (v \div 256^(n - i)) % 256]

TagBoolean == 1
TagInteger == 2
TagBitString == 3
TagOctetString == 4
TagNull == 5
TagOid == 6
TagSequence == \h30
Explicit(n) == \hA0 + n
Implicit(n) == \h80 + n

ReadTag(s, tag) == IF s # <<>> /\ s[1] = tag THEN Got(tag, Tail(s)) ELSE No

(* Lengths: one byte below 128, else a count of one to three bytes, never  *)
(* more bytes than needed.                                                 *)
LeastOfForm == <<128, 256, 65536>>
MinimalLength(s, n) == Len(s) > n /\ BigEndian(SubSeq(s, 2, n + 1)) >= LeastOfForm[n]
ReadLength(s) ==
    IF s = <<>> THEN No
    ELSE IF s[1] < 128 THEN Got(s[1], Tail(s))
    ELSE IF s[1] \in 129..131 /\ MinimalLength(s, s[1] - 128)
         THEN Got(BigEndian(SubSeq(s, 2, s[1] - 127)), From(s, s[1] - 126))
    ELSE No

ReadTlv(s, tag) ==
    Then(ReadTag(s, tag), LAMBDA t, s1 :
    Then(ReadLength(s1), LAMBDA n, s2 :
        When(Len(s2) >= n, Got(SubSeq(s2, 1, n), From(s2, n + 1)))))

(* An optional element: none or one value; none costs nothing.             *)
Maybe(r, s) == IF r.ok THEN Got(<<r.v>>, r.rest) ELSE Got(<<>>, s)
Optional(s, tag) == Maybe(ReadTlv(s, tag), s)

ReadSequence(s) == ReadTlv(s, TagSequence)
ReadOctetString(s) == ReadTlv(s, TagOctetString)

(* Only non-negative integers; the pad byte of a high bit is stripped and  *)
(* any other leading zero is refused, but for zero itself.                 *)
ReadInteger(s) ==
    Then(ReadTlv(s, TagInteger), LAMBDA b, rest :
        CASE b = <<>> -> No
          [] b # <<>> /\ b[1] >= 128 -> No
          [] b # <<>> /\ (b[1] \in 1..127 \/ b = <<0>>) -> Got(b, rest)
          [] OTHER -> When(b[2] >= 128, Got(Tail(b), rest)))

ReadNull(s) == Then(ReadTlv(s, TagNull), LAMBDA v, rest : When(v = <<>>, Got(v, rest)))
ReadOid(s) ==
    Then(ReadTlv(s, TagOid), LAMBDA id, rest : When(id # <<>> /\ Last(id) < 128, Got(id, rest)))

(* The count of unused bits, and the bytes.                                *)
ReadBitString(s) ==
    Then(ReadTlv(s, TagBitString), LAMBDA v, rest :
        When(v # <<>> /\ v[1] <= 7, Got(<<v[1], Tail(v)>>, rest)))

(* No case for MaxDerLen and above: the writer panics.                     *)
WriteLength(n) ==
    CASE n < 128 -> <<n>>
      [] n \in 128..255 -> <<129>> \o Bytes(n, 1)
      [] n \in 256..65535 -> <<130>> \o Bytes(n, 2)
      [] n \in 65536..(MaxDerLen - 1) -> <<131>> \o Bytes(n, 3)
Tlv(tag, content) == <<tag>> \o WriteLength(Len(content)) \o content

(* Leading zeros go, but for the last byte; a high bit is padded.          *)
WriteInteger(bytes) ==
    LET significant == {i \in DOMAIN bytes : bytes[i] # 0} \cup {Len(bytes)}
        start == CHOOSE i \in significant : \A j \in significant : i <= j
        trimmed == From(bytes, start)
    IN  Tlv(TagInteger, IF trimmed[1] >= 128 THEN <<0>> \o trimmed ELSE trimmed)

WriteOctetString(v) == Tlv(TagOctetString, v)
WriteBitString(unused, v) == Tlv(TagBitString, <<unused>> \o v)
WriteNull == <<TagNull, 0>>
WriteOid(subids) == Tlv(TagOid, subids)
WriteSequence(body) == Tlv(TagSequence, body)

(***************************************************************************)
(* Object identifiers: the first two arcs share a byte, every other arc is *)
(* written in groups of seven bits with a mark on all but the last.        *)
(***************************************************************************)
ArcBytes(arc) ==
    LET n == CHOOSE k \in 1..5 : arc < 128^k /\ (k = 1 \/ arc >= 128^(k - 1))
    IN  [j \in 1..n |-> ((arc \div 128^(n - j)) % 128) + (IF j = n THEN 0 ELSE 128)]
OidOf(arcs) ==
    <<40 * arcs[1] + arcs[2]>> \o FlattenSeq([i \in 1..(Len(arcs) - 2) |-> ArcBytes(arcs[i + 2])])

IdEcPublicKey == OidOf(<<1, 2, 840, 10045, 2, 1>>)
Sm2P256V1 == OidOf(<<1, 2, 156, 10197, 1, 301>>)
Sm2SignWithSm3 == OidOf(<<1, 2, 156, 10197, 1, 501>>)
IdPbkdf2 == OidOf(<<1, 2, 840, 113549, 1, 5, 12>>)
Pbes2 == OidOf(<<1, 2, 840, 113549, 1, 5, 13>>)
IdHmacWithSm3 == OidOf(<<1, 2, 156, 10197, 1, 401, 2>>)
Sm4CbcOid == OidOf(<<1, 2, 156, 10197, 1, 104, 2>>)
KeyUsageOid == OidOf(<<2, 5, 29, 15>>)
BasicConstraintsOid == OidOf(<<2, 5, 29, 19>>)
=============================================================================
