------------------------------ MODULE CertDer ------------------------------
(***************************************************************************)
(* The certificate parser: from wire bytes to the spans and values that    *)
(* chain verification works with.  Names, identifiers and extension values *)
(* are kept as they came; what is signed is the exact span of the body.    *)
(***************************************************************************)
EXTENDS KeyCodecs

LOCAL INSTANCE SequencesExt

TagUtcTime == 23
TagGeneralizedTime == 24
Zulu == 90
Digits == 48..57

(* Two digits for a year before 2050 and after 1949, or four; never an     *)
(* offset or a fraction.                                                   *)
TimeOf(t, wide, rest) ==
    LET n == IF wide THEN 15 ELSE 13
        pair(i) == 10 * (t[n - i] - 48) + t[n - i + 1] - 48
        century == IF wide THEN 100 * pair(14) ELSE IF pair(12) >= 50 THEN 1900 ELSE 2000
    IN  When(/\ Len(t) = n
             /\ \A i \in 1..(n - 1) : t[i] \in Digits
             /\ t[n] = Zulu
             /\ pair(10) \in 1..12 /\ pair(8) \in 1..31
             /\ pair(6) <= 23 /\ pair(4) <= 59 /\ pair(2) <= 59,
             Got(<<century + pair(12), pair(10), pair(8), pair(6), pair(4), pair(2)>>, rest))
ReadTime(s) ==
    IF ReadTlv(s, TagUtcTime).ok
    THEN Then(ReadTlv(s, TagUtcTime), LAMBDA t, rest : TimeOf(t, FALSE, rest))
    ELSE Then(ReadTlv(s, TagGeneralizedTime), LAMBDA t, rest : TimeOf(t, TRUE, rest))

Span(s, rest) == SubSeq(s, 1, Len(s) - Len(rest))
ReadSpan(s) == Then(ReadSequence(s), LAMBDA v, rest : Got(Span(s, rest), rest))

(* The signature algorithm, as its whole span: no parameters or NULL.      *)
ReadSigAlg(s) ==
    Then(ReadAlgorithm(s, Sm2SignWithSm3), LAMBDA params, rest :
        When(params = <<>> \/ ReadNull(params) = Done(<<>>), Got(Span(s, rest), rest)))

(***************************************************************************)
(* Extensions.                                                             *)
(***************************************************************************)
NextExtension(s) ==
    Then(ReadSequence(s), LAMBDA ext, more :
    Then(ReadOid(ext), LAMBDA id, s1 :
    Then(Optional(s1, TagBoolean), LAMBDA flag, s2 :
    Only(ReadOctetString(s2), LAMBDA value :
        When(flag = <<>> \/ Len(flag[1]) = 1,
             Got([oid |-> id, critical |-> flag # <<>> /\ flag[1] # <<0>>, value |-> value], more))))))

Extensions(seq) ==
    LET walk[s \in {From(seq, i) : i \in 1..(Len(seq) + 1)}] ==
            IF s = <<>> THEN Done(<<>>)
            ELSE Then(NextExtension(s), LAMBDA e, more :
                 Then(walk[more], LAMBDA others, none : Done(<<e>> \o others)))
    IN  walk[seq]
ExtensionsShape(content) ==
    Only(ReadSequence(content), LAMBDA seq : When(seq # <<>>, Extensions(seq))).ok
ExtensionsOf(cert) ==
    IF cert.extensions = <<>> THEN <<>> ELSE Extensions(ReadSequence(cert.extensions).v).v

(* The first extension of that name.                                       *)
FirstMatch(exts, id) == SelectInSeq(exts, LAMBDA e : e.oid = id)
FirstValue(exts, id) ==
    LET i == FirstMatch(exts, id) IN IF i = 0 THEN No ELSE Done(exts[i].value)
FindExtension(cert, id) == FirstValue(ExtensionsOf(cert), id)

KnownExts == {KeyUsageOid, BasicConstraintsOid}
HasUnknownCritical(cert) ==
    \E e \in ToSet(ExtensionsOf(cert)) : e.critical /\ e.oid \notin KnownExts

KeyUsage(cert) ==
    Then(FindExtension(cert, KeyUsageOid), LAMBDA value, none :
    Only(ReadBitString(value), LAMBDA bits :
        Done({i \in 0..8 : /\ i \div 8 < Len(bits[2])
                           /\ (bits[2][1 + (i \div 8)] \div 2^(7 - (i % 8))) % 2 = 1})))

Constraints(flag, pathLen) ==
    When(flag = <<>> \/ Len(flag[1]) = 1,
         Done([isCa |-> flag # <<>> /\ flag[1] # <<0>>, pathLen |-> pathLen]))
BasicConstraints(cert) ==
    Then(FindExtension(cert, BasicConstraintsOid), LAMBDA value, none :
    Only(ReadSequence(value), LAMBDA seq :
    Then(Optional(seq, TagBoolean), LAMBDA flag, after :
        IF after = <<>> THEN Constraints(flag, {})
        ELSE Only(ReadInteger(after), LAMBDA len :
                When(Len(len) <= 4, Constraints(flag, {U32(len)}))))))

(***************************************************************************)
(* Certificate::from_der.                                                  *)
(***************************************************************************)
(* The two unique identifiers are skipped.                                 *)
ReadExtensions(s) == Optional(Skipping(Skipping(s, Implicit(1)), Implicit(2)), Explicit(3))
ReadValidity(s) ==
    Then(ReadTime(s), LAMBDA notBefore, s1 :
    Only(ReadTime(s1), LAMBDA notAfter : Done(<<notBefore, notAfter>>)))
ReadVersion(s) == Only(ReadInteger(s), LAMBDA v : When(v = <<2>>, Done(v)))
ReadBody(body) ==
    Then(ReadTlv(body, Explicit(0)), LAMBDA wrapper, s1 :
    Then(ReadInteger(s1), LAMBDA serial, s2 :
    Then(ReadSigAlg(s2), LAMBDA alg, s3 :
    Then(ReadSpan(s3), LAMBDA issuer, s4 :
    Then(ReadSequence(s4), LAMBDA times, s5 :
    Then(ReadValidity(times), LAMBDA validity, none :
    Then(ReadSpan(s5), LAMBDA subject, s6 :
    Then(ReadSpan(s6), LAMBDA spki, s7 :
    Then(DecodeSpki(spki), LAMBDA key, nothing :
    Only(ReadExtensions(s7), LAMBDA exts :
        When(/\ ReadVersion(wrapper).ok
             /\ Len(serial) \in 1..20
             /\ exts = <<>> \/ ExtensionsShape(exts[1]),
             Done([serial |-> serial, alg |-> alg, issuer |-> issuer, subject |-> subject,
                   notBefore |-> validity[1], notAfter |-> validity[2], key |-> key,
                   extensions |-> IF exts = <<>> THEN <<>> ELSE exts[1]]))))))))))))

AnyAlg(outer, inner) == TRUE
SameAlg(outer, inner) == outer = inner
FromDer(der) ==
    Only(ReadSequence(der), LAMBDA cert :
    Then(ReadSpan(cert), LAMBDA tbs, s1 :
    Then(ReadBody(ReadSequence(tbs).v), LAMBDA body, none :
    Then(ReadSigAlg(s1), LAMBDA outer, s2 :
    Only(ReadBitString(s2), LAMBDA sig :
        When(SameAlg(outer, body.alg) /\ sig[1] = 0,
             Done([tbs |-> tbs, sig |-> sig[2]] @@ body)))))))

SubjectIsEmpty(cert) == ReadSequence(cert.subject).v = <<>>
IsSelfIssued(cert) == cert.issuer = cert.subject
=============================================================================
