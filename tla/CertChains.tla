----------------------------- MODULE CertChains -----------------------------
(***************************************************************************)
(* verify_chain (x509.rs) and verify_pair (tlcp/chain.rs) in the world     *)
(* they judge: authorities that issue certificates, of whatever shape, but *)
(* full CA certificates only to authorities, and key holders who sign      *)
(* certificates on their own.  The verifier may be shown any sequence of   *)
(* the certificates in existence.                                          *)
(***************************************************************************)
EXTENDS Naturals, Sequences, FiniteSets

CONSTANTS
    Authority,      \* key of an authority -> its Name
    Registered,     \* key of an authority -> the <<subject, key>> it vouches for
    Rogues,         \* keys whose holders sign what they like
    Claims,         \* the <<subject, issuer>> that rogues write
    ShapesOf,       \* subject -> shapes of certificates made for it
    Anchors,        \* the certificates the verifier declares trusted
    Times,          \* comparison times
    MaxChainDepth,  \* 8 in the code
    MaxCerts,       \* bound: certificates in existence
    NoTime,         \* at_time = None
    Empty           \* the empty subject Name

ASSUME DepthAssumption == MaxChainDepth \in 1..8
(* Trust is well placed: an anchor's key is an authority's, and the keys   *)
(* that sign what they like are not.                                       *)
ASSUME TrustAssumption ==
    /\ Len(Anchors) \in Nat
    /\ \A a \in 1..Len(Anchors) : Anchors[a].key \in DOMAIN Authority
    /\ Rogues \cap DOMAIN Authority = {}

VARIABLE certs    \* the certificates in existence
cvars == <<certs>>

Authorities == DOMAIN Authority

(* What Certificate keeps, signer standing for the signature: a signature  *)
(* verifies under exactly one key.  A shape is what the extensions and the *)
(* validity say: ca, usage (bits of keyUsage), from, until, and odd, an    *)
(* unknown critical extension.                                             *)
Cert(subject, key, issuer, signer, shape) ==
    [subject |-> subject, key |-> key, issuer |-> issuer, signer |-> signer, shape |-> shape]

Tbs(c) == <<c.subject, c.key, c.issuer, c.shape>>
VerifySignature(c, key) == c.signer = key

WithinWindow(c, at) == at = NoTime \/ (c.shape.from <= at /\ at <= c.shape.until)

(* Mutant: keyCertSign alone makes an issuer. *)
UsageCaIssuer(c) == "keyCertSign" \in c.shape.usage
IsCaIssuer(c) == c.shape.ca /\ "keyCertSign" \in c.shape.usage

(* Mutant: the first anchor of the Name decides. *)
FirstAnchored(top, anchors, at) ==
    \E a \in 1..Len(anchors) :
        /\ anchors[a].subject = top.issuer
        /\ \A b \in 1..(a - 1) : anchors[b].subject # top.issuer
        /\ WithinWindow(anchors[a], at)
        /\ VerifySignature(top, anchors[a].key)
(* The top edge: any anchor of the issuer's Name whose key signed. *)
Anchored(top, anchors, at) ==
    \E a \in 1..Len(anchors) :
        /\ anchors[a].subject = top.issuer
        /\ WithinWindow(anchors[a], at)
        /\ VerifySignature(top, anchors[a].key)

VerifyChain(chain, anchors, at) ==
    /\ Len(chain) \in 1..MaxChainDepth
    /\ \A i \in 1..Len(chain) : ~chain[i].shape.odd /\ WithinWindow(chain[i], at)
    /\ \A i \in 1..(Len(chain) - 1) :
         /\ chain[i].issuer = chain[i + 1].subject
         /\ VerifySignature(chain[i], chain[i + 1].key)
         /\ IsCaIssuer(chain[i + 1])
    /\ Anchored(chain[Len(chain)], anchors, at)

(* Mutant: zip alone, which stops at the end of the shorter chain. *)
ZippedIssuers(s, e) ==
    \A i \in 2..Len(s) : i <= Len(e) => Tbs(s[i]) = Tbs(e[i])
(* Both legs above the leaf: equal length, byte-equal tbs. *)
SameIssuers(s, e) == Len(s) = Len(e) /\ \A i \in 2..Len(s) : Tbs(s[i]) = Tbs(e[i])

VerifyPair(s, e, anchors, at) ==
    /\ s # <<>> /\ e # <<>>
    /\ "digitalSignature" \in s[1].shape.usage
    /\ e[1].shape.usage \cap {"keyEncipherment", "keyAgreement"} # {}
    /\ ~s[1].shape.ca /\ ~e[1].shape.ca
    /\ s[1].subject # Empty
    /\ s[1].subject = e[1].subject /\ s[1].issuer = e[1].issuer
    /\ SameIssuers(s, e)
    /\ VerifyChain(s, anchors, at) /\ VerifyChain(e, anchors, at)

(***************************************************************************)
(* The world.                                                              *)
(***************************************************************************)
CInit == certs = {}

Publish(c) == certs' = certs \cup {c}

(* An authority certifies what it has registered, in any shape, careless   *)
(* ones included: CA without keyCertSign, keyCertSign without CA.  Both    *)
(* together only to authorities.                                           *)
Issue(authority, subject, key, shape) ==
    /\ <<subject, key>> \in Registered[authority]
    /\ shape.ca /\ "keyCertSign" \in shape.usage => key \in Authorities
    /\ Publish(Cert(subject, key, Authority[authority], authority, shape))

(* Anyone else signs any claim about its own key, under any issuer's Name. *)
Forge(rogue, subject, issuer, shape) ==
    /\ <<subject, issuer>> \in Claims
    /\ Publish(Cert(subject, rogue, issuer, rogue, shape))

CNext ==
    /\ Cardinality(certs) < MaxCerts
    /\ \/ \E k \in Authorities : \E p \in Registered[k] : \E shape \in ShapesOf[p[1]] :
             Issue(k, p[1], p[2], shape)
       \/ \E k \in Rogues, p \in Claims : \E shape \in ShapesOf[p[1]] : Forge(k, p[1], p[2], shape)

CSpec == CInit /\ [][CNext]_cvars

(***************************************************************************)
(* Properties.  A presented chain is any sequence of different existing    *)
(* certificates, with any comparison time.                                 *)
(***************************************************************************)
Chains == UNION {{c \in [1..n -> certs] : \A i, j \in 1..n : i # j => c[i] # c[j]} :
                    n \in 1..MaxChainDepth}
AllTimes == Times \cup {NoTime}

(* verify_chain: every certificate of an accepted chain, leaf and top      *)
(* included, was issued by an authority that registered its subject under  *)
(* that key, is within its window and has no critical extension it does    *)
(* not know: no forger's key ever vouches for anything, and no loop of the *)
(* verifier leaves a certificate out.                                      *)
AcceptedIsVouched ==
    \A chain \in Chains, at \in AllTimes :
        VerifyChain(chain, Anchors, at) =>
            \A i \in 1..Len(chain) :
                /\ chain[i].signer \in Authorities
                /\ <<chain[i].subject, chain[i].key>> \in Registered[chain[i].signer]
                /\ chain[i].issuer = Authority[chain[i].signer]
                /\ ~chain[i].shape.odd
                /\ at # NoTime => chain[i].shape.from <= at /\ at <= chain[i].shape.until

(* verify_chain: anchors are independent.  A chain is accepted with a list *)
(* of anchors exactly when it is with one of them alone, so that neither   *)
(* their order nor another anchor of the same Name (a key rollover) hides  *)
(* the one that signed.                                                    *)
AnchorsIndependent ==
    \A chain \in Chains, at \in AllTimes :
        VerifyChain(chain, Anchors, at) <=>
            \E a \in 1..Len(Anchors) : VerifyChain(chain, <<Anchors[a]>>, at)

(* verify_pair: the two leaves of an accepted pair carry one subject that  *)
(* one authority, the same key, registered for both keys; not merely two   *)
(* authorities of one Name.  At length one, that is so for anchors whose   *)
(* Names differ (the residual that chain.rs documents).                    *)
PairHasOneIssuer ==
    \A s, e \in Chains, at \in {NoTime} :
        /\ VerifyPair(s, e, Anchors, at)
        /\ Len(s) > 1 \/ \A a, b \in 1..Len(Anchors) :
                Anchors[a].subject = s[1].issuer /\ Anchors[b].subject = s[1].issuer
                    => Anchors[a].key = Anchors[b].key
        => /\ s[1].signer = e[1].signer
           /\ {<<s[1].subject, s[1].key>>, <<e[1].subject, e[1].key>>}
                  \subseteq Registered[s[1].signer]
=============================================================================
