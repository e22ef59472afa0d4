---------------------------- MODULE CallsProofs ----------------------------
(***************************************************************************)
(* Proofs about the parts whose calls run to completion on state of their  *)
(* own.  DigestHandles, for every set of keys, messages of every length    *)
(* and every order of calls: the handles give the digest of the bytes they *)
(* were fed.  KeyDerivation, for any length of digest, iterations and      *)
(* output: every byte is the definition's.  CAbi, for any number of        *)
(* handles and buffers of any length: a refused call shows nothing, a      *)
(* short buffer can be told from other failures, and what is allocated is  *)
(* what the caller owns.                                                   *)
(***************************************************************************)
EXTENDS DigestHandles, KeyDerivation, CAbi, FiniteSetTheorems, Sm3Proofs

(***************************************************************************)
(* DigestHandles                                                           *)
(***************************************************************************)
(* The bytes of a caller's message. *)
MessageBytes == {<<"message", k>> : k \in Nat}

(* A message is a sequence of them. *)
LEMMA MessageFacts ==
    ASSUME NEW n \in Nat
    PROVE  /\ Message(n) \in Seq(MessageBytes)
           /\ Message(0) = <<>>
  BY DEF Message, MessageBytes

(* The next chunk runs on from the bytes fed. *)
LEMMA MessageExtends ==
    ASSUME NEW n \in Nat, fed \in Nat
    PROVE  /\ Chunk(n) \in Seq(MessageBytes)
           /\ Message(fed) \o Chunk(n) = Message(fed + n)
<1>. DEFINE u == Message(fed)  v == Chunk(n)
<1>1. u \in Seq(MessageBytes) /\ Len(u) = fed /\ u = [k \in 1..fed |-> <<"message", k>>]
  BY DEF Message, MessageBytes
<1>2. v \in Seq(MessageBytes) /\ Len(v) = n /\ v = [k \in 1..n |-> <<"message", fed + k>>]
  BY DEF Chunk, MessageBytes
<1>. HIDE DEF u, v
<1>3. u \o v = [k \in 1..(fed + n) |-> IF k <= fed THEN u[k] ELSE v[k - fed]]
  BY <1>1, <1>2
<1>4. ASSUME NEW k \in 1..(fed + n) PROVE (IF k <= fed THEN u[k] ELSE v[k - fed]) = <<"message", k>>
  <2>1. CASE k <= fed
    BY <1>1, <2>1
  <2>2. CASE ~(k <= fed)
    <3>1. k - fed \in 1..n /\ fed + (k - fed) = k
      BY <2>2
    <3>2. v[k - fed] = <<"message", fed + (k - fed)>>
      BY <1>2, <3>1
    <3>. QED BY <2>2, <3>1, <3>2
  <2>. QED BY <2>1, <2>2
<1>. QED BY <1>2, <1>3, <1>4 DEF Message, u, v

(***************************************************************************)
(* The handles: while a caller owns a handle its object holds the bytes of *)
(* the successful updates, and nothing has been written yet.               *)
(***************************************************************************)
ObjectHolds ==
    /\ kind = "sm3" => Holds(inner, Message(fed))
    /\ kind = "hmac" => HmacHolds(inner, key, Message(fed))

DInv ==
    /\ fed \in Nat
    /\ kind \in {"none", "sm3", "hmac"}
    /\ kind = "hmac" => key \in Keys
    /\ box = "none" => fed = 0 /\ ~owns /\ out = None /\ asked = None
    /\ owns => /\ box = "live" /\ kind # "none"
               /\ ObjectHolds
               /\ out = None /\ asked = None
    /\ DigestIsReference
    /\ VerifyExact

(* The initial states satisfy the invariant. *)
LEMMA InvInit == DInit => DInv
  BY DEF DInit, DInv, DigestIsReference, VerifyExact

(* Every call keeps it: no call but finalize and verify writes, and those  *)
(* take the handle away, so that what they wrote stays what it was.        *)
LEMMA InvStep == DInv /\ [DNext]_dvars => DInv'
<1>. SUFFICES ASSUME DInv, [DNext]_dvars PROVE DInv'
  OBVIOUS
<1>. USE DEF DInv
<1>1. CASE CSm3New
  <2>1. ObjectHolds'
    BY <1>1, NewHolds, MessageFacts DEF CSm3New, ObjectHolds
  <2>. QED BY <1>1, <2>1 DEF CSm3New, DigestIsReference, VerifyExact
<1>2. ASSUME NEW k \in Keys, NEW null \in BOOLEAN, CHmacNew(k, null) PROVE DInv'
  <2>1. CASE null /\ k # <<>>
    BY <1>2, <2>1 DEF CHmacNew, DigestIsReference, VerifyExact
  <2>2. CASE ~(null /\ k # <<>>)
    <3>1. ObjectHolds'
      <4>1. k \in Seq({k[i] : i \in DOMAIN k})
        BY DigestAssumption
      <4>2. HmacHolds(HmacNew(k), k, <<>>)
        BY <4>1, HmacNewHolds
      <4>3. kind' = "hmac" /\ key' = k /\ inner' = HmacNew(k) /\ fed' = 0
        BY <1>2, <2>2 DEF CHmacNew
      <4>. QED BY <4>2, <4>3, MessageFacts DEF ObjectHolds, Message
    <3>. QED BY <1>2, <2>2, <3>1 DEF CHmacNew, DigestIsReference, VerifyExact
  <2>. QED BY <2>1, <2>2
<1>3. ASSUME NEW n \in 0..MaxFed, NEW null \in BOOLEAN, CUpdate(n, null) PROVE DInv'
  <2>1. CASE null /\ n > 0
    BY <1>3, <2>1 DEF CUpdate, DigestIsReference, VerifyExact, ObjectHolds, Reference
  <2>2. CASE ~(null /\ n > 0)
    <3>1. /\ owns /\ inner' = Absorbed(Chunk(n)) /\ fed' = fed + n
          /\ UNCHANGED <<kind, key, box, owns, out, asked, verdict>>
      BY <1>3, <2>2 DEF CUpdate
    <3>2. /\ n \in Nat /\ Chunk(n) \in Seq(MessageBytes) /\ Message(fed) \in Seq(MessageBytes)
          /\ Message(fed) \o Chunk(n) = Message(fed')
      <4>1. n \in Nat
        BY DigestAssumption
      <4>2. Chunk(n) \in Seq(MessageBytes) /\ Message(fed) \o Chunk(n) = Message(fed + n)
        BY <4>1, MessageExtends
      <4>. QED BY <3>1, <4>1, <4>2, MessageFacts
    <3>3. ObjectHolds'
      <4>1. CASE kind = "sm3"
        BY <3>1, <3>2, <4>1, UpdateHolds DEF ObjectHolds, Absorbed
      <4>2. CASE kind = "hmac"
        BY <3>1, <3>2, <4>2, HmacUpdateHolds DEF ObjectHolds, Absorbed
      <4>. QED BY <3>1, <4>1, <4>2
    <3>. QED BY <3>1, <3>2, <3>3 DEF DigestIsReference, VerifyExact
  <2>. QED BY <2>1, <2>2
<1>4. ASSUME NEW null \in BOOLEAN, CFinalize(null) PROVE DInv'
  <2>1. CASE null
    BY <1>4, <2>1 DEF CFinalize, DigestIsReference, VerifyExact, Reference
  <2>2. CASE ~null
    <3>1. out' = Reference'
      <4>1. Message(fed) \in Seq(MessageBytes)
        BY MessageFacts
      <4>2. CASE kind = "sm3"
        BY <1>4, <2>2, <4>1, <4>2, FinalizeIsHash DEF CFinalize, ObjectHolds, Reference
      <4>3. CASE kind = "hmac"
        BY <1>4, <2>2, <4>1, <4>3, HmacFinalizeIsRefHmac DEF CFinalize, ObjectHolds, Reference
      <4>. QED BY <1>4, <4>2, <4>3 DEF CFinalize
    <3>. QED BY <1>4, <2>2, <3>1 DEF CFinalize, DigestIsReference, VerifyExact
  <2>. QED BY <2>1, <2>2
<1>5. ASSUME NEW tag, NEW null \in BOOLEAN, CVerify(tag, null) PROVE DInv'
  <2>1. CASE null
    BY <1>5, <2>1 DEF CVerify, DigestIsReference, VerifyExact, Reference
  <2>2. CASE ~null
    <3>1. HmacFinalize(inner) = RefHmac(key, Message(fed))
      <4>1. Message(fed) \in Seq(MessageBytes)
        BY MessageFacts
      <4>. QED BY <1>5, <4>1, HmacFinalizeIsRefHmac DEF CVerify, ObjectHolds
    <3>. QED BY <1>5, <2>2, <3>1 DEF CVerify, DigestIsReference, VerifyExact
  <2>. QED BY <2>1, <2>2
<1>6. CASE CFree
  BY <1>6 DEF CFree, DigestIsReference, VerifyExact, Reference
<1>7. CASE UNCHANGED dvars
  BY <1>7 DEF dvars, DigestIsReference, VerifyExact, Reference, ObjectHolds
<1>. QED BY <1>1, <1>2, <1>3, <1>4, <1>5, <1>6, <1>7 DEF DNext

(* Whatever is fed, in whatever chunks and with whatever refused calls in  *)
(* between, what gmcrypto_sm3_finalize and gmcrypto_hmac_sm3_finalize      *)
(* write is the standard's digest, or MAC, of the bytes fed.               *)
THEOREM DigestsAreReference == DSpec => []DigestIsReference
<1>1. DInv => DigestIsReference
  BY DEF DInv
<1>. QED BY InvInit, InvStep, <1>1, PTL DEF DSpec

(* gmcrypto_hmac_sm3_verify answers "match" exactly for the MAC of the     *)
(* bytes fed under the handle's key.                                       *)
THEOREM VerifyIsExact == DSpec => []VerifyExact
<1>1. DInv => VerifyExact
  BY DEF DInv
<1>. QED BY InvInit, InvStep, <1>1, PTL DEF DSpec

-----------------------------------------------------------------------------
(***************************************************************************)
(* KeyDerivation.  Chains of HMACs: each link the code of the one before.  *)
(***************************************************************************)
IsLinks(f, n, secret, seed) ==
    f = [k \in 1..n |-> Hmac(secret, IF k = 1 THEN seed ELSE Again(f[k - 1]))]

(* There is one of every length.                                           *)
LEMMA LinksExist ==
    ASSUME NEW n \in Nat, NEW secret, NEW seed
    PROVE  \E f : IsLinks(f, n, secret, seed)
<1>. DEFINE S == {m \in Nat : \E f : IsLinks(f, m, secret, seed)}
<1>1. 0 \in S
  <2>. DEFINE g == [k \in 1..0 |-> seed]
  <2>1. IsLinks(g, 0, secret, seed)
    BY DEF IsLinks
  <2>. QED BY <2>1
<1>2. ASSUME NEW m \in Nat, m \in S PROVE m + 1 \in S
  <2>1. PICK f : f = [k \in 1..m |-> Hmac(secret, IF k = 1 THEN seed ELSE Again(f[k - 1]))]
    BY <1>2 DEF IsLinks
  <2>. DEFINE g == [k \in 1..(m + 1) |->
                      IF k = m + 1 THEN Hmac(secret, IF k = 1 THEN seed ELSE Again(f[k - 1]))
                      ELSE f[k]]
  <2>2. \A k \in 1..m : k \in 1..(m + 1) /\ g[k] = f[k]
    OBVIOUS
  <2>3. ASSUME NEW k \in 1..(m + 1)
        PROVE  g[k] = Hmac(secret, IF k = 1 THEN seed ELSE Again(g[k - 1]))
    <3>1. k # 1 => k - 1 \in 1..m /\ g[k - 1] = f[k - 1]
      BY <2>2
    <3>2. CASE k = m + 1
      <4>1. g[k] = Hmac(secret, IF k = 1 THEN seed ELSE Again(f[k - 1]))
        BY <3>2
      <4>. HIDE DEF g
      <4>. QED BY <3>1, <4>1
    <3>3. CASE k # m + 1
      <4>1. k \in 1..m
        BY <3>3
      <4>2. g[k] = f[k] /\ f[k] = Hmac(secret, IF k = 1 THEN seed ELSE Again(f[k - 1]))
        BY <4>1, <2>1, <2>2
      <4>. HIDE DEF g
      <4>. QED BY <3>1, <4>2
    <3>. QED BY <3>2, <3>3
  <2>4. g = [k \in 1..(m + 1) |-> Hmac(secret, IF k = 1 THEN seed ELSE Again(g[k - 1]))]
    <3>1. DOMAIN g = 1..(m + 1) /\ g = [k \in 1..(m + 1) |-> g[k]]
      OBVIOUS
    <3>. HIDE DEF g
    <3>. QED BY <3>1, <2>3
  <2>5. IsLinks(g, m + 1, secret, seed)
    BY <2>4 DEF IsLinks
  <2>. HIDE DEF g
  <2>. QED BY <2>5
<1>. HIDE DEF S
<1>3. Nat \subseteq S
  BY <1>1, <1>2, NatClosure
<1>. QED BY <1>3 DEF S

(* A link depends only on the links before it.                             *)
LEMMA LinksAgree ==
    ASSUME NEW n \in Nat, NEW m \in Nat, NEW secret, NEW seed,
           NEW f, IsLinks(f, n, secret, seed), NEW g, IsLinks(g, m, secret, seed)
    PROVE  \A k \in Nat : k \in 1..n /\ k \in 1..m => f[k] = g[k]
<1>. DEFINE S == {k \in Nat : k \in 1..n /\ k \in 1..m => f[k] = g[k]}
<1>1. 0 \in S
  OBVIOUS
<1>2. ASSUME NEW k \in Nat, k \in S PROVE k + 1 \in S
  <2>. SUFFICES ASSUME k + 1 \in 1..n, k + 1 \in 1..m PROVE f[k + 1] = g[k + 1]
    OBVIOUS
  <2>1. f[k + 1] = Hmac(secret, IF k + 1 = 1 THEN seed ELSE Again(f[(k + 1) - 1]))
    BY DEF IsLinks
  <2>2. g[k + 1] = Hmac(secret, IF k + 1 = 1 THEN seed ELSE Again(g[(k + 1) - 1]))
    BY DEF IsLinks
  <2>3. k + 1 # 1 => f[k] = g[k] /\ (k + 1) - 1 = k
    BY <1>2
  <2>. QED BY <2>1, <2>2, <2>3
<1>. HIDE DEF S
<1>3. Nat \subseteq S
  BY <1>1, <1>2, NatClosure
<1>. QED BY <1>3 DEF S

(* RefA is the links of its chain: A(i + 1) is the code of A(i).           *)
LEMMA RefAIs ==
    ASSUME NEW secret, NEW seed, NEW i \in Nat \ {0}
    PROVE  /\ RefA(secret, seed, 1) = Hmac(secret, seed)
           /\ RefA(secret, seed, i + 1) = Hmac(secret, Again(RefA(secret, seed, i)))
<1>1. ASSUME NEW n \in Nat PROVE \E f : IsLinks(f, n, secret, seed) /\ RefA(secret, seed, n) = f[n]
  <2>. DEFINE P(f) == f = [k \in 1..n |-> Hmac(secret, IF k = 1 THEN seed ELSE Again(f[k - 1]))]
              a == CHOOSE f : P(f)
  <2>1. RefA(secret, seed, n) = a[n]
    BY DEF RefA
  <2>2. \A f : P(f) <=> IsLinks(f, n, secret, seed)
    BY DEF IsLinks
  <2>. HIDE DEF P
  <2>3. P(a)
    BY <2>2, LinksExist
  <2>. HIDE DEF a
  <2>. QED BY <2>1, <2>2, <2>3
<1>2. PICK f : IsLinks(f, 1, secret, seed) /\ RefA(secret, seed, 1) = f[1]
  BY <1>1
<1>3. PICK g : IsLinks(g, i, secret, seed) /\ RefA(secret, seed, i) = g[i]
  BY <1>1
<1>4. PICK h : IsLinks(h, i + 1, secret, seed) /\ RefA(secret, seed, i + 1) = h[i + 1]
  BY <1>1
<1>5. f[1] = Hmac(secret, seed)
  BY <1>2 DEF IsLinks
<1>6. h[i + 1] = Hmac(secret, Again(h[i]))
  <2>1. i + 1 \in 1..(i + 1) /\ i + 1 # 1 /\ (i + 1) - 1 = i
    OBVIOUS
  <2>2. h[i + 1] = Hmac(secret, IF i + 1 = 1 THEN seed ELSE Again(h[(i + 1) - 1]))
    BY <1>4, <2>1 DEF IsLinks
  <2>. QED BY <2>1, <2>2
<1>7. h[i] = g[i]
  <2>1. i \in Nat /\ i + 1 \in Nat /\ i \in 1..i /\ i \in 1..(i + 1)
    OBVIOUS
  <2>. QED BY <1>3, <1>4, <2>1, LinksAgree
<1>. QED BY <1>2, <1>3, <1>4, <1>5, <1>6, <1>7

(* RefU is a chain under the password.                                     *)
LEMMA RefUIs ==
    ASSUME NEW c \in Nat, NEW i
    PROVE  IsLinks(RefU(c, i), c, "password", <<"salt", i>>)
<1>. DEFINE P(f) == f = [k \in 1..c |->
                           Hmac("password", IF k = 1 THEN <<"salt", i>> ELSE Again(f[k - 1]))]
            u == CHOOSE f : P(f)
<1>1. RefU(c, i) = [k \in 1..c |-> u[k]]
  BY DEF RefU
<1>2. \A f : P(f) <=> IsLinks(f, c, "password", <<"salt", i>>)
  BY DEF IsLinks
<1>. HIDE DEF P
<1>3. P(u)
  BY <1>2, LinksExist
<1>. HIDE DEF u
<1>4. u = [k \in 1..c |-> u[k]]
  BY <1>3 DEF P
<1>. QED BY <1>1, <1>2, <1>3, <1>4

(***************************************************************************)
(* PBKDF2's sum of a chain of HMACs.                                       *)
(***************************************************************************)
(* x occurs an odd number of times in the first k links of f.              *)
Places(f, k, x) == {j \in 1..k : x \in f[j]}
Oddly(f, k, x) == Cardinality(Places(f, k, x)) % 2 = 1

(* The next link with x in it changes the parity.                          *)
LEMMA OddlyNext ==
    ASSUME NEW f, NEW x, NEW k \in Nat
    PROVE  /\ ~Oddly(f, 0, x)
           /\ Oddly(f, k + 1, x) <=> (Oddly(f, k, x) <=> x \notin f[k + 1])
<1>. DEFINE s == Places(f, k, x)  t == Places(f, k + 1, x)
<1>1. Places(f, 0, x) = {} /\ s \subseteq 1..k /\ k + 1 \notin s
  BY DEF Places
<1>0. ~Oddly(f, 0, x)
  <2>1. Cardinality(Places(f, 0, x)) = 0
    BY <1>1, FS_EmptySet
  <2>2. 0 % 2 # 1
    OBVIOUS
  <2>. QED BY <2>1, <2>2 DEF Oddly
<1>2. IsFiniteSet(s) /\ Cardinality(s) \in Nat
  <2>1. IsFiniteSet(1..k)
    BY FS_Interval
  <2>2. s \in SUBSET (1..k)
    BY <1>1
  <2>3. IsFiniteSet(s)
    BY <2>1, <2>2, FS_Subset
  <2>. QED BY <2>3, FS_CardinalityType
<1>3. CASE x \in f[k + 1]
  <2>1. t = s \cup {k + 1}
    BY <1>3 DEF Places
  <2>2. Cardinality(t) = Cardinality(s) + 1
    <3>. HIDE DEF s, t
    <3>. QED BY <1>1, <1>2, <2>1, FS_AddElement
  <2>3. Cardinality(t) % 2 = 1 <=> Cardinality(s) % 2 # 1
    <3>. DEFINE n == Cardinality(s)
    <3>1. n \in Nat
      BY <1>2
    <3>. HIDE DEF n
    <3>2. (n + 1) % 2 = 1 <=> n % 2 # 1
      BY <3>1
    <3>. QED BY <2>2, <3>2 DEF n
  <2>. QED BY <1>0, <1>3, <2>3 DEF Oddly
<1>4. CASE x \notin f[k + 1]
  <2>1. t = s
    BY <1>4 DEF Places
  <2>. QED BY <1>0, <1>4, <2>1 DEF Oddly
<1>. QED BY <1>3, <1>4

(* The loop of pbkdf2_hmac_sm3: the current link and the sum so far.       *)
FirstStep(scratch) == [u |-> Hmac("password", scratch), t |-> Hmac("password", scratch)]
NextStep(p) == [u |-> Hmac("password", Again(p.u)),
                t |-> XorTerms(p.t, Hmac("password", Again(p.u)))]
IsSteps(g, c, scratch) ==
    g = [i \in 1..c |-> IF i = 1 THEN FirstStep(scratch) ELSE NextStep(g[i - 1])]

(* There is a loop of every length.                                        *)
LEMMA StepsExist ==
    ASSUME NEW c \in Nat, NEW scratch
    PROVE  \E g : IsSteps(g, c, scratch)
<1>. DEFINE S == {m \in Nat : \E f : IsSteps(f, m, scratch)}
<1>1. 0 \in S
  <2>. DEFINE g == [k \in 1..0 |-> scratch]
  <2>1. IsSteps(g, 0, scratch)
    BY DEF IsSteps
  <2>. QED BY <2>1
<1>2. ASSUME NEW m \in Nat, m \in S PROVE m + 1 \in S
  <2>1. PICK f : f = [k \in 1..m |-> IF k = 1 THEN FirstStep(scratch) ELSE NextStep(f[k - 1])]
    BY <1>2 DEF IsSteps
  <2>. DEFINE g == [k \in 1..(m + 1) |->
                      IF k = m + 1 THEN IF k = 1 THEN FirstStep(scratch) ELSE NextStep(f[k - 1])
                      ELSE f[k]]
  <2>2. \A k \in 1..m : k \in 1..(m + 1) /\ g[k] = f[k]
    OBVIOUS
  <2>3. ASSUME NEW k \in 1..(m + 1)
        PROVE  g[k] = IF k = 1 THEN FirstStep(scratch) ELSE NextStep(g[k - 1])
    <3>1. k # 1 => k - 1 \in 1..m /\ g[k - 1] = f[k - 1]
      BY <2>2
    <3>2. CASE k = m + 1
      <4>1. g[k] = IF k = 1 THEN FirstStep(scratch) ELSE NextStep(f[k - 1])
        BY <3>2
      <4>. HIDE DEF g
      <4>. QED BY <3>1, <4>1
    <3>3. CASE k # m + 1
      <4>1. k \in 1..m
        BY <3>3
      <4>2. g[k] = f[k] /\ f[k] = IF k = 1 THEN FirstStep(scratch) ELSE NextStep(f[k - 1])
        BY <4>1, <2>1, <2>2
      <4>. HIDE DEF g
      <4>. QED BY <3>1, <4>2
    <3>. QED BY <3>2, <3>3
  <2>4. g = [k \in 1..(m + 1) |-> IF k = 1 THEN FirstStep(scratch) ELSE NextStep(g[k - 1])]
    <3>1. g = [k \in 1..(m + 1) |-> g[k]]
      OBVIOUS
    <3>. HIDE DEF g
    <3>. QED BY <3>1, <2>3
  <2>5. IsSteps(g, m + 1, scratch)
    BY <2>4 DEF IsSteps
  <2>. HIDE DEF g
  <2>. QED BY <2>5
<1>. HIDE DEF S
<1>3. Nat \subseteq S
  BY <1>1, <1>2, NatClosure
<1>. QED BY <1>3 DEF S

(* At step k the loop holds link k, and the sum of the links so far.       *)
LEMMA StepsAre ==
    ASSUME NEW c \in Nat, NEW scratch, NEW g, IsSteps(g, c, scratch),
           NEW f, IsLinks(f, c, "password", scratch)
    PROVE  \A k \in Nat : k \in 1..c => g[k].u = f[k] /\ \A x : x \in g[k].t <=> Oddly(f, k, x)
<1>. DEFINE S == {k \in Nat : k \in 1..c =>
                    g[k].u = f[k] /\ \A x : x \in g[k].t <=> Oddly(f, k, x)}
<1>1. 0 \in S
  OBVIOUS
<1>2. ASSUME NEW k \in Nat, k \in S PROVE k + 1 \in S
  <2>. SUFFICES ASSUME k + 1 \in 1..c
                PROVE  g[k + 1].u = f[k + 1] /\ \A x : x \in g[k + 1].t <=> Oddly(f, k + 1, x)
    OBVIOUS
  <2>1. f[k + 1] = Hmac("password", IF k + 1 = 1 THEN scratch ELSE Again(f[(k + 1) - 1]))
    BY DEF IsLinks
  <2>2. g[k + 1] = IF k + 1 = 1 THEN FirstStep(scratch) ELSE NextStep(g[(k + 1) - 1])
    BY DEF IsSteps
  <2>3. CASE k = 0
    <3>1. f[k + 1] = Hmac("password", scratch) /\ g[k + 1] = FirstStep(scratch)
      BY <2>1, <2>2, <2>3
    <3>2. g[k + 1].u = f[k + 1] /\ g[k + 1].t = f[k + 1]
      BY <3>1 DEF FirstStep
    <3>3. ASSUME NEW x PROVE x \in f[k + 1] <=> Oddly(f, k + 1, x)
      BY <2>3, OddlyNext
    <3>. QED BY <3>2, <3>3
  <2>4. CASE k # 0
    <3>1. k \in 1..c /\ k + 1 # 1 /\ (k + 1) - 1 = k
      BY <2>4
    <3>2. f[k + 1] = Hmac("password", Again(f[k])) /\ g[k + 1] = NextStep(g[k])
      BY <2>1, <2>2, <3>1
    <3>3. g[k].u = f[k] /\ \A x : x \in g[k].t <=> Oddly(f, k, x)
      BY <1>2, <3>1
    <3>4. g[k + 1].u = f[k + 1] /\ g[k + 1].t = XorTerms(g[k].t, f[k + 1])
      BY <3>2, <3>3 DEF NextStep
    <3>5. ASSUME NEW x PROVE x \in g[k + 1].t <=> Oddly(f, k + 1, x)
      <4>1. x \in g[k + 1].t <=> (x \in g[k].t <=> x \notin f[k + 1])
        BY <3>4 DEF XorTerms
      <4>. QED BY <4>1, <3>3, OddlyNext
    <3>. QED BY <3>4, <3>5
  <2>. QED BY <2>3, <2>4
<1>. HIDE DEF S
<1>3. Nat \subseteq S
  BY <1>1, <1>2, NatClosure
<1>. QED BY <1>3 DEF S

(* A block of PBKDF2 is the sum of its definition.                         *)
LEMMA ChainIsRefT ==
    ASSUME NEW c \in Nat \ {0}, NEW i
    PROVE  Chain(<<"salt", i>>, c) = RefT(c, i)
<1>. DEFINE scratch == <<"salt", i>>
            f == RefU(c, i)
<1>1. IsLinks(f, c, "password", scratch)
  BY RefUIs
<1>2. \E g : IsSteps(g, c, scratch) /\ Chain(scratch, c) = g[c].t
  <2>. DEFINE P(g) == g = [j \in 1..c |->
                 IF j = 1 THEN [u |-> Hmac("password", scratch), t |-> Hmac("password", scratch)]
                 ELSE LET next == Hmac("password", Again(g[j - 1].u))
                      IN  [u |-> next, t |-> XorTerms(g[j - 1].t, next)]]
              step == CHOOSE g : P(g)
  <2>1. Chain(scratch, c) = step[c].t
    BY DEF Chain
  <2>2. \A g : P(g) <=> IsSteps(g, c, scratch)
    BY DEF IsSteps, FirstStep, NextStep
  <2>. HIDE DEF P
  <2>3. P(step)
    BY <2>2, StepsExist
  <2>. HIDE DEF step
  <2>. QED BY <2>1, <2>2, <2>3
<1>3. PICK g : IsSteps(g, c, scratch) /\ Chain(scratch, c) = g[c].t
  BY <1>2
<1>. HIDE DEF f, scratch
<1>4. \A x : x \in g[c].t <=> Oddly(f, c, x)
  <2>1. c \in Nat /\ c \in 1..c
    OBVIOUS
  <2>. QED BY <1>1, <1>3, <2>1, StepsAre
<1>5. ASSUME NEW x, Oddly(f, c, x) PROVE x \in UNION {f[k] : k \in 1..c}
  <2>1. Places(f, c, x) # {}
    BY <1>5, FS_EmptySet DEF Oddly
  <2>. QED BY <2>1 DEF Places
<1>6. RefT(c, i) = {x \in UNION {f[k] : k \in 1..c} : Oddly(f, c, x)}
  BY DEF RefT, Oddly, Places, f
<1>7. \A x : x \in g[c].t <=> x \in RefT(c, i)
  BY <1>4, <1>5, <1>6
<1>9. g[c].t = RefT(c, i)
  BY <1>7
<1>. QED BY <1>3, <1>9 DEF scratch

(***************************************************************************)
(* The derivations, block by block.                                        *)
(***************************************************************************)
(* Byte k of an output is byte AtOf(k) of block BlockOf(k).                *)
BlockOf(k) == 1 + Quo(k - 1, HLen)
AtOf(k) == 1 + Rem(k - 1, HLen)
RefOf(d, k) ==
    IF d.fn = "pbkdf2" THEN RefT(d.c, BlockOf(k))
    ELSE Hmac(d.secret, <<"block", RefA(d.secret, d.labelled, BlockOf(k)), d.labelled>>)

IsOutput(o) == Len(o) \in Nat /\ o = [k \in 1..Len(o) |-> o[k]]
WrittenTo(d, n) == \A k \in 1..Len(d.out) : k <= n => d.out[k] = Byte(RefOf(d, k), AtOf(k))

(* A function on 1..n has length n.                                        *)
LEMMA OutputIs ==
    ASSUME NEW n \in Nat, NEW f, f = [k \in 1..n |-> f[k]]
    PROVE  Len(f) = n /\ IsOutput(f)
<1>. DEFINE T == {f[j] : j \in 1..n}
<1>1. IsRun(f, n) /\ \A j \in 1..n : f[j] \in T
  BY DEF IsRun
<1>. HIDE DEF T
<1>2. Len(f) = n
  BY <1>1, FcnIsSeq
<1>. QED BY <1>2 DEF IsOutput

(* Writing keeps the length.                                               *)
LEMMA WrittenIs ==
    ASSUME NEW o, IsOutput(o), NEW from, NEW n, NEW t
    PROVE  /\ IsOutput(Written(o, from, n, t)) /\ Len(Written(o, from, n, t)) = Len(o)
           /\ \A k \in 1..Len(o) : Written(o, from, n, t)[k]
                = IF k \in (from + 1)..(from + n) THEN Byte(t, k - from) ELSE o[k]
<1>. DEFINE w == Written(o, from, n, t)
<1>1. DOMAIN o = 1..Len(o) /\ Len(o) \in Nat
  BY DEF IsOutput
<1>2. w = [k \in 1..Len(o) |-> IF k \in (from + 1)..(from + n) THEN Byte(t, k - from) ELSE o[k]]
  BY <1>1 DEF Written
<1>. HIDE DEF w
<1>3. w = [k \in 1..Len(o) |-> w[k]]
  BY <1>2
<1>4. Len(w) = Len(o) /\ IsOutput(w)
  BY <1>1, <1>3, OutputIs
<1>5. \A k \in 1..Len(o) :
        w[k] = IF k \in (from + 1)..(from + n) THEN Byte(t, k - from) ELSE o[k]
  BY <1>2
<1>. QED BY <1>4, <1>5 DEF w

(* The bytes of block q + 1 are those behind q whole blocks.               *)
LEMMA BytesOfBlock ==
    ASSUME NEW q \in Nat, NEW len \in Nat, Mul(q, HLen) < len,
           NEW n, n = Smaller(HLen, len - Mul(q, HLen))
    PROVE  /\ n \in Nat
           /\ Mul(q, HLen) + n <= len
           /\ Mul(q, HLen) + n = (IF len <= Mul(q + 1, HLen) THEN len ELSE Mul(q + 1, HLen))
           /\ \A k \in 1..len :
                /\ k \in (Mul(q, HLen) + 1)..(Mul(q, HLen) + n) =>
                     BlockOf(k) = q + 1 /\ AtOf(k) = k - Mul(q, HLen)
                /\ k \notin (Mul(q, HLen) + 1)..(Mul(q, HLen) + n) /\ k <= Mul(q + 1, HLen) =>
                     k <= Mul(q, HLen)
<1>. DEFINE start == Mul(q, HLen)
<1>1. HLen \in Nat \ {0} /\ start \in Nat /\ Mul(q + 1, HLen) = start + HLen
  BY KdfAssumption, MulFacts
<1>2. n = IF HLen < len - start THEN HLen ELSE len - start
  BY DEF Smaller
<1>. HIDE DEF start
<1>3. start < len
  BY DEF start
<1>4. n \in Nat /\ n <= HLen /\ start + n = IF len <= start + HLen THEN len ELSE start + HLen
  BY <1>1, <1>2, <1>3
<1>5. ASSUME NEW k \in 1..len, k \in (start + 1)..(start + n)
      PROVE  BlockOf(k) = q + 1 /\ AtOf(k) = k - start
  <2>1. (k - 1) - start \in 0..(HLen - 1) /\ k - 1 = start + ((k - 1) - start)
    BY <1>1, <1>4, <1>5
  <2>2. Quo(k - 1, HLen) = q /\ Rem(k - 1, HLen) = (k - 1) - start
    BY <1>1, <2>1, Euclid DEF start
  <2>. QED BY <1>1, <1>5, <2>2 DEF BlockOf, AtOf
<1>6. ASSUME NEW k \in 1..len, k \notin (start + 1)..(start + n), k <= start + HLen
      PROVE  k <= start
  BY <1>1, <1>3, <1>4, <1>6
<1>. QED BY <1>1, <1>4, <1>5, <1>6 DEF start

(* One block more is written.                                              *)
LEMMA BlockWritten ==
    ASSUME NEW d, IsOutput(d.out), NEW q \in Nat, Mul(q, HLen) < Len(d.out),
           WrittenTo(d, Mul(q, HLen)), NEW t, NEW e,
           \A k \in 1..Len(d.out) : RefOf(e, k) = RefOf(d, k),
           \A k \in 1..Len(d.out) : BlockOf(k) = q + 1 => RefOf(d, k) = t,
           e.out = Written(d.out, Mul(q, HLen), Smaller(HLen, Len(d.out) - Mul(q, HLen)), t)
    PROVE  /\ IsOutput(e.out) /\ Len(e.out) = Len(d.out)
           /\ WrittenTo(e, Mul(q + 1, HLen))
<1>. DEFINE start == Mul(q, HLen)  len == Len(d.out)  n == Smaller(HLen, len - start)
<1>1. len \in Nat
  BY DEF IsOutput
<1>2. IsOutput(e.out) /\ Len(e.out) = len
  BY WrittenIs
<1>3. ASSUME NEW k \in 1..len
      PROVE  e.out[k] = IF k \in (start + 1)..(start + n) THEN Byte(t, k - start) ELSE d.out[k]
  BY WrittenIs
<1>4. ASSUME NEW k \in 1..len, k <= Mul(q + 1, HLen)
      PROVE  e.out[k] = Byte(RefOf(e, k), AtOf(k))
  <2>1. /\ k \in (start + 1)..(start + n) => BlockOf(k) = q + 1 /\ AtOf(k) = k - start
        /\ k \notin (start + 1)..(start + n) => k <= start
    <3>. HIDE DEF len
    <3>1. start < len
      BY DEF len
    <3>. QED BY <1>1, <1>4, <3>1, BytesOfBlock
  <2>. HIDE DEF n, start
  <2>2. CASE k \in (start + 1)..(start + n)
    BY <1>3, <2>1, <2>2
  <2>3. CASE k \notin (start + 1)..(start + n)
    <3>1. d.out[k] = Byte(RefOf(d, k), AtOf(k))
      BY <2>1, <2>3 DEF WrittenTo, start
    <3>. QED BY <1>3, <2>3, <3>1
  <2>. QED BY <2>2, <2>3
<1>. QED BY <1>2, <1>4 DEF WrittenTo

Pbkdf2Shape(d) ==
    d = [fn |-> "pbkdf2", c |-> d.c, out |-> d.out, block |-> d.block, scratch |-> d.scratch,
         status |-> d.status]
PSm3Shape(d) ==
    d = [fn |-> d.fn, secret |-> d.secret, labelled |-> d.labelled, a |-> d.a,
         offset |-> d.offset, out |-> d.out, status |-> d.status]

(* A derivation of PBKDF2: the blocks before the current one are written.  *)
Pbkdf2Inv(d) ==
    /\ Pbkdf2Shape(d) /\ IsOutput(d.out)
    /\ d.c \in Nat /\ d.block \in Nat \ {0}
    /\ \E n : d.scratch = <<"salt", n>>
    /\ d.status = "refused" => \A k \in DOMAIN d.out : d.out[k] = Unwritten
    /\ d.status = "running" =>
         /\ d.c # 0 /\ Mul(d.block - 1, HLen) < Len(d.out)
         /\ WrittenTo(d, Mul(d.block - 1, HLen))
    /\ d.status = "done" => WrittenTo(d, Len(d.out))

(* One of P_SM3: after m whole blocks, a is A(m + 1).                      *)
PSm3Inv(d) ==
    /\ PSm3Shape(d) /\ IsOutput(d.out)
    /\ d.fn \in {"master", "key_block", "finished"}
    /\ d.status # "refused"
    /\ d.status = "running" =>
         \E m \in Nat : /\ d.offset = Mul(m, HLen) /\ d.offset < Len(d.out)
                        /\ d.a = RefA(d.secret, d.labelled, m + 1)
                        /\ WrittenTo(d, d.offset)
    /\ d.status = "done" => WrittenTo(d, Len(d.out))

KInv == kdf = KIdle \/ Pbkdf2Inv(kdf) \/ PSm3Inv(kdf)

(* Nothing is written at first.                                            *)
LEMMA NoOutputIs ==
    ASSUME NEW len \in Nat
    PROVE  /\ IsOutput(NoOutput(len)) /\ Len(NoOutput(len)) = len
           /\ \A k \in DOMAIN NoOutput(len) : NoOutput(len)[k] = Unwritten
<1>. DEFINE w == NoOutput(len)
<1>1. w = [k \in 1..len |-> w[k]] /\ \A k \in DOMAIN w : w[k] = Unwritten
  BY DEF NoOutput
<1>. HIDE DEF w
<1>2. IsOutput(w) /\ Len(w) = len
  BY <1>1, OutputIs
<1>. QED BY <1>1, <1>2 DEF w

(* pbkdf2_hmac_sm3 starts.                                                 *)
LEMMA Pbkdf2Starts == ASSUME Pbkdf2 PROVE KInv'
<1>1. PICK c \in Iterations, len \in 0..MaxOut :
         kdf' = [fn |-> "pbkdf2", c |-> c, out |-> NoOutput(len), block |-> 1,
                 scratch |-> <<"salt", 0>>,
                 status |-> IF c = 0 \/ len = 0 \/ len > HLen * MaxCounter
                            THEN "refused" ELSE "running"]
  BY DEF Pbkdf2
<1>2. c \in Nat /\ len \in Nat
  BY KdfAssumption
<1>. DEFINE d == kdf'
<1>3. IsOutput(d.out) /\ Len(d.out) = len /\ \A k \in DOMAIN d.out : d.out[k] = Unwritten
  BY <1>1, <1>2, NoOutputIs
<1>4. Pbkdf2Shape(d) /\ d.c = c /\ d.block = 1 /\ d.scratch = <<"salt", 0>>
  BY <1>1 DEF Pbkdf2Shape
<1>5. d.status \in {"refused", "running"} /\ (d.status = "running" => c # 0 /\ len # 0)
  BY <1>1
<1>6. Mul(1 - 1, HLen) = 0
  BY KdfAssumption, MulFacts
<1>. HIDE DEF d
<1>7. WrittenTo(d, 0)
  BY <1>2, <1>3 DEF WrittenTo
<1>8. Pbkdf2Inv(d)
  BY <1>2, <1>3, <1>4, <1>5, <1>6, <1>7 DEF Pbkdf2Inv
<1>. QED BY <1>8 DEF KInv, d, Pbkdf2Inv, Pbkdf2Shape

(* A block of it.                                                          *)
LEMMA Pbkdf2Goes == ASSUME KInv, Pbkdf2Block PROVE KInv'
<1>. DEFINE d == kdf  e == kdf'  q == kdf.block - 1
            start == (kdf.block - 1) * HLen
            message == Numbered(kdf.scratch, kdf.block)
<1>1. d.fn = "pbkdf2" /\ d.status = "running"
  BY DEF Pbkdf2Block, Deriving
<1>2. Pbkdf2Inv(d)
  BY <1>1 DEF KInv, KIdle, PSm3Inv
<1>3. /\ Pbkdf2Shape(d) /\ IsOutput(d.out) /\ d.c \in Nat \ {0} /\ d.block \in Nat \ {0}
      /\ Mul(q, HLen) < Len(d.out) /\ WrittenTo(d, Mul(q, HLen))
  BY <1>1, <1>2 DEF Pbkdf2Inv
<1>4. start = Mul(q, HLen)
  BY DEF Mul
<1>5. message = <<"salt", d.block>>
  <2>1. PICK n : d.scratch = <<"salt", n>>
    BY <1>2 DEF Pbkdf2Inv
  <2>. QED BY <2>1 DEF Numbered
<1>6. q \in Nat /\ q + 1 = d.block
  BY <1>3
<1>7. e = [d EXCEPT !.block = @ + 1, !.scratch = message,
             !.out = Written(@, start, Smaller(HLen, Len(@) - start), Chain(message, d.c)),
             !.status = IF start + HLen >= Len(d.out) THEN "done" ELSE @]
  BY DEF Pbkdf2Block
<1>. HIDE DEF message, start
<1>8. e = [fn |-> "pbkdf2", c |-> d.c,
           out |-> Written(d.out, start, Smaller(HLen, Len(d.out) - start), Chain(message, d.c)),
           block |-> d.block + 1, scratch |-> message,
           status |-> IF start + HLen >= Len(d.out) THEN "done" ELSE "running"]
  BY <1>1, <1>3, <1>7 DEF Pbkdf2Shape
<1>. HIDE DEF d, e, q
<1>9. /\ e.fn = "pbkdf2" /\ e.c = d.c /\ e.block = d.block + 1 /\ e.scratch = message
      /\ e.out = Written(d.out, start, Smaller(HLen, Len(d.out) - start), Chain(message, d.c))
      /\ e.status = IF start + HLen >= Len(d.out) THEN "done" ELSE "running"
  BY <1>8
<1>10. Pbkdf2Shape(e)
  BY <1>8, <1>9 DEF Pbkdf2Shape
<1>11. Chain(message, d.c) = RefT(d.c, d.block)
  BY <1>3, <1>5, ChainIsRefT
<1>12. \A k : RefOf(d, k) = RefT(d.c, BlockOf(k)) /\ RefOf(e, k) = RefOf(d, k)
  BY <1>1, <1>9 DEF RefOf
<1>13. IsOutput(e.out) /\ Len(e.out) = Len(d.out) /\ WrittenTo(e, Mul(q + 1, HLen))
  <2>1. \A k \in 1..Len(d.out) : BlockOf(k) = q + 1 => RefOf(d, k) = Chain(message, d.c)
    <3>1. ASSUME NEW k \in 1..Len(d.out), BlockOf(k) = q + 1
          PROVE  RefOf(d, k) = Chain(message, d.c)
      <4>1. RefOf(d, k) = RefT(d.c, BlockOf(k))
        BY <1>12
      <4>. QED BY <3>1, <4>1, <1>6, <1>11
    <3>. QED BY <3>1
  <2>2. \A k \in 1..Len(d.out) : RefOf(e, k) = RefOf(d, k)
    BY <1>12
  <2>3. e.out = Written(d.out, Mul(q, HLen), Smaller(HLen, Len(d.out) - Mul(q, HLen)),
                        Chain(message, d.c))
    BY <1>4, <1>9
  <2>. QED BY <1>3, <1>6, <2>1, <2>2, <2>3, BlockWritten
<1>14. Mul(q + 1, HLen) = start + HLen /\ start \in Nat /\ HLen \in Nat /\ Len(d.out) \in Nat
  BY <1>3, <1>4, <1>6, KdfAssumption, MulFacts DEF IsOutput
<1>15. CASE start + HLen >= Len(d.out)
  <2>1. e.status = "done"
    BY <1>9, <1>15
  <2>2. WrittenTo(e, Len(e.out))
    BY <1>13, <1>14, <1>15 DEF WrittenTo
  <2>3. Pbkdf2Inv(e)
    BY <1>3, <1>5, <1>9, <1>10, <1>13, <2>1, <2>2 DEF Pbkdf2Inv
  <2>. QED BY <2>3 DEF KInv, e, Pbkdf2Inv, Pbkdf2Shape
<1>16. CASE ~(start + HLen >= Len(d.out))
  <2>1. e.status = "running"
    BY <1>9, <1>16
  <2>2. e.block - 1 = q + 1 /\ e.block \in Nat \ {0}
    BY <1>3, <1>6, <1>9
  <2>3. Mul(q + 1, HLen) < Len(e.out)
    BY <1>13, <1>14, <1>16
  <2>4. Pbkdf2Inv(e)
    BY <1>3, <1>5, <1>9, <1>10, <1>13, <2>1, <2>2, <2>3 DEF Pbkdf2Inv
  <2>. QED BY <2>4 DEF KInv, e, Pbkdf2Inv, Pbkdf2Shape
<1>. QED BY <1>15, <1>16

(* A derivation of P_SM3 starts.                                           *)
LEMMA PSm3Begins ==
    ASSUME NEW fn \in {"master", "key_block", "finished"}, NEW secret, NEW label,
           NEW seed1, NEW seed2, NEW len \in Nat, PSm3Starts(fn, secret, label, seed1, seed2, len)
    PROVE  KInv'
<1>. DEFINE e == kdf'  seed == <<label, seed1, seed2>>
<1>1. e = [fn |-> fn, secret |-> secret, labelled |-> seed, a |-> Hmac(secret, seed),
           offset |-> 0, out |-> NoOutput(len),
           status |-> IF len = 0 THEN "done" ELSE "running"]
  BY DEF PSm3Starts
<1>. HIDE DEF e, seed
<1>2. /\ e.fn = fn /\ e.secret = secret /\ e.labelled = seed /\ e.a = Hmac(secret, seed)
      /\ e.offset = 0 /\ e.out = NoOutput(len)
      /\ e.status = IF len = 0 THEN "done" ELSE "running"
  BY <1>1
<1>3. PSm3Shape(e)
  BY <1>1, <1>2 DEF PSm3Shape
<1>4. IsOutput(e.out) /\ Len(e.out) = len
  BY <1>2, NoOutputIs
<1>5. RefA(secret, seed, 0 + 1) = Hmac(secret, seed)
  <2>1. 1 \in Nat \ {0} /\ 0 + 1 = 1
    OBVIOUS
  <2>. QED BY <2>1, RefAIs
<1>6. Mul(0, HLen) = 0
  BY KdfAssumption, MulFacts
<1>7. WrittenTo(e, 0)
  BY <1>4 DEF WrittenTo
<1>8. e.status # "refused" /\ (e.status = "running" => len # 0) /\ (e.status = "done" => len = 0)
  BY <1>2
<1>9. e.status = "running" =>
        /\ e.offset = Mul(0, HLen) /\ e.offset < Len(e.out)
        /\ e.a = RefA(e.secret, e.labelled, 0 + 1) /\ WrittenTo(e, e.offset)
  BY <1>2, <1>4, <1>5, <1>6, <1>7, <1>8
<1>10. PSm3Inv(e)
  BY <1>2, <1>3, <1>4, <1>7, <1>8, <1>9 DEF PSm3Inv
<1>. QED BY <1>10 DEF KInv, e, PSm3Inv, PSm3Shape

(* A block of it.                                                          *)
LEMMA PSm3Goes == ASSUME KInv, PSm3Block PROVE KInv'
<1>. DEFINE d == kdf  e == kdf'
            n == Smaller(HLen, Len(kdf.out) - kdf.offset)
            more == kdf.offset + n < Len(kdf.out)
            t == Hmac(kdf.secret, <<"block", kdf.a, kdf.labelled>>)
<1>1. d.fn \in {"master", "key_block", "finished"} /\ d.status = "running"
  BY DEF PSm3Block, Deriving
<1>2. PSm3Inv(d)
  BY <1>1 DEF KInv, KIdle, Pbkdf2Inv, Pbkdf2Shape
<1>3. PSm3Shape(d) /\ IsOutput(d.out)
  BY <1>2 DEF PSm3Inv
<1>4. PICK m \in Nat : /\ d.offset = Mul(m, HLen) /\ d.offset < Len(d.out)
                       /\ d.a = RefA(d.secret, d.labelled, m + 1)
                       /\ WrittenTo(d, d.offset)
  BY <1>1, <1>2 DEF PSm3Inv
<1>5. e = [d EXCEPT !.offset = @ + n, !.out = Written(@, d.offset, n, t),
             !.a = IF more THEN Hmac(d.secret, Again(@)) ELSE @,
             !.status = IF more THEN @ ELSE "done"]
  BY DEF PSm3Block
<1>6. Len(d.out) \in Nat
  BY <1>3 DEF IsOutput
<1>7. /\ n \in Nat
      /\ d.offset + n = (IF Len(d.out) <= Mul(m + 1, HLen) THEN Len(d.out) ELSE Mul(m + 1, HLen))
  <2>. DEFINE len == Len(d.out)
  <2>1. len \in Nat /\ Mul(m, HLen) < len /\ n = Smaller(HLen, len - Mul(m, HLen))
    BY <1>4, <1>6
  <2>. HIDE DEF len, n
  <2>2. n \in Nat /\ Mul(m, HLen) + n = (IF len <= Mul(m + 1, HLen) THEN len ELSE Mul(m + 1, HLen))
    BY <2>1, BytesOfBlock
  <2>. QED BY <1>4, <2>2 DEF len
<1>8. d.offset \in Nat /\ Mul(m + 1, HLen) \in Nat
  BY <1>4, KdfAssumption, MulFacts
<1>. HIDE DEF t
<1>9. \A k \in 1..Len(d.out) : BlockOf(k) = m + 1 => RefOf(d, k) = t
  BY <1>1, <1>4 DEF RefOf, t
<1>. HIDE DEF n, more
<1>10. e = [fn |-> d.fn, secret |-> d.secret, labelled |-> d.labelled,
            a |-> IF more THEN Hmac(d.secret, Again(d.a)) ELSE d.a,
            offset |-> d.offset + n, out |-> Written(d.out, d.offset, n, t),
            status |-> IF more THEN "running" ELSE "done"]
  BY <1>1, <1>3, <1>5 DEF PSm3Shape
<1>. HIDE DEF d, e
<1>11. /\ e.fn = d.fn /\ e.secret = d.secret /\ e.labelled = d.labelled
       /\ e.a = (IF more THEN Hmac(d.secret, Again(d.a)) ELSE d.a)
       /\ e.offset = d.offset + n /\ e.out = Written(d.out, d.offset, n, t)
       /\ e.status = IF more THEN "running" ELSE "done"
  BY <1>10
<1>12. PSm3Shape(e)
  BY <1>10, <1>11 DEF PSm3Shape
<1>13. \A k : RefOf(e, k) = RefOf(d, k)
  BY <1>1, <1>11 DEF RefOf
<1>14. IsOutput(e.out) /\ Len(e.out) = Len(d.out) /\ WrittenTo(e, Mul(m + 1, HLen))
  <2>1. n = Smaller(HLen, Len(d.out) - Mul(m, HLen))
    BY <1>4 DEF n, d
  <2>. QED BY <1>3, <1>4, <1>9, <1>11, <1>13, <2>1, BlockWritten
<1>15. more <=> d.offset + n < Len(d.out)
  BY DEF more, d
<1>16. CASE more
  <2>1. d.offset + n = Mul(m + 1, HLen)
    BY <1>6, <1>7, <1>8, <1>15, <1>16
  <2>2. e.a = RefA(e.secret, e.labelled, (m + 1) + 1)
    <3>1. m + 1 \in Nat \ {0}
      OBVIOUS
    <3>. QED BY <1>4, <1>11, <1>16, <3>1, RefAIs
  <2>3. e.offset = Mul(m + 1, HLen) /\ e.offset < Len(e.out) /\ e.status = "running"
    BY <1>11, <1>14, <1>15, <1>16, <2>1
  <2>4. PSm3Inv(e)
    BY <1>1, <1>11, <1>12, <1>14, <2>2, <2>3 DEF PSm3Inv
  <2>. QED BY <2>4 DEF KInv, e, PSm3Inv, PSm3Shape
<1>17. CASE ~more
  <2>1. Len(d.out) <= Mul(m + 1, HLen)
    BY <1>6, <1>7, <1>8, <1>15, <1>17
  <2>2. WrittenTo(e, Len(e.out))
    BY <1>6, <1>8, <1>14, <2>1 DEF WrittenTo
  <2>3. PSm3Inv(e)
    BY <1>1, <1>11, <1>12, <1>14, <1>17, <2>2 DEF PSm3Inv
  <2>. QED BY <2>3 DEF KInv, e, PSm3Inv, PSm3Shape
<1>. QED BY <1>16, <1>17

(* Every derivation has written, so far, the bytes of its definition.      *)
THEOREM KdfInvariant == KSpec => []KInv
<1>1. KInit => KInv
  BY DEF KInit, KInv
<1>2. ASSUME KInv, [KNext]_kdf PROVE KInv'
  <2>1. CASE Pbkdf2
    BY <2>1, Pbkdf2Starts
  <2>2. CASE Pbkdf2Block
    BY <1>2, <2>2, Pbkdf2Goes
  <2>3. CASE PSm3Block
    BY <1>2, <2>3, PSm3Goes
  <2>4. CASE DeriveMasterSecret
    <3>1. MasterLen \in Nat
      BY KdfAssumption DEF MasterLen
    <3>. QED BY <2>4, <3>1, PSm3Begins DEF DeriveMasterSecret
  <2>5. CASE DeriveKeyBlock
    <3>1. PICK len \in 0..MaxOut :
            PSm3Starts("key_block", "master", "key_expansion", "server", "client", len)
      BY <2>5 DEF DeriveKeyBlock
    <3>2. len \in Nat
      OBVIOUS
    <3>. QED BY <3>1, <3>2, PSm3Begins
  <2>6. CASE FinishedVerifyData
    <3>1. PICK role \in {"client_finished", "server_finished"} :
            PSm3Starts("finished", "master", role, "transcript", "", VerifyDataLen)
      BY <2>6 DEF FinishedVerifyData
    <3>2. VerifyDataLen \in Nat
      BY KdfAssumption DEF VerifyDataLen
    <3>. QED BY <3>1, <3>2, PSm3Begins
  <2>7. CASE UNCHANGED kdf
    BY <1>2, <2>7 DEF KInv
  <2>. QED BY <1>2, <2>1, <2>2, <2>3, <2>4, <2>5, <2>6, <2>7 DEF KNext
<1>. QED BY <1>1, <1>2, PTL DEF KSpec

(* A derivation that ends has written every byte of its output as RFC 8018 *)
(* or RFC 5246 defines it, whatever the digest's length, the iterations    *)
(* and the length asked for; one that is refused has written none.         *)
THEOREM KeysAreExact == KSpec => []KeysExact
<1>1. ASSUME KInv PROVE KeysExact
  <2>. SUFFICES ASSUME kdf # KIdle
                PROVE  /\ kdf.status = "done" =>
                            \A k \in DOMAIN kdf.out : kdf.out[k] = Byte(RefOf(kdf, k), AtOf(k))
                       /\ kdf.status = "refused" => \A k \in DOMAIN kdf.out : kdf.out[k] = Unwritten
    BY DEF KeysExact, RefOf, AtOf, BlockOf, Quo, Rem
  <2>1. IsOutput(kdf.out) /\ (kdf.status = "done" => WrittenTo(kdf, Len(kdf.out)))
    BY <1>1 DEF KInv, Pbkdf2Inv, PSm3Inv
  <2>2. kdf.status = "refused" => \A k \in DOMAIN kdf.out : kdf.out[k] = Unwritten
    BY <1>1 DEF KInv, Pbkdf2Inv, PSm3Inv
  <2>3. DOMAIN kdf.out = 1..Len(kdf.out) /\ Len(kdf.out) \in Nat
    BY <2>1 DEF IsOutput
  <2>. QED BY <2>1, <2>2, <2>3 DEF WrittenTo
<1>. QED BY <1>1, KdfInvariant, PTL

-----------------------------------------------------------------------------
(***************************************************************************)
(* CAbi.  What the steps of a row may do is read off the row once, kind by *)
(* kind; from there on the proofs are about the shape of a row only.       *)
(***************************************************************************)
(* A step that may refuse the call; one that the caller can see afterwards. *)
Stops(d) == d[1] \in Refusable \/ d[1] = "write"
Lasts(d) == d[1] \in {"write", "put", "store", "new"}
Delivers(d, n) == (d[1] = "put" /\ d[2] = n) \/ (d[1] = "store" /\ n = "out_key")

(* Nothing can refuse once something shows; each output is written.        *)
Apart(s) == \A i, j \in 1..Len(s) : i < j /\ Lasts(s[i]) => ~Stops(s[j])
Served(s) == \A i \in 1..Len(s) :
    s[i][1] = "output" => \E j \in 1..Len(s) : Delivers(s[j], s[i][2])
Orderly(s) == Len(s) \in Nat /\ DOMAIN s = 1..Len(s) /\ Apart(s) /\ Served(s)

(* The row of a function that keeps handles, and of one that frees one:    *)
(* the box is taken right after the handle is looked at.                   *)
Keeping(s) == Orderly(s) /\ \A i \in 1..Len(s) : s[i][1] # "take"
Freed(s, p) ==
    /\ p = 2 \/ (p = 3 /\ s[2] = ZeroLen)
    /\ p \in 1..Len(s) /\ s[1] = Handle(s[1][2]) /\ s[p] = Take(s[1][2])
    /\ \A i \in 1..Len(s) : (i # 1 => s[i][1] # "handle") /\ (i # p => s[i][1] # "take")
Consuming(s) == Orderly(s) /\ \E p \in 2..3 : Freed(s, p)

(* Looking at an argument, asking for an output or not; ending a row.      *)
Looks(d) == d[1] \in Refusable /\ d[1] # "output"
Asks(d, x) == Looks(d) \/ d = Output(x)
Closes(d) == d[1] # "take" /\ d[1] # "output"

(* What each step of a row may do. *)
LEMMA StepKinds ==
    /\ \A k : Looks(Handle(k)) /\ Looks(Array(k))
    /\ Looks(Fixed) /\ Looks(Slice) /\ Looks(Callback) /\ Looks(Core) /\ Looks(CoreOrZero)
    /\ \A k : Closes(New(k)) /\ Closes(Store(k)) /\ Closes(Put(k))
    /\ Closes(Write) /\ Closes(Slice) /\ Closes(Core)
<1>1. \A k : Looks(Handle(k)) /\ Looks(Array(k)) BY DEF Looks, Refusable, Handle, Array
<1>2. Looks(Fixed) /\ Looks(Slice) /\ Looks(Callback) /\ Looks(Core) /\ Looks(CoreOrZero)
  BY DEF Looks, Refusable, Fixed, Slice, Callback, Core, CoreOrZero
<1>3. \A k : Closes(New(k)) /\ Closes(Store(k)) /\ Closes(Put(k)) BY DEF Closes, New, Store, Put
<1>4. Closes(Write) /\ Closes(Slice) /\ Closes(Core) BY DEF Closes, Write, Slice, Core
<1>. QED BY <1>1, <1>2, <1>3, <1>4

(* The tag of a step and its argument. *)
LEMMA Tags ==
    /\ \A k : Handle(k)[1] = "handle" /\ Handle(k)[2] = k
    /\ \A k : Take(k)[1] = "take" /\ Take(k)[2] = k
    /\ \A k : Output(k)[1] = "output" /\ Output(k)[2] = k
    /\ \A k : Put(k)[1] = "put" /\ Put(k)[2] = k
    /\ \A k : Store(k)[1] = "store" /\ New(k)[1] = "new" /\ New(k)[2] = k /\ Store(k)[2] = k
    /\ Fixed[1] = "fixed" /\ Slice[1] = "slice" /\ Core[1] = "core"
    /\ CoreOrZero[1] = "core_or_zero" /\ ZeroLen[1] = "zero_len" /\ Write[1] = "write"
<1>1. \A k : Handle(k)[1] = "handle" /\ Handle(k)[2] = k BY DEF Handle
<1>2. \A k : Take(k)[1] = "take" /\ Take(k)[2] = k BY DEF Take
<1>3. \A k : Output(k)[1] = "output" /\ Output(k)[2] = k BY DEF Output
<1>4. \A k : Put(k)[1] = "put" /\ Put(k)[2] = k BY DEF Put
<1>5. \A k : Store(k)[1] = "store" /\ New(k)[1] = "new" /\ New(k)[2] = k /\ Store(k)[2] = k
  BY DEF Store, New
<1>6. Fixed[1] = "fixed" /\ Slice[1] = "slice" /\ Core[1] = "core" BY DEF Fixed, Slice, Core
<1>7. CoreOrZero[1] = "core_or_zero" /\ ZeroLen[1] = "zero_len" /\ Write[1] = "write"
  BY DEF CoreOrZero, ZeroLen, Write
<1>. QED BY <1>1, <1>2, <1>3, <1>4, <1>5, <1>6, <1>7

(* Rows whose steps but the last look at arguments, and ask for no output. *)
IsLooked(s, n) ==
    /\ n \in Nat \ {0} /\ Len(s) = n /\ DOMAIN s = 1..n
    /\ (\A i \in 1..n : i # n => Looks(s[i])) /\ Closes(s[n])

(* Such a row keeps its handles, and shows nothing before its end.         *)
LEMMA LooksThenCloses ==
    ASSUME NEW s, NEW n, IsLooked(s, n)
    PROVE  Keeping(s)
<1>0. /\ n \in Nat \ {0} /\ Len(s) = n /\ DOMAIN s = 1..n
      /\ (\A i \in 1..n : i # n => Looks(s[i])) /\ Closes(s[n])
  BY DEF IsLooked
<1>1. \A i \in 1..n : s[i][1] # "output" /\ s[i][1] # "take"
  <2>. SUFFICES ASSUME NEW i \in 1..n PROVE s[i][1] # "output" /\ s[i][1] # "take"
    OBVIOUS
  <2>1. CASE i = n
    BY <1>0, <2>1 DEF Closes
  <2>2. CASE i # n
    <3>1. Looks(s[i])
      BY <1>0, <2>2
    <3>. QED BY <3>1 DEF Looks, Refusable
  <2>. QED BY <2>1, <2>2
<1>2. Apart(s)
  <2>. SUFFICES ASSUME NEW i \in 1..n, NEW j \in 1..n, i < j PROVE ~Lasts(s[i])
    BY <1>0 DEF Apart
  <2>1. i # n
    OBVIOUS
  <2>2. Looks(s[i])
    BY <1>0, <2>1
  <2>. QED BY <2>2 DEF Looks, Lasts, Refusable
<1>. QED BY <1>0, <1>1, <1>2 DEF Keeping, Orderly, Served

(* Such rows of 2 steps. *)
LEMMA Looked2 ==
    ASSUME NEW a, NEW b, Looks(a), Closes(b)
    PROVE  Keeping(<<a, b>>)
<1>. DEFINE s == <<a, b>>
<1>1. Len(s) = 2 /\ DOMAIN s = 1..2 /\ s[1] = a /\ s[2] = b
  OBVIOUS
<1>. HIDE DEF s
<1>2. IsLooked(s, 2)
  BY <1>1 DEF IsLooked
<1>3. Keeping(s)
  BY <1>2, LooksThenCloses
<1>. QED BY <1>3 DEF s

(* Such rows of 3 steps. *)
LEMMA Looked3 ==
    ASSUME NEW a, NEW b, NEW c, Looks(a), Looks(b), Closes(c)
    PROVE  Keeping(<<a, b, c>>)
<1>. DEFINE s == <<a, b, c>>
<1>1. Len(s) = 3 /\ DOMAIN s = 1..3 /\ s[1] = a /\ s[2] = b /\ s[3] = c
  OBVIOUS
<1>. HIDE DEF s
<1>2. IsLooked(s, 3)
  BY <1>1 DEF IsLooked
<1>3. Keeping(s)
  BY <1>2, LooksThenCloses
<1>. QED BY <1>3 DEF s

(* Such rows of 4 steps. *)
LEMMA Looked4 ==
    ASSUME NEW a, NEW b, NEW c, NEW d, Looks(a), Looks(b), Looks(c), Closes(d)
    PROVE  Keeping(<<a, b, c, d>>)
<1>. DEFINE s == <<a, b, c, d>>
<1>1. Len(s) = 4 /\ DOMAIN s = 1..4 /\ s[1] = a /\ s[2] = b /\ s[3] = c /\ s[4] = d
  OBVIOUS
<1>. HIDE DEF s
<1>2. IsLooked(s, 4)
  BY <1>1 DEF IsLooked
<1>3. Keeping(s)
  BY <1>2, LooksThenCloses
<1>. QED BY <1>3 DEF s

(* Such rows of 5 steps. *)
LEMMA Looked5 ==
    ASSUME NEW a, NEW b, NEW c, NEW d, NEW e, Looks(a), Looks(b), Looks(c), Looks(d), Closes(e)
    PROVE  Keeping(<<a, b, c, d, e>>)
<1>. DEFINE s == <<a, b, c, d, e>>
<1>1. Len(s) = 5 /\ DOMAIN s = 1..5 /\ s[1] = a /\ s[2] = b /\ s[3] = c /\ s[4] = d /\ s[5] = e
  OBVIOUS
<1>. HIDE DEF s
<1>2. IsLooked(s, 5)
  BY <1>1 DEF IsLooked
<1>3. Keeping(s)
  BY <1>2, LooksThenCloses
<1>. QED BY <1>3 DEF s

(* Such rows of 6 steps. *)
LEMMA Looked6 ==
    ASSUME NEW a, NEW b, NEW c, NEW d, NEW e, NEW f, Looks(a), Looks(b), Looks(c), Looks(d),
           Looks(e), Closes(f)
    PROVE  Keeping(<<a, b, c, d, e, f>>)
<1>. DEFINE s == <<a, b, c, d, e, f>>
<1>1. Len(s) = 6 /\ DOMAIN s = 1..6 /\ s[1] = a /\ s[2] = b /\ s[3] = c /\ s[4] = d /\ s[5] = e /\
      s[6] = f
  OBVIOUS
<1>. HIDE DEF s
<1>2. IsLooked(s, 6)
  BY <1>1 DEF IsLooked
<1>3. Keeping(s)
  BY <1>2, LooksThenCloses
<1>. QED BY <1>3 DEF s

(* Such rows of 7 steps. *)
LEMMA Looked7 ==
    ASSUME NEW a, NEW b, NEW c, NEW d, NEW e, NEW f, NEW g, Looks(a), Looks(b), Looks(c),
           Looks(d), Looks(e), Looks(f), Closes(g)
    PROVE  Keeping(<<a, b, c, d, e, f, g>>)
<1>. DEFINE s == <<a, b, c, d, e, f, g>>
<1>1. Len(s) = 7 /\ DOMAIN s = 1..7 /\ s[1] = a /\ s[2] = b /\ s[3] = c /\ s[4] = d /\ s[5] = e /\
      s[6] = f /\ s[7] = g
  OBVIOUS
<1>. HIDE DEF s
<1>2. IsLooked(s, 7)
  BY <1>1 DEF IsLooked
<1>3. Keeping(s)
  BY <1>2, LooksThenCloses
<1>. QED BY <1>3 DEF s

(* Rows that look at arguments and one fixed output, and then write it.    *)
IsAsked(s, n, x) ==
    /\ n \in Nat \ {0} /\ Len(s) = n /\ DOMAIN s = 1..n
    /\ (\A i \in 1..n : i # n => Asks(s[i], x)) /\ s[n] = Put(x)

(* Such a row puts what it asked for, at its end.                          *)
LEMMA AsksThenPuts ==
    ASSUME NEW s, NEW n, NEW x, IsAsked(s, n, x)
    PROVE  Keeping(s)
<1>0. /\ n \in Nat \ {0} /\ Len(s) = n /\ DOMAIN s = 1..n
      /\ (\A i \in 1..n : i # n => Asks(s[i], x)) /\ s[n] = Put(x)
  BY DEF IsAsked
<1>1. s[n][1] = "put" /\ s[n][2] = x
  BY <1>0 DEF Put
<1>2. ASSUME NEW i \in 1..n, i # n
      PROVE  s[i][1] \in Refusable /\ (s[i][1] = "output" => s[i][2] = x)
  BY <1>0, <1>2 DEF Asks, Looks, Output, Refusable
<1>3. \A i \in 1..n : s[i][1] # "take"
  <2>. SUFFICES ASSUME NEW i \in 1..n PROVE s[i][1] # "take"
    OBVIOUS
  <2>1. CASE i = n
    BY <1>1, <2>1
  <2>2. CASE i # n
    BY <1>2, <2>2 DEF Refusable
  <2>. QED BY <2>1, <2>2
<1>4. Apart(s)
  <2>. SUFFICES ASSUME NEW i \in 1..n, NEW j \in 1..n, i < j PROVE ~Lasts(s[i])
    BY <1>0 DEF Apart
  <2>1. i # n
    OBVIOUS
  <2>2. s[i][1] \in Refusable
    BY <1>2, <2>1
  <2>. QED BY <2>2 DEF Lasts, Refusable
<1>5. Served(s)
  <2>. SUFFICES ASSUME NEW i \in 1..n, s[i][1] = "output"
                PROVE  \E j \in 1..n : Delivers(s[j], s[i][2])
    BY <1>0 DEF Served
  <2>1. i # n
    BY <1>1
  <2>2. s[i][2] = x
    BY <1>2, <2>1
  <2>3. Delivers(s[n], x)
    BY <1>1 DEF Delivers
  <2>. QED BY <1>0, <2>2, <2>3
<1>. QED BY <1>0, <1>3, <1>4, <1>5 DEF Keeping, Orderly

(* Such rows of 3 steps. *)
LEMMA Asked3 ==
    ASSUME NEW a, NEW b, NEW x, Asks(a, x), Asks(b, x)
    PROVE  Keeping(<<a, b, Put(x)>>)
<1>. DEFINE s == <<a, b, Put(x)>>
<1>1. Len(s) = 3 /\ DOMAIN s = 1..3 /\ s[1] = a /\ s[2] = b /\ s[3] = Put(x)
  OBVIOUS
<1>. HIDE DEF s
<1>2. IsAsked(s, 3, x)
  BY <1>1 DEF IsAsked
<1>3. Keeping(s)
  BY <1>2, AsksThenPuts
<1>. QED BY <1>3 DEF s

(* Such rows of 4 steps. *)
LEMMA Asked4 ==
    ASSUME NEW a, NEW b, NEW c, NEW x, Asks(a, x), Asks(b, x), Asks(c, x)
    PROVE  Keeping(<<a, b, c, Put(x)>>)
<1>. DEFINE s == <<a, b, c, Put(x)>>
<1>1. Len(s) = 4 /\ DOMAIN s = 1..4 /\ s[1] = a /\ s[2] = b /\ s[3] = c /\ s[4] = Put(x)
  OBVIOUS
<1>. HIDE DEF s
<1>2. IsAsked(s, 4, x)
  BY <1>1 DEF IsAsked
<1>3. Keeping(s)
  BY <1>2, AsksThenPuts
<1>. QED BY <1>3 DEF s

(* Such rows of 5 steps. *)
LEMMA Asked5 ==
    ASSUME NEW a, NEW b, NEW c, NEW d, NEW x, Asks(a, x), Asks(b, x), Asks(c, x), Asks(d, x)
    PROVE  Keeping(<<a, b, c, d, Put(x)>>)
<1>. DEFINE s == <<a, b, c, d, Put(x)>>
<1>1. Len(s) = 5 /\ DOMAIN s = 1..5 /\ s[1] = a /\ s[2] = b /\ s[3] = c /\ s[4] = d /\ s[5] =
      Put(x)
  OBVIOUS
<1>. HIDE DEF s
<1>2. IsAsked(s, 5, x)
  BY <1>1 DEF IsAsked
<1>3. Keeping(s)
  BY <1>2, AsksThenPuts
<1>. QED BY <1>3 DEF s

(* A handle is freed. *)
LEMMA FreeRow ==
    ASSUME NEW k
    PROVE  Consuming(<<Handle(k), Take(k)>>)
<1>. DEFINE s == <<Handle(k), Take(k)>>
<1>1. Len(s) = 2 /\ DOMAIN s = 1..2 /\ s[1] = Handle(k) /\ s[2] = Take(k)
  OBVIOUS
<1>. HIDE DEF s
<1>2. s[1][1] = "handle" /\ s[2][1] = "take" /\ s[1][2] = k /\ s[2][2] = k
  BY <1>1, Tags
<1>3. Apart(s)
  BY <1>1, <1>2 DEF Apart, Stops, Lasts, Refusable
<1>5. Served(s)
  BY <1>1, <1>2 DEF Served
<1>6. \A i \in 1..2 : (i # 1 => s[i][1] # "handle") /\ (i # 2 => s[i][1] # "take")
  BY <1>2
<1>7. Freed(s, 2)
  BY <1>1, <1>2, <1>6 DEF Freed
<1>8. Consuming(s)
  BY <1>1, <1>3, <1>5, <1>7 DEF Consuming, Orderly
<1>. QED BY <1>8 DEF s

(* An encryptor of CBC is finished. *)
LEMMA FinishRow ==
    ASSUME NEW k
    PROVE  Consuming(<<Handle(k), Take(k), Write>>)
<1>. DEFINE s == <<Handle(k), Take(k), Write>>
<1>1. Len(s) = 3 /\ DOMAIN s = 1..3 /\ s[1] = Handle(k) /\ s[2] = Take(k) /\ s[3] = Write
  OBVIOUS
<1>. HIDE DEF s
<1>2. s[1][1] = "handle" /\ s[2][1] = "take" /\ s[3][1] = "write" /\ s[1][2] = k /\ s[2][2] = k
  BY <1>1, Tags
<1>3. Apart(s)
  BY <1>1, <1>2 DEF Apart, Stops, Lasts, Refusable
<1>5. Served(s)
  BY <1>1, <1>2 DEF Served
<1>6. \A i \in 1..3 : (i # 1 => s[i][1] # "handle") /\ (i # 2 => s[i][1] # "take")
  BY <1>2
<1>7. Freed(s, 2)
  BY <1>1, <1>2, <1>6 DEF Freed
<1>8. Consuming(s)
  BY <1>1, <1>3, <1>5, <1>7 DEF Consuming, Orderly
<1>. QED BY <1>8 DEF s

(* A decryptor of CBC. *)
LEMMA FinishCheckedRow ==
    ASSUME NEW k
    PROVE  Consuming(<<Handle(k), Take(k), CoreOrZero, Write>>)
<1>. DEFINE s == <<Handle(k), Take(k), CoreOrZero, Write>>
<1>1. Len(s) = 4 /\ DOMAIN s = 1..4 /\ s[1] = Handle(k) /\ s[2] = Take(k) /\ s[3] = CoreOrZero /\
      s[4] = Write
  OBVIOUS
<1>. HIDE DEF s
<1>2. s[1][1] = "handle" /\ s[2][1] = "take" /\ s[3][1] = "core_or_zero" /\ s[4][1] = "write" /\
      s[1][2] = k /\ s[2][2] = k
  BY <1>1, Tags
<1>3. Apart(s)
  BY <1>1, <1>2 DEF Apart, Stops, Lasts, Refusable
<1>5. Served(s)
  BY <1>1, <1>2 DEF Served
<1>6. \A i \in 1..4 : (i # 1 => s[i][1] # "handle") /\ (i # 2 => s[i][1] # "take")
  BY <1>2
<1>7. Freed(s, 2)
  BY <1>1, <1>2, <1>6 DEF Freed
<1>8. Consuming(s)
  BY <1>1, <1>3, <1>5, <1>7 DEF Consuming, Orderly
<1>. QED BY <1>8 DEF s

(* A GCM encryptor with the full tag. *)
LEMMA FinishTagRow ==
    ASSUME NEW k, NEW x
    PROVE  Consuming(<<Handle(k), Take(k), Output(x), Put(x)>>)
<1>. DEFINE s == <<Handle(k), Take(k), Output(x), Put(x)>>
<1>1. Len(s) = 4 /\ DOMAIN s = 1..4 /\ s[1] = Handle(k) /\ s[2] = Take(k) /\ s[3] = Output(x) /\
      s[4] = Put(x)
  OBVIOUS
<1>. HIDE DEF s
<1>2. s[1][1] = "handle" /\ s[2][1] = "take" /\ s[3][1] = "output" /\ s[4][1] = "put" /\ s[1][2] =
      k /\ s[2][2] = k /\ s[3][2] = x /\ s[4][2] = x
  BY <1>1, Tags
<1>3. Apart(s)
  BY <1>1, <1>2 DEF Apart, Stops, Lasts, Refusable
<1>4. Delivers(s[4], s[3][2])
  BY <1>2 DEF Delivers
<1>5. Served(s)
  BY <1>1, <1>2, <1>4 DEF Served
<1>6. \A i \in 1..4 : (i # 1 => s[i][1] # "handle") /\ (i # 2 => s[i][1] # "take")
  BY <1>2
<1>7. Freed(s, 2)
  BY <1>1, <1>2, <1>6 DEF Freed
<1>8. Consuming(s)
  BY <1>1, <1>3, <1>5, <1>7 DEF Consuming, Orderly
<1>. QED BY <1>8 DEF s

(* With a tag of a length of the caller's. *)
LEMMA FinishLenRow ==
    ASSUME NEW k
    PROVE  Consuming(<<Handle(k), Take(k), Core, Write>>)
<1>. DEFINE s == <<Handle(k), Take(k), Core, Write>>
<1>1. Len(s) = 4 /\ DOMAIN s = 1..4 /\ s[1] = Handle(k) /\ s[2] = Take(k) /\ s[3] = Core /\ s[4] =
      Write
  OBVIOUS
<1>. HIDE DEF s
<1>2. s[1][1] = "handle" /\ s[2][1] = "take" /\ s[3][1] = "core" /\ s[4][1] = "write" /\ s[1][2] =
      k /\ s[2][2] = k
  BY <1>1, Tags
<1>3. Apart(s)
  BY <1>1, <1>2 DEF Apart, Stops, Lasts, Refusable
<1>5. Served(s)
  BY <1>1, <1>2 DEF Served
<1>6. \A i \in 1..4 : (i # 1 => s[i][1] # "handle") /\ (i # 2 => s[i][1] # "take")
  BY <1>2
<1>7. Freed(s, 2)
  BY <1>1, <1>2, <1>6 DEF Freed
<1>8. Consuming(s)
  BY <1>1, <1>3, <1>5, <1>7 DEF Consuming, Orderly
<1>. QED BY <1>8 DEF s

(* A CCM encryptor. *)
LEMMA FinishZeroedRow ==
    ASSUME NEW k
    PROVE  Consuming(<<Handle(k), ZeroLen, Take(k), Core, Write>>)
<1>. DEFINE s == <<Handle(k), ZeroLen, Take(k), Core, Write>>
<1>1. Len(s) = 5 /\ DOMAIN s = 1..5 /\ s[1] = Handle(k) /\ s[2] = ZeroLen /\ s[3] = Take(k) /\
      s[4] = Core /\ s[5] = Write
  OBVIOUS
<1>. HIDE DEF s
<1>2. s[1][1] = "handle" /\ s[2][1] = "zero_len" /\ s[3][1] = "take" /\ s[4][1] = "core" /\
      s[5][1] = "write" /\ s[1][2] = k /\ s[3][2] = k
  BY <1>1, Tags
<1>3. Apart(s)
  BY <1>1, <1>2 DEF Apart, Stops, Lasts, Refusable
<1>5. Served(s)
  BY <1>1, <1>2 DEF Served
<1>6. \A i \in 1..5 : (i # 1 => s[i][1] # "handle") /\ (i # 3 => s[i][1] # "take")
  BY <1>2
<1>7. Freed(s, 3)
  BY <1>1, <1>2, <1>6 DEF Freed
<1>8. Consuming(s)
  BY <1>1, <1>3, <1>5, <1>7 DEF Consuming, Orderly
<1>. QED BY <1>8 DEF s

(* The two finalize_verify. *)
LEMMA VerifyRow ==
    ASSUME NEW k
    PROVE  Consuming(<<Handle(k), ZeroLen, Take(k), Slice, Core, Write>>)
<1>. DEFINE s == <<Handle(k), ZeroLen, Take(k), Slice, Core, Write>>
<1>1. Len(s) = 6 /\ DOMAIN s = 1..6 /\ s[1] = Handle(k) /\ s[2] = ZeroLen /\ s[3] = Take(k) /\
      s[4] = Slice /\ s[5] = Core /\ s[6] = Write
  OBVIOUS
<1>. HIDE DEF s
<1>2. s[1][1] = "handle" /\ s[2][1] = "zero_len" /\ s[3][1] = "take" /\ s[4][1] = "slice" /\
      s[5][1] = "core" /\ s[6][1] = "write" /\ s[1][2] = k /\ s[3][2] = k
  BY <1>1, Tags
<1>3. Apart(s)
  BY <1>1, <1>2 DEF Apart, Stops, Lasts, Refusable
<1>5. Served(s)
  BY <1>1, <1>2 DEF Served
<1>6. \A i \in 1..6 : (i # 1 => s[i][1] # "handle") /\ (i # 3 => s[i][1] # "take")
  BY <1>2
<1>7. Freed(s, 3)
  BY <1>1, <1>2, <1>6 DEF Freed
<1>8. Consuming(s)
  BY <1>1, <1>3, <1>5, <1>7 DEF Consuming, Orderly
<1>. QED BY <1>8 DEF s

(* sm4_gcm_encrypt. *)
LEMMA GcmEncryptRow ==
    Keeping(<<Fixed, Slice, Slice, Slice, Output("tag"), Core, Write, Put("tag")>>)
<1>. DEFINE s == <<Fixed, Slice, Slice, Slice, Output("tag"), Core, Write, Put("tag")>>
<1>1. Len(s) = 8 /\ DOMAIN s = 1..8 /\ s[1] = Fixed /\ s[2] = Slice /\ s[3] = Slice /\ s[4] =
      Slice /\ s[5] = Output("tag") /\ s[6] = Core /\ s[7] = Write /\ s[8] = Put("tag")
  OBVIOUS
<1>. HIDE DEF s
<1>2. s[1][1] = "fixed" /\ s[2][1] = "slice" /\ s[3][1] = "slice" /\ s[4][1] = "slice" /\ s[5][1]
      = "output" /\ s[6][1] = "core" /\ s[7][1] = "write" /\ s[8][1] = "put" /\ s[5][2] = "tag" /\
      s[8][2] = "tag"
  BY <1>1, Tags
<1>3. Apart(s)
  BY <1>1, <1>2 DEF Apart, Stops, Lasts, Refusable
<1>4. Delivers(s[8], s[5][2])
  BY <1>2 DEF Delivers
<1>5. Served(s)
  BY <1>1, <1>2, <1>4 DEF Served
<1>6. \A i \in 1..8 : s[i][1] # "take"
  BY <1>2
<1>7. Keeping(s)
  BY <1>1, <1>3, <1>5, <1>6 DEF Keeping, Orderly
<1>. QED BY <1>7 DEF s

(* sm4_gcm_encrypt_with_tag_len. *)
LEMMA GcmTagLenRow ==
    Keeping(<<Core, Fixed, Slice, Slice, Slice, Output("tag"), Core, Write, Put("tag")>>)
<1>. DEFINE s == <<Core, Fixed, Slice, Slice, Slice, Output("tag"), Core, Write, Put("tag")>>
<1>1. Len(s) = 9 /\ DOMAIN s = 1..9 /\ s[1] = Core /\ s[2] = Fixed /\ s[3] = Slice /\ s[4] = Slice
      /\ s[5] = Slice /\ s[6] = Output("tag") /\ s[7] = Core /\ s[8] = Write /\ s[9] = Put("tag")
  OBVIOUS
<1>. HIDE DEF s
<1>2. s[1][1] = "core" /\ s[2][1] = "fixed" /\ s[3][1] = "slice" /\ s[4][1] = "slice" /\ s[5][1] =
      "slice" /\ s[6][1] = "output" /\ s[7][1] = "core" /\ s[8][1] = "write" /\ s[9][1] = "put" /\
      s[6][2] = "tag" /\ s[9][2] = "tag"
  BY <1>1, Tags
<1>3. Apart(s)
  BY <1>1, <1>2 DEF Apart, Stops, Lasts, Refusable
<1>4. Delivers(s[9], s[6][2])
  BY <1>2 DEF Delivers
<1>5. Served(s)
  BY <1>1, <1>2, <1>4 DEF Served
<1>6. \A i \in 1..9 : s[i][1] # "take"
  BY <1>2
<1>7. Keeping(s)
  BY <1>1, <1>3, <1>5, <1>6 DEF Keeping, Orderly
<1>. QED BY <1>7 DEF s

(* x509_certificate_key_usage. *)
LEMMA KeyUsageRow ==
    Keeping(<<Handle("x509"), Output("present"), Output("bits"), Put("present"), Put("bits")>>)
<1>. DEFINE s == <<Handle("x509"), Output("present"), Output("bits"), Put("present"), Put("bits")>>
<1>1. Len(s) = 5 /\ DOMAIN s = 1..5 /\ s[1] = Handle("x509") /\ s[2] = Output("present") /\ s[3] =
      Output("bits") /\ s[4] = Put("present") /\ s[5] = Put("bits")
  OBVIOUS
<1>. HIDE DEF s
<1>2. s[1][1] = "handle" /\ s[2][1] = "output" /\ s[3][1] = "output" /\ s[4][1] = "put" /\ s[5][1]
      = "put" /\ s[1][2] = "x509" /\ s[2][2] = "present" /\ s[3][2] = "bits" /\ s[4][2] =
      "present" /\ s[5][2] = "bits"
  BY <1>1, Tags
<1>3. Apart(s)
  BY <1>1, <1>2 DEF Apart, Stops, Lasts, Refusable
<1>4. Delivers(s[4], s[2][2]) /\ Delivers(s[5], s[3][2])
  BY <1>2 DEF Delivers
<1>5. Served(s)
  BY <1>1, <1>2, <1>4 DEF Served
<1>6. \A i \in 1..5 : s[i][1] # "take"
  BY <1>2
<1>7. Keeping(s)
  BY <1>1, <1>3, <1>5, <1>6 DEF Keeping, Orderly
<1>. QED BY <1>7 DEF s

(* x509_certificate_basic_constraints. *)
LEMMA BasicConstraintsRow ==
    Keeping(<<Handle("x509"), Output("present"), Output("is_ca"), Output("has_path_len"),
              Output("path_len"), Put("present"), Put("is_ca"), Put("has_path_len"),
              Put("path_len")>>)
<1>. DEFINE s == <<Handle("x509"), Output("present"), Output("is_ca"), Output("has_path_len"),
                   Output("path_len"), Put("present"), Put("is_ca"), Put("has_path_len"),
                   Put("path_len")>>
<1>1. Len(s) = 9 /\ DOMAIN s = 1..9 /\ s[1] = Handle("x509") /\ s[2] = Output("present") /\ s[3] =
      Output("is_ca") /\ s[4] = Output("has_path_len") /\ s[5] = Output("path_len") /\ s[6] =
      Put("present") /\ s[7] = Put("is_ca") /\ s[8] = Put("has_path_len") /\ s[9] =
      Put("path_len")
  OBVIOUS
<1>. HIDE DEF s
<1>2. s[1][1] = "handle" /\ s[2][1] = "output" /\ s[3][1] = "output" /\ s[4][1] = "output" /\
      s[5][1] = "output" /\ s[6][1] = "put" /\ s[7][1] = "put" /\ s[8][1] = "put" /\ s[9][1] =
      "put" /\ s[1][2] = "x509" /\ s[2][2] = "present" /\ s[3][2] = "is_ca" /\ s[4][2] =
      "has_path_len" /\ s[5][2] = "path_len" /\ s[6][2] = "present" /\ s[7][2] = "is_ca" /\
      s[8][2] = "has_path_len" /\ s[9][2] = "path_len"
  BY <1>1, Tags
<1>3. Apart(s)
  BY <1>1, <1>2 DEF Apart, Stops, Lasts, Refusable
<1>4. Delivers(s[6], s[2][2]) /\ Delivers(s[7], s[3][2]) /\ Delivers(s[8], s[4][2]) /\
      Delivers(s[9], s[5][2])
  BY <1>2 DEF Delivers
<1>5. Served(s)
  BY <1>1, <1>2, <1>4 DEF Served
<1>6. \A i \in 1..9 : s[i][1] # "take"
  BY <1>2
<1>7. Keeping(s)
  BY <1>1, <1>3, <1>5, <1>6 DEF Keeping, Orderly
<1>. QED BY <1>7 DEF s

(* sm2_privkey_from_pkcs8. *)
LEMMA FromPkcs8Row ==
    Keeping(<<Output("out_key"), Slice, Slice, Core, Core, Core, Store("privkey")>>)
<1>. DEFINE s == <<Output("out_key"), Slice, Slice, Core, Core, Core, Store("privkey")>>
<1>1. Len(s) = 7 /\ DOMAIN s = 1..7 /\ s[1] = Output("out_key") /\ s[2] = Slice /\ s[3] = Slice /\
      s[4] = Core /\ s[5] = Core /\ s[6] = Core /\ s[7] = Store("privkey")
  OBVIOUS
<1>. HIDE DEF s
<1>2. s[1][1] = "output" /\ s[2][1] = "slice" /\ s[3][1] = "slice" /\ s[4][1] = "core" /\ s[5][1]
      = "core" /\ s[6][1] = "core" /\ s[7][1] = "store" /\ s[1][2] = "out_key" /\ s[7][2] =
      "privkey"
  BY <1>1, Tags
<1>3. Apart(s)
  BY <1>1, <1>2 DEF Apart, Stops, Lasts, Refusable
<1>4. Delivers(s[7], s[1][2])
  BY <1>2 DEF Delivers
<1>5. Served(s)
  BY <1>1, <1>2, <1>4 DEF Served
<1>6. \A i \in 1..7 : s[i][1] # "take"
  BY <1>2
<1>7. Keeping(s)
  BY <1>1, <1>3, <1>5, <1>6 DEF Keeping, Orderly
<1>. QED BY <1>7 DEF s

(* One step put in front of five. *)
LEMMA OneAndFive == ASSUME NEW S, NEW h \in Seq(S), NEW t \in Seq(S), Len(h) = 1, Len(t) = 5
  PROVE /\ h \o t \in Seq(S) /\ Len(h \o t) = 6 
        /\ (h \o t)[1] = h[1] /\ (h \o t)[2] = t[1] /\ (h \o t)[3] = t[2]
        /\ (h \o t)[4] = t[3] /\ (h \o t)[5] = t[4] /\ (h \o t)[6] = t[5]
<1>. DEFINE s == h \o t
<1>1. /\ s \in Seq(S) /\ Len(s) = Len(h) + Len(t)
      /\ \A i \in 1..(Len(h) + Len(t)) : s[i] = IF i <= Len(h) THEN h[i] ELSE t[i - Len(h)]
  BY ConcatFacts
<1>. HIDE DEF s
<1>2. /\ Len(s) = 6 /\ s[1] = h[1] /\ s[2] = t[1] /\ s[3] = t[2]
      /\ s[4] = t[3] /\ s[5] = t[4] /\ s[6] = t[5]
  BY <1>1
<1>. QED BY <1>1, <1>2 DEF s
(* The same, of tuples. *)
LEMMA StepInFront == ASSUME NEW a, NEW b, NEW c, NEW d, NEW e, NEW f
  PROVE <<a>> \o <<b,c,d,e,f>> = <<a,b,c,d,e,f>>
<1>. DEFINE S == {a,b,c,d,e,f}
            h == <<a>>
            t == <<b,c,d,e,f>>
            s == h \o t
            r == <<a,b,c,d,e,f>>
<1>1. /\ Len(t) = 5 /\ t[1] = b /\ t[2] = c /\ t[3] = d /\ t[4] = e /\ t[5] = f
      /\ t \in Seq(S)
  OBVIOUS
<1>0. h \in Seq(S) /\ Len(h) = 1 /\ h[1] = a
  OBVIOUS
<1>5. /\ r \in Seq(S) /\ Len(r) = 6 /\ r[1] = a /\ r[2] = b /\ r[3] = c
      /\ r[4] = d /\ r[5] = e /\ r[6] = f
  OBVIOUS
<1>. HIDE DEF t, h, S, r
<1>2. /\ s \in Seq(S) /\ Len(s) = 6 
        /\ s[1] = h[1] /\ s[2] = t[1] /\ s[3] = t[2]
      /\ s[4] = t[3] /\ s[5] = t[4] /\ s[6] = t[5]
  BY <1>1, <1>0, OneAndFive
<1>. HIDE DEF s
<1>6. s = r
  <2>1. \A i \in 1..Len(s) : s[i] = r[i]
    BY <1>2, <1>5, <1>0, <1>1
  <2>. QED BY <1>2, <1>5, <2>1, SameSeq
<1>. QED BY <1>6 DEF s, t, h, r

(* The rows of the functions that free no handle.                          *)
LEMMA KeepingRows == \A f \in Functions \ Freeing : Keeping(Calls[f])
<1>1. Keeping(Calls["sm3_hash"]) /\ Keeping(Calls["sm4_encrypt_block"]) /\
      Keeping(Calls["sm4_decrypt_block"]) /\ Keeping(Calls["sm2_privkey_to_sec1_be"])
  BY Asked3, StepKinds DEF Calls, sm3_hash, sm4_encrypt_block, sm4_decrypt_block,
     sm2_privkey_to_sec1_be, Asks
<1>2. Keeping(Calls["sm2_pubkey_to_sec1_uncompressed"]) /\
      Keeping(Calls["x509_certificate_not_before"]) /\
      Keeping(Calls["x509_certificate_not_after"]) /\
      Keeping(Calls["x509_certificate_is_self_issued"])
  BY Asked3, StepKinds DEF Calls, sm2_pubkey_to_sec1_uncompressed, x509_certificate_not_before,
     x509_write_time, x509_certificate_not_after, x509_certificate_is_self_issued, Asks
<1>3. Keeping(Calls["hmac_sm3"]) /\ Keeping(Calls["sm4_xts_encrypt_sectors"]) /\
      Keeping(Calls["sm4_xts_decrypt_sectors"]) /\ Keeping(Calls["x509_verify_chain"])
  BY Asked4, StepKinds DEF Calls, hmac_sm3, sm4_xts_encrypt_sectors, sm4_xts_decrypt_sectors,
     x509_verify_chain, collect_cert_refs, Asks
<1>4. Keeping(Calls["pbkdf2_hmac_sm3"]) /\ Keeping(Calls["tlcp_verify_pair"]) /\
      Keeping(Calls["tlcp_derive_master_secret"]) /\ Keeping(Calls["tlcp_derive_key_block"])
  BY Asked5, StepKinds DEF Calls, pbkdf2_hmac_sm3, tlcp_verify_pair, collect_cert_refs,
     tlcp_derive_master_secret, tlcp_derive_key_block, Asks
<1>5. Keeping(Calls["tlcp_finished_verify_data"])
  BY Asked5, StepKinds DEF Calls, tlcp_finished_verify_data, tlcp_role, Asks
<1>6. Keeping(Calls["sm4_new"]) /\ Keeping(Calls["sm4_gcm_decryptor_update"]) /\
      Keeping(Calls["sm4_ccm_decryptor_update"]) /\ Keeping(Calls["x509_certificate_tbs_raw"])
  BY Looked2, StepKinds DEF Calls, sm4_new, sm4_gcm_decryptor_update, sm4_ccm_decryptor_update,
     x509_certificate_tbs_raw, x509_copy_out
<1>7. Keeping(Calls["x509_certificate_serial_raw"]) /\
      Keeping(Calls["x509_certificate_issuer_raw"]) /\
      Keeping(Calls["x509_certificate_subject_raw"]) /\
      Keeping(Calls["x509_certificate_extensions_raw"])
  BY Looked2, StepKinds DEF Calls, x509_certificate_serial_raw, x509_copy_out,
     x509_certificate_issuer_raw, x509_certificate_subject_raw, x509_certificate_extensions_raw
<1>8. Keeping(Calls["x509_certificate_subject_public_key"])
  BY Looked2, StepKinds DEF Calls, x509_certificate_subject_public_key
<1>9. Keeping(Calls["sm4_cbc_encrypt"]) /\ Keeping(Calls["sm4_gcm_encryptor_new"]) /\
      Keeping(Calls["sm4_gcm_decryptor_new"]) /\ Keeping(Calls["sm4_gcm_encryptor_update"])
  BY Looked4, StepKinds DEF Calls, sm4_cbc_encrypt, sm4_gcm_encryptor_new, sm4_gcm_decryptor_new,
     sm4_gcm_encryptor_update
<1>10. Keeping(Calls["sm2_encrypt"]) /\ Keeping(Calls["sm2_decrypt"]) /\
      Keeping(Calls["sm4_ccm_encryptor_update"]) /\
      Keeping(Calls["x509_certificate_verify_signature_with_id"])
  BY Looked4, StepKinds DEF Calls, sm2_encrypt, sm2_decrypt, sm4_ccm_encryptor_update,
     x509_certificate_verify_signature_with_id, signer_id_or_default
<1>11. Keeping(Calls["x509_certificate_verify_signature"])
  BY Looked4, StepKinds DEF Calls, x509_certificate_verify_signature,
     x509_certificate_verify_signature_with_id, signer_id_or_default
<1>12. Keeping(Calls["sm4_cbc_decrypt"]) /\ Keeping(Calls["sm4_xts_encrypt"]) /\
      Keeping(Calls["sm4_xts_decrypt"]) /\ Keeping(Calls["sm4_ccm_encryptor_new"])
  BY Looked5, StepKinds DEF Calls, sm4_cbc_decrypt, sm4_xts_encrypt, sm4_xts_decrypt,
     sm4_ccm_encryptor_new
<1>13. Keeping(Calls["sm4_ccm_decryptor_new"]) /\ Keeping(Calls["sm2_sign"]) /\
      Keeping(Calls["sm2_verify"]) /\ Keeping(Calls["sm2_encrypt_c1c3c2"])
  BY Looked5, StepKinds DEF Calls, sm4_ccm_decryptor_new, sm2_sign, sm2_verify, sm2_encrypt_c1c3c2
<1>14. Keeping(Calls["sm2_decrypt_c1c3c2"]) /\ Keeping(Calls["sm2_decrypt_c1c2c3_legacy"]) /\
      Keeping(Calls["sm2_encrypt_with_rng"]) /\ Keeping(Calls["tlcp_protect_cbc"])
  BY Looked5, StepKinds DEF Calls, sm2_decrypt_c1c3c2, sm2_decrypt_c1c2c3_legacy,
     sm2_encrypt_with_rng, tlcp_protect_cbc, tlcp_protect_cbc_impl
<1>15. Keeping(Calls["tlcp_deprotect_cbc"]) /\ Keeping(Calls["tlcp_protect_gcm"]) /\
      Keeping(Calls["tlcp_deprotect_gcm"])
  BY Looked5, StepKinds DEF Calls, tlcp_deprotect_cbc, tlcp_protect_gcm, tlcp_deprotect_gcm
<1>16. Keeping(Calls["sm4_cbc_encryptor_new"]) /\ Keeping(Calls["sm4_cbc_decryptor_new"]) /\
      Keeping(Calls["sm4_cbc_encryptor_update"]) /\ Keeping(Calls["sm4_cbc_decryptor_update"])
  BY Looked3, StepKinds DEF Calls, sm4_cbc_encryptor_new, sm4_cbc_decryptor_new,
     sm4_cbc_encryptor_update, sm4_cbc_decryptor_update
<1>17. Keeping(Calls["sm2_privkey_new"]) /\ Keeping(Calls["sm2_pubkey_new"]) /\
      Keeping(Calls["x509_certificate_from_der"]) /\ Keeping(Calls["tlcp_record_keys_cbc_new"])
  BY Looked3, StepKinds DEF Calls, sm2_privkey_new, sm2_pubkey_new, x509_certificate_from_der,
     tlcp_record_keys_cbc_new, tlcp_role
<1>18. Keeping(Calls["tlcp_record_keys_gcm_new"])
  BY Looked3, StepKinds DEF Calls, tlcp_record_keys_gcm_new, tlcp_role
<1>19. Keeping(Calls["sm4_gcm_encrypt"])
  BY GcmEncryptRow DEF Calls, sm4_gcm_encrypt
<1>20. Keeping(Calls["sm4_gcm_encrypt_with_tag_len"])
  BY GcmTagLenRow DEF Calls, sm4_gcm_encrypt_with_tag_len
<1>21. Keeping(Calls["sm4_gcm_decrypt"]) /\ Keeping(Calls["sm4_gcm_decrypt_with_tag_len"])
  BY Looked7, StepKinds DEF Calls, sm4_gcm_decrypt, sm4_gcm_decrypt_with_tag_len
<1>22. Keeping(Calls["sm4_ccm_encrypt"]) /\ Keeping(Calls["sm4_ccm_decrypt"]) /\
      Keeping(Calls["sm2_privkey_to_pkcs8"]) /\ Keeping(Calls["sm2_sign_with_rng"])
  BY Looked6, StepKinds DEF Calls, sm4_ccm_encrypt, sm4_ccm_decrypt, sm2_privkey_to_pkcs8,
     sm2_sign_with_rng
<1>23. Keeping(Calls["tlcp_protect_cbc_with_rng"])
  <2>1. Keeping(<<Callback, Handle("keys_cbc"), Fixed, Slice, Core, Write>>)
    BY Looked6, StepKinds
  <2>2. Calls["tlcp_protect_cbc_with_rng"] = <<Callback>> \o tlcp_protect_cbc_impl
    BY DEF Calls, tlcp_protect_cbc_with_rng
  <2>3. <<Callback>> \o tlcp_protect_cbc_impl
          = <<Callback, Handle("keys_cbc"), Fixed, Slice, Core, Write>>
    BY StepInFront DEF tlcp_protect_cbc_impl
  <2>. QED BY <2>1, <2>2, <2>3
<1>24. Keeping(Calls["sm2_privkey_from_pkcs8"])
  BY FromPkcs8Row DEF Calls, sm2_privkey_from_pkcs8
<1>25. Keeping(Calls["x509_certificate_key_usage"])
  BY KeyUsageRow DEF Calls, x509_certificate_key_usage
<1>26. Keeping(Calls["x509_certificate_basic_constraints"])
  BY BasicConstraintsRow DEF Calls, x509_certificate_basic_constraints
<1>. SUFFICES ASSUME NEW f \in Functions \ Freeing PROVE Keeping(Calls[f])
  OBVIOUS
<1>27. \/ f \in {"sm3_hash", "sm4_encrypt_block", "sm4_decrypt_block", "sm2_privkey_to_sec1_be",
             "sm2_pubkey_to_sec1_uncompressed", "x509_certificate_not_before",
             "x509_certificate_not_after", "x509_certificate_is_self_issued", "hmac_sm3",
             "sm4_xts_encrypt_sectors", "sm4_xts_decrypt_sectors", "x509_verify_chain",
             "pbkdf2_hmac_sm3", "tlcp_verify_pair", "tlcp_derive_master_secret",
             "tlcp_derive_key_block", "tlcp_finished_verify_data", "sm4_new",
             "sm4_gcm_decryptor_update", "sm4_ccm_decryptor_update", "x509_certificate_tbs_raw",
             "x509_certificate_serial_raw", "x509_certificate_issuer_raw",
             "x509_certificate_subject_raw", "x509_certificate_extensions_raw",
             "x509_certificate_subject_public_key", "sm4_cbc_encrypt", "sm4_gcm_encryptor_new",
             "sm4_gcm_decryptor_new", "sm4_gcm_encryptor_update"}
      \/ f \in {"sm2_encrypt", "sm2_decrypt", "sm4_ccm_encryptor_update",
             "x509_certificate_verify_signature_with_id", "x509_certificate_verify_signature",
             "sm4_cbc_decrypt", "sm4_xts_encrypt", "sm4_xts_decrypt", "sm4_ccm_encryptor_new",
             "sm4_ccm_decryptor_new", "sm2_sign", "sm2_verify", "sm2_encrypt_c1c3c2",
             "sm2_decrypt_c1c3c2", "sm2_decrypt_c1c2c3_legacy", "sm2_encrypt_with_rng",
             "tlcp_protect_cbc", "tlcp_deprotect_cbc", "tlcp_protect_gcm", "tlcp_deprotect_gcm",
             "sm4_cbc_encryptor_new", "sm4_cbc_decryptor_new", "sm4_cbc_encryptor_update",
             "sm4_cbc_decryptor_update", "sm2_privkey_new", "sm2_pubkey_new",
             "x509_certificate_from_der", "tlcp_record_keys_cbc_new", "tlcp_record_keys_gcm_new"}
      \/ f \in {"sm4_gcm_encrypt", "sm4_gcm_encrypt_with_tag_len", "sm4_gcm_decrypt",
             "sm4_gcm_decrypt_with_tag_len", "sm4_ccm_encrypt", "sm4_ccm_decrypt",
             "sm2_privkey_to_pkcs8", "sm2_sign_with_rng", "tlcp_protect_cbc_with_rng",
             "sm2_privkey_from_pkcs8", "x509_certificate_key_usage",
             "x509_certificate_basic_constraints"}
  BY DEF Functions, Calls, Freeing
<1>28. CASE f \in {"sm3_hash", "sm4_encrypt_block", "sm4_decrypt_block", "sm2_privkey_to_sec1_be",
               "sm2_pubkey_to_sec1_uncompressed", "x509_certificate_not_before",
               "x509_certificate_not_after", "x509_certificate_is_self_issued", "hmac_sm3",
               "sm4_xts_encrypt_sectors", "sm4_xts_decrypt_sectors", "x509_verify_chain",
               "pbkdf2_hmac_sm3", "tlcp_verify_pair", "tlcp_derive_master_secret",
               "tlcp_derive_key_block", "tlcp_finished_verify_data", "sm4_new",
               "sm4_gcm_decryptor_update", "sm4_ccm_decryptor_update", "x509_certificate_tbs_raw",
               "x509_certificate_serial_raw", "x509_certificate_issuer_raw",
               "x509_certificate_subject_raw", "x509_certificate_extensions_raw",
               "x509_certificate_subject_public_key", "sm4_cbc_encrypt", "sm4_gcm_encryptor_new",
               "sm4_gcm_decryptor_new", "sm4_gcm_encryptor_update"}
  BY <1>28, <1>1, <1>2, <1>3, <1>4, <1>5, <1>6, <1>7, <1>8, <1>9
<1>29. CASE f \in {"sm2_encrypt", "sm2_decrypt", "sm4_ccm_encryptor_update",
               "x509_certificate_verify_signature_with_id", "x509_certificate_verify_signature",
               "sm4_cbc_decrypt", "sm4_xts_encrypt", "sm4_xts_decrypt", "sm4_ccm_encryptor_new",
               "sm4_ccm_decryptor_new", "sm2_sign", "sm2_verify", "sm2_encrypt_c1c3c2",
               "sm2_decrypt_c1c3c2", "sm2_decrypt_c1c2c3_legacy", "sm2_encrypt_with_rng",
               "tlcp_protect_cbc", "tlcp_deprotect_cbc", "tlcp_protect_gcm", "tlcp_deprotect_gcm",
               "sm4_cbc_encryptor_new", "sm4_cbc_decryptor_new", "sm4_cbc_encryptor_update",
               "sm4_cbc_decryptor_update", "sm2_privkey_new", "sm2_pubkey_new",
               "x509_certificate_from_der", "tlcp_record_keys_cbc_new",
               "tlcp_record_keys_gcm_new"}
  BY <1>29, <1>10, <1>11, <1>12, <1>13, <1>14, <1>15, <1>16, <1>17, <1>18
<1>30. CASE f \in {"sm4_gcm_encrypt", "sm4_gcm_encrypt_with_tag_len", "sm4_gcm_decrypt",
               "sm4_gcm_decrypt_with_tag_len", "sm4_ccm_encrypt", "sm4_ccm_decrypt",
               "sm2_privkey_to_pkcs8", "sm2_sign_with_rng", "tlcp_protect_cbc_with_rng",
               "sm2_privkey_from_pkcs8", "x509_certificate_key_usage",
               "x509_certificate_basic_constraints"}
  BY <1>30, <1>19, <1>20, <1>21, <1>22, <1>23, <1>24, <1>25, <1>26
<1>. QED BY <1>27, <1>28, <1>29, <1>30

(* The rows of those that do.                                              *)
LEMMA FreeingRows == \A f \in Freeing : Consuming(Calls[f])
<1>1. Consuming(Calls["sm4_free"]) /\ Consuming(Calls["sm4_cbc_encryptor_free"]) /\
      Consuming(Calls["sm4_cbc_decryptor_free"]) /\ Consuming(Calls["sm4_gcm_encryptor_free"])
  BY FreeRow DEF Calls, sm4_free, sm4_cbc_encryptor_free, sm4_cbc_decryptor_free,
     sm4_gcm_encryptor_free
<1>2. Consuming(Calls["sm4_gcm_decryptor_free"]) /\ Consuming(Calls["sm4_ccm_encryptor_free"]) /\
      Consuming(Calls["sm4_ccm_decryptor_free"]) /\ Consuming(Calls["sm2_privkey_free"])
  BY FreeRow DEF Calls, sm4_gcm_decryptor_free, sm4_ccm_encryptor_free, sm4_ccm_decryptor_free,
     sm2_privkey_free
<1>3. Consuming(Calls["sm2_pubkey_free"]) /\ Consuming(Calls["x509_certificate_free"]) /\
      Consuming(Calls["tlcp_record_keys_cbc_free"]) /\
      Consuming(Calls["tlcp_record_keys_gcm_free"])
  BY FreeRow DEF Calls, sm2_pubkey_free, x509_certificate_free, tlcp_record_keys_cbc_free,
     tlcp_record_keys_gcm_free
<1>4. Consuming(Calls["sm4_cbc_encryptor_finalize"])
  BY FinishRow DEF Calls, sm4_cbc_encryptor_finalize
<1>5. Consuming(Calls["sm4_cbc_decryptor_finalize"])
  BY FinishCheckedRow DEF Calls, sm4_cbc_decryptor_finalize
<1>6. Consuming(Calls["sm4_gcm_encryptor_finalize"])
  BY FinishTagRow DEF Calls, sm4_gcm_encryptor_finalize
<1>7. Consuming(Calls["sm4_gcm_encryptor_finalize_with_tag_len"])
  BY FinishLenRow DEF Calls, sm4_gcm_encryptor_finalize_with_tag_len
<1>8. Consuming(Calls["sm4_gcm_decryptor_finalize_verify"]) /\
      Consuming(Calls["sm4_ccm_decryptor_finalize_verify"])
  BY VerifyRow DEF Calls, sm4_gcm_decryptor_finalize_verify, sm4_ccm_decryptor_finalize_verify
<1>9. Consuming(Calls["sm4_ccm_encryptor_finalize"])
  BY FinishZeroedRow DEF Calls, sm4_ccm_encryptor_finalize
<1>. QED BY <1>1, <1>2, <1>3, <1>4, <1>5, <1>6, <1>7, <1>8, <1>9 DEF Freeing

(* A call that ended where it may end. *)
CallOK(c) ==
    /\ c.fn \in Functions /\ c.at \in Ends(c.fn, c.need, c.room)
    /\ c.need \in Nat /\ c.room \in [cell : BOOLEAN, out : BOOLEAN, cap : Nat]
    /\ c.again => Ret(c) = "OK"

(* The rows are orderly, whether they free or not. *)
LEMMA RowsOrderly == \A f \in Functions : Orderly(Calls[f])
BY KeepingRows, FreeingRows DEF Keeping, Consuming

(* The step a refused call ends at may refuse, and nothing shows before it. *)
LEMMA RefusedShowsNothing ==
    ASSUME NEW f \in Functions, NEW need, NEW room, NEW at \in Ends(f, need, room),
           at \in DOMAIN Calls[f]
    PROVE  \A j \in 1..at - 1 : j \in DOMAIN Calls[f] /\ ~Lasts(Calls[f][j])
<1>. DEFINE s == Calls[f]
<1>1. Len(s) \in Nat /\ DOMAIN s = 1..Len(s) /\ Apart(s)
  BY RowsOrderly DEF Orderly
<1>2. at \in 1..Len(s) + 1 /\ (s[at][1] \in Refusable \/ s[at] = Write)
  BY DEF Ends
<1>. HIDE DEF s
<1>3. at \in 1..Len(s)
  BY <1>1 DEF s
<1>4. Stops(s[at])
  BY <1>2, Tags DEF Stops
<1>5. ASSUME NEW j \in 1..at - 1 PROVE j \in 1..Len(s) /\ ~Lasts(s[j])
  <2>1. j \in 1..Len(s) /\ j < at
    BY <1>1, <1>3, <1>5
  <2>. QED BY <2>1, <1>1, <1>3, <1>4 DEF Apart
<1>. QED BY <1>5, <1>1 DEF s

(* A refused call has written no output. *)
LEMMA RefusedWroteNothing ==
    ASSUME NEW c, CallOK(c), Ret(c) = "ERR"
    PROVE  Wrote(c) = {} /\ Write \notin Done(c)
<1>1. c.fn \in Functions /\ c.at \in Ends(c.fn, c.need, c.room) /\ c.at \in DOMAIN Calls[c.fn]
  BY DEF CallOK, Ret
<1>2. \A j \in 1..c.at - 1 : ~Lasts(Calls[c.fn][j])
  BY <1>1, RefusedShowsNothing
<1>3. \A d \in Done(c) : ~Lasts(d)
  BY <1>2 DEF Done
<1>4. \A d \in Done(c) : d[1] # "put" /\ d[1] # "store" /\ d[1] # "write"
  BY <1>3 DEF Lasts
<1>5. Write \notin Done(c)
  BY <1>4, Tags
<1>. QED BY <1>4, <1>5 DEF Wrote

(* An accepted call has taken every step of its row. *)
LEMMA AcceptedIsWhole ==
    ASSUME NEW c, CallOK(c), Ret(c) = "OK"
    PROVE  /\ \A i \in DOMAIN Calls[c.fn] : Calls[c.fn][i] \in Done(c)
           /\ \A d \in Done(c) : \E i \in DOMAIN Calls[c.fn] : d = Calls[c.fn][i]
           /\ HasWrite(c.fn) => Write \in Done(c) /\ Fits(c.need, c.room)
<1>. DEFINE s == Calls[c.fn]
<1>1. Len(s) \in Nat /\ DOMAIN s = 1..Len(s)
  BY RowsOrderly DEF Orderly, CallOK
<1>2. c.at \in 1..Len(s) + 1 /\ c.at \notin DOMAIN s
  BY DEF CallOK, Ends, Ret
<1>3. \A j \in 1..c.at - 1 : s[j] = Write => Fits(c.need, c.room)
  BY DEF CallOK, Ends
<1>. HIDE DEF s
<1>4. c.at - 1 = Len(s)
  BY <1>1, <1>2
<1>5. Done(c) = {s[j] : j \in 1..c.at - 1}
  BY DEF Done, s
<1>6. \A i \in DOMAIN s : s[i] \in Done(c)
  BY <1>1, <1>4, <1>5
<1>7. \A d \in Done(c) : \E i \in DOMAIN s : d = s[i]
  BY <1>1, <1>4, <1>5
<1>8. ASSUME HasWrite(c.fn) PROVE Write \in Done(c) /\ Fits(c.need, c.room)
  <2>1. PICK i \in DOMAIN s : s[i] = Write
    BY <1>8 DEF HasWrite, s
  <2>. QED BY <2>1, <1>1, <1>3, <1>4, <1>6
<1>. QED BY <1>6, <1>7, <1>8 DEF s

(* Nothing or everything, for a call that ended where it may. *)
LEMMA OutputsOfCall ==
    ASSUME NEW c, CallOK(c)
    PROVE  /\ Ret(c) = "ERR" => Wrote(c) = {}
           /\ Ret(c) = "OK" =>
                /\ {d[2] : d \in {s \in Done(c) : s[1] = "output"}} \subseteq Wrote(c)
                /\ HasWrite(c.fn) => Cell(c) = c.need /\ c.need <= c.room.cap
                /\ HasWrite(c.fn) /\ c.need > 0 => "out" \in Wrote(c) /\ c.room.out
<1>1. Ret(c) = "ERR" => Wrote(c) = {}
  BY RefusedWroteNothing
<1>2. ASSUME Ret(c) = "OK", NEW d \in Done(c), d[1] = "output" PROVE d[2] \in Wrote(c)
  <2>1. PICK i \in DOMAIN Calls[c.fn] : d = Calls[c.fn][i]
    BY <1>2, AcceptedIsWhole
  <2>2. Orderly(Calls[c.fn])
    BY RowsOrderly DEF CallOK
  <2>3. PICK j \in DOMAIN Calls[c.fn] : Delivers(Calls[c.fn][j], d[2])
    BY <1>2, <2>1, <2>2 DEF Orderly, Served
  <2>4. Calls[c.fn][j] \in Done(c)
    BY <1>2, <2>3, AcceptedIsWhole
  <2>. QED BY <2>3, <2>4 DEF Delivers, Wrote
<1>3. ASSUME Ret(c) = "OK", HasWrite(c.fn)
      PROVE  /\ Cell(c) = c.need /\ c.need <= c.room.cap
             /\ c.need > 0 => "out" \in Wrote(c) /\ c.room.out
  <2>1. Write \in Done(c) /\ Fits(c.need, c.room)
    BY <1>3, AcceptedIsWhole
  <2>2. c.need \in Nat
    BY DEF CallOK
  <2>3. c.room.cell /\ c.need <= c.room.cap /\ (c.need = 0 \/ c.room.out)
    BY <2>1 DEF Fits
  <2>4. Cell(c) = c.need
    BY <2>1, <2>3 DEF Cell
  <2>. QED BY <2>1, <2>2, <2>3, <2>4 DEF Wrote
<1>. QED BY <1>1, <1>2, <1>3

(* What *out_actual_len says of a refused call. *)
LEMMA CellOfCall ==
    ASSUME NEW c, CallOK(c), c.room.cell, Ret(c) = "ERR", c.before = 0 \/ ZeroLen \in Done(c)
    PROVE  Cell(c) > c.room.cap <=> TooSmall(c)
<1>1. Write \notin Done(c)
  BY RefusedWroteNothing
<1>2. c.need \in Nat /\ c.room.cap \in Nat
  BY DEF CallOK
<1>3. CASE AtStep(c, Write)
  BY <1>2, <1>3 DEF Cell, TooSmall
<1>4. CASE ~AtStep(c, Write)
  <2>1. Cell(c) = 0
    BY <1>1, <1>4 DEF Cell
  <2>. QED BY <2>1, <1>2, <1>4 DEF TooSmall
<1>. QED BY <1>3, <1>4

(* The freeing functions take a handle as soon as they have seen one, the  *)
(* others never.                                                           *)
LEMMA TakesWhatItIsGiven ==
    ASSUME NEW c, CallOK(c), NEW k
    PROVE  Taken(Done(c), k) = Given(c.fn, Done(c), k)
<1>. DEFINE f == c.fn
            s == Calls[f]
<1>0. f \in Functions /\ c.at \in Ends(f, c.need, c.room) /\ Orderly(s)
  BY RowsOrderly DEF CallOK
<1>1. Len(s) \in Nat /\ DOMAIN s = 1..Len(s)
  BY <1>0 DEF Orderly
<1>2. c.at \in 1..Len(s) + 1 /\ (c.at \in 1..Len(s) => s[c.at][1] \in Refusable \/ s[c.at] = Write)
  BY <1>0, <1>1 DEF Ends
<1>3. Done(c) = {s[j] : j \in 1..c.at - 1}
  BY DEF Done
<1>. HIDE DEF s
<1>4. CASE f \notin Freeing
  <2>1. \A i \in 1..Len(s) : s[i][1] # "take"
    BY <1>0, <1>4, KeepingRows DEF Keeping, s
  <2>2. Take(k) \notin Done(c)
    BY <2>1, <1>1, <1>2, <1>3, Tags
  <2>. QED BY <2>2, <1>4 DEF Taken, Given
<1>5. CASE f \in Freeing
  <2>1. PICK p \in 2..3 : Freed(s, p)
    BY <1>5, FreeingRows DEF Consuming, s
  <2>. DEFINE h == s[1][2]
  <2>2. /\ p = 2 \/ (p = 3 /\ s[2] = ZeroLen)
        /\ p \in 1..Len(s) /\ s[1] = Handle(h) /\ s[p] = Take(h)
        /\ \A i \in 1..Len(s) : (i # 1 => s[i][1] # "handle") /\ (i # p => s[i][1] # "take")
    BY <2>1 DEF Freed
  <2>. HIDE DEF h
  <2>3. s[1][1] = "handle" /\ s[p][1] = "take" /\ s[p][2] = h /\ s[1][2] = h
    BY <2>2, Tags
  <2>4. ASSUME Handle(k) \in Done(c) PROVE Take(k) \in Done(c)
    <3>1. PICK i \in 1..c.at - 1 : s[i] = Handle(k)
      BY <2>4, <1>3
    <3>2. i = 1 /\ h = k
      BY <3>1, <2>2, <2>3, <1>1, <1>2, Tags
    <3>3. c.at # p
      BY <2>2, <2>3, <1>1, <1>2, Tags DEF Refusable
    <3>4. p = 3 => c.at # 2
      BY <2>2, <1>1, <1>2, Tags DEF Refusable
    <3>5. p \in 1..c.at - 1
      BY <3>1, <3>2, <3>3, <3>4, <2>2, <1>1, <1>2
    <3>. QED BY <3>5, <3>2, <2>2, <1>3
  <2>5. ASSUME Take(k) \in Done(c) PROVE Handle(k) \in Done(c)
    <3>1. PICK i \in 1..c.at - 1 : s[i] = Take(k)
      BY <2>5, <1>3
    <3>2. i = p /\ h = k
      BY <3>1, <2>2, <2>3, <1>1, <1>2, Tags
    <3>3. 1 \in 1..c.at - 1
      BY <3>1, <1>1, <1>2
    <3>. QED BY <3>3, <3>2, <2>2, <1>3
  <2>. QED BY <2>4, <2>5, <1>5 DEF Taken, Given
<1>. QED BY <1>4, <1>5

-----------------------------------------------------------------------------
(* The inductive invariant: the last call ended where it may end, and what *)
(* is allocated is what the caller owns.                                   *)
CInv ==
    /\ live \in [Kinds -> Nat] /\ held = live
    /\ call \in {Quiet} \cup [fn : Functions, at : Nat, before : Nat, need : Nat,
                              room : [cell : BOOLEAN, out : BOOLEAN, cap : Nat],
                              again : BOOLEAN]
    /\ Called => CallOK(call)

(* No function is called quiet. *)
LEMMA QuietIsNoFunction == "quiet" \notin Functions
BY DEF Functions, Calls

(* A row of steps ends at a number. *)
LEMMA EndsIsNat == ASSUME NEW f \in Functions, NEW need, NEW room, NEW at \in Ends(f, need, room)
                   PROVE  at \in Nat
BY RowsOrderly DEF Orderly, Ends

(* What a call does to the handles: it frees one only if the caller holds  *)
(* it, and gives the allocator and the caller the same number.             *)
LEMMA HandlesStep ==
    ASSUME NEW c, CallOK(c), live \in [Kinds -> Nat], held = live,
           \A d \in Done(c) : d[1] = "handle" => held[d[2]] > 0,
           live' = [k \in Kinds |-> live[k] - Taken(Done(c), k) + Made(Done(c), k)],
           held' = [k \in Kinds |-> held[k] - Given(c.fn, Done(c), k) + Made(Done(c), k)]
    PROVE  live' \in [Kinds -> Nat] /\ held' = live'
<1>1. ASSUME NEW k \in Kinds
      PROVE  live[k] - Taken(Done(c), k) + Made(Done(c), k) \in Nat
  <2>1. Made(Done(c), k) \in {0, 1}
    BY DEF Made
  <2>2. Taken(Done(c), k) = Given(c.fn, Done(c), k)
    BY TakesWhatItIsGiven
  <2>3. CASE Handle(k) \in Done(c)
    <3>1. live[k] > 0
      BY <2>3, Tags
    <3>2. Taken(Done(c), k) \in {0, 1}
      BY DEF Taken
    <3>. QED BY <3>1, <3>2, <2>1
  <2>4. CASE Handle(k) \notin Done(c)
    <3>1. Taken(Done(c), k) = 0
      BY <2>2, <2>4 DEF Given
    <3>. QED BY <3>1, <2>1
  <2>. QED BY <2>3, <2>4
<1>2. \A k \in Kinds : Taken(Done(c), k) = Given(c.fn, Done(c), k)
  BY TakesWhatItIsGiven
<1>. QED BY <1>1, <1>2

(* A call keeps the invariant. *)
LEMMA CallStep ==
    ASSUME CInv, NEW f \in Functions, NEW before \in Nat, NEW need \in Nat,
           NEW room \in [cell : BOOLEAN, out : BOOLEAN, cap : Nat],
           CCall(f, before, need, room)
    PROVE  CInv'
<1>1. PICK at \in Ends(f, need, room) :
        LET c == [fn |-> f, at |-> at, before |-> before, need |-> need, room |-> room,
                  again |-> FALSE]
        IN  /\ \A d \in Done(c) : d[1] = "handle" => held[d[2]] > 0
            /\ call' = c
            /\ live' = [k \in Kinds |-> live[k] - Taken(Done(c), k) + Made(Done(c), k)]
            /\ held' = [k \in Kinds |-> held[k] - Given(f, Done(c), k) + Made(Done(c), k)]
  BY DEF CCall
<1>. DEFINE c == [fn |-> f, at |-> at, before |-> before, need |-> need, room |-> room,
                  again |-> FALSE]
<1>2. at \in Nat
  BY EndsIsNat
<1>3. /\ c \in [fn : Functions, at : Nat, before : Nat, need : Nat,
                room : [cell : BOOLEAN, out : BOOLEAN, cap : Nat], again : BOOLEAN]
      /\ c.fn = f /\ c.at = at /\ c.need = need /\ c.room = room /\ c.again = FALSE
  BY <1>2
<1>. HIDE DEF c
<1>4. CallOK(c)
  BY <1>3 DEF CallOK
<1>5. /\ \A d \in Done(c) : d[1] = "handle" => held[d[2]] > 0
      /\ call' = c
      /\ live' = [k \in Kinds |-> live[k] - Taken(Done(c), k) + Made(Done(c), k)]
      /\ held' = [k \in Kinds |-> held[k] - Given(c.fn, Done(c), k) + Made(Done(c), k)]
  BY <1>1, <1>3 DEF c
<1>6. live' \in [Kinds -> Nat] /\ held' = live'
  BY <1>4, <1>5, HandlesStep DEF CInv
<1>7. CallOK(call')
  BY <1>4, <1>5
<1>8. CallOK(call)'
  BY <1>7 DEF CallOK, Ret
<1>. QED BY <1>3, <1>5, <1>6, <1>8 DEF CInv

(* A repetition with the room asked for succeeds. *)
LEMMA RetrySucceeds ==
    ASSUME CInv, CRetry
    PROVE  CInv'
<1>. DEFINE wide == [cell |-> TRUE, out |-> TRUE, cap |-> Cell(call)]
            s == Calls[call.fn]
<1>1. Called /\ TooSmall(call)
  BY DEF CRetry
<1>2. CallOK(call) /\ call.need \in Nat /\ call.at \in Nat
  BY <1>1 DEF CInv, CallOK, Called, Quiet
<1>3. PICK at \in Ends(call.fn, call.need, wide) :
        at >= call.at /\ call' = [call EXCEPT !.at = at, !.again = TRUE, !.room = wide]
  BY DEF CRetry
<1>4. call.at \in DOMAIN s /\ s[call.at] = Write /\ Cell(call) = call.need
  BY <1>1 DEF TooSmall, AtStep, Cell
<1>5. wide \in [cell : BOOLEAN, out : BOOLEAN, cap : Nat] /\ Fits(call.need, wide)
  BY <1>2, <1>4 DEF Fits
<1>6. at \in Nat
  BY <1>2, EndsIsNat DEF CallOK
<1>. HIDE DEF wide
<1>7. at \notin DOMAIN s
  <2>. SUFFICES ASSUME at \in DOMAIN s PROVE FALSE
    OBVIOUS
  <2>1. \A j \in 1..at - 1 : ~Lasts(s[j])
    BY <1>2, <1>3, RefusedShowsNothing DEF CallOK
  <2>2. Lasts(s[call.at])
    BY <1>4, Tags DEF Lasts
  <2>3. call.at >= 1
    BY <1>2 DEF CallOK, Ends
  <2>4. at = call.at
    BY <2>1, <2>2, <2>3, <1>2, <1>3, <1>6
  <2>5. s[at][1] \in Refusable \/ (s[at] = Write /\ ~Fits(call.need, wide))
    BY <1>3 DEF Ends
  <2>. QED BY <2>4, <2>5, <1>4, <1>5, Tags DEF Refusable
<1>8. call \in [fn : Functions, at : Nat, before : Nat, need : Nat,
                room : [cell : BOOLEAN, out : BOOLEAN, cap : Nat], again : BOOLEAN]
  BY <1>1 DEF CInv, Called, Quiet
<1>9. /\ call' \in [fn : Functions, at : Nat, before : Nat, need : Nat,
                    room : [cell : BOOLEAN, out : BOOLEAN, cap : Nat], again : BOOLEAN]
      /\ call'.fn = call.fn /\ call'.at = at /\ call'.need = call.need /\ call'.room = wide
  BY <1>3, <1>5, <1>6, <1>8
<1>10. CallOK(call')
  BY <1>3, <1>7, <1>9 DEF CallOK, Ret
<1>11. CallOK(call)'
  BY <1>10 DEF CallOK, Ret
<1>12. UNCHANGED <<live, held>>
  BY DEF CRetry
<1>. QED BY <1>9, <1>11, <1>12 DEF CInv

(* Every state of every run satisfies the invariant: no caller's sequence  *)
(* of calls makes a function free a box that is not allocated (live is     *)
(* never below 0).                                                         *)
THEOREM CallInvariant == CSpec => []CInv
<1>1. CInit => CInv
  BY DEF CInit, CInv, Called, Quiet
<1>2. ASSUME CInv, [CNext]_cvars PROVE CInv'
  <2>1. ASSUME NEW f \in Functions,
               IF HasWrite(f) THEN \E before \in {0, Stale}, need \in 0..MaxLen, room \in Rooms :
                                     CCall(f, before, need, room)
                              ELSE CCall(f, 0, 0, NoRoom)
        PROVE  CInv'
    <3>1. CASE HasWrite(f)
      <4>1. PICK before \in {0, Stale}, need \in 0..MaxLen, room \in Rooms :
              CCall(f, before, need, room)
        BY <2>1, <3>1
      <4>2. before \in Nat /\ need \in Nat /\ room \in [cell : BOOLEAN, out : BOOLEAN, cap : Nat]
        BY BoundsAssumption DEF Stale, Rooms
      <4>. QED BY <1>2, <4>1, <4>2, CallStep
    <3>2. CASE ~HasWrite(f)
      <4>1. CCall(f, 0, 0, NoRoom)
        BY <2>1, <3>2
      <4>2. NoRoom \in [cell : BOOLEAN, out : BOOLEAN, cap : Nat]
        BY DEF NoRoom
      <4>. QED BY <1>2, <4>1, <4>2, CallStep
    <3>. QED BY <3>1, <3>2
  <2>2. CASE CRetry
    BY <1>2, <2>2, RetrySucceeds
  <2>3. CASE CQuiet
    BY <1>2, <2>3 DEF CQuiet, CInv, Called, Quiet
  <2>4. CASE UNCHANGED cvars
    BY <1>2, <2>4 DEF cvars, CInv, Called, CallOK, Ret
  <2>. QED BY <1>2, <2>1, <2>2, <2>3, <2>4 DEF CNext
<1>. QED BY <1>1, <1>2, PTL DEF CSpec

(* A refused call of any function leaves every output as it was; an        *)
(* accepted one has written all of them, and within the capacity.          *)
THEOREM OutputsAllOrNothing == CSpec => []AllOrNothing
<1>1. CInv => AllOrNothing
  BY OutputsOfCall DEF CInv, AllOrNothing
<1>. QED BY <1>1, CallInvariant, PTL

(* A caller can tell a short buffer from every other failure, and a        *)
(* repetition with the room asked for succeeds.                            *)
THEOREM ShortBufferIsTold == CSpec => []RoomTold
<1>1. CInv => RoomTold
  BY CellOfCall DEF CInv, RoomTold, CallOK
<1>. QED BY <1>1, CallInvariant, PTL

(* What is allocated is what the headers say the caller owns: nothing      *)
(* leaks on any path of any function.                                      *)
THEOREM NothingLeaks == CSpec => []HandlesAgree
<1>1. CInv => HandlesAgree
  BY DEF CInv, HandlesAgree
<1>. QED BY <1>1, CallInvariant, PTL
=============================================================================
