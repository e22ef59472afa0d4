------------------------------- MODULE Sm2Ops -------------------------------
(***************************************************************************)
(* One call of the SM2 library at a time: point arithmetic and the two     *)
(* multiplications window by window, signing and encryption draw by draw   *)
(* (each draw asks a random source that may fail), verification and        *)
(* decryption.  A digest of the message is an input; the hash that         *)
(* authenticates a ciphertext is the tuple of what it hashes.              *)
(***************************************************************************)
EXTENDS Sm2Curve, FiniteSets

CONSTANTS
    EncryptRetryBudget, \* 64 in the program
    BlockUnits,         \* units of key stream per digest
    CounterMax,         \* last value of the key derivation's block counter
    Keys2,              \* the private scalars that calls are made with
    Draws,              \* the values the random source yields
    ESet,               \* digests to be signed, modulo the order
    VerifyEs,           \* those of them that signatures are verified for
    IdLens,             \* lengths of identifiers
    Plaintexts,
    Rs,                 \* first parts of the signatures to be verified
    Zs,                 \* projective scalings of the points to be added
    Failed, Pending     \* the error, and the result of a call that still runs

(* The error and the mark of a running call are none of the results.       *)
ASSUME CallsAssumption ==
    /\ Keys2 \cup Draws \cup ESet \cup VerifyEs \cup IdLens \cup Rs \subseteq Nat
    /\ Zs \subseteq 1..(FieldP - 1)
    /\ \A m \in Plaintexts : m \in Seq({0, 1})
    /\ \A c \in {EncryptRetryBudget, BlockUnits, CounterMax} : c \in Nat \ {0}
    /\ Failed # Pending
    /\ \A v \in {Failed, Pending} :
         /\ v \notin Nat \X Nat /\ v # <<>> /\ v \notin Plaintexts
         /\ v \notin [x : Nat, y : Nat, hash : Nat \X Seq({0, 1}) \X Nat, c2 : Seq({0, 1})]

VARIABLE call           \* the running or finished call

SignRetryBudget == 2
NonceSampleBudget == 4
MaxIdLen == 8191
Entl(len) == (len * 8) % 65536

Running(op) == call.op = op /\ call.out = Pending
Idle == [op |-> "idle", out |-> Pending]
SInit == call = Idle

(***************************************************************************)
(* Keys: a private scalar is at least 1 and below n - 1.                   *)
(***************************************************************************)
FromScalar(d) == d # 0 /\ d < OrderN - 1
PrivateKeys == {d \in Keys2 : FromScalar(d)}
PublicKey(d) == MulG(d)
Publics == {Identity} \cup {PublicKey(d) : d \in PrivateKeys}

(***************************************************************************)
(* Point arithmetic.                                                       *)
(***************************************************************************)
AddPoints ==
    /\ call = Idle
    /\ \E a, b \in AllPoints, z \in Zs : LET q == Scaled(a, z) r == Scaled(b, 1) IN
        call' = [op |-> "add", a |-> a, b |-> b, eq |-> CtEq(q, r),
                    double |-> Double(q), neg |-> [q EXCEPT !.y = Fp(-@)], out |-> Add(q, r)]

StartMulVar ==
    /\ call = Idle
    /\ \E k \in 0..(OrderN - 1), a \in AllPoints, z \in Zs :
        call' = [op |-> "mul_var", k |-> k, a |-> a, left |-> NumWindows,
                    acc |-> MulVarStart(Scaled(a, z)), table |-> Multiples(Scaled(a, z)),
                    lifted |-> LiftScalar(k), out |-> Pending]
StepMulVar ==
    /\ Running("mul_var") /\ call.left > 0
    /\ call' = [call EXCEPT !.left = @ - 1,
                  !.acc = MulVarWindow(@, call.table, Nibble(call.lifted, call.left - 1))]
StartMulG ==
    /\ call = Idle
    /\ \E k \in 0..(OrderN - 1) :
        call' = [op |-> "mul_g", k |-> k, a |-> RefG, left |-> NumWindows,
                    acc |-> Identity, out |-> Pending]
StepMulG ==
    /\ Running("mul_g") /\ call.left > 0
    /\ call' = [call EXCEPT !.left = @ - 1,
                  !.acc = MulGWindow(@, call.k, NumWindows - call.left)]
EndMul ==
    /\ call.op \in {"mul_var", "mul_g"} /\ call.out = Pending /\ call.left = 0
    /\ call' = [call EXCEPT !.out = call.acc]

(***************************************************************************)
(* sample_nonzero_scalar: every draw of the budget is made, the first      *)
(* value in range is kept, a failing source fails the whole call.  The     *)
(* sample stays the dummy 1 when no draw was in range.                     *)
(***************************************************************************)
NoSample == [draws |-> 0, chosen |-> 1, found |-> FALSE]
Drawn(s, v) ==
    LET valid == v # 0 /\ v < OrderN IN
    [draws |-> s.draws + 1,
     chosen |-> IF valid /\ ~s.found THEN v ELSE s.chosen,
     found |-> s.found \/ valid]
Sampling == (Running("sign") \/ Running("encrypt")) /\ call.sample.draws < NonceSampleBudget
Draw ==
    /\ Sampling
    /\ \E v \in Draws :
        call' = [call EXCEPT !.sample = Drawn(@, v),
                      !.first = IF @ = 0 /\ v \in 1..(OrderN - 1) THEN v ELSE @]
DrawFails ==
    /\ Sampling
    /\ call' = [call EXCEPT !.out = Failed, !.rngFailed = TRUE]

(***************************************************************************)
(* Signing: two attempts, always both, the first valid pair is kept.       *)
(***************************************************************************)
NoPair == <<>>
SignedPair(d, e, k) ==
    LET x1 == ToAffine(MulG(k))[1]
        r == Fn(e + x1)
        badR == r = 0 \/ Fn(r + k) = 0
        invertible == Fn(1 + d) # 0
        inverse == IF invertible THEN FnInverse[Fn(1 + d)] ELSE 1
        s == Fn(inverse * Fn(k - r * d))
    IN  IF ~badR /\ s # 0 /\ invertible THEN <<r, s>> ELSE NoPair
DummySigns(d, e, sample) == SignedPair(d, e, sample.chosen)
TrySignOnce(d, e, sample) ==
    IF sample.found THEN SignedPair(d, e, sample.chosen) ELSE NoPair
OrElse(a, b) == IF a # NoPair THEN a ELSE b

StartSign ==
    /\ call = Idle
    /\ \E d \in PrivateKeys, e \in ESet, len \in IdLens :
        call' = [op |-> "sign", d |-> d, e |-> e, len |-> len, sample |-> NoSample,
                    first |-> 0, nonces |-> <<>>, pair |-> NoPair, rngFailed |-> FALSE,
                    out |-> IF len > MaxIdLen THEN Failed ELSE Pending]
SignAttempt ==
    /\ Running("sign") /\ call.sample.draws = NonceSampleBudget
    /\ Len(call.nonces) < SignRetryBudget
    /\ call' = [call EXCEPT !.pair = OrElse(@, TrySignOnce(call.d, call.e, call.sample)),
                  !.nonces = Append(@, call.first), !.first = 0,
                  !.sample = IF Len(call.nonces) + 1 < SignRetryBudget THEN NoSample ELSE @]
SignReturns ==
    /\ Running("sign") /\ Len(call.nonces) = SignRetryBudget
    /\ call' = [call EXCEPT !.out = IF call.pair = NoPair THEN Failed ELSE call.pair]

VerifyWithId(public, len, e, r, s) ==
    /\ ~IsIdentity(public)
    /\ len <= MaxIdLen
    /\ r # 0 /\ s # 0
    /\ r < OrderN /\ s < OrderN
    /\ LET t == Fn(r + s)
           sum == Add(MulG(s), MulVar(t, public))
       IN  /\ t # 0
           /\ ~IsIdentity(sum)
           /\ Fn(e + ToAffine(sum)[1]) = r

Verify ==
    /\ call = Idle
    /\ \E public \in Publics, e \in VerifyEs, len \in IdLens, r \in Rs, s \in Scalars :
        call' = [op |-> "verify", public |-> public, len |-> len, e |-> e, r |-> r, s |-> s,
                    out |-> VerifyWithId(public, len, e, r, s)]

(***************************************************************************)
(* Encryption and decryption.                                              *)
(***************************************************************************)
KdfMaxOutput == BlockUnits * CounterMax
(* SM3 of z and the counter: a small function of both, unit by unit.       *)
KdfBlock(z, counter, j) == (z[1] + 3 * z[2] + counter + 2 * j + z[1] \div 7) % 2
Kdf(z, len) == [i \in 1..len |->
    KdfBlock(z, (1 + (i - 1) \div BlockUnits) % (CounterMax + 1), (i - 1) % BlockUnits)]
AllZero(t) == \A i \in DOMAIN t : t[i] = 0
Xor(a, t) == [i \in DOMAIN a |-> (a[i] + t[i]) % 2]
C3(z, m) == <<z[1], m, z[2]>>

TryEncryptOnce(public, m, k) ==
    LET c1 == ToAffine(MulG(k))
        z == ToAffine(MulVar(k, public))
        t == Kdf(z, Len(m))
    IN  IF m # <<>> /\ AllZero(t) THEN Failed
        ELSE [x |-> c1[1], y |-> c1[2], hash |-> C3(z, m), c2 |-> Xor(m, t)]

StartEncrypt ==
    /\ call = Idle
    /\ \E public \in Publics, m \in Plaintexts :
        call' = [op |-> "encrypt", public |-> public, m |-> m, sample |-> NoSample,
                    first |-> 0, nonces |-> <<>>, rngFailed |-> FALSE,
                    out |-> IF IsIdentity(public) \/ Len(m) > KdfMaxOutput
                            THEN Failed ELSE Pending]
EncryptAttempt ==
    LET ct == TryEncryptOnce(call.public, call.m, call.sample.chosen) IN
    /\ Running("encrypt") /\ call.sample.draws = NonceSampleBudget
    /\ call' = [call EXCEPT !.nonces = Append(@, call.first), !.first = 0,
                  !.sample = IF ct = Failed THEN NoSample ELSE @,
                  !.out = IF ~call.sample.found THEN Failed
                          ELSE IF ct # Failed THEN ct
                          ELSE IF Len(call.nonces) + 1 = EncryptRetryBudget THEN Failed ELSE @]

HashAlone(ct, z, t, m) == ct.hash = C3(z, m)
Authentic(ct, z, t, m) == ct.hash = C3(z, m) /\ ~(ct.c2 # <<>> /\ AllZero(t))
DecryptResult(d, ct) ==
    LET z == ToAffine(MulVar(d, FromAffine(ct.x, ct.y)))
        t == Kdf(z, Len(ct.c2))
        m == Xor(ct.c2, t)
    IN  IF ~OnCurve(ct.x, ct.y) THEN Failed
        ELSE IF z = NoAffine \/ Len(ct.c2) > KdfMaxOutput THEN Failed
        ELSE IF Authentic(ct, z, t, m) THEN m ELSE Failed

(* Any point on the curve or beside it, any short body, and hashes that    *)
(* fit some plaintext under the point the key derives from it.             *)
Ciphertexts(d) ==
    UNION {LET z == RefMul(d, a)
               side == <<a[1], Fp(a[2] + 1)>> IN
           {[x |-> c[1], y |-> c[2], hash |-> h, c2 |-> c2] :
                c \in {a, side}, c2 \in Plaintexts,
                h \in {C3(z, m) : m \in Plaintexts} \cup {C3(<<z[2], z[1]>>, <<>>)}}
           : a \in AffinePoints}
Decrypt ==
    /\ call = Idle
    /\ \E d \in PrivateKeys : \E ct \in Ciphertexts(d) :
        call' = [op |-> "decrypt", d |-> d, ct |-> ct, out |-> DecryptResult(d, ct)]

SNext ==
    \/ AddPoints \/ StartMulVar \/ StepMulVar \/ StartMulG \/ StepMulG \/ EndMul
    \/ Draw \/ DrawFails
    \/ StartSign \/ SignAttempt \/ SignReturns \/ Verify
    \/ StartEncrypt \/ EncryptAttempt \/ Decrypt
SSpec == SInit /\ [][SNext]_call

-----------------------------------------------------------------------------
(* The complete formulas give chord and tangent whatever the scalings, the *)
(* identity and equal or opposite operands included; both multiplications  *)
(* give the repeated sum; and no doubling of mul_var starts at the         *)
(* identity unless the point is the identity (scalar_mul.rs:22-28).        *)
PointsExact ==
    /\ call.op = "add" =>
         /\ ToAffine(call.out) = RefAdd(call.a, call.b)
         /\ ToAffine(call.double) = RefAdd(call.a, call.a)
         /\ RefAdd(ToAffine(call.neg), call.a) = NoAffine
         /\ call.eq <=> call.a = call.b
    /\ call.op \in {"mul_var", "mul_g"} /\ call.out # Pending =>
         ToAffine(call.out) = RefMul(call.k, call.a)
    /\ Running("mul_var") /\ call.left > 0 /\ call.a # NoAffine =>
         \A i \in 0..(Window - 1) : ~IsIdentity(Doublings(call.acc)[i])

(***************************************************************************)
(* What a nonce gives by the equations of the standard, over the reference *)
(* group: r = e + x(kG), s(1 + d) = k - r d.                               *)
(***************************************************************************)
RefSign(d, e, k) ==
    LET r == Fn(e + RefMul(k, RefG)[1])
        ss == {s \in 1..(OrderN - 1) : Fn(s * (1 + d)) = Fn(k - r * d)}
    IN  IF k = 0 \/ r = 0 \/ Fn(r + k) = 0 \/ ss = {} THEN NoPair
        ELSE <<r, CHOOSE s \in ss : TRUE>>

(* A signature that is returned verifies, comes from the first of the two  *)
(* nonces that gives a valid pair, never from the stand-in for a nonce     *)
(* that was not found, and only after both attempts drew all they had to;  *)
(* a call fails only when the source failed, the identifier is too long    *)
(* for its 16-bit length or no attempt had a good nonce.  Verification     *)
(* accepts a pair exactly when the equation holds with both parts in range.*)
SignExact ==
    /\ call.op = "sign" /\ call.out # Pending =>
         LET tries == [i \in DOMAIN call.nonces |-> RefSign(call.d, call.e, call.nonces[i])]
             good == {i \in DOMAIN tries : tries[i] # NoPair}
         IN  IF call.out = Failed THEN call.rngFailed \/ Entl(call.len) # 8 * call.len \/ good = {}
             ELSE /\ Len(call.nonces) = SignRetryBudget /\ good # {}
                  /\ \E i \in good : call.out = tries[i] /\ \A j \in good : i <= j
                  /\ VerifyWithId(PublicKey(call.d), call.len, call.e, call.out[1], call.out[2])
                  /\ Entl(call.len) = 8 * call.len
    /\ call.op = "verify" =>
         LET p == ToAffine(call.public)
             sum == RefAdd(RefMul(call.s, RefG), RefMul(call.r + call.s, p))
         IN  call.out <=>
               /\ p # NoAffine /\ Entl(call.len) = 8 * call.len
               /\ call.r \in 1..(OrderN - 1) /\ call.s \in 1..(OrderN - 1)
               /\ Fn(call.r + call.s) # 0 /\ sum # NoAffine
               /\ Fn(call.e + sum[1]) = call.r

(* The ciphertext the standard gives for a nonce, none when the plaintext  *)
(* is beyond the key stream or that of a non-empty one is all zero.        *)
RefEncrypt(p, m, k) ==
    LET z == RefMul(k, p)
        t == Kdf(z, Len(m))
        c1 == RefMul(k, RefG)
    IN  IF Len(m) > KdfMaxOutput \/ (m # <<>> /\ AllZero(t)) THEN {}
        ELSE {[x |-> c1[1], y |-> c1[2], hash |-> C3(z, m), c2 |-> Xor(m, t)]}

RefCiphertexts ==
    [d \in PrivateKeys |-> [m \in Plaintexts |->
        UNION {RefEncrypt(RefMul(d, RefG), m, k) : k \in 1..(OrderN - 1)}]]

(* A ciphertext that is returned is that of the attempt's genuine nonce,   *)
(* never masks with an all-zero key stream, and decrypts to the plaintext; *)
(* encryption gives up only for a reason; and decryption returns exactly   *)
(* the plaintexts whose encryption under some nonce is the ciphertext, so  *)
(* it refuses points off the curve and all-zero key streams.               *)
CipherExact ==
    /\ call.op = "encrypt" /\ call.out # Pending =>
         LET p == ToAffine(call.public)
             Gives(i) == IF call.nonces[i] = 0 THEN {} ELSE RefEncrypt(p, call.m, call.nonces[i])
         IN  IF call.out = Failed
             THEN \/ call.rngFailed \/ p = NoAffine \/ Len(call.m) > KdfMaxOutput
                  \/ \E i \in DOMAIN call.nonces : call.nonces[i] = 0
                  \/ /\ Len(call.nonces) = EncryptRetryBudget
                     /\ \A i \in DOMAIN call.nonces : Gives(i) = {}
             ELSE /\ call.out \in Gives(Len(call.nonces))
                  /\ \A d \in PrivateKeys : PublicKey(d) = call.public =>
                        DecryptResult(d, call.out) = call.m
    /\ call.op = "decrypt" =>
         {m \in Plaintexts : call.ct \in RefCiphertexts[call.d][m]} = {call.out} \ {Failed}
=============================================================================
