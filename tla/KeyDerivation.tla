--------------------------- MODULE KeyDerivation ---------------------------
(***************************************************************************)
(* Keys from passwords (PBKDF2) and the TLCP key schedule (P_SM3), block   *)
(* by block.  HMAC is a term; the sum modulo 2 of terms is the set of the  *)
(* terms that occur in it an odd number of times; byte j of a digest d is  *)
(* the pair <<d, j>>.                                                      *)
(***************************************************************************)
EXTENDS Naturals, Sequences, FiniteSets

CONSTANTS
    HLen,           \* bytes of a digest, 32 in the program
    MaxCounter,     \* last block number, 2^32 - 1 in the program
    Iterations,     \* iteration counts asked for
    MaxOut          \* longest output asked for

ASSUME KdfAssumption ==
    HLen \in Nat \ {0} /\ MaxCounter \in Nat /\ Iterations \subseteq Nat /\ MaxOut \in Nat

VARIABLE kdf        \* the running or finished derivation

Unwritten == <<"unwritten">>
(* HMAC-SM3 (module Sm3 has it on bytes), here a free term of its input.   *)
Hmac(secret, message) == {<<secret, message>>}
Again(digest) == <<"digest", digest>>
XorTerms(a, b) == (a \ b) \cup (b \ a)
Byte(t, j) == <<t, j>>
Written(out, from, n, t) ==
    [k \in DOMAIN out |-> IF k \in (from + 1)..(from + n) THEN Byte(t, k - from) ELSE out[k]]
Smaller(a, b) == IF a < b THEN a ELSE b
NoOutput(len) == [k \in 1..len |-> Unwritten]

KIdle == [fn |-> "none"]
KInit == kdf = KIdle
Deriving(fn) == kdf.fn = fn /\ kdf.status = "running"

(***************************************************************************)
(* PBKDF2: the block number is patched into the tail of one scratch        *)
(* message that all blocks share; the last block may be partial.           *)
(***************************************************************************)
Pbkdf2 ==
    /\ kdf = KIdle
    /\ \E c \in Iterations, len \in 0..MaxOut :
         kdf' = [fn |-> "pbkdf2", c |-> c, out |-> NoOutput(len), block |-> 1,
                 scratch |-> <<"salt", 0>>,
                 status |-> IF c = 0 \/ len = 0 \/ len > HLen * MaxCounter
                            THEN "refused" ELSE "running"]

(* U_1 from the scratch, then U_2 .. U_c, each the HMAC of the one before; *)
(* t sums them all.                                                        *)
Chain(scratch, c) ==
    LET step[i \in 1..c] ==
            IF i = 1 THEN [u |-> Hmac("password", scratch), t |-> Hmac("password", scratch)]
            ELSE LET next == Hmac("password", Again(step[i - 1].u))
                 IN  [u |-> next, t |-> XorTerms(step[i - 1].t, next)]
    IN  step[c].t

OneNumber(scratch, block) == [scratch EXCEPT ![2] = 1]
Numbered(scratch, block) == [scratch EXCEPT ![2] = block]
Pbkdf2Block ==
    LET start == (kdf.block - 1) * HLen
        message == Numbered(kdf.scratch, kdf.block)
    IN  /\ Deriving("pbkdf2")
        /\ kdf' = [kdf EXCEPT !.block = @ + 1, !.scratch = message,
                     !.out = Written(@, start, Smaller(HLen, Len(@) - start),
                                     Chain(message, kdf.c)),
                     !.status = IF start + HLen >= Len(kdf.out) THEN "done" ELSE @]

(***************************************************************************)
(* P_SM3: A(1) from the label and seeds, an output block per A(i), and the *)
(* next A only while output is missing.                                    *)
(***************************************************************************)
PSm3Starts(fn, secret, label, seed1, seed2, len) ==
    kdf' = [fn |-> fn, secret |-> secret, labelled |-> <<label, seed1, seed2>>,
            a |-> Hmac(secret, <<label, seed1, seed2>>), offset |-> 0,
            out |-> NoOutput(len), status |-> IF len = 0 THEN "done" ELSE "running"]
PSm3Block ==
    LET n == Smaller(HLen, Len(kdf.out) - kdf.offset)
        more == kdf.offset + n < Len(kdf.out)
    IN  /\ \E fn \in {"master", "key_block", "finished"} : Deriving(fn)
        /\ kdf' = [kdf EXCEPT !.offset = @ + n,
                     !.out = Written(@, kdf.offset, n, Hmac(kdf.secret, <<"block", kdf.a, kdf.labelled>>)),
                     !.a = IF more THEN Hmac(kdf.secret, Again(@)) ELSE @,
                     !.status = IF more THEN @ ELSE "done"]

(* The three derivations; the seeds of the key block are the randoms in    *)
(* the opposite order.  Lengths are fixed but for the key block's.         *)
MasterLen == HLen + HLen \div 2
VerifyDataLen == HLen \div 2
DeriveMasterSecret ==
    /\ kdf = KIdle
    /\ PSm3Starts("master", "pre_master", "master_secret", "client", "server", MasterLen)
DeriveKeyBlock ==
    /\ kdf = KIdle
    /\ \E len \in 0..MaxOut :
         PSm3Starts("key_block", "master", "key_expansion", "server", "client", len)
FinishedVerifyData ==
    /\ kdf = KIdle
    /\ \E role \in {"client_finished", "server_finished"} :
         PSm3Starts("finished", "master", role, "transcript", "", VerifyDataLen)

KNext == Pbkdf2 \/ Pbkdf2Block \/ PSm3Block
         \/ DeriveMasterSecret \/ DeriveKeyBlock \/ FinishedVerifyData
KSpec == KInit /\ [][KNext]_kdf

-----------------------------------------------------------------------------
(* The definitions of RFC 8018 and RFC 5246, byte by byte.                 *)
RefU(c, i) ==
    LET u[k \in 1..c] == Hmac("password", IF k = 1 THEN <<"salt", i>> ELSE Again(u[k - 1]))
    IN  [k \in 1..c |-> u[k]]
RefT(c, i) ==
    {x \in UNION {RefU(c, i)[k] : k \in 1..c} :
        Cardinality({k \in 1..c : x \in RefU(c, i)[k]}) % 2 = 1}
RefA(secret, seed, i) ==
    LET a[k \in 1..i] == Hmac(secret, IF k = 1 THEN seed ELSE Again(a[k - 1])) IN a[i]

(* A derivation that ends has written every byte of its output, byte k     *)
(* from block (k - 1) / HLen + 1 of its definition, the partial last block *)
(* included, with each block under its own number or A value; one that is  *)
(* refused has written none.  (kdf.rs:122-160, key_schedule.rs:21-55)      *)
KeysExact ==
    LET Block(k) == 1 + (k - 1) \div HLen
        At(k) == 1 + ((k - 1) % HLen)
        Ref(k) == IF kdf.fn = "pbkdf2" THEN RefT(kdf.c, Block(k))
                  ELSE Hmac(kdf.secret,
                            <<"block", RefA(kdf.secret, kdf.labelled, Block(k)), kdf.labelled>>)
    IN  kdf # KIdle =>
        /\ kdf.status = "done" => \A k \in DOMAIN kdf.out : kdf.out[k] = Byte(Ref(k), At(k))
        /\ kdf.status = "refused" => \A k \in DOMAIN kdf.out : kdf.out[k] = Unwritten
=============================================================================
