--------------------------- MODULE DigestHandles ---------------------------
(***************************************************************************)
(* The streaming SM3 and HMAC-SM3 handles of gmcrypto-c: a caller makes a  *)
(* handle, feeds it in chunks of its choosing, with a bad pointer now and  *)
(* then, and ends it by finalize, verify or free.  It passes the handle    *)
(* only while the headers say it owns one.                                 *)
(***************************************************************************)
EXTENDS Sm3

CONSTANTS
    Keys,       \* HMAC keys, sequences of bytes
    MaxFed,     \* bound: bytes fed to one handle
    None

ASSUME DigestAssumption ==
    /\ \A k \in Keys : k \in Seq({k[i] : i \in DOMAIN k})
    /\ MaxFed \in Nat

VARIABLES
    kind,     \* "none", "sm3" or "hmac"
    key,      \* the key of an HMAC handle
    box,      \* the allocation: "none", "live", "freed"
    owns,     \* by the headers, the caller holds a handle
    inner,    \* the Rust object in the box
    fed,      \* number of bytes the successful updates were given
    out,      \* what finalize wrote
    asked,    \* the tag verify was given
    verdict   \* what verify returned

dvars == <<kind, key, box, owns, inner, fed, out, asked, verdict>>

(* A caller's message: every byte is different. *)
Message(n) == [k \in 1..n |-> <<"message", k>>]
Chunk(n) == [k \in 1..n |-> <<"message", fed + k>>]

DInit ==
    /\ kind = "none" /\ key = None /\ box = "none" /\ owns = FALSE
    /\ inner = None /\ fed = 0 /\ out = None /\ asked = None /\ verdict = None

CSm3New ==
    /\ box = "none"
    /\ kind' = "sm3" /\ inner' = NewSm3 /\ box' = "live" /\ owns' = TRUE
    /\ UNCHANGED <<key, fed, out, asked, verdict>>

(* hmac_sm3_new: a NULL key of non-zero length gives a NULL handle. *)
CHmacNew(k, null) ==
    /\ box = "none"
    /\ kind' = "hmac" /\ key' = k
    /\ IF null /\ k # <<>>
       THEN inner' = None /\ box' = "freed" /\ owns' = FALSE
       ELSE inner' = HmacNew(k) /\ box' = "live" /\ owns' = TRUE
    /\ UNCHANGED <<fed, out, asked, verdict>>

Absorbed(data) == IF kind = "sm3" THEN Update(inner, data) ELSE HmacUpdate(inner, data)

(* update: a NULL pointer is refused unless the length is zero. *)
CUpdate(n, null) ==
    /\ owns /\ fed + n <= MaxFed
    /\ IF null /\ n > 0 THEN UNCHANGED <<inner, fed>>
       ELSE inner' = Absorbed(Chunk(n)) /\ fed' = fed + n
    /\ UNCHANGED <<kind, key, box, owns, out, asked, verdict>>

(* finalize: the output pointer is looked at before the box is reclaimed.  *)
(* By the headers the handle is gone either way.                           *)
CFinalize(null) ==
    /\ owns /\ owns' = FALSE
    /\ IF null THEN UNCHANGED <<box, inner, out>>
       ELSE /\ out' = IF kind = "sm3" THEN Finalize(inner) ELSE HmacFinalize(inner)
            /\ box' = "freed" /\ inner' = None
    /\ UNCHANGED <<kind, key, fed, asked, verdict>>

(* hmac_sm3_verify: likewise; a mismatch and a NULL look the same. *)
CVerify(tag, null) ==
    /\ owns /\ kind = "hmac" /\ owns' = FALSE
    /\ IF null THEN UNCHANGED <<box, inner, asked>> /\ verdict' = "error"
       ELSE /\ asked' = tag
            /\ verdict' = IF HmacFinalize(inner) = tag THEN "match" ELSE "error"
            /\ box' = "freed" /\ inner' = None
    /\ UNCHANGED <<kind, key, fed, out>>

CFree ==
    /\ owns /\ owns' = FALSE
    /\ box' = "freed" /\ inner' = None
    /\ UNCHANGED <<kind, key, fed, out, asked, verdict>>

(* The tags a peer may send: of this or a neighbouring message, under this *)
(* or another key.                                                         *)
Candidates == {RefHmac(k, Message(n)) : k \in Keys, n \in {fed, fed + 1}}

DNext ==
    \/ CSm3New
    \/ \E k \in Keys, null \in BOOLEAN : CHmacNew(k, null)
    \/ \E n \in 0..MaxFed, null \in BOOLEAN : CUpdate(n, null)
    \/ \E null \in BOOLEAN : CFinalize(null)
    \/ \E tag \in Candidates, null \in BOOLEAN : CVerify(tag, null)
    \/ CFree

DSpec == DInit /\ [][DNext]_dvars

(***************************************************************************)
(* Properties                                                              *)
(***************************************************************************)
Reference == IF kind = "sm3" THEN RefHash(Message(fed)) ELSE RefHmac(key, Message(fed))

(* What finalize writes is the standard's digest or MAC of the bytes fed:  *)
(* one closing block or two, never a stale byte, at every length.          *)
DigestIsReference == out # None => out = Reference

(* verify says "match" exactly for the MAC of the bytes fed under the      *)
(* handle's key (HmacSm3::verify).                                         *)
VerifyExact == asked # None => (verdict = "match" <=> asked = RefHmac(key, Message(fed)))

(* A handle that the headers take from its caller has been freed ("The     *)
(* handle is **freed** by this call", finalize and verify).                *)
FinalizeFrees == box = "live" => owns
=============================================================================
