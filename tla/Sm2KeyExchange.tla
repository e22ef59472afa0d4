--------------------------- MODULE Sm2KeyExchange ---------------------------
(***************************************************************************)
(* The SM2 key exchange of sm2/key_exchange.rs: two role typestates,       *)
(* driven by callers that exchange R_A, (R_B, S_B) and S_A over a          *)
(* transport that loses, repeats, reorders, misdelivers and corrupts.      *)
(*                                                                         *)
(* Curve arithmetic is symbolic.  A key pair is one name: the secret       *)
(* scalar and its public point.  t = d + avf(R) r is the pair <<d, r>>,    *)
(* P + [avf(R)] R is the same pair seen from outside, and U = [t](P + ..)  *)
(* is the unordered pair of both halves, because [t_A]T_B = [t_B]T_A.      *)
(* KDF and SM3 are injective on what they hash.                            *)
(***************************************************************************)
EXTENDS Naturals, FiniteSets

CONSTANTS
    Initiators,       \* caller sessions in role A
    Responders,       \* caller sessions in role B
    Statics,          \* static key pairs
    IdentityPoint,    \* the point at infinity passed as a peer's static key
    Ids,              \* identity strings
    LongIds,          \* those longer than MAX_ID_LEN
    KLens,            \* key lengths a caller asks for
    KdfMax,           \* KDF_MAX_OUTPUT
    Ephs,             \* ephemeral scalars, and the points they name
    BadPoint,         \* 65 bytes that from_sec1_bytes rejects
    Degenerate,       \* ephemeral pairs whose U is O or whose K is all zero
    InitiatorParams,  \* what callers pass to Sm2KxInitiator::new
    ResponderParams,  \* what callers pass to Sm2KxResponder::new
    None

Params == [own : Statics, peer : Statics \cup {IdentityPoint},
           ida : Ids, idb : Ids, klen : KLens]

Points == Ephs \cup {BadPoint}

Zs      == (Statics \cup {IdentityPoint}) \X Ids
Halves  == (Statics \cup {IdentityPoint}) \X Points
Secrets == SUBSET Halves
Bodies  == [u : Secrets, za : Zs, zb : Zs, ra : Points, rb : Points]
Keys    == [u : Secrets, za : Zs, zb : Zs, klen : KLens]
Tags    == [prefix : {2, 3}, body : Bodies]

ASSUME KxAssumption ==
    /\ IdentityPoint \notin Statics
    /\ BadPoint \notin Ephs
    /\ LongIds \subseteq Ids
    /\ KLens \subseteq Nat
    /\ KdfMax \in Nat
    /\ Degenerate \subseteq SUBSET Ephs
    /\ InitiatorParams \subseteq Params
    /\ ResponderParams \subseteq Params
    /\ None \notin Ephs \cup {BadPoint} \cup Params
    /\ None \notin Keys /\ None \notin Bodies

(* The 32 bytes of a corrupted tag: equal to no tag anyone computes. *)
BadTag == [prefix |-> 0]

VARIABLES
    ini,    \* initiator sessions
    res,    \* responder sessions
    drawn,  \* ephemerals some session has sampled
    tags,   \* confirmation tags some session has emitted
    used    \* history: <<own ephemeral, peer point>> of every derivation

vars == <<ini, res, drawn, tags, used>>

-----------------------------------------------------------------------------
(* Operators of the computation. *)

ValidParams(p) ==
    /\ p.klen # 0
    /\ p.klen <= KdfMax
    /\ p.ida \notin LongIds
    /\ p.idb \notin LongIds
    /\ p.peer # IdentityPoint

(* Mutant: each side hashes its own Z first. *)
LocalZA(role, p) == IF role = "A" THEN <<p.own, p.ida>> ELSE <<p.own, p.idb>>

ZA(role, p) == IF role = "A" THEN <<p.own, p.ida>> ELSE <<p.peer, p.ida>>
ZB(role, p) == IF role = "A" THEN <<p.peer, p.idb>> ELSE <<p.own, p.idb>>

(* shared_secret refuses an invalid point, U = O and an all-zero K. *)
Derivable(r, peerR) == peerR \in Ephs /\ {r, peerR} \notin Degenerate

SharedU(p, r, peerR) == {<<p.own, r>>, <<p.peer, peerR>>}

KeyOf(role, p, u) ==
    [u |-> u, za |-> ZA(role, p), zb |-> ZB(role, p), klen |-> p.klen]

(* What s_tag hashes: coordinates in the order of the roles. *)
Body(role, p, r, peerR) ==
    [u |-> SharedU(p, r, peerR), za |-> ZA(role, p), zb |-> ZB(role, p),
     ra |-> IF role = "A" THEN r ELSE peerR,
     rb |-> IF role = "A" THEN peerR ELSE r]

(* Mutant: S_A and S_B use one prefix. *)
OnePrefixSA(b) == [prefix |-> 2, body |-> b]

(* Mutant: the inner hash of S_B takes Z_A twice. *)
BlindSB(b) == [prefix |-> 2, body |-> [b EXCEPT !.zb = b.za]]

SB(b) == [prefix |-> 2, body |-> b]
SA(b) == [prefix |-> 3, body |-> b]

-----------------------------------------------------------------------------
(* A role's typestate: its parameters, ephemeral, key and transcript.  The *)
(* body of a failed responder is history; its key is gone.                 *)
Session(phase, par, eph, key, body) ==
    [phase |-> phase, par |-> par, eph |-> eph, key |-> key, body |-> body]

NewSession == Session("none", None, None, None, None)

(* Mutant: the key survives a failed step. *)
LeakyFailed(s) == Session("failed", s.par, s.eph, s.key, s.body)

(* A step that fails has consumed the typestate. *)
Failed(s) == Session("failed", s.par, s.eph, None, s.body)

Init ==
    /\ ini = [i \in Initiators |-> NewSession]
    /\ res = [r \in Responders |-> NewSession]
    /\ drawn = {}
    /\ tags = {}
    /\ used = {}

(* Sm2KxInitiator::new.  A refused construction leaves no session. *)
InitiatorNew(i, p) ==
    /\ ini[i].phase = "none"
    /\ ini' = [ini EXCEPT ![i] =
                 IF ValidParams(p) THEN Session("fresh", p, None, None, None)
                                   ELSE Failed(NewSession)]
    /\ UNCHANGED <<res, drawn, tags, used>>

(* produce_ephemeral; r is the sampler's draw, None when it fails. *)
ProduceEphemeral(i, r) ==
    /\ ini[i].phase = "fresh"
    /\ ini' = [ini EXCEPT ![i] =
                 IF r = None THEN Failed(ini[i])
                             ELSE Session("waiting", ini[i].par, r, None, None)]
    /\ drawn' = drawn \cup ({r} \ {None})
    /\ UNCHANGED <<res, tags, used>>

(* Mutant: confirm borrows the session, and a refused S_B leaves it waiting. *)
BorrowingConfirm(i, rb, sb) ==
    LET s == ini[i]
        b == Body("A", s.par, s.eph, rb)
    IN  /\ s.phase = "waiting"
        /\ used' = used \cup {<<s.eph, rb>>}
        /\ IF Derivable(s.eph, rb) /\ sb = SB(b)
           THEN /\ ini' = [ini EXCEPT ![i] = Session("confirmed", s.par, s.eph,
                                                    KeyOf("A", s.par, b.u), b)]
                /\ tags' = tags \cup {SA(b)}
           ELSE UNCHANGED <<ini, tags>>
        /\ UNCHANGED <<res, drawn>>

(* confirm: derive, check S_B, only then emit S_A and release the key. *)
Confirm(i, rb, sb) ==
    LET s == ini[i]
        b == Body("A", s.par, s.eph, rb)
    IN  /\ s.phase = "waiting"
        /\ used' = used \cup {<<s.eph, rb>>}
        /\ IF Derivable(s.eph, rb) /\ sb = SB(b)
           THEN /\ ini' = [ini EXCEPT ![i] = Session("confirmed", s.par, s.eph,
                                                    KeyOf("A", s.par, b.u), b)]
                /\ tags' = tags \cup {SA(b)}
           ELSE /\ ini' = [ini EXCEPT ![i] = Failed(s)]
                /\ UNCHANGED tags
        /\ UNCHANGED <<res, drawn>>

(* derive_without_key_confirmation: no tag is read and none is emitted. *)
DeriveUnconfirmed(i, rb) ==
    LET s == ini[i]
        b == Body("A", s.par, s.eph, rb)
    IN  /\ s.phase = "waiting"
        /\ used' = used \cup {<<s.eph, rb>>}
        /\ ini' = [ini EXCEPT ![i] =
             IF Derivable(s.eph, rb)
             THEN Session("unconfirmed", s.par, s.eph, KeyOf("A", s.par, b.u), b)
             ELSE Failed(s)]
        /\ UNCHANGED <<res, drawn, tags>>

(* Sm2KxResponder::new. *)
ResponderNew(b, p) ==
    /\ res[b].phase = "none"
    /\ res' = [res EXCEPT ![b] =
                 IF ValidParams(p) THEN Session("fresh", p, None, None, None)
                                   ELSE Failed(NewSession)]
    /\ UNCHANGED <<ini, drawn, tags, used>>

(* respond: the ephemeral is sampled before R_A is looked at, so a refused *)
(* R_A costs the draw and the session.  The key is held, not released.    *)
Respond(b, ra, r) ==
    LET s    == res[b]
        body == Body("B", s.par, r, ra)
    IN  /\ s.phase = "fresh"
        /\ drawn' = drawn \cup ({r} \ {None})
        /\ used' = IF r = None THEN used ELSE used \cup {<<r, ra>>}
        /\ IF r # None /\ Derivable(r, ra)
           THEN /\ res' = [res EXCEPT ![b] = Session("waiting", s.par, r,
                                                    KeyOf("B", s.par, body.u), body)]
                /\ tags' = tags \cup {SB(body)}
           ELSE /\ res' = [res EXCEPT ![b] = Failed(s)]
                /\ UNCHANGED tags
        /\ UNCHANGED ini

(* respond_without_key_confirmation: the key is released at once. *)
RespondUnconfirmed(b, ra, r) ==
    LET s    == res[b]
        body == Body("B", s.par, r, ra)
    IN  /\ s.phase = "fresh"
        /\ drawn' = drawn \cup ({r} \ {None})
        /\ used' = IF r = None THEN used ELSE used \cup {<<r, ra>>}
        /\ res' = [res EXCEPT ![b] =
             IF r # None /\ Derivable(r, ra)
             THEN Session("unconfirmed", s.par, r, KeyOf("B", s.par, body.u), body)
             ELSE Failed(s)]
        /\ UNCHANGED <<ini, tags>>

(* finish: S_A against the expected tag; a mismatch drops the key. *)
Finish(b, sa) ==
    LET s == res[b]
    IN  /\ s.phase = "waiting"
        /\ res' = [res EXCEPT ![b] =
             IF sa = SA(s.body)
             THEN Session("finished", s.par, s.eph, s.key, s.body)
             ELSE Failed(s)]
        /\ UNCHANGED <<ini, drawn, tags, used>>

-----------------------------------------------------------------------------
(* The sampler never repeats a draw (a 2^-256 event); None is its failure. *)
Draws == (Ephs \ drawn) \cup {None}

(* The transport hands over any 65 bytes as a point, and as a tag one that *)
(* some session emitted, to whomever and whenever, or a corrupted one.     *)
Delivered == tags \cup {BadTag}

InitiatorStep(i) ==
    \/ \E p \in InitiatorParams : InitiatorNew(i, p)
    \/ \E r \in Draws : ProduceEphemeral(i, r)
    \/ \E rb \in Points, sb \in Delivered : Confirm(i, rb, sb)
    \/ \E rb \in Points : DeriveUnconfirmed(i, rb)

ResponderStep(b) ==
    \/ \E p \in ResponderParams : ResponderNew(b, p)
    \/ \E ra \in Points, r \in Draws : Respond(b, ra, r)
    \/ \E ra \in Points, r \in Draws : RespondUnconfirmed(b, ra, r)
    \/ \E sa \in Delivered : Finish(b, sa)

Next ==
    \/ \E i \in Initiators : InitiatorStep(i)
    \/ \E b \in Responders : ResponderStep(b)

Spec == Init /\ [][Next]_vars

-----------------------------------------------------------------------------
ISession ==
    {s \in [phase : {"none", "fresh", "waiting", "confirmed", "unconfirmed",
                     "failed"},
            par : Params \cup {None}, eph : Ephs \cup {None},
            key : Keys \cup {None}, body : Bodies \cup {None}] :
       /\ s.phase \notin {"none", "failed"} => s.par # None
       /\ s.phase = "waiting" => s.eph # None
       /\ s.phase \in {"confirmed", "unconfirmed"} <=> s.key # None}

RSession ==
    {s \in [phase : {"none", "fresh", "waiting", "finished", "unconfirmed",
                     "failed"},
            par : Params \cup {None}, eph : Ephs \cup {None},
            key : Keys \cup {None}, body : Bodies \cup {None}] :
       /\ s.phase \notin {"none", "failed"} => s.par # None
       /\ s.phase \in {"waiting", "finished", "unconfirmed"} <=> s.key # None
       /\ s.key # None => s.body # None
       /\ s.phase \in {"none", "fresh"} => s.body = None}

(* Every session, draw, tag and derivation is of the shape the code gives  *)
(* it: a key exists exactly where the typestate holds or has released one. *)
TypeOK ==
    /\ ini \in [Initiators -> ISession]
    /\ res \in [Responders -> RSession]
    /\ drawn \subseteq Ephs
    /\ tags \subseteq Tags
    /\ used \subseteq Ephs \X Points

(* An initiator that confirm() gave a key has a responder that derived the *)
(* same U, from the same Z_A, Z_B, R_A and R_B, before it: "proves nothing *)
(* when this returns" is only true of the path without confirmation.       *)
InitiatorAuthentication ==
    \A i \in Initiators : ini[i].phase = "confirmed" =>
        \E b \in Responders : res[b].body = ini[i].body
                              /\ res[b].phase \in {"waiting", "finished", "failed"}

(* A responder that finish() gave its key has an initiator that verified   *)
(* the same transcript: the reflected S_B never passes for an S_A.         *)
ResponderAuthentication ==
    \A b \in Responders : res[b].phase = "finished" =>
        \E i \in Initiators : ini[i].phase = "confirmed" /\ ini[i].body = res[b].body

(* Two sessions that exchanged their ephemerals and both hold a confirmed  *)
(* key hold the same key material, whatever each believed of the other's   *)
(* static key and identity; the keys differ only if the callers asked for  *)
(* different lengths, and then one is a prefix of the other.               *)
SameMaterial(k, l) == k.u = l.u /\ k.za = l.za /\ k.zb = l.zb
ConfirmedAgreement ==
    \A i \in Initiators, b \in Responders :
        /\ ini[i].phase = "confirmed"
        /\ res[b].key # None
        /\ ini[i].body.rb = res[b].eph
        => SameMaterial(ini[i].key, res[b].key)

(* No responder session is the peer of two initiators that confirmed, and  *)
(* no initiator that of two responders that finished.                      *)
OneToOne ==
    /\ \A i, j \in Initiators :
         /\ ini[i].phase = "confirmed" /\ ini[j].phase = "confirmed"
         /\ ini[i].body.rb = ini[j].body.rb
         => i = j
    /\ \A b, c \in Responders :
         /\ res[b].phase = "finished" /\ res[c].phase = "finished"
         /\ res[b].body.ra = res[c].body.ra
         => b = c

(* "Each step consumes self, so an ephemeral cannot be reused": a scalar   *)
(* enters at most one derivation, failed ones and invalid points included. *)
EphemeralSingleUse ==
    \A x, y \in used : x[1] = y[1] => x = y

(* Without confirmation nothing is proved of the peer, but two sessions    *)
(* with crossed parameters that saw each other's ephemerals still agree.   *)
UnconfirmedCorrectness ==
    \A i \in Initiators, b \in Responders :
        /\ ini[i].key # None /\ res[b].key # None
        /\ ini[i].body.rb = res[b].eph /\ res[b].body.ra = ini[i].eph
        /\ ini[i].par.own = res[b].par.peer /\ ini[i].par.peer = res[b].par.own
        /\ ini[i].par.ida = res[b].par.ida /\ ini[i].par.idb = res[b].par.idb
        /\ ini[i].par.klen = res[b].par.klen
        => ini[i].key = res[b].key

(* gmcrypto_sm2_kx_responder_new's header says of the ids and klen that    *)
(* they "must match the initiator's, or the confirmation tags will not     *)
(* verify": two sessions whose tags both verified asked for one length.    *)
ConfirmationChecksKlen ==
    \A i \in Initiators, b \in Responders :
        /\ ini[i].phase = "confirmed" /\ res[b].phase = "finished"
        /\ ini[i].body = res[b].body
        => ini[i].par.klen = res[b].par.klen

(* The exchange keeps the promise of ConfirmedAgreement: a session's       *)
(* transcript is offered once respond() emits S_B, accepted once confirm() *)
(* returns, and closed once finish() releases the key.                     *)
OfferedBodies  == {res[b].body : b \in {c \in Responders :
                      res[c].phase # "unconfirmed" /\ res[c].body # None}}
AcceptedBodies == {ini[i].body : i \in {j \in Initiators : ini[j].phase = "confirmed"}}
ClosedBodies   == {res[b].body : b \in {c \in Responders : res[c].phase = "finished"}}

Promise == INSTANCE ConfirmedAgreement WITH
    offered <- OfferedBodies, accepted <- AcceptedBodies, closed <- ClosedBodies

AgreementPromise == Promise!AInit /\ [][Promise!ANext]_(Promise!avars)
=============================================================================
