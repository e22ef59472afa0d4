----------------------------- MODULE KxProofs ------------------------------
(***************************************************************************)
(* Theorems about the key exchange, for every set of sessions, keys,       *)
(* identities and ephemerals, and about its C handles.                     *)
(***************************************************************************)
EXTENDS KxHandles, TLAPS

(* What s_tag hashes is a transcript of the declared shape. *)
LEMMA BodyType ==
    ASSUME NEW p \in Params, NEW r \in Ephs, NEW q \in Points,
           NEW role \in {"A", "B"}
    PROVE  /\ Body(role, p, r, q) \in Bodies
           /\ Body(role, p, r, q).u = SharedU(p, r, q)
           /\ KeyOf(role, p, SharedU(p, r, q)) \in Keys
<1>1. SharedU(p, r, q) \in Secrets
  BY DEF SharedU, Secrets, Halves, Params, Points
<1>2. ZA(role, p) \in Zs /\ ZB(role, p) \in Zs
  BY DEF ZA, ZB, Zs, Params
<1>. QED
  BY <1>1, <1>2 DEF Body, Bodies, KeyOf, Keys, Params, Points

(* None is no ephemeral, no parameter record, no key and no transcript. *)
LEMMA NoneApart ==
    None \notin Ephs /\ None \notin Params /\ None \notin Keys /\ None \notin Bodies
BY KxAssumption

(* No session is constructed at first. *)
THEOREM TypeInit == Init => TypeOK
<1>. SUFFICES ASSUME Init PROVE TypeOK
  OBVIOUS
<1>1. NewSession \in ISession /\ NewSession \in RSession
  BY NoneApart DEF Session, NewSession, ISession, RSession
<1>. QED
  BY <1>1 DEF Init, TypeOK

(* Every method moves a session to a phase with the fields it needs. *)
THEOREM TypeStep == TypeOK /\ [Next]_vars => TypeOK'
<1>. SUFFICES ASSUME TypeOK, [Next]_vars PROVE TypeOK'
  OBVIOUS
<1>. USE NoneApart DEF Session, Failed, NewSession
<1>1. ASSUME NEW i \in Initiators, NEW p \in InitiatorParams, InitiatorNew(i, p)
      PROVE  TypeOK'
  <2>1. ini'[i] \in ISession
    BY <1>1, KxAssumption DEF InitiatorNew, TypeOK, ISession
  <2>. QED
    BY <1>1, <2>1 DEF InitiatorNew, TypeOK
<1>2. ASSUME NEW i \in Initiators, NEW r \in Draws, ProduceEphemeral(i, r)
      PROVE  TypeOK'
  <2>1. ini'[i] \in ISession
    BY <1>2 DEF ProduceEphemeral, TypeOK, ISession, Draws
  <2>. QED
    BY <1>2, <2>1 DEF ProduceEphemeral, TypeOK, Draws
<1>3. ASSUME NEW i \in Initiators, NEW rb \in Points, NEW sb \in Delivered,
             Confirm(i, rb, sb)
      PROVE  TypeOK'
  <2>. DEFINE s == ini[i]
              b == Body("A", s.par, s.eph, rb)
  <2>1. s \in ISession /\ s.par \in Params /\ s.eph \in Ephs
    BY <1>3 DEF Confirm, TypeOK, ISession
  <2>2. b \in Bodies /\ KeyOf("A", s.par, b.u) \in Keys
    BY <2>1, BodyType
  <2>3. SA(b) \in Tags
    BY <2>2 DEF SA, Tags
  <2>4. ini'[i] \in ISession
    BY <1>3, <2>1, <2>2 DEF Confirm, TypeOK, ISession, b
  <2>5. tags' \subseteq Tags
    BY <1>3, <2>3 DEF Confirm, TypeOK, b
  <2>6. used' \subseteq Ephs \X Points
    BY <1>3, <2>1 DEF Confirm, TypeOK
  <2>. QED
    BY <1>3, <2>4, <2>5, <2>6 DEF Confirm, TypeOK
<1>4. ASSUME NEW i \in Initiators, NEW rb \in Points, DeriveUnconfirmed(i, rb)
      PROVE  TypeOK'
  <2>. DEFINE s == ini[i]
              b == Body("A", s.par, s.eph, rb)
  <2>1. s \in ISession /\ s.par \in Params /\ s.eph \in Ephs
    BY <1>4 DEF DeriveUnconfirmed, TypeOK, ISession
  <2>2. b \in Bodies /\ KeyOf("A", s.par, b.u) \in Keys
    BY <2>1, BodyType
  <2>3. ini'[i] \in ISession
    BY <1>4, <2>1, <2>2 DEF DeriveUnconfirmed, TypeOK, ISession
  <2>4. used' \subseteq Ephs \X Points
    BY <1>4, <2>1 DEF DeriveUnconfirmed, TypeOK
  <2>. QED
    BY <1>4, <2>3, <2>4 DEF DeriveUnconfirmed, TypeOK
<1>5. ASSUME NEW b \in Responders, NEW p \in ResponderParams, ResponderNew(b, p)
      PROVE  TypeOK'
  <2>1. res'[b] \in RSession
    BY <1>5, KxAssumption DEF ResponderNew, TypeOK, RSession
  <2>. QED
    BY <1>5, <2>1 DEF ResponderNew, TypeOK
<1>6. ASSUME NEW b \in Responders, NEW ra \in Points, NEW r \in Draws,
             Respond(b, ra, r)
      PROVE  TypeOK'
  <2>. DEFINE s    == res[b]
              body == Body("B", s.par, r, ra)
  <2>1. s \in RSession /\ s.par \in Params /\ r \in Ephs \cup {None}
    BY <1>6 DEF Respond, TypeOK, RSession, Draws
  <2>2. ASSUME r # None
        PROVE  body \in Bodies /\ KeyOf("B", s.par, body.u) \in Keys
    BY <2>1, <2>2, BodyType
  <2>3. r # None => SB(body) \in Tags
    BY <2>2 DEF SB, Tags
  <2>4. res'[b] \in RSession
    BY <1>6, <2>1, <2>2 DEF Respond, TypeOK, RSession
  <2>5. tags' \subseteq Tags
    BY <1>6, <2>3 DEF Respond, TypeOK
  <2>6. used' \subseteq Ephs \X Points /\ drawn' \subseteq Ephs
    BY <1>6, <2>1 DEF Respond, TypeOK
  <2>. QED
    BY <1>6, <2>4, <2>5, <2>6 DEF Respond, TypeOK
<1>7. ASSUME NEW b \in Responders, NEW ra \in Points, NEW r \in Draws,
             RespondUnconfirmed(b, ra, r)
      PROVE  TypeOK'
  <2>. DEFINE s    == res[b]
              body == Body("B", s.par, r, ra)
  <2>1. s \in RSession /\ s.par \in Params /\ r \in Ephs \cup {None}
    BY <1>7 DEF RespondUnconfirmed, TypeOK, RSession, Draws
  <2>2. ASSUME r # None
        PROVE  body \in Bodies /\ KeyOf("B", s.par, body.u) \in Keys
    BY <2>1, <2>2, BodyType
  <2>3. res'[b] \in RSession
    BY <1>7, <2>1, <2>2 DEF RespondUnconfirmed, TypeOK, RSession
  <2>4. used' \subseteq Ephs \X Points /\ drawn' \subseteq Ephs
    BY <1>7, <2>1 DEF RespondUnconfirmed, TypeOK
  <2>. QED
    BY <1>7, <2>3, <2>4 DEF RespondUnconfirmed, TypeOK
<1>8. ASSUME NEW b \in Responders, NEW sa \in Delivered, Finish(b, sa)
      PROVE  TypeOK'
  <2>1. res'[b] \in RSession
    BY <1>8 DEF Finish, TypeOK, RSession
  <2>. QED
    BY <1>8, <2>1 DEF Finish, TypeOK
<1>9. CASE UNCHANGED vars
  BY <1>9 DEF vars, TypeOK
<1>. QED
  BY <1>1, <1>2, <1>3, <1>4, <1>5, <1>6, <1>7, <1>8, <1>9
  DEF Next, InitiatorStep, ResponderStep

(* Every reachable state has the shape TypeOK gives it. *)
THEOREM TypeCorrect == Spec => []TypeOK
BY TypeInit, TypeStep, PTL DEF Spec

-----------------------------------------------------------------------------
(* The inductive invariant behind authentication: an emitted tag leads     *)
(* back to the session that emitted it, which keeps its transcript.        *)
TagOrigins ==
    /\ \A t \in tags : t.prefix = 2 =>
         \E b \in Responders : res[b].body = t.body
                               /\ res[b].phase \in {"waiting", "finished", "failed"}
    /\ \A t \in tags : t.prefix = 3 =>
         \E i \in Initiators : ini[i].body = t.body /\ ini[i].phase = "confirmed"

AuthInv == TagOrigins /\ InitiatorAuthentication /\ ResponderAuthentication

(* A delivered tag that equals an expected one is an emitted one. *)
LEMMA GenuineTag ==
    ASSUME NEW b \in Bodies, NEW t \in Delivered
    PROVE  /\ t = SB(b) => t \in tags /\ t.prefix = 2 /\ t.body = b
           /\ t = SA(b) => t \in tags /\ t.prefix = 3 /\ t.body = b
<1>1. SB(b).prefix = 2 /\ SB(b).body = b /\ SA(b).prefix = 3 /\ SA(b).body = b
  BY DEF SA, SB
<1>2. BadTag.prefix = 0
  BY DEF BadTag
<1>. QED
  BY <1>1, <1>2 DEF Delivered

(* A step that leaves the tags alone and no session's transcript behind    *)
(* preserves AuthInv: the sessions named by a tag keep their phase class.  *)
LEMMA AuthFrame ==
    ASSUME AuthInv, tags' = tags,
           \A i \in Initiators : ini[i].phase = "confirmed" => ini'[i] = ini[i],
           \A i \in Initiators : ini'[i].phase = "confirmed" => ini'[i] = ini[i],
           \A b \in Responders : res[b].phase \in {"waiting", "finished", "failed"} =>
               /\ res'[b].body = res[b].body
               /\ res'[b].phase \in {"waiting", "finished", "failed"},
           \A b \in Responders : res'[b].phase = "finished" =>
               \/ res'[b] = res[b]
               \/ \E i \in Initiators : ini[i].phase = "confirmed"
                                        /\ ini[i].body = res'[b].body
    PROVE  AuthInv'
<1>1. TagOrigins'
  BY DEF AuthInv, TagOrigins
<1>2. InitiatorAuthentication'
  BY DEF AuthInv, InitiatorAuthentication
<1>3. ResponderAuthentication'
  BY DEF AuthInv, ResponderAuthentication
<1>. QED
  BY <1>1, <1>2, <1>3 DEF AuthInv

(* At first no tag is in circulation and none has been accepted. *)
THEOREM AuthInit == Init => AuthInv
<1>. SUFFICES ASSUME Init PROVE AuthInv
  OBVIOUS
<1>1. /\ \A i \in Initiators : ini[i].phase = "none"
      /\ \A b \in Responders : res[b].phase = "none"
      /\ tags = {}
  BY DEF Init, NewSession, Session
<1>. QED
  BY <1>1 DEF AuthInv, TagOrigins, InitiatorAuthentication, ResponderAuthentication

(* No method puts a tag into circulation that its session did not compute. *)
THEOREM AuthStep == TypeOK /\ AuthInv /\ [Next]_vars => AuthInv'
<1>. SUFFICES ASSUME TypeOK, AuthInv, [Next]_vars PROVE AuthInv'
  OBVIOUS
<1>. USE NoneApart DEF Session, Failed, NewSession
<1>1. ASSUME NEW i \in Initiators, NEW p \in InitiatorParams, InitiatorNew(i, p)
      PROVE  AuthInv'
  BY <1>1, AuthFrame DEF InitiatorNew, TypeOK
<1>2. ASSUME NEW i \in Initiators, NEW r \in Draws, ProduceEphemeral(i, r)
      PROVE  AuthInv'
  BY <1>2, AuthFrame DEF ProduceEphemeral, TypeOK
<1>3. ASSUME NEW i \in Initiators, NEW rb \in Points, NEW sb \in Delivered,
             Confirm(i, rb, sb)
      PROVE  AuthInv'
  <2>. DEFINE s == ini[i]
              b == Body("A", s.par, s.eph, rb)
              ok == Derivable(s.eph, rb) /\ sb = SB(b)
  <2>1. s.par \in Params /\ s.eph \in Ephs
    BY <1>3 DEF Confirm, TypeOK, ISession
  <2>2. b \in Bodies
    BY <2>1, BodyType
  <2>3. CASE ~ok
    BY <1>3, <2>3, AuthFrame DEF Confirm, TypeOK
  <2>4. CASE ok
    <3>1. sb \in tags /\ sb.prefix = 2 /\ sb.body = b
      BY <2>2, <2>4, GenuineTag
    <3>2. PICK c \in Responders : /\ res[c].body = b
                                  /\ res[c].phase \in {"waiting", "finished", "failed"}
      BY <3>1 DEF AuthInv, TagOrigins
    <3>3. /\ ini'[i].phase = "confirmed" /\ ini'[i].body = b
          /\ \A j \in Initiators \ {i} : ini'[j] = ini[j]
          /\ tags' = tags \cup {SA(b)}
          /\ res' = res
      BY <1>3, <2>4 DEF Confirm, TypeOK
    <3>4. SA(b).prefix = 3 /\ SA(b).body = b
      BY DEF SA
    <3>5. s.phase = "waiting"
      BY <1>3 DEF Confirm
    <3>. HIDE DEF b, ok
    <3>6. TagOrigins'
      BY <3>3, <3>4, <3>5 DEF AuthInv, TagOrigins
    <3>7. InitiatorAuthentication'
      BY <3>2, <3>3 DEF AuthInv, InitiatorAuthentication
    <3>8. ResponderAuthentication'
      BY <3>3, <3>5 DEF AuthInv, ResponderAuthentication
    <3>. QED
      BY <3>6, <3>7, <3>8 DEF AuthInv
  <2>. QED
    BY <2>3, <2>4
<1>4. ASSUME NEW i \in Initiators, NEW rb \in Points, DeriveUnconfirmed(i, rb)
      PROVE  AuthInv'
  BY <1>4, AuthFrame DEF DeriveUnconfirmed, TypeOK
<1>5. ASSUME NEW b \in Responders, NEW p \in ResponderParams, ResponderNew(b, p)
      PROVE  AuthInv'
  BY <1>5, AuthFrame DEF ResponderNew, TypeOK
<1>6. ASSUME NEW b \in Responders, NEW ra \in Points, NEW r \in Draws,
             Respond(b, ra, r)
      PROVE  AuthInv'
  <2>. DEFINE s    == res[b]
              body == Body("B", s.par, r, ra)
              ok   == r # None /\ Derivable(r, ra)
  <2>1. CASE ~ok
    BY <1>6, <2>1, AuthFrame DEF Respond, TypeOK
  <2>2. CASE ok
    <3>1. /\ res'[b].phase = "waiting" /\ res'[b].body = body
          /\ \A c \in Responders \ {b} : res'[c] = res[c]
          /\ tags' = tags \cup {SB(body)}
          /\ ini' = ini
      BY <1>6, <2>2 DEF Respond, TypeOK
    <3>2. SB(body).prefix = 2 /\ SB(body).body = body
      BY DEF SB
    <3>3. s.phase = "fresh"
      BY <1>6 DEF Respond
    <3>. HIDE DEF body, ok
    <3>4. TagOrigins'
      BY <3>1, <3>2, <3>3 DEF AuthInv, TagOrigins
    <3>5. InitiatorAuthentication'
      BY <3>1, <3>3 DEF AuthInv, InitiatorAuthentication
    <3>6. ResponderAuthentication'
      BY <3>1 DEF AuthInv, ResponderAuthentication
    <3>. QED
      BY <3>4, <3>5, <3>6 DEF AuthInv
  <2>. QED
    BY <2>1, <2>2
<1>7. ASSUME NEW b \in Responders, NEW ra \in Points, NEW r \in Draws,
             RespondUnconfirmed(b, ra, r)
      PROVE  AuthInv'
  BY <1>7, AuthFrame DEF RespondUnconfirmed, TypeOK
<1>8. ASSUME NEW b \in Responders, NEW sa \in Delivered, Finish(b, sa)
      PROVE  AuthInv'
  <2>1. res[b].body \in Bodies
    BY <1>8 DEF Finish, TypeOK, RSession
  <2>2. CASE sa = SA(res[b].body)
    <3>1. sa \in tags /\ sa.prefix = 3 /\ sa.body = res[b].body
      BY <2>1, <2>2, GenuineTag
    <3>2. \E i \in Initiators : ini[i].phase = "confirmed" /\ ini[i].body = res[b].body
      BY <3>1 DEF AuthInv, TagOrigins
    <3>. QED
      BY <1>8, <2>2, <3>2, AuthFrame DEF Finish, TypeOK
  <2>3. CASE sa # SA(res[b].body)
    BY <1>8, <2>3, AuthFrame DEF Finish, TypeOK
  <2>. QED
    BY <2>2, <2>3
<1>9. CASE UNCHANGED vars
  BY <1>9 DEF vars, AuthInv, TagOrigins, InitiatorAuthentication,
              ResponderAuthentication
<1>. QED
  BY <1>1, <1>2, <1>3, <1>4, <1>5, <1>6, <1>7, <1>8, <1>9
  DEF Next, InitiatorStep, ResponderStep

(* Where tags come from, and what their acceptance shows, throughout. *)
THEOREM AuthInvariant == Spec => []AuthInv
<1>1. TypeOK /\ AuthInv /\ [Next]_vars => TypeOK' /\ AuthInv'
  BY TypeStep, AuthStep
<1>. QED
  BY TypeInit, AuthInit, <1>1, PTL DEF Spec

(* Key confirmation authenticates the responder to the initiator. *)
THEOREM InitiatorAuthenticated == Spec => []InitiatorAuthentication
<1>1. AuthInv => InitiatorAuthentication
  BY DEF AuthInv
<1>. QED
  BY <1>1, AuthInvariant, PTL

(* Key confirmation authenticates the initiator to the responder. *)
THEOREM ResponderAuthenticated == Spec => []ResponderAuthentication
<1>1. AuthInv => ResponderAuthentication
  BY DEF AuthInv
<1>. QED
  BY <1>1, AuthInvariant, PTL

-----------------------------------------------------------------------------
(* Ephemerals: those of different sessions differ, and a session's own has *)
(* entered no derivation while the typestate still holds it.               *)
FreshInv ==
    /\ \A i \in Initiators : ini[i].eph # None => ini[i].eph \in drawn
    /\ \A b \in Responders : res[b].eph # None => res[b].eph \in drawn
    /\ \A i, j \in Initiators :
         ini[i].eph # None /\ ini[i].eph = ini[j].eph => i = j
    /\ \A b, c \in Responders :
         res[b].eph # None /\ res[b].eph = res[c].eph => b = c
    /\ \A x \in used : x[1] \in drawn
    /\ \A i \in Initiators : ini[i].phase = "waiting" =>
         \A x \in used : x[1] # ini[i].eph

(* What a session holds is what it derived from its own parameters.        *)
IShape(s) ==
    s.key # None =>
        /\ s.par # None /\ s.eph # None /\ s.body \in Bodies
        /\ s.body = Body("A", s.par, s.eph, s.body.rb)
        /\ s.key = KeyOf("A", s.par, s.body.u)

RShape(s) ==
    /\ s.body # None => /\ s.par # None /\ s.eph # None
                        /\ s.body = Body("B", s.par, s.eph, s.body.ra)
    /\ s.key # None => s.key = KeyOf("B", s.par, s.body.u)

ShapeInv == /\ \A i \in Initiators : IShape(ini[i])
            /\ \A b \in Responders : RShape(res[b])

EphInv == FreshInv /\ ShapeInv /\ EphemeralSingleUse

(* No ephemeral is drawn at first. *)
THEOREM EphInit == Init => EphInv
<1>. SUFFICES ASSUME Init PROVE EphInv
  OBVIOUS
<1>1. /\ \A i \in Initiators : ini[i] = NewSession
      /\ \A b \in Responders : res[b] = NewSession
      /\ used = {}
  BY DEF Init
<1>2. NewSession.eph = None /\ NewSession.key = None /\ NewSession.body = None
      /\ NewSession.phase = "none"
  BY DEF NewSession, Session
<1>. QED
  BY <1>1, <1>2 DEF EphInv, FreshInv, ShapeInv, IShape, RShape, EphemeralSingleUse

(* The frame of a step of initiator i: nothing drawn, at most one use.     *)
LEMMA InitiatorFrame ==
    ASSUME TypeOK, EphInv, NEW i \in Initiators,
           \A j \in Initiators \ {i} : ini'[j] = ini[j],
           res' = res, drawn' = drawn,
           ini'[i].eph = ini[i].eph, ini'[i].phase # "waiting", IShape(ini'[i]),
           \/ used' = used
           \/ /\ ini[i].phase = "waiting"
              /\ \E q \in Points : used' = used \cup {<<ini[i].eph, q>>}
    PROVE  EphInv'
<1>. USE DEF EphInv, FreshInv
<1>1. FreshInv'
  <2>1. CASE used' = used
    BY <2>1
  <2>2. ASSUME NEW q \in Points, ini[i].phase = "waiting",
               used' = used \cup {<<ini[i].eph, q>>}
        PROVE  FreshInv'
    <3>1. ini[i].eph # None
      BY <2>2 DEF TypeOK, ISession
    <3>2. <<ini[i].eph, q>>[1] = ini[i].eph
      OBVIOUS
    <3>3. \A j \in Initiators : ini'[j].phase = "waiting" =>
            j # i /\ ini'[j] = ini[j] /\ ini[j].eph # ini[i].eph
      BY <3>1
    <3>. QED
      BY <2>2, <3>1, <3>2, <3>3
  <2>. QED
    BY <2>1, <2>2
<1>2. EphemeralSingleUse'
  BY DEF EphemeralSingleUse
<1>3. ShapeInv'
  BY DEF ShapeInv
<1>. QED
  BY <1>1, <1>2, <1>3

(* The frame of a step of responder b that draws r and uses it at most once. *)
LEMMA ResponderFrame ==
    ASSUME TypeOK, EphInv, NEW b \in Responders,
           \A c \in Responders \ {b} : res'[c] = res[c],
           ini' = ini, RShape(res'[b]),
           \/ res'[b].eph \in {res[b].eph, None} /\ drawn' = drawn /\ used' = used
           \/ \E r \in Ephs \ drawn :
                /\ drawn' = drawn \cup {r}
                /\ res'[b].eph \in {res[b].eph, None, r}
                /\ \E q \in Points : used' = used \cup {<<r, q>>}
    PROVE  EphInv'
<1>. USE DEF EphInv, FreshInv
<1>1. FreshInv' /\ EphemeralSingleUse'
  <2>1. CASE res'[b].eph \in {res[b].eph, None} /\ drawn' = drawn /\ used' = used
    BY <2>1 DEF EphemeralSingleUse
  <2>2. ASSUME NEW r \in Ephs \ drawn, NEW q \in Points,
               drawn' = drawn \cup {r}, res'[b].eph \in {res[b].eph, None, r},
               used' = used \cup {<<r, q>>}
        PROVE  FreshInv' /\ EphemeralSingleUse'
    <3>1. <<r, q>>[1] = r
      OBVIOUS
    <3>2. \A i \in Initiators : ini[i].eph # r
      BY <2>2, NoneApart
    <3>3. \A c \in Responders : res[c].eph # r
      BY <2>2, NoneApart
    <3>4. \A i \in Initiators : ini[i].phase = "waiting" =>
             \A x \in used' : x[1] # ini[i].eph
      BY <2>2, <3>1, <3>2
    <3>5. FreshInv'
      BY <2>2, <3>1, <3>2, <3>3, <3>4
    <3>6. EphemeralSingleUse'
      BY <2>2, <3>1 DEF EphemeralSingleUse
    <3>. QED
      BY <3>5, <3>6
  <2>. QED
    BY <2>1, <2>2
<1>2. ShapeInv'
  BY DEF ShapeInv
<1>. QED
  BY <1>1, <1>2

(* No method uses an ephemeral twice or lends it to another session. *)
THEOREM EphStep == TypeOK /\ EphInv /\ [Next]_vars => EphInv'
<1>. SUFFICES ASSUME TypeOK, EphInv, [Next]_vars PROVE EphInv'
  OBVIOUS
<1>. USE NoneApart DEF Session, Failed, NewSession
<1>1. ASSUME NEW i \in Initiators, NEW p \in InitiatorParams, InitiatorNew(i, p)
      PROVE  EphInv'
  <2>1. /\ \A j \in Initiators \ {i} : ini'[j] = ini[j]
        /\ ini'[i].eph = None /\ ini'[i].phase # "waiting" /\ ini'[i].key = None
    BY <1>1 DEF InitiatorNew, TypeOK
  <2>2. FreshInv'
    BY <1>1, <2>1 DEF InitiatorNew, EphInv, FreshInv
  <2>. QED
    BY <1>1, <2>1, <2>2
    DEF InitiatorNew, EphInv, ShapeInv, IShape, EphemeralSingleUse
<1>2. ASSUME NEW i \in Initiators, NEW r \in Draws, ProduceEphemeral(i, r)
      PROVE  EphInv'
  <2>1. /\ \A j \in Initiators \ {i} : ini'[j] = ini[j]
        /\ ini'[i].key = None /\ res' = res /\ used' = used
    BY <1>2 DEF ProduceEphemeral, TypeOK
  <2>2. CASE r = None
    <3>1. ini'[i].eph = ini[i].eph /\ ini'[i].phase = "failed" /\ drawn' = drawn
      BY <1>2, <2>2 DEF ProduceEphemeral, TypeOK
    <3>. QED
      BY <2>1, <3>1, InitiatorFrame DEF IShape
  <2>3. CASE r # None
    <3>1. ini'[i].eph = r /\ drawn' = drawn \cup {r} /\ r \in Ephs \ drawn
      BY <1>2, <2>3 DEF ProduceEphemeral, TypeOK, Draws
    <3>2. FreshInv'
      BY <2>1, <3>1 DEF EphInv, FreshInv
    <3>. QED
      BY <2>1, <3>2 DEF EphInv, ShapeInv, IShape, EphemeralSingleUse
  <2>. QED
    BY <2>2, <2>3
<1>3. ASSUME NEW i \in Initiators, NEW rb \in Points, NEW sb \in Delivered,
             Confirm(i, rb, sb)
      PROVE  EphInv'
  <2>. DEFINE s == ini[i]
              b == Body("A", s.par, s.eph, rb)
  <2>1. s.par \in Params /\ s.eph \in Ephs /\ s.phase = "waiting"
    BY <1>3 DEF Confirm, TypeOK, ISession
  <2>2. b \in Bodies /\ b.rb = rb
    BY <2>1, BodyType DEF Body
  <2>3. /\ \A j \in Initiators \ {i} : ini'[j] = ini[j]
        /\ ini'[i].eph = s.eph /\ ini'[i].phase # "waiting"
        /\ res' = res /\ drawn' = drawn /\ used' = used \cup {<<s.eph, rb>>}
    BY <1>3 DEF Confirm, TypeOK
  <2>4. IShape(ini'[i])
    BY <1>3, <2>1, <2>2 DEF Confirm, TypeOK, IShape
  <2>. QED
    BY <2>1, <2>3, <2>4, InitiatorFrame
<1>4. ASSUME NEW i \in Initiators, NEW rb \in Points, DeriveUnconfirmed(i, rb)
      PROVE  EphInv'
  <2>. DEFINE s == ini[i]
              b == Body("A", s.par, s.eph, rb)
  <2>1. s.par \in Params /\ s.eph \in Ephs /\ s.phase = "waiting"
    BY <1>4 DEF DeriveUnconfirmed, TypeOK, ISession
  <2>2. b \in Bodies /\ b.rb = rb
    BY <2>1, BodyType DEF Body
  <2>3. /\ \A j \in Initiators \ {i} : ini'[j] = ini[j]
        /\ ini'[i].eph = s.eph /\ ini'[i].phase # "waiting"
        /\ res' = res /\ drawn' = drawn /\ used' = used \cup {<<s.eph, rb>>}
    BY <1>4 DEF DeriveUnconfirmed, TypeOK
  <2>4. IShape(ini'[i])
    BY <1>4, <2>1, <2>2 DEF DeriveUnconfirmed, TypeOK, IShape
  <2>. QED
    BY <2>1, <2>3, <2>4, InitiatorFrame
<1>5. ASSUME NEW b \in Responders, NEW p \in ResponderParams, ResponderNew(b, p)
      PROVE  EphInv'
  <2>1. /\ \A c \in Responders \ {b} : res'[c] = res[c]
        /\ res'[b].eph = None /\ res'[b].body = None /\ res'[b].key = None
        /\ ini' = ini /\ drawn' = drawn /\ used' = used
    BY <1>5 DEF ResponderNew, TypeOK
  <2>. QED
    BY <2>1, ResponderFrame DEF RShape
<1>6. ASSUME NEW b \in Responders, NEW ra \in Points, NEW r \in Draws,
             Respond(b, ra, r)
      PROVE  EphInv'
  <2>. DEFINE s    == res[b]
              body == Body("B", s.par, r, ra)
  <2>1. s.par \in Params /\ s.phase = "fresh" /\ RShape(s)
    BY <1>6 DEF Respond, TypeOK, RSession, EphInv, ShapeInv
  <2>2. \A c \in Responders \ {b} : res'[c] = res[c]
    BY <1>6 DEF Respond, TypeOK
  <2>3. CASE r = None
    <3>1. /\ res'[b] = Failed(s) /\ ini' = ini
          /\ drawn' = drawn /\ used' = used
      BY <1>6, <2>3 DEF Respond, TypeOK
    <3>2. RShape(Failed(s)) /\ Failed(s).eph = s.eph
      BY <2>1 DEF RShape
    <3>. QED
      BY <2>2, <3>1, <3>2, ResponderFrame
  <2>4. CASE r # None
    <3>1. r \in Ephs \ drawn
      BY <2>4 DEF Draws
    <3>2. body \in Bodies /\ body.ra = ra
      BY <2>1, <3>1, BodyType DEF Body
    <3>3. /\ res'[b].eph \in {s.eph, r} /\ ini' = ini
          /\ drawn' = drawn \cup {r} /\ used' = used \cup {<<r, ra>>}
      BY <1>6, <2>4 DEF Respond, TypeOK
    <3>4. RShape(res'[b])
      BY <1>6, <2>1, <2>4, <3>2 DEF Respond, TypeOK, RShape
    <3>. QED
      BY <2>2, <3>1, <3>3, <3>4, ResponderFrame
  <2>. QED
    BY <2>3, <2>4
<1>7. ASSUME NEW b \in Responders, NEW ra \in Points, NEW r \in Draws,
             RespondUnconfirmed(b, ra, r)
      PROVE  EphInv'
  <2>. DEFINE s    == res[b]
              body == Body("B", s.par, r, ra)
  <2>1. s.par \in Params /\ s.phase = "fresh" /\ RShape(s)
    BY <1>7 DEF RespondUnconfirmed, TypeOK, RSession, EphInv, ShapeInv
  <2>2. \A c \in Responders \ {b} : res'[c] = res[c]
    BY <1>7 DEF RespondUnconfirmed, TypeOK
  <2>3. CASE r = None
    <3>1. /\ res'[b] = Failed(s) /\ ini' = ini
          /\ drawn' = drawn /\ used' = used
      BY <1>7, <2>3 DEF RespondUnconfirmed, TypeOK
    <3>2. RShape(Failed(s)) /\ Failed(s).eph = s.eph
      BY <2>1 DEF RShape
    <3>. QED
      BY <2>2, <3>1, <3>2, ResponderFrame
  <2>4. CASE r # None
    <3>1. r \in Ephs \ drawn
      BY <2>4 DEF Draws
    <3>2. body \in Bodies /\ body.ra = ra
      BY <2>1, <3>1, BodyType DEF Body
    <3>3. /\ res'[b].eph \in {s.eph, r} /\ ini' = ini
          /\ drawn' = drawn \cup {r} /\ used' = used \cup {<<r, ra>>}
      BY <1>7, <2>4 DEF RespondUnconfirmed, TypeOK
    <3>4. RShape(res'[b])
      BY <1>7, <2>1, <2>4, <3>2 DEF RespondUnconfirmed, TypeOK, RShape
    <3>. QED
      BY <2>2, <3>1, <3>3, <3>4, ResponderFrame
  <2>. QED
    BY <2>3, <2>4
<1>8. ASSUME NEW b \in Responders, NEW sa \in Delivered, Finish(b, sa)
      PROVE  EphInv'
  <2>1. /\ \A c \in Responders \ {b} : res'[c] = res[c]
        /\ res'[b].eph = res[b].eph /\ res'[b].body = res[b].body
        /\ res'[b].par = res[b].par /\ res'[b].key \in {res[b].key, None}
        /\ ini' = ini /\ drawn' = drawn /\ used' = used
    BY <1>8 DEF Finish, TypeOK
  <2>2. RShape(res'[b])
    BY <2>1 DEF EphInv, ShapeInv, RShape
  <2>. QED
    BY <2>1, <2>2, ResponderFrame
<1>9. CASE UNCHANGED vars
  BY <1>9 DEF vars, EphInv, FreshInv, ShapeInv, IShape, RShape, EphemeralSingleUse
<1>. QED
  BY <1>1, <1>2, <1>3, <1>4, <1>5, <1>6, <1>7, <1>8, <1>9
  DEF Next, InitiatorStep, ResponderStep

(* The three parts of the invariant hold together. *)
THEOREM Invariants == Spec => [](TypeOK /\ AuthInv /\ EphInv)
<1>1. /\ TypeOK /\ AuthInv /\ EphInv /\ [Next]_vars
      => TypeOK' /\ AuthInv' /\ EphInv'
  BY TypeStep, AuthStep, EphStep
<1>. QED
  BY TypeInit, AuthInit, EphInit, <1>1, PTL DEF Spec

(* An ephemeral enters at most one derivation, failed ones included. *)
THEOREM SingleUse == Spec => []EphemeralSingleUse
<1>1. EphInv => EphemeralSingleUse
  BY DEF EphInv
<1>. QED
  BY <1>1, Invariants, PTL

(* What a session's transcript and key are, field by field. *)
LEMMA IFields ==
    ASSUME ShapeInv, NEW i \in Initiators, ini[i].key # None
    PROVE  /\ ini[i].body.ra = ini[i].eph /\ ini[i].eph # None
           /\ ini[i].body \in Bodies
           /\ ini[i].body.u = SharedU(ini[i].par, ini[i].eph, ini[i].body.rb)
           /\ SameMaterial(ini[i].key, ini[i].body)
           /\ ini[i].key = [u |-> ini[i].body.u, za |-> ZA("A", ini[i].par),
                            zb |-> ZB("A", ini[i].par), klen |-> ini[i].par.klen]
<1>. DEFINE s == ini[i]
            q == s.body.rb
<1>1. /\ s.eph # None /\ s.body \in Bodies
      /\ s.body = Body("A", s.par, s.eph, q) /\ s.key = KeyOf("A", s.par, s.body.u)
  BY DEF ShapeInv, IShape
<1>2. /\ Body("A", s.par, s.eph, q).ra = s.eph
      /\ Body("A", s.par, s.eph, q).u = SharedU(s.par, s.eph, q)
      /\ Body("A", s.par, s.eph, q).za = ZA("A", s.par)
      /\ Body("A", s.par, s.eph, q).zb = ZB("A", s.par)
  BY DEF Body
<1>3. s.key = [u |-> s.body.u, za |-> ZA("A", s.par), zb |-> ZB("A", s.par),
               klen |-> s.par.klen]
  BY <1>1 DEF KeyOf
<1>. HIDE DEF q
<1>4. s.key.u = s.body.u /\ s.key.za = ZA("A", s.par) /\ s.key.zb = ZB("A", s.par)
  BY <1>3
<1>. QED
  BY <1>1, <1>2, <1>3, <1>4 DEF SameMaterial, q

(* What the transcript and the key of a responder session are made of. *)
LEMMA RFields ==
    ASSUME ShapeInv, NEW b \in Responders, res[b].body # None
    PROVE  /\ res[b].body.rb = res[b].eph /\ res[b].eph # None
           /\ res[b].body.u = SharedU(res[b].par, res[b].eph, res[b].body.ra)
           /\ res[b].key # None =>
                /\ SameMaterial(res[b].key, res[b].body)
                /\ res[b].key = [u |-> res[b].body.u, za |-> ZA("B", res[b].par),
                                 zb |-> ZB("B", res[b].par),
                                 klen |-> res[b].par.klen]
<1>. DEFINE s == res[b]
            q == s.body.ra
<1>1. /\ s.eph # None /\ s.body = Body("B", s.par, s.eph, q)
      /\ s.key # None => s.key = KeyOf("B", s.par, s.body.u)
  BY DEF ShapeInv, RShape
<1>2. /\ Body("B", s.par, s.eph, q).rb = s.eph
      /\ Body("B", s.par, s.eph, q).u = SharedU(s.par, s.eph, q)
      /\ Body("B", s.par, s.eph, q).za = ZA("B", s.par)
      /\ Body("B", s.par, s.eph, q).zb = ZB("B", s.par)
  BY DEF Body
<1>3. s.key # None =>
        s.key = [u |-> s.body.u, za |-> ZA("B", s.par), zb |-> ZB("B", s.par),
                 klen |-> s.par.klen]
  BY <1>1 DEF KeyOf
<1>. HIDE DEF q
<1>4. s.key # None =>
        s.key.u = s.body.u /\ s.key.za = ZA("B", s.par) /\ s.key.zb = ZB("B", s.par)
  BY <1>3
<1>. QED
  BY <1>1, <1>2, <1>3, <1>4 DEF SameMaterial, q

(* The responder an initiator confirmed with is the one whose ephemeral it *)
(* received: ephemerals of different responders differ.                    *)
LEMMA PeerOf ==
    ASSUME TypeOK, AuthInv, EphInv, NEW i \in Initiators,
           ini[i].phase = "confirmed"
    PROVE  \E c \in Responders :
             /\ res[c].body = ini[i].body /\ res[c].eph = ini[i].body.rb
             /\ res[c].phase \in {"waiting", "finished", "failed"}
             /\ \A b \in Responders : res[b].eph = ini[i].body.rb => b = c
<1>1. ini[i].key # None
  BY DEF TypeOK, ISession
<1>2. ini[i].body \in Bodies
  BY <1>1, IFields DEF EphInv
<1>3. PICK c \in Responders : /\ res[c].body = ini[i].body
                              /\ res[c].phase \in {"waiting", "finished", "failed"}
  BY DEF AuthInv, InitiatorAuthentication
<1>4. res[c].eph = ini[i].body.rb /\ res[c].eph # None
  BY <1>2, <1>3, NoneApart, RFields DEF EphInv
<1>. QED
  BY <1>3, <1>4 DEF EphInv, FreshInv

(* Confirmed keys of two ends that met are the same key material. *)
THEOREM Agreement == Spec => []ConfirmedAgreement
<1>1. TypeOK /\ AuthInv /\ EphInv => ConfirmedAgreement
  <2>. SUFFICES ASSUME TypeOK, AuthInv, EphInv,
                       NEW i \in Initiators, NEW b \in Responders,
                       ini[i].phase = "confirmed", res[b].key # None,
                       ini[i].body.rb = res[b].eph
                PROVE  SameMaterial(ini[i].key, res[b].key)
    BY DEF ConfirmedAgreement
  <2>1. res[b].body = ini[i].body
    BY PeerOf
  <2>2. ini[i].key # None /\ res[b].body # None
    BY DEF TypeOK, ISession, RSession
  <2>3. ShapeInv
    BY DEF EphInv
  <2>4. SameMaterial(ini[i].key, ini[i].body)
    BY <2>2, <2>3, IFields
  <2>5. SameMaterial(res[b].key, res[b].body)
    BY <2>2, <2>3, RFields
  <2>. QED
    BY <2>1, <2>4, <2>5 DEF SameMaterial
<1>. QED
  BY <1>1, Invariants, PTL

(* Confirmed sessions pair one to one. *)
THEOREM Injective == Spec => []OneToOne
<1>1. TypeOK /\ AuthInv /\ EphInv => OneToOne
  <2>. SUFFICES ASSUME TypeOK, AuthInv, EphInv PROVE OneToOne
    OBVIOUS
  <2>1. \A i, j \in Initiators :
          /\ ini[i].phase = "confirmed" /\ ini[j].phase = "confirmed"
          /\ ini[i].body.rb = ini[j].body.rb
          => i = j
    <3>. SUFFICES ASSUME NEW i \in Initiators, NEW j \in Initiators,
                         ini[i].phase = "confirmed", ini[j].phase = "confirmed",
                         ini[i].body.rb = ini[j].body.rb
                  PROVE  i = j
      OBVIOUS
    <3>1. ini[i].body = ini[j].body
      BY PeerOf
    <3>2. ini[i].key # None /\ ini[j].key # None
      BY DEF TypeOK, ISession
    <3>3. ini[i].eph = ini[j].eph /\ ini[i].eph # None
      BY <3>1, <3>2, IFields DEF EphInv
    <3>. QED
      BY <3>3 DEF EphInv, FreshInv
  <2>2. \A b, c \in Responders :
          /\ res[b].phase = "finished" /\ res[c].phase = "finished"
          /\ res[b].body.ra = res[c].body.ra
          => b = c
    <3>. SUFFICES ASSUME NEW b \in Responders, NEW c \in Responders,
                         res[b].phase = "finished", res[c].phase = "finished",
                         res[b].body.ra = res[c].body.ra
                  PROVE  b = c
      OBVIOUS
    <3>1. PICK i \in Initiators : /\ ini[i].phase = "confirmed"
                                  /\ ini[i].body = res[b].body
      BY DEF AuthInv, ResponderAuthentication
    <3>2. PICK j \in Initiators : /\ ini[j].phase = "confirmed"
                                  /\ ini[j].body = res[c].body
      BY DEF AuthInv, ResponderAuthentication
    <3>3. ini[i].key # None /\ ini[j].key # None
      BY <3>1, <3>2 DEF TypeOK, ISession
    <3>4. i = j
      <4>1. ini[i].body.ra = ini[i].eph /\ ini[i].eph # None
        BY <3>3, IFields DEF EphInv
      <4>2. ini[j].body.ra = ini[j].eph
        BY <3>3, IFields DEF EphInv
      <4>. QED
        BY <3>1, <3>2, <4>1, <4>2 DEF EphInv, FreshInv
    <3>5. res[b].body # None /\ res[c].body # None
      BY DEF TypeOK, RSession
    <3>6. res[b].eph = res[c].eph /\ res[b].eph # None
      BY <3>1, <3>2, <3>4, <3>5, RFields DEF EphInv
    <3>. QED
      BY <3>6 DEF EphInv, FreshInv
  <2>. QED
    BY <2>1, <2>2 DEF OneToOne
<1>. QED
  BY <1>1, Invariants, PTL

(* Two sessions that met, with crossed parameters, hold the same key even  *)
(* when no tag was exchanged: the two roles compute one function.          *)
THEOREM UnconfirmedKeysAgree == Spec => []UnconfirmedCorrectness
<1>1. TypeOK /\ AuthInv /\ EphInv => UnconfirmedCorrectness
  <2>. SUFFICES ASSUME TypeOK, EphInv, NEW i \in Initiators, NEW b \in Responders,
                       ini[i].key # None, res[b].key # None,
                       ini[i].body.rb = res[b].eph, res[b].body.ra = ini[i].eph,
                       ini[i].par.own = res[b].par.peer,
                       ini[i].par.peer = res[b].par.own,
                       ini[i].par.ida = res[b].par.ida,
                       ini[i].par.idb = res[b].par.idb,
                       ini[i].par.klen = res[b].par.klen
                PROVE  ini[i].key = res[b].key
    BY DEF UnconfirmedCorrectness
  <2>1. res[b].body # None
    BY DEF TypeOK, RSession
  <2>2. ini[i].body.u = res[b].body.u
    BY <2>1, IFields, RFields DEF EphInv, SharedU
  <2>3. /\ ZA("A", ini[i].par) = ZA("B", res[b].par)
        /\ ZB("A", ini[i].par) = ZB("B", res[b].par)
    BY DEF ZA, ZB
  <2>. QED
    BY <2>1, <2>2, <2>3, IFields, RFields DEF EphInv
<1>. QED
  BY <1>1, Invariants, PTL

-----------------------------------------------------------------------------
(* The exchange implements ConfirmedAgreement. *)
THEOREM PromiseInit == Init => Promise!AInit
<1>. SUFFICES ASSUME Init PROVE Promise!AInit
  OBVIOUS
<1>1. /\ \A i \in Initiators : ini[i].phase = "none"
      /\ \A b \in Responders : res[b].phase = "none" /\ res[b].body = None
  BY DEF Init, NewSession, Session
<1>. QED
  BY <1>1 DEF Promise!AInit, OfferedBodies, AcceptedBodies, ClosedBodies

(* A step that changes no phase class and no transcript is a stutter. *)
LEMMA PromiseFrame ==
    ASSUME \A i \in Initiators :
             /\ ini[i].phase = "confirmed" <=> ini'[i].phase = "confirmed"
             /\ ini[i].phase = "confirmed" => ini'[i].body = ini[i].body,
           \A b \in Responders :
             /\ (res[b].phase # "unconfirmed" /\ res[b].body # None) <=>
                (res'[b].phase # "unconfirmed" /\ res'[b].body # None)
             /\ (res[b].phase # "unconfirmed" /\ res[b].body # None) =>
                res'[b].body = res[b].body,
           \A b \in Responders :
             /\ res[b].phase = "finished" <=> res'[b].phase = "finished"
             /\ res[b].phase = "finished" => res'[b].body = res[b].body
    PROVE  UNCHANGED Promise!avars
<1>1. AcceptedBodies' = AcceptedBodies
  BY DEF AcceptedBodies
<1>2. OfferedBodies' = OfferedBodies
  BY DEF OfferedBodies
<1>3. ClosedBodies' = ClosedBodies
  BY DEF ClosedBodies
<1>. QED
  BY <1>1, <1>2, <1>3 DEF Promise!avars

(* Every method is a step of ConfirmedAgreement or leaves its sets alone. *)
THEOREM PromiseStep ==
    TypeOK /\ AuthInv /\ EphInv /\ [Next]_vars => [Promise!ANext]_(Promise!avars)
<1>. SUFFICES ASSUME TypeOK, AuthInv, EphInv, [Next]_vars
              PROVE  [Promise!ANext]_(Promise!avars)
  OBVIOUS
<1>. USE NoneApart DEF Session, Failed, NewSession
<1>1. ASSUME NEW i \in Initiators, NEW p \in InitiatorParams, InitiatorNew(i, p)
      PROVE  UNCHANGED Promise!avars
  BY <1>1, PromiseFrame DEF InitiatorNew, TypeOK
<1>2. ASSUME NEW i \in Initiators, NEW r \in Draws, ProduceEphemeral(i, r)
      PROVE  UNCHANGED Promise!avars
  BY <1>2, PromiseFrame DEF ProduceEphemeral, TypeOK
<1>3. ASSUME NEW i \in Initiators, NEW rb \in Points, NEW sb \in Delivered,
             Confirm(i, rb, sb)
      PROVE  [Promise!ANext]_(Promise!avars)
  <2>. DEFINE s == ini[i]
              b == Body("A", s.par, s.eph, rb)
              ok == Derivable(s.eph, rb) /\ sb = SB(b)
  <2>1. s.par \in Params /\ s.eph \in Ephs /\ s.phase = "waiting"
    BY <1>3 DEF Confirm, TypeOK, ISession
  <2>2. b \in Bodies /\ b.ra = s.eph /\ b.rb = rb
    BY <2>1, BodyType DEF Body
  <2>3. CASE ~ok
    BY <1>3, <2>3, PromiseFrame DEF Confirm, TypeOK
  <2>4. CASE ok
    <3>1. sb \in tags /\ sb.prefix = 2 /\ sb.body = b
      BY <2>2, <2>4, GenuineTag
    <3>2. PICK c \in Responders : /\ res[c].body = b
                                  /\ res[c].phase \in {"waiting", "finished", "failed"}
      BY <3>1 DEF AuthInv, TagOrigins
    <3>3. /\ ini'[i].phase = "confirmed" /\ ini'[i].body = b
          /\ \A j \in Initiators \ {i} : ini'[j] = ini[j]
          /\ res' = res
      BY <1>3, <2>4 DEF Confirm, TypeOK
    <3>4. b \in OfferedBodies
      BY <2>2, <3>2 DEF OfferedBodies
    <3>5. ASSUME NEW a \in AcceptedBodies PROVE a.ra # b.ra /\ a.rb # b.rb
      <4>1. PICK j \in Initiators : ini[j].phase = "confirmed" /\ a = ini[j].body
        BY DEF AcceptedBodies
      <4>2. ini[j].key # None /\ j # i
        BY <2>1, <4>1 DEF TypeOK, ISession
      <4>3. a.ra = ini[j].eph /\ ini[j].eph # None
        BY <4>1, <4>2, IFields DEF EphInv
      <4>4. a.ra # b.ra
        BY <2>2, <4>2, <4>3 DEF EphInv, FreshInv
      <4>5. res[c].eph = b.rb
        BY <2>2, <3>2, RFields DEF EphInv
      <4>6. ASSUME a.rb = b.rb PROVE FALSE
        <5>1. res[c].body = a
          BY <4>1, <4>5, <4>6, PeerOf
        <5>. QED
          BY <3>2, <4>4, <5>1
      <4>. QED
        BY <4>4, <4>6
    <3>6. AcceptedBodies' = AcceptedBodies \cup {b}
      <4>. HIDE DEF b, ok
      <4>. QED
        BY <2>1, <3>3 DEF AcceptedBodies
    <3>7. OfferedBodies' = OfferedBodies /\ ClosedBodies' = ClosedBodies
      BY <3>3 DEF OfferedBodies, ClosedBodies
    <3>8. Promise!Accept(b)
      BY <3>4, <3>5, <3>6, <3>7 DEF Promise!Accept
    <3>. QED
      BY <3>4, <3>8 DEF Promise!ANext
  <2>. QED
    BY <2>3, <2>4
<1>4. ASSUME NEW i \in Initiators, NEW rb \in Points, DeriveUnconfirmed(i, rb)
      PROVE  UNCHANGED Promise!avars
  BY <1>4, PromiseFrame DEF DeriveUnconfirmed, TypeOK
<1>5. ASSUME NEW b \in Responders, NEW p \in ResponderParams, ResponderNew(b, p)
      PROVE  UNCHANGED Promise!avars
  <2>1. res[b].body = None
    BY <1>5 DEF ResponderNew, TypeOK, RSession
  <2>. QED
    BY <1>5, <2>1, PromiseFrame DEF ResponderNew, TypeOK
<1>6. ASSUME NEW b \in Responders, NEW ra \in Points, NEW r \in Draws,
             Respond(b, ra, r)
      PROVE  [Promise!ANext]_(Promise!avars)
  <2>. DEFINE s    == res[b]
              body == Body("B", s.par, r, ra)
              ok   == r # None /\ Derivable(r, ra)
  <2>1. s.par \in Params /\ s.phase = "fresh" /\ s.body = None
    BY <1>6 DEF Respond, TypeOK, RSession
  <2>2. CASE ~ok
    BY <1>6, <2>1, <2>2, PromiseFrame DEF Respond, TypeOK
  <2>3. CASE ok
    <3>1. r \in Ephs \ drawn
      BY <2>3 DEF Draws
    <3>2. body \in Bodies /\ body.rb = r
      BY <2>1, <3>1, BodyType DEF Body
    <3>3. /\ res'[b].phase = "waiting" /\ res'[b].body = body
          /\ \A c \in Responders \ {b} : res'[c] = res[c]
          /\ ini' = ini
      BY <1>6, <2>3 DEF Respond, TypeOK
    <3>4. body # None
      BY <3>2
    <3>5. OfferedBodies' = OfferedBodies \cup {body}
      <4>. HIDE DEF body, ok
      <4>. QED
        BY <2>1, <3>3, <3>4 DEF OfferedBodies
    <3>6. ASSUME NEW o \in OfferedBodies PROVE o.rb # body.rb
      <4>1. PICK c \in Responders : res[c].body = o /\ res[c].body # None
        BY DEF OfferedBodies
      <4>2. o.rb = res[c].eph /\ res[c].eph # None
        BY <4>1, RFields DEF EphInv
      <4>. QED
        BY <3>1, <3>2, <4>2 DEF EphInv, FreshInv
    <3>7. AcceptedBodies' = AcceptedBodies /\ ClosedBodies' = ClosedBodies
      <4>. HIDE DEF body, ok
      <4>. QED
        BY <2>1, <3>3 DEF AcceptedBodies, ClosedBodies
    <3>8. Promise!Offer(body) /\ body \in OfferedBodies'
      BY <3>5, <3>6, <3>7 DEF Promise!Offer
    <3>. QED
      BY <3>8 DEF Promise!ANext
  <2>. QED
    BY <2>2, <2>3
<1>7. ASSUME NEW b \in Responders, NEW ra \in Points, NEW r \in Draws,
             RespondUnconfirmed(b, ra, r)
      PROVE  UNCHANGED Promise!avars
  <2>1. res[b].body = None
    BY <1>7 DEF RespondUnconfirmed, TypeOK, RSession
  <2>. QED
    BY <1>7, <2>1, PromiseFrame DEF RespondUnconfirmed, TypeOK
<1>8. ASSUME NEW b \in Responders, NEW sa \in Delivered, Finish(b, sa)
      PROVE  [Promise!ANext]_(Promise!avars)
  <2>. DEFINE s == res[b]
  <2>1. s.phase = "waiting" /\ s.body \in Bodies
    BY <1>8 DEF Finish, TypeOK, RSession
  <2>2. CASE sa # SA(s.body)
    BY <1>8, <2>1, <2>2, PromiseFrame DEF Finish, TypeOK
  <2>3. CASE sa = SA(s.body)
    <3>1. sa \in tags /\ sa.prefix = 3 /\ sa.body = s.body
      BY <2>1, <2>3, GenuineTag
    <3>2. s.body \in AcceptedBodies
      BY <3>1 DEF AuthInv, TagOrigins, AcceptedBodies
    <3>3. /\ res'[b].phase = "finished" /\ res'[b].body = s.body
          /\ \A c \in Responders \ {b} : res'[c] = res[c]
          /\ ini' = ini
      BY <1>8, <2>3 DEF Finish, TypeOK
    <3>4. s.body \notin ClosedBodies
      <4>1. SUFFICES ASSUME NEW c \in Responders, res[c].phase = "finished",
                            res[c].body = s.body
                     PROVE  FALSE
        BY DEF ClosedBodies
      <4>2. res[c].eph = s.eph /\ s.eph # None
        BY <2>1, <4>1, RFields DEF EphInv
      <4>. QED
        BY <2>1, <4>1, <4>2 DEF EphInv, FreshInv
    <3>5. ClosedBodies' = ClosedBodies \cup {s.body}
      BY <2>1, <3>3 DEF ClosedBodies
    <3>6. OfferedBodies' = OfferedBodies
      BY <2>1, <3>3 DEF OfferedBodies
    <3>7. AcceptedBodies' = AcceptedBodies
      BY <3>3 DEF AcceptedBodies
    <3>8. Promise!Close(s.body)
      BY <3>2, <3>4, <3>5, <3>6, <3>7 DEF Promise!Close
    <3>. QED
      BY <3>2, <3>8 DEF Promise!ANext
  <2>. QED
    BY <2>2, <2>3
<1>9. CASE UNCHANGED vars
  BY <1>9, PromiseFrame DEF vars
<1>. QED
  BY <1>1, <1>2, <1>3, <1>4, <1>5, <1>6, <1>7, <1>8, <1>9
  DEF Next, InitiatorStep, ResponderStep

(* Whatever the transport does, the exchange keeps the promise of          *)
(* ConfirmedAgreement.                                                     *)
THEOREM KeepsPromise == Spec => AgreementPromise
<1>1. Init => Promise!AInit
  BY PromiseInit
<1>2. TypeOK /\ AuthInv /\ EphInv /\ [Next]_vars => [Promise!ANext]_(Promise!avars)
  BY PromiseStep
<1>. QED
  BY <1>1, <1>2, Invariants, PTL DEF Spec, AgreementPromise

-----------------------------------------------------------------------------
(***************************************************************************)
(* The C handles of the key exchange keep their allocation, their state    *)
(* enum and the typestate they box in step, for every population of        *)
(* handles and every order of calls, bad arguments included; and they keep *)
(* the promise of ConfirmedAgreement.  A call is a step of Sm2KeyExchange, *)
(* or one of two things the Rust typestates cannot do in one step: new and *)
(* produce_ephemeral together, and dropping a session on a bad argument, a *)
(* call out of order or a free.  The invariants of the exchange survive    *)
(* those two as well.                                                      *)
(***************************************************************************)
Boxes == {"none", "live", "freed"}
Over  == {"finished", "unconfirmed", "failed"}

(* The inductive invariant: what the runs check, and two facts it rests    *)
(* on: sessions are functions of the handles, and the enum of a handle     *)
(* that is not live says Spent, so that no call takes it for in flight.    *)
HandleInv ==
    /\ ini = [i \in Initiators |-> ini[i]]
    /\ res = [b \in Responders |-> res[b]]
    /\ ibox \in [Initiators -> Boxes]
    /\ rbox \in [Responders -> Boxes]
    /\ state \in [Responders -> {"Fresh", "Waiting", "Spent"}]
    /\ \A b \in Responders : rbox[b] # "live" => state[b] = "Spent"
    /\ OwnershipAgrees
    /\ StateMatches

(* One initiator handle takes a new session, box and owner. *)
LEMMA InitiatorMoves ==
    ASSUME HandleInv, NEW i \in Initiators, NEW s, NEW box \in {"live", "freed"},
           ini' = [ini EXCEPT ![i] = s],
           ibox' = [ibox EXCEPT ![i] = box],
           iowns' = IF box = "live" THEN iowns \cup {i} ELSE iowns \ {i},
           box = "live" <=> s.phase = "waiting",
           UNCHANGED <<res, rbox, state, rowns>>
    PROVE  HandleInv'
<1>1. /\ (ini = [j \in Initiators |-> ini[j]])'
      /\ (ibox \in [Initiators -> Boxes])'
  BY DEF HandleInv, Boxes
<1>2. /\ ini'[i] = s /\ ibox'[i] = box
      /\ \A j \in Initiators \ {i} : ini'[j] = ini[j] /\ ibox'[j] = ibox[j]
  BY DEF HandleInv, Boxes
<1>3. OwnershipAgrees'
  BY <1>2 DEF HandleInv, OwnershipAgrees
<1>4. StateMatches'
  BY <1>2 DEF HandleInv, StateMatches
<1> QED
  BY <1>1, <1>3, <1>4 DEF HandleInv

(* One responder handle takes a new session, box, state and owner. *)
LEMMA ResponderMoves ==
    ASSUME HandleInv, NEW b \in Responders, NEW s, NEW box \in {"live", "freed"},
           NEW st \in {"Fresh", "Waiting", "Spent"},
           res' = [res EXCEPT ![b] = s],
           rbox' = [rbox EXCEPT ![b] = box],
           state' = [state EXCEPT ![b] = st],
           rowns' = IF box = "live" THEN rowns \cup {b} ELSE rowns \ {b},
           box = "live" => /\ st = "Fresh"   <=> s.phase = "fresh"
                           /\ st = "Waiting" <=> s.phase = "waiting"
                           /\ st = "Spent"   <=> s.phase = "failed",
           box = "freed" => s.phase \in Over /\ st = "Spent",
           UNCHANGED <<ini, ibox, iowns>>
    PROVE  HandleInv'
<1>1. /\ (res = [c \in Responders |-> res[c]])'
      /\ (rbox \in [Responders -> Boxes])'
      /\ (state \in [Responders -> {"Fresh", "Waiting", "Spent"}])'
  BY DEF HandleInv, Boxes
<1>2. /\ res'[b] = s /\ rbox'[b] = box /\ state'[b] = st
      /\ \A c \in Responders \ {b} :
             res'[c] = res[c] /\ rbox'[c] = rbox[c] /\ state'[c] = state[c]
  BY DEF HandleInv, Boxes
<1>3. OwnershipAgrees'
  BY <1>2 DEF HandleInv, OwnershipAgrees
<1>4. StateMatches'
  BY <1>2 DEF HandleInv, StateMatches, Over
<1>5. (\A c \in Responders : rbox[c] # "live" => state[c] = "Spent")'
  BY <1>2 DEF HandleInv
<1> QED
  BY <1>1, <1>3, <1>4, <1>5 DEF HandleInv

(* The phase a session record is built with. *)
LEMMA SessionPhase ==
    /\ \A ph, p, r, k, body : Session(ph, p, r, k, body).phase = ph
    /\ \A s : Failed(s).phase = "failed"
  BY DEF Session, Failed

(* What is live is owned, and only what is live. *)
LEMMA Owned ==
    ASSUME HandleInv
    PROVE  /\ \A i \in Initiators : i \in iowns <=> ibox[i] = "live"
           /\ \A b \in Responders : b \in rowns <=> rbox[b] = "live"
           /\ iowns \subseteq Initiators /\ rowns \subseteq Responders
  BY DEF HandleInv, OwnershipAgrees

(* No handle is allocated at first. *)
LEMMA HandleInit == HInit => HandleInv
  BY DEF HInit, Init, HandleInv, OwnershipAgrees, StateMatches, Boxes, NewSession, Session

(* Every call on an initiator handle. *)
LEMMA InitiatorCalls ==
    ASSUME HandleInv, NEW i \in Initiators, CInitiatorStep(i)
    PROVE  HandleInv' /\ UNCHANGED <<res, state>>
<1>1. ASSUME NEW p, NEW r, NEW arg, CInitiatorNew(i, p, r, arg)
      PROVE  HandleInv' /\ UNCHANGED <<res, state>>
  <2> DEFINE ok == arg = "ok" /\ ValidParams(p) /\ r # None
             s == IF ok THEN Session("waiting", p, r, None, None) ELSE Failed(NewSession)
             box == IF ok THEN "live" ELSE "freed"
  <2>1. /\ ini' = [ini EXCEPT ![i] = s] /\ ibox' = [ibox EXCEPT ![i] = box]
        /\ iowns' = IF ok THEN iowns \cup {i} ELSE iowns
        /\ ibox[i] = "none" /\ UNCHANGED <<res, rbox, state, rowns>>
    BY <1>1 DEF CInitiatorNew
  <2>2. iowns' = IF box = "live" THEN iowns \cup {i} ELSE iowns \ {i}
    BY <2>1, Owned
  <2>3. box = "live" <=> s.phase = "waiting"
    BY SessionPhase
  <2>4. box \in {"live", "freed"}
    OBVIOUS
  <2> HIDE DEF s, box
  <2> QED
    BY <2>1, <2>2, <2>3, <2>4, InitiatorMoves
<1>2. ASSUME i \in iowns, NEW s, s.phase # "waiting",
             ini' = [ini EXCEPT ![i] = s], ibox' = [ibox EXCEPT ![i] = "freed"],
             iowns' = iowns \ {i}, UNCHANGED <<res, rbox, state, rowns>>
      PROVE  HandleInv' /\ UNCHANGED <<res, state>>
  <2> DEFINE box == "freed"
  <2>1. /\ box \in {"live", "freed"} /\ (box = "live" <=> s.phase = "waiting")
        /\ iowns' = IF box = "live" THEN iowns \cup {i} ELSE iowns \ {i}
        /\ ibox' = [ibox EXCEPT ![i] = box]
    BY <1>2
  <2> HIDE DEF box
  <2> QED
    BY <1>2, <2>1, InitiatorMoves
<1>3. ASSUME NEW rb, NEW sb, NEW arg, CConfirm(i, rb, sb, arg)
      PROVE  HandleInv' /\ UNCHANGED <<res, state>>
  <2>1. \E s : s.phase # "waiting" /\ ini' = [ini EXCEPT ![i] = s]
    BY <1>3, SessionPhase DEF CConfirm, Confirm, DropInitiator
  <2> QED
    BY <1>2, <1>3, <2>1 DEF CConfirm, Confirm
<1>4. ASSUME NEW rb, NEW arg, CDeriveUnconfirmed(i, rb, arg)
      PROVE  HandleInv' /\ UNCHANGED <<res, state>>
  <2>1. \E s : s.phase # "waiting" /\ ini' = [ini EXCEPT ![i] = s]
    BY <1>4, SessionPhase DEF CDeriveUnconfirmed, DeriveUnconfirmed, DropInitiator
  <2> QED
    BY <1>2, <1>4, <2>1 DEF CDeriveUnconfirmed, DeriveUnconfirmed
<1>5. CASE CInitiatorFree(i)
  <2>1. Failed(ini[i]).phase # "waiting"
    BY SessionPhase
  <2> QED
    BY <1>2, <1>5, <2>1 DEF CInitiatorFree, DropInitiator
<1> QED
  BY <1>1, <1>3, <1>4, <1>5 DEF CInitiatorStep

(* Every call on a responder handle.  What is waiting stays as it is until *)
(* its box is freed.                                                       *)
LEMMA ResponderCalls ==
    ASSUME HandleInv, NEW b \in Responders, CResponderStep(b)
    PROVE  /\ HandleInv'
           /\ \A c \in Responders : state[c] = "Waiting" /\ rbox'[c] = "live" =>
                  res'[c] = res[c] /\ state'[c] = "Waiting"
<1> DEFINE Kept == /\ HandleInv'
                   /\ \A c \in Responders : state[c] = "Waiting" /\ rbox'[c] = "live" =>
                          res'[c] = res[c] /\ state'[c] = "Waiting"
<1>1. ASSUME UNCHANGED hvars
      PROVE  Kept
  BY <1>1 DEF hvars, HandleInv, OwnershipAgrees, StateMatches
<1>2. ASSUME NEW s, NEW st \in {"Fresh", "Waiting", "Spent"}, NEW box \in {"live", "freed"},
             res' = [res EXCEPT ![b] = s], rbox' = [rbox EXCEPT ![b] = box],
             state' = [state EXCEPT ![b] = st],
             rowns' = IF box = "live" THEN rowns \cup {b} ELSE rowns \ {b},
             box = "live" => /\ state[b] # "Waiting"
                             /\ st = "Fresh"   <=> s.phase = "fresh"
                             /\ st = "Waiting" <=> s.phase = "waiting"
                             /\ st = "Spent"   <=> s.phase = "failed",
             box = "freed" => s.phase \in Over /\ st = "Spent",
             UNCHANGED <<ini, ibox, iowns>>
      PROVE  Kept
  <2>1. HandleInv'
    BY <1>2, ResponderMoves
  <2>2. /\ rbox'[b] = box
        /\ \A c \in Responders \ {b} : res'[c] = res[c] /\ state'[c] = state[c]
    BY <1>2 DEF HandleInv
  <2> QED
    BY <1>2, <2>1, <2>2
<1>3. ASSUME b \in rowns, NEW s, s.phase \in Over,
             res' = [res EXCEPT ![b] = s], rbox' = [rbox EXCEPT ![b] = "freed"],
             state' = [state EXCEPT ![b] = "Spent"], rowns' = rowns \ {b},
             UNCHANGED <<ini, ibox, iowns>>
      PROVE  Kept
  <2> DEFINE box == "freed"  st == "Spent"
  <2>1. /\ box \in {"live", "freed"} /\ box # "live" /\ st = "Spent"
        /\ st \in {"Fresh", "Waiting", "Spent"}
        /\ rowns' = IF box = "live" THEN rowns \cup {b} ELSE rowns \ {b}
        /\ rbox' = [rbox EXCEPT ![b] = box] /\ state' = [state EXCEPT ![b] = st]
    BY <1>3
  <2> HIDE DEF box, st, Kept
  <2> QED
    BY <1>2, <1>3, <2>1
<1>4. ASSUME NEW p, NEW arg, CResponderNew(b, p, arg)
      PROVE  Kept
  <2> DEFINE ok == arg = "ok" /\ ValidParams(p)
             s == IF ok THEN Session("fresh", p, None, None, None) ELSE Failed(NewSession)
             box == IF ok THEN "live" ELSE "freed"
             st == IF ok THEN "Fresh" ELSE "Spent"
  <2>1. /\ res' = [res EXCEPT ![b] = s] /\ rbox' = [rbox EXCEPT ![b] = box]
        /\ state' = [state EXCEPT ![b] = st]
        /\ rowns' = IF ok THEN rowns \cup {b} ELSE rowns
        /\ rbox[b] = "none" /\ UNCHANGED <<ini, ibox, iowns>>
    BY <1>4 DEF CResponderNew
  <2>2. /\ rowns' = IF box = "live" THEN rowns \cup {b} ELSE rowns \ {b}
        /\ state[b] # "Waiting"
    BY <2>1, Owned DEF HandleInv
  <2>3. /\ box = "live" => /\ st = "Fresh"   <=> s.phase = "fresh"
                           /\ st = "Waiting" <=> s.phase = "waiting"
                           /\ st = "Spent"   <=> s.phase = "failed"
        /\ box = "freed" => s.phase \in Over /\ st = "Spent"
    BY SessionPhase DEF Over
  <2>4. box \in {"live", "freed"} /\ st \in {"Fresh", "Waiting", "Spent"}
    OBVIOUS
  <2> HIDE DEF s, box, st, Kept
  <2> QED
    BY <1>2, <2>1, <2>2, <2>3, <2>4
<1>5. ASSUME NEW ra, NEW r, NEW arg, CRespond(b, ra, r, arg)
      PROVE  Kept
  <2>1. CASE arg # "ok" \/ state[b] # "Fresh"
    BY <1>1, <1>5, <2>1 DEF CRespond, hvars
  <2>2. CASE arg = "ok" /\ state[b] = "Fresh"
    <3>1. PICK s : /\ s.phase \in {"waiting", "failed"}
                   /\ res' = [res EXCEPT ![b] = s]
      BY <1>5, <2>2, SessionPhase DEF CRespond, Respond
    <3> DEFINE box == "live"
               st == IF res'[b].phase = "waiting" THEN "Waiting" ELSE "Spent"
    <3>2. res'[b] = s
      BY <3>1 DEF HandleInv
    <3>3. /\ b \in rowns /\ UNCHANGED <<ini, ibox, rbox, iowns, rowns>>
          /\ state' = [state EXCEPT ![b] = st]
      BY <1>5, <2>2 DEF CRespond, Respond
    <3>4. rbox[b] = "live"
      BY <3>3, Owned
    <3>5. /\ rbox' = [rbox EXCEPT ![b] = box]
          /\ rowns' = IF box = "live" THEN rowns \cup {b} ELSE rowns \ {b}
      BY <3>3, <3>4 DEF HandleInv, Boxes
    <3>6. /\ box \in {"live", "freed"} /\ box # "freed" /\ state[b] # "Waiting"
          /\ st \in {"Fresh", "Waiting", "Spent"}
          /\ st = "Fresh"   <=> s.phase = "fresh"
          /\ st = "Waiting" <=> s.phase = "waiting"
          /\ st = "Spent"   <=> s.phase = "failed"
      BY <2>2, <3>1, <3>2
    <3> HIDE DEF box, st, Kept
    <3> QED
      BY <1>2, <3>1, <3>3, <3>5, <3>6
  <2> QED
    BY <2>1, <2>2
<1>6. ASSUME NEW sa, NEW arg, CFinish(b, sa, arg)
      PROVE  Kept
  <2>1. \E s : s.phase \in Over /\ res' = [res EXCEPT ![b] = s]
    BY <1>6, SessionPhase DEF CFinish, Finish, DropResponder, Over
  <2> HIDE DEF Kept
  <2> QED
    BY <1>3, <1>6, <2>1 DEF CFinish, Finish
<1>7. ASSUME NEW ra, NEW r, NEW arg, CRespondUnconfirmed(b, ra, r, arg)
      PROVE  Kept
  <2>1. CASE arg = "null_callback"
    BY <1>1, <1>7, <2>1 DEF CRespondUnconfirmed, hvars
  <2>2. CASE arg # "null_callback"
    <3>1. \E s : s.phase \in Over /\ res' = [res EXCEPT ![b] = s]
      BY <1>7, <2>2, SessionPhase DEF CRespondUnconfirmed, RespondUnconfirmed, DropResponder, Over
    <3> HIDE DEF Kept
    <3> QED
      BY <1>3, <1>7, <2>2, <3>1 DEF CRespondUnconfirmed, RespondUnconfirmed
  <2> QED
    BY <2>1, <2>2
<1>8. ASSUME CResponderFree(b)
      PROVE  Kept
  <2>1. Failed(res[b]).phase \in Over
    BY SessionPhase DEF Over
  <2> HIDE DEF Kept
  <2> QED
    BY <1>3, <1>8, <2>1 DEF CResponderFree, DropResponder
<1> QED
  BY <1>4, <1>5, <1>6, <1>7, <1>8 DEF CResponderStep

(* Every call keeps the invariant, and a waiting session whose handle is   *)
(* not freed goes on waiting.                                              *)
LEMMA HandleStep ==
    ASSUME HandleInv, [HNext]_hvars
    PROVE  /\ HandleInv'
           /\ \A c \in Responders : state[c] = "Waiting" /\ rbox'[c] = "live" =>
                  res'[c] = res[c] /\ state'[c] = "Waiting"
<1>1. ASSUME NEW i \in Initiators, CInitiatorStep(i)
      PROVE  HandleInv' /\ UNCHANGED <<res, state>>
  BY <1>1, InitiatorCalls
<1>2. CASE UNCHANGED hvars
  BY <1>2 DEF hvars, HandleInv, OwnershipAgrees, StateMatches
<1> QED
  BY <1>1, <1>2, ResponderCalls DEF HNext

(* The invariant of the handles holds throughout. *)
THEOREM HandleInvariant == HSpec => []HandleInv
<1>1. HandleInv /\ [HNext]_hvars => HandleInv'
  BY HandleStep
<1> QED
  BY <1>1, HandleInit, PTL DEF HSpec

(* No caller that follows the headers frees a handle twice, uses a freed   *)
(* one or leaks one, on any path of any call.                              *)
THEOREM CallersOwnWhatLives == HSpec => []OwnershipAgrees
<1>1. HandleInv => OwnershipAgrees
  BY DEF HandleInv
<1> QED
  BY <1>1, HandleInvariant, PTL

(* The enum of a live handle names the typestate it boxes, and no secret   *)
(* outlives its handle but a released key.                                 *)
THEOREM EnumNamesTypestate == HSpec => []StateMatches
<1>1. HandleInv => StateMatches
  BY DEF HandleInv
<1> QED
  BY <1>1, HandleInvariant, PTL

(* A call out of order, or with a bad argument, leaves a waiting responder *)
(* as it is, unless it is one that ends the handle.                        *)
THEOREM WaitingIsUndisturbed == HSpec => InFlightUndisturbed
<1>1. HandleInv /\ [HNext]_hvars =>
        [\A b \in Responders : state[b] = "Waiting" /\ rbox'[b] = "live" =>
             res'[b] = res[b] /\ state'[b] = "Waiting"]_hvars
  BY HandleStep
<1> QED
  BY <1>1, HandleInvariant, PTL DEF HSpec, InFlightUndisturbed

-----------------------------------------------------------------------------
CoreInv == TypeOK /\ AuthInv /\ EphInv

(* A handle not allocated yet boxes nothing. *)
Unboxed == /\ \A i \in Initiators : ibox[i] = "none" => ini[i] = NewSession
           /\ \A b \in Responders : rbox[b] = "none" => res[b] = NewSession

(* A step that keeps the invariants and implements ConfirmedAgreement. *)
Keeps == CoreInv' /\ [Promise!ANext]_(Promise!avars)

(* Every step of the typestates does. *)
LEMMA CoreStep ==
    ASSUME CoreInv, [Next]_vars
    PROVE  Keeps
BY TypeStep, AuthStep, EphStep, PromiseStep DEF CoreInv, Keeps

(* A session nobody has constructed holds nothing. *)
LEMMA NewSessionFields ==
    NewSession.phase = "none" /\ NewSession.eph = None /\ NewSession.par = None
    /\ NewSession.key = None /\ NewSession.body = None
BY DEF NewSession, Session

(* initiator_new: the session is born waiting, with a scalar of its own. *)
LEMMA InitiatorOpens ==
    ASSUME CoreInv, NEW i \in Initiators, NEW p \in InitiatorParams, NEW r \in Ephs \ drawn,
           ini[i] = NewSession,
           ini' = [ini EXCEPT ![i] = Session("waiting", p, r, None, None)],
           drawn' = drawn \cup {r}, UNCHANGED <<res, tags, used>>
    PROVE  Keeps
<1>. USE NoneApart DEF CoreInv
<1>1. /\ ini'[i] = Session("waiting", p, r, None, None)
      /\ \A j \in Initiators \ {i} : ini'[j] = ini[j]
  BY DEF TypeOK
<1>2. ini[i].phase = "none" /\ ini[i].key = None
  BY NewSessionFields
<1>3. /\ ini'[i].phase = "waiting" /\ ini'[i].eph = r /\ ini'[i].key = None
  BY <1>1 DEF Session
<1>4. TypeOK'
  <2>1. p \in Params /\ r \in Ephs
    BY KxAssumption
  <2>2. Session("waiting", p, r, None, None) \in ISession
    BY <2>1 DEF Session, ISession
  <2>. QED
    BY <2>1, <2>2 DEF TypeOK
<1>5. AuthInv'
  BY <1>1, <1>2, <1>3, AuthFrame
<1>6. EphInv'
  <2>1. FreshInv'
    BY <1>1, <1>3 DEF EphInv, FreshInv
  <2>. QED
    BY <1>1, <1>3, <2>1 DEF EphInv, ShapeInv, IShape, EphemeralSingleUse
<1>7. UNCHANGED Promise!avars
  BY <1>1, <1>2, <1>3, PromiseFrame
<1>. QED
  BY <1>4, <1>5, <1>6, <1>7 DEF Keeps

(* A session that has released no key is dropped. *)
LEMMA InitiatorDrops ==
    ASSUME CoreInv, NEW i \in Initiators, ini[i].phase \in {"none", "waiting"},
           DropInitiator(i), UNCHANGED <<res, drawn, tags, used>>
    PROVE  Keeps
<1>. USE NoneApart DEF CoreInv
<1>1. /\ ini'[i] = Failed(ini[i])
      /\ \A j \in Initiators \ {i} : ini'[j] = ini[j]
  BY DEF TypeOK, DropInitiator
<1>2. /\ ini'[i].phase = "failed" /\ ini'[i].eph = ini[i].eph /\ ini'[i].key = None
      /\ ini'[i].phase # "waiting"
  BY <1>1 DEF Failed, Session
<1>3. TypeOK'
  <2>1. Failed(ini[i]) \in ISession
    BY DEF TypeOK, ISession, Failed, Session
  <2>. QED
    BY <2>1 DEF TypeOK, DropInitiator
<1>4. AuthInv'
  BY <1>1, <1>2, AuthFrame
<1>5. EphInv'
  <2>1. IShape(ini'[i])
    BY <1>2 DEF IShape
  <2>. QED
    BY <1>1, <1>2, <2>1, InitiatorFrame
<1>6. UNCHANGED Promise!avars
  BY <1>1, <1>2, PromiseFrame
<1>. QED
  BY <1>3, <1>4, <1>5, <1>6 DEF Keeps

(* A responder that has released no key is dropped; what it offered, it    *)
(* has offered.                                                            *)
LEMMA ResponderDrops ==
    ASSUME CoreInv, NEW b \in Responders,
           res[b].phase \in {"none", "fresh", "waiting", "failed"},
           DropResponder(b), UNCHANGED <<ini, drawn, tags, used>>
    PROVE  Keeps
<1>. USE NoneApart DEF CoreInv
<1>1. /\ res'[b] = Failed(res[b])
      /\ \A c \in Responders \ {b} : res'[c] = res[c]
  BY DEF TypeOK, DropResponder
<1>2. /\ res'[b].phase = "failed" /\ res'[b].eph = res[b].eph /\ res'[b].key = None
      /\ res'[b].body = res[b].body /\ res'[b].par = res[b].par
  BY <1>1 DEF Failed, Session
<1>3. TypeOK'
  <2>1. Failed(res[b]) \in RSession
    BY DEF TypeOK, RSession, Failed, Session
  <2>. QED
    BY <2>1 DEF TypeOK, DropResponder
<1>4. AuthInv'
  BY <1>1, <1>2, AuthFrame
<1>5. EphInv'
  <2>1. RShape(res'[b])
    BY <1>2 DEF EphInv, ShapeInv, RShape
  <2>. QED
    BY <1>1, <1>2, <2>1, ResponderFrame
<1>6. UNCHANGED Promise!avars
  BY <1>1, <1>2, PromiseFrame
<1>. QED
  BY <1>3, <1>4, <1>5, <1>6 DEF Keeps

-----------------------------------------------------------------------------
(* What is owned boxes a session that has released no key. *)
LEMMA OwnedPhases ==
    ASSUME HandleInv
    PROVE  /\ \A i \in iowns : i \in Initiators /\ ini[i].phase = "waiting"
           /\ \A b \in rowns : /\ b \in Responders
                               /\ res[b].phase \in {"none", "fresh", "waiting", "failed"}
                               /\ state[b] = "Fresh" => res[b].phase = "fresh"
BY Owned DEF HandleInv, StateMatches

(* Every call on an initiator handle keeps the promise. *)
LEMMA InitiatorCallKeeps ==
    ASSUME HandleInv, Unboxed, CoreInv, NEW i \in Initiators, CInitiatorStep(i)
    PROVE  Keeps
<1>. HIDE DEF CoreInv, Keeps
<1>1. ASSUME NEW p \in InitiatorParams, NEW r \in Draws, NEW arg \in Args,
             CInitiatorNew(i, p, r, arg)
      PROVE  Keeps
  <2>1. ini[i] = NewSession
    BY <1>1 DEF CInitiatorNew, Unboxed
  <2>2. CASE arg = "ok" /\ ValidParams(p) /\ r # None
    <3>1. r \in Ephs \ drawn /\ drawn' = drawn \cup {r}
      BY <1>1, <2>2 DEF CInitiatorNew, Draws
    <3>. QED
      BY <1>1, <2>1, <2>2, <3>1, InitiatorOpens DEF CInitiatorNew
  <2>3. CASE ~(arg = "ok" /\ ValidParams(p) /\ r # None)
    <3>1. DropInitiator(i) /\ UNCHANGED <<res, drawn, tags, used>>
      BY <1>1, <2>1, <2>3 DEF CInitiatorNew, DropInitiator
    <3>. QED
      BY <2>1, <3>1, NewSessionFields, InitiatorDrops
  <2>. QED
    BY <2>2, <2>3
<1>2. ASSUME NEW rb \in Points, NEW sb \in Delivered, NEW arg \in Args,
             CConfirm(i, rb, sb, arg)
      PROVE  Keeps
  <2>1. CASE arg = "ok"
    <3>1. Next
      BY <1>2, <2>1 DEF CConfirm, Next, InitiatorStep
    <3>. QED
      BY <3>1, CoreStep
  <2>2. CASE arg # "ok"
    BY <1>2, <2>2, OwnedPhases, InitiatorDrops DEF CConfirm
  <2>. QED
    BY <2>1, <2>2
<1>3. ASSUME NEW rb \in Points, NEW arg \in Args, CDeriveUnconfirmed(i, rb, arg)
      PROVE  Keeps
  <2>1. CASE arg = "ok"
    <3>1. Next
      BY <1>3, <2>1 DEF CDeriveUnconfirmed, Next, InitiatorStep
    <3>. QED
      BY <3>1, CoreStep
  <2>2. CASE arg # "ok"
    BY <1>3, <2>2, OwnedPhases, InitiatorDrops DEF CDeriveUnconfirmed
  <2>. QED
    BY <2>1, <2>2
<1>4. CASE CInitiatorFree(i)
  BY <1>4, OwnedPhases, InitiatorDrops DEF CInitiatorFree
<1>. QED
  BY <1>1, <1>2, <1>3, <1>4 DEF CInitiatorStep

(* Every call on a responder handle keeps the promise. *)
LEMMA ResponderCallKeeps ==
    ASSUME HandleInv, Unboxed, CoreInv, NEW b \in Responders, CResponderStep(b)
    PROVE  Keeps
<1>. HIDE DEF CoreInv, Keeps
<1>1. ASSUME NEW p \in ResponderParams, NEW arg \in Args, CResponderNew(b, p, arg)
      PROVE  Keeps
  <2>1. res[b] = NewSession /\ res[b].phase = "none"
    BY <1>1, NewSessionFields DEF CResponderNew, Unboxed
  <2>2. CASE arg = "ok"
    <3>1. ResponderNew(b, p)
      BY <1>1, <2>1, <2>2 DEF CResponderNew, ResponderNew
    <3>. QED
      BY <3>1, CoreStep DEF Next, ResponderStep
  <2>3. CASE arg # "ok"
    <3>1. DropResponder(b) /\ UNCHANGED <<ini, drawn, tags, used>>
      BY <1>1, <2>1, <2>3 DEF CResponderNew, DropResponder
    <3>. QED
      BY <2>1, <3>1, ResponderDrops
  <2>. QED
    BY <2>2, <2>3
<1>2. ASSUME NEW ra \in Points, NEW r \in Draws, NEW arg \in Args, CRespond(b, ra, r, arg)
      PROVE  Keeps
  <2>1. CASE arg # "ok" \/ state[b] # "Fresh"
    <3>1. UNCHANGED vars
      BY <1>2, <2>1 DEF CRespond, vars
    <3>. QED
      BY <3>1, CoreStep
  <2>2. CASE arg = "ok" /\ state[b] = "Fresh"
    <3>1. Next
      BY <1>2, <2>2 DEF CRespond, Next, ResponderStep
    <3>. QED
      BY <3>1, CoreStep
  <2>. QED
    BY <2>1, <2>2
<1>3. ASSUME NEW sa \in Delivered, NEW arg \in Args, CFinish(b, sa, arg)
      PROVE  Keeps
  <2>1. CASE arg = "ok" /\ state[b] = "Waiting"
    <3>1. Next
      BY <1>3, <2>1 DEF CFinish, Next, ResponderStep
    <3>. QED
      BY <3>1, CoreStep
  <2>2. CASE ~(arg = "ok" /\ state[b] = "Waiting")
    BY <1>3, <2>2, OwnedPhases, ResponderDrops DEF CFinish
  <2>. QED
    BY <2>1, <2>2
<1>4. ASSUME NEW ra \in Points, NEW r \in Draws, NEW arg \in Args,
             CRespondUnconfirmed(b, ra, r, arg)
      PROVE  Keeps
  <2>1. CASE arg = "null_callback"
    <3>1. UNCHANGED vars
      BY <1>4, <2>1 DEF CRespondUnconfirmed, vars
    <3>. QED
      BY <3>1, CoreStep
  <2>2. CASE arg = "ok" /\ state[b] = "Fresh"
    <3>1. Next
      BY <1>4, <2>2 DEF CRespondUnconfirmed, Next, ResponderStep
    <3>. QED
      BY <3>1, CoreStep
  <2>3. CASE arg # "null_callback" /\ ~(arg = "ok" /\ state[b] = "Fresh")
    BY <1>4, <2>3, OwnedPhases, ResponderDrops DEF CRespondUnconfirmed
  <2>. QED
    BY <2>1, <2>2, <2>3
<1>5. CASE CResponderFree(b)
  BY <1>5, OwnedPhases, ResponderDrops DEF CResponderFree
<1>. QED
  BY <1>1, <1>2, <1>3, <1>4, <1>5 DEF CResponderStep

(* A handle leaves "none" with the call that fills it. *)
LEMMA UnboxedStep ==
    ASSUME HandleInv, Unboxed, [HNext]_hvars
    PROVE  Unboxed'
<1>1. ASSUME NEW i \in Initiators, CInitiatorStep(i)
      PROVE  Unboxed'
  <2>1. /\ ibox'[i] # "none" /\ UNCHANGED <<res, rbox>>
        /\ \A j \in Initiators \ {i} : ibox'[j] = ibox[j] /\ ini'[j] = ini[j]
    <3>. USE <1>1 DEF HandleInv, DropInitiator
    <3>1. CASE \E p \in InitiatorParams, r \in Draws, arg \in Args : CInitiatorNew(i, p, r, arg)
      BY <3>1 DEF CInitiatorNew
    <3>2. CASE \E rb \in Points, sb \in Delivered, arg \in Args : CConfirm(i, rb, sb, arg)
      BY <3>2 DEF CConfirm, Confirm
    <3>3. CASE \E rb \in Points, arg \in Args : CDeriveUnconfirmed(i, rb, arg)
      BY <3>3 DEF CDeriveUnconfirmed, DeriveUnconfirmed
    <3>4. CASE CInitiatorFree(i)
      BY <3>4 DEF CInitiatorFree
    <3>. QED
      BY <3>1, <3>2, <3>3, <3>4 DEF CInitiatorStep
  <2>. QED
    BY <2>1 DEF Unboxed
<1>2. ASSUME NEW b \in Responders, CResponderStep(b)
      PROVE  Unboxed'
  <2>1. /\ rbox'[b] # "none" /\ UNCHANGED <<ini, ibox>>
        /\ \A c \in Responders \ {b} : rbox'[c] = rbox[c] /\ res'[c] = res[c]
    <3>. USE <1>2, Owned DEF HandleInv, DropResponder
    <3>1. CASE \E p \in ResponderParams, arg \in Args : CResponderNew(b, p, arg)
      BY <3>1 DEF CResponderNew
    <3>2. CASE \E ra \in Points, r \in Draws, arg \in Args : CRespond(b, ra, r, arg)
      BY <3>2 DEF CRespond, Respond
    <3>3. CASE \E sa \in Delivered, arg \in Args : CFinish(b, sa, arg)
      BY <3>3 DEF CFinish, Finish
    <3>4. CASE \E ra \in Points, r \in Draws, arg \in Args : CRespondUnconfirmed(b, ra, r, arg)
      BY <3>4 DEF CRespondUnconfirmed, RespondUnconfirmed
    <3>5. CASE CResponderFree(b)
      BY <3>5 DEF CResponderFree
    <3>. QED
      BY <3>1, <3>2, <3>3, <3>4, <3>5 DEF CResponderStep
  <2>. QED
    BY <2>1 DEF Unboxed
<1>3. CASE UNCHANGED hvars
  BY <1>3 DEF hvars, Unboxed
<1>. QED
  BY <1>1, <1>2, <1>3 DEF HNext

(* And so does every call. *)
LEMMA CallKeeps ==
    ASSUME HandleInv, Unboxed, CoreInv, [HNext]_hvars
    PROVE  Keeps
<1>1. CASE UNCHANGED hvars
  <2>1. UNCHANGED vars
    BY <1>1 DEF hvars, vars
  <2>. QED
    BY <2>1, CoreStep
<1>. QED
  BY <1>1, InitiatorCallKeeps, ResponderCallKeeps DEF HNext

(* The handles start where the exchange does. *)
LEMMA HandlesInit == HInit => Unboxed /\ CoreInv /\ Promise!AInit
<1>1. HInit => Init
  BY DEF HInit
<1>2. HInit => Unboxed
  BY DEF HInit, Init, Unboxed
<1>. QED
  BY <1>1, <1>2, TypeInit, AuthInit, EphInit, PromiseInit DEF CoreInv

-----------------------------------------------------------------------------
(* The invariants of the typestates hold behind the C handles too.         *)
THEOREM HandleInvariants == HSpec => [](HandleInv /\ Unboxed /\ CoreInv)
<1>1. HandleInv /\ Unboxed /\ CoreInv /\ [HNext]_hvars
      => HandleInv' /\ Unboxed' /\ CoreInv'
  BY HandleStep, UnboxedStep, CallKeeps DEF Keeps
<1>. QED
  BY <1>1, HandleInit, HandlesInit, PTL DEF HSpec

(* A C caller that was given a confirmed key has a peer that derived it    *)
(* from the same transcript, and no call reuses an ephemeral.              *)
THEOREM HandlesAuthenticate ==
    HSpec => [](InitiatorAuthentication /\ ResponderAuthentication /\ EphemeralSingleUse)
<1>1. CoreInv => InitiatorAuthentication /\ ResponderAuthentication /\ EphemeralSingleUse
  BY DEF CoreInv, AuthInv, EphInv
<1>. QED
  BY <1>1, HandleInvariants, PTL

(* Whatever C callers call, in whatever order and with whatever arguments, *)
(* the exchange behind the handles keeps the promise of key confirmation.  *)
THEOREM HandlesKeepThePromise == HSpec => HandlesKeepPromise
<1>1. HandleInv /\ Unboxed /\ CoreInv /\ [HNext]_hvars
      => [Promise!ANext]_(Promise!avars)
  BY CallKeeps DEF Keeps
<1>2. HInit => Promise!AInit
  BY HandlesInit
<1>. QED
  BY <1>1, <1>2, HandleInvariants, PTL DEF HSpec, HandlesKeepPromise, AgreementPromise
=============================================================================
