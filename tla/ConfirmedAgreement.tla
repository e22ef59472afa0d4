------------------------- MODULE ConfirmedAgreement -------------------------
(***************************************************************************)
(* What key confirmation promises two callers whatever the transport does. *)
(* A responder offers a transcript that ends in an ephemeral of its own;   *)
(* an initiator accepts only what was offered to its own ephemeral; the    *)
(* responder closes only what was accepted.  Each ephemeral serves one     *)
(* transcript, so the pairing is one to one.  A transcript is any record   *)
(* with the two ephemerals in its fields ra and rb.                        *)
(***************************************************************************)
VARIABLES offered, accepted, closed

avars == <<offered, accepted, closed>>

AInit == offered = {} /\ accepted = {} /\ closed = {}

Offer(t) ==
    /\ \A o \in offered : o.rb # t.rb
    /\ offered' = offered \cup {t}
    /\ UNCHANGED <<accepted, closed>>

Accept(t) ==
    /\ t \in offered
    /\ \A a \in accepted : a.ra # t.ra /\ a.rb # t.rb
    /\ accepted' = accepted \cup {t}
    /\ UNCHANGED <<offered, closed>>

Close(t) ==
    /\ t \in accepted \ closed
    /\ closed' = closed \cup {t}
    /\ UNCHANGED <<offered, accepted>>

ANext == \/ \E t \in offered' : Offer(t)
         \/ \E t \in offered : Accept(t)
         \/ \E t \in accepted : Close(t)

ASpec == AInit /\ [][ANext]_avars
=============================================================================
