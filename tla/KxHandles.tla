------------------------------ MODULE KxHandles ------------------------------
(***************************************************************************)
(* The C handles of gmcrypto-c around the key-exchange typestates: what    *)
(* each call does to the typestate and to the allocation, bad arguments    *)
(* and calls out of order included.  A caller follows the headers: it      *)
(* passes a handle only while the headers say it owns one.                 *)
(***************************************************************************)
EXTENDS Sm2KeyExchange

VARIABLES
    ibox,   \* allocation of each initiator handle: "none", "live", "freed"
    rbox,   \* allocation of each responder handle
    state,  \* InnerKxResponderState of each responder handle
    iowns,  \* initiators whose caller, by the headers, holds a handle
    rowns   \* responders whose caller, by the headers, holds a handle

hvars == <<ini, res, drawn, tags, used, ibox, rbox, state, iowns, rowns>>

(* What may be wrong with a call's pointers: nothing, a NULL buffer, or a  *)
(* NULL rng_callback.                                                      *)
Args == {"ok", "null_buffer", "null_callback"}

HInit ==
    /\ Init
    /\ ibox = [i \in Initiators |-> "none"]
    /\ rbox = [b \in Responders |-> "none"]
    /\ state = [b \in Responders |-> "Spent"]
    /\ iowns = {} /\ rowns = {}

DropInitiator(i) == ini' = [ini EXCEPT ![i] = Failed(ini[i])]
DropResponder(b) == res' = [res EXCEPT ![b] = Failed(res[b])]

(* initiator_new: new and produce_ephemeral in one call, so that a C       *)
(* handle is born waiting.  NULL pointers are refused before the draw.     *)
CInitiatorNew(i, p, r, arg) ==
    LET ok == arg = "ok" /\ ValidParams(p) /\ r # None
    IN  /\ ibox[i] = "none"
        /\ ini' = [ini EXCEPT ![i] =
             IF ok THEN Session("waiting", p, r, None, None) ELSE Failed(NewSession)]
        /\ drawn' = IF arg = "ok" /\ ValidParams(p) THEN drawn \cup ({r} \ {None})
                                                     ELSE drawn
        /\ ibox' = [ibox EXCEPT ![i] = IF ok THEN "live" ELSE "freed"]
        /\ iowns' = IF ok THEN iowns \cup {i} ELSE iowns
        /\ UNCHANGED <<res, tags, used, rbox, state, rowns>>

(* initiator_confirm: the box is reclaimed before any argument is read. *)
CConfirm(i, rb, sb, arg) ==
    /\ i \in iowns /\ arg # "null_callback"
    /\ IF arg = "ok" THEN Confirm(i, rb, sb)
                     ELSE DropInitiator(i) /\ UNCHANGED <<res, drawn, tags, used>>
    /\ ibox' = [ibox EXCEPT ![i] = "freed"]
    /\ iowns' = iowns \ {i}
    /\ UNCHANGED <<rbox, state, rowns>>

CDeriveUnconfirmed(i, rb, arg) ==
    /\ i \in iowns /\ arg # "null_callback"
    /\ IF arg = "ok" THEN DeriveUnconfirmed(i, rb)
                     ELSE DropInitiator(i) /\ UNCHANGED <<res, drawn, tags, used>>
    /\ ibox' = [ibox EXCEPT ![i] = "freed"]
    /\ iowns' = iowns \ {i}
    /\ UNCHANGED <<rbox, state, rowns>>

CInitiatorFree(i) ==
    /\ i \in iowns
    /\ DropInitiator(i)
    /\ ibox' = [ibox EXCEPT ![i] = "freed"]
    /\ iowns' = iowns \ {i}
    /\ UNCHANGED <<res, drawn, tags, used, rbox, state, rowns>>

CResponderNew(b, p, arg) ==
    LET ok == arg = "ok" /\ ValidParams(p)
    IN  /\ rbox[b] = "none"
        /\ res' = [res EXCEPT ![b] =
             IF ok THEN Session("fresh", p, None, None, None) ELSE Failed(NewSession)]
        /\ rbox' = [rbox EXCEPT ![b] = IF ok THEN "live" ELSE "freed"]
        /\ state' = [state EXCEPT ![b] = IF ok THEN "Fresh" ELSE "Spent"]
        /\ rowns' = IF ok THEN rowns \cup {b} ELSE rowns
        /\ UNCHANGED <<ini, drawn, tags, used, ibox, iowns>>

(* Mutant: take-and-replace before the state is looked at. *)
TakingRespond(b, ra, r, arg) ==
    /\ b \in rowns
    /\ IF arg # "ok" THEN UNCHANGED <<ini, res, drawn, tags, used, state>>
       ELSE IF state[b] # "Fresh"
       THEN /\ state' = [state EXCEPT ![b] = "Spent"]
            /\ DropResponder(b)
            /\ UNCHANGED <<ini, drawn, tags, used>>
       ELSE /\ Respond(b, ra, r)
            /\ state' = [state EXCEPT ![b] =
                 IF res'[b].phase = "waiting" THEN "Waiting" ELSE "Spent"]
    /\ UNCHANGED <<ibox, rbox, iowns, rowns>>

(* Mutant: a failed respond puts Fresh back. *)
RestoringRespond(b, ra, r, arg) ==
    /\ b \in rowns
    /\ IF arg # "ok" \/ state[b] # "Fresh"
       THEN UNCHANGED <<ini, res, drawn, tags, used, state>>
       ELSE /\ Respond(b, ra, r)
            /\ state' = [state EXCEPT ![b] =
                 IF res'[b].phase = "waiting" THEN "Waiting" ELSE "Fresh"]
    /\ UNCHANGED <<ibox, rbox, iowns, rowns>>

(* responder_respond and its _with_rng form (kx_respond): pointers first,  *)
(* then a handle that is not Fresh is refused untouched, and only then is  *)
(* the state taken, with Spent in its place until respond succeeds.        *)
CRespond(b, ra, r, arg) ==
    /\ b \in rowns
    /\ IF arg # "ok" \/ state[b] # "Fresh"
       THEN UNCHANGED <<ini, res, drawn, tags, used, state>>
       ELSE /\ Respond(b, ra, r)
            /\ state' = [state EXCEPT ![b] =
                 IF res'[b].phase = "waiting" THEN "Waiting" ELSE "Spent"]
    /\ UNCHANGED <<ibox, rbox, iowns, rowns>>

(* responder_finish: reclaimed first; only a Waiting state can finish. *)
CFinish(b, sa, arg) ==
    /\ b \in rowns /\ arg # "null_callback"
    /\ IF arg = "ok" /\ state[b] = "Waiting"
       THEN Finish(b, sa)
       ELSE DropResponder(b) /\ UNCHANGED <<ini, drawn, tags, used>>
    /\ rbox' = [rbox EXCEPT ![b] = "freed"]
    /\ state' = [state EXCEPT ![b] = "Spent"]
    /\ rowns' = rowns \ {b}
    /\ UNCHANGED <<ibox, iowns>>

(* Mutant: the handle is reclaimed before the callback is looked at. *)
EagerRespondUnconfirmed(b, ra, r, arg) ==
    /\ b \in rowns
    /\ IF arg = "ok" /\ state[b] = "Fresh" THEN RespondUnconfirmed(b, ra, r)
       ELSE DropResponder(b) /\ UNCHANGED <<ini, drawn, tags, used>>
    /\ rbox' = [rbox EXCEPT ![b] = "freed"]
    /\ state' = [state EXCEPT ![b] = "Spent"]
    /\ rowns' = IF arg = "null_callback" THEN rowns ELSE rowns \ {b}
    /\ UNCHANGED <<ibox, iowns>>

(* responder_respond_unconfirmed and _with_rng (kx_respond_unconfirmed): a *)
(* NULL callback leaves the handle with the caller, as the header says;    *)
(* after that it is reclaimed whatever follows, and only Fresh succeeds.   *)
CRespondUnconfirmed(b, ra, r, arg) ==
    /\ b \in rowns
    /\ IF arg = "null_callback" THEN UNCHANGED <<ini, res, drawn, tags, used>>
       ELSE IF arg = "ok" /\ state[b] = "Fresh" THEN RespondUnconfirmed(b, ra, r)
       ELSE DropResponder(b) /\ UNCHANGED <<ini, drawn, tags, used>>
    /\ IF arg = "null_callback" THEN UNCHANGED <<rbox, state, rowns>>
       ELSE /\ rbox' = [rbox EXCEPT ![b] = "freed"]
            /\ state' = [state EXCEPT ![b] = "Spent"]
            /\ rowns' = rowns \ {b}
    /\ UNCHANGED <<ibox, iowns>>

CResponderFree(b) ==
    /\ b \in rowns
    /\ DropResponder(b)
    /\ rbox' = [rbox EXCEPT ![b] = "freed"]
    /\ state' = [state EXCEPT ![b] = "Spent"]
    /\ rowns' = rowns \ {b}
    /\ UNCHANGED <<ini, drawn, tags, used, ibox, iowns>>

-----------------------------------------------------------------------------
CInitiatorStep(i) ==
    \/ \E p \in InitiatorParams, r \in Draws, arg \in Args : CInitiatorNew(i, p, r, arg)
    \/ \E rb \in Points, sb \in Delivered, arg \in Args : CConfirm(i, rb, sb, arg)
    \/ \E rb \in Points, arg \in Args : CDeriveUnconfirmed(i, rb, arg)
    \/ CInitiatorFree(i)

CResponderStep(b) ==
    \/ \E p \in ResponderParams, arg \in Args : CResponderNew(b, p, arg)
    \/ \E ra \in Points, r \in Draws, arg \in Args : CRespond(b, ra, r, arg)
    \/ \E sa \in Delivered, arg \in Args : CFinish(b, sa, arg)
    \/ \E ra \in Points, r \in Draws, arg \in Args : CRespondUnconfirmed(b, ra, r, arg)
    \/ CResponderFree(b)

HNext == \/ \E i \in Initiators : CInitiatorStep(i)
         \/ \E b \in Responders : CResponderStep(b)

HSpec == HInit /\ [][HNext]_hvars

-----------------------------------------------------------------------------
(* A caller that follows the headers neither frees a handle twice, nor     *)
(* uses a freed one, nor leaks one: what it believes to own is allocated,  *)
(* and nothing else is, on every error path.                               *)
OwnershipAgrees ==
    /\ iowns = {i \in Initiators : ibox[i] = "live"}
    /\ rowns = {b \in Responders : rbox[b] = "live"}

(* The handle's enum and the typestate it boxes agree while it lives, and  *)
(* no typestate survives its handle unless it finished.                    *)
StateMatches ==
    /\ \A b \in Responders : rbox[b] = "live" =>
         /\ state[b] = "Fresh"   <=> res[b].phase = "fresh"
         /\ state[b] = "Waiting" <=> res[b].phase = "waiting"
         /\ state[b] = "Spent"   <=> res[b].phase = "failed"
    /\ \A b \in Responders : rbox[b] = "freed" =>
         res[b].phase \in {"finished", "unconfirmed", "failed"}
    /\ \A i \in Initiators : ibox[i] = "live" <=> ini[i].phase = "waiting"

(* "A second _respond on a Waiting handle returns GMCRYPTO_ERR without     *)
(* touching the in-flight state": until the handle is freed, nothing moves *)
(* a waiting responder.                                                    *)
InFlightUndisturbed ==
    [][\A b \in Responders :
         state[b] = "Waiting" /\ rbox'[b] = "live" =>
             res'[b] = res[b] /\ state'[b] = "Waiting"]_hvars

(* The C calls, out of order and with bad arguments, still keep the        *)
(* promise of key confirmation.                                            *)
HandlesKeepPromise == AgreementPromise
=============================================================================
