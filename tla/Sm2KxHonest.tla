----------------------------- MODULE Sm2KxHonest -----------------------------
(***************************************************************************)
(* Pairs of callers whose own messages arrive unchanged, beside sessions   *)
(* to which the transport does anything.  The code promises nothing about  *)
(* time; what is fair is the caller and the transport of an honest pair.   *)
(***************************************************************************)
EXTENDS Sm2KeyExchange

CONSTANTS
    Honest,      \* pairs <<initiator, responder>> on a faithful transport
    HonestA,     \* the parameters the initiators of Honest pass
    HonestB      \* the parameters their responders pass

(* The two callers agree on parameters the constructors accept, and a draw *)
(* never runs out or degenerates (both are 2^-128 events).                 *)
ASSUME HonestAssumption ==
    /\ Honest \subseteq Initiators \X Responders
    /\ HonestA \in Params /\ HonestB \in Params
    /\ ValidParams(HonestA) /\ ValidParams(HonestB)
    /\ HonestA.own = HonestB.peer /\ HonestA.peer = HonestB.own
    /\ HonestA.ida = HonestB.ida /\ HonestA.idb = HonestB.idb
    /\ HonestA.klen = HonestB.klen
    /\ Degenerate = {}
    /\ Cardinality(Initiators) + Cardinality(Responders) <= Cardinality(Ephs)

HonestStep(i, b) ==
    \/ InitiatorNew(i, HonestA)
    \/ ResponderNew(b, HonestB)
    \/ \E r \in Draws \ {None} : ProduceEphemeral(i, r)
    \/ \E r \in Draws \ {None} : ini[i].phase = "waiting" /\ Respond(b, ini[i].eph, r)
    \/ res[b].phase = "waiting" /\ Confirm(i, res[b].eph, SB(res[b].body))
    \/ ini[i].phase = "confirmed" /\ Finish(b, SA(ini[i].body))

WildStep ==
    \/ \E i \in Initiators \ {p[1] : p \in Honest} : InitiatorStep(i)
    \/ \E b \in Responders \ {p[2] : p \in Honest} : ResponderStep(b)

HonestNext == WildStep \/ \E p \in Honest : HonestStep(p[1], p[2])

(* An honest pair's callers make their next call once they can. *)
HonestSpec ==
    /\ Init /\ [][HonestNext]_vars
    /\ \A p \in Honest : WF_vars(HonestStep(p[1], p[2]))

(* An honest pair completes with one key, whatever happens to the other    *)
(* sessions and to the copies of its tags they are fed.                    *)
HonestCompletes ==
    \A p \in Honest :
        <>[](/\ ini[p[1]].phase = "confirmed" /\ res[p[2]].phase = "finished"
             /\ ini[p[1]].key = res[p[2]].key)
=============================================================================
