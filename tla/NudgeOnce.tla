----------------------------- MODULE NudgeOnce -----------------------------
(***************************************************************************)
(* What app/execution promises for every business attempt (idem_key): the  *)
(* first request body to claim the key is the only one that may ever reach *)
(* the customer, it does so at most once, and the ledger calls a link sent *)
(* only once it exists.                                                    *)
(***************************************************************************)
CONSTANTS Keys, Payloads, Unclaimed, Unsent

VARIABLES
    claim,      \* key -> the payload that owns the key
    nudge,      \* key -> the payload of the link the customer received
    confirmed   \* keys whose link reference is on the ledger

vars == <<claim, nudge, confirmed>>

Init ==
    /\ claim = [k \in Keys |-> Unclaimed]
    /\ nudge = [k \in Keys |-> Unsent]
    /\ confirmed = {}

Claim(k, p) ==
    /\ claim[k] = Unclaimed
    /\ claim' = [claim EXCEPT ![k] = p]
    /\ UNCHANGED <<nudge, confirmed>>

Nudge(k) ==
    /\ claim[k] # Unclaimed /\ nudge[k] = Unsent
    /\ nudge' = [nudge EXCEPT ![k] = claim[k]]
    /\ UNCHANGED <<claim, confirmed>>

Confirm(k) ==
    /\ nudge[k] # Unsent /\ k \notin confirmed
    /\ confirmed' = confirmed \cup {k}
    /\ UNCHANGED <<claim, nudge>>

Next == \E k \in Keys :
    \/ \E p \in Payloads : Claim(k, p)
    \/ Nudge(k)
    \/ Confirm(k)

Spec == Init /\ [][Next]_vars
============================================================================
