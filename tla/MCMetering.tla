----------------------------- MODULE MCMetering -----------------------------
(* The instance of Metering for TLC.  See README.md.                       *)
EXTENDS Metering, TLC

CONSTANTS w1, w2, k1

MCCampaignOwner == k1 :> w1

\* Bounds: no provision request and no assignment once a call arrived, so that
\* the state space is a sum and not a product; one late handler at a time.
Focus ==
    /\ (\E c \in Calls : call'[c].state # "absent") =>
           \A n \in Numbers : phone'[n].campaign = NULL
    /\ (\E c \in Calls : call'[c].state # "absent") =>
           pc' = [r \in Requests |-> "idle"]
    /\ Cardinality({h \in Handlers : step'[h] = "late"}) <= 1

MCSymmetry == Permutations(Requests) \cup Permutations(Handlers)

MCSpec == Init /\ [][Next /\ Focus]_vars
=============================================================================
