----------------------------- MODULE MCBilling -----------------------------
(* The instance of Billing for TLC.  See README.md.                        *)
EXTENDS Billing, TLC

CONSTANTS w1, k1, s1, p1

\* Checkouts and webhook handlers share no state, so that interleaving their
\* steps adds nothing: two sessions are opened, for different plans, before the
\* first is paid, and both are paid before the first event.  They are paid only
\* when no fault and no orphan customer came of opening them.
NonePaid == \A s \in Subscriptions : stripe[s] = NoStripe

Opened ==
    /\ \A c \in Checkouts : pc[c] = "idle"
    /\ faults = 0
    /\ \E x, y \in sessions : x # y
    /\ \A k \in Customers :
          created[k] # NULL => billingCustomer[created[k]] = k

Opening ==
    /\ pc' # pc => NonePaid
    /\ sessions = {} => \A c \in Checkouts : ws'[c] \in {w1, NULL}
    /\ sessions' # sessions =>
           /\ \A x \in sessions' \ sessions : x.plan = p1 <=> sessions = {}
           /\ \A x, y \in sessions' : x # y => x.plan # y.plan
    /\ created' # created /\ created[k1] = NULL => created'[k1] # NULL

Paying ==
    /\ stripe' # stripe /\ NonePaid => Opened
    /\ stripe'[s1] # NoStripe => stripe'[s1].plan = p1
    /\ \A s \in Subscriptions \ {s1} :
          stripe'[s] # NoStripe => stripe[s1] # NoStripe /\ stripe'[s].plan # p1
    /\ sent' # sent => \A s \in Subscriptions : stripe[s] # NoStripe

\* A subscription changes its status or its flag, not both.  What an event
\* says matters to CaughtUp only, and hence to orderly behaviours.
Changing ==
    \A s \in Subscriptions :
        stripe[s] # NoStripe =>
            /\ stripe'[s].cancel # stripe[s].cancel =>
                   orderly /\ stripe'[s].now = stripe[s].now
            /\ ~orderly => /\ stripe'[s].now \in {"ACTIVE", "PAUSED"}
                           /\ stripe'[s].invoice \in {NULL, "PAID"}

Focus == Opening /\ Paying /\ Changing

MCSymmetry == Permutations(Handlers) \cup Permutations(Checkouts)

MCSpec == Init /\ [][Next /\ Focus]_vars
=============================================================================
