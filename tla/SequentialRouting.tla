------------------------- MODULE SequentialRouting -------------------------
(***************************************************************************)
(* What routing promises of one call: the buyers of the campaign are tried *)
(* one at a time, none of them twice, each time the one with the best link *)
(* among those not tried, until one answers, none is left, or the call is  *)
(* canceled; and how a call ended is final.  Links may be added meanwhile. *)
(* Rows, locks, handlers, legs, events and restarts are left to            *)
(* CallRouting, which implements this.                                     *)
(***************************************************************************)
EXTENDS Integers

CONSTANTS
    Buyers,
    Priorities,     \* values of CampaignBuyer.priority
    InitialRoster   \* links of the campaign when the call arrives

VARIABLES
    links,     \* who is linked to the campaign, and with which priority
    state,     \* "new", "ROUTING", or how the call ended
    tried,     \* buyers that were called
    trying,    \* the buyer who is being called while the call is ROUTING
    winner     \* the buyer recorded as the one who answered

vars == <<links, state, tried, trying, winner>>

Init ==
    /\ links = InitialRoster
    /\ state = "new" /\ tried = {} /\ trying = {} /\ winner = {}

\* The links of buyers who were not called yet.
Waiting == {k \in links : k.buyer \notin tried}

\* An administrator links a buyer, perhaps one who is linked already.
AddLink(k) ==
    /\ links' = links \cup {k}
    /\ UNCHANGED <<state, tried, trying, winner>>

Begin ==
    /\ state = "new" /\ state' = "ROUTING"
    /\ UNCHANGED <<links, tried, trying, winner>>

\* The next buyer is called only when nobody else is, and nobody with a better
\* link is passed over.
Try(b) ==
    /\ state = "ROUTING" /\ trying = {}
    /\ \E k \in Waiting :
        k.buyer = b /\ \A m \in Waiting : k.priority <= m.priority
    /\ tried' = tried \cup {b} /\ trying' = {b}
    /\ UNCHANGED <<links, state, winner>>

\* The buyer did not answer, declined, or could not be dialled.
Miss ==
    /\ trying # {} /\ trying' = {}
    /\ UNCHANGED <<links, state, tried, winner>>

\* An answer that comes late wins too: of any buyer who was tried.
Answer(b) ==
    /\ state = "ROUTING" /\ b \in tried
    /\ state' = "COMPLETED" /\ winner' = {b} /\ trying' = {}
    /\ UNCHANGED <<links, tried>>

\* Every buyer who is linked was tried.
GiveUp ==
    /\ state = "ROUTING" /\ trying = {}
    /\ Waiting = {}
    /\ state' = "NO_ANSWER"
    /\ UNCHANGED <<links, tried, trying, winner>>

\* A call fails only when nobody could be tried.
Fail ==
    /\ state \in {"new", "ROUTING"} /\ tried = {}
    /\ state' = "FAILED"
    /\ UNCHANGED <<links, tried, trying, winner>>

Cancel ==
    /\ state \in {"new", "ROUTING"}
    /\ state' = "CANCELED" /\ trying' = {}
    /\ UNCHANGED <<links, tried, winner>>

\* A handler that was still dialling the winner gives its attempt up.
Forget ==
    /\ winner # {} /\ winner' = {}
    /\ UNCHANGED <<links, state, tried, trying>>

Next ==
    \/ Begin
    \/ \E b \in Buyers : Try(b) \/ Answer(b)
    \/ \E k \in [buyer : Buyers, priority : Priorities] : AddLink(k)
    \/ Miss \/ GiveUp \/ Fail \/ Cancel \/ Forget

Spec == Init /\ [][Next]_vars
=============================================================================
