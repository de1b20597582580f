------------------------- MODULE TwilioConference -------------------------
(***************************************************************************)
(* Where TwilioProvider puts the legs of one call: the conference each leg *)
(* is created into, along the path of connectionId through                 *)
(* TwilioWebhookController, CallController and TwilioProvider.  The races  *)
(* of the handlers and the statements of CallsService are CallRouting's;   *)
(* here a handler is one step.                                             *)
(***************************************************************************)
EXTENDS Naturals

CONSTANT NBuyers    \* buyers of the campaign, tried in the order 1, 2, ...

Buyers == 1..NBuyers
Caller == 0
Legs == {Caller} \cup Buyers
\* connectionId when the event has none; the conference is then "bridge_".
NoConnection == NBuyers + 1

VARIABLES
    call,       \* calls.state
    tried,      \* the buyers an attempt was made with
    synthetic,  \* setImmediate: CALL_ANSWERED of the caller is to come
    leg,        \* the legs at Twilio
    room        \* the leg that gave the conference its name, once in one

vars == <<call, tried, synthetic, leg, room>>

Init ==
    /\ call = "none" /\ tried = 0 /\ synthetic = FALSE
    /\ leg = [l \in Legs |-> "none"]
    /\ room = [l \in Legs |-> NoConnection]

\* TwilioProvider.dialBuyer: the conference is bridge_${connectionId}.
dialBuyer(b, connectionId, legs) ==
    /\ leg' = [legs EXCEPT ![b] = "ringing"]
    /\ room' = [room EXCEPT ![b] = connectionId]

\* CallController.dialNextBuyer, with the connectionId of its event: some
\* buyers may fail to be dialled, the last of all may, too.
dialNextBuyer(connectionId, legs) ==
    \/ \E b \in tried + 1..NBuyers :
          /\ dialBuyer(b, connectionId, legs)
          /\ call' = "ROUTING" /\ tried' = b
    \/ /\ call' = "NO_ANSWER" /\ tried' = NBuyers
       /\ leg' = [legs EXCEPT ![Caller] = "ended"]
       /\ UNCHANGED room

\* The voice request: createCall, answerCall, and the TwiML of the response.
ringing ==
    /\ call = "none"
    /\ call' = "INITIATED" /\ synthetic' = TRUE
    /\ leg' = [leg EXCEPT ![Caller] = "live"]
    /\ room' = [room EXCEPT ![Caller] = Caller]
    /\ UNCHANGED tried

\* answerCall's event has no connectionId.
callerAnswered ==
    /\ synthetic /\ synthetic' = FALSE
    /\ IF call = "INITIATED" THEN dialNextBuyer(NoConnection, leg)
       ELSE UNCHANGED <<call, tried, leg, room>>

\* in-progress: markCallAnswered makes the call COMPLETED; bridgeCalls does
\* nothing.
buyerAnswered(b) ==
    /\ leg[b] = "ringing"
    /\ leg' = [leg EXCEPT ![b] = IF call = "ROUTING" THEN "live" ELSE "ended"]
    /\ call' = IF call = "ROUTING" THEN "COMPLETED" ELSE call
    /\ UNCHANGED <<tried, synthetic, room>>

\* no-answer, busy or failed: normalizeTwilioEvent gives the buyer's CallSid
\* as connectionId.
buyerFailed(b) ==
    /\ leg[b] = "ringing"
    /\ LET others == [leg EXCEPT ![b] = "ended"] IN
       IF call = "ROUTING" /\ tried = b
       THEN dialNextBuyer(b, others)
       ELSE leg' = others /\ UNCHANGED <<call, tried, room>>
    /\ UNCHANGED synthetic

\* completed, of the caller: the row that handleCallerHangup returns has no
\* attempts, and no buyer is hung up.  A buyer who shares the caller's conference
\* leaves with it (endConferenceOnExit), a buyer who rings goes on ringing.
callerHangup ==
    /\ leg[Caller] = "live"
    /\ call' = IF call \in {"INITIATED", "ROUTING"} THEN "CANCELED" ELSE call
    /\ leg' = [l \in Legs |-> IF leg[l] = "live" /\ room[l] = room[Caller]
                             THEN "ended" ELSE leg[l]]
    /\ UNCHANGED <<tried, synthetic, room>>

\* completed, of the buyer who answered: HANGUP_CALLER, once the call is COMPLETED.
buyerHangup(b) ==
    /\ leg[b] = "live"
    /\ leg' = [leg EXCEPT ![b] = "ended",
                          ![Caller] = IF call = "COMPLETED" THEN "ended" ELSE @]
    /\ UNCHANGED <<call, tried, synthetic, room>>

Next ==
    \/ ringing \/ callerAnswered
    \/ callerHangup
    \/ \E b \in Buyers : buyerAnswered(b) \/ buyerFailed(b) \/ buyerHangup(b)

Spec == Init /\ [][Next]_vars

\* The buyer who answered and the caller share a conference
\* (TwilioProvider.bridgeCalls: both legs "were both created with TwiML that
\* places them into bridge_${callId}").
NativelyBridged ==
    \A b \in Buyers :
        (call = "COMPLETED" /\ leg[b] = "live") => room[b] = room[Caller]
=============================================================================
