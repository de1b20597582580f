--------------------------- MODULE TelephonyPoc ---------------------------
(***************************************************************************)
(* The proof of concept under src/src: one call, buyer A and then buyer B, *)
(* with its state in memory and one of two providers behind the same       *)
(* interface.                                                              *)
(*                                                                         *)
(* handleEvent runs to its next await in one step.  What a provider is     *)
(* asked for and what it answers are steps of their own, and its webhooks  *)
(* come late, out of order and more than once.                             *)
(***************************************************************************)
EXTENDS Naturals, FiniteSets

Caller == "caller"
Buyers == {"A", "B"}
Legs == {Caller} \cup Buyers
NULL == "null"

\* The Telnyx application every leg belongs to.
Connection == "connection"

\* An event is a leg and a CallStatus: index.js makes its id of the two, so that
\* queued and ringing are two events of one type, and two final statuses also.
\* Telnyx sends one event of a type (ringing and completed stand for them), and
\* the event that Twilio's answerCall makes has an id of its own.
Initiated == {Caller} \X {"queued", "ringing"}
Answered(l) == <<l, "in-progress">>
HungUp(l) == {l} \X {"completed", "canceled"}
Events == Initiated \cup UNION {{Answered(l)} \cup HungUp(l) : l \in Legs}

Asks == {"answer", "dial", "bridge", "hangup"} \X Legs

States == {"RECEIVED", "ANSWERING", "RINGING_A", "CONNECTED_A", "RINGING_B",
           "CONNECTED_B", "COMPLETED"}
Ringing(b) == IF b = "A" THEN "RINGING_A" ELSE "RINGING_B"
Connected(b) == IF b = "A" THEN "CONNECTED_A" ELSE "CONNECTED_B"

VARIABLES
    provider,     \* config.telephonyProvider
    processed,    \* processedEvents
    state,        \* of the call in activeCalls, NULL before there is one
    connectionId, \* ... and its connectionId
    buyerCallId,  \* buyerACallId and buyerBCallId
    target,       \* the connectionId that dialBuyer was called with
    asked,        \* calls of the provider that were not placed yet
    placed,       \* calls of the provider whose answer is awaited
    leg,          \* the legs at the provider
    room,         \* the conference a leg is or was put in
    bridged,      \* buyers joined to the caller by bridgeCalls
    sent,         \* the webhooks sent so far
    dials,        \* history: how often dialBuyer was called
    won,          \* history: buyers that were CONNECTED
    left          \* history: the caller's hangup was handled while a buyer rang
                  \* or was connected

memory == <<state, connectionId, buyerCallId>>
commands == <<asked, placed, target>>
network == <<leg, room, bridged, sent>>
history == <<dials, won, left>>
vars == <<provider, processed, memory, commands, network, history>>

TypeOK ==
    /\ provider \in {"telnyx", "twilio"}
    /\ processed \subseteq sent
    /\ state \in States \cup {NULL}
    /\ connectionId \in Legs \cup {Connection, NULL}
    /\ target \in [Buyers -> Legs \cup {Connection, NULL}]
    /\ buyerCallId \in [Buyers -> Buyers \cup {NULL}]
    /\ \A b \in Buyers : buyerCallId[b] # NULL => leg[b] # "none"
    /\ asked \subseteq Asks /\ placed \subseteq Asks
    /\ leg \in [Legs -> {"none", "ringing", "live", "ended"}]
    /\ room \in [Legs -> Legs \cup {Connection, NULL}]
    /\ bridged \subseteq Buyers
    /\ sent \subseteq Events
    /\ dials \in [Buyers -> 0..2]
    /\ won \subseteq Buyers
    /\ left \in BOOLEAN

Init ==
    /\ provider \in {"telnyx", "twilio"}
    /\ processed = {} /\ state = NULL /\ connectionId = NULL
    /\ buyerCallId = [b \in Buyers |-> NULL]
    /\ asked = {} /\ placed = {}
    /\ target = [b \in Buyers |-> NULL]
    /\ leg = [l \in Legs |-> "none"]
    /\ room = [l \in Legs |-> NULL]
    /\ bridged = {} /\ sent = {}
    /\ dials = [b \in Buyers |-> 0]
    /\ won = {} /\ left = FALSE

-----------------------------------------------------------------------------
(* handleEvent, up to its first await.                                     *)

Ask(what, l) == asked' = asked \cup {<<what, l>>}

\* provider.dialBuyer is called for b.
Dial(b, connection) ==
    /\ Ask("dial", b)
    /\ target' = [target EXCEPT ![b] = connection]
    /\ dials' = [dials EXCEPT ![b] = IF @ = 2 THEN 2 ELSE @ + 1]

\* normalizeEvent of the two adapters: Twilio has no connection, and the
\* event's CallSid stands for it; the event that answerCall makes has none.
ConnectionId(e) ==
    CASE provider = "telnyx" -> Connection
      [] e = Answered(Caller) -> NULL
      [] OTHER -> e[1]

\* Twilio is answered by the TwiML of the response, which names the conference
\* after the CallSid of the request: the continuation runs before the event
\* that setImmediate makes.  The call may be known already.
incoming(e) ==
    /\ connectionId' = IF state = NULL THEN ConnectionId(e) ELSE connectionId
    /\ IF provider = "twilio"
       THEN /\ state' = "ANSWERING"
            /\ sent' = sent \cup {Answered(Caller)}
            /\ room' = [room EXCEPT ![Caller] = e[1]]
            /\ leg' = IF leg[Caller] = "ringing" THEN [leg EXCEPT ![Caller] = "live"]
                      ELSE leg
            /\ UNCHANGED asked
       ELSE /\ state' = IF state = NULL THEN "RECEIVED" ELSE state
            /\ Ask("answer", Caller)
            /\ UNCHANGED <<sent, room, leg>>
    /\ UNCHANGED <<buyerCallId, placed, target, bridged, history>>

\* Mutant: A is dialled with the connectionId of the event.
callerAnswered_OfEvent(e) ==
    /\ state = "ANSWERING"
    /\ state' = "RINGING_A"
    /\ Dial("A", ConnectionId(e))
    /\ UNCHANGED <<connectionId, buyerCallId, placed, network, won, left>>

callerAnswered(e) ==
    /\ state = "ANSWERING"
    /\ state' = "RINGING_A"
    /\ Dial("A", connectionId)
    /\ UNCHANGED <<connectionId, buyerCallId, placed, network, won, left>>

buyerAnswered(b) ==
    /\ buyerCallId[b] = b /\ state = Ringing(b)
    /\ state' = Connected(b)
    /\ won' = won \cup {b}
    /\ Ask("bridge", b)
    /\ UNCHANGED <<connectionId, buyerCallId, placed, target, network, dials, left>>

\* Mutant: the call is not completed.
callerHangup_GoesOn ==
    /\ state # NULL
    /\ left' = (left \/ state \notin {"RECEIVED", "ANSWERING", "COMPLETED"})
    /\ asked' = asked \cup {<<"hangup", b>> : b \in {c \in Buyers :
                    state \in {Ringing(c), Connected(c)} /\ buyerCallId[c] # NULL}}
    /\ UNCHANGED <<memory, placed, target, network, dials, won>>

callerHangup ==
    /\ state # NULL
    /\ state' = "COMPLETED"
    /\ left' = (left \/ state \notin {"RECEIVED", "ANSWERING", "COMPLETED"})
    /\ asked' = asked \cup {<<"hangup", b>> : b \in {c \in Buyers :
                    state \in {Ringing(c), Connected(c)} /\ buyerCallId[c] # NULL}}
    /\ UNCHANGED <<connectionId, buyerCallId, placed, target, network, dials, won>>

\* Mutant: the state of the call is not looked at.
buyerFailed_AnyState(b) ==
    /\ buyerCallId[b] = b
    /\ IF b = "A"
       THEN state' = "RINGING_B" /\ Dial("B", connectionId)
       ELSE /\ state' = "COMPLETED" /\ Ask("hangup", Caller)
            /\ UNCHANGED <<target, dials>>
    /\ UNCHANGED <<connectionId, buyerCallId, placed, network, won, left>>

\* A did not answer: B is next.  B did not: the caller is hung up.
buyerFailed(b) ==
    /\ buyerCallId[b] = b /\ state = Ringing(b)
    /\ IF b = "A"
       THEN state' = "RINGING_B" /\ Dial("B", connectionId)
       ELSE /\ state' = "COMPLETED" /\ Ask("hangup", Caller)
            /\ UNCHANGED <<target, dials>>
    /\ UNCHANGED <<connectionId, buyerCallId, placed, network, won, left>>

buyerLeft(b) ==
    /\ buyerCallId[b] = b /\ state = Connected(b)
    /\ state' = "COMPLETED"
    /\ Ask("hangup", Caller)
    /\ UNCHANGED <<connectionId, buyerCallId, placed, target, network, history>>

Branch(e) ==
    \/ e \in Initiated /\ incoming(e)
    \/ e = Answered(Caller) /\ callerAnswered(e)
    \/ e \in HungUp(Caller) /\ callerHangup
    \/ \E b \in Buyers :
          \/ e = Answered(b) /\ buyerAnswered(b)
          \/ e \in HungUp(b) /\ (buyerFailed(b) \/ buyerLeft(b))

\* A branch takes the event.
Concerns(e) ==
    \/ e \in Initiated
    \/ e = Answered(Caller) /\ state = "ANSWERING"
    \/ e \in HungUp(Caller) /\ state # NULL
    \/ \E b \in Buyers :
          /\ buyerCallId[b] = b
          /\ \/ e = Answered(b) /\ state = Ringing(b)
             \/ e \in HungUp(b) /\ state \in {Ringing(b), Connected(b)}

\* Mutant: the event is not remembered.
Mark_Not(e) == UNCHANGED processed

Mark(e) == processed' = processed \cup {e}

\* An event that no branch takes is dropped, and never handled again.
processWebhook(e) ==
    /\ e \in sent \ processed
    /\ Mark(e)
    /\ \/ Branch(e)
       \/ ~Concerns(e) /\ UNCHANGED <<memory, commands, network, history>>
    /\ UNCHANGED provider

-----------------------------------------------------------------------------
(* The adapters, and the continuations of the handlers.                    *)

Placed(ask) ==
    /\ ask \in asked
    /\ asked' = asked \ {ask} /\ placed' = placed \cup {ask}
    /\ UNCHANGED <<provider, processed, memory, target, history>>

Ended(l) ==
    /\ leg[l] \in {"ringing", "live"}
    /\ leg' = [leg EXCEPT ![l] = "ended"]
    /\ sent' = sent \cup {<<l, "completed">>}

\* Telnyx only; it throws when the caller is gone.
answerCall ==
    /\ Placed(<<"answer", Caller>>)
    /\ leg[Caller] = "ringing"
    /\ leg' = [leg EXCEPT ![Caller] = "live"]
    /\ sent' = sent \cup {Answered(Caller)}
    /\ UNCHANGED <<room, bridged>>

\* With Twilio the connectionId names the conference of the buyer's TwiML.
dialBuyer(b) ==
    /\ Placed(<<"dial", b>>)
    /\ leg' = [leg EXCEPT ![b] = "ringing"]
    /\ room' = [room EXCEPT ![b] = target[b]]
    /\ UNCHANGED <<bridged, sent>>

\* Twilio does nothing: the legs share a conference.
bridgeCalls(b) ==
    /\ Placed(<<"bridge", b>>)
    /\ bridged' = IF provider = "telnyx" /\ leg[b] = "live" /\ leg[Caller] = "live"
                  THEN bridged \cup {b} ELSE bridged
    /\ UNCHANGED <<leg, room, sent>>

\* A failure is swallowed.
hangupCall(l) ==
    /\ Placed(<<"hangup", l>>)
    /\ IF leg[l] \in {"ringing", "live"} THEN Ended(l) ELSE UNCHANGED <<leg, sent>>
    /\ UNCHANGED <<room, bridged>>

\* The handler ends with the exception, which processWebhook catches.
askFails(ask) ==
    /\ ask \in asked /\ ask[1] # "hangup"
    /\ asked' = asked \ {ask}
    /\ UNCHANGED <<provider, processed, memory, placed, target, network, history>>

\* What follows the await.
Resume(ask) ==
    /\ ask \in placed
    /\ placed' = placed \ {ask}
    /\ state' = IF ask[1] = "answer" THEN "ANSWERING" ELSE state
    /\ buyerCallId' = IF ask[1] = "dial" THEN [buyerCallId EXCEPT ![ask[2]] = ask[2]]
                      ELSE buyerCallId
    /\ UNCHANGED <<provider, processed, connectionId, asked, target, network,
                   history>>

-----------------------------------------------------------------------------
(* The telephone network.                                                  *)

Calls ==
    /\ leg[Caller] = "none"
    /\ leg' = [leg EXCEPT ![Caller] = "ringing"]
    /\ sent' = sent \cup {<<Caller, "ringing">>}
    /\ UNCHANGED <<provider, processed, memory, commands, room, bridged, history>>

PicksUp(b) ==
    /\ leg[b] = "ringing"
    /\ leg' = [leg EXCEPT ![b] = "live"]
    /\ sent' = sent \cup {Answered(b)}
    /\ UNCHANGED <<provider, processed, memory, commands, room, bridged, history>>

\* Hung up, timed out, or refused.
Ends(l) ==
    /\ Ended(l)
    /\ UNCHANGED <<provider, processed, memory, commands, room, bridged, history>>

\* Twilio announces the call, or reports the end of a leg, with another status.
ReportsAgain(l) ==
    /\ provider = "twilio"
    /\ \/ l = Caller /\ leg[l] # "none" /\ sent' = sent \cup {<<l, "queued">>}
       \/ leg[l] = "ended" /\ sent' = sent \cup {<<l, "canceled">>}
    /\ UNCHANGED <<provider, processed, memory, commands, leg, room, bridged,
                   history>>

Next ==
    \/ \E e \in Events : processWebhook(e)
    \/ answerCall
    \/ \E b \in Buyers : dialBuyer(b) \/ bridgeCalls(b) \/ PicksUp(b)
    \/ \E l \in Legs : hangupCall(l) \/ Ends(l) \/ ReportsAgain(l)
    \/ \E ask \in Asks : askFails(ask) \/ Resume(ask)
    \/ Calls

Spec == Init /\ [][Next]_vars

-----------------------------------------------------------------------------
(* What the proof of concept shows.                                        *)

\* However often a call is announced and its webhooks come, each buyer is dialled
\* at most once: a second announcement puts the call back to ANSWERING, but the
\* answer that would dial A again has one id for the call (twilioProvider.answerCall,
\* processedEvents).
DialledOnce == \A b \in Buyers : dials[b] <= 1

\* Once A was connected, B is not called, whatever comes after
\* (callController.test.js "A answers -> B is never called", "exactly one
\* winner").
OneWinner ==
    /\ Cardinality(won) <= 1
    /\ "A" \in won => leg["B"] = "none"

\* A buyer who picks up at Twilio is in the conference that the caller's TwiML
\* named, whichever event the dial follows: the connectionId on its way through
\* the call's state is that of the first announcement (twilioProvider.dialBuyer,
\* "The connectionId is the original inbound CallSid").
SameRoom ==
    provider = "twilio" =>
        \A b \in Buyers : leg[b] = "live" => room[b] = room[Caller]

\* Once the caller's hangup was handled while a buyer rang or was connected,
\* nobody else is dialled (callController.test.js "Caller hangs up during A
\* -> B is NOT called").
RoutingStops ==
    [][left => \A b \in Buyers : <<"dial", b>> \in asked' => <<"dial", b>> \in asked]_vars

\* Refuted: a call whose hangup was handled stays completed ("State is complete,
\* stop any routing", callController.js:91).  The continuation of answerCall
\* overwrites COMPLETED, and an answer that was on its way then dials A.
CompletedStays == [][state = "COMPLETED" => state' = "COMPLETED"]_vars
=============================================================================
