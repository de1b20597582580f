------------------------ MODULE TelephonyPocProofs ------------------------
(***************************************************************************)
(* Proofs of the safety properties of TelephonyPoc.                        *)
(*                                                                         *)
(* The states of a call and the commands that are on their way are two     *)
(* accounts of one thing, and the continuations that follow an await, or a *)
(* second announcement of the call, let them come apart.  The invariant    *)
(* says how far: nothing was done for a buyer before the event that the    *)
(* caller's leg is answered (StateInv), and a call whose answer is awaited *)
(* is where it was before that (PendingInv).  The connection is followed   *)
(* from the event to the call, the command and the leg (ConnectionInv).    *)
(***************************************************************************)
EXTENDS TelephonyPoc, FiniteSetTheorems, TLAPS

CallerAnswered == Answered(Caller)
AnswerAsk == <<"answer", Caller>>
DialAsk(b) == <<"dial", b>>

\* answerCall was called, and its await did not return.
Pending == AnswerAsk \in asked \cup placed

\* Nothing was done for buyer b.
Untouched(b) ==
    /\ DialAsk(b) \notin asked \cup placed
    /\ leg[b] = "none"
    /\ buyerCallId[b] = NULL
    /\ dials[b] = 0

Nobody == Untouched("A") /\ Untouched("B") /\ won = {}

\* Telnyx announces a call once.
AnnouncedInv ==
    provider = "telnyx" =>
        /\ <<Caller, "queued">> \notin sent
        /\ state # NULL => <<Caller, "ringing">> \in processed

PendingInv ==
    Pending =>
        /\ provider = "telnyx"
        /\ AnswerAsk \notin asked \cap placed
        /\ Nobody /\ ~left
        /\ state \in {"RECEIVED", "COMPLETED"}

StateInv ==
    /\ state = NULL => Nobody /\ ~left
    /\ CallerAnswered \notin processed =>
           /\ Nobody /\ ~left
           /\ state \in {NULL, "RECEIVED", "ANSWERING", "COMPLETED"}
    /\ state = "RINGING_A" => Untouched("B") /\ won = {} /\ ~left
    /\ state = "CONNECTED_A" => Untouched("B") /\ won = {"A"} /\ ~left
    /\ state = "RINGING_B" => won = {} /\ ~left
    /\ state = "CONNECTED_B" => won = {"B"} /\ ~left
    /\ won \in {{}, {"A"}, {"B"}}
    /\ won = {"A"} => Untouched("B")
    /\ \A b \in Buyers : dials[b] \in {0, 1}

ConnectionInv ==
    provider = "twilio" =>
        /\ state # NULL => connectionId = Caller /\ room[Caller] = Caller
        /\ \A b \in Buyers : /\ DialAsk(b) \in asked => target[b] = Caller
                             /\ leg[b] # "none" => room[b] = Caller

\* Only the caller's leg is answered, and a dial that returned made a leg.
AsksInv ==
    \A b \in Buyers :
        /\ <<"answer", b>> \notin asked \cup placed
        /\ DialAsk(b) \in placed => leg[b] # "none"

IInv == /\ TypeOK /\ AnnouncedInv /\ PendingInv /\ StateInv /\ ConnectionInv
        /\ AsksInv

-----------------------------------------------------------------------------
(* Every step keeps the invariant: one lemma per handler's branch, per     *)
(* provider command and per event of the network.                          *)

LEMMA InvInit == Init => IInv
<1> SUFFICES ASSUME Init PROVE IInv
  OBVIOUS
<1> USE DEF Init
<1>1. TypeOK
  <2>1. leg \in [Legs -> {"none", "ringing", "live", "ended"}]
    OBVIOUS
  <2>2. room \in [Legs -> Legs \cup {Connection, NULL}]
    OBVIOUS
  <2>3. buyerCallId \in [Buyers -> Buyers \cup {NULL}]
    OBVIOUS
  <2>4. state \in States \cup {NULL}
    OBVIOUS
  <2>5. \A b \in Buyers : buyerCallId[b] # NULL => leg[b] # "none"
    OBVIOUS
  <2>6. /\ connectionId \in Legs \cup {Connection, NULL}
        /\ target \in [Buyers -> Legs \cup {Connection, NULL}]
        /\ dials \in [Buyers -> 0..2]
    OBVIOUS
  <2>7. left \in BOOLEAN /\ provider \in {"telnyx", "twilio"}
    OBVIOUS
  <2>8. /\ processed \subseteq sent /\ sent \subseteq Events
        /\ asked \subseteq Asks /\ placed \subseteq Asks
    OBVIOUS
  <2>9. bridged \subseteq Buyers /\ won \subseteq Buyers
    OBVIOUS
  <2> HIDE DEF Init
  <2> QED
    BY <2>1, <2>2, <2>3, <2>4, <2>5, <2>6, <2>7, <2>8, <2>9 DEF TypeOK
<1>2. AnnouncedInv /\ PendingInv /\ ConnectionInv /\ AsksInv
  BY DEF AnnouncedInv, PendingInv, ConnectionInv, AsksInv, Pending, Buyers, Legs
<1>3. StateInv
  BY DEF StateInv, Nobody, Untouched, Buyers, Legs, NULL
<1> QED
  BY <1>1, <1>2, <1>3 DEF IInv

LEMMA EventsAre ==
    /\ Initiated \subseteq Events
    /\ \A l \in Legs : /\ Answered(l) \in Events
                       /\ <<l, "completed">> \in Events
                       /\ <<l, "canceled">> \in Events
    /\ <<Caller, "ringing">> \in Events /\ <<Caller, "queued">> \in Events
BY DEF Events, Initiated, HungUp, Answered

\* The vocabulary of every step.
USE DEF IInv, TypeOK, AnnouncedInv, PendingInv, StateInv, ConnectionInv, AsksInv,
        Pending, Nobody, Untouched, DialAsk, AnswerAsk, CallerAnswered,
        Answered, Asks, States, Ringing, Connected, Legs, Buyers,
        Caller, NULL, Connection, memory, commands, network, history

LEMMA IncomingStep ==
    ASSUME IInv, NEW e \in sent \ processed, Mark(e), UNCHANGED provider,
           e \in Initiated, incoming(e)
    PROVE  IInv'
<1>1. e = <<Caller, "queued">> \/ e = <<Caller, "ringing">>
  BY DEF Initiated
<1>2. e[1] = Caller /\ e # CallerAnswered
  BY <1>1
<1>3. \A b \in Buyers : Untouched(b) => Untouched(b)'
  BY DEF incoming, Ask
<1>4. AsksInv'
  BY DEF incoming, Ask
<1>5. CASE provider = "twilio"
  <2>1. ~Pending /\ ~Pending'
    BY <1>5 DEF incoming
  <2>2. /\ state' = "ANSWERING" /\ asked' = asked /\ placed' = placed
        /\ room' = [room EXCEPT ![Caller] = Caller]
        /\ sent' = sent \cup {CallerAnswered}
        /\ connectionId' = IF state = NULL THEN Caller ELSE connectionId
        /\ \A b \in Buyers : leg'[b] = leg[b]
        /\ UNCHANGED <<buyerCallId, target, bridged, dials, won, left>>
    BY <1>2, <1>5 DEF incoming, ConnectionId
  <2>3. TypeOK'
    BY <1>5, <2>2, EventsAre DEF incoming, Mark
  <2>4. ConnectionInv'
    BY <1>5, <2>2
  <2>5. StateInv'
    <3>1. CallerAnswered \notin processed' => CallerAnswered \notin processed
      BY DEF Mark
    <3> HIDE DEF Untouched, CallerAnswered
    <3> QED
      BY <1>3, <2>2, <3>1
  <2>6. AnnouncedInv' /\ PendingInv'
    BY <1>5, <2>1
  <2> QED
    BY <1>4, <2>3, <2>4, <2>5, <2>6
<1>6. CASE provider = "telnyx"
  <2>1. /\ state' = IF state = NULL THEN "RECEIVED" ELSE state
        /\ asked' = asked \cup {AnswerAsk} /\ placed' = placed
        /\ connectionId' \in Legs \cup {Connection, NULL}
        /\ UNCHANGED <<buyerCallId, target, leg, room, sent, bridged, dials, won,
                      left>>
    BY <1>6 DEF incoming, ConnectionId, Ask
  <2>2. e = <<Caller, "ringing">> /\ state = NULL
    BY <1>1, <1>6
  <2>3. /\ CallerAnswered \notin processed' => CallerAnswered \notin processed
        /\ <<Caller, "ringing">> \in processed' /\ processed' \subseteq sent'
    BY <2>1, <2>2 DEF Mark
  <2>4. TypeOK'
    BY <2>1, <2>2, <2>3
  <2>5. Nobody /\ ~left /\ ~Pending
    BY <2>2
  <2>6. AnnouncedInv' /\ ConnectionInv'
    BY <1>6, <2>1, <2>3
  <2>7. PendingInv' /\ StateInv'
    BY <1>3, <1>6, <2>1, <2>2, <2>3, <2>5
  <2> QED
    BY <1>4, <2>4, <2>6, <2>7
<1> QED
  BY <1>5, <1>6

LEMMA CallerAnsweredStep ==
    ASSUME IInv, NEW e \in sent \ processed, Mark(e), UNCHANGED provider,
           e = CallerAnswered, callerAnswered(e)
    PROVE  IInv'
BY DEF callerAnswered, Mark, Dial, Ask

LEMMA CallerHangupStep ==
    ASSUME IInv, NEW e \in sent \ processed, Mark(e), UNCHANGED provider,
           e \in HungUp(Caller), callerHangup
    PROVE  IInv'
BY DEF callerHangup, HungUp, Mark, Ask

LEMMA BuyerAnsweredStep ==
    ASSUME IInv, NEW e \in sent \ processed, Mark(e), UNCHANGED provider,
           NEW b \in Buyers, e = Answered(b), buyerAnswered(b)
    PROVE  IInv'
<1>1. won = {} /\ won' = {b}
  BY DEF buyerAnswered
<1>2. b = "A" \/ b = "B"
  OBVIOUS
<1>3. TypeOK' /\ AnnouncedInv' /\ PendingInv' /\ ConnectionInv' /\ AsksInv'
  BY <1>1 DEF buyerAnswered, Mark, Ask
<1>4. StateInv'
  BY <1>1, <1>2 DEF buyerAnswered, Mark, Ask
<1> QED
  BY <1>3, <1>4

LEMMA BuyerFailedStep ==
    ASSUME IInv, NEW e \in sent \ processed, Mark(e), UNCHANGED provider,
           NEW b \in Buyers, e \in HungUp(b), buyerFailed(b)
    PROVE  IInv'
BY DEF buyerFailed, HungUp, Mark, Dial, Ask

LEMMA BuyerLeftStep ==
    ASSUME IInv, NEW e \in sent \ processed, Mark(e), UNCHANGED provider,
           NEW b \in Buyers, e \in HungUp(b), buyerLeft(b)
    PROVE  IInv'
BY DEF buyerLeft, HungUp, Mark, Ask

LEMMA AnswerCallStep ==
    ASSUME IInv, answerCall
    PROVE  IInv'
BY EventsAre DEF answerCall, Placed, Asks

LEMMA DialBuyerStep ==
    ASSUME IInv, NEW b \in Buyers, dialBuyer(b)
    PROVE  IInv'
BY DEF dialBuyer, Placed

LEMMA BridgeCallsStep ==
    ASSUME IInv, NEW b \in Buyers, bridgeCalls(b)
    PROVE  IInv'
BY DEF bridgeCalls, Placed

LEMMA PicksUpStep ==
    ASSUME IInv, NEW b \in Buyers, PicksUp(b)
    PROVE  IInv'
BY EventsAre DEF PicksUp

LEMMA HangupCallStep ==
    ASSUME IInv, NEW l \in Legs, hangupCall(l)
    PROVE  IInv'
BY EventsAre DEF hangupCall, Placed, Ended

LEMMA EndsStep ==
    ASSUME IInv, NEW l \in Legs, Ends(l)
    PROVE  IInv'
BY EventsAre DEF Ends, Ended

LEMMA ReportsAgainStep ==
    ASSUME IInv, NEW l \in Legs, ReportsAgain(l)
    PROVE  IInv'
BY EventsAre DEF ReportsAgain

LEMMA AskFailsStep ==
    ASSUME IInv, NEW ask \in Asks, askFails(ask)
    PROVE  IInv'
BY DEF askFails

LEMMA ResumeStep ==
    ASSUME IInv, NEW ask \in Asks, Resume(ask)
    PROVE  IInv'
<1>1. PICK what \in {"answer", "dial", "bridge", "hangup"}, l \in Legs :
        ask = <<what, l>>
  OBVIOUS
<1>2. CASE what = "answer"
  <2>1. placed' = placed \ {ask} /\ state' = "ANSWERING" /\ buyerCallId' = buyerCallId
    BY <1>1, <1>2 DEF Resume
  <2>2. Pending /\ l = Caller /\ Nobody /\ ~left
    BY <1>1, <1>2 DEF Resume
  <2> QED
    BY <1>1, <1>2, <2>1, <2>2 DEF Resume
<1>3. CASE what = "dial"
  <2>1. /\ placed' = placed \ {ask} /\ state' = state /\ ask \in placed
        /\ buyerCallId' = [buyerCallId EXCEPT ![l] = l]
        /\ ask = <<"dial", l>>
    BY <1>1, <1>3 DEF Resume
  <2>2. CASE l \in Buyers
    <3>1. TypeOK' /\ AnnouncedInv' /\ PendingInv' /\ ConnectionInv' /\ AsksInv'
      BY <1>1, <1>3, <2>1, <2>2 DEF Resume
    <3>2. \A b \in Buyers : Untouched(b) => Untouched(b)'
      BY <2>1, <2>2, <1>3 DEF Resume
    <3>3. StateInv'
      <4>1. state' = state /\ UNCHANGED <<won, left, dials, processed>>
        BY <2>1, <1>3 DEF Resume
      <4> HIDE DEF Untouched
      <4> QED
        BY <3>2, <4>1
    <3> QED
      BY <3>1, <3>3
  <2>3. CASE l \notin Buyers
    <3>1. buyerCallId' = buyerCallId
      BY <2>1, <2>3
    <3>2. UNCHANGED <<provider, processed, connectionId, asked, target, leg,
                      room, bridged, sent, dials, won, left>>
      BY <1>3 DEF Resume
    <3>3. TypeOK' /\ ConnectionInv'
      <4>1. placed' \subseteq Asks /\ state' = state
        BY <2>1
      <4>2. TypeOK'
        BY <3>1, <3>2, <4>1
      <4>3. ConnectionInv'
        <5>1. ConnectionInv
          OBVIOUS
        <5> HIDE DEF TypeOK, StateInv, PendingInv, AnnouncedInv, AsksInv
        <5> QED
          BY <3>2, <4>1, <5>1
      <4> QED
        BY <4>2, <4>3
    <3>4. AsksInv'
      BY <2>1, <3>2
    <3>5. Pending' => Pending
      BY <2>1, <3>2
    <3>6. AnnouncedInv' /\ PendingInv'
      <4>1. PendingInv /\ AnnouncedInv
        OBVIOUS
      <4>2. \A b \in Buyers : Untouched(b) => Untouched(b)'
        BY <2>1, <3>1, <3>2
      <4>3. AnswerAsk \notin asked \cap placed => AnswerAsk \notin asked' \cap placed'
        BY <2>1, <3>2
      <4> HIDE DEF Untouched, AnswerAsk, Pending
      <4> QED
        BY <4>1, <4>2, <4>3, <2>1, <3>2, <3>5
    <3>7. StateInv'
      <4>1. \A b \in Buyers : Untouched(b) => Untouched(b)'
        BY <2>1, <3>1, <3>2
      <4> HIDE DEF Untouched
      <4> QED
        BY <2>1, <3>2, <4>1
    <3> QED
      BY <3>3, <3>4, <3>6, <3>7
  <2> QED
    BY <2>2, <2>3
<1>4. CASE what \in {"bridge", "hangup"}
  BY <1>1, <1>4 DEF Resume
<1> QED
  BY <1>1, <1>2, <1>3, <1>4

LEMMA CallsStep ==
    ASSUME IInv, Calls
    PROVE  IInv'
BY EventsAre DEF Calls

-----------------------------------------------------------------------------
LEMMA InvStep == IInv /\ [Next]_vars => IInv'
<1> SUFFICES ASSUME IInv, [Next]_vars PROVE IInv'
  OBVIOUS
<1> HIDE DEF IInv, TypeOK, AnnouncedInv, PendingInv, StateInv, ConnectionInv, AsksInv
<1>1. ASSUME NEW e \in Events, processWebhook(e) PROVE IInv'
  <2>1. e \in sent \ processed /\ Mark(e) /\ UNCHANGED provider
    BY <1>1 DEF processWebhook
  <2>2. CASE Branch(e)
    BY <2>1, <2>2, IncomingStep, CallerAnsweredStep, CallerHangupStep,
       BuyerAnsweredStep, BuyerFailedStep, BuyerLeftStep DEF Branch
  <2>3. CASE UNCHANGED <<memory, commands, network, history>>
    BY <2>1, <2>3 DEF Mark, IInv, TypeOK, AnnouncedInv, PendingInv, StateInv,
                      ConnectionInv, AsksInv
  <2> QED
    BY <1>1, <2>2, <2>3 DEF processWebhook
<1>2. CASE UNCHANGED vars
  BY <1>2 DEF vars, IInv, TypeOK, AnnouncedInv, PendingInv, StateInv, ConnectionInv, AsksInv
<1>3. CASE answerCall \/ Calls
  BY <1>3, AnswerCallStep, CallsStep
<1>4. ASSUME NEW b \in Buyers, dialBuyer(b) \/ bridgeCalls(b) \/ PicksUp(b)
      PROVE  IInv'
  BY <1>4, DialBuyerStep, BridgeCallsStep, PicksUpStep
<1>5. ASSUME NEW l \in Legs, hangupCall(l) \/ Ends(l) \/ ReportsAgain(l)
      PROVE  IInv'
  BY <1>5, HangupCallStep, EndsStep, ReportsAgainStep
<1>6. ASSUME NEW ask \in Asks, askFails(ask) \/ Resume(ask) PROVE IInv'
  BY <1>6, AskFailsStep, ResumeStep
<1> QED
  BY <1>1, <1>2, <1>3, <1>4, <1>5, <1>6 DEF Next

HIDE DEF IInv, TypeOK

\* The invariant holds in every reachable state.
THEOREM Inductive == Spec => []IInv
<1>1. Init => IInv
  BY InvInit
<1>2. IInv /\ [Next]_vars => IInv'
  BY InvStep
<1> QED
  BY <1>1, <1>2, PTL DEF Spec

\* Type correctness.
THEOREM TypeCorrect == Spec => []TypeOK
<1>1. IInv => TypeOK
  BY DEF IInv
<1> QED
  BY <1>1, Inductive, PTL

\* However often a call is announced, each buyer is dialled once at most.
THEOREM DialledOnceHolds == Spec => []DialledOnce
<1>1. IInv => DialledOnce
  BY DEF DialledOnce, IInv
<1> QED
  BY <1>1, Inductive, PTL

\* One buyer is connected at most, and B is not called once A was.
THEOREM OneWinnerHolds == Spec => []OneWinner
<1>1. ASSUME IInv PROVE OneWinner
  <2>1. won = {} \/ \E b \in Buyers : won = {b}
    BY <1>1 DEF IInv
  <2>2. Cardinality(won) <= 1
    BY <2>1, FS_EmptySet, FS_Singleton
  <2>3. "A" \in won => leg["B"] = "none"
    BY <1>1 DEF IInv
  <2> QED
    BY <2>2, <2>3 DEF OneWinner
<1> QED
  BY <1>1, Inductive, PTL

\* A buyer who picks up at Twilio shares the conference of the caller.
THEOREM SameRoomHolds == Spec => []SameRoom
<1>1. ASSUME IInv PROVE SameRoom
  <2> SUFFICES ASSUME provider = "twilio", NEW b \in Buyers, leg[b] = "live"
               PROVE  room[b] = room[Caller]
    BY DEF SameRoom
  <2>1. room[b] = Caller
    BY <1>1 DEF IInv
  <2>2. state # NULL
    BY <1>1 DEF IInv
  <2> QED
    BY <1>1, <2>1, <2>2 DEF IInv
<1> QED
  BY <1>1, Inductive, PTL

\* Nobody is dialled after the caller's hangup was handled.
THEOREM RoutingStopsHolds == Spec => RoutingStops
<1>1. ASSUME IInv, [Next]_vars, left, NEW b \in Buyers, DialAsk(b) \in asked'
      PROVE  DialAsk(b) \in asked
  <2>1. ASSUME NEW e \in Events, processWebhook(e) PROVE DialAsk(b) \in asked
    <3>1. CASE e \in Initiated /\ incoming(e)
      BY <1>1, <3>1 DEF incoming, Ask
    <3>2. CASE e = CallerAnswered /\ callerAnswered(e)
      <4>1. CallerAnswered \in processed
        BY <1>1 DEF IInv
      <4> QED
        BY <2>1, <3>2, <4>1 DEF processWebhook
    <3>3. CASE callerHangup
      BY <1>1, <3>3 DEF callerHangup, IInv
    <3>4. ASSUME NEW c \in Buyers, buyerAnswered(c) \/ buyerFailed(c) \/ buyerLeft(c)
          PROVE  DialAsk(b) \in asked
      BY <1>1, <3>4 DEF buyerAnswered, buyerFailed, buyerLeft, Ask, IInv
    <3>5. CASE UNCHANGED asked
      BY <1>1, <3>5
    <3> QED
      BY <2>1, <3>1, <3>2, <3>3, <3>4, <3>5 DEF processWebhook, Branch
  <2>2. CASE asked' \subseteq asked
    BY <1>1, <2>2
  <2>3. (\E e \in Events : processWebhook(e)) \/ asked' \subseteq asked
    <3>1. ASSUME NEW c \in Buyers, dialBuyer(c) \/ bridgeCalls(c) \/ PicksUp(c)
          PROVE  asked' \subseteq asked
      BY <3>1 DEF dialBuyer, bridgeCalls, PicksUp, Placed
    <3>2. ASSUME NEW l \in Legs, hangupCall(l) \/ Ends(l) \/ ReportsAgain(l)
          PROVE  asked' \subseteq asked
      BY <3>2 DEF hangupCall, Ends, ReportsAgain, Placed
    <3>3. ASSUME NEW ask \in Asks, askFails(ask) \/ Resume(ask)
          PROVE  asked' \subseteq asked
      BY <3>3 DEF askFails, Resume
    <3>4. CASE answerCall \/ Calls \/ UNCHANGED vars
      BY <3>4 DEF answerCall, Calls, vars, Placed
    <3> QED
      BY <1>1, <3>1, <3>2, <3>3, <3>4 DEF Next
  <2> QED
    BY <2>1, <2>2, <2>3
<1>2. IInv /\ [Next]_vars =>
          [left => \A b \in Buyers : <<"dial", b>> \in asked' =>
                                          <<"dial", b>> \in asked]_vars
  BY <1>1
<1> QED
  BY <1>2, Inductive, PTL DEF Spec, RoutingStops
=============================================================================
