------------------------- MODULE CallRoutingProofs -------------------------
(***************************************************************************)
(* Proofs about CallRouting, for every roster, number of handlers, fault   *)
(* set, abort mode and bound.                                              *)
(***************************************************************************)
EXTENDS CallRouting, TLAPS

-----------------------------------------------------------------------------
(***************************************************************************)
(* The writes to the attempts table, as facts about one row at a time.     *)
(***************************************************************************)

\* SetAttempt changes the state of one attempt and nothing else.
LEMMA SetAttemptEffect ==
    ASSUME attempts \in Seq(Attempt),
           NEW i \in Nat, NEW s \in AttemptStates, SetAttempt(i, s)
    PROVE  /\ attempts' \in Seq(Attempt)
           /\ Len(attempts') = Len(attempts)
           /\ \A j \in AttemptIds :
                /\ attempts'[j].buyer = attempts[j].buyer
                /\ attempts'[j].leg = attempts[j].leg
                /\ attempts'[j].state = IF j = i THEN s ELSE attempts[j].state
  <1>1. attempts \in [1..Len(attempts) -> Attempt] /\ Len(attempts) \in Nat
    OBVIOUS
  <1>2. attempts' \in [1..Len(attempts) -> Attempt]
    BY <1>1 DEF SetAttempt, Attempt
  <1>3. attempts' \in Seq(Attempt) /\ Len(attempts') = Len(attempts)
    BY <1>1, <1>2
  <1>4. QED
    BY <1>1, <1>3 DEF SetAttempt, Attempt, AttemptIds

-----------------------------------------------------------------------------
(***************************************************************************)
(* Type correctness, from the operators every action is built of.          *)
(***************************************************************************)

LEMMA GotoType ==
    ASSUME HandlersTypeOK, NEW w \in Workers, NEW s \in Steps, NEW l \in Nat,
           Goto(w, s, l), UNCHANGED todo
    PROVE  HandlersTypeOK'
  BY DEF HandlersTypeOK, Goto

LEMMA ReturnType ==
    ASSUME HandlersTypeOK, NEW w \in Workers, Return(w), UNCHANGED todo
    PROVE  HandlersTypeOK'
  <1>1. "idle" \in Steps /\ CallerLeg \in Nat
    BY DEF Steps, CallerLeg
  <1>2. QED
    BY <1>1, GotoType DEF Return

LEMMA GoHangUpType ==
    ASSUME HandlersTypeOK, NEW w \in Workers, NEW ls \in SUBSET Nat,
           GoHangUp(w, ls)
    PROVE  HandlersTypeOK'
  <1>1. "idle" \in Steps /\ "hangup" \in Steps /\ CallerLeg \in Nat
    BY DEF Steps, CallerLeg
  <1>2. QED
    BY <1>1 DEF HandlersTypeOK, GoHangUp, Goto, Return

\* What the provider reports is an event.
LEMMA EventType ==
    ASSUME NEW t \in EventTypes, NEW l \in Nat
    PROVE  Event(t, l) \in Events
  BY DEF Event, Events

LEMMA PickUpType ==
    ASSUME PhonesTypeOK, NEW l \in Nat, PickUp(l)
    PROVE  PhonesTypeOK'
  <1>1. Event("CALL_ANSWERED", l) \in Events
    BY EventType DEF EventTypes
  <1>2. QED
    BY <1>1 DEF PhonesTypeOK, PickUp

LEMMA EndLegType ==
    ASSUME PhonesTypeOK, NEW l \in Nat, EndLeg(l)
    PROVE  PhonesTypeOK'
  <1>1. Event("CALL_HANGUP", l) \in Events
    BY EventType DEF EventTypes
  <1>2. QED
    BY <1>1 DEF PhonesTypeOK, EndLeg

LEMMA PlaceLegType ==
    ASSUME PhonesTypeOK, NEW l \in Nat, PlaceLeg(l), hooks' \subseteq Events
    PROVE  PhonesTypeOK'
  BY DEF PhonesTypeOK, PlaceLeg

LEMMA InitType == Init => TypeOK
  BY RosterAssumption
     DEF Init, TypeOK, DatabaseTypeOK, HandlersTypeOK, PhonesTypeOK,
         Steps, CallerLeg, CallStates, CampaignLinks

\* Receiving an event sends the handler to a step and keeps the events.
LEMMA ReceiveType ==
    ASSUME TypeOK, NEW w \in Workers, NEW e \in hooks, Receive(w, e)
    PROVE  TypeOK'
  <1>1. e.leg \in Nat /\ e.type \in EventTypes
    BY DEF TypeOK, PhonesTypeOK, Events
  <1>2. Branch(e) \in Steps
    BY <1>1 DEF Branch, Steps, EventTypes
  <1>3. HandlersTypeOK'
    BY <1>1, <1>2, GotoType DEF Receive, TypeOK, CallerLeg
  <1>4. PhonesTypeOK'
    BY DEF Receive, TypeOK, PhonesTypeOK, phoneVars
  <1>5. DatabaseTypeOK'
    BY DEF Receive, TypeOK, DatabaseTypeOK, dbVars
  <1>6. again' \subseteq Events /\ crashes' \in Nat
    BY DEF Receive, KeptForRedelivery, TypeOK, PhonesTypeOK
  <1>7. QED
    BY <1>3, <1>4, <1>5, <1>6 DEF TypeOK

\* The bounds move only in Receive and Restart.
LEMMA HandlerBounds ==
    ASSUME NEW w \in Workers, HandlerStep(w)
    PROVE  UNCHANGED bounds
  BY DEF HandlerStep, IgnoreUnknownNumber, CreateConflict, CreateBlocked,
         createCall, answerCall, startRouting, prepareNone, prepareFailed,
         prepareNoAnswer, prepareDial, dialBuyer, commitBuyerDial,
         startRinging, dialFailed, markCallAnswered, bridgeCalls,
         handleCallerHangup, handleBuyerHangup, hangupCall, txThrows

LEMMA HandlerDatabaseType ==
    ASSUME TypeOK, NEW w \in Workers, HandlerStep(w)
    PROVE  DatabaseTypeOK'
  <1> USE DEF TypeOK, DatabaseTypeOK, dbVars
  <1>1. CASE \/ IgnoreUnknownNumber(w) \/ CreateConflict(w) \/ answerCall(w)
             \/ prepareNone(w) \/ dialBuyer(w) \/ bridgeCalls(w)
             \/ txThrows(w) \/ \E l \in todo[w] : hangupCall(w, l)
    BY <1>1 DEF IgnoreUnknownNumber, CreateConflict, answerCall, prepareNone,
                dialBuyer, bridgeCalls, txThrows, hangupCall
  <1>2. CASE \/ CreateBlocked(w) \/ createCall(w) \/ startRouting(w)
             \/ prepareFailed(w) \/ prepareNoAnswer(w)
    BY <1>2 DEF CreateBlocked, createCall, startRouting, prepareFailed,
                prepareNoAnswer, CallStates
  <1>3. ASSUME NEW b \in Buyers, prepareDial(w, b)
        PROVE  DatabaseTypeOK'
    BY <1>3 DEF prepareDial, NewAttempt, Attempt, AttemptStates, LegColumn
  <1>4. CASE commitBuyerDial(w)
    <2>1. attempts \in [1..Len(attempts) -> Attempt] /\ Len(attempts) \in Nat
      OBVIOUS
    <2>2. attempts' \in [1..Len(attempts) -> Attempt]
      BY <1>4, <2>1 DEF commitBuyerDial, Attempt, AttemptStates, LegColumn
    <2>3. attempts' \in Seq(Attempt)
      BY <2>1, <2>2
    <2>4. UNCHANGED <<callState, campaign, duration, roster>>
      BY <1>4 DEF commitBuyerDial
    <2>5. QED
      BY <2>3, <2>4
  <1>5. CASE startRinging(w) \/ dialFailed(w)
    <2>1. leg[w] \in Nat
      BY DEF HandlersTypeOK
    <2>2. attempts' \in Seq(Attempt)
      BY <1>5, <2>1, SetAttemptEffect
         DEF startRinging, dialFailed, AttemptStates
    <2>3. QED
      BY <1>5, <2>2 DEF startRinging, dialFailed
  <1>6. CASE markCallAnswered(w) \/ handleBuyerHangup(w)
    <2>1. leg[w] \in Nat
      BY DEF HandlersTypeOK
    <2>2. attempts' \in Seq(Attempt)
      BY <1>6, <2>1, SetAttemptEffect
         DEF markCallAnswered, handleBuyerHangup, AttemptStates
    <2>3. QED
      BY <1>6, <2>2 DEF markCallAnswered, handleBuyerHangup, CallStates
  <1>7. CASE handleCallerHangup(w)
    <2>1. attempts \in [1..Len(attempts) -> Attempt] /\ Len(attempts) \in Nat
      OBVIOUS
    <2>2. attempts' \in [1..Len(attempts) -> Attempt]
      BY <1>7, <2>1 DEF handleCallerHangup, AttemptIds, Attempt, AttemptStates
    <2>3. QED
      BY <1>7, <2>1, <2>2 DEF handleCallerHangup, FinalState, CallStates
  <1>8. QED
    BY <1>1, <1>2, <1>3, <1>4, <1>5, <1>6, <1>7 DEF HandlerStep

LEMMA HandlerControlType ==
    ASSUME TypeOK, NEW w \in Workers, HandlerStep(w)
    PROVE  HandlersTypeOK'
  <1>1. leg[w] \in Nat /\ todo[w] \in SUBSET Nat /\ CallerLeg \in Nat
    BY DEF TypeOK, HandlersTypeOK, CallerLeg
  <1>2. {"answer", "prepare", "dial", "commit", "ring", "dialFailed", "bridge"}
            \subseteq Steps
    BY DEF Steps
  <1>3. HandlersTypeOK
    BY DEF TypeOK
  <1>4. CASE \/ IgnoreUnknownNumber(w) \/ CreateConflict(w) \/ answerCall(w)
             \/ prepareNone(w) \/ bridgeCalls(w)
    BY <1>3, <1>4, ReturnType
       DEF IgnoreUnknownNumber, CreateConflict, answerCall, prepareNone,
           bridgeCalls
  <1>5. CASE CreateBlocked(w) \/ prepareFailed(w) \/ prepareNoAnswer(w)
    BY <1>1, <1>3, <1>5, GoHangUpType
       DEF CreateBlocked, prepareFailed, prepareNoAnswer
  <1>6. CASE createCall(w) \/ startRouting(w)
    BY <1>1, <1>2, <1>3, <1>6, GotoType, ReturnType DEF createCall, startRouting
  <1>7. ASSUME NEW b \in Buyers, prepareDial(w, b)
        PROVE  HandlersTypeOK'
    <2>1. Len(attempts) + 1 \in Nat
      BY DEF TypeOK, DatabaseTypeOK
    <2>2. QED
      BY <1>2, <1>3, <1>7, <2>1, GotoType DEF prepareDial
  <1>8. CASE dialBuyer(w) \/ startRinging(w) \/ dialFailed(w) \/ txThrows(w)
    BY <1>1, <1>2, <1>3, <1>8, GotoType, ReturnType
       DEF dialBuyer, startRinging, dialFailed, txThrows
  <1>9. CASE commitBuyerDial(w) \/ markCallAnswered(w)
    BY <1>1, <1>2, <1>3, <1>9, GotoType, GoHangUpType
       DEF commitBuyerDial, markCallAnswered
  <1>10. CASE handleCallerHangup(w)
    <2>1. HangupTargets \in SUBSET Nat /\ {} \in SUBSET Nat
      BY DEF HangupTargets, AttemptIds
    <2>2. QED
      BY <1>3, <1>10, <2>1, GoHangUpType DEF handleCallerHangup
  <1>11. CASE handleBuyerHangup(w)
    BY <1>1, <1>2, <1>3, <1>11, GotoType, GoHangUpType, ReturnType
       DEF handleBuyerHangup
  <1>12. ASSUME NEW l \in todo[w], hangupCall(w, l)
         PROVE  HandlersTypeOK'
    BY <1>1, <1>3, <1>12, GoHangUpType DEF hangupCall
  <1>13. QED
    BY <1>4, <1>5, <1>6, <1>7, <1>8, <1>9, <1>10, <1>11, <1>12 DEF HandlerStep

LEMMA HandlerPhonesType ==
    ASSUME TypeOK, NEW w \in Workers, HandlerStep(w)
    PROVE  PhonesTypeOK'
  <1>1. leg[w] \in Nat /\ todo[w] \in SUBSET Nat /\ CallerLeg \in Nat
    BY DEF TypeOK, HandlersTypeOK, CallerLeg
  <1>2. PhonesTypeOK
    BY DEF TypeOK
  <1>3. ASSUME UNCHANGED <<phoneVars, hooks>>
        PROVE  PhonesTypeOK'
    BY <1>2, <1>3 DEF PhonesTypeOK, phoneVars
  <1>4. CASE answerCall(w)
    BY <1>1, <1>2, <1>3, <1>4, PickUpType DEF answerCall
  <1>5. CASE dialBuyer(w)
    <2>1. CASE PlaceLeg(leg[w])
      BY <1>1, <1>2, <1>5, <2>1, PlaceLegType DEF dialBuyer, PhonesTypeOK
    <2>2. CASE UNCHANGED phoneVars
      BY <1>3, <1>5, <2>2 DEF dialBuyer
    <2>3. QED
      BY <1>5, <2>1, <2>2 DEF dialBuyer
  <1>6. CASE bridgeCalls(w)
    BY <1>1, <1>2, <1>6 DEF bridgeCalls, PhonesTypeOK
  <1>7. ASSUME NEW l \in todo[w], hangupCall(w, l)
        PROVE  PhonesTypeOK'
    BY <1>1, <1>2, <1>3, <1>7, EndLegType DEF hangupCall
  <1>8. CASE \/ IgnoreUnknownNumber(w) \/ CreateConflict(w) \/ CreateBlocked(w)
             \/ createCall(w) \/ startRouting(w) \/ prepareNone(w)
             \/ prepareFailed(w) \/ prepareNoAnswer(w)
             \/ \E b \in Buyers : prepareDial(w, b)
    BY <1>3, <1>8
       DEF IgnoreUnknownNumber, CreateConflict, CreateBlocked, createCall,
           startRouting, prepareNone, prepareFailed, prepareNoAnswer,
           prepareDial
  <1>9. CASE \/ commitBuyerDial(w) \/ startRinging(w) \/ dialFailed(w)
             \/ markCallAnswered(w) \/ handleCallerHangup(w)
             \/ handleBuyerHangup(w) \/ txThrows(w)
    BY <1>3, <1>9
       DEF commitBuyerDial, startRinging, dialFailed, markCallAnswered,
           handleCallerHangup, handleBuyerHangup, txThrows
  <1>10. QED
    BY <1>4, <1>5, <1>6, <1>7, <1>8, <1>9 DEF HandlerStep

LEMMA EnvironmentType ==
    ASSUME TypeOK, PhoneStep \/ (\E k \in Link : addBuyerToCampaign(k)) \/ Restart
    PROVE  TypeOK'
  <1>1. CASE PhoneStep
    <2>1. UNCHANGED <<dbVars, roster, pc, leg, todo, bounds>>
      BY <1>1 DEF PhoneStep, CallerDials, BuyerAnswers, BuyerDoesNotAnswer,
                  HangsUp
    <2>2. ASSUME CallerDials
          PROVE  PhonesTypeOK'
      <3>1. CallerLeg \in Nat /\ Event("CALL_INITIATED", CallerLeg) \in Events
        BY EventType DEF CallerLeg, EventTypes
      <3>2. hooks' \subseteq Events
        BY <2>2, <3>1 DEF CallerDials, TypeOK, PhonesTypeOK
      <3>3. QED
        BY <2>2, <3>1, <3>2, PlaceLegType DEF CallerDials, TypeOK
    <2>3. ASSUME NEW l \in ringing \cup talking, PickUp(l) \/ EndLeg(l)
          PROVE  PhonesTypeOK'
      <3>1. l \in Nat
        BY DEF TypeOK, PhonesTypeOK
      <3>2. QED
        BY <2>3, <3>1, PickUpType, EndLegType DEF TypeOK
    <2>4. PhonesTypeOK'
      BY <1>1, <2>2, <2>3
         DEF PhoneStep, BuyerAnswers, BuyerDoesNotAnswer, HangsUp
    <2>5. QED
      BY <2>1, <2>4 DEF TypeOK, DatabaseTypeOK, HandlersTypeOK, dbVars, bounds
  <1>2. ASSUME NEW k \in Link, addBuyerToCampaign(k)
        PROVE  TypeOK'
    BY <1>2 DEF addBuyerToCampaign, TypeOK, DatabaseTypeOK, HandlersTypeOK,
                PhonesTypeOK, dbVars, phoneVars, bounds
  <1>3. CASE Restart
    BY <1>3 DEF Restart, TypeOK, DatabaseTypeOK, HandlersTypeOK, PhonesTypeOK,
                dbVars, phoneVars, CallerLeg, Steps
  <1>4. QED
    BY <1>1, <1>2, <1>3

LEMMA NextType == TypeOK /\ [Next]_vars => TypeOK'
  <1> SUFFICES ASSUME TypeOK, [Next]_vars
               PROVE  TypeOK'
    OBVIOUS
  <1>1. ASSUME NEW w \in Workers, HandlerStep(w)
        PROVE  TypeOK'
    BY <1>1, HandlerDatabaseType, HandlerControlType, HandlerPhonesType,
       HandlerBounds DEF TypeOK, bounds
  <1>2. CASE UNCHANGED vars
    BY <1>2 DEF vars, TypeOK, DatabaseTypeOK, HandlersTypeOK, PhonesTypeOK
  <1>3. QED
    BY <1>1, <1>2, ReceiveType, EnvironmentType DEF Next

\* The rows of the call, the handlers and the phones keep their types.
THEOREM TypeCorrect == Spec => []TypeOK
  BY InitType, NextType, PTL DEF Spec

-----------------------------------------------------------------------------
(***************************************************************************)
(* The inductive invariant behind the safety properties: what the rows of  *)
(* the call satisfy whoever runs, what a handler may rely on at each of    *)
(* its steps, and which leg may still be bridged.                          *)
(***************************************************************************)

\* A call that is not routed yet has no attempt.
NoAttemptsYet ==
    callState \in {"absent", "INITIATED"} => AttemptIds = {}

\* An attempt whose leg is not stored was neither answered nor hung up.
UnknownLegs ==
    \A i \in AttemptIds : attempts[i].leg = "null" =>
        attempts[i].state \in {"INITIATED", "RINGING", "FAILED", "CANCELED"}

\* Attempts are canceled only together with or after the end of their call.
CanceledAttempts ==
    \A i \in AttemptIds : attempts[i].state = "CANCELED" =>
        callState \in {"COMPLETED", "NO_ANSWER", "FAILED", "CANCELED"}

RowsInv ==
    /\ NoAttemptsYet
    /\ UnknownLegs
    /\ CanceledAttempts
    /\ OneActiveAttempt
    /\ NoBuyerTwice
    /\ OneWinner
    /\ SettledAttempts

\* Past the creation of the row the row exists.
RowExists(w) == pc[w] \notin {"idle", "create"} => callState # "absent"

\* A handler that works on an attempt works on an existing one.
LegInRange(w) ==
    pc[w] \in {"dial", "commit", "ring", "dialFailed", "markAnswered",
               "bridge", "buyerHangup"} => leg[w] \in AttemptIds

Dialling(w) == pc[w] \in {"dial", "commit"}

\* The handler that dials an attempt is the only one and has not stored it.
SoleDialler(w) ==
    Dialling(w) =>
        /\ attempts[leg[w]].leg = "null"
        /\ \A v \in Workers : Dialling(v) /\ leg[v] = leg[w] => v = w

\* Only a stored leg is ever found by an event.
FoundLegStored(w) ==
    pc[w] \in {"markAnswered", "buyerHangup"} => attempts[leg[w]].leg = "stored"

HandlersInv ==
    \A w \in Workers :
        RowExists(w) /\ LegInRange(w) /\ SoleDialler(w) /\ FoundLegStored(w)

\* The legs that are bridged or that a handler is about to bridge.
Bridging == bridged \cup {leg[w] : w \in {v \in Workers : pc[v] = "bridge"}}

BridgeInv ==
    /\ \A i, j \in Bridging : i = j
    /\ Bridging # {} => callState = "COMPLETED"

IInv == TypeOK /\ RowsInv /\ HandlersInv /\ BridgeInv

-----------------------------------------------------------------------------
(***************************************************************************)
(* The other writes to the attempts table, row by row.                     *)
(***************************************************************************)

LEMMA PrepareDialEffect ==
    ASSUME TypeOK, NEW w \in Workers, NEW b \in Buyers, prepareDial(w, b)
    PROVE  /\ Len(attempts) \in Nat /\ Len(attempts') = Len(attempts) + 1
           /\ \A j \in AttemptIds : attempts'[j] = attempts[j]
           /\ attempts'[Len(attempts) + 1] = NewAttempt(b)
  BY DEF prepareDial, TypeOK, DatabaseTypeOK, AttemptIds

LEMMA CommitEffect ==
    ASSUME TypeOK, NEW w \in Workers, commitBuyerDial(w), leg[w] \in AttemptIds
    PROVE  /\ AttemptIds' = AttemptIds
           /\ \A j \in AttemptIds :
                /\ attempts'[j].buyer = attempts[j].buyer
                /\ attempts'[j].leg = IF j = leg[w] THEN "stored"
                                                    ELSE attempts[j].leg
                /\ attempts'[j].state =
                     IF j = leg[w] /\ callState # "ROUTING"
                     THEN "CANCELED" ELSE attempts[j].state
  <1>1. attempts \in [1..Len(attempts) -> Attempt] /\ Len(attempts) \in Nat
    BY DEF TypeOK, DatabaseTypeOK
  <1>2. attempts' \in [1..Len(attempts) -> Attempt]
    BY <1>1 DEF commitBuyerDial, Attempt, AttemptStates, LegColumn
  <1>3. Len(attempts') = Len(attempts)
    BY <1>1, <1>2
  <1>4. QED
    BY <1>1, <1>3 DEF commitBuyerDial, Attempt, AttemptIds

LEMMA CallerHangupEffect ==
    ASSUME TypeOK, NEW w \in Workers, handleCallerHangup(w)
    PROVE  /\ AttemptIds' = AttemptIds
           /\ \A j \in AttemptIds :
                /\ attempts'[j].buyer = attempts[j].buyer
                /\ attempts'[j].leg = attempts[j].leg
                /\ attempts'[j].state =
                     IF attempts[j].state \in {"INITIATED", "RINGING"}
                     THEN "CANCELED" ELSE attempts[j].state
  <1>1. attempts \in [1..Len(attempts) -> Attempt] /\ Len(attempts) \in Nat
    BY DEF TypeOK, DatabaseTypeOK
  <1>2. /\ Len(attempts') = Len(attempts)
        /\ \A j \in 1..Len(attempts) : attempts'[j] =
             IF CanceledByCaller(attempts[j].state)
             THEN [attempts[j] EXCEPT !.state = "CANCELED"] ELSE attempts[j]
    BY <1>1 DEF handleCallerHangup, AttemptIds
  <1>3. QED
    BY <1>1, <1>2 DEF AttemptIds, Attempt, CanceledByCaller

-----------------------------------------------------------------------------
(***************************************************************************)
(* RowsInv, one step of the proof per action that writes the rows.         *)
(***************************************************************************)
LEMMA RowType ==
    ASSUME TypeOK
    PROVE  \A i \in AttemptIds :
             /\ attempts[i].state \in AttemptStates
             /\ attempts[i].buyer \in Buyers
             /\ attempts[i].leg \in LegColumn
  <1>1. \A i \in AttemptIds : attempts[i] \in Attempt
    BY DEF TypeOK, DatabaseTypeOK, AttemptIds
  <1>2. QED
    BY <1>1 DEF Attempt

LEMMA RowsInit == Init => RowsInv
  BY DEF Init, RowsInv, NoAttemptsYet, UnknownLegs, CanceledAttempts,
         OneActiveAttempt, ActiveAttempts, NoBuyerTwice, OneWinner,
         SettledAttempts, AttemptIds

LEMMA RowsQuiet ==
    ASSUME RowsInv, UNCHANGED <<callState, attempts>>
    PROVE  RowsInv'
  BY DEF RowsInv, NoAttemptsYet, UnknownLegs, CanceledAttempts,
         OneActiveAttempt, ActiveAttempts, NoBuyerTwice, OneWinner, Won,
         SettledAttempts, AttemptIds

\* The call's own state changes; no attempt does.
LEMMA RowsCallState ==
    ASSUME TypeOK, RowsInv, HandlersInv, NEW w \in Workers,
           \/ CreateBlocked(w) \/ createCall(w) \/ startRouting(w)
           \/ prepareFailed(w) \/ prepareNoAnswer(w)
    PROVE  RowsInv'
  <1> USE DEF RowsInv, NoAttemptsYet, UnknownLegs, CanceledAttempts,
              OneActiveAttempt, ActiveAttempts, NoBuyerTwice, OneWinner, Won,
              SettledAttempts
  <1>1. attempts' = attempts /\ AttemptIds' = AttemptIds
    BY DEF CreateBlocked, createCall, startRouting, prepareFailed,
           prepareNoAnswer, AttemptIds
  <1>2. CASE CreateBlocked(w) \/ createCall(w)
    BY <1>1, <1>2 DEF CreateBlocked, createCall
  <1>3. CASE startRouting(w)
    <2>1. callState # "absent"
      BY <1>3 DEF startRouting, Locked, HandlersInv, RowExists
    <2>2. CASE callState' = callState
      BY <1>1, <2>2
    <2>3. CASE callState' # callState
      <3>1. callState = "INITIATED" /\ callState' = "ROUTING"
        BY <1>3, <2>1, <2>3
           DEF startRouting, isValidTransition, VALID_CALL_TRANSITIONS, TypeOK,
               DatabaseTypeOK, CallStates
      <3>2. QED
        BY <1>1, <3>1
    <2>4. QED
      BY <2>2, <2>3
  <1>4. CASE prepareFailed(w) \/ prepareNoAnswer(w)
    <2>1. /\ callState = "ROUTING" /\ callState' \in {"FAILED", "NO_ANSWER"}
          /\ ActiveAttempts = {}
      BY <1>4 DEF prepareFailed, prepareNoAnswer, MayChooseBuyer
    <2>2. \A i \in AttemptIds :
            attempts[i].state \in {"NO_ANSWER", "FAILED"}
      BY <2>1, RowType DEF AttemptStates
    <2>3. QED
      BY <1>1, <2>1, <2>2
  <1>5. QED
    BY <1>2, <1>3, <1>4

LEMMA RowsPrepareDial ==
    ASSUME TypeOK, RowsInv, NEW w \in Workers, NEW b \in Buyers,
           prepareDial(w, b)
    PROVE  RowsInv'
  <1>1. /\ Len(attempts) \in Nat /\ Len(attempts') = Len(attempts) + 1
        /\ \A j \in AttemptIds : attempts'[j] = attempts[j]
        /\ attempts'[Len(attempts) + 1] = NewAttempt(b)
    BY PrepareDialEffect
  <1>2. AttemptIds' = AttemptIds \cup {Len(attempts) + 1}
    BY <1>1 DEF AttemptIds
  <1>3. callState = "ROUTING" /\ callState' = "ROUTING" /\ ActiveAttempts = {}
    BY DEF prepareDial, MayChooseBuyer
  <1>4. \A j \in AttemptIds : attempts[j].buyer # b
    BY DEF prepareDial, IsNextBuyer, Untried, Tried
  <1>5. /\ attempts'[Len(attempts) + 1].buyer = b
        /\ attempts'[Len(attempts) + 1].state = "INITIATED"
    BY <1>1 DEF NewAttempt
  <1>6. OneActiveAttempt' /\ NoBuyerTwice'
    BY <1>1, <1>2, <1>3, <1>4, <1>5
       DEF OneActiveAttempt, ActiveAttempts, RowsInv, NoBuyerTwice
  <1>7. OneWinner' /\ SettledAttempts' /\ CanceledAttempts'
    BY <1>1, <1>2, <1>3, <1>5
       DEF RowsInv, OneWinner, Won, SettledAttempts, CanceledAttempts
  <1>8. UnknownLegs' /\ NoAttemptsYet'
    BY <1>1, <1>2, <1>3, <1>5 DEF RowsInv, UnknownLegs, NoAttemptsYet
  <1>9. QED
    BY <1>6, <1>7, <1>8 DEF RowsInv

LEMMA RowsCommit ==
    ASSUME TypeOK, RowsInv, HandlersInv, NEW w \in Workers, commitBuyerDial(w)
    PROVE  RowsInv'
  <1>1. /\ leg[w] \in AttemptIds /\ attempts[leg[w]].leg = "null"
        /\ callState # "absent"
    BY DEF HandlersInv, LegInRange, SoleDialler, Dialling, RowExists,
           commitBuyerDial, Locked
  <1>2. callState' = callState
    BY DEF commitBuyerDial
  <1>3. /\ AttemptIds' = AttemptIds
        /\ \A j \in AttemptIds :
             /\ attempts'[j].buyer = attempts[j].buyer
             /\ attempts'[j].leg = IF j = leg[w] THEN "stored"
                                                 ELSE attempts[j].leg
             /\ attempts'[j].state =
                  IF j = leg[w] /\ callState # "ROUTING"
                  THEN "CANCELED" ELSE attempts[j].state
    BY <1>1, CommitEffect
  <1>4. callState \notin {"absent", "INITIATED"}
    BY <1>1 DEF RowsInv, NoAttemptsYet
  <1>5. callState \in {"ROUTING", "COMPLETED", "NO_ANSWER", "FAILED", "CANCELED"}
    BY <1>4 DEF TypeOK, DatabaseTypeOK, CallStates
  <1>6. OneActiveAttempt' /\ NoBuyerTwice' /\ NoAttemptsYet'
    BY <1>2, <1>3
       DEF OneActiveAttempt, ActiveAttempts, RowsInv, NoBuyerTwice, NoAttemptsYet
  <1>7. OneWinner' /\ SettledAttempts' /\ CanceledAttempts'
    BY <1>2, <1>3, <1>5
       DEF RowsInv, OneWinner, Won, SettledAttempts, CanceledAttempts
  <1>8. UnknownLegs'
    BY <1>3 DEF RowsInv, UnknownLegs
  <1>9. QED
    BY <1>6, <1>7, <1>8 DEF RowsInv

\* transitionAttempt: RINGING or FAILED, where the table of transitions allows.
LEMMA RowsTransitionAttempt ==
    ASSUME TypeOK, RowsInv, NEW w \in Workers, startRinging(w) \/ dialFailed(w)
    PROVE  RowsInv'
  <1>1. callState' = callState
    BY DEF startRinging, dialFailed
  <1>2. CASE UNCHANGED attempts
    BY <1>1, <1>2, RowsQuiet
  <1>3. ASSUME NEW s \in {"RINGING", "FAILED"}, SetAttempt(leg[w], s),
               isValidAttemptTransition(attempts[leg[w]].state, s)
        PROVE  RowsInv'
    <2>1. leg[w] \in Nat /\ s \in AttemptStates
      BY DEF TypeOK, HandlersTypeOK, AttemptStates
    <2>2. /\ AttemptIds' = AttemptIds
          /\ \A j \in AttemptIds :
               /\ attempts'[j].buyer = attempts[j].buyer
               /\ attempts'[j].leg = attempts[j].leg
               /\ attempts'[j].state = IF j = leg[w] THEN s
                                                     ELSE attempts[j].state
      BY <1>3, <2>1, SetAttemptEffect DEF TypeOK, DatabaseTypeOK, AttemptIds
    <2>3. leg[w] \in AttemptIds =>
            \/ s = "RINGING" /\ attempts[leg[w]].state \in {"INITIATED", "RINGING"}
            \/ s = "FAILED" /\ attempts[leg[w]].state
                                \in {"INITIATED", "RINGING", "ANSWERED", "FAILED"}
      BY <1>3, RowType DEF isValidAttemptTransition, VALID_ATTEMPT_TRANSITIONS,
                           AttemptStates
    <2>4. OneActiveAttempt' /\ NoBuyerTwice' /\ NoAttemptsYet'
      BY <1>1, <2>2, <2>3 DEF OneActiveAttempt, ActiveAttempts, RowsInv,
                              NoBuyerTwice, NoAttemptsYet
    <2>5. OneWinner' /\ SettledAttempts' /\ CanceledAttempts'
      BY <1>1, <2>2, <2>3 DEF RowsInv, OneWinner, Won, SettledAttempts,
                              CanceledAttempts
    <2>6. UnknownLegs'
      BY <2>2, <2>3 DEF RowsInv, UnknownLegs
    <2>7. QED
      BY <2>4, <2>5, <2>6 DEF RowsInv
  <1>4. QED
    BY <1>2, <1>3 DEF startRinging, dialFailed

LEMMA RowsMarkCallAnswered ==
    ASSUME TypeOK, RowsInv, HandlersInv, NEW w \in Workers, markCallAnswered(w)
    PROVE  RowsInv'
  <1>1. CASE UNCHANGED <<callState, attempts>>
    BY <1>1, RowsQuiet
  <1>2. CASE CanBeAnswered /\ SetAttempt(leg[w], "ANSWERED")
             /\ callState' = "COMPLETED"
    <2>1. /\ leg[w] \in AttemptIds /\ attempts[leg[w]].leg = "stored"
          /\ callState = "ROUTING"
      BY <1>2 DEF HandlersInv, LegInRange, FoundLegStored, markCallAnswered,
                  Locked, CanBeAnswered
    <2>2. /\ AttemptIds' = AttemptIds
          /\ \A j \in AttemptIds :
               /\ attempts'[j].buyer = attempts[j].buyer
               /\ attempts'[j].leg = attempts[j].leg
               /\ attempts'[j].state = IF j = leg[w] THEN "ANSWERED"
                                                     ELSE attempts[j].state
      <3>1. leg[w] \in Nat /\ "ANSWERED" \in AttemptStates
        BY DEF TypeOK, HandlersTypeOK, AttemptStates
      <3>2. QED
        BY <1>2, <3>1, SetAttemptEffect DEF TypeOK, DatabaseTypeOK, AttemptIds
    <2>3. OneActiveAttempt' /\ NoBuyerTwice' /\ NoAttemptsYet'
      BY <1>2, <2>2 DEF OneActiveAttempt, ActiveAttempts, RowsInv,
                        NoBuyerTwice, NoAttemptsYet
    <2>4. OneWinner' /\ SettledAttempts' /\ CanceledAttempts'
      BY <1>2, <2>1, <2>2 DEF RowsInv, OneWinner, Won, SettledAttempts,
                              CanceledAttempts
    <2>5. UnknownLegs'
      BY <2>1, <2>2 DEF RowsInv, UnknownLegs
    <2>6. QED
      BY <2>3, <2>4, <2>5 DEF RowsInv
  <1>3. QED
    BY <1>1, <1>2 DEF markCallAnswered

LEMMA RowsCallerHangup ==
    ASSUME TypeOK, RowsInv, HandlersInv, NEW w \in Workers, handleCallerHangup(w)
    PROVE  RowsInv'
  <1>1. callState # "absent"
    BY DEF HandlersInv, RowExists, handleCallerHangup, Locked
  <1>2. /\ callState \in {"INITIATED", "ROUTING"} => callState' = "CANCELED"
        /\ callState \notin {"INITIATED", "ROUTING"} => callState' = callState
    BY DEF handleCallerHangup, FinalState
  <1>3. /\ AttemptIds' = AttemptIds
        /\ \A j \in AttemptIds :
             /\ attempts'[j].buyer = attempts[j].buyer
             /\ attempts'[j].leg = attempts[j].leg
             /\ attempts'[j].state =
                  IF attempts[j].state \in {"INITIATED", "RINGING"}
                  THEN "CANCELED" ELSE attempts[j].state
    BY CallerHangupEffect
  <1>4. callState' \in {"COMPLETED", "NO_ANSWER", "FAILED", "CANCELED"}
    BY <1>1, <1>2 DEF TypeOK, DatabaseTypeOK, CallStates
  <1>5. OneActiveAttempt' /\ NoBuyerTwice' /\ NoAttemptsYet'
    BY <1>3, <1>4 DEF OneActiveAttempt, ActiveAttempts, RowsInv, NoBuyerTwice,
                      NoAttemptsYet
  <1>6. OneWinner' /\ CanceledAttempts'
    BY <1>2, <1>3, <1>4 DEF RowsInv, OneWinner, Won, CanceledAttempts
  <1>7. SettledAttempts'
    BY <1>1, <1>2, <1>3, RowType
       DEF RowsInv, OneWinner, Won, SettledAttempts, AttemptStates
  <1>8. UnknownLegs'
    BY <1>3 DEF RowsInv, UnknownLegs
  <1>9. QED
    BY <1>5, <1>6, <1>7, <1>8 DEF RowsInv

LEMMA RowsBuyerHangup ==
    ASSUME TypeOK, RowsInv, HandlersInv, NEW w \in Workers, handleBuyerHangup(w)
    PROVE  RowsInv'
  <1>1. callState' = callState
    BY DEF handleBuyerHangup
  <1>2. CASE UNCHANGED attempts
    BY <1>1, <1>2, RowsQuiet
  <1>3. ASSUME NEW s, SetAttempt(leg[w], s),
               \/ s = "COMPLETED" /\ ConnectedBuyerLeft(leg[w])
               \/ s = "NO_ANSWER" /\ callState = "ROUTING"
        PROVE  RowsInv'
    <2>1. leg[w] \in AttemptIds /\ attempts[leg[w]].leg = "stored"
      BY DEF HandlersInv, LegInRange, FoundLegStored, handleBuyerHangup, Locked
    <2>2. /\ AttemptIds' = AttemptIds
          /\ \A j \in AttemptIds :
               /\ attempts'[j].buyer = attempts[j].buyer
               /\ attempts'[j].leg = attempts[j].leg
               /\ attempts'[j].state = IF j = leg[w] THEN s
                                                     ELSE attempts[j].state
      <3>1. leg[w] \in Nat /\ s \in AttemptStates
        BY <1>3 DEF TypeOK, HandlersTypeOK, AttemptStates
      <3>2. QED
        BY <1>3, <3>1, SetAttemptEffect DEF TypeOK, DatabaseTypeOK, AttemptIds
    <2>3. OneActiveAttempt' /\ NoBuyerTwice' /\ NoAttemptsYet'
      BY <1>1, <1>3, <2>2 DEF OneActiveAttempt, ActiveAttempts, RowsInv,
                              NoBuyerTwice, NoAttemptsYet
    <2>4. OneWinner' /\ SettledAttempts' /\ CanceledAttempts'
      BY <1>1, <1>3, <2>2 DEF RowsInv, OneWinner, Won, SettledAttempts,
                              CanceledAttempts, ConnectedBuyerLeft
    <2>5. UnknownLegs'
      BY <2>1, <2>2 DEF RowsInv, UnknownLegs
    <2>6. QED
      BY <2>3, <2>4, <2>5 DEF RowsInv
  <1>4. QED
    BY <1>2, <1>3 DEF handleBuyerHangup

\* Whatever a handler does next, the rows keep RowsInv.
LEMMA RowsHandler ==
    ASSUME TypeOK, RowsInv, HandlersInv, NEW w \in Workers, HandlerStep(w)
    PROVE  RowsInv'
  <1>1. CASE \/ IgnoreUnknownNumber(w) \/ CreateConflict(w) \/ answerCall(w)
             \/ prepareNone(w) \/ dialBuyer(w) \/ bridgeCalls(w)
             \/ txThrows(w) \/ \E l \in todo[w] : hangupCall(w, l)
    BY <1>1, RowsQuiet
       DEF IgnoreUnknownNumber, CreateConflict, answerCall, prepareNone,
           dialBuyer, bridgeCalls, txThrows, hangupCall, dbVars
  <1>2. QED
    BY <1>1, RowsCallState, RowsPrepareDial, RowsCommit, RowsTransitionAttempt,
       RowsMarkCallAnswered, RowsCallerHangup, RowsBuyerHangup DEF HandlerStep

\* The rest of the system does not touch the rows.
LEMMA OthersKeepRows ==
    ASSUME NEW w \in Workers, NEW e \in hooks, Receive(w, e)
    PROVE  UNCHANGED <<callState, attempts>>
  BY DEF Receive, dbVars

LEMMA EnvironmentKeepsRows ==
    ASSUME PhoneStep \/ (\E k \in Link : addBuyerToCampaign(k)) \/ Restart
    PROVE  UNCHANGED <<callState, attempts>>
  BY DEF PhoneStep, CallerDials, BuyerAnswers, BuyerDoesNotAnswer, HangsUp,
         addBuyerToCampaign, Restart, dbVars

LEMMA RowsNext ==
    ASSUME TypeOK, RowsInv, HandlersInv, [Next]_vars
    PROVE  RowsInv'
  <1>1. CASE UNCHANGED vars
    BY <1>1, RowsQuiet DEF vars
  <1>2. QED
    BY <1>1, RowsQuiet, RowsHandler, OthersKeepRows, EnvironmentKeepsRows
       DEF Next

-----------------------------------------------------------------------------
(***************************************************************************)
(* HandlersInv: what one handler's step does to the rows and to itself.    *)
(***************************************************************************)

\* Rows are never deleted, and a leg is stored only by its own dialler.
LEMMA RowsOnlyGrow ==
    ASSUME TypeOK, HandlersInv, NEW w \in Workers, HandlerStep(w)
    PROVE  /\ AttemptIds \subseteq AttemptIds'
           /\ callState # "absent" => callState' # "absent"
           /\ \A i \in AttemptIds :
                \/ attempts'[i].leg = attempts[i].leg
                \/ pc[w] = "commit" /\ i = leg[w] /\ attempts'[i].leg = "stored"
  <1> DEFINE Grows ==
        /\ AttemptIds \subseteq AttemptIds'
        /\ callState # "absent" => callState' # "absent"
        /\ \A i \in AttemptIds :
             \/ attempts'[i].leg = attempts[i].leg
             \/ pc[w] = "commit" /\ i = leg[w] /\ attempts'[i].leg = "stored"
  <1>1. leg[w] \in Nat /\ attempts \in Seq(Attempt)
    BY DEF TypeOK, HandlersTypeOK, DatabaseTypeOK
  <1>2. CASE UNCHANGED attempts
    <2>1. callState # "absent" => callState' # "absent"
      BY <1>2
         DEF HandlerStep, IgnoreUnknownNumber, CreateConflict, CreateBlocked,
             createCall, answerCall, startRouting, prepareNone, prepareFailed,
             prepareNoAnswer, prepareDial, dialBuyer, commitBuyerDial,
             startRinging, dialFailed, markCallAnswered, bridgeCalls,
             handleCallerHangup, FinalState, handleBuyerHangup, hangupCall,
             txThrows, dbVars
    <2>2. QED
      BY <1>2, <2>1 DEF AttemptIds
  <1>3. ASSUME NEW b \in Buyers, prepareDial(w, b)
        PROVE  Grows
    BY <1>3, PrepareDialEffect DEF prepareDial, AttemptIds
  <1>4. CASE commitBuyerDial(w)
    <2>1. leg[w] \in AttemptIds /\ pc[w] = "commit"
      BY <1>4 DEF HandlersInv, LegInRange, commitBuyerDial, Locked
    <2>2. QED
      BY <1>4, <2>1, CommitEffect DEF commitBuyerDial
  <1>5. ASSUME NEW s \in AttemptStates, SetAttempt(leg[w], s),
               callState' \in {callState, "COMPLETED"}
        PROVE  Grows
    BY <1>1, <1>5, SetAttemptEffect DEF AttemptIds
  <1>6. CASE startRinging(w) \/ dialFailed(w)
    BY <1>2, <1>5, <1>6 DEF startRinging, dialFailed, AttemptStates
  <1>7. CASE markCallAnswered(w) \/ handleBuyerHangup(w)
    BY <1>2, <1>5, <1>7 DEF markCallAnswered, handleBuyerHangup, AttemptStates
  <1>8. CASE handleCallerHangup(w)
    BY <1>8, CallerHangupEffect DEF handleCallerHangup, FinalState
  <1>9. CASE \/ IgnoreUnknownNumber(w) \/ CreateConflict(w) \/ CreateBlocked(w)
             \/ createCall(w) \/ answerCall(w) \/ startRouting(w)
             \/ prepareNone(w) \/ prepareFailed(w) \/ prepareNoAnswer(w)
    BY <1>2, <1>9
       DEF IgnoreUnknownNumber, CreateConflict, CreateBlocked, createCall,
           answerCall, startRouting, prepareNone, prepareFailed,
           prepareNoAnswer, dbVars
  <1>10. CASE \/ dialBuyer(w) \/ bridgeCalls(w) \/ txThrows(w)
              \/ \E l \in todo[w] : hangupCall(w, l)
    BY <1>2, <1>10 DEF dialBuyer, bridgeCalls, txThrows, hangupCall, dbVars
  <1>11. QED
    BY <1>3, <1>4, <1>6, <1>7, <1>8, <1>9, <1>10 DEF HandlerStep

\* One handler's step moves no other handler.
LEMMA OtherHandlers ==
    ASSUME TypeOK, NEW w \in Workers, HandlerStep(w)
    PROVE  \A v \in Workers \ {w} : pc'[v] = pc[v] /\ leg'[v] = leg[v]
  <1>1. ASSUME NEW s, NEW l, Goto(w, s, l)
        PROVE  \A v \in Workers \ {w} : pc'[v] = pc[v] /\ leg'[v] = leg[v]
    BY <1>1 DEF Goto, TypeOK, HandlersTypeOK
  <1>2. \E s, l : Goto(w, s, l)
    BY DEF HandlerStep, IgnoreUnknownNumber, CreateConflict, CreateBlocked,
           createCall, answerCall, startRouting, prepareNone, prepareFailed,
           prepareNoAnswer, prepareDial, dialBuyer, commitBuyerDial,
           startRinging, dialFailed, markCallAnswered, bridgeCalls,
           handleCallerHangup, handleBuyerHangup, hangupCall, txThrows,
           GoHangUp, Return
  <1>3. QED
    BY <1>1, <1>2

\* The handler itself: where it goes, and on which attempt.
OwnStep(w) ==
    \/ pc'[w] = "idle"
    \/ pc'[w] = "hangup" /\ callState' # "absent"
    \/ pc'[w] \in {"answer", "prepare"} /\ callState' # "absent"
    \/ /\ pc'[w] = "dial" /\ callState # "absent"
       /\ leg'[w] \in AttemptIds' \ AttemptIds
       /\ attempts'[leg'[w]].leg = "null"
    \/ pc[w] = "dial" /\ pc'[w] = "commit" /\ leg'[w] = leg[w]
    \/ pc[w] = "commit" /\ pc'[w] = "ring" /\ leg'[w] = leg[w]
    \/ /\ pc[w] \in {"dial", "commit", "ring"}
       /\ pc'[w] = "dialFailed" /\ leg'[w] = leg[w]
    \/ pc[w] = "markAnswered" /\ pc'[w] = "bridge" /\ leg'[w] = leg[w]

LEMMA HandlerOwnStep ==
    ASSUME TypeOK, HandlersInv, NEW w \in Workers, HandlerStep(w)
    PROVE  OwnStep(w)
  <1>1. ASSUME NEW s, NEW l, Goto(w, s, l)
        PROVE  pc'[w] = s /\ leg'[w] = l
    BY <1>1 DEF Goto, TypeOK, HandlersTypeOK
  <1>2. ASSUME Return(w)
        PROVE  pc'[w] = "idle"
    BY <1>1, <1>2 DEF Return
  <1>3. ASSUME NEW ls, GoHangUp(w, ls)
        PROVE  pc'[w] \in {"idle", "hangup"}
    BY <1>1, <1>2, <1>3 DEF GoHangUp
  <1>4. pc[w] \notin {"idle", "create"} => callState # "absent"
    BY DEF HandlersInv, RowExists
  <1>5. CASE \/ IgnoreUnknownNumber(w) \/ CreateConflict(w) \/ answerCall(w)
             \/ prepareNone(w) \/ bridgeCalls(w)
    BY <1>2, <1>5 DEF IgnoreUnknownNumber, CreateConflict, answerCall,
                      prepareNone, bridgeCalls, OwnStep
  <1>6. CASE CreateBlocked(w) \/ prepareFailed(w) \/ prepareNoAnswer(w)
    BY <1>3, <1>6 DEF CreateBlocked, prepareFailed, prepareNoAnswer, OwnStep
  <1>7. CASE createCall(w)
    BY <1>1, <1>7 DEF createCall, OwnStep
  <1>8. CASE startRouting(w)
    BY <1>1, <1>2, <1>8 DEF startRouting, OwnStep
  <1>9. ASSUME NEW b \in Buyers, prepareDial(w, b)
        PROVE  OwnStep(w)
    BY <1>1, <1>9, PrepareDialEffect
       DEF prepareDial, MayChooseBuyer, NewAttempt, AttemptIds, OwnStep
  <1>10. CASE dialBuyer(w)
    BY <1>1, <1>10 DEF dialBuyer, OwnStep
  <1>11. CASE commitBuyerDial(w)
    BY <1>1, <1>3, <1>4, <1>11 DEF commitBuyerDial, Locked, OwnStep
  <1>12. CASE startRinging(w)
    BY <1>1, <1>2, <1>12 DEF startRinging, Locked, OwnStep
  <1>13. CASE dialFailed(w)
    BY <1>1, <1>2, <1>4, <1>13 DEF dialFailed, Locked, OwnStep
  <1>14. CASE markCallAnswered(w)
    BY <1>1, <1>3, <1>4, <1>14 DEF markCallAnswered, Locked, OwnStep
  <1>15. CASE handleCallerHangup(w)
    <2>1. pc'[w] \in {"idle", "hangup"} /\ callState # "absent"
      BY <1>3, <1>4, <1>15 DEF handleCallerHangup, Locked
    <2>2. callState' # "absent"
      BY <1>15, <2>1 DEF handleCallerHangup, FinalState
    <2>3. QED
      BY <2>1, <2>2 DEF OwnStep
  <1>16. CASE handleBuyerHangup(w)
    BY <1>1, <1>2, <1>3, <1>4, <1>16 DEF handleBuyerHangup, Locked, OwnStep
  <1>17. ASSUME NEW l \in todo[w], hangupCall(w, l)
         PROVE  OwnStep(w)
    BY <1>3, <1>4, <1>17 DEF hangupCall, dbVars, OwnStep
  <1>18. CASE txThrows(w)
    BY <1>1, <1>2, <1>18 DEF txThrows, OwnStep
  <1>19. QED
    BY <1>5, <1>6, <1>7, <1>8, <1>9, <1>10, <1>11, <1>12, <1>13, <1>14, <1>15,
       <1>16, <1>17, <1>18 DEF HandlerStep

LEMMA HandlersHandler ==
    ASSUME TypeOK, HandlersInv, NEW w \in Workers, HandlerStep(w)
    PROVE  HandlersInv'
  <1>1. \A v \in Workers \ {w} : pc'[v] = pc[v] /\ leg'[v] = leg[v]
    BY OtherHandlers
  <1>2. /\ AttemptIds \subseteq AttemptIds'
        /\ callState # "absent" => callState' # "absent"
        /\ \A i \in AttemptIds :
             \/ attempts'[i].leg = attempts[i].leg
             \/ pc[w] = "commit" /\ i = leg[w] /\ attempts'[i].leg = "stored"
    BY RowsOnlyGrow
  <1>3. OwnStep(w)
    BY HandlerOwnStep
  <1>4. \A v \in Workers : RowExists(v)'
    BY <1>1, <1>2, <1>3 DEF OwnStep, HandlersInv, RowExists
  <1>5. \A v \in Workers : LegInRange(v)'
    BY <1>1, <1>2, <1>3 DEF OwnStep, HandlersInv, LegInRange
  <1>6. \A v \in Workers : FoundLegStored(v)'
    BY <1>1, <1>2, <1>3 DEF OwnStep, HandlersInv, FoundLegStored, LegInRange
  <1>7. ASSUME NEW v \in Workers
        PROVE  SoleDialler(v)'
    <2> SUFFICES ASSUME Dialling(v)'
                 PROVE  /\ attempts'[leg'[v]].leg = "null"
                        /\ \A u \in Workers :
                             Dialling(u)' /\ leg'[u] = leg'[v] => u = v
      BY DEF SoleDialler
    <2>1. \A u \in Workers \ {w} : Dialling(u)' =>
            /\ Dialling(u)
            /\ leg'[u] = leg[u] /\ leg[u] \in AttemptIds
            /\ attempts[leg[u]].leg = "null"
      BY <1>1 DEF Dialling, HandlersInv, SoleDialler, LegInRange
    <2>2. Dialling(w)' =>
            \/ leg'[w] \notin AttemptIds /\ attempts'[leg'[w]].leg = "null"
            \/ /\ pc[w] = "dial" /\ Dialling(w) /\ leg'[w] = leg[w]
               /\ leg[w] \in AttemptIds /\ attempts[leg[w]].leg = "null"
      BY <1>3 DEF OwnStep, Dialling, HandlersInv, SoleDialler, LegInRange
    <2>3. \A u, x \in Workers :
            Dialling(u) /\ Dialling(x) /\ leg[u] = leg[x] => u = x
      BY DEF HandlersInv, SoleDialler
    <2>4. attempts'[leg'[v]].leg = "null"
      <3>1. CASE v = w
        BY <1>2, <2>2, <3>1
      <3>2. CASE v # w
        <4>1. pc[w] = "commit" => leg[w] # leg[v]
          BY <2>1, <2>3, <3>2 DEF Dialling
        <4>2. QED
          BY <1>2, <2>1, <3>2, <4>1
      <3>3. QED
        BY <3>1, <3>2
    <2>5. \A u \in Workers : Dialling(u)' /\ leg'[u] = leg'[v] => u = v
      BY <2>1, <2>2, <2>3
    <2>6. QED
      BY <2>4, <2>5
  <1>8. QED
    BY <1>4, <1>5, <1>6, <1>7 DEF HandlersInv

\* An event reaches an attempt only through its stored leg.
LEMMA HandlersReceive ==
    ASSUME TypeOK, RowsInv, HandlersInv,
           NEW w \in Workers, NEW e \in hooks, Receive(w, e)
    PROVE  HandlersInv'
  <1>1. /\ e.leg \in Nat /\ e.type \in EventTypes
        /\ UNCHANGED <<callState, attempts>> /\ AttemptIds' = AttemptIds
    BY DEF TypeOK, PhonesTypeOK, Events, Receive, dbVars, AttemptIds
  <1>2. \A v \in Workers \ {w} : pc'[v] = pc[v] /\ leg'[v] = leg[v]
    BY DEF Receive, Goto, TypeOK, HandlersTypeOK
  <1>3. /\ pc'[w] = Branch(e)
        /\ pc'[w] # "idle" => leg'[w] = e.leg
    BY DEF Receive, Goto, TypeOK, HandlersTypeOK
  <1>4. 0 \notin AttemptIds
    BY DEF AttemptIds
  <1>5. Branch(e) \in {"idle", "create", "startRouting", "markAnswered",
                       "callerHangup", "buyerHangup"}
    BY <1>1 DEF Branch, EventTypes
  <1>6. Branch(e) \in {"markAnswered", "buyerHangup"} =>
          /\ e.leg \in AttemptIds /\ attempts[e.leg].leg = "stored"
          /\ callState # "absent"
    BY <1>1, <1>4 DEF Branch, EventTypes, Known, CallerLeg, RowsInv,
                      NoAttemptsYet
  <1>7. Branch(e) \in {"startRouting", "callerHangup"} => callState # "absent"
    BY <1>1, <1>4 DEF Branch, EventTypes, Known, CallerLeg, RowsInv,
                      NoAttemptsYet
  <1>8. \A v \in Workers : RowExists(v)' /\ LegInRange(v)' /\ FoundLegStored(v)'
    BY <1>1, <1>2, <1>3, <1>5, <1>6, <1>7
       DEF HandlersInv, RowExists, LegInRange, FoundLegStored
  <1>9. \A v \in Workers : SoleDialler(v)'
    BY <1>1, <1>2, <1>3, <1>5 DEF HandlersInv, SoleDialler, Dialling
  <1>10. QED
    BY <1>8, <1>9 DEF HandlersInv

LEMMA HandlersQuiet ==
    ASSUME HandlersInv, UNCHANGED <<callState, attempts, pc, leg>>
    PROVE  HandlersInv'
  BY DEF HandlersInv, RowExists, LegInRange, SoleDialler, Dialling,
         FoundLegStored, AttemptIds

LEMMA HandlersNext ==
    ASSUME TypeOK, RowsInv, HandlersInv, [Next]_vars
    PROVE  HandlersInv'
  <1>1. CASE UNCHANGED vars
    BY <1>1, HandlersQuiet DEF vars
  <1>2. CASE PhoneStep \/ \E k \in Link : addBuyerToCampaign(k)
    <2>1. UNCHANGED <<callState, attempts, pc, leg>>
      BY <1>2 DEF PhoneStep, CallerDials, BuyerAnswers, BuyerDoesNotAnswer,
                  HangsUp, addBuyerToCampaign, dbVars
    <2>2. QED
      BY <2>1, HandlersQuiet
  <1>3. CASE Restart
    BY <1>3 DEF Restart, HandlersInv, RowExists, LegInRange, SoleDialler,
                Dialling, FoundLegStored
  <1>4. QED
    BY <1>1, <1>2, <1>3, HandlersHandler, HandlersReceive DEF Next

-----------------------------------------------------------------------------
(***************************************************************************)
(* A call that ended stays as it ended; BridgeInv.                         *)
(***************************************************************************)
LEMMA Terminal ==
    TerminalCallStates = {"COMPLETED", "NO_ANSWER", "FAILED", "CANCELED"}
  BY DEF TerminalCallStates, VALID_CALL_TRANSITIONS, CallStates

LEMMA EndedCallStays ==
    ASSUME TypeOK, NEW w \in Workers, HandlerStep(w),
           callState \in {"COMPLETED", "NO_ANSWER", "FAILED", "CANCELED"}
    PROVE  callState' = callState /\ Len(attempts') = Len(attempts)
  <1>1. CASE \/ IgnoreUnknownNumber(w) \/ CreateConflict(w) \/ answerCall(w)
             \/ prepareNone(w) \/ dialBuyer(w) \/ bridgeCalls(w)
             \/ txThrows(w) \/ \E l \in todo[w] : hangupCall(w, l)
    BY <1>1 DEF IgnoreUnknownNumber, CreateConflict, answerCall, prepareNone,
                dialBuyer, bridgeCalls, txThrows, hangupCall, dbVars
  <1>2. ~(\/ CreateBlocked(w) \/ createCall(w) \/ prepareFailed(w)
          \/ prepareNoAnswer(w) \/ \E b \in Buyers : prepareDial(w, b))
    BY DEF CreateBlocked, createCall, prepareFailed, prepareNoAnswer,
           prepareDial, MayChooseBuyer
  <1>3. CASE startRouting(w)
    BY <1>3 DEF startRouting, isValidTransition, VALID_CALL_TRANSITIONS,
                CallStates
  <1>4. leg[w] \in Nat /\ attempts \in Seq(Attempt)
    BY DEF TypeOK, HandlersTypeOK, DatabaseTypeOK
  <1>5. ASSUME NEW s \in AttemptStates, SetAttempt(leg[w], s)
        PROVE  Len(attempts') = Len(attempts)
    BY <1>4, <1>5, SetAttemptEffect
  <1>6. CASE startRinging(w) \/ dialFailed(w)
    BY <1>5, <1>6 DEF startRinging, dialFailed, AttemptStates
  <1>7. CASE handleBuyerHangup(w)
    BY <1>5, <1>7 DEF handleBuyerHangup, AttemptStates
  <1>8. CASE markCallAnswered(w)
    BY <1>8 DEF markCallAnswered, CanBeAnswered
  <1>9. CASE handleCallerHangup(w)
    BY <1>4, <1>9 DEF handleCallerHangup, FinalState, AttemptIds
  <1>10. CASE commitBuyerDial(w)
    BY <1>4, <1>10 DEF commitBuyerDial
  <1>11. QED
    BY <1>1, <1>2, <1>3, <1>6, <1>7, <1>8, <1>9, <1>10 DEF HandlerStep

\* A handler comes to bridge only by winning the call for its attempt, and
\* the provider bridges only what a handler asks for.
LEMMA BridgingStep ==
    ASSUME TypeOK, HandlersInv, NEW w \in Workers, HandlerStep(w)
    PROVE  \/ Bridging' \subseteq Bridging
           \/ /\ callState = "ROUTING" /\ callState' = "COMPLETED"
              /\ bridged' = bridged /\ Bridging' \subseteq Bridging \cup {leg[w]}
              /\ pc[w] = "markAnswered"
  <1>1. \A v \in Workers \ {w} : pc'[v] = pc[v] /\ leg'[v] = leg[v]
    BY OtherHandlers
  <1>2. OwnStep(w)
    BY HandlerOwnStep
  <1>3. CASE pc'[w] = "bridge"
    <2>1. pc[w] = "markAnswered" /\ leg'[w] = leg[w]
      BY <1>2, <1>3 DEF OwnStep
    <2>2. CASE markCallAnswered(w)
      <3>1. callState = "ROUTING" /\ callState' = "COMPLETED"
        BY <1>3, <2>2 DEF markCallAnswered, CanBeAnswered, GoHangUp, Return,
                          Goto, TypeOK, HandlersTypeOK
      <3>2. bridged' = bridged
        BY <2>2 DEF markCallAnswered, phoneVars
      <3>3. QED
        BY <1>1, <2>1, <3>1, <3>2 DEF Bridging
    <2>3. CASE txThrows(w)
      BY <1>3, <2>1, <2>3 DEF txThrows, Return, Goto, TypeOK, HandlersTypeOK
    <2>4. QED
      BY <2>1, <2>2, <2>3
         DEF HandlerStep, IgnoreUnknownNumber, CreateConflict, CreateBlocked,
             createCall, answerCall, startRouting, prepareNone, prepareFailed,
             prepareNoAnswer, MayChooseBuyer, prepareDial, dialBuyer,
             commitBuyerDial, startRinging, dialFailed, bridgeCalls,
             handleCallerHangup, handleBuyerHangup, hangupCall, Locked
  <1>4. CASE pc'[w] # "bridge"
    <2>1. CASE bridgeCalls(w)
      <3>1. pc[w] = "bridge" /\ bridged' \subseteq bridged \cup {leg[w]}
        BY <2>1 DEF bridgeCalls
      <3>2. QED
        BY <1>1, <1>4, <3>1 DEF Bridging
    <2>2. CASE bridged' = bridged
      BY <1>1, <1>4, <2>2 DEF Bridging
    <2>3. bridgeCalls(w) \/ bridged' = bridged
      BY DEF HandlerStep, IgnoreUnknownNumber, CreateConflict, CreateBlocked,
             createCall, answerCall, startRouting, prepareNone, prepareFailed,
             prepareNoAnswer, prepareDial, dialBuyer, commitBuyerDial,
             startRinging, dialFailed, markCallAnswered, handleCallerHangup,
             handleBuyerHangup, hangupCall, txThrows, PickUp, EndLeg,
             PlaceLeg, phoneVars
    <2>4. QED
      BY <2>1, <2>2, <2>3
  <1>5. QED
    BY <1>3, <1>4

LEMMA BridgeQuiet ==
    ASSUME BridgeInv, callState' = callState, Bridging' \subseteq Bridging
    PROVE  BridgeInv'
  BY DEF BridgeInv, Bridging

LEMMA BridgeNext ==
    ASSUME TypeOK, HandlersInv, BridgeInv, [Next]_vars
    PROVE  BridgeInv'
  <1>1. ASSUME NEW w \in Workers, HandlerStep(w)
        PROVE  BridgeInv'
    <2>1. CASE Bridging' \subseteq Bridging
      <3>1. callState = "COMPLETED" => callState' = "COMPLETED"
        BY <1>1, EndedCallStays
      <3>2. QED
        BY <2>1, <3>1 DEF BridgeInv, Bridging
    <2>2. CASE /\ callState = "ROUTING" /\ callState' = "COMPLETED"
               /\ bridged' = bridged
               /\ Bridging' \subseteq Bridging \cup {leg[w]}
      <3>1. Bridging = {}
        BY <2>2 DEF BridgeInv
      <3>2. QED
        BY <2>2, <3>1 DEF BridgeInv
    <2>3. QED
      BY <1>1, <2>1, <2>2, BridgingStep
  <1>2. ASSUME NEW w \in Workers, NEW e \in hooks, Receive(w, e)
        PROVE  BridgeInv'
    <2>1. /\ callState' = callState /\ bridged' = bridged
          /\ \A v \in Workers \ {w} : pc'[v] = pc[v] /\ leg'[v] = leg[v]
          /\ pc'[w] = Branch(e)
      BY <1>2 DEF Receive, Goto, TypeOK, HandlersTypeOK, dbVars, phoneVars
    <2>2. Branch(e) # "bridge"
      BY DEF Branch, TypeOK, PhonesTypeOK, Events, EventTypes
    <2>3. Bridging' \subseteq Bridging
      BY <2>1, <2>2 DEF Bridging
    <2>4. QED
      BY <2>1, <2>3, BridgeQuiet
  <1>3. CASE UNCHANGED vars
    <2>1. callState' = callState /\ Bridging' = Bridging
      BY <1>3 DEF vars, Bridging
    <2>2. QED
      BY <2>1, BridgeQuiet
  <1>4. CASE PhoneStep \/ \E k \in Link : addBuyerToCampaign(k)
    <2>1. UNCHANGED <<callState, bridged, pc, leg>>
      BY <1>4 DEF PhoneStep, CallerDials, BuyerAnswers, BuyerDoesNotAnswer,
                  HangsUp, addBuyerToCampaign, PlaceLeg, PickUp, EndLeg,
                  dbVars, phoneVars
    <2>2. callState' = callState /\ Bridging' = Bridging
      BY <2>1 DEF Bridging
    <2>3. QED
      BY <2>2, BridgeQuiet
  <1>5. CASE Restart
    <2>1. callState' = callState /\ bridged' = bridged
      BY <1>5 DEF Restart, dbVars, phoneVars
    <2>2. \A w \in Workers : pc'[w] = "idle"
      BY <1>5 DEF Restart
    <2>3. Bridging' \subseteq Bridging
      BY <2>1, <2>2 DEF Bridging
    <2>4. QED
      BY <2>1, <2>3, BridgeQuiet
  <1>6. QED
    BY <1>1, <1>2, <1>3, <1>4, <1>5 DEF Next

-----------------------------------------------------------------------------
(***************************************************************************)
(* EndIsFinal.                                                             *)
(***************************************************************************)
Settled(i) == attempts[i].state \in {"CANCELED", "COMPLETED"}

\* While a call is ROUTING, and while a leg is not stored, nothing is settled
\* that the handler of a late event or the dialler could overwrite.
LEMMA NothingSettledYet ==
    ASSUME RowsInv, NEW i \in AttemptIds, Settled(i)
    PROVE  /\ callState # "ROUTING"
           /\ attempts[i].leg = "null" => attempts[i].state = "CANCELED"
  BY DEF RowsInv, CanceledAttempts, OneWinner, Won, UnknownLegs, Settled

LEMMA SettledAttemptStays ==
    ASSUME TypeOK, RowsInv, HandlersInv, NEW w \in Workers, HandlerStep(w),
           NEW i \in AttemptIds, Settled(i)
    PROVE  attempts'[i].state = attempts[i].state
  <1>1. /\ callState # "ROUTING"
        /\ attempts[i].leg = "null" => attempts[i].state = "CANCELED"
    BY NothingSettledYet
  <1>2. leg[w] \in Nat /\ attempts \in Seq(Attempt)
    BY DEF TypeOK, HandlersTypeOK, DatabaseTypeOK
  <1>3. CASE UNCHANGED attempts
    BY <1>3
  <1>4. ASSUME NEW s \in AttemptStates, SetAttempt(leg[w], s),
               leg[w] = i => s = attempts[i].state
        PROVE  attempts'[i].state = attempts[i].state
    BY <1>2, <1>4, SetAttemptEffect
  <1>5. CASE startRinging(w) \/ dialFailed(w)
    <2>1. ASSUME NEW s \in {"RINGING", "FAILED"}, SetAttempt(leg[w], s),
                 isValidAttemptTransition(attempts[leg[w]].state, s)
          PROVE  attempts'[i].state = attempts[i].state
      <3>1. leg[w] # i
        BY <2>1, RowType
           DEF Settled, isValidAttemptTransition, VALID_ATTEMPT_TRANSITIONS,
               AttemptStates
      <3>2. s \in AttemptStates
        BY DEF AttemptStates
      <3>3. QED
        BY <1>4, <2>1, <3>1, <3>2
    <2>2. QED
      BY <1>3, <1>5, <2>1 DEF startRinging, dialFailed
  <1>6. CASE markCallAnswered(w)
    BY <1>1, <1>3, <1>6 DEF markCallAnswered, CanBeAnswered
  <1>7. CASE handleBuyerHangup(w)
    <2>1. CASE SetAttempt(leg[w], "COMPLETED") /\ ConnectedBuyerLeft(leg[w])
      <3>1. leg[w] # i
        BY <2>1 DEF ConnectedBuyerLeft, Settled
      <3>2. QED
        BY <1>4, <2>1, <3>1 DEF AttemptStates
    <2>2. QED
      BY <1>1, <1>3, <1>7, <2>1 DEF handleBuyerHangup
  <1>8. CASE handleCallerHangup(w)
    BY <1>8, CallerHangupEffect DEF Settled
  <1>9. CASE commitBuyerDial(w)
    <2>1. leg[w] \in AttemptIds /\ attempts[leg[w]].leg = "null"
      BY <1>9 DEF HandlersInv, LegInRange, SoleDialler, Dialling,
                  commitBuyerDial, Locked
    <2>2. attempts'[i].state = IF i = leg[w] THEN "CANCELED"
                                             ELSE attempts[i].state
      BY <1>1, <1>9, <2>1, CommitEffect
    <2>3. QED
      BY <1>1, <2>1, <2>2
  <1>10. ~\E b \in Buyers : prepareDial(w, b)
    BY <1>1 DEF prepareDial, MayChooseBuyer
  <1>11. CASE \/ IgnoreUnknownNumber(w) \/ CreateConflict(w) \/ CreateBlocked(w)
              \/ createCall(w) \/ answerCall(w) \/ startRouting(w)
              \/ prepareNone(w) \/ prepareFailed(w) \/ prepareNoAnswer(w)
    BY <1>3, <1>11
       DEF IgnoreUnknownNumber, CreateConflict, CreateBlocked, createCall,
           answerCall, startRouting, prepareNone, prepareFailed,
           prepareNoAnswer, dbVars
  <1>12. CASE \/ dialBuyer(w) \/ bridgeCalls(w) \/ txThrows(w)
              \/ \E l \in todo[w] : hangupCall(w, l)
    BY <1>3, <1>12 DEF dialBuyer, bridgeCalls, txThrows, hangupCall, dbVars
  <1>13. QED
    BY <1>5, <1>6, <1>7, <1>8, <1>9, <1>10, <1>11, <1>12 DEF HandlerStep

-----------------------------------------------------------------------------
(***************************************************************************)
(* PriorityOrder and EveryBuyerTried: what an attempt says of the buyers   *)
(* that were not chosen for it.                                            *)
(***************************************************************************)

\* The buyer of the i-th attempt has a link before m.
Ahead(i, m) ==
    \E k \in roster : k.buyer = attempts[i].buyer /\ k.priority < m.priority

\* Links are only ever added to the campaign; whoever was linked when the call
\* arrived and was not tried yet comes after a link of everyone who was.
RosterInv ==
    /\ OneLinkPerPriority(roster)
    /\ InitialRoster \subseteq roster
    /\ \A i \in AttemptIds, m \in InitialRoster :
            m.buyer \notin Tried => Ahead(i, m)
    /\ PriorityOrder
    /\ EveryBuyerTried

\* Every step but prepareDial keeps the attempts and their buyers.
LEMMA BuyersKept ==
    ASSUME TypeOK, HandlersInv, NEW w \in Workers, HandlerStep(w),
           ~\E b \in Buyers : prepareDial(w, b)
    PROVE  /\ AttemptIds' = AttemptIds
           /\ \A i \in AttemptIds : attempts'[i].buyer = attempts[i].buyer
  <1> DEFINE Kept ==
        /\ AttemptIds' = AttemptIds
        /\ \A i \in AttemptIds : attempts'[i].buyer = attempts[i].buyer
  <1>1. leg[w] \in Nat /\ attempts \in Seq(Attempt)
    BY DEF TypeOK, HandlersTypeOK, DatabaseTypeOK
  <1>2. CASE UNCHANGED attempts
    BY <1>2 DEF AttemptIds
  <1>3. ASSUME NEW s \in AttemptStates, SetAttempt(leg[w], s)
        PROVE  Kept
    BY <1>1, <1>3, SetAttemptEffect DEF AttemptIds
  <1>4. CASE commitBuyerDial(w)
    <2>1. leg[w] \in AttemptIds
      BY <1>4 DEF HandlersInv, LegInRange, commitBuyerDial, Locked
    <2>2. QED
      BY <1>4, <2>1, CommitEffect
  <1>5. CASE handleCallerHangup(w)
    BY <1>5, CallerHangupEffect
  <1>6. CASE \/ startRinging(w) \/ dialFailed(w) \/ markCallAnswered(w)
             \/ handleBuyerHangup(w)
    BY <1>2, <1>3, <1>6 DEF startRinging, dialFailed, markCallAnswered,
                            handleBuyerHangup, AttemptStates
  <1>7. CASE \/ IgnoreUnknownNumber(w) \/ CreateConflict(w) \/ CreateBlocked(w)
             \/ createCall(w) \/ answerCall(w) \/ startRouting(w)
             \/ prepareNone(w) \/ prepareFailed(w) \/ prepareNoAnswer(w)
    BY <1>2, <1>7
       DEF IgnoreUnknownNumber, CreateConflict, CreateBlocked, createCall,
           answerCall, startRouting, prepareNone, prepareFailed,
           prepareNoAnswer, dbVars
  <1>8. CASE \/ dialBuyer(w) \/ bridgeCalls(w) \/ txThrows(w)
             \/ \E l \in todo[w] : hangupCall(w, l)
    BY <1>2, <1>8 DEF dialBuyer, bridgeCalls, txThrows, hangupCall, dbVars
  <1>9. QED
    BY <1>4, <1>5, <1>6, <1>7, <1>8 DEF HandlerStep

\* Only prepareNoAnswer ends a call with NO_ANSWER, and it has looked.
LEMMA NoAnswerStep ==
    ASSUME TypeOK, NEW w \in Workers, HandlerStep(w), callState' = "NO_ANSWER"
    PROVE  callState = "NO_ANSWER" \/ Untried = {}
  BY DEF HandlerStep, IgnoreUnknownNumber, CreateConflict, CreateBlocked,
         createCall, answerCall, startRouting, prepareNone, prepareFailed,
         prepareNoAnswer, prepareDial, dialBuyer, commitBuyerDial,
         startRinging, dialFailed, markCallAnswered, bridgeCalls,
         handleCallerHangup, FinalState, handleBuyerHangup, hangupCall,
         txThrows, dbVars

LEMMA RosterKept ==
    ASSUME NEW w \in Workers, HandlerStep(w)
    PROVE  roster' = roster
  BY DEF HandlerStep, IgnoreUnknownNumber, CreateConflict, CreateBlocked,
         createCall, answerCall, startRouting, prepareNone, prepareFailed,
         prepareNoAnswer, prepareDial, dialBuyer, commitBuyerDial,
         startRinging, dialFailed, markCallAnswered, bridgeCalls,
         handleCallerHangup, handleBuyerHangup, hangupCall, txThrows

\* The buyer who is chosen has a link before everyone who is not tried yet.
LEMMA RosterPrepareDial ==
    ASSUME TypeOK, RosterInv, NEW w \in Workers, NEW b \in Buyers,
           prepareDial(w, b)
    PROVE  RosterInv'
  <1>1. /\ Len(attempts) \in Nat /\ Len(attempts') = Len(attempts) + 1
        /\ \A j \in AttemptIds : attempts'[j] = attempts[j]
        /\ attempts'[Len(attempts) + 1].buyer = b
    <2>1. NewAttempt(b).buyer = b
      BY DEF NewAttempt
    <2>2. QED
      BY <2>1, PrepareDialEffect
  <1>2. AttemptIds' = AttemptIds \cup {Len(attempts) + 1}
    BY <1>1 DEF AttemptIds
  <1>3. roster' = roster /\ callState' = "ROUTING"
    BY DEF prepareDial, MayChooseBuyer
  <1>4. PICK k \in Untried :
            k.buyer = b /\ \A m \in Untried : k.priority <= m.priority
    BY DEF prepareDial, IsNextBuyer
  <1>5. k \in roster /\ b \notin Tried
    BY <1>4 DEF Untried
  <1>6. Tried' = Tried \cup {b}
    BY <1>1, <1>2 DEF Tried
  <1>7. ASSUME NEW m \in InitialRoster, m.buyer \notin Tried, m.buyer # b
        PROVE  k.priority < m.priority
    <2>1. m \in Untried /\ m \in roster
      BY <1>7 DEF RosterInv, Untried
    <2>2. k.priority \in Int /\ m.priority \in Int
      BY <1>5, <2>1, RosterAssumption DEF TypeOK, DatabaseTypeOK, Link
    <2>3. k.priority # m.priority
      BY <1>4, <1>5, <1>7, <2>1 DEF RosterInv, OneLinkPerPriority
    <2>4. QED
      BY <1>4, <2>1, <2>2, <2>3
  <1>8. ASSUME NEW i \in AttemptIds', NEW m \in InitialRoster,
               m.buyer \notin Tried'
        PROVE  Ahead(i, m)'
    <2>1. m.buyer \notin Tried /\ m.buyer # b
      BY <1>6, <1>8
    <2>2. CASE i \in AttemptIds
      BY <1>1, <1>3, <2>1, <2>2 DEF RosterInv, Ahead
    <2>3. CASE i = Len(attempts) + 1
      BY <1>1, <1>3, <1>4, <1>5, <1>7, <2>1, <2>3 DEF Ahead
    <2>4. QED
      BY <1>2, <2>2, <2>3
  <1>9. PriorityOrder'
    <2> SUFFICES ASSUME NEW i \in AttemptIds', NEW j \in AttemptIds', i < j,
                        NEW m \in InitialRoster, m.buyer = attempts'[j].buyer
                 PROVE  Ahead(i, m)'
      BY DEF PriorityOrder, Ahead
    <2>1. CASE j \in AttemptIds
      <3>1. i \in AttemptIds
        BY <1>1, <2>1 DEF AttemptIds
      <3>2. m.buyer = attempts[j].buyer /\ attempts'[i] = attempts[i]
        BY <1>1, <2>1, <3>1
      <3>3. QED
        BY <1>3, <2>1, <3>1, <3>2 DEF RosterInv, PriorityOrder, Ahead
    <2>2. CASE j = Len(attempts) + 1
      <3>1. i \in AttemptIds /\ m.buyer \notin Tried
        BY <1>1, <1>2, <1>5, <2>2 DEF AttemptIds
      <3>2. QED
        BY <1>1, <1>3, <3>1 DEF RosterInv, Ahead
    <2>3. QED
      BY <1>2, <2>1, <2>2
  <1>10. QED
    BY <1>3, <1>8, <1>9 DEF RosterInv, EveryBuyerTried

LEMMA RosterQuiet ==
    ASSUME RosterInv, roster \subseteq roster', OneLinkPerPriority(roster'),
           AttemptIds' = AttemptIds,
           \A i \in AttemptIds : attempts'[i].buyer = attempts[i].buyer,
           callState' = "NO_ANSWER" =>
               callState = "NO_ANSWER" \/ \A k \in roster : k.buyer \in Tried
    PROVE  RosterInv'
  <1>1. Tried' = Tried
    BY DEF Tried
  <1>2. \A i \in AttemptIds, m \in InitialRoster : Ahead(i, m) => Ahead(i, m)'
    BY DEF Ahead
  <1>3. PriorityOrder'
    BY <1>2 DEF RosterInv, PriorityOrder, Ahead
  <1>4. QED
    BY <1>1, <1>2, <1>3 DEF RosterInv, EveryBuyerTried, OneLinkPerPriority

LEMMA RosterNext ==
    ASSUME TypeOK, HandlersInv, RosterInv, [Next]_vars
    PROVE  RosterInv'
  <1>1. ASSUME NEW w \in Workers, HandlerStep(w)
        PROVE  RosterInv'
    <2>1. CASE \E b \in Buyers : prepareDial(w, b)
      BY <2>1, RosterPrepareDial
    <2>2. CASE ~\E b \in Buyers : prepareDial(w, b)
      BY <1>1, <2>2, BuyersKept, NoAnswerStep, RosterKept, RosterQuiet
         DEF Untried, RosterInv
    <2>3. QED
      BY <2>1, <2>2
  <1>2. ASSUME UNCHANGED <<callState, attempts>>, roster \subseteq roster',
               OneLinkPerPriority(roster')
        PROVE  RosterInv'
    BY <1>2, RosterQuiet DEF AttemptIds
  <1>3. ASSUME NEW w \in Workers, NEW e \in hooks, Receive(w, e)
        PROVE  RosterInv'
    BY <1>2, <1>3, OthersKeepRows DEF Receive, RosterInv
  <1>4. CASE PhoneStep \/ (\E k \in Link : addBuyerToCampaign(k)) \/ Restart
    <2>1. roster \subseteq roster' /\ OneLinkPerPriority(roster')
      BY <1>4 DEF PhoneStep, CallerDials, BuyerAnswers, BuyerDoesNotAnswer,
                  HangsUp, addBuyerToCampaign, Restart, RosterInv
    <2>2. QED
      BY <1>2, <1>4, <2>1, EnvironmentKeepsRows
  <1>5. CASE UNCHANGED vars
    BY <1>2, <1>5 DEF vars, RosterInv
  <1>6. QED
    BY <1>1, <1>3, <1>4, <1>5 DEF Next

-----------------------------------------------------------------------------
(***************************************************************************)
(* The theorems.                                                           *)
(***************************************************************************)
LEMMA InitIInv == Init => IInv
  <1> SUFFICES ASSUME Init
               PROVE  IInv
    OBVIOUS
  <1>1. TypeOK /\ RowsInv
    BY InitType, RowsInit
  <1>2. HandlersInv
    BY DEF Init, HandlersInv, RowExists, LegInRange, SoleDialler, Dialling,
           FoundLegStored
  <1>3. BridgeInv
    BY DEF Init, BridgeInv, Bridging
  <1>4. QED
    BY <1>1, <1>2, <1>3 DEF IInv

LEMMA NextIInv == IInv /\ [Next]_vars => IInv'
  BY NextType, RowsNext, HandlersNext, BridgeNext DEF IInv

\* The rows, the handlers and the bridge keep IInv, whoever runs next.
THEOREM Inductive == Spec => []IInv
  BY InitIInv, NextIInv, PTL DEF Spec

\* At most one attempt of the call is being dialled or ringing.
THEOREM OneActiveAttemptHolds == Spec => []OneActiveAttempt
  <1>1. IInv => OneActiveAttempt
    BY DEF IInv, RowsInv
  <1>2. QED
    BY <1>1, Inductive, PTL

\* No buyer is tried twice for one call.
THEOREM NoBuyerTwiceHolds == Spec => []NoBuyerTwice
  <1>1. IInv => NoBuyerTwice
    BY DEF IInv, RowsInv
  <1>2. QED
    BY <1>1, Inductive, PTL

\* At most one attempt wins the call, and the call is COMPLETED then.
THEOREM OneWinnerHolds == Spec => []OneWinner
  <1>1. IInv => OneWinner
    BY DEF IInv, RowsInv
  <1>2. QED
    BY <1>1, Inductive, PTL

\* A call that ended without a buyer has no active or answered attempt.
THEOREM SettledAttemptsHold == Spec => []SettledAttempts
  <1>1. IInv => SettledAttempts
    BY DEF IInv, RowsInv
  <1>2. QED
    BY <1>1, Inductive, PTL

\* The caller is bridged to at most one buyer.
THEOREM OneBridgeHolds == Spec => []OneBridge
  <1>1. IInv => OneBridge
    BY DEF IInv, BridgeInv, Bridging, OneBridge
  <1>2. QED
    BY <1>1, Inductive, PTL

\* A call that ended stays as it ended with the attempts it has, and an attempt
\* that was CANCELED or COMPLETED stays so, whatever arrives late.
THEOREM EndIsFinalHolds == Spec => EndIsFinal
  <1> DEFINE Final ==
        /\ callState \in TerminalCallStates =>
             callState' = callState /\ Len(attempts') = Len(attempts)
        /\ \A i \in AttemptIds :
             attempts[i].state \in {"CANCELED", "COMPLETED"} =>
                 attempts'[i].state = attempts[i].state
  <1>1. IInv /\ [Next]_vars => [Final]_vars
    <2> SUFFICES ASSUME IInv, [Next]_vars
                 PROVE  Final
      OBVIOUS
    <2>1. CASE UNCHANGED <<callState, attempts>>
      BY <2>1 DEF AttemptIds
    <2>2. ASSUME NEW w \in Workers, HandlerStep(w)
          PROVE  Final
      BY <2>2, EndedCallStays, SettledAttemptStays, Terminal
         DEF IInv, Settled
    <2>3. QED
      BY <2>1, <2>2, OthersKeepRows, EnvironmentKeepsRows DEF Next, vars
  <1>2. [][Final]_vars => EndIsFinal
    BY PTL DEF EndIsFinal
  <1>3. QED
    BY <1>1, <1>2, Inductive, PTL DEF Spec

\* RosterInv is kept by every step, given IInv.
LEMMA RosterInductive == Spec => []RosterInv
  <1>1. Init => RosterInv
    BY RosterAssumption
       DEF Init, RosterInv, PriorityOrder, EveryBuyerTried, AttemptIds
  <1>2. IInv /\ RosterInv /\ [Next]_vars => RosterInv'
    BY RosterNext DEF IInv
  <1>3. QED
    BY <1>1, <1>2, Inductive, PTL DEF Spec

\* Whoever is tried before a buyer that was linked when the call arrived has a
\* link before that buyer's, though links are added meanwhile.
THEOREM PriorityOrderHolds == Spec => []PriorityOrder
  <1>1. RosterInv => PriorityOrder
    BY DEF RosterInv
  <1>2. QED
    BY <1>1, RosterInductive, PTL

\* A call gives up with NO_ANSWER only after all of those buyers were tried.
THEOREM EveryBuyerTriedHolds == Spec => []EveryBuyerTried
  <1>1. RosterInv => EveryBuyerTried
    BY DEF RosterInv
  <1>2. QED
    BY <1>1, RosterInductive, PTL

-----------------------------------------------------------------------------
(***************************************************************************)
(* The buyers' legs: one buyer's phone rings or is answered at a time      *)
(* while every transaction commits and a dial that throws has placed no    *)
(* leg, and the winner's leg is never hung up by a handler while an event  *)
(* is handled once, whatever fails.                                        *)
(***************************************************************************)

Calm == TxAborts = "never" /\ "dialLost" \notin Faults

BuyerLegs == (ringing \cup talking) \ {CallerLeg}

-----------------------------------------------------------------------------
(***************************************************************************)
(* The inductive invariant, on top of IInv.                                *)
(***************************************************************************)

\* What the provider guarantees: a leg that lives was placed, and one whose
\* hangup is reported is over.
PhonesInv ==
    /\ ringing \cup talking \subseteq placed
    /\ placed \subseteq AttemptIds \cup {CallerLeg}
    /\ \A e \in hooks : e.type = "CALL_HANGUP" => e.leg \in placed /\ ~Live(e.leg)

\* While the call is ROUTING the phone that rings is that of the attempt the
\* next prepareNextBuyer would find active.
RoutingLegs == callState = "ROUTING" => BuyerLegs \subseteq ActiveAttempts

Owns(w) == pc[w] \in {"dial", "commit", "ring", "dialFailed"}

\* An attempt is dialled, stored, made RINGING and given up by one handler.
SoleOwner(w) == \A v \in Workers : Owns(v) /\ Owns(w) /\ leg[v] = leg[w] => v = w

\* The handler that is about to dial finds no phone ringing.
FreeToDial(w) ==
    pc[w] = "dial" =>
        /\ BuyerLegs = {}
        /\ leg[w] \notin placed
        /\ \A v \in Workers : pc[v] = "dial" => v = w
        /\ callState = "ROUTING" => leg[w] \in ActiveAttempts

\* An attempt is given up when its leg is over, or was settled by others.
GivesUp(w) ==
    pc[w] = "dialFailed" => ~Live(leg[w]) \/ leg[w] \notin ActiveAttempts

HungUp(w) == pc[w] = "buyerHangup" => leg[w] \in placed /\ ~Live(leg[w])

LegsInv ==
    /\ PhonesInv
    /\ RoutingLegs
    /\ OneLegLive
    /\ \A w \in Workers :
            SoleOwner(w) /\ FreeToDial(w) /\ GivesUp(w) /\ HungUp(w)

-----------------------------------------------------------------------------
(***************************************************************************)
(* The telephone network, step by step.                                    *)
(***************************************************************************)

\* No leg begins to live, and a new report of a hangup is true.
Quieter ==
    /\ placed' = placed
    /\ \A l : Live(l)' => Live(l)
    /\ \A e \in hooks' : e.type = "CALL_HANGUP" =>
            e \in hooks \/ (e.leg \in placed /\ ~Live(e.leg)')

LEMMA QuieterSame ==
    ASSUME UNCHANGED <<placed, ringing, talking>>, hooks' \subseteq hooks
    PROVE  Quieter
  BY DEF Quieter, Live

LEMMA QuieterPickUp ==
    ASSUME NEW l \in ringing, PickUp(l)
    PROVE  Quieter
  BY DEF Quieter, Live, PickUp, Event

LEMMA QuieterEndLeg ==
    ASSUME PhonesInv, NEW l, Live(l), EndLeg(l)
    PROVE  Quieter
  BY DEF PhonesInv, Quieter, Live, EndLeg, Event

LEMMA QuieterPhones ==
    ASSUME PhonesInv, OneLegLive, Quieter, AttemptIds \subseteq AttemptIds'
    PROVE  PhonesInv' /\ OneLegLive' /\ BuyerLegs' \subseteq BuyerLegs
  <1>1. ringing' \cup talking' \subseteq ringing \cup talking
    BY DEF Quieter, Live
  <1>2. BuyerLegs' \subseteq BuyerLegs /\ OneLegLive'
    BY <1>1 DEF BuyerLegs, OneLegLive, CallerLeg
  <1>3. \A e \in hooks' : e.type = "CALL_HANGUP" =>
            e.leg \in placed' /\ ~Live(e.leg)'
    BY DEF Quieter, PhonesInv
  <1>4. QED
    BY <1>1, <1>2, <1>3 DEF PhonesInv, Quieter, CallerLeg

\* A phone that begins to ring while no buyer's phone does.
LEMMA DialledPhones ==
    ASSUME PhonesInv, BuyerLegs = {}, UNCHANGED <<attempts, hooks>>,
           NEW l \in AttemptIds, l \notin placed, PlaceLeg(l)
    PROVE  /\ PhonesInv' /\ OneLegLive' /\ BuyerLegs' \subseteq {l}
           /\ \A k : Live(k)' => Live(k) \/ k = l
  <1>1. /\ \A k : Live(k)' => Live(k) \/ k = l
        /\ ringing' \cup talking' \subseteq ringing \cup talking \cup {l}
        /\ placed' = placed \cup {l}
    BY DEF PlaceLeg, Live
  <1>2. BuyerLegs' \subseteq {l}
    BY <1>1 DEF BuyerLegs, CallerLeg
  <1>3. OneLegLive'
    BY <1>2 DEF OneLegLive, BuyerLegs
  <1>4. PhonesInv'
    BY <1>1 DEF PhonesInv, AttemptIds, CallerLeg
  <1>5. QED
    BY <1>1, <1>2, <1>3, <1>4

Dials(w) ==
    /\ pc[w] = "dial" /\ pc'[w] = "commit" /\ leg'[w] = leg[w]
    /\ PlaceLeg(leg[w])
    /\ UNCHANGED <<callState, attempts, hooks>>

\* A handler makes a leg live only by dialling it.
LEMMA HandlerPhones ==
    ASSUME Calm, TypeOK, PhonesInv, NEW w \in Workers, HandlerStep(w)
    PROVE  Quieter \/ Dials(w)
  <1>1. CASE dialBuyer(w)
    <2>1. CASE PlaceLeg(leg[w]) /\ Goto(w, "commit", leg[w])
      BY <1>1, <2>1 DEF dialBuyer, Dials, Goto, TypeOK, HandlersTypeOK, dbVars
    <2>2. CASE UNCHANGED phoneVars
      BY <1>1, <2>2, QuieterSame DEF dialBuyer, phoneVars
    <2>3. QED
      BY <1>1, <2>1, <2>2 DEF dialBuyer, Calm
  <1>2. CASE answerCall(w)
    <2>1. CASE UNCHANGED <<phoneVars, hooks>>
      BY <2>1, QuieterSame DEF phoneVars
    <2>2. QED
      BY <1>2, <2>1, QuieterPickUp DEF answerCall
  <1>3. ASSUME NEW l \in todo[w], hangupCall(w, l)
        PROVE  Quieter
    <2>1. CASE UNCHANGED <<phoneVars, hooks>>
      BY <2>1, QuieterSame DEF phoneVars
    <2>2. QED
      BY <1>3, <2>1, QuieterEndLeg DEF hangupCall
  <1>4. CASE \/ IgnoreUnknownNumber(w) \/ CreateConflict(w) \/ CreateBlocked(w)
             \/ createCall(w) \/ startRouting(w) \/ prepareNone(w)
             \/ prepareFailed(w) \/ prepareNoAnswer(w)
             \/ \E b \in Buyers : prepareDial(w, b)
    BY <1>4, QuieterSame
       DEF IgnoreUnknownNumber, CreateConflict, CreateBlocked, createCall,
           startRouting, prepareNone, prepareFailed, prepareNoAnswer,
           prepareDial, phoneVars
  <1>5. CASE \/ commitBuyerDial(w) \/ startRinging(w) \/ dialFailed(w)
             \/ markCallAnswered(w) \/ bridgeCalls(w) \/ handleCallerHangup(w)
             \/ handleBuyerHangup(w) \/ txThrows(w)
    BY <1>5, QuieterSame
       DEF commitBuyerDial, startRinging, dialFailed, markCallAnswered,
           bridgeCalls, handleCallerHangup, handleBuyerHangup, txThrows,
           phoneVars
  <1>6. QED
    BY <1>1, <1>2, <1>3, <1>4, <1>5 DEF HandlerStep

-----------------------------------------------------------------------------
(***************************************************************************)
(* Which attempts are active.                                              *)
(***************************************************************************)

\* No attempt becomes active again; while the call is ROUTING only a failed
\* dial or the buyer's hangup ends an active one; routing starts once.
ActiveStep(w) ==
    /\ \A i \in AttemptIds : i \in ActiveAttempts' => i \in ActiveAttempts
    /\ callState' = "ROUTING" =>
        /\ callState = "ROUTING" \/ AttemptIds' = {}
        /\ \A i \in ActiveAttempts :
             \/ i \in ActiveAttempts'
             \/ pc[w] \in {"dialFailed", "buyerHangup"} /\ i = leg[w]

LEMMA HandlerActive ==
    ASSUME TypeOK, RowsInv, HandlersInv, NEW w \in Workers, HandlerStep(w)
    PROVE  ActiveStep(w)
  <1>1. leg[w] \in Nat /\ attempts \in Seq(Attempt)
    BY DEF TypeOK, HandlersTypeOK, DatabaseTypeOK
  <1>2. CASE UNCHANGED attempts /\ (callState' = "ROUTING" => callState = "ROUTING")
    BY <1>2 DEF ActiveStep, ActiveAttempts, AttemptIds
  <1>3. ASSUME NEW s \in AttemptStates, SetAttempt(leg[w], s)
        PROVE  /\ AttemptIds' = AttemptIds
               /\ \A i \in AttemptIds :
                    attempts'[i].state = IF i = leg[w] THEN s
                                                       ELSE attempts[i].state
    BY <1>1, <1>3, SetAttemptEffect DEF AttemptIds
  <1>4. CASE \/ IgnoreUnknownNumber(w) \/ CreateConflict(w) \/ CreateBlocked(w)
             \/ createCall(w) \/ answerCall(w) \/ prepareNone(w)
             \/ prepareFailed(w) \/ prepareNoAnswer(w)
    BY <1>2, <1>4
       DEF IgnoreUnknownNumber, CreateConflict, CreateBlocked, createCall,
           answerCall, prepareNone, prepareFailed, prepareNoAnswer, dbVars
  <1>5. CASE \/ dialBuyer(w) \/ bridgeCalls(w) \/ txThrows(w)
             \/ \E l \in todo[w] : hangupCall(w, l)
    BY <1>2, <1>5 DEF dialBuyer, bridgeCalls, txThrows, hangupCall, dbVars
  <1>6. CASE startRouting(w)
    <2>1. attempts' = attempts /\ AttemptIds' = AttemptIds
      BY <1>6 DEF startRouting, AttemptIds
    <2>2. CASE callState' = callState
      BY <1>2, <2>1, <2>2
    <2>3. CASE callState' # callState
      <3>1. callState # "absent"
        BY <1>6 DEF startRouting, Locked, HandlersInv, RowExists
      <3>2. callState = "INITIATED"
        BY <1>6, <2>3, <3>1
           DEF startRouting, isValidTransition, VALID_CALL_TRANSITIONS, TypeOK,
               DatabaseTypeOK, CallStates
      <3>3. AttemptIds = {} /\ ActiveAttempts = {}
        BY <3>2 DEF RowsInv, NoAttemptsYet, ActiveAttempts
      <3>4. QED
        BY <2>1, <3>3 DEF ActiveStep
    <2>4. QED
      BY <2>2, <2>3
  <1>7. ASSUME NEW b \in Buyers, prepareDial(w, b)
        PROVE  ActiveStep(w)
    BY <1>7, PrepareDialEffect
       DEF prepareDial, MayChooseBuyer, ActiveStep, ActiveAttempts, AttemptIds
  <1>8. CASE commitBuyerDial(w)
    <2>1. leg[w] \in AttemptIds
      BY <1>8 DEF HandlersInv, LegInRange, commitBuyerDial, Locked
    <2>2. callState' = callState
      BY <1>8 DEF commitBuyerDial
    <2>3. QED
      BY <1>8, <2>1, <2>2, CommitEffect DEF ActiveStep, ActiveAttempts
  <1>9. CASE startRinging(w)
    <2>1. callState' = callState
      BY <1>9 DEF startRinging
    <2>2. CASE SetAttempt(leg[w], "RINGING") /\
               isValidAttemptTransition(attempts[leg[w]].state, "RINGING")
      <3>1. leg[w] \in AttemptIds =>
              attempts[leg[w]].state \in {"INITIATED", "RINGING"}
        BY <2>2, RowType DEF isValidAttemptTransition,
                             VALID_ATTEMPT_TRANSITIONS, AttemptStates
      <3>2. "RINGING" \in AttemptStates
        BY DEF AttemptStates
      <3>3. QED
        BY <1>3, <2>1, <2>2, <3>1, <3>2 DEF ActiveStep, ActiveAttempts
    <2>3. QED
      BY <1>2, <1>9, <2>1, <2>2 DEF startRinging
  <1>10. ASSUME NEW s \in {"FAILED", "NO_ANSWER", "COMPLETED"},
                SetAttempt(leg[w], s), callState' = callState,
                pc[w] \in {"dialFailed", "buyerHangup"}
         PROVE  ActiveStep(w)
    <2>1. s \in AttemptStates
      BY DEF AttemptStates
    <2>2. QED
      BY <1>3, <1>10, <2>1 DEF ActiveStep, ActiveAttempts
  <1>11. CASE dialFailed(w) \/ handleBuyerHangup(w)
    BY <1>2, <1>10, <1>11 DEF dialFailed, handleBuyerHangup, Locked
  <1>12. CASE markCallAnswered(w)
    <2>1. CASE SetAttempt(leg[w], "ANSWERED") /\ callState' = "COMPLETED"
      BY <1>3, <2>1 DEF ActiveStep, ActiveAttempts, AttemptStates
    <2>2. QED
      BY <1>2, <1>12, <2>1 DEF markCallAnswered
  <1>13. CASE handleCallerHangup(w)
    <2>1. callState' # "ROUTING"
      BY <1>13 DEF handleCallerHangup, FinalState
    <2>2. QED
      BY <1>13, <2>1, CallerHangupEffect DEF ActiveStep, ActiveAttempts
  <1>14. QED
    BY <1>4, <1>5, <1>6, <1>7, <1>8, <1>9, <1>11, <1>12, <1>13 DEF HandlerStep

-----------------------------------------------------------------------------
(***************************************************************************)
(* How a handler comes to dial an attempt, and to give one up.             *)
(***************************************************************************)
LEMMA BeginsToDial ==
    ASSUME TypeOK, NEW w \in Workers, HandlerStep(w), pc'[w] = "dial"
    PROVE  /\ callState = "ROUTING" /\ ActiveAttempts = {}
           /\ leg'[w] \in ActiveAttempts' \ AttemptIds
  <1>1. \A s, l : Goto(w, s, l) => pc'[w] = s /\ leg'[w] = l
    BY DEF Goto, TypeOK, HandlersTypeOK
  <1>2. \E b \in Buyers : prepareDial(w, b)
    <2>1. ~(\/ IgnoreUnknownNumber(w) \/ CreateConflict(w) \/ CreateBlocked(w)
            \/ createCall(w) \/ answerCall(w) \/ startRouting(w)
            \/ prepareNone(w) \/ prepareFailed(w) \/ prepareNoAnswer(w)
            \/ dialBuyer(w) \/ commitBuyerDial(w))
      BY <1>1
         DEF IgnoreUnknownNumber, CreateConflict, CreateBlocked, createCall,
             answerCall, startRouting, prepareNone, prepareFailed,
             prepareNoAnswer, dialBuyer, commitBuyerDial, GoHangUp, Return
    <2>2. ~(\/ startRinging(w) \/ dialFailed(w) \/ markCallAnswered(w)
            \/ bridgeCalls(w) \/ handleCallerHangup(w) \/ handleBuyerHangup(w)
            \/ txThrows(w) \/ \E l \in todo[w] : hangupCall(w, l))
      BY <1>1
         DEF startRinging, dialFailed, markCallAnswered, bridgeCalls, txThrows,
             handleCallerHangup, handleBuyerHangup, hangupCall, GoHangUp, Return
    <2>3. QED
      BY <2>1, <2>2 DEF HandlerStep
  <1>3. PICK b \in Buyers : prepareDial(w, b)
    BY <1>2
  <1>4. callState = "ROUTING" /\ ActiveAttempts = {}
    BY <1>3 DEF prepareDial, MayChooseBuyer
  <1>5. leg'[w] = Len(attempts) + 1
    BY <1>1, <1>3 DEF prepareDial
  <1>6. /\ Len(attempts) \in Nat /\ Len(attempts') = Len(attempts) + 1
        /\ attempts'[Len(attempts) + 1].state = "INITIATED"
    <2>1. NewAttempt(b).state = "INITIATED"
      BY DEF NewAttempt
    <2>2. QED
      BY <1>3, <2>1, PrepareDialEffect
  <1>7. QED
    BY <1>4, <1>5, <1>6 DEF ActiveAttempts, AttemptIds

LEMMA ComesToGiveUp ==
    ASSUME Calm, TypeOK, HandlersInv, NEW w \in Workers, HandlerStep(w),
           pc'[w] = "dialFailed"
    PROVE  /\ leg'[w] = leg[w] /\ leg[w] \in AttemptIds
           /\ UNCHANGED <<attempts, ringing, talking>>
           /\ pc[w] = "dial" \/ leg[w] \notin ActiveAttempts
  <1>1. \A s, l : Goto(w, s, l) => pc'[w] = s /\ leg'[w] = l
    BY DEF Goto, TypeOK, HandlersTypeOK
  <1>2. dialBuyer(w) \/ startRinging(w)
    <2>1. ~txThrows(w)
      BY DEF txThrows, Calm
    <2>2. ~(\/ IgnoreUnknownNumber(w) \/ CreateConflict(w) \/ CreateBlocked(w)
            \/ createCall(w) \/ answerCall(w) \/ startRouting(w)
            \/ prepareNone(w) \/ prepareFailed(w) \/ prepareNoAnswer(w)
            \/ \E b \in Buyers : prepareDial(w, b))
      BY <1>1
         DEF IgnoreUnknownNumber, CreateConflict, CreateBlocked, createCall,
             answerCall, startRouting, prepareNone, prepareFailed,
             prepareNoAnswer, prepareDial, GoHangUp, Return
    <2>3. ~(\/ commitBuyerDial(w) \/ dialFailed(w) \/ markCallAnswered(w)
            \/ bridgeCalls(w) \/ handleCallerHangup(w) \/ handleBuyerHangup(w)
            \/ \E l \in todo[w] : hangupCall(w, l))
      BY <1>1
         DEF commitBuyerDial, dialFailed, markCallAnswered, bridgeCalls,
             handleCallerHangup, handleBuyerHangup, hangupCall, GoHangUp, Return
    <2>4. QED
      BY <2>1, <2>2, <2>3 DEF HandlerStep
  <1>3. pc[w] \in {"dial", "ring"}
    BY <1>2 DEF dialBuyer, startRinging, Locked
  <1>4. leg[w] \in AttemptIds
    BY <1>3 DEF HandlersInv, LegInRange
  <1>5. CASE dialBuyer(w)
    BY <1>1, <1>4, <1>5 DEF dialBuyer, Calm, phoneVars, dbVars
  <1>6. CASE startRinging(w)
    <2>1. ~isValidAttemptTransition(attempts[leg[w]].state, "RINGING")
      BY <1>1, <1>6 DEF startRinging, Return
    <2>2. leg[w] \notin ActiveAttempts
      BY <2>1, RowType
         DEF isValidAttemptTransition, VALID_ATTEMPT_TRANSITIONS,
             ActiveAttempts, AttemptStates
    <2>3. UNCHANGED <<attempts, ringing, talking>> /\ leg'[w] = leg[w]
      BY <1>1, <1>6 DEF startRinging, Return, phoneVars
    <2>4. QED
      BY <1>4, <2>2, <2>3
  <1>7. QED
    BY <1>2, <1>5, <1>6

-----------------------------------------------------------------------------
(***************************************************************************)
(* LegsInv is kept by every step.                                          *)
(***************************************************************************)
LEMMA OwnerNext ==
    ASSUME TypeOK, HandlersInv, NEW w \in Workers, HandlerStep(w),
           \A v \in Workers : SoleOwner(v)
    PROVE  \A v \in Workers : SoleOwner(v)'
  <1>1. \A v \in Workers \ {w} : pc'[v] = pc[v] /\ leg'[v] = leg[v]
    BY OtherHandlers
  <1>2. \A v \in Workers \ {w} : Owns(v)' =>
          Owns(v) /\ leg'[v] = leg[v] /\ leg[v] \in AttemptIds
    BY <1>1 DEF Owns, HandlersInv, LegInRange
  <1>3. Owns(w)' => leg'[w] \notin AttemptIds \/ (Owns(w) /\ leg'[w] = leg[w])
    BY HandlerOwnStep DEF OwnStep, Owns
  <1>4. QED
    BY <1>2, <1>3 DEF SoleOwner

\* A step that makes no leg live.
LEMMA LegsQuietStep ==
    ASSUME Calm, IInv, LegsInv, NEW w \in Workers, HandlerStep(w), Quieter
    PROVE  LegsInv'
  <1> USE DEF IInv, LegsInv
  <1>1. /\ AttemptIds \subseteq AttemptIds'
        /\ \A v \in Workers \ {w} : pc'[v] = pc[v] /\ leg'[v] = leg[v]
    BY RowsOnlyGrow, OtherHandlers
  <1>2. /\ PhonesInv' /\ OneLegLive' /\ BuyerLegs' \subseteq BuyerLegs
        /\ placed' = placed /\ \A l : Live(l)' => Live(l)
    BY <1>1, QuieterPhones DEF Quieter
  <1>3. ActiveStep(w) /\ OwnStep(w)
    BY HandlerActive, HandlerOwnStep
  <1>4. \A v \in Workers : SoleOwner(v)'
    BY OwnerNext
  <1>5. ASSUME NEW i \in BuyerLegs, NEW v \in Workers,
               pc[v] \in {"dialFailed", "buyerHangup"}, i = leg[v],
               i \in ActiveAttempts
        PROVE  FALSE
    BY <1>5 DEF GivesUp, HungUp, BuyerLegs, Live
  <1>6. RoutingLegs'
    <2> SUFFICES ASSUME callState' = "ROUTING", NEW i \in BuyerLegs'
                 PROVE  i \in ActiveAttempts'
      BY DEF RoutingLegs
    <2>1. i \in BuyerLegs
      BY <1>2
    <2>2. i \in AttemptIds'
      BY <1>2 DEF PhonesInv, BuyerLegs
    <2>3. i \in ActiveAttempts
      BY <1>3, <2>1, <2>2 DEF ActiveStep, RoutingLegs
    <2>4. QED
      BY <1>3, <1>5, <2>1, <2>3 DEF ActiveStep
  <1>7. ASSUME NEW v \in Workers, pc'[v] = "dial", v = w
        PROVE  FreeToDial(v)'
    <2>1. /\ callState = "ROUTING" /\ ActiveAttempts = {}
          /\ leg'[w] \in ActiveAttempts' /\ leg'[w] \notin AttemptIds
      BY <1>7, BeginsToDial
    <2>2. BuyerLegs' = {}
      BY <1>2, <2>1 DEF RoutingLegs
    <2>3. leg'[w] \notin placed'
      BY <1>2, <2>1 DEF PhonesInv, ActiveAttempts, AttemptIds, CallerLeg
    <2>4. \A u \in Workers : pc[u] # "dial"
      BY <2>1 DEF FreeToDial
    <2>5. \A u \in Workers : pc'[u] = "dial" => u = w
      BY <1>1, <2>4
    <2>6. QED
      BY <1>7, <2>1, <2>2, <2>3, <2>5 DEF FreeToDial
  <1>8. ASSUME NEW v \in Workers, pc'[v] = "dial", v # w
        PROVE  FreeToDial(v)'
    <2>1. pc[v] = "dial" /\ leg'[v] = leg[v] /\ leg[v] \in AttemptIds
      BY <1>1, <1>8 DEF HandlersInv, LegInRange
    <2>2. BuyerLegs' = {} /\ leg'[v] \notin placed'
      BY <1>2, <2>1 DEF FreeToDial
    <2>3. pc'[w] # "dial"
      <3>1. SUFFICES ASSUME pc'[w] = "dial"
                     PROVE  FALSE
        OBVIOUS
      <3>2. callState = "ROUTING" /\ ActiveAttempts = {}
        BY <3>1, BeginsToDial
      <3>3. QED
        BY <2>1, <3>2 DEF FreeToDial
    <2>4. \A u \in Workers : pc'[u] = "dial" => u = v
      BY <1>1, <2>1, <2>3 DEF FreeToDial
    <2>5. ASSUME pc[w] \in {"dialFailed", "buyerHangup"}, leg[v] = leg[w]
          PROVE  FALSE
      <3>1. pc[w] # "dialFailed"
        BY <1>8, <2>1, <2>5 DEF SoleOwner, Owns
      <3>2. attempts[leg[v]].leg = "null"
        BY <2>1 DEF HandlersInv, SoleDialler, Dialling
      <3>3. pc[w] # "buyerHangup"
        BY <2>5, <3>2 DEF HandlersInv, FoundLegStored
      <3>4. QED
        BY <2>5, <3>1, <3>3
    <2>6. callState' = "ROUTING" => leg'[v] \in ActiveAttempts'
      BY <1>1, <1>3, <2>1, <2>5 DEF ActiveStep, FreeToDial
    <2>7. QED
      BY <2>2, <2>4, <2>6 DEF FreeToDial
  <1>9. \A v \in Workers : FreeToDial(v)'
    BY <1>7, <1>8 DEF FreeToDial
  <1>10. GivesUp(w)'
    <2> SUFFICES ASSUME pc'[w] = "dialFailed"
                 PROVE  \/ leg'[w] \notin ringing' \cup talking'
                        \/ leg'[w] \notin ActiveAttempts'
      BY DEF GivesUp, Live
    <2>1. /\ leg'[w] = leg[w] /\ leg[w] \in AttemptIds
          /\ UNCHANGED <<attempts, ringing, talking>>
          /\ pc[w] = "dial" \/ leg[w] \notin ActiveAttempts
      BY ComesToGiveUp
    <2>2. CASE pc[w] = "dial"
      <3>1. leg[w] \notin ringing \cup talking
        BY <2>1, <2>2 DEF FreeToDial, BuyerLegs, AttemptIds, CallerLeg
      <3>2. QED
        BY <2>1, <3>1
    <2>3. CASE leg[w] \notin ActiveAttempts
      BY <2>1, <2>3 DEF ActiveAttempts, AttemptIds
    <2>4. QED
      BY <2>1, <2>2, <2>3
  <1>11. \A v \in Workers \ {w} : GivesUp(v)'
    <2> SUFFICES ASSUME NEW v \in Workers \ {w}, pc'[v] = "dialFailed"
                 PROVE  \/ leg'[v] \notin ringing' \cup talking'
                        \/ leg'[v] \notin ActiveAttempts'
      BY DEF GivesUp, Live
    <2>1. /\ ~Live(leg[v]) \/ leg[v] \notin ActiveAttempts
          /\ leg[v] \in AttemptIds /\ leg'[v] = leg[v]
      BY <1>1 DEF GivesUp, HandlersInv, LegInRange
    <2>2. \A l : l \in ringing' \cup talking' => Live(l)
      BY <1>2 DEF Live
    <2>3. QED
      BY <1>3, <2>1, <2>2 DEF ActiveStep
  <1>12. \A v \in Workers : HungUp(v)'
    BY <1>1, <1>2, <1>3 DEF OwnStep, HungUp
  <1>13. QED
    BY <1>2, <1>4, <1>6, <1>9, <1>10, <1>11, <1>12

\* The step that dials: no buyer's phone was ringing.
LEMMA LegsDialStep ==
    ASSUME IInv, LegsInv, NEW w \in Workers, HandlerStep(w), Dials(w)
    PROVE  LegsInv'
  <1> USE DEF IInv, LegsInv
  <1>1. /\ leg[w] \in AttemptIds /\ leg[w] \notin placed /\ BuyerLegs = {}
        /\ \A v \in Workers : pc[v] = "dial" => v = w
        /\ callState = "ROUTING" => leg[w] \in ActiveAttempts
    BY DEF Dials, FreeToDial, HandlersInv, LegInRange
  <1>2. /\ PhonesInv' /\ OneLegLive' /\ BuyerLegs' \subseteq {leg[w]}
        /\ \A k : Live(k)' => Live(k) \/ k = leg[w]
        /\ placed' = placed \cup {leg[w]}
    BY <1>1, DialledPhones DEF Dials, PlaceLeg
  <1>3. /\ \A v \in Workers \ {w} : pc'[v] = pc[v] /\ leg'[v] = leg[v]
        /\ pc'[w] = "commit" /\ leg'[w] = leg[w]
        /\ callState' = callState /\ ActiveAttempts' = ActiveAttempts
    BY OtherHandlers DEF Dials, ActiveAttempts, AttemptIds
  <1>4. \A v \in Workers : SoleOwner(v)'
    BY OwnerNext
  <1>5. RoutingLegs'
    BY <1>1, <1>2, <1>3 DEF RoutingLegs
  <1>6. \A v \in Workers : FreeToDial(v)'
    BY <1>1, <1>3 DEF FreeToDial
  <1>7. \A v \in Workers : GivesUp(v)'
    <2> SUFFICES ASSUME NEW v \in Workers \ {w}, pc[v] = "dialFailed"
                 PROVE  \/ leg[v] \notin ringing' \cup talking'
                        \/ leg[v] \notin ActiveAttempts
      BY <1>3 DEF GivesUp, Live
    <2>1. leg[v] # leg[w]
      BY DEF SoleOwner, Owns, Dials
    <2>2. \A l : l \in ringing' \cup talking' => Live(l) \/ l = leg[w]
      BY <1>2 DEF Live
    <2>3. QED
      BY <2>1, <2>2 DEF GivesUp
  <1>8. \A v \in Workers : HungUp(v)'
    BY <1>1, <1>2, <1>3 DEF HungUp
  <1>9. QED
    BY <1>2, <1>4, <1>5, <1>6, <1>7, <1>8

\* An event is received: the hangup of a leg that is over.
LEMMA LegsReceive ==
    ASSUME IInv, LegsInv, NEW w \in Workers, NEW e \in hooks, Receive(w, e)
    PROVE  LegsInv'
  <1> USE DEF IInv, LegsInv
  <1>1. /\ UNCHANGED <<callState, attempts, placed, ringing, talking>>
        /\ hooks' \subseteq hooks
        /\ \A v \in Workers \ {w} : pc'[v] = pc[v] /\ leg'[v] = leg[v]
        /\ pc'[w] = Branch(e)
        /\ pc'[w] # "idle" => leg'[w] = e.leg
    BY DEF Receive, Goto, TypeOK, HandlersTypeOK, dbVars, phoneVars
  <1>2. /\ Branch(e) \in {"idle", "create", "startRouting", "markAnswered",
                          "callerHangup", "buyerHangup"}
        /\ Branch(e) = "buyerHangup" => e.type = "CALL_HANGUP"
    BY DEF Branch, EventTypes, TypeOK, PhonesTypeOK, Events
  <1>3. PhonesInv' /\ RoutingLegs' /\ OneLegLive'
    BY <1>1 DEF PhonesInv, RoutingLegs, OneLegLive, BuyerLegs, ActiveAttempts,
                AttemptIds, Live
  <1>4. \A v \in Workers : SoleOwner(v)'
    BY <1>1, <1>2 DEF SoleOwner, Owns
  <1>5. \A v \in Workers : FreeToDial(v)'
    BY <1>1, <1>2 DEF FreeToDial, BuyerLegs, ActiveAttempts, AttemptIds
  <1>6. \A v \in Workers : GivesUp(v)'
    BY <1>1, <1>2 DEF GivesUp, Live, ActiveAttempts, AttemptIds
  <1>7. \A v \in Workers : HungUp(v)'
    BY <1>1, <1>2 DEF HungUp, PhonesInv, Live
  <1>8. QED
    BY <1>3, <1>4, <1>5, <1>6, <1>7

\* People, administrators and restarts: no buyer's leg begins to live.
LEMMA LegsQuiet ==
    ASSUME LegsInv, Quieter, UNCHANGED <<callState, attempts, leg>>,
           \/ pc' = pc
           \/ \A w \in Workers : pc'[w] = "idle"
    PROVE  LegsInv'
  <1> USE DEF LegsInv
  <1>1. ActiveAttempts' = ActiveAttempts /\ AttemptIds' = AttemptIds
    BY DEF ActiveAttempts, AttemptIds
  <1>2. /\ PhonesInv' /\ OneLegLive' /\ BuyerLegs' \subseteq BuyerLegs
        /\ placed' = placed /\ \A l : Live(l)' => Live(l)
    BY <1>1, QuieterPhones DEF Quieter
  <1>3. RoutingLegs'
    BY <1>1, <1>2 DEF RoutingLegs
  <1>4. \A w \in Workers : SoleOwner(w)' /\ FreeToDial(w)'
    BY <1>1, <1>2 DEF SoleOwner, Owns, FreeToDial
  <1>5. \A w \in Workers : GivesUp(w)' /\ HungUp(w)'
    BY <1>1, <1>2 DEF GivesUp, HungUp
  <1>6. QED
    BY <1>2, <1>3, <1>4, <1>5

LEMMA LegsNext ==
    ASSUME Calm, IInv, LegsInv, [Next]_vars
    PROVE  LegsInv'
  <1>1. ASSUME NEW w \in Workers, HandlerStep(w)
        PROVE  LegsInv'
    BY <1>1, HandlerPhones, LegsQuietStep, LegsDialStep DEF IInv, LegsInv
  <1>2. PhonesInv
    BY DEF LegsInv
  <1>3. CASE UNCHANGED vars
    BY <1>3, QuieterSame, LegsQuiet DEF vars
  <1>4. ASSUME NEW i \in ringing, BuyerAnswers(i)
        PROVE  LegsInv'
    BY <1>4, QuieterPickUp, LegsQuiet DEF BuyerAnswers, dbVars
  <1>5. ASSUME NEW l, Live(l), EndLeg(l), UNCHANGED <<dbVars, pc, leg>>
        PROVE  LegsInv'
    BY <1>2, <1>5, QuieterEndLeg, LegsQuiet DEF dbVars
  <1>6. ASSUME NEW l \in ringing \cup talking, BuyerDoesNotAnswer(l) \/ HangsUp(l)
        PROVE  LegsInv'
    BY <1>5, <1>6 DEF BuyerDoesNotAnswer, HangsUp, Live
  <1>7. ASSUME NEW k \in Link, addBuyerToCampaign(k)
        PROVE  LegsInv'
    BY <1>7, QuieterSame, LegsQuiet DEF addBuyerToCampaign, dbVars, phoneVars
  <1>8. CASE Restart
    <2>1. Quieter
      BY <1>8, QuieterSame DEF Restart, phoneVars
    <2>2. UNCHANGED <<callState, attempts>> /\ \A w \in Workers : pc'[w] = "idle"
      BY <1>8 DEF Restart, dbVars
    <2>3. ActiveAttempts' = ActiveAttempts /\ AttemptIds' = AttemptIds
      BY <2>2 DEF ActiveAttempts, AttemptIds
    <2>4. PhonesInv' /\ OneLegLive' /\ BuyerLegs' \subseteq BuyerLegs
      BY <2>1, <2>3, QuieterPhones DEF LegsInv
    <2>5. QED
      BY <2>2, <2>3, <2>4 DEF LegsInv, RoutingLegs, SoleOwner, Owns, FreeToDial,
                              GivesUp, HungUp
  <1>9. CASE CallerDials
    <2>1. /\ CallerLeg \notin placed /\ PlaceLeg(CallerLeg)
          /\ UNCHANGED <<callState, attempts, pc, leg>>
          /\ \A e \in hooks' : e.type = "CALL_HANGUP" => e \in hooks
      BY <1>9 DEF CallerDials, Event, dbVars
    <2>2. /\ BuyerLegs' = BuyerLegs /\ placed' = placed \cup {CallerLeg}
          /\ \A l : Live(l)' => Live(l) \/ l = CallerLeg
          /\ ActiveAttempts' = ActiveAttempts /\ AttemptIds' = AttemptIds
      BY <2>1 DEF PlaceLeg, BuyerLegs, Live, ActiveAttempts, AttemptIds
    <2>3. PhonesInv'
      BY <2>1, <2>2 DEF LegsInv, PhonesInv, PlaceLeg
    <2>4. RoutingLegs' /\ OneLegLive'
      BY <2>1, <2>2 DEF LegsInv, RoutingLegs, OneLegLive, BuyerLegs
    <2>5. \A w \in Workers : pc[w] \in {"dial", "dialFailed", "buyerHangup"} =>
            leg[w] # CallerLeg
      BY DEF IInv, HandlersInv, LegInRange, AttemptIds, CallerLeg
    <2>6. \A w \in Workers : SoleOwner(w)' /\ FreeToDial(w)'
      BY <2>1, <2>2, <2>5 DEF LegsInv, SoleOwner, Owns, FreeToDial
    <2>7. \A w \in Workers : GivesUp(w)' /\ HungUp(w)'
      BY <2>1, <2>2, <2>5 DEF LegsInv, GivesUp, HungUp
    <2>8. QED
      BY <2>3, <2>4, <2>6, <2>7 DEF LegsInv
  <1>10. QED
    BY <1>1, <1>3, <1>4, <1>6, <1>7, <1>8, <1>9, LegsReceive DEF Next, PhoneStep

\* At most one buyer's phone rings or is answered at a time, while transactions
\* commit and a dial that throws has placed no leg.
THEOREM OneLegLiveHolds == Calm /\ Spec => []OneLegLive
  <1>1. Init => LegsInv
    BY DEF Init, LegsInv, PhonesInv, RoutingLegs, BuyerLegs, OneLegLive,
           SoleOwner, Owns, FreeToDial, GivesUp, HungUp
  <1>2. IInv /\ Calm /\ LegsInv /\ [Next]_vars => (Calm /\ LegsInv)'
    BY LegsNext DEF Calm
  <1>3. LegsInv => OneLegLive
    BY DEF LegsInv
  <1>4. QED
    BY <1>1, <1>2, <1>3, Inductive, PTL DEF Spec

-----------------------------------------------------------------------------
(***************************************************************************)
(* WinnerKept: while the caller is on the phone, no handler hangs up the   *)
(* buyer who was chosen or connected, unless the answer of that buyer is   *)
(* delivered again after it was handled: the transaction of                *)
(* markCallAnswered does not look at the state of the attempt, so a second *)
(* answer of the winner takes the loser's branch.  Any other event may be  *)
(* handled any number of times.                                            *)
(***************************************************************************)
\* The answer of leg l was handled and is, or was, delivered again.
Replayed(l) == Event("CALL_ANSWERED", l) \in again

\* The attempts that won, and the legs that are or will be bridged.
Chosen == {i \in AttemptIds : Won(i)} \cup Bridging

\* Legs that were placed and ring no more.
Stopped == placed \ ringing

CallerGone == CallerLeg \in placed /\ ~Live(CallerLeg)

\* A leg is placed once, for an attempt that exists.
PlacedInv ==
    /\ ringing \cup talking \subseteq placed
    /\ placed \subseteq AttemptIds \cup {CallerLeg}
    /\ \A w \in Workers : pc[w] = "dial" => leg[w] \notin placed

\* Only a stored leg that was answered is chosen.
ChosenInv ==
    /\ Chosen \subseteq AttemptIds \cap Stopped
    /\ \A i \in Chosen : attempts[i].leg = "stored"

\* The answer of a leg is reported once.  Unless it is replayed, one handler
\* handles it, and until then its attempt was not chosen.
AnswerOnce ==
    /\ \A e \in hooks : e.type = "CALL_ANSWERED" =>
            /\ e.leg \in Stopped
            /\ ~Replayed(e.leg) =>
                 /\ e.leg \notin Chosen
                 /\ \A w \in Workers : pc[w] = "markAnswered" => leg[w] # e.leg
    /\ \A w \in Workers : pc[w] = "markAnswered" =>
            /\ leg[w] \in Stopped
            /\ ~Replayed(leg[w]) =>
                 /\ leg[w] \notin Chosen
                 /\ \A v \in Workers :
                      pc[v] = "markAnswered" /\ leg[v] = leg[w] => v = w

\* The caller's hangup is reported and handled when the caller is gone.
HangupTrue ==
    /\ Event("CALL_HANGUP", CallerLeg) \in hooks => CallerGone
    /\ \A w \in Workers : pc[w] = "callerHangup" => CallerGone

\* A buyer's leg is to be hung up only when the caller is gone, or the call
\* ended without choosing it, or its answer is replayed.
Unwanted(l) ==
    \/ CallerGone
    \/ callState \in TerminalCallStates /\ (Replayed(l) \/ l \notin Chosen)

TodoInv ==
    \A w \in Workers : \A l \in todo[w] \ {CallerLeg} :
        l \in AttemptIds /\ Unwanted(l)

WinnerInv == PlacedInv /\ ChosenInv /\ AnswerOnce /\ HangupTrue /\ TodoInv

\* What any step does to the phones, as far as WinnerInv depends on it.
Progress ==
    /\ Stopped \subseteq Stopped'
    /\ CallerGone => CallerGone'
    /\ ringing' \cup talking' \subseteq placed'
    /\ \A e \in hooks' \ hooks :
         /\ e.type = "CALL_ANSWERED" => e.leg \in ringing /\ e.leg \in Stopped'
         /\ e = Event("CALL_HANGUP", CallerLeg) => Live(CallerLeg) /\ CallerGone'

LEMMA ProgressSame ==
    ASSUME PlacedInv, UNCHANGED <<placed, ringing, talking>>, hooks' \subseteq hooks
    PROVE  Progress
  BY DEF PlacedInv, Progress, Stopped, CallerGone, Live

LEMMA ProgressPickUp ==
    ASSUME PlacedInv, NEW l \in ringing, PickUp(l)
    PROVE  Progress
  <1>1. l \in placed
    BY DEF PlacedInv
  <1>2. CallerGone => CallerGone'
    BY DEF CallerGone, Live, PickUp
  <1>3. \A e \in hooks' \ hooks : e = Event("CALL_ANSWERED", l)
    BY DEF PickUp
  <1>4. l \in Stopped' /\ Stopped \subseteq Stopped'
    BY <1>1 DEF Stopped, PickUp
  <1>5. ringing' \cup talking' \subseteq placed'
    BY <1>1 DEF PlacedInv, PickUp
  <1>6. QED
    BY <1>2, <1>3, <1>4, <1>5 DEF Progress, Event

LEMMA ProgressEndLeg ==
    ASSUME PlacedInv, NEW l, Live(l), EndLeg(l)
    PROVE  Progress
  <1>1. CallerGone => CallerGone'
    BY DEF CallerGone, Live, EndLeg
  <1>2. \A e \in hooks' \ hooks : e = Event("CALL_HANGUP", l)
    BY DEF EndLeg
  <1>3. Stopped \subseteq Stopped' /\ l \in placed' /\ ~Live(l)'
    BY DEF Stopped, EndLeg, Live, PlacedInv
  <1>4. ringing' \cup talking' \subseteq placed'
    BY DEF PlacedInv, EndLeg
  <1>5. \A e \in hooks' \ hooks : e.type = "CALL_HANGUP" /\ e.leg = l
    BY <1>2 DEF Event
  <1>6. ASSUME NEW e \in hooks' \ hooks, e = Event("CALL_HANGUP", CallerLeg)
        PROVE  Live(CallerLeg) /\ CallerGone'
    <2>1. l = CallerLeg
      BY <1>5, <1>6 DEF Event
    <2>2. QED
      BY <1>3, <2>1 DEF CallerGone
  <1>7. QED
    BY <1>1, <1>3, <1>4, <1>5, <1>6 DEF Progress

LEMMA ProgressPlaceLeg ==
    ASSUME PlacedInv, NEW l, l \notin placed, PlaceLeg(l),
           \A e \in hooks' \ hooks : e.type = "CALL_INITIATED"
    PROVE  Progress
  <1>1. CallerGone => CallerGone'
    BY DEF CallerGone, Live, PlaceLeg
  <1>2. Stopped \subseteq Stopped' /\ ringing' \cup talking' \subseteq placed'
    BY DEF Stopped, PlaceLeg, PlacedInv
  <1>3. QED
    BY <1>1, <1>2 DEF Progress, Event

\* A handler answers the caller, hangs up a leg or dials one.
LEMMA HandlerProgress ==
    ASSUME PlacedInv, NEW w \in Workers, HandlerStep(w)
    PROVE  /\ Progress
           /\ placed' = placed \/ (pc[w] = "dial" /\ placed' = placed \cup {leg[w]})
  <1>1. CASE UNCHANGED <<placed, ringing, talking>> /\ hooks' = hooks
    BY <1>1, ProgressSame
  <1>2. CASE dialBuyer(w)
    <2>1. CASE PlaceLeg(leg[w])
      <3>1. leg[w] \notin placed /\ hooks' = hooks /\ pc[w] = "dial"
        BY <1>2 DEF dialBuyer, PlacedInv
      <3>2. placed' = placed \cup {leg[w]}
        BY <2>1 DEF PlaceLeg
      <3>3. QED
        BY <2>1, <3>1, <3>2, ProgressPlaceLeg
    <2>2. QED
      BY <1>1, <1>2, <2>1 DEF dialBuyer, phoneVars
  <1>3. CASE answerCall(w)
    BY <1>1, <1>3, ProgressPickUp DEF answerCall, PickUp, phoneVars
  <1>4. ASSUME NEW l \in todo[w], hangupCall(w, l)
        PROVE  Progress /\ placed' = placed
    BY <1>1, <1>4, ProgressEndLeg DEF hangupCall, EndLeg, phoneVars
  <1>5. CASE bridgeCalls(w)
    BY <1>1, <1>5 DEF bridgeCalls
  <1>6. CASE \/ IgnoreUnknownNumber(w) \/ CreateConflict(w) \/ CreateBlocked(w)
             \/ createCall(w) \/ startRouting(w) \/ prepareNone(w)
             \/ prepareFailed(w) \/ prepareNoAnswer(w)
             \/ \E b \in Buyers : prepareDial(w, b)
    BY <1>1, <1>6
       DEF IgnoreUnknownNumber, CreateConflict, CreateBlocked, createCall,
           startRouting, prepareNone, prepareFailed, prepareNoAnswer,
           prepareDial, phoneVars
  <1>7. CASE \/ commitBuyerDial(w) \/ startRinging(w) \/ dialFailed(w)
             \/ markCallAnswered(w) \/ handleCallerHangup(w)
             \/ handleBuyerHangup(w) \/ txThrows(w)
    BY <1>1, <1>7
       DEF commitBuyerDial, startRinging, dialFailed, markCallAnswered,
           handleCallerHangup, handleBuyerHangup, txThrows, phoneVars
  <1>8. QED
    BY <1>2, <1>3, <1>4, <1>5, <1>6, <1>7 DEF HandlerStep

\* An attempt wins only in markCallAnswered, for a call that is ROUTING.
Wins(w) == pc[w] = "markAnswered" /\ callState = "ROUTING"

LEMMA WonStep ==
    ASSUME TypeOK, HandlersInv, NEW w \in Workers, HandlerStep(w),
           NEW i \in AttemptIds', Won(i)'
    PROVE  i \in AttemptIds /\ (Won(i) \/ (Wins(w) /\ i = leg[w]))
  <1>1. leg[w] \in Nat /\ attempts \in Seq(Attempt)
    BY DEF TypeOK, HandlersTypeOK, DatabaseTypeOK
  <1>2. CASE UNCHANGED attempts
    BY <1>2 DEF Won, AttemptIds
  <1>3. ASSUME NEW s \in AttemptStates, SetAttempt(leg[w], s),
               \/ s \notin {"ANSWERED", "COMPLETED"}
               \/ leg[w] \in AttemptIds => Won(leg[w])
               \/ Wins(w)
        PROVE  i \in AttemptIds /\ (Won(i) \/ (Wins(w) /\ i = leg[w]))
    BY <1>1, <1>3, SetAttemptEffect DEF Won, AttemptIds
  <1>4. ASSUME NEW b \in Buyers, prepareDial(w, b)
        PROVE  i \in AttemptIds /\ Won(i)
    <2>1. NewAttempt(b).state = "INITIATED"
      BY DEF NewAttempt
    <2>2. i # Len(attempts) + 1
      BY <1>4, <2>1, PrepareDialEffect DEF Won
    <2>3. i \in AttemptIds
      BY <1>4, <2>2, PrepareDialEffect DEF AttemptIds
    <2>4. QED
      BY <1>4, <2>3, PrepareDialEffect DEF Won
  <1>5. CASE commitBuyerDial(w)
    <2>1. leg[w] \in AttemptIds
      BY <1>5 DEF HandlersInv, LegInRange, commitBuyerDial, Locked
    <2>2. QED
      BY <1>5, <2>1, CommitEffect DEF Won
  <1>6. CASE startRinging(w) \/ dialFailed(w)
    BY <1>2, <1>3, <1>6 DEF startRinging, dialFailed, AttemptStates
  <1>7. CASE markCallAnswered(w)
    BY <1>2, <1>3, <1>7 DEF markCallAnswered, CanBeAnswered, Locked, Wins,
                            AttemptStates
  <1>8. CASE handleBuyerHangup(w)
    BY <1>2, <1>3, <1>8 DEF handleBuyerHangup, ConnectedBuyerLeft, Won,
                            AttemptStates
  <1>9. CASE handleCallerHangup(w)
    BY <1>9, CallerHangupEffect DEF Won
  <1>10. CASE \/ IgnoreUnknownNumber(w) \/ CreateConflict(w) \/ CreateBlocked(w)
              \/ createCall(w) \/ answerCall(w) \/ startRouting(w)
              \/ prepareNone(w) \/ prepareFailed(w) \/ prepareNoAnswer(w)
    BY <1>2, <1>10
       DEF IgnoreUnknownNumber, CreateConflict, CreateBlocked, createCall,
           answerCall, startRouting, prepareNone, prepareFailed,
           prepareNoAnswer, dbVars
  <1>11. CASE \/ dialBuyer(w) \/ bridgeCalls(w) \/ txThrows(w)
              \/ \E l \in todo[w] : hangupCall(w, l)
    BY <1>2, <1>11 DEF dialBuyer, bridgeCalls, txThrows, hangupCall, dbVars
  <1>12. QED
    BY <1>4, <1>5, <1>6, <1>7, <1>8, <1>9, <1>10, <1>11 DEF HandlerStep

LEMMA ChosenStep ==
    ASSUME TypeOK, HandlersInv, NEW w \in Workers, HandlerStep(w)
    PROVE  \/ Chosen' \subseteq Chosen
           \/ Wins(w) /\ Chosen' \subseteq Chosen \cup {leg[w]}
  BY WonStep, BridgingStep DEF Chosen, Wins

\* Legs are put on the list to hang up by the two transactions that refuse the
\* leg of a call that is over, and when the caller is gone.
LEMMA TodoStep ==
    ASSUME TypeOK, RowsInv, HandlersInv, HangupTrue, NEW w \in Workers,
           HandlerStep(w)
    PROVE  /\ \A v \in Workers \ {w} : todo'[v] = todo[v]
           /\ \A l \in todo'[w] \ {CallerLeg} :
                \/ l \in todo[w]
                \/ /\ l = leg[w] /\ pc[w] \in {"commit", "markAnswered"}
                   /\ callState \in TerminalCallStates
                \/ l \in AttemptIds /\ CallerGone
  <1> DEFINE Refused(l) == /\ l = leg[w] /\ pc[w] \in {"commit", "markAnswered"}
                           /\ callState \in TerminalCallStates
             Goal == /\ \A v \in Workers \ {w} : todo'[v] = todo[v]
                     /\ \A l \in todo'[w] \ {CallerLeg} :
                          \/ l \in todo[w] \/ Refused(l)
                          \/ l \in AttemptIds /\ CallerGone
  <1>1. ASSUME NEW ls, GoHangUp(w, ls)
        PROVE  /\ \A v \in Workers \ {w} : todo'[v] = todo[v]
               /\ todo'[w] = ls
    BY <1>1 DEF GoHangUp, TypeOK, HandlersTypeOK
  <1>2. CASE todo' = todo
    BY <1>2
  <1>3. CASE CreateBlocked(w) \/ prepareFailed(w) \/ prepareNoAnswer(w)
    BY <1>1, <1>3 DEF CreateBlocked, prepareFailed, prepareNoAnswer
  <1>4. ASSUME pc[w] \in {"commit", "markAnswered"}, callState # "ROUTING"
        PROVE  callState \in TerminalCallStates
    <2>1. leg[w] \in AttemptIds
      BY <1>4 DEF HandlersInv, LegInRange
    <2>2. QED
      BY <1>4, <2>1, Terminal DEF RowsInv, NoAttemptsYet, TypeOK, DatabaseTypeOK,
                                  CallStates
  <1>5. CASE commitBuyerDial(w)
    <2>1. CASE callState # "ROUTING" /\ GoHangUp(w, {leg[w]})
      <3>1. pc[w] = "commit"
        BY <1>5 DEF commitBuyerDial, Locked
      <3>2. QED
        BY <1>1, <1>4, <2>1, <3>1
    <2>2. QED
      BY <1>2, <1>5, <2>1 DEF commitBuyerDial
  <1>6. CASE markCallAnswered(w)
    <2>1. CASE callState # "ROUTING" /\ GoHangUp(w, {leg[w]})
      <3>1. pc[w] = "markAnswered"
        BY <1>6 DEF markCallAnswered, Locked
      <3>2. QED
        BY <1>1, <1>4, <2>1, <3>1
    <2>2. QED
      BY <1>2, <1>6, <2>1 DEF markCallAnswered, CanBeAnswered
  <1>7. CASE handleCallerHangup(w)
    <2>1. CallerGone
      BY <1>7 DEF handleCallerHangup, Locked, HangupTrue
    <2>2. GoHangUp(w, {}) \/ GoHangUp(w, HangupTargets)
      BY <1>7 DEF handleCallerHangup
    <2>3. HangupTargets \subseteq AttemptIds
      BY DEF HangupTargets
    <2>4. QED
      BY <1>1, <2>1, <2>2, <2>3
  <1>8. CASE handleBuyerHangup(w)
    BY <1>1, <1>2, <1>8 DEF handleBuyerHangup
  <1>9. ASSUME NEW l \in todo[w], hangupCall(w, l)
        PROVE  Goal
    BY <1>1, <1>9 DEF hangupCall
  <1>10. CASE \/ IgnoreUnknownNumber(w) \/ CreateConflict(w) \/ createCall(w)
              \/ answerCall(w) \/ startRouting(w) \/ prepareNone(w)
              \/ (\E b \in Buyers : prepareDial(w, b)) \/ dialBuyer(w)
              \/ startRinging(w) \/ dialFailed(w) \/ bridgeCalls(w)
              \/ txThrows(w)
    BY <1>2, <1>10
       DEF IgnoreUnknownNumber, CreateConflict, createCall, answerCall,
           startRouting, prepareNone, prepareDial, dialBuyer, startRinging,
           dialFailed, bridgeCalls, txThrows
  <1>11. QED
    BY <1>3, <1>5, <1>6, <1>7, <1>8, <1>9, <1>10 DEF HandlerStep

\* A handler's step keeps WinnerInv.
LEMMA WinnerHandler ==
    ASSUME IInv, WinnerInv, NEW w \in Workers, HandlerStep(w)
    PROVE  WinnerInv'
  <1> USE DEF IInv, WinnerInv
  <1>1. \A v \in Workers \ {w} : pc'[v] = pc[v] /\ leg'[v] = leg[v]
    BY OtherHandlers
  <1>2. /\ Progress
        /\ placed' = placed \/ (pc[w] = "dial" /\ placed' = placed \cup {leg[w]})
    BY HandlerProgress
  <1>3. OwnStep(w) /\ pc'[w] \notin {"markAnswered", "callerHangup"}
    BY HandlerOwnStep DEF OwnStep
  <1>4. /\ AttemptIds \subseteq AttemptIds'
        /\ \A i \in AttemptIds : attempts[i].leg = "stored" =>
                attempts'[i].leg = "stored"
    BY RowsOnlyGrow
  <1>5. \/ Chosen' \subseteq Chosen
        \/ Wins(w) /\ Chosen' \subseteq Chosen \cup {leg[w]}
    BY ChosenStep
  <1>0. again' = again
    BY HandlerBounds DEF bounds
  <1>6. PlacedInv'
    <2>1. placed' \subseteq AttemptIds' \cup {CallerLeg}
      BY <1>2, <1>4 DEF PlacedInv, HandlersInv, LegInRange
    <2>2. ASSUME NEW v \in Workers, pc'[v] = "dial"
          PROVE  leg'[v] \notin placed'
      <3>1. CASE v = w
        <4>1. leg'[w] \notin AttemptIds /\ leg'[w] \in AttemptIds' /\ pc'[w] = "dial"
          BY <1>3, <2>2, <3>1 DEF OwnStep
        <4>2. leg'[w] \notin placed
          BY <4>1 DEF PlacedInv, AttemptIds, CallerLeg
        <4>3. pc[w] = "dial" => leg[w] \in AttemptIds
          BY DEF HandlersInv, LegInRange
        <4>4. QED
          BY <1>2, <3>1, <4>1, <4>2, <4>3
      <3>2. CASE v # w
        BY <1>1, <1>2, <2>2, <3>2 DEF PlacedInv, HandlersInv, SoleDialler,
                                      Dialling
      <3>3. QED
        BY <3>1, <3>2
    <2>3. QED
      BY <1>2, <2>1, <2>2 DEF PlacedInv, Progress
  <1>7. Wins(w) => /\ leg[w] \in AttemptIds \cap Stopped
                   /\ attempts[leg[w]].leg = "stored"
    BY DEF Wins, AnswerOnce, HandlersInv, LegInRange, FoundLegStored
  <1>8. ChosenInv'
    BY <1>2, <1>4, <1>5, <1>7 DEF ChosenInv, Progress
  <1>9. AnswerOnce'
    <2>1. ASSUME NEW e \in hooks', e.type = "CALL_ANSWERED"
          PROVE  /\ e.leg \in Stopped'
                 /\ ~Replayed(e.leg) =>
                      /\ e.leg \notin Chosen'
                      /\ \A v \in Workers : pc'[v] = "markAnswered" => leg'[v] # e.leg
      <3>1. CASE e \in hooks
        BY <1>1, <1>2, <1>3, <1>5, <2>1, <3>1 DEF AnswerOnce, Progress, Wins
      <3>2. CASE e \notin hooks
        <4>1. e.leg \in Stopped' /\ e.leg \notin Stopped
          BY <1>2, <2>1, <3>2 DEF Progress, Stopped
        <4>2. e.leg \notin Chosen'
          BY <1>5, <1>7, <4>1 DEF ChosenInv
        <4>3. QED
          BY <1>1, <1>3, <4>1, <4>2 DEF AnswerOnce
      <3>3. QED
        BY <3>1, <3>2
    <2>2. ASSUME NEW v \in Workers, pc'[v] = "markAnswered"
          PROVE  /\ leg'[v] \in Stopped'
                 /\ ~Replayed(leg'[v]) =>
                      /\ leg'[v] \notin Chosen'
                      /\ \A u \in Workers :
                           pc'[u] = "markAnswered" /\ leg'[u] = leg'[v] => u = v
      <3>1. v # w /\ pc[v] = "markAnswered" /\ leg'[v] = leg[v]
        BY <1>1, <1>3, <2>2
      <3>2. QED
        BY <1>1, <1>2, <1>3, <1>5, <3>1 DEF AnswerOnce, Progress, Wins
    <2>3. QED
      BY <1>0, <2>1, <2>2 DEF AnswerOnce, Replayed
  <1>10. HangupTrue'
    <2>1. \A v \in Workers : pc'[v] = "callerHangup" => pc[v] = "callerHangup"
      BY <1>1, <1>3
    <2>2. Event("CALL_HANGUP", CallerLeg) \in hooks' => CallerGone'
      BY <1>2 DEF HangupTrue, Progress
    <2>3. QED
      BY <1>2, <2>1, <2>2 DEF HangupTrue, Progress
  <1>11. TodoInv'
    <2> SUFFICES ASSUME NEW v \in Workers, NEW l \in todo'[v] \ {CallerLeg}
                 PROVE  l \in AttemptIds' /\ Unwanted(l)'
      BY DEF TodoInv
    <2>1. \/ l \in todo[v]
          \/ /\ l = leg[w] /\ pc[w] \in {"commit", "markAnswered"}
             /\ callState \in TerminalCallStates
          \/ l \in AttemptIds /\ CallerGone
      BY TodoStep
    <2>2. l \in AttemptIds /\ Unwanted(l)
      <3>1. CASE l \in todo[v]
        BY <3>1 DEF TodoInv
      <3>2. CASE l \in AttemptIds /\ CallerGone
        BY <3>2 DEF Unwanted
      <3>3. CASE /\ l = leg[w] /\ pc[w] = "markAnswered"
                 /\ callState \in TerminalCallStates
        BY <3>3 DEF AnswerOnce, HandlersInv, LegInRange, Unwanted
      <3>4. CASE /\ l = leg[w] /\ pc[w] = "commit"
                 /\ callState \in TerminalCallStates
        <4>1. l \in AttemptIds /\ attempts[l].leg = "null"
          BY <3>4 DEF HandlersInv, LegInRange, SoleDialler, Dialling
        <4>2. QED
          BY <3>4, <4>1 DEF ChosenInv, Unwanted
      <3>5. QED
        BY <2>1, <3>1, <3>2, <3>3, <3>4
    <2>3. CASE CallerGone
      BY <1>2, <1>4, <2>2, <2>3 DEF Progress, Unwanted
    <2>4. CASE /\ callState \in TerminalCallStates
               /\ Replayed(l) \/ l \notin Chosen
      <3>1. callState' \in TerminalCallStates /\ Chosen' \subseteq Chosen
        BY <1>5, <2>4, Terminal, EndedCallStays DEF Wins
      <3>2. Replayed(l)' \/ l \notin Chosen'
        BY <1>0, <2>4, <3>1 DEF Replayed
      <3>3. QED
        BY <1>4, <2>2, <3>1, <3>2, Terminal DEF Unwanted
    <2>5. QED
      BY <2>2, <2>3, <2>4 DEF Unwanted
  <1>12. QED
    BY <1>6, <1>8, <1>9, <1>10, <1>11

\* An event is handled: it will not come again, or it is replayed.
LEMMA WinnerReceive ==
    ASSUME IInv, WinnerInv,
           NEW w \in Workers, NEW e \in hooks, Receive(w, e)
    PROVE  WinnerInv'
  <1> USE DEF IInv, WinnerInv
  <1>1. /\ UNCHANGED <<callState, attempts, placed, ringing, talking,
                       bridged, todo>>
        /\ \A v \in Workers \ {w} : pc'[v] = pc[v] /\ leg'[v] = leg[v]
        /\ pc[w] = "idle" /\ pc'[w] = Branch(e)
        /\ pc'[w] # "idle" => leg'[w] = e.leg
    BY DEF Receive, Goto, TypeOK, HandlersTypeOK, dbVars, phoneVars
  <1>2. /\ hooks' \subseteq hooks /\ again \subseteq again'
        /\ e \notin hooks' \/ e \in again'
    BY DEF Receive, KeptForRedelivery
  <1>3. /\ e.type \in EventTypes /\ e.leg \in Nat
        /\ e = [type |-> e.type, leg |-> e.leg]
    BY DEF TypeOK, PhonesTypeOK, Events
  <1>4. /\ Branch(e) \notin {"dial", "bridge"}
        /\ Branch(e) = "markAnswered" => e.type = "CALL_ANSWERED"
        /\ Branch(e) = "callerHangup" => e = Event("CALL_HANGUP", CallerLeg)
    BY <1>3 DEF Branch, EventTypes, Event
  <1>5. AttemptIds' = AttemptIds /\ Bridging' = Bridging
    BY <1>1, <1>4 DEF AttemptIds, Bridging
  <1>6. Chosen' = Chosen
    BY <1>1, <1>5 DEF Chosen, Won
  <1>7. Stopped' = Stopped /\ CallerGone' = CallerGone
    BY <1>1 DEF Stopped, CallerGone, Live
  <1>8. PlacedInv' /\ ChosenInv'
    BY <1>1, <1>4, <1>5, <1>6, <1>7 DEF PlacedInv, ChosenInv
  <1>9. \A l : Replayed(l) => Replayed(l)'
    BY <1>2 DEF Replayed
  <1>10. AnswerOnce'
    <2>1. ASSUME NEW f \in hooks', f.type = "CALL_ANSWERED"
          PROVE  /\ f.leg \in Stopped'
                 /\ ~Replayed(f.leg)' =>
                      /\ f.leg \notin Chosen'
                      /\ \A v \in Workers : pc'[v] = "markAnswered" => leg'[v] # f.leg
      <3>1. f \in Events /\ f \in hooks /\ f = Event("CALL_ANSWERED", f.leg)
        BY <1>2, <2>1 DEF TypeOK, PhonesTypeOK, Events, Event
      <3>2. ASSUME ~Replayed(f.leg)', e.type = "CALL_ANSWERED"
            PROVE  e.leg # f.leg
        BY <1>2, <1>3, <2>1, <3>1, <3>2 DEF Replayed, Event
      <3>3. ASSUME ~Replayed(f.leg)', NEW v \in Workers, pc'[v] = "markAnswered"
            PROVE  leg'[v] # f.leg
        BY <1>1, <1>4, <1>9, <2>1, <3>1, <3>2, <3>3 DEF AnswerOnce
      <3>4. QED
        BY <1>6, <1>7, <1>9, <2>1, <3>1, <3>3 DEF AnswerOnce
    <2>2. ASSUME NEW v \in Workers, pc'[v] = "markAnswered"
          PROVE  /\ leg'[v] \in Stopped'
                 /\ Event("CALL_ANSWERED", leg'[v]) \notin again' =>
                      /\ leg'[v] \notin Chosen'
                      /\ \A u \in Workers :
                           pc'[u] = "markAnswered" /\ leg'[u] = leg'[v] => u = v
      <3>1. PICK l : l = leg'[v]
        OBVIOUS
      <3>2. \/ v = w /\ e.type = "CALL_ANSWERED" /\ e.leg = l
            \/ v # w /\ pc[v] = "markAnswered" /\ leg[v] = l
        BY <1>1, <1>4, <2>2, <3>1
      <3>3. l \in Stopped' /\ (~Replayed(l) => l \notin Chosen')
        BY <1>6, <1>7, <3>2 DEF AnswerOnce
      <3>4. ASSUME ~Replayed(l), NEW u \in Workers, pc'[u] = "markAnswered",
                   leg'[u] = l
            PROVE  u = v
        BY <1>1, <1>4, <3>2, <3>4 DEF AnswerOnce
      <3>5. QED
        BY <1>2, <3>1, <3>3, <3>4 DEF Replayed
    <2>3. QED
      BY <2>1, <2>2 DEF AnswerOnce, Replayed
  <1>11. HangupTrue'
    BY <1>1, <1>2, <1>4, <1>7 DEF HangupTrue
  <1>12. TodoInv'
    BY <1>1, <1>5, <1>6, <1>7, <1>9 DEF TodoInv, Unwanted
  <1>13. QED
    BY <1>8, <1>10, <1>11, <1>12

\* People, administrators and restarts.
LEMMA WinnerQuiet ==
    ASSUME IInv, WinnerInv, Progress, placed' \subseteq placed \cup {CallerLeg},
           UNCHANGED <<callState, attempts, bridged, again>>,
           \/ UNCHANGED <<pc, leg, todo>>
           \/ \A w \in Workers : pc'[w] = "idle" /\ todo'[w] = {}
    PROVE  WinnerInv'
  <1> USE DEF IInv, WinnerInv
  <1>1. /\ AttemptIds' = AttemptIds
        /\ \A w \in Workers : pc'[w] # "idle" => pc'[w] = pc[w] /\ leg'[w] = leg[w]
        /\ \A w \in Workers : todo'[w] \subseteq todo[w]
    BY DEF AttemptIds
  <1>2. Chosen' \subseteq Chosen
    BY <1>1 DEF Chosen, Won, Bridging
  <1>3. PlacedInv'
    <2>1. \A w \in Workers : pc[w] = "dial" => leg[w] \notin placed \cup {CallerLeg}
      BY DEF PlacedInv, HandlersInv, LegInRange, AttemptIds, CallerLeg
    <2>2. QED
      BY <1>1, <2>1 DEF PlacedInv, Progress
  <1>4. ChosenInv'
    BY <1>1, <1>2 DEF ChosenInv, Progress
  <1>5. AnswerOnce'
    <2>1. ASSUME NEW e \in hooks', e.type = "CALL_ANSWERED"
          PROVE  /\ e.leg \in Stopped'
                 /\ ~Replayed(e.leg) =>
                      /\ e.leg \notin Chosen'
                      /\ \A v \in Workers : pc'[v] = "markAnswered" => leg'[v] # e.leg
      <3>1. CASE e \in hooks
        BY <1>1, <1>2, <2>1, <3>1 DEF AnswerOnce, Progress
      <3>2. CASE e \notin hooks
        <4>1. e.leg \in Stopped' /\ e.leg \notin Stopped
          BY <2>1, <3>2 DEF Progress, Stopped
        <4>2. QED
          BY <1>1, <1>2, <4>1 DEF AnswerOnce, ChosenInv
      <3>3. QED
        BY <3>1, <3>2
    <2>2. QED
      BY <1>1, <1>2, <2>1 DEF AnswerOnce, Progress, Replayed
  <1>6. HangupTrue'
    BY <1>1 DEF HangupTrue, Progress
  <1>7. TodoInv'
    BY <1>1, <1>2 DEF TodoInv, Unwanted, Progress, Replayed, Terminal
  <1>8. QED
    BY <1>3, <1>4, <1>5, <1>6, <1>7

LEMMA WinnerNext ==
    ASSUME IInv, WinnerInv, [Next]_vars
    PROVE  WinnerInv'
  <1>1. PlacedInv
    BY DEF WinnerInv
  <1>2. CASE UNCHANGED vars
    BY <1>1, <1>2, ProgressSame, WinnerQuiet DEF vars
  <1>3. ASSUME NEW i \in ringing, BuyerAnswers(i)
        PROVE  WinnerInv'
    BY <1>1, <1>3, ProgressPickUp, WinnerQuiet DEF BuyerAnswers, PickUp, dbVars, bounds
  <1>4. ASSUME NEW l \in ringing \cup talking, BuyerDoesNotAnswer(l) \/ HangsUp(l)
        PROVE  WinnerInv'
    <2>1. Live(l) /\ EndLeg(l) /\ UNCHANGED <<dbVars, pc, leg, todo, bounds>>
      BY <1>4 DEF BuyerDoesNotAnswer, HangsUp, Live
    <2>2. Progress
      BY <1>1, <2>1, ProgressEndLeg
    <2>3. QED
      BY <2>1, <2>2, WinnerQuiet DEF EndLeg, dbVars, bounds
  <1>5. CASE CallerDials
    <2>1. Progress
      BY <1>1, <1>5, ProgressPlaceLeg DEF CallerDials, Event
    <2>2. QED
      BY <1>5, <2>1, WinnerQuiet DEF CallerDials, PlaceLeg, dbVars, bounds
  <1>6. ASSUME NEW k \in Link, addBuyerToCampaign(k)
        PROVE  WinnerInv'
    BY <1>1, <1>6, ProgressSame, WinnerQuiet
       DEF addBuyerToCampaign, dbVars, phoneVars, bounds
  <1>7. CASE Restart
    BY <1>1, <1>7, ProgressSame, WinnerQuiet DEF Restart, dbVars, phoneVars
  <1>8. QED
    BY <1>2, <1>3, <1>4, <1>5, <1>6, <1>7, WinnerHandler, WinnerReceive
       DEF Next, PhoneStep

\* While the caller is on the phone no handler hangs up the buyer who was
\* chosen or connected, whatever fails, rolls back, restarts or comes again,
\* except on a replay of that buyer's own answer.
THEOREM WinnerKeptHolds == Spec => []WinnerKept
  <1>1. Init => WinnerInv
    BY DEF Init, WinnerInv, PlacedInv, ChosenInv, Chosen, Bridging, AttemptIds,
           Stopped, AnswerOnce, HangupTrue, CallerGone, TodoInv
  <1>2. IInv /\ WinnerInv /\ [Next]_vars => WinnerInv'
    BY WinnerNext
  <1>3. WinnerInv => WinnerKept
    BY DEF WinnerInv, TodoInv, WinnerKept, HangsUpWinner, Unwanted, Replayed,
           CallerGone, Chosen, Bridging
  <1>4. QED
    BY <1>1, <1>2, <1>3, Inductive, PTL DEF Spec

-----------------------------------------------------------------------------
(***************************************************************************)
(* Refinement of SequentialRouting: which step of a handler is which step  *)
(* of the cascade.  Failing a call needs two facts more: buyers are tried  *)
(* only when they are linked, and only in a call that has a campaign.      *)
(***************************************************************************)
LinkInv ==
    /\ \A b \in TriedBuyers : \E k \in roster : k.buyer = b
    /\ campaign = "null" => AttemptIds = {}

\* A step that keeps the buyers, the open attempts and the winner stutters.
LEMMA SameCascade ==
    ASSUME roster' = roster, AttemptIds' = AttemptIds, Outcome' = Outcome,
           \A i \in AttemptIds : attempts'[i].buyer = attempts[i].buyer,
           \A i \in AttemptIds : Won(i)' <=> Won(i),
           callState' = "ROUTING" =>
               \A i \in AttemptIds : i \in ActiveAttempts' <=> i \in ActiveAttempts
    PROVE  UNCHANGED Abstract!vars
<1>1. TriedBuyers' = TriedBuyers
  BY DEF TriedBuyers
<1>2. callState' = "ROUTING" <=> callState = "ROUTING"
  BY DEF Outcome
<1>3. TryingBuyers' = TryingBuyers
  BY <1>2 DEF TryingBuyers, ActiveAttempts
<1>4. Winners' = Winners
  BY DEF Winners
<1> QED
  BY <1>1, <1>3, <1>4 DEF Abstract!vars

\* What no attempt, or no open one, means for the cascade.
LEMMA CascadeFacts ==
    /\ AttemptIds = {} => TriedBuyers = {} /\ TryingBuyers = {} /\ Winners = {}
    /\ ActiveAttempts = {} => TryingBuyers = {}
    /\ callState # "ROUTING" => TryingBuyers = {}
    /\ OneWinner /\ callState # "COMPLETED" => Winners = {}
BY DEF TriedBuyers, TryingBuyers, Winners, ActiveAttempts, OneWinner

LEMMA LinkHandler ==
    ASSUME TypeOK, HandlersInv, NoAttemptsYet, LinkInv, NEW w \in Workers,
           HandlerStep(w)
    PROVE  LinkInv'
<1>1. roster' = roster
  BY RosterKept
<1>2. ASSUME NEW b \in Buyers, prepareDial(w, b)
      PROVE  LinkInv'
  <2>1. (\E k \in roster : k.buyer = b) /\ campaign' = "linked"
    BY <1>2 DEF prepareDial, IsNextBuyer, Untried
  <2>2. /\ Len(attempts) \in Nat /\ Len(attempts') = Len(attempts) + 1
        /\ \A j \in AttemptIds : attempts'[j] = attempts[j]
        /\ attempts'[Len(attempts) + 1] = NewAttempt(b)
    BY <1>2, PrepareDialEffect
  <2>3. ASSUME NEW i \in AttemptIds'
        PROVE  \E k \in roster : k.buyer = attempts'[i].buyer
    <3>1. i \in AttemptIds \/ i = Len(attempts) + 1
      BY <2>2 DEF AttemptIds
    <3>2. NewAttempt(b).buyer = b
      BY DEF NewAttempt
    <3> QED
      BY <2>1, <2>2, <3>1, <3>2 DEF LinkInv, TriedBuyers
  <2> QED
    BY <1>1, <2>1, <2>3 DEF LinkInv, TriedBuyers
<1>3. CASE ~\E b \in Buyers : prepareDial(w, b)
  <2>1. /\ AttemptIds' = AttemptIds
        /\ \A i \in AttemptIds : attempts'[i].buyer = attempts[i].buyer
    BY <1>3, BuyersKept
  <2>2. TriedBuyers' = TriedBuyers
    BY <2>1 DEF TriedBuyers
  <2>3. campaign' = campaign \/ callState = "absent"
    BY DEF HandlerStep, IgnoreUnknownNumber, CreateConflict, CreateBlocked,
           createCall, answerCall, startRouting, prepareNone, prepareFailed,
           prepareNoAnswer, prepareDial, dialBuyer, commitBuyerDial,
           startRinging, dialFailed, markCallAnswered, bridgeCalls,
           handleCallerHangup, handleBuyerHangup, hangupCall, txThrows, dbVars
  <2> QED
    BY <1>1, <2>1, <2>2, <2>3 DEF LinkInv, NoAttemptsYet
<1> QED
  BY <1>2, <1>3

LEMMA LinkNext == IInv /\ LinkInv /\ [Next]_vars => LinkInv'
<1> SUFFICES ASSUME IInv, LinkInv, [Next]_vars PROVE LinkInv'
  OBVIOUS
<1>1. ASSUME NEW w \in Workers, HandlerStep(w) PROVE LinkInv'
  BY <1>1, LinkHandler DEF IInv, RowsInv
<1>2. CASE UNCHANGED dbVars /\ roster \subseteq roster'
  BY <1>2 DEF dbVars, LinkInv, TriedBuyers, AttemptIds
<1>3. CASE UNCHANGED vars
  BY <1>2, <1>3 DEF vars, dbVars
<1>4. ASSUME NEW w \in Workers, NEW e \in hooks, Receive(w, e)
      PROVE  UNCHANGED dbVars /\ roster \subseteq roster'
  BY <1>4 DEF Receive
<1>5. CASE PhoneStep \/ Restart \/ \E k \in Link : addBuyerToCampaign(k)
  BY <1>2, <1>5 DEF PhoneStep, CallerDials, BuyerAnswers, BuyerDoesNotAnswer,
                    HangsUp, Restart, addBuyerToCampaign
<1> QED
  BY <1>1, <1>2, <1>3, <1>4, <1>5 DEF Next

\* One attempt was given another state; the others are as they were.
OneChanged(i, s) ==
    /\ i \in AttemptIds /\ AttemptIds' = AttemptIds
    /\ \A j \in AttemptIds :
         /\ attempts'[j].buyer = attempts[j].buyer
         /\ attempts'[j].state = IF j = i THEN s ELSE attempts[j].state

LEMMA AttemptChanged ==
    ASSUME IInv, NEW w \in Workers, leg[w] \in AttemptIds,
           NEW s \in AttemptStates, SetAttempt(leg[w], s)
    PROVE  OneChanged(leg[w], s)
<1>1. attempts \in Seq(Attempt) /\ leg[w] \in Nat
  BY DEF IInv, TypeOK, DatabaseTypeOK, HandlersTypeOK
<1> QED
  BY <1>1, SetAttemptEffect DEF OneChanged, AttemptIds

\* An open attempt that is given up is missed; one that was given up before
\* only changes its reason.
LEMMA AttemptEnds ==
    ASSUME IInv, NEW i, NEW s \in {"NO_ANSWER", "FAILED"}, OneChanged(i, s),
           roster' = roster, callState' = callState, ~Won(i)
    PROVE  Abstract!Miss \/ UNCHANGED Abstract!vars
<1>1. i \in AttemptIds /\ Outcome' = Outcome
  BY DEF OneChanged, Outcome
<1>2. \A j \in AttemptIds : Won(j)' <=> Won(j)
  BY DEF OneChanged, Won
<1>3. CASE i \in ActiveAttempts /\ callState = "ROUTING"
  <2>1. \A j \in ActiveAttempts : j = i
    BY <1>3 DEF IInv, RowsInv, OneActiveAttempt
  <2>2. \A j \in AttemptIds :
            j # i => attempts[j].state \notin {"INITIATED", "RINGING"}
    BY <2>1 DEF ActiveAttempts
  <2>3. TryingBuyers # {}
    BY <1>3 DEF TryingBuyers, ActiveAttempts
  <2>4. TryingBuyers' = {}
    BY <2>2 DEF TryingBuyers, OneChanged
  <2>5. TriedBuyers' = TriedBuyers /\ Winners' = Winners
    BY <1>2 DEF TriedBuyers, Winners, OneChanged
  <2> QED
    BY <1>1, <2>3, <2>4, <2>5 DEF Abstract!Miss
<1>4. CASE i \notin ActiveAttempts \/ callState # "ROUTING"
  <2>1. callState' = "ROUTING" =>
            \A j \in AttemptIds : j \in ActiveAttempts' <=> j \in ActiveAttempts
    BY <1>4 DEF ActiveAttempts, OneChanged
  <2> QED
    BY <1>1, <1>2, <2>1, SameCascade DEF OneChanged
<1> QED
  BY <1>3, <1>4

LEMMA BeginRefines ==
    ASSUME IInv, roster' = roster, NEW w \in Workers,
           createCall(w) \/ CreateBlocked(w) \/ startRouting(w)
    PROVE  [Abstract!Next]_Abstract!vars
<1>1. /\ UNCHANGED attempts /\ AttemptIds' = AttemptIds
      /\ TriedBuyers' = TriedBuyers /\ Winners' = Winners
  BY DEF createCall, CreateBlocked, startRouting, AttemptIds, TriedBuyers,
         Winners, Won
<1>2. callState \in {"absent", "INITIATED"} =>
          TriedBuyers = {} /\ TryingBuyers = {} /\ TryingBuyers' = {}
  <2>1. callState \in {"absent", "INITIATED"} => AttemptIds = {}
    BY DEF IInv, RowsInv, NoAttemptsYet
  <2>2. AttemptIds' = {} => TryingBuyers' = {}
    BY DEF TryingBuyers
  <2> QED
    BY <1>1, <2>1, <2>2, CascadeFacts
<1>3. CASE createCall(w)
  <2>1. Outcome' = Outcome /\ TryingBuyers' = TryingBuyers
    BY <1>2, <1>3 DEF createCall, Outcome
  <2> QED
    BY <1>1, <2>1 DEF Abstract!vars
<1>4. CASE CreateBlocked(w)
  <2>1. Outcome = "new" /\ Outcome' = "FAILED"
    BY <1>4 DEF CreateBlocked, Outcome
  <2>2. TriedBuyers = {} /\ TryingBuyers' = TryingBuyers
    BY <1>2, <1>4 DEF CreateBlocked
  <2> QED
    BY <1>1, <2>1, <2>2 DEF Abstract!Fail, Abstract!Next
<1>5. CASE startRouting(w) /\ callState = "INITIATED" /\ callState' = "ROUTING"
  <2>1. Outcome = "new" /\ Outcome' = "ROUTING" /\ TryingBuyers' = TryingBuyers
    BY <1>2, <1>5 DEF Outcome
  <2> QED
    BY <1>1, <2>1 DEF Abstract!Begin, Abstract!Next
<1>6. CASE startRouting(w) /\ callState' = callState
  <2>1. Outcome' = Outcome /\ TryingBuyers' = TryingBuyers
    BY <1>1, <1>6 DEF Outcome, TryingBuyers
  <2> QED
    BY <1>1, <2>1 DEF Abstract!vars
<1>7. startRouting(w) =>
          callState' = callState \/ (callState = "INITIATED" /\ callState' = "ROUTING")
  <2>1. startRouting(w) => callState \in CallStates
    BY DEF IInv, HandlersInv, RowExists, TypeOK, DatabaseTypeOK, startRouting, Locked
  <2> QED
    BY <2>1 DEF startRouting, isValidTransition, VALID_CALL_TRANSITIONS, CallStates
<1> QED
  BY <1>3, <1>4, <1>5, <1>6, <1>7

LEMMA PrepareRefines ==
    ASSUME IInv, LinkInv, roster' = roster, NEW w \in Workers,
           prepareFailed(w) \/ prepareNoAnswer(w) \/ \E b \in Buyers : prepareDial(w, b)
    PROVE  Abstract!Next
<1>1. /\ callState = "ROUTING" /\ Outcome = "ROUTING"
      /\ ActiveAttempts = {} /\ TryingBuyers = {}
  BY CascadeFacts DEF prepareFailed, prepareNoAnswer, prepareDial, MayChooseBuyer,
                      Outcome
<1>2. CASE prepareFailed(w)
  <2>1. TriedBuyers = {} /\ Outcome' = "FAILED"
    BY <1>2, CascadeFacts DEF prepareFailed, LinkInv, Outcome
  <2>2. UNCHANGED attempts /\ TryingBuyers' = {}
    BY <1>2 DEF prepareFailed, TryingBuyers
  <2>3. TriedBuyers' = TriedBuyers /\ Winners' = Winners
    BY <2>2 DEF TriedBuyers, Winners, Won, AttemptIds
  <2> QED
    BY <1>1, <2>1, <2>2, <2>3 DEF Abstract!Fail, Abstract!Next
<1>3. CASE prepareNoAnswer(w)
  <2>1. Abstract!Waiting = {} /\ Outcome' = "NO_ANSWER"
    BY <1>3 DEF prepareNoAnswer, Untried, Tried, TriedBuyers, Abstract!Waiting,
                Outcome
  <2>2. UNCHANGED attempts /\ TryingBuyers' = {}
    BY <1>3 DEF prepareNoAnswer, TryingBuyers
  <2>3. TriedBuyers' = TriedBuyers /\ Winners' = Winners
    BY <2>2 DEF TriedBuyers, Winners, Won, AttemptIds
  <2> QED
    BY <1>1, <2>1, <2>2, <2>3 DEF Abstract!GiveUp, Abstract!Next
<1>4. ASSUME NEW b \in Buyers, prepareDial(w, b) PROVE Abstract!Next
  <2>1. PICK n : n = Len(attempts) + 1
    OBVIOUS
  <2>2. /\ AttemptIds' = AttemptIds \cup {n} /\ n \notin AttemptIds
        /\ \A j \in AttemptIds : attempts'[j] = attempts[j]
        /\ attempts'[n].buyer = b /\ attempts'[n].state = "INITIATED"
    <3>1. /\ Len(attempts) \in Nat /\ Len(attempts') = n
          /\ \A j \in AttemptIds : attempts'[j] = attempts[j]
          /\ attempts'[n] = NewAttempt(b)
      BY <1>4, <2>1, PrepareDialEffect DEF IInv
    <3>2. AttemptIds' = AttemptIds \cup {n} /\ n \notin AttemptIds
      BY <2>1, <3>1 DEF AttemptIds
    <3> QED
      BY <3>1, <3>2 DEF NewAttempt
  <2>3. \E k \in Abstract!Waiting :
            /\ k.buyer = b
            /\ \A m \in Abstract!Waiting : k.priority <= m.priority
    BY <1>4 DEF prepareDial, IsNextBuyer, Untried, Tried, TriedBuyers,
                Abstract!Waiting
  <2>4. TriedBuyers' = TriedBuyers \cup {b}
    BY <2>2 DEF TriedBuyers
  <2>5. callState' = callState
    BY <1>4 DEF prepareDial
  <2>6. TryingBuyers' = {b}
    BY <1>1, <2>2, <2>5 DEF TryingBuyers, ActiveAttempts
  <2>7. Winners' = Winners
    BY <2>2 DEF Winners, Won
  <2>8. Outcome' = Outcome
    BY <2>5 DEF Outcome
  <2>9. Abstract!Try(b)
    BY <1>1, <2>3, <2>4, <2>6, <2>7, <2>8 DEF Abstract!Try
  <2> QED
    BY <2>9 DEF Abstract!Next
<1> QED
  BY <1>2, <1>3, <1>4

\* Storing the leg and starting to ring are not seen; the catch block misses an
\* open attempt, or forgets a winner who answered before it rang.
LEMMA DialRefines ==
    ASSUME IInv, roster' = roster, NEW w \in Workers,
           commitBuyerDial(w) \/ startRinging(w) \/ dialFailed(w)
    PROVE  [Abstract!Next]_Abstract!vars
<1>1. leg[w] \in AttemptIds /\ callState' = callState /\ Outcome' = Outcome
  BY DEF IInv, HandlersInv, LegInRange, commitBuyerDial, startRinging, dialFailed,
         Locked, Outcome
<1>2. CASE commitBuyerDial(w)
  <2>1. /\ AttemptIds' = AttemptIds
        /\ \A j \in AttemptIds :
             /\ attempts'[j].buyer = attempts[j].buyer
             /\ attempts'[j].state = IF j = leg[w] /\ callState # "ROUTING"
                                     THEN "CANCELED" ELSE attempts[j].state
    BY <1>1, <1>2, CommitEffect DEF IInv
  <2>2. ~Won(leg[w])
    BY <1>1, <1>2 DEF IInv, HandlersInv, SoleDialler, Dialling, RowsInv, UnknownLegs,
                      commitBuyerDial, Locked, Won
  <2>3. \A j \in AttemptIds : Won(j)' <=> Won(j)
    BY <2>1, <2>2 DEF Won
  <2>4. callState' = "ROUTING" =>
            \A j \in AttemptIds : j \in ActiveAttempts' <=> j \in ActiveAttempts
    BY <1>1, <2>1 DEF ActiveAttempts
  <2> QED
    BY <1>1, <2>1, <2>3, <2>4, SameCascade
<1>3. CASE UNCHANGED attempts
  BY <1>1, <1>3, SameCascade DEF AttemptIds, ActiveAttempts, Won
<1>4. ASSUME SetAttempt(leg[w], "RINGING"),
             isValidAttemptTransition(attempts[leg[w]].state, "RINGING")
      PROVE  UNCHANGED Abstract!vars
  <2>1. OneChanged(leg[w], "RINGING")
    BY <1>1, <1>4, AttemptChanged DEF AttemptStates
  <2>2. attempts[leg[w]].state \in {"INITIATED", "RINGING"}
    BY <1>1, <1>4, RowType DEF IInv, isValidAttemptTransition,
                               VALID_ATTEMPT_TRANSITIONS, AttemptStates
  <2>3. \A j \in AttemptIds : Won(j)' <=> Won(j)
    BY <2>1, <2>2 DEF OneChanged, Won
  <2>4. \A j \in AttemptIds : j \in ActiveAttempts' <=> j \in ActiveAttempts
    BY <2>1, <2>2 DEF OneChanged, ActiveAttempts
  <2> QED
    BY <1>1, <2>1, <2>3, <2>4, SameCascade DEF OneChanged
<1>5. ASSUME SetAttempt(leg[w], "FAILED")
      PROVE  [Abstract!Next]_Abstract!vars
  <2>1. OneChanged(leg[w], "FAILED")
    BY <1>1, <1>5, AttemptChanged DEF AttemptStates
  <2>2. CASE ~Won(leg[w])
    BY <1>1, <2>1, <2>2, AttemptEnds DEF Abstract!Next
  <2>3. CASE Won(leg[w])
    <3>1. callState = "COMPLETED" /\ \A j \in AttemptIds : Won(j) => j = leg[w]
      BY <1>1, <2>3 DEF IInv, RowsInv, OneWinner
    <3>2. Winners # {} /\ Winners' = {}
      BY <1>1, <2>1, <2>3, <3>1 DEF Winners, Won, OneChanged
    <3>3. TriedBuyers' = TriedBuyers
      BY <2>1 DEF TriedBuyers, OneChanged
    <3>4. TryingBuyers' = TryingBuyers
      BY <1>1, <3>1 DEF TryingBuyers
    <3> QED
      BY <1>1, <3>2, <3>3, <3>4 DEF Abstract!Forget, Abstract!Next
  <2> QED
    BY <2>2, <2>3
<1> QED
  BY <1>2, <1>3, <1>4, <1>5 DEF startRinging, dialFailed

LEMMA AnswerRefines ==
    ASSUME IInv, roster' = roster, NEW w \in Workers, markCallAnswered(w)
    PROVE  [Abstract!Next]_Abstract!vars
<1>1. leg[w] \in AttemptIds
  BY DEF IInv, HandlersInv, LegInRange, markCallAnswered, Locked
<1>2. CASE UNCHANGED <<callState, attempts>>
  BY <1>2, SameCascade DEF AttemptIds, ActiveAttempts, Won, Outcome
<1>3. CASE /\ callState = "ROUTING" /\ callState' = "COMPLETED"
           /\ SetAttempt(leg[w], "ANSWERED")
  <2>1. OneChanged(leg[w], "ANSWERED")
    BY <1>1, <1>3, AttemptChanged DEF AttemptStates
  <2>2. PICK b : b = attempts[leg[w]].buyer
    OBVIOUS
  <2>3. b \in Buyers /\ b \in TriedBuyers /\ TriedBuyers' = TriedBuyers
    BY <1>1, <2>1, <2>2, RowType DEF IInv, TriedBuyers, OneChanged
  <2>4. \A j \in AttemptIds : ~Won(j)
    BY <1>3 DEF IInv, RowsInv, OneWinner
  <2>5. Winners' = {b}
    <3>1. \A j \in AttemptIds' : Won(j)' <=> j = leg[w]
      BY <2>1, <2>4 DEF Won, OneChanged
    <3> QED
      BY <1>1, <2>1, <2>2, <3>1 DEF Winners, OneChanged
  <2>6. TryingBuyers' = {}
    BY <1>3 DEF TryingBuyers
  <2>7. Outcome = "ROUTING" /\ Outcome' = "COMPLETED"
    BY <1>3 DEF Outcome
  <2>8. Abstract!Answer(b)
    BY <2>3, <2>5, <2>6, <2>7 DEF Abstract!Answer
  <2> QED
    BY <2>3, <2>8 DEF Abstract!Next
<1> QED
  BY <1>2, <1>3 DEF markCallAnswered, CanBeAnswered

LEMMA HangupRefines ==
    ASSUME IInv, roster' = roster, NEW w \in Workers,
           handleCallerHangup(w) \/ handleBuyerHangup(w)
    PROVE  [Abstract!Next]_Abstract!vars
<1>1. CASE handleCallerHangup(w)
  <2>1. /\ AttemptIds' = AttemptIds
        /\ \A j \in AttemptIds :
             /\ attempts'[j].buyer = attempts[j].buyer
             /\ attempts'[j].state =
                  IF attempts[j].state \in {"INITIATED", "RINGING"}
                  THEN "CANCELED" ELSE attempts[j].state
    BY <1>1, CallerHangupEffect DEF IInv
  <2>2. \A j \in AttemptIds : Won(j)' <=> Won(j)
    BY <2>1 DEF Won
  <2>3. callState # "absent"
    BY <1>1 DEF IInv, HandlersInv, RowExists, handleCallerHangup, Locked
  <2>4. CASE callState \in {"INITIATED", "ROUTING"}
    <3>1. callState' = "CANCELED"
      BY <1>1, <2>4 DEF handleCallerHangup, FinalState
    <3>2. Outcome \in {"new", "ROUTING"} /\ Outcome' = "CANCELED"
      BY <2>4, <3>1 DEF Outcome
    <3>3. TryingBuyers' = {} /\ TriedBuyers' = TriedBuyers /\ Winners' = Winners
      BY <2>1, <2>2, <3>1 DEF TryingBuyers, TriedBuyers, Winners
    <3> QED
      BY <3>2, <3>3 DEF Abstract!Cancel, Abstract!Next
  <2>5. CASE callState \notin {"INITIATED", "ROUTING"}
    <3>1. callState' = callState /\ callState' # "ROUTING" /\ Outcome' = Outcome
      BY <1>1, <2>5 DEF handleCallerHangup, FinalState, Outcome
    <3> QED
      BY <2>1, <2>2, <3>1, SameCascade
  <2> QED
    BY <2>4, <2>5
<1>2. CASE handleBuyerHangup(w)
  <2>1. leg[w] \in AttemptIds /\ callState' = callState /\ Outcome' = Outcome
    BY <1>2 DEF IInv, HandlersInv, LegInRange, handleBuyerHangup, Locked, Outcome
  <2>2. CASE UNCHANGED attempts
    BY <2>1, <2>2, SameCascade DEF AttemptIds, ActiveAttempts, Won
  <2>3. CASE callState = "ROUTING" /\ SetAttempt(leg[w], "NO_ANSWER")
    <3>1. OneChanged(leg[w], "NO_ANSWER")
      BY <2>1, <2>3, AttemptChanged DEF AttemptStates
    <3>2. ~Won(leg[w])
      BY <2>1, <2>3 DEF IInv, RowsInv, OneWinner
    <3> QED
      BY <2>1, <3>1, <3>2, AttemptEnds DEF Abstract!Next
  <2>4. CASE ConnectedBuyerLeft(leg[w]) /\ SetAttempt(leg[w], "COMPLETED")
    <3>1. OneChanged(leg[w], "COMPLETED")
      BY <2>1, <2>4, AttemptChanged DEF AttemptStates
    <3>2. \A j \in AttemptIds : Won(j)' <=> Won(j)
      BY <2>4, <3>1 DEF ConnectedBuyerLeft, OneChanged, Won
    <3>3. callState' # "ROUTING"
      BY <2>1, <2>4 DEF ConnectedBuyerLeft
    <3> QED
      BY <2>1, <3>1, <3>2, <3>3, SameCascade DEF OneChanged
  <2> QED
    BY <1>2, <2>2, <2>3, <2>4 DEF handleBuyerHangup
<1> QED
  BY <1>1, <1>2

LEMMA CascadeInit == Init => Abstract!Init /\ LinkInv
<1> SUFFICES ASSUME Init PROVE Abstract!Init /\ LinkInv
  OBVIOUS
<1>1. AttemptIds = {} /\ Outcome = "new"
  BY DEF Init, AttemptIds, Outcome
<1>2. TriedBuyers = {} /\ TryingBuyers = {} /\ Winners = {}
  BY <1>1, CascadeFacts
<1> QED
  BY <1>1, <1>2 DEF Init, Abstract!Init, LinkInv

LEMMA CascadeStep ==
    IInv /\ LinkInv /\ [Next]_vars => [Abstract!Next]_Abstract!vars
<1> SUFFICES ASSUME IInv, LinkInv, [Next]_vars
             PROVE  [Abstract!Next]_Abstract!vars
  OBVIOUS
<1>1. CASE UNCHANGED <<dbVars, roster>>
  BY <1>1, SameCascade DEF dbVars, AttemptIds, ActiveAttempts, Won, Outcome
<1>2. ASSUME NEW w \in Workers, HandlerStep(w)
      PROVE  [Abstract!Next]_Abstract!vars
  <2>1. CASE \/ IgnoreUnknownNumber(w) \/ CreateConflict(w) \/ answerCall(w)
             \/ prepareNone(w) \/ dialBuyer(w) \/ bridgeCalls(w) \/ txThrows(w)
             \/ \E l \in todo[w] : hangupCall(w, l)
    BY <1>1, <2>1 DEF IgnoreUnknownNumber, CreateConflict, answerCall, prepareNone,
                      dialBuyer, bridgeCalls, txThrows, hangupCall
  <2>2. roster' = roster
    BY <1>2, RosterKept
  <2> QED
    BY <1>2, <2>1, <2>2, BeginRefines, PrepareRefines, DialRefines, AnswerRefines,
       HangupRefines DEF HandlerStep
<1>3. CASE UNCHANGED vars
  BY <1>1, <1>3 DEF vars, dbVars
<1>4. ASSUME NEW w \in Workers, NEW e \in hooks, Receive(w, e)
      PROVE  UNCHANGED <<dbVars, roster>>
  BY <1>4 DEF Receive
<1>5. CASE PhoneStep \/ Restart
  BY <1>1, <1>5 DEF PhoneStep, CallerDials, BuyerAnswers, BuyerDoesNotAnswer,
                    HangsUp, Restart
<1>6. ASSUME NEW k \in Link, addBuyerToCampaign(k)
      PROVE  Abstract!Next
  <2>1. UNCHANGED <<Outcome, TriedBuyers, TryingBuyers, Winners>>
    BY <1>6 DEF addBuyerToCampaign, dbVars, Outcome, TriedBuyers, TryingBuyers,
                Winners, Won, AttemptIds
  <2>2. Abstract!AddLink(k)
    BY <1>6, <2>1 DEF addBuyerToCampaign, Abstract!AddLink
  <2> QED
    BY <2>2 DEF Abstract!Next, Link
<1> QED
  BY <1>1, <1>2, <1>3, <1>4, <1>5, <1>6 DEF Next

\* CallController and the transactions of CallsService implement the cascade
\* of SequentialRouting (dialNextBuyer, markCallAnswered and the hangups), for
\* any number of handlers and under every fault, roll back and restart.
THEOREM RoutingRefines == Spec => ImplementsSequentialRouting
<1>1. Spec => [](IInv /\ LinkInv)
  BY CascadeInit, LinkNext, Inductive, PTL DEF Spec
<1> QED
  BY <1>1, CascadeInit, CascadeStep, PTL
     DEF Spec, ImplementsSequentialRouting, Abstract!Spec
=============================================================================
