---------------------------- MODULE CallRouting ----------------------------
(***************************************************************************)
(* Sequential routing of one inbound call to the buyers of a campaign:     *)
(* CallController.handleEvent and dialNextBuyer, and the transactions of   *)
(* CallsService they run (apps/api/src/telephony/call-controller.ts and    *)
(* apps/api/src/calls/calls.service.ts).                                   *)
(*                                                                         *)
(* Every webhook event is handled by an asynchronous function; between two *)
(* awaits of one handler any other handler may run.  A worker is one       *)
(* handler in flight: pc names the await it is about to run, leg the       *)
(* provider leg (or attempt) it works on, todo the legs it still has to    *)
(* hang up.  A transaction that takes the row lock of the call is one      *)
(* step.  Calls share no row but the campaign's roster, which a call only  *)
(* reads, so one call is modelled.                                         *)
(*                                                                         *)
(* Leg 0 is the caller's; leg i is the one dialled for the i-th attempt.   *)
(* The provider (Telnyx or Twilio) and the people on the phone are the     *)
(* environment: events wait in hooks and are delivered in any order.       *)
(***************************************************************************)
EXTENDS Integers, Sequences, FiniteSets

CONSTANTS
    Buyers,         \* buyers an administrator may link to the campaign
    Priorities,     \* values of CampaignBuyer.priority
    InitialRoster,  \* links that are ACTIVE when the call arrives
    Workers,        \* handlers that may be in flight at once
    Faults,         \* provider commands that may fail (see ProviderFaults)
    TxAborts,       \* whether a locked transaction throws (see AbortModes)
    Delivery,       \* how events meet handlers (see DeliveryModes)
    MaxRepeats,     \* bound on events that are handled more than once
    MaxCrashes      \* bound on restarts of the API process

\* "answer", "dial", "bridge" throw; "dialLost" throws although the leg was
\* placed; "hangup" is ignored by the provider (its error is swallowed).
ProviderFaults == {"answer", "dial", "dialLost", "bridge", "hangup"}

\* "never": the lock statement works and the database is up; "sometimes": a
\* transaction may time out or lose its connection and roll back; "always":
\* the lock statement names the relation "Call", which the migrations never
\* create (they create "calls"), so each of these transactions throws.
AbortModes == {"never", "sometimes", "always"}

\* "serial": an event is delivered only when no handler is in flight, in the
\* order of its leg; "interleaved": at any time and in any order.
DeliveryModes == {"serial", "interleaved"}

\* A CampaignBuyer row.  A campaign has one link of a priority at most, but a
\* buyer may be linked to it several times.
Link == [buyer : Buyers, priority : Priorities]

OneLinkPerPriority(links) ==
    \A k, m \in links : k.priority = m.priority => k = m

ASSUME RosterAssumption ==
    /\ Priorities \subseteq Int
    /\ InitialRoster \subseteq Link
    /\ OneLinkPerPriority(InitialRoster)
ASSUME EnvironmentAssumption ==
    /\ Faults \subseteq ProviderFaults
    /\ TxAborts \in AbortModes
    /\ Delivery \in DeliveryModes
    /\ MaxRepeats \in Nat
    /\ MaxCrashes \in Nat

CallerLeg == 0

CallStates ==
    {"INITIATED", "ROUTING", "COMPLETED", "NO_ANSWER", "FAILED", "CANCELED"}

AttemptStates ==
    {"INITIATED", "RINGING", "ANSWERED", "COMPLETED", "NO_ANSWER", "FAILED",
     "CANCELED"}

VALID_CALL_TRANSITIONS ==
    [s \in CallStates |->
        CASE s = "INITIATED" -> {"ROUTING", "CANCELED", "FAILED"}
          [] s = "ROUTING"   -> {"COMPLETED", "NO_ANSWER", "FAILED", "CANCELED"}
          [] OTHER           -> {}]

VALID_ATTEMPT_TRANSITIONS ==
    [s \in AttemptStates |->
        CASE s = "INITIATED" -> {"RINGING", "CANCELED", "FAILED"}
          [] s = "RINGING"   -> {"ANSWERED", "NO_ANSWER", "FAILED", "CANCELED"}
          [] s = "ANSWERED"  -> {"COMPLETED", "FAILED"}
          [] OTHER           -> {}]

\* Mutant: any state that is the target of some transition is accepted.
isValidTransition_AnyTarget(from, to) ==
    \E s \in CallStates : from # "absent" /\ to \in VALID_CALL_TRANSITIONS[s]

isValidTransition(from, to) ==
    from = to \/ to \in VALID_CALL_TRANSITIONS[from]

isValidAttemptTransition(from, to) ==
    from = to \/ to \in VALID_ATTEMPT_TRANSITIONS[from]

TerminalCallStates == {s \in CallStates : VALID_CALL_TRANSITIONS[s] = {}}

EventTypes == {"CALL_INITIATED", "CALL_ANSWERED", "CALL_HANGUP"}

Events == [type : EventTypes, leg : Nat]

Event(t, l) == [type |-> t, leg |-> l]

Steps ==
    {"idle", "create", "answer", "startRouting", "prepare", "dial", "commit",
     "ring", "dialFailed", "markAnswered", "bridge", "callerHangup",
     "buyerHangup", "hangup"}

\* The steps that open a transaction with SELECT ... FOR UPDATE.
LockedSteps ==
    {"startRouting", "prepare", "commit", "ring", "dialFailed",
     "markAnswered", "callerHangup", "buyerHangup"}

-----------------------------------------------------------------------------
VARIABLES
    callState,    \* Call.state, or "absent" while there is no row
    campaign,     \* Call.campaign_id
    duration,     \* Call.duration_secs
    attempts,     \* the call's CallAttempt rows in order of created_at
    roster,       \* the campaign's ACTIVE links to ACTIVE buyers
    pc, leg, todo,            \* the handlers in flight
    placed, ringing, talking, \* provider: legs ever placed, ringing, answered
    bridged,      \* provider: buyer legs that were bridged to the caller
    hooks,        \* provider: events not delivered for good
    again,        \* history: events that stayed in hooks although handled
    crashes       \* restarts so far

dbVars    == <<callState, campaign, duration, attempts>>
phoneVars == <<placed, ringing, talking, bridged>>
bounds    == <<again, crashes>>
vars == <<callState, campaign, duration, attempts, roster, pc, leg, todo,
          placed, ringing, talking, bridged, hooks, again, crashes>>

CampaignLinks == {"null", "linked"}
LegColumn == {"null", "stored"}   \* CallAttempt.provider_call_id

Attempt == [buyer : Buyers, state : AttemptStates, leg : LegColumn]

DatabaseTypeOK ==
    /\ callState \in CallStates \cup {"absent"}
    /\ campaign \in CampaignLinks
    /\ duration \in {"null", "set"}
    /\ attempts \in Seq(Attempt)
    /\ roster \in SUBSET Link

HandlersTypeOK ==
    /\ pc \in [Workers -> Steps]
    /\ leg \in [Workers -> Nat]
    /\ todo \in [Workers -> SUBSET Nat]

PhonesTypeOK ==
    /\ {placed, ringing, talking, bridged} \subseteq SUBSET Nat
    /\ hooks \in SUBSET Events

TypeOK ==
    /\ DatabaseTypeOK
    /\ HandlersTypeOK
    /\ PhonesTypeOK
    /\ again \in SUBSET Events
    /\ crashes \in Nat

Init ==
    /\ callState = "absent"
    /\ campaign = "null"
    /\ duration = "null"
    /\ attempts = <<>>
    /\ roster = InitialRoster
    /\ pc = [w \in Workers |-> "idle"]
    /\ leg = [w \in Workers |-> CallerLeg]
    /\ todo = [w \in Workers |-> {}]
    /\ placed = {} /\ ringing = {} /\ talking = {} /\ bridged = {}
    /\ hooks = {}
    /\ again = {}
    /\ crashes = 0

-----------------------------------------------------------------------------
(***************************************************************************)
(* Helpers of the handlers.                                                *)
(***************************************************************************)
AttemptIds == 1..Len(attempts)

\* Mutant: an attempt that is still being dialled is not seen as active.
ActiveAttempts_OnlyRinging ==
    {i \in AttemptIds : attempts[i].state = "RINGING"}

\* attempts.find(a => INITIATED or RINGING)
ActiveAttempts ==
    {i \in AttemptIds : attempts[i].state \in {"INITIATED", "RINGING"}}

\* Mutant: a buyer whose dial failed counts as not attempted.
Tried_ExceptFailed ==
    {attempts[i].buyer : i \in {j \in AttemptIds : attempts[j].state # "FAILED"}}

\* attemptedBuyerIds
Tried == {attempts[i].buyer : i \in AttemptIds}

\* Mutant: a failed dial ends the search.
Untried_StopAfterFailure ==
    {k \in roster : /\ k.buyer \notin Tried
                    /\ \A i \in AttemptIds : attempts[i].state # "FAILED"}

\* The links find() may take: of buyers who were not attempted.
Untried == {k \in roster : k.buyer \notin Tried}

\* Mutant: the buyers are read without orderBy.
IsNextBuyer_Unordered(b) == \E k \in Untried : k.buyer = b

\* campaign.buyers is ordered by priority; find() takes the first link of a
\* buyer who was not attempted.
IsNextBuyer(b) ==
    \E k \in Untried :
        /\ k.buyer = b
        /\ \A m \in Untried : k.priority <= m.priority

SetAttempt(i, s) == attempts' = [attempts EXCEPT ![i].state = s]

\* The row handleEvent finds for a leg: the call by provider_call_id, else
\* the attempt, whose provider_call_id is stored only by commitBuyerDial.
Known(l) ==
    \/ l = CallerLeg /\ callState # "absent"
    \/ l \in AttemptIds /\ attempts[l].leg = "stored"

Goto(w, step, l) ==
    /\ pc' = [pc EXCEPT ![w] = step]
    /\ leg' = [leg EXCEPT ![w] = l]

Return(w) == Goto(w, "idle", CallerLeg)

\* The handler goes on to hang up the legs of ls, or returns if there are none.
GoHangUp(w, ls) ==
    /\ todo' = [todo EXCEPT ![w] = ls]
    /\ IF ls = {} THEN Return(w) ELSE Goto(w, "hangup", CallerLeg)

\* A locked transaction can run unless its lock statement always throws.
Locked(w, step) == pc[w] = step /\ TxAborts # "always"

Live(l) == l \in ringing \cup talking

\* The leg ends, by a person or by a command, and the provider reports it.
EndLeg(l) ==
    /\ ringing' = ringing \ {l}
    /\ talking' = talking \ {l}
    /\ hooks' = hooks \cup {Event("CALL_HANGUP", l)}
    /\ UNCHANGED <<placed, bridged>>

PickUp(l) ==
    /\ ringing' = ringing \ {l}
    /\ talking' = talking \cup {l}
    /\ hooks' = hooks \cup {Event("CALL_ANSWERED", l)}
    /\ UNCHANGED <<placed, bridged>>

PlaceLeg(l) ==
    /\ placed' = placed \cup {l}
    /\ ringing' = ringing \cup {l}
    /\ UNCHANGED <<talking, bridged>>

-----------------------------------------------------------------------------
(***************************************************************************)
(* handleEvent: look the leg up, then branch on the event.                 *)
(***************************************************************************)
\* The provider reports a leg in order when handlers run one at a time.
Earlier(e, f) ==
    /\ e.leg = f.leg
    /\ \/ e.type = "CALL_INITIATED" /\ f.type # "CALL_INITIATED"
       \/ e.type = "CALL_ANSWERED" /\ f.type = "CALL_HANGUP"

Deliverable(e) ==
    /\ e \in hooks
    /\ Delivery = "serial" =>
            /\ \A w \in Workers : pc[w] = "idle"
            /\ \A f \in hooks : ~Earlier(f, e)

\* The first step of the branch an event takes; "idle" when it is dropped
\* (an unknown leg, or CALL_INITIATED for a call that exists).
Branch(e) ==
    CASE e.type = "CALL_INITIATED" ->
            IF Known(e.leg) THEN "idle" ELSE "create"
      [] e.type # "CALL_INITIATED" /\ ~Known(e.leg) -> "idle"
      [] e.type = "CALL_ANSWERED" /\ Known(e.leg) ->
            IF e.leg = CallerLeg THEN "startRouting" ELSE "markAnswered"
      [] e.type = "CALL_HANGUP" /\ Known(e.leg) ->
            IF e.leg = CallerLeg THEN "callerHangup" ELSE "buyerHangup"

\* A handling that throws, or whose markProcessed throws, leaves the event
\* FAILED, and acquireLock admits every later delivery of it.
KeptForRedelivery(e) ==
    /\ again' = again \cup {e}
    /\ Cardinality(again') <= MaxRepeats

Receive(w, e) ==
    /\ pc[w] = "idle"
    /\ Deliverable(e)
    /\ \/ hooks' = hooks \ {e} /\ UNCHANGED again
       \/ KeptForRedelivery(e) /\ UNCHANGED hooks
    /\ Goto(w, Branch(e), IF Branch(e) = "idle" THEN CallerLeg ELSE e.leg)
    /\ UNCHANGED <<dbVars, phoneVars, roster, todo, crashes>>

\* A number nobody registered: nothing is stored.
IgnoreUnknownNumber(w) ==
    /\ pc[w] = "create"
    /\ Return(w)
    /\ UNCHANGED <<dbVars, phoneVars, roster, todo, hooks, bounds>>

\* A concurrent handler of the same call created the row: provider_call_id is
\* unique, so create throws.
CreateConflict(w) ==
    /\ pc[w] = "create"
    /\ callState # "absent"
    /\ Return(w)
    /\ UNCHANGED <<dbVars, phoneVars, roster, todo, hooks, bounds>>

\* The caller is on the workspace's block list.
CreateBlocked(w) ==
    /\ pc[w] = "create"
    /\ callState = "absent"
    /\ callState' = "FAILED"
    /\ campaign' \in CampaignLinks
    /\ GoHangUp(w, {CallerLeg})
    /\ UNCHANGED <<duration, attempts, phoneVars, roster, hooks, bounds>>

createCall(w) ==
    /\ pc[w] = "create"
    /\ callState = "absent"
    /\ callState' = "INITIATED"
    /\ campaign' \in CampaignLinks
    /\ Goto(w, "answer", CallerLeg)
    /\ UNCHANGED <<duration, attempts, phoneVars, roster, todo, hooks, bounds>>

answerCall(w) ==
    /\ pc[w] = "answer"
    /\ Return(w)
    /\ \/ CallerLeg \in ringing /\ PickUp(CallerLeg)
       \/ /\ CallerLeg \notin ringing \/ "answer" \in Faults
          /\ UNCHANGED <<phoneVars, hooks>>
    /\ UNCHANGED <<dbVars, roster, todo, bounds>>

\* transitionCall(ROUTING); a failed transition is caught and the event ends.
\* The attempt to start the recording that follows changes nothing here.
startRouting(w) ==
    /\ Locked(w, "startRouting")
    /\ \/ /\ isValidTransition(callState, "ROUTING")
          /\ callState' = "ROUTING"
          /\ Goto(w, "prepare", CallerLeg)
       \/ /\ ~isValidTransition(callState, "ROUTING")
          /\ UNCHANGED callState
          /\ Return(w)
    /\ UNCHANGED <<campaign, duration, attempts, phoneVars, roster, todo, hooks,
                   bounds>>

-----------------------------------------------------------------------------
(***************************************************************************)
(* dialNextBuyer and its transactions.                                     *)
(***************************************************************************)
\* Nothing to do: the call left ROUTING, or an attempt is still active.
prepareNone(w) ==
    /\ Locked(w, "prepare")
    /\ callState # "ROUTING" \/ ActiveAttempts # {}
    /\ Return(w)
    /\ UNCHANGED <<dbVars, phoneVars, roster, todo, hooks, bounds>>

MayChooseBuyer(w) ==
    /\ Locked(w, "prepare")
    /\ callState = "ROUTING"
    /\ ActiveAttempts = {}

\* No campaign, or no ACTIVE buyer in it: the call fails.
prepareFailed(w) ==
    /\ MayChooseBuyer(w)
    /\ campaign = "null" \/ roster = {}
    /\ callState' = "FAILED"
    /\ GoHangUp(w, {CallerLeg})
    /\ UNCHANGED <<campaign, duration, attempts, phoneVars, roster, hooks,
                   bounds>>

\* Every buyer of the roster was attempted.
prepareNoAnswer(w) ==
    /\ MayChooseBuyer(w)
    /\ campaign = "linked" /\ roster # {}
    /\ Untried = {}
    /\ callState' = "NO_ANSWER"
    /\ GoHangUp(w, {CallerLeg})
    /\ UNCHANGED <<campaign, duration, attempts, phoneVars, roster, hooks,
                   bounds>>

NewAttempt(b) == [buyer |-> b, state |-> "INITIATED", leg |-> "null"]

prepareDial(w, b) ==
    /\ MayChooseBuyer(w)
    /\ campaign = "linked"
    /\ IsNextBuyer(b)
    /\ attempts' = Append(attempts, NewAttempt(b))
    /\ Goto(w, "dial", Len(attempts) + 1)
    /\ UNCHANGED <<callState, campaign, duration, phoneVars, roster, todo, hooks,
                   bounds>>

dialBuyer(w) ==
    /\ pc[w] = "dial"
    /\ \/ PlaceLeg(leg[w]) /\ Goto(w, "commit", leg[w])
       \/ /\ "dialLost" \in Faults
          /\ PlaceLeg(leg[w])
          /\ Goto(w, "dialFailed", leg[w])
       \/ /\ "dial" \in Faults
          /\ UNCHANGED phoneVars
          /\ Goto(w, "dialFailed", leg[w])
    /\ UNCHANGED <<dbVars, roster, todo, hooks, bounds>>

\* The leg is stored; if the call left ROUTING meanwhile the attempt is
\* CANCELED, whatever it was, and the leg is hung up.
commitBuyerDial(w) ==
    /\ Locked(w, "commit")
    /\ \/ /\ callState = "ROUTING"
          /\ attempts' = [attempts EXCEPT ![leg[w]].leg = "stored"]
          /\ Goto(w, "ring", leg[w])
          /\ UNCHANGED todo
       \/ /\ callState # "ROUTING"
          /\ attempts' = [attempts EXCEPT ![leg[w]].leg = "stored",
                                          ![leg[w]].state = "CANCELED"]
          /\ GoHangUp(w, {leg[w]})
    /\ UNCHANGED <<callState, campaign, duration, phoneVars, roster, hooks,
                   bounds>>

\* transitionAttempt(RINGING); an invalid transition throws into the catch.
startRinging(w) ==
    /\ Locked(w, "ring")
    /\ \/ /\ isValidAttemptTransition(attempts[leg[w]].state, "RINGING")
          /\ SetAttempt(leg[w], "RINGING")
          /\ Return(w)
       \/ /\ ~isValidAttemptTransition(attempts[leg[w]].state, "RINGING")
          /\ UNCHANGED attempts
          /\ Goto(w, "dialFailed", leg[w])
    /\ UNCHANGED <<callState, campaign, duration, phoneVars, roster, todo, hooks,
                   bounds>>

\* Mutant: the catch block does not go on to the next buyer.
dialFailed_NoNextBuyer(w) ==
    /\ Locked(w, "dialFailed")
    /\ SetAttempt(leg[w], "FAILED")
    /\ Return(w)
    /\ UNCHANGED <<callState, campaign, duration, phoneVars, roster, todo, hooks,
                   bounds>>

\* The catch block: transitionAttempt(FAILED), then the next buyer; an
\* invalid transition throws out of handleEvent.
dialFailed(w) ==
    /\ Locked(w, "dialFailed")
    /\ \/ /\ isValidAttemptTransition(attempts[leg[w]].state, "FAILED")
          /\ SetAttempt(leg[w], "FAILED")
          /\ Goto(w, "prepare", CallerLeg)
       \/ /\ ~isValidAttemptTransition(attempts[leg[w]].state, "FAILED")
          /\ UNCHANGED attempts
          /\ Return(w)
    /\ UNCHANGED <<callState, campaign, duration, phoneVars, roster, todo, hooks,
                   bounds>>

-----------------------------------------------------------------------------
(***************************************************************************)
(* A buyer answers; a leg hangs up.                                        *)
(***************************************************************************)
\* Mutant: only a canceled call is refused.
CanBeAnswered_UnlessCanceled == callState # "CANCELED"

CanBeAnswered == callState = "ROUTING"

\* Mutant: who answers too late gets the answered legs hung up, not its own.
markCallAnswered_HangsUpAnswered(w) ==
    /\ Locked(w, "markAnswered")
    /\ \/ /\ CanBeAnswered
          /\ SetAttempt(leg[w], "ANSWERED")
          /\ callState' = "COMPLETED"
          /\ Goto(w, "bridge", leg[w])
          /\ UNCHANGED todo
       \/ /\ ~CanBeAnswered
          /\ GoHangUp(w, {i \in AttemptIds : attempts[i].state = "ANSWERED"})
          /\ UNCHANGED <<callState, attempts>>
    /\ UNCHANGED <<campaign, duration, phoneVars, roster, hooks, bounds>>

\* The attempt's own state is not looked at.
markCallAnswered(w) ==
    /\ Locked(w, "markAnswered")
    /\ \/ /\ CanBeAnswered
          /\ SetAttempt(leg[w], "ANSWERED")
          /\ callState' = "COMPLETED"
          /\ Goto(w, "bridge", leg[w])
          /\ UNCHANGED todo
       \/ /\ ~CanBeAnswered
          /\ GoHangUp(w, {leg[w]})
          /\ UNCHANGED <<callState, attempts>>
    /\ UNCHANGED <<campaign, duration, phoneVars, roster, hooks, bounds>>

bridgeCalls(w) ==
    /\ pc[w] = "bridge"
    /\ Return(w)
    /\ \/ /\ {CallerLeg, leg[w]} \subseteq talking
          /\ bridged' = bridged \cup {leg[w]}
       \/ /\ "bridge" \in Faults \/ ~({CallerLeg, leg[w]} \subseteq talking)
          /\ UNCHANGED bridged
    /\ UNCHANGED <<dbVars, placed, ringing, talking, roster, todo, hooks,
                   bounds>>

\* Mutant: an attempt that is still being dialled is not canceled.
CanceledByCaller_OnlyRinging(s) == s = "RINGING"

CanceledByCaller(s) == s \in {"INITIATED", "RINGING"}

\* Legs handleEvent looks for in the row handleCallerHangup returns.
HangupTargets ==
    {i \in AttemptIds :
        /\ attempts[i].leg = "stored"
        /\ attempts[i].state \in {"INITIATED", "RINGING", "ANSWERED", "CANCELED"}}

\* Mutant: a call that was never answered keeps its state.
FinalState_OnlyRouting ==
    IF callState = "ROUTING" THEN "CANCELED" ELSE callState

FinalState ==
    IF callState \in {"INITIATED", "ROUTING"} THEN "CANCELED" ELSE callState

\* The row that was updated is returned without its attempts, so buyer legs
\* are hung up only when there was nothing to update.
handleCallerHangup(w) ==
    /\ Locked(w, "callerHangup")
    /\ callState' = FinalState
    /\ duration' = IF FinalState \in TerminalCallStates THEN "set" ELSE duration
    /\ attempts' = [i \in AttemptIds |->
                      IF CanceledByCaller(attempts[i].state)
                      THEN [attempts[i] EXCEPT !.state = "CANCELED"]
                      ELSE attempts[i]]
    /\ GoHangUp(w, IF callState' # callState \/ duration' # duration
                   THEN {} ELSE HangupTargets)
    /\ UNCHANGED <<campaign, phoneVars, roster, hooks, bounds>>

\* Mutant: the hangup is compared with the wrong state of the call.
ConnectedBuyerLeft_WhileRouting(i) ==
    callState = "ROUTING" /\ attempts[i].state = "ANSWERED"

ConnectedBuyerLeft(i) ==
    callState = "COMPLETED" /\ attempts[i].state = "ANSWERED"

handleBuyerHangup(w) ==
    /\ Locked(w, "buyerHangup")
    /\ \/ /\ ConnectedBuyerLeft(leg[w])
          /\ SetAttempt(leg[w], "COMPLETED")
          /\ GoHangUp(w, {CallerLeg})
       \/ /\ callState = "ROUTING"
          /\ SetAttempt(leg[w], "NO_ANSWER")
          /\ Goto(w, "prepare", CallerLeg)
          /\ UNCHANGED todo
       \/ /\ callState # "ROUTING" /\ ~ConnectedBuyerLeft(leg[w])
          /\ Return(w)
          /\ UNCHANGED <<attempts, todo>>
    /\ UNCHANGED <<callState, campaign, duration, phoneVars, roster, hooks,
                   bounds>>

\* provider.hangupCall: errors are swallowed, and a leg that is over stays so.
hangupCall(w, l) ==
    /\ pc[w] = "hangup"
    /\ l \in todo[w]
    /\ GoHangUp(w, todo[w] \ {l})
    /\ \/ Live(l) /\ EndLeg(l)
       \/ /\ ~Live(l) \/ "hangup" \in Faults
          /\ UNCHANGED <<phoneVars, hooks>>
    /\ UNCHANGED <<dbVars, roster, bounds>>

\* A locked transaction rolls back and throws.  commitBuyerDial and the
\* transition to RINGING run inside dialNextBuyer's try.
txThrows(w) ==
    /\ TxAborts # "never"
    /\ pc[w] \in LockedSteps
    /\ IF pc[w] \in {"commit", "ring"} THEN Goto(w, "dialFailed", leg[w])
                                       ELSE Return(w)
    /\ UNCHANGED <<dbVars, phoneVars, roster, todo, hooks, bounds>>

-----------------------------------------------------------------------------
(***************************************************************************)
(* The environment: people, administrators and restarts.                   *)
(***************************************************************************)
CallerDials ==
    /\ CallerLeg \notin placed
    /\ PlaceLeg(CallerLeg)
    /\ hooks' = hooks \cup {Event("CALL_INITIATED", CallerLeg)}
    /\ UNCHANGED <<dbVars, roster, pc, leg, todo, bounds>>

BuyerAnswers(i) ==
    /\ i \in ringing \ {CallerLeg}
    /\ PickUp(i)
    /\ UNCHANGED <<dbVars, roster, pc, leg, todo, bounds>>

\* The phone rang for the buyer's timeout, or the buyer declined.
BuyerDoesNotAnswer(i) ==
    /\ i \in ringing \ {CallerLeg}
    /\ EndLeg(i)
    /\ UNCHANGED <<dbVars, roster, pc, leg, todo, bounds>>

\* The caller, or a buyer who answered, puts the phone down.
HangsUp(l) ==
    /\ l \in talking \/ (l = CallerLeg /\ Live(l))
    /\ EndLeg(l)
    /\ UNCHANGED <<dbVars, roster, pc, leg, todo, bounds>>

\* A further link, also of a buyer who is linked or was called already; only
\* the pair of campaign and priority is unique.
addBuyerToCampaign(k) ==
    /\ OneLinkPerPriority(roster \cup {k})
    /\ roster' = roster \cup {k}
    /\ UNCHANGED <<dbVars, phoneVars, pc, leg, todo, hooks, bounds>>

\* The API process restarts: every handler in flight is lost, and with it
\* its event, which the idempotency table keeps as PENDING.
Restart ==
    /\ crashes < MaxCrashes
    /\ \E w \in Workers : pc[w] # "idle"
    /\ crashes' = crashes + 1
    /\ pc' = [w \in Workers |-> "idle"]
    /\ leg' = [w \in Workers |-> CallerLeg]
    /\ todo' = [w \in Workers |-> {}]
    /\ UNCHANGED <<dbVars, phoneVars, roster, hooks, again>>

HandlerStep(w) ==
    \/ IgnoreUnknownNumber(w)
    \/ CreateConflict(w)
    \/ CreateBlocked(w)
    \/ createCall(w)
    \/ answerCall(w)
    \/ startRouting(w)
    \/ prepareNone(w)
    \/ prepareFailed(w)
    \/ prepareNoAnswer(w)
    \/ \E b \in Buyers : prepareDial(w, b)
    \/ dialBuyer(w)
    \/ commitBuyerDial(w)
    \/ startRinging(w)
    \/ dialFailed(w)
    \/ markCallAnswered(w)
    \/ bridgeCalls(w)
    \/ handleCallerHangup(w)
    \/ handleBuyerHangup(w)
    \/ \E l \in todo[w] : hangupCall(w, l)
    \/ txThrows(w)

PhoneStep ==
    \/ CallerDials
    \/ \E i \in ringing : BuyerAnswers(i) \/ BuyerDoesNotAnswer(i)
    \/ \E l \in ringing \cup talking : HangsUp(l)

Next ==
    \/ \E w \in Workers, e \in hooks : Receive(w, e)
    \/ \E w \in Workers : HandlerStep(w)
    \/ PhoneStep
    \/ \E k \in Link : addBuyerToCampaign(k)
    \/ Restart

Spec == Init /\ [][Next]_vars

\* Node's event loop runs every handler that can go on, the provider delivers
\* what it reported, and a phone nobody answers stops ringing at its timeout.
\* Nobody is obliged to answer or to hang up.
Fairness ==
    /\ \A w \in Workers : WF_vars(HandlerStep(w))
    /\ WF_vars(\E w \in Workers, e \in hooks : Receive(w, e))
    /\ WF_vars(\E i \in ringing : BuyerAnswers(i) \/ BuyerDoesNotAnswer(i))

FairSpec == Spec /\ Fairness

-----------------------------------------------------------------------------
(***************************************************************************)
(* Safety.  The first group holds under every fault this module has, with  *)
(* events repeated and out of order.                                       *)
(***************************************************************************)

\* However handlers interleave in dialNextBuyer, at most one attempt of the
\* call is being dialled or ringing.
OneActiveAttempt == \A i, j \in ActiveAttempts : i = j

\* No buyer is tried twice for one call, also when a restart or a failed
\* dial sends several handlers through prepareNextBuyer.
NoBuyerTwice ==
    \A i, j \in AttemptIds : attempts[i].buyer = attempts[j].buyer => i = j

Won(i) == attempts[i].state \in {"ANSWERED", "COMPLETED"}

\* One call, one winning buyer: markCallAnswered lets one attempt win, and an
\* attempt that won belongs to a COMPLETED call.
OneWinner ==
    \A i \in AttemptIds : Won(i) =>
        /\ callState = "COMPLETED"
        /\ \A j \in AttemptIds : Won(j) => i = j

\* The caller is bridged to one buyer at most, although bridgeCalls runs
\* after the transaction that chose the winner released its lock.
OneBridge ==
    /\ \A i, j \in bridged : i = j
    /\ bridged # {} => callState = "COMPLETED"

\* Once a call ended without a buyer none of its attempts is or becomes
\* active or answered: no late commit or RINGING revives one.
SettledAttempts ==
    callState \in {"NO_ANSWER", "FAILED", "CANCELED"} =>
        \A i \in AttemptIds :
            attempts[i].state \in {"NO_ANSWER", "FAILED", "CANCELED"}

\* A call gives up with NO_ANSWER only after every buyer that was linked when
\* it arrived was tried.
EveryBuyerTried ==
    callState = "NO_ANSWER" => \A k \in InitialRoster : k.buyer \in Tried

\* Who is tried before a buyer that was linked when the call arrived has a
\* link before that buyer's: nobody is passed over but for a better link.
\* Where no link is added during the call, that is the order of priority.
PriorityOrder ==
    \A i, j \in AttemptIds :
        i < j => \A m \in InitialRoster :
            m.buyer = attempts[j].buyer =>
                \E k \in roster : /\ k.buyer = attempts[i].buyer
                                  /\ k.priority < m.priority

\* A call that ended stays as it ended and gets no further attempt, and an
\* attempt that was CANCELED or COMPLETED stays so, whatever arrives late.
EndIsFinal ==
    [][/\ callState \in TerminalCallStates =>
            callState' = callState /\ Len(attempts') = Len(attempts)
       /\ \A i \in AttemptIds :
            attempts[i].state \in {"CANCELED", "COMPLETED"} =>
                attempts'[i].state = attempts[i].state]_vars

\* The rows implement SequentialRouting, whoever writes them and whatever
\* fails: dialNextBuyer after dialNextBuyer, in handlers that interleave, calls
\* the buyers one by one.
Outcome == IF callState \in {"absent", "INITIATED"} THEN "new" ELSE callState
TriedBuyers == {attempts[i].buyer : i \in AttemptIds}
TryingBuyers ==
    {attempts[i].buyer : i \in {j \in AttemptIds :
        callState = "ROUTING" /\ attempts[j].state \in {"INITIATED", "RINGING"}}}
Winners == {attempts[i].buyer : i \in {j \in AttemptIds : Won(j)}}

Abstract == INSTANCE SequentialRouting WITH
    links <- roster,
    state <- Outcome,
    tried <- TriedBuyers,
    trying <- TryingBuyers,
    winner <- Winners
ImplementsSequentialRouting == Abstract!Spec

(***************************************************************************)
(* OneLegLive holds while transactions commit and a failed dial places no  *)
(* leg.                                                                    *)
(***************************************************************************)

\* At most one buyer's phone rings or is answered at a time.
OneLegLive ==
    \A i, j \in (ringing \cup talking) \ {CallerLeg} : i = j

\* No handler hangs up the buyer who was chosen or connected while the caller
\* is on the phone, whichever events come late, twice or out of order: the
\* loser's branch of markCallAnswered meets the winner only when the winner's
\* own answer is handled again.
HangsUpWinner(w, l) == l \in todo[w] \ {CallerLeg} /\ (l \in bridged \/ Won(l))

WinnerKept ==
    \A w \in Workers : \A l \in todo[w] \ {CallerLeg} :
        HangsUpWinner(w, l) =>
            ~Live(CallerLeg) \/ Event("CALL_ANSWERED", l) \in again

-----------------------------------------------------------------------------
(***************************************************************************)
(* Liveness, and what the documents promise of winners and hangups.        *)
(***************************************************************************)

\* A call that is ROUTING ends: the buyers are tried one after the other until
\* one answers or none is left.
RoutingEnds == callState = "ROUTING" ~> callState \in TerminalCallStates

\* When the buyer who won hangs up, the caller's leg ends too.
WinnerLeft ==
    \E i \in AttemptIds :
        /\ callState = "COMPLETED"
        /\ i \in bridged
        /\ ~Live(i)
BuyerHangupEndsCall == WinnerLeft ~> ~Live(CallerLeg)

\* A hangup of the caller that arrives once the call has a row ends the call.
CallerHangupEndsCall ==
    (Event("CALL_HANGUP", CallerLeg) \in hooks /\ callState # "absent")
        ~> callState \in TerminalCallStates

\* A call that is COMPLETED has its winning buyer.
CompletedHasWinner ==
    callState = "COMPLETED" => \E i \in AttemptIds : Won(i)

\* When the hangup of the caller was handled and nothing is in flight, no
\* buyer's phone is left ringing for a caller who is gone.
CallerHangupEndsBuyers ==
    callState = "CANCELED" /\ hooks = {} /\ (\A w \in Workers : pc[w] = "idle")
        => ringing \ {CallerLeg} = {}

\* The buyer who was chosen or connected is not hung up while the caller is on
\* the phone, also when the provider delivers an event again.
WinnerNeverHungUp ==
    \A w \in Workers : \A l \in todo[w] \ {CallerLeg} :
        HangsUpWinner(w, l) => ~Live(CallerLeg)

\* Handling the answer of the caller's leg moves an INITIATED call to ROUTING.
AnsweredCallRoutes ==
    [][\A w \in Workers :
        pc[w] = "startRouting" /\ pc'[w] # "startRouting"
            /\ callState = "INITIATED" => callState' = "ROUTING"]_vars
=============================================================================
