------------------------------ MODULE Metering ------------------------------
(***************************************************************************)
(* What a call costs: the hangup transaction of CallsService, the recorder *)
(* of saved recordings in CallController, and the tracking numbers whose   *)
(* workspace is charged (module PhoneNumbers).                             *)
(*                                                                         *)
(* handleCallerHangup runs in a database transaction, but recordUsage and  *)
(* queueEvent, which it calls, use connections of their own: what they     *)
(* write stays when the transaction rolls back, and they need a second     *)
(* connection while the transaction holds one.  The pool is bounded, and   *)
(* a transaction that waits for its row lock holds a connection too.       *)
(* Prisma ends a transaction that takes too long by rolling it back; the   *)
(* callback hears of it at its next statement on the transaction, and      *)
(* after recordUsage there is none: it charges and queues its event.       *)
(***************************************************************************)
EXTENDS PhoneNumbers, Integers, FiniteSets

CONSTANTS
    Calls,
    Handlers,   \* webhook handlers that may be in flight at once
    Pool,       \* connections of the Prisma client
    Minute,     \* seconds in a billed minute
    MaxAge      \* bound on the age of a call, in seconds

ASSUME MeteringAssumption ==
    /\ Pool \in Nat \ {0}
    /\ Minute \in Nat \ {0}
    /\ MaxAge \in Nat
    /\ NULL \notin Calls

VARIABLES
    call,        \* the row of each call, or NoCall
    age,         \* seconds since created_at
    recording,   \* calls with a row in recordings
    step, of,    \* the handlers in flight and the call each works on
    draft,       \* what the handler's transaction has written so far
    events,      \* outbound events that were queued
    rolledBack   \* calls with a hangup rolled back that had a side effect

callVars == <<call, age, recording, step, of, draft, events, rolledBack>>
vars == <<usage, phone, account, pc, req, polls,
          call, age, recording, step, of, draft, events, rolledBack>>

EndStates == {"COMPLETED", "NO_ANSWER", "FAILED", "CANCELED"}
CallStates == {"INITIATED", "ROUTING"} \cup EndStates

Durations == (0..MaxAge) \cup {-1}   \* -1 is null

\* What the callback read of the row's state, and what it wrote.
Draft == [read : CallStates, state : CallStates, duration : Durations]
Call == [state : CallStates, duration : Durations,
         workspace : Workspaces, number : Numbers]

NoCall == [state |-> "absent", duration |-> -1,
           workspace |-> NULL, number |-> NULL]

NoDraft == [read |-> "absent", state |-> "absent", duration |-> -1]

\* "late": recordUsage still waits, and its transaction was rolled back.
Steps == {"idle", "lock", "usage", "commit", "late", "recording"}

TypeOK ==
    /\ NumbersTypeOK
    /\ usage \subseteq [type : UsageType, source : Calls \cup Numbers,
                        workspace : Workspaces, quantity : Nat]
    /\ call \in [Calls -> Call \cup {NoCall}]
    /\ age \in [Calls -> 0..MaxAge]
    /\ recording \subseteq Calls
    /\ step \in [Handlers -> Steps]
    /\ of \in [Handlers -> Calls \cup {NULL}]
    /\ draft \in [Handlers -> Draft \cup {NoDraft}]
    /\ events \subseteq [call : Calls, state : CallStates, duration : Durations]
    /\ rolledBack \subseteq Calls

Init ==
    /\ NumbersInit
    /\ usage = {}
    /\ call = [c \in Calls |-> NoCall]
    /\ age = [c \in Calls |-> 0]
    /\ recording = {}
    /\ step = [h \in Handlers |-> "idle"]
    /\ of = [h \in Handlers |-> NULL]
    /\ draft = [h \in Handlers |-> NoDraft]
    /\ events = {}
    /\ rolledBack = {}

Known(c) == call[c].state # "absent"

\* A transaction holds its connection from its start, lock or no lock.
Connected == {h \in Handlers : step[h] \in {"lock", "usage", "commit"}}
Locked(c) == \E h \in Handlers : of[h] = c /\ step[h] \in {"usage", "commit"}

ConnectionFree == Cardinality(Connected) < Pool

Minutes(secs) == (secs + Minute - 1) \div Minute

Move(h, s) == step' = [step EXCEPT ![h] = s]

Leave(h) ==
    /\ Move(h, "idle")
    /\ of' = [of EXCEPT ![h] = NULL]
    /\ draft' = [draft EXCEPT ![h] = NoDraft]

-----------------------------------------------------------------------------
(* The life of a call, up to its hangup.  Module CallRouting has the       *)
(* routing in full; here each transaction of it is one step.               *)

\* The lookup of the dialled number does not ask for its status: a RELEASED
\* number still takes calls.  A blocked caller's call is FAILED from the start.
callArrives(c, n) ==
    /\ ~Known(c)
    /\ Stored(n)
    /\ \E s \in {"INITIATED", "FAILED"} :
          call' = [call EXCEPT ![c] =
              [state |-> s, duration |-> -1,
               workspace |-> phone[n].owner, number |-> n]]
    /\ UNCHANGED <<numberVars, usage, age, recording, step, of, draft, events,
                   rolledBack>>

\* transitionCall, markCallAnswered and the three ends of prepareNextBuyer.
transition(c, s) ==
    /\ <<call[c].state, s>> \in
          {<<"INITIATED", "ROUTING">>, <<"ROUTING", "COMPLETED">>,
           <<"ROUTING", "NO_ANSWER">>, <<"ROUTING", "FAILED">>}
    /\ ~Locked(c)
    /\ ConnectionFree
    /\ call' = [call EXCEPT ![c].state = s]
    /\ UNCHANGED <<numberVars, usage, age, recording, step, of, draft, events,
                   rolledBack>>

SecondPasses(c) ==
    /\ Known(c)
    /\ age[c] < MaxAge
    /\ age' = [age EXCEPT ![c] = @ + 1]
    /\ UNCHANGED <<numberVars, usage, call, recording, step, of, draft, events,
                   rolledBack>>

-----------------------------------------------------------------------------
(* handleCallerHangup.                                                     *)

FinalState(c) ==
    IF call[c].state \in {"INITIATED", "ROUTING"} THEN "CANCELED"
    ELSE call[c].state

\* The duration is computed once, when the row has none.
NewDuration(c) ==
    IF call[c].duration = -1 THEN age[c] ELSE call[c].duration

beginHangup(h, c) ==
    /\ step[h] = "idle"
    /\ Known(c)
    /\ ConnectionFree
    /\ Move(h, "lock")
    /\ of' = [of EXCEPT ![h] = c]
    /\ UNCHANGED <<numberVars, usage, call, age, recording, draft, events,
                   rolledBack>>

\* Mutant: the row is read without FOR UPDATE.
lockCall_NoLock(h) ==
    /\ step[h] = "lock"
    /\ draft' = [draft EXCEPT ![h] =
           [read |-> call[of[h]].state, state |-> FinalState(of[h]),
            duration |-> NewDuration(of[h])]]
    /\ Move(h, IF NewDuration(of[h]) > 0 THEN "usage" ELSE "commit")
    /\ UNCHANGED <<numberVars, usage, call, age, recording, of, events,
                   rolledBack>>

\* A call that lasted less than a second is not charged.
lockCall(h) ==
    /\ step[h] = "lock"
    /\ ~Locked(of[h])
    /\ draft' = [draft EXCEPT ![h] =
           [read |-> call[of[h]].state, state |-> FinalState(of[h]),
            duration |-> NewDuration(of[h])]]
    /\ Move(h, IF NewDuration(of[h]) > 0 THEN "usage" ELSE "commit")
    /\ UNCHANGED <<numberVars, usage, call, age, recording, of, events,
                   rolledBack>>

\* Mutant: a failed usage record is logged and the transaction goes on.
recordMinutes_Swallowed(h) ==
    /\ step[h] = "usage"
    /\ ConnectionFree
    /\ LET c == of[h] IN
       \/ recordUsage(Usage("CALL_MINUTE", c, call[c].workspace,
                            Minutes(draft[h].duration)))
       \/ UNCHANGED usage
    /\ Move(h, "commit")
    /\ UNCHANGED <<numberVars, call, age, recording, of, draft, events,
                   rolledBack>>

recordMinutes(h) ==
    /\ step[h] = "usage"
    /\ ConnectionFree
    /\ LET c == of[h] IN
       recordUsage(Usage("CALL_MINUTE", c, call[c].workspace,
                         Minutes(draft[h].duration)))
    /\ Move(h, "commit")
    /\ UNCHANGED <<numberVars, call, age, recording, of, draft, events,
                   rolledBack>>

Event(c, d) == [call |-> c, state |-> d.state, duration |-> d.duration]

\* queueEvent is not awaited: it may fail, and nobody hears of it.
queueEnded(h) ==
    IF draft[h].state = draft[h].read THEN UNCHANGED events
    ELSE events' \in {events, events \cup {Event(of[h], draft[h])}}

commit(h) ==
    /\ step[h] = "commit"
    /\ call' = [call EXCEPT ![of[h]].state = draft[h].state,
                            ![of[h]].duration = draft[h].duration]
    /\ queueEnded(h)
    /\ Leave(h)
    /\ UNCHANGED <<numberVars, usage, age, recording, rolledBack>>

\* Time-out, lost connection, or a failed usage record: the rows go back, and
\* the usage record and the event, if they were written, do not.
rollback(h) ==
    /\ step[h] \in {"lock", "usage", "commit"}
    /\ IF step[h] = "commit"
       THEN /\ rolledBack' = rolledBack \cup {of[h]}
            /\ queueEnded(h)
       ELSE UNCHANGED <<rolledBack, events>>
    /\ Leave(h)
    /\ UNCHANGED <<numberVars, usage, call, age, recording>>

\* A time-out while recordUsage waits for a connection: the row lock and the
\* transaction's own connection are free again, and the callback waits on.
timeOut(h) ==
    /\ step[h] = "usage"
    /\ Move(h, "late")
    /\ UNCHANGED <<numberVars, usage, call, age, recording, of, draft, events,
                   rolledBack>>

\* recordUsage gets its connection at last: the callback charges what it
\* computed, queues its event, and its commit fails.
recordMinutesLate(h) ==
    /\ step[h] = "late"
    /\ ConnectionFree
    /\ LET c == of[h] IN
       recordUsage(Usage("CALL_MINUTE", c, call[c].workspace,
                         Minutes(draft[h].duration)))
    /\ queueEnded(h)
    /\ rolledBack' = rolledBack \cup {of[h]}
    /\ Leave(h)
    /\ UNCHANGED <<numberVars, call, age, recording>>

lateThrows(h) ==
    /\ step[h] = "late"
    /\ Leave(h)
    /\ UNCHANGED <<numberVars, usage, call, age, recording, events, rolledBack>>

-----------------------------------------------------------------------------
(* CALL_RECORDING_SAVED.                                                   *)

\* provider_id is unique: a second delivery throws, and the catch block
\* drops it, whether or not the first one recorded the usage.
saveRecording(h, c) ==
    /\ step[h] = "idle"
    /\ Known(c)
    /\ c \notin recording
    /\ ConnectionFree
    /\ recording' = recording \cup {c}
    /\ Move(h, "recording")
    /\ of' = [of EXCEPT ![h] = c]
    /\ UNCHANGED <<numberVars, usage, call, age, draft, events, rolledBack>>

recordRecording(h) ==
    /\ step[h] = "recording"
    /\ ConnectionFree
    /\ recordUsage(Usage("RECORDING_STORAGE", of[h], call[of[h]].workspace, 1))
    /\ Leave(h)
    /\ UNCHANGED <<numberVars, call, age, recording, events, rolledBack>>

\* The recording is stored and never charged: the error is swallowed.
recordRecordingThrows(h) ==
    /\ step[h] = "recording"
    /\ Leave(h)
    /\ UNCHANGED <<numberVars, usage, call, age, recording, events, rolledBack>>

-----------------------------------------------------------------------------
Restart ==
    /\ NumbersRestart
    /\ step' = [h \in Handlers |-> "idle"]
    /\ of' = [h \in Handlers |-> NULL]
    /\ draft' = [h \in Handlers |-> NoDraft]
    /\ rolledBack' = rolledBack \cup
           {of[h] : h \in {g \in Handlers : step[g] = "commit"}}
    /\ UNCHANGED <<usage, call, age, recording, events>>

Handle(h) ==
    \/ lockCall(h) \/ recordMinutes(h) \/ commit(h) \/ rollback(h)
    \/ timeOut(h) \/ recordMinutesLate(h) \/ lateThrows(h)
    \/ recordRecording(h) \/ recordRecordingThrows(h)

Next ==
    \/ NumbersNext /\ UNCHANGED callVars
    \/ \E c \in Calls :
          \/ \E n \in Numbers : callArrives(c, n)
          \/ \E s \in CallStates : transition(c, s)
          \/ SecondPasses(c)
          \/ \E h \in Handlers : beginHangup(h, c) \/ saveRecording(h, c)
    \/ \E h \in Handlers : Handle(h)
    \/ Restart

Spec == Init /\ [][Next]_vars

-----------------------------------------------------------------------------
(* What the composition promises.                                          *)

Traceable(u) ==
    \/ /\ u.type = "PHONE_NUMBER"
       /\ u.source \in Numbers
       /\ phone[u.source].owner = u.workspace
    \/ /\ u.type \in {"CALL_MINUTE", "RECORDING_STORAGE"}
       /\ u.source \in Calls
       /\ call[u.source].workspace = u.workspace
       /\ phone[call[u.source].number].owner = u.workspace
       /\ u.type = "RECORDING_STORAGE" => u.source \in recording

\* Every usage record is traceable to what it charges for, in the workspace
\* that owns it: a number it stored, a call on a number it owns, a recording
\* of such a call ("Every usage record must be traceable to source data").
UsageIsTraceable == \A u \in usage : Traceable(u)

\* A call whose duration is stored was charged, never for more minutes than
\* it lasted, and for exactly them unless a hangup of it was charged and
\* rolled back, in either order (calls.service.ts, handleCallerHangup).
DurationIsCharged ==
    \A c \in Calls :
        call[c].duration > 0 =>
            \E u \in usage :
                /\ u.type = "CALL_MINUTE" /\ u.source = c
                /\ u.quantity <= Minutes(call[c].duration)
                /\ c \notin rolledBack =>
                       u.quantity = Minutes(call[c].duration)

\* An event that says a call ended is true of the row, unless a hangup of the
\* call queued its event and was rolled back, in either order.
EventsAreTrue ==
    \A e \in events :
        \/ e.call \in rolledBack
        \/ e.state = call[e.call].state /\ e.duration = call[e.call].duration

\* A charge is never changed or taken back, however often the handler that
\* made it runs (recordUsage, "update: {}").
ChargesStay == [][usage \subseteq usage']_vars
=============================================================================
