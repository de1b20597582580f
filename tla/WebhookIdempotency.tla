------------------------- MODULE WebhookIdempotency -------------------------
(***************************************************************************)
(* One provider event on its way through TelnyxWebhookController (or       *)
(* TwilioWebhookController) and WebhookIdempotencyService: concurrent      *)
(* deliveries of the event read and write its webhook_events row with      *)
(* statements that are each a transaction of their own.                    *)
(* (apps/api/src/telephony/webhook-idempotency.service.ts and              *)
(* apps/api/src/telephony/telnyx/telnyx.webhook.controller.ts)             *)
(*                                                                         *)
(* Rows of different events do not meet, so one event is modelled.  What   *)
(* handleEvent does is in CallRouting; here it returns or throws.          *)
(***************************************************************************)
EXTENDS Naturals, FiniteSets

CONSTANTS
    Deliveries,    \* the times the provider may deliver the event
    Faults,        \* what may fail (see PossibleFaults)
    MaxCrashes     \* bound on restarts of the API process

\* "handler": handleEvent throws; "lock", "mark": a statement of acquireLock,
\* or of markProcessed, markFailed or markIgnored, fails.
PossibleFaults == {"handler", "lock", "mark"}

ASSUME DeliveryAssumption ==
    /\ Faults \subseteq PossibleFaults
    /\ MaxCrashes \in Nat

WebhookStatus == {"PENDING", "PROCESSED", "FAILED", "IGNORED"}

Steps ==
    {"waiting", "find", "create", "reopen", "handle", "markProcessed",
     "markFailed", "markIgnored", "done"}

VARIABLES
    eventType,    \* whether normalizeTelnyxEvent knows the type of the event
    status,       \* the status of the event's row, or "absent"
    pc,           \* the step a delivery is about to run
    answer,       \* the HTTP status it was answered with, or "none"
    canProcess,   \* deliveries acquireLock returned canProcess: true to
    failed,       \* those that went into the catch block of the controller
    applied,      \* those whose handleEvent returned
    crashes       \* restarts so far

history == <<canProcess, failed, applied>>
vars == <<eventType, status, pc, answer, history, crashes>>

TypeOK ==
    /\ eventType \in {"call", "unknown"}
    /\ status \in WebhookStatus \cup {"absent"}
    /\ pc \in [Deliveries -> Steps]
    /\ answer \in [Deliveries -> {"none", "200", "500"}]
    /\ {canProcess, failed, applied} \subseteq SUBSET Deliveries
    /\ crashes \in Nat

Init ==
    /\ eventType \in {"call", "unknown"}
    /\ status = "absent"
    /\ pc = [d \in Deliveries |-> "waiting"]
    /\ answer = [d \in Deliveries |-> "none"]
    /\ canProcess = {} /\ failed = {} /\ applied = {}
    /\ crashes = 0

Goto(d, step) == pc' = [pc EXCEPT ![d] = step]

Answer(d, code) ==
    /\ Goto(d, "done")
    /\ answer' = [answer EXCEPT ![d] = code]

-----------------------------------------------------------------------------
(***************************************************************************)
(* acquireLock.                                                            *)
(***************************************************************************)

\* The provider delivers the event until a delivery is answered with 200; it
\* does not wait for an answer before it delivers once more.
Deliver(d) ==
    /\ pc[d] = "waiting"
    /\ \A e \in Deliveries : answer[e] # "200"
    /\ Goto(d, "find")
    /\ UNCHANGED <<eventType, status, answer, history, crashes>>

\* Mutant: only an event that was PROCESSED is a duplicate.
find_PendingIsRetried(d) ==
    /\ pc[d] = "find"
    /\ \/ status = "absent" /\ Goto(d, "create") /\ UNCHANGED answer
       \/ status = "PROCESSED" /\ Answer(d, "200")
       \/ /\ status \in {"PENDING", "FAILED", "IGNORED"}
          /\ Goto(d, "reopen")
          /\ UNCHANGED answer
    /\ UNCHANGED <<eventType, status, history, crashes>>

\* findUnique, and the early returns for a duplicate.
find(d) ==
    /\ pc[d] = "find"
    /\ \/ status = "absent" /\ Goto(d, "create") /\ UNCHANGED answer
       \/ status \in {"PENDING", "PROCESSED"} /\ Answer(d, "200")
       \/ /\ status \in {"FAILED", "IGNORED"}
          /\ Goto(d, "reopen")
          /\ UNCHANGED answer
    /\ UNCHANGED <<eventType, status, history, crashes>>

\* acquireLock gave the event to d: the controller normalizes it.
Process(d) ==
    /\ status' = "PENDING"
    /\ canProcess' = canProcess \cup {d}
    /\ Goto(d, IF eventType = "call" THEN "handle" ELSE "markIgnored")
    /\ UNCHANGED <<eventType, answer, failed, applied, crashes>>

\* Mutant: the table has no unique constraint on provider and event id.
create_NotUnique(d) == pc[d] = "create" /\ Process(d)

create(d) ==
    /\ pc[d] = "create"
    /\ \/ status = "absent" /\ Process(d)
       \/ /\ status # "absent"
          /\ Answer(d, "200")
          /\ UNCHANGED <<eventType, status, history, crashes>>

\* The update of a FAILED or IGNORED row does not look at its status again.
reopen(d) == pc[d] = "reopen" /\ Process(d)

\* Any other error of acquireLock is caught: the delivery is a "Duplicate".
lockFails(d) ==
    /\ "lock" \in Faults
    /\ pc[d] \in {"find", "create", "reopen"}
    /\ Answer(d, "200")
    /\ UNCHANGED <<eventType, status, history, crashes>>

-----------------------------------------------------------------------------
(***************************************************************************)
(* handleWebhook after the lock.                                           *)
(***************************************************************************)
handleEvent(d) ==
    /\ pc[d] = "handle"
    /\ applied' = applied \cup {d}
    /\ Goto(d, "markProcessed")
    /\ UNCHANGED <<eventType, status, answer, canProcess, failed, crashes>>

\* The catch block, entered from handleEvent or from markProcessed.
Catch(d) ==
    /\ failed' = failed \cup {d}
    /\ Goto(d, "markFailed")
    /\ UNCHANGED <<eventType, status, answer, canProcess, applied, crashes>>

\* Mutant: an error of the handler is only logged.
handleEventThrows_OnlyLogged(d) ==
    /\ "handler" \in Faults
    /\ pc[d] = "handle"
    /\ Answer(d, "200")
    /\ UNCHANGED <<eventType, status, history, crashes>>

handleEventThrows(d) == "handler" \in Faults /\ pc[d] = "handle" /\ Catch(d)

Mark(d, s) ==
    /\ status' = s
    /\ Answer(d, "200")
    /\ UNCHANGED <<eventType, history, crashes>>

\* Mutant: the row stays PENDING when the handler is done.
markProcessed_Forgotten(d) ==
    /\ pc[d] = "markProcessed"
    /\ Answer(d, "200")
    /\ UNCHANGED <<eventType, status, history, crashes>>

markProcessed(d) == pc[d] = "markProcessed" /\ Mark(d, "PROCESSED")

markFailed(d) == pc[d] = "markFailed" /\ Mark(d, "FAILED")

markIgnored(d) == pc[d] = "markIgnored" /\ Mark(d, "IGNORED")

\* A failed markProcessed lands in the catch block; the others leave the
\* controller, and Nest answers 500.
markThrows(d) ==
    /\ "mark" \in Faults
    /\ \/ pc[d] = "markProcessed" /\ Catch(d)
       \/ /\ pc[d] \in {"markFailed", "markIgnored"}
          /\ Answer(d, "500")
          /\ UNCHANGED <<eventType, status, history, crashes>>

\* The API process restarts; the requests in flight get no answer.
Restart ==
    /\ crashes < MaxCrashes
    /\ crashes' = crashes + 1
    /\ \E d \in Deliveries : pc[d] \notin {"waiting", "done"}
    /\ pc' = [d \in Deliveries |->
                IF pc[d] = "waiting" THEN "waiting" ELSE "done"]
    /\ UNCHANGED <<eventType, status, answer, history>>

ApiStep(d) ==
    \/ find(d)
    \/ create(d)
    \/ reopen(d)
    \/ lockFails(d)
    \/ handleEvent(d)
    \/ handleEventThrows(d)
    \/ markProcessed(d)
    \/ markFailed(d)
    \/ markIgnored(d)
    \/ markThrows(d)

Next ==
    \/ \E d \in Deliveries : Deliver(d) \/ ApiStep(d)
    \/ Restart

Spec == Init /\ [][Next]_vars

\* Requests in flight go on, and the provider keeps its deliveries coming
\* until it is answered with 200.
FairSpec ==
    /\ Spec
    /\ \A d \in Deliveries : WF_vars(ApiStep(d)) /\ WF_vars(Deliver(d))

-----------------------------------------------------------------------------
(***************************************************************************)
(* Properties.                                                             *)
(***************************************************************************)

\* However many deliveries find no row at the same time, one of them handles
\* the event; a second one does only after a handling went wrong.
OneHandler ==
    eventType = "call" /\ failed = {} =>
        \A d, e \in canProcess : d = e

\* Until a handling went wrong, an event has one business effect at most,
\* also when the process restarts between the handler and markProcessed and
\* the provider delivers again.
OneEffect == failed = {} => \A d, e \in applied : d = e

InFlight(d) == pc[d] \notin {"waiting", "done"}

\* The row of an event whose handler ran and which nobody works on says so,
\* so a later delivery is a duplicate.
EffectRecorded ==
    /\ applied # {} /\ failed = {} /\ crashes = 0
    /\ \A d \in Deliveries : ~InFlight(d)
    => status = "PROCESSED"

\* The deliveries implement EventProcessing.
Handled == IF eventType = "call" THEN canProcess ELSE {}

Abstract == INSTANCE EventProcessing WITH claimed <- Handled
ImplementsEventProcessing == Abstract!Spec

\* A delivery in flight settles a PENDING event, unless the process restarts
\* or the statement that should settle it fails.
PendingIsSettled ==
    status = "PENDING" ~>
        \/ status # "PENDING"
        \/ crashes > 0
        \/ \E d \in Deliveries : answer[d] = "500"

\* acquireLock never returns canProcess: true for an event that is PENDING or
\* PROCESSED.
BusyEventIsRefused ==
    [][\A d \in canProcess' \ canProcess :
            status \notin {"PENDING", "PROCESSED"}]_vars
=============================================================================
