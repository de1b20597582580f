---------------------- MODULE WebhookIdempotencyProofs ----------------------
(***************************************************************************)
(* Theorems about WebhookIdempotency, for any number of deliveries.        *)
(***************************************************************************)
EXTENDS WebhookIdempotency, TLAPS

\* Before its lock a delivery has claimed nothing.
Unclaimed == {"waiting", "find", "create", "reopen"}

\* Each delivery's step tells which of the history sets it is in.
DeliveryInv(d) ==
    /\ pc[d] \in Unclaimed => d \notin canProcess
    /\ pc[d] \in {"handle", "markProcessed", "markFailed", "markIgnored"} =>
            d \in canProcess
    /\ pc[d] = "handle" => d \notin applied \cup failed
    /\ pc[d] = "markProcessed" => d \notin failed
    /\ pc[d] = "markFailed" => d \in failed

\* A call event is never IGNORED, and is open to a second delivery only
\* after a failure; an event of unknown type reaches no handler.
EventInv(d) ==
    IF eventType = "call"
    THEN /\ pc[d] # "markIgnored"
         /\ pc[d] = "reopen" => failed # {}
    ELSE pc[d] \notin {"handle", "markProcessed", "markFailed"}

RowInv ==
    /\ status = "absent" => canProcess = {}
    /\ eventType = "call" => status # "IGNORED"
    /\ eventType = "call" /\ status = "FAILED" => failed # {}
    /\ eventType = "unknown" => applied = {} /\ failed = {}
    /\ applied \cup failed \subseteq canProcess

\* The inductive invariant.
IInv ==
    /\ TypeOK
    /\ \A d \in Deliveries : DeliveryInv(d) /\ EventInv(d)
    /\ RowInv
    /\ OneHandler

-----------------------------------------------------------------------------
LEMMA TypeInit == Init => TypeOK
BY DeliveryAssumption DEF Init, TypeOK, Steps, WebhookStatus

LEMMA TypeStep == TypeOK /\ [Next]_vars => TypeOK'
<1> SUFFICES ASSUME TypeOK, [Next]_vars PROVE TypeOK'
  OBVIOUS
<1> USE DEF TypeOK, Steps, WebhookStatus, Goto, Answer, history
<1>1. CASE UNCHANGED vars
  BY <1>1 DEF vars
<1>2. ASSUME NEW d \in Deliveries, Deliver(d) PROVE TypeOK'
  BY <1>2 DEF Deliver
<1>3. ASSUME NEW d \in Deliveries, find(d) PROVE TypeOK'
  BY <1>3 DEF find
<1>4. ASSUME NEW d \in Deliveries, create(d) PROVE TypeOK'
  BY <1>4 DEF create, Process
<1>5. ASSUME NEW d \in Deliveries, reopen(d) PROVE TypeOK'
  BY <1>5 DEF reopen, Process
<1>6. ASSUME NEW d \in Deliveries, lockFails(d) PROVE TypeOK'
  BY <1>6 DEF lockFails
<1>7. ASSUME NEW d \in Deliveries, handleEvent(d) PROVE TypeOK'
  BY <1>7 DEF handleEvent
<1>8. ASSUME NEW d \in Deliveries, handleEventThrows(d) PROVE TypeOK'
  BY <1>8 DEF handleEventThrows, Catch
<1>9. ASSUME NEW d \in Deliveries,
             markProcessed(d) \/ markFailed(d) \/ markIgnored(d)
      PROVE TypeOK'
  BY <1>9 DEF markProcessed, markFailed, markIgnored, Mark
<1>10. ASSUME NEW d \in Deliveries, markThrows(d) PROVE TypeOK'
  BY <1>10 DEF markThrows, Catch
<1>11. CASE Restart
  BY <1>11 DEF Restart
<1> QED
  BY <1>1, <1>2, <1>3, <1>4, <1>5, <1>6, <1>7, <1>8, <1>9, <1>10, <1>11
  DEF Next, ApiStep

\* Every variable keeps its type in every reachable state.
THEOREM TypeCorrect == Spec => []TypeOK
BY TypeInit, TypeStep, PTL DEF Spec

-----------------------------------------------------------------------------
LEMMA InvInit == Init => IInv
BY TypeInit
DEF Init, IInv, DeliveryInv, EventInv, RowInv, OneHandler, Unclaimed

LEMMA InvStep == IInv /\ [Next]_vars => IInv'
<1> SUFFICES ASSUME IInv, [Next]_vars PROVE IInv'
  OBVIOUS
<1>t. TypeOK /\ TypeOK'
  BY TypeStep DEF IInv
<1> USE <1>t DEF IInv, TypeOK, Goto, Answer, history,
                 DeliveryInv, EventInv, RowInv, OneHandler, Unclaimed
<1>1. CASE UNCHANGED vars
  BY <1>1 DEF vars
<1>2. ASSUME NEW d \in Deliveries, Deliver(d) PROVE IInv'
  BY <1>2 DEF Deliver
<1>3. ASSUME NEW d \in Deliveries, find(d) PROVE IInv'
  BY <1>3 DEF find
<1>4. ASSUME NEW d \in Deliveries, create(d) PROVE IInv'
  BY <1>4 DEF create, Process
<1>5. ASSUME NEW d \in Deliveries, reopen(d) PROVE IInv'
  BY <1>5 DEF reopen, Process
<1>6. ASSUME NEW d \in Deliveries, lockFails(d) PROVE IInv'
  BY <1>6 DEF lockFails
<1>7. ASSUME NEW d \in Deliveries, handleEvent(d) PROVE IInv'
  BY <1>7 DEF handleEvent
<1>8. ASSUME NEW d \in Deliveries, handleEventThrows(d) PROVE IInv'
  BY <1>8 DEF handleEventThrows, Catch
<1>9. ASSUME NEW d \in Deliveries,
             markProcessed(d) \/ markFailed(d) \/ markIgnored(d)
      PROVE IInv'
  BY <1>9 DEF markProcessed, markFailed, markIgnored, Mark
<1>10. ASSUME NEW d \in Deliveries, markThrows(d) PROVE IInv'
  BY <1>10 DEF markThrows, Catch
<1>11. CASE Restart
  BY <1>11 DEF Restart
<1> QED
  BY <1>1, <1>2, <1>3, <1>4, <1>5, <1>6, <1>7, <1>8, <1>9, <1>10, <1>11
  DEF Next, ApiStep

\* The strengthened invariant holds in every reachable state.
THEOREM Inductive == Spec => []IInv
BY InvInit, InvStep, PTL DEF Spec

\* For any number of deliveries and under every fault, a second delivery
\* handles a call event only after a handling went wrong.
THEOREM OneHandlerHolds == Spec => []OneHandler
<1>1. IInv => OneHandler
  BY DEF IInv
<1> QED
  BY <1>1, Inductive, PTL

-----------------------------------------------------------------------------
\* Until a handling went wrong, an event takes effect once at most, for any
\* number of deliveries and whatever restarts.
THEOREM OneEffectHolds == Spec => []OneEffect
<1>1. IInv => OneEffect
  BY DEF IInv, RowInv, OneHandler, OneEffect, TypeOK
<1> QED
  BY <1>1, Inductive, PTL

-----------------------------------------------------------------------------
\* The delivery whose handler ran marks the row next, or has marked it.
MarkInv ==
    crashes = 0 /\ failed = {} =>
        \A d \in applied :
            \/ pc[d] = "markProcessed"
            \/ pc[d] = "done" /\ status = "PROCESSED"

LEMMA MarkStep == IInv /\ MarkInv /\ [Next]_vars => MarkInv'
<1> SUFFICES ASSUME IInv, MarkInv, [Next]_vars PROVE MarkInv'
  OBVIOUS
<1> USE DEF IInv, TypeOK, MarkInv, Goto, Answer, history, DeliveryInv,
            EventInv, RowInv
<1>1. CASE UNCHANGED vars
  BY <1>1 DEF vars
<1>2. ASSUME NEW d \in Deliveries, Deliver(d) \/ find(d) \/ lockFails(d)
      PROVE  MarkInv'
  BY <1>2 DEF Deliver, find, lockFails
\* A row that is stored has been claimed, and is claimed again after a failure.
<1>3. ASSUME NEW d \in Deliveries, create(d) \/ reopen(d) PROVE MarkInv'
  BY <1>3 DEF create, reopen, Process
<1>4. ASSUME NEW d \in Deliveries, handleEvent(d) PROVE MarkInv'
  BY <1>4 DEF handleEvent
<1>5. ASSUME NEW d \in Deliveries, handleEventThrows(d) \/ markThrows(d)
      PROVE  MarkInv'
  BY <1>5 DEF handleEventThrows, markThrows, Catch
<1>6. ASSUME NEW d \in Deliveries,
             markProcessed(d) \/ markFailed(d) \/ markIgnored(d)
      PROVE  MarkInv'
  BY <1>6 DEF markProcessed, markFailed, markIgnored, Mark
<1>7. CASE Restart
  BY <1>7 DEF Restart
<1> QED
  BY <1>1, <1>2, <1>3, <1>4, <1>5, <1>6, <1>7 DEF Next, ApiStep

\* A call event whose handler ran is recorded as PROCESSED once nobody works
\* on it (WebhookIdempotencyService.markProcessed).
THEOREM EffectRecordedHolds == Spec => []EffectRecorded
<1>1. Init => MarkInv
  BY DEF Init, MarkInv
<1>2. IInv /\ MarkInv => EffectRecorded
  BY DEF IInv, RowInv, TypeOK, MarkInv, EffectRecorded, InFlight
<1> QED
  BY <1>1, <1>2, MarkStep, Inductive, PTL DEF Spec

-----------------------------------------------------------------------------
(***************************************************************************)
(* Refinement of EventProcessing: claiming, applying and failing are the   *)
(* steps Process, handleEvent and Catch of a call event; every other step  *)
(* stutters.                                                               *)
(***************************************************************************)
LEMMA InitRefines == Init => Abstract!Init
BY DEF Init, Abstract!Init, Handled

LEMMA StepRefines == IInv /\ [Next]_vars => [Abstract!Next]_Abstract!vars
<1> SUFFICES ASSUME IInv, [Next]_vars PROVE [Abstract!Next]_Abstract!vars
  OBVIOUS
<1> USE DEF Abstract!vars, Handled, history
<1>1. CASE UNCHANGED vars
  BY <1>1 DEF vars
<1>2. ASSUME NEW d \in Deliveries, Process(d), status # "absent" => failed # {},
             pc[d] \in Unclaimed, eventType = "call"
      PROVE Abstract!Claim(d)
  BY <1>2 DEF Process, Abstract!Claim, IInv, DeliveryInv, RowInv
<1>3. ASSUME NEW d \in Deliveries, Process(d), eventType # "call"
      PROVE UNCHANGED Abstract!vars
  BY <1>3 DEF Process
<1>4. ASSUME NEW d \in Deliveries, create(d)
      PROVE [Abstract!Next]_Abstract!vars
  BY <1>2, <1>3, <1>4 DEF create, Abstract!Next, Unclaimed
<1>5. ASSUME NEW d \in Deliveries, reopen(d)
      PROVE [Abstract!Next]_Abstract!vars
  BY <1>2, <1>3, <1>5 DEF reopen, Abstract!Next, Unclaimed, IInv, EventInv
<1>6. ASSUME NEW d \in Deliveries, handleEvent(d) PROVE Abstract!Apply(d)
  BY <1>6 DEF handleEvent, Abstract!Apply, IInv, DeliveryInv, EventInv, TypeOK
<1>7. ASSUME NEW d \in Deliveries, Catch(d),
             pc[d] \in {"handle", "markProcessed"}
      PROVE Abstract!Fail(d)
  BY <1>7 DEF Catch, Abstract!Fail, IInv, DeliveryInv, EventInv, TypeOK
<1>8. ASSUME NEW d \in Deliveries, handleEventThrows(d) PROVE Abstract!Fail(d)
  BY <1>7, <1>8 DEF handleEventThrows
<1>9. ASSUME NEW d \in Deliveries, markThrows(d)
      PROVE [Abstract!Next]_Abstract!vars
  BY <1>7, <1>9 DEF markThrows, Abstract!Next
<1>10. ASSUME NEW d \in Deliveries,
              \/ Deliver(d) \/ find(d) \/ lockFails(d)
              \/ markProcessed(d) \/ markFailed(d) \/ markIgnored(d)
       PROVE UNCHANGED Abstract!vars
  BY <1>10 DEF Deliver, find, lockFails, markProcessed, markFailed,
               markIgnored, Mark
<1>11. CASE Restart
  BY <1>11 DEF Restart
<1> QED
  BY <1>1, <1>4, <1>5, <1>6, <1>8, <1>9, <1>10, <1>11
  DEF Next, ApiStep, Abstract!Next

\* The idempotency table keeps the promise of EventProcessing.
THEOREM Refinement == Spec => ImplementsEventProcessing
<1> QED
  BY InitRefines, StepRefines, Inductive, PTL
  DEF Spec, ImplementsEventProcessing, Abstract!Spec
=============================================================================
