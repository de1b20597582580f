-------------------------- MODULE OutboundWebhooks --------------------------
(***************************************************************************)
(* Delivery of customer webhooks: WebhooksService queues a row per         *)
(* endpoint and event, and a timer runs processDeliveries every five       *)
(* seconds without waiting for the run before it.                          *)
(* (apps/api/src/webhooks/webhooks.service.ts)                             *)
(*                                                                         *)
(* A run claims rows with one statement, loads them with another, and then *)
(* works through them with the attempt_count it loaded.  Time is           *)
(* abstracted to the two comparisons the claim makes: whether              *)
(* next_attempt_at has passed and whether updated_at is five minutes old.  *)
(***************************************************************************)
EXTENDS Naturals, FiniteSets

CONSTANTS
    Deliveries,     \* rows that queueEvent may create, one per event
    Endpoints,      \* the customers' OutboundWebhook rows
    EndpointOf,     \* the endpoint a delivery belongs to
    Runs,           \* runs of processDeliveries that may overlap
    MaxAttempts,    \* maxAttempts in markFailed
    BatchLimit,     \* LIMIT of the claim
    Faults,         \* what may fail (see PossibleFaults)
    Posts,          \* "prompt" or "slow" (see PostSpeeds)
    MaxCrashes      \* bound on restarts (not on those a deleted row causes)

\* "endpoint": the endpoint does not answer 2xx, or the POST does not reach
\* it; "update": the statement that records the outcome fails.
PossibleFaults == {"endpoint", "update"}

\* "prompt": a run is done with a row less than five minutes after it claimed
\* it; "slow": it need not be, for safeFetch sets no timeout and a run posts
\* its rows one after the other.
PostSpeeds == {"prompt", "slow"}

ASSUME EndpointAssumption == EndpointOf \in [Deliveries -> Endpoints]
ASSUME LimitAssumption ==
    /\ MaxAttempts \in Nat \ {0}
    /\ BatchLimit \in Nat \ {0}
    /\ MaxCrashes \in Nat
    /\ Faults \subseteq PossibleFaults
    /\ Posts \in PostSpeeds

DeliveryStatus == {"PENDING", "PROCESSING", "SUCCESS", "FAILED"}

Steps == {"idle", "load", "batch", "recordSuccess", "recordFailure"}

VARIABLES
    endpoints,     \* the OutboundWebhook rows that exist
    status,        \* WebhookDelivery.status, or "absent"
    attempt_count, \* WebhookDelivery.attempt_count
    due,           \* deliveries whose next_attempt_at has passed
    stale,         \* deliveries whose updated_at is over five minutes old
    pc,            \* what a run is about to do
    batch,         \* the deliveries a run claimed and is not done with
    loaded,        \* the attempt_count a run loaded, per delivery
    current,       \* the delivery a run is working on: a set of at most one
    posts,         \* times the endpoint was sent the delivery
    crashes        \* restarts so far

rowVars == <<status, attempt_count, due, stale>>
runVars == <<pc, batch, loaded, current>>
vars == <<endpoints, status, attempt_count, due, stale, pc, batch, loaded,
          current, posts, crashes>>

Counts == 0..MaxAttempts

TypeOK ==
    /\ endpoints \subseteq Endpoints
    /\ status \in [Deliveries -> DeliveryStatus \cup {"absent"}]
    /\ attempt_count \in [Deliveries -> Counts]
    /\ due \subseteq Deliveries
    /\ stale \subseteq Deliveries
    /\ pc \in [Runs -> Steps]
    /\ batch \in [Runs -> SUBSET Deliveries]
    /\ loaded \in [Runs -> [Deliveries -> Counts]]
    /\ current \in [Runs -> SUBSET Deliveries]
    /\ posts \in [Deliveries -> Nat]
    /\ crashes \in Nat

NothingLoaded == [d \in Deliveries |-> 0]

Init ==
    /\ endpoints = Endpoints
    /\ status = [d \in Deliveries |-> "absent"]
    /\ attempt_count = [d \in Deliveries |-> 0]
    /\ due = {} /\ stale = {}
    /\ pc = [r \in Runs |-> "idle"]
    /\ batch = [r \in Runs |-> {}]
    /\ loaded = [r \in Runs |-> NothingLoaded]
    /\ current = [r \in Runs |-> {}]
    /\ posts = [d \in Deliveries |-> 0]
    /\ crashes = 0

-----------------------------------------------------------------------------
\* The row is created for an endpoint that is ACTIVE (they all are); a second
\* create of the same event violates the unique index and is skipped.
queueEvent(d) ==
    /\ EndpointOf[d] \in endpoints
    /\ status[d] = "absent"
    /\ status' = [status EXCEPT ![d] = "PENDING"]
    /\ due' = due \cup {d}
    /\ UNCHANGED <<endpoints, attempt_count, stale, runVars, posts,
                   crashes>>

\* Deleting an endpoint cascades to its deliveries.
deleteWebhook(e) ==
    /\ e \in endpoints
    /\ endpoints' = endpoints \ {e}
    /\ status' = [d \in Deliveries |->
                    IF EndpointOf[d] = e THEN "absent" ELSE status[d]]
    /\ UNCHANGED <<attempt_count, due, stale, runVars, posts, crashes>>

-----------------------------------------------------------------------------
(***************************************************************************)
(* processDeliveries.                                                      *)
(***************************************************************************)

\* Mutant: a row that was claimed is never claimed again.
Claimable_PendingOnly(d) == status[d] = "PENDING" /\ d \in due

\* Mutant: a claim takes any row that is not settled.
Claimable_Unsettled(d) == status[d] \in {"PENDING", "PROCESSING"}

\* Mutant: the status of a row that is due is not looked at.
Claimable_AnyDue(d) ==
    d \in due \/ (status[d] = "PROCESSING" /\ d \in stale)

Claimable(d) ==
    \/ status[d] = "PENDING" /\ d \in due
    \/ status[d] = "PROCESSING" /\ d \in stale

\* UPDATE ... WHERE id IN (... LIMIT FOR UPDATE SKIP LOCKED) RETURNING id.
\* Rows another statement has locked are skipped.
claim(r, S) ==
    /\ pc[r] = "idle"
    /\ S # {} /\ Cardinality(S) <= BatchLimit
    /\ \A d \in S : Claimable(d)
    /\ status' = [d \in Deliveries |-> IF d \in S THEN "PROCESSING" ELSE status[d]]
    /\ stale' = stale \ S
    /\ pc' = [pc EXCEPT ![r] = "load"]
    /\ batch' = [batch EXCEPT ![r] = S]
    /\ UNCHANGED <<endpoints, attempt_count, due, loaded, current, posts,
                   crashes>>

Exists(d) == status[d] # "absent"

\* The batch r has left; a run with nothing left is over.
Continue(r, S) ==
    /\ batch' = [batch EXCEPT ![r] = S]
    /\ pc' = [pc EXCEPT ![r] = IF S = {} THEN "idle" ELSE "batch"]
    /\ current' = [current EXCEPT ![r] = {}]

\* findMany: rows that were deleted meanwhile are not returned.
load(r) ==
    /\ pc[r] = "load"
    /\ Continue(r, {d \in batch[r] : Exists(d)})
    /\ loaded' = [loaded EXCEPT ![r] = [d \in Deliveries |->
                    IF d \in batch[r] /\ Exists(d) THEN attempt_count[d] ELSE 0]]
    /\ UNCHANGED <<endpoints, rowVars, posts, crashes>>

\* attemptDelivery up to the answer of the endpoint.
attemptDelivery(r, d) ==
    /\ pc[r] = "batch"
    /\ d \in batch[r]
    /\ current' = [current EXCEPT ![r] = {d}]
    /\ posts' = [posts EXCEPT ![d] = @ + 1]
    /\ \/ pc' = [pc EXCEPT ![r] = "recordSuccess"]
       \/ "endpoint" \in Faults /\ pc' = [pc EXCEPT ![r] = "recordFailure"]
    /\ UNCHANGED <<endpoints, rowVars, batch, loaded, crashes>>

NewAttemptCount(r, d) == loaded[r][d] + 1

\* The update of the row by id, which must still exist.
Record(r, d, s) ==
    /\ Exists(d)
    /\ status' = [status EXCEPT ![d] = s]
    /\ attempt_count' = [attempt_count EXCEPT ![d] = NewAttemptCount(r, d)]
    /\ stale' = stale \ {d}
    /\ Continue(r, batch[r] \ {d})
    /\ UNCHANGED <<endpoints, loaded, posts, crashes>>

recordSuccess(r, d) ==
    /\ pc[r] = "recordSuccess" /\ d \in current[r]
    /\ Record(r, d, "SUCCESS")
    /\ UNCHANGED due

\* The update throws (the row is gone, or the database fails): the catch
\* block treats it like a failed POST.
recordSuccessThrows(r, d) ==
    /\ pc[r] = "recordSuccess" /\ d \in current[r]
    /\ ~Exists(d) \/ "update" \in Faults
    /\ pc' = [pc EXCEPT ![r] = "recordFailure"]
    /\ UNCHANGED <<endpoints, rowVars, batch, loaded, current, posts,
                   crashes>>

AttemptsExhausted(n) == n >= MaxAttempts

\* Mutant: attempts are not counted.
markFailed_NotCounted(r, d) ==
    /\ pc[r] = "recordFailure" /\ d \in current[r]
    /\ Exists(d)
    /\ status' = [status EXCEPT ![d] = "PENDING"]
    /\ stale' = stale \ {d}
    /\ due' = due \ {d}
    /\ Continue(r, batch[r] \ {d})
    /\ UNCHANGED <<endpoints, attempt_count, loaded, posts, crashes>>

markFailed(r, d) ==
    /\ pc[r] = "recordFailure" /\ d \in current[r]
    /\ \/ /\ AttemptsExhausted(NewAttemptCount(r, d))
          /\ Record(r, d, "FAILED")
       \/ /\ ~AttemptsExhausted(NewAttemptCount(r, d))
          /\ Record(r, d, "PENDING")
    /\ due' = due \ {d}

\* The process ends, and with it every run; it is started again.
ProcessEnds ==
    /\ crashes' = crashes + 1
    /\ pc' = [r \in Runs |-> "idle"]
    /\ batch' = [r \in Runs |-> {}]
    /\ loaded' = [r \in Runs |-> NothingLoaded]
    /\ current' = [r \in Runs |-> {}]
    /\ UNCHANGED <<endpoints, rowVars, posts>>

\* Nothing catches an error of markFailed, or of findMany: the promise of
\* processDeliveries is rejected, and Node ends the process.
runThrows(r) ==
    /\ \/ /\ pc[r] = "recordFailure"
          /\ \E d \in current[r] : ~Exists(d)
       \/ /\ pc[r] \in {"load", "recordFailure"}
          /\ "update" \in Faults
          /\ crashes < MaxCrashes
    /\ ProcessEnds

Restart ==
    /\ crashes < MaxCrashes
    /\ \E r \in Runs : pc[r] # "idle"
    /\ ProcessEnds

-----------------------------------------------------------------------------
(***************************************************************************)
(* Time.                                                                   *)
(***************************************************************************)
BecomesDue(d) ==
    /\ status[d] = "PENDING" /\ d \notin due
    /\ due' = due \cup {d}
    /\ UNCHANGED <<endpoints, status, attempt_count, stale, runVars, posts,
                   crashes>>

BecomesStale(d) ==
    /\ status[d] = "PROCESSING" /\ d \notin stale
    /\ Posts = "prompt" => \A r \in Runs : d \notin batch[r]
    /\ stale' = stale \cup {d}
    /\ UNCHANGED <<endpoints, status, attempt_count, due, runVars, posts,
                   crashes>>

RunStep(r) ==
    \/ load(r)
    \/ \E d \in Deliveries :
        \/ attemptDelivery(r, d)
        \/ recordSuccess(r, d)
        \/ recordSuccessThrows(r, d)
        \/ markFailed(r, d)
    \/ runThrows(r)

Claim == \E r \in Runs, S \in SUBSET Deliveries : claim(r, S)

Next ==
    \/ \E d \in Deliveries : queueEvent(d)
    \/ \E e \in Endpoints : deleteWebhook(e)
    \/ Claim
    \/ \E r \in Runs : RunStep(r)
    \/ Restart
    \/ \E d \in Deliveries : BecomesDue(d) \/ BecomesStale(d)

Spec == Init /\ [][Next]_vars

\* The timer fires for ever, a run goes on, and time passes.
FairSpec ==
    /\ Spec
    /\ WF_vars(Claim)
    /\ \A r \in Runs : WF_vars(RunStep(r))
    /\ \A d \in Deliveries : WF_vars(BecomesDue(d)) /\ WF_vars(BecomesStale(d))

-----------------------------------------------------------------------------
(***************************************************************************)
(* Properties.                                                             *)
(***************************************************************************)

\* No two runs hold the same delivery: the claim takes it from the others.
OneRunPerDelivery ==
    \A r, s \in Runs : r # s => batch[r] \cap batch[s] = {}

\* A delivery is sent MaxAttempts times at most, plus once for every restart
\* that lost the record of an attempt.
PostsBounded == \A d \in Deliveries : posts[d] <= MaxAttempts + crashes

\* A delivery that is settled stays so until its endpoint is deleted, and
\* counts never go back.
SettledStays ==
    [][\A d \in Deliveries :
        /\ status[d] \in {"SUCCESS", "FAILED"} =>
                status'[d] \in {status[d], "absent"}
        /\ attempt_count[d] <= attempt_count'[d]]_vars

\* A queued delivery is settled in the end, or its endpoint is deleted: rows
\* a lost run left PROCESSING are claimed again.
EveryDeliverySettles ==
    \A d \in Deliveries :
        status[d] \in {"PENDING", "PROCESSING"}
            ~> status[d] \in {"SUCCESS", "FAILED", "absent"}

\* A delivery is attempted MaxAttempts times at most.
AttemptLimit == \A d \in Deliveries : posts[d] <= MaxAttempts
=============================================================================
