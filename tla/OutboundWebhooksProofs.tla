----------------------- MODULE OutboundWebhooksProofs -----------------------
(***************************************************************************)
(* Proofs about OutboundWebhooks when runs are prompt: for every set of    *)
(* deliveries, endpoints and overlapping runs, every limit and fault.      *)
(***************************************************************************)
EXTENDS OutboundWebhooks, TLAPS

-----------------------------------------------------------------------------
(***************************************************************************)
(* The inductive invariant: what a run looks like at each step, what the   *)
(* row of a delivery says of it, and what a run may rely on while it holds *)
(* a delivery although it read the row several statements ago.             *)
(***************************************************************************)
Held(d) == \E r \in Runs : d \in batch[r]

InFlight(d) == \E r \in Runs : d \in current[r]

RunInv(r) ==
    /\ current[r] \subseteq batch[r]
    /\ \A d, e \in current[r] : d = e
    /\ pc[r] = "idle" => batch[r] = {}
    /\ pc[r] \notin {"recordSuccess", "recordFailure"} => current[r] = {}

RowInv(d) ==
    /\ status[d] \in {"PENDING", "PROCESSING"} => attempt_count[d] < MaxAttempts
    /\ EndpointOf[d] \notin endpoints => status[d] = "absent"
    /\ status[d] = "absent" /\ EndpointOf[d] \in endpoints =>
            attempt_count[d] = 0 /\ ~Held(d)

\* The row of a delivery that a run holds is its own: PROCESSING, too fresh to
\* be claimed, and with the count the run has loaded.
HoldInv(r, d) ==
    d \in batch[r] =>
        /\ d \notin stale
        /\ status[d] \in {"PROCESSING", "absent"}
        /\ attempt_count[d] < MaxAttempts
        /\ pc[r] # "load" /\ Exists(d) => loaded[r][d] = attempt_count[d]

\* Every POST is counted in the row, lost with a process, or in flight.
PostsInv(d) ==
    posts[d] <= attempt_count[d] + crashes + (IF InFlight(d) THEN 1 ELSE 0)

IInv ==
    /\ Posts = "prompt"
    /\ TypeOK
    /\ OneRunPerDelivery
    /\ \A r \in Runs : RunInv(r)
    /\ \A d \in Deliveries : RowInv(d)
    /\ \A r \in Runs, d \in Deliveries : HoldInv(r, d)
    /\ \A d \in Deliveries : PostsInv(d)

LEMMA LimitFacts ==
    /\ MaxAttempts \in Nat \ {0} /\ Counts = 0..MaxAttempts
    /\ EndpointOf \in [Deliveries -> Endpoints]
  BY EndpointAssumption, LimitAssumption DEF Counts

LEMMA InitIInv == Posts = "prompt" /\ Init => IInv
  <1> SUFFICES ASSUME Posts = "prompt", Init
               PROVE  IInv
    OBVIOUS
  <1>1. TypeOK
    BY LimitFacts DEF Init, TypeOK, Steps, NothingLoaded
  <1>2. OneRunPerDelivery /\ (\A r \in Runs : RunInv(r))
    BY DEF Init, OneRunPerDelivery, RunInv
  <1>3. \A d \in Deliveries : RowInv(d) /\ PostsInv(d)
    BY LimitFacts DEF Init, RowInv, PostsInv, Held, InFlight
  <1>4. \A r \in Runs, d \in Deliveries : HoldInv(r, d)
    BY DEF Init, HoldInv
  <1>5. QED
    BY <1>1, <1>2, <1>3, <1>4 DEF IInv

-----------------------------------------------------------------------------
(***************************************************************************)
(* The rows are written by queueEvent, deleteWebhook and time.             *)
(***************************************************************************)
LEMMA QueueEventStep ==
    ASSUME IInv, NEW d \in Deliveries, queueEvent(d)
    PROVE  IInv'
  <1> USE DEF IInv, queueEvent, rowVars, runVars
  <1>1. TypeOK'
    BY DEF TypeOK, DeliveryStatus
  <1>2. OneRunPerDelivery' /\ (\A r \in Runs : RunInv(r)')
    BY DEF OneRunPerDelivery, RunInv
  <1>3. /\ status' \in [Deliveries -> DeliveryStatus \cup {"absent"}]
        /\ \A c \in Deliveries :
             status'[c] = IF c = d THEN "PENDING" ELSE status[c]
    BY DEF TypeOK, DeliveryStatus
  <1>4. attempt_count[d] = 0 /\ ~Held(d)
    BY DEF RowInv
  <1>5. \A c \in Deliveries : RowInv(c)'
    BY <1>3, <1>4, LimitFacts DEF RowInv, Held
  <1>6. \A r \in Runs, c \in Deliveries : HoldInv(r, c)'
    BY <1>3, <1>4 DEF HoldInv, Held, Exists
  <1>7. \A c \in Deliveries : PostsInv(c)'
    BY DEF PostsInv, InFlight
  <1>8. QED
    BY <1>1, <1>2, <1>5, <1>6, <1>7

LEMMA DeleteWebhookStep ==
    ASSUME IInv, NEW e \in Endpoints, deleteWebhook(e)
    PROVE  IInv'
  <1> USE DEF IInv, deleteWebhook, rowVars, runVars
  <1>1. TypeOK'
    BY DEF TypeOK
  <1>2. OneRunPerDelivery' /\ (\A r \in Runs : RunInv(r)')
    BY DEF OneRunPerDelivery, RunInv
  <1>3. \A c \in Deliveries :
          status'[c] = IF EndpointOf[c] = e THEN "absent" ELSE status[c]
    BY DEF TypeOK
  <1>4. \A c \in Deliveries : RowInv(c)'
    BY <1>3 DEF RowInv, Held
  <1>5. \A r \in Runs, c \in Deliveries : HoldInv(r, c)'
    BY <1>3 DEF HoldInv, Exists
  <1>6. \A c \in Deliveries : PostsInv(c)'
    BY DEF PostsInv, InFlight
  <1>7. QED
    BY <1>1, <1>2, <1>4, <1>5, <1>6

LEMMA TimeStep ==
    ASSUME IInv, NEW d \in Deliveries, BecomesDue(d) \/ BecomesStale(d)
    PROVE  IInv'
  <1> USE DEF IInv, BecomesDue, BecomesStale, runVars
  <1>1. TypeOK'
    BY DEF TypeOK
  <1>2. OneRunPerDelivery' /\ (\A r \in Runs : RunInv(r)')
    BY DEF OneRunPerDelivery, RunInv
  <1>3. \A c \in Deliveries : RowInv(c)' /\ PostsInv(c)'
    BY DEF RowInv, PostsInv, Held, InFlight
  <1>4. \A r \in Runs, c \in Deliveries : HoldInv(r, c)'
    BY DEF HoldInv, Exists
  <1>5. QED
    BY <1>1, <1>2, <1>3, <1>4

-----------------------------------------------------------------------------
(***************************************************************************)
(* A run claims rows, loads them and works through them.                   *)
(***************************************************************************)

\* The claim takes rows that no run holds.
LEMMA ClaimStep ==
    ASSUME IInv, NEW r \in Runs, NEW S \in SUBSET Deliveries, claim(r, S)
    PROVE  IInv'
  <1> USE DEF IInv, claim
  <1>1. TypeOK'
    BY DEF TypeOK, DeliveryStatus, Steps
  <1>2. \A d \in S : ~Held(d) /\ status[d] \in {"PENDING", "PROCESSING"}
    BY DEF Claimable, Held, HoldInv
  <1>3. /\ pc'[r] = "load"
        /\ batch'[r] = S /\ batch[r] = {} /\ current[r] = {}
        /\ \A v \in Runs \ {r} : pc'[v] = pc[v] /\ batch'[v] = batch[v]
        /\ current' = current /\ loaded' = loaded
    BY DEF TypeOK, RunInv
  <1>4. \A d \in Deliveries :
          status'[d] = IF d \in S THEN "PROCESSING" ELSE status[d]
    BY DEF TypeOK
  <1>5. OneRunPerDelivery'
    BY <1>2, <1>3 DEF OneRunPerDelivery, Held
  <1>6. \A v \in Runs : RunInv(v)'
    BY <1>3 DEF RunInv
  <1>7. \A d \in Deliveries : RowInv(d)'
    BY <1>2, <1>3, <1>4 DEF RowInv, Held
  <1>8. \A v \in Runs, d \in Deliveries : HoldInv(v, d)'
    BY <1>2, <1>3, <1>4 DEF HoldInv, Exists, RowInv, Held
  <1>9. \A d \in Deliveries : PostsInv(d)'
    BY DEF PostsInv, InFlight
  <1>10. QED
    BY <1>1, <1>5, <1>6, <1>7, <1>8, <1>9

\* What Continue(r, S) leaves of the runs when S is part of the batch.
LEMMA ContinueEffect ==
    ASSUME TypeOK, NEW r \in Runs, NEW S \in SUBSET batch[r], Continue(r, S)
    PROVE  /\ pc' \in [Runs -> Steps]
           /\ batch' \in [Runs -> SUBSET Deliveries]
           /\ current' \in [Runs -> SUBSET Deliveries]
           /\ pc'[r] = IF S = {} THEN "idle" ELSE "batch"
           /\ batch'[r] = S /\ current'[r] = {}
           /\ \A v \in Runs \ {r} : /\ pc'[v] = pc[v] /\ batch'[v] = batch[v]
                                    /\ current'[v] = current[v]
  BY DEF Continue, TypeOK, Steps

LEMMA ContinueKeepsRuns ==
    ASSUME IInv, NEW r \in Runs, NEW S \in SUBSET batch[r], Continue(r, S)
    PROVE  /\ OneRunPerDelivery' /\ \A v \in Runs : RunInv(v)'
           /\ \A d \in Deliveries : Held(d)' => Held(d)
  <1> USE DEF IInv
  <1>1. /\ pc'[r] = IF S = {} THEN "idle" ELSE "batch"
        /\ batch'[r] = S /\ current'[r] = {}
        /\ \A v \in Runs \ {r} : /\ pc'[v] = pc[v] /\ batch'[v] = batch[v]
                                 /\ current'[v] = current[v]
    BY ContinueEffect
  <1>2. OneRunPerDelivery'
    BY <1>1 DEF OneRunPerDelivery
  <1>3. \A v \in Runs : RunInv(v)'
    BY <1>1 DEF RunInv
  <1>4. \A d \in Deliveries : Held(d)' => Held(d)
    BY <1>1 DEF Held
  <1>5. QED
    BY <1>2, <1>3, <1>4

\* The count that is loaded is the one in the row.
LEMMA LoadStep ==
    ASSUME IInv, NEW r \in Runs, load(r)
    PROVE  IInv'
  <1> DEFINE S == {d \in batch[r] : Exists(d)}
  <1> USE DEF IInv, rowVars
  <1>1. Continue(r, S) /\ S \in SUBSET batch[r] /\ pc[r] = "load"
    BY DEF load
  <1>2. /\ pc' \in [Runs -> Steps] /\ batch' \in [Runs -> SUBSET Deliveries]
        /\ current' \in [Runs -> SUBSET Deliveries]
        /\ batch'[r] = S /\ current'[r] = {}
        /\ \A v \in Runs \ {r} : /\ pc'[v] = pc[v] /\ batch'[v] = batch[v]
                                 /\ current'[v] = current[v]
    BY <1>1, ContinueEffect
  <1>3. /\ OneRunPerDelivery' /\ \A v \in Runs : RunInv(v)'
        /\ \A d \in Deliveries : Held(d)' => Held(d)
    BY <1>1, ContinueKeepsRuns
  <1>4. /\ loaded' \in [Runs -> [Deliveries -> Counts]]
        /\ \A d \in S : loaded'[r][d] = attempt_count[d]
        /\ \A v \in Runs \ {r} : loaded'[v] = loaded[v]
    BY LimitFacts DEF load, TypeOK
  <1>5. TypeOK'
    BY <1>2, <1>4 DEF load, TypeOK
  <1>6. \A d \in Deliveries : RowInv(d)'
    BY <1>3 DEF load, RowInv
  <1>7. \A v \in Runs, d \in Deliveries : HoldInv(v, d)'
    BY <1>2, <1>4 DEF load, HoldInv, Exists
  <1>8. current[r] = {}
    BY <1>1 DEF RunInv
  <1>9. \A d \in Deliveries : PostsInv(d)'
    <2>1. \A v \in Runs : current'[v] = current[v]
      BY <1>2, <1>8
    <2>2. QED
      BY <2>1 DEF load, PostsInv, InFlight
  <1>10. QED
    BY <1>3, <1>5, <1>6, <1>7, <1>9

\* A delivery is in flight once at a time.
LEMMA AttemptDeliveryStep ==
    ASSUME IInv, NEW r \in Runs, NEW d \in Deliveries, attemptDelivery(r, d)
    PROVE  IInv'
  <1> USE DEF IInv, attemptDelivery, rowVars
  <1>1. /\ pc'[r] \in {"recordSuccess", "recordFailure"}
        /\ pc' \in [Runs -> Steps]
        /\ current' \in [Runs -> SUBSET Deliveries] /\ current'[r] = {d}
        /\ \A v \in Runs \ {r} : pc'[v] = pc[v] /\ current'[v] = current[v]
    BY SMTT(20) DEF TypeOK, Steps
  <1>2. /\ posts' \in [Deliveries -> Nat]
        /\ \A c \in Deliveries :
             posts'[c] = IF c = d THEN posts[d] + 1 ELSE posts[c]
    BY DEF TypeOK
  <1>3. TypeOK'
    BY <1>1, <1>2 DEF TypeOK
  <1>4. OneRunPerDelivery' /\ \A v \in Runs : RunInv(v)'
    BY <1>1 DEF OneRunPerDelivery, RunInv
  <1>5. \A c \in Deliveries : RowInv(c)'
    BY DEF RowInv, Held
  <1>6. \A v \in Runs, c \in Deliveries : HoldInv(v, c)'
    BY <1>1 DEF HoldInv, Exists
  <1>7. current[r] = {} /\ ~InFlight(d)
    BY DEF RunInv, OneRunPerDelivery, InFlight
  <1>8. \A c \in Deliveries : InFlight(c)' <=> InFlight(c) \/ c = d
    BY <1>1, <1>7 DEF InFlight
  <1>9. \A c \in Deliveries : PostsInv(c)'
    BY <1>2, <1>7, <1>8 DEF PostsInv, TypeOK, Counts
  <1>10. QED
    BY <1>3, <1>4, <1>5, <1>6, <1>9

\* The catch block, before markFailed.
LEMMA RecordSuccessThrowsStep ==
    ASSUME IInv, NEW r \in Runs, NEW d \in Deliveries, recordSuccessThrows(r, d)
    PROVE  IInv'
  <1> USE DEF IInv, recordSuccessThrows, rowVars
  <1>1. /\ pc' \in [Runs -> Steps] /\ pc'[r] = "recordFailure"
        /\ pc[r] = "recordSuccess"
        /\ \A v \in Runs \ {r} : pc'[v] = pc[v]
    BY DEF TypeOK, Steps
  <1>2. TypeOK'
    BY <1>1 DEF TypeOK
  <1>3. OneRunPerDelivery' /\ \A v \in Runs : RunInv(v)'
    BY <1>1 DEF OneRunPerDelivery, RunInv
  <1>4. \A c \in Deliveries : RowInv(c)' /\ PostsInv(c)'
    BY DEF RowInv, Held, PostsInv, InFlight
  <1>5. \A v \in Runs, c \in Deliveries : HoldInv(v, c)'
    BY <1>1 DEF HoldInv, Exists
  <1>6. QED
    BY <1>2, <1>3, <1>4, <1>5

\* The outcome is recorded over the count that the run has loaded: since the
\* run holds the delivery, that adds one to the row.
LEMMA RecordEffect ==
    ASSUME IInv, NEW r \in Runs, NEW d \in current[r], NEW s, Record(r, d, s),
           pc[r] \in {"recordSuccess", "recordFailure"}
    PROVE  /\ d \in batch[r] /\ status[d] = "PROCESSING"
           /\ attempt_count[d] < MaxAttempts
           /\ NewAttemptCount(r, d) = attempt_count[d] + 1
           /\ \A c \in Deliveries :
                /\ status'[c] = IF c = d THEN s ELSE status[c]
                /\ attempt_count'[c] = IF c = d THEN attempt_count[d] + 1
                                                ELSE attempt_count[c]
  <1>1. d \in batch[r] /\ d \in Deliveries
    BY DEF IInv, RunInv, TypeOK
  <1>2. /\ status[d] = "PROCESSING" /\ attempt_count[d] < MaxAttempts
        /\ loaded[r][d] = attempt_count[d]
    BY <1>1 DEF IInv, HoldInv, Record, Exists
  <1>3. QED
    BY <1>1, <1>2 DEF Record, NewAttemptCount, IInv, TypeOK

LEMMA RecordStep ==
    ASSUME IInv, NEW r \in Runs, NEW d \in Deliveries,
           recordSuccess(r, d) \/ markFailed(r, d)
    PROVE  IInv'
  <1>1. PICK s \in {"SUCCESS", "FAILED", "PENDING"} :
          /\ Record(r, d, s)
          /\ s = "PENDING" => ~AttemptsExhausted(NewAttemptCount(r, d))
    BY DEF recordSuccess, markFailed
  <1>2. /\ d \in current[r] /\ pc[r] \in {"recordSuccess", "recordFailure"}
        /\ due' \subseteq due
    BY DEF recordSuccess, markFailed
  <1>3. /\ d \in batch[r] /\ status[d] = "PROCESSING"
        /\ attempt_count[d] < MaxAttempts
        /\ NewAttemptCount(r, d) = attempt_count[d] + 1
        /\ \A c \in Deliveries :
             /\ status'[c] = IF c = d THEN s ELSE status[c]
             /\ attempt_count'[c] = IF c = d THEN attempt_count[d] + 1
                                             ELSE attempt_count[c]
    BY <1>1, <1>2, RecordEffect
  <1>4. Continue(r, batch[r] \ {d}) /\ batch[r] \ {d} \in SUBSET batch[r]
    BY <1>1 DEF Record
  <1>5. /\ pc' \in [Runs -> Steps] /\ batch' \in [Runs -> SUBSET Deliveries]
        /\ current' \in [Runs -> SUBSET Deliveries]
        /\ pc'[r] # "load"
        /\ batch'[r] = batch[r] \ {d} /\ current'[r] = {}
        /\ \A v \in Runs \ {r} : /\ pc'[v] = pc[v] /\ batch'[v] = batch[v]
                                 /\ current'[v] = current[v]
    BY <1>4, ContinueEffect DEF IInv
  <1>6. /\ OneRunPerDelivery' /\ \A v \in Runs : RunInv(v)'
        /\ \A c \in Deliveries : Held(c)' => Held(c)
    BY <1>4, ContinueKeepsRuns
  <1>7. UNCHANGED <<endpoints, loaded, posts, crashes>> /\ stale' = stale \ {d}
    BY <1>1 DEF Record
  <1>8. TypeOK'
    <2>1. status' \in [Deliveries -> DeliveryStatus \cup {"absent"}]
      BY <1>1 DEF IInv, TypeOK, Record, DeliveryStatus
    <2>2. attempt_count' \in [Deliveries -> Counts]
      <3>1. NewAttemptCount(r, d) \in Counts
        BY <1>3, LimitFacts DEF IInv, TypeOK
      <3>2. QED
        BY <1>1, <3>1 DEF IInv, TypeOK, Record
    <2>3. QED
      BY <1>2, <1>5, <1>7, <2>1, <2>2 DEF IInv, TypeOK
  <1>9. \A c \in Deliveries : RowInv(c)'
    <2>1. \A c \in Deliveries : RowInv(c)
      BY DEF IInv
    <2>2. s = "PENDING" => attempt_count[d] + 1 < MaxAttempts
      BY <1>1, <1>3, LimitFacts DEF AttemptsExhausted, IInv, TypeOK
    <2>3. QED
      BY <1>1, <1>3, <1>6, <1>7, <2>1, <2>2 DEF RowInv
  <1>10. ASSUME NEW v \in Runs, NEW c \in Deliveries
         PROVE  HoldInv(v, c)'
    <2>1. HoldInv(v, c) /\ OneRunPerDelivery
      BY DEF IInv
    <2>2. c \in batch'[v] => c \in batch[v] /\ c # d
      BY <1>3, <1>5, <2>1 DEF OneRunPerDelivery
    <2>3. pc'[v] # "load" => pc[v] # "load"
      BY <1>2, <1>5
    <2>4. QED
      BY <1>3, <1>7, <2>1, <2>2, <2>3 DEF HoldInv, Exists
  <1>11. ASSUME NEW c \in Deliveries
         PROVE  PostsInv(c)'
    <2>1. PostsInv(c) /\ RunInv(r)
      BY DEF IInv
    <2>2. c # d => (InFlight(c)' <=> InFlight(c))
      BY <1>2, <1>5, <2>1 DEF InFlight, RunInv
    <2>3. /\ posts[c] \in Nat /\ crashes \in Nat
          /\ attempt_count[c] \in Nat
      BY LimitFacts DEF IInv, TypeOK
    <2>4. CASE c = d
      BY <1>3, <1>7, <2>1, <2>3, <2>4 DEF PostsInv
    <2>5. CASE c # d
      BY <1>3, <1>7, <2>1, <2>2, <2>5 DEF PostsInv
    <2>6. QED
      BY <2>4, <2>5
  <1>12. QED
    BY <1>6, <1>8, <1>9, <1>10, <1>11 DEF IInv

\* A restart loses what was in flight, and counts as one.
LEMMA ProcessEndsStep ==
    ASSUME IInv, ProcessEnds
    PROVE  IInv'
  <1> USE DEF IInv, ProcessEnds, rowVars
  <1>1. TypeOK'
    BY LimitFacts DEF TypeOK, Steps, NothingLoaded
  <1>2. OneRunPerDelivery' /\ (\A r \in Runs : RunInv(r)')
    BY DEF OneRunPerDelivery, RunInv
  <1>3. \A d \in Deliveries : RowInv(d)'
    BY DEF RowInv, Held
  <1>4. \A r \in Runs, d \in Deliveries : HoldInv(r, d)'
    BY DEF HoldInv
  <1>5. ASSUME NEW d \in Deliveries
        PROVE  PostsInv(d)'
    <2>1. PostsInv(d)
      OBVIOUS
    <2>2. posts[d] \in Nat /\ crashes \in Nat /\ attempt_count[d] \in Nat
      BY LimitFacts DEF TypeOK
    <2>3. posts[d] <= attempt_count[d] + (crashes + 1)
      BY <2>1, <2>2 DEF PostsInv
    <2>4. ~InFlight(d)'
      BY DEF InFlight
    <2>5. QED
      BY <2>2, <2>3, <2>4 DEF PostsInv
  <1>6. QED
    BY <1>1, <1>2, <1>3, <1>4, <1>5

LEMMA StutterStep ==
    ASSUME IInv, UNCHANGED vars
    PROVE  IInv'
  BY DEF IInv, vars, TypeOK, OneRunPerDelivery, RunInv, RowInv, HoldInv,
         PostsInv, Held, InFlight, Exists

LEMMA NextIInv == IInv /\ [Next]_vars => IInv'
  <1>1. ASSUME IInv, NEW r \in Runs, RunStep(r)
        PROVE  IInv'
    BY <1>1, LoadStep, AttemptDeliveryStep, RecordStep,
       RecordSuccessThrowsStep, ProcessEndsStep DEF RunStep, runThrows
  <1>2. QED
    BY <1>1, QueueEventStep, DeleteWebhookStep, ClaimStep, ProcessEndsStep,
       TimeStep, StutterStep DEF Next, Claim, Restart

-----------------------------------------------------------------------------
(***************************************************************************)
(* The theorems.                                                           *)
(***************************************************************************)
\* While runs are prompt, a run may rely on what it read of the rows it holds.
THEOREM Inductive == Posts = "prompt" /\ Spec => []IInv
  BY InitIInv, NextIInv, PTL DEF Spec

\* Deliveries, endpoints and runs keep their types.
THEOREM TypeCorrect == Posts = "prompt" /\ Spec => []TypeOK
  <1>1. IInv => TypeOK
    BY DEF IInv
  <1>2. QED
    BY <1>1, Inductive, PTL

\* No two overlapping runs of the timer hold the same delivery.
THEOREM OneRunPerDeliveryHolds == Posts = "prompt" /\ Spec => []OneRunPerDelivery
  <1>1. IInv => OneRunPerDelivery
    BY DEF IInv
  <1>2. QED
    BY <1>1, Inductive, PTL

\* A delivery is sent MaxAttempts times at most, plus once for every restart.
THEOREM PostsBoundedHolds == Posts = "prompt" /\ Spec => []PostsBounded
  <1>1. IInv => PostsBounded
    <2> SUFFICES ASSUME IInv, NEW d \in Deliveries
                 PROVE  posts[d] <= MaxAttempts + crashes
      BY DEF PostsBounded
    <2>1. /\ posts[d] \in Nat /\ crashes \in Nat /\ MaxAttempts \in Nat
          /\ attempt_count[d] \in Nat /\ attempt_count[d] <= MaxAttempts
      BY LimitFacts DEF IInv, TypeOK
    <2>2. posts[d] <= attempt_count[d] + crashes
                        + (IF InFlight(d) THEN 1 ELSE 0)
      BY DEF IInv, PostsInv
    <2>3. InFlight(d) => attempt_count[d] < MaxAttempts
      BY DEF IInv, InFlight, RunInv, HoldInv
    <2>4. QED
      BY <2>1, <2>2, <2>3
  <1>2. QED
    BY <1>1, Inductive, PTL

\* A settled delivery stays settled until its endpoint is deleted, and counts
\* never go back.
THEOREM SettledStaysHolds == Posts = "prompt" /\ Spec => SettledStays
  <1> DEFINE Stays ==
        \A d \in Deliveries :
            /\ status[d] \in {"SUCCESS", "FAILED"} =>
                    status'[d] \in {status[d], "absent"}
            /\ attempt_count[d] <= attempt_count'[d]
  <1>1. IInv /\ [Next]_vars => Stays
    <2> SUFFICES ASSUME IInv, [Next]_vars
                 PROVE  Stays
      OBVIOUS
    <2>1. \A d \in Deliveries : attempt_count[d] \in Nat
      BY LimitFacts DEF IInv, TypeOK
    <2>2. CASE UNCHANGED <<status, attempt_count>>
      BY <2>1, <2>2
    <2>3. ASSUME NEW d \in Deliveries, queueEvent(d)
          PROVE  Stays
      BY <2>1, <2>3 DEF queueEvent, IInv, TypeOK
    <2>4. ASSUME NEW e \in Endpoints, deleteWebhook(e)
          PROVE  Stays
      BY <2>1, <2>4 DEF deleteWebhook, IInv, TypeOK
    <2>5. ASSUME NEW r \in Runs, NEW S \in SUBSET Deliveries, claim(r, S)
          PROVE  Stays
      BY <2>1, <2>5 DEF claim, Claimable, IInv, TypeOK
    <2>6. ASSUME NEW r \in Runs, NEW d \in Deliveries,
                 recordSuccess(r, d) \/ markFailed(r, d)
          PROVE  Stays
      <3>1. PICK s : Record(r, d, s)
        BY <2>6 DEF recordSuccess, markFailed
      <3>2. d \in current[r] /\ pc[r] \in {"recordSuccess", "recordFailure"}
        BY <2>6 DEF recordSuccess, markFailed
      <3>3. QED
        BY <2>1, <3>1, <3>2, RecordEffect
    <2>7. ASSUME NEW r \in Runs,
                 \/ load(r)
                 \/ \E d \in Deliveries : \/ attemptDelivery(r, d)
                                          \/ recordSuccessThrows(r, d)
          PROVE  Stays
      BY <2>2, <2>7 DEF load, attemptDelivery, recordSuccessThrows, rowVars
    <2>8. CASE ProcessEnds \/ \E d \in Deliveries :
                                  BecomesDue(d) \/ BecomesStale(d)
      BY <2>2, <2>8 DEF ProcessEnds, BecomesDue, BecomesStale, rowVars
    <2>9. ASSUME NEW r \in Runs, RunStep(r)
          PROVE  Stays
      BY <2>6, <2>7, <2>8, <2>9 DEF RunStep, runThrows
    <2>10. QED
      BY <2>2, <2>3, <2>4, <2>5, <2>8, <2>9 DEF Next, Claim, Restart, vars
  <1>2. [][Stays]_vars => SettledStays
    BY PTL DEF SettledStays
  <1>3. QED
    BY <1>1, <1>2, Inductive, PTL DEF Spec
=============================================================================
