# CallFlow in TLA+

CallFlow answers inbound calls to tracking numbers, routes each call to the
buyers of a campaign one after the other, and bridges the caller to the first
buyer who answers. This directory holds TLA+ modules of its API
(`apps/api/src`), TLC configurations that check them on small instances, and
TLAPS proofs of the properties that matter most. `PROJECT.json` maps each
definition to the lines it models, and lists the runs, the mutated definitions
that each property is known to catch, the findings and the hazards.

## The system

| Part | State it keeps | Operations | Modelled in |
| --- | --- | --- | --- |
| Call routing: `telephony/call-controller.ts`, `calls/calls.service.ts` | rows of `calls` and `call_attempts` | `handleEvent` for the events of a leg; `dialNextBuyer`; the transactions `transitionCall`, `transitionAttempt`, `prepareNextBuyer`, `commitBuyerDial`, `markCallAnswered`, `handleCallerHangup`, `handleBuyerHangup` | `CallRouting` |
| Inbound webhooks: the Telnyx and Twilio controllers, `webhook-idempotency.service.ts` | rows of `webhook_events` | `handleWebhook`, `acquireLock`, `markProcessed`, `markFailed`, `markIgnored` | `WebhookIdempotency` |
| Customer webhooks: `webhooks/webhooks.service.ts` | rows of `outbound_webhooks` and `webhook_deliveries` | `queueEvent`, `deleteWebhook`, the timer's `processDeliveries`, `attemptDelivery`, `markFailed` | `OutboundWebhooks` |
| Telephony providers: `telnyx.provider.ts`, `twilio.provider.ts` | none; the provider keeps the legs | answer, dial, bridge, hang up, record | environment of `CallRouting`; Twilio's conferences in `TwilioConference` |
| Phone numbers: `phone-numbers/` | `phone_numbers`; the account at the provider | provision (find, order, poll, create, charge), assign, release | `PhoneNumbers` |
| Usage metering: `usage/usage.service.ts` | `usage_records`, unique per idempotency key | `recordUsage` | `UsageRecords` |
| What a call costs: `handleCallerHangup`, `CALL_RECORDING_SAVED` | `calls.duration`, `recordings`, usage, queued events, the connection pool | the hangup transaction and its two writes on other connections; a saved recording | `Metering`, on top of `PhoneNumbers` |
| Billing: `billing/billing.service.ts` | `billing_customers`, `subscriptions`, `invoices`, `webhook_events` | checkout, portal, Stripe webhook | `Billing` |
| Workspaces, members, roles, API keys and the guards: `workspaces/`, `authorization/`, `api-keys/`, `auth/`, every controller's routes, `public-api/` | members, keys, campaigns' buyers, the rows behind each list | every route of the API with its guard chain | `Access` |
| Campaigns, buyers, blocked callers: `routing/` | configuration rows | create, link a buyer, block a number | the roster in `CallRouting`, linking in `Access`, assigning in `PhoneNumbers` |
| Web application: `apps/web` | session, route, the page's state, its requests in flight | login, onboarding, layout, selector, each page's loads and writes | `Dashboard`, on top of `Access` |
| Proof of concept: `src/*.js` of the repository | a call and the processed events, in memory | `handleEvent`, the two providers, `webhookHandler` | `TelephonyPoc` |
| Reports, request filter | none of their own | `getMetrics`, `safeFetch` | not modelled, see below |

How they interact. The provider posts an event; a webhook controller asks the
idempotency table for it and calls `CallController.handleEvent`. The handler
runs transactions of `CallsService`, each of which takes the row lock of its
call, and between them sends commands to the provider, whose effects come back
as more events. Transactions queue customer webhooks as a side effect; a timer
delivers them. The hangup transaction also records usage, and like the events
this goes over another connection of the pool than the transaction's. Numbers
are bought from the provider before they are stored. Stripe's events write the
billing rows that the pages show. Every request of a browser or an API client
passes up to three guards, each an await, before its handler. Nothing else
starts work: no job looks for calls, events, numbers or attempts that were left
behind.

What is hard. Handlers are asynchronous functions in one Node process (or
several), so between two awaits of one handler any other may run: the
transactions are serialized by the row lock, but the provider commands between
them are not. Events arrive late, twice and out of order. A restart loses every
handler in flight, and no record says what it was about to do. Time-outs of the
buyer's phone race with its answer and with the caller's hangup. A side effect
of a transaction stays when the transaction rolls back. What a guard or a page
read may have changed by the time it is acted on.

## Modules

* `CallRouting`: one call. A *worker* is one handler in flight; `pc` names the
  await it runs next, so each action is one statement, transaction or provider
  command of the source and has its name. `attempts` is the sequence of
  `CallAttempt` rows, and leg `i` is the provider leg dialled for attempt `i`;
  `ringing`, `talking` and `bridged` are the telephone network. Events that
  were reported and not handled for good are in `hooks`, and those that were
  delivered more than once in `again`. `roster` is the campaign's links: a buyer
  may be linked more than once, because only campaign and priority are unique.
* `SequentialRouting`: what routing promises of one call, without handlers, rows
  or events: buyers are tried one at a time and once, each time the one with the
  best link among those not tried; links may be added meanwhile, also of a buyer
  who has one; a late answer of anyone who was tried wins; a call gives up only
  when everyone linked was tried and fails only when nobody was; and an
  end is final. `CallRouting` implements it. Its `Forget` is the early answer
  under "Known disagreements".
* `WebhookIdempotency`: one provider event and the deliveries of it, each a run
  of `handleWebhook` with one step per statement on the event's row.
* `EventProcessing`: what the idempotency table promises, without saying how:
  a delivery may be let through when none was before it, or when one failed.
  `WebhookIdempotency` implements it.
* `OutboundWebhooks`: the deliveries, the endpoints and the overlapping runs of
  `processDeliveries`. The row of a delivery is read by three statements (claim,
  load, record); time is reduced to the two comparisons that the claim makes.
* `UsageRecords`: the table of usage records and its one operation.
* `PhoneNumbers`: numbers at the provider and in the database, and the provision
  requests, one await a step. `astray` is a number that was bought and bound to
  another connection. `PROVISIONING`, a status that no statement writes, is left out.
* `Metering` extends `PhoneNumbers` with calls on the numbers: handlers of
  hangups and saved recordings, each transaction with its lock, its draft, its
  place in the pool, and the writes that a roll back does not undo. A transaction
  that times out while its usage is recorded frees its connection, but its
  callback goes on (`"late"`): the charge and the event come after the roll back.
* `Billing`: checkouts and Stripe webhook handlers, one statement a step, and
  Stripe itself: subscriptions, their invoices, and the events sent so far. An
  event is a snapshot of what it is about. A row has its plan, its status (with
  the billing period, which is written whenever the status is) and
  `cancel_at_period_end` apart, because each handler writes others of them: the
  completed session leaves the flag, an update leaves the plan.
* `Access`: members, keys, the table of routes (`Admitted` is the translation of
  the decorators), and requests that pass `ApiKeyAuthGuard`,
  `WorkspaceRolesGuard` and their handler as separate steps. Handlers are modelled by what they write that a
  guard or a page reads.
* `Dashboard` extends `Access` with the browser of one user. Each page is a
  record: what its effect loads, what is loaded again after a write, its writes,
  and how it handles its loading flag. A running asynchronous function is a task
  that waits for requests of `Access`; it keeps the workspace of the render in
  which it was made.
* `TelephonyPoc`: the in-memory routing to buyers A and B with either provider.
  An event is a leg and a CallStatus, of which `index.js` makes its id, so a call
  may be announced as queued and as ringing. `connectionId` is followed from the
  event through the call's state and the dial (`target`) to the conference.
* `TwilioConference`: which conference each leg of a call is put in, along the
  path of `connectionId` through controller, handler and adapter.
* `MCCallRouting`, `MCWebhookIdempotency`, `MCOutboundWebhooks`, `MCMetering`,
  `MCBilling`, `MCDashboard`: constants, symmetry and scenarios for TLC.
* `CallRoutingProofs`, `WebhookIdempotencyProofs`, `OutboundWebhooksProofs`,
  `MeteringProofs`, `BillingProofs`, `AccessProofs`, `DashboardProofs`,
  `TelephonyPocProofs`: the theorems.

Definitions whose name has an underscore and a suffix (`Tried_ExceptFailed`) are
mutated forms of the definition they name, a bug that the code could have had.
Nothing uses them; they document what the properties can tell apart.

### What the environment may do

`Faults`, `TxAborts` and `MaxRepeats` in `CallRouting` are constants, so that a
property says under which faults it holds. A provider command can throw, a dial
can throw although the leg was placed (`dialLost`), a transaction can roll back,
and an event can be delivered again: `handleEvent` does not know whether
`acquireLock` admitted it, and `acquireLock` admits an event whose first handling
threw or whose `markProcessed` did. `TxAborts = "always"` is the lock statement
as it is written: it names the relation `"Call"`, while the schema and the
migrations call it `calls`. The other runs model what the statement is there
for, the row lock of the call.

`Delivery = "serial"` delivers an event only when no handler is in flight and in
the order of its leg, `"interleaved"` at any time and in any order.

In `Metering` every await may throw and the process may restart at any of them;
the provider may bind a number elsewhere, deliver it late or refuse it. In
`Billing` the faults are counted by `MaxFaults`, and `orderly` chooses once
whether Stripe delivers events in the order they happened, one at a time, or at
will; `CaughtUp` is about the first choice. In `Dashboard` the network may lose a
request or its answer (`MaxFailures`), and `calm` chooses once whether requests
are served one after the other; `PageIsCurrent` is about calm behaviours, because
no page cancels a load whose workspace is no longer selected. In `TelephonyPoc`
webhooks come late and in any order, and Twilio may report the same thing under
another status; a webhook that comes again as it was is dropped by its id and
changes nothing, so `processWebhook` takes those not processed.

## Runs

| Run | Asks | Result |
| --- | --- | --- |
| `races` (`CallRouting`) | two interleaved handlers, every fault, events late, repeated, reordered | one attempt is active, one buyer wins, a call that ended without a winner has settled attempts, what ended stays so; the winner is hung up only for a caller who is gone or when its own answer is handled again |
| `restarts` | a restart at any await, failed dials, an event handled twice, links added during the call, also of a buyer who has one | no buyer is tried twice, nobody is passed over but for a better link, one phone rings, and every step is one of `SequentialRouting` |
| `cascade` | one handler at a time, fair | the cascade ends; the caller is let go when the buyer leaves |
| `hangup` | two interleaved handlers, fair, each event once | a caller's hangup ends the call |
| `lock_relation` | the lock statement as it is written | violated: an answered call is not routed |
| `deliveries` (`WebhookIdempotency`) | three deliveries, every fault, a restart | one handler, the effect recorded, the refinement, and settling hold |
| `outbound` (`OutboundWebhooks`) | two overlapping runs, refusing and deleted endpoints, failing statements, a restart | one run per delivery, bounded attempts, settled stays settled, all are settled |
| `charges` (`Metering`) | two workspaces provision one number; three handlers, two connections, roll backs, time-outs and what lands after them, restarts | stored numbers are bought and keep their owner; charges are traceable; a stored duration was charged, exactly and with true events unless a hangup of the call was rolled back |
| `events` (`Billing`) | racing checkouts; Stripe's events twice, reordered or orderly; faults | sessions and rows belong to the customer the portal shows; nothing answered is unsettled; orderly events leave each row with the plan and status Stripe has, and with its flag and invoice if an event told them after the session completed |
| `pages` (`Dashboard` on `Access`) | users and keys while roles change; a browser over late, refused and lost answers, whose user is removed and admitted again | every handler and change is entitled; links stay in a workspace; pages settle and show what they should; redirects end once the user's memberships rest |
| `calls` (`TelephonyPoc`) | the in-memory routing with either provider | each buyer is dialled once at most, one wins, whoever picks up at Twilio is in the caller's conference, and nobody else is dialled after a hangup that was handled while a buyer rang or was connected |
| `bridge` (`TwilioConference`) | the conferences of a call at Twilio | violated: the buyer is in another conference than the caller |

`restarts` and `events` have about 1.3 million states each, `races` 780,000,
`charges` 680,000, `pages` 240,000 and `calls` 96,000. The two violations are
disagreements between the code and its own documents; `PROJECT.json` quotes the
lines under "findings".

### Known disagreements

Eight configurations more state something the documents say and the code does not
keep. Each ends with a counterexample within half a minute; they are kept beside the
modules and are not among the runs above.

| Configuration | Property | What it shows |
| --- | --- | --- |
| `CallRouting_caller_hangup.cfg` | `CallerHangupEndsBuyers` | `handleCallerHangup` returns the row of an update that includes no attempts (`calls.service.ts:189`), so that `call-controller.ts:199` finds nobody to hang up: the call is CANCELED and the buyer's phone rings on. `MVP1_BUILD_SPEC_v5.md:1767`: "active buyer leg terminates". |
| `CallRouting_early_answer.cfg` | `CompletedHasWinner` | The buyer's answer is handled between `commitBuyerDial` and the transition to RINGING, which then throws, and the catch block sets the winner to FAILED (`call-controller.ts:263`). `MVP1_BUILD_SPEC_v5.md:994`: "one winning buyer". |
| `CallRouting_early_event.cfg` | `RoutingEnds` | A leg's event that comes before `commitBuyerDial` stored the leg is dropped as unknown (`call-controller.ts:109`), and the call stays ROUTING. `BACKEND_AGENT_CONTEXT.md:345`: "Repeats until a buyer answers, or the campaign exhausts all buyers." |
| `CallRouting_redelivery.cfg` | `WinnerNeverHungUp` | `bridgeCalls` throws after `markCallAnswered` committed, or `markProcessed` after both; the event is FAILED, its redelivery is admitted (`webhook-idempotency.service.ts:45`), finds the call COMPLETED and hangs up the winner as a loser (`call-controller.ts:149`). `docs/13-archive/audits/TELNYX_AUDIT_REPORT.md:27`: "duplicate or retried webhooks do not trigger duplicate routing logic". |
| `Billing_first_invoice.cfg` | `InvoicesSynced` | The invoice is paid before `checkout.session.completed`, `billing.service.ts:264` finds no subscription row, and the event is PROCESSED all the same. `docs/13-archive/historical/adr/003-billing-provider.md:20`: "Invoices will be fetched via Stripe webhooks and synced to the database". |
| `TelephonyPoc_early_hangup.cfg` | `CompletedStays` | The caller's hangup is handled while `answerCall` is awaited; the continuation writes ANSWERING over COMPLETED (`src/callController.js:42`), and an answer that was on its way dials A. The same file, line 91: "State is complete, stop any routing". |
| `WebhookIdempotency_retry_race.cfg` | `BusyEventIsRefused` | A FAILED row is reopened by its id only (`webhook-idempotency.service.ts:49`), so two deliveries that read it are both let through. The comment at line 13 of that file says that a PENDING event is refused. |
| `OutboundWebhooks_slow.cfg` | `AttemptLimit` | A row that its run holds for over five minutes is claimed again, and both write `attempt_count` from the value they loaded (`webhooks.service.ts:241`): a sixth attempt. `BACKEND_AGENT_CONTEXT.md:414`: "Maximum of 5 attempts." |

### Bounds

* Two handlers in flight: every property relates at most two of them, and the
  row lock admits one at a time. The proofs below are for any number.
* Two buyers: enough for a first, a next and a last one. In `restarts` one is
  linked when the call arrives, with priority 1, and three priorities let both be
  linked before and after it during the call.
* `MaxRepeats`, the number of events delivered again (each as often as one likes),
  is 1 in `races` and `restarts` and 0 in the other runs; `MaxCrashes` is
  1 where restarts are the question. Both are guards on an action that nothing else depends on.
* Three deliveries of one event: one that fails and two that retry together.
* `MaxAttempts` is 4 in `outbound` and 5, the code's value, in the slow
  configuration; the model compares with it only in `markFailed`. In `outbound` one restart at any point
  is allowed on top of those that a deleted row causes.

* `charges`: one number, which is what two requests can quarrel about, and one
  call on it. Three handlers on two connections: two transactions can hold the
  whole pool while a third waits. Ages up to 3 seconds with minutes of 2 seconds
  have a duration of zero, one below, one at and one above a billed minute.
  With a pool of one no charge could be made while its transaction lives.
  `Focus` of `MCMetering` lets a call arrive only while no provision request is
  in flight and the number is in no campaign, which no handler of the call reads. They meet only in the number's row, and every row that requests can
  leave behind is there when the call arrives. It also keeps to one late callback
  at a time, which the two handlers beside it can overtake.
* `events`: two workspaces, plans, customers, subscriptions, checkouts and
  handlers, so that one of each can be mistaken for the other, three events and one
  fault. `Focus` of `MCBilling` opens two sessions, for different plans, and has both
  paid before the first event, because checkouts and event handlers read and write
  different rows and meet only in the sessions at Stripe; it takes equal
  identifiers in one order, and changes either the status or the flag of a
  subscription in one step. Three events are a session, what came before it or
  comes after it, and the session of another subscription of the workspace.
* `pages`: two workspaces and users. A behaviour is of one scenario: clients of
  the API (two writes in all, a membership that changes at any time), or one
  visit of a page of each shape, or navigation between login, onboarding and the
  layout, during which the workspace's other owner removes the user once and the
  database takes the user back. Clients are checked for what they may do, which does not depend on a
  page; a page for what it shows of its own writes. Behaviours that are not calm
  are explored for navigation and for the buyers' page, which has one load and
  one write.
* `calls` has no bound: the code itself ends after buyer B, and the statuses that
  stand for the same thing are two (queued and ringing, completed and canceled).

`CHECK_DEADLOCK` is off: a call, an event, a delivery or a visit that is over has
no further step.

### Fairness

`FairSpec` of `CallRouting` is weakly fair for each handler (Node's event loop
runs every promise that can go on), for the delivery of events (the provider
retries), and for a ringing phone (it has a time-out). Nobody must answer or
hang up. `FairSpec` of `OutboundWebhooks` is weakly fair for the timer, the runs
and the passing of time; that of `WebhookIdempotency` for requests in flight and
for the provider's deliveries. `Fairness` of `Dashboard` is weakly fair for the
server (the redirects of a request are answered, a request is served or dropped)
and for the oldest running function of a page; it never makes the user click.
`Metering`, `Billing`, `TelephonyPoc` and `TwilioConference` state no fairness:
what they promise is safety.

## Proofs

`CallRoutingProofs`, for all buyers, rosters, faults and any number of handlers:
`TypeCorrect`, `OneActiveAttemptHolds`, `NoBuyerTwiceHolds`, `OneWinnerHolds`,
`SettledAttemptsHold`, `OneBridgeHolds`, `EndIsFinalHolds`, `PriorityOrderHolds`,
`EveryBuyerTriedHolds`. None of the properties is inductive. The invariant `IInv`
has three parts besides the types:

* `RowsInv`, on the rows alone: one active attempt, no buyer twice, a winner
  only in a COMPLETED call, no active attempt in a call that ended without one;
* `HandlersInv`, what a handler that is past its transaction still knows: the
  attempt it works on exists, and if it is between `prepareNextBuyer` and
  `commitBuyerDial` no other handler works on it and its leg is not stored;
* `BridgeInv`: a handler that is about to bridge holds the attempt that won.

The proof has one lemma per transaction on `RowsInv`, one on the steps of other
handlers for `HandlersInv`, and one for the bridge. `RosterInv` adds what makes
the order of priorities inductive: a buyer who was linked when the call arrived
and is not tried yet comes after a link of everyone who was tried, and links are
only ever added. "After" is of links and not of buyers, who may have several.

`RoutingRefines` shows that `CallRouting` implements `SequentialRouting`, under
every fault, roll back and restart: one lemma for each group of transactions says
which step of the cascade it is, or that the cascade does not see it
(`SameCascade`). A call may fail only when nobody was tried, which needs two facts
besides (`LinkInv`): who was tried is linked, and a call without a campaign
has no attempt. The refinement has `EveryBuyerTried` in the guard of `GiveUp`;
`EveryBuyerTriedHolds` states it apart. Assumed are
`RosterAssumption` (priorities are integers and unique within the campaign, as
the schema's unique index has it) and `EnvironmentAssumption`.

The same module proves `OneLegLiveHolds` under the condition `Calm`: transactions commit, and a dial that throws has placed no leg (without either,
TLC finds two phones ringing). Its invariant `LegsInv` ties the telephone network
to the rows: while the call is ROUTING the only leg that lives belongs to the
active attempt, a handler about to dial finds none, an attempt is dialled and
given up by the same handler, and a handler that records a hangup has a leg that
is over.

`WinnerKeptHolds`, that nobody hangs up the buyer who was chosen or connected
unless the caller is gone or that buyer's own answer is handled again, is proved
under every fault, roll back, restart and repeat. The exception is the code's:
`markCallAnswered` does not look at the state of the attempt, so the winner's
answer handled again takes the loser's branch and hangs it up (see
`CallRouting_redelivery.cfg`). `WinnerInv` says why no other event does: a leg is
placed once (`PlacedInv`); a chosen attempt has a stored leg that rings no more
(`ChosenInv`), so an answer that is not replayed is neither waiting nor with
another handler (`AnswerOnce`); the caller's hangup is handled when the caller is
gone (`HangupTrue`); and whoever is to be hung up otherwise was not chosen, in a
call that ended, or has a replayed answer (`TodoInv`).

`WebhookIdempotencyProofs`, for any number of deliveries and every fault:
`TypeCorrect`, `OneHandlerHolds`, `OneEffectHolds`, and `Refinement`, that the
specification implements `EventProcessing`. The invariant relates the step of
each delivery to the history it has (`DeliveryInv`), says that a call event is
reopened only after a failure (`EventInv`), and that an absent row means nobody
was let through (`RowInv`).

`OutboundWebhooksProofs`, for any number of deliveries, endpoints and runs, under
`Posts = "prompt"`: `OneRunPerDeliveryHolds`, `PostsBoundedHolds`,
`SettledStaysHolds`. The condition is what the code relies on and does not
enforce, as `OutboundWebhooks_slow.cfg` shows. The invariant says what a run may believe of a
row it read several statements ago (`HoldInv`): the row is PROCESSING and too
fresh to be claimed, and its count is the one that was loaded; and that every
POST is counted in the row, lost with a process, or in flight (`PostsInv`).

`MeteringProofs`, for all workspaces, numbers, requests, calls, handlers and
sizes of the pool: `StoredIsOursHolds`, `CampaignOfOwnerHolds`,
`UsageIsTraceableHolds`, `DurationIsChargedHolds`, `EventsAreTrueHolds`,
`OwnerKeptHolds`, `ChargesStayHolds`. Nothing holds the number while a request
polls for it, so `RequestInv` says what survives: the number is ordered, then
ours, then stored for the request's workspace. For the charges the argument is
the row lock: `OneHolder` says that one handler is past it, and `HandlerInv` that
what it read is still so. `ChargeInv` then bounds a charge by the age of the call
and ties it to the row, to the draft that is about to be committed, or to a roll
back; `MinutesGrow` is the arithmetic. The bound survives a second hangup because
the call only gets older. The callback of a transaction that timed out holds no
lock, so `LateInv` compares what it read with the row and with the draft of
whoever holds the lock by now: it never charges more than they will say.

`BillingProofs`, for any number of workspaces, checkouts, events and faults:
`PortalShowsCheckoutsHolds`, `RowsBelongToPayerHolds`, `AnsweredIsSettledHolds`.
A checkout opens a session only for the customer that is stored, since the one
that lost the race for the unique row fails (`CheckoutsInv`); a subscription comes
from a session and so is paid by that customer (`StripeInv`); the row an event
finds or writes is therefore the payer's, whatever the event's age
(`WebhooksInv`).

`CaughtUpHolds` speaks of the moment when every event is answered; `OrderInv`
says how far the rows may lag before. If the first n events are answered
(`InOrder`), a row shows what Stripe has unless an event after the n-th will still
change it (`CaughtUpTo`). The one busy handler has event n + 1 and brings the rows
one event further before it marks it (`HandlerAt`); what it asked Stripe for may be
old by then only if a later event says so. `StripeOrder` is the order in which
Stripe sends: a subscription's session first, and its last event of each kind
says what Stripe has now. The flag and the invoice are caught up only by an event
after the session's (`AfterTo`), and `BegunBy` says that no row was written before
the session completed: an earlier event of the subscription finds none.

`AccessProofs`, for any number of users, workspaces, keys and requests in flight:
`RequestIsEntitledHolds`, `LinksStayInWorkspaceHolds`, `ChangesAreEntitledHolds`.
`GuardInv` is what each guard leaves in the request; that a write is a manager's
is a lemma over the table of routes (`WritersAreManagers`).

`DashboardProofs`, for any number of running functions of a page on top of any
number of requests of API clients. `PagesInv` says whose requests a function waits
for: they are its own, for the workspace it was made with, and of operations its
page has. With it `Access`'s invariant holds of the pages' requests too
(`PagesAreEntitled`, `PagesKeepLinks`, `PagesChangeAsEntitled`), and
`DashboardTypeCorrect` follows.

`PageIsCurrentHolds` needs `CurrentInv`, since `PageIsCurrent` says nothing while
anything runs. Its parts: a write that this browser knows of is saved
(`WritesSaved`); a load is at one of its stages (`StagesInv`), and an answer
counts every write that was known when its request was served (`AnswersInv`); in a
calm network only the oldest function has requests out and a write belongs to the
selected workspace (`InTurn`); and each list converges (`Converges`): rows of
another workspace that are still to be shown are followed by a load of the
selected one that ends later, and a list that no load of the selected workspace is
about to show is current. "Later" (`After`) is the order of the functions, corrected
for a load that still asks for the user's workspaces first.

`TelephonyPocProofs`: `DialledOnceHolds`, `OneWinnerHolds`, `SameRoomHolds`,
`RoutingStopsHolds`. A continuation after an await may write a state that was
overtaken; the invariant lists which (`PendingInv`, `StateInv`) and says that a
buyer who was not asked is untouched. A second announcement at Twilio puts a call
that is under way back to ANSWERING, and what keeps A from being dialled again is
that the event that would do it is processed already. `ConnectionInv` follows the
`connectionId` from the announcement through the call's state and the dials to the
conferences of the legs.

The inductive invariants were checked by TLC before they were proved. Assumed are
the named assumptions of each module's constants and nothing else; of those,
`DashboardAssumption` asks for room for two running functions, because a page may
start with two loads.

Only model-checked are the liveness properties (`RoutingEnds`, `LoadingEnds`,
`RedirectsEnd` and the like): fairness and ENABLED are out of the prover's reach.
Induction over data is, too; RECURSIVE operators are not used. Every invariant,
action property and refinement that the passing runs check is stated by a theorem.

## Not modelled

* Cryptography (signatures, hashes, encryption of secrets, tokens), HTTP, and the
  text of phone numbers, URLs and messages; with it `safe-fetch.ts` and
  `phone.utils.ts`, which are functions of that text.
* Reports: `getCalls` and `getMetrics` filter and sum over rows that several
  statements read. They keep no state, and a reference definition would repeat
  them; `Access` has their routes and `Dashboard` the pages that ask for them.
* `createCallAttempt`, which only tests call; the fake provider of the tests;
  recording commands; the event that announces a recording; `last_used_at` of a
  key.
* Amounts of money, and billing periods apart from the status they are written with.
  The portal may switch the plan of a subscription: no handler reads the plan of
  an event, so the row's plan stays that of its session, and the model's plan at
  Stripe is the one in the session's metadata.
* Of the pages: layout, wording, form fields, sign-up and the links to Stripe.
* Several calls at a time in `CallRouting`: they share no row but the campaign's
  roster. What they do share, the pool of connections, is in `Metering`.

## Plan

1. Done: routing and its abstract cascade, inbound and customer webhooks, numbers
   and usage, billing, access and the pages, the proof of concept, Twilio's
   conferences, and the proofs of their safety properties.
2. Left: the composition of `CallRouting` with the customer webhooks that its
   transactions queue (`Metering` has the hangup's part of it); an abstract
   life cycle of a delivery that `OutboundWebhooks` implements while a run is done
   with its rows in time.

## Running

    tlc -workers 2 -config CallRouting_races.cfg MCCallRouting
    tlapm CallRoutingProofs.tla
