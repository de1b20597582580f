------------------------------ MODULE Billing ------------------------------
(***************************************************************************)
(* BillingService (apps/api/src/billing): checkout sessions, the customer  *)
(* portal, and the Stripe webhooks that keep subscriptions and invoices.   *)
(*                                                                         *)
(* Every await is a step.  Checkouts of one workspace race for its Stripe  *)
(* customer.  Stripe delivers an event until it is answered and sometimes  *)
(* again; an event that was found PENDING or FAILED is processed again,    *)
(* and nothing compares the age of what it writes with what is stored.     *)
(* `orderly` chooses, once, how Stripe delivers: one event at a time in    *)
(* the order they happened (repeats included), or at will.                 *)
(***************************************************************************)
EXTENDS Naturals, Sequences

CONSTANTS
    Workspaces,
    Plans,           \* the plans a workspace can buy
    Checkouts,       \* checkout requests that may be in flight at once
    Customers,       \* identifiers of Stripe customers
    Subscriptions,   \* identifiers of Stripe subscriptions
    Handlers,        \* webhook handlers that may be in flight at once
    MaxEvents,       \* bound on the events of Stripe
    MaxFaults        \* bound on failed statements and restarts

NULL == "null"

ASSUME BillingAssumption ==
    /\ MaxEvents \in Nat /\ MaxFaults \in Nat
    /\ NULL \notin Workspaces \cup Plans \cup Customers \cup Subscriptions

VARIABLES
    billingCustomer,   \* the row of each workspace in billing_customers
    subscription,      \* ... in subscriptions
    invoice,           \* the row of each subscription's invoice in invoices
    webhookEvent,      \* the status of each event in webhook_events
    pc, ws, customer,  \* the checkout requests in flight
    step, at, got,     \* the webhook handlers in flight
    created,           \* Stripe: the workspace in a customer's metadata
    sessions,          \* Stripe: the checkout sessions that were opened
    stripe,            \* Stripe: the subscriptions
    sent, answered,    \* Stripe: the events, and those answered with 200
    orderly,           \* the environment, see above
    failed, faults     \* history: an event was FAILED; faults so far

checkoutVars == <<billingCustomer, pc, ws, customer, created>>
rowVars == <<subscription, invoice>>
handlerVars == <<step, at, got>>
stripeVars == <<sessions, stripe, sent>>
vars == <<checkoutVars, rowVars, handlerVars, stripeVars, webhookEvent,
          answered, orderly, failed, faults>>

SubscriptionStatus == {"ACTIVE", "PAST_DUE", "CANCELED"}
\* The database has no value for PAUSED.
StripeStatus == SubscriptionStatus \cup {"PAUSED"}
InvoiceStatus == {"OPEN", "PAID"}
WebhookStatus == {"none", "PENDING", "PROCESSED", "FAILED"}

\* The status stands for the billing period too: the two are always written
\* together.  The plan and the flag cancel_at_period_end are not.
Row == [sub : Subscriptions, plan : Plans, status : SubscriptionStatus,
        cancel : BOOLEAN]
NoRow == [sub |-> NULL, plan |-> NULL, status |-> NULL, cancel |-> FALSE]
Invoice == [ws : Workspaces, status : InvoiceStatus]
NoInvoice == [ws |-> NULL, status |-> NULL]
\* ws and plan are in the metadata of the session the subscription is from.
StripeRow == [ws : Workspaces, plan : Plans, customer : Customers,
              now : StripeStatus, cancel : BOOLEAN,
              invoice : InvoiceStatus \cup {NULL}]
NoStripe == [ws |-> NULL, plan |-> NULL, customer |-> NULL, now |-> NULL,
             cancel |-> FALSE, invoice |-> NULL]

Event == [kind : {"completed", "updated", "invoice"}, sub : Subscriptions,
          data : StripeStatus \cup {NULL}, cancel : BOOLEAN,
          invoice : InvoiceStatus \cup {NULL}]

TypeOK ==
    /\ billingCustomer \in [Workspaces -> Customers \cup {NULL}]
    /\ subscription \in [Workspaces -> Row \cup {NoRow}]
    /\ invoice \in [Subscriptions -> Invoice \cup {NoInvoice}]
    /\ webhookEvent \in [1..MaxEvents -> WebhookStatus]
    /\ pc \in [Checkouts -> {"idle", "create", "store", "session"}]
    /\ ws \in [Checkouts -> Workspaces \cup {NULL}]
    /\ customer \in [Checkouts -> Customers \cup {NULL}]
    /\ step \in [Handlers ->
           {"idle", "create", "retrieve", "apply", "mark", "fail"}]
    /\ at \in [Handlers -> 0..MaxEvents]
    /\ got \in [Handlers -> StripeStatus \cup {NULL}]
    /\ created \in [Customers -> Workspaces \cup {NULL}]
    /\ sessions \subseteq [ws : Workspaces, plan : Plans, customer : Customers]
    /\ stripe \in [Subscriptions -> StripeRow \cup {NoStripe}]
    /\ sent \in Seq(Event) /\ Len(sent) <= MaxEvents
    /\ answered \subseteq 1..MaxEvents
    /\ orderly \in BOOLEAN /\ failed \in BOOLEAN /\ faults \in 0..MaxFaults

Init ==
    /\ billingCustomer = [w \in Workspaces |-> NULL]
    /\ subscription = [w \in Workspaces |-> NoRow]
    /\ invoice = [s \in Subscriptions |-> NoInvoice]
    /\ webhookEvent = [e \in 1..MaxEvents |-> "none"]
    /\ pc = [c \in Checkouts |-> "idle"]
    /\ ws = [c \in Checkouts |-> NULL]
    /\ customer = [c \in Checkouts |-> NULL]
    /\ step = [h \in Handlers |-> "idle"]
    /\ at = [h \in Handlers |-> 0]
    /\ got = [h \in Handlers |-> NULL]
    /\ created = [k \in Customers |-> NULL]
    /\ sessions = {}
    /\ stripe = [s \in Subscriptions |-> NoStripe]
    /\ sent = << >>
    /\ answered = {}
    /\ orderly \in BOOLEAN /\ failed = FALSE /\ faults = 0

Fault ==
    /\ faults < MaxFaults
    /\ faults' = faults + 1

-----------------------------------------------------------------------------
(* createCheckoutSession.                                                  *)

findCustomer(c, w) ==
    /\ pc[c] = "idle"
    /\ pc' = [pc EXCEPT ![c] =
                 IF billingCustomer[w] = NULL THEN "create" ELSE "session"]
    /\ ws' = [ws EXCEPT ![c] = w]
    /\ customer' = [customer EXCEPT ![c] = billingCustomer[w]]
    /\ UNCHANGED <<billingCustomer, created, rowVars, handlerVars, stripeVars,
                   webhookEvent, answered, orderly, failed, faults>>

customersCreate(c, k) ==
    /\ pc[c] = "create"
    /\ created[k] = NULL
    /\ created' = [created EXCEPT ![k] = ws[c]]
    /\ customer' = [customer EXCEPT ![c] = k]
    /\ pc' = [pc EXCEPT ![c] = "store"]
    /\ UNCHANGED <<billingCustomer, ws, rowVars, handlerVars, stripeVars,
                   webhookEvent, answered, orderly, failed, faults>>

\* Mutant: the row is upserted, so the slower checkout replaces the customer.
storeCustomer_Upsert(c) ==
    /\ pc[c] = "store"
    /\ billingCustomer' = [billingCustomer EXCEPT ![ws[c]] = customer[c]]
    /\ pc' = [pc EXCEPT ![c] = "session"]
    /\ UNCHANGED <<ws, customer, created, rowVars, handlerVars, stripeVars,
                   webhookEvent, answered, orderly, failed, faults>>

storeCustomer(c) ==
    /\ pc[c] = "store"
    /\ billingCustomer[ws[c]] = NULL
    /\ billingCustomer' = [billingCustomer EXCEPT ![ws[c]] = customer[c]]
    /\ pc' = [pc EXCEPT ![c] = "session"]
    /\ UNCHANGED <<ws, customer, created, rowVars, handlerVars, stripeVars,
                   webhookEvent, answered, orderly, failed, faults>>

EndCheckout(c) ==
    /\ pc' = [pc EXCEPT ![c] = "idle"]
    /\ ws' = [ws EXCEPT ![c] = NULL]
    /\ customer' = [customer EXCEPT ![c] = NULL]

\* Stripe or a statement fails; workspace_id is unique, so the slower of two
\* checkouts fails here too, and its Stripe customer is an orphan.
checkoutThrows(c) ==
    /\ pc[c] # "idle"
    /\ \/ pc[c] = "store" /\ billingCustomer[ws[c]] # NULL /\ UNCHANGED faults
       \/ Fault
    /\ EndCheckout(c)
    /\ UNCHANGED <<billingCustomer, created, rowVars, handlerVars, stripeVars,
                   webhookEvent, answered, orderly, failed>>

\* The plan that was asked for is in the session's metadata.
sessionsCreate(c, p) ==
    /\ pc[c] = "session"
    /\ sessions' = sessions \cup
           {[ws |-> ws[c], plan |-> p, customer |-> customer[c]]}
    /\ EndCheckout(c)
    /\ UNCHANGED <<billingCustomer, created, rowVars, handlerVars, stripe,
                   sent, webhookEvent, answered, orderly, failed, faults>>

createCheckoutSession ==
    \E c \in Checkouts :
        \/ \E w \in Workspaces : findCustomer(c, w)
        \/ \E k \in Customers : customersCreate(c, k)
        \/ storeCustomer(c) \/ checkoutThrows(c)
        \/ \E p \in Plans : sessionsCreate(c, p)

\* createPortalSession opens the portal of the stored customer.
PortalCustomer(w) == billingCustomer[w]

-----------------------------------------------------------------------------
(* Stripe.                                                                 *)

Send(e) ==
    /\ Len(sent) < MaxEvents
    /\ sent' = Append(sent, e)
    /\ UNCHANGED <<checkoutVars, rowVars, handlerVars, sessions, webhookEvent,
                   answered, orderly, failed, faults>>

\* The session is paid.  Its subscription may have events before Stripe says
\* that the session completed: its first invoice is such a one.  A workspace
\* may pay a second session while it has a subscription.
SessionPaid(x, s) ==
    /\ stripe[s] = NoStripe
    /\ stripe' = [stripe EXCEPT ![s] =
           [ws |-> x.ws, plan |-> x.plan, customer |-> x.customer,
            now |-> "ACTIVE", cancel |-> FALSE, invoice |-> NULL]]
    /\ UNCHANGED <<checkoutVars, rowVars, handlerVars, sessions, sent,
                   webhookEvent, answered, orderly, failed, faults>>

IsEvent(i, kind, s) == sent[i].kind = kind /\ sent[i].sub = s

SessionCompletes(s) ==
    /\ stripe[s] # NoStripe
    /\ \A i \in 1..Len(sent) : ~IsEvent(i, "completed", s)
    /\ Send([kind |-> "completed", sub |-> s, data |-> NULL,
             cancel |-> FALSE, invoice |-> NULL])
    /\ UNCHANGED stripe

\* The portal can switch the plan as well; no handler reads which one.
SubscriptionChanges(s, status, cancel) ==
    /\ stripe[s].now \notin {NULL, "CANCELED"}
    /\ <<status, cancel>> # <<stripe[s].now, stripe[s].cancel>>
    /\ stripe' = [stripe EXCEPT ![s].now = status, ![s].cancel = cancel]
    /\ Send([kind |-> "updated", sub |-> s, data |-> status,
             cancel |-> cancel, invoice |-> NULL])

\* A payment fails, or the invoice is paid; a paid invoice stays paid.
InvoiceChanges(s, status) ==
    /\ stripe[s] # NoStripe
    /\ stripe[s].invoice # "PAID"
    /\ stripe' = [stripe EXCEPT ![s].invoice = status]
    /\ Send([kind |-> "invoice", sub |-> s, data |-> NULL,
             cancel |-> FALSE, invoice |-> status])

Stripe ==
    \E s \in Subscriptions :
        \/ \E x \in sessions : SessionPaid(x, s)
        \/ SessionCompletes(s)
        \/ \E st \in StripeStatus, c \in BOOLEAN : SubscriptionChanges(s, st, c)
        \/ \E st \in InvoiceStatus : InvoiceChanges(s, st)

-----------------------------------------------------------------------------
(* handleWebhook.  A signature that is not Stripe's ends the request.      *)

Deliverable(e) ==
    /\ e <= Len(sent)
    /\ orderly => /\ \A h \in Handlers : step[h] = "idle"
                  /\ 1..(e - 1) \subseteq answered

Continue(h, s) == step' = [step EXCEPT ![h] = s]

Done(h) ==
    /\ Continue(h, "idle")
    /\ at' = [at EXCEPT ![h] = 0]
    /\ got' = [got EXCEPT ![h] = NULL]

FirstStep(e) == IF sent[e].kind = "completed" THEN "retrieve" ELSE "apply"

\* Mutant: any event that is stored already is a duplicate.
duplicate_Stored(e) ==
    /\ Deliverable(e)
    /\ webhookEvent[e] # "none"
    /\ answered' = answered \cup {e}
    /\ UNCHANGED <<checkoutVars, rowVars, handlerVars, stripeVars,
                   webhookEvent, orderly, failed, faults>>

duplicate(e) ==
    /\ Deliverable(e)
    /\ webhookEvent[e] = "PROCESSED"
    /\ answered' = answered \cup {e}
    /\ UNCHANGED <<checkoutVars, rowVars, handlerVars, stripeVars,
                   webhookEvent, orderly, failed, faults>>

\* Mutant: the status of a stored event is not compared.
findEvent_Again(h, e) ==
    /\ step[h] = "idle"
    /\ Deliverable(e)
    /\ Continue(h, IF webhookEvent[e] = "none" THEN "create" ELSE FirstStep(e))
    /\ at' = [at EXCEPT ![h] = e]
    /\ UNCHANGED <<checkoutVars, rowVars, got, stripeVars, webhookEvent,
                   answered, orderly, failed, faults>>

findEvent(h, e) ==
    /\ step[h] = "idle"
    /\ Deliverable(e)
    /\ webhookEvent[e] # "PROCESSED"
    /\ Continue(h, IF webhookEvent[e] = "none" THEN "create" ELSE FirstStep(e))
    /\ at' = [at EXCEPT ![h] = e]
    /\ UNCHANGED <<checkoutVars, rowVars, got, stripeVars, webhookEvent,
                   answered, orderly, failed, faults>>

createEvent(h) ==
    /\ step[h] = "create"
    /\ webhookEvent[at[h]] = "none"
    /\ webhookEvent' = [webhookEvent EXCEPT ![at[h]] = "PENDING"]
    /\ Continue(h, FirstStep(at[h]))
    /\ UNCHANGED <<checkoutVars, rowVars, at, got, stripeVars, answered,
                   orderly, failed, faults>>

\* The statement fails, or another delivery of the event was faster: 500.
createEventThrows(h) ==
    /\ step[h] = "create"
    /\ \/ webhookEvent[at[h]] # "none" /\ UNCHANGED faults
       \/ Fault
    /\ Done(h)
    /\ UNCHANGED <<checkoutVars, rowVars, stripeVars, webhookEvent, answered,
                   orderly, failed>>

\* checkout.session.completed asks Stripe for the subscription as it is now.
retrieve(h) ==
    /\ step[h] = "retrieve"
    /\ got' = [got EXCEPT ![h] = stripe[sent[at[h]].sub].now]
    /\ Continue(h, "apply")
    /\ UNCHANGED <<checkoutVars, rowVars, at, stripeVars, webhookEvent,
                   answered, orderly, failed, faults>>

\* The flag is not written: it stays what the former subscription left, or
\* the column's default in a new row.
upsertSubscription(e, status) ==
    /\ status \in SubscriptionStatus
    /\ subscription' = [subscription EXCEPT ![stripe[e.sub].ws] =
           [@ EXCEPT !.sub = e.sub, !.plan = stripe[e.sub].plan,
                     !.status = status]]
    /\ UNCHANGED invoice

\* Mutant: the row is found by its workspace.
updateSubscription_ByWorkspace(e) ==
    /\ e.data \in SubscriptionStatus
    /\ subscription' = [w \in Workspaces |->
           IF subscription[w] # NoRow
           THEN [subscription[w] EXCEPT !.sub = e.sub, !.status = e.data,
                                        !.cancel = e.cancel]
           ELSE subscription[w]]
    /\ UNCHANGED invoice

\* updateMany: an event of a subscription no row names changes nothing.  The
\* plan is not written.
updateSubscription(e) ==
    /\ e.data \in SubscriptionStatus
    /\ subscription' = [w \in Workspaces |->
           IF subscription[w].sub = e.sub
           THEN [subscription[w] EXCEPT !.status = e.data, !.cancel = e.cancel]
           ELSE subscription[w]]
    /\ UNCHANGED invoice

\* Nor does an invoice of such a subscription: it is dropped.
upsertInvoice(e) ==
    /\ invoice' = [invoice EXCEPT ![e.sub] =
           CASE \A w \in Workspaces : subscription[w].sub # e.sub -> @
             [] OTHER ->
                [ws |-> IF @ # NoInvoice THEN @.ws
                        ELSE CHOOSE w \in Workspaces :
                                 subscription[w].sub = e.sub,
                 status |-> e.invoice]]
    /\ UNCHANGED subscription

apply(h) ==
    /\ step[h] = "apply"
    /\ LET e == sent[at[h]] IN
       \/ e.kind = "completed" /\ upsertSubscription(e, got[h])
       \/ e.kind = "updated" /\ updateSubscription(e)
       \/ e.kind = "invoice" /\ upsertInvoice(e)
    /\ Continue(h, "mark")
    /\ UNCHANGED <<checkoutVars, at, got, stripeVars, webhookEvent, answered,
                   orderly, failed, faults>>

BadStatus(h) ==
    LET e == sent[at[h]] IN
    /\ step[h] = "apply"
    /\ \/ e.kind = "completed" /\ got[h] \notin SubscriptionStatus
       \/ e.kind = "updated" /\ e.data \notin SubscriptionStatus

eventThrows(h) ==
    /\ step[h] \in {"retrieve", "apply", "mark"}
    /\ \/ BadStatus(h) /\ UNCHANGED faults
       \/ Fault
    /\ Continue(h, "fail")
    /\ UNCHANGED <<checkoutVars, rowVars, at, got, stripeVars, webhookEvent,
                   answered, orderly, failed>>

Settle(h, status) ==
    /\ webhookEvent' = [webhookEvent EXCEPT ![at[h]] = status]
    /\ answered' = answered \cup {at[h]}
    /\ Done(h)
    /\ UNCHANGED <<checkoutVars, rowVars, stripeVars, orderly, faults>>

markProcessed(h) ==
    /\ step[h] = "mark"
    /\ Settle(h, "PROCESSED")
    /\ UNCHANGED failed

\* The error is stored and 200 is answered: Stripe does not try again.
markFailed(h) ==
    /\ step[h] = "fail"
    /\ Settle(h, "FAILED")
    /\ failed' = TRUE

markFailedThrows(h) ==
    /\ step[h] = "fail"
    /\ Fault
    /\ Done(h)
    /\ UNCHANGED <<checkoutVars, rowVars, stripeVars, webhookEvent, answered,
                   orderly, failed>>

Handle(h) ==
    \/ createEvent(h) \/ createEventThrows(h) \/ retrieve(h) \/ apply(h)
    \/ eventThrows(h) \/ markProcessed(h) \/ markFailed(h)
    \/ markFailedThrows(h)

Restart ==
    /\ Fault
    /\ pc' = [c \in Checkouts |-> "idle"]
    /\ ws' = [c \in Checkouts |-> NULL]
    /\ customer' = [c \in Checkouts |-> NULL]
    /\ step' = [h \in Handlers |-> "idle"]
    /\ at' = [h \in Handlers |-> 0]
    /\ got' = [h \in Handlers |-> NULL]
    /\ UNCHANGED <<billingCustomer, created, rowVars, stripeVars,
                   webhookEvent, answered, orderly, failed>>

Deliver(e) == duplicate(e) \/ \E h \in Handlers : findEvent(h, e)

Next ==
    \/ createCheckoutSession
    \/ Stripe
    \/ \E e \in 1..MaxEvents : Deliver(e)
    \/ \E h \in Handlers : Handle(h)
    \/ Restart

Spec == Init /\ [][Next]_vars

-----------------------------------------------------------------------------
(* What the component promises.                                            *)

\* Whatever checkouts race, every session of a workspace is opened for the
\* one customer that is stored, so that the portal shows what was bought
\* (createCheckoutSession, createPortalSession).
PortalShowsCheckouts ==
    \A x \in sessions :
        PortalCustomer(x.ws) = x.customer /\ created[x.customer] = x.ws

\* A row in subscriptions or invoices belongs to the workspace whose customer
\* pays for that subscription, in whatever order events arrive and however
\* many subscriptions the workspace has (handleWebhook).
RowsBelongToPayer ==
    /\ \A w \in Workspaces :
          subscription[w] # NoRow =>
              LET s == stripe[subscription[w].sub] IN
              s.ws = w /\ s.customer = PortalCustomer(w)
    /\ \A s \in Subscriptions :
          invoice[s] # NoInvoice => invoice[s].ws = stripe[s].ws

\* An event that was answered with 200, and will not come again, has an
\* outcome in webhook_events: no crash or failed statement loses it silently.
AnsweredIsSettled ==
    \A e \in answered : webhookEvent[e] \in {"PROCESSED", "FAILED"}

Quiescent ==
    /\ answered = 1..Len(sent)
    /\ \A h \in Handlers : step[h] = "idle"

\* Stripe sent such an event of s after the one that its session completed.
AfterSession(kind, s) ==
    \E i, j \in 1..Len(sent) :
        i < j /\ IsEvent(i, "completed", s) /\ IsEvent(j, kind, s)

\* When Stripe delivers in the order it sent, repeats, crashes and failed
\* statements included, and no event was FAILED, the row of a workspace is of
\* the session that completed last, with its plan and the status Stripe has.
\* Its flag and its invoice are Stripe's if an event after that session's said
\* so; before that the flag is what an earlier subscription left, and an
\* invoice that was paid before is not stored (handleWebhook).
CaughtUp ==
    orderly /\ Quiescent /\ ~failed =>
        /\ \A w \in Workspaces :
              subscription[w] # NoRow =>
                  LET row == subscription[w]
                      now == stripe[row.sub]
                  IN  /\ row.status = now.now /\ row.plan = now.plan
                      /\ AfterSession("updated", row.sub) =>
                             row.cancel = now.cancel
                      /\ invoice[row.sub].status =
                             IF AfterSession("invoice", row.sub)
                             THEN now.invoice ELSE NULL
        /\ \A i \in 1..Len(sent) :
              sent[i].kind = "completed" =>
                  LET w == stripe[sent[i].sub].ws IN
                  \/ subscription[w].sub = sent[i].sub
                  \/ \E j \in (i + 1)..Len(sent) :
                        /\ sent[j].kind = "completed"
                        /\ stripe[sent[j].sub].ws = w

\* Refuted: under the same conditions the invoice of a subscription that has a
\* row is stored ("Invoices will be fetched via Stripe webhooks and synced to
\* the database", docs/13-archive/historical/adr/003-billing-provider.md:20).
InvoicesSynced ==
    orderly /\ Quiescent /\ ~failed =>
        \A w \in Workspaces :
            subscription[w] # NoRow =>
                invoice[subscription[w].sub].status =
                    stripe[subscription[w].sub].invoice
=============================================================================
