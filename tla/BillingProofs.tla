--------------------------- MODULE BillingProofs ---------------------------
(***************************************************************************)
(* Proofs of the safety properties of Billing, for all workspaces,         *)
(* checkouts, customers, subscriptions, handlers and bounds.               *)
(*                                                                         *)
(* RowsBelongToPayer is not inductive: a row is written for the workspace  *)
(* that Stripe names, and that this workspace's customer pays rests on how *)
(* the checkouts before it raced.  IInv has a part for the checkouts, one  *)
(* for Stripe and one for the webhook handlers.  CaughtUp speaks of the    *)
(* end only: OrderInv says how far the rows lag behind before that.        *)
(***************************************************************************)
EXTENDS Billing, TLAPS

\* Checkouts: the customer a request works with was created for its
\* workspace, and before it opens a session it is the one that is stored.
CheckoutTypes ==
    /\ billingCustomer \in [Workspaces -> Customers \cup {NULL}]
    /\ pc \in [Checkouts -> {"idle", "create", "store", "session"}]
    /\ ws \in [Checkouts -> Workspaces \cup {NULL}]
    /\ customer \in [Checkouts -> Customers \cup {NULL}]
    /\ created \in [Customers -> Workspaces \cup {NULL}]
    /\ sessions \subseteq [ws : Workspaces, plan : Plans, customer : Customers]

CheckoutInv(c) ==
    /\ pc[c] # "idle" => ws[c] \in Workspaces
    /\ pc[c] \in {"store", "session"} =>
           customer[c] \in Customers /\ created[customer[c]] = ws[c]
    /\ pc[c] = "session" => billingCustomer[ws[c]] = customer[c]

CheckoutsInv ==
    /\ CheckoutTypes
    /\ \A c \in Checkouts : CheckoutInv(c)
    /\ \A w \in Workspaces :
          billingCustomer[w] # NULL => created[billingCustomer[w]] = w
    /\ PortalShowsCheckouts

\* Stripe: a subscription is paid by the stored customer of its workspace, and
\* every event is of a subscription there is.
StripeTypes ==
    /\ stripe \in [Subscriptions -> StripeRow \cup {NoStripe}]
    /\ sent \in Seq(Event) /\ Len(sent) <= MaxEvents

Paid(s) == stripe[s] # NoStripe

EventsInv ==
    \A i \in 1..Len(sent) :
        /\ stripe[sent[i].sub] # NoStripe
        /\ sent[i].kind = "invoice" => sent[i].invoice \in InvoiceStatus

StripeInv ==
    /\ StripeTypes
    /\ \A s \in Subscriptions :
          Paid(s) => billingCustomer[stripe[s].ws] = stripe[s].customer
    /\ EventsInv

\* Webhooks: handlers work on events that were sent.
WebhookTypes ==
    /\ subscription \in [Workspaces -> Row \cup {NoRow}]
    /\ invoice \in [Subscriptions -> Invoice \cup {NoInvoice}]
    /\ webhookEvent \in [1..MaxEvents -> WebhookStatus]
    /\ step \in [Handlers ->
           {"idle", "create", "retrieve", "apply", "mark", "fail"}]
    /\ at \in [Handlers -> 0..MaxEvents]
    /\ got \in [Handlers -> StripeStatus \cup {NULL}]
    /\ answered \subseteq 1..MaxEvents

WebhooksInv ==
    /\ WebhookTypes
    /\ \A h \in Handlers : step[h] # "idle" => at[h] \in 1..Len(sent)
    /\ RowsBelongToPayer
    /\ AnsweredIsSettled

Flags == orderly \in BOOLEAN /\ failed \in BOOLEAN /\ faults \in 0..MaxFaults

IInv == CheckoutsInv /\ StripeInv /\ WebhooksInv /\ Flags

-----------------------------------------------------------------------------
(* What each part keeps for the others.                                    *)

\* A stored customer stays.
CustomersKept ==
    \A w \in Workspaces :
        billingCustomer[w] # NULL => billingCustomer'[w] = billingCustomer[w]

\* A subscription keeps its workspace and its customer.
SubscriptionsKept ==
    /\ \A s \in Subscriptions :
          Paid(s) => /\ Paid(s)'
                     /\ stripe'[s].ws = stripe[s].ws
                     /\ stripe'[s].customer = stripe[s].customer
    /\ Len(sent') \in Nat /\ Len(sent) <= Len(sent')

LEMMA PaidIs ==
    ASSUME StripeTypes, NEW s \in Subscriptions
    PROVE  /\ Paid(s) => /\ stripe[s].ws \in Workspaces
                         /\ stripe[s].customer \in Customers
                         /\ stripe[s].plan \in Plans
                         /\ stripe[s].now \in StripeStatus
                         /\ stripe[s].cancel \in BOOLEAN
                         /\ stripe[s].invoice \in InvoiceStatus \cup {NULL}
           /\ stripe[s].ws \in Workspaces => Paid(s)
           /\ ~Paid(s) => stripe[s].now = NULL
BY BillingAssumption DEF StripeTypes, Paid, NoStripe, StripeRow

LEMMA CheckoutsSame ==
    ASSUME CheckoutsInv, UNCHANGED <<checkoutVars, sessions>>
    PROVE  CheckoutsInv' /\ CustomersKept
BY DEF CheckoutsInv, CheckoutTypes, CheckoutInv, PortalShowsCheckouts,
       PortalCustomer, checkoutVars, CustomersKept

LEMMA StripeSame ==
    ASSUME StripeInv, UNCHANGED <<stripe, sent>>, CustomersKept
    PROVE  StripeInv' /\ SubscriptionsKept
<1>1. Len(sent) \in Nat
  BY DEF StripeInv, StripeTypes
<1>2. StripeTypes' /\ EventsInv'
  BY DEF StripeInv, StripeTypes, EventsInv
<1>3. \A s \in Subscriptions :
          Paid(s)' => billingCustomer'[stripe'[s].ws] = stripe'[s].customer
  BY PaidIs, BillingAssumption DEF StripeInv, CustomersKept, Paid
<1> QED
  BY <1>1, <1>2, <1>3 DEF StripeInv, SubscriptionsKept, Paid

LEMMA RowsSame ==
    ASSUME StripeInv, WebhooksInv, UNCHANGED rowVars, CustomersKept,
           SubscriptionsKept
    PROVE  RowsBelongToPayer'
<1>1. ASSUME NEW w \in Workspaces, subscription[w] # NoRow
      PROVE  /\ stripe'[subscription[w].sub].ws = w
             /\ stripe'[subscription[w].sub].customer = billingCustomer'[w]
  <2>1. subscription[w].sub \in Subscriptions
    BY <1>1 DEF WebhooksInv, WebhookTypes, Row
  <2>2. /\ stripe[subscription[w].sub].ws = w
        /\ stripe[subscription[w].sub].customer = billingCustomer[w]
    BY <1>1 DEF WebhooksInv, RowsBelongToPayer, PortalCustomer
  <2>3. Paid(subscription[w].sub) /\ billingCustomer[w] # NULL
    BY <2>1, <2>2, PaidIs, BillingAssumption DEF StripeInv
  <2> QED
    BY <2>1, <2>2, <2>3 DEF CustomersKept, SubscriptionsKept
<1>2. ASSUME NEW s \in Subscriptions, invoice[s] # NoInvoice
      PROVE  invoice[s].ws = stripe'[s].ws
  <2>1. invoice[s].ws = stripe[s].ws /\ invoice[s].ws \in Workspaces
    BY <1>2 DEF WebhooksInv, WebhookTypes, RowsBelongToPayer, Invoice
  <2>2. Paid(s)
    BY <2>1, PaidIs DEF StripeInv
  <2> QED
    BY <2>1, <2>2 DEF SubscriptionsKept
<1> QED
  BY <1>1, <1>2 DEF RowsBelongToPayer, rowVars, PortalCustomer

LEMMA WebhooksSame ==
    ASSUME StripeInv, WebhooksInv,
           UNCHANGED <<rowVars, handlerVars, webhookEvent, answered>>,
           CustomersKept, SubscriptionsKept
    PROVE  WebhooksInv'
<1>1. UNCHANGED rowVars
  OBVIOUS
<1>2. RowsBelongToPayer'
  BY <1>1, RowsSame
<1>3. \A h \in Handlers : step'[h] # "idle" => at'[h] \in 1..Len(sent')
  BY DEF WebhooksInv, SubscriptionsKept, StripeInv, StripeTypes, handlerVars
<1>4. WebhookTypes' /\ AnsweredIsSettled'
  BY DEF WebhooksInv, WebhookTypes, AnsweredIsSettled, rowVars, handlerVars
<1> QED
  BY <1>2, <1>3, <1>4 DEF WebhooksInv

-----------------------------------------------------------------------------
(* Checkouts.                                                              *)

LEMMA FindCustomerStep ==
    ASSUME CheckoutsInv, NEW c \in Checkouts, NEW w \in Workspaces,
           findCustomer(c, w)
    PROVE  CheckoutsInv' /\ CustomersKept
<1>1. /\ pc' = [pc EXCEPT ![c] =
                   IF billingCustomer[w] = NULL THEN "create" ELSE "session"]
      /\ ws' = [ws EXCEPT ![c] = w]
      /\ customer' = [customer EXCEPT ![c] = billingCustomer[w]]
      /\ UNCHANGED <<billingCustomer, created, sessions>>
  BY DEF findCustomer, stripeVars
<1>2. CheckoutTypes'
  BY <1>1 DEF CheckoutsInv, CheckoutTypes
<1>3. \A d \in Checkouts : CheckoutInv(d)'
  BY <1>1 DEF CheckoutsInv, CheckoutTypes, CheckoutInv
<1> QED
  BY <1>1, <1>2, <1>3
     DEF CheckoutsInv, PortalShowsCheckouts, PortalCustomer, CustomersKept

LEMMA CustomersCreateStep ==
    ASSUME CheckoutsInv, NEW c \in Checkouts, NEW k \in Customers,
           customersCreate(c, k)
    PROVE  CheckoutsInv' /\ CustomersKept
<1>1. /\ pc[c] = "create" /\ created[k] = NULL
      /\ created' = [created EXCEPT ![k] = ws[c]]
      /\ customer' = [customer EXCEPT ![c] = k]
      /\ pc' = [pc EXCEPT ![c] = "store"]
      /\ UNCHANGED <<billingCustomer, ws, sessions>>
  BY DEF customersCreate, stripeVars
<1>2. CheckoutTypes' /\ ws[c] \in Workspaces
  BY <1>1 DEF CheckoutsInv, CheckoutTypes, CheckoutInv
<1>3. \A m \in Customers : created[m] # NULL => created'[m] = created[m]
  BY <1>1 DEF CheckoutsInv, CheckoutTypes
<1>4. \A d \in Checkouts : CheckoutInv(d)'
  BY <1>1, <1>2, <1>3, BillingAssumption
     DEF CheckoutsInv, CheckoutTypes, CheckoutInv
<1>5. PortalShowsCheckouts'
  BY <1>1, <1>3, BillingAssumption
     DEF CheckoutsInv, CheckoutTypes, PortalShowsCheckouts, PortalCustomer
<1>6. \A w \in Workspaces :
          billingCustomer'[w] # NULL => created'[billingCustomer'[w]] = w
  BY <1>1, <1>3, BillingAssumption DEF CheckoutsInv, CheckoutTypes
<1> QED
  BY <1>1, <1>2, <1>4, <1>5, <1>6 DEF CheckoutsInv, CustomersKept

LEMMA StoreCustomerStep ==
    ASSUME CheckoutsInv, NEW c \in Checkouts, storeCustomer(c)
    PROVE  CheckoutsInv' /\ CustomersKept
<1>1. /\ pc[c] = "store" /\ billingCustomer[ws[c]] = NULL
      /\ billingCustomer' = [billingCustomer EXCEPT ![ws[c]] = customer[c]]
      /\ pc' = [pc EXCEPT ![c] = "session"]
      /\ UNCHANGED <<ws, customer, created, sessions>>
  BY DEF storeCustomer, stripeVars
<1>2. /\ ws[c] \in Workspaces /\ customer[c] \in Customers
      /\ created[customer[c]] = ws[c]
  BY <1>1 DEF CheckoutsInv, CheckoutInv
<1>3. CheckoutTypes' /\ CustomersKept
  BY <1>1, <1>2 DEF CheckoutsInv, CheckoutTypes, CustomersKept
<1>4. \A d \in Checkouts : CheckoutInv(d)'
  <2> SUFFICES ASSUME NEW d \in Checkouts PROVE CheckoutInv(d)'
    OBVIOUS
  <2>1. CASE d = c
    BY <1>1, <1>2, <2>1 DEF CheckoutsInv, CheckoutTypes, CheckoutInv
  <2>2. CASE d # c
    BY <1>1, <1>2, <1>3, <2>2, BillingAssumption
       DEF CheckoutsInv, CheckoutTypes, CheckoutInv, CustomersKept
  <2> QED
    BY <2>1, <2>2
<1>5. PortalShowsCheckouts'
  BY <1>1, <1>3, BillingAssumption
     DEF CheckoutsInv, CheckoutTypes, PortalShowsCheckouts, PortalCustomer,
         CustomersKept
<1>6. \A w \in Workspaces :
          billingCustomer'[w] # NULL => created'[billingCustomer'[w]] = w
  BY <1>1, <1>2 DEF CheckoutsInv, CheckoutTypes
<1> QED
  BY <1>3, <1>4, <1>5, <1>6 DEF CheckoutsInv

\* A checkout ends, with or without a session.
LEMMA EndCheckoutStep ==
    ASSUME CheckoutsInv, NEW c \in Checkouts,
           checkoutThrows(c) \/ \E p \in Plans : sessionsCreate(c, p)
    PROVE  CheckoutsInv' /\ CustomersKept
<1>1. EndCheckout(c) /\ UNCHANGED <<billingCustomer, created>>
  BY DEF checkoutThrows, sessionsCreate
<1>2. \/ sessions' = sessions
      \/ \E p \in Plans :
            /\ pc[c] = "session"
            /\ sessions' = sessions \cup
                   {[ws |-> ws[c], plan |-> p, customer |-> customer[c]]}
  BY DEF checkoutThrows, sessionsCreate, stripeVars
<1>3. pc[c] = "session" =>
          /\ ws[c] \in Workspaces /\ customer[c] \in Customers
          /\ billingCustomer[ws[c]] = customer[c]
          /\ created[customer[c]] = ws[c]
  BY DEF CheckoutsInv, CheckoutInv
<1>4. CheckoutTypes' /\ PortalShowsCheckouts'
  BY <1>1, <1>2, <1>3
     DEF CheckoutsInv, CheckoutTypes, EndCheckout, PortalShowsCheckouts,
         PortalCustomer
<1>5. \A d \in Checkouts : CheckoutInv(d)'
  BY <1>1 DEF CheckoutsInv, CheckoutTypes, CheckoutInv, EndCheckout
<1> QED
  BY <1>1, <1>4, <1>5 DEF CheckoutsInv, CustomersKept

LEMMA CheckoutStep ==
    ASSUME CheckoutsInv, StripeInv, WebhooksInv, createCheckoutSession
    PROVE  CheckoutsInv' /\ StripeInv' /\ WebhooksInv'
<1>1. CheckoutsInv' /\ CustomersKept
  BY FindCustomerStep, CustomersCreateStep, StoreCustomerStep, EndCheckoutStep
     DEF createCheckoutSession
<1>2. UNCHANGED <<stripe, sent>>
      /\ UNCHANGED <<rowVars, handlerVars, webhookEvent, answered>>
  BY DEF createCheckoutSession, findCustomer, customersCreate, storeCustomer,
         checkoutThrows, sessionsCreate, stripeVars
<1> QED
  BY <1>1, <1>2, StripeSame, WebhooksSame

-----------------------------------------------------------------------------
(* Stripe.                                                                 *)

\* A step of Stripe: one subscription is written, and one event may be sent.
LEMMA SendStep ==
    ASSUME CheckoutsInv, StripeInv, WebhooksInv, NEW s \in Subscriptions,
           NEW row \in StripeRow, NEW e \in Event, e.sub = s,
           e.kind = "invoice" => e.invoice \in InvoiceStatus,
           billingCustomer[row.ws] = row.customer,
           Paid(s) => row.ws = stripe[s].ws /\ row.customer = stripe[s].customer,
           stripe' = [stripe EXCEPT ![s] = row],
           UNCHANGED <<checkoutVars, sessions>>,
           UNCHANGED <<rowVars, handlerVars, webhookEvent, answered>>,
           sent' = sent \/ Send(e)
    PROVE  CheckoutsInv' /\ StripeInv' /\ WebhooksInv'
<1>3. CheckoutsInv' /\ CustomersKept
  BY CheckoutsSame
<1>4. /\ sent' \in Seq(Event) /\ Len(sent) <= Len(sent')
      /\ Len(sent) \in Nat /\ Len(sent') \in Nat /\ Len(sent') <= MaxEvents
      /\ \A i \in 1..Len(sent') :
            \/ i \in 1..Len(sent) /\ sent'[i] = sent[i]
            \/ sent'[i] = e
  <2>1. sent \in Seq(Event) /\ Len(sent) \in Nat /\ Len(sent) <= MaxEvents
    BY DEF StripeInv, StripeTypes
  <2>2. CASE sent' = sent
    BY <2>1, <2>2
  <2>3. CASE Send(e)
    <3>1. sent' = Append(sent, e) /\ Len(sent) < MaxEvents
      BY <2>3 DEF Send
    <3>2. /\ sent' \in Seq(Event) /\ Len(sent') = Len(sent) + 1
          /\ sent'[Len(sent) + 1] = e
          /\ \A i \in 1..Len(sent) : sent'[i] = sent[i]
      BY <2>1, <3>1
    <3> QED
      BY <2>1, <3>1, <3>2, BillingAssumption
  <2> QED
    BY <2>2, <2>3
<1>5. row.ws \in Workspaces /\ row.ws # NULL /\ row # NoStripe
  BY BillingAssumption DEF NoStripe, StripeRow
<1>6. /\ stripe'[s] = row
      /\ \A t \in Subscriptions : t # s => stripe'[t] = stripe[t]
      /\ StripeTypes'
  BY <1>4 DEF StripeInv, StripeTypes
<1>7. Paid(s)' /\ \A t \in Subscriptions : Paid(t) => Paid(t)'
  BY <1>5, <1>6 DEF Paid
<1>8. SubscriptionsKept
  BY <1>4, <1>6, <1>7 DEF SubscriptionsKept
<1>9. EventsInv'
  <2> SUFFICES ASSUME NEW i \in 1..Len(sent')
               PROVE  /\ stripe'[sent'[i].sub] # NoStripe
                      /\ sent'[i].kind = "invoice" =>
                             sent'[i].invoice \in InvoiceStatus
    BY DEF EventsInv
  <2>1. CASE i \in 1..Len(sent) /\ sent'[i] = sent[i]
    <3>1. sent[i] \in Event
      BY <1>4, <2>1 DEF StripeInv, StripeTypes
    <3>2. /\ Paid(sent[i].sub)
          /\ sent[i].kind = "invoice" => sent[i].invoice \in InvoiceStatus
      BY <2>1 DEF StripeInv, EventsInv, Paid
    <3>3. sent[i].sub \in Subscriptions
      BY <3>1 DEF Event
    <3>4. stripe'[sent[i].sub] # NoStripe
      BY <1>7, <3>2, <3>3 DEF Paid
    <3> QED
      BY <2>1, <3>2, <3>4
  <2>2. CASE sent'[i] = e
    BY <1>5, <1>6, <2>2
  <2> QED
    BY <1>4, <2>1, <2>2
<1>10. \A t \in Subscriptions :
          Paid(t)' => billingCustomer'[stripe'[t].ws] = stripe'[t].customer
  BY <1>6 DEF StripeInv, Paid, checkoutVars
<1>11. StripeInv'
  BY <1>6, <1>9, <1>10 DEF StripeInv
<1>12. WebhooksInv'
  BY <1>3, <1>8, WebhooksSame
<1> QED
  BY <1>3, <1>11, <1>12

LEMMA StripeStep ==
    ASSUME CheckoutsInv, StripeInv, WebhooksInv, Stripe
    PROVE  CheckoutsInv' /\ StripeInv' /\ WebhooksInv'
<1>0. /\ UNCHANGED <<checkoutVars, sessions>>
      /\ UNCHANGED <<rowVars, handlerVars, webhookEvent, answered>>
  BY DEF Stripe, SessionPaid, SessionCompletes, SubscriptionChanges,
         InvoiceChanges, Send
<1>1. ASSUME NEW s \in Subscriptions, NEW x \in sessions, SessionPaid(x, s)
      PROVE  CheckoutsInv' /\ StripeInv' /\ WebhooksInv'
  <2>1. PICK row : row = [ws |-> x.ws, plan |-> x.plan,
                          customer |-> x.customer, now |-> "ACTIVE",
                          cancel |-> FALSE, invoice |-> NULL]
    OBVIOUS
  <2>2. /\ x.ws \in Workspaces /\ x.plan \in Plans /\ x.customer \in Customers
        /\ billingCustomer[x.ws] = x.customer
    BY DEF CheckoutsInv, CheckoutTypes, PortalShowsCheckouts, PortalCustomer
  <2>3. row \in StripeRow /\ row.ws = x.ws /\ row.customer = x.customer
    BY <2>1, <2>2 DEF StripeRow, StripeStatus, SubscriptionStatus
  <2>4. ~Paid(s) /\ stripe' = [stripe EXCEPT ![s] = row] /\ sent' = sent
    BY <1>1, <2>1 DEF SessionPaid, Paid
  <2>5. PICK e \in Event : e.sub = s /\ e.kind = "completed"
    <3> [kind |-> "completed", sub |-> s, data |-> NULL, cancel |-> FALSE,
         invoice |-> NULL] \in Event
      BY DEF Event
    <3> QED
      OBVIOUS
  <2> QED
    BY <1>0, <2>2, <2>3, <2>4, <2>5, SendStep
<1>2. ASSUME NEW s \in Subscriptions,
             NEW row \in StripeRow, NEW e \in Event, e.sub = s,
             Paid(s), row.ws = stripe[s].ws, row.customer = stripe[s].customer,
             e.kind = "invoice" => e.invoice \in InvoiceStatus,
             stripe' = [stripe EXCEPT ![s] = row], Send(e)
      PROVE  CheckoutsInv' /\ StripeInv' /\ WebhooksInv'
  BY <1>0, <1>2, SendStep DEF StripeInv
<1>3. ASSUME NEW s \in Subscriptions, SessionCompletes(s)
      PROVE  CheckoutsInv' /\ StripeInv' /\ WebhooksInv'
  <2>1. PICK e : e = [kind |-> "completed", sub |-> s, data |-> NULL,
                      cancel |-> FALSE, invoice |-> NULL]
    OBVIOUS
  <2>2. e \in Event /\ e.sub = s /\ e.kind = "completed"
    BY <2>1 DEF Event
  <2>3. Paid(s) /\ stripe[s] \in StripeRow
        /\ stripe' = [stripe EXCEPT ![s] = stripe[s]]
    BY <1>3 DEF SessionCompletes, Paid, StripeInv, StripeTypes
  <2>4. Send(e)
    BY <1>3, <2>1 DEF SessionCompletes
  <2> QED
    BY <1>2, <2>2, <2>3, <2>4
<1>4. ASSUME NEW s \in Subscriptions, NEW st \in StripeStatus,
             NEW c \in BOOLEAN, SubscriptionChanges(s, st, c)
      PROVE  CheckoutsInv' /\ StripeInv' /\ WebhooksInv'
  <2>1. PICK e : e = [kind |-> "updated", sub |-> s, data |-> st,
                      cancel |-> c, invoice |-> NULL]
    OBVIOUS
  <2>2. PICK row : row = [stripe[s] EXCEPT !.now = st, !.cancel = c]
    OBVIOUS
  <2>3. e \in Event /\ e.sub = s /\ e.kind = "updated"
    BY <2>1 DEF Event
  <2>4. Paid(s)
    BY <1>4, PaidIs DEF SubscriptionChanges, StripeInv
  <2>5. /\ row \in StripeRow
        /\ row.ws = stripe[s].ws /\ row.customer = stripe[s].customer
    BY <2>2, <2>4 DEF StripeInv, StripeTypes, Paid, StripeRow
  <2>6. stripe' = [stripe EXCEPT ![s] = row] /\ Send(e)
    BY <1>4, <2>1, <2>2 DEF SubscriptionChanges
  <2> QED
    BY <1>2, <2>3, <2>4, <2>5, <2>6
<1>5. ASSUME NEW s \in Subscriptions, NEW st \in InvoiceStatus,
             InvoiceChanges(s, st)
      PROVE  CheckoutsInv' /\ StripeInv' /\ WebhooksInv'
  <2>1. PICK e : e = [kind |-> "invoice", sub |-> s, data |-> NULL,
                      cancel |-> FALSE, invoice |-> st]
    OBVIOUS
  <2>2. PICK row : row = [stripe[s] EXCEPT !.invoice = st]
    OBVIOUS
  <2>3. e \in Event /\ e.sub = s /\ e.invoice \in InvoiceStatus
    BY <2>1 DEF Event
  <2>4. Paid(s)
    BY <1>5 DEF InvoiceChanges, Paid
  <2>5. /\ row \in StripeRow
        /\ row.ws = stripe[s].ws /\ row.customer = stripe[s].customer
    BY <2>2, <2>4 DEF StripeInv, StripeTypes, Paid, StripeRow
  <2>6. stripe' = [stripe EXCEPT ![s] = row] /\ Send(e)
    BY <1>5, <2>1, <2>2 DEF InvoiceChanges
  <2> QED
    BY <1>2, <2>3, <2>4, <2>5, <2>6
<1> QED
  BY <1>1, <1>3, <1>4, <1>5 DEF Stripe
-----------------------------------------------------------------------------
(* The webhook handlers.                                                   *)

HandlersInv == \A h \in Handlers : step[h] # "idle" => at[h] \in 1..Len(sent)

\* A step of a handler that writes no row.
LEMMA MoveStep ==
    ASSUME CheckoutsInv, StripeInv, WebhooksInv,
           UNCHANGED checkoutVars, UNCHANGED stripeVars, UNCHANGED rowVars,
           webhookEvent' \in [1..MaxEvents -> WebhookStatus],
           step' \in [Handlers ->
               {"idle", "create", "retrieve", "apply", "mark", "fail"}],
           at' \in [Handlers -> 0..MaxEvents],
           got' \in [Handlers -> StripeStatus \cup {NULL}],
           answered' \subseteq 1..MaxEvents,
           HandlersInv', AnsweredIsSettled'
    PROVE  CheckoutsInv' /\ StripeInv' /\ WebhooksInv'
<1>1. CheckoutsInv' /\ CustomersKept
  BY CheckoutsSame DEF stripeVars
<1>2. StripeInv' /\ SubscriptionsKept
  BY <1>1, StripeSame DEF stripeVars
<1>3. RowsBelongToPayer'
  BY <1>1, <1>2, RowsSame
<1>4. WebhookTypes'
  BY DEF WebhooksInv, WebhookTypes, rowVars
<1> QED
  BY <1>1, <1>2, <1>3, <1>4 DEF WebhooksInv, HandlersInv

\* A handler goes on with the event it is at, or leaves it.
LEMMA HandlerMoves ==
    ASSUME WebhooksInv, NEW h \in Handlers, step[h] # "idle",
           UNCHANGED stripeVars,
           \/ Done(h)
           \/ \E s \in {"retrieve", "apply", "mark", "fail"} :
                 Continue(h, s) /\ UNCHANGED at
    PROVE  /\ step' \in [Handlers ->
                 {"idle", "create", "retrieve", "apply", "mark", "fail"}]
           /\ at' \in [Handlers -> 0..MaxEvents]
           /\ HandlersInv'
<1>1. step' \in [Handlers ->
          {"idle", "create", "retrieve", "apply", "mark", "fail"}]
  BY DEF WebhooksInv, WebhookTypes, Done, Continue
<1>2. at' \in [Handlers -> 0..MaxEvents]
  BY BillingAssumption DEF WebhooksInv, WebhookTypes, Done
<1>3. HandlersInv'
  BY DEF WebhooksInv, WebhookTypes, Done, Continue, HandlersInv, stripeVars
<1> QED
  BY <1>1, <1>2, <1>3

LEMMA GotTypes ==
    ASSUME WebhooksInv, NEW h \in Handlers, Done(h) \/ UNCHANGED got
    PROVE  got' \in [Handlers -> StripeStatus \cup {NULL}]
BY DEF WebhooksInv, WebhookTypes, Done

LEMMA AtIs ==
    ASSUME StripeInv, WebhooksInv, NEW h \in Handlers, step[h] # "idle"
    PROVE  /\ at[h] \in 1..Len(sent) /\ at[h] \in 1..MaxEvents
           /\ sent[at[h]] \in Event
<1>1. at[h] \in 1..Len(sent) /\ Len(sent) \in Nat /\ Len(sent) <= MaxEvents
      /\ sent \in Seq(Event)
  BY DEF StripeInv, StripeTypes, WebhooksInv
<1> QED
  BY <1>1, BillingAssumption

LEMMA DeliverStep ==
    ASSUME CheckoutsInv, StripeInv, WebhooksInv, NEW e \in 1..MaxEvents,
           Deliver(e)
    PROVE  CheckoutsInv' /\ StripeInv' /\ WebhooksInv'
<1>1. CASE duplicate(e)
  <2>1. UNCHANGED checkoutVars /\ UNCHANGED stripeVars /\ UNCHANGED rowVars
        /\ UNCHANGED handlerVars /\ UNCHANGED webhookEvent
        /\ answered' = answered \cup {e} /\ webhookEvent[e] = "PROCESSED"
    BY <1>1 DEF duplicate
  <2>2. answered' \subseteq 1..MaxEvents /\ AnsweredIsSettled'
    BY <2>1 DEF WebhooksInv, WebhookTypes, AnsweredIsSettled
  <2>3. HandlersInv'
    BY <2>1 DEF WebhooksInv, HandlersInv, handlerVars, stripeVars
  <2>4. WebhookTypes /\ step' = step /\ at' = at /\ got' = got
    BY <2>1 DEF WebhooksInv, handlerVars
  <2> QED
    BY <2>1, <2>2, <2>3, <2>4, MoveStep DEF WebhookTypes
<1>2. ASSUME NEW h \in Handlers, findEvent(h, e)
      PROVE  CheckoutsInv' /\ StripeInv' /\ WebhooksInv'
  <2>1. UNCHANGED checkoutVars /\ UNCHANGED stripeVars /\ UNCHANGED rowVars
        /\ UNCHANGED <<got, webhookEvent, answered>>
        /\ e <= Len(sent) /\ at' = [at EXCEPT ![h] = e]
    BY <1>2 DEF findEvent, Deliverable
  <2>2. step' \in [Handlers ->
            {"idle", "create", "retrieve", "apply", "mark", "fail"}]
        /\ \A g \in Handlers : g # h => step'[g] = step[g]
    BY <1>2 DEF findEvent, Continue, FirstStep, WebhooksInv, WebhookTypes
  <2>3. Len(sent) \in Nat
    BY DEF StripeInv, StripeTypes
  <2>4. at' \in [Handlers -> 0..MaxEvents]
    BY <2>1 DEF WebhooksInv, WebhookTypes
  <2>5. HandlersInv'
    BY <2>1, <2>2, <2>3
       DEF WebhooksInv, WebhookTypes, HandlersInv, stripeVars
  <2>6. WebhookTypes /\ AnsweredIsSettled'
    BY <2>1 DEF WebhooksInv, AnsweredIsSettled
  <2> QED
    BY <2>1, <2>2, <2>4, <2>5, <2>6, MoveStep DEF WebhookTypes
<1> QED
  BY <1>1, <1>2 DEF Deliver

LEMMA CreateEventStep ==
    ASSUME CheckoutsInv, StripeInv, WebhooksInv, NEW h \in Handlers,
           createEvent(h)
    PROVE  CheckoutsInv' /\ StripeInv' /\ WebhooksInv'
<1>1. UNCHANGED checkoutVars /\ UNCHANGED stripeVars /\ UNCHANGED rowVars
      /\ UNCHANGED <<at, got, answered>>
      /\ webhookEvent[at[h]] = "none" /\ step[h] # "idle"
      /\ webhookEvent' = [webhookEvent EXCEPT ![at[h]] = "PENDING"]
  BY DEF createEvent
<1>2. at[h] \in 1..MaxEvents
  BY <1>1, AtIs
<1>3. \E s \in {"retrieve", "apply", "mark", "fail"} :
          Continue(h, s) /\ UNCHANGED at
  BY DEF createEvent, FirstStep
<1>4. /\ step' \in [Handlers ->
            {"idle", "create", "retrieve", "apply", "mark", "fail"}]
      /\ at' \in [Handlers -> 0..MaxEvents] /\ HandlersInv'
  BY <1>1, <1>3, HandlerMoves
<1>5. WebhookTypes /\ webhookEvent' \in [1..MaxEvents -> WebhookStatus]
  BY <1>1, <1>2 DEF WebhooksInv, WebhookTypes, WebhookStatus
<1>6. AnsweredIsSettled'
  BY <1>1, <1>2 DEF WebhooksInv, WebhookTypes, AnsweredIsSettled
<1> QED
  BY <1>1, <1>4, <1>5, <1>6, MoveStep DEF WebhookTypes

\* The handler throws, or asks Stripe: no row of ours is written.
LEMMA QuietStep ==
    ASSUME CheckoutsInv, StripeInv, WebhooksInv, NEW h \in Handlers,
           createEventThrows(h) \/ retrieve(h) \/ eventThrows(h)
               \/ markFailedThrows(h)
    PROVE  CheckoutsInv' /\ StripeInv' /\ WebhooksInv'
<1>1. UNCHANGED checkoutVars /\ UNCHANGED stripeVars /\ UNCHANGED rowVars
      /\ UNCHANGED <<webhookEvent, answered>> /\ step[h] # "idle"
  BY DEF createEventThrows, retrieve, eventThrows, markFailedThrows
<1>2. \/ Done(h)
      \/ \E s \in {"retrieve", "apply", "mark", "fail"} :
            Continue(h, s) /\ UNCHANGED at
  BY DEF createEventThrows, retrieve, eventThrows, markFailedThrows
<1>3. /\ step' \in [Handlers ->
            {"idle", "create", "retrieve", "apply", "mark", "fail"}]
      /\ at' \in [Handlers -> 0..MaxEvents] /\ HandlersInv'
  BY <1>1, <1>2, HandlerMoves
<1>4. got' \in [Handlers -> StripeStatus \cup {NULL}]
  <2>1. CASE retrieve(h)
    <3>1. sent[at[h]].sub \in Subscriptions
      BY <1>1, AtIs DEF Event
    <3>2. stripe[sent[at[h]].sub].now \in StripeStatus \cup {NULL}
      BY <3>1, PaidIs DEF StripeInv
    <3> QED
      BY <2>1, <3>2 DEF retrieve, WebhooksInv, WebhookTypes
  <2>2. CASE Done(h) \/ UNCHANGED got
    BY <2>2, GotTypes
  <2> QED
    BY <2>1, <2>2 DEF createEventThrows, eventThrows, markFailedThrows
<1>5. WebhookTypes /\ AnsweredIsSettled'
  BY <1>1 DEF WebhooksInv, AnsweredIsSettled
<1> QED
  BY <1>1, <1>3, <1>4, <1>5, MoveStep DEF WebhookTypes

LEMMA SettleStep ==
    ASSUME CheckoutsInv, StripeInv, WebhooksInv, NEW h \in Handlers,
           markProcessed(h) \/ markFailed(h)
    PROVE  CheckoutsInv' /\ StripeInv' /\ WebhooksInv'
<1>1. PICK st \in {"PROCESSED", "FAILED"} : Settle(h, st)
  BY DEF markProcessed, markFailed
<1>2. UNCHANGED checkoutVars /\ UNCHANGED stripeVars /\ UNCHANGED rowVars
      /\ webhookEvent' = [webhookEvent EXCEPT ![at[h]] = st]
      /\ answered' = answered \cup {at[h]} /\ Done(h)
  BY <1>1 DEF Settle
<1>3. step[h] # "idle"
  BY DEF markProcessed, markFailed
<1>4. at[h] \in 1..MaxEvents
  BY <1>3, AtIs
<1>5. /\ step' \in [Handlers ->
            {"idle", "create", "retrieve", "apply", "mark", "fail"}]
      /\ at' \in [Handlers -> 0..MaxEvents] /\ HandlersInv'
  BY <1>2, <1>3, HandlerMoves
<1>6. /\ webhookEvent' \in [1..MaxEvents -> WebhookStatus]
      /\ answered' \subseteq 1..MaxEvents
      /\ AnsweredIsSettled'
  BY <1>2, <1>4
     DEF WebhooksInv, WebhookTypes, AnsweredIsSettled, WebhookStatus
<1> QED
  BY <1>2, <1>5, <1>6, GotTypes, MoveStep

LEMMA RestartStep ==
    ASSUME CheckoutsInv, StripeInv, WebhooksInv, Restart
    PROVE  CheckoutsInv' /\ StripeInv' /\ WebhooksInv'
<1>1. /\ pc' = [c \in Checkouts |-> "idle"]
      /\ ws' = [c \in Checkouts |-> NULL]
      /\ customer' = [c \in Checkouts |-> NULL]
      /\ step' = [h \in Handlers |-> "idle"]
      /\ at' = [h \in Handlers |-> 0]
      /\ got' = [h \in Handlers |-> NULL]
      /\ UNCHANGED <<billingCustomer, created, sessions, stripe, sent,
                     webhookEvent, answered>>
      /\ UNCHANGED rowVars
  BY DEF Restart, stripeVars
<1>2. CheckoutsInv' /\ CustomersKept
  BY <1>1 DEF CheckoutsInv, CheckoutTypes, CheckoutInv, PortalShowsCheckouts,
              PortalCustomer, CustomersKept
<1>3. StripeInv' /\ SubscriptionsKept
  BY <1>1, <1>2, StripeSame
<1>4. RowsBelongToPayer'
  BY <1>1, <1>2, <1>3, RowsSame
<1>5. WebhookTypes'
  BY <1>1, BillingAssumption DEF WebhooksInv, WebhookTypes, rowVars
<1> QED
  BY <1>1, <1>2, <1>3, <1>4, <1>5 DEF WebhooksInv, AnsweredIsSettled

\* Rows are written for the subscription the event names.
LEMMA ApplyStep ==
    ASSUME CheckoutsInv, StripeInv, WebhooksInv, NEW h \in Handlers, apply(h)
    PROVE  CheckoutsInv' /\ StripeInv' /\ WebhooksInv'
<1>a. PICK e : e = sent[at[h]]
  OBVIOUS
<1>1. UNCHANGED checkoutVars /\ UNCHANGED stripeVars
      /\ UNCHANGED <<at, got, webhookEvent, answered>>
      /\ step[h] # "idle" /\ Continue(h, "mark")
  BY DEF apply
<1>2. e \in Event /\ Paid(e.sub) /\ e.sub \in Subscriptions
      /\ (e.kind = "invoice" => e.invoice \in InvoiceStatus)
  <2>1. e \in Event /\ at[h] \in 1..Len(sent)
    BY <1>a, <1>1, AtIs
  <2> QED
    BY <1>a, <2>1 DEF StripeInv, EventsInv, Paid, Event
<1>3. CheckoutsInv' /\ CustomersKept
  BY <1>1, CheckoutsSame DEF stripeVars
<1>4. StripeInv' /\ SubscriptionsKept
  BY <1>1, <1>3, StripeSame DEF stripeVars
<1>5. /\ step' \in [Handlers ->
            {"idle", "create", "retrieve", "apply", "mark", "fail"}]
      /\ at' \in [Handlers -> 0..MaxEvents] /\ HandlersInv'
  BY <1>1, HandlerMoves
<1>6. /\ stripe[e.sub].ws \in Workspaces
      /\ billingCustomer[stripe[e.sub].ws] = stripe[e.sub].customer
  BY <1>2, PaidIs DEF StripeInv
<1>7. /\ subscription \in [Workspaces -> Row \cup {NoRow}]
      /\ invoice \in [Subscriptions -> Invoice \cup {NoInvoice}]
  BY DEF WebhooksInv, WebhookTypes
<1>8. \A w \in Workspaces :
          subscription[w].sub = e.sub => subscription[w] \in Row
  BY <1>2, <1>7, BillingAssumption DEF NoRow
<1>9. /\ subscription' \in [Workspaces -> Row \cup {NoRow}]
      /\ invoice' \in [Subscriptions -> Invoice \cup {NoInvoice}]
      /\ RowsBelongToPayer'
  <2>1. CASE e.kind = "completed" /\ upsertSubscription(e, got[h])
    <3>a. PICK v : v = stripe[e.sub].ws
      OBVIOUS
    <3>b. PICK row : row = [subscription[v] EXCEPT !.sub = e.sub,
                               !.plan = stripe[e.sub].plan, !.status = got[h]]
      OBVIOUS
    <3>1. /\ got[h] \in SubscriptionStatus /\ UNCHANGED invoice
          /\ subscription' = [subscription EXCEPT ![v] = row]
      BY <2>1, <3>a, <3>b DEF upsertSubscription
    <3>2. v \in Workspaces /\ stripe[e.sub].plan \in Plans
      BY <1>2, <1>6, <3>a, PaidIs DEF StripeInv
    <3>3. row \in Row /\ row.sub = e.sub
      <4>1. PICK old \in Row \cup {NoRow} : old = subscription[v]
        BY <1>7, <3>2
      <4>2. row = [old EXCEPT !.sub = e.sub,
                      !.plan = stripe[e.sub].plan, !.status = got[h]]
        BY <3>b, <4>1
      <4>3. CASE old \in Row
        BY <1>2, <3>1, <3>2, <4>2, <4>3 DEF Row
      <4>4. CASE old = NoRow
        BY <1>2, <3>1, <3>2, <4>2, <4>4 DEF Row, NoRow
      <4> QED
        BY <4>1, <4>3, <4>4
    <3>4. subscription' \in [Workspaces -> Row \cup {NoRow}]
      BY <1>7, <3>1, <3>2, <3>3
    <3>5. subscription'[v].sub = e.sub
          /\ \A w \in Workspaces : w # v => subscription'[w] = subscription[w]
      BY <1>7, <3>1, <3>2, <3>3
    <3> QED
      BY <1>1, <1>6, <1>7, <3>a, <3>1, <3>4, <3>5
         DEF WebhooksInv, RowsBelongToPayer, PortalCustomer, checkoutVars,
             stripeVars
  <2>2. CASE e.kind = "updated" /\ updateSubscription(e)
    <3>1. /\ e.data \in SubscriptionStatus /\ UNCHANGED invoice
          /\ e.cancel \in BOOLEAN
          /\ subscription' = [w \in Workspaces |->
                 IF subscription[w].sub = e.sub
                 THEN [subscription[w] EXCEPT !.status = e.data,
                                              !.cancel = e.cancel]
                 ELSE subscription[w]]
      BY <1>2, <2>2 DEF updateSubscription, Event
    <3>2. ASSUME NEW w \in Workspaces
          PROVE  /\ subscription'[w] \in Row \cup {NoRow}
                 /\ subscription'[w].sub = subscription[w].sub
                 /\ subscription'[w] # NoRow => subscription[w] # NoRow
      <4>1. CASE subscription[w].sub = e.sub
        <5>1. PICK old : old = subscription[w]
          OBVIOUS
        <5>2. subscription'[w] = [old EXCEPT !.status = e.data,
                                             !.cancel = e.cancel]
          BY <3>1, <4>1, <5>1
        <5>3. old \in Row /\ old # NoRow
          BY <1>2, <1>8, <4>1, <5>1, BillingAssumption DEF NoRow
        <5> QED
          BY <3>1, <5>1, <5>2, <5>3 DEF Row
      <4>2. CASE subscription[w].sub # e.sub
        BY <1>7, <3>1, <4>2
      <4> QED
        BY <4>1, <4>2
    <3>3. subscription' \in [Workspaces -> Row \cup {NoRow}]
      BY <3>1, <3>2
    <3>4. ASSUME NEW w \in Workspaces, subscription'[w] # NoRow
          PROVE  /\ stripe'[subscription'[w].sub].ws = w
                 /\ stripe'[subscription'[w].sub].customer = billingCustomer'[w]
      <4>1. /\ stripe[subscription[w].sub].ws = w
            /\ stripe[subscription[w].sub].customer = billingCustomer[w]
        BY <3>2, <3>4 DEF WebhooksInv, RowsBelongToPayer, PortalCustomer
      <4> QED
        BY <1>1, <3>2, <4>1 DEF checkoutVars, stripeVars
    <3>5. \A s \in Subscriptions :
              invoice'[s] # NoInvoice => invoice'[s].ws = stripe'[s].ws
      BY <1>1, <3>1 DEF WebhooksInv, RowsBelongToPayer, stripeVars
    <3>6. RowsBelongToPayer'
      BY <3>4, <3>5 DEF RowsBelongToPayer, PortalCustomer
    <3> QED
      BY <1>7, <3>1, <3>3, <3>6
  <2>3. CASE e.kind = "invoice" /\ upsertInvoice(e)
    <3>1. UNCHANGED subscription
      BY <2>3 DEF upsertInvoice
    <3>2. CASE \A w \in Workspaces : subscription[w].sub # e.sub
      <4>1. invoice' = invoice
        BY <1>2, <1>7, <2>3, <3>2 DEF upsertInvoice
      <4> QED
        BY <1>1, <1>7, <3>1, <4>1
           DEF WebhooksInv, RowsBelongToPayer, PortalCustomer, checkoutVars,
               stripeVars
    <3>3. CASE \E w \in Workspaces : subscription[w].sub = e.sub
      <4>a. PICK v : v = CHOOSE w \in Workspaces : subscription[w].sub = e.sub
        OBVIOUS
      <4>b. PICK row : row = [ws |-> IF invoice[e.sub] # NoInvoice
                                     THEN invoice[e.sub].ws ELSE v,
                              status |-> e.invoice]
        OBVIOUS
      <4>1. v \in Workspaces /\ subscription[v].sub = e.sub
        BY <3>3, <4>a
      <4>2. stripe[e.sub].ws = v
        BY <1>2, <4>1, BillingAssumption
           DEF WebhooksInv, RowsBelongToPayer, NoRow
      <4>3. row.ws = stripe[e.sub].ws /\ row.ws \in Workspaces
            /\ row \in Invoice
        BY <1>2, <1>6, <2>3, <4>b, <4>2
           DEF WebhooksInv, RowsBelongToPayer, Invoice
      <4>4. invoice' = [invoice EXCEPT ![e.sub] = row]
        BY <1>2, <1>7, <2>3, <3>3, <4>a, <4>b DEF upsertInvoice
      <4>5. /\ invoice' \in [Subscriptions -> Invoice \cup {NoInvoice}]
            /\ invoice'[e.sub] = row
            /\ \A s \in Subscriptions : s # e.sub => invoice'[s] = invoice[s]
        BY <1>2, <1>7, <4>3, <4>4
      <4> QED
        BY <1>1, <1>7, <3>1, <4>3, <4>5
           DEF WebhooksInv, RowsBelongToPayer, PortalCustomer, checkoutVars,
               stripeVars
    <3> QED
      BY <3>2, <3>3
  <2> QED
    BY <1>a, <2>1, <2>2, <2>3 DEF apply
<1>10. WebhookTypes'
  BY <1>1, <1>5, <1>9 DEF WebhooksInv, WebhookTypes
<1>11. AnsweredIsSettled'
  BY <1>1 DEF WebhooksInv, AnsweredIsSettled
<1> QED
  BY <1>3, <1>4, <1>5, <1>9, <1>10, <1>11 DEF WebhooksInv, HandlersInv
-----------------------------------------------------------------------------
(* The invariant, and what it gives.                                       *)

LEMMA FlagsStep == Flags /\ [Next]_vars => Flags'
<1> SUFFICES ASSUME Flags, [Next]_vars PROVE Flags'
  OBVIOUS
<1> USE DEF Next, createCheckoutSession, findCustomer, customersCreate,
            storeCustomer, checkoutThrows, sessionsCreate, Stripe,
            SessionPaid, SessionCompletes, SubscriptionChanges,
            InvoiceChanges, Send, Deliver, duplicate, findEvent, Handle, createEvent,
            createEventThrows, retrieve, apply, eventThrows, Settle,
            markProcessed, markFailed, markFailedThrows, Restart, vars
<1>1. UNCHANGED orderly
  OBVIOUS
<1>2. UNCHANGED failed \/ failed' = TRUE
  OBVIOUS
<1>3. UNCHANGED faults \/ Fault
  OBVIOUS
<1> HIDE DEF Next
<1>4. faults' \in 0..MaxFaults
  <2>1. faults \in 0..MaxFaults
    BY DEF Flags
  <2> QED
    BY <1>3, <2>1, BillingAssumption DEF Fault
<1>5. orderly' \in BOOLEAN
  BY <1>1, Zenon DEF Flags
<1>6. failed' \in BOOLEAN
  BY <1>2, Zenon DEF Flags
<1> QED
  BY <1>4, <1>5, <1>6 DEF Flags

LEMMA InvInit == Init => IInv
<1> SUFFICES ASSUME Init PROVE IInv
  OBVIOUS
<1>1. CheckoutsInv
  BY DEF Init, CheckoutsInv, CheckoutTypes, CheckoutInv, PortalShowsCheckouts
<1>2. StripeInv
  <2>1. sent = << >> /\ << >> \in Seq(Event) /\ Len(sent) = 0
    BY DEF Init
  <2> QED
    BY <2>1, BillingAssumption
       DEF Init, StripeInv, StripeTypes, EventsInv, Paid
<1>3. WebhooksInv
  BY BillingAssumption
     DEF Init, WebhooksInv, WebhookTypes, WebhookStatus, RowsBelongToPayer,
         AnsweredIsSettled
<1>4. Flags
  <2>1. orderly \in BOOLEAN
    BY Zenon DEF Init
  <2>2. failed \in BOOLEAN
    BY Zenon DEF Init
  <2>3. faults \in 0..MaxFaults
    BY BillingAssumption DEF Init
  <2> QED
    BY <2>1, <2>2, <2>3 DEF Flags
<1> QED
  BY <1>1, <1>2, <1>3, <1>4 DEF IInv

LEMMA InvStep == IInv /\ [Next]_vars => IInv'
<1> SUFFICES ASSUME IInv, [Next]_vars PROVE IInv'
  OBVIOUS
<1>1. CheckoutsInv /\ StripeInv /\ WebhooksInv /\ Flags'
  BY FlagsStep DEF IInv
<1>2. CASE createCheckoutSession \/ Stripe \/ Restart
  BY <1>1, <1>2, CheckoutStep, StripeStep, RestartStep DEF IInv
<1>3. ASSUME NEW e \in 1..MaxEvents, Deliver(e) PROVE IInv'
  BY <1>1, <1>3, DeliverStep DEF IInv
<1>4. ASSUME NEW h \in Handlers, Handle(h) PROVE IInv'
  BY <1>1, <1>4, CreateEventStep, QuietStep, ApplyStep, SettleStep
     DEF Handle, IInv
<1>5. CASE UNCHANGED vars
  <2>1. UNCHANGED <<checkoutVars, sessions>> /\ UNCHANGED <<stripe, sent>>
        /\ UNCHANGED <<rowVars, handlerVars, webhookEvent, answered>>
    BY <1>5 DEF vars, stripeVars
  <2>2. CheckoutsInv' /\ CustomersKept
    BY <1>1, <2>1, CheckoutsSame
  <2>3. StripeInv' /\ SubscriptionsKept
    BY <1>1, <2>1, <2>2, StripeSame
  <2> QED
    BY <1>1, <2>1, <2>2, <2>3, WebhooksSame DEF IInv
<1> QED
  BY <1>2, <1>3, <1>4, <1>5 DEF Next

THEOREM Inductive == Spec => []IInv
BY InvInit, InvStep, PTL DEF Spec

\* The rows, the requests, Stripe's objects and the handlers keep their types.
THEOREM TypeCorrect == Spec => []TypeOK
<1>1. IInv => TypeOK
  BY DEF IInv, CheckoutsInv, CheckoutTypes, StripeInv, StripeTypes,
         WebhooksInv, WebhookTypes, Flags, TypeOK
<1> QED
  BY <1>1, Inductive, PTL

\* Every checkout session is opened for the customer the portal shows
\* (BillingService.createCheckoutSession and createPortalSession).
THEOREM PortalShowsCheckoutsHolds == Spec => []PortalShowsCheckouts
<1>1. IInv => PortalShowsCheckouts
  BY DEF IInv, CheckoutsInv
<1> QED
  BY <1>1, Inductive, PTL

\* Subscriptions and invoices are rows of the workspace that pays
\* (BillingService.handleWebhook).
THEOREM RowsBelongToPayerHolds == Spec => []RowsBelongToPayer
<1>1. IInv => RowsBelongToPayer
  BY DEF IInv, WebhooksInv
<1> QED
  BY <1>1, Inductive, PTL

\* No event is answered before its outcome is stored
\* (BillingService.handleWebhook).
THEOREM AnsweredIsSettledHolds == Spec => []AnsweredIsSettled
<1>1. IInv => AnsweredIsSettled
  BY DEF IInv, WebhooksInv
<1> QED
  BY <1>1, Inductive, PTL

-----------------------------------------------------------------------------
(***************************************************************************)
(* CaughtUp.  The rows lag behind Stripe by the events that are not        *)
(* answered yet, so the invariant says how far: up to the n-th event,      *)
(* where 1..n are the events answered, a row shows what Stripe has unless  *)
(* a later event will still change it.                                     *)
(***************************************************************************)

\* Stripe sent such an event of s after the first k events.
Later(kind, s, k) ==
    \E j \in (k + 1)..Len(sent) : sent[j].kind = kind /\ sent[j].sub = s

\* ... or one within the first k, after the one that its session completed.
AfterTo(kind, s, k) ==
    \E i, j \in 1..Len(sent) :
        /\ i < j /\ j <= k
        /\ IsEvent(i, "completed", s) /\ IsEvent(j, kind, s)

RowUpTo(w, k) ==
    LET row == subscription[w]
        now == stripe[row.sub]
    IN  /\ row.plan = now.plan
        /\ \/ Later("updated", row.sub, k)
           \/ /\ row.status = now.now
              /\ AfterTo("updated", row.sub, k) => row.cancel = now.cancel

InvoiceUpTo(s, k) ==
    \/ Later("invoice", s, k)
    \/ AfterTo("invoice", s, k) => invoice[s].status = stripe[s].invoice

\* The row of the workspace is of this session, or of one that completes later.
SessionUpTo(i) ==
    LET w == stripe[sent[i].sub].ws IN
    \/ subscription[w].sub = sent[i].sub
    \/ \E j \in (i + 1)..Len(sent) :
          sent[j].kind = "completed" /\ stripe[sent[j].sub].ws = w

HasRow(s) == \E w \in Workspaces : subscription[w].sub = s

CaughtUpTo(k) ==
    /\ \A w \in Workspaces : subscription[w] # NoRow => RowUpTo(w, k)
    /\ \A s \in Subscriptions : HasRow(s) => InvoiceUpTo(s, k)
    /\ \A i \in 1..k : sent[i].kind = "completed" => SessionUpTo(i)

\* Only the first k events have written rows, and no invoice was stored before
\* the session completed.
BegunBy(k) ==
    /\ \A w \in Workspaces : subscription[w] # NoRow =>
          \E i \in 1..Len(sent) :
             i <= k /\ IsEvent(i, "completed", subscription[w].sub)
    /\ \A s \in Subscriptions :
          invoice[s] # NoInvoice => AfterTo("invoice", s, k)

\* A session completes once, and the last event of a subscription of each kind
\* says what Stripe has now.
StripeOrder ==
    /\ \A i, j \in 1..Len(sent) :
          /\ sent[i].kind = "completed" /\ sent[j].kind = "completed"
          /\ sent[j].sub = sent[i].sub
          => i = j
    /\ \A i \in 1..Len(sent) :
          sent[i].kind = "updated" =>
              \/ Later("updated", sent[i].sub, i)
              \/ /\ sent[i].data = stripe[sent[i].sub].now
                 /\ sent[i].cancel = stripe[sent[i].sub].cancel
    /\ \A i \in 1..Len(sent) :
          sent[i].kind = "invoice" =>
              \/ Later("invoice", sent[i].sub, i)
              \/ sent[i].invoice = stripe[sent[i].sub].invoice

\* The handler that is busy is the only one, with the first event that was not
\* answered.  What it got from Stripe may be old only if an event will say so.
HandlerAt(h, n) ==
    step[h] # "idle" =>
        /\ at[h] = n + 1
        /\ \A g \in Handlers : step[g] # "idle" => g = h
        /\ step[h] = "mark" => CaughtUpTo(n + 1)
        /\ step[h] = "apply" /\ sent[n + 1].kind = "completed" =>
              \/ got[h] = stripe[sent[n + 1].sub].now
              \/ Later("updated", sent[n + 1].sub, n + 1)

CaughtUpAt(n) ==
    /\ answered = 1..n
    /\ CaughtUpTo(n) /\ BegunBy(n + 1)
    /\ \A h \in Handlers : HandlerAt(h, n)

Outcomes ==
    \A e \in 1..MaxEvents :
        /\ webhookEvent[e] = "PROCESSED" => e \in answered
        /\ webhookEvent[e] = "FAILED" => failed

InOrder == orderly /\ ~failed => \E n \in 0..Len(sent) : CaughtUpAt(n)

OrderInv == StripeOrder /\ Outcomes /\ InOrder

LEMMA EventIs ==
    ASSUME StripeInv, NEW i \in 1..Len(sent)
    PROVE  /\ sent[i] \in Event /\ sent[i].sub \in Subscriptions
           /\ Paid(sent[i].sub) /\ stripe[sent[i].sub].ws \in Workspaces
<1>1. sent[i] \in Event
  BY DEF StripeInv, StripeTypes
<1>2. sent[i].sub \in Subscriptions /\ Paid(sent[i].sub)
  BY <1>1 DEF StripeInv, EventsInv, Paid, Event
<1> QED
  BY <1>1, <1>2, PaidIs DEF StripeInv

LEMMA RowIs ==
    ASSUME StripeInv, WebhooksInv, NEW w \in Workspaces,
           subscription[w] # NoRow
    PROVE  subscription[w].sub \in Subscriptions /\ Paid(subscription[w].sub)
<1>1. subscription[w].sub \in Subscriptions
  BY DEF WebhooksInv, WebhookTypes, Row
<1>2. stripe[subscription[w].sub].ws = w
  BY DEF WebhooksInv, RowsBelongToPayer
<1> QED
  BY <1>1, <1>2, PaidIs DEF StripeInv

\* A row that names a subscription is there.
LEMMA NamedIsThere ==
    ASSUME NEW w \in Workspaces, NEW s \in Subscriptions,
           subscription[w].sub = s
    PROVE  subscription[w] # NoRow
BY BillingAssumption DEF NoRow

-----------------------------------------------------------------------------
(* Stripe sends an event, or a session is paid.                            *)

Sends(s, kind, n) ==
    /\ n = Len(sent) + 1 /\ Len(sent) \in Nat /\ Len(sent') = n
    /\ \A i \in 1..Len(sent) : sent'[i] = sent[i]
    /\ sent'[n].sub = s /\ sent'[n].kind = kind
    /\ \A t \in Subscriptions : t # s => stripe'[t] = stripe[t]
    /\ stripe'[s].ws = stripe[s].ws /\ stripe'[s].plan = stripe[s].plan
    /\ \/ /\ kind = "completed"
          /\ stripe'[s] = stripe[s]
          /\ \A i \in 1..Len(sent) : ~IsEvent(i, "completed", s)
       \/ /\ kind = "updated"
          /\ stripe'[s].invoice = stripe[s].invoice
          /\ sent'[n].data = stripe'[s].now
          /\ sent'[n].cancel = stripe'[s].cancel
       \/ /\ kind = "invoice"
          /\ stripe'[s].now = stripe[s].now
          /\ stripe'[s].cancel = stripe[s].cancel
          /\ sent'[n].invoice = stripe'[s].invoice

Pays(s) ==
    /\ ~Paid(s) /\ sent' = sent
    /\ \A t \in Subscriptions : t # s => stripe'[t] = stripe[t]

LEMMA SendAppends ==
    ASSUME StripeTypes, NEW e \in Event, Send(e)
    PROVE  /\ Len(sent) \in Nat /\ Len(sent') = Len(sent) + 1
           /\ \A i \in 1..Len(sent) : sent'[i] = sent[i]
           /\ sent'[Len(sent) + 1] = e
<1>1. sent' = Append(sent, e)
  BY DEF Send
<1> QED
  BY <1>1 DEF StripeTypes

LEMMA StripeSends ==
    ASSUME StripeInv, Stripe
    PROVE  \E s \in Subscriptions :
               \/ Pays(s)
               \/ \E n \in Nat, kind \in {"completed", "updated", "invoice"} :
                     Sends(s, kind, n)
<1>1. StripeTypes /\ Len(sent) + 1 \in Nat
  BY DEF StripeInv, StripeTypes
<1>2. ASSUME NEW s \in Subscriptions, NEW x \in sessions, SessionPaid(x, s)
      PROVE  Pays(s)
  BY <1>1, <1>2 DEF SessionPaid, Pays, Paid, StripeTypes
<1>3. ASSUME NEW s \in Subscriptions, SessionCompletes(s)
      PROVE  Sends(s, "completed", Len(sent) + 1)
  <2>1. PICK e : e = [kind |-> "completed", sub |-> s, data |-> NULL,
                      cancel |-> FALSE, invoice |-> NULL]
    OBVIOUS
  <2>2. e \in Event /\ e.sub = s /\ e.kind = "completed"
    BY <2>1 DEF Event
  <2>3. Send(e) /\ stripe' = stripe
        /\ \A i \in 1..Len(sent) : ~IsEvent(i, "completed", s)
    BY <1>3, <2>1 DEF SessionCompletes
  <2> QED
    BY <1>1, <2>2, <2>3, SendAppends DEF Sends
<1>4. ASSUME NEW s \in Subscriptions, NEW st \in StripeStatus,
             NEW c \in BOOLEAN, SubscriptionChanges(s, st, c)
      PROVE  Sends(s, "updated", Len(sent) + 1)
  <2>1. PICK e : e = [kind |-> "updated", sub |-> s, data |-> st,
                      cancel |-> c, invoice |-> NULL]
    OBVIOUS
  <2>2. e \in Event /\ e.sub = s /\ e.kind = "updated"
        /\ e.data = st /\ e.cancel = c
    BY <2>1 DEF Event
  <2>3. Send(e)
    BY <1>4, <2>1 DEF SubscriptionChanges
  <2>4. Paid(s) /\ stripe[s] \in StripeRow
    BY <1>1, <1>4, PaidIs DEF SubscriptionChanges, StripeTypes, Paid
  <2>5. /\ stripe'[s].ws = stripe[s].ws /\ stripe'[s].plan = stripe[s].plan
        /\ stripe'[s].now = st /\ stripe'[s].cancel = c
        /\ stripe'[s].invoice = stripe[s].invoice
        /\ \A t \in Subscriptions : t # s => stripe'[t] = stripe[t]
    BY <1>1, <1>4, <2>4 DEF SubscriptionChanges, StripeTypes, StripeRow
  <2> QED
    BY <1>1, <2>2, <2>3, <2>5, SendAppends DEF Sends
<1>5. ASSUME NEW s \in Subscriptions, NEW st \in InvoiceStatus,
             InvoiceChanges(s, st)
      PROVE  Sends(s, "invoice", Len(sent) + 1)
  <2>1. PICK e : e = [kind |-> "invoice", sub |-> s, data |-> NULL,
                      cancel |-> FALSE, invoice |-> st]
    OBVIOUS
  <2>2. e \in Event /\ e.sub = s /\ e.kind = "invoice" /\ e.invoice = st
    BY <2>1 DEF Event
  <2>3. Send(e) /\ stripe[s] \in StripeRow
    BY <1>1, <1>5, <2>1 DEF InvoiceChanges, StripeTypes
  <2>4. /\ stripe'[s].ws = stripe[s].ws /\ stripe'[s].plan = stripe[s].plan
        /\ stripe'[s].now = stripe[s].now
        /\ stripe'[s].cancel = stripe[s].cancel
        /\ stripe'[s].invoice = st
        /\ \A t \in Subscriptions : t # s => stripe'[t] = stripe[t]
    BY <1>1, <1>5, <2>3 DEF InvoiceChanges, StripeTypes, StripeRow
  <2> QED
    BY <1>1, <2>2, <2>3, <2>4, SendAppends DEF Sends
<1> QED
  BY <1>1, <1>2, <1>3, <1>4, <1>5 DEF Stripe

LEMMA StripeOrderSends ==
    ASSUME StripeInv, StripeOrder, NEW s \in Subscriptions, NEW n \in Nat,
           NEW kind \in {"completed", "updated", "invoice"}, Sends(s, kind, n)
    PROVE  StripeOrder'
<1>1. /\ n = Len(sent) + 1 /\ Len(sent) \in Nat /\ Len(sent') = n
      /\ \A i \in 1..Len(sent) : sent'[i] = sent[i]
      /\ sent'[n].sub = s /\ sent'[n].kind = kind
      /\ \A t \in Subscriptions : t # s => stripe'[t] = stripe[t]
  BY DEF Sends
<1>2. \A i \in 1..Len(sent) : sent[i].sub \in Subscriptions
  BY EventIs
<1>3. /\ \A k, t : \A i \in Nat : Later(k, t, i) => Later(k, t, i)'
      /\ \A i \in 0..Len(sent) : Later(kind, s, i)'
  BY <1>1 DEF Later
<1>4. ASSUME NEW i \in 1..Len(sent'), NEW j \in 1..Len(sent'), i < j,
             sent'[i].kind = "completed", sent'[j].kind = "completed",
             sent'[j].sub = sent'[i].sub
      PROVE  FALSE
  <2>1. i \in 1..Len(sent) /\ sent'[i] = sent[i]
    BY <1>1, <1>4
  <2>2. CASE j = n
    <3>1. IsEvent(i, "completed", s) /\ kind = "completed"
      BY <1>1, <1>4, <2>1, <2>2 DEF IsEvent
    <3> QED
      BY <2>1, <3>1 DEF Sends
  <2>3. CASE j # n
    <3>1. j \in 1..Len(sent) /\ sent'[j] = sent[j]
      BY <1>1, <2>3
    <3> QED
      BY <1>4, <2>1, <3>1 DEF StripeOrder
  <2> QED
    BY <2>2, <2>3
<1>5. ASSUME NEW i \in 1..Len(sent'), NEW j \in 1..Len(sent'),
             sent'[i].kind = "completed", sent'[j].kind = "completed",
             sent'[j].sub = sent'[i].sub
      PROVE  i = j
  BY <1>1, <1>4, <1>5
<1>6. ASSUME NEW i \in 1..Len(sent'), sent'[i].kind = "updated",
             NEW t, t = sent'[i].sub, ~Later("updated", t, i)'
      PROVE  /\ sent'[i].data = stripe'[sent'[i].sub].now
             /\ sent'[i].cancel = stripe'[sent'[i].sub].cancel
  <2>1. CASE i = n
    BY <1>1, <1>6, <2>1 DEF Sends
  <2>2. CASE i # n
    <3>1. i \in 1..Len(sent) /\ sent'[i] = sent[i]
      BY <1>1, <2>2
    <3>2. sent[i].sub = t /\ i \in Nat /\ ~Later("updated", t, i)
      BY <1>1, <1>3, <1>6, <3>1
    <3>3. /\ sent[i].data = stripe[sent[i].sub].now
          /\ sent[i].cancel = stripe[sent[i].sub].cancel
          /\ ~(t = s /\ kind = "updated")
      BY <1>1, <1>3, <1>6, <3>1, <3>2 DEF StripeOrder
    <3>4. /\ stripe'[sent[i].sub].now = stripe[sent[i].sub].now
          /\ stripe'[sent[i].sub].cancel = stripe[sent[i].sub].cancel
      BY <1>1, <1>2, <3>1, <3>2, <3>3 DEF Sends
    <3> QED
      BY <3>1, <3>3, <3>4
  <2> QED
    BY <2>1, <2>2
<1>7. ASSUME NEW i \in 1..Len(sent'), sent'[i].kind = "invoice",
             NEW t, t = sent'[i].sub, ~Later("invoice", t, i)'
      PROVE  sent'[i].invoice = stripe'[sent'[i].sub].invoice
  <2>1. CASE i = n
    BY <1>1, <1>7, <2>1 DEF Sends
  <2>2. CASE i # n
    <3>1. i \in 1..Len(sent) /\ sent'[i] = sent[i]
      BY <1>1, <2>2
    <3>2. sent[i].sub = t /\ i \in Nat /\ ~Later("invoice", t, i)
      BY <1>1, <1>3, <1>7, <3>1
    <3>3. /\ sent[i].invoice = stripe[sent[i].sub].invoice
          /\ ~(t = s /\ kind = "invoice")
      BY <1>1, <1>3, <1>7, <3>1, <3>2 DEF StripeOrder
    <3>4. stripe'[sent[i].sub].invoice = stripe[sent[i].sub].invoice
      BY <1>1, <1>2, <3>1, <3>2, <3>3 DEF Sends
    <3> QED
      BY <3>1, <3>3, <3>4
  <2> QED
    BY <2>1, <2>2
<1> QED
  BY <1>5, <1>6, <1>7 DEF StripeOrder

\* Whatever Stripe sends, the rows that were caught up are so until an event
\* that comes later.
LEMMA CaughtUpSends ==
    ASSUME StripeInv, WebhooksInv, NEW s \in Subscriptions, NEW n \in Nat,
           NEW kind \in {"completed", "updated", "invoice"}, Sends(s, kind, n),
           UNCHANGED rowVars, NEW k \in 0..Len(sent), CaughtUpTo(k)
    PROVE  CaughtUpTo(k)'
<1>1. /\ n = Len(sent) + 1 /\ Len(sent) \in Nat /\ Len(sent') = n
      /\ \A i \in 1..Len(sent) : sent'[i] = sent[i]
      /\ sent'[n].sub = s /\ sent'[n].kind = kind
      /\ \A t \in Subscriptions : t # s => stripe'[t] = stripe[t]
      /\ \A t \in Subscriptions :
            stripe'[t].ws = stripe[t].ws /\ stripe'[t].plan = stripe[t].plan
      /\ UNCHANGED <<subscription, invoice>>
  BY DEF Sends, rowVars
<1>2. /\ \A c, t : Later(c, t, k) => Later(c, t, k)'
      /\ Later(kind, s, k)'
      /\ \A c, t : AfterTo(c, t, k)' => AfterTo(c, t, k)
  BY <1>1 DEF Later, AfterTo, IsEvent
<1>3. ASSUME NEW w \in Workspaces, subscription[w] # NoRow
      PROVE  RowUpTo(w, k)'
  <2>1. PICK row : row = subscription[w]
    OBVIOUS
  <2>2. row.sub \in Subscriptions /\ RowUpTo(w, k)
    BY <1>3, <2>1, RowIs DEF CaughtUpTo
  <2>3. row.plan = stripe'[row.sub].plan
    BY <1>1, <2>1, <2>2 DEF RowUpTo
  <2>4. \/ Later("updated", row.sub, k)'
        \/ /\ row.status = stripe'[row.sub].now
           /\ AfterTo("updated", row.sub, k)' =>
                  row.cancel = stripe'[row.sub].cancel
    <3>1. CASE row.sub = s /\ kind = "updated"
      BY <1>2, <3>1
    <3>2. CASE ~(row.sub = s /\ kind = "updated")
      <4>1. /\ stripe'[row.sub].now = stripe[row.sub].now
            /\ stripe'[row.sub].cancel = stripe[row.sub].cancel
        BY <1>1, <2>2, <3>2 DEF Sends
      <4> QED
        BY <1>2, <2>1, <2>2, <4>1 DEF RowUpTo
    <3> QED
      BY <3>1, <3>2
  <2> QED
    BY <1>1, <2>1, <2>3, <2>4 DEF RowUpTo
<1>4. ASSUME NEW t \in Subscriptions, HasRow(t)
      PROVE  InvoiceUpTo(t, k)'
  <2>1. InvoiceUpTo(t, k)
    BY <1>4 DEF CaughtUpTo
  <2>2. CASE t = s /\ kind = "invoice"
    BY <1>2, <2>2 DEF InvoiceUpTo
  <2>3. CASE ~(t = s /\ kind = "invoice")
    <3>1. stripe'[t].invoice = stripe[t].invoice
      BY <1>1, <2>3 DEF Sends
    <3> QED
      BY <1>1, <1>2, <2>1, <3>1 DEF InvoiceUpTo
  <2> QED
    BY <2>2, <2>3
<1>5. ASSUME NEW i \in 1..k, sent'[i].kind = "completed"
      PROVE  SessionUpTo(i)'
  <2>1. i \in 1..Len(sent) /\ sent'[i] = sent[i]
    BY <1>1
  <2>2. sent[i].sub \in Subscriptions /\ SessionUpTo(i)
    BY <1>5, <2>1, EventIs DEF CaughtUpTo
  <2>3. ASSUME NEW j \in (i + 1)..Len(sent)
        PROVE  /\ j \in (i + 1)..Len(sent') /\ sent'[j] = sent[j]
               /\ stripe'[sent[j].sub].ws = stripe[sent[j].sub].ws
    <3>1. j \in 1..Len(sent) /\ j \in (i + 1)..Len(sent')
      BY <1>1, <2>1
    <3>2. sent[j].sub \in Subscriptions
      BY <3>1, EventIs
    <3> QED
      BY <1>1, <3>1, <3>2
  <2>4. /\ stripe'[sent'[i].sub].ws = stripe[sent[i].sub].ws
        /\ sent'[i].sub = sent[i].sub
    BY <1>1, <2>1, <2>2
  <2>5. CASE subscription[stripe[sent[i].sub].ws].sub = sent[i].sub
    BY <1>1, <2>4, <2>5 DEF SessionUpTo
  <2>6. ASSUME NEW j \in (i + 1)..Len(sent), sent[j].kind = "completed",
               stripe[sent[j].sub].ws = stripe[sent[i].sub].ws
        PROVE  SessionUpTo(i)'
    BY <2>3, <2>4, <2>6 DEF SessionUpTo
  <2> QED
    BY <2>2, <2>5, <2>6 DEF SessionUpTo
<1> QED
  BY <1>1, <1>3, <1>4, <1>5 DEF CaughtUpTo, HasRow

LEMMA BegunSends ==
    ASSUME StripeInv, NEW s \in Subscriptions, NEW n \in Nat,
           NEW kind \in {"completed", "updated", "invoice"}, Sends(s, kind, n),
           UNCHANGED rowVars, NEW k, BegunBy(k)
    PROVE  BegunBy(k)'
<1>1. /\ UNCHANGED <<subscription, invoice>>
      /\ 1..Len(sent) \subseteq 1..Len(sent')
      /\ \A i \in 1..Len(sent) : sent'[i] = sent[i]
  BY DEF Sends, rowVars
<1>2. \A i \in 1..Len(sent) : \A c, t : IsEvent(i, c, t)' = IsEvent(i, c, t)
  BY <1>1 DEF IsEvent
<1>3. \A t : AfterTo("invoice", t, k) => AfterTo("invoice", t, k)'
  BY <1>1, <1>2 DEF AfterTo
<1> QED
  BY <1>1, <1>2, <1>3 DEF BegunBy

\* A subscription that begins has neither events nor rows.
LEMMA OrderPays ==
    ASSUME StripeInv, WebhooksInv, OrderInv, NEW s \in Subscriptions, Pays(s),
           UNCHANGED <<rowVars, handlerVars, webhookEvent, answered, orderly,
                       failed>>
    PROVE  OrderInv'
<1>1. /\ sent' = sent
      /\ \A t \in Subscriptions : Paid(t) => stripe'[t] = stripe[t]
  BY DEF Pays
<1>2. \A i \in 1..Len(sent) : stripe'[sent[i].sub] = stripe[sent[i].sub]
  BY <1>1, EventIs
<1>3. \A w \in Workspaces : subscription[w] # NoRow =>
          stripe'[subscription[w].sub] = stripe[subscription[w].sub]
  BY <1>1, RowIs
<1>4. \A t \in Subscriptions : HasRow(t) => stripe'[t] = stripe[t]
  BY <1>3, NamedIsThere DEF HasRow
<1>5. UNCHANGED <<subscription, invoice>>
  BY DEF rowVars
<1>6. \A c, t, k : /\ Later(c, t, k)' = Later(c, t, k)
                   /\ AfterTo(c, t, k)' = AfterTo(c, t, k)
  BY <1>1 DEF Later, AfterTo, IsEvent
<1>7. StripeOrder'
  BY <1>1, <1>2, <1>6 DEF OrderInv, StripeOrder
<1>8. ASSUME NEW k \in 0..Len(sent), CaughtUpTo(k)
      PROVE  CaughtUpTo(k)'
  <2>1. ASSUME NEW w \in Workspaces, subscription[w] # NoRow
        PROVE  RowUpTo(w, k)'
    <3>1. PICK row : row = subscription[w]
      OBVIOUS
    <3>2. RowUpTo(w, k) /\ stripe'[row.sub] = stripe[row.sub]
      BY <1>3, <1>8, <2>1, <3>1 DEF CaughtUpTo
    <3> QED
      BY <1>5, <1>6, <3>1, <3>2 DEF RowUpTo
  <2>2. ASSUME NEW t \in Subscriptions, HasRow(t)
        PROVE  InvoiceUpTo(t, k)'
    BY <1>4, <1>5, <1>6, <1>8, <2>2 DEF CaughtUpTo, InvoiceUpTo
  <2>3. ASSUME NEW i \in 1..k, sent[i].kind = "completed"
        PROVE  SessionUpTo(i)'
    <3>1. Len(sent) \in Nat
      BY DEF StripeInv, StripeTypes
    <3>2. i \in 1..Len(sent) /\ (i + 1)..Len(sent) \subseteq 1..Len(sent)
      BY <3>1
    <3>3. SessionUpTo(i)
      BY <1>8, <2>3 DEF CaughtUpTo
    <3> QED
      BY <1>1, <1>2, <1>5, <3>2, <3>3 DEF SessionUpTo
  <2> QED
    BY <1>1, <1>5, <2>1, <2>2, <2>3 DEF CaughtUpTo, HasRow
<1>9. \A k : BegunBy(k)' = BegunBy(k)
  BY <1>1, <1>5, <1>6 DEF BegunBy, IsEvent
<1>10. ASSUME NEW m \in 0..Len(sent), CaughtUpAt(m)
       PROVE  CaughtUpAt(m)'
  <2>1. CaughtUpTo(m)' /\ BegunBy(m + 1)' /\ answered' = 1..m
    BY <1>8, <1>9, <1>10 DEF CaughtUpAt
  <2>2. ASSUME NEW h \in Handlers PROVE HandlerAt(h, m)'
    <3>1. CASE step[h] = "idle"
      BY <3>1 DEF HandlerAt, handlerVars
    <3>2. CASE step[h] # "idle"
      <4>1. HandlerAt(h, m) /\ at[h] = m + 1 /\ m + 1 \in 1..Len(sent)
        BY <1>10, <3>2, AtIs DEF CaughtUpAt, HandlerAt
      <4>2. m + 1 \in 0..Len(sent)
        BY <4>1
      <4>3. step[h] = "mark" => CaughtUpTo(m + 1)'
        BY <1>8, <3>2, <4>1, <4>2 DEF HandlerAt
      <4> QED
        BY <1>1, <1>2, <1>6, <4>1, <4>3 DEF HandlerAt, handlerVars
    <3> QED
      BY <3>1, <3>2
  <2> QED
    BY <2>1, <2>2 DEF CaughtUpAt
<1>11. Outcomes' /\ InOrder'
  BY <1>1, <1>10 DEF OrderInv, Outcomes, InOrder
<1> QED
  BY <1>7, <1>11 DEF OrderInv

LEMMA OrderStripe ==
    ASSUME StripeInv, WebhooksInv, OrderInv, Stripe
    PROVE  OrderInv'
<1>1. UNCHANGED <<rowVars, handlerVars, webhookEvent, answered, orderly, failed>>
  BY DEF Stripe, SessionPaid, SessionCompletes, SubscriptionChanges,
         InvoiceChanges, Send
<1>2. (\E t \in Subscriptions : Pays(t)) => OrderInv'
  BY <1>1, OrderPays
<1>a. SUFFICES ASSUME NEW s \in Subscriptions, NEW n \in Nat,
                      NEW kind \in {"completed", "updated", "invoice"},
                      Sends(s, kind, n)
               PROVE  OrderInv'
  BY <1>2, StripeSends
<1>3. Sends(s, kind, n)
  BY <1>a
<1>4. StripeOrder' /\ Outcomes'
  BY <1>1, <1>3, StripeOrderSends DEF OrderInv, Outcomes
<1>5. ASSUME NEW m \in 0..Len(sent), CaughtUpAt(m)
      PROVE  CaughtUpAt(m)'
  <2>1. /\ n = Len(sent) + 1 /\ Len(sent) \in Nat /\ Len(sent') = n
        /\ \A i \in 1..Len(sent) : sent'[i] = sent[i]
        /\ UNCHANGED rowVars /\ UNCHANGED <<step, at, got, answered>>
    BY <1>1, <1>3 DEF Sends, handlerVars
  <2>2. CaughtUpTo(m)' /\ BegunBy(m + 1)'
    BY <1>3, <1>5, <2>1, CaughtUpSends, BegunSends DEF CaughtUpAt
  <2>3. ASSUME NEW h \in Handlers, step[h] # "idle"
        PROVE  HandlerAt(h, m)'
    <3>1. HandlerAt(h, m) /\ at[h] = m + 1 /\ m + 1 \in 1..Len(sent)
      BY <1>5, <2>3, AtIs DEF CaughtUpAt, HandlerAt
    <3>2. step[h] = "mark" => CaughtUpTo(m + 1)'
      BY <1>3, <2>1, <2>3, <3>1, CaughtUpSends DEF HandlerAt
    <3>3. sent'[m + 1] = sent[m + 1]
      BY <2>1, <3>1
    <3>4. sent[m + 1].sub \in Subscriptions
      BY <3>1, EventIs
    <3>5. ASSUME step[h] = "apply", sent[m + 1].kind = "completed"
          PROVE  \/ got[h] = stripe'[sent[m + 1].sub].now
                 \/ Later("updated", sent[m + 1].sub, m + 1)'
      <4>1. CASE Later("updated", sent[m + 1].sub, m + 1)
        BY <2>1, <4>1 DEF Later
      <4>2. CASE got[h] = stripe[sent[m + 1].sub].now
        <5>1. CASE sent[m + 1].sub = s /\ kind = "updated"
          BY <1>3, <2>1, <3>1, <5>1 DEF Later, Sends
        <5>2. CASE ~(sent[m + 1].sub = s /\ kind = "updated")
          BY <1>3, <3>4, <4>2, <5>2 DEF Sends
        <5> QED
          BY <5>1, <5>2
      <4> QED
        BY <2>3, <3>1, <3>5, <4>1, <4>2 DEF HandlerAt
    <3>6. /\ at'[h] = m + 1
          /\ \A g \in Handlers : step'[g] # "idle" => g = h
      BY <2>1, <2>3, <3>1 DEF HandlerAt
    <3> QED
      BY <2>1, <3>2, <3>3, <3>5, <3>6 DEF HandlerAt
  <2>4. \A h \in Handlers : HandlerAt(h, m)'
    BY <2>1, <2>3 DEF HandlerAt
  <2> QED
    BY <1>5, <2>1, <2>2, <2>4 DEF CaughtUpAt
<1>6. 0..Len(sent) \subseteq 0..Len(sent')
  BY <1>3 DEF Sends
<1>7. InOrder'
  BY <1>1, <1>5, <1>6 DEF InOrder, OrderInv
<1> QED
  BY <1>4, <1>7 DEF OrderInv

-----------------------------------------------------------------------------
(* A handler moves: the rows and Stripe stay as they are.                  *)

LEMMA CaughtUpSame ==
    ASSUME UNCHANGED <<stripe, sent, subscription, invoice>>
    PROVE  /\ \A k : CaughtUpTo(k)' = CaughtUpTo(k)
           /\ \A k : BegunBy(k)' = BegunBy(k)
           /\ \A kind, s, k : Later(kind, s, k)' = Later(kind, s, k)
           /\ StripeOrder' = StripeOrder
<1>1. \A kind, s, k : /\ Later(kind, s, k)' = Later(kind, s, k)
                      /\ AfterTo(kind, s, k)' = AfterTo(kind, s, k)
  BY DEF Later, AfterTo, IsEvent
<1>2. \A k : BegunBy(k)' = BegunBy(k)
  BY <1>1 DEF BegunBy, IsEvent
<1>3. \A k : /\ \A w : RowUpTo(w, k)' = RowUpTo(w, k)
             /\ \A s : InvoiceUpTo(s, k)' = InvoiceUpTo(s, k)
             /\ SessionUpTo(k)' = SessionUpTo(k)
  BY <1>1 DEF RowUpTo, InvoiceUpTo, SessionUpTo
<1>4. \A k : CaughtUpTo(k)' = CaughtUpTo(k)
  BY <1>3 DEF CaughtUpTo, HasRow
<1>5. StripeOrder' = StripeOrder
  BY <1>1 DEF StripeOrder
<1> QED
  BY <1>1, <1>2, <1>4, <1>5

\* Handler h is done, throws, or is where it was; so is every other one.
Retreats(h) ==
    \/ step'[h] = "idle"
    \/ step'[h] = step[h] /\ at'[h] = at[h] /\ got'[h] = got[h]
    \/ step[h] # "idle" /\ step'[h] = "fail" /\ at'[h] = at[h]

LEMMA OrderRetreats ==
    ASSUME OrderInv, UNCHANGED <<stripe, sent, rowVars, answered, orderly, failed>>,
           Outcomes', \A h \in Handlers : Retreats(h)
    PROVE  OrderInv'
<1>1. /\ StripeOrder' /\ \A k : CaughtUpTo(k)' = CaughtUpTo(k)
      /\ \A k : BegunBy(k)' = BegunBy(k)
      /\ \A kind, s, k : Later(kind, s, k)' = Later(kind, s, k)
  BY CaughtUpSame DEF OrderInv, rowVars
<1>2. ASSUME NEW n \in 0..Len(sent), CaughtUpAt(n)
      PROVE  CaughtUpAt(n)'
  <2>1. ASSUME NEW h \in Handlers
        PROVE  HandlerAt(h, n)'
    <3>1. /\ HandlerAt(h, n) /\ Retreats(h)
          /\ \A g \in Handlers : step'[g] # "idle" => step[g] # "idle"
      BY <1>2 DEF CaughtUpAt, Retreats
    <3> QED
      BY <1>1, <3>1 DEF HandlerAt, Retreats
  <2> QED
    BY <1>1, <1>2, <2>1 DEF CaughtUpAt
<1> QED
  BY <1>1, <1>2 DEF OrderInv, InOrder

\* Handler h goes on with an event, or begins with one.
LEMMA OrderAdvances ==
    ASSUME WebhooksInv, OrderInv,
           UNCHANGED <<stripe, sent, rowVars, answered, orderly, failed>>,
           Outcomes', NEW h \in Handlers,
           \A g \in Handlers : g # h =>
               step'[g] = step[g] /\ at'[g] = at[g] /\ got'[g] = got[g],
           NEW s \in {"create", "retrieve", "apply"}, step'[h] = s,
           orderly /\ ~failed => \A n \in 0..Len(sent) : answered = 1..n =>
               at'[h] = n + 1 \/ (step[h] # "idle" /\ at'[h] = at[h]),
           step[h] = "idle" /\ orderly => \A g \in Handlers : step[g] = "idle",
           s = "apply" /\ sent[at'[h]].kind = "completed" =>
               got'[h] = stripe[sent[at'[h]].sub].now
    PROVE  OrderInv'
<1>1. /\ StripeOrder' /\ \A k : CaughtUpTo(k)' = CaughtUpTo(k)
      /\ \A k : BegunBy(k)' = BegunBy(k)
      /\ \A kind, t, k : Later(kind, t, k)' = Later(kind, t, k)
  BY CaughtUpSame DEF OrderInv, rowVars
<1>2. ASSUME orderly, ~failed, NEW n \in 0..Len(sent), CaughtUpAt(n)
      PROVE  CaughtUpAt(n)'
  <2>1. at'[h] = n + 1
    BY <1>2 DEF CaughtUpAt, HandlerAt
  <2>2. \A g \in Handlers : step'[g] # "idle" => g = h
    BY <1>2 DEF CaughtUpAt, HandlerAt
  <2>3. HandlerAt(h, n)'
    BY <2>1, <2>2 DEF HandlerAt
  <2>4. \A g \in Handlers : g # h => HandlerAt(g, n)'
    BY <2>2 DEF HandlerAt
  <2> QED
    BY <1>1, <1>2, <2>3, <2>4 DEF CaughtUpAt
<1> QED
  BY <1>1, <1>2 DEF OrderInv, InOrder

LEMMA OrderDeliver ==
    ASSUME StripeInv, WebhooksInv, OrderInv, NEW e \in 1..MaxEvents, Deliver(e)
    PROVE  OrderInv'
<1>0. Len(sent) \in Nat
  BY DEF StripeInv, StripeTypes
<1>1. CASE duplicate(e)
  <2>1. e \in answered /\ webhookEvent[e] = "PROCESSED"
    BY <1>1 DEF duplicate, OrderInv, Outcomes
  <2>2. /\ UNCHANGED <<stripe, sent, rowVars, answered, orderly, failed>>
        /\ UNCHANGED <<webhookEvent, step, at, got>>
    BY <1>1, <2>1 DEF duplicate, stripeVars, handlerVars
  <2> QED
    BY <2>2, OrderRetreats DEF Retreats, OrderInv, Outcomes
<1>2. ASSUME NEW h \in Handlers, findEvent(h, e)
      PROVE  OrderInv'
  <2>1. /\ UNCHANGED <<stripe, sent, rowVars, answered, orderly, failed>>
        /\ UNCHANGED <<webhookEvent, got>>
        /\ step[h] = "idle" /\ webhookEvent[e] # "PROCESSED" /\ Deliverable(e)
        /\ at' = [at EXCEPT ![h] = e]
        /\ Continue(h, IF webhookEvent[e] = "none" THEN "create"
                                                   ELSE FirstStep(e))
    BY <1>2 DEF findEvent, stripeVars
  <2>2. /\ at'[h] = e
        /\ \A g \in Handlers : g # h =>
             step'[g] = step[g] /\ at'[g] = at[g] /\ got'[g] = got[g]
        /\ step'[h] = IF webhookEvent[e] = "none" THEN "create" ELSE FirstStep(e)
    BY <2>1 DEF WebhooksInv, WebhookTypes, Continue
  <2>3. ASSUME orderly, ~failed, NEW n \in 0..Len(sent), answered = 1..n
        PROVE  e = n + 1
    <3>1. e \notin answered
      BY <2>1, <2>3 DEF WebhooksInv, AnsweredIsSettled, OrderInv, Outcomes
    <3>2. 1..(e - 1) \subseteq answered
      BY <2>1, <2>3 DEF Deliverable
    <3>3. ~(e <= n)
      BY <2>3, <3>1
    <3>4. ~(n < e - 1)
      <4>1. n < e - 1 => e - 1 \in 1..(e - 1) /\ e - 1 \notin 1..n
        BY <1>0
      <4> QED
        BY <2>3, <3>2, <4>1
    <3> QED
      BY <1>0, <3>3, <3>4
  <2>4. orderly => \A g \in Handlers : step[g] = "idle"
    BY <2>1 DEF Deliverable
  <2>5. PICK s \in {"create", "retrieve", "apply"} :
            step'[h] = s /\ (s = "apply" => sent[e].kind # "completed")
    BY <2>2 DEF FirstStep
  <2>6. Outcomes'
    BY <2>1 DEF OrderInv, Outcomes
  <2> QED
    BY <2>1, <2>2, <2>3, <2>4, <2>5, <2>6, OrderAdvances
<1> QED
  BY <1>1, <1>2 DEF Deliver

-----------------------------------------------------------------------------
(* A handler applies its event: the rows are caught up with one more.      *)

\* What the three kinds of event write.
LEMMA ApplyWrites ==
    ASSUME StripeInv, WebhooksInv, NEW h \in Handlers, apply(h),
           NEW e, e = sent[at[h]]
    PROVE  \/ /\ e.kind = "completed" /\ UNCHANGED invoice
              /\ LET w == stripe[e.sub].ws IN
                 /\ subscription'[w].sub = e.sub
                 /\ subscription'[w].plan = stripe[e.sub].plan
                 /\ subscription'[w].status = got[h]
                 /\ \A v \in Workspaces :
                       v # w => subscription'[v] = subscription[v]
           \/ /\ e.kind = "updated" /\ UNCHANGED invoice
              /\ \A w \in Workspaces :
                    /\ subscription'[w].sub = subscription[w].sub
                    /\ subscription'[w].plan = subscription[w].plan
                    /\ subscription'[w] # NoRow => subscription[w] # NoRow
                    /\ IF subscription[w].sub = e.sub
                       THEN /\ subscription'[w].status = e.data
                            /\ subscription'[w].cancel = e.cancel
                       ELSE subscription'[w] = subscription[w]
           \/ /\ e.kind = "invoice" /\ UNCHANGED subscription
              /\ \A s \in Subscriptions : s # e.sub => invoice'[s] = invoice[s]
              /\ HasRow(e.sub) => invoice'[e.sub].status = e.invoice
              /\ ~HasRow(e.sub) => invoice'[e.sub] = invoice[e.sub]
<1>1. /\ e.sub \in Subscriptions /\ stripe[e.sub].ws \in Workspaces
      /\ step[h] # "idle"
  BY AtIs, EventIs DEF apply
<1>2. /\ subscription \in [Workspaces -> Row \cup {NoRow}]
      /\ invoice \in [Subscriptions -> Invoice \cup {NoInvoice}]
  BY DEF WebhooksInv, WebhookTypes
<1>3. ASSUME e.kind = "completed", upsertSubscription(e, got[h])
      PROVE  /\ UNCHANGED invoice
             /\ LET w == stripe[e.sub].ws IN
                /\ subscription'[w].sub = e.sub
                /\ subscription'[w].plan = stripe[e.sub].plan
                /\ subscription'[w].status = got[h]
                /\ \A v \in Workspaces :
                      v # w => subscription'[v] = subscription[v]
  <2>1. PICK w : w = stripe[e.sub].ws
    OBVIOUS
  <2>2. PICK row : row = [subscription[w] EXCEPT !.sub = e.sub,
                             !.plan = stripe[e.sub].plan, !.status = got[h]]
    OBVIOUS
  <2>3. subscription' = [subscription EXCEPT ![w] = row] /\ UNCHANGED invoice
    BY <1>3, <2>1, <2>2 DEF upsertSubscription
  <2>4. subscription[w] \in Row \cup {NoRow}
    BY <1>1, <1>2, <2>1
  <2>5. /\ row.sub = e.sub /\ row.plan = stripe[e.sub].plan
        /\ row.status = got[h]
    BY <2>2, <2>4 DEF Row, NoRow
  <2> QED
    BY <1>1, <1>2, <2>1, <2>3, <2>5
<1>4. ASSUME e.kind = "updated", updateSubscription(e), NEW w \in Workspaces
      PROVE  /\ subscription'[w].sub = subscription[w].sub
             /\ subscription'[w].plan = subscription[w].plan
             /\ subscription'[w] # NoRow => subscription[w] # NoRow
             /\ IF subscription[w].sub = e.sub
                THEN /\ subscription'[w].status = e.data
                     /\ subscription'[w].cancel = e.cancel
                ELSE subscription'[w] = subscription[w]
  <2>1. PICK old : old = subscription[w]
    OBVIOUS
  <2>2. subscription'[w] = IF old.sub = e.sub
                           THEN [old EXCEPT !.status = e.data,
                                            !.cancel = e.cancel]
                           ELSE old
    BY <1>4, <2>1 DEF updateSubscription
  <2>3. old \in Row \cup {NoRow}
    BY <1>2, <2>1
  <2>4. CASE old.sub = e.sub
    <3>1. old # NoRow
      BY <1>1, <2>1, <2>4, NamedIsThere
    <3> QED
      BY <2>1, <2>2, <2>3, <2>4, <3>1 DEF Row
  <2>5. CASE old.sub # e.sub
    BY <2>1, <2>2, <2>5
  <2> QED
    BY <2>4, <2>5
<1>5. ASSUME e.kind = "updated", updateSubscription(e)
      PROVE  UNCHANGED invoice
  BY <1>5 DEF updateSubscription
<1>6. ASSUME e.kind = "invoice", upsertInvoice(e)
      PROVE  /\ UNCHANGED subscription
             /\ \A s \in Subscriptions : s # e.sub => invoice'[s] = invoice[s]
             /\ HasRow(e.sub) => invoice'[e.sub].status = e.invoice
             /\ ~HasRow(e.sub) => invoice'[e.sub] = invoice[e.sub]
  BY <1>1, <1>2, <1>6 DEF upsertInvoice, HasRow
<1>7. \/ e.kind = "completed" /\ upsertSubscription(e, got[h])
      \/ e.kind = "updated" /\ updateSubscription(e)
      \/ e.kind = "invoice" /\ upsertInvoice(e)
  BY DEF apply
<1>8. CASE e.kind = "completed" /\ upsertSubscription(e, got[h])
  BY <1>3, <1>8
<1>9. CASE e.kind = "updated" /\ updateSubscription(e)
  BY <1>4, <1>5, <1>9
<1>10. CASE e.kind = "invoice" /\ upsertInvoice(e)
  BY <1>6, <1>10
<1> QED
  BY <1>7, <1>8, <1>9, <1>10

LEMMA ApplyCatchesUp ==
    ASSUME StripeInv, WebhooksInv, StripeOrder, NEW h \in Handlers, apply(h),
           NEW n \in 0..Len(sent), CaughtUpTo(n), HandlerAt(h, n)
    PROVE  CaughtUpTo(n + 1)'
<1>a. PICK e : e = sent[n + 1]
  OBVIOUS
<1>1. /\ step[h] = "apply" /\ at[h] = n + 1 /\ n + 1 \in 1..Len(sent)
      /\ Len(sent) \in Nat /\ n \in Nat
      /\ stripe' = stripe /\ sent' = sent
  BY AtIs DEF apply, HandlerAt, stripeVars, StripeInv, StripeTypes
<1>2. e.sub \in Subscriptions /\ stripe[e.sub].ws \in Workspaces
      /\ stripe[e.sub].ws # NULL
  BY <1>a, <1>1, EventIs, BillingAssumption
<1>3. /\ \A kind, s : Later(kind, s, n) =>
             Later(kind, s, n + 1) \/ (e.kind = kind /\ e.sub = s)
      /\ \A kind, s : AfterTo(kind, s, n + 1) =>
             AfterTo(kind, s, n) \/ (e.kind = kind /\ e.sub = s)
      /\ \A kind, s : /\ Later(kind, s, n + 1)' = Later(kind, s, n + 1)
                      /\ AfterTo(kind, s, n + 1)' = AfterTo(kind, s, n + 1)
  BY <1>a, <1>1 DEF Later, AfterTo, IsEvent
<1>4. e.kind = "completed" =>
          ~AfterTo("updated", e.sub, n + 1) /\ ~AfterTo("invoice", e.sub, n + 1)
  BY <1>a, <1>1 DEF AfterTo, IsEvent, StripeOrder
<1>5. CASE /\ e.kind = "completed" /\ UNCHANGED invoice
           /\ LET w == stripe[e.sub].ws IN
              /\ subscription'[w].sub = e.sub
              /\ subscription'[w].plan = stripe[e.sub].plan
              /\ subscription'[w].status = got[h]
              /\ \A v \in Workspaces :
                    v # w => subscription'[v] = subscription[v]
  <2>a. PICK w : w = stripe[e.sub].ws
    OBVIOUS
  <2>1. /\ subscription'[w].sub = e.sub
        /\ subscription'[w].plan = stripe[e.sub].plan
        /\ subscription'[w].status = got[h]
        /\ \A v \in Workspaces : v # w => subscription'[v] = subscription[v]
    BY <1>5, <2>a
  <2>2. \/ got[h] = stripe[e.sub].now
        \/ Later("updated", e.sub, n + 1)
    BY <1>a, <1>1, <1>5 DEF HandlerAt
  <2>3. ASSUME NEW v \in Workspaces, subscription'[v] # NoRow
        PROVE  RowUpTo(v, n + 1)'
    <3>1. CASE v = w
      <4>1. PICK row : row = subscription'[v]
        OBVIOUS
      <4>2. /\ row.sub = e.sub /\ row.plan = stripe[e.sub].plan
            /\ row.status = got[h]
        BY <2>1, <3>1, <4>1
      <4>3. \/ Later("updated", row.sub, n + 1)'
            \/ /\ row.status = stripe'[row.sub].now
               /\ ~AfterTo("updated", row.sub, n + 1)'
        BY <1>1, <1>3, <1>4, <1>5, <2>2, <4>2
      <4> QED
        BY <1>1, <4>1, <4>2, <4>3 DEF RowUpTo
    <3>2. CASE v # w
      <4>1. PICK row : row = subscription[v]
        OBVIOUS
      <4>2. row = subscription'[v] /\ RowUpTo(v, n)
        BY <2>1, <2>3, <3>2, <4>1 DEF CaughtUpTo
      <4> QED
        BY <1>1, <1>3, <1>5, <4>1, <4>2 DEF RowUpTo
    <3> QED
      BY <3>1, <3>2
  <2>4. ASSUME NEW s \in Subscriptions, NEW v \in Workspaces,
               subscription'[v].sub = s
        PROVE  InvoiceUpTo(s, n + 1)'
    <3>1. CASE s = e.sub
      BY <1>3, <1>4, <1>5, <3>1 DEF InvoiceUpTo
    <3>2. CASE s # e.sub
      <4>1. HasRow(s)
        BY <2>1, <2>4, <3>2 DEF HasRow
      <4>2. InvoiceUpTo(s, n)
        BY <4>1 DEF CaughtUpTo
      <4> QED
        BY <1>1, <1>3, <1>5, <4>2 DEF InvoiceUpTo
    <3> QED
      BY <3>1, <3>2
  <2>5. ASSUME NEW i \in 1..(n + 1), sent[i].kind = "completed"
        PROVE  SessionUpTo(i)'
    <3>1. CASE i = n + 1
      BY <1>a, <1>1, <2>a, <2>1, <3>1 DEF SessionUpTo
    <3>2. CASE i # n + 1 /\ stripe[sent[i].sub].ws = w
      <4>1. n + 1 \in (i + 1)..Len(sent)
        BY <1>1, <3>2
      <4> QED
        BY <1>a, <1>1, <1>5, <2>a, <3>2, <4>1 DEF SessionUpTo
    <3>3. CASE i # n + 1 /\ stripe[sent[i].sub].ws # w
      <4>1. i \in 1..n /\ i \in 1..Len(sent)
        BY <1>1, <3>3
      <4>2. SessionUpTo(i) /\ stripe[sent[i].sub].ws \in Workspaces
        BY <2>5, <4>1, EventIs DEF CaughtUpTo
      <4> QED
        BY <1>1, <2>1, <3>3, <4>2 DEF SessionUpTo
    <3> QED
      BY <3>1, <3>2, <3>3
  <2> QED
    BY <1>1, <2>3, <2>4, <2>5 DEF CaughtUpTo, HasRow
<1>6. CASE /\ e.kind = "updated" /\ UNCHANGED invoice
           /\ \A w \in Workspaces :
                 /\ subscription'[w].sub = subscription[w].sub
                 /\ subscription'[w].plan = subscription[w].plan
                 /\ subscription'[w] # NoRow => subscription[w] # NoRow
                 /\ IF subscription[w].sub = e.sub
                    THEN /\ subscription'[w].status = e.data
                         /\ subscription'[w].cancel = e.cancel
                    ELSE subscription'[w] = subscription[w]
  <2>1. ASSUME NEW w \in Workspaces, subscription'[w] # NoRow
        PROVE  RowUpTo(w, n + 1)'
    <3>1. PICK row : row = subscription'[w]
      OBVIOUS
    <3>2. PICK old : old = subscription[w]
      OBVIOUS
    <3>3. /\ row.sub = old.sub /\ row.plan = old.plan /\ RowUpTo(w, n)
          /\ IF old.sub = e.sub
             THEN row.status = e.data /\ row.cancel = e.cancel
             ELSE row = old
      BY <1>6, <2>1, <3>1, <3>2 DEF CaughtUpTo
    <3>4. CASE row.sub = e.sub
      <4>1. \/ Later("updated", e.sub, n + 1)
            \/ /\ e.data = stripe[e.sub].now
               /\ e.cancel = stripe[e.sub].cancel
        BY <1>a, <1>1, <1>6 DEF StripeOrder
      <4> QED
        BY <1>1, <1>3, <3>1, <3>2, <3>3, <3>4, <4>1 DEF RowUpTo
    <3>5. CASE row.sub # e.sub
      BY <1>1, <1>3, <3>1, <3>2, <3>3, <3>5 DEF RowUpTo
    <3> QED
      BY <3>4, <3>5
  <2>2. ASSUME NEW s \in Subscriptions, NEW w \in Workspaces,
               subscription'[w].sub = s
        PROVE  InvoiceUpTo(s, n + 1)'
    <3>1. InvoiceUpTo(s, n)
      BY <1>6, <2>2 DEF CaughtUpTo, HasRow
    <3> QED
      BY <1>1, <1>3, <1>6, <3>1 DEF InvoiceUpTo
  <2>3. ASSUME NEW i \in 1..(n + 1), sent[i].kind = "completed"
        PROVE  SessionUpTo(i)'
    <3>1. i \in 1..n /\ i \in 1..Len(sent)
      BY <1>a, <1>1, <1>6, <2>3
    <3>2. SessionUpTo(i) /\ stripe[sent[i].sub].ws \in Workspaces
      BY <2>3, <3>1, EventIs DEF CaughtUpTo
    <3> QED
      BY <1>1, <1>6, <3>2 DEF SessionUpTo
  <2> QED
    BY <1>1, <2>1, <2>2, <2>3 DEF CaughtUpTo, HasRow
<1>7. CASE /\ e.kind = "invoice" /\ UNCHANGED subscription
           /\ \A s \in Subscriptions : s # e.sub => invoice'[s] = invoice[s]
           /\ HasRow(e.sub) => invoice'[e.sub].status = e.invoice
           /\ ~HasRow(e.sub) => invoice'[e.sub] = invoice[e.sub]
  <2>1. ASSUME NEW w \in Workspaces, subscription[w] # NoRow
        PROVE  RowUpTo(w, n + 1)'
    <3>1. PICK row : row = subscription[w]
      OBVIOUS
    <3>2. row = subscription'[w] /\ RowUpTo(w, n)
      BY <1>7, <2>1, <3>1 DEF CaughtUpTo
    <3> QED
      BY <1>1, <1>3, <1>7, <3>1, <3>2 DEF RowUpTo
  <2>2. ASSUME NEW s \in Subscriptions, HasRow(s)
        PROVE  InvoiceUpTo(s, n + 1)'
    <3>1. CASE s = e.sub
      <4>1. \/ Later("invoice", e.sub, n + 1)
            \/ e.invoice = stripe[e.sub].invoice
        BY <1>a, <1>1, <1>7 DEF StripeOrder
      <4> QED
        BY <1>1, <1>3, <1>7, <2>2, <3>1, <4>1 DEF InvoiceUpTo
    <3>2. CASE s # e.sub
      <4>1. InvoiceUpTo(s, n) /\ invoice'[s] = invoice[s]
        BY <1>7, <2>2, <3>2 DEF CaughtUpTo
      <4> QED
        BY <1>1, <1>3, <3>2, <4>1 DEF InvoiceUpTo
    <3> QED
      BY <3>1, <3>2
  <2>3. ASSUME NEW i \in 1..(n + 1), sent[i].kind = "completed"
        PROVE  SessionUpTo(i)'
    <3>1. i \in 1..n
      BY <1>a, <1>1, <1>7, <2>3
    <3>2. SessionUpTo(i)
      BY <2>3, <3>1 DEF CaughtUpTo
    <3> QED
      BY <1>1, <1>7, <3>2 DEF SessionUpTo
  <2> QED
    BY <1>1, <1>7, <2>1, <2>2, <2>3 DEF CaughtUpTo, HasRow
<1> QED
  BY <1>a, <1>1, <1>5, <1>6, <1>7, ApplyWrites

LEMMA ApplyBegins ==
    ASSUME StripeInv, WebhooksInv, NEW h \in Handlers, apply(h),
           NEW n, at[h] = n + 1, n \in Nat, BegunBy(n + 1)
    PROVE  BegunBy(n + 1)'
<1>a. PICK e : e = sent[n + 1]
  OBVIOUS
<1>1. n + 1 \in 1..Len(sent) /\ sent' = sent /\ e.sub \in Subscriptions
  BY <1>a, AtIs, EventIs DEF apply, stripeVars
<1>2. \A kind, s, k : AfterTo(kind, s, k)' = AfterTo(kind, s, k)
  BY <1>1 DEF AfterTo, IsEvent
<1>3. ASSUME NEW w \in Workspaces, subscription'[w] # NoRow,
             \/ /\ subscription[w] # NoRow
                /\ subscription'[w].sub = subscription[w].sub
             \/ e.kind = "completed" /\ subscription'[w].sub = e.sub
      PROVE  \E i \in 1..Len(sent) :
                 i <= n + 1 /\ IsEvent(i, "completed", subscription'[w].sub)
  <2>1. CASE /\ subscription[w] # NoRow
             /\ subscription'[w].sub = subscription[w].sub
    BY <2>1 DEF BegunBy
  <2>2. CASE e.kind = "completed" /\ subscription'[w].sub = e.sub
    BY <1>a, <1>1, <2>2 DEF IsEvent
  <2> QED
    BY <1>3, <2>1, <2>2
<1>4. \A w \in Workspaces : subscription'[w] # NoRow =>
          \/ /\ subscription[w] # NoRow
             /\ subscription'[w].sub = subscription[w].sub
          \/ e.kind = "completed" /\ subscription'[w].sub = e.sub
  BY <1>a, ApplyWrites
<1>5. ASSUME NEW s \in Subscriptions, invoice'[s] # NoInvoice
      PROVE  AfterTo("invoice", s, n + 1)
  <2>1. \/ invoice'[s] = invoice[s]
        \/ e.kind = "invoice" /\ s = e.sub /\ HasRow(s)
    BY <1>a, ApplyWrites
  <2>2. CASE invoice'[s] = invoice[s]
    BY <1>5, <2>2 DEF BegunBy
  <2>3. CASE e.kind = "invoice" /\ s = e.sub /\ HasRow(s)
    <3>1. PICK i \in 1..Len(sent) : i <= n + 1 /\ IsEvent(i, "completed", s)
      BY <2>3, NamedIsThere DEF BegunBy, HasRow
    <3>2. IsEvent(n + 1, "invoice", s) /\ i # n + 1
      BY <1>a, <2>3, <3>1 DEF IsEvent
    <3> QED
      BY <1>1, <3>1, <3>2 DEF AfterTo
  <2> QED
    BY <2>1, <2>2, <2>3
<1> QED
  BY <1>1, <1>2, <1>3, <1>4, <1>5 DEF BegunBy, IsEvent

LEMMA OrderApply ==
    ASSUME StripeInv, WebhooksInv, OrderInv, NEW h \in Handlers, apply(h)
    PROVE  OrderInv'
<1>1. /\ UNCHANGED <<stripe, sent, answered, orderly, failed>>
      /\ UNCHANGED <<webhookEvent, at, got>> /\ step[h] = "apply"
      /\ step' = [step EXCEPT ![h] = "mark"]
  BY DEF apply, stripeVars, Continue
<1>2. step'[h] = "mark" /\ \A g \in Handlers : g # h => step'[g] = step[g]
  BY <1>1 DEF WebhooksInv, WebhookTypes
<1>3. StripeOrder' /\ Outcomes'
  BY <1>1 DEF OrderInv, Outcomes, StripeOrder, Later
<1>4. ASSUME NEW n \in 0..Len(sent), CaughtUpAt(n)
      PROVE  CaughtUpAt(n)'
  <2>1. CaughtUpTo(n) /\ HandlerAt(h, n) /\ BegunBy(n + 1) /\ n \in Nat
    BY <1>4 DEF CaughtUpAt
  <2>2. /\ at[h] = n + 1
        /\ \A g \in Handlers : step[g] # "idle" => g = h
    BY <1>1, <2>1 DEF HandlerAt
  <2>3. CaughtUpTo(n + 1)' /\ BegunBy(n + 1)'
    BY <2>1, <2>2, ApplyCatchesUp, ApplyBegins DEF OrderInv
  <2>4. CaughtUpTo(n)'
    <3>1. \A kind, s : /\ Later(kind, s, n + 1)' => Later(kind, s, n)'
                       /\ AfterTo(kind, s, n)' => AfterTo(kind, s, n + 1)'
      BY <1>1, <2>1 DEF Later, AfterTo, StripeInv, StripeTypes
    <3>2. /\ \A w \in Workspaces : RowUpTo(w, n + 1)' => RowUpTo(w, n)'
          /\ \A s \in Subscriptions : InvoiceUpTo(s, n + 1)' => InvoiceUpTo(s, n)'
      BY <3>1 DEF RowUpTo, InvoiceUpTo
    <3> QED
      BY <2>1, <2>3, <3>2 DEF CaughtUpTo
  <2>5. ASSUME NEW g \in Handlers PROVE HandlerAt(g, n)'
    BY <1>1, <1>2, <2>2, <2>3 DEF HandlerAt
  <2> QED
    BY <1>1, <1>4, <2>3, <2>4, <2>5 DEF CaughtUpAt
<1> QED
  BY <1>1, <1>3, <1>4 DEF OrderInv, InOrder

LEMMA OrderCreateEvent ==
    ASSUME StripeInv, WebhooksInv, OrderInv, NEW h \in Handlers, createEvent(h)
    PROVE  OrderInv'
<1>1. /\ UNCHANGED <<stripe, sent, rowVars, answered, orderly, failed>>
      /\ UNCHANGED <<at, got>> /\ step[h] = "create"
      /\ webhookEvent[at[h]] = "none"
      /\ webhookEvent' = [webhookEvent EXCEPT ![at[h]] = "PENDING"]
      /\ step' = [step EXCEPT ![h] = FirstStep(at[h])]
  BY DEF createEvent, stripeVars, Continue
<1>2. /\ step'[h] = FirstStep(at[h])
      /\ \A g \in Handlers : g # h =>
             step'[g] = step[g] /\ at'[g] = at[g] /\ got'[g] = got[g]
  BY <1>1 DEF WebhooksInv, WebhookTypes
<1>3. PICK s \in {"create", "retrieve", "apply"} :
          step'[h] = s /\ (s = "apply" => sent[at[h]].kind # "completed")
  BY <1>2 DEF FirstStep
<1>4. Outcomes'
  BY <1>1 DEF OrderInv, Outcomes, WebhooksInv, WebhookTypes
<1> QED
  BY <1>1, <1>2, <1>3, <1>4, OrderAdvances

LEMMA OrderRetrieve ==
    ASSUME StripeInv, WebhooksInv, OrderInv, NEW h \in Handlers, retrieve(h)
    PROVE  OrderInv'
<1>1. /\ UNCHANGED <<stripe, sent, rowVars, answered, orderly, failed>>
      /\ UNCHANGED <<at, webhookEvent>> /\ step[h] = "retrieve"
      /\ got' = [got EXCEPT ![h] = stripe[sent[at[h]].sub].now]
      /\ step' = [step EXCEPT ![h] = "apply"]
  BY DEF retrieve, stripeVars, Continue
<1>2. /\ step'[h] = "apply" /\ got'[h] = stripe[sent[at[h]].sub].now
      /\ \A g \in Handlers : g # h =>
             step'[g] = step[g] /\ at'[g] = at[g] /\ got'[g] = got[g]
  BY <1>1 DEF WebhooksInv, WebhookTypes
<1>3. Outcomes'
  BY <1>1 DEF OrderInv, Outcomes
<1> QED
  BY <1>1, <1>2, <1>3, OrderAdvances

\* The event is answered: it was the first that was not.
LEMMA OrderMarkProcessed ==
    ASSUME StripeInv, WebhooksInv, OrderInv, NEW h \in Handlers,
           markProcessed(h)
    PROVE  OrderInv'
<1>1. /\ UNCHANGED <<stripe, sent, subscription, invoice, orderly, failed>>
      /\ step[h] = "mark" /\ answered' = answered \cup {at[h]}
      /\ webhookEvent' = [webhookEvent EXCEPT ![at[h]] = "PROCESSED"]
      /\ step' = [step EXCEPT ![h] = "idle"]
  BY DEF markProcessed, Settle, Done, Continue, stripeVars, rowVars
<1>2. step'[h] = "idle" /\ \A g \in Handlers : g # h => step'[g] = step[g]
  BY <1>1 DEF WebhooksInv, WebhookTypes
<1>3. at[h] \in 1..Len(sent) /\ at[h] \in 1..MaxEvents /\ Len(sent) \in Nat
  BY <1>1, AtIs DEF StripeInv, StripeTypes
<1>4. /\ StripeOrder' /\ \A k : CaughtUpTo(k)' = CaughtUpTo(k)
      /\ \A k : BegunBy(k)' = BegunBy(k)
  BY <1>1, CaughtUpSame DEF OrderInv
<1>5. Outcomes'
  BY <1>1, <1>3 DEF OrderInv, Outcomes, WebhooksInv, WebhookTypes
<1>6. ASSUME NEW n \in 0..Len(sent), CaughtUpAt(n)
      PROVE  n + 1 \in 0..Len(sent) /\ CaughtUpAt(n + 1)'
  <2>1. /\ at[h] = n + 1 /\ CaughtUpTo(n + 1) /\ answered = 1..n
        /\ \A g \in Handlers : step[g] # "idle" => g = h
    BY <1>1, <1>6 DEF CaughtUpAt, HandlerAt
  <2>2. answered' = 1..(n + 1)
    BY <1>1, <1>3, <2>1
  <2>4. BegunBy(n + 2)
    BY <1>6 DEF CaughtUpAt, BegunBy, AfterTo
  <2>3. \A g \in Handlers : HandlerAt(g, n + 1)'
    BY <1>2, <2>1 DEF HandlerAt
  <2> QED
    BY <1>3, <1>4, <2>1, <2>2, <2>3, <2>4 DEF CaughtUpAt
<1> QED
  BY <1>1, <1>4, <1>5, <1>6 DEF OrderInv, InOrder

LEMMA OrderMarkFailed ==
    ASSUME StripeInv, WebhooksInv, OrderInv, NEW h \in Handlers, markFailed(h)
    PROVE  OrderInv'
<1>1. /\ UNCHANGED <<stripe, sent, subscription, invoice>>
      /\ step[h] = "fail" /\ failed' = TRUE
      /\ answered' = answered \cup {at[h]}
      /\ webhookEvent' = [webhookEvent EXCEPT ![at[h]] = "FAILED"]
  BY DEF markFailed, Settle, stripeVars, rowVars
<1>2. StripeOrder'
  BY <1>1, CaughtUpSame DEF OrderInv
<1>3. Outcomes'
  BY <1>1 DEF OrderInv, Outcomes, WebhooksInv, WebhookTypes
<1> QED
  BY <1>1, <1>2, <1>3 DEF OrderInv, InOrder

\* The other steps leave the rows alone, and handlers retreat or rest.
LEMMA OrderQuiet ==
    ASSUME WebhooksInv, OrderInv,
           \/ createCheckoutSession \/ Restart \/ UNCHANGED vars
           \/ \E h \in Handlers : \/ createEventThrows(h) \/ eventThrows(h)
                                  \/ markFailedThrows(h)
    PROVE  OrderInv'
<1>1. /\ UNCHANGED <<stripe, sent, rowVars, answered, orderly, failed>>
      /\ UNCHANGED webhookEvent
  BY DEF createCheckoutSession, findCustomer, customersCreate, storeCustomer,
         checkoutThrows, sessionsCreate, Restart, vars, createEventThrows,
         eventThrows, markFailedThrows, stripeVars
<1>2. ASSUME NEW g \in Handlers PROVE Retreats(g)
  <2>1. CASE createCheckoutSession \/ UNCHANGED vars
    BY <2>1 DEF createCheckoutSession, findCustomer, customersCreate,
                storeCustomer, checkoutThrows, sessionsCreate, vars,
                handlerVars, Retreats
  <2>2. CASE Restart
    BY <2>2 DEF Restart, Retreats
  <2>3. ASSUME NEW h \in Handlers,
               createEventThrows(h) \/ eventThrows(h) \/ markFailedThrows(h)
        PROVE  Retreats(g)
    BY <2>3 DEF createEventThrows, eventThrows, markFailedThrows, Done,
                Continue, Retreats, WebhooksInv, WebhookTypes
  <2> QED
    BY <2>1, <2>2, <2>3
<1>3. Outcomes'
  BY <1>1 DEF OrderInv, Outcomes
<1> QED
  BY <1>1, <1>2, <1>3, OrderRetreats

LEMMA OrderInit == Init => OrderInv
<1> SUFFICES ASSUME Init PROVE OrderInv
  OBVIOUS
<1>1. Len(sent) = 0 /\ answered = {}
  BY DEF Init
<1>2. StripeOrder
  BY <1>1 DEF Init, StripeOrder
<1>3. Outcomes
  BY DEF Init, Outcomes
<1>4. CaughtUpAt(0)
  <2>1. /\ \A w \in Workspaces : subscription[w] = NoRow
        /\ \A s \in Subscriptions : invoice[s] = NoInvoice
    BY DEF Init
  <2>2. CaughtUpTo(0) /\ BegunBy(0 + 1)
    BY <1>1, <2>1, NamedIsThere DEF CaughtUpTo, BegunBy, HasRow
  <2> QED
    BY <1>1, <2>2 DEF Init, CaughtUpAt, HandlerAt
<1> QED
  BY <1>1, <1>2, <1>3, <1>4 DEF OrderInv, InOrder

LEMMA OrderStep == IInv /\ OrderInv /\ [Next]_vars => OrderInv'
<1> SUFFICES ASSUME IInv, OrderInv, [Next]_vars PROVE OrderInv'
  OBVIOUS
<1>1. CheckoutsInv /\ StripeInv /\ WebhooksInv
  BY DEF IInv
<1>2. CASE createCheckoutSession \/ Restart \/ UNCHANGED vars
  BY <1>1, <1>2, OrderQuiet
<1>3. CASE Stripe
  BY <1>1, <1>3, OrderStripe
<1>4. ASSUME NEW e \in 1..MaxEvents, Deliver(e) PROVE OrderInv'
  BY <1>1, <1>4, OrderDeliver
<1>5. ASSUME NEW h \in Handlers, Handle(h) PROVE OrderInv'
  BY <1>1, <1>5, OrderQuiet, OrderCreateEvent, OrderRetrieve, OrderApply,
     OrderMarkProcessed, OrderMarkFailed DEF Handle
<1> QED
  BY <1>2, <1>3, <1>4, <1>5 DEF Next

THEOREM OrderInductive == Spec => [](IInv /\ OrderInv)
<1>1. Init => IInv /\ OrderInv
  BY InvInit, OrderInit
<1>2. IInv /\ OrderInv /\ [Next]_vars => IInv' /\ OrderInv'
  BY InvStep, OrderStep
<1> QED
  BY <1>1, <1>2, PTL DEF Spec

\* Delivered in order, whatever is repeated, fails or restarts, the rows end
\* up as Stripe has them unless an event was FAILED ("Idempotency Check" in
\* BillingService.handleWebhook).
THEOREM CaughtUpHolds == Spec => []CaughtUp
<1>1. IInv /\ OrderInv => CaughtUp
  <2> SUFFICES ASSUME IInv, OrderInv, orderly, Quiescent, ~failed
               PROVE  CaughtUp
    BY DEF CaughtUp
  <2>1. Len(sent) \in Nat
    BY DEF IInv, StripeInv, StripeTypes
  <2>2. PICK n \in 0..Len(sent) : CaughtUpAt(n)
    BY DEF OrderInv, InOrder
  <2>3. n = Len(sent)
    <3>1. 1..n = 1..Len(sent)
      BY <2>2 DEF CaughtUpAt, Quiescent
    <3> QED
      BY <2>1, <3>1
  <2>4. /\ CaughtUpTo(Len(sent)) /\ BegunBy(Len(sent) + 1)
        /\ \A kind, s : ~Later(kind, s, Len(sent))
    BY <2>1, <2>2, <2>3 DEF CaughtUpAt, Later
  <2>5. \A kind, s : /\ AfterTo(kind, s, Len(sent)) = AfterSession(kind, s)
                     /\ AfterTo(kind, s, Len(sent) + 1) = AfterSession(kind, s)
    BY <2>1 DEF AfterTo, AfterSession
  <2>6. ASSUME NEW w \in Workspaces, subscription[w] # NoRow,
               NEW row, row = subscription[w], NEW now, now = stripe[row.sub]
        PROVE  /\ row.status = now.now /\ row.plan = now.plan
               /\ AfterSession("updated", row.sub) => row.cancel = now.cancel
               /\ invoice[row.sub].status =
                      IF AfterSession("invoice", row.sub) THEN now.invoice
                                                          ELSE NULL
    <3>1. row.sub \in Subscriptions /\ HasRow(row.sub)
      BY <2>6, RowIs DEF IInv, HasRow
    <3>2. RowUpTo(w, Len(sent)) /\ InvoiceUpTo(row.sub, Len(sent))
      BY <2>4, <2>6, <3>1 DEF CaughtUpTo
    <3>3. ~AfterSession("invoice", row.sub) => invoice[row.sub].status = NULL
      BY <2>4, <2>5, <3>1 DEF BegunBy, NoInvoice
    <3> QED
      BY <2>4, <2>5, <2>6, <3>2, <3>3 DEF RowUpTo, InvoiceUpTo
  <2>7. ASSUME NEW i \in 1..Len(sent), sent[i].kind = "completed"
        PROVE  SessionUpTo(i)
    BY <2>4, <2>7 DEF CaughtUpTo
  <2> QED
    BY <2>6, <2>7 DEF CaughtUp, SessionUpTo
<1> QED
  BY <1>1, OrderInductive, PTL
=============================================================================
